---------------------------- MODULE MCGrpcServer ----------------------------
(* Two RPCs that differ in all that the model tells apart: one writes its  *)
(* file back when it closes it, the other goes on without a mount; both    *)
(* can be held by their clients.                                           *)
EXTENDS GrpcServer

CONSTANTS c1, c2

MCKind == [c \in Call |-> IF c = c1 THEN "StreamIn" ELSE "StreamOut"]
=============================================================================
