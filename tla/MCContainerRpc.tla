--------------------------- MODULE MCContainerRpc ---------------------------
(* Instances of ContainerRpc, with the RPCs of MCTaskSpool.                *)
EXTENDS ContainerRpc, TLC

CONSTANTS create, streamIn, run, signal, streamOut

Kind ==
  create :> "create" @@ streamIn  :> "stream_in"  @@ run :> "run" @@
  signal :> "signal" @@ streamOut :> "stream_out"

MCRpc    == [s \in Session |-> Kind[s]]
MCTarget == [s \in Session |-> IF s = signal THEN run ELSE s]
=============================================================================
