---------------------------- MODULE MCTaskSpool ----------------------------
(* Instances of TaskSpool.  A cfg chooses in Session which of the RPCs are *)
(* served, interleaved; each is one handler invocation.                    *)
EXTENDS TaskSpoolProofs, TLC

CONSTANTS create, streamIn, run, signal, streamOut

Kind ==
  create :> "create" @@ streamIn  :> "stream_in"  @@ run :> "run" @@
  signal :> "signal" @@ streamOut :> "stream_out"

MCRpc    == [s \in Session |-> Kind[s]]
MCTarget == [s \in Session |-> IF s = signal THEN run ELSE s]
=============================================================================
