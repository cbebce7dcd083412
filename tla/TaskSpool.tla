----------------------------- MODULE TaskSpool -----------------------------
(***************************************************************************)
(* The task protocol over the swap root: the RPC handlers of Dispatcher    *)
(* and the daemon and shells of Daemon, interleaved at the granularity of  *)
(* one operation on the share, with the container group coming and going.  *)
(***************************************************************************)
EXTENDS Dispatcher, Daemon, FiniteSets

vars == <<swapVars, hostVars, daemonVars>>

Init == SwapInit /\ DispatchInit /\ DaemonInit

(* The container group ends: destroyed, or stopped by ACI.  RestartPolicy  *)
(* is Never, so the daemon does not come back.                             *)
ContainerGone ==
  /\ "container" \in Faults /\ container = "running"
  /\ container' = "gone"
  /\ UNCHANGED <<hostFiles, script, taskFiles, hostVars, daemonVars>>

Host(s) == DispatchStep(s) /\ UNCHANGED <<taskFiles, daemonVars>>

InContainer == container = "running" /\ UNCHANGED <<hostFiles, container, hostVars>>

RunDaemon     == InContainer /\ DaemonStep
Shell(t, k)   == InContainer /\ ShellStep(t, k)
Command(t, k) == InContainer /\ CommandEnds(t, k)

Next ==
  \/ \E s \in Session : Host(s)
  \/ RunDaemon
  \/ \E t \in Task, k \in Attempt : Shell(t, k) \/ Command(t, k)
  \/ ContainerGone

(* A StreamIn receives until its client ends the stream.                   *)
Receiving(s) == Rpc[s] = "stream_in" /\ pc[s] = "stage"

(* Handler goroutines, the daemon and the shells are scheduled, and their  *)
(* system calls return; a client need not end its stream.  The helper      *)
(* commands (mkdir, chmod, rsync, tar, kill) end; the process of a Run may *)
(* go on for ever.                                                         *)
Fairness ==
  /\ \A s \in Session : WF_vars(Host(s) /\ ~Receiving(s))
  /\ WF_vars(RunDaemon)
  /\ \A t \in Task, k \in Attempt :
       /\ WF_vars(Shell(t, k))
       /\ Rpc[t[1]] # "run" => WF_vars(Command(t, k))

Spec     == Init /\ [][Next]_vars
FairSpec == Spec /\ Fairness

-----------------------------------------------------------------------------
TypeOK == SwapTypeOK /\ DispatchTypeOK /\ DaemonTypeOK

Begun(t)    == tries[t] > 0
Ended(t)    == Begun(t) /\ \A k \in Attempt : ~Alive(t, k)
Executed(t) == script[t] = "executed"
Serial(t)   == Step(t) # "run"
Earlier(t, u) == t[1] = u[1] /\ t[2] < u[2]

(* A script the daemon executes is whole, and so is the folder that a      *)
(* Create unpacks, wherever the handler that wrote it stopped: temp file,  *)
(* a close that is looked at, then the rename.  The env file and the file  *)
(* of a StreamIn are whole then only if the mount holds no writes back: of *)
(* the one the Close is not looked at, the other is closed only after the  *)
(* dispatch.                                                               *)
WholeWhenExecuted ==
  \A t \in Task : Begun(t) =>
    /\ t \in body
    /\ Rpc[t[1]] = "create" => t[2] <= staged[t[1]]
    /\ "write_back" \notin Faults =>
         /\ t \in env
         /\ Rpc[t[1]] = "stream_in" => t[2] <= staged[t[1]]

(* The tasks of one RPC take effect one after the other: mkdir is over     *)
(* before chmod starts, chmod before tar or rsync, and so for every bind   *)
(* mount of a Create.  The handlers never wait between two scheduleTask    *)
(* calls; they rely on the daemon for this, also when an mv fails and a    *)
(* task is executed again.                                                 *)
InOrder ==
  \A t, u \in Task : Earlier(t, u) /\ Begun(u) => Executed(t) /\ Ended(t)

(* No two stream tasks, of whatever RPCs, run at the same time: a tar-cf   *)
(* never reads a folder that a tar -xf or an rsync is filling.             *)
StreamsExclusive ==
  \A t \in Task : \A k \in Attempt : Serial(t) /\ Alive(t, k) =>
    \A u \in Task : \A l \in Attempt : Serial(u) /\ Alive(u, l) => t = u /\ k = l

(* Across RPCs a folder is a FIFO queue: a task is not started while one   *)
(* that was published before it in the same folder has not been.           *)
Fifo ==
  \A u \in Task : Published(u) /\ Begun(u) =>
    \A t \in Task :
      Published(t) /\ ctime[t] < ctime[u] /\ Step(t) = Step(u) => Executed(t)

(* Files go in before processes start: when the daemon has chosen a run or *)
(* stream_out task, every stream_in task published up to its last listing  *)
(* of stream_in is over.                                                   *)
StreamInFirst ==
  dpc \in {"exec", "wait", "mv"} /\ Step(cur) # "stream_in" =>
    \A t \in Task :
      Step(t) = "stream_in" /\ Published(t) /\ ctime[t] <= scanned
        => Executed(t) /\ Ended(t)

(* An archive holds what was streamed in before it was asked for: when the *)
(* tar of a StreamOut begins, every stream_in task published before the    *)
(* mkdir of that StreamOut is over, also one that no listing had shown     *)
(* when the mkdir was taken.  (A Run has only StreamInFirst: its one task  *)
(* may overtake a StreamIn published since the last listing of stream_in.) *)
ArchiveSeesStreamIns ==
  \A t, u \in Task :
    /\ Step(t) = "stream_in" /\ Published(t)
    /\ Step(u) = "stream_out" /\ u[2] = 2 /\ Begun(u)
    /\ ctime[t] < ctime[<<u[1], 1>>]
    => Executed(t) /\ Ended(t)

(* A task is executed once, unless an mv fails.                            *)
AtMostOnce == "mv" \notin Faults => \A t \in Task : tries[t] <= 1

(* A written exit file is the word of the last execution: none is going on *)
(* when it can be read (as long as no mv fails).                           *)
ExitFileFinal ==
  "mv" \notin Faults =>
    \A t \in Task : exitFile[t] = "written" => Ended(t)

(* The daemon is done with a stream task only when its exit status is on  *)
(* the share, however slowly the shells start; the exceptions are users    *)
(* that su refuses, for whom no exit file is ever written.                 *)
StreamTaskLeavesExit ==
  "su" \notin Faults =>
    \A t \in Task : Serial(t) /\ Executed(t) => exitFile[t] = "written"

-----------------------------------------------------------------------------
(* A published script is never taken back nor reordered, whatever becomes  *)
(* of the handler that published it or of the container, and an executed   *)
(* one never becomes visible again.                                        *)
StaysPublished ==
  [][\A t \in Task : Published(t) =>
       /\ Published(t)'
       /\ Executed(t) => Executed(t)'
       /\ ctime'[t] = ctime[t]]_vars

-----------------------------------------------------------------------------
(* The protocol implements the promise of TaskPipeline: an item is begun   *)
(* while the daemon executes its script and done when the script has been  *)
(* renamed; when the mv fails it is posted again.                          *)
InHand(t) == cur = t /\ dpc \in {"wait", "mv"}

StageOf(t) ==
  CASE ~Published(t)                  -> "todo"
    [] script[t] = "sh" /\ ~InHand(t) -> "posted"
    [] script[t] = "sh" /\ InHand(t)  -> "begun"
    [] Executed(t)                    -> "done"

Pipeline == INSTANCE TaskPipeline WITH
  Item      <- Task,
  Exclusive <- {t \in Task : Serial(t)},
  stage     <- [t \in Task |-> StageOf(t)]

(* Every behaviour of handlers, daemon and shells is one of the pipeline.  *)
ImplementsPipeline == Pipeline!Spec

(* The scripts that the daemon takes before t.                             *)
Ahead(t) == {u \in Visible(Step(t)) : ctime[u] < ctime[t]}

Rounds == INSTANCE DaemonRounds WITH
  Item   <- Task,
  Free   <- NoTask,
  Away   <- "none",
  folder <- [t \in Task |-> IF script[t] = "sh" THEN Step(t) ELSE "none"],
  ahead  <- [t \in Task |-> IF script[t] = "sh" THEN Cardinality(Ahead(t)) ELSE 0],
  at     <- CASE dpc = "scan_run" -> "run"
              [] dpc = "scan_out" -> "stream_out"
              [] OTHER            -> "stream_in",
  hand   <- cur

(* The daemon goes its rounds as DaemonRounds has them, whatever handlers  *)
(* and shells do meanwhile: what is found there of tasks that arrive       *)
(* without end is found of this daemon.                                    *)
ImplementsRounds == Rounds!Spec
=============================================================================
