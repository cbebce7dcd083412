------------------------- MODULE ContainerRpcProofs -------------------------
(***************************************************************************)
(* Proofs about what the clients are told.  Every step of ContainerRpc is  *)
(* a step of TaskSpool or leaves its variables alone, so the invariants of *)
(* TaskSpoolProofs carry over; on them rest the invariants that relate the *)
(* answers to the state of the share.                                      *)
(***************************************************************************)
EXTENDS ContainerRpc, TaskSpoolProofs

(* An execution that has a command, and has written down its pid.          *)
Started == {"waiting", "exited", "exit", "ended"}

HasPid(t) == \E k \in Attempt : proc[t][k] \in Started

(* How far a handler must be to have nothing, or everything, published.    *)
DoneInv ==
  \A s \in Session :
    /\ pc[s] = "sent" => sent[s] = Size(s)
    /\ pc[s] = "skipped" => Rpc[s] = "stream_in"
    /\ pc[s] \in {"stage", "skipped"} /\ Rpc[s] = "stream_in" =>
         \A i \in 1 .. Size(s) : script[<<s, i>>] = "none"
    /\ Rpc[s] = "signal" => pc[s] \in {"pid", "env", "temp", "body", "rename", "sent", "failed"}

(* A pid file that can be read names a command that was started; a Signal  *)
(* is past its first step only when it has read one.                       *)
PidInv ==
  /\ \A t \in Task : pidFile[t] = "written" => HasPid(t)
  /\ \A s \in Session : Rpc[s] = "signal" =>
       (pc[s] \in {"pid", "failed"} /\ sent[s] = 0) \/ HasPid(<<Target[s], 1>>)

(* The answers.                                                            *)
AnswerInv ==
  \A s \in Session :
    /\ reply[s] # "none" => pc[s] \in Returning
    /\ reply[s] = "ok" => pc[s] \in {"sent", "skipped"}
    /\ got[s] # "none" => reply[s] # "none"
    /\ "mv" \notin Faults /\ got[s] = "partial" => polls[s] = MaxPolls
    /\ "mv" \notin Faults /\ wait[s] = "exited" => exitFile[<<s, 1>>] = "written"
    /\ wait[s] # "none" => Rpc[s] = "run"

RpcInv == RpcTypeOK /\ DoneInv /\ PidInv /\ AnswerInv

-----------------------------------------------------------------------------
(* What carries over from TaskSpool.                                       *)

LEMMA StepOfSpool == [RpcNext]_<<vars, rpcVars>> => [Next]_vars
  BY DEF RpcNext, Handler, Client, BreakOff

LEMMA SpecOfSpool == RpcSpec => Spec
  <1>1. RpcInit => Init
    BY DEF RpcInit
  <1> QED
    BY <1>1, StepOfSpool, PTL DEF RpcSpec, Spec

LEMMA FirstTask ==
  ASSUME NEW s \in Session
  PROVE  Rpc[s] \in {"run", "signal", "stream_out"} => <<s, 1>> \in Task
  <1>1. Rpc[s] \in {"run", "signal", "stream_out"} => 1 \in 1 .. Size(s)
    BY SwapRootAssumption DEF Size
  <1> QED
    BY <1>1, TaskElem

LEMMA InitRpcInv == RpcInit => RpcInv
  <1> SUFFICES ASSUME RpcInit PROVE RpcInv
    OBVIOUS
  <1> USE DEF RpcInit, Init, SwapInit, DispatchInit
  <1>1. RpcTypeOK
    BY MaxPollsAssumption DEF RpcTypeOK
  <1>2. DoneInv
    <2>1. \A s \in Session : pc[s] \notin {"sent", "skipped"}
      BY DEF Entry
    <2>2. \A s \in Session : Rpc[s] = "signal" => pc[s] = "pid"
      BY DEF Entry
    <2> QED
      BY <2>1, <2>2, TaskElem DEF DoneInv
  <1>3. PidInv
    <2>1. \A s \in Session : Rpc[s] = "signal" => pc[s] = "pid"
      BY DEF Entry
    <2> QED
      BY <2>1 DEF PidInv
  <1>4. AnswerInv
    BY DEF AnswerInv
  <1> QED
    BY <1>1, <1>2, <1>3, <1>4 DEF RpcInv

-----------------------------------------------------------------------------
(* Steps of the share, the handlers' dispatch and the container.           *)

(* A handler's step changes nothing of another handler, and its scripts    *)
(* only at the task being scheduled.                                       *)
LEMMA DispatchDone ==
  ASSUME IInv, DoneInv, NEW r \in Session, Host(r)
  PROVE  DoneInv'
  <1>1. /\ pc \in [Session -> PCs] /\ sent \in [Session -> Nat]
        /\ script \in [Task -> Names]
    BY DEF IInv, TypeOK, SwapTypeOK, DispatchTypeOK
  <1>2. \A s \in Session : Size(s) \in Nat /\ Rpc[s] \in RpcKind
    BY SizeFacts
  <1> SUFFICES ASSUME NEW s \in Session
               PROVE  /\ pc'[s] = "sent" => sent'[s] = Size(s)
                      /\ pc'[s] = "skipped" => Rpc[s] = "stream_in"
                      /\ pc'[s] \in {"stage", "skipped"} /\ Rpc[s] = "stream_in" =>
                           \A i \in 1 .. Size(s) : script'[<<s, i>>] = "none"
                      /\ Rpc[s] = "signal" =>
                           pc'[s] \in {"pid", "env", "temp", "body", "rename", "sent", "failed"}
    BY DEF DoneInv
  <1>3. CASE s # r
    <2>1. pc'[s] = pc[s] /\ sent'[s] = sent[s]
      BY <1>1, <1>3 DEF Host, DispatchStep, Prepare, WriteEntryScript, CreateContainerGroup, MakeInFolder,
         Stage, SkipExtract, ReadPid, Schedule, WriteEnv, CreateTemp, WriteScript,
         Publish, Fail, Goto
    <2>2. \A i \in 1 .. Size(s) : script'[<<s, i>>] = script[<<s, i>>]
      <3>1. script' = script \/ \E to : script' = [script EXCEPT ![Current(r)] = to]
        BY DEF Host, DispatchStep, Prepare, WriteEntryScript, CreateContainerGroup, MakeInFolder,
           Stage, SkipExtract, ReadPid, Schedule, WriteEnv, CreateTemp, WriteScript,
           Publish, Fail
      <3> QED
        BY <1>1, <1>3, <3>1, TaskElem DEF Current
    <2> QED
      BY <2>1, <2>2 DEF DoneInv
  <1>4. CASE s = r
    <2> USE <1>1, <1>2, <1>4 DEF DoneInv, Goto
    <2>1. CASE Rpc[r] = "create" /\ (Prepare(r) \/ WriteEntryScript(r) \/ MakeInFolder(r))
      BY <2>1 DEF Prepare, WriteEntryScript, MakeInFolder
    <2>2. CASE Rpc[r] = "create" /\ CreateContainerGroup(r)
      <3>1. sent[r] = 0 /\ (BindMounts = 0 => Size(r) = 0)
        BY <2>2 DEF IInv, PlanInv, CreateContainerGroup, Size
      <3> QED
        BY <2>2, <3>1 DEF CreateContainerGroup
    <2>3. CASE Stage(r) \/ SkipExtract(r)
      BY <2>3 DEF Stage, SkipExtract
    <2>4. CASE ReadPid(r) \/ WriteEnv(r) \/ CreateTemp(r) \/ WriteScript(r)
      BY <2>4 DEF ReadPid, WriteEnv, CreateTemp, WriteScript
    <2>5. CASE Publish(r)
      <3>1. pc'[r] \in {"sent", "mkin", "env"} /\ (pc'[r] = "sent" => sent[r] + 1 = Size(r))
        BY <2>5 DEF Publish, AfterTask
      <3>2. sent'[r] = sent[r] + 1
        BY <2>5 DEF Publish
      <3>3. Rpc[r] = "signal" => pc'[r] # "mkin"
        <4>1. Rpc[r] = "signal" => Size(r) = 1
          BY SizeFacts
        <4> QED
          BY <2>5, <4>1 DEF Publish, AfterTask, IInv, PlanInv
      <3> QED
        BY <3>1, <3>2, <3>3
    <2>6. CASE Fail(r)
      BY <2>6 DEF Fail
    <2> QED
      BY <2>1, <2>2, <2>3, <2>4, <2>5, <2>6 DEF Host, DispatchStep, Schedule
  <1> QED
    BY <1>3, <1>4

(* A handler that has returned from its dispatch stays where it is.        *)
LEMMA Returned ==
  ASSUME IInv, [Next]_vars, NEW s \in Session, pc[s] \in Returning
  PROVE  pc'[s] = pc[s]
  <1>1. pc \in [Session -> PCs]
    BY DEF IInv, TypeOK, DispatchTypeOK
  <1>2. CASE \E r \in Session : Host(r)
    BY <1>1, <1>2 DEF Host, DispatchStep, Prepare, WriteEntryScript, CreateContainerGroup, MakeInFolder,
       Stage, SkipExtract, ReadPid, Schedule, WriteEnv, CreateTemp, WriteScript,
       Publish, Fail, Goto, Returning
  <1>3. CASE ~(\E r \in Session : Host(r))
    BY <1>3 DEF Next, RunDaemon, Shell, Command, InContainer, ContainerGone, vars, hostVars
  <1> QED
    BY <1>2, <1>3

(* No step but those of a handler changes its place, its plan or the part  *)
(* of the scripts that it has not published.                               *)
LEMMA NextDone == IInv /\ DoneInv /\ [Next]_vars => DoneInv'
  <1> SUFFICES ASSUME IInv, DoneInv, [Next]_vars PROVE DoneInv'
    OBVIOUS
  <1>1. CASE \E r \in Session : Host(r)
    BY <1>1, DispatchDone
  <1>2. CASE ~(\E r \in Session : Host(r))
    <2>1. UNCHANGED hostVars
      BY <1>2 DEF Next, RunDaemon, Shell, Command, InContainer, ContainerGone, vars
    <2>2. script' = script \/ (dpc = "mv" /\ script' = [script EXCEPT ![cur] = "executed"])
      BY <1>2 DEF Next, RunDaemon, Shell, Command, ContainerGone, vars, swapVars,
         DaemonStep, ListStreamIn, ListRun, ListStreamOut,
         List, Exec, Reap, Mv, MvFails, NextRound, ShellStep, CommandEnds, OpenScript,
         SuFails, StartCommand, OpenPidFile, WritePidFile, OpenExitFile, WriteExitFile, Advance
    <2>3. dpc = "mv" => script \in [Task -> Names] /\ cur \in Task /\ script[cur] = "sh"
      BY DEF IInv, TypeOK, SwapTypeOK, HandInv, Busy
    <2>4. \A t \in Task : script[t] = "none" => script'[t] = "none"
      BY <2>2, <2>3
    <2> QED
      BY <2>1, <2>4, TaskElem DEF DoneInv, hostVars
  <1> QED
    BY <1>1, <1>2

-----------------------------------------------------------------------------
(* Pid files.                                                              *)

(* An execution that has a pid keeps it.                                   *)
LEMMA PidKept ==
  ASSUME IInv, [Next]_vars, NEW t \in Task, HasPid(t)
  PROVE  HasPid(t)'
  <1>1. proc \in [Task -> [Attempt -> ProcStates]]
    BY DEF IInv, TypeOK, DaemonTypeOK
  <1>2. PICK k \in Attempt : proc[t][k] \in Started
    BY DEF HasPid
  <1>3. SUFFICES proc'[t][k] \in Started
    BY DEF HasPid
  <1>4. CASE \E s \in Session : Host(s)
    BY <1>2, <1>4 DEF Host, daemonVars
  <1>5. CASE RunDaemon
    <2>1. CASE Exec
      <3>1. cur \in Task /\ tries[cur] \in Nat
        BY <2>1 DEF Exec, IInv, HandInv, Busy, TypeOK, DaemonTypeOK
      <3>2. ~(t = cur /\ k = tries[cur] + 1)
        BY <1>2, <3>1 DEF IInv, ExecInv, Started, Attempt
      <3> QED
        BY <1>1, <1>2, <2>1, <3>2 DEF Exec
    <2>2. CASE ~Exec
      BY <1>2, <1>5, <2>2 DEF RunDaemon, DaemonStep, ListStreamIn, ListRun, ListStreamOut,
         List, Reap, Mv, MvFails, NextRound
    <2> QED
      BY <2>1, <2>2
  <1>6. CASE \E u \in Task, l \in Attempt : Shell(u, l) \/ Command(u, l)
    <2>1. PICK u \in Task, l \in Attempt : Shell(u, l) \/ Command(u, l)
      BY <1>6
    <2>2. PICK to \in ProcStates : /\ proc' = [proc EXCEPT ![u][l] = to]
                                   /\ proc[u][l] \in Started => to \in Started
      BY <2>1 DEF Shell, Command, ShellStep, OpenScript, SuFails, StartCommand, CommandEnds,
         OpenPidFile, WritePidFile, OpenExitFile, WriteExitFile, Advance, Started, ProcStates
    <2> QED
      BY <1>1, <1>2, <2>2
  <1>7. CASE ContainerGone \/ UNCHANGED vars
    BY <1>2, <1>7 DEF ContainerGone, vars, daemonVars
  <1> QED
    BY <1>4, <1>5, <1>6, <1>7 DEF Next

LEMMA PidWritten ==
  ASSUME IInv, [Next]_vars, NEW t \in Task, pidFile'[t] = "written"
  PROVE  pidFile[t] = "written" \/ HasPid(t)'
  <1>1. pidFile \in [Task -> Contents] /\ proc \in [Task -> [Attempt -> ProcStates]]
    BY DEF IInv, TypeOK, SwapTypeOK, DaemonTypeOK
  <1>2. CASE \E u \in Task, l \in Attempt : Shell(u, l)
    <2>1. PICK u \in Task, l \in Attempt : Shell(u, l)
      BY <1>2
    <2>2. CASE WritePidFile(u, l)
      BY <1>1, <2>1, <2>2 DEF WritePidFile, Advance, HasPid, Started
    <2>3. CASE OpenPidFile(u, l)
      BY <1>1, <2>1, <2>3 DEF OpenPidFile
    <2>4. CASE ~WritePidFile(u, l) /\ ~OpenPidFile(u, l)
      BY <2>1, <2>4 DEF Shell, ShellStep, OpenScript, SuFails, StartCommand,
         OpenExitFile, WriteExitFile, taskFiles
    <2> QED
      BY <2>2, <2>3, <2>4
  <1>3. CASE ~(\E u \in Task, l \in Attempt : Shell(u, l))
    BY <1>3 DEF Next, Host, RunDaemon, Command, CommandEnds, ContainerGone, vars, swapVars,
       taskFiles, DaemonStep, ListStreamIn, ListRun, ListStreamOut, List, Exec, Reap, Mv,
       MvFails, NextRound
  <1> QED
    BY <1>2, <1>3

LEMMA NextPid == IInv /\ DoneInv /\ PidInv /\ [Next]_vars => PidInv'
  <1> SUFFICES ASSUME IInv, DoneInv, PidInv, [Next]_vars PROVE PidInv'
    OBVIOUS
  <1>1. ASSUME NEW t \in Task, pidFile'[t] = "written" PROVE HasPid(t)'
    BY <1>1, PidWritten, PidKept DEF PidInv
  <1>2. ASSUME NEW s \in Session, Rpc[s] = "signal"
        PROVE  (pc'[s] \in {"pid", "failed"} /\ sent'[s] = 0) \/ HasPid(<<Target[s], 1>>)'
    <2>1. Target[s] \in Session /\ <<Target[s], 1>> \in Task
      BY <1>2, SwapRootAssumption, FirstTask
    <2>2. CASE HasPid(<<Target[s], 1>>)
      BY <2>1, <2>2, PidKept
    <2>3. CASE ~HasPid(<<Target[s], 1>>)
      <3>1. pc[s] \in {"pid", "failed"} /\ sent[s] = 0
        BY <1>2, <2>3 DEF PidInv
      <3>2. pidFile[<<Target[s], 1>>] # "written"
        BY <2>1, <2>3 DEF PidInv
      <3>3. pc \in [Session -> PCs] /\ sent \in [Session -> Nat]
        BY DEF IInv, TypeOK, DispatchTypeOK
      <3>4. CASE \E r \in Session : Host(r)
        BY <3>1, <3>2, <3>3, <3>4
        DEF Host, DispatchStep, Prepare, WriteEntryScript, CreateContainerGroup, MakeInFolder,
            Stage, SkipExtract, ReadPid, Schedule, WriteEnv, CreateTemp, WriteScript,
            Publish, Fail, Goto
      <3>5. CASE ~(\E r \in Session : Host(r))
        BY <3>1, <3>5 DEF Next, RunDaemon, Shell, Command, InContainer, ContainerGone,
           vars, hostVars
      <3> QED
        BY <3>4, <3>5
    <2> QED
      BY <2>2, <2>3
  <1> QED
    BY <1>1, <1>2 DEF PidInv

-----------------------------------------------------------------------------
(* The exit file of a task that is read as written stays so.               *)
LEMMA ExitKept ==
  ASSUME IInv, ExitInv, ExitFileFinal, [Next]_vars, "mv" \notin Faults,
         NEW t \in Task, exitFile[t] = "written"
  PROVE  exitFile'[t] = "written"
  <1>1. exitFile \in [Task -> Contents] /\ \A k \in Attempt : ~Alive(t, k)
    BY DEF IInv, TypeOK, SwapTypeOK, ExitFileFinal, Ended
  <1>2. CASE \E u \in Task, l \in Attempt : Shell(u, l)
    <2>1. PICK u \in Task, l \in Attempt : Shell(u, l)
      BY <1>2
    <2>2. CASE OpenExitFile(u, l) \/ WriteExitFile(u, l)
      <3>1. u # t
        BY <1>1, <2>2 DEF OpenExitFile, WriteExitFile, Advance, Alive
      <3> QED
        BY <1>1, <2>2, <3>1 DEF OpenExitFile, WriteExitFile
    <2>3. CASE ~(OpenExitFile(u, l) \/ WriteExitFile(u, l))
      BY <2>1, <2>3 DEF Shell, ShellStep, OpenScript, SuFails, StartCommand,
         OpenPidFile, WritePidFile, taskFiles
    <2> QED
      BY <2>2, <2>3
  <1>3. CASE ~(\E u \in Task, l \in Attempt : Shell(u, l))
    BY <1>3 DEF Next, Host, RunDaemon, Command, CommandEnds, ContainerGone, vars, swapVars,
       taskFiles, DaemonStep, ListStreamIn, ListRun, ListStreamOut, List, Exec, Reap, Mv,
       MvFails, NextRound
  <1> QED
    BY <1>2, <1>3

(* A step of the spool gives no answer and makes none untrue.              *)
LEMMA SpoolAnswer ==
  ASSUME IInv, ExitInv, ExitFileFinal, [Next]_vars, RpcTypeOK, AnswerInv, UNCHANGED rpcVars
  PROVE  RpcTypeOK' /\ AnswerInv'
  <1>1. RpcTypeOK'
    BY DEF RpcTypeOK, rpcVars
  <1>2. \A s \in Session : /\ reply'[s] # "none" => pc'[s] \in Returning
                           /\ reply'[s] = "ok" => pc'[s] \in {"sent", "skipped"}
    BY Returned DEF AnswerInv, rpcVars
  <1>3. \A s \in Session :
          "mv" \notin Faults /\ wait'[s] = "exited" => exitFile'[<<s, 1>>] = "written"
    BY ExitKept, FirstTask DEF AnswerInv, rpcVars
  <1> QED
    BY <1>1, <1>2, <1>3 DEF AnswerInv, rpcVars

(* While a tar whose exit file is written is looked at, no execution of it *)
(* is at work.                                                             *)
LEMMA ArchiveWhenExited ==
  ASSUME IInv, ExitFileFinal, DoneInv, "mv" \notin Faults, NEW s \in Session,
         Rpc[s] = "stream_out", pc[s] \in Returning, ExitSeen(s) = "written"
  PROVE  "partial" \notin Archive(s)
  <1>1. pc[s] = "sent" /\ exitFile[<<s, 2>>] = "written"
    BY DEF ExitSeen
  <1>2. <<s, 2>> \in Task
    <2>1. 2 \in 1 .. Size(s)
      BY DEF Size
    <2> QED
      BY <2>1, TaskElem
  <1>3. \A k \in Attempt : proc[<<s, 2>>][k] \in {"none", "ended", "aborted"}
    BY <1>1, <1>2 DEF ExitFileFinal, Ended, Alive
  <1>4. ~ \E k \in Attempt : proc[<<s, 2>>][k] \in {"cmd", "pid", "waiting"}
    BY <1>3
  <1> QED
    BY <1>1, <1>4 DEF Archive

LEMMA ArchiveContents ==
  ASSUME NEW s \in Session
  PROVE  /\ Archive(s) \subseteq {"absent", "partial", "failed", "whole"}
         /\ pc[s] = "failed" => Archive(s) = {"absent"}
  BY DEF Archive

(* The steps of the handlers.                                              *)
LEMMA HandlerAnswer ==
  ASSUME IInv, ExitFileFinal, RpcInv, NEW s \in Session,
         Handler(s) \/ Client(s) \/ BreakOff(s)
  PROVE  RpcTypeOK' /\ AnswerInv'
  <1>1. RpcTypeOK /\ DoneInv /\ AnswerInv /\ MaxPolls \in Nat \ {0}
    BY MaxPollsAssumption DEF RpcInv
  <1>2. UNCHANGED <<pc, exitFile>>
    BY DEF Handler, Client, BreakOff, vars, swapVars, hostVars, taskFiles
  <1>3. pc[s] = "skipped" => Rpc[s] = "stream_in"
    BY <1>1 DEF DoneInv
  <1> USE DEF RpcTypeOK, AnswerInv, Tell
  <1>4. CASE Answer(s)
    <2>1. pc[s] \in {"sent", "skipped", "failed"} /\ reply[s] = "none"
      BY <1>4 DEF Answer, Dispatched, Returning
    <2> QED
      BY <1>1, <1>2, <1>4, <2>1 DEF Answer, Returning
  <1>5. CASE PollAgain(s)
    <2>1. polls[s] \in 0 .. MaxPolls /\ polls[s] < MaxPolls /\ reply[s] = "none"
      BY <1>1, <1>5 DEF PollAgain, Polling
    <2>2. got[s] = "none"
      BY <1>1, <2>1
    <2>3. polls[s] + 1 \in 0 .. MaxPolls
      BY <1>1, <2>1
    <2> QED
      BY <1>1, <1>2, <1>5, <2>2, <2>3 DEF PollAgain
  <1>6. CASE PollFails(s)
    BY <1>1, <1>2, <1>6 DEF PollFails, Polling, Dispatched
  <1>7. CASE SendArchive(s)
    <2>1. PICK content \in Archive(s) :
            /\ Tell(s, IF content = "absent" THEN "error" ELSE "ok")
            /\ got' = [got EXCEPT ![s] = content]
      BY <1>7 DEF SendArchive
    <2>2. content \in {"absent", "partial", "failed", "whole"}
          /\ (pc[s] = "failed" => content = "absent")
      BY ArchiveContents
    <2>3. "mv" \notin Faults /\ content = "partial" => polls[s] = MaxPolls
      BY <1>1, <1>7, ArchiveWhenExited DEF SendArchive, WaitOver, Polling, Dispatched
    <2>4. pc[s] \in {"sent", "failed"} /\ reply[s] = "none"
      BY <1>3, <1>7 DEF SendArchive, WaitOver, Polling, Dispatched, Returning
    <2> QED
      BY <1>1, <1>2, <1>7, <2>1, <2>2, <2>3, <2>4 DEF SendArchive, Returning
  <1>8. CASE PollExit(s)
    BY <1>1, <1>2, <1>8 DEF PollExit
  <1>9. CASE StartWait(s) \/ ClientLeaves(s)
    BY <1>1, <1>2, <1>9 DEF StartWait, ClientLeaves
  <1>10. CASE BreakOff(s)
    BY <1>1, <1>2, <1>10 DEF BreakOff, Polling, Dispatched
  <1> QED
    BY <1>4, <1>5, <1>6, <1>7, <1>8, <1>9, <1>10 DEF Handler, Client

(* Every step preserves the invariant.                                     *)
LEMMA NextRpcInv ==
  IInv /\ ExitInv /\ ExitFileFinal /\ RpcInv /\ [RpcNext]_<<vars, rpcVars>> => RpcInv'
  <1> SUFFICES ASSUME IInv, ExitInv, ExitFileFinal, RpcInv, [RpcNext]_<<vars, rpcVars>>
               PROVE  RpcInv'
    OBVIOUS
  <1>1. RpcTypeOK /\ DoneInv /\ PidInv /\ AnswerInv
    BY DEF RpcInv
  <1>2. [Next]_vars
    BY StepOfSpool
  <1>3. DoneInv' /\ PidInv'
    BY <1>1, <1>2, NextDone, NextPid
  <1>4. RpcTypeOK' /\ AnswerInv'
    <2>1. CASE UNCHANGED rpcVars
      BY <1>1, <1>2, <2>1, SpoolAnswer
    <2>2. CASE \E s \in Session : Handler(s) \/ Client(s) \/ BreakOff(s)
      BY <2>2, HandlerAnswer
    <2> QED
      BY <2>1, <2>2 DEF RpcNext
  <1> QED
    BY <1>3, <1>4 DEF RpcInv

(* What is invariant of the spool is so with the handlers, and so are the  *)
(* relations between the answers and the share.                            *)
THEOREM RpcInvariance == RpcSpec => [](IInv /\ ExitInv /\ ExitFileFinal /\ RpcInv)
  <1>1. RpcSpec => [](IInv /\ ExitInv /\ ExitFileFinal)
    BY SpecOfSpool, Invariance, ExitInvariance, ExitFilesAreFinal, PTL
  <1> QED
    BY <1>1, InitRpcInv, NextRpcInv, PTL DEF RpcSpec

-----------------------------------------------------------------------------
(* The properties.                                                         *)

(* Type correctness of the answers; with it that WaitForTaskExit looks no  *)
(* oftener than its 60 seconds allow.                                      *)
THEOREM AnswersAreTyped == RpcSpec => []RpcTypeOK
  <1>1. RpcInv => RpcTypeOK
    BY DEF RpcInv
  <1> QED
    BY <1>1, RpcInvariance, PTL

(* A client that is told ok has all its tasks on the share; only a         *)
(* StreamIn may be told ok with none.                                      *)
THEOREM AcknowledgedIsDispatched == RpcSpec => []OkMeansDispatched
  <1>1. IInv /\ RpcInv => OkMeansDispatched
    <2> SUFFICES ASSUME IInv, RpcInv, NEW s \in Session, reply[s] = "ok"
                 PROVE  \/ \A i \in 1 .. Size(s) : Published(<<s, i>>)
                        \/ Rpc[s] = "stream_in" /\ \A i \in 1 .. Size(s) : script[<<s, i>>] = "none"
      BY DEF OkMeansDispatched
    <2>1. pc[s] \in {"sent", "skipped"} /\ Size(s) \in Nat
      BY SizeFacts DEF RpcInv, AnswerInv
    <2>2. CASE pc[s] = "sent"
      BY <2>1, <2>2 DEF RpcInv, DoneInv, IInv, PlanInv
    <2>3. CASE pc[s] = "skipped"
      BY <2>3 DEF RpcInv, DoneInv
    <2> QED
      BY <2>1, <2>2, <2>3
  <1> QED
    BY <1>1, RpcInvariance, PTL

(* Without failing renames Wait reports an exit only of a process that is  *)
(* over.                                                                   *)
THEOREM WaitReportsRealExits == RpcSpec => []WaitTellsTruth
  <1>1. ExitFileFinal /\ RpcInv => WaitTellsTruth
    BY FirstTask DEF RpcInv, AnswerInv, ExitFileFinal, WaitTellsTruth
  <1> QED
    BY <1>1, RpcInvariance, PTL

(* A Signal schedules its kill only with the pid of a command that was     *)
(* started.                                                                *)
THEOREM KillsAreAimed == RpcSpec => []KillAimed
  <1>1. IInv /\ RpcInv => KillAimed
    <2> SUFFICES ASSUME IInv, RpcInv, NEW s \in Session, Rpc[s] = "signal", Published(<<s, 1>>)
                 PROVE  HasPid(<<Target[s], 1>>)
      BY DEF KillAimed, HasPid, Started
    <2>1. Size(s) = 1 /\ sent[s] # 0
      BY SizeFacts DEF IInv, PlanInv
    <2> QED
      BY <2>1 DEF RpcInv, PidInv
  <1> QED
    BY <1>1, RpcInvariance, PTL

(* Without failing renames a truncated archive is sent only when the wait  *)
(* has expired.                                                            *)
THEOREM TruncationMeansExpiry == RpcSpec => []TruncatedOnlyWhenExpired
  <1>1. RpcInv => TruncatedOnlyWhenExpired
    BY DEF RpcInv, AnswerInv, TruncatedOnlyWhenExpired
  <1> QED
    BY <1>1, RpcInvariance, PTL

-----------------------------------------------------------------------------
(* The way of a handler to its answer.                                     *)

LEMMA DistanceFacts ==
  ASSUME IInv, RpcInv, NEW s \in Session
  PROVE  /\ StepsBefore[pc[s]] \in 0 .. 9
         /\ sent[s] \in Nat /\ Size(s) \in Nat /\ sent[s] <= Size(s)
         /\ polls[s] \in Nat /\ polls[s] <= MaxPolls /\ MaxPolls \in Nat
         /\ reply[s] = "none" => Distance(s) \in Nat \ {0}
  <1>1. pc[s] \in PCs /\ sent[s] \in Nat /\ polls[s] \in 0 .. MaxPolls
    BY DEF IInv, TypeOK, DispatchTypeOK, RpcInv, RpcTypeOK
  <1>2. Size(s) \in Nat /\ MaxPolls \in Nat /\ sent[s] <= Size(s)
    BY SizeFacts, MaxPollsAssumption DEF IInv, PlanInv
  <1>3. StepsBefore[pc[s]] \in 0 .. 9
    BY <1>1 DEF StepsBefore, PCs
  <1> QED
    BY <1>1, <1>2, <1>3 DEF Distance

(* A step of the dispatch of s brings it nearer to its answer.             *)
LEMMA DispatchDescends ==
  ASSUME IInv, RpcInv, NEW s \in Session, Host(s), UNCHANGED rpcVars
  PROVE  Distance(s)' \in 0 .. Distance(s) - 1
  <1>1. /\ StepsBefore[pc[s]] \in 0 .. 9
        /\ sent[s] \in Nat /\ Size(s) \in Nat /\ sent[s] <= Size(s)
        /\ polls[s] \in Nat /\ polls[s] <= MaxPolls /\ MaxPolls \in Nat
    BY DistanceFacts
  <1>2. pc \in [Session -> PCs] /\ sent \in [Session -> Nat] /\ pc[s] \in PCs
    BY DEF IInv, TypeOK, DispatchTypeOK
  <1>3. pc[s] \notin Returning
    BY DEF Host, DispatchStep, Schedule, Prepare, WriteEntryScript, CreateContainerGroup, MakeInFolder, Stage,
       SkipExtract, ReadPid, WriteEnv, CreateTemp, WriteScript, Publish, Fail, Goto, Returning
  <1>4. reply[s] = "none"
    BY <1>3 DEF RpcInv, AnswerInv
  <1>5. /\ polls' = polls /\ reply' = reply
    BY DEF rpcVars
  <1>6. CASE Publish(s)
    <2>1. /\ pc[s] = "rename" /\ pc'[s] \in {"sent", "mkin", "env"}
          /\ sent'[s] = sent[s] + 1
      BY <1>2, <1>6 DEF Publish, Goto, AfterTask
    <2>2. sent[s] < Size(s)
      BY <2>1 DEF IInv, PlanInv
    <2>3. StepsBefore[pc[s]] = 1 /\ StepsBefore[pc'[s]] \in 0 .. 6
      BY <2>1 DEF StepsBefore
    <2> QED
      BY <1>1, <1>4, <1>5, <2>1, <2>2, <2>3 DEF Distance
  <1>7. CASE ~Publish(s)
    <2>1. sent' = sent
      BY <1>7 DEF Host, DispatchStep, Schedule, Prepare, WriteEntryScript, CreateContainerGroup, MakeInFolder,
         Stage, SkipExtract, ReadPid, WriteEnv, CreateTemp, WriteScript, Fail
    <2>2. \/ pc[s] = "prepare" /\ pc'[s] = "entry"
          \/ pc[s] = "entry" /\ pc'[s] = "aci"
          \/ pc[s] = "aci" /\ pc'[s] \in {"sent", "mkin"}
          \/ pc[s] = "mkin" /\ pc'[s] = "stage"
          \/ pc[s] \in {"stage", "pid"} /\ pc'[s] = "env"
          \/ pc[s] = "stage" /\ pc'[s] = "skipped"
          \/ pc[s] = "env" /\ pc'[s] = "temp"
          \/ pc[s] = "temp" /\ pc'[s] = "body"
          \/ pc[s] = "body" /\ pc'[s] = "rename"
          \/ pc[s] \notin Returning /\ pc'[s] = "failed"
      BY <1>2, <1>7 DEF Host, DispatchStep, Schedule, Prepare, WriteEntryScript, CreateContainerGroup,
         MakeInFolder, Stage, SkipExtract, ReadPid, WriteEnv, CreateTemp, WriteScript, Fail, Goto
    <2>3. StepsBefore[pc'[s]] \in 0 .. StepsBefore[pc[s]] - 1
      BY <1>2, <2>2 DEF StepsBefore, PCs, Returning
    <2> QED
      BY <1>1, <1>4, <1>5, <2>1, <2>3 DEF Distance
  <1> QED
    BY <1>6, <1>7

LEMMA AnswerDescends ==
  ASSUME IInv, RpcInv, NEW r \in Session, Handler(r) \/ Client(r) \/ BreakOff(r),
         NEW s \in Session,
         <<polls[s], reply[s]>>' # <<polls[s], reply[s]>>
  PROVE  Distance(s)' \in 0 .. Distance(s) - 1
  <1>1. /\ StepsBefore[pc[s]] \in 0 .. 9
        /\ sent[s] \in Nat /\ Size(s) \in Nat /\ sent[s] <= Size(s)
        /\ polls[s] \in Nat /\ polls[s] <= MaxPolls /\ MaxPolls \in Nat
        /\ reply[s] = "none" => Distance(s) \in Nat \ {0}
    BY DistanceFacts
  <1>2. /\ reply \in [Session -> {"none", "ok", "error"}]
        /\ polls \in [Session -> 0 .. MaxPolls]
    BY DEF RpcInv, RpcTypeOK
  <1>3. UNCHANGED <<pc, sent>>
    BY DEF Handler, Client, BreakOff, vars, hostVars
  <1>4. \/ /\ reply[s] = "none" /\ reply'[s] = "none"
           /\ polls[s] < MaxPolls /\ polls'[s] = polls[s] + 1
        \/ /\ reply[s] = "none" /\ reply'[s] \in {"ok", "error"}
    BY <1>2 DEF Handler, Client, BreakOff, Answer, PollAgain, PollFails, SendArchive, WaitOver, PollExit,
       StartWait, ClientLeaves, Tell, Polling
  <1> QED
    BY <1>1, <1>3, <1>4 DEF Distance

(* No handler goes in circles: its steps are bounded by its plan and by    *)
(* the polls, whatever fails.                                              *)
THEOREM HandlersTerminate == RpcSpec => HandlersDescend
  <1>1. IInv /\ RpcInv /\ [RpcNext]_<<vars, rpcVars>> =>
          [\A s \in Session :
             <<pc[s], sent[s], polls[s], reply[s]>>' # <<pc[s], sent[s], polls[s], reply[s]>> =>
               Distance(s)' \in 0 .. Distance(s) - 1]_<<vars, rpcVars>>
    <2> SUFFICES ASSUME IInv, RpcInv, RpcNext, NEW s \in Session,
                        <<pc[s], sent[s], polls[s], reply[s]>>' # <<pc[s], sent[s], polls[s], reply[s]>>
                 PROVE  Distance(s)' \in 0 .. Distance(s) - 1
      OBVIOUS
    <2>1. CASE Next /\ UNCHANGED rpcVars
      <3>1. <<pc[s], sent[s]>>' # <<pc[s], sent[s]>>
        BY <2>1 DEF rpcVars
      <3>2. PICK r \in Session : Host(r)
        BY <2>1, <3>1 DEF Next, RunDaemon, Shell, Command, InContainer, ContainerGone, hostVars
      <3>3. r = s
        <4>1. pc \in [Session -> PCs] /\ sent \in [Session -> Nat]
          BY DEF IInv, TypeOK, DispatchTypeOK
        <4> QED
          BY <3>1, <3>2, <4>1 DEF Host, DispatchStep, Schedule, Prepare, WriteEntryScript, CreateContainerGroup,
             MakeInFolder, Stage, SkipExtract, ReadPid, WriteEnv, CreateTemp, WriteScript,
             Publish, Fail, Goto
      <3> QED
        BY <2>1, <3>2, <3>3, DispatchDescends
    <2>2. CASE \E r \in Session : Handler(r) \/ Client(r) \/ BreakOff(r)
      <3>1. UNCHANGED <<pc, sent>>
        BY <2>2 DEF Handler, Client, BreakOff, vars, hostVars
      <3> QED
        BY <2>2, <3>1, AnswerDescends
    <2> QED
      BY <2>1, <2>2 DEF RpcNext
  <1> QED
    BY <1>1, RpcInvariance, PTL DEF RpcSpec, HandlersDescend

-----------------------------------------------------------------------------
(* The handlers add nothing to what the spool does: every behaviour of     *)
(* ContainerRpc is one of TaskSpool, so that each theorem of               *)
(* TaskSpoolProofs holds of it, the refinement of TaskPipeline included.   *)
THEOREM RpcImplementsSpool == RpcSpec => Spec /\ ImplementsPipeline
  BY SpecOfSpool, SpoolImplementsPipeline
=============================================================================
