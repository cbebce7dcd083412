---------------------------- MODULE ContainerRpc ----------------------------
(***************************************************************************)
(* What the clients of the gRPC services are told.  TaskSpool dispatches   *)
(* the tasks; here every handler goes on to its return: Create, StreamIn   *)
(* and Run answer as soon as their tasks are on the share, Signal answers  *)
(* with an error whatever happened, StreamOut polls for the exit file of   *)
(* its tar and sends the archive.  A Wait may follow a Run, which polls    *)
(* for the exit file of the process.                                       *)
(***************************************************************************)
EXTENDS TaskSpool

CONSTANT MaxPolls   \* polls of WaitForTaskExit: 31, every 2 s up to 60 s

ASSUME MaxPollsAssumption == MaxPolls \in Nat \ {0}

VARIABLES
  reply,   \* reply[s]: what the client of s is told
  polls,   \* polls[s]: how often StreamOut s has looked for the exit file
  got,     \* got[s]: the archive that StreamOut s has sent
  wait     \* wait[s]: the Wait for the process of Run s

rpcVars == <<reply, polls, got, wait>>

RpcInit ==
  /\ Init
  /\ reply = [s \in Session |-> "none"]
  /\ polls = [s \in Session |-> 0]
  /\ got = [s \in Session |-> "none"]
  /\ wait = [s \in Session |-> "none"]

Tell(s, answer) ==
  /\ reply[s] = "none"
  /\ reply' = [reply EXCEPT ![s] = answer]

Dispatched(s) == pc[s] \in Returning

-----------------------------------------------------------------------------
(* Faulty: a failed dispatch is answered with ok.                          *)
AnswerOk(s) ==
  /\ Rpc[s] # "stream_out" /\ Dispatched(s)
  /\ Tell(s, IF Rpc[s] # "signal" THEN "ok" ELSE "error")
  /\ UNCHANGED <<polls, got, wait>>

(* Create, StreamIn, Run and Signal return right after the dispatch.       *)
Answer(s) ==
  /\ Rpc[s] # "stream_out" /\ Dispatched(s)
  /\ Tell(s, IF pc[s] # "failed" /\ Rpc[s] # "signal" THEN "ok" ELSE "error")
  /\ UNCHANGED <<polls, got, wait>>

(* Faulty: the id of the mkdir is waited for.                              *)
MkdirExitSeen(s) == IF pc[s] = "sent" THEN exitFile[<<s, 1>>] ELSE "absent"

(* What TaskExited finds for the task of a StreamOut.  When the dispatch   *)
(* has failed, its error is dropped, the task id is the empty string and   *)
(* there is no such file.                                                  *)
ExitSeen(s) == IF pc[s] = "sent" THEN exitFile[<<s, 2>>] ELSE "absent"

Polling(s) == Rpc[s] = "stream_out" /\ Dispatched(s) /\ reply[s] = "none"

(* Faulty: one poll too many; the time slept is not counted.               *)
PollOnceMore(s) ==
  /\ Polling(s) /\ polls[s] <= MaxPolls /\ ExitSeen(s) = "absent"
  /\ polls' = [polls EXCEPT ![s] = @ + 1]
  /\ UNCHANGED <<reply, got, wait>>

PollForEver(s) ==
  /\ Polling(s) /\ polls[s] < MaxPolls /\ ExitSeen(s) = "absent"
  /\ UNCHANGED rpcVars

(* WaitForTaskExit: not yet; sleep.                                        *)
PollAgain(s) ==
  /\ Polling(s) /\ polls[s] < MaxPolls /\ ExitSeen(s) = "absent"
  /\ polls' = [polls EXCEPT ![s] = @ + 1]
  /\ UNCHANGED <<reply, got, wait>>

(* An empty exit file does not parse.                                      *)
PollFails(s) ==
  /\ Polling(s) /\ polls[s] < MaxPolls /\ ExitSeen(s) = "empty"
  /\ Tell(s, "error")
  /\ UNCHANGED <<polls, got, wait>>

(* The archive as StreamOut may find it: while a tar is at work it may be  *)
(* absent (created by no tar yet), incomplete or already complete.  A tar  *)
(* that has ended with an error has left anything or nothing; its exit     *)
(* code is not looked at.  When the dispatch has failed there is nothing   *)
(* to open or read.                                                        *)
Archive(s) ==
  LET tar   == proc[<<s, 2>>]
      doing == \E k \in Attempt : tar[k] \in {"cmd", "pid", "waiting"}
      done  == \E k \in Attempt : tar[k] \in {"exited", "exit", "ended"}
  IN  IF pc[s] = "failed" \/ (~doing /\ ~done)
      THEN {"absent"}
      ELSE {"absent", "whole"} \cup (IF doing THEN {"partial"} ELSE {})
                               \cup (IF done THEN {"failed"} ELSE {})

WaitOver(s) == Polling(s) /\ (polls[s] = MaxPolls \/ ExitSeen(s) = "written")

(* There is something to send, and the send loop is as slow as the client. *)
Sending(s) == WaitOver(s) /\ Archive(s) # {"absent"}

(* The task has exited, or the time is up: both end the wait without an    *)
(* error, and what is there is sent.                                       *)
SendArchive(s) ==
  /\ WaitOver(s)
  /\ \E content \in Archive(s) :
       /\ Tell(s, IF content = "absent" THEN "error" ELSE "ok")
       /\ got' = [got EXCEPT ![s] = content]
  /\ UNCHANGED <<polls, wait>>

-----------------------------------------------------------------------------
(* Wait.  A poll that finds no exit file tells the client so and changes   *)
(* nothing; the stream ends when the process has exited, on an error, or   *)
(* when the client is gone.                                                *)
StartWait(s) ==
  /\ Rpc[s] = "run" /\ reply[s] = "ok" /\ wait[s] = "none"
  /\ wait' = [wait EXCEPT ![s] = "polling"]
  /\ UNCHANGED <<reply, polls, got>>

(* Faulty: an empty file counts as an exit; an exit does not end the loop. *)
PollExitUnparsed(s) ==
  /\ wait[s] = "polling" /\ exitFile[<<s, 1>>] # "absent"
  /\ wait' = [wait EXCEPT ![s] = "exited"]
  /\ UNCHANGED <<reply, polls, got>>

PollExitNoBreak(s) ==
  /\ wait[s] = "polling" /\ exitFile[<<s, 1>>] = "empty"
  /\ wait' = [wait EXCEPT ![s] = "failed"]
  /\ UNCHANGED <<reply, polls, got>>

PollExit(s) ==
  /\ wait[s] = "polling" /\ exitFile[<<s, 1>>] # "absent"
  /\ wait' = [wait EXCEPT ![s] = IF exitFile[<<s, 1>>] = "written" THEN "exited" ELSE "failed"]
  /\ UNCHANGED <<reply, polls, got>>

ClientLeaves(s) ==
  /\ wait[s] = "polling"
  /\ wait' = [wait EXCEPT ![s] = "left"]
  /\ UNCHANGED <<reply, polls, got>>

-----------------------------------------------------------------------------
(* An I/O error, or the end of the server process, while a handler polls   *)
(* for an exit file or reads the archive; the end of the process also      *)
(* between the last task and the answer.                                   *)
BreakOff(s) ==
  /\ "dispatch" \in Faults
  /\ \/ Dispatched(s) /\ Tell(s, "error") /\ UNCHANGED wait
     \/ wait[s] = "polling" /\ wait' = [wait EXCEPT ![s] = "failed"] /\ UNCHANGED reply
  /\ UNCHANGED <<vars, polls, got>>

Handler(s) ==
  /\ Answer(s) \/ PollAgain(s) \/ PollFails(s) \/ SendArchive(s) \/ PollExit(s)
  /\ UNCHANGED vars

Client(s) == (StartWait(s) \/ ClientLeaves(s)) /\ UNCHANGED vars

RpcNext ==
  \/ Next /\ UNCHANGED rpcVars
  \/ \E s \in Session : Handler(s) \/ Client(s) \/ BreakOff(s)

RpcSpec == RpcInit /\ [][RpcNext]_<<vars, rpcVars>>

(* Handlers run on and their sleeps end; clients do as they please, and    *)
(* need not read what is sent to them.  (The few bytes that Wait sends at  *)
(* every poll are taken to fit the window of the connection.)              *)
FairRpcSpec ==
  /\ RpcSpec /\ Fairness
  /\ \A s \in Session : WF_<<vars, rpcVars>>(Handler(s) /\ ~Sending(s))

-----------------------------------------------------------------------------
RpcTypeOK ==
  /\ reply \in [Session -> {"none", "ok", "error"}]
  /\ polls \in [Session -> 0 .. MaxPolls]
  /\ got \in [Session -> {"none", "absent", "partial", "failed", "whole"}]
  /\ wait \in [Session -> {"none", "polling", "exited", "failed", "left"}]

(* A client that is told ok has all its tasks on the share, or none at all *)
(* in the one case of a StreamIn that found nothing to extract: a dispatch *)
(* that breaks off between two tasks is an error to the client.  (A        *)
(* StreamOut whose wait expires may be told ok with half an archive; that  *)
(* is TruncatedOnlyWhenExpired.)                                           *)
OkMeansDispatched ==
  \A s \in Session : reply[s] = "ok" =>
    \/ \A i \in 1 .. Size(s) : Published(<<s, i>>)
    \/ Rpc[s] = "stream_in" /\ \A i \in 1 .. Size(s) : script[<<s, i>>] = "none"

(* An archive is sent before its tar is finished only when the 60 seconds  *)
(* of WaitForTaskExit are over (as long as no mv fails: then the exit file *)
(* of the first tar is there while the second truncates the archive).      *)
TruncatedOnlyWhenExpired ==
  "mv" \notin Faults => \A s \in Session : got[s] = "partial" => polls[s] = MaxPolls

(* Wait reports an exit only of a process that is over.                    *)
WaitTellsTruth ==
  "mv" \notin Faults => \A s \in Session : wait[s] = "exited" => Ended(<<s, 1>>)

(* A kill is scheduled only with the pid of a command that was started:    *)
(* Signal refuses while the pid file is absent or still empty.             *)
KillAimed ==
  \A s \in Session : Rpc[s] = "signal" /\ Published(<<s, 1>>) =>
    \E k \in Attempt :
      proc[<<Target[s], 1>>][k] \notin {"none", "forked", "shell", "cmd", "pid", "aborted"}

(* Every handler returns, or comes to where it waits for its own client:   *)
(* to end the stream of a StreamIn, to read the archive of a StreamOut.    *)
(* None waits for the container, also when the dispatch fails or the       *)
(* container is gone: StreamOut gives up after MaxPolls.  (A Signal is     *)
(* sent only when its Run has been answered.)                              *)
EveryRpcAnswered ==
  \A s \in Session :
    Rpc[s] # "signal" => <>(reply[s] # "none" \/ Receiving(s) \/ Sending(s))

(* The steps a handler still has before its answer, at most: six for each  *)
(* task that is not published (MkdirAll, payload, env file, script, text,  *)
(* rename), those before the first task, the polls, and the answer.        *)
StepsBefore ==
  [prepare |-> 9, entry |-> 8, aci |-> 7, mkin |-> 6, stage |-> 5, pid |-> 5, env |-> 4, temp |-> 3,
   body |-> 2, rename |-> 1, sent |-> 0, skipped |-> 0, failed |-> 0]

Distance(s) ==
  IF reply[s] # "none" THEN 0
  ELSE 6 * (Size(s) - sent[s]) + StepsBefore[pc[s]] + (MaxPolls - polls[s]) + 1

(* No handler goes in circles, and an answer is final: whatever changes in *)
(* a handler brings it nearer to its answer, from a distance that its plan *)
(* and MaxPolls bound, also when a step fails and when the container is    *)
(* gone.  (That it takes these steps is EveryRpcAnswered.)                 *)
HandlersDescend ==
  [][\A s \in Session :
       <<pc[s], sent[s], polls[s], reply[s]>>' # <<pc[s], sent[s], polls[s], reply[s]>> =>
         Distance(s)' \in 0 .. Distance(s) - 1]_<<vars, rpcVars>>

(* What was acknowledged takes effect although nobody waits for it: every  *)
(* task of an RPC other than Run that was told ok leaves its exit status,  *)
(* as long as the container lives, su knows its user and its shell starts  *)
(* in time.  (The process of a Run may go on for ever.)  The tasks of this *)
(* module are finitely many; what endless arrivals do is in DaemonRounds.  *)
AckedTakesEffect ==
  \A s \in Session :
    reply[s] = "ok" /\ pc[s] = "sent" /\ Rpc[s] # "run" ~>
      \/ container = "gone"
      \/ \A i \in 1 .. Size(s) : exitFile[<<s, i>>] = "written"

(* A Wait whose process has left its exit status ends with it, unless an   *)
(* earlier poll has failed or the client has left.                         *)
WaitEnds ==
  \A s \in Session :
    wait[s] = "polling" /\ exitFile[<<s, 1>>] = "written" ~> wait[s] # "polling"

-----------------------------------------------------------------------------
(* As long as no mv fails, handlers, daemon and shells together keep the   *)
(* contract that the clients see: a task is over when its one execution    *)
(* has ended, and the wait for an archive expires with the last poll.      *)
Standing(t) ==
  CASE ~Published(t)             -> "todo"
    [] Published(t) /\ ~Begun(t) -> "posted"
    [] Begun(t) /\ ~Ended(t)     -> "begun"
    [] Ended(t)                  -> "over"

Sessions(kind) == {s \in Session : Rpc[s] = kind}

Contract == INSTANCE ContainerContract WITH
  Caller    <- Session,
  Item      <- Task,
  Exclusive <- {t \in Task : Serial(t)},
  Optional  <- Sessions("stream_in"),
  Reader    <- Sessions("stream_out"),
  Process   <- Sessions("run"),
  stage     <- [t \in Task |-> Standing(t)],
  expired   <- {s \in Sessions("stream_out") : polls[s] = MaxPolls}

(* Every behaviour of the system is one that the contract allows.          *)
ImplementsContract == Contract!Spec

-----------------------------------------------------------------------------
(* What comments and documents say of the replies.                         *)

(* StreamIn: "wait for the exit" stands before the answer                  *)
(* (handlers/vcontainerhandler.go:362): an acknowledged StreamIn has been  *)
(* extracted.                                                              *)
StreamInWaitsForExit ==
  \A s \in Session :
    Rpc[s] = "stream_in" /\ pc[s] = "sent" /\ reply[s] = "ok" =>
      exitFile[<<s, Size(s)>>] = "written"

(* WaitForTaskExit: "wait for the task with the taskId exit"               *)
(* (interop/interop.go:47): StreamOut sends an archive, or a part of one,  *)
(* only when its tar has exited.                                           *)
StreamOutWaitsForExit ==
  \A s \in Session :
    got[s] \in {"partial", "whole"} => exitFile[<<s, 2>>] = "written"

(* "Wait() would wait for the exit file be outputed by the process"        *)
(* (README.md:161): it does not end with an error while the process is     *)
(* putting the file out.                                                   *)
WaitSurvivesEmptyFile == \A s \in Session : wait[s] # "failed"
=============================================================================
