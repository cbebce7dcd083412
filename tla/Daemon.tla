------------------------------- MODULE Daemon -------------------------------
(***************************************************************************)
(* The container side of the interop layer: the bash daemon that is the    *)
(* entry point of the container, and the shells that execute the scripts   *)
(* written by scheduleTask.  The daemon lists stream_in, then run, then    *)
(* stream_out, takes the oldest *.sh of the first folder that has one,     *)
(* executes it (a run task in the background), renames it to *.sh.executed *)
(* and starts over.                                                        *)
(***************************************************************************)
EXTENDS SwapRoot

VARIABLES
  dpc,      \* the step the daemon takes next
  cur,      \* $current_file
  tries,    \* tries[t]: how often the daemon has executed t
  proc,     \* proc[t][k]: the shell of the k-th execution of t
  scanned   \* history: the file server's clock when the daemon last listed
            \* stream_in

daemonVars == <<dpc, cur, tries, proc, scanned>>

DaemonPCs == {"scan_in", "scan_run", "scan_out", "exec", "wait", "mv"}

(* forked: bash -c is forked; shell: it has opened the script and runs su; *)
(* cmd: the command is started; pid: the pid file is open, still empty;    *)
(* waiting: wait $CMD_PID; exited: the command has ended; exit: the exit   *)
(* file is open, still empty; ended: the script is over; aborted: the      *)
(* shell ended without ever starting the command.                          *)
ProcStates == {"none", "forked", "shell", "cmd", "pid", "waiting", "exited",
               "exit", "ended", "aborted"}

Attempt == 1 .. MaxTries

DaemonInit ==
  /\ dpc = "scan_in" /\ cur = NoTask
  /\ tries = [t \in Task |-> 0]
  /\ proc = [t \in Task |-> [k \in Attempt |-> "none"]]
  /\ scanned = 0

-----------------------------------------------------------------------------
(* Faulty: ls -tc, newest first.                                           *)
Newest(t) == \A u \in Visible(Step(t)) : ctime[t] >= ctime[u]

(* ls -tcr | head -1: the smallest change time.  Two renames never share   *)
(* one: `now' advances with each.                                          *)
Oldest(t) == \A u \in Visible(Step(t)) : ctime[t] <= ctime[u]

(* One listing: take the oldest script, or go on to the next folder.       *)
List(at, folder, next) ==
  /\ dpc = at
  /\ \/ /\ Visible(folder) = {}
        /\ dpc' = next
        /\ UNCHANGED cur
     \/ \E t \in Visible(folder) :
          /\ Oldest(t)
          /\ cur' = t
          /\ dpc' = "exec"
  /\ UNCHANGED <<tries, proc, script, taskFiles>>

ListStreamIn  == List("scan_in", "stream_in", "scan_run") /\ scanned' = now
ListRun       == List("scan_run", "run", "scan_out") /\ UNCHANGED scanned
ListStreamOut == List("scan_out", "stream_out", "scan_in") /\ UNCHANGED scanned

(* Faulty: every script is put in the background.                          *)
ExecInBackground ==
  /\ dpc = "exec"
  /\ tries' = [tries EXCEPT ![cur] = @ + 1]
  /\ proc' = [proc EXCEPT ![cur][tries[cur] + 1] = "forked"]
  /\ dpc' = "mv"
  /\ UNCHANGED <<cur, scanned, script, taskFiles>>

(* bash -c $current_file; a run task is put in the background.             *)
Exec ==
  /\ dpc = "exec"
  /\ tries' = [tries EXCEPT ![cur] = @ + 1]
  /\ proc' = [proc EXCEPT ![cur][tries[cur] + 1] = "forked"]
  /\ dpc' = IF Step(cur) = "run" THEN "mv" ELSE "wait"
  /\ UNCHANGED <<cur, scanned, script, taskFiles>>

(* Faulty: the daemon waits only until the script has begun.               *)
ReapEarly ==
  /\ dpc = "wait"
  /\ proc[cur][tries[cur]] # "forked"
  /\ dpc' = "mv"
  /\ UNCHANGED <<cur, tries, proc, scanned, script, taskFiles>>

(* A stream_in or stream_out script has been waited for.                   *)
Reap ==
  /\ dpc = "wait"
  /\ proc[cur][tries[cur]] \in {"ended", "aborted"}
  /\ dpc' = "mv"
  /\ UNCHANGED <<cur, tries, proc, scanned, script, taskFiles>>

(* `sleep 1' gives the background shell the time to open its script.       *)
Slept == "slow_fork" \in Faults \/ proc[cur][tries[cur]] # "forked"

(* Faulty: the round goes on to the next folder instead of starting over.  *)
NextFolder ==
  /\ dpc = "mv" /\ Slept
  /\ dpc' = IF Step(cur) = "stream_in" THEN "scan_run" ELSE "scan_in"
  /\ cur' = NoTask
  /\ UNCHANGED <<tries, proc, scanned, taskFiles>>

(* Faulty: the daemon stays with stream_out while it has scripts there.    *)
SameFolder ==
  /\ dpc = "mv" /\ Slept
  /\ dpc' = IF Step(cur) = "stream_out" THEN "scan_out" ELSE "scan_in"
  /\ cur' = NoTask
  /\ UNCHANGED <<tries, proc, scanned, taskFiles>>

NextRound ==
  /\ dpc = "mv" /\ Slept
  /\ dpc' = "scan_in" /\ cur' = NoTask
  /\ UNCHANGED <<tries, proc, scanned, taskFiles>>

(* Faulty: the script is not renamed.                                      *)
NoMv == NextRound /\ tries[cur] < MaxTries /\ UNCHANGED script

Mv == NextRound /\ script' = [script EXCEPT ![cur] = "executed"]

(* The exit status of mv is not looked at: the script is still *.sh and    *)
(* will be executed again.                                                 *)
MvFails ==
  /\ "mv" \in Faults
  /\ NextRound /\ tries[cur] < MaxTries
  /\ UNCHANGED script

DaemonStep ==
  ListStreamIn \/ ListRun \/ ListStreamOut \/ Exec \/ Reap \/ Mv \/ MvFails

-----------------------------------------------------------------------------
(* The script of a task.                                                   *)
Advance(t, k, from, to) ==
  /\ proc[t][k] = from
  /\ proc' = [proc EXCEPT ![t][k] = to]
  /\ UNCHANGED <<dpc, cur, tries, scanned, script>>

(* bash finds the script under the name it was given, or it has been       *)
(* renamed already and the task is lost.                                   *)
OpenScript(t, k) ==
  /\ Advance(t, k, "forked", IF script[t] = "sh" THEN "shell" ELSE "aborted")
  /\ UNCHANGED taskFiles

SuFails(t, k) ==
  /\ "su" \in Faults
  /\ Advance(t, k, "shell", "aborted") /\ UNCHANGED taskFiles

StartCommand(t, k) == Advance(t, k, "shell", "cmd") /\ UNCHANGED taskFiles

(* echo $CMD_PID > file: the shell truncates the file, then echo writes.   *)
OpenPidFile(t, k) ==
  /\ Advance(t, k, "cmd", "pid")
  /\ pidFile' = [pidFile EXCEPT ![t] = "empty"]
  /\ UNCHANGED exitFile

(* Faulty: the pid is written to the exit file.                            *)
WritePidToExitFile(t, k) ==
  /\ Advance(t, k, "pid", "waiting")
  /\ exitFile' = [exitFile EXCEPT ![t] = "written"]
  /\ UNCHANGED pidFile

WritePidFile(t, k) ==
  /\ Advance(t, k, "pid", "waiting")
  /\ pidFile' = [pidFile EXCEPT ![t] = "written"]
  /\ UNCHANGED exitFile

(* Faulty: the script ends without writing an exit file.                   *)
CommandEndsSilently(t, k) == Advance(t, k, "waiting", "ended") /\ UNCHANGED taskFiles

(* wait $CMD_PID returns.                                                  *)
CommandEnds(t, k) == Advance(t, k, "waiting", "exited") /\ UNCHANGED taskFiles

(* echo $? > file.                                                         *)
OpenExitFile(t, k) ==
  /\ Advance(t, k, "exited", "exit")
  /\ exitFile' = [exitFile EXCEPT ![t] = "empty"]
  /\ UNCHANGED pidFile

WriteExitFile(t, k) ==
  /\ Advance(t, k, "exit", "ended")
  /\ exitFile' = [exitFile EXCEPT ![t] = "written"]
  /\ UNCHANGED pidFile

ShellStep(t, k) ==
  \/ OpenScript(t, k) \/ SuFails(t, k) \/ StartCommand(t, k)
  \/ OpenPidFile(t, k) \/ WritePidFile(t, k)
  \/ OpenExitFile(t, k) \/ WriteExitFile(t, k)

(* Execution k of t is still going on.                                     *)
Alive(t, k) == proc[t][k] \notin {"none", "ended", "aborted"}

DaemonTypeOK ==
  /\ dpc \in DaemonPCs
  /\ cur \in Task \cup {NoTask}
  /\ tries \in [Task -> 0 .. MaxTries]
  /\ proc \in [Task -> [Attempt -> ProcStates]]
  /\ scanned \in Nat
=============================================================================
