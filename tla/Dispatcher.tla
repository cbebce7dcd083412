----------------------------- MODULE Dispatcher -----------------------------
(***************************************************************************)
(* The host side of the interop layer: what an RPC handler does to the     *)
(* share, one file-system operation per action.  Every RPC that reaches    *)
(* the share schedules its tasks with scheduleTask, one after the other:   *)
(* env file, *.sh.temp, text and close, rename to *.sh.  An error return   *)
(* of any of these steps ends the dispatch where it stands, and so does    *)
(* the end of the server process: Fail.                                    *)
(***************************************************************************)
EXTENDS SwapRoot

VARIABLES
  pc,    \* pc[s]: the step that the handler of s takes next
  sent   \* sent[s]: the number of tasks s has published

hostVars == <<pc, sent>>

PCs == {"prepare", "entry", "aci", "mkin", "stage", "pid", "env", "temp", "body",
        "rename", "sent", "skipped", "failed"}

Returning == {"sent", "skipped", "failed"}

(* The task being scheduled.                                               *)
Current(s) == <<s, sent[s] + 1>>

Goto(s, at, next) == pc[s] = at /\ pc' = [pc EXCEPT ![s] = next]

(* The first step of each kind of RPC.                                     *)
Entry(s) ==
  CASE Rpc[s] = "create"    -> "prepare"
    [] Rpc[s] = "stream_in" -> "stage"
    [] Rpc[s] = "signal"    -> "pid"
    [] OTHER                -> "env"

DispatchInit ==
  /\ pc = [s \in Session |-> Entry(s)]
  /\ sent = [s \in Session |-> 0]

-----------------------------------------------------------------------------
(* Faulty variants stand before the definition that they replace when the  *)
(* properties are tested against them.  Here: Prepare makes out instead.   *)
PrepareOut(s) ==
  /\ Goto(s, "prepare", "entry")
  /\ dirs' = dirs \cup {"out"}
  /\ UNCHANGED <<sent, script, body, env, staged, ctime, now, container>>

(* Prepare makes the task folders,                                         *)
Prepare(s) ==
  /\ Goto(s, "prepare", "entry")
  /\ dirs' = dirs \cup {"tasks"}
  /\ UNCHANGED <<sent, script, body, env, staged, ctime, now, container>>

(* and the daemon's script.  The errors of writing and closing it are not  *)
(* looked at: it may be incomplete.                                        *)
WriteEntryScript(s) ==
  /\ Goto(s, "entry", "aci")
  /\ \/ dirs' = dirs \cup {"daemon"}
     \/ "write_back" \in Faults /\ UNCHANGED dirs
  /\ UNCHANGED <<sent, script, body, env, staged, ctime, now, container>>

(* The container group is created, with the daemon as its entry point,     *)
(* before the bind mounts are dispatched.  A bash whose script breaks off  *)
(* before its last line, the call of the daemon, ends at once.             *)
CreateContainerGroup(s) ==
  /\ Goto(s, "aci", IF BindMounts = 0 THEN "sent" ELSE "mkin")
  /\ container' = IF "daemon" \in dirs THEN "running" ELSE "gone"
  /\ UNCHANGED <<sent, script, hostFiles>>

(* CopyFolder, first half: MkdirAll of the target makes the in folder.     *)
MakeInFolder(s) ==
  /\ Goto(s, "mkin", "stage")
  /\ dirs' = dirs \cup {"in"}
  /\ UNCHANGED <<sent, script, body, env, staged, ctime, now, container>>

(* The payload of the next three tasks is in the in folder: rsync of the   *)
(* bind mount has returned, or the client's stream is at its end.  rsync   *)
(* has closed what it copied; the file of a StreamIn is closed only after  *)
(* the dispatch, and nobody looks whether that fails.  StreamIn creates    *)
(* its file in the in folder and cannot when that is missing.              *)
Stage(s) ==
  /\ Goto(s, "stage", "env")
  /\ "in" \in dirs
  /\ IF Rpc[s] = "stream_in" /\ "write_back" \in Faults
       THEN UNCHANGED staged
       ELSE staged' = [staged EXCEPT ![s] = sent[s] + 3]
  /\ UNCHANGED <<sent, dirs, script, body, env, ctime, now, container>>

(* The client's stream is at its end and there is no file to extract: path *)
(* or user never came, or the file could not be created, which only the    *)
(* next piece of content would have noticed.  Nothing is dispatched.       *)
SkipExtract(s) ==
  /\ Rpc[s] = "stream_in"
  /\ Goto(s, "stage", "skipped")
  /\ UNCHANGED <<sent, script, hostFiles, container>>

(* Faulty: any pid file will do, read or not yet written.                  *)
ReadAnyPid(s) ==
  /\ Goto(s, "pid", "env")
  /\ pc[Target[s]] = "sent"
  /\ pidFile[<<Target[s], 1>>] # "absent"
  /\ UNCHANGED <<sent, script, hostFiles, container>>

(* Signal reads the pid file of its target, whose id the client knows from *)
(* the answer to Run; an absent or empty file is an error.                 *)
ReadPid(s) ==
  /\ Goto(s, "pid", "env")
  /\ pc[Target[s]] = "sent"
  /\ pidFile[<<Target[s], 1>>] = "written"
  /\ UNCHANGED <<sent, script, hostFiles, container>>

(* scheduleTask, step by step.  The deferred Close of the env file is not  *)
(* looked at: when it fails, the dispatch goes on with an incomplete file. *)
WriteEnv(s) ==
  /\ Goto(s, "env", "temp")
  /\ "tasks" \in dirs
  /\ env' = IF "write_back" \in Faults THEN env ELSE env \cup {Current(s)}
  /\ UNCHANGED <<sent, script, dirs, body, staged, ctime, now, container>>

(* Faulty: the script is written under its final name.                     *)
CreateInPlace(s) ==
  /\ Goto(s, "temp", "body")
  /\ script' = [script EXCEPT ![Current(s)] = "sh"]
  /\ ctime' = [ctime EXCEPT ![Current(s)] = now + 1]
  /\ now' = now + 1
  /\ UNCHANGED <<sent, dirs, body, env, staged, container>>

CreateTemp(s) ==
  /\ Goto(s, "temp", "body")
  /\ script' = [script EXCEPT ![Current(s)] = "temp"]
  /\ UNCHANGED <<sent, hostFiles, container>>

(* Here the errors of Write and Close are errors of the dispatch.          *)
WriteScript(s) ==
  /\ Goto(s, "body", "rename")
  /\ body' = body \cup {Current(s)}
  /\ UNCHANGED <<sent, script, dirs, env, staged, ctime, now, container>>

(* Faulty: one task too many.                                              *)
AfterTaskOffByOne(s) == IF sent[s] = Size(s) THEN "sent" ELSE "env"

(* After a task: the end of the plan, the next bind mount, the next task.  *)
AfterTask(s) ==
  CASE sent[s] + 1 = Size(s)                           -> "sent"
    [] sent[s] + 1 = staged[s] /\ sent[s] + 1 < Size(s) -> "mkin"
    [] OTHER                                           -> "env"

Publish(s) ==
  /\ Goto(s, "rename", AfterTask(s))
  /\ script' = [script EXCEPT ![Current(s)] = "sh"]
  /\ ctime' = [ctime EXCEPT ![Current(s)] = now + 1]
  /\ now' = now + 1
  /\ sent' = [sent EXCEPT ![s] = @ + 1]
  /\ UNCHANGED <<dirs, body, env, staged, container>>

(* The step cannot succeed in the present state of the share.              *)
Refused(s) ==
  \/ pc[s] = "env" /\ "tasks" \notin dirs
  \/ pc[s] = "stage" /\ "in" \notin dirs
  \/ pc[s] = "pid" /\ pc[Target[s]] = "sent"
                   /\ pidFile[<<Target[s], 1>>] # "written"

(* Faulty: on an error the scripts written so far are taken back.          *)
FailAndCleanUp(s) ==
  /\ pc[s] \notin Returning
  /\ "dispatch" \in Faults \/ Refused(s)
  /\ pc' = [pc EXCEPT ![s] = "failed"]
  /\ script' = [t \in Task |-> IF t[1] = s /\ script[t] = "sh" THEN "none" ELSE script[t]]
  /\ UNCHANGED <<sent, hostFiles, container>>

(* Faulty: a step that failed is tried again, from the env file on.        *)
FailAndRetry(s) ==
  /\ pc[s] \notin Returning
  /\ "dispatch" \in Faults \/ Refused(s)
  /\ pc' = [pc EXCEPT ![s] = "env"]
  /\ UNCHANGED <<sent, script, hostFiles, container>>

Fail(s) ==
  /\ pc[s] \notin Returning
  /\ "dispatch" \in Faults \/ Refused(s)
  /\ pc' = [pc EXCEPT ![s] = "failed"]
  /\ UNCHANGED <<sent, script, hostFiles, container>>

Schedule(s) == WriteEnv(s) \/ CreateTemp(s) \/ WriteScript(s) \/ Publish(s)

DispatchStep(s) ==
  \/ Rpc[s] = "create" /\ (\/ Prepare(s) \/ WriteEntryScript(s)
                         \/ CreateContainerGroup(s) \/ MakeInFolder(s))
  \/ Stage(s) \/ SkipExtract(s)
  \/ ReadPid(s)
  \/ Schedule(s)
  \/ Fail(s)

DispatchTypeOK ==
  /\ pc \in [Session -> PCs]
  /\ sent \in [Session -> Nat]
=============================================================================
