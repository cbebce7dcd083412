---------------------------- MODULE ShareMounts ----------------------------
(***************************************************************************)
(* What every RPC on a container does before and after its own work: Open  *)
(* creates the file share of the handle, in two requests to the storage    *)
(* service, and mounts it at a fresh directory of /tmp; Close unmounts it  *)
(* and removes the directory.  All handlers of one handle share the share, *)
(* each has a mount of its own.                                            *)
(*                                                                         *)
(* Azure Files and the kernel are external: the share is created, and      *)
(* deleted with all that it holds, by name; a deletion that was answered   *)
(* with an error may still take effect later; a mount with an open file    *)
(* cannot be unmounted; what was written to a file is certain to be on the *)
(* share when the file is closed.                                          *)
(***************************************************************************)
EXTENDS Naturals

CONSTANTS
  Call,    \* the RPCs on one container, each one handler invocation
  Kind,    \* Kind[c]: which RPC c is
  Faults,  \* the failures that may happen, see FaultKind
  Nobody   \* no share: the creator of a share that does not exist

RpcKind == {"Create", "Run", "StreamIn", "StreamOut", "Signal", "Wait"}

(* api: a request to the storage service fails; tmp: a temporary directory *)
(* cannot be made or removed; mount, umount: that command fails; flush: a  *)
(* close cannot write back; work: the RPC's own work fails.                *)
FaultKind == {"api", "tmp", "mount", "umount", "flush", "work"}

ASSUME ShareMountsAssumption ==
  /\ Kind \in [Call -> RpcKind]
  /\ Faults \subseteq FaultKind
  /\ Nobody \notin Call

VARIABLES
  pc,       \* pc[c]: the step that the handler of c takes next
  share,    \* the call that created the share, "before" for an earlier one
  flying,   \* calls whose deletion of the share may still take effect
  dirs,     \* calls whose directory is in /tmp
  mounts,   \* calls whose directory has the share mounted
  on,       \* on[c]: the share that c has mounted
  files,    \* calls that have a file of the share open
  stored,   \* calls whose work is on the share
  answer,   \* answer[c]: what the handler of c returns to the client
  failed,   \* history, failed[c]: what went wrong for c outside the handler
  unsettled \* history: calls that worked on a share which another call, or
            \* its own, was still creating

mountVars ==
  <<pc, share, flying, dirs, mounts, on, files, stored, answer, failed, unsettled>>

Share == Call \cup {"before", Nobody}

Working == {c \in Call : pc[c] \notin {"idle", "done"}}

(* Calls that may yet delete the share.                                    *)
Creating == {d \in Call : pc[d] \in {"quota", "delete"}} \cup flying

MountInit ==
  /\ pc = [c \in Call |-> "idle"]
  /\ share \in {"before", Nobody}
  /\ on = [c \in Call |-> Nobody]
  /\ answer = [c \in Call |-> "none"]
  /\ flying = {} /\ dirs = {} /\ mounts = {} /\ files = {} /\ stored = {}
  /\ failed = [c \in Call |-> {}]
  /\ unsettled = {}

Note(c, failure) == failed' = [failed EXCEPT ![c] = @ \cup {failure}]

Goto(c, from, to) == pc[c] = from /\ pc' = [pc EXCEPT ![c] = to]

-----------------------------------------------------------------------------
(* Before Open.                                                            *)

Begin(c) ==
  /\ Goto(c, "idle", IF Kind[c] = "StreamIn" THEN "receive" ELSE "create")
  /\ UNCHANGED <<share, flying, dirs, mounts, on, files, stored, answer, failed, unsettled>>

(* StreamIn opens when its client has sent both path and user.             *)
ReceivePathAndUser(c) ==
  /\ Goto(c, "receive", "create")
  /\ UNCHANGED <<share, flying, dirs, mounts, on, files, stored, answer, failed, unsettled>>

(* The stream ends without them: nothing is opened, and the answer is ok.  *)
ReceiveNothing(c) ==
  /\ Goto(c, "receive", "done")
  /\ answer' = [answer EXCEPT ![c] = "ok"]
  /\ Note(c, "nothing")
  /\ UNCHANGED <<share, flying, dirs, mounts, on, files, stored, unsettled>>

(* The stream breaks off, or content comes before path and user.           *)
ReceiveFails(c) ==
  /\ Goto(c, "receive", "done")
  /\ answer' = [answer EXCEPT ![c] = "failed"]
  /\ UNCHANGED <<share, flying, dirs, mounts, on, files, stored, failed, unsettled>>

-----------------------------------------------------------------------------
(* Open.                                                                   *)

CreateShare(c) ==
  /\ share = Nobody
  /\ Goto(c, "create", "quota")
  /\ share' = c
  /\ UNCHANGED <<flying, dirs, mounts, on, files, stored, answer, failed, unsettled>>

(* Faulty: whatever the error, the share is cleaned up.                    *)
CreateShareRollsBack(c) ==
  /\ share # Nobody \/ "api" \in Faults
  /\ Goto(c, "create", "delete")
  /\ UNCHANGED <<share, flying, dirs, mounts, on, files, stored, answer, failed, unsettled>>

(* The share exists, or the request fails: the error is only logged.       *)
CreateShareFails(c) ==
  /\ share # Nobody \/ "api" \in Faults
  /\ Goto(c, "create", "tempdir")
  /\ UNCHANGED <<share, flying, dirs, mounts, on, files, stored, answer, failed, unsettled>>

SetQuota(c) ==
  /\ \/ share # Nobody /\ Goto(c, "quota", "tempdir")
     \/ (share = Nobody \/ "api" \in Faults) /\ Goto(c, "quota", "delete")
  /\ UNCHANGED <<share, flying, dirs, mounts, on, files, stored, answer, failed, unsettled>>

(* The deletion goes by name, and takes what the share holds along.        *)
DeleteShare(c) ==
  /\ Goto(c, "delete", "tempdir")
  /\ share' = Nobody /\ stored' = {}
  /\ UNCHANGED <<flying, dirs, mounts, on, files, answer, failed, unsettled>>

DeleteShareFails(c) ==
  /\ "api" \in Faults
  /\ Goto(c, "delete", "tempdir")
  /\ flying' = flying \cup {c}
  /\ UNCHANGED <<share, dirs, mounts, on, files, stored, answer, failed, unsettled>>

DeletedLate(c) ==
  /\ c \in flying
  /\ flying' = flying \ {c}
  /\ share' = Nobody /\ stored' = {}
  /\ UNCHANGED <<pc, dirs, mounts, on, files, answer, failed, unsettled>>

(* The error of TempDir is overwritten by that of mount.                   *)
TempDir(c) ==
  /\ Goto(c, "tempdir", "mount")
  /\ \/ dirs' = dirs \cup {c}
     \/ "tmp" \in Faults /\ UNCHANGED dirs
  /\ UNCHANGED <<share, flying, mounts, on, files, stored, answer, failed, unsettled>>

Mount(c) ==
  /\ c \in dirs /\ share # Nobody
  /\ Goto(c, "mount", "work")
  /\ mounts' = mounts \cup {c}
  /\ on' = [on EXCEPT ![c] = share]
  /\ unsettled' = IF Creating = {} THEN unsettled ELSE unsettled \cup {c}
  /\ UNCHANGED <<share, flying, dirs, files, stored, answer, failed>>

(* StreamOut does not look at the error of Open; the others return it, and *)
(* nothing closes what Open has done so far.                               *)
MountFails(c) ==
  /\ c \notin dirs \/ share = Nobody \/ "mount" \in Faults
  /\ \/ Kind[c] = "StreamOut" /\ Goto(c, "mount", "work") /\ UNCHANGED answer
     \/ /\ Kind[c] # "StreamOut" /\ Goto(c, "mount", "done")
        /\ answer' = [answer EXCEPT ![c] = "failed"]
  /\ Note(c, "mount")
  /\ UNCHANGED <<share, flying, dirs, mounts, on, files, stored, unsettled>>

-----------------------------------------------------------------------------
(* The work of the RPC, on the paths of its own mount, in one step.        *)

Alive(c) == c \in mounts /\ on[c] = share

(* StreamIn and StreamOut return with a file open; the other RPCs close    *)
(* each file they write.  Wait works until it has seen an exit.  Signal    *)
(* always answers with an error.                                           *)
KeepsFile(c) == Kind[c] \in {"StreamIn", "StreamOut"}

Work(c) ==
  /\ Alive(c)
  /\ Goto(c, "work", "return")
  /\ answer' = [answer EXCEPT ![c] = IF Kind[c] = "Signal" THEN "failed" ELSE "ok"]
  /\ files' = IF KeepsFile(c) THEN files \cup {c} ELSE files
  /\ stored' = IF Kind[c] = "StreamIn" THEN stored ELSE stored \cup {c}
  /\ UNCHANGED <<share, flying, dirs, mounts, on, failed, unsettled>>

WorkFails(c) ==
  /\ ~Alive(c) \/ "work" \in Faults
  /\ Goto(c, "work", "return")
  /\ answer' = [answer EXCEPT ![c] = "failed"]
  /\ \/ UNCHANGED files
     \/ KeepsFile(c) /\ c \in mounts /\ files' = files \cup {c}
  /\ UNCHANGED <<share, flying, dirs, mounts, on, stored, failed, unsettled>>

(* StreamIn drops the error of PrepareExtractFile: when no content comes,  *)
(* it dispatches nothing and answers ok.                                   *)
NothingToExtract(c) ==
  /\ Kind[c] = "StreamIn" /\ (~Alive(c) \/ "work" \in Faults)
  /\ Goto(c, "work", "return")
  /\ answer' = [answer EXCEPT ![c] = "ok"]
  /\ Note(c, "work")
  /\ UNCHANGED <<share, flying, dirs, mounts, on, files, stored, unsettled>>

-----------------------------------------------------------------------------
(* The deferred calls, the last one first: the file, then Close.           *)

(* Faulty: the deferred calls in the order in which they stand.            *)
CloseFileLast(c) ==
  /\ Goto(c, "return", "umount")
  /\ UNCHANGED <<share, flying, dirs, mounts, on, files, stored, answer, failed, unsettled>>

(* The error of the file's Close, or of its write-back, is dropped.        *)
CloseFile(c) ==
  /\ Goto(c, "return", "umount")
  /\ files' = files \ {c}
  /\ IF Kind[c] = "StreamIn" /\ c \in files /\ Alive(c)
       THEN \/ stored' = stored \cup {c} /\ UNCHANGED failed
            \/ "flush" \in Faults /\ Note(c, "flush") /\ UNCHANGED stored
       ELSE UNCHANGED <<stored, failed>>
  /\ UNCHANGED <<share, flying, dirs, mounts, on, answer, unsettled>>

Umount(c) ==
  /\ c \in mounts \ files
  /\ Goto(c, "umount", "rmdir")
  /\ mounts' = mounts \ {c}
  /\ UNCHANGED <<share, flying, dirs, on, files, stored, answer, failed, unsettled>>

(* Faulty: Close goes on after a failed umount.                            *)
UmountFailsUnnoticed(c) ==
  /\ Goto(c, "umount", "rmdir")
  /\ c \in mounts \ files /\ "umount" \in Faults /\ Note(c, "umount")
  /\ UNCHANGED <<share, flying, dirs, mounts, on, files, stored, answer, unsettled>>

(* Close returns before os.Remove, and the handlers drop its error.        *)
UmountFails(c) ==
  /\ Goto(c, "umount", "done")
  /\ \/ c \notin mounts \ files /\ UNCHANGED failed
     \/ c \in mounts \ files /\ "umount" \in Faults /\ Note(c, "umount")
  /\ files' = files \ {c}
  /\ UNCHANGED <<share, flying, dirs, mounts, on, stored, answer, unsettled>>

RemoveDir(c) ==
  /\ Goto(c, "rmdir", "done")
  /\ \/ dirs' = dirs \ {c} /\ UNCHANGED failed
     \/ "tmp" \in Faults /\ Note(c, "tmp") /\ UNCHANGED dirs
  /\ UNCHANGED <<share, flying, mounts, on, files, stored, answer, unsettled>>

MountSteps(c) ==
  \/ ReceivePathAndUser(c) \/ ReceiveNothing(c) \/ ReceiveFails(c)
  \/ CreateShare(c) \/ CreateShareFails(c) \/ SetQuota(c)
  \/ DeleteShare(c) \/ DeleteShareFails(c)
  \/ TempDir(c) \/ Mount(c) \/ MountFails(c)
  \/ Work(c) \/ WorkFails(c) \/ NothingToExtract(c)
  \/ CloseFile(c) \/ Umount(c) \/ UmountFails(c) \/ RemoveDir(c)

-----------------------------------------------------------------------------
MountTypeOK ==
  /\ pc \in [Call -> {"idle", "receive", "create", "quota", "delete", "tempdir",
                      "mount", "work", "return", "umount", "rmdir", "done"}]
  /\ share \in Share /\ on \in [Call -> Share]
  /\ flying \subseteq Call /\ stored \subseteq Call /\ unsettled \subseteq Call
  /\ mounts \subseteq dirs /\ dirs \subseteq Call
  /\ files \subseteq mounts
  /\ answer \in [Call -> {"none", "ok", "failed", "broken"}]
  /\ failed \in [Call -> SUBSET {"nothing", "mount", "umount", "tmp", "work", "flush", "crash"}]

(* Whatever an RPC returns and wherever it returns, its mount and its      *)
(* directory are gone when it is over, but for failures of mount, umount   *)
(* and rmdir themselves and for the end of the server process: no umount   *)
(* finds a file that its own handler has left open.                        *)
LeaksAreFailures ==
  \A c \in Call \ Working :
    /\ c \in mounts => failed[c] \cap {"umount", "crash"} # {}
    /\ c \in dirs => failed[c] \cap {"mount", "umount", "tmp", "crash"} # {}

(* What a client was told ok for is on the share, and no other handler     *)
(* takes it away by undoing a creation of its own, unless that creation    *)
(* was at work when the share was mounted, or the RPC could not make its   *)
(* file or write the last bytes back, or its client has sent nothing.      *)
AckedWorkStays ==
  \A c \in Call \ (Working \cup unsettled) :
    answer[c] = "ok" => c \in stored \/ failed[c] \cap {"nothing", "work", "flush"} # {}
=============================================================================
