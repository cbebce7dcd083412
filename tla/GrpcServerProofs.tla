-------------------------- MODULE GrpcServerProofs --------------------------
(***************************************************************************)
(* The safety properties of GrpcServer for any number of RPCs of any kind, *)
(* any failures, and any number of starts of the process.                  *)
(***************************************************************************)
EXTENDS GrpcServer, TLAPS

(* What a handler has in /tmp at each of its steps.                        *)
MountInv ==
  \A c \in Call :
    /\ pc[c] \in {"idle", "receive", "create", "quota", "delete", "tempdir"} => c \notin dirs
    /\ pc[c] \in {"mount", "rmdir"} => c \notin mounts
    /\ pc[c] \in {"work", "return", "umount"} /\ c \notin mounts =>
         "mount" \in failed[c] /\ Kind[c] = "StreamOut"
    /\ pc[c] = "umount" => c \notin files

(* Once a call has mounted a share that nobody is still creating, nobody   *)
(* creates, and so nobody deletes, a share again.                          *)
SettledInv ==
  \A c \in Call : on[c] # Nobody /\ c \notin unsettled => Creating = {} /\ on[c] = share

(* Where the work of a call is that has succeeded.                         *)
StoredInv ==
  /\ \A c \in mounts : on[c] # Nobody
  /\ \A c \in Call : answer[c] = "ok" /\ "nothing" \notin failed[c] =>
       /\ pc[c] \in {"return", "umount", "rmdir", "done"}
       /\ on[c] # Nobody
       /\ c \notin unsettled =>
            \/ c \in stored \/ failed[c] \cap {"work", "flush"} # {}
            \/ pc[c] = "return" /\ Kind[c] = "StreamIn" /\ c \in files

ProcessInv ==
  /\ status # "none" => server = "exited"
  /\ status # "none" /\ ~crashed => ~registered
  /\ server = "off" => acceptor = "none"

Inv ==
  /\ TypeOK /\ MountInv /\ LeaksAreFailures
  /\ SettledInv /\ StoredInv
  /\ ProcessInv /\ StopCutsNothing /\ RegisteredIsServed

-----------------------------------------------------------------------------
LEMMA InitInv == Init => Inv
BY ShareMountsAssumption
   DEF Init, MountInit, Inv, TypeOK, MountTypeOK, MountInv, LeaksAreFailures, SettledInv,
       StoredInv, ProcessInv, StopCutsNothing, RegisteredIsServed, Share, Working

(* A step is one of a handler, of the storage service or of the process.   *)
LEMMA StepKinds ==
  ASSUME [Next]_vars
  PROVE  \/ UNCHANGED vars
         \/ Process
         \/ /\ UNCHANGED serverVars
            /\ \E c \in Call :
                 \/ server = "serving" /\ Begin(c)
                 \/ server \in {"serving", "draining"} /\ MountSteps(c)
                 \/ DeletedLate(c)
BY DEF Next, Accept, Handle, StoreTakesLate

(* The process itself leaves the mounts alone unless it crashes.           *)
LEMMA ProcessSteps ==
  ASSUME Process
  PROVE  Crash \/ UNCHANGED mountVars
BY DEF Process, Listen, ListenFails, Register, Signal, Deregister, StopOnSignal,
       ServeFails, StopOnError, Stopped, Exit, Expire, Restart

LEMMA TypeStep ==
  ASSUME TypeOK, MountInv, [Next]_vars
  PROVE  MountTypeOK'
<1> USE DEF TypeOK, MountTypeOK, Share
<1>1. CASE UNCHANGED mountVars
  BY <1>1 DEF mountVars
<1>2. CASE Crash
  BY <1>2 DEF Crash, Working
<1>3. ASSUME NEW c \in Call, Begin(c) \/ MountSteps(c) \/ DeletedLate(c)
      PROVE  MountTypeOK'
  <2> USE DEF Goto, Note
  <2>1. CASE Begin(c)
    BY <2>1 DEF Begin
  <2>2. CASE CreateShare(c)
    BY <2>2 DEF CreateShare
  <2>3. CASE CreateShareFails(c)
    BY <2>3 DEF CreateShareFails
  <2>4. CASE SetQuota(c)
    BY <2>4 DEF SetQuota
  <2>5. CASE DeleteShare(c)
    BY <2>5 DEF DeleteShare
  <2>6. CASE DeleteShareFails(c)
    BY <2>6 DEF DeleteShareFails
  <2>7. CASE TempDir(c)
    BY <2>7 DEF TempDir
  <2>8. CASE Mount(c)
    BY <2>8 DEF Mount
  <2>9. CASE MountFails(c)
    BY <2>9 DEF MountFails
  <2>10. CASE Work(c)
    BY <2>10 DEF Work, Alive
  <2>11. CASE WorkFails(c)
    BY <2>11 DEF WorkFails
  <2>12. CASE CloseFile(c)
    BY <2>12 DEF CloseFile
  <2>13. CASE Umount(c)
    BY <2>13 DEF Umount
  <2>14. CASE UmountFails(c)
    BY <2>14 DEF UmountFails
  <2>15. CASE RemoveDir(c)
    BY <2>15 DEF RemoveDir, MountInv
  <2>16. CASE DeletedLate(c)
    BY <2>16 DEF DeletedLate
  <2>17. CASE NothingToExtract(c)
    BY <2>17 DEF NothingToExtract, Alive
  <2>18. CASE ReceivePathAndUser(c)
    BY <2>18 DEF ReceivePathAndUser
  <2>19. CASE ReceiveNothing(c) \/ ReceiveFails(c)
    BY <2>19 DEF ReceiveNothing, ReceiveFails
  <2>20. QED
    BY <1>3, <2>1, <2>2, <2>3, <2>4, <2>5, <2>6, <2>7, <2>8, <2>9, <2>10, <2>11, <2>12,
       <2>13, <2>14, <2>15, <2>16, <2>17, <2>18, <2>19 DEF MountSteps
<1>4. QED
  BY <1>1, <1>2, <1>3, StepKinds, ProcessSteps DEF vars

(* A leak needs a failure of its own: what a handler has in /tmp follows   *)
(* from the step it is at, and it stops short only where one is noted.     *)
LEMMA MountStep ==
  ASSUME TypeOK, MountInv, LeaksAreFailures, [Next]_vars
  PROVE  MountInv' /\ LeaksAreFailures'
<1> USE DEF TypeOK, MountTypeOK, MountInv, LeaksAreFailures, Working
<1>1. CASE UNCHANGED mountVars
  BY <1>1 DEF mountVars
<1>2. CASE Crash
  BY <1>2 DEF Crash
<1>3. ASSUME NEW c \in Call, Begin(c) \/ MountSteps(c) \/ DeletedLate(c)
      PROVE  MountInv' /\ LeaksAreFailures'
  <2> USE DEF Goto, Note
  <2>1. CASE Begin(c)
    BY <2>1 DEF Begin
  <2>2. CASE CreateShare(c)
    BY <2>2 DEF CreateShare
  <2>3. CASE CreateShareFails(c)
    BY <2>3 DEF CreateShareFails
  <2>4. CASE SetQuota(c)
    BY <2>4 DEF SetQuota
  <2>5. CASE DeleteShare(c)
    BY <2>5 DEF DeleteShare
  <2>6. CASE DeleteShareFails(c)
    BY <2>6 DEF DeleteShareFails
  <2>7. CASE TempDir(c)
    BY <2>7 DEF TempDir
  <2>8. CASE Mount(c)
    BY <2>8 DEF Mount
  <2>9. CASE MountFails(c)
    BY <2>9 DEF MountFails
  <2>10. CASE Work(c)
    BY <2>10 DEF Work
  <2>11. CASE WorkFails(c)
    BY <2>11 DEF WorkFails
  <2>12. CASE CloseFile(c)
    BY <2>12 DEF CloseFile
  <2>13. CASE Umount(c)
    BY <2>13 DEF Umount
  <2>14. CASE UmountFails(c)
    BY <2>14 DEF UmountFails
  <2>15. CASE RemoveDir(c)
    BY <2>15 DEF RemoveDir
  <2>16. CASE DeletedLate(c)
    BY <2>16 DEF DeletedLate
  <2>17. CASE NothingToExtract(c)
    BY <2>17 DEF NothingToExtract, Alive
  <2>18. CASE ReceivePathAndUser(c)
    BY <2>18 DEF ReceivePathAndUser
  <2>19. CASE ReceiveNothing(c) \/ ReceiveFails(c)
    BY <2>19 DEF ReceiveNothing, ReceiveFails
  <2>20. QED
    BY <1>3, <2>1, <2>2, <2>3, <2>4, <2>5, <2>6, <2>7, <2>8, <2>9, <2>10, <2>11,
       <2>12, <2>13, <2>14, <2>15, <2>16, <2>17, <2>18, <2>19 DEF MountSteps
<1>4. QED
  BY <1>1, <1>2, <1>3, StepKinds, ProcessSteps DEF vars

(* A settled share is not deleted: whoever could has had an error that a   *)
(* share exists, and went on without the right to undo anything.           *)
LEMMA SettledStep ==
  ASSUME TypeOK, MountInv, SettledInv, [Next]_vars
  PROVE  SettledInv'
<1> USE DEF TypeOK, MountTypeOK, Share, MountInv, SettledInv, Creating
<1>1. CASE UNCHANGED mountVars
  BY <1>1 DEF mountVars
<1>2. CASE Crash
  BY <1>2 DEF Crash, Working
<1>3. ASSUME NEW c \in Call, Begin(c) \/ MountSteps(c) \/ DeletedLate(c)
      PROVE  SettledInv'
  <2> USE DEF Goto, Note
  <2>1. CASE Begin(c)
    BY <2>1 DEF Begin
  <2>2. CASE CreateShare(c)
    BY <2>2 DEF CreateShare
  <2>3. CASE CreateShareFails(c)
    BY <2>3 DEF CreateShareFails
  <2>4. CASE SetQuota(c)
    BY <2>4 DEF SetQuota
  <2>5. CASE DeleteShare(c)
    BY <2>5 DEF DeleteShare
  <2>6. CASE DeleteShareFails(c)
    BY <2>6 DEF DeleteShareFails
  <2>7. CASE TempDir(c)
    BY <2>7 DEF TempDir
  <2>8. CASE Mount(c)
    BY <2>8 DEF Mount
  <2>9. CASE MountFails(c)
    BY <2>9 DEF MountFails
  <2>10. CASE Work(c)
    BY <2>10 DEF Work
  <2>11. CASE WorkFails(c)
    BY <2>11 DEF WorkFails
  <2>12. CASE CloseFile(c)
    BY <2>12 DEF CloseFile
  <2>13. CASE Umount(c)
    BY <2>13 DEF Umount
  <2>14. CASE UmountFails(c)
    BY <2>14 DEF UmountFails
  <2>15. CASE RemoveDir(c)
    BY <2>15 DEF RemoveDir
  <2>16. CASE DeletedLate(c)
    BY <2>16 DEF DeletedLate
  <2>17. CASE NothingToExtract(c)
    BY <2>17 DEF NothingToExtract, Alive
  <2>18. CASE ReceivePathAndUser(c)
    BY <2>18 DEF ReceivePathAndUser
  <2>19. CASE ReceiveNothing(c) \/ ReceiveFails(c)
    BY <2>19 DEF ReceiveNothing, ReceiveFails
  <2>20. QED
    BY <1>3, <2>1, <2>2, <2>3, <2>4, <2>5, <2>6, <2>7, <2>8, <2>9, <2>10, <2>11,
       <2>12, <2>13, <2>14, <2>15, <2>16, <2>17, <2>18, <2>19 DEF MountSteps
<1>4. QED
  BY <1>1, <1>2, <1>3, StepKinds, ProcessSteps DEF vars

LEMMA StoredStep ==
  ASSUME TypeOK, MountInv, SettledInv, StoredInv, [Next]_vars
  PROVE  StoredInv'
<1> USE DEF TypeOK, MountTypeOK, Share, MountInv, SettledInv, StoredInv, Creating
<1>1. CASE UNCHANGED mountVars
  BY <1>1 DEF mountVars
<1>2. CASE Crash
  BY <1>2 DEF Crash, Working
<1>3. ASSUME NEW c \in Call, Begin(c) \/ MountSteps(c) \/ DeletedLate(c)
      PROVE  StoredInv'
  <2> USE DEF Goto, Note
  <2>1. CASE Begin(c)
    BY <2>1 DEF Begin
  <2>2. CASE CreateShare(c)
    BY <2>2 DEF CreateShare
  <2>3. CASE CreateShareFails(c)
    BY <2>3 DEF CreateShareFails
  <2>4. CASE SetQuota(c)
    BY <2>4 DEF SetQuota
  <2>5. CASE DeleteShare(c)
    BY <2>5 DEF DeleteShare
  <2>6. CASE DeleteShareFails(c)
    BY <2>6 DEF DeleteShareFails
  <2>7. CASE TempDir(c)
    BY <2>7 DEF TempDir
  <2>8. CASE Mount(c)
    BY <2>8 DEF Mount
  <2>9. CASE MountFails(c)
    BY <2>9 DEF MountFails
  <2>10. CASE Work(c)
    BY <2>10 DEF Work, Alive, KeepsFile
  <2>11. CASE WorkFails(c)
    BY <2>11 DEF WorkFails, Alive
  <2>12. CASE CloseFile(c)
    BY <2>12 DEF CloseFile, Alive
  <2>13. CASE Umount(c)
    BY <2>13 DEF Umount
  <2>14. CASE UmountFails(c)
    BY <2>14 DEF UmountFails
  <2>15. CASE RemoveDir(c)
    BY <2>15 DEF RemoveDir
  <2>16. CASE DeletedLate(c)
    BY <2>16 DEF DeletedLate
  <2>17. CASE NothingToExtract(c)
    BY <2>17 DEF NothingToExtract, Alive
  <2>18. CASE ReceivePathAndUser(c)
    BY <2>18 DEF ReceivePathAndUser
  <2>19. CASE ReceiveNothing(c) \/ ReceiveFails(c)
    BY <2>19 DEF ReceiveNothing, ReceiveFails
  <2>20. QED
    BY <1>3, <2>1, <2>2, <2>3, <2>4, <2>5, <2>6, <2>7, <2>8, <2>9, <2>10, <2>11,
       <2>12, <2>13, <2>14, <2>15, <2>16, <2>17, <2>18, <2>19 DEF MountSteps
<1>4. QED
  BY <1>1, <1>2, <1>3, StepKinds, ProcessSteps DEF vars

-----------------------------------------------------------------------------
(* The process: who may be at work, and what a stop has waited for.        *)
LEMMA ProcessStep ==
  ASSUME Inv, [Next]_vars
  PROVE  TypeOK' /\ ProcessInv' /\ StopCutsNothing' /\ RegisteredIsServed'
<1> DEFINE Goal == /\ TypeOK' /\ ProcessInv'
                   /\ StopCutsNothing' /\ RegisteredIsServed'
<1>1. MountTypeOK'
  BY TypeStep DEF Inv
<1> USE <1>1 DEF Inv, TypeOK, ProcessInv, StopCutsNothing, RegisteredIsServed
<1>2. CASE UNCHANGED vars
  BY <1>2 DEF vars, mountVars, serverVars, Working
<1>3. CASE Process
  <2>0. UNCHANGED mountVars => Working' = Working
    BY DEF mountVars, Working
  <2>1. CASE Listen
    BY <2>0, <2>1 DEF Listen, mountVars
  <2>2. CASE ListenFails
    BY <2>0, <2>2 DEF ListenFails, mountVars
  <2>3. CASE Register
    BY <2>0, <2>3 DEF Register, mountVars
  <2>4. CASE Signal
    BY <2>0, <2>4 DEF Signal, mountVars
  <2>5. CASE Deregister
    BY <2>0, <2>5 DEF Deregister, mountVars
  <2>6. CASE StopOnSignal
    BY <2>0, <2>6 DEF StopOnSignal, mountVars
  <2>7. CASE ServeFails
    BY <2>0, <2>7 DEF ServeFails, mountVars
  <2>8. CASE StopOnError
    BY <2>0, <2>8 DEF StopOnError, mountVars
  <2>9. CASE Stopped
    BY <2>0, <2>9 DEF Stopped, mountVars
  <2>10. CASE Exit
    BY <2>0, <2>10 DEF Exit, mountVars
  <2>11. CASE Crash
    BY <2>11 DEF Crash, mountVars, Working, MountTypeOK
  <2>12. CASE Expire
    BY <2>0, <2>12 DEF Expire, mountVars
  <2>13. CASE Restart
    BY <2>0, <2>13 DEF Restart, mountVars
  <2>14. QED
    BY <1>3, <2>1, <2>2, <2>3, <2>4, <2>5, <2>6, <2>7, <2>8, <2>9,
       <2>10, <2>11, <2>12, <2>13 DEF Process
<1>4. ASSUME UNCHANGED serverVars,
             NEW c \in Call, server \in {"serving", "draining"},
             Begin(c) \/ MountSteps(c)
      PROVE  Goal
  <2>1. \A d \in Call : answer'[d] = "broken" => answer[d] = "broken"
    BY <1>4 DEF Begin, MountSteps, ReceivePathAndUser, ReceiveNothing, ReceiveFails, CreateShare, CreateShareFails, SetQuota, DeleteShare,
         DeleteShareFails, TempDir, Mount, MountFails, Work, WorkFails, NothingToExtract,
         CloseFile, Umount, UmountFails, RemoveDir, MountTypeOK
  <2>2. status = "none"
    BY <1>4
  <2>3. QED
    BY <1>4, <2>1, <2>2 DEF serverVars
<1>5. ASSUME UNCHANGED serverVars, NEW c \in Call, DeletedLate(c)
      PROVE  Goal
  BY <1>5 DEF serverVars, DeletedLate, Working
<1>6. QED
  BY <1>2, <1>3, <1>4, <1>5, StepKinds

LEMMA Step ==
  ASSUME Inv, [Next]_vars
  PROVE  Inv'
BY MountStep, SettledStep, StoredStep, ProcessStep DEF Inv

(* Inv is an inductive invariant of the server and its handlers.           *)
THEOREM ServerInvariance == Spec => []Inv
<1>1. Inv /\ [Next]_vars => Inv'
  BY Step
<1>2. QED
  BY InitInv, <1>1, PTL DEF Spec

(* Type correctness; with it that handlers are at work only in a process   *)
(* that serves or drains, and that no directory is removed under a mount.  *)
THEOREM ServerTypes == Spec => []TypeOK
<1>1. Inv => TypeOK
  BY DEF Inv
<1>2. QED
  BY <1>1, ServerInvariance, PTL

(* A mount or a directory that an RPC leaves behind is the trace of a      *)
(* failure of mount, umount or rmdir, or of a crash.                       *)
THEOREM LeaksNeedFailures == Spec => []LeaksAreFailures
<1>1. Inv => LeaksAreFailures
  BY DEF Inv
<1>2. QED
  BY <1>1, ServerInvariance, PTL

(* Acknowledged work on a share that nobody was still creating is not      *)
(* taken away by another handler's rollback.                               *)
THEOREM AcknowledgedWorkStays == Spec => []AckedWorkStays
<1>1. Inv => AckedWorkStays
  BY DEF Inv, StoredInv, AckedWorkStays, Working, TypeOK, MountTypeOK
<1>2. QED
  BY <1>1, ServerInvariance, PTL

(* A graceful stop cuts no RPC off.                                        *)
THEOREM StopsAreGraceful == Spec => []StopCutsNothing
<1>1. Inv => StopCutsNothing
  BY DEF Inv
<1>2. QED
  BY <1>1, ServerInvariance, PTL

(* Clients are sent only to a server that takes RPCs.                      *)
THEOREM RegistrationIsServed == Spec => []RegisteredIsServed
<1>1. Inv => RegisteredIsServed
  BY DEF Inv
<1>2. QED
  BY <1>1, ServerInvariance, PTL
=============================================================================
