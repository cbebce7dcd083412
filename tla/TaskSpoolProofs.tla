-------------------------- MODULE TaskSpoolProofs --------------------------
(***************************************************************************)
(* Proofs about TaskSpool, for every set of RPCs, number of bind mounts,   *)
(* bound on retries and choice of faults.  IInv is the inductive           *)
(* invariant; each of its parts has a name and the parts that make a       *)
(* property hold are cited where the property is derived.                  *)
(***************************************************************************)
EXTENDS TaskSpool, TLAPS

Busy == {"exec", "wait", "mv"}

MovesIn(s) == Rpc[s] \in {"create", "stream_in"}

(* Where a handler stands in its list of tasks, and that exactly the tasks *)
(* before that point are published.                                        *)
PlanInv ==
  \A s \in Session :
    /\ sent[s] <= Size(s)
    /\ pc[s] = "pid" => Rpc[s] = "signal"
    /\ pc[s] \in {"prepare", "entry", "aci"} => sent[s] = 0
    /\ pc[s] \notin {"prepare", "entry", "aci", "sent", "failed"} => sent[s] < Size(s)
    /\ \A i \in 1 .. Size(s) : Published(<<s, i>>) <=> i <= sent[s]

(* What a handler writes for a task before it publishes it, and that is    *)
(* certain by then: always the script and the folder of a bind mount; the  *)
(* env file and the file of a StreamIn if the mount holds no writes back.  *)
EnvCertain == "write_back" \notin Faults

PayloadCertain(s) ==
  \/ Rpc[s] = "create"
  \/ Rpc[s] = "stream_in" /\ "write_back" \notin Faults

(* What a handler has written by the step it has reached.                  *)
WholeInv ==
  \A s \in Session :
    /\ pc[s] \in {"temp", "body", "rename"} /\ EnvCertain => Current(s) \in env
    /\ pc[s] = "rename" => Current(s) \in body
    /\ pc[s] \in {"env", "temp", "body", "rename"} /\ PayloadCertain(s) => sent[s] < staged[s]
    /\ \A i \in 1 .. Size(s) : i <= sent[s] =>
         /\ <<s, i>> \in body
         /\ EnvCertain => <<s, i>> \in env
         /\ PayloadCertain(s) => i <= staged[s]

(* The change times of published scripts follow the order of publication.  *)
ClockInv ==
  /\ scanned <= now
  /\ \A t \in Task : Published(t) => ctime[t] <= now
  /\ \A t, u \in Task : Earlier(t, u) /\ Published(u) => ctime[t] < ctime[u]

(* The script in the daemon's hand is still there and still the oldest.    *)
HandInv ==
  /\ dpc \in Busy => cur \in Task /\ script[cur] = "sh" /\ Oldest(cur)
  /\ dpc = "wait" => Serial(cur)
  /\ dpc \in {"wait", "mv"} => Begun(cur)

(* Executions: only of published scripts, stream scripts only while the    *)
(* daemon waits for them, and repeated only after a failed mv.             *)
ExecInv ==
  \A t \in Task :
    /\ \A k \in Attempt : proc[t][k] = "none" <=> k > tries[t]
    /\ Begun(t) => Published(t)
    /\ Executed(t) => Begun(t)
    /\ Serial(t) => \A k \in Attempt :
         Alive(t, k) => dpc = "wait" /\ cur = t /\ k = tries[t]
    /\ script[t] = "sh" /\ ~InHand(t) =>
         tries[t] < MaxTries /\ ("mv" \notin Faults => tries[t] = 0)
    /\ "mv" \notin Faults => tries[t] <= 1

(* After the listing of stream_in the older stream_in scripts are gone.    *)
BarrierInv ==
  \/ dpc \in {"scan_run", "scan_out"}
  \/ dpc \in Busy /\ Step(cur) # "stream_in"
  => \A t \in Task :
       Step(t) = "stream_in" /\ Published(t) /\ ctime[t] <= scanned => Executed(t)

(* The inductive invariant.                                                *)
IInv == TypeOK /\ PlanInv /\ WholeInv /\ ClockInv /\ HandInv /\ ExecInv /\ Fifo /\ BarrierInv

-----------------------------------------------------------------------------
(* Facts about the constants.                                              *)

(* The number of tasks of an RPC is a natural number; a stream_in task is  *)
(* a task of a Create or a StreamIn, and only a Create or a stream RPC has *)
(* more than one task, none of them a run task.                            *)
LEMMA SizeFacts ==
  ASSUME NEW s \in Session
  PROVE  /\ Size(s) \in Nat
         /\ Rpc[s] \in RpcKind
         /\ Rpc[s] \in {"run", "signal"} => Size(s) = 1
  <1>1. Rpc[s] \in RpcKind /\ BindMounts \in Nat
    BY SwapRootAssumption
  <1> QED
    BY <1>1 DEF Size, RpcKind

(* A task is a pair of an RPC and a position in its list.                  *)
LEMMA TaskPair ==
  ASSUME NEW t \in Task
  PROVE  t[1] \in Session /\ t[2] \in 1 .. Size(t[1]) /\ t = <<t[1], t[2]>>
  BY DEF Task

LEMMA TaskElem ==
  ASSUME NEW s \in Session, NEW i \in 1 .. Size(s)
  PROVE  <<s, i>> \in Task
  BY DEF Task

(* The folders, and who writes to them.                                    *)
LEMMA StepFacts ==
  ASSUME NEW t \in Task
  PROVE  /\ Step(t) \in {"stream_in", "run", "stream_out"}
         /\ Step(t) = "stream_in" <=> MovesIn(t[1])
         /\ Step(t) = "run" <=> Rpc[t[1]] \in {"run", "signal"}
  <1>1. t[1] \in Session
    BY TaskPair
  <1>2. Rpc[t[1]] \in RpcKind
    BY <1>1, SwapRootAssumption
  <1> QED
    BY <1>2 DEF Step, MovesIn, RpcKind

(* Two tasks of one RPC go to the same folder and are waited for.          *)
LEMMA EarlierFacts ==
  ASSUME NEW t \in Task, NEW u \in Task, Earlier(t, u)
  PROVE  Step(t) = Step(u) /\ Serial(t) /\ Serial(u)
  <1>1. Step(t) = Step(u)
    BY DEF Earlier, Step
  <1>2. Size(u[1]) # 1
    BY TaskPair, SizeFacts DEF Earlier
  <1>3. Step(u) # "run"
    BY <1>2, TaskPair, SizeFacts, StepFacts
  <1> QED
    BY <1>1, <1>3 DEF Serial

-----------------------------------------------------------------------------
(* The invariant holds initially.                                          *)
LEMMA InitIInv == Init => IInv
  <1> SUFFICES ASSUME Init PROVE IInv
    OBVIOUS
  <1> USE DEF Init, SwapInit, DispatchInit, DaemonInit
  <1>0. \A t \in Task : ~Published(t) /\ script[t] = "none"
    BY DEF Published
  <1>1. TypeOK
    <2>1. SwapTypeOK
      BY DEF SwapTypeOK, Names, Contents
    <2>2. DispatchTypeOK
      BY DEF DispatchTypeOK, PCs, Entry
    <2>3. DaemonTypeOK
      BY SwapRootAssumption DEF DaemonTypeOK, DaemonPCs, ProcStates
    <2> QED
      BY <2>1, <2>2, <2>3 DEF TypeOK
  <1>2. PlanInv
    <2> SUFFICES ASSUME NEW s \in Session
                 PROVE  /\ sent[s] <= Size(s)
                        /\ pc[s] = "pid" => Rpc[s] = "signal"
                        /\ pc[s] \in {"prepare", "entry", "aci"} => sent[s] = 0
                        /\ pc[s] \notin {"prepare", "entry", "aci", "sent", "failed"}
                             => sent[s] < Size(s)
                        /\ \A i \in 1 .. Size(s) : Published(<<s, i>>) <=> i <= sent[s]
      BY DEF PlanInv
    <2>1. Size(s) \in Nat /\ Rpc[s] \in RpcKind /\ sent[s] = 0
      BY SizeFacts
    <2>2. pc[s] \notin {"prepare", "entry", "aci", "sent", "failed"} => 0 < Size(s)
      BY <2>1 DEF Entry, Size, RpcKind
    <2>3. \A i \in 1 .. Size(s) : ~Published(<<s, i>>)
      BY <1>0, TaskElem
    <2>4. pc[s] = "pid" => Rpc[s] = "signal"
      BY DEF Entry
    <2> QED
      BY <2>1, <2>2, <2>3, <2>4
  <1>3. WholeInv
    <2>1. \A s \in Session : Size(s) \in Nat /\ sent[s] = 0
      BY SizeFacts
    <2>2. \A s \in Session : pc[s] \notin {"temp", "body", "rename"}
      BY DEF Entry
    <2>3. \A s \in Session : PayloadCertain(s) => pc[s] # "env"
      BY DEF Entry, PayloadCertain
    <2>4. \A s \in Session : \A i \in 1 .. Size(s) : ~(i <= sent[s])
      BY <2>1
    <2> QED
      BY <2>2, <2>3, <2>4 DEF WholeInv
  <1>4. ClockInv
    BY <1>0 DEF ClockInv
  <1>5. HandInv
    BY DEF HandInv, Busy
  <1>6. ExecInv
    BY <1>0, SwapRootAssumption DEF ExecInv, Begun, Alive, Executed, Attempt
  <1>7. Fifo
    BY <1>0 DEF Fifo
  <1>8. BarrierInv
    BY <1>0 DEF BarrierInv, Busy
  <1> QED
    BY <1>1, <1>2, <1>3, <1>4, <1>5, <1>6, <1>7, <1>8 DEF IInv

-----------------------------------------------------------------------------
(* Steps of the handlers.  Only Publish changes what the daemon sees; for  *)
(* every other step the parts of the invariant that are about published    *)
(* scripts and the daemon carry over.                                      *)
LEMMA UnseenStep ==
  ASSUME IInv, UNCHANGED <<ctime, now, daemonVars>>,
         \A t \in Task : \/ script'[t] = script[t]
                         \/ script[t] \in {"none", "temp"} /\ script'[t] \in {"none", "temp"}
  PROVE  ClockInv' /\ HandInv' /\ ExecInv' /\ Fifo' /\ BarrierInv'
  <1> USE DEF daemonVars
  <1>1. \A t \in Task : /\ Published(t)' <=> Published(t)
                        /\ Executed(t)' <=> Executed(t)
                        /\ script'[t] = "sh" <=> script[t] = "sh"
    BY DEF Published, Executed
  <1>2. \A t \in Task : /\ Begun(t)' <=> Begun(t)
                        /\ InHand(t)' <=> InHand(t)
                        /\ \A k \in Attempt : Alive(t, k)' <=> Alive(t, k)
    BY DEF Begun, InHand, Alive
  <1>3. \A f : Visible(f)' = Visible(f)
    BY <1>1 DEF Visible
  <1>4. \A t \in Task : Oldest(t)' <=> Oldest(t)
    BY <1>3 DEF Oldest
  <1>5. ClockInv'
    BY <1>1 DEF IInv, ClockInv
  <1>6. HandInv'
    BY <1>1, <1>2, <1>4 DEF IInv, HandInv, Serial, Busy
  <1>7. ExecInv'
    BY <1>1, <1>2 DEF IInv, ExecInv, Serial
  <1>8. Fifo'
    BY <1>1, <1>2 DEF IInv, Fifo
  <1>9. BarrierInv'
    BY <1>1 DEF IInv, BarrierInv
  <1> QED
    BY <1>5, <1>6, <1>7, <1>8, <1>9

(* The parts about the handlers do not see the container's steps, except   *)
(* that an executed script counts as published.                            *)
LEMMA ContainerStep ==
  ASSUME IInv, UNCHANGED <<hostFiles, hostVars>>,
         \A t \in Task : Published(t)' <=> Published(t)
  PROVE  PlanInv' /\ WholeInv'
  <1> USE DEF hostFiles, hostVars
  <1>1. PlanInv'
    <2>1. \A s \in Session : \A i \in 1 .. Size(s) :
            Published(<<s, i>>)' <=> Published(<<s, i>>)
      BY TaskElem
    <2> QED
      BY <2>1 DEF IInv, PlanInv
  <1>2. WholeInv'
    BY DEF IInv, WholeInv, Current
  <1> QED
    BY <1>1, <1>2

-----------------------------------------------------------------------------
(* A step of handler s to `next' that publishes nothing, and what it must  *)
(* have written for its place in the plan to be right.                     *)
Quiet(s, next) ==
  /\ pc' = [pc EXCEPT ![s] = next] /\ sent' = sent
  /\ UNCHANGED <<ctime, now, daemonVars>>
  /\ \A t \in Task : \/ script'[t] = script[t]
                     \/ script[t] \in {"none", "temp"} /\ script'[t] \in {"none", "temp"}
  /\ pc[s] \in {"prepare", "entry", "aci"} \/ next \notin {"prepare", "entry", "aci"}
  /\ next # "pid"
  /\ next \notin {"prepare", "entry", "aci", "sent", "failed"} => sent[s] < Size(s)
  /\ env \subseteq env' /\ body \subseteq body'
  /\ \A r \in Session : staged'[r] = staged[r] \/ (r = s /\ sent[s] <= staged'[s])
  /\ next \in {"temp", "body", "rename"} /\ EnvCertain => Current(s) \in env'
  /\ next = "rename" => Current(s) \in body'
  /\ next \in {"env", "temp", "body", "rename"} /\ PayloadCertain(s) => sent[s] < staged'[s]
  /\ SwapTypeOK'

LEMMA QuietStep ==
  ASSUME IInv, NEW s \in Session, NEW next \in PCs, Quiet(s, next)
  PROVE  IInv'
  <1> USE DEF Quiet
  <1>1. DispatchTypeOK /\ DaemonTypeOK /\ SwapTypeOK /\ PlanInv /\ WholeInv
    BY DEF IInv, TypeOK
  <1>2. TypeOK'
    BY <1>1 DEF TypeOK, DispatchTypeOK, DaemonTypeOK, daemonVars
  <1>3. PlanInv'
    <2>1. \A t \in Task : Published(t)' <=> Published(t)
      BY DEF Published
    <2>2. \A r \in Session : \A i \in 1 .. Size(r) :
            Published(<<r, i>>)' <=> Published(<<r, i>>)
      BY <2>1, TaskElem
    <2>3. \A r \in Session : pc'[r] = IF r = s THEN next ELSE pc[r]
      BY <1>1 DEF DispatchTypeOK
    <2> QED
      BY <1>1, <2>2, <2>3 DEF PlanInv
  <1>4. WholeInv'
    <2> SUFFICES ASSUME NEW r \in Session
                 PROVE  /\ pc'[r] \in {"temp", "body", "rename"} /\ EnvCertain
                             => Current(r)' \in env'
                        /\ pc'[r] = "rename" => Current(r)' \in body'
                        /\ pc'[r] \in {"env", "temp", "body", "rename"} /\ PayloadCertain(r)
                             => sent'[r] < staged'[r]
                        /\ \A i \in 1 .. Size(r) : i <= sent'[r] =>
                             /\ <<r, i>> \in body'
                             /\ EnvCertain => <<r, i>> \in env'
                             /\ PayloadCertain(r) => i <= staged'[r]
      BY DEF WholeInv
    <2>1. pc'[r] = IF r = s THEN next ELSE pc[r]
      BY <1>1 DEF DispatchTypeOK
    <2>2. Current(r)' = Current(r) /\ sent'[r] = sent[r]
      BY DEF Current
    <2>3. sent[r] \in Nat /\ staged[r] \in Nat /\ staged'[r] \in Nat /\ Size(r) \in Nat
      BY <1>1, SizeFacts DEF DispatchTypeOK, SwapTypeOK
    <2>4. staged'[r] = staged[r] \/ (r = s /\ sent[s] <= staged'[s])
      OBVIOUS
    <2>5. \A i \in 1 .. Size(r) : i <= sent'[r] =>
             /\ <<r, i>> \in body'
             /\ EnvCertain => <<r, i>> \in env'
             /\ PayloadCertain(r) => i <= staged'[r]
      BY <1>1, <2>2, <2>3, <2>4 DEF WholeInv
    <2>6. CASE r = s
      BY <2>1, <2>2, <2>5, <2>6
    <2>7. CASE r # s
      BY <1>1, <2>1, <2>2, <2>3, <2>4, <2>5, <2>7 DEF WholeInv
    <2> QED
      BY <2>6, <2>7
  <1>5. ClockInv' /\ HandInv' /\ ExecInv' /\ Fifo' /\ BarrierInv'
    BY UnseenStep
  <1> QED
    BY <1>2, <1>3, <1>4, <1>5 DEF IInv

LEMMA HostQuiet ==
  ASSUME IInv, NEW s \in Session, Host(s), ~Publish(s)
  PROVE  IInv'
  <1> USE DEF daemonVars, taskFiles, hostFiles
  <1>0. /\ SwapTypeOK /\ DispatchTypeOK /\ PlanInv /\ WholeInv
        /\ pc[s] \in PCs /\ sent[s] \in Nat /\ staged[s] \in Nat /\ Size(s) \in Nat
    BY SizeFacts DEF IInv, TypeOK, SwapTypeOK, DispatchTypeOK
  <1>1. UNCHANGED <<taskFiles, daemonVars>>
    BY DEF Host
  <1>2. pc[s] \notin {"prepare", "entry", "aci", "sent", "failed"} => Current(s) \in Task
    BY <1>0, TaskElem DEF Current, PlanInv
  <1>3. CASE Rpc[s] = "create" /\ Prepare(s)
    <2>1. SwapTypeOK'
      BY <1>0, <1>1, <1>3 DEF SwapTypeOK, Prepare
    <2>9. Quiet(s, "entry")
      BY <1>0, <1>1, <1>3, <2>1
      DEF Quiet, Prepare, Goto, PCs, PlanInv
    <2> QED
      BY <2>9, QuietStep DEF PCs
  <1>13. CASE Rpc[s] = "create" /\ WriteEntryScript(s)
    <2>1. SwapTypeOK'
      BY <1>0, <1>1, <1>13 DEF SwapTypeOK, WriteEntryScript
    <2>9. Quiet(s, "aci")
      BY <1>0, <1>1, <1>13, <2>1
      DEF Quiet, WriteEntryScript, Goto, PCs, PlanInv
    <2> QED
      BY <2>9, QuietStep DEF PCs
  <1>4. CASE Rpc[s] = "create" /\ CreateContainerGroup(s)
    <2>1. SwapTypeOK'
      BY <1>0, <1>1, <1>4 DEF SwapTypeOK, CreateContainerGroup
    <2>2. sent[s] = 0 /\ pc[s] = "aci"
      BY <1>0, <1>4 DEF PlanInv, CreateContainerGroup, Goto
    <2>3. BindMounts # 0 => 0 < Size(s)
      BY <1>4, SwapRootAssumption DEF Size
    <2> DEFINE next == IF BindMounts = 0 THEN "sent" ELSE "mkin"
    <2>4. next \in PCs /\ next \in {"sent", "mkin"} /\ (next = "mkin" => 0 < Size(s))
      BY <2>3 DEF PCs
    <2>5. pc' = [pc EXCEPT ![s] = next]
      BY <1>4 DEF CreateContainerGroup, Goto
    <2> HIDE DEF next
    <2>9. Quiet(s, next)
      BY <1>0, <1>1, <1>4, <2>1, <2>2, <2>4, <2>5
      DEF Quiet, CreateContainerGroup
    <2> QED
      BY <2>9, <2>4, QuietStep DEF PCs
  <1>5. CASE Rpc[s] = "create" /\ MakeInFolder(s)
    <2>1. SwapTypeOK'
      BY <1>0, <1>1, <1>5 DEF SwapTypeOK, MakeInFolder
    <2>9. Quiet(s, "stage")
      BY <1>0, <1>1, <1>5, <2>1
      DEF Quiet, MakeInFolder, Goto, PCs, PlanInv
    <2> QED
      BY <2>9, QuietStep DEF PCs
  <1>6. CASE Stage(s)
    <2>1. SwapTypeOK'
      BY <1>0, <1>1, <1>6 DEF SwapTypeOK, Stage
    <2>2. /\ \A r \in Session :
               staged'[r] = staged[r] \/ (r = s /\ sent[s] <= staged'[s])
          /\ PayloadCertain(s) => sent[s] < staged'[s]
      BY <1>0, <1>6 DEF SwapTypeOK, Stage, PayloadCertain
    <2>9. Quiet(s, "env")
      BY <1>0, <1>1, <1>6, <2>1, <2>2
      DEF Quiet, Stage, Goto, PCs, PlanInv
    <2> QED
      BY <2>9, QuietStep DEF PCs
  <1>7. CASE ReadPid(s)
    <2>1. SwapTypeOK'
      BY <1>0, <1>1, <1>7 DEF SwapTypeOK, ReadPid
    <2>2. pc[s] = "pid" /\ ~PayloadCertain(s)
      BY <1>0, <1>7 DEF ReadPid, Goto, PlanInv, PayloadCertain
    <2>9. Quiet(s, "env")
      BY <1>0, <1>1, <1>7, <2>1, <2>2
      DEF Quiet, ReadPid, Goto, PCs, PlanInv
    <2> QED
      BY <2>9, QuietStep DEF PCs
  <1>8. CASE WriteEnv(s)
    <2>1. SwapTypeOK'
      BY <1>0, <1>1, <1>2, <1>8 DEF SwapTypeOK, WriteEnv, Goto
    <2>9. Quiet(s, "temp")
      BY <1>0, <1>1, <1>8, <2>1
      DEF Quiet, WriteEnv, Goto, PCs, PlanInv, WholeInv, EnvCertain
    <2> QED
      BY <2>9, QuietStep DEF PCs
  <1>9. CASE CreateTemp(s)
    <2>1. SwapTypeOK'
      BY <1>0, <1>1, <1>2, <1>9 DEF SwapTypeOK, CreateTemp, Goto, Names
    <2>2. script[Current(s)] \in {"none", "temp"}
      <3>1. ~Published(Current(s))
        BY <1>0, <1>9 DEF PlanInv, CreateTemp, Goto, Current
      <3> QED
        BY <1>0, <1>2, <1>9, <3>1 DEF Published, SwapTypeOK, Names, CreateTemp, Goto
    <2>3. \A t \in Task : \/ script'[t] = script[t]
                          \/ script[t] \in {"none", "temp"} /\ script'[t] \in {"none", "temp"}
      BY <1>0, <1>9, <2>2 DEF CreateTemp, SwapTypeOK
    <2>9. Quiet(s, "body")
      BY <1>0, <1>1, <1>9, <2>1, <2>3
      DEF Quiet, CreateTemp, Goto, PCs, PlanInv, WholeInv
    <2> QED
      BY <2>9, QuietStep DEF PCs
  <1>10. CASE WriteScript(s)
    <2>1. SwapTypeOK'
      BY <1>0, <1>1, <1>2, <1>10 DEF SwapTypeOK, WriteScript, Goto
    <2>9. Quiet(s, "rename")
      BY <1>0, <1>1, <1>10, <2>1
      DEF Quiet, WriteScript, Goto, PCs, PlanInv, WholeInv
    <2> QED
      BY <2>9, QuietStep DEF PCs
  <1>11. CASE Fail(s)
    <2>1. SwapTypeOK'
      BY <1>0, <1>1, <1>11 DEF SwapTypeOK, Fail
    <2>9. Quiet(s, "failed")
      BY <1>0, <1>1, <1>11, <2>1
      DEF Quiet, Fail, PCs
    <2> QED
      BY <2>9, QuietStep DEF PCs
  <1>12. CASE SkipExtract(s)
    <2>1. SwapTypeOK'
      BY <1>0, <1>1, <1>12 DEF SwapTypeOK, SkipExtract, Goto
    <2>9. Quiet(s, "skipped")
      BY <1>0, <1>1, <1>12, <2>1
      DEF Quiet, SkipExtract, Goto, PCs, PlanInv
    <2> QED
      BY <2>9, QuietStep DEF PCs
  <1> QED
    BY <1>3, <1>4, <1>5, <1>6, <1>7, <1>8, <1>9, <1>10, <1>11, <1>12, <1>13
    DEF Host, DispatchStep, Schedule

(* The rename: one more script is visible, with the latest change time.    *)
LEMMA PublishStep ==
  ASSUME IInv, NEW s \in Session, Publish(s), UNCHANGED <<taskFiles, daemonVars>>
  PROVE  IInv'
  <1> DEFINE new == Current(s)
  <1> USE DEF daemonVars, taskFiles
  <1>1. TypeOK /\ PlanInv /\ WholeInv /\ ClockInv /\ HandInv /\ ExecInv /\ Fifo /\ BarrierInv
    BY DEF IInv
  <1>2. /\ pc[s] = "rename" /\ pc' = [pc EXCEPT ![s] = AfterTask(s)]
        /\ script' = [script EXCEPT ![new] = "sh"]
        /\ ctime' = [ctime EXCEPT ![new] = now + 1] /\ now' = now + 1
        /\ sent' = [sent EXCEPT ![s] = sent[s] + 1]
        /\ UNCHANGED <<dirs, body, env, staged, container>>
    BY DEF Publish, Goto
  <1>3. /\ script \in [Task -> Names] /\ ctime \in [Task -> Nat] /\ now \in Nat
        /\ scanned \in Nat /\ tries \in [Task -> 0 .. MaxTries]
        /\ pc \in [Session -> PCs] /\ sent \in [Session -> Nat]
        /\ staged \in [Session -> Nat] /\ MaxTries \in Nat \ {0}
    BY <1>1, SwapRootAssumption DEF TypeOK, SwapTypeOK, DispatchTypeOK, DaemonTypeOK
  <1>4. \A r \in Session : Size(r) \in Nat
    BY SizeFacts
  <1>5. sent[s] < Size(s) /\ sent[s] \in Nat /\ staged[s] \in Nat
    BY <1>1, <1>2, <1>3 DEF PlanInv
  <1>6. new \in Task /\ new = <<s, sent[s] + 1>>
    BY <1>4, <1>5, TaskElem DEF Current
  <1>7. ~Published(new)
    BY <1>1, <1>4, <1>5 DEF PlanInv, Current
  <1> HIDE DEF new
  <1>8. \A t \in Task : /\ script'[t] = IF t = new THEN "sh" ELSE script[t]
                        /\ ctime'[t] = IF t = new THEN now + 1 ELSE ctime[t]
    BY <1>2, <1>3
  <1>9. \A t \in Task : /\ Published(t)' <=> Published(t) \/ t = new
                        /\ Executed(t)' <=> Executed(t)
                        /\ Begun(t)' <=> Begun(t)
                        /\ InHand(t)' <=> InHand(t)
                        /\ \A k \in Attempt : Alive(t, k)' <=> Alive(t, k)
    BY <1>7, <1>8 DEF Published, Executed, Begun, InHand, Alive
  <1>10. ~Begun(new) /\ tries[new] = 0 /\ ~Executed(new)
    BY <1>1, <1>3, <1>6, <1>7 DEF ExecInv, Begun, Executed, Published
  <1>11. dpc \in Busy => cur \in Task /\ cur # new /\ script[cur] = "sh" /\ Published(cur)
    BY <1>1, <1>7 DEF HandInv, Published
  <1>12. /\ sent[s] + 1 = Size(s) => AfterTask(s) = "sent"
         /\ sent[s] + 1 # Size(s) =>
              \/ AfterTask(s) = "mkin"
              \/ AfterTask(s) = "env" /\ (sent[s] + 1 # staged[s])
    BY <1>4, <1>5 DEF AfterTask
  <1>13. \A r \in Session : /\ pc'[r] = IF r = s THEN AfterTask(s) ELSE pc[r]
                            /\ sent'[r] = IF r = s THEN sent[s] + 1 ELSE sent[r]
    BY <1>2, <1>3
  <1>14. TypeOK'
    <2>1. SwapTypeOK'
      BY <1>1, <1>2, <1>3, <1>6 DEF TypeOK, SwapTypeOK, Names
    <2>2. DispatchTypeOK'
      BY <1>2, <1>3, <1>12 DEF DispatchTypeOK, PCs
    <2> QED
      BY <1>1, <2>1, <2>2 DEF TypeOK, DaemonTypeOK
  <1>15. PlanInv'
    <2> SUFFICES ASSUME NEW r \in Session
                 PROVE  /\ sent'[r] <= Size(r)
                        /\ pc'[r] = "pid" => Rpc[r] = "signal"
                        /\ pc'[r] \in {"prepare", "entry", "aci"} => sent'[r] = 0
                        /\ pc'[r] \notin {"prepare", "entry", "aci", "sent", "failed"}
                             => sent'[r] < Size(r)
                        /\ \A i \in 1 .. Size(r) : Published(<<r, i>>)' <=> i <= sent'[r]
      BY DEF PlanInv
    <2>1. \A i \in 1 .. Size(r) : /\ <<r, i>> \in Task
                                  /\ Published(<<r, i>>) <=> i <= sent[r]
      BY <1>1, TaskElem DEF PlanInv
    <2>2. sent[r] \in Nat /\ Size(r) \in Nat
      BY <1>3, <1>4
    <2>3. CASE r = s
      BY <1>5, <1>6, <1>9, <1>12, <1>13, <2>1, <2>2, <2>3
    <2>4. CASE r # s
      BY <1>1, <1>6, <1>9, <1>13, <2>1, <2>2, <2>4 DEF PlanInv
    <2> QED
      BY <2>3, <2>4
  <1>16. WholeInv'
    <2> SUFFICES ASSUME NEW r \in Session
                 PROVE  /\ pc'[r] \in {"temp", "body", "rename"} /\ EnvCertain
                             => Current(r)' \in env
                        /\ pc'[r] = "rename" => Current(r)' \in body
                        /\ pc'[r] \in {"env", "temp", "body", "rename"} /\ PayloadCertain(r)
                             => sent'[r] < staged[r]
                        /\ \A i \in 1 .. Size(r) : i <= sent'[r] =>
                             /\ <<r, i>> \in body
                             /\ EnvCertain => <<r, i>> \in env
                             /\ PayloadCertain(r) => i <= staged[r]
      BY <1>2 DEF WholeInv
    <2>1. sent[r] \in Nat /\ Size(r) \in Nat /\ staged[r] \in Nat
      BY <1>3, <1>4
    <2>2. CASE r = s
      <3>1. /\ new \in body /\ (EnvCertain => new \in env)
            /\ PayloadCertain(s) => sent[s] < staged[s]
        BY <1>1, <1>2 DEF WholeInv, new
      <3>2. \A i \in 1 .. Size(s) : i <= sent[s] =>
              /\ <<s, i>> \in body /\ (EnvCertain => <<s, i>> \in env)
              /\ PayloadCertain(s) => i <= staged[s]
        BY <1>1 DEF WholeInv
      <3>3. \A i \in 1 .. Size(s) : i <= sent[s] + 1 => i <= sent[s] \/ <<s, i>> = new
        BY <1>5, <1>6
      <3>4. \A i \in 1 .. Size(s) : i <= sent[s] + 1 => (PayloadCertain(s) => i <= staged[s])
        BY <1>5, <3>1
      <3>5. pc'[s] \notin {"temp", "body", "rename"} /\ sent'[s] = sent[s] + 1
        BY <1>12, <1>13
      <3>6. pc'[s] = "env" /\ PayloadCertain(s) => sent[s] + 1 < staged[s]
        BY <1>5, <1>12, <1>13, <3>1
      <3> QED
        BY <2>2, <3>1, <3>2, <3>3, <3>4, <3>5, <3>6
    <2>3. CASE r # s
      <3>1. Current(r)' = Current(r) /\ sent'[r] = sent[r] /\ pc'[r] = pc[r]
        BY <1>13, <2>3 DEF Current
      <3> QED
        BY <1>1, <3>1 DEF WholeInv
    <2> QED
      BY <2>2, <2>3
  <1>17. ClockInv'
    <2>1. scanned' <= now' /\ \A t \in Task : Published(t)' => ctime'[t] <= now'
      BY <1>1, <1>2, <1>3, <1>8, <1>9 DEF ClockInv
    <2>2. ASSUME NEW t \in Task, NEW u \in Task, Earlier(t, u), Published(u)'
          PROVE  ctime'[t] < ctime'[u]
      <3>1. /\ t[1] = u[1] /\ t[2] < u[2] /\ t[1] \in Session
            /\ t[2] \in 1 .. Size(t[1]) /\ u[2] \in 1 .. Size(t[1])
            /\ t = <<t[1], t[2]>> /\ u = <<t[1], u[2]>>
        BY <2>2, TaskPair DEF Earlier
      <3>2. /\ Published(t) <=> t[2] <= sent[t[1]]
            /\ Published(u) <=> u[2] <= sent[t[1]]
        BY <1>1, <3>1 DEF PlanInv
      <3>3. CASE u = new
        <4>1. t[1] = s /\ t[2] < sent[s] + 1
          BY <1>6, <3>1, <3>3
        <4>2. Published(t) /\ t # new
          BY <1>5, <1>7, <3>1, <3>2, <4>1
        <4>3. ctime[t] <= now /\ ctime[t] \in Nat
          BY <1>1, <1>3, <4>2 DEF ClockInv
        <4> QED
          BY <1>3, <1>8, <3>3, <4>2, <4>3
      <3>4. CASE u # new
        <4>1. Published(u)
          BY <1>9, <2>2, <3>4
        <4>2. Published(t) /\ t # new
          BY <1>3, <1>7, <3>1, <3>2, <4>1
        <4> QED
          BY <1>1, <1>8, <2>2, <3>4, <4>1, <4>2 DEF ClockInv
      <3> QED
        BY <3>3, <3>4
    <2> QED
      BY <2>1, <2>2 DEF ClockInv, Earlier
  <1>18. HandInv'
    <2>1. ASSUME dpc \in Busy PROVE Oldest(cur)'
      <3>1. Oldest(cur) /\ ctime[cur] <= now /\ ctime'[cur] = ctime[cur] /\ ctime[cur] \in Nat
        BY <1>1, <1>3, <1>8, <1>11, <2>1 DEF HandInv, ClockInv
      <3>2. \A u \in Task : Step(u) = Step(cur) /\ script'[u] = "sh" =>
              u = new \/ ctime[cur] <= ctime[u]
        BY <1>8, <3>1 DEF Oldest, Visible
      <3>3. \A u \in Task : Step(u) = Step(cur) /\ script'[u] = "sh" =>
              ctime'[cur] <= ctime'[u]
        BY <1>3, <1>8, <3>1, <3>2
      <3> QED
        BY <3>3 DEF Oldest, Visible
    <2> QED
      BY <1>1, <1>8, <1>9, <1>11, <2>1 DEF HandInv, Busy, Serial
  <1>19. ExecInv'
    <2> SUFFICES ASSUME NEW t \in Task
                 PROVE  /\ \A k \in Attempt : proc[t][k] = "none" <=> k > tries[t]
                        /\ Begun(t)' => Published(t)'
                        /\ Executed(t)' => Begun(t)'
                        /\ Serial(t) => \A k \in Attempt :
                             Alive(t, k)' => dpc = "wait" /\ cur = t /\ k = tries[t]
                        /\ script'[t] = "sh" /\ ~InHand(t)' =>
                             tries[t] < MaxTries /\ ("mv" \notin Faults => tries[t] = 0)
                        /\ "mv" \notin Faults => tries[t] <= 1
      BY DEF ExecInv, Serial
    <2> QED
      BY <1>1, <1>3, <1>8, <1>9, <1>10 DEF ExecInv
  <1>20. Fifo'
    <2> SUFFICES ASSUME NEW t \in Task, NEW u \in Task, Step(t) = Step(u),
                        Published(t)', Published(u)', ctime'[t] < ctime'[u], Begun(u)'
                 PROVE  Executed(t)'
      BY DEF Fifo
    <2>1. u # new /\ Published(u) /\ ctime[u] <= now /\ ctime[u] \in Nat /\ Begun(u)
      BY <1>1, <1>3, <1>9, <1>10 DEF ClockInv
    <2>2. t # new /\ Published(t)
      BY <1>3, <1>8, <1>9, <2>1
    <2> QED
      BY <1>1, <1>8, <1>9, <2>1, <2>2 DEF Fifo
  <1>21. BarrierInv'
    <2>1. \A t \in Task : ctime'[t] <= scanned => t # new
      BY <1>1, <1>3, <1>8 DEF ClockInv
    <2> QED
      BY <1>1, <1>8, <1>9, <2>1 DEF BarrierInv
  <1> QED
    BY <1>14, <1>15, <1>16, <1>17, <1>18, <1>19, <1>20, <1>21 DEF IInv

(* A step of a handler.                                                    *)
LEMMA HostStep ==
  ASSUME IInv, NEW s \in Session, Host(s)
  PROVE  IInv'
  <1>1. UNCHANGED <<taskFiles, daemonVars>>
    BY DEF Host
  <1> QED
    BY <1>1, HostQuiet, PublishStep

-----------------------------------------------------------------------------
(* Steps of the container.  The types, once for all.                       *)
LEMMA DaemonType ==
  ASSUME IInv, RunDaemon
  PROVE  TypeOK'
  <1> USE DEF hostFiles, hostVars, taskFiles, Attempt
  <1>1. TypeOK /\ HandInv /\ ExecInv
    BY DEF IInv
  <1>2. /\ UNCHANGED <<hostFiles, container, hostVars, taskFiles>>
        /\ \/ script' = script
           \/ script' = [script EXCEPT ![cur] = "executed"]
    BY DEF RunDaemon, InContainer, DaemonStep, ListStreamIn, ListRun, ListStreamOut,
           List, Exec, Reap, Mv, MvFails, NextRound
  <1>3. SwapTypeOK'
    BY <1>1, <1>2 DEF TypeOK, SwapTypeOK, Names
  <1>4. DispatchTypeOK'
    BY <1>1, <1>2 DEF TypeOK, DispatchTypeOK
  <1>5. DaemonTypeOK'
    <2>0. DaemonTypeOK /\ now \in Nat /\ MaxTries \in Nat \ {0} /\ Task \cup {NoTask} # {}
      BY <1>1, SwapRootAssumption DEF TypeOK, SwapTypeOK
    <2>1. CASE ListStreamIn \/ ListRun \/ ListStreamOut
      BY <2>0, <2>1
      DEF ListStreamIn, ListRun, ListStreamOut, List, DaemonTypeOK, DaemonPCs, Visible
    <2>2. CASE Exec
      <3>1. cur \in Task /\ script[cur] = "sh" /\ ~InHand(cur)
        BY <1>1, <2>2 DEF Exec, HandInv, Busy, InHand
      <3>2. tries[cur] < MaxTries /\ tries[cur] \in Nat
        BY <1>1, <2>0, <3>1 DEF ExecInv, DaemonTypeOK
      <3>3. tries' \in [Task -> 0 .. MaxTries]
        <4>1. tries[cur] + 1 \in 0 .. MaxTries
          BY <2>0, <3>2
        <4> QED
          BY <2>0, <2>2, <4>1 DEF Exec, DaemonTypeOK
      <3>4. proc' \in [Task -> [Attempt -> ProcStates]]
        BY <2>0, <2>2, <3>1, <3>2 DEF Exec, DaemonTypeOK, ProcStates
      <3> QED
        BY <2>0, <2>2, <3>3, <3>4 DEF Exec, DaemonTypeOK, DaemonPCs
    <2>3. CASE Reap
      BY <2>0, <2>3 DEF Reap, DaemonTypeOK, DaemonPCs
    <2>4. CASE Mv \/ MvFails
      BY <2>0, <2>4 DEF Mv, MvFails, NextRound, DaemonTypeOK, DaemonPCs
    <2> QED
      BY <2>1, <2>2, <2>3, <2>4 DEF RunDaemon, DaemonStep
  <1> QED
    BY <1>3, <1>4, <1>5 DEF TypeOK

(* The daemon takes a script, or finds a folder empty.                     *)
LEMMA ListStep ==
  ASSUME IInv, RunDaemon, ListStreamIn \/ ListRun \/ ListStreamOut
  PROVE  ClockInv' /\ HandInv' /\ ExecInv' /\ Fifo' /\ BarrierInv'
  <1>1. TypeOK /\ ClockInv /\ HandInv /\ ExecInv /\ Fifo /\ BarrierInv
    BY DEF IInv
  <1>2. UNCHANGED <<script, ctime, now, tries, proc>>
    BY DEF RunDaemon, InContainer, hostFiles, ListStreamIn, ListRun, ListStreamOut, List
  <1>3. /\ now \in Nat /\ scanned \in Nat
        /\ script \in [Task -> Names] /\ ctime \in [Task -> Nat]
    BY <1>1 DEF TypeOK, SwapTypeOK, DaemonTypeOK
  <1>4. \A t \in Task : /\ Published(t)' <=> Published(t)
                        /\ Executed(t)' <=> Executed(t)
                        /\ Begun(t)' <=> Begun(t)
                        /\ Oldest(t)' <=> Oldest(t)
                        /\ \A k \in Attempt : Alive(t, k)' <=> Alive(t, k)
    BY <1>2 DEF Published, Executed, Begun, Oldest, Visible, Alive
  <1>5. /\ dpc \in {"scan_in", "scan_run", "scan_out"}
        /\ dpc' \in {"scan_in", "scan_run", "scan_out", "exec"}
        /\ scanned' = scanned \/ scanned' = now
    BY DEF ListStreamIn, ListRun, ListStreamOut, List
  <1>6. \A t \in Task : ~InHand(t) /\ ~InHand(t)'
    BY <1>5 DEF InHand
  <1>7. dpc' = "exec" => /\ cur' \in Task /\ script[cur'] = "sh" /\ Oldest(cur')
                         /\ dpc = "scan_in" => Step(cur') = "stream_in"
    BY DEF ListStreamIn, ListRun, ListStreamOut, List, Visible
  <1>8. ClockInv'
    BY <1>1, <1>2, <1>3, <1>4, <1>5 DEF ClockInv
  <1>9. HandInv'
    <2>1. dpc' = "exec" => Oldest(cur)'
      BY <1>2, <1>7 DEF Oldest, Visible
    <2> QED
      BY <1>2, <1>5, <1>7, <2>1 DEF HandInv, Busy
  <1>10. ExecInv'
    BY <1>1, <1>2, <1>4, <1>5, <1>6 DEF ExecInv, Serial
  <1>11. Fifo'
    BY <1>1, <1>2, <1>4 DEF Fifo
  <1>12. BarrierInv'
    <2>1. CASE ListStreamIn
      <3>1. \/ dpc' = "scan_run" /\ Visible("stream_in") = {}
            \/ dpc' = "exec" /\ Step(cur') = "stream_in"
        BY <2>1 DEF ListStreamIn, List, Visible
      <3>2. Visible("stream_in") = {} =>
              \A t \in Task : Step(t) = "stream_in" /\ Published(t) => Executed(t)
        BY DEF Visible, Published, Executed
      <3> QED
        BY <1>4, <3>1, <3>2 DEF BarrierInv, Busy
    <2>2. CASE ListRun \/ ListStreamOut
      <3>1. dpc \in {"scan_run", "scan_out"} /\ scanned' = scanned
        BY <2>2 DEF ListRun, ListStreamOut, List
      <3> QED
        BY <1>1, <1>2, <1>4, <3>1 DEF BarrierInv
    <2> QED
      BY <2>1, <2>2
  <1> QED
    BY <1>8, <1>9, <1>10, <1>11, <1>12

(* The daemon executes the script in its hand: it is the oldest of its     *)
(* folder, so whatever was published there before it has been executed.    *)
LEMMA ExecStep ==
  ASSUME IInv, RunDaemon, Exec
  PROVE  ClockInv' /\ HandInv' /\ ExecInv' /\ Fifo' /\ BarrierInv'
  <1>1. TypeOK /\ ClockInv /\ HandInv /\ ExecInv /\ Fifo /\ BarrierInv
    BY DEF IInv
  <1>2. /\ UNCHANGED <<script, ctime, now, cur, scanned>>
        /\ dpc = "exec" /\ dpc' = IF Step(cur) = "run" THEN "mv" ELSE "wait"
        /\ tries' = [tries EXCEPT ![cur] = tries[cur] + 1]
        /\ proc' = [proc EXCEPT ![cur][tries[cur] + 1] = "forked"]
    BY DEF RunDaemon, InContainer, hostFiles, Exec
  <1>3. /\ script \in [Task -> Names] /\ ctime \in [Task -> Nat]
        /\ tries \in [Task -> 0 .. MaxTries] /\ MaxTries \in Nat \ {0}
        /\ proc \in [Task -> [Attempt -> ProcStates]]
    BY <1>1, SwapRootAssumption DEF TypeOK, SwapTypeOK, DaemonTypeOK
  <1>4. cur \in Task /\ script[cur] = "sh" /\ Oldest(cur) /\ Published(cur)
    BY <1>1, <1>2 DEF HandInv, Busy, Published
  <1>5. /\ tries[cur] \in Nat /\ tries[cur] + 1 \in Attempt /\ ~InHand(cur)
        /\ "mv" \notin Faults => tries[cur] = 0
    BY <1>1, <1>2, <1>3, <1>4 DEF ExecInv, InHand, Attempt
  <1>6. \A t \in Task : /\ Published(t)' <=> Published(t)
                        /\ Executed(t)' <=> Executed(t)
                        /\ Oldest(t)' <=> Oldest(t)
                        /\ Begun(t)' <=> Begun(t) \/ t = cur
                        /\ tries'[t] = IF t = cur THEN tries[cur] + 1 ELSE tries[t]
    BY <1>2, <1>3, <1>4, <1>5 DEF Published, Executed, Begun, Oldest, Visible
  <1>7. \A t \in Task : \A k \in Attempt :
          proc'[t][k] = IF t = cur /\ k = tries[cur] + 1 THEN "forked" ELSE proc[t][k]
    BY <1>2, <1>3, <1>4, <1>5
  <1>8. \A t \in Task : Serial(t) => \A k \in Attempt : ~Alive(t, k)
    BY <1>1, <1>2 DEF ExecInv
  <1>9. ClockInv'
    BY <1>1, <1>2, <1>6 DEF ClockInv
  <1>10. HandInv'
    BY <1>2, <1>4, <1>6 DEF HandInv, Busy, Serial, Oldest, Visible
  <1>11. ExecInv'
    <2> SUFFICES ASSUME NEW t \in Task
                 PROVE  /\ \A k \in Attempt : proc'[t][k] = "none" <=> k > tries'[t]
                        /\ Begun(t)' => Published(t)'
                        /\ Executed(t)' => Begun(t)'
                        /\ Serial(t) => \A k \in Attempt :
                             Alive(t, k)' => dpc' = "wait" /\ cur' = t /\ k = tries'[t]
                        /\ script'[t] = "sh" /\ ~InHand(t)' =>
                             tries'[t] < MaxTries /\ ("mv" \notin Faults => tries'[t] = 0)
                        /\ "mv" \notin Faults => tries'[t] <= 1
      BY DEF ExecInv, Serial
    <2>1. \A k \in Attempt : proc'[t][k] = "none" <=> k > tries'[t]
      <3>1. \A k \in Attempt : proc[t][k] = "none" <=> k > tries[t]
        BY <1>1 DEF ExecInv
      <3>2. \A k \in Attempt : k \in Nat
        BY DEF Attempt
      <3> QED
        BY <1>5, <1>6, <1>7, <3>1, <3>2
    <2>2. (Begun(t)' => Published(t)') /\ (Executed(t)' => Begun(t)')
      BY <1>1, <1>4, <1>6 DEF ExecInv
    <2>3. ASSUME Serial(t), NEW k \in Attempt, Alive(t, k)'
          PROVE  dpc' = "wait" /\ cur' = t /\ k = tries'[t]
      <3>1. t = cur /\ k = tries[cur] + 1
        BY <1>7, <1>8, <2>3 DEF Alive
      <3> QED
        BY <1>2, <1>6, <2>3, <3>1 DEF Serial
    <2>4. script'[t] = "sh" /\ ~InHand(t)' =>
             tries'[t] < MaxTries /\ ("mv" \notin Faults => tries'[t] = 0)
      <3>1. t = cur => InHand(t)'
        BY <1>2 DEF InHand
      <3>2. ~InHand(t)
        BY <1>2 DEF InHand
      <3> QED
        BY <1>1, <1>2, <1>6, <3>1, <3>2 DEF ExecInv
    <2>5. "mv" \notin Faults => tries'[t] <= 1
      BY <1>1, <1>5, <1>6 DEF ExecInv
    <2> QED
      BY <2>1, <2>2, <2>3, <2>4, <2>5
  <1>12. Fifo'
    <2> SUFFICES ASSUME NEW t \in Task, NEW u \in Task, Step(t) = Step(u),
                        Published(t), Published(u), ctime[t] < ctime[u], Begun(u)'
                 PROVE  Executed(t)
      BY <1>2, <1>6 DEF Fifo
    <2>1. CASE u = cur
      <3>1. t \notin Visible(Step(cur))
        BY <1>3, <1>4, <2>1 DEF Oldest
      <3> QED
        BY <2>1, <3>1 DEF Visible, Published, Executed
    <2>2. CASE u # cur
      BY <1>1, <1>6, <2>2 DEF Fifo
    <2> QED
      BY <2>1, <2>2
  <1>13. BarrierInv'
    BY <1>1, <1>2, <1>6 DEF BarrierInv, Busy
  <1> QED
    BY <1>9, <1>10, <1>11, <1>12, <1>13

(* The daemon has waited for a stream script.                              *)
LEMMA ReapStep ==
  ASSUME IInv, RunDaemon, Reap
  PROVE  ClockInv' /\ HandInv' /\ ExecInv' /\ Fifo' /\ BarrierInv'
  <1>1. TypeOK /\ ClockInv /\ HandInv /\ ExecInv /\ Fifo /\ BarrierInv
    BY DEF IInv
  <1>2. /\ UNCHANGED <<script, ctime, now, cur, scanned, tries, proc>>
        /\ dpc = "wait" /\ dpc' = "mv" /\ ~Alive(cur, tries[cur])
    BY DEF RunDaemon, InContainer, hostFiles, Reap, Alive
  <1>3. \A t \in Task : /\ Published(t)' <=> Published(t)
                        /\ Executed(t)' <=> Executed(t)
                        /\ Begun(t)' <=> Begun(t)
                        /\ InHand(t)' <=> InHand(t)
                        /\ \A k \in Attempt : Alive(t, k)' <=> Alive(t, k)
    BY <1>2 DEF Published, Executed, Begun, InHand, Alive
  <1>4. \A t \in Task : Serial(t) => \A k \in Attempt : ~Alive(t, k)
    BY <1>1, <1>2 DEF ExecInv
  <1>5. ClockInv'
    BY <1>1, <1>2, <1>3 DEF ClockInv
  <1>6. HandInv'
    <2>1. cur \in Task /\ script[cur] = "sh" /\ Oldest(cur) /\ Begun(cur)
      BY <1>1, <1>2 DEF HandInv, Busy
    <2>2. Oldest(cur)' /\ Begun(cur)'
      BY <1>2, <2>1 DEF Oldest, Visible, Begun
    <2> QED
      BY <1>2, <2>1, <2>2 DEF HandInv
  <1>7. ExecInv'
    BY <1>1, <1>2, <1>3, <1>4 DEF ExecInv, Serial
  <1>8. Fifo'
    BY <1>1, <1>2, <1>3 DEF Fifo
  <1>9. BarrierInv'
    BY <1>1, <1>2, <1>3 DEF BarrierInv, Busy
  <1> QED
    BY <1>5, <1>6, <1>7, <1>8, <1>9

(* The round ends: the script is renamed, or stays and will be the oldest  *)
(* of its folder again.                                                    *)
LEMMA RoundEndsStep ==
  ASSUME IInv, RunDaemon, Mv \/ MvFails
  PROVE  ClockInv' /\ HandInv' /\ ExecInv' /\ Fifo' /\ BarrierInv'
  <1>1. TypeOK /\ ClockInv /\ HandInv /\ ExecInv /\ Fifo /\ BarrierInv
    BY DEF IInv
  <1>2. /\ UNCHANGED <<ctime, now, scanned, tries, proc>>
        /\ dpc = "mv" /\ dpc' = "scan_in" /\ cur' = NoTask
        /\ \/ script' = [script EXCEPT ![cur] = "executed"]
           \/ script' = script /\ tries[cur] < MaxTries /\ "mv" \in Faults
    BY DEF RunDaemon, InContainer, hostFiles, Mv, MvFails, NextRound
  <1>3. script \in [Task -> Names]
    BY <1>1 DEF TypeOK, SwapTypeOK
  <1>4. cur \in Task /\ script[cur] = "sh" /\ Begun(cur)
    BY <1>1, <1>2 DEF HandInv, Busy
  <1>5. \A t \in Task : /\ Published(t)' <=> Published(t)
                        /\ Executed(t) => Executed(t)'
                        /\ Executed(t)' => Executed(t) \/ t = cur
                        /\ Begun(t)' <=> Begun(t)
                        /\ \A k \in Attempt : Alive(t, k)' <=> Alive(t, k)
    BY <1>2, <1>3, <1>4 DEF Published, Executed, Begun, Alive
  <1>6. \A t \in Task : Serial(t) => \A k \in Attempt : ~Alive(t, k)
    BY <1>1, <1>2 DEF ExecInv
  <1>7. ClockInv'
    BY <1>1, <1>2, <1>5 DEF ClockInv
  <1>8. HandInv'
    BY <1>2 DEF HandInv, Busy
  <1>9. ExecInv'
    <2> SUFFICES ASSUME NEW t \in Task
                 PROVE  /\ \A k \in Attempt : proc[t][k] = "none" <=> k > tries[t]
                        /\ Begun(t)' => Published(t)'
                        /\ Executed(t)' => Begun(t)'
                        /\ Serial(t) => \A k \in Attempt : ~Alive(t, k)'
                        /\ script'[t] = "sh" =>
                             tries[t] < MaxTries /\ ("mv" \notin Faults => tries[t] = 0)
                        /\ "mv" \notin Faults => tries[t] <= 1
      BY <1>2 DEF ExecInv, Serial
    <2>1. t # cur => ~InHand(t) /\ script'[t] = script[t]
      BY <1>2, <1>3 DEF InHand
    <2>2. t = cur /\ script'[t] = "sh" => tries[t] < MaxTries /\ "mv" \in Faults
      BY <1>2, <1>3, <1>4
    <2> QED
      BY <1>1, <1>4, <1>5, <1>6, <2>1, <2>2 DEF ExecInv
  <1>10. Fifo'
    BY <1>1, <1>2, <1>5 DEF Fifo
  <1>11. BarrierInv'
    BY <1>2 DEF BarrierInv, Busy
  <1> QED
    BY <1>7, <1>8, <1>9, <1>10, <1>11

(* The shells move on; none is started and none that is over comes back.   *)
LEMMA ScriptStep ==
  ASSUME IInv, NEW t \in Task, NEW k \in Attempt, Shell(t, k) \/ Command(t, k)
  PROVE  TypeOK' /\ ClockInv' /\ HandInv' /\ ExecInv' /\ Fifo' /\ BarrierInv'
  <1> USE DEF hostFiles, hostVars
  <1>1. TypeOK /\ ClockInv /\ HandInv /\ ExecInv /\ Fifo /\ BarrierInv
    BY DEF IInv
  <1>2. /\ UNCHANGED <<hostFiles, container, hostVars, dpc, cur, tries, scanned, script>>
        /\ Alive(t, k)
        /\ \E to \in ProcStates \ {"none"} : proc' = [proc EXCEPT ![t][k] = to]
        /\ pidFile' \in [Task -> Contents] /\ exitFile' \in [Task -> Contents]
    <2>1. pidFile \in [Task -> Contents] /\ exitFile \in [Task -> Contents]
      BY <1>1 DEF TypeOK, SwapTypeOK
    <2>2. CASE Shell(t, k)
      <3>1. UNCHANGED <<hostFiles, container, hostVars>> /\ ShellStep(t, k)
        BY <2>2 DEF Shell, InContainer
      <3>2. /\ UNCHANGED <<dpc, cur, tries, scanned, script>> /\ Alive(t, k)
            /\ \E to \in ProcStates \ {"none"} : proc' = [proc EXCEPT ![t][k] = to]
        BY <3>1 DEF ShellStep, OpenScript, SuFails, StartCommand, OpenPidFile,
             WritePidFile, OpenExitFile, WriteExitFile, Advance, Alive, ProcStates
      <3>3. pidFile' \in [Task -> Contents] /\ exitFile' \in [Task -> Contents]
        BY <2>1, <3>1 DEF ShellStep, OpenScript, SuFails, StartCommand, OpenPidFile,
             WritePidFile, OpenExitFile, WriteExitFile, taskFiles, Contents
      <3> QED
        BY <3>1, <3>2, <3>3
    <2>3. CASE Command(t, k)
      BY <2>1, <2>3
      DEF Command, InContainer, CommandEnds, Advance, Alive, ProcStates, taskFiles
    <2> QED
      BY <2>2, <2>3
  <1>3. proc \in [Task -> [Attempt -> ProcStates]]
    BY <1>1 DEF TypeOK, DaemonTypeOK
  <1>4. \A u \in Task : \A l \in Attempt : /\ proc'[u][l] = "none" <=> proc[u][l] = "none"
                                           /\ Alive(u, l)' => Alive(u, l)
    BY <1>2, <1>3 DEF Alive
  <1>5. \A u \in Task : /\ Published(u)' <=> Published(u)
                        /\ Executed(u)' <=> Executed(u)
                        /\ Begun(u)' <=> Begun(u)
                        /\ InHand(u)' <=> InHand(u)
    BY <1>2 DEF Published, Executed, Begun, InHand
  <1>6. TypeOK'
    <2>1. SwapTypeOK'
      BY <1>1, <1>2 DEF TypeOK, SwapTypeOK
    <2>2. DispatchTypeOK'
      BY <1>1, <1>2 DEF TypeOK, DispatchTypeOK
    <2>3. DaemonTypeOK'
      BY <1>1, <1>2, <1>3 DEF TypeOK, DaemonTypeOK
    <2> QED
      BY <2>1, <2>2, <2>3 DEF TypeOK
  <1>7. ClockInv'
    BY <1>1, <1>2, <1>5 DEF ClockInv
  <1>8. HandInv'
    <2>1. dpc \in Busy => Oldest(cur)'
      BY <1>1, <1>2 DEF HandInv, Oldest, Visible
    <2>2. dpc \in {"wait", "mv"} => Begun(cur)'
      BY <1>1, <1>2 DEF HandInv, Begun
    <2> QED
      BY <1>1, <1>2, <2>1, <2>2 DEF HandInv, Serial
  <1>9. ExecInv'
    BY <1>1, <1>2, <1>4, <1>5 DEF ExecInv, Serial
  <1>10. Fifo'
    BY <1>1, <1>2, <1>5 DEF Fifo
  <1>11. BarrierInv'
    BY <1>1, <1>2, <1>5 DEF BarrierInv
  <1> QED
    BY <1>6, <1>7, <1>8, <1>9, <1>10, <1>11

(* What no step of the container changes.                                  *)
LEMMA ContainerFrame ==
  ASSUME IInv,
         RunDaemon \/ \E t \in Task, k \in Attempt : Shell(t, k) \/ Command(t, k)
  PROVE  /\ UNCHANGED <<hostFiles, hostVars>>
         /\ \A t \in Task : Published(t)' <=> Published(t)
  <1>1. UNCHANGED <<hostFiles, hostVars>>
    BY DEF RunDaemon, Shell, Command, InContainer
  <1>2. script' = script \/ (dpc = "mv" /\ script' = [script EXCEPT ![cur] = "executed"])
    BY DEF RunDaemon, Shell, Command, DaemonStep, ListStreamIn, ListRun, ListStreamOut,
       List, Exec, Reap, Mv, MvFails, NextRound, ShellStep, CommandEnds, OpenScript,
       SuFails, StartCommand, OpenPidFile, WritePidFile, OpenExitFile, WriteExitFile, Advance
  <1>3. dpc = "mv" => script \in [Task -> Names] /\ cur \in Task /\ script[cur] = "sh"
    BY DEF IInv, TypeOK, SwapTypeOK, HandInv, Busy
  <1> QED
    BY <1>1, <1>2, <1>3 DEF Published

LEMMA GoneStep ==
  ASSUME IInv, ContainerGone \/ UNCHANGED vars
  PROVE  IInv'
  <1>1. UNCHANGED <<hostFiles, hostVars, daemonVars, script, taskFiles>>
        /\ container' \in {container, "gone"}
    BY DEF ContainerGone, vars, swapVars
  <1>2. TypeOK'
    BY <1>1 DEF IInv, TypeOK, SwapTypeOK, DispatchTypeOK, DaemonTypeOK, hostFiles,
       hostVars, daemonVars, taskFiles
  <1>3. \A t \in Task : Published(t)' <=> Published(t)
    BY <1>1 DEF Published
  <1>4. PlanInv' /\ WholeInv'
    BY <1>1, <1>3, ContainerStep
  <1>5. ClockInv' /\ HandInv' /\ ExecInv' /\ Fifo' /\ BarrierInv'
    BY <1>1, UnseenStep DEF hostFiles
  <1> QED
    BY <1>2, <1>4, <1>5 DEF IInv

-----------------------------------------------------------------------------
(* Every step preserves the invariant.                                     *)
LEMMA NextIInv == IInv /\ [Next]_vars => IInv'
  <1> SUFFICES ASSUME IInv, [Next]_vars PROVE IInv'
    OBVIOUS
  <1>1. CASE \E s \in Session : Host(s)
    BY <1>1, HostStep
  <1>2. CASE RunDaemon
    <2>1. PlanInv' /\ WholeInv'
      BY <1>2, ContainerFrame, ContainerStep
    <2>2. ClockInv' /\ HandInv' /\ ExecInv' /\ Fifo' /\ BarrierInv'
      BY <1>2, ListStep, ExecStep, ReapStep, RoundEndsStep DEF RunDaemon, DaemonStep
    <2> QED
      BY <1>2, <2>1, <2>2, DaemonType DEF IInv
  <1>3. CASE \E t \in Task, k \in Attempt : Shell(t, k) \/ Command(t, k)
    <2>1. PlanInv' /\ WholeInv'
      BY <1>3, ContainerFrame, ContainerStep
    <2> QED
      BY <1>3, <2>1, ScriptStep DEF IInv
  <1>4. CASE ContainerGone \/ UNCHANGED vars
    BY <1>4, GoneStep
  <1> QED
    BY <1>1, <1>2, <1>3, <1>4 DEF Next

(* The inductive invariant holds in every reachable state.                 *)
THEOREM Invariance == Spec => []IInv
  BY InitIInv, NextIInv, PTL DEF Spec

(* Type correctness of share, handlers, daemon and shells; in particular   *)
(* the daemon's retries stay within the bound of the model.                *)
THEOREM TypeCorrect == Spec => []TypeOK
  <1>1. IInv => TypeOK
    BY DEF IInv
  <1> QED
    BY <1>1, Invariance, PTL

-----------------------------------------------------------------------------
(* The safety properties.                                                  *)

(* A stream script that has been renamed is not running any more.          *)
LEMMA ExecutedEnded ==
  ASSUME IInv, NEW t \in Task, Serial(t), Executed(t)
  PROVE  Ended(t)
  <1>1. Begun(t)
    BY DEF IInv, ExecInv
  <1>2. ASSUME NEW k \in Attempt, Alive(t, k) PROVE FALSE
    <2>1. dpc = "wait" /\ cur = t
      BY <1>2 DEF IInv, ExecInv
    <2>2. script[t] = "sh"
      BY <2>1 DEF IInv, HandInv, Busy
    <2> QED
      BY <2>2 DEF Executed
  <1> QED
    BY <1>1, <1>2 DEF Ended

(* scheduleTask publishes with a rename, after a close that is looked at:  *)
(* the daemon never executes a script without its text, nor one of a       *)
(* Create before its folder is copied; and with a mount that holds no      *)
(* writes back, none without its env file or the file it unpacks.          *)
THEOREM ScriptsAreWhole == Spec => []WholeWhenExecuted
  <1>1. IInv => WholeWhenExecuted
    <2> SUFFICES ASSUME IInv, NEW t \in Task, Begun(t)
                 PROVE  /\ t \in body
                        /\ Rpc[t[1]] = "create" => t[2] <= staged[t[1]]
                        /\ "write_back" \notin Faults =>
                             /\ t \in env
                             /\ Rpc[t[1]] = "stream_in" => t[2] <= staged[t[1]]
      BY DEF WholeWhenExecuted
    <2>1. t[1] \in Session /\ t[2] \in 1 .. Size(t[1]) /\ t = <<t[1], t[2]>>
      BY TaskPair
    <2>2. Published(t)
      BY DEF IInv, ExecInv
    <2>3. t[2] <= sent[t[1]]
      BY <2>1, <2>2 DEF IInv, PlanInv
    <2>4. /\ <<t[1], t[2]>> \in body /\ (EnvCertain => <<t[1], t[2]>> \in env)
          /\ PayloadCertain(t[1]) => t[2] <= staged[t[1]]
      BY <2>1, <2>3 DEF IInv, WholeInv
    <2> QED
      BY <2>1, <2>4 DEF EnvCertain, PayloadCertain
  <1> QED
    BY <1>1, Invariance, PTL

(* The tasks of one RPC take effect one after the other although the       *)
(* handler never waits: the daemon takes the oldest script of a folder and *)
(* waits for the stream scripts.                                           *)
THEOREM TasksInOrder == Spec => []InOrder
  <1>1. IInv => InOrder
    <2> SUFFICES ASSUME IInv, NEW t \in Task, NEW u \in Task, Earlier(t, u), Begun(u)
                 PROVE  Executed(t) /\ Ended(t)
      BY DEF InOrder
    <2>1. Step(t) = Step(u) /\ Serial(t)
      BY EarlierFacts
    <2>2. Published(u)
      BY DEF IInv, ExecInv
    <2>3. Published(t)
      <3>1. /\ t[1] = u[1] /\ t[2] < u[2] /\ t[1] \in Session
            /\ t[2] \in 1 .. Size(t[1]) /\ u[2] \in 1 .. Size(t[1])
            /\ t = <<t[1], t[2]>> /\ u = <<t[1], u[2]>>
        BY TaskPair DEF Earlier
      <3>2. u[2] <= sent[t[1]] /\ sent[t[1]] \in Nat
        BY <2>2, <3>1 DEF IInv, PlanInv, TypeOK, DispatchTypeOK
      <3>3. t[2] <= sent[t[1]]
        BY <3>1, <3>2
      <3> QED
        BY <3>1, <3>3 DEF IInv, PlanInv
    <2>4. ctime[t] < ctime[u]
      BY <2>2 DEF IInv, ClockInv
    <2>5. Executed(t)
      BY <2>1, <2>2, <2>3, <2>4 DEF IInv, Fifo
    <2> QED
      BY <2>1, <2>5, ExecutedEnded
  <1> QED
    BY <1>1, Invariance, PTL

(* No two stream scripts run at the same time, whoever dispatched them.    *)
THEOREM StreamsExcludeEachOther == Spec => []StreamsExclusive
  <1>1. IInv => StreamsExclusive
    BY DEF IInv, ExecInv, StreamsExclusive
  <1> QED
    BY <1>1, Invariance, PTL

(* A folder is a FIFO queue of scripts, across RPCs and failed renames.    *)
THEOREM FoldersAreFifo == Spec => []Fifo
  <1>1. IInv => Fifo
    BY DEF IInv
  <1> QED
    BY <1>1, Invariance, PTL

(* What was streamed in before the daemon last looked is in place before a *)
(* process is started or a folder is archived.                             *)
THEOREM FilesBeforeProcesses == Spec => []StreamInFirst
  <1>1. IInv => StreamInFirst
    <2> SUFFICES ASSUME IInv, dpc \in {"exec", "wait", "mv"}, Step(cur) # "stream_in",
                        NEW t \in Task, Step(t) = "stream_in", Published(t),
                        ctime[t] <= scanned
                 PROVE  Executed(t) /\ Ended(t)
      BY DEF StreamInFirst
    <2>1. Executed(t)
      BY DEF IInv, BarrierInv, Busy
    <2>2. Serial(t)
      BY DEF Serial
    <2> QED
      BY <2>1, <2>2, ExecutedEnded
  <1> QED
    BY <1>1, Invariance, PTL

(* Without failing renames no task is executed twice.                      *)
THEOREM ExecutedAtMostOnce == Spec => []AtMostOnce
  <1>1. IInv => AtMostOnce
    BY DEF IInv, ExecInv, AtMostOnce
  <1> QED
    BY <1>1, Invariance, PTL

-----------------------------------------------------------------------------
(* Exit files.  A written exit file belongs to the execution that is over; *)
(* the shell of a stream script always opens it, because the daemon        *)
(* renames it only after waiting, and leaves its exit file.                *)
ExitInv ==
  \A t \in Task :
    /\ "mv" \notin Faults /\ exitFile[t] = "written" => proc[t][1] = "ended"
    /\ Serial(t) /\ "su" \notin Faults =>
         /\ \A k \in Attempt : proc[t][k] # "aborted"
         /\ Begun(t) /\ proc[t][tries[t]] = "ended" => exitFile[t] = "written"
         /\ Executed(t) \/ (cur = t /\ dpc = "mv") => proc[t][tries[t]] = "ended"

LEMMA InitExitInv == Init => ExitInv
  BY DEF Init, SwapInit, DaemonInit, ExitInv, Begun, Executed, Attempt

(* The steps that leave the shells and the daemon's script alone.          *)
LEMMA ExitUnchanged ==
  ASSUME ExitInv, UNCHANGED <<exitFile, proc, tries>>,
         \A t \in Task : /\ Executed(t)' => Executed(t) \/ (cur = t /\ dpc = "mv")
                         /\ cur' = t /\ dpc' = "mv" => cur = t /\ dpc = "mv"
  PROVE  ExitInv'
  BY DEF ExitInv, Begun

LEMMA ExitScriptStep ==
  ASSUME IInv, ExitInv, NEW t \in Task, NEW k \in Attempt, Shell(t, k) \/ Command(t, k)
  PROVE  ExitInv'
  <1>1. TypeOK /\ HandInv /\ ExecInv
    BY DEF IInv
  <1>2. /\ proc \in [Task -> [Attempt -> ProcStates]] /\ exitFile \in [Task -> Contents]
        /\ tries \in [Task -> 0 .. MaxTries] /\ MaxTries \in Nat
    BY <1>1, SwapRootAssumption DEF TypeOK, SwapTypeOK, DaemonTypeOK
  <1>3. ASSUME NEW from \in ProcStates, NEW to \in ProcStates, Advance(t, k, from, to)
        PROVE  /\ UNCHANGED <<dpc, cur, tries, script>> /\ proc[t][k] = from
               /\ \A u \in Task : \A l \in Attempt :
                    proc'[u][l] = IF u = t /\ l = k THEN to ELSE proc[u][l]
    BY <1>2, <1>3 DEF Advance
  <1>4. Alive(t, k) /\ UNCHANGED <<dpc, cur, tries, script>>
    BY DEF Shell, Command, ShellStep, CommandEnds, OpenScript, SuFails, StartCommand,
       OpenPidFile, WritePidFile, OpenExitFile, WriteExitFile, Advance, Alive
  <1>5. Serial(t) => dpc = "wait" /\ cur = t /\ k = tries[t] /\ script[t] = "sh"
    BY <1>1, <1>4 DEF ExecInv, HandInv, Busy
  <1>6. \A u \in Task : /\ Begun(u)' <=> Begun(u)
                        /\ Executed(u)' <=> Executed(u)
    BY <1>4 DEF Begun, Executed
  <1>7. "mv" \notin Faults => k = 1
    <2>1. proc[t][k] # "none" /\ k \in Nat /\ k >= 1
      BY <1>4 DEF Alive, Attempt
    <2> QED
      BY <1>1, <1>2, <2>1 DEF ExecInv
  <1>8. CASE WriteExitFile(t, k)
    <2>1. /\ exitFile' = [exitFile EXCEPT ![t] = "written"]
          /\ \A u \in Task : \A l \in Attempt :
               proc'[u][l] = IF u = t /\ l = k THEN "ended" ELSE proc[u][l]
      BY <1>3, <1>8 DEF WriteExitFile, ProcStates
    <2>2. \A u \in Task : u # t => exitFile'[u] = exitFile[u]
      BY <1>2, <2>1
    <2>3. 1 \in Attempt /\ \A u \in Task : Begun(u) => tries[u] \in Attempt
      BY <1>2, <1>4 DEF Begun, Attempt
    <2>4. exitFile'[t] = "written"
      BY <1>2, <2>1
    <2> SUFFICES ASSUME NEW u \in Task
                 PROVE  /\ "mv" \notin Faults /\ exitFile'[u] = "written" => proc'[u][1] = "ended"
                        /\ Serial(u) /\ "su" \notin Faults =>
                             /\ \A l \in Attempt : proc'[u][l] # "aborted"
                             /\ Begun(u)' /\ proc'[u][tries'[u]] = "ended" => exitFile'[u] = "written"
                             /\ Executed(u)' \/ (cur' = u /\ dpc' = "mv")
                                  => proc'[u][tries'[u]] = "ended"
      BY DEF ExitInv, Serial
    <2>5. CASE u = t
      <3>1. Serial(t) => ~Executed(t) /\ dpc # "mv"
        BY <1>5 DEF Executed
      <3> QED
        BY <1>4, <1>6, <1>7, <2>1, <2>3, <2>4, <2>5, <3>1 DEF ExitInv
    <2>6. CASE u # t
      <3>1. Executed(u) => Begun(u)
        BY <1>1 DEF ExecInv
      <3>2. cur = u /\ dpc = "mv" => Begun(u)
        BY <1>1 DEF HandInv
      <3> QED
        BY <1>4, <1>6, <2>1, <2>2, <2>3, <2>6, <3>1, <3>2 DEF ExitInv
    <2> QED
      BY <2>5, <2>6
  <1>9. CASE ~WriteExitFile(t, k)
    <2>1. /\ exitFile' \in {exitFile, [exitFile EXCEPT ![t] = "empty"]}
          /\ exitFile' # exitFile => OpenExitFile(t, k)
      BY <1>9 DEF Shell, Command, ShellStep, CommandEnds, OpenScript, SuFails, StartCommand,
         OpenPidFile, WritePidFile, OpenExitFile, taskFiles
    <2>2. \E to \in ProcStates \ {"ended"} :
            /\ \A u \in Task : \A l \in Attempt :
                 proc'[u][l] = IF u = t /\ l = k THEN to ELSE proc[u][l]
            /\ to = "aborted" => "su" \in Faults \/ script[t] # "sh"
      <3>1. \E from \in ProcStates, to \in ProcStates \ {"ended"} :
              /\ Advance(t, k, from, to)
              /\ to = "aborted" => "su" \in Faults \/ script[t] # "sh"
        BY <1>9 DEF Shell, Command, ShellStep, CommandEnds, OpenScript, SuFails,
           StartCommand, OpenPidFile, WritePidFile, OpenExitFile, ProcStates
      <3> QED
        BY <1>3, <3>1
    <2>3. PICK to \in ProcStates \ {"ended"} :
            /\ \A u \in Task : \A l \in Attempt :
                 proc'[u][l] = IF u = t /\ l = k THEN to ELSE proc[u][l]
            /\ to = "aborted" => "su" \in Faults \/ script[t] # "sh"
      BY <2>2
    <2>4. \A u \in Task : /\ u # t => exitFile'[u] = exitFile[u]
                          /\ exitFile'[u] = "written" => exitFile[u] = "written"
      BY <1>2, <2>1
    <2>5. 1 \in Attempt /\ \A u \in Task : Begun(u) => tries[u] \in Attempt
      BY <1>2, <1>4 DEF Begun, Attempt
    <2>6. proc[t][k] # "ended"
      BY <1>4 DEF Alive
    <2> SUFFICES ASSUME NEW u \in Task
                 PROVE  /\ "mv" \notin Faults /\ exitFile'[u] = "written" => proc'[u][1] = "ended"
                        /\ Serial(u) /\ "su" \notin Faults =>
                             /\ \A l \in Attempt : proc'[u][l] # "aborted"
                             /\ Begun(u)' /\ proc'[u][tries'[u]] = "ended" => exitFile'[u] = "written"
                             /\ Executed(u)' \/ (cur' = u /\ dpc' = "mv")
                                  => proc'[u][tries'[u]] = "ended"
      BY DEF ExitInv, Serial
    <2>7. CASE u = t
      <3>1. Serial(t) => ~Executed(t) /\ dpc # "mv"
        BY <1>5 DEF Executed
      <3>2. "mv" \notin Faults /\ exitFile'[t] = "written" => FALSE
        BY <1>7, <2>4, <2>6 DEF ExitInv
      <3> QED
        BY <1>4, <1>5, <1>6, <2>3, <2>5, <2>7, <3>1, <3>2 DEF ExitInv
    <2>8. CASE u # t
      <3>1. Executed(u) => Begun(u)
        BY <1>1 DEF ExecInv
      <3>2. cur = u /\ dpc = "mv" => Begun(u)
        BY <1>1 DEF HandInv
      <3> QED
        BY <1>4, <1>6, <2>3, <2>4, <2>5, <2>8, <3>1, <3>2 DEF ExitInv
    <2> QED
      BY <2>7, <2>8
  <1> QED
    BY <1>8, <1>9

(* How a step can change scripts: a handler renames only scripts that are  *)
(* not published, the daemon only the one in its hand.                     *)
LEMMA ScriptFrame ==
  ASSUME IInv, [Next]_vars
  PROVE  \/ \E s \in Session :
              /\ pc[s] \notin {"prepare", "entry", "aci", "sent", "failed"}
              /\ Current(s) \in Task /\ ~Published(Current(s))
              /\ \/ script' = [script EXCEPT ![Current(s)] = "temp"] /\ ctime' = ctime
                 \/ /\ script' = [script EXCEPT ![Current(s)] = "sh"]
                    /\ ctime' = [ctime EXCEPT ![Current(s)] = now + 1]
              /\ UNCHANGED <<exitFile, daemonVars>>
         \/ /\ dpc = "mv" /\ dpc' = "scan_in" /\ cur' = NoTask
            /\ script' = [script EXCEPT ![cur] = "executed"]
            /\ UNCHANGED <<ctime, exitFile, tries, proc>>
         \/ UNCHANGED <<script, ctime>>
  <1>1. ASSUME NEW s \in Session, pc[s] \notin {"prepare", "entry", "aci", "sent", "failed"}
        PROVE  Current(s) \in Task /\ ~Published(Current(s))
    <2>1. /\ sent[s] \in Nat /\ Size(s) \in Nat /\ sent[s] < Size(s)
      BY <1>1, SizeFacts DEF IInv, TypeOK, DispatchTypeOK, PlanInv
    <2>2. sent[s] + 1 \in 1 .. Size(s) /\ ~(sent[s] + 1 <= sent[s])
      BY <2>1
    <2> QED
      BY <2>2, TaskElem DEF IInv, PlanInv, Current
  <1>2. CASE \E s \in Session : Host(s)
    <2>1. PICK s \in Session : Host(s)
      BY <1>2
    <2>2. CASE CreateTemp(s) \/ Publish(s)
      <3>1. pc[s] \in {"temp", "rename"}
        BY <2>2 DEF CreateTemp, Publish, Goto
      <3> QED
        BY <1>1, <2>1, <2>2, <3>1 DEF Host, CreateTemp, Publish, hostFiles, taskFiles
    <2>3. CASE ~(CreateTemp(s) \/ Publish(s))
      BY <2>1, <2>3
      DEF Host, DispatchStep, Schedule, Prepare, WriteEntryScript, CreateContainerGroup, MakeInFolder, Stage,
          SkipExtract, ReadPid, WriteEnv, WriteScript, Fail, hostFiles
    <2> QED
      BY <2>2, <2>3
  <1>3. CASE RunDaemon
    BY <1>3 DEF RunDaemon, InContainer, hostFiles, DaemonStep, ListStreamIn, ListRun,
       ListStreamOut, List, Exec, Reap, Mv, MvFails, NextRound, taskFiles
  <1>4. CASE \E t \in Task, k \in Attempt : Shell(t, k) \/ Command(t, k)
    BY <1>4 DEF Shell, Command, InContainer, hostFiles, ShellStep, CommandEnds, OpenScript,
       SuFails, StartCommand, OpenPidFile, WritePidFile, OpenExitFile, WriteExitFile, Advance
  <1>5. CASE ContainerGone \/ UNCHANGED vars
    BY <1>5 DEF ContainerGone, hostFiles, vars, swapVars
  <1> QED
    BY <1>2, <1>3, <1>4, <1>5 DEF Next

LEMMA NextExitInv == IInv /\ ExitInv /\ [Next]_vars => ExitInv'
  <1> SUFFICES ASSUME IInv, ExitInv, [Next]_vars PROVE ExitInv'
    OBVIOUS
  <1>0. /\ script \in [Task -> Names] /\ cur \in Task \cup {NoTask}
        /\ \A t \in Task : Executed(t) => Published(t)
    BY DEF IInv, TypeOK, SwapTypeOK, DaemonTypeOK, Executed, Published
  <1>1. \A t \in Task : Executed(t)' => Executed(t) \/ (cur = t /\ dpc = "mv")
    BY <1>0, ScriptFrame DEF Executed
  <1>2. CASE \E s \in Session : Host(s)
    BY <1>1, <1>2, ExitUnchanged DEF Host, taskFiles, daemonVars
  <1>3. CASE RunDaemon /\ (ListStreamIn \/ ListRun \/ ListStreamOut \/ Mv \/ MvFails)
    <2>1. UNCHANGED <<exitFile, proc, tries>> /\ dpc' # "mv"
      BY <1>3 DEF ListStreamIn, ListRun, ListStreamOut, List, Mv, MvFails, NextRound, taskFiles
    <2> QED
      BY <1>1, <2>1, ExitUnchanged
  <1>4. CASE RunDaemon /\ Exec
    <2>1. /\ UNCHANGED <<exitFile, script, cur>> /\ dpc = "exec"
          /\ dpc' = IF Step(cur) = "run" THEN "mv" ELSE "wait"
          /\ tries' = [tries EXCEPT ![cur] = tries[cur] + 1]
          /\ proc' = [proc EXCEPT ![cur][tries[cur] + 1] = "forked"]
      BY <1>4 DEF Exec, taskFiles
    <2>2. /\ cur \in Task /\ script[cur] = "sh" /\ ~InHand(cur)
          /\ tries \in [Task -> 0 .. MaxTries] /\ MaxTries \in Nat \ {0}
          /\ proc \in [Task -> [Attempt -> ProcStates]]
      BY <2>1, SwapRootAssumption DEF IInv, HandInv, Busy, InHand, TypeOK, DaemonTypeOK
    <2>3. /\ tries[cur] \in Nat /\ tries[cur] + 1 \in Attempt /\ 1 \in Attempt
          /\ "mv" \notin Faults => tries[cur] = 0
      BY <2>2 DEF IInv, ExecInv, Attempt
    <2>4. "mv" \notin Faults => proc[cur][1] = "none"
      BY <2>2, <2>3 DEF IInv, ExecInv
    <2>5. /\ tries'[cur] = tries[cur] + 1
          /\ \A l \in Attempt :
               proc'[cur][l] = IF l = tries[cur] + 1 THEN "forked" ELSE proc[cur][l]
          /\ \A t \in Task : t # cur => tries'[t] = tries[t] /\ proc'[t] = proc[t]
      BY <2>1, <2>2, <2>3
    <2> SUFFICES ASSUME NEW t \in Task
                 PROVE  /\ "mv" \notin Faults /\ exitFile'[t] = "written" => proc'[t][1] = "ended"
                        /\ Serial(t) /\ "su" \notin Faults =>
                             /\ \A l \in Attempt : proc'[t][l] # "aborted"
                             /\ Begun(t)' /\ proc'[t][tries'[t]] = "ended" => exitFile'[t] = "written"
                             /\ Executed(t)' \/ (cur' = t /\ dpc' = "mv")
                                  => proc'[t][tries'[t]] = "ended"
      BY DEF ExitInv, Serial
    <2>6. CASE t = cur
      <3>1. "mv" \notin Faults => exitFile'[t] # "written"
        BY <2>1, <2>4, <2>6 DEF ExitInv
      <3>2. ~Executed(t)' /\ (Serial(t) => dpc' # "mv")
        BY <2>1, <2>2, <2>6 DEF Executed, Serial
      <3>3. proc'[t][tries'[t]] = "forked"
        BY <2>3, <2>5, <2>6
      <3>4. Serial(t) /\ "su" \notin Faults => \A l \in Attempt : proc'[t][l] # "aborted"
        BY <2>5, <2>6 DEF ExitInv
      <3> QED
        BY <3>1, <3>2, <3>3, <3>4
    <2>7. CASE t # cur
      <3>1. (Executed(t)' <=> Executed(t)) /\ (Begun(t)' <=> Begun(t)) /\ cur' # t
        BY <2>1, <2>5, <2>7 DEF Executed, Begun
      <3> QED
        BY <2>1, <2>5, <2>7, <3>1 DEF ExitInv
    <2> QED
      BY <2>6, <2>7
  <1>5. CASE RunDaemon /\ Reap
    <2>1. /\ UNCHANGED <<exitFile, script, cur, tries, proc>> /\ dpc = "wait"
          /\ proc[cur][tries[cur]] \in {"ended", "aborted"}
      BY <1>5 DEF Reap, taskFiles
    <2>2. cur \in Task /\ tries[cur] \in Attempt
      <3>1. cur \in Task /\ Begun(cur) /\ tries[cur] \in 0 .. MaxTries /\ MaxTries \in Nat
        BY <2>1, SwapRootAssumption DEF IInv, HandInv, Busy, TypeOK, DaemonTypeOK
      <3> QED
        BY <3>1 DEF Begun, Attempt
    <2>3. Serial(cur) /\ "su" \notin Faults => proc[cur][tries[cur]] = "ended"
      BY <2>1, <2>2 DEF ExitInv
    <2> QED
      BY <2>1, <2>2, <2>3 DEF ExitInv, Executed, Begun, Serial
  <1>6. CASE \E t \in Task, k \in Attempt : Shell(t, k) \/ Command(t, k)
    BY <1>6, ExitScriptStep
  <1>7. CASE ContainerGone \/ UNCHANGED vars
    BY <1>1, <1>7, ExitUnchanged
    DEF ContainerGone, taskFiles, daemonVars, vars, swapVars
  <1> QED
    BY <1>2, <1>3, <1>4, <1>5, <1>6, <1>7 DEF Next, RunDaemon, DaemonStep

LEMMA ExitInvariance == Spec => []ExitInv
  BY InitExitInv, NextExitInv, Invariance, PTL DEF Spec

(* A readable exit status is that of the last execution of the task.       *)
THEOREM ExitFilesAreFinal == Spec => []ExitFileFinal
  <1>1. IInv /\ ExitInv => ExitFileFinal
    <2> SUFFICES ASSUME IInv, ExitInv, "mv" \notin Faults, NEW t \in Task,
                        exitFile[t] = "written"
                 PROVE  Ended(t)
      BY DEF ExitFileFinal
    <2>1. /\ tries[t] <= 1 /\ tries[t] \in 0 .. MaxTries /\ MaxTries \in Nat \ {0}
          /\ proc[t][1] = "ended" /\ 1 \in Attempt
          /\ \A k \in Attempt : proc[t][k] = "none" <=> k > tries[t]
      BY SwapRootAssumption DEF IInv, ExecInv, ExitInv, TypeOK, DaemonTypeOK, Attempt
    <2>2. tries[t] = 1
      BY <2>1
    <2>3. \A k \in Attempt : k = 1 \/ k > tries[t]
      BY <2>2 DEF Attempt
    <2>4. \A k \in Attempt : ~Alive(t, k)
      BY <2>1, <2>3 DEF Alive
    <2> QED
      BY <2>2, <2>4 DEF Ended, Begun
  <1> QED
    BY <1>1, Invariance, ExitInvariance, PTL

(* An executed stream script has left its exit status, unless su refused.  *)
THEOREM StreamTasksLeaveExits == Spec => []StreamTaskLeavesExit
  <1>1. IInv /\ ExitInv => StreamTaskLeavesExit
    BY DEF IInv, ExecInv, ExitInv, StreamTaskLeavesExit
  <1> QED
    BY <1>1, Invariance, ExitInvariance, PTL

(* What is published keeps its place; what is newly published comes last.  *)
LEMMA PublishedFrame ==
  ASSUME IInv, [Next]_vars, NEW t \in Task
  PROVE  /\ Published(t) =>
              /\ Published(t)' /\ ctime'[t] = ctime[t]
              /\ (Executed(t) => Executed(t)')
         /\ ~Published(t) /\ Published(t)' =>
              ctime'[t] = now + 1 /\ ~Executed(t)'
  <1>1. script \in [Task -> Names] /\ ctime \in [Task -> Nat]
    BY DEF IInv, TypeOK, SwapTypeOK
  <1>2. dpc = "mv" => cur \in Task /\ script[cur] = "sh"
    BY DEF IInv, HandInv, Busy
  <1> QED
    BY <1>1, <1>2, ScriptFrame DEF Published, Executed

(* What is published stays published, in its order.                        *)
THEOREM PublicationIsForGood == Spec => StaysPublished
  <1>1. IInv /\ [Next]_vars =>
          [\A t \in Task : Published(t) =>
             /\ Published(t)'
             /\ Executed(t) => Executed(t)'
             /\ ctime'[t] = ctime[t]]_vars
    <2> SUFFICES ASSUME IInv, [Next]_vars, NEW t \in Task, Published(t)
                 PROVE  /\ Published(t)'
                        /\ Executed(t) => Executed(t)'
                        /\ ctime'[t] = ctime[t]
      OBVIOUS
    <2> QED
      BY PublishedFrame
  <1> QED
    BY <1>1, Invariance, PTL DEF Spec, StaysPublished

-----------------------------------------------------------------------------
(* The archive of a StreamOut.  Its tar begins only after its mkdir was    *)
(* renamed, hence in a later round, and every round starts with a listing  *)
(* of stream_in: what the daemon has executed by the time it is past that  *)
(* listing was published before it.                                        *)
SeenInv ==
  dpc # "scan_in" => \A t \in Task : Executed(t) => ctime[t] <= scanned

LEMMA NextSeen == IInv /\ SeenInv /\ [Next]_vars => SeenInv'
  <1> SUFFICES ASSUME IInv, SeenInv, [Next]_vars, dpc' # "scan_in",
                      NEW t \in Task, Executed(t)'
               PROVE  ctime'[t] <= scanned'
    BY DEF SeenInv
  <1>1. script \in [Task -> Names] /\ ctime \in [Task -> Nat]
    BY DEF IInv, TypeOK, SwapTypeOK
  <1>2. CASE \E s \in Session : Host(s)
    <2>1. UNCHANGED <<dpc, cur, scanned>>
      BY <1>2 DEF Host, daemonVars
    <2>2. Executed(t) /\ ctime'[t] = ctime[t]
      <3>1. Published(t)' /\ script'[t] = "executed"
        BY DEF Published, Executed
      <3>2. Published(t)
        BY <3>1, PublishedFrame
      <3>3. script'[t] = script[t] \/ (dpc = "mv" /\ dpc' = "scan_in")
        BY <1>1, <3>1, ScriptFrame
      <3> QED
        BY <2>1, <3>2, <3>3, PublishedFrame DEF Executed
    <2> QED
      BY <2>1, <2>2 DEF SeenInv
  <1>3. CASE RunDaemon /\ ListStreamIn
    <2>1. scanned' = now /\ UNCHANGED <<script, ctime>>
      BY <1>3 DEF ListStreamIn, List, RunDaemon, InContainer, hostFiles
    <2>2. Published(t)
      BY <2>1 DEF Executed, Published
    <2> QED
      BY <2>1, <2>2 DEF IInv, ClockInv
  <1>4. CASE RunDaemon /\ (Mv \/ MvFails)
    BY <1>4 DEF Mv, MvFails, NextRound
  <1>5. CASE \/ RunDaemon /\ (ListRun \/ ListStreamOut \/ Exec \/ Reap)
             \/ \E u \in Task, k \in Attempt : Shell(u, k) \/ Command(u, k)
             \/ ContainerGone \/ UNCHANGED vars
    <2>1. UNCHANGED <<script, ctime, scanned>> /\ dpc # "scan_in"
      BY <1>5
      DEF RunDaemon, InContainer, hostFiles, ListRun, ListStreamOut, List, Exec, Reap,
          Shell, Command, ShellStep, CommandEnds, OpenScript, SuFails, StartCommand,
          OpenPidFile, WritePidFile, OpenExitFile, WriteExitFile, Advance,
          ContainerGone, vars, swapVars, daemonVars
    <2> QED
      BY <2>1 DEF SeenInv, Executed
  <1> QED
    BY <1>2, <1>3, <1>4, <1>5 DEF Next, RunDaemon, DaemonStep

LEMMA SeenInvariance == Spec => []SeenInv
  <1>1. Init => SeenInv
    BY DEF Init, DaemonInit, SeenInv
  <1> QED
    BY <1>1, NextSeen, Invariance, PTL DEF Spec

(* The part of the property that a step can disturb.                       *)
ArchiveInv ==
  \A t, u \in Task :
    /\ Step(t) = "stream_in" /\ Published(t)
    /\ Step(u) = "stream_out" /\ u[2] = 2 /\ Begun(u)
    /\ ctime[t] < ctime[<<u[1], 1>>]
    => Executed(t)

(* When the daemon executes a tar, the mkdir before it has been executed,  *)
(* was seen by the last listing of stream_in, and so was all that is older.*)
LEMMA TarSeesStreamIns ==
  ASSUME IInv, SeenInv, InOrder', RunDaemon, Exec, cur \in Task, cur[2] = 2,
         Step(cur) = "stream_out",
         NEW t \in Task, Step(t) = "stream_in", Published(t), ctime[t] < ctime[<<cur[1], 1>>]
  PROVE  Executed(t)
  <1>1. /\ UNCHANGED <<script, ctime, scanned, cur>> /\ dpc = "exec"
        /\ tries' = [tries EXCEPT ![cur] = @ + 1]
    BY DEF RunDaemon, InContainer, hostFiles, Exec
  <1>2. /\ ctime \in [Task -> Nat] /\ scanned \in Nat
        /\ tries \in [Task -> 0 .. MaxTries] /\ MaxTries \in Nat
    BY SwapRootAssumption DEF IInv, TypeOK, SwapTypeOK, DaemonTypeOK
  <1>3. PICK w \in Task : w = <<cur[1], 1>>
    <2>1. cur[1] \in Session /\ Size(cur[1]) \in Nat /\ 2 \in 1 .. Size(cur[1])
      BY TaskPair, SizeFacts
    <2> QED
      BY <2>1, TaskElem
  <1>4. Begun(cur)'
    BY <1>1, <1>2 DEF Begun
  <1>5. Executed(w)
    <2>1. Earlier(w, cur)
      BY <1>3 DEF Earlier
    <2>2. Executed(w)'
      BY <1>4, <1>1, <2>1 DEF InOrder, Earlier
    <2> QED
      BY <1>1, <2>2 DEF Executed
  <1>6. ctime[w] <= scanned
    BY <1>1, <1>5 DEF SeenInv
  <1>7. ctime[t] <= scanned
    BY <1>2, <1>3, <1>6
  <1> QED
    BY <1>1, <1>7 DEF IInv, BarrierInv, Busy

LEMMA NextArchive ==
  IInv /\ SeenInv /\ InOrder /\ InOrder' /\ ArchiveInv /\ [Next]_vars => ArchiveInv'
  <1> SUFFICES ASSUME IInv, SeenInv, InOrder, InOrder', ArchiveInv, [Next]_vars,
                      NEW t \in Task, NEW u \in Task,
                      Step(t) = "stream_in", Published(t)',
                      Step(u) = "stream_out", u[2] = 2, Begun(u)',
                      ctime'[t] < ctime'[<<u[1], 1>>]
               PROVE  Executed(t)'
    BY DEF ArchiveInv, Step
  <1>1. /\ script \in [Task -> Names] /\ ctime \in [Task -> Nat] /\ now \in Nat
        /\ tries \in [Task -> 0 .. MaxTries]
    BY DEF IInv, TypeOK, SwapTypeOK, DaemonTypeOK
  <1>2. PICK w \in Task : w = <<u[1], 1>> /\ Earlier(w, u)
    <2>1. u[1] \in Session /\ Size(u[1]) \in Nat /\ 2 \in 1 .. Size(u[1])
      BY TaskPair, SizeFacts
    <2>2. <<u[1], 1>> \in Task
      BY <2>1, TaskElem
    <2> QED
      BY <2>2 DEF Earlier
  <1>3. CASE RunDaemon /\ Exec
    <2>1. UNCHANGED <<script, ctime, cur>> /\ tries' = [tries EXCEPT ![cur] = @ + 1]
      BY <1>3 DEF RunDaemon, InContainer, hostFiles, Exec
    <2>2. Published(t) /\ ctime[t] < ctime[<<u[1], 1>>]
      BY <2>1 DEF Published
    <2>3. CASE u = cur
      <3>1. Executed(t)
        BY <1>3, <2>2, <2>3, TarSeesStreamIns
      <3> QED
        BY <2>1, <3>1 DEF Executed
    <2>4. CASE u # cur
      <3>1. Begun(u)
        BY <1>1, <2>1, <2>4 DEF Begun
      <3>2. Executed(t)
        BY <2>2, <3>1 DEF ArchiveInv
      <3> QED
        BY <2>1, <3>2 DEF Executed
    <2> QED
      BY <2>3, <2>4
  <1>4. CASE ~(RunDaemon /\ Exec)
    <2>1. Begun(u)
      BY <1>1, <1>4
      DEF Next, Host, RunDaemon, DaemonStep, ListStreamIn, ListRun, ListStreamOut, List,
          Reap, Mv, MvFails, NextRound, Shell, Command, ShellStep, CommandEnds, OpenScript,
          SuFails, StartCommand, OpenPidFile, WritePidFile, OpenExitFile, WriteExitFile,
          Advance, ContainerGone, vars, daemonVars, Begun
    <2>2. Published(w) /\ ctime'[w] = ctime[w] /\ ctime[w] <= now
      <3>1. Published(w)
        BY <1>2, <2>1 DEF InOrder, Executed, Published
      <3> QED
        BY <3>1, PublishedFrame DEF IInv, ClockInv
    <2>3. Published(t)
      BY <1>1, <1>2, <2>2, PublishedFrame
    <2>4. ctime'[t] = ctime[t]
      BY <2>3, PublishedFrame
    <2>5. Executed(t)
      BY <1>2, <2>1, <2>2, <2>3, <2>4 DEF ArchiveInv
    <2> QED
      BY <2>5, PublishedFrame DEF Executed, Published
  <1> QED
    BY <1>3, <1>4

(* The archive of a StreamOut holds what was streamed in before it.        *)
THEOREM ArchivesAreComplete == Spec => []ArchiveSeesStreamIns
  <1>1. Init => ArchiveInv
    BY DEF Init, SwapInit, ArchiveInv, Published
  <1>2. Spec => []ArchiveInv
    BY <1>1, NextArchive, Invariance, SeenInvariance, TasksInOrder, PTL DEF Spec
  <1>3. IInv /\ ArchiveInv => ArchiveSeesStreamIns
    BY ExecutedEnded DEF ArchiveInv, ArchiveSeesStreamIns, Serial
  <1> QED
    BY <1>2, <1>3, Invariance, PTL

-----------------------------------------------------------------------------
(* Refinement: every step of handlers, daemon and shells is a step of the  *)
(* pipeline or leaves its stages alone.                                    *)

LEMMA StageCases ==
  ASSUME TypeOK, NEW t \in Task
  PROVE  /\ script[t] \in {"none", "temp"} => StageOf(t) = "todo"
         /\ script[t] = "sh" /\ ~InHand(t) => StageOf(t) = "posted"
         /\ script[t] = "sh" /\ InHand(t) => StageOf(t) = "begun"
         /\ script[t] = "executed" => StageOf(t) = "done"
  BY DEF StageOf, Published, Executed

LEMMA StageCasesPrime ==
  ASSUME TypeOK', NEW t \in Task
  PROVE  /\ script'[t] \in {"none", "temp"} => StageOf(t)' = "todo"
         /\ script'[t] = "sh" /\ ~InHand(t)' => StageOf(t)' = "posted"
         /\ script'[t] = "sh" /\ InHand(t)' => StageOf(t)' = "begun"
         /\ script'[t] = "executed" => StageOf(t)' = "done"
  BY DEF StageOf, Published, Executed

LEMMA StageStutter ==
  ASSUME TypeOK, TypeOK',
         \A t \in Task : /\ InHand(t)' <=> InHand(t)
                         /\ \/ script'[t] = script[t]
                            \/ script[t] \in {"none", "temp"} /\ script'[t] \in {"none", "temp"}
  PROVE  [t \in Task |-> StageOf(t)]' = [t \in Task |-> StageOf(t)]
  <1>1. \A t \in Task : script[t] \in {"none", "temp", "sh", "executed"}
    BY DEF TypeOK, SwapTypeOK, Names
  <1>2. \A t \in Task : StageOf(t)' = StageOf(t)
    BY <1>1, StageCases, StageCasesPrime
  <1> QED
    BY <1>2

(* One task moves, the others stay.                                        *)
LEMMA StageMove ==
  ASSUME TypeOK, TypeOK', NEW m \in Task,
         NEW from, NEW to, StageOf(m) = from, StageOf(m)' = to,
         \A t \in Task : t # m => StageOf(t)' = StageOf(t)
  PROVE  Pipeline!Move(m, from, to)
  BY DEF Pipeline!Move

LEMMA PipelineStep ==
  ASSUME IInv, [Next]_vars
  PROVE  Pipeline!Next \/ UNCHANGED [t \in Task |-> StageOf(t)]
  <1>0. TypeOK /\ TypeOK' /\ HandInv /\ ClockInv /\ PlanInv
    BY NextIInv DEF IInv
  <1>1. /\ \A t \in Task : script[t] \in {"none", "temp", "sh", "executed"}
        /\ script \in [Task -> Names]
    BY <1>0 DEF TypeOK, SwapTypeOK, Names
  <1>2. CASE \E s \in Session : Host(s)
    <2>1. PICK s \in Session : Host(s)
      BY <1>2
    <2>2. \A t \in Task : InHand(t)' <=> InHand(t)
      BY <2>1 DEF Host, daemonVars, InHand
    <2>3. CASE Publish(s)
      <3>1. /\ pc[s] = "rename" /\ sent[s] \in Nat /\ Size(s) \in Nat /\ sent[s] < Size(s)
            /\ script' = [script EXCEPT ![Current(s)] = "sh"]
        BY <1>0, <2>3, SizeFacts DEF Publish, Goto, PlanInv, TypeOK, DispatchTypeOK
      <3>2. PICK m \in Task : m = Current(s) /\ m = <<s, sent[s] + 1>>
        BY <3>1, TaskElem DEF Current
      <3>3. ~Published(m)
        BY <1>0, <3>1, <3>2 DEF PlanInv
      <3>4. script[m] \in {"none", "temp"} /\ script'[m] = "sh"
        BY <1>1, <3>1, <3>2, <3>3 DEF Published
      <3>5. ~InHand(m)'
        BY <1>0, <2>2, <3>2, <3>4 DEF InHand, HandInv, Busy
      <3>6. StageOf(m) = "todo" /\ StageOf(m)' = "posted"
        BY <1>0, <3>2, <3>4, <3>5, StageCases, StageCasesPrime
      <3>7. \A t \in Task : t # m => script'[t] = script[t]
        BY <1>1, <3>1, <3>2
      <3>8. \A t \in Task : t # m => StageOf(t)' = StageOf(t)
        BY <1>0, <1>1, <2>2, <3>7, StageCases, StageCasesPrime
      <3>9. Pipeline!Move(m, "todo", "posted")
        BY <1>0, <3>2, <3>6, <3>8, StageMove
      <3>10. \A u \in Pipeline!Before(m) : StageOf(u) # "todo"
        <4> SUFFICES ASSUME NEW u \in Task, u[1] = m[1], u[2] < m[2]
                     PROVE  StageOf(u) # "todo"
          BY DEF Pipeline!Before
        <4>1. u[1] = s /\ u[2] \in 1 .. Size(s) /\ u[2] < sent[s] + 1 /\ u = <<s, u[2]>>
          BY <3>2, TaskPair
        <4>2. Published(u)
          BY <1>0, <3>1, <4>1 DEF PlanInv
        <4> QED
          BY <1>0, <4>2, StageCases DEF Published
      <3>11. Pipeline!Post(m)
        <4>1. \A u \in Pipeline!Before(m) : u \in Task
          BY DEF Pipeline!Before
        <4> QED
          BY <3>9, <3>10, <4>1 DEF Pipeline!Post
      <3> QED
        BY <3>2, <3>11 DEF Pipeline!Next
    <2>4. CASE ~Publish(s)
      <3>1. \A t \in Task : \/ script'[t] = script[t]
                            \/ script[t] \in {"none", "temp"} /\ script'[t] \in {"none", "temp"}
        <4>1. CASE CreateTemp(s)
          <5>1. ~Published(Current(s)) /\ script' = [script EXCEPT ![Current(s)] = "temp"]
            <6>1. /\ pc[s] = "temp" /\ sent[s] \in Nat /\ Size(s) \in Nat /\ sent[s] < Size(s)
              BY <1>0, <4>1, SizeFacts DEF CreateTemp, Goto, PlanInv, TypeOK, DispatchTypeOK
            <6> QED
              BY <1>0, <4>1, <6>1 DEF CreateTemp, PlanInv, Current
          <5> QED
            BY <1>1, <5>1 DEF Published
        <4>2. CASE ~CreateTemp(s)
          BY <2>1, <2>4, <4>2
          DEF Host, DispatchStep, Schedule, Prepare, WriteEntryScript, CreateContainerGroup, MakeInFolder,
              Stage, SkipExtract, ReadPid, WriteEnv, WriteScript, Fail
        <4> QED
          BY <4>1, <4>2
      <3> QED
        BY <1>0, <2>2, <3>1, StageStutter
    <2> QED
      BY <2>3, <2>4
  <1>3. CASE RunDaemon /\ Exec
    <2>1. /\ UNCHANGED <<script, cur>> /\ dpc = "exec" /\ dpc' \in {"wait", "mv"}
      BY <1>3 DEF Exec
    <2>2. PICK c \in Task : c = cur /\ script[c] = "sh" /\ Oldest(c)
      BY <1>0, <2>1 DEF HandInv, Busy
    <2>3. \A t \in Task : ~InHand(t) /\ (InHand(t)' <=> t = c)
      BY <2>1, <2>2 DEF InHand
    <2>4. StageOf(c) = "posted" /\ StageOf(c)' = "begun"
      BY <1>0, <2>1, <2>2, <2>3, StageCases, StageCasesPrime
    <2>5. \A t \in Task : t # c => StageOf(t)' = StageOf(t)
      BY <1>0, <1>1, <2>1, <2>3, StageCases, StageCasesPrime
    <2>6. Pipeline!Move(c, "posted", "begun")
      BY <1>0, <2>2, <2>4, <2>5, StageMove
    <2>7. \A u \in Pipeline!Before(c) : u \in Task /\ StageOf(u) = "done"
      <3> SUFFICES ASSUME NEW u \in Task, u[1] = c[1], u[2] < c[2]
                   PROVE  StageOf(u) = "done"
        BY DEF Pipeline!Before
      <3>1. Earlier(u, c) /\ Published(c)
        BY <2>2 DEF Earlier, Published
      <3>2. Step(u) = Step(c) /\ ctime[u] < ctime[c]
        BY <1>0, <2>2, <3>1, EarlierFacts DEF ClockInv
      <3>3. ctime[u] \in Nat /\ ctime[c] \in Nat
        BY <1>0, <2>2 DEF TypeOK, SwapTypeOK
      <3>4. script[u] # "sh"
        BY <2>2, <3>2, <3>3 DEF Oldest, Visible
      <3>5. Published(u)
        <4>1. /\ c[1] \in Session /\ c = <<c[1], c[2]>> /\ u = <<c[1], u[2]>>
              /\ c[2] \in 1 .. Size(c[1]) /\ u[2] \in 1 .. Size(c[1])
          BY <2>2, TaskPair
        <4>2. c[2] <= sent[c[1]] /\ sent[c[1]] \in Nat
          BY <1>0, <3>1, <4>1 DEF PlanInv, TypeOK, DispatchTypeOK
        <4>3. u[2] <= sent[c[1]]
          BY <4>1, <4>2
        <4> QED
          BY <1>0, <4>1, <4>3 DEF PlanInv
      <3> QED
        BY <1>0, <3>4, <3>5, StageCases DEF Published
    <2>8. \A u \in Task : StageOf(u) # "begun"
      BY <1>0, <1>1, <2>3, StageCases
    <2>9. Pipeline!Begin(c)
      BY <2>6, <2>7, <2>8 DEF Pipeline!Begin
    <2> QED
      BY <2>2, <2>9 DEF Pipeline!Next
  <1>4. CASE RunDaemon /\ (Mv \/ MvFails)
    <2>1. /\ dpc = "mv" /\ dpc' = "scan_in"
          /\ \/ script' = [script EXCEPT ![cur] = "executed"]
             \/ script' = script
      BY <1>4 DEF Mv, MvFails, NextRound
    <2>2. PICK c \in Task : c = cur /\ script[c] = "sh"
      BY <1>0, <2>1 DEF HandInv, Busy
    <2>3. \A t \in Task : ~InHand(t)' /\ (InHand(t) <=> t = c)
      BY <2>1, <2>2 DEF InHand
    <2>4. /\ StageOf(c) = "begun"
          /\ StageOf(c)' \in {"posted", "done"}
      BY <1>0, <1>1, <2>1, <2>2, <2>3, StageCases, StageCasesPrime
    <2>5. \A t \in Task : t # c => StageOf(t)' = StageOf(t)
      <3>1. \A t \in Task : t # c => script'[t] = script[t]
        BY <1>1, <2>1, <2>2
      <3> QED
        BY <1>0, <1>1, <2>3, <3>1, StageCases, StageCasesPrime
    <2>6. CASE StageOf(c)' = "posted"
      <3>1. Pipeline!Move(c, "begun", "posted")
        BY <1>0, <2>2, <2>4, <2>5, <2>6, StageMove
      <3> QED
        BY <2>2, <3>1 DEF Pipeline!Next, Pipeline!Retry
    <2>7. CASE StageOf(c)' = "done"
      <3>1. Pipeline!Move(c, "begun", "done")
        BY <1>0, <2>2, <2>4, <2>5, <2>7, StageMove
      <3> QED
        BY <2>2, <3>1 DEF Pipeline!Next, Pipeline!Finish
    <2> QED
      BY <2>4, <2>6, <2>7
  <1>5. CASE \/ RunDaemon /\ (ListStreamIn \/ ListRun \/ ListStreamOut \/ Reap)
             \/ \E t \in Task, k \in Attempt : Shell(t, k) \/ Command(t, k)
             \/ ContainerGone \/ UNCHANGED vars
    <2>1. script' = script /\ \A t \in Task : InHand(t)' <=> InHand(t)
      BY <1>5
      DEF ListStreamIn, ListRun, ListStreamOut, List, Reap, Shell, Command, ShellStep,
          CommandEnds, OpenScript, SuFails, StartCommand, OpenPidFile, WritePidFile,
          OpenExitFile, WriteExitFile, Advance, ContainerGone, vars, swapVars, daemonVars,
          InHand
    <2> QED
      BY <1>0, <2>1, StageStutter
  <1> QED
    BY <1>2, <1>3, <1>4, <1>5 DEF Next, RunDaemon, DaemonStep

(* The protocol implements the promise of TaskPipeline.                    *)
THEOREM SpoolImplementsPipeline == Spec => ImplementsPipeline
  <1>1. Init => Pipeline!Init
    <2> SUFFICES ASSUME Init PROVE \A t \in Task : StageOf(t) = "todo"
      BY DEF Pipeline!Init
    <2> QED
      BY InitIInv, StageCases DEF IInv, Init, SwapInit
  <1>2. IInv /\ [Next]_vars => [Pipeline!Next]_([t \in Task |-> StageOf(t)])
    BY PipelineStep
  <1> QED
    BY <1>1, <1>2, Invariance, PTL DEF Spec, ImplementsPipeline, Pipeline!Spec
=============================================================================
