----------------------- MODULE ContainerContractProofs -----------------------
(***************************************************************************)
(* ContainerRpc implements ContainerContract as long as no mv fails: every *)
(* step of handlers, clients, daemon and shells is one step of the         *)
(* contract or none.                                                       *)
(***************************************************************************)
EXTENDS ContainerRpcProofs

Known == IInv /\ IInv' /\ RpcInv /\ ExitFileFinal /\ InOrder'

(* What a task's standing says of it.                                      *)
LEMMA StandingFacts ==
  ASSUME IInv, NEW t \in Task
  PROVE  /\ Standing(t) = "todo"   <=> ~Published(t)
         /\ Standing(t) = "posted" <=> Published(t) /\ ~Begun(t)
         /\ Standing(t) = "begun"  <=> Begun(t) /\ ~Ended(t)
         /\ Standing(t) = "over"   <=> Ended(t)
         /\ Begun(t) => Published(t)
  <1>1. (Begun(t) => Published(t)) /\ (Ended(t) => Begun(t))
    BY DEF IInv, ExecInv, Ended
  <1> QED
    BY <1>1 DEF Standing

LEMMA StandingFactsPrime ==
  ASSUME IInv', NEW t \in Task
  PROVE  /\ Standing(t)' = "todo"   <=> ~Published(t)'
         /\ Standing(t)' = "posted" <=> Published(t)' /\ ~Begun(t)'
         /\ Standing(t)' = "begun"  <=> Begun(t)' /\ ~Ended(t)'
         /\ Standing(t)' = "over"   <=> Ended(t)'
  <1>1. (Begun(t)' => Published(t)') /\ (Ended(t)' => Begun(t)')
    BY DEF IInv, ExecInv, Ended
  <1> QED
    BY <1>1 DEF Standing

LEMMA StandingKept ==
  ASSUME NEW t \in Task,
         Published(t)' <=> Published(t), Begun(t)' <=> Begun(t), Ended(t)' <=> Ended(t)
  PROVE  Standing(t)' = Standing(t)
  BY DEF Standing

(* Nothing that the contract sees has changed.                             *)
LEMMA ContractStutters ==
  ASSUME UNCHANGED rpcVars,
         \A t \in Task : /\ Published(t)' <=> Published(t)
                         /\ Begun(t)' <=> Begun(t)
                         /\ Ended(t)' <=> Ended(t)
  PROVE  UNCHANGED Contract!vars
  BY StandingKept DEF Contract!vars, rpcVars

(* One task moves on, and the answers stay.                                *)
LEMMA ContractMoves ==
  ASSUME UNCHANGED rpcVars, NEW m \in Task, NEW from, NEW to,
         Standing(m) = from, Standing(m)' = to,
         \A t \in Task : t # m => /\ Published(t)' <=> Published(t)
                                  /\ Begun(t)' <=> Begun(t)
                                  /\ Ended(t)' <=> Ended(t)
  PROVE  Contract!Move(m, from, to)
  <1>1. \A t \in Task : t # m => Standing(t)' = Standing(t)
    BY StandingKept
  <1> QED
    BY <1>1 DEF Contract!Move, rpcVars

-----------------------------------------------------------------------------
(* Handlers post.                                                          *)
LEMMA HostContract ==
  ASSUME Known, UNCHANGED rpcVars, NEW s \in Session, Host(s)
  PROVE  Contract!Next \/ UNCHANGED Contract!vars
  <1>0. /\ script \in [Task -> Names] /\ pc \in [Session -> PCs] /\ sent \in [Session -> Nat]
        /\ IInv /\ IInv' /\ PlanInv
    BY DEF Known, IInv, TypeOK, SwapTypeOK, DispatchTypeOK
  <1>1. \A t \in Task : (Begun(t)' <=> Begun(t)) /\ (Ended(t)' <=> Ended(t))
    BY DEF Host, daemonVars, Begun, Ended, Alive
  <1>2. CASE Publish(s)
    <2>1. /\ pc[s] = "rename" /\ sent[s] \in Nat /\ Size(s) \in Nat /\ sent[s] < Size(s)
          /\ script' = [script EXCEPT ![Current(s)] = "sh"]
      BY <1>0, <1>2, SizeFacts DEF Publish, Goto, PlanInv
    <2>2. PICK m \in Task : m = Current(s) /\ m = <<s, sent[s] + 1>>
      BY <2>1, TaskElem DEF Current
    <2>3. /\ ~Published(m) /\ Published(m)'
          /\ \A t \in Task : t # m => (Published(t)' <=> Published(t))
      BY <1>0, <2>1, <2>2 DEF PlanInv, Published
    <2>4. Standing(m) = "todo" /\ Standing(m)' = "posted"
      BY <1>0, <1>1, <2>3, StandingFacts, StandingFactsPrime
    <2>5. Contract!Move(m, "todo", "posted")
      BY <1>1, <2>3, <2>4, ContractMoves
    <2>6. reply[m[1]] = "none"
      <3>1. reply[s] = "none"
        BY <2>1 DEF Known, RpcInv, AnswerInv, Returning
      <3> QED
        BY <2>2, <3>1
    <2>7. \A u \in Contract!Before(m) : u \in Task /\ Standing(u) # "todo"
      <3> SUFFICES ASSUME NEW u \in Task, u[1] = m[1], u[2] < m[2]
                   PROVE  Standing(u) # "todo"
        BY DEF Contract!Before
      <3>1. u[1] = s /\ u[2] \in 1 .. Size(s) /\ u[2] < sent[s] + 1 /\ u = <<s, u[2]>>
        BY <2>2, TaskPair
      <3>2. u[2] <= sent[s]
        BY <2>1, <3>1
      <3> QED
        BY <1>0, <3>1, <3>2, StandingFacts DEF PlanInv
    <2>8. Contract!Post(m)
      BY <2>5, <2>6, <2>7 DEF Contract!Post
    <2> QED
      BY <2>8 DEF Contract!Next
  <1>3. CASE ~Publish(s)
    <2>1. \A t \in Task : Published(t)' <=> Published(t)
      <3>1. CASE CreateTemp(s)
        <4>1. /\ pc[s] = "temp" /\ sent[s] \in Nat /\ Size(s) \in Nat /\ sent[s] < Size(s)
              /\ script' = [script EXCEPT ![Current(s)] = "temp"]
          BY <1>0, <3>1, SizeFacts DEF CreateTemp, Goto, PlanInv
        <4>2. ~Published(Current(s))
          BY <1>0, <4>1 DEF PlanInv, Current
        <4> QED
          BY <1>0, <4>1, <4>2 DEF Published
      <3>2. CASE ~CreateTemp(s)
        <4>1. script' = script
          BY <1>3, <3>2
          DEF Host, DispatchStep, Schedule, Prepare, WriteEntryScript, CreateContainerGroup, MakeInFolder,
              Stage, SkipExtract, ReadPid, WriteEnv, WriteScript, Fail
        <4> QED
          BY <4>1 DEF Published
      <3> QED
        BY <3>1, <3>2
    <2> QED
      BY <1>1, <2>1, ContractStutters
  <1> QED
    BY <1>2, <1>3

(* The daemon begins a task: its predecessors are over, and no stream task *)
(* is alive while the daemon does not wait for one.                        *)
LEMMA ExecContract ==
  ASSUME Known, "mv" \notin Faults, UNCHANGED rpcVars, RunDaemon, Exec
  PROVE  Contract!Next
  <1>0. /\ IInv /\ IInv' /\ InOrder' /\ ExecInv /\ HandInv /\ MaxTries \in Nat \ {0}
        /\ tries \in [Task -> 0 .. MaxTries] /\ proc \in [Task -> [Attempt -> ProcStates]]
    BY SwapRootAssumption DEF Known, IInv, TypeOK, DaemonTypeOK
  <1>1. /\ UNCHANGED <<script, cur>> /\ dpc = "exec"
        /\ tries' = [tries EXCEPT ![cur] = @ + 1]
        /\ proc' = [proc EXCEPT ![cur][tries[cur] + 1] = "forked"]
    BY DEF Exec
  <1>2. PICK c \in Task : c = cur /\ script[c] = "sh" /\ tries[c] = 0
    BY <1>0, <1>1 DEF HandInv, ExecInv, Busy, InHand
  <1>3. 1 \in Attempt /\ proc'[c][1] = "forked" /\ tries'[c] = 1
    BY <1>0, <1>1, <1>2 DEF Attempt
  <1>4. \A t \in Task : t # c => tries'[t] = tries[t] /\ proc'[t] = proc[t]
    BY <1>0, <1>1, <1>2
  <1>5. \A t \in Task : t # c => /\ Published(t)' <=> Published(t)
                                 /\ Begun(t)' <=> Begun(t)
                                 /\ Ended(t)' <=> Ended(t)
    BY <1>1, <1>4 DEF Published, Begun, Ended, Alive
  <1>6. Published(c) /\ ~Begun(c) /\ Begun(c)' /\ ~Ended(c)'
    BY <1>2, <1>3 DEF Published, Begun, Ended, Alive
  <1>7. Standing(c) = "posted" /\ Standing(c)' = "begun"
    BY <1>0, <1>6, StandingFacts, StandingFactsPrime
  <1>8. Contract!Move(c, "posted", "begun")
    BY <1>5, <1>7, ContractMoves
  <1>9. \A u \in Contract!Before(c) : u \in Task /\ Standing(u) = "over"
    <2> SUFFICES ASSUME NEW u \in Task, u[1] = c[1], u[2] < c[2]
                 PROVE  Standing(u) = "over"
      BY DEF Contract!Before
    <2>1. Earlier(u, c) /\ u # c /\ c[2] \in Nat
      BY TaskPair, SizeFacts DEF Earlier
    <2>2. Ended(u)'
      BY <1>0, <1>6, <2>1 DEF InOrder, Earlier
    <2> QED
      BY <1>0, <1>5, <2>1, <2>2, StandingFacts
  <1>10. \A u \in {t \in Task : Serial(t)} : u \in Task /\ Standing(u) # "begun"
    <2> SUFFICES ASSUME NEW u \in Task, Serial(u) PROVE Standing(u) # "begun"
      OBVIOUS
    <2>1. \A k \in Attempt : ~Alive(u, k)
      BY <1>0, <1>1 DEF ExecInv
    <2> QED
      BY <1>0, <2>1, StandingFacts DEF Ended
  <1>11. Contract!Begin(c)
    BY <1>8, <1>9, <1>10 DEF Contract!Begin
  <1> QED
    BY <1>11 DEF Contract!Next

(* The shells end.                                                         *)
LEMMA ScriptContract ==
  ASSUME Known, UNCHANGED rpcVars, NEW t \in Task, NEW k \in Attempt, Shell(t, k) \/ Command(t, k)
  PROVE  Contract!Next \/ UNCHANGED Contract!vars
  <1>0. /\ IInv /\ IInv' /\ ExecInv /\ MaxTries \in Nat
        /\ tries \in [Task -> 0 .. MaxTries] /\ proc \in [Task -> [Attempt -> ProcStates]]
    BY SwapRootAssumption DEF Known, IInv, TypeOK, DaemonTypeOK
  <1>1. /\ UNCHANGED <<script, tries>> /\ Alive(t, k)
        /\ \E to : proc' = [proc EXCEPT ![t][k] = to]
    BY DEF Shell, Command, ShellStep, CommandEnds, OpenScript, SuFails, StartCommand,
       OpenPidFile, WritePidFile, OpenExitFile, WriteExitFile, Advance, Alive
  <1>2. \A u \in Task : /\ Published(u)' <=> Published(u)
                        /\ Begun(u)' <=> Begun(u)
                        /\ u # t => (Ended(u)' <=> Ended(u))
    BY <1>0, <1>1 DEF Published, Begun, Ended, Alive
  <1>3. Begun(t) /\ ~Ended(t)
    <2>1. tries[t] \in Nat /\ k \in Nat \ {0} /\ ~(k > tries[t])
      BY <1>0, <1>1 DEF ExecInv, Alive, Attempt
    <2> QED
      BY <1>1, <2>1 DEF Begun, Ended
  <1>4. CASE Ended(t)'
    <2>1. Standing(t) = "begun" /\ Standing(t)' = "over"
      BY <1>0, <1>3, <1>4, StandingFacts, StandingFactsPrime
    <2>2. Contract!End(t)
      BY <1>2, <2>1, ContractMoves DEF Contract!End
    <2> QED
      BY <2>2 DEF Contract!Next
  <1>5. CASE ~Ended(t)'
    BY <1>2, <1>3, <1>5, ContractStutters
  <1> QED
    BY <1>4, <1>5

(* The other steps of the container.                                       *)
LEMMA RoundContract ==
  ASSUME Known, UNCHANGED rpcVars,
         \/ RunDaemon /\ ~Exec
         \/ ContainerGone
         \/ UNCHANGED vars
  PROVE  UNCHANGED Contract!vars
  <1>1. UNCHANGED <<tries, proc>>
    BY DEF RunDaemon, DaemonStep, ListStreamIn, ListRun, ListStreamOut, List, Reap, Mv,
       MvFails, NextRound, ContainerGone, vars, daemonVars
  <1>2. \A t \in Task : Published(t)' <=> Published(t)
    <2>1. CASE RunDaemon
      BY <2>1, ContainerFrame DEF Known
    <2>2. CASE ~RunDaemon
      BY <2>2 DEF ContainerGone, vars, swapVars, Published
    <2> QED
      BY <2>1, <2>2
  <1> QED
    BY <1>1, <1>2, ContractStutters DEF Begun, Ended, Alive

-----------------------------------------------------------------------------
(* The answers.                                                            *)

LEMMA VarsKeepStanding ==
  ASSUME UNCHANGED vars
  PROVE  [t \in Task |-> Standing(t)]' = [t \in Task |-> Standing(t)]
  <1>1. \A t \in Task : /\ Published(t)' <=> Published(t)
                        /\ Begun(t)' <=> Begun(t)
                        /\ Ended(t)' <=> Ended(t)
    BY DEF vars, swapVars, daemonVars, Published, Begun, Ended, Alive
  <1> QED
    BY <1>1, StandingKept

LEMMA ItemsAre ==
  ASSUME NEW s \in Session
  PROVE  /\ \A t \in Contract!Items(s) : t \in Task /\ t[2] \in 1 .. Size(s) /\ t = <<s, t[2]>>
         /\ Rpc[s] = "run" => \A t \in Contract!Items(s) : t = <<s, 1>>
         /\ Rpc[s] = "stream_out" =>
              <<s, 2>> \in Task /\ \A t \in Contract!Maker(s) : t = <<s, 2>>
  <1>1. \A t \in Contract!Items(s) : t \in Task /\ t[2] \in 1 .. Size(s) /\ t = <<s, t[2]>>
    BY TaskPair DEF Contract!Items
  <1>2. ASSUME Rpc[s] = "run" PROVE \A t \in Contract!Items(s) : t = <<s, 1>>
    BY <1>1, <1>2, SizeFacts
  <1>3. ASSUME Rpc[s] = "stream_out"
        PROVE  <<s, 2>> \in Task /\ \A t \in Contract!Maker(s) : t = <<s, 2>>
    <2>1. Size(s) = 2
      BY <1>3 DEF Size
    <2>2. <<s, 2>> \in Task /\ <<s, 2>> \in Contract!Items(s)
      BY <2>1, TaskElem DEF Contract!Items
    <2>3. ASSUME NEW t \in Contract!Maker(s) PROVE t = <<s, 2>>
      <3>1. t \in Contract!Items(s) /\ <<s, 2>>[2] <= t[2]
        BY <2>2, <2>3 DEF Contract!Maker
      <3>2. t[2] \in 1 .. 2 /\ t = <<s, t[2]>>
        BY <1>1, <2>1, <3>1
      <3>3. t[2] = 2
        BY <3>1, <3>2
      <3> QED
        BY <3>2, <3>3
    <2> QED
      BY <2>2, <2>3
  <1> QED
    BY <1>1, <1>2, <1>3

(* An answer after the dispatch: ok with every task published, or with     *)
(* none in a StreamIn that found nothing to extract.                       *)
LEMMA AnswerContract ==
  ASSUME Known, NEW s \in Session, Answer(s), UNCHANGED vars
  PROVE  Contract!AnswerOk(s) \/ Contract!AnswerError(s)
  <1>0. IInv /\ RpcInv /\ DoneInv /\ PlanInv /\ Size(s) \in Nat
    BY SizeFacts DEF Known, RpcInv, IInv
  <1>1. /\ [t \in Task |-> Standing(t)]' = [t \in Task |-> Standing(t)]
        /\ UNCHANGED <<polls, got, wait>> /\ Rpc[s] # "stream_out"
    BY VarsKeepStanding DEF Answer
  <1>2. CASE pc[s] # "failed" /\ Rpc[s] # "signal"
    <2>1. pc[s] \in {"sent", "skipped"}
      BY <1>2 DEF Answer, Dispatched, Returning
    <2>2. Contract!Tell(s, "ok")
      BY <1>2 DEF Answer, Tell, Contract!Tell
    <2>3. s \notin Sessions("stream_out")
      BY <1>1 DEF Sessions
    <2>4. CASE pc[s] = "sent"
      <3>1. \A t \in Contract!Items(s) : t \in Task /\ Published(t)
        <4> SUFFICES ASSUME NEW t \in Contract!Items(s) PROVE t \in Task /\ Published(t)
          OBVIOUS
        <4>1. t \in Task /\ t[2] \in 1 .. Size(s) /\ t = <<s, t[2]>>
          BY ItemsAre
        <4>2. t[2] <= sent[s]
          BY <1>0, <2>4, <4>1 DEF DoneInv
        <4>3. Published(<<s, t[2]>>)
          BY <1>0, <4>1, <4>2 DEF PlanInv
        <4> QED
          BY <4>1, <4>3
      <3>2. \A t \in Contract!Items(s) : t \in Task /\ Standing(t) # "todo"
        BY <1>0, <3>1, StandingFacts
      <3> QED
        BY <1>1, <2>2, <2>3, <3>2 DEF Contract!AnswerOk
    <2>5. CASE pc[s] = "skipped"
      <3>1. Rpc[s] = "stream_in" /\ \A i \in 1 .. Size(s) : script[<<s, i>>] = "none"
        BY <1>0, <2>5 DEF DoneInv
      <3>2. \A t \in Contract!Items(s) : t \in Task /\ Standing(t) = "todo"
        BY <1>0, <3>1, ItemsAre, StandingFacts DEF Published
      <3>3. s \in Sessions("stream_in")
        BY <3>1 DEF Sessions
      <3> QED
        BY <1>1, <2>2, <2>3, <3>2, <3>3 DEF Contract!AnswerOk
    <2> QED
      BY <2>1, <2>4, <2>5
  <1>3. CASE ~(pc[s] # "failed" /\ Rpc[s] # "signal")
    <2>1. Contract!Tell(s, "error")
      BY <1>3 DEF Answer, Tell, Contract!Tell
    <2> QED
      BY <1>1, <2>1 DEF Contract!AnswerError
  <1> QED
    BY <1>2, <1>3

(* The last poll is the end of the wait for the archive.                   *)
LEMMA PollContract ==
  ASSUME Known, NEW s \in Session, PollAgain(s), UNCHANGED vars
  PROVE  Contract!Expire(s) \/ UNCHANGED Contract!vars
  <1>1. /\ [t \in Task |-> Standing(t)]' = [t \in Task |-> Standing(t)]
        /\ UNCHANGED <<reply, got, wait>> /\ s \in Sessions("stream_out") /\ reply[s] = "none"
    BY VarsKeepStanding DEF PollAgain, Polling, Sessions
  <1>2. /\ polls \in [Session -> 0 .. MaxPolls] /\ MaxPolls \in Nat
        /\ polls' = [polls EXCEPT ![s] = @ + 1] /\ polls[s] # MaxPolls
    BY MaxPollsAssumption DEF Known, RpcInv, RpcTypeOK, PollAgain
  <1>3. \A r \in Sessions("stream_out") :
          polls'[r] = MaxPolls <=> polls[r] = MaxPolls \/ (r = s /\ polls[s] + 1 = MaxPolls)
    BY <1>2 DEF Sessions
  <1>4. CASE polls[s] + 1 = MaxPolls
    <2>1. {r \in Sessions("stream_out") : polls'[r] = MaxPolls}
            = {r \in Sessions("stream_out") : polls[r] = MaxPolls} \cup {s}
      BY <1>1, <1>3, <1>4
    <2> QED
      BY <1>1, <2>1 DEF Contract!Expire
  <1>5. CASE polls[s] + 1 # MaxPolls
    <2>1. {r \in Sessions("stream_out") : polls'[r] = MaxPolls}
            = {r \in Sessions("stream_out") : polls[r] = MaxPolls}
      BY <1>3, <1>5
    <2> QED
      BY <1>1, <2>1 DEF Contract!vars
  <1> QED
    BY <1>4, <1>5

(* What is sent of an archive is what its maker can have left by then.     *)
LEMMA ArchiveContract ==
  ASSUME Known, "mv" \notin Faults, NEW s \in Session, SendArchive(s), UNCHANGED vars
  PROVE  Contract!Deliver(s)
  <1>0. /\ IInv /\ ExecInv /\ ExitFileFinal /\ tries \in [Task -> 0 .. MaxTries]
        /\ MaxTries \in Nat
    BY SwapRootAssumption DEF Known, IInv, TypeOK, DaemonTypeOK
  <1>1. /\ [t \in Task |-> Standing(t)]' = [t \in Task |-> Standing(t)]
        /\ UNCHANGED <<polls, wait>> /\ Rpc[s] = "stream_out" /\ s \in Sessions("stream_out")
    BY VarsKeepStanding DEF SendArchive, WaitOver, Polling, Sessions
  <1>2. PICK tar \in Task : tar = <<s, 2>> /\ \A t \in Contract!Maker(s) : t = tar
    BY <1>1, ItemsAre
  <1>3. PICK content \in Archive(s) :
          /\ Tell(s, IF content = "absent" THEN "error" ELSE "ok")
          /\ got' = [got EXCEPT ![s] = content]
    BY DEF SendArchive
  <1>4. content \in {"absent", "partial", "failed", "whole"}
    BY ArchiveContents
  <1>5. polls[s] = MaxPolls \/ Standing(tar) = "over"
    <2>1. ASSUME ExitSeen(s) = "written" PROVE Ended(tar)
      BY <1>0, <1>2, <2>1 DEF ExitSeen, ExitFileFinal
    <2> QED
      BY <1>0, <2>1, StandingFacts DEF SendArchive, WaitOver
  <1>6. content # "absent" => Standing(tar) \in {"begun", "over"}
    <2>1. ASSUME content # "absent" PROVE Begun(tar)
      <3>1. \E k \in Attempt : proc[tar][k] # "none"
        BY <1>2, <1>3, <2>1 DEF Archive
      <3>2. \E k \in Attempt : ~(k > tries[tar]) /\ k \in Nat \ {0}
        BY <1>0, <3>1 DEF ExecInv, Attempt
      <3> QED
        BY <1>0, <3>2 DEF Begun
    <2> QED
      BY <1>0, <2>1, StandingFacts
  <1>7. content = "partial" => Standing(tar) = "begun"
    <2>1. ASSUME content = "partial" PROVE ~Ended(tar)
      BY <1>2, <1>3, <2>1 DEF Archive, Ended, Alive
    <2> QED
      BY <1>0, <1>6, <2>1, StandingFacts
  <1>8. Contract!Tell(s, IF content = "absent" THEN "error" ELSE "ok")
    BY <1>3 DEF Tell, Contract!Tell
  <1>9. /\ s \in {r \in Sessions("stream_out") : polls[r] = MaxPolls}
           \/ \A t \in Contract!Maker(s) : t \in Task /\ Standing(t) = "over"
        /\ content # "absent" =>
             \A t \in Contract!Maker(s) : t \in Task /\ Standing(t) \in {"begun", "over"}
        /\ content = "partial" =>
             \A t \in Contract!Maker(s) : t \in Task /\ Standing(t) = "begun"
    BY <1>1, <1>2, <1>5, <1>6, <1>7
  <1> QED
    BY <1>1, <1>3, <1>4, <1>8, <1>9 DEF Contract!Deliver

(* A wait for a process.                                                   *)
LEMMA WaitContract ==
  ASSUME Known, "mv" \notin Faults, NEW s \in Session, UNCHANGED vars,
         PollExit(s) \/ StartWait(s) \/ ClientLeaves(s)
  PROVE  Contract!Next
  <1>0. IInv /\ ExitFileFinal /\ RpcInv
    BY DEF Known
  <1>1. /\ [t \in Task |-> Standing(t)]' = [t \in Task |-> Standing(t)]
        /\ UNCHANGED <<reply, polls, got>>
    BY VarsKeepStanding DEF PollExit, StartWait, ClientLeaves
  <1>2. Rpc[s] = "run" /\ s \in Sessions("run")
    <2>1. wait[s] # "none" => Rpc[s] = "run"
      BY <1>0 DEF RpcInv, AnswerInv
    <2> QED
      BY <2>1 DEF PollExit, StartWait, ClientLeaves, Sessions
  <1> USE DEF Contract!Waiting
  <1>3. CASE PollExit(s)
    <2>1. CASE exitFile[<<s, 1>>] = "written"
      <3>1. <<s, 1>> \in Task /\ Ended(<<s, 1>>)
        BY <1>0, <1>2, <2>1, FirstTask DEF ExitFileFinal
      <3>2. \A t \in Contract!Items(s) : t \in Task /\ Standing(t) = "over"
        BY <1>0, <1>2, <3>1, ItemsAre, StandingFacts
      <3>3. Contract!Exit(s)
        BY <1>1, <1>2, <1>3, <2>1, <3>2 DEF PollExit, Contract!Exit
      <3> QED
        BY <3>3 DEF Contract!Next
    <2>2. CASE exitFile[<<s, 1>>] # "written"
      BY <1>1, <1>2, <1>3, <2>2 DEF PollExit, Contract!BreakOff, Contract!Next
    <2> QED
      BY <2>1, <2>2
  <1>4. CASE StartWait(s)
    BY <1>1, <1>2, <1>4 DEF StartWait, Contract!StartWait, Contract!Next
  <1>5. CASE ClientLeaves(s)
    BY <1>1, <1>2, <1>5 DEF ClientLeaves, Contract!BreakOff, Contract!Next
  <1> QED
    BY <1>3, <1>4, <1>5

(* The handlers and clients.                                               *)
LEMMA HandlerContract ==
  ASSUME Known, "mv" \notin Faults, NEW s \in Session, Handler(s) \/ Client(s) \/ BreakOff(s)
  PROVE  Contract!Next \/ UNCHANGED Contract!vars
  <1>1. UNCHANGED vars
    BY DEF Handler, Client, BreakOff
  <1>2. [t \in Task |-> Standing(t)]' = [t \in Task |-> Standing(t)]
    BY <1>1, VarsKeepStanding
  <1>3. CASE Answer(s)
    BY <1>1, <1>3, AnswerContract DEF Contract!Next
  <1>4. CASE PollAgain(s)
    BY <1>1, <1>4, PollContract DEF Contract!Next
  <1>5. CASE PollFails(s) \/ (BreakOff(s) /\ Tell(s, "error") /\ UNCHANGED wait)
    <2>1. Tell(s, "error") /\ UNCHANGED <<polls, got, wait>>
      BY <1>5 DEF PollFails, BreakOff
    <2>2. Contract!AnswerError(s)
      BY <1>2, <2>1 DEF Contract!AnswerError, Contract!Tell, Tell
    <2> QED
      BY <2>2 DEF Contract!Next
  <1>6. CASE SendArchive(s)
    BY <1>1, <1>6, ArchiveContract DEF Contract!Next
  <1>7. CASE PollExit(s) \/ StartWait(s) \/ ClientLeaves(s)
    BY <1>1, <1>7, WaitContract
  <1>8. CASE BreakOff(s) /\ wait[s] = "polling" /\ wait' = [wait EXCEPT ![s] = "failed"]
                         /\ UNCHANGED reply
    <2>1. s \in Sessions("run")
      BY <1>8 DEF Known, RpcInv, AnswerInv, Sessions
    <2>2. Contract!BreakOff(s)
      BY <1>2, <1>8, <2>1 DEF BreakOff, Contract!BreakOff, Contract!Waiting
    <2> QED
      BY <2>2 DEF Contract!Next
  <1> QED
    BY <1>3, <1>4, <1>5, <1>6, <1>7, <1>8 DEF Handler, Client, BreakOff

-----------------------------------------------------------------------------
LEMMA ContractStep ==
  ASSUME Known, "mv" \notin Faults, [RpcNext]_<<vars, rpcVars>>
  PROVE  Contract!Next \/ UNCHANGED Contract!vars
  <1>1. CASE Next /\ UNCHANGED rpcVars
    BY <1>1, HostContract, ExecContract, ScriptContract, RoundContract DEF Next
  <1>2. CASE \E s \in Session : Handler(s) \/ Client(s) \/ BreakOff(s)
    BY <1>2, HandlerContract
  <1>3. CASE UNCHANGED <<vars, rpcVars>>
    BY <1>3, RoundContract
  <1> QED
    BY <1>1, <1>2, <1>3 DEF RpcNext

(* As long as no mv fails, handlers, daemon and shells keep the contract.  *)
THEOREM KeepsContract ==
  ASSUME "mv" \notin Faults
  PROVE  RpcSpec => ImplementsContract
  <1>1. RpcInit => Contract!Init
    <2> SUFFICES ASSUME RpcInit PROVE Contract!Init
      OBVIOUS
    <2>1. \A t \in Task : ~Published(t)
      BY DEF RpcInit, Init, SwapInit, Published
    <2>2. \A t \in Task : Standing(t) = "todo"
      BY <2>1, InitIInv, StandingFacts DEF RpcInit
    <2>3. {s \in Sessions("stream_out") : polls[s] = MaxPolls} = {}
      BY MaxPollsAssumption DEF RpcInit, Sessions
    <2> QED
      BY <2>2, <2>3 DEF Contract!Init, RpcInit
  <1>2. Known /\ [RpcNext]_<<vars, rpcVars>> => [Contract!Next]_(Contract!vars)
    BY ContractStep
  <1>3. RpcSpec => []InOrder
    BY SpecOfSpool, TasksInOrder
  <1>4. RpcSpec => [][Known]_<<vars, rpcVars>>
    BY <1>3, RpcInvariance, PTL DEF Known
  <1> QED
    BY <1>1, <1>2, <1>3, RpcInvariance, PTL
    DEF RpcSpec, ImplementsContract, Contract!Spec, Known
=============================================================================
