----------------------------- MODULE GrpcServer -----------------------------
(***************************************************************************)
(* The server process: main starts the gRPC server and, when it is ready,  *)
(* the registration with consul; a signal stops them in the reverse order, *)
(* and the server waits for the RPCs it has accepted.  The end of Serve,   *)
(* or of the process, may come at any time.  The handlers are those of     *)
(* ShareMounts.                                                            *)
(*                                                                         *)
(* grpc, ifrit and locket are external: GracefulStop refuses new RPCs and  *)
(* returns when none is at work; an ordered group starts a member when the *)
(* one before is ready, stops its members last one first, and stops the    *)
(* others when one ends.  That the process is started again, after it has  *)
(* ended, is up to its supervisor.                                         *)
(***************************************************************************)
EXTENDS ShareMounts

CONSTANTS
  Registers,    \* EnableConsulServiceRegistration
  ProcessFaults \* a subset of {"listen", "serve", "crash"}

ASSUME GrpcServerAssumption ==
  /\ Registers \in BOOLEAN
  /\ ProcessFaults \subseteq {"listen", "serve", "crash"}

VARIABLES
  server,     \* "off", "serving", "draining", "exited": the server runner
  acceptor,   \* the goroutine of Serve: "none", "running", "sending" (its
              \* error to errCh), "received"
  registered, \* consul sends clients to this server
  signalled,  \* the group was told to stop
  status,     \* exit status of the process: "none", "ok", "error", "crashed"
  crashed     \* history: the process has once ended in the midst of its work

serverVars == <<server, acceptor, registered, signalled, status, crashed>>

vars == <<mountVars, serverVars>>

Init ==
  /\ MountInit
  /\ server = "off" /\ acceptor = "none" /\ status = "none"
  /\ registered = FALSE /\ signalled = FALSE /\ crashed = FALSE

-----------------------------------------------------------------------------
Listen ==
  /\ server = "off"
  /\ server' = "serving" /\ acceptor' = "running"
  /\ UNCHANGED <<mountVars, registered, signalled, status, crashed>>

ListenFails ==
  /\ server = "off" /\ "listen" \in ProcessFaults
  /\ server' = "exited"
  /\ UNCHANGED <<mountVars, acceptor, registered, signalled, status, crashed>>

(* Faulty: the registration is the first member of the group, which is     *)
(* ready, then, before the server listens.                                 *)
RegisterFirst ==
  /\ Registers /\ ~registered /\ ~signalled
  /\ server \in {"off", "serving"}
  /\ registered' = TRUE
  /\ UNCHANGED <<mountVars, server, acceptor, signalled, status, crashed>>

(* The second member of the group, started when the server is ready.       *)
Register ==
  /\ Registers /\ ~registered /\ ~signalled
  /\ server = "serving"
  /\ registered' = TRUE
  /\ UNCHANGED <<mountVars, server, acceptor, signalled, status, crashed>>

Signal ==
  /\ server = "serving" /\ ~signalled
  /\ signalled' = TRUE
  /\ UNCHANGED <<mountVars, server, acceptor, registered, status, crashed>>

(* The registration is stopped first, on a signal or when the server ends. *)
Deregister ==
  /\ registered /\ (signalled \/ server = "exited")
  /\ registered' = FALSE
  /\ UNCHANGED <<mountVars, server, acceptor, signalled, status, crashed>>

(* The select of Run: the signal that the group passes on, or the error of *)
(* Serve.  GracefulStop ends Serve, with an error that nobody receives.    *)
StopOnSignal ==
  /\ server = "serving" /\ signalled /\ ~registered
  /\ server' = "draining"
  /\ acceptor' = "sending"
  /\ UNCHANGED <<mountVars, registered, signalled, status, crashed>>

ServeFails ==
  /\ "serve" \in ProcessFaults
  /\ server = "serving" /\ acceptor = "running"
  /\ acceptor' = "sending"
  /\ UNCHANGED <<mountVars, server, registered, signalled, status, crashed>>

StopOnError ==
  /\ server = "serving" /\ acceptor = "sending"
  /\ server' = "draining"
  /\ acceptor' = "received"
  /\ UNCHANGED <<mountVars, registered, signalled, status, crashed>>

Accept(c) ==
  /\ server = "serving" /\ Begin(c)
  /\ UNCHANGED serverVars

Handle(c) ==
  /\ server \in {"serving", "draining"} /\ MountSteps(c)
  /\ UNCHANGED serverVars

(* What was asked of the storage service outlives the process.             *)
StoreTakesLate(c) == DeletedLate(c) /\ UNCHANGED serverVars

(* Faulty: the runner also waits for the goroutine of Serve to end.        *)
StoppedWithAcceptor ==
  /\ server = "draining" /\ Working = {} /\ acceptor = "received"
  /\ server' = "exited"
  /\ UNCHANGED <<mountVars, acceptor, registered, signalled, status, crashed>>

(* Faulty: Stop in the place of GracefulStop.                              *)
StoppedAtOnce ==
  /\ server = "draining"
  /\ server' = "exited"
  /\ UNCHANGED <<mountVars, acceptor, registered, signalled, status, crashed>>

(* GracefulStop returns.                                                   *)
Stopped ==
  /\ server = "draining" /\ Working = {}
  /\ server' = "exited"
  /\ UNCHANGED <<mountVars, acceptor, registered, signalled, status, crashed>>

(* main: status 1 when the group has ended with an error.                  *)
Exit ==
  /\ server = "exited" /\ ~registered /\ status = "none"
  /\ status' = IF acceptor \in {"none", "received"} THEN "error" ELSE "ok"
  /\ UNCHANGED <<mountVars, server, acceptor, registered, signalled, crashed>>

(* A panic of a handler, or a kill: the process ends between any two       *)
(* steps.  Mounts and directories stay, requests that were sent may land.  *)
Crash ==
  /\ "crash" \in ProcessFaults /\ server \in {"serving", "draining"}
  /\ server' = "exited" /\ status' = "crashed" /\ crashed' = TRUE
  /\ flying' = flying \cup {c \in Call : pc[c] = "delete"}
  /\ pc' = [c \in Call |-> IF c \in Working THEN "done" ELSE pc[c]]
  /\ answer' = [c \in Call |-> IF c \in Working THEN "broken" ELSE answer[c]]
  /\ failed' = [c \in Call |-> IF c \in Working THEN failed[c] \cup {"crash"} ELSE failed[c]]
  /\ files' = {}
  /\ UNCHANGED <<share, dirs, mounts, on, stored, unsettled, acceptor, registered, signalled>>

(* The TTL of a registration that nobody renews.                           *)
Expire ==
  /\ registered /\ status # "none"
  /\ registered' = FALSE
  /\ UNCHANGED <<mountVars, server, acceptor, signalled, status, crashed>>

(* The supervisor starts the process again; nothing is cleaned up.         *)
Restart ==
  /\ status # "none"
  /\ server' = "off" /\ acceptor' = "none" /\ status' = "none"
  /\ signalled' = FALSE
  /\ UNCHANGED <<mountVars, registered, crashed>>

Process ==
  \/ Listen \/ ListenFails \/ Register \/ Signal \/ Deregister
  \/ StopOnSignal \/ ServeFails \/ StopOnError \/ Stopped \/ Exit
  \/ Crash \/ Expire \/ Restart

Next == Process \/ \E c \in Call : Accept(c) \/ Handle(c) \/ StoreTakesLate(c)

(* What the RPC does here ends when its client, or its process, lets it:   *)
(* StreamIn receives before Open and after it, StreamOut sends, Wait polls.*)
Held(c) ==
  \/ pc[c] = "receive"
  \/ pc[c] = "work" /\ Kind[c] \in {"StreamIn", "StreamOut", "Wait"}

(* Goroutines are scheduled and external requests return; nobody has to    *)
(* call, to signal, to restart, or to let a Held handler go on.            *)
Fairness ==
  /\ WF_vars(Deregister) /\ WF_vars(StopOnSignal) /\ WF_vars(StopOnError)
  /\ WF_vars(Stopped) /\ WF_vars(Exit)
  /\ \A c \in Call : WF_vars(Handle(c) /\ ~Held(c))

Spec == Init /\ [][Next]_vars /\ Fairness

-----------------------------------------------------------------------------
TypeOK ==
  /\ MountTypeOK
  /\ server \in {"off", "serving", "draining", "exited"}
  /\ acceptor \in {"none", "running", "sending", "received"}
  /\ status \in {"none", "ok", "error", "crashed"}
  /\ registered \in BOOLEAN /\ signalled \in BOOLEAN /\ crashed \in BOOLEAN
  /\ Working # {} => server \in {"serving", "draining"}

(* A stop, on a signal or because Serve has failed, cuts no RPC off: when  *)
(* main exits every handler has returned its answer and run its deferred   *)
(* calls.                                                                  *)
StopCutsNothing ==
  ~crashed =>
    /\ status # "none" => Working = {}
    /\ \A c \in Call : answer[c] # "broken"

(* consul sends nobody to a server that is not listening yet, or that a    *)
(* signal has made refuse RPCs; only when Serve itself has failed may the  *)
(* registration last until the group stops it.                             *)
RegisteredIsServed ==
  registered /\ ~crashed => server = "serving" \/ acceptor = "received"

(* A signal ends the process, unless an RPC is held by its client or its   *)
(* process; no handler waits for another and none for the acceptor.        *)
SignalEnds == signalled ~> (status # "none" \/ \E c \in Call : Held(c))
=============================================================================
