-------------------------- MODULE ContainerContract --------------------------
(***************************************************************************)
(* What the clients of one container may rely on, with no share, scripts,  *)
(* clock, polls or daemon.  A caller posts the items of its RPC and is     *)
(* answered; the items are done behind its back: each begins when those    *)
(* before it in the list of its caller are over, and the exclusive ones    *)
(* one at a time.  A caller that is told ok can rely on its items to be    *)
(* posted, one that is sent an archive on the item that makes it to have   *)
(* begun, and to be over unless the wait for it has expired; one that is   *)
(* told of an exit on the process to be over.                              *)
(***************************************************************************)
EXTENDS Naturals

CONSTANTS
  Caller,     \* the RPCs
  Item,       \* a set of pairs <<caller, position>>
  Exclusive,  \* the items that exclude each other
  Optional,   \* the callers that may be told ok with nothing posted
  Reader,     \* the callers that are sent an archive
  Process     \* the callers whose item is a process that can be waited for

VARIABLES
  stage,    \* stage[t]: what has become of item t
  reply,    \* reply[c]: what caller c is told
  expired,  \* the readers that will not wait any longer
  got,      \* got[c]: the archive that c was sent
  wait      \* wait[c]: the wait for the process of c

vars == <<stage, reply, expired, got, wait>>

Before(t) == {u \in Item : u[1] = t[1] /\ u[2] < t[2]}
Items(c)  == {t \in Item : t[1] = c}

(* The last item of a reader makes its archive.                            *)
Maker(c) == {t \in Items(c) : \A u \in Items(c) : u[2] <= t[2]}

Init ==
  /\ stage = [t \in Item |-> "todo"]
  /\ reply = [c \in Caller |-> "none"]
  /\ expired = {}
  /\ got = [c \in Caller |-> "none"]
  /\ wait = [c \in Caller |-> "none"]

-----------------------------------------------------------------------------
Move(t, from, to) ==
  /\ stage[t] = from
  /\ stage' = [stage EXCEPT ![t] = to]
  /\ UNCHANGED <<reply, expired, got, wait>>

(* Nothing is posted for a caller that has been answered.                  *)
Post(t) ==
  /\ Move(t, "todo", "posted")
  /\ reply[t[1]] = "none"
  /\ \A u \in Before(t) : stage[u] # "todo"

Begin(t) ==
  /\ Move(t, "posted", "begun")
  /\ \A u \in Before(t) : stage[u] = "over"
  /\ t \in Exclusive => \A u \in Exclusive : stage[u] # "begun"

End(t) == Move(t, "begun", "over")

-----------------------------------------------------------------------------
Tell(c, answer) ==
  /\ reply[c] = "none"
  /\ reply' = [reply EXCEPT ![c] = answer]

(* Any caller may be told of an error, whatever has been posted.           *)
AnswerError(c) == Tell(c, "error") /\ UNCHANGED <<stage, expired, got, wait>>

AnswerOk(c) ==
  /\ c \notin Reader
  /\ Tell(c, "ok")
  /\ \/ \A t \in Items(c) : stage[t] # "todo"
     \/ c \in Optional /\ \A t \in Items(c) : stage[t] = "todo"
  /\ UNCHANGED <<stage, expired, got, wait>>

Expire(c) ==
  /\ c \in Reader /\ reply[c] = "none"
  /\ expired' = expired \cup {c}
  /\ UNCHANGED <<stage, reply, got, wait>>

(* partial: part of what the archive will be; failed: what an archiver     *)
(* that ended with an error has left.                                      *)
Deliver(c) ==
  /\ c \in Reader
  /\ \E content \in {"absent", "partial", "failed", "whole"} :
       /\ Tell(c, IF content = "absent" THEN "error" ELSE "ok")
       /\ got' = [got EXCEPT ![c] = content]
       /\ content # "absent" => \A t \in Maker(c) : stage[t] \in {"begun", "over"}
       /\ content = "partial" => \A t \in Maker(c) : stage[t] = "begun"
  /\ c \in expired \/ \A t \in Maker(c) : stage[t] = "over"
  /\ UNCHANGED <<stage, expired, wait>>

-----------------------------------------------------------------------------
Waiting(c, from, to) ==
  /\ c \in Process /\ wait[c] = from
  /\ wait' = [wait EXCEPT ![c] = to]
  /\ UNCHANGED <<stage, reply, expired, got>>

StartWait(c) == Waiting(c, "none", "polling") /\ reply[c] = "ok"

Exit(c) == Waiting(c, "polling", "exited") /\ \A t \in Items(c) : stage[t] = "over"

BreakOff(c) == Waiting(c, "polling", "failed") \/ Waiting(c, "polling", "left")

Next ==
  \/ \E t \in Item : Post(t) \/ Begin(t) \/ End(t)
  \/ \E c \in Caller :
       \/ AnswerError(c) \/ AnswerOk(c) \/ Expire(c) \/ Deliver(c)
       \/ StartWait(c) \/ Exit(c) \/ BreakOff(c)

Spec == Init /\ [][Next]_vars
=============================================================================
