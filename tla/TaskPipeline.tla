---------------------------- MODULE TaskPipeline ----------------------------
(***************************************************************************)
(* What the interop layer promises the handlers that dispatch through it,  *)
(* with no share, files, clock or daemon: every caller posts a list of     *)
(* items; an item begins when all items before it in its list are done,    *)
(* and the exclusive items (those that move files) begin one at a time.    *)
(* An item is the pair <<caller, position>>.                               *)
(***************************************************************************)
EXTENDS Naturals

CONSTANTS
  Item,       \* a set of pairs <<caller, position>>
  Exclusive   \* the items that exclude each other

VARIABLE stage

Before(t) == {u \in Item : u[1] = t[1] /\ u[2] < t[2]}

Init == stage = [t \in Item |-> "todo"]

Move(t, from, to) == stage[t] = from /\ stage' = [stage EXCEPT ![t] = to]

(* A caller posts its items in the order of its list.                      *)
Post(t) ==
  /\ \A u \in Before(t) : stage[u] # "todo"
  /\ Move(t, "todo", "posted")

Begin(t) ==
  /\ \A u \in Before(t) : stage[u] = "done"
  /\ t \in Exclusive => \A u \in Exclusive : stage[u] # "begun"
  /\ Move(t, "posted", "begun")

Finish(t) == Move(t, "begun", "done")

(* An item may have to be begun again.                                     *)
Retry(t) == Move(t, "begun", "posted")

Next == \E t \in Item : Post(t) \/ Begin(t) \/ Finish(t) \/ Retry(t)

Spec == Init /\ [][Next]_stage
=============================================================================
