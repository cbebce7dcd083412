---------------------------- MODULE DaemonRounds ----------------------------
(***************************************************************************)
(* The daemon as a server of three queues that clients fill for ever.      *)
(* Daemon.tla has its steps, and a finite set of tasks; here the tasks     *)
(* never end: an item is a name for a task that waits, and a name can come *)
(* back when its task is done.  The daemon looks at stream_in, run and     *)
(* stream_out in this order, takes the oldest task of the first folder     *)
(* that has one, and starts over.                                          *)
(***************************************************************************)
EXTENDS Naturals, FiniteSets

CONSTANTS
  Item,  \* names of waiting tasks
  Free,  \* the daemon has no task in hand
  Away   \* the folder of a name that is not in use

Folder == {"stream_in", "run", "stream_out"}

ASSUME DaemonRoundsAssumption == Free \notin Item /\ Away \notin Folder

VARIABLES
  folder,  \* folder[i]: where i waits as *.sh
  ahead,   \* ahead[i]: how many of its folder are older than i
  at,      \* the folder the daemon looks at next
  hand     \* the task that it executes

vars == <<folder, ahead, at, hand>>

(* The order in which a round looks at the folders.                        *)
After(f) ==
  CASE f = "stream_in"  -> "run"
    [] f = "run"        -> "stream_out"
    [] f = "stream_out" -> "stream_in"

Above(f) ==
  CASE f = "stream_in"  -> {}
    [] f = "run"        -> {"stream_in"}
    [] f = "stream_out" -> {"stream_in", "run"}

In(f) == {i \in Item : folder[i] = f}

Init ==
  /\ folder = [i \in Item |-> Away]
  /\ ahead = [i \in Item |-> 0]
  /\ at = "stream_in"
  /\ hand = Free

-----------------------------------------------------------------------------
(* A handler publishes a script.                                           *)
Arrive(i, f) ==
  /\ folder[i] = Away
  /\ folder' = [folder EXCEPT ![i] = f]
  /\ ahead' = [ahead EXCEPT ![i] = Cardinality(In(f))]
  /\ UNCHANGED <<at, hand>>

PassOver ==
  /\ hand = Free /\ In(at) = {}
  /\ at' = After(at)
  /\ UNCHANGED <<folder, ahead, hand>>

(* Faulty: the newest task.                                                *)
TakeNewest ==
  /\ hand = Free
  /\ \E i \in In(at) : ahead[i] + 1 = Cardinality(In(at)) /\ hand' = i
  /\ at' = "stream_in"
  /\ UNCHANGED <<folder, ahead>>

(* Faulty: the daemon stays with a folder while it has scripts there.      *)
TakeAndStay ==
  /\ hand = Free
  /\ \E i \in In(at) : ahead[i] = 0 /\ hand' = i
  /\ UNCHANGED <<folder, ahead, at>>

Take ==
  /\ hand = Free
  /\ \E i \in In(at) : ahead[i] = 0 /\ hand' = i
  /\ at' = "stream_in"
  /\ UNCHANGED <<folder, ahead>>

(* The script is over, or in the background, and gets its new name.        *)
Finish ==
  /\ hand # Free
  /\ folder' = [folder EXCEPT ![hand] = Away]
  /\ ahead' = [i \in Item |->
                 IF folder[i] = folder[hand] /\ i # hand THEN ahead[i] - 1 ELSE ahead[i]]
  /\ hand' = Free
  /\ UNCHANGED at

(* It does not get it: the mv has failed.                                  *)
FinishInVain ==
  /\ hand # Free
  /\ hand' = Free
  /\ UNCHANGED <<folder, ahead, at>>

Daemon == PassOver \/ Take \/ Finish \/ FinishInVain

Next == Daemon \/ \E i \in Item, f \in Folder : Arrive(i, f)

Spec == Init /\ [][Next]_vars

(* The container lives, the daemon is scheduled and what it waits for ends *)
(* (tar, mkdir, kill); tasks arrive as they please.                        *)
FairSpec == Spec /\ WF_vars(Daemon)

-----------------------------------------------------------------------------
(* A folder is a queue without gaps, and the task in hand is its oldest.   *)
RoundsTypeOK ==
  /\ folder \in [Item -> Folder \cup {Away}]
  /\ at \in Folder /\ hand \in Item \cup {Free}
  /\ \A f \in Folder : {ahead[i] : i \in In(f)} = 0 .. Cardinality(In(f)) - 1
  /\ hand # Free => folder[hand] # Away /\ ahead[hand] = 0

(* A task is taken up, however many others arrive in its own folder and in *)
(* those below, unless a task of a folder above is taken up again and      *)
(* again, or an mv fails again and again.  More does not hold: the daemon  *)
(* starts over after every task, and StreamIns that keep coming keep every *)
(* run and stream_out task waiting.                                        *)
ServedUnlessOvertaken ==
  \A f \in Folder :
    \/ []<>(\E g \in Above(f) : hand \in In(g))
    \/ []<><<FinishInVain>>_vars
    \/ \A i \in Item : i \in In(f) ~> hand = i
=============================================================================
