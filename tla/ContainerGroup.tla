--------------------------- MODULE ContainerGroup ---------------------------
(***************************************************************************)
(* The container group of one handle as ACI keeps it, and the RPCs that    *)
(* work on it: Create, Destroy, Lookup and Containers of the garden        *)
(* service, SetProperty, RemoveProperty, Property, Properties and Info of  *)
(* the container service.  The properties of a container are the tags of   *)
(* its group.  ACI offers no way to change one tag: a handler reads them   *)
(* all, changes its copy and writes all of them back.                      *)
(*                                                                         *)
(* ACI itself is external: a read, a replacement of all tags, a creation   *)
(* and a deletion each take effect at once; a request that was answered    *)
(* with an error, or whose sender is gone, may still take effect later.    *)
(***************************************************************************)
EXTENDS Naturals

CONSTANTS
  Call,     \* the RPCs, each one handler invocation
  Key,      \* names of properties
  Value,    \* values of properties
  Blank,    \* the empty string: what Go reads from a map without the key
  Request,  \* the requests that clients may send
  Faults    \* the failures that may happen, see FaultKind

(* Partial functions from keys to values.                                  *)
TagMap == UNION {[D -> Value] : D \in SUBSET Key}

NoTags == [k \in {} |-> Blank]

(* create: the tags of the spec; containers: the tags to match.            *)
AnyRequest ==
  [kind : {"set"}, key : Key, value : Value]
    \cup [kind : {"remove", "property"}, key : Key]
    \cup [kind : {"create", "containers"}, tags : TagMap]
    \cup [kind : {"destroy", "lookup", "properties", "info"}]

(* api: an ACI request, or what precedes it in a handler, fails; nil_map:  *)
(* the answer of ACI about a group without tags has no tags field, and     *)
(* decodes to a nil map.                                                   *)
FaultKind == {"api", "nil_map"}

ASSUME ContainerGroupAssumption ==
  Request \subseteq AnyRequest /\ Faults \subseteq FaultKind

VARIABLES
  here,    \* the container group exists
  tags,    \* its tags, NoTags when it does not exist
  pc,      \* pc[c]: the step that the handler of c takes next
  req,     \* req[c]: what c asks for, when it has begun
  copy,    \* copy[c]: the tags that c has read
  reply,   \* reply[c]: what the client of c is told
  flying,  \* calls that have ended but whose request may still take effect
  prior    \* history, prior[c]: calls that had ended, with nothing left in
           \* flight, when c began

groupVars == <<here, tags, pc, req, copy, reply, flying, prior>>

Begun(c) == pc[c] # "idle"

Kind(c) == req[c].kind

Writer(c) == Begun(c) /\ Kind(c) \in {"set", "remove", "create", "destroy"}

(* containerGroup.Tags[key].                                               *)
At(map, k) == IF k \in DOMAIN map THEN map[k] ELSE Blank

With(map, k, v) == [j \in DOMAIN map \cup {k} |-> IF j = k THEN v ELSE map[j]]

Without(map, k) == [j \in DOMAIN map \ {k} |-> map[j]]

Init ==
  /\ here \in BOOLEAN
  /\ tags \in IF here THEN TagMap ELSE {NoTags}
  /\ pc = [c \in Call |-> "idle"]
  /\ req = [c \in Call |-> [kind |-> "none"]]
  /\ copy = [c \in Call |-> NoTags]
  /\ reply = [c \in Call |-> "none"]
  /\ flying = {}
  /\ prior = [c \in Call |-> {}]

-----------------------------------------------------------------------------
Entry(r) ==
  CASE r.kind = "create"                     -> "put"
    [] r.kind = "destroy"                    -> "delete"
    [] r.kind \in {"lookup", "containers"}   -> "list"
    [] OTHER                                 -> "get"

(* "none" stays only while the handler is at work; "refused" is an error   *)
(* before anything was sent to change the group.                           *)
Ended == {"ok", "not_found", "refused"}

Begin(c) ==
  /\ pc[c] = "idle"
  /\ \E r \in Request :
       /\ req' = [req EXCEPT ![c] = r]
       /\ pc' = [pc EXCEPT ![c] = Entry(r)]
  /\ prior' = [prior EXCEPT ![c] = {d \in Call : reply[d] \in Ended}]
  /\ UNCHANGED <<here, tags, copy, reply, flying>>

Return(c, at, answer) ==
  /\ pc[c] = at
  /\ pc' = [pc EXCEPT ![c] = "done"]
  /\ reply' = [reply EXCEPT ![c] = answer]
  /\ UNCHANGED <<req, prior>>

(* No container id in the context, no client, the share cannot be opened   *)
(* or prepared, or the read fails; a group that is gone cannot be read.    *)
Refuse(c) ==
  /\ "api" \in Faults \/ (pc[c] = "get" /\ ~here)
  /\ \E at \in {"get", "list", "put", "delete"} : Return(c, at, "refused")
  /\ UNCHANGED <<here, tags, copy, flying>>

(* Property, Properties and Info answer from the group they have read.     *)
ReadTags(c) ==
  /\ here /\ Kind(c) \in {"property", "properties", "info"}
  /\ Return(c, "get", "ok")
  /\ copy' = [copy EXCEPT ![c] = tags]
  /\ UNCHANGED <<here, tags, flying>>

(* Faulty: one matching property is enough.                                *)
MatchesAny(map, filter) == \E k \in DOMAIN filter : At(map, k) = filter[k]

(* Containers: every given property has the given value.                   *)
Matches(map, filter) == \A k \in DOMAIN filter : At(map, k) = filter[k]

Found(c) == here /\ (Kind(c) = "containers" => Matches(tags, req[c].tags))

(* Lookup and Containers search the list of all groups.                    *)
SearchGroups(c) ==
  /\ Return(c, "list", IF Found(c) THEN "ok" ELSE "not_found")
  /\ copy' = [copy EXCEPT ![c] = tags]
  /\ UNCHANGED <<here, tags, flying>>

-----------------------------------------------------------------------------
(* SetProperty and RemoveProperty, first half.                             *)
GetForUpdate(c) ==
  /\ here /\ Kind(c) \in {"set", "remove"}
  /\ pc[c] = "get"
  /\ pc' = [pc EXCEPT ![c] = "update"]
  /\ copy' = [copy EXCEPT ![c] = tags]
  /\ UNCHANGED <<here, tags, req, reply, flying, prior>>

(* SetProperty assigns to a nil map: the server process ends and with it   *)
(* every handler.  What they have sent may still arrive.                   *)
Panic(c) ==
  /\ "nil_map" \in Faults
  /\ here /\ tags = NoTags /\ Kind(c) = "set" /\ pc[c] = "get"
  /\ reply' = [d \in Call |-> CASE d = c -> "panicked"
                                [] d # c /\ pc[d] \notin {"idle", "done"} -> "broken"
                                [] OTHER -> reply[d]]
  /\ pc' = [d \in Call |-> IF Begun(d) THEN "done" ELSE "idle"]
  /\ flying' = flying \cup {d \in Call : pc[d] \in {"update", "put", "delete"}}
  /\ copy' = [copy EXCEPT ![c] = tags]
  /\ UNCHANGED <<here, tags, req, prior>>

(* Faulty: RemoveProperty forgets to change its copy.                      *)
ChangedBySet(c) ==
  IF Kind(c) = "set" THEN With(copy[c], req[c].key, req[c].value) ELSE copy[c]

(* Faulty: SetProperty writes the one property that it was given.          *)
ChangedOnly(c) ==
  IF Kind(c) = "set" THEN With(NoTags, req[c].key, req[c].value)
                     ELSE Without(copy[c], req[c].key)

(* The handler's copy with its one change: all that is written back.       *)
Changed(c) ==
  IF Kind(c) = "set" THEN With(copy[c], req[c].key, req[c].value)
                     ELSE Without(copy[c], req[c].key)

(* Faulty: an update of a group that is gone brings its tags back.         *)
TakesAnyway(c) ==
  \/ Kind(c) = "create"  /\ here' = TRUE  /\ tags' = req[c].tags
  \/ Kind(c) = "destroy" /\ here' = FALSE /\ tags' = NoTags
  \/ Kind(c) \in {"set", "remove"} /\ tags' = Changed(c) /\ UNCHANGED here

(* A write request of c takes effect.                                      *)
Takes(c) ==
  \/ Kind(c) = "create"  /\ here' = TRUE  /\ tags' = req[c].tags
  \/ Kind(c) = "destroy" /\ here' = FALSE /\ tags' = NoTags
  \/ /\ Kind(c) \in {"set", "remove"}
     /\ tags' = IF here THEN Changed(c) ELSE tags
     /\ UNCHANGED here

(* SetProperty and RemoveProperty, second half: the tags are replaced.     *)
UpdateTags(c) ==
  /\ Return(c, "update", IF here THEN "ok" ELSE "refused")
  /\ Takes(c)
  /\ UNCHANGED <<copy, flying>>

(* Destroy deletes the group; deleting one that is gone is no error.       *)
DeleteGroup(c) == Return(c, "delete", "ok") /\ Takes(c) /\ UNCHANGED <<copy, flying>>

(* Create makes the group, or replaces it, before it dispatches the bind   *)
(* mounts ...                                                              *)
PutGroup(c) ==
  /\ pc[c] = "put" /\ Takes(c)
  /\ pc' = [pc EXCEPT ![c] = "mounts"]
  /\ UNCHANGED <<req, copy, reply, flying, prior>>

(* ... and answers with an error when one of those fails: the group stays. *)
CreateReturns(c) ==
  /\ \E answer \in {"ok"} \cup (IF "api" \in Faults THEN {"failed"} ELSE {}) :
       Return(c, "mounts", answer)
  /\ UNCHANGED <<here, tags, copy, flying>>

(* Faulty: the error of a request is dropped.                              *)
WriteFailsSilently(c) ==
  /\ "api" \in Faults
  /\ \E at \in {"update", "put", "delete"} : Return(c, at, "ok")
  /\ flying' = flying \cup {c}
  /\ UNCHANGED <<here, tags, copy>>

(* An error is all that is known of the request.                           *)
WriteFails(c) ==
  /\ "api" \in Faults
  /\ \E at \in {"update", "put", "delete"} : Return(c, at, "failed")
  /\ flying' = flying \cup {c}
  /\ UNCHANGED <<here, tags, copy>>

TakesLate(c) ==
  /\ c \in flying /\ Takes(c)
  /\ flying' = flying \ {c}
  /\ UNCHANGED <<pc, req, copy, reply, prior>>

Next ==
  \E c \in Call :
    \/ Begin(c) \/ Refuse(c)
    \/ ReadTags(c) \/ SearchGroups(c)
    \/ GetForUpdate(c) \/ Panic(c) \/ UpdateTags(c)
    \/ DeleteGroup(c) \/ PutGroup(c) \/ CreateReturns(c)
    \/ WriteFails(c) \/ TakesLate(c)

Spec == Init /\ [][Next]_groupVars

-----------------------------------------------------------------------------
Reply == {"none", "ok", "not_found", "refused", "failed", "broken", "panicked"}

TypeOK ==
  /\ here \in BOOLEAN
  /\ tags \in TagMap /\ (~here => tags = NoTags)
  /\ pc \in [Call -> {"idle", "get", "list", "put", "delete", "update", "mounts", "done"}]
  /\ DOMAIN req = Call /\ \A c \in Call : Begun(c) => req[c] \in Request
  /\ copy \in [Call -> TagMap]
  /\ reply \in [Call -> Reply]
  /\ flying \subseteq Call
  /\ prior \in [Call -> SUBSET Call]

(* What c, when it takes effect, makes of the property k.                  *)
Writes(c, k) == Kind(c) \in {"create", "destroy"} \/ (Kind(c) \in {"set", "remove"} /\ req[c].key = k)

Written(c, k) ==
  CASE Kind(c) = "set"                   -> req[c].value
    [] Kind(c) = "create"                -> At(req[c].tags, k)
    [] Kind(c) \in {"remove", "destroy"} -> Blank

(* One of the two had ended, with an effect that is certain, before the    *)
(* other began: they have not overlapped.                                  *)
Apart(c, d) == d \in prior[c] \/ c \in prior[d]

(* c was acknowledged and has overlapped no other writer among `others'.   *)
Undisputed(c, others) ==
  /\ Writer(c) /\ reply[c] = "ok"
  /\ \A d \in others \ {c} : Writer(d) => Apart(c, d)

(* c itself and the writers that began after its end.                      *)
Since(c, others) == {c} \cup {d \in others : Writer(d) /\ c \in prior[d]}

(* All that k may be when c is undisputed: what c made of it, or a writer  *)
(* of k that came later.                                                   *)
SaidSince(c, k, others) == {Written(d, k) : d \in {e \in Since(c, others) : Writes(e, k)}}

(* A change that was acknowledged, and that no other change has            *)
(* overlapped, stays until a later call changes the same property: however *)
(* the later calls overlap each other, fail or take effect late, the value *)
(* from before the change never comes back, and nothing that nobody said.  *)
AckedWriteSticks ==
  \A c \in Call, k \in Key :
    Undisputed(c, Call) /\ Writes(c, k) => At(tags, k) \in SaidSince(c, k, Call)

(* Only Create and Destroy speak about the group itself.                   *)
GroupWriter(c) == Begun(c) /\ Kind(c) \in {"create", "destroy"}

UndisputedGroup(c, others) ==
  /\ GroupWriter(c) /\ reply[c] = "ok"
  /\ \A d \in others \ {c} : GroupWriter(d) => Apart(c, d)

KindsSince(c, others) == {Kind(d) : d \in Since(c, others)}

(* The same for the group itself: an acknowledged Destroy is undone only   *)
(* by a later Create, and a Create by a later Destroy, whatever            *)
(* SetProperty and RemoveProperty calls overlap them.                      *)
AckedGroupSticks ==
  \A c \in Call : UndisputedGroup(c, Call) =>
    (IF here THEN "create" ELSE "destroy") \in KindsSince(c, Call)

(* Whoever began before r had ended.                                       *)
NotAfter(r) == {d \in Call \ {r} : r \notin prior[d]}

(* What r has read.                                                        *)
HasRead(r) ==
  \/ Kind(r) \in {"property", "properties", "info"} /\ reply[r] = "ok"
  \/ Kind(r) \in {"set", "remove"} /\ (pc[r] = "update" \/ reply[r] \in {"ok", "panicked"})

(* A handler sees of each property an undisputed change from before it     *)
(* began, or a change that came after that one: never an older value.  In  *)
(* particular SetProperty panics only if no property has such a change, or *)
(* each was removed, or lost with the group, since.                        *)
ReadsAreCurrent ==
  \A r, c \in Call, k \in Key :
    Begun(r) /\ HasRead(r) /\ c \in prior[r] /\ Undisputed(c, NotAfter(r)) /\ Writes(c, k)
      => At(copy[r], k) \in SaidSince(c, k, NotAfter(r))

Searched(r, answer) ==
  Begun(r) /\ Kind(r) \in {"lookup", "containers"} /\ reply[r] = answer

(* Lookup and Containers find a container only if it may exist, and for    *)
(* Containers only with values it may have had; they miss one only if it   *)
(* may be gone, or, for Containers, have had another value for one of the  *)
(* properties asked for.                                                   *)
SearchesAreCurrent ==
  \A r, c \in Call : c \in prior[r] =>
    /\ Searched(r, "ok") /\ UndisputedGroup(c, NotAfter(r)) =>
         "create" \in KindsSince(c, NotAfter(r))
    /\ Searched(r, "ok") /\ Kind(r) = "containers" /\ Undisputed(c, NotAfter(r)) =>
         \A k \in DOMAIN req[r].tags :
           Writes(c, k) => req[r].tags[k] \in SaidSince(c, k, NotAfter(r))
    /\ Searched(r, "not_found") /\ UndisputedGroup(c, NotAfter(r)) =>
         \/ "destroy" \in KindsSince(c, NotAfter(r))
         \/ /\ Kind(r) = "containers"
            /\ Undisputed(c, NotAfter(r)) =>
                 \E k \in DOMAIN req[r].tags :
                   SaidSince(c, k, NotAfter(r)) # {req[r].tags[k]}

-----------------------------------------------------------------------------
(* "Set a named property on a container to a specified value."             *)
(* (handlers/vcontainerhandler.go:226): after an acknowledged SetProperty  *)
(* the property has that value until a later call that writes the same     *)
(* property, or an overlapping one, has changed it.                        *)
SetPropertyHolds ==
  \A c \in Call :
    /\ Begun(c) /\ Kind(c) = "set" /\ reply[c] = "ok"
    /\ \A d \in Call \ {c} : Writer(d) => d \in prior[c] \/ ~Writes(d, req[c].key)
    => At(tags, req[c].key) = req[c].value
=============================================================================
