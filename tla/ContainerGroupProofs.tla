------------------------ MODULE ContainerGroupProofs ------------------------
(***************************************************************************)
(* The safety properties of ContainerGroup for any number of calls, any    *)
(* properties and values, and any requests.                                *)
(*                                                                         *)
(* The argument: when c has been acknowledged and no other writer has      *)
(* overlapped it, every other call either had ended before c began, with   *)
(* no effect to come, or began after c: it has then read what c wrote or   *)
(* what a call after c made of that.                                       *)
(***************************************************************************)
EXTENDS ContainerGroup, TLAPS

(* A call at "get" has read nothing yet and cannot change anything.        *)
Acting == {d \in Call : pc[d] # "get"}

(* What is left of a call in its handler, in flight and in the history.    *)
HistInv ==
  \A c \in Call :
    /\ pc[c] = "update" => Kind(c) \in {"set", "remove"}
    /\ pc[c] \in {"put", "mounts"} => Kind(c) = "create"
    /\ pc[c] = "delete" => Kind(c) = "destroy"
    /\ pc[c] = "list" => Kind(c) \in {"lookup", "containers"}
    /\ pc[c] = "get" => Kind(c) \in {"set", "remove", "property", "properties", "info"}
    /\ c \in flying => Writer(c) /\ pc[c] = "done" /\ reply[c] \in {"failed", "broken"}
    /\ reply[c] = "none" <=> pc[c] # "done"
    /\ \A d \in prior[c] : d # c /\ reply[d] \in Ended

(* Calls that will write back a copy.                                      *)
Pending(d) == Kind(d) \in {"set", "remove"} /\ (pc[d] = "update" \/ d \in flying)

(* What the tags say, and what a pending call will write back of them.     *)
WordInv ==
  \A c \in Call, k \in Key : Undisputed(c, Acting) /\ Writes(c, k) =>
    /\ At(tags, k) \in SaidSince(c, k, Acting)
    /\ \A d \in Call \ {c} : Pending(d) => At(copy[d], k) \in SaidSince(c, k, Acting)

GroupInv ==
  \A c \in Call : UndisputedGroup(c, Acting) =>
    (IF here THEN "create" ELSE "destroy") \in KindsSince(c, Acting)

(* Between the creation of the group and the answer of Create.             *)
MountsInv ==
  \A c \in Call : pc[c] = "mounts" =>
    /\ (\A d \in Acting \ {c} : Writer(d) => d \in prior[c]) => tags = req[c].tags
    /\ (\A d \in Acting \ {c} : GroupWriter(d) => d \in prior[c]) => here

Inv ==
  /\ TypeOK /\ HistInv /\ WordInv /\ GroupInv /\ MountsInv
  /\ ReadsAreCurrent /\ SearchesAreCurrent

-----------------------------------------------------------------------------
(* Requests and maps.                                                      *)

LEMMA RequestShape ==
  ASSUME NEW r \in Request
  PROVE  /\ r.kind \in {"set", "remove", "property", "create", "containers",
                        "destroy", "lookup", "properties", "info"}
         /\ r.kind = "set" => r.key \in Key /\ r.value \in Value
         /\ r.kind = "remove" => r.key \in Key
         /\ r.kind \in {"create", "containers"} => r.tags \in TagMap
BY ContainerGroupAssumption DEF AnyRequest

LEMMA WithShape ==
  ASSUME NEW m \in TagMap, NEW k \in Key, NEW v \in Value
  PROVE  With(m, k, v) \in TagMap
<1>1. PICK D \in SUBSET Key : m \in [D -> Value]
  BY DEF TagMap
<1>2. With(m, k, v) \in [D \cup {k} -> Value] /\ D \cup {k} \in SUBSET Key
  BY <1>1 DEF With
<1>3. QED
  BY <1>2 DEF TagMap

LEMMA NoTagsShape == NoTags \in TagMap
<1>1. NoTags \in [{} -> Value] /\ {} \in SUBSET Key
  BY DEF NoTags
<1>2. QED
  BY <1>1 DEF TagMap

LEMMA WithoutShape ==
  ASSUME NEW m \in TagMap, NEW k \in Key
  PROVE  Without(m, k) \in TagMap
<1>1. PICK D \in SUBSET Key : m \in [D -> Value]
  BY DEF TagMap
<1>2. Without(m, k) \in [D \ {k} -> Value] /\ D \ {k} \in SUBSET Key
  BY <1>1 DEF Without
<1>3. QED
  BY <1>2 DEF TagMap

(* What a map reads as after a change.                                     *)
LEMMA AtChanged ==
  ASSUME NEW m, NEW k, NEW j, NEW v
  PROVE  /\ At(With(m, k, v), j) = (IF j = k THEN v ELSE At(m, j))
         /\ At(Without(m, k), j) = (IF j = k THEN Blank ELSE At(m, j))
         /\ At(NoTags, j) = Blank
BY DEF At, With, Without, NoTags

(* What a step never does to calls that have begun, or are over.           *)
LEMMA Frame ==
  ASSUME TypeOK, [Next]_groupVars
  PROVE  \A d \in Call :
           /\ Begun(d) => /\ Begun(d)' /\ req'[d] = req[d] /\ prior'[d] = prior[d]
                          /\ d \in Acting => d \in Acting'
           /\ pc[d] = "done" =>
                pc'[d] = "done" /\ reply'[d] = reply[d] /\ copy'[d] = copy[d]
<1> USE DEF TypeOK, Begun, Acting
<1>1. CASE UNCHANGED groupVars
  BY <1>1 DEF groupVars
<1>2. ASSUME NEW c \in Call,
             \/ Begin(c) \/ Refuse(c) \/ ReadTags(c) \/ SearchGroups(c)
             \/ GetForUpdate(c) \/ Panic(c) \/ UpdateTags(c) \/ DeleteGroup(c)
             \/ PutGroup(c) \/ CreateReturns(c) \/ WriteFails(c) \/ TakesLate(c)
      PROVE  \A d \in Call :
               /\ Begun(d) => /\ Begun(d)' /\ req'[d] = req[d] /\ prior'[d] = prior[d]
                              /\ d \in Acting => d \in Acting'
               /\ pc[d] = "done" =>
                    pc'[d] = "done" /\ reply'[d] = reply[d] /\ copy'[d] = copy[d]
  <2> USE DEF Return
  <2>1. CASE Begin(c)
    BY <2>1 DEF Begin
  <2>2. CASE Refuse(c)
    BY <2>2 DEF Refuse
  <2>3. CASE ReadTags(c)
    BY <2>3 DEF ReadTags
  <2>4. CASE SearchGroups(c)
    BY <2>4 DEF SearchGroups
  <2>5. CASE GetForUpdate(c)
    BY <2>5 DEF GetForUpdate
  <2>6. CASE Panic(c)
    BY <2>6 DEF Panic
  <2>7. CASE UpdateTags(c)
    BY <2>7 DEF UpdateTags
  <2>8. CASE DeleteGroup(c)
    BY <2>8 DEF DeleteGroup
  <2>9. CASE PutGroup(c)
    BY <2>9 DEF PutGroup
  <2>10. CASE CreateReturns(c)
    BY <2>10 DEF CreateReturns
  <2>11. CASE WriteFails(c)
    BY <2>11 DEF WriteFails
  <2>12. CASE TakesLate(c)
    BY <2>12 DEF TakesLate
  <2>13. QED
    BY <1>2, <2>1, <2>2, <2>3, <2>4, <2>5, <2>6, <2>7, <2>8, <2>9, <2>10, <2>11, <2>12
<1>3. QED
  BY <1>1, <1>2 DEF Next

LEMMA EntryShape ==
  ASSUME NEW r \in Request
  PROVE  /\ Entry(r) \in {"put", "delete", "list", "get"}
         /\ Entry(r) = "put" => r.kind = "create"
         /\ Entry(r) = "delete" => r.kind = "destroy"
         /\ Entry(r) = "list" => r.kind \in {"lookup", "containers"}
         /\ Entry(r) = "get" =>
              r.kind \in {"set", "remove", "property", "properties", "info"}
BY RequestShape DEF Entry

LEMMA HistStep ==
  ASSUME TypeOK, HistInv, [Next]_groupVars
  PROVE  HistInv'
<1> USE DEF TypeOK, HistInv, Begun, Writer, Kind, Ended
<1>1. CASE UNCHANGED groupVars
  BY <1>1 DEF groupVars
<1>2. ASSUME NEW c \in Call,
             \/ Begin(c) \/ Refuse(c) \/ ReadTags(c) \/ SearchGroups(c)
             \/ GetForUpdate(c) \/ Panic(c) \/ UpdateTags(c) \/ DeleteGroup(c)
             \/ PutGroup(c) \/ CreateReturns(c) \/ WriteFails(c) \/ TakesLate(c)
      PROVE  HistInv'
  <2> USE DEF Return
  <2>1. CASE Begin(c)
    BY EntryShape, <2>1 DEF Begin
  <2>2. CASE Refuse(c)
    BY <2>2 DEF Refuse
  <2>3. CASE ReadTags(c)
    BY <2>3 DEF ReadTags
  <2>4. CASE SearchGroups(c)
    BY <2>4 DEF SearchGroups
  <2>5. CASE GetForUpdate(c)
    BY <2>5 DEF GetForUpdate
  <2>6. CASE Panic(c)
    BY <2>6 DEF Panic
  <2>7. CASE UpdateTags(c)
    BY <2>7 DEF UpdateTags
  <2>8. CASE DeleteGroup(c)
    BY <2>8 DEF DeleteGroup
  <2>9. CASE PutGroup(c)
    BY <2>9 DEF PutGroup
  <2>10. CASE CreateReturns(c)
    BY <2>10 DEF CreateReturns
  <2>11. CASE WriteFails(c)
    BY <2>11 DEF WriteFails
  <2>12. CASE TakesLate(c)
    BY <2>12 DEF TakesLate
  <2>13. QED
    BY <1>2, <2>1, <2>2, <2>3, <2>4, <2>5, <2>6, <2>7, <2>8, <2>9, <2>10, <2>11, <2>12
<1>3. QED
  BY <1>1, <1>2 DEF Next

LEMMA TakesShape ==
  ASSUME TypeOK, HistInv, NEW c \in Call, Writer(c), Takes(c)
  PROVE  here' \in BOOLEAN /\ tags' \in TagMap /\ (~here' => tags' = NoTags)
<1>1. req[c] \in Request /\ copy[c] \in TagMap
  BY DEF TypeOK, Writer
<1>2. CASE Kind(c) \in {"create", "destroy"}
  BY <1>1, <1>2, RequestShape, NoTagsShape DEF Takes, Kind
<1>3. CASE Kind(c) \in {"set", "remove"}
  <2>1. Changed(c) \in TagMap
    BY <1>1, <1>3, RequestShape, WithShape, WithoutShape DEF Changed, Kind
  <2>2. QED
    BY <1>3, <2>1 DEF Takes, TypeOK
<1>4. QED
  BY <1>2, <1>3 DEF Writer

LEMMA TypeStep ==
  ASSUME TypeOK, HistInv, [Next]_groupVars
  PROVE  TypeOK'
<1> USE DEF TypeOK, HistInv, Begun, Ended, Reply
<1>1. CASE UNCHANGED groupVars
  BY <1>1 DEF groupVars
<1>2. ASSUME NEW c \in Call,
             \/ Begin(c) \/ Refuse(c) \/ ReadTags(c) \/ SearchGroups(c)
             \/ GetForUpdate(c) \/ Panic(c) \/ UpdateTags(c) \/ DeleteGroup(c)
             \/ PutGroup(c) \/ CreateReturns(c) \/ WriteFails(c) \/ TakesLate(c)
      PROVE  TypeOK'
  <2> USE DEF Return
  <2>1. CASE Begin(c)
    BY EntryShape, <2>1 DEF Begin
  <2>2. CASE Refuse(c)
    BY <2>2 DEF Refuse
  <2>3. CASE ReadTags(c)
    BY <2>3 DEF ReadTags
  <2>4. CASE SearchGroups(c)
    BY <2>4 DEF SearchGroups
  <2>5. CASE GetForUpdate(c)
    BY <2>5 DEF GetForUpdate
  <2>6. CASE Panic(c)
    BY <2>6 DEF Panic
  <2>7. CASE UpdateTags(c)
    BY TakesShape, <2>7 DEF UpdateTags, Writer
  <2>8. CASE DeleteGroup(c)
    BY TakesShape, <2>8 DEF DeleteGroup, Writer
  <2>9. CASE PutGroup(c)
    BY TakesShape, <2>9 DEF PutGroup, Writer
  <2>10. CASE CreateReturns(c)
    BY <2>10 DEF CreateReturns
  <2>11. CASE WriteFails(c)
    BY <2>11 DEF WriteFails
  <2>12. CASE TakesLate(c)
    BY TakesShape, <2>12 DEF TakesLate, Writer
  <2>13. QED
    BY <1>2, <2>1, <2>2, <2>3, <2>4, <2>5, <2>6, <2>7, <2>8, <2>9, <2>10, <2>11, <2>12
<1>3. QED
  BY <1>1, <1>2 DEF Next

-----------------------------------------------------------------------------
(* The steps, seen from the tags, from the copies and from the answers.    *)

(* What Frame says of the kinds and the effects of calls that have begun.  *)
LEMMA SameRequest ==
  ASSUME TypeOK, [Next]_groupVars, NEW d \in Call, Begun(d), NEW k
  PROVE  /\ Begun(d)' /\ Kind(d)' = Kind(d) /\ prior'[d] = prior[d] /\ req'[d] = req[d]
         /\ Writer(d)' <=> Writer(d)
         /\ Writes(d, k)' <=> Writes(d, k)
         /\ Written(d, k)' = Written(d, k)
         /\ d \in Acting => d \in Acting'
<1>1. req'[d] = req[d] /\ prior'[d] = prior[d] /\ Begun(d)' /\ (d \in Acting => d \in Acting')
  BY Frame
<1>2. Kind(d)' = Kind(d)
  BY <1>1 DEF Kind
<1>3. QED
  BY <1>1, <1>2 DEF Writer, Writes, Written

(* Whatever changes the group is the request of a writer that has not      *)
(* ended before anyone could have begun after it.                          *)
Effect(e) ==
  /\ Writer(e) /\ Takes(e)
  /\ pc[e] \in {"update", "put", "delete"} \/ e \in flying

LEMMA EffectIsRecent ==
  ASSUME HistInv, NEW e \in Call, Effect(e)
  PROVE  /\ e \in Acting
         /\ \A c \in Call : e \notin prior[c]
BY DEF HistInv, Effect, Acting, Ended

LEMMA TagsStep ==
  ASSUME TypeOK, HistInv, [Next]_groupVars
  PROVE  UNCHANGED <<here, tags>> \/ \E e \in Call : Effect(e)
<1> USE DEF Effect, HistInv, Begun, Writer
<1>1. CASE UNCHANGED groupVars
  BY <1>1 DEF groupVars
<1>2. ASSUME NEW c \in Call,
             \/ Begin(c) \/ Refuse(c) \/ ReadTags(c) \/ SearchGroups(c)
             \/ GetForUpdate(c) \/ Panic(c) \/ UpdateTags(c) \/ DeleteGroup(c)
             \/ PutGroup(c) \/ CreateReturns(c) \/ WriteFails(c) \/ TakesLate(c)
      PROVE  UNCHANGED <<here, tags>> \/ \E e \in Call : Effect(e)
  <2> USE DEF Return
  <2>1. CASE Begin(c)
    BY <2>1 DEF Begin
  <2>2. CASE Refuse(c)
    BY <2>2 DEF Refuse
  <2>3. CASE ReadTags(c)
    BY <2>3 DEF ReadTags
  <2>4. CASE SearchGroups(c)
    BY <2>4 DEF SearchGroups
  <2>5. CASE GetForUpdate(c)
    BY <2>5 DEF GetForUpdate
  <2>6. CASE Panic(c)
    BY <2>6 DEF Panic
  <2>7. CASE UpdateTags(c)
    BY <2>7 DEF UpdateTags
  <2>8. CASE DeleteGroup(c)
    BY <2>8 DEF DeleteGroup
  <2>9. CASE PutGroup(c)
    BY <2>9 DEF PutGroup
  <2>10. CASE CreateReturns(c)
    BY <2>10 DEF CreateReturns
  <2>11. CASE WriteFails(c)
    BY <2>11 DEF WriteFails
  <2>12. CASE TakesLate(c)
    BY <2>12 DEF TakesLate
  <2>13. QED
    BY <1>2, <2>1, <2>2, <2>3, <2>4, <2>5, <2>6, <2>7, <2>8, <2>9, <2>10, <2>11, <2>12
<1>3. QED
  BY <1>1, <1>2 DEF Next

LEMMA PendingStep ==
  ASSUME TypeOK, HistInv, [Next]_groupVars
  PROVE  \A d \in Call : Pending(d)' =>
           (Pending(d) /\ copy'[d] = copy[d]) \/ copy'[d] = tags
<1> USE DEF TypeOK, HistInv, Pending, Begun, Kind
<1>1. CASE UNCHANGED groupVars
  BY <1>1 DEF groupVars
<1>2. ASSUME NEW c \in Call,
             \/ Begin(c) \/ Refuse(c) \/ ReadTags(c) \/ SearchGroups(c)
             \/ GetForUpdate(c) \/ Panic(c) \/ UpdateTags(c) \/ DeleteGroup(c)
             \/ PutGroup(c) \/ CreateReturns(c) \/ WriteFails(c) \/ TakesLate(c)
      PROVE  \A d \in Call : Pending(d)' =>
                  (Pending(d) /\ copy'[d] = copy[d]) \/ copy'[d] = tags
  <2> USE DEF Return
  <2>1. CASE Begin(c)
    BY <2>1, EntryShape DEF Begin
  <2>2. CASE Refuse(c)
    BY <2>2 DEF Refuse
  <2>3. CASE ReadTags(c)
    BY <2>3 DEF ReadTags
  <2>4. CASE SearchGroups(c)
    BY <2>4 DEF SearchGroups
  <2>5. CASE GetForUpdate(c)
    BY <2>5 DEF GetForUpdate
  <2>6. CASE Panic(c)
    BY <2>6 DEF Panic
  <2>7. CASE UpdateTags(c)
    BY <2>7 DEF UpdateTags
  <2>8. CASE DeleteGroup(c)
    BY <2>8 DEF DeleteGroup
  <2>9. CASE PutGroup(c)
    BY <2>9 DEF PutGroup
  <2>10. CASE CreateReturns(c)
    BY <2>10 DEF CreateReturns
  <2>11. CASE WriteFails(c)
    BY <2>11 DEF WriteFails
  <2>12. CASE TakesLate(c)
    BY <2>12 DEF TakesLate
  <2>13. QED
    BY <1>2, <2>1, <2>2, <2>3, <2>4, <2>5, <2>6, <2>7, <2>8, <2>9, <2>10, <2>11, <2>12
<1>3. QED
  BY <1>1, <1>2 DEF Next

LEMMA OkStep ==
  ASSUME TypeOK, HistInv, [Next]_groupVars, NEW d \in Call, Writer(d)',
         reply'[d] = "ok", reply[d] # "ok"
  PROVE  \/ here /\ UpdateTags(d)
         \/ DeleteGroup(d)
         \/ CreateReturns(d)
<1> USE DEF TypeOK, HistInv, Begun, Writer, Kind
<1>1. CASE UNCHANGED groupVars
  BY <1>1 DEF groupVars
<1>2. ASSUME NEW c \in Call,
             \/ Begin(c) \/ Refuse(c) \/ ReadTags(c) \/ SearchGroups(c)
             \/ GetForUpdate(c) \/ Panic(c) \/ UpdateTags(c) \/ DeleteGroup(c)
             \/ PutGroup(c) \/ CreateReturns(c) \/ WriteFails(c) \/ TakesLate(c)
      PROVE  (here /\ UpdateTags(d)) \/ DeleteGroup(d) \/ CreateReturns(d)
  <2> USE DEF Return
  <2>1. CASE Begin(c)
    BY <2>1 DEF Begin
  <2>2. CASE Refuse(c)
    BY <2>2 DEF Refuse
  <2>3. CASE ReadTags(c)
    BY <2>3 DEF ReadTags
  <2>4. CASE SearchGroups(c)
    BY <2>4 DEF SearchGroups
  <2>5. CASE GetForUpdate(c)
    BY <2>5 DEF GetForUpdate
  <2>6. CASE Panic(c)
    BY <2>6 DEF Panic
  <2>7. CASE UpdateTags(c)
    BY <2>7 DEF UpdateTags
  <2>8. CASE DeleteGroup(c)
    BY <2>8 DEF DeleteGroup
  <2>9. CASE PutGroup(c)
    BY <2>9 DEF PutGroup
  <2>10. CASE CreateReturns(c)
    <3>1. c = d
      BY <2>10 DEF CreateReturns
    <3>2. QED
      BY <2>10, <3>1
  <2>11. CASE WriteFails(c)
    BY <2>11 DEF WriteFails
  <2>12. CASE TakesLate(c)
    BY <2>12 DEF TakesLate
  <2>13. QED
    BY <1>2, <2>1, <2>2, <2>3, <2>4, <2>5, <2>6, <2>7, <2>8, <2>9, <2>10, <2>11, <2>12
<1>3. QED
  BY <1>1, <1>2 DEF Next

-----------------------------------------------------------------------------
(* Being undisputed is never new, except for a call that has just been     *)
(* acknowledged; and what has been said since only grows.                  *)
LEMMA SameOrder ==
  ASSUME TypeOK, [Next]_groupVars, NEW c \in Call, NEW d \in Call, Begun(c), Begun(d)
  PROVE  /\ Apart(c, d)' <=> Apart(c, d)
         /\ c \in prior'[d] <=> c \in prior[d]
         /\ GroupWriter(d)' <=> GroupWriter(d)
BY SameRequest DEF Apart, GroupWriter

LEMMA OldWord ==
  ASSUME TypeOK, HistInv, [Next]_groupVars, NEW c \in Call, reply[c] = "ok"
  PROVE  /\ Undisputed(c, Acting)' => Undisputed(c, Acting)
         /\ UndisputedGroup(c, Acting)' => UndisputedGroup(c, Acting)
         /\ \A k : SaidSince(c, k, Acting) \subseteq SaidSince(c, k, Acting)'
         /\ KindsSince(c, Acting) \subseteq KindsSince(c, Acting)'
<1>1. Begun(c) /\ pc[c] = "done"
  BY DEF HistInv, Begun
<1>2. /\ Writer(c)' <=> Writer(c)
      /\ GroupWriter(c)' <=> GroupWriter(c)
      /\ reply'[c] = reply[c]
  BY <1>1, SameRequest, SameOrder, Frame
<1>3. ASSUME NEW d \in Acting, Begun(d)
      PROVE  /\ d \in Acting' /\ d \in Call
             /\ Writer(d)' <=> Writer(d)
             /\ GroupWriter(d)' <=> GroupWriter(d)
             /\ Apart(c, d)' <=> Apart(c, d)
             /\ c \in prior'[d] <=> c \in prior[d]
  <2>1. d \in Call
    BY DEF Acting
  <2>2. QED
    BY <1>1, <1>3, <2>1, SameRequest, SameOrder
<1>4. Undisputed(c, Acting)' => Undisputed(c, Acting)
  BY <1>2, <1>3 DEF Undisputed, Writer
<1>5. UndisputedGroup(c, Acting)' => UndisputedGroup(c, Acting)
  BY <1>2, <1>3 DEF UndisputedGroup, GroupWriter
<1>6. Since(c, Acting) \subseteq Since(c, Acting)'
  BY <1>3 DEF Since, Writer
<1>7. \A d \in Since(c, Acting) : d \in Call /\ Begun(d)
  BY <1>1 DEF Since, Acting, Writer
<1>8. ASSUME NEW k
      PROVE  SaidSince(c, k, Acting) \subseteq SaidSince(c, k, Acting)'
  BY <1>6, <1>7, SameRequest DEF SaidSince
<1>9. KindsSince(c, Acting) \subseteq KindsSince(c, Acting)'
  BY <1>6, <1>7, SameRequest DEF KindsSince
<1>10. QED
  BY <1>4, <1>5, <1>8, <1>9

(* A call that has just been acknowledged, undisputed: all other writers   *)
(* have ended before it began.                                             *)
LEMMA NewWord ==
  ASSUME TypeOK, HistInv, [Next]_groupVars, NEW c \in Call, reply[c] # "ok"
  PROVE  /\ Undisputed(c, Acting)' =>
              /\ \A d \in Acting \ {c} : Writer(d) => d \in prior[c]
              /\ \A d \in Call \ {c} : ~Pending(d)
         /\ UndisputedGroup(c, Acting)' =>
              \A d \in Acting \ {c} : GroupWriter(d) => d \in prior[c]
<1> SUFFICES ASSUME Writer(c)', reply'[c] = "ok"
             PROVE  /\ Undisputed(c, Acting)' =>
                         /\ \A d \in Acting \ {c} : Writer(d) => d \in prior[c]
                         /\ \A d \in Call \ {c} : ~Pending(d)
                    /\ UndisputedGroup(c, Acting)' =>
                         \A d \in Acting \ {c} : GroupWriter(d) => d \in prior[c]
  BY DEF Undisputed, UndisputedGroup, Writer, GroupWriter
<1>1. (here /\ UpdateTags(c)) \/ DeleteGroup(c) \/ CreateReturns(c)
  BY OkStep
<1>2. Begun(c) /\ reply[c] = "none"
  BY <1>1 DEF UpdateTags, DeleteGroup, CreateReturns, Return, Begun, HistInv
<1>3. ASSUME NEW d \in Acting \ {c}, Begun(d)
      PROVE  /\ d \in Acting' /\ d \in Call
             /\ Writer(d)' <=> Writer(d)
             /\ GroupWriter(d)' <=> GroupWriter(d)
             /\ Apart(c, d)' => d \in prior[c]
  <2>1. d \in Call
    BY DEF Acting
  <2>2. /\ d \in Acting' /\ (Writer(d)' <=> Writer(d))
        /\ GroupWriter(d)' <=> GroupWriter(d)
        /\ Apart(c, d)' <=> Apart(c, d)
    BY <1>2, <1>3, <2>1, SameRequest, SameOrder
  <2>3. c \notin prior[d]
    BY <1>2, <2>1 DEF HistInv, Ended
  <2>4. QED
    BY <2>1, <2>2, <2>3 DEF Apart
<1>4. ASSUME Undisputed(c, Acting)'
      PROVE  \A d \in Acting \ {c} : Writer(d) => d \in prior[c]
  BY <1>3, <1>4 DEF Undisputed, Writer
<1>5. ASSUME Undisputed(c, Acting)', NEW d \in Call \ {c}, Pending(d)
      PROVE  FALSE
  <2>1. d \in Acting /\ Writer(d) /\ reply[d] \notin Ended
    BY <1>5 DEF Pending, HistInv, Acting, Writer, Begun, Ended
  <2>2. QED
    BY <1>4, <1>5, <2>1 DEF HistInv
<1>6. ASSUME UndisputedGroup(c, Acting)'
      PROVE  \A d \in Acting \ {c} : GroupWriter(d) => d \in prior[c]
  BY <1>3, <1>6 DEF UndisputedGroup, GroupWriter
<1>7. QED
  BY <1>4, <1>5, <1>6

-----------------------------------------------------------------------------
LEMMA AtChangedBy ==
  ASSUME NEW e \in Call, NEW k, Kind(e) \in {"set", "remove"}
  PROVE  At(Changed(e), k) = IF k # req[e].key THEN At(copy[e], k)
                             ELSE IF Kind(e) = "set" THEN req[e].value ELSE Blank
<1>1. CASE Kind(e) = "set"
  BY <1>1 DEF Changed, At, With
<1>2. CASE Kind(e) = "remove"
  BY <1>2 DEF Changed, At, Without
<1>3. QED
  BY <1>1, <1>2

(* Whoever takes effect on an undisputed call came after it.               *)
LEMMA CameLater ==
  ASSUME HistInv, NEW c \in Call, reply[c] = "ok", NEW e \in Call, Effect(e)
  PROVE  /\ e # c /\ e \in Acting
         /\ Undisputed(c, Acting) => e \in Since(c, Acting)
         /\ UndisputedGroup(c, Acting) /\ GroupWriter(e) => e \in Since(c, Acting)
<1>1. e # c /\ e \in Acting /\ e \notin prior[c]
  BY EffectIsRecent DEF HistInv, Effect
<1>2. QED
  BY <1>1 DEF Undisputed, UndisputedGroup, Apart, Since, Effect

(* What e makes of the tags is what e says of k, or what e has read.       *)
LEMMA EffectOnKey ==
  ASSUME HistInv, NEW e \in Call, Effect(e), NEW k
  PROVE  \/ At(tags', k) = At(tags, k)
         \/ Writes(e, k) /\ At(tags', k) = Written(e, k)
         \/ Pending(e) /\ At(tags', k) = At(copy[e], k)
<1>1. CASE Kind(e) \in {"create", "destroy"}
  BY <1>1, AtChanged DEF Effect, Takes, Writes, Written
<1>2. CASE Kind(e) \in {"set", "remove"}
  <2>1. Pending(e) /\ (tags' = Changed(e) \/ tags' = tags)
    BY <1>2 DEF Effect, Takes, Pending, HistInv
  <2>2. QED
    BY <1>2, <2>1, AtChangedBy DEF Writes, Written
<1>3. QED
  BY <1>1, <1>2 DEF Effect, Writer

(* Nobody's request brings back what was there before an undisputed call.  *)
LEMMA KeptWord ==
  ASSUME TypeOK, HistInv, WordInv, NEW c \in Call, NEW k \in Key, reply[c] = "ok",
         Undisputed(c, Acting), Writes(c, k), NEW e \in Call, Effect(e)
  PROVE  At(tags', k) \in SaidSince(c, k, Acting)
<1>1. e # c /\ e \in Since(c, Acting)
  BY CameLater
<1>2. /\ At(tags, k) \in SaidSince(c, k, Acting)
      /\ Pending(e) => At(copy[e], k) \in SaidSince(c, k, Acting)
  BY <1>1 DEF WordInv
<1>3. Writes(e, k) => Written(e, k) \in SaidSince(c, k, Acting)
  BY <1>1 DEF SaidSince
<1>4. QED
  BY <1>2, <1>3, EffectOnKey

LEMMA KeptGroup ==
  ASSUME TypeOK, HistInv, GroupInv, NEW c \in Call, reply[c] = "ok",
         UndisputedGroup(c, Acting), NEW e \in Call, Effect(e)
  PROVE  (IF here' THEN "create" ELSE "destroy") \in KindsSince(c, Acting)
<1>1. CASE GroupWriter(e)
  <2>1. Kind(e) \in KindsSince(c, Acting)
    BY <1>1, CameLater DEF KindsSince
  <2>2. QED
    BY <1>1, <2>1 DEF GroupWriter, Effect, Takes
<1>2. CASE ~GroupWriter(e)
  BY <1>2 DEF GroupWriter, GroupInv, Effect, Takes, Writer
<1>3. QED
  BY <1>1, <1>2

LEMMA WordStep ==
  ASSUME TypeOK, HistInv, WordInv, MountsInv, [Next]_groupVars
  PROVE  WordInv'
<1> SUFFICES ASSUME NEW c \in Call, NEW k \in Key,
                    Undisputed(c, Acting)', Writes(c, k)'
             PROVE  /\ At(tags', k) \in SaidSince(c, k, Acting)'
                    /\ \A d \in Call \ {c} : Pending(d)' =>
                         At(copy'[d], k) \in SaidSince(c, k, Acting)'
  BY DEF WordInv
<1>1. CASE reply[c] = "ok"
  <2>1. /\ Undisputed(c, Acting) /\ Writes(c, k)
        /\ SaidSince(c, k, Acting) \subseteq SaidSince(c, k, Acting)'
    BY <1>1, OldWord, SameRequest DEF HistInv, Begun
  <2>2. At(tags, k) \in SaidSince(c, k, Acting)
    BY <2>1 DEF WordInv
  <2>3. At(tags', k) \in SaidSince(c, k, Acting)
    BY <1>1, <2>1, <2>2, TagsStep, KeptWord
  <2>4. ASSUME NEW d \in Call \ {c}, Pending(d)'
        PROVE  At(copy'[d], k) \in SaidSince(c, k, Acting)
    BY <2>1, <2>2, <2>4, PendingStep DEF WordInv
  <2>5. QED
    BY <2>1, <2>3, <2>4
<1>2. CASE reply[c] # "ok"
  <2>1. Writer(c)' /\ reply'[c] = "ok"
    BY DEF Undisputed
  <2>2. /\ \A d \in Acting \ {c} : Writer(d) => d \in prior[c]
        /\ \A d \in Call \ {c} : ~Pending(d)
    BY <1>2, NewWord
  <2>3. (here /\ UpdateTags(c)) \/ DeleteGroup(c) \/ CreateReturns(c)
    BY <1>2, <2>1, OkStep
  <2>4. Begun(c) /\ \A d \in Call \ {c} : ~Pending(d)'
    BY <2>2, <2>3 DEF UpdateTags, DeleteGroup, CreateReturns, Return, Pending, Kind, TypeOK,
                      Begun
  <2>5. Writes(c, k) /\ Writer(c) /\ Written(c, k)' = Written(c, k)
    BY <2>1, <2>4, SameRequest
  <2>6. At(tags', k) = Written(c, k)
    <3>1. CASE here /\ UpdateTags(c)
      <4>1. Kind(c) \in {"set", "remove"} /\ req[c].key = k /\ tags' = Changed(c)
        BY <2>5, <3>1 DEF UpdateTags, Return, Takes, HistInv, Writes
      <4>2. QED
        BY <4>1, AtChangedBy DEF Written
    <3>2. CASE DeleteGroup(c)
      <4>1. Kind(c) = "destroy" /\ tags' = NoTags
        BY <3>2 DEF DeleteGroup, Return, Takes, HistInv
      <4>2. QED
        BY <4>1, AtChanged DEF Written
    <3>3. CASE CreateReturns(c)
      <4>1. Kind(c) = "create" /\ tags' = tags /\ pc[c] = "mounts"
        BY <3>3 DEF CreateReturns, Return, HistInv
      <4>2. tags = req[c].tags
        BY <2>2, <4>1 DEF MountsInv
      <4>3. QED
        BY <4>1, <4>2 DEF Written
    <3>4. QED
      BY <2>3, <3>1, <3>2, <3>3
  <2>7. Written(c, k)' \in SaidSince(c, k, Acting)'
    BY DEF SaidSince, Since
  <2>8. QED
    BY <2>4, <2>5, <2>6, <2>7
<1>3. QED
  BY <1>1, <1>2

LEMMA GroupStep ==
  ASSUME TypeOK, HistInv, GroupInv, MountsInv, [Next]_groupVars
  PROVE  GroupInv'
<1> SUFFICES ASSUME NEW c \in Call, UndisputedGroup(c, Acting)'
             PROVE  (IF here' THEN "create" ELSE "destroy") \in KindsSince(c, Acting)'
  BY DEF GroupInv
<1>1. CASE reply[c] = "ok"
  <2>1. /\ UndisputedGroup(c, Acting)
        /\ KindsSince(c, Acting) \subseteq KindsSince(c, Acting)'
    BY <1>1, OldWord
  <2>2. (IF here' THEN "create" ELSE "destroy") \in KindsSince(c, Acting)
    BY <1>1, <2>1, TagsStep, KeptGroup DEF GroupInv
  <2>3. QED
    BY <2>1, <2>2
<1>2. CASE reply[c] # "ok"
  <2>1. Writer(c)' /\ Kind(c)' \in {"create", "destroy"} /\ reply'[c] = "ok"
    BY DEF UndisputedGroup, GroupWriter, Writer
  <2>2. \A d \in Acting \ {c} : GroupWriter(d) => d \in prior[c]
    BY <1>2, NewWord
  <2>3. (here /\ UpdateTags(c)) \/ DeleteGroup(c) \/ CreateReturns(c)
    BY <1>2, <2>1, OkStep
  <2>4. Kind(c)' = Kind(c)
    BY <2>3, SameRequest DEF UpdateTags, DeleteGroup, CreateReturns, Return, Begun
  <2>5. Kind(c) = (IF here' THEN "create" ELSE "destroy")
    <3>1. CASE here /\ UpdateTags(c)
      BY <2>1, <2>4, <3>1 DEF UpdateTags, Return, HistInv
    <3>2. CASE DeleteGroup(c)
      BY <3>2 DEF DeleteGroup, Return, Takes, HistInv
    <3>3. CASE CreateReturns(c)
      <4>1. Kind(c) = "create" /\ here' = here /\ pc[c] = "mounts"
        BY <3>3 DEF CreateReturns, Return, HistInv
      <4>2. here
        BY <2>2, <4>1 DEF MountsInv
      <4>3. QED
        BY <4>1, <4>2
    <3>4. QED
      BY <2>3, <3>1, <3>2, <3>3
  <2>6. Kind(c)' \in KindsSince(c, Acting)'
    BY DEF KindsSince, Since
  <2>7. QED
    BY <2>4, <2>5, <2>6
<1>3. QED
  BY <1>1, <1>2

(* Who comes to "mounts" has just made the group.                          *)
LEMMA MountsShape ==
  ASSUME TypeOK, HistInv, [Next]_groupVars, NEW d \in Call, pc'[d] = "mounts"
  PROVE  pc[d] = "mounts" \/ PutGroup(d)
<1> USE DEF TypeOK, Begun
<1>1. CASE UNCHANGED groupVars
  BY <1>1 DEF groupVars
<1>2. ASSUME NEW c \in Call,
             \/ Begin(c) \/ Refuse(c) \/ ReadTags(c) \/ SearchGroups(c)
             \/ GetForUpdate(c) \/ Panic(c) \/ UpdateTags(c) \/ DeleteGroup(c)
             \/ PutGroup(c) \/ CreateReturns(c) \/ WriteFails(c) \/ TakesLate(c)
      PROVE  pc[d] = "mounts" \/ PutGroup(d)
  <2> USE DEF Return
  <2>1. CASE Begin(c)
    BY EntryShape, <2>1 DEF Begin
  <2>2. CASE Refuse(c)
    BY <2>2 DEF Refuse
  <2>3. CASE ReadTags(c)
    BY <2>3 DEF ReadTags
  <2>4. CASE SearchGroups(c)
    BY <2>4 DEF SearchGroups
  <2>5. CASE GetForUpdate(c)
    BY <2>5 DEF GetForUpdate
  <2>6. CASE Panic(c)
    BY <2>6 DEF Panic
  <2>7. CASE UpdateTags(c)
    BY <2>7 DEF UpdateTags
  <2>8. CASE DeleteGroup(c)
    BY <2>8 DEF DeleteGroup
  <2>9. CASE PutGroup(c)
    BY <2>9 DEF PutGroup
  <2>10. CASE CreateReturns(c)
    BY <2>10 DEF CreateReturns
  <2>11. CASE WriteFails(c)
    BY <2>11 DEF WriteFails
  <2>12. CASE TakesLate(c)
    BY <2>12 DEF TakesLate
  <2>13. QED
    BY <1>2, <2>1, <2>2, <2>3, <2>4, <2>5, <2>6, <2>7, <2>8, <2>9, <2>10, <2>11, <2>12
<1>3. QED
  BY <1>1, <1>2 DEF Next

LEMMA MountsStep ==
  ASSUME TypeOK, HistInv, MountsInv, [Next]_groupVars
  PROVE  MountsInv'
<1> SUFFICES ASSUME NEW c \in Call, pc'[c] = "mounts"
             PROVE  /\ (\A d \in Acting' \ {c} : Writer(d)' => d \in prior'[c]) =>
                         tags' = req'[c].tags
                    /\ (\A d \in Acting' \ {c} : GroupWriter(d)' => d \in prior'[c]) =>
                         here'
  BY DEF MountsInv
<1>1. CASE PutGroup(c)
  BY <1>1 DEF PutGroup, Takes, HistInv
<1>2. CASE pc[c] = "mounts"
  <2>1. Begun(c) /\ req'[c] = req[c] /\ prior'[c] = prior[c]
    BY <1>2, SameRequest DEF Begun
  <2>2. \A e \in Call : Effect(e) => e \in Acting \ {c} /\ Writer(e) /\ e \notin prior[c]
    BY <1>2, EffectIsRecent DEF Effect, HistInv
  <2>3. \A d \in Acting \ {c} : Begun(d) =>
          /\ d \in Acting' \ {c}
          /\ Writer(d)' <=> Writer(d)
          /\ GroupWriter(d)' <=> GroupWriter(d)
    BY <2>1, SameRequest, SameOrder DEF Acting
  <2>4. ASSUME \A d \in Acting' \ {c} : Writer(d)' => d \in prior'[c]
        PROVE  tags' = req'[c].tags
    <3>1. \A d \in Acting \ {c} : Writer(d) => d \in prior[c]
      BY <2>1, <2>3, <2>4 DEF Writer
    <3>2. tags = req[c].tags
      BY <1>2, <3>1 DEF MountsInv
    <3>3. QED
      BY <2>1, <2>2, <3>1, <3>2, TagsStep
  <2>5. ASSUME \A d \in Acting' \ {c} : GroupWriter(d)' => d \in prior'[c]
        PROVE  here'
    <3>1. \A d \in Acting \ {c} : GroupWriter(d) => d \in prior[c]
      BY <2>1, <2>3, <2>5 DEF GroupWriter
    <3>2. here
      BY <1>2, <3>1 DEF MountsInv
    <3>3. \A e \in Call : Effect(e) => here' = here
      BY <2>2, <3>1 DEF Effect, Takes, Writer, GroupWriter
    <3>4. QED
      BY <3>2, <3>3, TagsStep
  <2>6. QED
    BY <2>4, <2>5
<1>3. QED
  BY <1>1, <1>2, MountsShape

-----------------------------------------------------------------------------
(* Reads and searches.                                                     *)
LEMMA ReadShape ==
  ASSUME TypeOK, HistInv, [Next]_groupVars, NEW d \in Call, Begun(d)', HasRead(d)'
  PROVE  \/ Begun(d) /\ HasRead(d) /\ copy'[d] = copy[d]
         \/ pc[d] = "get" /\ copy'[d] = tags
<1> USE DEF TypeOK, HistInv, Begun, HasRead, Kind
<1>1. CASE UNCHANGED groupVars
  BY <1>1 DEF groupVars
<1>2. ASSUME NEW c \in Call,
             \/ Begin(c) \/ Refuse(c) \/ ReadTags(c) \/ SearchGroups(c)
             \/ GetForUpdate(c) \/ Panic(c) \/ UpdateTags(c) \/ DeleteGroup(c)
             \/ PutGroup(c) \/ CreateReturns(c) \/ WriteFails(c) \/ TakesLate(c)
      PROVE  \/ Begun(d) /\ HasRead(d) /\ copy'[d] = copy[d]
             \/ pc[d] = "get" /\ copy'[d] = tags
  <2> USE DEF Return
  <2>1. CASE Begin(c)
    BY EntryShape, <2>1 DEF Begin
  <2>2. CASE Refuse(c)
    BY <2>2 DEF Refuse
  <2>3. CASE ReadTags(c)
    BY <2>3 DEF ReadTags
  <2>4. CASE SearchGroups(c)
    BY <2>4 DEF SearchGroups
  <2>5. CASE GetForUpdate(c)
    BY <2>5 DEF GetForUpdate
  <2>6. CASE Panic(c)
    BY <2>6 DEF Panic
  <2>7. CASE UpdateTags(c)
    BY <2>7 DEF UpdateTags
  <2>8. CASE DeleteGroup(c)
    BY <2>8 DEF DeleteGroup
  <2>9. CASE PutGroup(c)
    BY <2>9 DEF PutGroup
  <2>10. CASE CreateReturns(c)
    BY <2>10 DEF CreateReturns
  <2>11. CASE WriteFails(c)
    BY <2>11 DEF WriteFails
  <2>12. CASE TakesLate(c)
    BY <2>12 DEF TakesLate
  <2>13. QED
    BY <1>2, <2>1, <2>2, <2>3, <2>4, <2>5, <2>6, <2>7, <2>8, <2>9, <2>10, <2>11, <2>12
<1>3. QED
  BY <1>1, <1>2 DEF Next

LEMMA SearchShape ==
  ASSUME TypeOK, HistInv, [Next]_groupVars, NEW d \in Call, Begun(d)',
         Kind(d)' \in {"lookup", "containers"}, reply'[d] \in {"ok", "not_found"}
  PROVE  \/ Begun(d) /\ reply'[d] = reply[d]
         \/ pc[d] = "list" /\ reply'[d] = (IF Found(d) THEN "ok" ELSE "not_found")
<1> USE DEF TypeOK, HistInv, Begun, Kind
<1>1. CASE UNCHANGED groupVars
  BY <1>1 DEF groupVars
<1>2. ASSUME NEW c \in Call,
             \/ Begin(c) \/ Refuse(c) \/ ReadTags(c) \/ SearchGroups(c)
             \/ GetForUpdate(c) \/ Panic(c) \/ UpdateTags(c) \/ DeleteGroup(c)
             \/ PutGroup(c) \/ CreateReturns(c) \/ WriteFails(c) \/ TakesLate(c)
      PROVE  \/ Begun(d) /\ reply'[d] = reply[d]
             \/ pc[d] = "list" /\ reply'[d] = (IF Found(d) THEN "ok" ELSE "not_found")
  <2> USE DEF Return
  <2>1. CASE Begin(c)
    BY <2>1 DEF Begin
  <2>2. CASE Refuse(c)
    BY <2>2 DEF Refuse
  <2>3. CASE ReadTags(c)
    BY <2>3 DEF ReadTags
  <2>4. CASE SearchGroups(c)
    BY <2>4 DEF SearchGroups
  <2>5. CASE GetForUpdate(c)
    BY <2>5 DEF GetForUpdate
  <2>6. CASE Panic(c)
    BY <2>6 DEF Panic
  <2>7. CASE UpdateTags(c)
    BY <2>7 DEF UpdateTags
  <2>8. CASE DeleteGroup(c)
    BY <2>8 DEF DeleteGroup
  <2>9. CASE PutGroup(c)
    BY <2>9 DEF PutGroup
  <2>10. CASE CreateReturns(c)
    BY <2>10 DEF CreateReturns
  <2>11. CASE WriteFails(c)
    BY <2>11 DEF WriteFails
  <2>12. CASE TakesLate(c)
    BY <2>12 DEF TakesLate
  <2>13. QED
    BY <1>2, <2>1, <2>2, <2>3, <2>4, <2>5, <2>6, <2>7, <2>8, <2>9, <2>10, <2>11, <2>12
<1>3. QED
  BY <1>1, <1>2 DEF Next

(* The same for what is said until r ends: whoever has begun stays a       *)
(* member of NotAfter(r).                                                  *)
LEMMA OldRead ==
  ASSUME TypeOK, HistInv, [Next]_groupVars, NEW r \in Call, Begun(r),
         NEW c \in Call, c \in prior'[r]
  PROVE  /\ c \in prior[r]
         /\ Undisputed(c, NotAfter(r))' => Undisputed(c, NotAfter(r))
         /\ UndisputedGroup(c, NotAfter(r))' => UndisputedGroup(c, NotAfter(r))
         /\ \A k : SaidSince(c, k, NotAfter(r)) \subseteq SaidSince(c, k, NotAfter(r))'
         /\ KindsSince(c, NotAfter(r)) \subseteq KindsSince(c, NotAfter(r))'
<1>1. c \in prior[r] /\ pc[c] = "done" /\ Begun(c)
  BY SameRequest DEF HistInv, Ended, Begun
<1>2. /\ Writer(c)' <=> Writer(c)
      /\ GroupWriter(c)' <=> GroupWriter(c)
      /\ reply'[c] = reply[c]
  BY <1>1, SameRequest, SameOrder, Frame
<1>3. ASSUME NEW d \in NotAfter(r), Begun(d)
      PROVE  /\ d \in NotAfter(r)' /\ d \in Call
             /\ Writer(d)' <=> Writer(d)
             /\ GroupWriter(d)' <=> GroupWriter(d)
             /\ Apart(c, d)' <=> Apart(c, d)
             /\ c \in prior'[d] <=> c \in prior[d]
  <2>1. d \in Call
    BY DEF NotAfter
  <2>2. prior'[d] = prior[d]
    BY <1>3, <2>1, SameRequest
  <2>3. d \in NotAfter(r)'
    BY <2>2 DEF NotAfter
  <2>4. QED
    BY <1>1, <1>3, <2>1, <2>3, SameRequest, SameOrder
<1>4. Undisputed(c, NotAfter(r))' => Undisputed(c, NotAfter(r))
  BY <1>2, <1>3 DEF Undisputed, Writer
<1>5. UndisputedGroup(c, NotAfter(r))' => UndisputedGroup(c, NotAfter(r))
  BY <1>2, <1>3 DEF UndisputedGroup, GroupWriter
<1>6. Since(c, NotAfter(r)) \subseteq Since(c, NotAfter(r))'
  BY <1>3 DEF Since, Writer
<1>7. \A d \in Since(c, NotAfter(r)) : d \in Call /\ Begun(d)
  BY <1>1 DEF Since, NotAfter, Writer
<1>8. ASSUME NEW k
      PROVE  SaidSince(c, k, NotAfter(r)) \subseteq SaidSince(c, k, NotAfter(r))'
  BY <1>6, <1>7, SameRequest DEF SaidSince
<1>9. KindsSince(c, NotAfter(r)) \subseteq KindsSince(c, NotAfter(r))'
  BY <1>6, <1>7, SameRequest DEF KindsSince
<1>10. QED
  BY <1>1, <1>4, <1>5, <1>8, <1>9

(* Before r has read, nobody has begun after its end: all that act are     *)
(* among NotAfter(r).                                                      *)
LEMMA ActingNow ==
  ASSUME TypeOK, HistInv, NEW r \in Call, pc[r] \in {"get", "list"}, NEW c \in Call
  PROVE  /\ Undisputed(c, NotAfter(r)) => Undisputed(c, Acting)
         /\ UndisputedGroup(c, NotAfter(r)) => UndisputedGroup(c, Acting)
         /\ \A k : SaidSince(c, k, Acting) \subseteq SaidSince(c, k, NotAfter(r))
         /\ KindsSince(c, Acting) \subseteq KindsSince(c, NotAfter(r))
<1>1. \A d \in Call : r \notin prior[d]
  BY DEF HistInv, Ended
<1>2. r \notin Acting \/ (~Writer(r) /\ ~GroupWriter(r))
  BY DEF HistInv, Acting, Writer, GroupWriter
<1>3. \A d \in Acting : Writer(d) \/ GroupWriter(d) => d \in NotAfter(r)
  BY <1>1, <1>2 DEF NotAfter, Acting
<1>4. Since(c, Acting) \subseteq Since(c, NotAfter(r))
  BY <1>3 DEF Since
<1>5. Undisputed(c, NotAfter(r)) => Undisputed(c, Acting)
  BY <1>3 DEF Undisputed
<1>6. UndisputedGroup(c, NotAfter(r)) => UndisputedGroup(c, Acting)
  BY <1>3 DEF UndisputedGroup
<1>7. QED
  BY <1>4, <1>5, <1>6 DEF SaidSince, KindsSince

LEMMA ReadsStep ==
  ASSUME TypeOK, HistInv, WordInv, ReadsAreCurrent, [Next]_groupVars
  PROVE  ReadsAreCurrent'
<1> SUFFICES ASSUME NEW r \in Call, NEW c \in Call, NEW k \in Key,
                    Begun(r)', HasRead(r)', c \in prior'[r],
                    Undisputed(c, NotAfter(r))', Writes(c, k)'
             PROVE  At(copy'[r], k) \in SaidSince(c, k, NotAfter(r))'
  BY DEF ReadsAreCurrent
<1>1. Begun(r)
  BY ReadShape DEF Begun
<1>2. /\ Undisputed(c, NotAfter(r)) /\ c \in prior[r]
      /\ SaidSince(c, k, NotAfter(r)) \subseteq SaidSince(c, k, NotAfter(r))'
  BY <1>1, OldRead
<1>3. Writes(c, k)
  BY <1>2, SameRequest DEF Undisputed, Writer
<1>4. At(copy'[r], k) \in SaidSince(c, k, NotAfter(r))
  <2>1. CASE HasRead(r) /\ copy'[r] = copy[r]
    BY <1>1, <1>2, <1>3, <2>1 DEF ReadsAreCurrent
  <2>2. CASE pc[r] = "get" /\ copy'[r] = tags
    <3>1. /\ Undisputed(c, Acting)
          /\ SaidSince(c, k, Acting) \subseteq SaidSince(c, k, NotAfter(r))
      BY <1>2, <2>2, ActingNow
    <3>2. QED
      BY <1>3, <2>2, <3>1 DEF WordInv
  <2>3. QED
    BY <2>1, <2>2, ReadShape
<1>5. QED
  BY <1>2, <1>4

(* What SearchesAreCurrent says of one pair of calls, by answer.           *)
FoundGroup(r, c) ==
  Searched(r, "ok") /\ UndisputedGroup(c, NotAfter(r)) =>
    "create" \in KindsSince(c, NotAfter(r))

FoundTags(r, c) ==
  Searched(r, "ok") /\ Kind(r) = "containers" /\ Undisputed(c, NotAfter(r)) =>
    \A k \in DOMAIN req[r].tags :
      Writes(c, k) => req[r].tags[k] \in SaidSince(c, k, NotAfter(r))

Missed(r, c) ==
  Searched(r, "not_found") /\ UndisputedGroup(c, NotAfter(r)) =>
    \/ "destroy" \in KindsSince(c, NotAfter(r))
    \/ /\ Kind(r) = "containers"
       /\ Undisputed(c, NotAfter(r)) =>
            \E k \in DOMAIN req[r].tags :
              SaidSince(c, k, NotAfter(r)) # {req[r].tags[k]}

LEMMA SearchParts ==
  SearchesAreCurrent <=>
    \A r, c \in Call : c \in prior[r] =>
      FoundGroup(r, c) /\ FoundTags(r, c) /\ Missed(r, c)
BY DEF SearchesAreCurrent, FoundGroup, FoundTags, Missed

(* Create and Destroy say something about every property.                  *)
LEMMA GroupSaysSomething ==
  ASSUME NEW c, GroupWriter(c), NEW k, NEW S
  PROVE  Writes(c, k) /\ SaidSince(c, k, S) # {}
BY DEF GroupWriter, Writes, SaidSince, Since

(* The answer that a search gives, when it is given.                       *)
LEMMA SearchNow ==
  ASSUME TypeOK, HistInv, WordInv, GroupInv, NEW r \in Call, pc[r] = "list",
         NEW c \in Call
  PROVE  /\ Found(r) /\ UndisputedGroup(c, NotAfter(r)) =>
              "create" \in KindsSince(c, NotAfter(r))
         /\ Found(r) /\ Kind(r) = "containers" /\ Undisputed(c, NotAfter(r)) =>
              \A k \in DOMAIN req[r].tags :
                Writes(c, k) => req[r].tags[k] \in SaidSince(c, k, NotAfter(r))
         /\ ~Found(r) /\ UndisputedGroup(c, NotAfter(r)) =>
              \/ "destroy" \in KindsSince(c, NotAfter(r))
              \/ /\ Kind(r) = "containers"
                 /\ Undisputed(c, NotAfter(r)) =>
                      \E k \in DOMAIN req[r].tags :
                        SaidSince(c, k, NotAfter(r)) # {req[r].tags[k]}
<1>1. /\ Undisputed(c, NotAfter(r)) => Undisputed(c, Acting)
      /\ UndisputedGroup(c, NotAfter(r)) => UndisputedGroup(c, Acting)
      /\ \A k : SaidSince(c, k, Acting) \subseteq SaidSince(c, k, NotAfter(r))
      /\ KindsSince(c, Acting) \subseteq KindsSince(c, NotAfter(r))
  BY ActingNow
<1>2. UndisputedGroup(c, NotAfter(r)) =>
        (IF here THEN "create" ELSE "destroy") \in KindsSince(c, NotAfter(r))
  BY <1>1 DEF GroupInv
<1>3. Kind(r) = "containers" => DOMAIN req[r].tags \subseteq Key
  <2> SUFFICES ASSUME Kind(r) = "containers"
               PROVE  DOMAIN req[r].tags \subseteq Key
    OBVIOUS
  <2>1. req[r].tags \in TagMap
    BY RequestShape DEF TypeOK, Kind, Begun
  <2>2. QED
    BY <2>1 DEF TagMap
<1>4. ASSUME NEW k \in Key, Undisputed(c, NotAfter(r)), Writes(c, k)
      PROVE  At(tags, k) \in SaidSince(c, k, NotAfter(r))
  BY <1>1, <1>4 DEF WordInv
<1>5. ASSUME Found(r), Kind(r) = "containers", Undisputed(c, NotAfter(r)),
             NEW k \in DOMAIN req[r].tags, Writes(c, k)
      PROVE  req[r].tags[k] \in SaidSince(c, k, NotAfter(r))
  <2>1. At(tags, k) = req[r].tags[k] /\ k \in Key
    BY <1>3, <1>5 DEF Found, Matches
  <2>2. QED
    BY <1>4, <1>5, <2>1
<1>6. ASSUME ~Found(r), here, UndisputedGroup(c, NotAfter(r)), Undisputed(c, NotAfter(r))
      PROVE  \E k \in DOMAIN req[r].tags : SaidSince(c, k, NotAfter(r)) # {req[r].tags[k]}
  <2>1. PICK k \in DOMAIN req[r].tags : At(tags, k) # req[r].tags[k]
    BY <1>6 DEF Found, Matches
  <2>2. k \in Key /\ Writes(c, k)
    BY <1>3, <1>6, <2>1, GroupSaysSomething DEF Found, UndisputedGroup
  <2>3. At(tags, k) \in SaidSince(c, k, NotAfter(r))
    BY <1>4, <1>6, <2>2
  <2>4. QED
    BY <2>1, <2>3
<1>7. QED
  BY <1>2, <1>5, <1>6 DEF Found

LEMMA SearchesStep ==
  ASSUME TypeOK, HistInv, WordInv, GroupInv, SearchesAreCurrent, [Next]_groupVars
  PROVE  SearchesAreCurrent'
<1> SUFFICES ASSUME NEW r \in Call, NEW c \in Call, c \in prior'[r],
                    Begun(r)', Kind(r)' \in {"lookup", "containers"},
                    reply'[r] \in {"ok", "not_found"}
             PROVE  (FoundGroup(r, c) /\ FoundTags(r, c) /\ Missed(r, c))'
  BY DEF SearchesAreCurrent, FoundGroup, FoundTags, Missed, Searched
<1>1. Begun(r)
  BY SearchShape DEF Begun
<1>2. Kind(r)' = Kind(r) /\ req'[r] = req[r]
  BY <1>1, SameRequest
<1>3. /\ c \in prior[r]
      /\ Undisputed(c, NotAfter(r))' => Undisputed(c, NotAfter(r))
      /\ UndisputedGroup(c, NotAfter(r))' => UndisputedGroup(c, NotAfter(r))
      /\ \A k : SaidSince(c, k, NotAfter(r)) \subseteq SaidSince(c, k, NotAfter(r))'
      /\ KindsSince(c, NotAfter(r)) \subseteq KindsSince(c, NotAfter(r))'
  BY <1>1, OldRead
<1>4. Begun(c) /\ \A k : Writes(c, k)' <=> Writes(c, k)
  BY <1>3, SameRequest DEF HistInv, Ended, Begun
<1>5. /\ reply'[r] = "ok" /\ UndisputedGroup(c, NotAfter(r)) =>
           "create" \in KindsSince(c, NotAfter(r))
      /\ reply'[r] = "ok" /\ Kind(r) = "containers" /\ Undisputed(c, NotAfter(r)) =>
           \A k \in DOMAIN req[r].tags :
             Writes(c, k) => req[r].tags[k] \in SaidSince(c, k, NotAfter(r))
      /\ reply'[r] = "not_found" /\ UndisputedGroup(c, NotAfter(r)) =>
           \/ "destroy" \in KindsSince(c, NotAfter(r))
           \/ /\ Kind(r) = "containers"
              /\ Undisputed(c, NotAfter(r)) =>
                   \E k \in DOMAIN req[r].tags :
                     SaidSince(c, k, NotAfter(r)) # {req[r].tags[k]}
  <2>1. CASE reply'[r] = reply[r]
    <3>1. FoundGroup(r, c) /\ FoundTags(r, c) /\ Missed(r, c)
      BY <1>3, SearchParts
    <3>2. \A answer : Searched(r, answer) <=> reply'[r] = answer
      BY <1>1, <1>2, <2>1 DEF Searched
    <3>3. QED
      BY <3>1, <3>2 DEF FoundGroup, FoundTags, Missed
  <2>2. CASE pc[r] = "list" /\ reply'[r] = (IF Found(r) THEN "ok" ELSE "not_found")
    <3>1. /\ reply'[r] = "ok" <=> Found(r)
          /\ reply'[r] = "not_found" <=> ~Found(r)
      BY <2>2
    <3>2. QED
      BY <2>2, <3>1, SearchNow
  <2>3. QED
    BY <2>1, <2>2, SearchShape
<1>6. FoundGroup(r, c)'
  BY <1>3, <1>5 DEF FoundGroup, Searched
<1>7. FoundTags(r, c)'
  BY <1>2, <1>3, <1>4, <1>5 DEF FoundTags, Searched
<1>8. Missed(r, c)'
  <2> SUFFICES ASSUME reply'[r] = "not_found", UndisputedGroup(c, NotAfter(r))',
                      "destroy" \notin KindsSince(c, NotAfter(r))'
               PROVE  /\ Kind(r)' = "containers"
                      /\ Undisputed(c, NotAfter(r))' =>
                           \E k \in DOMAIN req'[r].tags :
                             SaidSince(c, k, NotAfter(r))' # {req'[r].tags[k]}
    BY DEF Missed, Searched
  <2>1. /\ Kind(r) = "containers"
        /\ Undisputed(c, NotAfter(r)) =>
             \E k \in DOMAIN req[r].tags :
               SaidSince(c, k, NotAfter(r)) # {req[r].tags[k]}
    BY <1>3, <1>5
  <2>2. \A k : SaidSince(c, k, NotAfter(r)) # {}
    BY <1>3, GroupSaysSomething DEF UndisputedGroup
  <2>3. QED
    BY <1>2, <1>3, <2>1, <2>2
<1>9. QED
  BY <1>6, <1>7, <1>8

-----------------------------------------------------------------------------
LEMMA InitInv == Init => Inv
<1> SUFFICES ASSUME Init
             PROVE  Inv
  OBVIOUS
<1>1. TypeOK
  BY NoTagsShape DEF Init, TypeOK, Begun, Reply
<1>2. HistInv
  BY DEF Init, HistInv, Ended
<1>3. WordInv /\ GroupInv /\ MountsInv /\ ReadsAreCurrent /\ SearchesAreCurrent
  BY DEF Init, WordInv, GroupInv, MountsInv, ReadsAreCurrent, SearchesAreCurrent, Undisputed,
         UndisputedGroup
<1>4. QED
  BY <1>1, <1>2, <1>3 DEF Inv

(* Calls that act are calls.                                               *)
LEMMA WordOfAll ==
  ASSUME NEW c \in Call
  PROVE  /\ Undisputed(c, Call) => Undisputed(c, Acting)
         /\ UndisputedGroup(c, Call) => UndisputedGroup(c, Acting)
         /\ \A k : SaidSince(c, k, Acting) \subseteq SaidSince(c, k, Call)
         /\ KindsSince(c, Acting) \subseteq KindsSince(c, Call)
<1>1. Acting \subseteq Call
  BY DEF Acting
<1>2. Since(c, Acting) \subseteq Since(c, Call)
  BY <1>1 DEF Since
<1>3. QED
  BY <1>1, <1>2 DEF Undisputed, UndisputedGroup, SaidSince, KindsSince

(* Inv is an inductive invariant of the calls on one container group.      *)
THEOREM GroupInvariance == Spec => []Inv
<1>1. Inv /\ [Next]_groupVars => Inv'
  BY TypeStep, HistStep, WordStep, GroupStep, MountsStep, ReadsStep, SearchesStep DEF Inv
<1>2. QED
  BY InitInv, <1>1, PTL DEF Spec

(* Type correctness; with it that no tags outlive their group.             *)
THEOREM GroupTypes == Spec => []TypeOK
<1>1. Inv => TypeOK
  BY DEF Inv
<1>2. QED
  BY <1>1, GroupInvariance, PTL

(* An acknowledged change that nobody has overlapped is there, or what a   *)
(* later call has made of the property.                                    *)
THEOREM ChangesStick == Spec => []AckedWriteSticks
<1>1. Inv => AckedWriteSticks
  BY WordOfAll DEF Inv, WordInv, AckedWriteSticks
<1>2. QED
  BY <1>1, GroupInvariance, PTL

(* An acknowledged Create is undone only by a later Destroy, an            *)
(* acknowledged Destroy only by a later Create.                            *)
THEOREM GroupsStick == Spec => []AckedGroupSticks
<1>1. Inv => AckedGroupSticks
  BY WordOfAll DEF Inv, GroupInv, AckedGroupSticks
<1>2. QED
  BY <1>1, GroupInvariance, PTL

(* Who reads sees the last acknowledged change, or a later one.            *)
THEOREM ReadersAreCurrent == Spec => []ReadsAreCurrent
<1>1. Inv => ReadsAreCurrent
  BY DEF Inv
<1>2. QED
  BY <1>1, GroupInvariance, PTL

(* Lookup and Containers find what is there, and only that.                *)
THEOREM SearchersAreCurrent == Spec => []SearchesAreCurrent
<1>1. Inv => SearchesAreCurrent
  BY DEF Inv
<1>2. QED
  BY <1>1, GroupInvariance, PTL
=============================================================================
