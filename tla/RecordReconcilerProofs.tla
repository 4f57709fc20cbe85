------------------------ MODULE RecordReconcilerProofs ------------------------
(***************************************************************************)
(* Theorems about RecordReconciler, for every set of IDs, addresses,       *)
(* comments and parameters and every bound.                                *)
(***************************************************************************)
EXTENDS RecordReconciler, TLAPS

-----------------------------------------------------------------------------
(* Metadata                                                                *)

\* The resolved value of a field is the fallback or one of the given values.
LEMMA ResolveScalarChoice ==
  ASSUME NEW fallback, NEW values
  PROVE  ResolveScalar(fallback, values) \in values \cup {fallback}
  BY DEF ResolveScalar

\* Parameters resolved from well-typed ones are well typed, and their comment is
\* matched by the selector when those of the fallback and the recyclable records
\* are.
LEMMA ResolveParamsType ==
  ASSUME NEW fallback \in Params, NEW recyclable \in SUBSET Params
  PROVE  /\ ResolveParams(fallback, recyclable) \in Params
         /\ ResolveParams(fallback, recyclable).comment
              \in {p.comment : p \in recyclable} \cup {fallback.comment}
<1>1. ResolveScalar(fallback.ttl, {p.ttl : p \in recyclable}) \in TTLs
  BY ResolveScalarChoice DEF Params
<1>2. ResolveScalar(fallback.proxied, {p.proxied : p \in recyclable}) \in ProxyModes
  BY ResolveScalarChoice DEF Params
<1>3. ResolveScalar(fallback.comment, {p.comment : p \in recyclable})
        \in {p.comment : p \in recyclable} \cup {fallback.comment}
  BY ResolveScalarChoice
<1>4. {p.comment : p \in recyclable} \cup {fallback.comment} \subseteq Comments
  BY DEF Params
<1>5. CommonTags({p.tags : p \in recyclable}) \in SUBSET Tags
  BY DEF CommonTags
<1>6. QED
  BY <1>1, <1>2, <1>3, <1>4, <1>5 DEF ResolveParams, Params

-----------------------------------------------------------------------------
(* Records and views                                                       *)

\* Storing a record keeps its address and its comment, and storing it again
\* changes nothing.
LEMMA StoreFacts ==
  ASSUME NEW rec \in Record
  PROVE  /\ Store(rec) \in Record
         /\ Store(rec) \in StoredSlot
         /\ Store(rec) # Absent
         /\ Store(rec).ip = rec.ip
         /\ Store(rec).params.comment = rec.params.comment
         /\ Store(Store(rec)) = Store(rec)
<1>1. /\ rec.ip \in IPs /\ rec.params \in Params
      /\ rec = [ip |-> rec.ip, params |-> rec.params]
  BY DEF Record
<1>2. /\ Normalised[rec.params] \in Params
      /\ Normalised[rec.params].comment = rec.params.comment
      /\ Normalised[Normalised[rec.params]] = Normalised[rec.params]
  BY <1>1, ConstantsAssumption
<1>3. Store(rec) = [ip |-> rec.ip, params |-> Normalised[rec.params]]
  BY <1>1 DEF Store
<1>4. Store(rec) \in Record
  BY <1>1, <1>2, <1>3 DEF Record
<1>5. Store(Store(rec)) = Store(rec)
  BY <1>2, <1>3 DEF Store
<1>6. Store(rec) # Absent
  BY <1>4, ConstantsAssumption
<1>7. Store(rec) \in StoredSlot
  BY <1>2, <1>3, <1>4 DEF StoredSlot
<1>8. QED
  BY <1>2, <1>3, <1>4, <1>5, <1>6, <1>7

\* What is stored is a view, and so is its managed part.
LEMMA ManagedViewType ==
  ASSUME NEW r \in [IDs -> StoredSlot]
  PROVE  /\ r \in View
         /\ ManagedView(r) \in View
         /\ \A id \in IDs : ManagedView(r)[id] = IF Managed(r[id]) THEN r[id] ELSE Absent
  BY DEF ManagedView, View, Slot, StoredSlot, Managed

\* The parameters of the plan are well typed, and their comment matches the
\* selector when those of the listed records do.
LEMMA PlannedParamsType ==
  ASSUME listed \in View
  PROVE  /\ PlannedParams \in Params
         /\ (\A id \in Ids(listed) : listed[id].params.comment \in ManagedComments)
              => PlannedParams.comment \in ManagedComments
<1> DEFINE recyclable == {listed[id].params : id \in Outdated(listed, want)}
<1>1. \A id \in Ids(listed) : listed[id] \in Record
  BY DEF View, Slot, Ids
<1>2. Outdated(listed, want) \subseteq Ids(listed)
  BY DEF Outdated
<1>3. recyclable \in SUBSET Params
  BY <1>1, <1>2 DEF Record
<1>4. /\ PlannedParams \in Params
      /\ PlannedParams.comment \in {p.comment : p \in recyclable} \cup {Fallback.comment}
  BY <1>3, ResolveParamsType, ConstantsAssumption DEF PlannedParams
<1>5. QED
  BY <1>2, <1>4, ConstantsAssumption

-----------------------------------------------------------------------------
(* Requests                                                                *)

\* Every call of a plan is a request.
LEMMA RequestsType ==
  ASSUME TypeOK, NEW id \in IDs, NEW ip \in IPs
  PROVE  /\ UpdateOf(id, ip) \in Request
         /\ CreationOf(id, ip) \in Request
         /\ DeletionOf(id) \in Request
<1>1. [ip |-> ip, params |-> PlannedParams] \in Record
  BY PlannedParamsType DEF TypeOK, Record
<1>2. Store([ip |-> ip, params |-> PlannedParams]) \in StoredSlot
  BY <1>1, StoreFacts
<1>3. Absent \in StoredSlot
  BY DEF StoredSlot
<1>4. QED
  BY <1>2, <1>3 DEF UpdateOf, CreationOf, DeletionOf, Request

\* The outdated record taken next is one that is left.
LEMMA NextSpareFacts == NextSpare \subseteq spare
  BY DEF NextSpare

LEMMA NextCallsType ==
  ASSUME TypeOK
  PROVE  NextCalls \subseteq Request
<1>1. /\ NextSpare \subseteq IDs
      /\ FreshIDs \subseteq IDs
      /\ todo \subseteq IPs
  BY NextSpareFacts DEF TypeOK, FreshIDs
<1>2. /\ \A id \in NextSpare : DeletionOf(id) \in Request
      /\ \A id \in FreshIDs, ip \in todo : CreationOf(id, ip) \in Request
      /\ \A id \in NextSpare, ip \in todo : UpdateOf(id, ip) \in Request
  <2>1. \A id \in NextSpare : DeletionOf(id) \in Request
    BY <1>1 DEF DeletionOf, Request, StoredSlot
  <2>2. QED
    BY <1>1, <2>1, RequestsType
<1>3. QED
  BY <1>2 DEF NextCalls

\* A call that gets no answer leaves well-typed records and requests behind.
LEMMA UnansweredType ==
  ASSUME TypeOK, NEW req \in Request, Unanswered(req)
  PROVE  remote' \in [IDs -> StoredSlot] /\ late' \in SUBSET Request
  BY DEF TypeOK, Unanswered, Carried, Request

\* So does one that is confirmed.
LEMMA CarriedType ==
  ASSUME TypeOK, NEW req \in Request
  PROVE  Carried(req) \in [IDs -> StoredSlot]
  BY DEF TypeOK, Carried, Request

\* An edit of the cached list leaves a cached list.
LEMMA CacheSetType ==
  ASSUME TypeOK, NEW id \in IDs, NEW slot \in Slot, CacheSet(id, slot)
  PROVE  cache' \in View \cup {NoCache}
  BY DEF TypeOK, CacheSet, View

\* A listing is a view, and its outdated records are known by their IDs.
LEMMA ListingType ==
  ASSUME TypeOK
  PROVE  /\ Listing \in View
         /\ Outdated(Listing, goal) \in SUBSET IDs
         /\ Unmatched(Listing, goal) \in SUBSET goal
         /\ Ids(Listing) \in SUBSET IDs
  BY ManagedViewType DEF TypeOK, Listing, Outdated, Unmatched, Ids

-----------------------------------------------------------------------------
(* Types                                                                   *)

\* Between two rounds there is nothing to do; without this the targets left of a
\* round would not stay among the wanted ones when the next round wants others.
TypeInv == TypeOK /\ (pc # "round" => todo = {})

\* The initial state is well typed.
LEMMA InitType == Init => TypeInv
<1>1. Nothing \in View
  BY DEF Nothing, View, Slot
<1>2. QED
  BY <1>1, ConstantsAssumption DEF Init, TypeOK, TypeInv

\* Every step preserves the types.
LEMMA NextType == TypeInv /\ [Next]_vars => TypeInv'
<1> SUFFICES ASSUME TypeInv, [Next]_vars
             PROVE  TypeInv'
  OBVIOUS
<1> USE DEF TypeOK, TypeInv
<1>0. Nothing \in View
  BY DEF Nothing, View, Slot
<1>1. ASSUME NEW next \in {"idle", "stopped"}, ListFails(next)
      PROVE  TypeInv'
  BY <1>1 DEF ListFails, plan
<1>2. CASE StartRound
  BY <1>2, ListingType DEF StartRound, ListRecords
<1>3. ASSUME NEW id \in IDs, NEW ip \in IPs, RecycleOutdated(id, ip)
      PROVE  TypeInv'
  <2>1. UpdateOf(id, ip) \in Request
    BY RequestsType
  <2>2. remote' \in [IDs -> StoredSlot]
    BY <1>3, <2>1, CarriedType DEF RecycleOutdated
  <2>3. (IF Managed(UpdateOf(id, ip).rec) THEN UpdateOf(id, ip).rec ELSE Absent) \in Slot
    BY <2>1 DEF Request, StoredSlot, Slot
  <2>4. cache' \in View \cup {NoCache}
    BY <1>3, <2>3, CacheSetType DEF RecycleOutdated
  <2>5. QED
    BY <1>3, <2>2, <2>4 DEF RecycleOutdated
<1>4. ASSUME NEW id \in IDs, NEW ip \in IPs, CreateMissing(id, ip)
      PROVE  TypeInv'
  <2>1. remote' \in [IDs -> StoredSlot]
    BY <1>4, RequestsType, CarriedType DEF CreateMissing
  <2>2. [ip |-> ip, params |-> PlannedParams] \in Slot
    BY PlannedParamsType DEF Slot, Record
  <2>3. cache' \in View \cup {NoCache}
    BY <1>4, <2>2, CacheSetType DEF CreateMissing
  <2>4. QED
    BY <1>4, <2>1, <2>3 DEF CreateMissing
<1>5. ASSUME NEW id \in IDs, DeleteOutdated(id)
      PROVE  TypeInv'
  <2>1. DeletionOf(id) \in Request
    BY DEF DeletionOf, Request, StoredSlot
  <2>2. remote' \in [IDs -> StoredSlot]
    BY <1>5, <2>1, CarriedType DEF DeleteOutdated
  <2>3. cache' \in View \cup {NoCache}
    BY <1>5, CacheSetType DEF DeleteOutdated, Slot
  <2>4. QED
    BY <1>5, <2>2, <2>3 DEF DeleteOutdated
<1>6. CASE CallErrs
  <2>1. NextCalls \subseteq Request
    BY NextCallsType
  <2>2. remote' \in [IDs -> StoredSlot] /\ late' \in SUBSET Request
    BY <1>6, <2>1, UnansweredType DEF CallErrs
  <2>3. QED
    BY <1>0, <1>6, <2>2 DEF CallErrs, Invalidate, Finish
<1>7. CASE CallNotSent
  BY <1>0, <1>7 DEF CallNotSent, Finish
<1>8. CASE RoundDone
  BY <1>0, <1>8 DEF RoundDone, Finish
<1>9. CASE StartFinalDelete
  BY <1>9, ListingType DEF StartFinalDelete, ListRecords, Stop
<1>10. ASSUME NEW id \in IDs, FinalDeleteRecord(id)
       PROVE  TypeInv'
  <2>1. DeletionOf(id) \in Request
    BY DEF DeletionOf, Request, StoredSlot
  <2>2. remote' \in [IDs -> StoredSlot]
    BY <1>10, <2>1, CarriedType DEF FinalDeleteRecord
  <2>3. cache' \in View \cup {NoCache}
    BY <1>10, CacheSetType DEF FinalDeleteRecord, Slot
  <2>4. QED
    BY <1>10, <2>2, <2>3 DEF FinalDeleteRecord
<1>11. ASSUME NEW id \in IDs, FinalDeleteErrs(id)
       PROVE  TypeInv'
  <2>1. DeletionOf(id) \in Request
    BY DEF DeletionOf, Request, StoredSlot
  <2>2. remote' \in [IDs -> StoredSlot] /\ late' \in SUBSET Request
    BY <1>11, <2>1, UnansweredType DEF FinalDeleteErrs
  <2>3. QED
    BY <1>11, <2>2 DEF FinalDeleteErrs, Stop
<1>12. CASE FinalDeleteDone
  BY <1>12 DEF FinalDeleteDone, Stop
<1>13. CASE Restart
  BY <1>0, <1>13 DEF Restart
<1>14. CASE Expire
  BY <1>14 DEF Expire, plan
<1>15. CASE AddressChange
  BY <1>15, ConstantsAssumption DEF AddressChange, process, plan
<1>16. ASSUME NEW id \in IDs, NEW slot \in StoredSlot, OutsideEdit(id, slot)
       PROVE  TypeInv'
  BY <1>16 DEF OutsideEdit, process, plan
<1>17. ASSUME NEW req \in late, LateLands(req)
       PROVE  TypeInv'
  BY <1>17, CarriedType DEF LateLands, process, plan
<1>18. ASSUME NEW req \in late, LateLost(req)
       PROVE  TypeInv'
  BY <1>18 DEF LateLost, process, plan
<1>19. CASE UNCHANGED vars
  BY <1>19 DEF vars, process, plan
<1>20. QED
  BY <1>1, <1>2, <1>3, <1>4, <1>5, <1>6, <1>7, <1>8, <1>9, <1>10, <1>11, <1>12,
     <1>13, <1>14, <1>15, <1>16, <1>17, <1>18, <1>19
     DEF Next, RoundStep, FinalStep, Disturbance

\* The types are correct in every reachable state.
THEOREM TypeCorrect == Spec => []TypeOK
<1>1. TypeInv => TypeOK
  BY DEF TypeInv
<1>2. QED
  BY <1>1, InitType, NextType, PTL DEF Spec

-----------------------------------------------------------------------------
(* How one call changes what is outdated and what is missing               *)

\* Editing one slot of what is stored edits the same slot of the managed part.
LEMMA ManagedViewEdit ==
  ASSUME NEW r \in [IDs -> StoredSlot], NEW id \in IDs, NEW slot \in StoredSlot
  PROVE  ManagedView([r EXCEPT ![id] = slot]) =
           [ManagedView(r) EXCEPT ![id] = IF Managed(slot) THEN slot ELSE Absent]
  BY DEF ManagedView

\* Recycling an outdated record for a missing address settles both.
LEMMA RecycleEdit ==
  ASSUME NEW v \in View, NEW targets \in SUBSET IPs,
         NEW id \in Outdated(v, targets), NEW rec \in Record,
         rec.ip \in Unmatched(v, targets),
         NEW w \in View, w[id] = rec, \A i \in IDs \ {id} : w[i] = v[i]
  PROVE  /\ Outdated(w, targets) = Outdated(v, targets) \ {id}
         /\ Unmatched(w, targets) = Unmatched(v, targets) \ {rec.ip}
<1>1. id \in Ids(v) /\ id \in IDs /\ v[id].ip \notin targets
  BY DEF Outdated, Ids
<1>2. rec # Absent
  BY ConstantsAssumption
<1>4. Ids(w) = Ids(v)
  BY <1>1, <1>2 DEF Ids
<1>5. Outdated(w, targets) = Outdated(v, targets) \ {id}
  BY <1>1, <1>4 DEF Outdated, Unmatched, Ids
<1>6. Unmatched(w, targets) = Unmatched(v, targets) \ {rec.ip}
  <2>1. ASSUME NEW t \in targets, t # rec.ip
        PROVE  t \in Covered(w) <=> t \in Covered(v)
    BY <1>1, <1>4, <2>1 DEF Covered, Ids
  <2>2. rec.ip \in Covered(w)
    BY <1>1, <1>4 DEF Covered
  <2>3. QED
    BY <2>1, <2>2 DEF Unmatched
<1>7. QED
  BY <1>5, <1>6

\* A new record for a missing address settles it and outdates nothing.
LEMMA CreateEdit ==
  ASSUME NEW v \in View, NEW targets \in SUBSET IPs,
         NEW id \in IDs, v[id] = Absent, NEW rec \in Record,
         rec.ip \in Unmatched(v, targets),
         NEW w \in View, w[id] = rec, \A i \in IDs \ {id} : w[i] = v[i]
  PROVE  /\ Outdated(w, targets) = Outdated(v, targets)
         /\ Unmatched(w, targets) = Unmatched(v, targets) \ {rec.ip}
<1>1. rec # Absent
  BY ConstantsAssumption
<1>3. Ids(w) = Ids(v) \cup {id} /\ id \notin Ids(v)
  BY <1>1 DEF Ids
<1>4. Outdated(w, targets) = Outdated(v, targets)
  BY <1>3 DEF Outdated, Unmatched, Ids
<1>5. Covered(w) = Covered(v) \cup {rec.ip}
  BY <1>3 DEF Covered, Ids
<1>6. QED
  BY <1>4, <1>5 DEF Unmatched

\* Deleting an outdated record uncovers no wanted address.
LEMMA DeleteEdit ==
  ASSUME NEW v \in View, NEW targets \in SUBSET IPs,
         NEW id \in Outdated(v, targets),
         NEW w \in View, w[id] = Absent, \A i \in IDs \ {id} : w[i] = v[i]
  PROVE  /\ Outdated(w, targets) = Outdated(v, targets) \ {id}
         /\ Unmatched(w, targets) = Unmatched(v, targets)
<1>1. id \in Ids(v) /\ id \in IDs /\ v[id].ip \notin targets
  BY DEF Outdated, Ids
<1>3. Ids(w) = Ids(v) \ {id}
  BY <1>1 DEF Ids
<1>4. Outdated(w, targets) = Outdated(v, targets) \ {id}
  BY <1>1, <1>3 DEF Outdated, Ids
<1>5. \A t \in targets : t \in Covered(w) <=> t \in Covered(v)
  BY <1>1, <1>3 DEF Covered, Ids
<1>6. QED
  BY <1>4, <1>5 DEF Unmatched

\* Views that agree up to normalisation are the same to a plan.
LEMMA CoherentViews ==
  ASSUME NEW c \in View, NEW m \in View,
         \A id \in IDs : SameRecord(c[id], m[id])
  PROVE  /\ Ids(c) = Ids(m)
         /\ Covered(c) = Covered(m)
         /\ \A targets : Outdated(c, targets) = Outdated(m, targets)
         /\ \A targets : Unmatched(c, targets) = Unmatched(m, targets)
<1>1. Ids(c) = Ids(m)
  BY DEF SameRecord, Ids
<1>2. \A id \in Ids(m) : c[id].ip = m[id].ip
  <2> SUFFICES ASSUME NEW id \in Ids(m)
               PROVE  c[id].ip = m[id].ip
    OBVIOUS
  <2>1. id \in IDs /\ c[id] # Absent /\ c[id] \in Record
    BY <1>1 DEF Ids, View, Slot
  <2>2. m[id] = Store(c[id])
    BY <2>1 DEF SameRecord
  <2>3. QED
    BY <2>1, <2>2, StoreFacts
<1>3. Covered(c) = Covered(m)
  BY <1>1, <1>2 DEF Covered
<1>4. QED
  BY <1>1, <1>2, <1>3 DEF Outdated, Unmatched

\* What is stored is its own picture.
LEMMA StoredCoherent ==
  ASSUME NEW r \in [IDs -> StoredSlot]
  PROVE  /\ \A id \in IDs : SameRecord(ManagedView(r)[id], ManagedView(r)[id])
         /\ AllManaged(ManagedView(r))
<1>1. \A rec \in StoredSlot : rec # Absent => Store(rec) = rec
  <2> SUFFICES ASSUME NEW rec \in StoredSlot, rec # Absent
               PROVE  Store(rec) = rec
    OBVIOUS
  <2>1. rec \in Record /\ Normalised[rec.params] = rec.params
    BY DEF StoredSlot
  <2>2. rec = [ip |-> rec.ip, params |-> rec.params]
    BY <2>1 DEF Record
  <2>3. QED
    BY <2>1, <2>2 DEF Store
<1>2. \A id \in IDs : ManagedView(r)[id] \in StoredSlot
  BY DEF ManagedView, StoredSlot
<1>3. \A id \in IDs : SameRecord(ManagedView(r)[id], ManagedView(r)[id])
  BY <1>1, <1>2 DEF SameRecord
<1>4. AllManaged(ManagedView(r))
  BY DEF AllManaged, Ids, ManagedView, Managed
<1>5. QED
  BY <1>3, <1>4

-----------------------------------------------------------------------------
(* The inductive invariant                                                 *)

\* Before a listing is used it agrees with Cloudflare, if the records can be
\* trusted to be undisturbed from here on.
LEMMA ListingExact ==
  ASSUME Inductive, pc = "idle", ListRecords
  PROVE  /\ AllManaged(Listing)
         /\ Undisturbed' =>
              /\ \A id \in IDs : SameRecord(Listing[id], ManagedView(remote)[id])
              /\ Ids(Listing) = Ids(ManagedView(remote))
              /\ Covered(Listing) = Live
              /\ \A targets :
                   /\ Outdated(Listing, targets) = Outdated(ManagedView(remote), targets)
                   /\ Unmatched(Listing, targets) = Unmatched(ManagedView(remote), targets)
<1>1. Listing \in View /\ ManagedView(remote) \in View
  BY ListingType, ManagedViewType DEF Inductive, TypeOK
<1>2. AllManaged(Listing)
  BY StoredCoherent DEF Inductive, TypeOK, Listing
<1>3. ASSUME Undisturbed'
      PROVE  \A id \in IDs : SameRecord(Listing[id], ManagedView(remote)[id])
  <2>1. CASE cache = NoCache
    BY <2>1, StoredCoherent DEF Inductive, TypeOK, Listing
  <2>2. CASE cache # NoCache
    <3>1. Undisturbed
      BY <1>3, <2>2 DEF ListRecords, Undisturbed
    <3>2. QED
      BY <2>2, <3>1 DEF Inductive, CacheCoherent, Listing
  <2>3. QED
    BY <2>1, <2>2
<1>4. QED
  BY <1>1, <1>2, <1>3, CoherentViews DEF Live

\* A plan's parameters are managed ones, and so is what is written with them.
LEMMA PlannedRecord ==
  ASSUME Inductive, NEW ip \in IPs
  PROVE  LET rec == [ip |-> ip, params |-> PlannedParams] IN
           /\ rec \in Record
           /\ Managed(rec) /\ Managed(Store(rec))
           /\ Store(rec) \in Record /\ Store(rec) \in StoredSlot
           /\ Store(rec).ip = ip
           /\ Store(rec) # Absent /\ rec # Absent
           /\ Store(Store(rec)) = Store(rec)
           /\ PlannedParams.comment \in ManagedComments
<1> DEFINE rec == [ip |-> ip, params |-> PlannedParams]
<1>1. /\ PlannedParams \in Params
      /\ PlannedParams.comment \in ManagedComments
  BY PlannedParamsType DEF Inductive, TypeOK, AllManaged, Managed
<1>2. rec \in Record /\ rec.ip = ip /\ rec.params = PlannedParams
  BY <1>1 DEF Record
<1>3. rec # Absent
  BY <1>2, ConstantsAssumption
<1>4. /\ Store(rec) \in Record /\ Store(rec) \in StoredSlot
      /\ Store(rec).ip = rec.ip
      /\ Store(rec).params.comment = rec.params.comment
      /\ Store(rec) # Absent
      /\ Store(Store(rec)) = Store(rec)
  BY <1>2, StoreFacts
<1>5. Managed(rec) /\ Managed(Store(rec))
  BY <1>1, <1>2, <1>3, <1>4 DEF Managed
<1>6. QED
  BY <1>1, <1>2, <1>3, <1>4, <1>5

LEMMA InitInductive == Init => Inductive
<1> SUFFICES ASSUME Init
             PROVE  Inductive
  OBVIOUS
<1>1. TypeOK /\ (pc # "round" => todo = {})
  BY InitType DEF TypeInv
<1>2. AllManaged(Nothing)
  BY DEF AllManaged, Ids, Nothing
<1>3. QED
  BY <1>1, <1>2 DEF Init, Inductive, CacheCoherent, PlanExact, SuccessMeansSatisfied,
                    FinalDeletionAccounts

LEMMA StartRoundInductive ==
  ASSUME Inductive, TypeInv', StartRound
  PROVE  Inductive'
<1>1. /\ pc = "idle" /\ ListRecords /\ want' = goal /\ remote' = remote
      /\ cache' = Listing
  BY DEF StartRound, ListRecords
<1>2. AllManaged(cache')
  BY <1>1, ListingExact
<1>3. AllManaged(listed')
  BY <1>1, <1>2 DEF StartRound, Inductive
<1>4. CacheCoherent'
  BY <1>1, ListingExact DEF CacheCoherent
<1>5. PlanExact'
  BY <1>1, ListingExact DEF PlanExact, StartRound
<1>6. SuccessMeansSatisfied'
  <2> SUFFICES ASSUME Undisturbed', pc' = "idle", result' \in {"noop", "updated"}
               PROVE  Live' = want'
    BY DEF SuccessMeansSatisfied
  <2>1. AlreadyUpToDate(Listing, goal)
    BY DEF StartRound
  <2>2. /\ Outdated(ManagedView(remote), goal) = {}
        /\ Unmatched(ManagedView(remote), goal) = {}
    BY <1>1, <2>1, ListingExact DEF AlreadyUpToDate
  <2>3. Live = goal
    BY <2>2 DEF Outdated, Unmatched, Live, Covered
  <2>4. QED
    BY <1>1, <2>3 DEF Live
<1>7. FinalDeletionAccounts'
  BY <1>1 DEF FinalDeletionAccounts, StartRound
<1>8. QED
  BY <1>2, <1>3, <1>4, <1>5, <1>6, <1>7 DEF Inductive, TypeInv

LEMMA RecycleInductive ==
  ASSUME Inductive, TypeInv', NEW id \in IDs, NEW ip \in IPs, RecycleOutdated(id, ip)
  PROVE  Inductive'
<1> DEFINE rec == Store([ip |-> ip, params |-> PlannedParams])
           M == ManagedView(remote)
<1>1. /\ pc = "round" /\ ip \in todo /\ id \in spare
      /\ remote' = [remote EXCEPT ![id] = rec]
      /\ todo' = todo \ {ip} /\ spare' = spare \ {id}
      /\ pc' = pc /\ want' = want /\ listed' = listed
      /\ result' = result /\ edits' = edits
  BY NextSpareFacts DEF RecycleOutdated, Carried, UpdateOf
<1>2. rec \in Record /\ rec \in StoredSlot /\ rec.ip = ip /\ Managed(rec)
      /\ rec # Absent /\ Store(rec) = rec
  BY PlannedRecord
<1>3. cache' = IF cache = NoCache THEN NoCache ELSE [cache EXCEPT ![id] = rec]
  BY <1>2 DEF RecycleOutdated, UpdateOf, CacheSet
<1>4. /\ M \in View /\ remote \in [IDs -> StoredSlot]
      /\ M' = [M EXCEPT ![id] = rec]
      /\ cache # NoCache => cache \in View
  BY <1>1, <1>2, ManagedViewEdit, ManagedViewType DEF Inductive, TypeOK
<1>5. cache' # NoCache => AllManaged(cache')
  BY <1>2, <1>3, <1>4 DEF Inductive, AllManaged, Ids, View
<1>6. CacheCoherent'
  <2> SUFFICES ASSUME Undisturbed', cache' # NoCache, NEW i \in IDs
               PROVE  SameRecord(cache'[i], M'[i])
    BY DEF CacheCoherent
  <2>1. SameRecord(cache[i], M[i])
    BY <1>1, <1>3 DEF Inductive, CacheCoherent, Undisturbed
  <2>2. CASE i = id
    BY <1>2, <1>3, <1>4, <2>2 DEF SameRecord, View
  <2>3. CASE i # id
    BY <1>3, <1>4, <2>1, <2>3 DEF View
  <2>4. QED
    BY <2>2, <2>3
<1>7. PlanExact'
  <2> SUFFICES ASSUME Undisturbed'
               PROVE  todo' = Unmatched(M', want') /\ spare' = Outdated(M', want')
    BY <1>1 DEF PlanExact
  <2>1. todo = Unmatched(M, want) /\ spare = Outdated(M, want)
    BY <1>1 DEF Inductive, PlanExact, Undisturbed
  <2>2. want \in SUBSET IPs /\ id \in Outdated(M, want) /\ rec.ip \in Unmatched(M, want)
    BY <1>1, <1>2, <2>1 DEF Inductive, TypeOK
  <2>3. M' \in View /\ M'[id] = rec /\ \A i \in IDs \ {id} : M'[i] = M[i]
    BY <1>2, <1>4 DEF View, Slot
  <2>4. /\ Outdated(M', want) = Outdated(M, want) \ {id}
        /\ Unmatched(M', want) = Unmatched(M, want) \ {rec.ip}
    <3>1. ASSUME NEW n \in View, n[id] = rec, \A i \in IDs \ {id} : n[i] = M[i]
          PROVE  /\ Outdated(n, want) = Outdated(M, want) \ {id}
                 /\ Unmatched(n, want) = Unmatched(M, want) \ {rec.ip}
      <4> HIDE DEF rec, M
      <4> QED
        BY <1>2, <1>4, <2>2, <3>1, RecycleEdit
    <3>2. QED
      BY <2>3, <3>1
  <2>5. QED
    BY <1>1, <1>2, <2>1, <2>4
<1>8. SuccessMeansSatisfied' /\ FinalDeletionAccounts' /\ AllManaged(listed')
  BY <1>1 DEF SuccessMeansSatisfied, FinalDeletionAccounts, Inductive
<1>9. QED
  BY <1>5, <1>6, <1>7, <1>8 DEF Inductive, TypeInv

LEMMA CreateInductive ==
  ASSUME Inductive, TypeInv', NEW id \in IDs, NEW ip \in IPs, CreateMissing(id, ip)
  PROVE  Inductive'
<1> DEFINE asked == [ip |-> ip, params |-> PlannedParams]
           rec == Store(asked)
           M == ManagedView(remote)
<1>1. /\ pc = "round" /\ ip \in todo /\ spare = {} /\ spare' = spare
      /\ remote' = [remote EXCEPT ![id] = rec]
      /\ todo' = todo \ {ip}
      /\ pc' = pc /\ want' = want /\ listed' = listed
      /\ result' = result /\ edits' = edits
  BY DEF CreateMissing, Carried, CreationOf
<1>2. /\ rec \in Record /\ rec \in StoredSlot /\ rec.ip = ip /\ Managed(rec)
      /\ asked \in Record /\ Managed(asked)
      /\ rec # Absent /\ asked # Absent
      /\ PlannedParams.comment \in ManagedComments
  BY PlannedRecord
<1>3. cache' = IF cache = NoCache THEN NoCache ELSE [cache EXCEPT ![id] = asked]
  BY <1>2 DEF CreateMissing, CacheSet
<1>4. /\ M \in View /\ remote \in [IDs -> StoredSlot]
      /\ M' = [M EXCEPT ![id] = rec]
      /\ cache # NoCache => cache \in View
  BY <1>1, <1>2, ManagedViewEdit, ManagedViewType DEF Inductive, TypeOK
<1>5. M[id] = Absent
  <2>1. remote[id] = Absent
    BY DEF CreateMissing, FreshIDs, Ids
  <2>2. QED
    BY <2>1 DEF ManagedView
<1>6. cache' # NoCache => AllManaged(cache')
  BY <1>2, <1>3, <1>4 DEF Inductive, AllManaged, Ids, View
<1>7. CacheCoherent'
  <2> SUFFICES ASSUME Undisturbed', cache' # NoCache, NEW i \in IDs
               PROVE  SameRecord(cache'[i], M'[i])
    BY DEF CacheCoherent
  <2>1. SameRecord(cache[i], M[i])
    BY <1>1, <1>3 DEF Inductive, CacheCoherent, Undisturbed
  <2>2. CASE i = id
    BY <1>2, <1>3, <1>4, <2>2 DEF SameRecord, View
  <2>3. CASE i # id
    BY <1>3, <1>4, <2>1, <2>3 DEF View
  <2>4. QED
    BY <2>2, <2>3
<1>8. PlanExact'
  <2> SUFFICES ASSUME Undisturbed'
               PROVE  todo' = Unmatched(M', want') /\ spare' = Outdated(M', want')
    BY <1>1 DEF PlanExact
  <2>1. todo = Unmatched(M, want) /\ spare = Outdated(M, want)
    BY <1>1 DEF Inductive, PlanExact, Undisturbed
  <2>2. want \in SUBSET IPs /\ rec.ip \in Unmatched(M, want)
    BY <1>1, <1>2, <2>1 DEF Inductive, TypeOK
  <2>3. M' \in View /\ M'[id] = rec /\ \A i \in IDs \ {id} : M'[i] = M[i]
    BY <1>2, <1>4 DEF View, Slot
  <2>4. /\ Outdated(M', want) = Outdated(M, want)
        /\ Unmatched(M', want) = Unmatched(M, want) \ {rec.ip}
    <3>1. ASSUME NEW n \in View, n[id] = rec, \A i \in IDs \ {id} : n[i] = M[i]
          PROVE  /\ Outdated(n, want) = Outdated(M, want)
                 /\ Unmatched(n, want) = Unmatched(M, want) \ {rec.ip}
      <4> HIDE DEF rec, M
      <4> QED
        BY <1>2, <1>4, <1>5, <2>2, <3>1, CreateEdit
    <3>2. QED
      BY <2>3, <3>1
  <2>5. QED
    BY <1>1, <1>2, <2>1, <2>4
<1>9. SuccessMeansSatisfied' /\ FinalDeletionAccounts' /\ AllManaged(listed')
  BY <1>1 DEF SuccessMeansSatisfied, FinalDeletionAccounts, Inductive
<1>10. QED
  BY <1>6, <1>7, <1>8, <1>9 DEF Inductive, TypeInv

\* A confirmed deletion keeps an undisturbed cache right, in either mode.
LEMMA DeletionKeepsCache ==
  ASSUME Inductive, NEW id \in IDs,
         remote' = Carried(DeletionOf(id)), CacheSet(id, Absent)
  PROVE  /\ ManagedView(remote') = [ManagedView(remote) EXCEPT ![id] = Absent]
         /\ ManagedView(remote) \in View
         /\ cache' # NoCache => AllManaged(cache')
         /\ (cache' # NoCache =>
               \A i \in IDs : SameRecord(cache[i], ManagedView(remote)[i]))
             => (cache' # NoCache =>
                   \A i \in IDs : SameRecord(cache'[i], ManagedView(remote')[i]))
<1> DEFINE M == ManagedView(remote)
<1>1. remote' = [remote EXCEPT ![id] = Absent]
  BY DEF Carried, DeletionOf
<1>2. /\ remote \in [IDs -> StoredSlot] /\ Absent \in StoredSlot /\ ~Managed(Absent)
      /\ cache # NoCache => cache \in View
      /\ cache # NoCache => AllManaged(cache)
  BY DEF Inductive, TypeOK, StoredSlot, Managed
<1>3. M \in View /\ M' = [M EXCEPT ![id] = Absent]
  <2>1. M \in View
    BY <1>2, ManagedViewType
  <2>2. ManagedView([remote EXCEPT ![id] = Absent]) = [M EXCEPT ![id] = Absent]
    BY <1>2, ManagedViewEdit
  <2>3. QED
    BY <1>1, <2>1, <2>2
<1>4. cache' = IF cache = NoCache THEN NoCache ELSE [cache EXCEPT ![id] = Absent]
  BY DEF CacheSet
<1>5. cache' # NoCache => AllManaged(cache')
  BY <1>2, <1>4 DEF AllManaged, Ids, View
<1>6. ASSUME cache' # NoCache, \A i \in IDs : SameRecord(cache[i], M[i]), NEW i \in IDs
      PROVE  SameRecord(cache'[i], M'[i])
  <2>1. CASE i = id
    BY <1>2, <1>3, <1>4, <1>6, <2>1 DEF SameRecord, View
  <2>2. CASE i # id
    BY <1>2, <1>3, <1>4, <1>6, <2>2 DEF View
  <2>3. QED
    BY <2>1, <2>2
<1>7. QED
  BY <1>3, <1>5, <1>6

LEMMA DeleteInductive ==
  ASSUME Inductive, TypeInv', NEW id \in IDs, DeleteOutdated(id)
  PROVE  Inductive'
<1> DEFINE M == ManagedView(remote)
<1>1. /\ pc = "round" /\ todo = {} /\ todo' = todo /\ id \in spare
      /\ remote' = Carried(DeletionOf(id)) /\ CacheSet(id, Absent)
      /\ spare' = spare \ {id}
      /\ pc' = pc /\ want' = want /\ listed' = listed
      /\ result' = result /\ edits' = edits
  BY NextSpareFacts DEF DeleteOutdated
<1>2. cache' # NoCache => AllManaged(cache')
  BY <1>1, DeletionKeepsCache
<1>3. CacheCoherent'
  <2> SUFFICES ASSUME Undisturbed', cache' # NoCache
               PROVE  \A i \in IDs : SameRecord(cache'[i], M'[i])
    BY DEF CacheCoherent
  <2>1. cache # NoCache
    BY <1>1 DEF CacheSet
  <2>2. \A i \in IDs : SameRecord(cache[i], M[i])
    BY <1>1, <2>1 DEF Inductive, CacheCoherent, Undisturbed
  <2>3. QED
    BY <1>1, <2>2, DeletionKeepsCache
<1>4. PlanExact'
  <2> SUFFICES ASSUME Undisturbed'
               PROVE  todo' = Unmatched(M', want') /\ spare' = Outdated(M', want')
    BY <1>1 DEF PlanExact
  <2>1. todo = Unmatched(M, want) /\ spare = Outdated(M, want)
    BY <1>1 DEF Inductive, PlanExact, Undisturbed
  <2>2. /\ M \in View /\ M' = [M EXCEPT ![id] = Absent]
        /\ want \in SUBSET IPs /\ id \in Outdated(M, want)
    BY <1>1, <2>1, DeletionKeepsCache DEF Inductive, TypeOK
  <2>3. M' \in View /\ M'[id] = Absent /\ \A i \in IDs \ {id} : M'[i] = M[i]
    BY <2>2 DEF View, Slot
  <2>4. /\ Outdated(M', want) = Outdated(M, want) \ {id}
        /\ Unmatched(M', want) = Unmatched(M, want)
    <3>1. ASSUME NEW n \in View, n[id] = Absent, \A i \in IDs \ {id} : n[i] = M[i]
          PROVE  /\ Outdated(n, want) = Outdated(M, want) \ {id}
                 /\ Unmatched(n, want) = Unmatched(M, want)
      BY <2>2, <3>1, DeleteEdit
    <3>2. QED
      BY <2>3, <3>1
  <2>5. QED
    BY <1>1, <2>1, <2>2, <2>4
<1>5. SuccessMeansSatisfied' /\ FinalDeletionAccounts' /\ AllManaged(listed')
  BY <1>1 DEF SuccessMeansSatisfied, FinalDeletionAccounts, Inductive
<1>6. QED
  BY <1>2, <1>3, <1>4, <1>5 DEF Inductive, TypeInv

\* Giving a round up, whatever became of its last call.
LEMMA GiveUpInductive ==
  ASSUME Inductive, TypeInv', CallErrs \/ CallNotSent
  PROVE  Inductive'
<1>1. AllManaged(Nothing)
  BY DEF AllManaged, Ids, Nothing
<1>2. pc' = "idle" /\ result' = "failed" /\ AllManaged(listed')
  BY <1>1 DEF CallErrs, CallNotSent, Finish
<1>3. cache' # NoCache => AllManaged(cache') /\ CacheCoherent'
  BY <1>2 DEF CallErrs, Invalidate, CallNotSent, Finish, Inductive, CacheCoherent, Undisturbed
<1>4. CacheCoherent' /\ PlanExact' /\ SuccessMeansSatisfied' /\ FinalDeletionAccounts'
  BY <1>2, <1>3 DEF CacheCoherent, PlanExact, SuccessMeansSatisfied, FinalDeletionAccounts
<1>5. QED
  BY <1>2, <1>3, <1>4 DEF Inductive, TypeInv

LEMMA RoundDoneInductive ==
  ASSUME Inductive, TypeInv', RoundDone
  PROVE  Inductive'
<1> DEFINE M == ManagedView(remote)
<1>1. AllManaged(Nothing)
  BY DEF AllManaged, Ids, Nothing
<1>2. /\ pc = "round" /\ pc' = "idle" /\ todo = {} /\ spare = {}
      /\ remote' = remote /\ cache' = cache /\ want' = want /\ edits' = edits
      /\ AllManaged(listed')
  BY <1>1 DEF RoundDone, Finish
<1>3. CacheCoherent'
  BY <1>2 DEF Inductive, CacheCoherent, Undisturbed
<1>4. SuccessMeansSatisfied'
  <2> SUFFICES ASSUME Undisturbed
               PROVE  Live = want
    BY <1>2 DEF SuccessMeansSatisfied, Undisturbed, Live
  <2>1. Unmatched(M, want) = {} /\ Outdated(M, want) = {}
    BY <1>2 DEF Inductive, PlanExact
  <2>2. QED
    BY <2>1 DEF Unmatched, Outdated, Live, Covered
<1>5. PlanExact' /\ FinalDeletionAccounts'
  BY <1>2 DEF PlanExact, FinalDeletionAccounts
<1>6. QED
  BY <1>2, <1>3, <1>4, <1>5 DEF Inductive, TypeInv

\* A final deletion sets out with every managed record.
LEMMA StartFinalDeleteInductive ==
  ASSUME Inductive, TypeInv', StartFinalDelete
  PROVE  Inductive'
<1>1. /\ pc = "idle" /\ ListRecords /\ cache' = Listing /\ remote' = remote
      /\ pc' \in {"final", "stopped"} /\ listed' = listed
      /\ Ids(Listing) # {} => pc' = "final" /\ spare' = Ids(Listing)
  BY DEF StartFinalDelete, ListRecords, Stop
<1>2. AllManaged(cache') /\ AllManaged(listed')
  BY <1>1, ListingExact DEF Inductive
<1>3. FinalDeletionAccounts' /\ PlanExact'
  <2> SUFFICES ASSUME Undisturbed'
               PROVE  /\ pc' = "final" => Ids(ManagedView(remote)) = spare'
                      /\ pc' = "stopped" => Live = {}
    BY <1>1 DEF FinalDeletionAccounts, PlanExact, Live
  <2>1. Ids(Listing) = Ids(ManagedView(remote)) /\ Covered(Listing) = Live
    BY <1>1, ListingExact
  <2>2. Ids(Listing) = {} => Live = {}
    BY <2>1 DEF Covered
  <2>3. Ids(Listing) = {} => pc' = "stopped"
    BY DEF StartFinalDelete, Stop
  <2>4. QED
    BY <1>1, <2>1, <2>2, <2>3
<1>4. CacheCoherent' /\ SuccessMeansSatisfied'
  BY <1>1 DEF CacheCoherent, SuccessMeansSatisfied
<1>5. QED
  BY <1>2, <1>3, <1>4 DEF Inductive, TypeInv

\* A deletion, confirmed or not, accounts for its record.
LEMMA FinalDeleteInductive ==
  ASSUME Inductive, TypeInv', NEW id \in IDs,
         FinalDeleteRecord(id) \/ FinalDeleteErrs(id)
  PROVE  Inductive'
<1> DEFINE M == ManagedView(remote)
<1>1. /\ pc = "final" /\ pc' \in {"final", "stopped"}
      /\ listed' = listed /\ edits' = edits
      /\ spare' = spare \ {id} \/ pc' = "stopped"
      /\ pc' = "stopped" => result' = "failed"
  BY DEF FinalDeleteRecord, FinalDeleteErrs, Stop
<1>2. \/ remote' = remote /\ unconfirmed' = unconfirmed \cup {id}
      \/ remote' = Carried(DeletionOf(id)) /\ unconfirmed \subseteq unconfirmed'
  BY DEF FinalDeleteRecord, FinalDeleteErrs, Unanswered
<1>3. cache' # NoCache => AllManaged(cache')
  <2>1. CASE FinalDeleteRecord(id)
    BY <2>1, DeletionKeepsCache DEF FinalDeleteRecord
  <2>2. CASE FinalDeleteErrs(id)
    BY <2>2 DEF FinalDeleteErrs, Inductive
  <2>3. QED
    BY <2>1, <2>2
<1>4. FinalDeletionAccounts' /\ PlanExact'
  <2> SUFFICES ASSUME Undisturbed', pc' = "final"
               PROVE  /\ Ids(ManagedView(remote')) \subseteq spare' \cup unconfirmed'
                      /\ spare' \subseteq Ids(ManagedView(remote'))
    BY <1>1 DEF FinalDeletionAccounts, PlanExact
  <2>1. Ids(M) \subseteq spare \cup unconfirmed /\ spare \subseteq Ids(M)
    BY <1>1 DEF Inductive, FinalDeletionAccounts, PlanExact, Undisturbed
  <2>2. CASE remote' = remote /\ unconfirmed' = unconfirmed \cup {id}
    BY <1>1, <2>1, <2>2
  <2>3. CASE remote' = Carried(DeletionOf(id)) /\ unconfirmed \subseteq unconfirmed'
    <3>1. remote \in [IDs -> StoredSlot] /\ Absent \in StoredSlot /\ ~Managed(Absent)
      BY DEF Inductive, TypeOK, StoredSlot, Managed
    <3>2. remote' = [remote EXCEPT ![id] = Absent]
      BY <2>3 DEF Carried, DeletionOf
    <3>3. /\ ManagedView(remote') = [M EXCEPT ![id] = Absent]
          /\ M \in View
      BY <3>1, <3>2, ManagedViewEdit, ManagedViewType
    <3>4. Ids(ManagedView(remote')) = Ids(M) \ {id}
      BY <3>3 DEF Ids, View
    <3>5. QED
      BY <1>1, <2>1, <2>3, <3>4
  <2>4. QED
    BY <1>2, <2>2, <2>3
<1>5. CacheCoherent' /\ SuccessMeansSatisfied' /\ AllManaged(listed')
  BY <1>1 DEF CacheCoherent, SuccessMeansSatisfied, Inductive
<1>6. QED
  BY <1>3, <1>4, <1>5 DEF Inductive, TypeInv

\* The final deletion ends well only when every deletion was confirmed.
LEMMA FinalDeleteDoneInductive ==
  ASSUME Inductive, TypeInv', FinalDeleteDone
  PROVE  Inductive'
<1>1. /\ pc = "final" /\ spare = {} /\ pc' = "stopped"
      /\ result' \in {"noop", "updated"} => unconfirmed = {}
      /\ remote' = remote /\ cache' = cache /\ listed' = listed /\ edits' = edits
  BY DEF FinalDeleteDone, Stop
<1>2. FinalDeletionAccounts'
  <2> SUFFICES ASSUME Undisturbed, unconfirmed = {}
               PROVE  Live = {}
    BY <1>1 DEF FinalDeletionAccounts, Undisturbed, Live
  <2>1. Ids(ManagedView(remote)) = {}
    BY <1>1 DEF Inductive, FinalDeletionAccounts
  <2>2. QED
    BY <2>1 DEF Live, Covered
<1>3. CacheCoherent' /\ PlanExact' /\ SuccessMeansSatisfied'
  BY <1>1 DEF CacheCoherent, PlanExact, SuccessMeansSatisfied
<1>4. QED
  BY <1>1, <1>2, <1>3 DEF Inductive, TypeInv

\* Neither a listing that fails nor a restart can make a false promise.
LEMMA ForgetInductive ==
  ASSUME Inductive, TypeInv',
         ListFails("idle") \/ ListFails("stopped") \/ Restart
  PROVE  Inductive'
<1>1. AllManaged(Nothing)
  BY DEF AllManaged, Ids, Nothing
<1>2. /\ cache' = NoCache /\ pc' \in {"idle", "stopped"}
      /\ result' \in {"failed", "none"} /\ AllManaged(listed')
  BY <1>1 DEF ListFails, Restart, plan, Inductive
<1>3. QED
  BY <1>2 DEF Inductive, TypeInv, CacheCoherent, PlanExact, SuccessMeansSatisfied,
              FinalDeletionAccounts

\* The records stay as they are, and so does what is believed of them.
LEMMA QuietInductive ==
  ASSUME Inductive, TypeInv',
         \/ Expire \/ AddressChange \/ UNCHANGED vars
         \/ \E req \in late : LateLost(req)
  PROVE  Inductive'
<1>1. /\ cache' \in {cache, NoCache}
      /\ UNCHANGED <<remote, pc, want, listed, todo, spare, unconfirmed, result, edits>>
  BY DEF Expire, AddressChange, LateLost, vars, process, plan
<1>2. CacheCoherent'
  BY <1>1 DEF Inductive, CacheCoherent, Undisturbed
<1>3. PlanExact' /\ SuccessMeansSatisfied' /\ FinalDeletionAccounts'
  BY <1>1 DEF Inductive, PlanExact, SuccessMeansSatisfied, FinalDeletionAccounts,
              Undisturbed, Live
<1>4. QED
  BY <1>1, <1>2, <1>3 DEF Inductive, TypeInv

\* Nothing is promised about records that somebody else has changed.
LEMMA DisturbedInductive ==
  ASSUME Inductive, TypeInv',
         \/ \E id \in IDs, slot \in StoredSlot : OutsideEdit(id, slot)
         \/ \E req \in late : LateLands(req)
  PROVE  Inductive'
<1>1. edits' = edits + 1 /\ edits \in Nat /\ cache' = cache /\ listed' = listed
  BY DEF OutsideEdit, LateLands, process, plan, Inductive, TypeOK
<1>2. ~Undisturbed'
  BY <1>1 DEF Undisturbed
<1>3. QED
  BY <1>1, <1>2 DEF Inductive, TypeInv, CacheCoherent, PlanExact, SuccessMeansSatisfied,
                    FinalDeletionAccounts

\* Every step preserves the inductive invariant.
LEMMA NextInductive == Inductive /\ [Next]_vars => Inductive'
<1> SUFFICES ASSUME Inductive, [Next]_vars
             PROVE  Inductive'
  OBVIOUS
<1>1. TypeInv'
  BY NextType DEF Inductive, TypeInv
<1>2. CASE RoundStep
  BY <1>1, <1>2, ForgetInductive, StartRoundInductive, RecycleInductive, CreateInductive,
     DeleteInductive, GiveUpInductive, RoundDoneInductive DEF RoundStep
<1>3. CASE FinalStep
  BY <1>1, <1>3, ForgetInductive, StartFinalDeleteInductive, FinalDeleteInductive,
     FinalDeleteDoneInductive DEF FinalStep
<1>4. CASE Disturbance
  BY <1>1, <1>4, QuietInductive, DisturbedInductive DEF Disturbance
<1>5. CASE Restart \/ Expire \/ UNCHANGED vars \/ \E req \in late : LateLost(req)
  BY <1>1, <1>5, ForgetInductive, QuietInductive
<1>6. QED
  BY <1>2, <1>3, <1>4, <1>5 DEF Next

\* The inductive invariant holds in every reachable state.
THEOREM InductiveInvariant == Spec => []Inductive
  BY InitInductive, NextInductive, PTL DEF Spec

\* The cached list is the list of managed records whenever nobody else has changed
\* the records: setter rounds planned from the cache are planned from the truth.
THEOREM CacheIsCoherent == Spec => []CacheCoherent
<1>1. Inductive => CacheCoherent
  BY DEF Inductive
<1>2. QED
  BY <1>1, InductiveInvariant, PTL

\* Rounds that answer ResponseNoop or ResponseUpdated have left exactly the
\* wanted addresses behind.
THEOREM SuccessIsTrue == Spec => []SuccessMeansSatisfied
<1>1. Inductive => SuccessMeansSatisfied
  BY DEF Inductive
<1>2. QED
  BY <1>1, InductiveInvariant, PTL

\* Final deletions account for every managed record, those that were not
\* confirmed included.
THEOREM FinalDeletionIsComplete == Spec => []FinalDeletionAccounts
<1>1. Inductive => FinalDeletionAccounts
  BY DEF Inductive
<1>2. QED
  BY <1>1, InductiveInvariant, PTL


-----------------------------------------------------------------------------
(* What the updater may write                                              *)

\* Whatever a round does to the records is a call of its plan.
LEMMA RoundCalls ==
  ASSUME RoundStep
  PROVE  \/ remote' = remote
         \/ pc = "round" /\ \E req \in NextCalls : remote' = Carried(req)
<1>1. ASSUME NEW id \in IDs, NEW ip \in IPs, RecycleOutdated(id, ip)
      PROVE  pc = "round" /\ UpdateOf(id, ip) \in NextCalls /\ remote' = Carried(UpdateOf(id, ip))
  BY <1>1, NextSpareFacts DEF RecycleOutdated, NextCalls
<1>2. ASSUME NEW id \in IDs, NEW ip \in IPs, CreateMissing(id, ip)
      PROVE  pc = "round" /\ CreationOf(id, ip) \in NextCalls /\ remote' = Carried(CreationOf(id, ip))
  BY <1>2 DEF CreateMissing, NextCalls
<1>3. ASSUME NEW id \in IDs, DeleteOutdated(id)
      PROVE  pc = "round" /\ DeletionOf(id) \in NextCalls /\ remote' = Carried(DeletionOf(id))
  BY <1>3 DEF DeleteOutdated, NextCalls
<1>4. CASE CallErrs
  BY <1>4 DEF CallErrs, Unanswered
<1>5. QED
  BY <1>1, <1>2, <1>3, <1>4 DEF RoundStep, ListFails, StartRound, CallNotSent, RoundDone

\* Every change the updater makes is one call of its plan: the recycling of an
\* outdated record or the creation of one for an address that is still to be
\* served, or a deletion of what is left of the plan.
LEMMA OwnChange ==
  ASSUME Inductive, OwnStep, NEW id \in IDs, remote'[id] # remote[id]
  PROVE  \/ /\ pc = "round"
            /\ \E ip \in todo :
                 remote'[id] = Store([ip |-> ip, params |-> PlannedParams])
            /\ id \in spare \/ remote[id] = Absent
         \/ pc \in {"round", "final"} /\ remote'[id] = Absent /\ id \in spare
<1> USE DEF Inductive, TypeOK
<1>1. ASSUME NEW req, req \in NextCalls, remote' = Carried(req), pc = "round"
      PROVE  \/ /\ \E ip \in todo :
                     remote'[id] = Store([ip |-> ip, params |-> PlannedParams])
                /\ id \in spare \/ remote[id] = Absent
             \/ remote'[id] = Absent /\ id \in spare
  <2>1. req \in Request
    BY <1>1, NextCallsType
  <2>2. id = req.id /\ remote'[id] = req.rec
    BY <1>1, <2>1 DEF Carried, Request
  <2>3. CASE todo = {}
    BY <1>1, <2>2, <2>3, NextSpareFacts DEF NextCalls, DeletionOf
  <2>4. CASE todo # {} /\ spare = {}
    <3>1. PICK i \in FreshIDs, ip \in todo : req = CreationOf(i, ip)
      BY <1>1, <2>4 DEF NextCalls
    <3>2. i \in IDs /\ remote[i] = Absent
      BY DEF FreshIDs, Ids
    <3>3. req.id = i /\ req.rec = Store([ip |-> ip, params |-> PlannedParams])
      BY <3>1 DEF CreationOf
    <3>4. QED
      BY <2>2, <3>2, <3>3
  <2>5. CASE todo # {} /\ spare # {}
    <3>1. PICK i \in NextSpare, ip \in todo : req = UpdateOf(i, ip)
      BY <1>1, <2>5 DEF NextCalls
    <3>2. req.id = i /\ req.rec = Store([ip |-> ip, params |-> PlannedParams])
      BY <3>1 DEF UpdateOf
    <3>3. QED
      BY <2>2, <3>2, NextSpareFacts
  <2>6. QED
    BY <2>3, <2>4, <2>5
<1>2. CASE RoundStep
  BY <1>1, <1>2, RoundCalls
<1>3. ASSUME NEW i \in IDs, FinalDeleteRecord(i) \/ FinalDeleteErrs(i)
      PROVE  pc = "final" /\ remote'[id] = Absent /\ id \in spare
  <2>1. pc = "final" /\ i \in spare /\ remote' = [remote EXCEPT ![i] = Absent]
    BY <1>3 DEF FinalDeleteRecord, FinalDeleteErrs, Unanswered, Carried, DeletionOf
  <2>2. QED
    BY <2>1
<1>4. CASE FinalStep
  BY <1>3, <1>4 DEF FinalStep, ListFails, StartFinalDelete, FinalDeleteDone
<1>5. QED
  BY <1>2, <1>4 DEF OwnStep

\* While nobody else interferes, records that the selector does not match are
\* neither changed nor written.
THEOREM OwnershipIsRespected == Spec => OwnershipRespected
<1>1. ASSUME Inductive, OwnStep, Undisturbed, NEW id \in IDs, remote'[id] # remote[id]
      PROVE  /\ remote[id] = Absent \/ Managed(remote[id])
             /\ remote'[id] = Absent \/ Managed(remote'[id])
  <2>1. id \in spare /\ pc \in {"round", "final"} => Managed(remote[id])
    BY <1>1 DEF Inductive, PlanExact, Outdated, Ids, ManagedView
  <2>2. \A ip \in todo : Managed(Store([ip |-> ip, params |-> PlannedParams]))
    BY <1>1, PlannedRecord DEF Inductive, TypeOK
  <2>3. QED
    BY <1>1, <2>1, <2>2, OwnChange
<1>2. Inductive =>
        (OwnStep /\ Undisturbed =>
           \A id \in IDs : remote'[id] # remote[id] =>
             /\ remote[id] = Absent \/ Managed(remote[id])
             /\ remote'[id] = Absent \/ Managed(remote'[id]))
  BY <1>1
<1>3. QED
  BY <1>2, InductiveInvariant, PTL DEF OwnershipRespected

\* While nobody else interferes, no record is written for an address that is
\* already served.
THEOREM DuplicatesAreNotCreated == Spec => NoNewDuplicates
<1>1. ASSUME Inductive, OwnStep, Undisturbed,
             NEW id \in IDs, remote'[id] # remote[id], remote'[id] # Absent
      PROVE  remote'[id].ip \notin Live
  <2>1. PICK ip \in todo : remote'[id] = Store([ip |-> ip, params |-> PlannedParams])
    BY <1>1, OwnChange
  <2>2. pc = "round"
    BY <1>1, OwnChange
  <2>3. remote'[id].ip = ip
    BY <1>1, <2>1, PlannedRecord DEF Inductive, TypeOK
  <2>4. ip \notin Live
    BY <1>1, <2>2 DEF Inductive, PlanExact, Unmatched, Live
  <2>5. QED
    BY <2>3, <2>4
<1>2. Inductive =>
        (OwnStep /\ Undisturbed =>
           \A id \in IDs : remote'[id] # remote[id] /\ remote'[id] # Absent =>
             remote'[id].ip \notin Live)
  BY <1>1
<1>3. QED
  BY <1>2, InductiveInvariant, PTL DEF NoNewDuplicates

-----------------------------------------------------------------------------
(* The unit keeps its promises                                             *)

\* The addresses served are addresses.
LEMMA LiveType ==
  ASSUME NEW r \in [IDs -> StoredSlot]
  PROVE  Covered(ManagedView(r)) \in SUBSET IPs
<1>1. \A id \in IDs : ManagedView(r)[id] # Absent => ManagedView(r)[id].ip \in IPs
  BY DEF ManagedView, StoredSlot, Record
<1>2. QED
  BY <1>1 DEF Covered, Ids

\* A call of the plan that is carried out on undisturbed records serves a missing
\* address and takes no wanted one away, or, when all are served, removes a
\* stale one.
LEMMA CallImproves ==
  ASSUME Inductive, Undisturbed, pc = "round",
         NEW req \in NextCalls, NEW r, r = Carried(req)
  PROVE  \/ \E t \in want \ Live :
              t \in Covered(ManagedView(r)) /\ Live \cap want \subseteq Covered(ManagedView(r))
                /\ Covered(ManagedView(r)) \subseteq Live \cup {t}
         \/ /\ want \subseteq Live
            /\ Live \cap want \subseteq Covered(ManagedView(r))
            /\ Covered(ManagedView(r)) \subseteq Live
<1> DEFINE M == ManagedView(remote)
           N == ManagedView(r)
<1>1. /\ remote \in [IDs -> StoredSlot] /\ M \in View
      /\ Absent \in StoredSlot /\ ~Managed(Absent)
      /\ want \in SUBSET IPs
      /\ todo = want \ Live /\ spare = Outdated(M, want)
  BY ManagedViewType DEF Inductive, TypeOK, StoredSlot, Managed, PlanExact, Unmatched, Live
<1>2. /\ req \in Request
      /\ r = [remote EXCEPT ![req.id] = req.rec]
  BY NextCallsType DEF Inductive, Carried
<1>3. N = [M EXCEPT ![req.id] = IF Managed(req.rec) THEN req.rec ELSE Absent]
  <2>1. req.id \in IDs /\ req.rec \in StoredSlot
    BY <1>2 DEF Request
  <2>2. ManagedView([remote EXCEPT ![req.id] = req.rec]) =
          [M EXCEPT ![req.id] = IF Managed(req.rec) THEN req.rec ELSE Absent]
    BY <1>1, <2>1, ManagedViewEdit
  <2>3. QED
    BY <1>2, <2>2
<1>4. ASSUME NEW ip \in todo, req.rec = Store([ip |-> ip, params |-> PlannedParams]),
             M[req.id] = Absent \/ req.id \in spare
      PROVE  /\ ip \in Covered(N)
             /\ Live \cap want \subseteq Covered(N)
             /\ Covered(N) \subseteq Live \cup {ip}
  <2>1. Managed(req.rec) /\ req.rec.ip = ip /\ req.rec # Absent
    BY <1>1, <1>4, PlannedRecord
  <2>2. /\ req.id \in IDs /\ N[req.id] = req.rec
        /\ \A i \in IDs \ {req.id} : N[i] = M[i]
    BY <1>1, <1>2, <1>3, <2>1 DEF Request, View
  <2>3. M[req.id] = Absent \/ M[req.id].ip \notin want
    BY <1>1, <1>4 DEF Outdated
  <2>4. ip \in Covered(N)
    BY <2>1, <2>2 DEF Covered, Ids
  <2>5. Live \cap want \subseteq Covered(N)
    BY <2>2, <2>3 DEF Live, Covered, Ids
  <2>6. Covered(N) \subseteq Live \cup {ip}
    BY <2>1, <2>2 DEF Live, Covered, Ids
  <2>7. QED
    BY <2>4, <2>5, <2>6
<1>5. CASE todo = {}
  <2>1. PICK id \in spare : req = DeletionOf(id)
    BY <1>5, NextSpareFacts DEF NextCalls
  <2>2. req.id = id /\ req.rec = Absent /\ id \in IDs /\ M[id].ip \notin want
    BY <1>1, <2>1 DEF DeletionOf, Outdated, Ids
  <2>3. N[id] = Absent /\ \A i \in IDs \ {id} : N[i] = M[i]
    BY <1>1, <1>3, <2>2 DEF View
  <2>4. Covered(N) \subseteq Live /\ Live \cap want \subseteq Covered(N)
    BY <2>2, <2>3 DEF Live, Covered, Ids
  <2>5. QED
    BY <1>1, <1>5, <2>4
<1>6. CASE todo # {} /\ spare = {}
  <2>1. PICK id \in FreshIDs, ip \in todo : req = CreationOf(id, ip)
    BY <1>6 DEF NextCalls
  <2>2. /\ req.id = id /\ req.rec = Store([ip |-> ip, params |-> PlannedParams])
        /\ M[id] = Absent
    BY <2>1 DEF CreationOf, FreshIDs, Ids, ManagedView
  <2>3. QED
    BY <1>1, <1>4, <2>2
<1>7. CASE todo # {} /\ spare # {}
  <2>1. PICK id \in spare, ip \in todo : req = UpdateOf(id, ip)
    BY <1>7, NextSpareFacts DEF NextCalls
  <2>2. req.id = id /\ req.rec = Store([ip |-> ip, params |-> PlannedParams])
    BY <2>1 DEF UpdateOf
  <2>3. QED
    BY <1>1, <1>4, <2>2
<1>8. QED
  BY <1>5, <1>6, <1>7

\* The same in the terms of the abstract specification.
LEMMA CallImprovesPromise ==
  ASSUME Inductive, TypeInv', pc = "round",
         remote' = remote \/ \E req \in NextCalls : remote' = Carried(req)
  PROVE  Promise!Improve
<1>1. Live' \in SUBSET IPs
  BY LiveType DEF TypeInv, TypeOK, Live
<1>2. CASE remote' = remote
  BY <1>2 DEF Promise!Improve, Live
<1>3. CASE ~Undisturbed
  BY <1>1, <1>3 DEF Promise!Improve
<1>4. ASSUME Undisturbed, NEW req \in NextCalls, remote' = Carried(req)
      PROVE  Promise!Improve
  <2> DEFINE gone == Live \ Live'
  <2>1. \/ \E t \in want \ Live :
             t \in Live' /\ Live \cap want \subseteq Live' /\ Live' \subseteq Live \cup {t}
        \/ want \subseteq Live /\ Live \cap want \subseteq Live' /\ Live' \subseteq Live
    BY <1>4, CallImproves DEF Live
  <2>2. ASSUME NEW t \in want \ Live,
               t \in Live', Live \cap want \subseteq Live', Live' \subseteq Live \cup {t}
        PROVE  Promise!Improve
    <3>1. gone \in SUBSET (Live \ want) /\ Live' = (Live \ gone) \cup {t}
      BY <2>2
    <3>2. QED
      BY <3>1 DEF Promise!Improve
  <2>3. ASSUME want \subseteq Live, Live \cap want \subseteq Live', Live' \subseteq Live
        PROVE  Promise!Improve
    <3>1. gone \in SUBSET (Live \ want) /\ Live' = Live \ gone
      BY <2>3
    <3>2. QED
      BY <2>3, <3>1 DEF Promise!Improve
  <2>4. QED
    BY <2>1, <2>2, <2>3
<1>5. QED
  BY <1>2, <1>3, <1>4

\* Every step of the unit is a step of the abstract specification or none.
LEMMA PromiseStep ==
  ASSUME Inductive, Inductive', [Next]_vars
  PROVE  [Promise!Next]_(Promise!served)
<1> USE DEF Promise!served
<1>0. /\ Live \in SUBSET IPs /\ Live' \in SUBSET IPs
      /\ goal \in SUBSET IPs /\ pc \in {"idle", "round", "final", "stopped"}
  BY LiveType DEF Inductive, TypeOK, Live
<1>1. TypeInv'
  BY DEF Inductive, TypeInv
<1>2. ASSUME NEW next \in {"idle", "stopped"}, ListFails(next)
      PROVE  Promise!GiveUp
  BY <1>2 DEF ListFails, Promise!GiveUp, plan, Live, Undisturbed
<1>3. CASE StartRound
  <2>1. /\ pc = "idle" /\ remote' = remote /\ want' = goal /\ edits' \in {edits, 0}
        /\ \/ pc' = "round" /\ result' = "none"
           \/ pc' = "idle" /\ result' = "noop"
    BY <1>3 DEF StartRound, ListRecords
  <2>2. Promise!Look /\ want' \in SUBSET IPs
    BY <1>0, <2>1 DEF Promise!Look, Undisturbed, Live
  <2>3. Undisturbed' /\ pc' = "idle" => Live' = want' \/ result' = "none"
    BY <2>1 DEF Inductive, SuccessMeansSatisfied
  <2>4. Promise!BeginRound
    BY <2>1, <2>2, <2>3 DEF Promise!BeginRound, Promise!EndWell
  <2>5. QED
    BY <2>4 DEF Promise!Next
<1>4. ASSUME \/ \E id \in IDs, ip \in IPs : RecycleOutdated(id, ip)
             \/ \E id \in IDs, ip \in IPs : CreateMissing(id, ip)
             \/ \E id \in IDs : DeleteOutdated(id)
             \/ CallErrs
             \/ CallNotSent
      PROVE  Promise!Work
  <2>1. /\ pc = "round" /\ want' = want /\ edits' = edits
        /\ \/ pc' = pc /\ result' = result
           \/ pc' = "idle" /\ result' = "failed"
    BY <1>4 DEF RecycleOutdated, CreateMissing, DeleteOutdated, CallErrs, CallNotSent, Finish
  <2>2. remote' = remote \/ \E req \in NextCalls : remote' = Carried(req)
    BY <1>4, RoundCalls DEF RoundStep
  <2>3. Promise!Improve
    BY <1>1, <2>1, <2>2, CallImprovesPromise
  <2>4. QED
    BY <2>1, <2>3 DEF Promise!Work, Undisturbed
<1>5. CASE RoundDone
  <2>1. /\ pc = "round" /\ pc' = "idle" /\ result' = "updated"
        /\ remote' = remote /\ want' = want /\ edits' = edits
    BY <1>5 DEF RoundDone, Finish
  <2>2. Undisturbed' => Live' = want'
    BY <2>1 DEF Inductive, SuccessMeansSatisfied
  <2>3. Promise!EndRound
    BY <2>1, <2>2 DEF Promise!EndRound, Promise!EndWell, Live, Undisturbed
  <2>4. QED
    BY <2>3 DEF Promise!Next
<1>6. CASE StartFinalDelete
  <2>1. /\ pc = "idle" /\ remote' = remote /\ want' = want /\ edits' \in {edits, 0}
        /\ \/ pc' = "final" /\ result' = "none"
           \/ pc' = "stopped" /\ result' = "noop"
    BY <1>6 DEF StartFinalDelete, ListRecords, Stop
  <2>2. Promise!Look
    BY <2>1 DEF Promise!Look, Undisturbed, Live
  <2>3. Undisturbed' /\ pc' = "stopped" => Live' = {}
    BY <2>1 DEF Inductive, FinalDeletionAccounts
  <2>4. Promise!BeginClearing
    BY <2>1, <2>2, <2>3 DEF Promise!BeginClearing, Promise!EndWell
  <2>5. QED
    BY <2>4 DEF Promise!Next
<1>7. ASSUME NEW id \in IDs, FinalDeleteRecord(id) \/ FinalDeleteErrs(id)
      PROVE  Promise!Clear
  <2>1. /\ pc = "final" /\ want' = want /\ edits' = edits
        /\ \/ pc' = pc /\ result' = result
           \/ pc' = "stopped" /\ result' = "failed"
        /\ remote' \in {remote, Carried(DeletionOf(id))}
    BY <1>7 DEF FinalDeleteRecord, FinalDeleteErrs, Unanswered, Stop
  <2>2. Live' \subseteq Live
    <3>1. \A i \in IDs : remote'[i] = remote[i] \/ remote'[i] = Absent
      BY <2>1 DEF Inductive, TypeOK, Carried, DeletionOf
    <3>2. QED
      BY <3>1 DEF Live, Covered, Ids, ManagedView, Managed
  <2>3. QED
    BY <1>0, <2>1, <2>2 DEF Promise!Clear, Promise!Diminish, Undisturbed
<1>8. CASE FinalDeleteDone
  <2>1. /\ pc = "final" /\ pc' = "stopped" /\ result' \in {"updated", "failed"}
        /\ remote' = remote /\ want' = want /\ edits' = edits
    BY <1>8 DEF FinalDeleteDone, Stop
  <2>2. Undisturbed' /\ result' = "updated" => Live' = {}
    BY <2>1 DEF Inductive, FinalDeletionAccounts
  <2>3. Promise!EndClearing
    BY <2>1, <2>2 DEF Promise!EndClearing, Promise!EndWell, Live, Undisturbed
  <2>4. QED
    BY <2>3 DEF Promise!Next
<1>9. CASE Restart
  BY <1>9 DEF Restart, Promise!Next, Promise!StartOver, Live, Undisturbed
<1>10. CASE Expire \/ AddressChange \/ UNCHANGED vars \/ \E req \in late : LateLost(req)
  BY <1>10 DEF Expire, AddressChange, LateLost, vars, process, plan, Live, Undisturbed
<1>11. ASSUME \/ \E id \in IDs, slot \in StoredSlot : OutsideEdit(id, slot)
              \/ \E req \in late : LateLands(req)
       PROVE  Promise!Interfere
  <2>1. /\ UNCHANGED <<pc, want, result>>
        /\ edits \in Nat /\ edits' = edits + 1
    BY <1>11 DEF OutsideEdit, LateLands, process, plan, Inductive, TypeOK
  <2>2. QED
    BY <1>0, <2>1 DEF Promise!Interfere, Undisturbed
<1>12. QED
  BY <1>2, <1>3, <1>4, <1>5, <1>6, <1>7, <1>8, <1>9, <1>10, <1>11
     DEF Next, RoundStep, FinalStep, Disturbance, Promise!Next

\* The detailed unit implements the abstract one.
THEOREM UnitKeepsPromise == Spec => PromiseKept
<1>1. Init => Promise!Init
  BY LiveType DEF Init, Promise!Init, Live, Undisturbed
<1>2. QED
  BY <1>1, PromiseStep, InductiveInvariant, PTL DEF Spec, PromiseKept, Promise!Spec

-----------------------------------------------------------------------------
(* Metadata that all managed records share                                 *)

\* When the recyclable records are stored alike, what they agree on and what is
\* filled in where they differ is stored like them: they can only differ in a TTL
\* that Cloudflare ignores.
LEMMA ResolvedAlike ==
  ASSUME NEW recyclable \in SUBSET Params, recyclable # {},
         NEW stored, \A q \in recyclable : Normalised[q] = stored
  PROVE  Normalised[ResolveParams(Fallback, recyclable)] = stored
<1> DEFINE R == ResolveParams(Fallback, recyclable)
<1>1. \A q \in recyclable :
        /\ q.comment = stored.comment /\ q.proxied = stored.proxied
        /\ q.tags = stored.tags /\ q.tags \subseteq Tags /\ q.ttl \in TTLs
        /\ q = [ttl |-> q.ttl, proxied |-> q.proxied, comment |-> q.comment, tags |-> q.tags]
  BY ConstantsAssumption, NormalisationAssumption DEF Params
<1>2. PICK q \in recyclable : TRUE
  OBVIOUS
<1>3. R.comment = stored.comment
  <2>1. {p.comment : p \in recyclable} = {stored.comment}
    BY <1>1, <1>2
  <2>2. QED
    BY <2>1 DEF ResolveParams, ResolveScalar
<1>4. R.proxied = stored.proxied
  <2>1. {p.proxied : p \in recyclable} = {stored.proxied}
    BY <1>1, <1>2
  <2>2. QED
    BY <2>1 DEF ResolveParams, ResolveScalar
<1>5. R.tags = stored.tags
  <2>1. {p.tags : p \in recyclable} = {stored.tags}
    BY <1>1, <1>2
  <2>2. QED
    BY <1>1, <1>2, <2>1 DEF ResolveParams, CommonTags
<1>6. R = [ttl |-> R.ttl, proxied |-> R.proxied, comment |-> R.comment, tags |-> R.tags]
  BY DEF ResolveParams
<1>7. CASE \A p \in recyclable : p.ttl = q.ttl
  <2>1. {p.ttl : p \in recyclable} = {q.ttl}
    BY <1>2, <1>7
  <2>2. R.ttl = q.ttl
    BY <2>1 DEF ResolveParams, ResolveScalar
  <2>3. R = q
    <3> HIDE DEF R
    <3> QED
      BY <1>1, <1>2, <1>3, <1>4, <1>5, <1>6, <2>2
  <2>4. QED
    BY <1>2, <2>3
<1>8. CASE \E p \in recyclable : p.ttl # q.ttl
  <2>1. PICK p \in recyclable : p.ttl # q.ttl
    BY <1>8
  <2>2. PICK r \in {p, q} : stored.ttl # r.ttl
    BY <2>1
  <2>3. r \in recyclable /\ r \in Params /\ Normalised[r] = stored
    BY <1>2, <2>1, <2>2
  <2>4. R.ttl \in TTLs
    BY ResolveParamsType, ConstantsAssumption DEF Params
  <2>5. Normalised[[r EXCEPT !.ttl = R.ttl]] = stored
    BY <2>2, <2>3, <2>4, NormalisationAssumption
  <2>6. R = [r EXCEPT !.ttl = R.ttl]
    <3> HIDE DEF R
    <3> QED
      BY <1>1, <1>3, <1>4, <1>5, <1>6, <2>3
  <2>7. QED
    BY <2>5, <2>6
<1>9. QED
  BY <1>7, <1>8

\* A round that has yet to write has either recycled nothing, and its outdated
\* records are at Cloudflare as they were listed, or one that it has written is there.
RecyclingInv ==
  pc = "round" /\ Undisturbed /\ todo # {} =>
    \/ /\ spare = Outdated(listed, want)
       /\ \A id \in spare : SameRecord(listed[id], ManagedView(remote)[id])
    \/ \E id \in IDs : /\ Managed(remote[id])
                       /\ remote[id].params = Normalised[PlannedParams]

\* Every step preserves it.
LEMMA RecyclingStep ==
  ASSUME Inductive, RecyclingInv, [Next]_vars
  PROVE  RecyclingInv'
<1>1. CASE StartRound
  <2> SUFFICES ASSUME pc' = "round", Undisturbed'
               PROVE  /\ spare' = Outdated(listed', want')
                      /\ \A id \in spare' : SameRecord(listed'[id], ManagedView(remote)'[id])
    BY DEF RecyclingInv
  <2>1. /\ pc = "idle" /\ ListRecords /\ remote' = remote
        /\ listed' = Listing /\ want' = goal /\ spare' = Outdated(Listing, goal)
    BY <1>1 DEF StartRound
  <2>2. \A id \in IDs : SameRecord(Listing[id], ManagedView(remote)[id])
    BY <2>1, ListingExact
  <2>3. QED
    BY <2>1, <2>2 DEF Outdated, Ids
<1>2. ASSUME NEW id \in IDs, NEW ip \in IPs,
             RecycleOutdated(id, ip) \/ CreateMissing(id, ip)
      PROVE  RecyclingInv'
  <2> DEFINE rec == Store([ip |-> ip, params |-> PlannedParams])
  <2>1. /\ remote' = [remote EXCEPT ![id] = rec]
        /\ listed' = listed /\ want' = want
    BY <1>2 DEF RecycleOutdated, CreateMissing, Carried, UpdateOf, CreationOf
  <2>2. Managed(rec)
    BY PlannedRecord
  <2>3. rec.params = Normalised[PlannedParams]
    BY DEF Store
  <2>4. PlannedParams' = PlannedParams
    BY <2>1 DEF PlannedParams
  <2>5. remote'[id] = rec
    BY <2>1 DEF Inductive, TypeOK
  <2>6. QED
    <3> HIDE DEF rec
    <3> QED
      BY <2>2, <2>3, <2>4, <2>5 DEF RecyclingInv
<1>3. CASE /\ pc' = "round" => pc = "round" /\ UNCHANGED <<remote, listed, want, todo, spare, edits>>
  BY <1>3 DEF RecyclingInv, PlannedParams, Undisturbed
<1>4. CASE todo' = {} \/ edits' # 0
  BY <1>4 DEF RecyclingInv, Undisturbed
<1>5. ASSUME NEW id \in IDs, DeleteOutdated(id)
      PROVE  todo' = {}
  BY <1>5 DEF DeleteOutdated
<1>6. ASSUME NEW next \in {"idle", "stopped"}, ListFails(next)
      PROVE  pc' # "round"
  BY <1>6 DEF ListFails
<1>7. CASE CallErrs \/ CallNotSent \/ RoundDone
  BY <1>3, <1>7 DEF CallErrs, CallNotSent, RoundDone, Finish
<1>8. CASE FinalStep
  BY <1>3, <1>6, <1>8 DEF FinalStep, StartFinalDelete, FinalDeleteRecord, FinalDeleteErrs,
                    FinalDeleteDone, Stop
<1>9. CASE Restart \/ Expire \/ AddressChange \/ (\E req \in late : LateLost(req))
           \/ UNCHANGED vars
  BY <1>3, <1>9 DEF Restart, Expire, AddressChange, LateLost, vars, process, plan
<1>10. CASE \/ \E id \in IDs, slot \in StoredSlot : OutsideEdit(id, slot)
            \/ \E req \in late : LateLands(req)
  BY <1>4, <1>10 DEF OutsideEdit, LateLands, Inductive, TypeOK
<1>11. QED
  BY <1>1, <1>2, <1>3, <1>4, <1>5, <1>6, <1>7, <1>8, <1>9, <1>10
     DEF Next, RoundStep, Disturbance

\* When all managed records share their parameters, a round that has outdated
\* records to recycle, or had, writes these.
LEMMA SharedIsPlanned ==
  ASSUME Inductive, RecyclingInv, pc = "round", Undisturbed, todo # {},
         Outdated(listed, want) # {}, NEW shared,
         \A i \in Ids(ManagedView(remote)) : remote[i].params = shared
  PROVE  Normalised[PlannedParams] = shared
<1>1. CASE \E id \in IDs : /\ Managed(remote[id])
                           /\ remote[id].params = Normalised[PlannedParams]
  BY <1>1 DEF Ids, ManagedView, Managed
<1>2. CASE /\ spare = Outdated(listed, want)
           /\ \A id \in spare : SameRecord(listed[id], ManagedView(remote)[id])
  <2> DEFINE recyclable == {listed[id].params : id \in Outdated(listed, want)}
  <2>1. ASSUME NEW id \in Outdated(listed, want)
        PROVE  listed[id].params \in Params /\ Normalised[listed[id].params] = shared
    <3>1. id \in IDs /\ listed[id] # Absent /\ listed[id] \in Record
      BY <2>1 DEF Outdated, Ids, Inductive, TypeOK, View, Slot
    <3>2. /\ ManagedView(remote)[id] # Absent
          /\ Store(listed[id]) = ManagedView(remote)[id]
      BY <1>2, <2>1, <3>1 DEF SameRecord
    <3>3. /\ id \in Ids(ManagedView(remote))
          /\ ManagedView(remote)[id] = remote[id]
      BY <3>1, <3>2 DEF Ids, ManagedView
    <3>4. Store(listed[id]).params = Normalised[listed[id].params]
      BY <3>1 DEF Store, Record
    <3>5. QED
      BY <3>1, <3>2, <3>3, <3>4 DEF Record
  <2>2. recyclable \in SUBSET Params /\ recyclable # {}
    BY <2>1
  <2>3. \A q \in recyclable : Normalised[q] = shared
    BY <2>1
  <2>4. Normalised[ResolveParams(Fallback, recyclable)] = shared
    BY <2>2, <2>3, ResolvedAlike
  <2>5. QED
    BY <2>4 DEF PlannedParams
<1>3. QED
  BY <1>1, <1>2 DEF RecyclingInv

\* What was set by hand on all managed records survives the recycling of outdated
\* ones, whatever becomes of the calls and although the cached list may hold
\* parameters as they were asked for and not as Cloudflare keeps them.
THEOREM UniformMetadataSurvives == Spec => UniformMetadataKept
<1>1. Init => RecyclingInv
  BY DEF Init, RecyclingInv
<1>2. Inductive /\ RecyclingInv /\ [Next]_vars => RecyclingInv'
  BY RecyclingStep
<1>3. Spec => []RecyclingInv
  BY <1>1, <1>2, InductiveInvariant, PTL DEF Spec
<1>4. ASSUME Inductive, RecyclingInv, RoundStep, Undisturbed, Outdated(listed, want) # {},
             NEW id \in IDs, NEW other \in IDs,
             remote'[id] # remote[id], remote'[id] # Absent, Managed(remote[other]),
             \A i \in Ids(ManagedView(remote)) : remote[i].params = remote[other].params
      PROVE  remote'[id].params = remote[other].params
  <2>1. pc = "round" /\ \E ip \in todo :
          remote'[id] = Store([ip |-> ip, params |-> PlannedParams])
    BY <1>4, OwnChange DEF OwnStep
  <2>2. remote'[id].params = Normalised[PlannedParams]
    BY <2>1 DEF Store
  <2>3. QED
    BY <1>4, <2>1, <2>2, SharedIsPlanned
<1>5. Inductive /\ RecyclingInv =>
        (RoundStep /\ Undisturbed /\ Outdated(listed, want) # {} =>
           \A id, other \in IDs :
             /\ remote'[id] # remote[id] /\ remote'[id] # Absent
             /\ Managed(remote[other])
             /\ \A i \in Ids(ManagedView(remote)) :
                   remote[i].params = remote[other].params
             => remote'[id].params = remote[other].params)
  BY <1>4
<1>6. QED
  BY <1>3, <1>5, InductiveInvariant, PTL DEF UniformMetadataKept
===============================================================================
