------------------------ MODULE WAFListReconcilerProofs ------------------------
(***************************************************************************)
(* Theorems about WAFListReconciler, for every set of lists, items, ranges *)
(* and ownership policies and for every bound.                             *)
(***************************************************************************)
EXTENDS WAFListReconciler, TLAPS

-----------------------------------------------------------------------------
(* Views and plans                                                         *)

\* Targets as detection produces them: each under its own family.
Sorted(targets) == \A f \in DOMAIN targets : \A p \in targets[f] : FamilyOf[p] = f

\* What an existing item is.
LEMMA ItemThere ==
  ASSUME NEW view \in View, NEW id \in Ids(view)
  PROVE  /\ id \in ItemIDs /\ view[id] \in Item
         /\ view[id].prefix \in Prefixes /\ view[id].comment \in Comments
  BY DEF View, Ids, Item

\* Targets are sets of ranges of the families they are known for.
LEMMA TargetThere ==
  ASSUME NEW targets \in Targets, NEW f \in DOMAIN targets
  PROVE  f \in Families /\ targets[f] \in SUBSET Prefixes
  BY DEF Targets

\* No target is known for no family.
LEMMA NoTargets == Preserved \in Targets /\ DOMAIN Preserved = {}
<1>1. Preserved \in [{} -> SUBSET Prefixes] /\ DOMAIN Preserved = {}
  BY DEF Preserved
<1>2. QED
  BY <1>1 DEF Targets

\* A new item is for a target that is not covered, and its comment is the fallback
\* or that of an item of the view.
LEMMA NewItem ==
  ASSUME NEW view \in View, NEW targets \in Targets, NEW f \in DOMAIN targets,
         Fallback \in Comments, NEW item \in NewItems(view, targets, f)
  PROVE  /\ item \in Item
         /\ item.prefix \in Uncovered(view, targets, f)
         /\ \/ item.comment = Fallback
            \/ \E id \in Ids(view) : item.comment = view[id].comment
<1> DEFINE given == {view[id].comment : id \in Useless(view, targets, f)}
           chosen == ResolveScalar(Fallback, given)
<1>1. PICK t \in Uncovered(view, targets, f) : item = [prefix |-> t, comment |-> chosen]
  BY DEF NewItems
<1>2. chosen \in given \cup {Fallback}
  BY DEF ResolveScalar
<1>3. t \in Prefixes
  BY <1>1, TargetThere DEF Uncovered
<1>4. \/ chosen = Fallback
      \/ \E id \in Ids(view) : chosen = view[id].comment
  BY <1>2 DEF Useless, OfFamily
<1>5. chosen \in Comments
  BY <1>4, ItemThere
<1>6. QED
  BY <1>1, <1>3, <1>4, <1>5 DEF Item

\* Every target that is not covered gets an item.
LEMMA UncoveredGetsItem ==
  ASSUME NEW view, NEW targets, NEW f \in DOMAIN targets,
         NEW t \in Uncovered(view, targets, f)
  PROVE  \E item \in Creations(view, targets) : item.prefix = t
<1> DEFINE given == {view[id].comment : id \in Useless(view, targets, f)}
           chosen == ResolveScalar(Fallback, given)
<1>1. [prefix |-> t, comment |-> chosen] \in NewItems(view, targets, f)
  BY DEF NewItems
<1>2. NewItems(view, targets, f) \subseteq Creations(view, targets)
  BY DEF Creations
<1>3. QED
  BY <1>1, <1>2

\* A plan creates items, ...
LEMMA CreationsType ==
  ASSUME NEW view \in View, NEW targets \in Targets, Fallback \in Comments
  PROVE  Creations(view, targets) \in SUBSET Item
  BY NewItem DEF Creations

\* ... and deletes IDs.
LEMMA DeletionsType ==
  ASSUME NEW view, NEW targets
  PROVE  Deletions(view, targets) \in SUBSET ItemIDs
  BY DEF Deletions, Useless, OfFamily, Ids

\* Creating what a plan says covers every target and makes nothing useless.
LEMMA CreatedView ==
  ASSUME NEW v \in View, NEW w \in View, NEW targets \in Targets, Sorted(targets),
         Fallback \in Comments,
         \A id \in ItemIDs : v[id] # Absent => w[id] = v[id],
         \A id \in ItemIDs : v[id] = Absent => w[id] \in Creations(v, targets) \cup {Absent},
         \A item \in Creations(v, targets) : \E id \in ItemIDs : w[id] = item
  PROVE  /\ \A f \in DOMAIN targets : Uncovered(w, targets, f) = {}
         /\ Deletions(w, targets) = Deletions(v, targets)
<1> USE ConstantsAssumption
<1>1. ASSUME NEW f \in DOMAIN targets, NEW t \in targets[f]
      PROVE  \E id \in Ids(w) : Hits(w, id, t)
  <2>1. CASE t \in Uncovered(v, targets, f)
    <3>1. PICK item \in Creations(v, targets) : item.prefix = t
      BY <2>1, UncoveredGetsItem
    <3>2. PICK id \in ItemIDs : w[id] = item
      BY <3>1
    <3>3. item # Absent /\ t \in Prefixes
      BY <3>1, CreationsType, TargetThere
    <3>4. id \in Ids(w) /\ w[id].prefix = t
      BY <3>1, <3>2, <3>3 DEF Ids
    <3>5. QED
      BY <3>3, <3>4 DEF Hits
  <2>2. CASE t \notin Uncovered(v, targets, f)
    <3>1. PICK id \in Ids(v) : Hits(v, id, t)
      BY <2>2 DEF Uncovered
    <3>2. id \in Ids(w) /\ w[id] = v[id]
      BY DEF Ids
    <3>3. QED
      BY <3>1, <3>2 DEF Hits
  <2>3. QED
    BY <2>1, <2>2
<1>2. ASSUME NEW f \in DOMAIN targets
      PROVE  Useless(w, targets, f) = Useless(v, targets, f)
  <2>1. ASSUME NEW id \in Useless(v, targets, f)
        PROVE  id \in Useless(w, targets, f)
    <3>1. id \in ItemIDs /\ v[id] # Absent /\ w[id] = v[id]
      BY DEF Useless, OfFamily, Ids
    <3>2. QED
      BY <3>1 DEF Useless, OfFamily, Ids, Hits
  <2>2. ASSUME NEW id \in Useless(w, targets, f)
        PROVE  id \in Useless(v, targets, f)
    <3>1. /\ id \in ItemIDs /\ w[id] # Absent /\ FamilyOf[w[id].prefix] = f
          /\ \A t \in targets[f] : ~Hits(w, id, t)
      BY DEF Useless, OfFamily, Ids
    <3>2. CASE v[id] # Absent
      BY <3>1, <3>2 DEF Useless, OfFamily, Ids, Hits
    <3>3. CASE v[id] = Absent
      <4>1. PICK g \in DOMAIN targets : w[id] \in NewItems(v, targets, g)
        BY <3>1, <3>3 DEF Creations
      <4>2. w[id].prefix \in targets[g] /\ w[id].prefix \in Prefixes
        BY <4>1, NewItem, TargetThere DEF Uncovered
      <4>3. g = f
        BY <3>1, <4>2 DEF Sorted
      <4>4. Hits(w, id, w[id].prefix)
        BY <4>2 DEF Hits
      <4>5. QED
        BY <3>1, <4>2, <4>3, <4>4
    <3>4. QED
      BY <3>2, <3>3
  <2>3. QED
    BY <2>1, <2>2
<1>3. QED
  BY <1>1, <1>2 DEF Deletions, Uncovered

\* Deleting what a plan says, once every target is covered, leaves nothing useless
\* and every target covered.
LEMMA DeletedView ==
  ASSUME NEW v \in View, NEW w \in View, NEW targets \in Targets, Sorted(targets),
         \A f \in DOMAIN targets : Uncovered(v, targets, f) = {},
         \A id \in ItemIDs : w[id] = IF id \in Deletions(v, targets) THEN Absent ELSE v[id]
  PROVE  \A f \in DOMAIN targets :
           Uncovered(w, targets, f) = {} /\ Useless(w, targets, f) = {}
<1> SUFFICES ASSUME NEW f \in DOMAIN targets
             PROVE  Uncovered(w, targets, f) = {} /\ Useless(w, targets, f) = {}
  OBVIOUS
<1> USE ConstantsAssumption
<1>1. ASSUME NEW t \in targets[f]
      PROVE  \E id \in Ids(w) : Hits(w, id, t)
  <2>1. PICK id \in Ids(v) : Hits(v, id, t)
    BY DEF Uncovered
  <2>2. id \in ItemIDs /\ FamilyOf[v[id].prefix] = f
    BY <2>1 DEF Hits, Sorted, Ids
  <2>3. ASSUME NEW g \in DOMAIN targets, id \in Useless(v, targets, g)
        PROVE  FALSE
    BY <2>1, <2>2, <2>3 DEF Useless, OfFamily
  <2>4. w[id] = v[id]
    BY <2>2, <2>3 DEF Deletions
  <2>5. QED
    BY <2>1, <2>2, <2>4 DEF Hits, Ids
<1>2. ASSUME NEW id \in Useless(w, targets, f)
      PROVE  FALSE
  <2>1. id \in ItemIDs /\ w[id] # Absent
    BY DEF Useless, OfFamily, Ids
  <2>2. w[id] = v[id] /\ id \notin Deletions(v, targets)
    BY <2>1
  <2>3. id \in Useless(v, targets, f)
    BY <2>1, <2>2 DEF Useless, OfFamily, Ids, Hits
  <2>4. QED
    BY <2>2, <2>3 DEF Deletions
<1>3. QED
  BY <1>1, <1>2 DEF Uncovered

-----------------------------------------------------------------------------
(* The list at Cloudflare and the requests                                 *)

\* A request edits the items of a list, not of none.
Sound(req) == req \in Request /\ (req.becomes = req.at => req.at # NoList)

\* A list that does not exist has no items.
RemoteInv ==
  /\ list \in ListSlot /\ items \in View /\ garbled \in BOOLEAN
  /\ \A req \in late : Sound(req)
  /\ list = NoList => items = Nothing /\ ~garbled

\* No items are a view.
LEMMA NothingView == Nothing \in View /\ Ids(Nothing) = {}
  BY DEF Nothing, View, Ids

\* The requests that the handle makes are sound.
LEMMA RequestsSound ==
  ASSUME NEW l \in ListIDs, NEW ids \in SUBSET ItemIDs
  PROVE  Sound(Making(l)) /\ Sound(Dropping(l)) /\ Sound(Deleting(l, ids))
  BY ConstantsAssumption, NothingView DEF Sound, Request, ListSlot, Making, Dropping, Deleting

\* So is a bulk creation; it is one for fresh IDs and says what was planned.
LEMMA CreatingSound ==
  ASSUME NEW l \in ListIDs, toCreate \in SUBSET Item, NEW req \in Creating(l)
  PROVE  /\ Sound(req) /\ req.at = l /\ req.becomes = l /\ req.gone = {}
         /\ Ids(req.new) \subseteq FreshItems
         /\ req.new \in [ItemIDs -> toCreate \cup {Absent}]
         /\ \A item \in toCreate : \E id \in ItemIDs : req.new[id] = item
<1>1. PICK new \in [ItemIDs -> toCreate \cup {Absent}] :
         /\ req = [at |-> l, becomes |-> l, gone |-> {}, new |-> new]
         /\ Ids(new) \subseteq FreshItems
         /\ \A item \in toCreate : \E id \in ItemIDs : new[id] = item
  BY DEF Creating
<1>2. new \in View
  BY <1>1 DEF View
<1>3. Sound(req)
  BY <1>1, <1>2, ConstantsAssumption DEF Sound, Request, ListSlot
<1>4. QED
  BY <1>1, <1>3

\* Carrying a request out keeps the list as it should be, ...
LEMMA CarryKeeps ==
  ASSUME RemoteInv, NEW req, Sound(req), Carry(req), late' \subseteq late
  PROVE  RemoteInv'
<1>1. req \in Request /\ (req.becomes = req.at => req.at # NoList)
  BY DEF Sound
<1>2. req.becomes \in ListSlot /\ req.new \in View
  BY <1>1 DEF Request
<1>3. Edited(req) \in View
  BY <1>2 DEF Edited, View, RemoteInv
<1>4. /\ list' = req.becomes
      /\ items' = IF req.becomes = req.at THEN Edited(req) ELSE Nothing
      /\ garbled' = (garbled /\ req.becomes = req.at)
  BY DEF Carry
<1>5. list' \in ListSlot /\ items' \in View /\ garbled' \in BOOLEAN
  BY <1>2, <1>3, <1>4, NothingView DEF RemoteInv
<1>6. \A r \in late' : Sound(r)
  BY DEF RemoteInv
<1>7. list' = NoList => items' = Nothing /\ ~garbled'
  BY <1>1, <1>4
<1>8. QED
  BY <1>5, <1>6, <1>7 DEF RemoteInv, Sound, Nothing

\* ... and so does every outcome of a call that ends in an error.
LEMMA UnansweredKeeps ==
  ASSUME RemoteInv, NEW req, Sound(req), Unanswered(req)
  PROVE  RemoteInv'
<1>1. CASE UNCHANGED remote
  BY <1>1 DEF RemoteInv, remote, Sound, Nothing
<1>2. CASE Carry(req) /\ UNCHANGED late
  BY <1>2, CarryKeeps
<1>3. CASE late' = late \cup {req} /\ UNCHANGED <<list, items, garbled>>
  BY <1>3 DEF RemoteInv, Sound, Nothing
<1>4. QED
  BY <1>1, <1>2, <1>3 DEF Unanswered

-----------------------------------------------------------------------------
(* Type correctness                                                        *)

CacheInv ==
  /\ lists \in ListSlot \cup {NoCache}
  /\ listID \in ListIDs \cup {NoCache}
  /\ cached \in View \cup {NoCache}

\* A call that holds a list ID holds one; targets come from the detection.
RoundInv ==
  /\ pc \in {"idle", "create", "add", "delete", "sweep", "erase", "stopped"}
  /\ want \in Goals \cup {Preserved}
  /\ at \in ListSlot /\ (pc \in {"add", "sweep", "erase"} => at \in ListIDs)
  /\ toCreate \in SUBSET Item
  /\ toDelete \in SUBSET ItemIDs
  /\ result \in {"none", "noop", "updated", "updating", "failed"}

WorldInv ==
  /\ policy \in Policies
  /\ goal \in GoalsInScope
  /\ stale \in SUBSET {"lists", "id", "items", "plan"}
  /\ edits \in Nat

BasicInv == RemoteInv /\ CacheInv /\ RoundInv /\ WorldInv

\* Looking the list up yields a list or none, and what the caches may hold.
LEMMA LookUpType ==
  ASSUME BasicInv
  PROVE  /\ Resolved \in ListSlot
         /\ ListsAfterLookUp \in ListSlot \cup {NoCache}
         /\ IDAfterLookUp \in ListIDs \cup {NoCache}
         /\ StaleAfterLookUp \in SUBSET {"lists", "id", "items", "plan"}
<1>1. /\ list \in ListSlot /\ lists \in ListSlot \cup {NoCache}
      /\ listID \in ListIDs \cup {NoCache} /\ stale \in SUBSET {"lists", "id", "items", "plan"}
  BY DEF BasicInv, RemoteInv, CacheInv, WorldInv
<1>2. Resolved \in ListSlot /\ ListsAfterLookUp \in ListSlot \cup {NoCache}
  BY <1>1 DEF Resolved, ListsAfterLookUp, ListSlot
<1>3. IDAfterLookUp \in ListIDs \cup {NoCache}
  BY <1>1, <1>2 DEF IDAfterLookUp, ListSlot
<1>4. StaleAfterLookUp \in SUBSET {"lists", "id", "items", "plan"}
  BY <1>1 DEF StaleAfterLookUp
<1>5. QED
  BY <1>2, <1>3, <1>4

\* The configuration in force.
LEMMA PolicyType ==
  ASSUME policy \in Policies
  PROVE  /\ Fallback \in Comments /\ Fallback \in policy.managed
         /\ policy.managed \in SUBSET Comments /\ policy.scope \in SUBSET Families
         /\ policy.whole => policy.managed = Comments
  BY ConstantsAssumption DEF Policy

\* The managed part of a view is a view.
LEMMA ManagedViewType ==
  ASSUME NEW view \in View
  PROVE  /\ ManagedView(view) \in View
         /\ \A id \in ItemIDs :
              ManagedView(view)[id] = IF Managed(view[id]) THEN view[id] ELSE Absent
         /\ Ids(ManagedView(view)) = {id \in ItemIDs : Managed(view[id])}
  BY DEF ManagedView, View, Managed, Ids

\* Of no items none is managed.
LEMMA NothingManaged == ManagedView(Nothing) = Nothing
  BY DEF ManagedView, Nothing, Managed

\* The updater starts with empty caches and nothing under way.
LEMMA InitBasic == Init => BasicInv
<1> SUFFICES ASSUME Init PROVE BasicInv
  OBVIOUS
<1>1. RemoteInv
  BY NothingView, ConstantsAssumption DEF Init, RemoteInv, ListSlot
<1>2. CacheInv /\ RoundInv
  BY DEF Init, CacheInv, RoundInv, ListSlot
<1>3. WorldInv
  BY DEF Init, WorldInv
<1>4. QED
  BY <1>1, <1>2, <1>3 DEF BasicInv

\* What every step does to the list and the requests.
LEMMA NextRemote == BasicInv /\ [Next]_vars => RemoteInv'
<1> SUFFICES ASSUME BasicInv, [Next]_vars PROVE RemoteInv'
  OBVIOUS
<1>a. RemoteInv /\ toDelete \in SUBSET ItemIDs /\ toCreate \in SUBSET Item
  BY DEF BasicInv, RoundInv
<1>b. Resolved \in ListIDs \cup {NoList}
  BY LookUpType DEF ListSlot
<1>c. pc \in {"add", "sweep", "erase"} => at \in ListIDs
  BY DEF BasicInv, RoundInv
<1>1. CASE UNCHANGED remote
  BY <1>1, <1>a DEF RemoteInv, remote, Sound, Nothing
<1>2. ASSUME NEW l \in ListIDs, MakeList(l) PROVE RemoteInv'
  BY <1>2, <1>a, RequestsSound, CarryKeeps DEF MakeList
<1>3. CASE EnsureErrs
  <2>1. CASE UNCHANGED remote
    BY <1>1, <2>1
  <2>2. CASE \E l \in FreshLists : Unanswered(Making(l))
    BY <2>2, <1>a, RequestsSound, UnansweredKeeps DEF FreshLists
  <2>3. QED
    BY <1>3, <2>1, <2>2 DEF EnsureErrs
<1>4. CASE AddItems
  <2>1. PICK req \in Creating(at) : Carry(req)
    BY <1>4 DEF AddItems
  <2>2. late' = late /\ at \in ListIDs
    BY <1>4, <1>c DEF AddItems
  <2>3. QED
    BY <1>a, <2>1, <2>2, CreatingSound, CarryKeeps
<1>5. CASE AddErrs
  <2>1. PICK req \in Creating(at) : Unanswered(req)
    BY <1>5 DEF AddErrs
  <2>2. at \in ListIDs
    BY <1>5, <1>c DEF AddErrs
  <2>3. QED
    BY <1>a, <2>1, <2>2, CreatingSound, UnansweredKeeps
<1>6. CASE RemoveItems
  <2>1. Resolved \in ListIDs /\ Carry(Deleting(Resolved, toDelete)) /\ late' = late
    BY <1>6, <1>b DEF RemoveItems
  <2>2. Sound(Deleting(Resolved, toDelete))
    BY <1>a, <2>1, RequestsSound
  <2>3. QED
    BY <1>a, <2>1, <2>2, CarryKeeps
<1>7. CASE RemoveErrs
  <2>1. CASE UNCHANGED remote
    BY <1>1, <2>1
  <2>2. CASE Resolved # NoList /\ Unanswered(Deleting(Resolved, toDelete))
    <3>1. Sound(Deleting(Resolved, toDelete))
      BY <1>a, <1>b, <2>2, RequestsSound
    <3>2. QED
      BY <1>a, <2>2, <3>1, UnansweredKeeps
  <2>3. QED
    BY <1>7, <2>1, <2>2 DEF RemoveErrs
<1>8. CASE DropList
  <2>1. Resolved \in ListIDs /\ Carry(Dropping(Resolved)) /\ late' = late
    BY <1>8, <1>b DEF DropList
  <2>2. Sound(Dropping(Resolved))
    BY <2>1, RequestsSound
  <2>3. QED
    BY <1>a, <2>1, <2>2, CarryKeeps
<1>9. CASE DropListErrs
  <2>1. Resolved \in ListIDs /\ Unanswered(Dropping(Resolved))
    BY <1>9, <1>b DEF DropListErrs
  <2>2. Sound(Dropping(Resolved))
    BY <2>1, RequestsSound
  <2>3. QED
    BY <1>a, <2>1, <2>2, UnansweredKeeps
<1>10. CASE EraseStarts \/ EraseErrs
  <2>1. at \in ListIDs
    BY <1>10, <1>c DEF EraseStarts, EraseErrs
  <2>2. Sound(Deleting(at, toDelete))
    BY <1>a, <2>1, RequestsSound
  <2>3. CASE Unanswered(Deleting(at, toDelete))
    BY <1>a, <2>2, <2>3, UnansweredKeeps
  <2>4. CASE Carry(Deleting(at, toDelete)) /\ UNCHANGED late
    BY <1>a, <2>2, <2>4, CarryKeeps
  <2>5. CASE late' = late \cup {Deleting(at, toDelete)} /\ UNCHANGED <<list, items, garbled>>
    BY <1>a, <2>2, <2>5 DEF RemoteInv, Sound, Nothing
  <2>6. QED
    BY <1>10, <2>3, <2>4, <2>5 DEF EraseStarts, EraseErrs
<1>11. ASSUME NEW id \in ItemIDs, NEW slot \in Item \cup {Absent}, OutsideEdit(id, slot)
       PROVE  RemoteInv'
  <2>1. /\ list # NoList /\ items' = [items EXCEPT ![id] = slot]
        /\ UNCHANGED <<list, garbled, late>>
    BY <1>11 DEF OutsideEdit
  <2>2. items' \in View
    BY <1>a, <2>1 DEF RemoteInv, View
  <2>3. QED
    BY <1>a, <2>1, <2>2 DEF RemoteInv, Sound
<1>12. CASE OutsideGarble
  BY <1>12, <1>a DEF OutsideGarble, RemoteInv, Sound
<1>13. CASE OutsideList
  <2>1. list' \in ListSlot /\ items' = Nothing /\ garbled' = FALSE /\ late' = late
    BY <1>13 DEF OutsideList, FreshLists, ListSlot
  <2>2. QED
    BY <1>a, <2>1, NothingView DEF RemoteInv, Sound, Nothing
<1>14. ASSUME NEW req \in late, LateLands(req) PROVE RemoteInv'
  <2>1. Sound(req) /\ Carry(req) /\ late' \subseteq late
    BY <1>14, <1>a DEF LateLands, RemoteInv
  <2>2. QED
    BY <1>a, <2>1, CarryKeeps
<1>15. ASSUME NEW req \in late, LateLost(req) PROVE RemoteInv'
  BY <1>15, <1>a DEF LateLost, RemoteInv, Sound, Nothing
<1>16. CASE \/ ListFails \/ StartFromCache \/ StartFromListing \/ ListThere
            \/ NothingToClean \/ KeepList \/ Sweep \/ SweepFails
            \/ Restart \/ Expire \/ AddressChange \/ UNCHANGED vars
  BY <1>16, <1>1
     DEF ListFails, StartFromCache, StartFromListing, ListThere, NothingToClean, KeepList,
         Sweep, SweepFails, Restart, Expire, AddressChange, vars
<1>17. QED
  BY <1>2, <1>3, <1>4, <1>5, <1>6, <1>7, <1>8, <1>9, <1>10, <1>11, <1>12, <1>13, <1>14, <1>15, <1>16
     DEF Next, RoundStep, FinalStep, Disturbance

\* The cached lists and the cached ID come from a lookup or from making a list,
\* the cached items from the list itself.
LEMMA NextCaches == BasicInv /\ RemoteInv' /\ [Next]_vars => CacheInv'
<1> SUFFICES ASSUME BasicInv, RemoteInv', [Next]_vars PROVE CacheInv'
  OBVIOUS
<1> DEFINE Kept ==
      /\ lists' \in {lists, NoCache, ListsAfterLookUp} \cup ListIDs
      /\ listID' \in {listID, NoCache, IDAfterLookUp} \cup ListIDs
      /\ cached' \in {cached, NoCache, ManagedView(items), ManagedView(items')}
<1>1. CASE Kept
  <2>1. /\ lists \in ListSlot \cup {NoCache} /\ listID \in ListIDs \cup {NoCache}
        /\ cached \in View \cup {NoCache} /\ items \in View /\ items' \in View
    BY DEF BasicInv, CacheInv, RemoteInv
  <2>2. ManagedView(items) \in View /\ ManagedView(items') \in View
    BY <2>1, ManagedViewType
  <2>3. lists' \in ListSlot \cup {NoCache}
    BY <1>1, <2>1, LookUpType DEF ListSlot
  <2>4. listID' \in ListIDs \cup {NoCache}
    BY <1>1, <2>1, LookUpType
  <2>5. cached' \in View \cup {NoCache}
    BY <1>1, <2>1, <2>2
  <2>6. QED
    BY <2>3, <2>4, <2>5 DEF CacheInv
<1>2. ASSUME ListFails \/ StartFromCache \/ StartFromListing \/ ListThere \/ EnsureErrs PROVE Kept
  BY <1>2 DEF ListFails, StartFromCache, StartFromListing, ListThere, EnsureErrs, caches
<1>3. ASSUME NEW l \in ListIDs, MakeList(l) PROVE Kept
  BY <1>3 DEF MakeList
<1>4. ASSUME AddItems \/ AddErrs PROVE Kept
  BY <1>4 DEF AddItems, AddErrs, TakeReply, Invalidate
<1>5. ASSUME RemoveItems \/ RemoveErrs PROVE Kept
  BY <1>5 DEF RemoveItems, RemoveErrs, TakeReply, Invalidate, caches
<1>6. ASSUME NothingToClean \/ DropList \/ DropListErrs \/ KeepList PROVE Kept
  BY <1>6 DEF NothingToClean, DropList, DropListErrs, KeepList, caches
<1>7. ASSUME Sweep \/ SweepFails \/ EraseStarts \/ EraseErrs PROVE Kept
  BY <1>7 DEF Sweep, SweepFails, EraseStarts, EraseErrs, caches
<1>8. ASSUME Restart \/ Expire PROVE Kept
  BY <1>8 DEF Restart, Expire
<1>9. ASSUME Disturbance PROVE Kept
  BY <1>9 DEF Disturbance, AddressChange, OutsideEdit, OutsideGarble, OutsideList, LateLands,
              Changed, caches
<1>10. ASSUME (\E req \in late : LateLost(req)) \/ UNCHANGED vars PROVE Kept
  BY <1>10 DEF LateLost, vars, caches
<1>11. QED
  BY <1>1, <1>2, <1>3, <1>4, <1>5, <1>6, <1>7, <1>8, <1>9, <1>10 DEF Next, RoundStep, FinalStep

\* A round that is planned creates items, deletes IDs and goes on or ends.
LEMMA ProceedType ==
  ASSUME BasicInv, NEW view \in View, Proceed(view)
  PROVE  /\ toCreate' \in SUBSET Item /\ toDelete' \in SUBSET ItemIDs
         /\ pc' \in {"idle", "create", "delete"} /\ result' \in {"none", "noop"}
<1>1. goal \in Targets /\ Fallback \in Comments
  BY PolicyType, ConstantsAssumption DEF BasicInv, WorldInv, GoalsInScope
<1>2. QED
  BY <1>1, CreationsType, DeletionsType DEF Proceed

\* What an operation holds while it runs, and what it leaves.
LEMMA NextRound == BasicInv /\ [Next]_vars => RoundInv'
<1> SUFFICES ASSUME BasicInv, [Next]_vars PROVE RoundInv'
  OBVIOUS
<1>a. /\ RoundInv /\ goal \in Goals
      /\ NoList \in ListSlot /\ ListIDs \subseteq ListSlot
  BY DEF BasicInv, WorldInv, GoalsInScope, ListSlot
<1>b. /\ Nothing \in View /\ ManagedView(items) \in View
      /\ cached # NoCache => cached \in View
  BY NothingView, ManagedViewType DEF BasicInv, RemoteInv, CacheInv
<1>c. Resolved # NoList => Resolved \in ListIDs
  BY LookUpType DEF ListSlot
<1>1. ASSUME NEW view \in View, Proceed(view), want' = goal, at' = at
      PROVE  RoundInv'
  BY <1>1, <1>a, ProceedType DEF RoundInv
<1>2. CASE StartFromCache
  BY <1>1, <1>2, <1>b DEF StartFromCache
<1>3. CASE StartFromListing
  <2>1. PICK view \in {Nothing, ManagedView(items)} : Proceed(view)
    BY <1>3 DEF StartFromListing
  <2>2. want' = goal /\ at' = at
    BY <1>3 DEF StartFromListing
  <2>3. QED
    BY <1>1, <1>b, <2>1, <2>2
<1>4. CASE ListFails
  BY <1>4, <1>a DEF ListFails, RoundInv, plan
<1>5. CASE ListThere
  BY <1>5, <1>a, <1>c DEF ListThere, RoundInv
<1>6. ASSUME NEW l \in ListIDs, MakeList(l) PROVE RoundInv'
  BY <1>6, <1>a DEF MakeList, RoundInv
<1>7. CASE EnsureErrs \/ AddErrs \/ RemoveErrs
  BY <1>7, <1>a DEF EnsureErrs, AddErrs, RemoveErrs, Finish, RoundInv
<1>8. CASE AddItems
  <2>1. \/ Finish("failed") \/ Finish("updated")
        \/ /\ pc' = "delete" /\ at' = NoList /\ toCreate' = {}
           /\ UNCHANGED <<toDelete, result>>
    BY <1>8 DEF AddItems, TakeReply
  <2>2. want' = want
    BY <1>8 DEF AddItems
  <2>3. QED
    BY <1>a, <2>1, <2>2 DEF Finish, RoundInv
<1>9. CASE RemoveItems
  <2>1. (Finish("failed") \/ Finish("updated")) /\ want' = want
    BY <1>9 DEF RemoveItems, TakeReply
  <2>2. QED
    BY <1>a, <2>1 DEF Finish, RoundInv
<1>10. ASSUME NEW code \in {"failed", "noop", "updated", "updating"}, Stop(code)
       PROVE  RoundInv'
  BY <1>10, <1>a DEF Stop, RoundInv
<1>11. CASE NothingToClean \/ DropList \/ SweepFails \/ EraseStarts \/ EraseErrs
  BY <1>10, <1>11 DEF NothingToClean, DropList, SweepFails, EraseStarts, EraseErrs
<1>12. CASE DropListErrs \/ KeepList
  BY <1>12, <1>a, <1>c DEF DropListErrs, KeepList, RoundInv
<1>13. CASE Sweep
  <2>1. PICK view \in {cached, ManagedView(items)} : SweepFrom(view)
    BY <1>13 DEF Sweep
  <2>2. InScopeItems(view) \in SUBSET ItemIDs
    BY DEF InScopeItems, OfFamily, Ids
  <2>3. CASE Stop("noop")
    BY <1>10, <2>3
  <2>4. CASE /\ pc' = "erase" /\ toDelete' = InScopeItems(view)
             /\ UNCHANGED <<want, at, toCreate, result>>
    BY <1>13, <1>a, <2>2, <2>4 DEF Sweep, RoundInv
  <2>5. QED
    BY <2>1, <2>3, <2>4 DEF SweepFrom
<1>14. CASE Restart
  BY <1>14, <1>a DEF Restart, Finish, RoundInv
<1>15. CASE UNCHANGED <<pc, plan, result>>
  BY <1>15, <1>a DEF RoundInv, plan
<1>16. CASE Expire \/ Disturbance \/ (\E req \in late : LateLost(req)) \/ UNCHANGED vars
  BY <1>15, <1>16
     DEF Expire, Disturbance, AddressChange, OutsideEdit, OutsideGarble, OutsideList, LateLands,
         Changed, LateLost, vars
<1>17. QED
  BY <1>2, <1>3, <1>4, <1>5, <1>6, <1>7, <1>8, <1>9, <1>11, <1>12, <1>13, <1>14, <1>16
     DEF Next, RoundStep, FinalStep

\* The configured ownership never changes, and what is detected is in its scope.
LEMMA NextWorld == BasicInv /\ [Next]_vars => WorldInv' /\ policy' = policy
<1> SUFFICES ASSUME BasicInv, [Next]_vars PROVE WorldInv' /\ policy' = policy
  OBVIOUS
<1>a. /\ policy \in Policies /\ goal \in GoalsInScope
      /\ stale \in SUBSET {"lists", "id", "items", "plan"} /\ edits \in Nat
      /\ StaleAfterLookUp \in SUBSET {"lists", "id", "items", "plan"}
  BY LookUpType DEF BasicInv, WorldInv
<1> DEFINE Kept ==
      /\ policy' = policy
      /\ goal' \in GoalsInScope
      /\ stale' \in SUBSET {"lists", "id", "items", "plan"}
      /\ edits' \in {edits, edits + 1}
<1>1. ASSUME Kept PROVE WorldInv' /\ policy' = policy
  BY <1>1, <1>a DEF WorldInv, GoalsInScope
<1>2. ASSUME ListFails \/ StartFromCache \/ StartFromListing \/ ListThere PROVE Kept
  BY <1>2, <1>a DEF ListFails, StartFromCache, StartFromListing, ListThere
<1>3. ASSUME EnsureErrs \/ \E l \in ListIDs : MakeList(l) PROVE Kept
  BY <1>3, <1>a DEF EnsureErrs, MakeList
<1>4. ASSUME AddItems \/ AddErrs \/ RemoveItems \/ RemoveErrs PROVE Kept
  BY <1>4, <1>a DEF AddItems, AddErrs, RemoveItems, RemoveErrs, TakeReply
<1>5. ASSUME FinalStep PROVE Kept
  BY <1>5, <1>a DEF FinalStep, NothingToClean, DropList, DropListErrs, KeepList, Sweep, SweepFails,
                    EraseStarts, EraseErrs
<1>6. ASSUME Restart \/ Expire \/ (\E req \in late : LateLost(req)) \/ UNCHANGED vars PROVE Kept
  BY <1>6, <1>a DEF Restart, Expire, LateLost, vars
<1>7. ASSUME NEW what \in SUBSET {"lists", "id", "items", "plan"}, Changed(what) PROVE Kept
  BY <1>7, <1>a DEF Changed
<1>8. ASSUME Disturbance PROVE Kept
  <2>1. CASE AddressChange
    BY <1>a, <2>1 DEF AddressChange
  <2>2. CASE ~AddressChange
    <3>1. \E what \in SUBSET {"lists", "id", "items", "plan"} : Changed(what)
      BY <1>8, <2>2 DEF Disturbance, OutsideEdit, OutsideGarble, OutsideList, LateLands
    <3>2. QED
      BY <1>7, <3>1
  <2>3. QED
    BY <2>1, <2>2
<1>9. QED
  BY <1>1, <1>2, <1>3, <1>4, <1>5, <1>6, <1>8 DEF Next, RoundStep

\* The four parts together hold after every step, ...
LEMMA NextBasic == BasicInv /\ [Next]_vars => BasicInv'
  BY NextRemote, NextCaches, NextRound, NextWorld DEF BasicInv

\* ... and so always.
LEMMA BasicInvariant == Spec => []BasicInv
  BY InitBasic, NextBasic, PTL DEF Spec

\* Every variable stays within its range, whatever calls fail and whoever else
\* edits the list: a round plans items and IDs only, and a call that needs the
\* list holds its ID.
THEOREM TypeCorrect == Spec => []TypeOK
<1>1. ASSUME BasicInv PROVE TypeOK
  <2>1. late \in SUBSET Request
    BY <1>1 DEF BasicInv, RemoteInv, Sound
  <2>2. goal \in Targets /\ want \in Targets
    BY <1>1, NoTargets, ConstantsAssumption DEF BasicInv, RoundInv, WorldInv, GoalsInScope
  <2>3. QED
    BY <1>1, <2>1, <2>2 DEF BasicInv, RemoteInv, CacheInv, RoundInv, WorldInv, TypeOK
<1>2. QED
  BY <1>1, BasicInvariant, PTL

-----------------------------------------------------------------------------
(* The caches                                                              *)

RightLists == "lists" \notin stale /\ lists # NoCache => lists = list
RightID == "id" \notin stale /\ listID # NoCache => listID = list

\* Until the final clean-up, the list is known by its ID.
LookUpRight == pc \in {"idle", "create", "add", "delete"} => RightLists /\ RightID

\* The cached items are the managed ones. A list that cannot be read was never
\* cached.
Present == ManagedView(items)
ItemsRight == "items" \notin stale /\ cached # NoCache => cached = Present /\ ~garbled

\* A lookup marks what it found as outdated if it comes from what is.
LEMMA StaleLookUp ==
  /\ "items" \in StaleAfterLookUp <=> "items" \in stale
  /\ "plan" \in StaleAfterLookUp <=> "plan" \in stale
  BY DEF StaleAfterLookUp

\* A lookup leaves the cached lists and the cached ID right, or marked as outdated.
LEMMA LookUpKeeps ==
  ASSUME BasicInv, RightLists, RightID,
         lists' = ListsAfterLookUp, listID' = IDAfterLookUp, list' = list,
         "lists" \in stale' <=> "lists" \in StaleAfterLookUp,
         "id" \in stale' <=> "id" \in StaleAfterLookUp
  PROVE  RightLists' /\ RightID'
<1>1. /\ listID # NoList /\ NoList # NoCache /\ list # NoCache
  BY ConstantsAssumption DEF BasicInv, CacheInv, RemoteInv, ListSlot
<1>2. CASE listID # NoCache
  BY <1>1, <1>2 DEF RightLists, RightID, ListsAfterLookUp, IDAfterLookUp, Resolved, StaleAfterLookUp
<1>3. CASE listID = NoCache /\ lists # NoCache
  BY <1>1, <1>3 DEF RightLists, RightID, ListsAfterLookUp, IDAfterLookUp, Resolved, StaleAfterLookUp
<1>4. CASE listID = NoCache /\ lists = NoCache
  BY <1>1, <1>4 DEF RightLists, RightID, ListsAfterLookUp, IDAfterLookUp, Resolved, StaleAfterLookUp
<1>5. QED
  BY <1>2, <1>3, <1>4

\* No list was found: none is cached, and there is none if the lists are right.
LEMMA NotFound ==
  ASSUME BasicInv, Resolved = NoList
  PROVE  /\ listID = NoCache /\ IDAfterLookUp = NoCache
         /\ ListsAfterLookUp = NoList
         /\ RightLists /\ "lists" \notin StaleAfterLookUp => list = NoList
<1>1. listID # NoList /\ NoList # NoCache /\ list # NoCache
  BY ConstantsAssumption DEF BasicInv, CacheInv, RemoteInv, ListSlot
<1>2. QED
  BY <1>1 DEF Resolved, IDAfterLookUp, ListsAfterLookUp, StaleAfterLookUp, RightLists

\* Requests for items leave the list itself as it is.
LEMMA SameList ==
  ASSUME NEW req, req.becomes = req.at, Carry(req) \/ Unanswered(req)
  PROVE  list' = list
  BY DEF Carry, Unanswered, Applicable, remote

\* The final clean-up ends rounds: its steps are none of theirs.
LEMMA FinalIsFinal ==
  /\ RoundStep => pc' \in {"idle", "create", "add", "delete"}
  /\ FinalStep => pc' \in {"sweep", "erase", "stopped"}
<1>1. RoundStep => pc' \in {"idle", "create", "add", "delete"}
  BY DEF RoundStep, ListFails, StartFromCache, StartFromListing, Proceed, ListThere, MakeList,
         EnsureErrs, AddItems, AddErrs, RemoveItems, RemoveErrs, TakeReply, Finish, plan
<1>2. FinalStep => pc' \in {"sweep", "erase", "stopped"}
  BY DEF FinalStep, NothingToClean, DropList, DropListErrs, KeepList, Sweep, SweepFrom,
         SweepFails, EraseStarts, EraseErrs, Stop
<1>3. QED
  BY <1>1, <1>2

\* Every step leaves the cached lists and the cached ID right.
LEMMA NextLookUp == BasicInv /\ LookUpRight /\ [Next]_vars => LookUpRight'
<1> SUFFICES ASSUME BasicInv, LookUpRight, [Next]_vars PROVE LookUpRight'
  OBVIOUS
<1>a. BasicInv' /\ toCreate \in SUBSET Item /\ NoCache \notin ListIDs \cup {NoList}
  BY NextBasic, ConstantsAssumption DEF BasicInv, RoundInv
<1>1. CASE pc' \notin {"idle", "create", "add", "delete"}
  BY <1>1 DEF LookUpRight
<1>2. CASE /\ RightLists /\ RightID
           /\ lists' = ListsAfterLookUp /\ listID' = IDAfterLookUp /\ list' = list
           /\ "lists" \in stale' <=> "lists" \in StaleAfterLookUp
           /\ "id" \in stale' <=> "id" \in StaleAfterLookUp
  BY <1>2, LookUpKeeps DEF LookUpRight
<1>3. CASE /\ RightLists /\ RightID /\ list' = list
           /\ lists' \in {lists, NoCache} /\ listID' \in {listID, NoCache}
           /\ {"lists", "id"} \cap stale \subseteq stale'
  BY <1>3 DEF LookUpRight, RightLists, RightID
<1>4. CASE ListFails
  <2>1. list' = list /\ RightLists /\ RightID
    BY <1>4 DEF ListFails, LookUpRight, remote
  <2>2. CASE UNCHANGED <<lists, listID, stale>>
    BY <1>3, <2>1, <2>2
  <2>3. QED
    BY <1>2, <1>4, <2>1, <2>2 DEF ListFails
<1>5. CASE StartFromCache
  BY <1>3, <1>5 DEF StartFromCache, LookUpRight, remote, caches
<1>6. CASE StartFromListing
  <2>1. /\ RightLists /\ RightID
        /\ lists' = ListsAfterLookUp /\ listID' = IDAfterLookUp /\ list' = list
    BY <1>6 DEF StartFromListing, LookUpRight, remote
  <2>2. /\ "lists" \in stale' <=> "lists" \in StaleAfterLookUp
        /\ "id" \in stale' <=> "id" \in StaleAfterLookUp
    BY <1>6 DEF StartFromListing
  <2>3. QED
    BY <1>2, <2>1, <2>2
<1>7. CASE ListThere
  BY <1>2, <1>7 DEF ListThere, LookUpRight, remote
<1>8. ASSUME NEW l \in ListIDs, MakeList(l) PROVE LookUpRight'
  BY <1>8 DEF MakeList, Carry, Making, LookUpRight, RightLists, RightID
<1>9. CASE EnsureErrs
  <2>1. lists' = NoCache /\ listID' = NoCache
    BY <1>9, NotFound DEF EnsureErrs, MustFetchLists
  <2>2. QED
    BY <2>1 DEF LookUpRight, RightLists, RightID
<1>10. CASE AddItems \/ AddErrs
  <2>1. PICK req \in Creating(at) : Carry(req) \/ Unanswered(req)
    BY <1>10 DEF AddItems, AddErrs
  <2>2. list' = list
    BY <2>1, SameList DEF Creating
  <2>3. /\ RightLists /\ RightID /\ lists' = lists /\ listID' = listID
        /\ {"lists", "id"} \cap stale \subseteq stale'
    BY <1>10 DEF AddItems, AddErrs, TakeReply, LookUpRight
  <2>4. QED
    BY <1>3, <2>2, <2>3
<1>11. CASE RemoveItems
  <2>1. list' = list
    BY <1>11, SameList DEF RemoveItems, Deleting
  <2>2. /\ RightLists /\ RightID
        /\ lists' = ListsAfterLookUp /\ listID' = IDAfterLookUp
        /\ "lists" \in stale' <=> "lists" \in StaleAfterLookUp
        /\ "id" \in stale' <=> "id" \in StaleAfterLookUp
    BY <1>11 DEF RemoveItems, TakeReply, LookUpRight
  <2>3. QED
    BY <1>2, <2>1, <2>2
<1>12. CASE RemoveErrs
  <2>1. RightLists /\ RightID
    BY <1>12 DEF RemoveErrs, LookUpRight
  <2>2. CASE UNCHANGED <<remote, caches, stale>>
    BY <1>3, <2>1, <2>2 DEF remote, caches
  <2>3. CASE /\ Unanswered(Deleting(Resolved, toDelete))
             /\ lists' = ListsAfterLookUp /\ listID' = IDAfterLookUp /\ stale' = StaleAfterLookUp
    <3>1. list' = list
      BY <2>3, SameList DEF Deleting
    <3>2. QED
      BY <1>2, <2>1, <2>3, <3>1
  <2>4. CASE /\ Resolved = NoList
             /\ lists' = ListsAfterLookUp /\ stale' = StaleAfterLookUp
             /\ UNCHANGED <<remote, listID, cached>>
    <3>1. listID' = IDAfterLookUp /\ list' = list
      BY <2>4, NotFound DEF remote
    <3>2. QED
      BY <1>2, <2>1, <2>4, <3>1
  <2>5. QED
    BY <1>12, <2>2, <2>3, <2>4 DEF RemoveErrs
<1>13. CASE FinalStep
  BY <1>1, <1>13, FinalIsFinal
<1>14. CASE Restart
  BY <1>14 DEF Restart, LookUpRight, RightLists, RightID
<1>15. CASE UNCHANGED <<list, pc, lists, listID>> /\ {"lists", "id"} \cap stale \subseteq stale'
  BY <1>15 DEF LookUpRight, RightLists, RightID
<1>16. CASE {"lists", "id"} \subseteq stale'
  BY <1>16 DEF LookUpRight, RightLists, RightID
<1>17. CASE Expire
  BY <1>17 DEF Expire, remote, LookUpRight, RightLists, RightID
<1>18. CASE Disturbance
  <2>1. CASE AddressChange \/ OutsideGarble
    BY <1>15, <2>1 DEF AddressChange, OutsideGarble, Changed, remote, caches
  <2>2. CASE \E id \in ItemIDs, slot \in Item \cup {Absent} : OutsideEdit(id, slot)
    BY <1>15, <2>2 DEF OutsideEdit, Changed, caches
  <2>3. CASE OutsideList
    BY <1>16, <2>3 DEF OutsideList, Changed
  <2>4. ASSUME NEW req \in late, LateLands(req) PROVE LookUpRight'
    <3>1. CASE req.becomes = req.at
      BY <1>15, <2>4, <3>1, SameList DEF LateLands, Changed, caches
    <3>2. CASE req.becomes # req.at
      BY <1>16, <2>4, <3>2 DEF LateLands, Changed
    <3>3. QED
      BY <3>1, <3>2
  <2>5. QED
    BY <1>18, <2>1, <2>2, <2>3, <2>4 DEF Disturbance
<1>19. CASE (\E req \in late : LateLost(req)) \/ UNCHANGED vars
  BY <1>15, <1>19 DEF LateLost, vars, remote, caches
<1>20. QED
  BY <1>4, <1>5, <1>6, <1>7, <1>8, <1>9, <1>10, <1>11, <1>12, <1>13, <1>14, <1>17, <1>18, <1>19
     DEF Next, RoundStep

\* What is managed does not change, so that the managed items after a step are
\* those of the items after it.
LEMMA PresentAfter ==
  ASSUME policy' = policy
  PROVE  /\ Present' = ManagedView(items')
         /\ items' = items => Present' = Present
  BY DEF Present, ManagedView, Managed

\* A list that is made has no items, and had none before.
LEMMA MakingItems ==
  ASSUME BasicInv, NEW l \in ListIDs, Carry(Making(l)) \/ Unanswered(Making(l))
  PROVE  items' = items /\ garbled' = garbled
<1>1. NoList \notin ListIDs
  BY ConstantsAssumption
<1>2. list = NoList => items = Nothing /\ ~garbled /\ garbled \in BOOLEAN
  BY DEF BasicInv, RemoteInv
<1>3. CASE Carry(Making(l))
  BY <1>1, <1>2, <1>3 DEF Carry, Making, Applicable
<1>4. CASE ~Carry(Making(l))
  BY <1>4 DEF Unanswered, remote
<1>5. QED
  BY <1>3, <1>4

\* Every step leaves the cached items right.
LEMMA NextItems == BasicInv /\ ItemsRight /\ [Next]_vars => ItemsRight'
<1> SUFFICES ASSUME BasicInv, ItemsRight, [Next]_vars PROVE ItemsRight'
  OBVIOUS
<1>a. /\ Present' = ManagedView(items')
      /\ items' = items => Present' = Present
      /\ garbled \in BOOLEAN
  BY NextWorld, PresentAfter DEF BasicInv, RemoteInv
<1>1. CASE cached' = NoCache \/ "items" \in stale'
  BY <1>1 DEF ItemsRight
<1>2. CASE /\ items' = items /\ garbled' = garbled /\ cached' = cached
           /\ "items" \in stale => "items" \in stale'
  BY <1>2, <1>a DEF ItemsRight
<1>3. CASE cached' = ManagedView(items') /\ ~garbled'
  BY <1>3, <1>a DEF ItemsRight
<1>4. CASE ListFails \/ StartFromCache \/ ListThere
  BY <1>2, <1>4, StaleLookUp DEF ListFails, StartFromCache, ListThere, remote, caches
<1>5. CASE StartFromListing
  <2>1. CASE Resolved = NoList
    BY <1>1, <1>5, <2>1 DEF StartFromListing
  <2>2. CASE Resolved # NoList
    BY <1>3, <1>5, <2>2 DEF StartFromListing, Readable, remote
  <2>3. QED
    BY <2>1, <2>2
<1>6. ASSUME NEW l \in ListIDs, MakeList(l) PROVE ItemsRight'
  <2>1. items' = items /\ garbled' = garbled
    BY <1>6, MakingItems DEF MakeList
  <2>2. cached' = cached /\ ("items" \in stale => "items" \in stale')
    BY <1>6, StaleLookUp DEF MakeList
  <2>3. QED
    BY <1>2, <2>1, <2>2
<1>7. CASE EnsureErrs
  <2>1. items' = items /\ garbled' = garbled
    BY <1>7, MakingItems DEF EnsureErrs, FreshLists, remote
  <2>2. cached' = cached /\ ("items" \in stale => "items" \in stale')
    BY <1>7, StaleLookUp DEF EnsureErrs
  <2>3. QED
    BY <1>2, <2>1, <2>2
<1>8. ASSUME NEW before, NEW goOn, NEW req, Carry(req),
             TakeReply(before, goOn), "items" \in before <=> "items" \in stale
      PROVE  ItemsRight'
  <2>1. CASE garbled
    BY <1>8, <2>1 DEF TakeReply, ItemsRight
  <2>2. CASE ~garbled
    BY <1>3, <1>8, <2>2 DEF TakeReply, Carry
  <2>3. QED
    BY <2>1, <2>2
<1>9. CASE AddItems
  BY <1>8, <1>9 DEF AddItems
<1>10. CASE RemoveItems
  BY <1>8, <1>10, StaleLookUp DEF RemoveItems
<1>11. CASE AddErrs
  BY <1>1, <1>11 DEF AddErrs, Invalidate
<1>12. CASE RemoveErrs
  BY <1>1, <1>2, <1>12, StaleLookUp DEF RemoveErrs, Invalidate, remote, caches
<1>13. CASE NothingToClean \/ DropList \/ DropListErrs \/ KeepList
  BY <1>1, <1>2, <1>13, StaleLookUp DEF NothingToClean, DropList, DropListErrs, KeepList, remote, caches
<1>14. CASE Sweep
  <2>1. CASE cached # NoCache
    BY <1>2, <1>14, <2>1 DEF Sweep, remote
  <2>2. CASE cached = NoCache
    BY <1>3, <1>14, <2>2 DEF Sweep, Readable, remote
  <2>3. QED
    BY <2>1, <2>2
<1>15. CASE SweepFails \/ EraseStarts \/ EraseErrs \/ Restart
  BY <1>1, <1>2, <1>15 DEF SweepFails, EraseStarts, EraseErrs, Restart, remote, caches
<1>16. CASE Expire \/ AddressChange \/ (\E req \in late : LateLost(req)) \/ UNCHANGED vars
  BY <1>1, <1>2, <1>16 DEF Expire, AddressChange, LateLost, vars, remote, caches
<1>17. CASE Disturbance /\ ~AddressChange
  BY <1>1, <1>17 DEF Disturbance, OutsideEdit, OutsideGarble, OutsideList, LateLands, Changed
<1>18. QED
  BY <1>4, <1>5, <1>6, <1>7, <1>9, <1>10, <1>11, <1>12, <1>13, <1>14, <1>15, <1>16, <1>17
     DEF Next, RoundStep, FinalStep

-----------------------------------------------------------------------------
(* The plan                                                                *)

\* Undisturbed, a plan says exactly what is missing and what is useless; what is
\* useless is only deleted once nothing is missing; a round that ended well has
\* left nothing of either.
PlanRight ==
  "plan" \notin stale =>
    /\ pc \in {"create", "add"} =>
         toCreate = Creations(Present, want) /\ toDelete = Deletions(Present, want)
    /\ pc = "delete" =>
         /\ toDelete = Deletions(Present, want)
         /\ \A f \in DOMAIN want : Uncovered(Present, want, f) = {}
    /\ pc = "erase" => toDelete = InScopeItems(Present)
    /\ pc = "idle" /\ result \in {"noop", "updated"} => Satisfied(want)

Inductive == BasicInv /\ LookUpRight /\ ItemsRight /\ PlanRight

\* Targets come sorted by family.
LEMMA WantSorted ==
  ASSUME BasicInv
  PROVE  /\ goal \in Targets /\ Sorted(goal)
         /\ want \in Targets /\ Sorted(want)
<1>1. \A g \in Goals : g \in Targets /\ Sorted(g)
  BY ConstantsAssumption DEF Sorted
<1>2. Preserved \in Targets /\ Sorted(Preserved)
  BY NoTargets DEF Sorted
<1>3. QED
  BY <1>1, <1>2 DEF BasicInv, WorldInv, RoundInv, GoalsInScope

\* What is managed at present is a view.
LEMMA PresentView ==
  ASSUME BasicInv
  PROVE  /\ Present \in View
         /\ \A id \in ItemIDs : Present[id] = IF Managed(items[id]) THEN items[id] ELSE Absent
         /\ Ids(Present) = {id \in ItemIDs : Managed(items[id])}
  BY ManagedViewType DEF Present, BasicInv, RemoteInv

\* When there is nothing to create, every target is covered.
LEMMA NothingToCreate ==
  ASSUME NEW view, NEW targets, Creations(view, targets) = {}
  PROVE  \A f \in DOMAIN targets : Uncovered(view, targets, f) = {}
  BY UncoveredGetsItem

\* Bulk creation as planned covers the targets and adds nothing useless.
LEMMA Added ==
  ASSUME BasicInv, pc = "add", toCreate = Creations(Present, want),
         NEW req \in Creating(at), Carry(req)
  PROVE  /\ \A id \in ItemIDs : items[id] # Absent => items'[id] = items[id]
         /\ \A id \in ItemIDs : items[id] = Absent => items'[id] \in toCreate \cup {Absent}
         /\ \A item \in toCreate : Managed(item)
         /\ LET after == ManagedView(items')
            IN  /\ \A f \in DOMAIN want : Uncovered(after, want, f) = {}
                /\ Deletions(after, want) = Deletions(Present, want)
                /\ \A id \in Ids(Present) : id \in Ids(after) /\ after[id] = Present[id]
                /\ \A id \in Ids(after) : id \in Ids(Present) \/ after[id] \in toCreate
                /\ \A item \in toCreate : \E id \in Ids(after) : after[id] = item
<1> DEFINE after == ManagedView(items')
<1>1. /\ toCreate \in SUBSET Item /\ at \in ListIDs /\ items \in View /\ Absent \notin Item
      /\ policy \in Policies
  BY ConstantsAssumption DEF BasicInv, RoundInv, RemoteInv, WorldInv
<1>2. /\ Sound(req) /\ req.at = req.becomes /\ req.gone = {}
      /\ Ids(req.new) \subseteq FreshItems
      /\ req.new \in [ItemIDs -> toCreate \cup {Absent}]
      /\ \A item \in toCreate : \E id \in ItemIDs : req.new[id] = item
  BY <1>1, CreatingSound
<1>3. /\ items' = [id \in ItemIDs |-> IF req.new[id] # Absent THEN req.new[id] ELSE items[id]]
  BY <1>2 DEF Carry, Edited
<1>4. \A id \in ItemIDs : items[id] # Absent => items'[id] = items[id]
  BY <1>2, <1>3 DEF FreshItems, Ids
<1>5. \A id \in ItemIDs : items[id] = Absent => items'[id] \in toCreate \cup {Absent}
  BY <1>2, <1>3
<1>6. \A item \in toCreate : \E id \in ItemIDs : items[id] = Absent /\ items'[id] = item
  BY <1>1, <1>2, <1>3 DEF FreshItems, Ids
<1>7. \A item \in toCreate : Managed(item)
  <2>1. SUFFICES ASSUME NEW f \in DOMAIN want, NEW item \in NewItems(Present, want, f)
                 PROVE  Managed(item)
    BY DEF Creations
  <2>2. /\ item \in Item
        /\ item.comment = Fallback \/ \E id \in Ids(Present) : item.comment = Present[id].comment
    BY <1>1, NewItem, PresentView, WantSorted, PolicyType
  <2>3. \A id \in Ids(Present) : Present[id].comment \in policy.managed
    BY PresentView DEF Managed
  <2>4. Fallback \in policy.managed
    BY <1>1, PolicyType
  <2>5. QED
    BY <1>1, <2>2, <2>3, <2>4 DEF Managed
<1>8. items' \in View
  BY <1>1, <1>2, <1>3 DEF View
<1>9. /\ after \in View
      /\ \A id \in ItemIDs : after[id] = IF Managed(items'[id]) THEN items'[id] ELSE Absent
  BY <1>8, ManagedViewType
<1>10. /\ \A id \in ItemIDs : Present[id] # Absent => after[id] = Present[id]
       /\ \A id \in ItemIDs : Present[id] = Absent => after[id] \in toCreate \cup {Absent}
       /\ \A item \in toCreate : \E id \in ItemIDs : after[id] = item
  <2>1. /\ Present \in View
        /\ \A id \in ItemIDs : Present[id] = IF Managed(items[id]) THEN items[id] ELSE Absent
        /\ ~Managed(Absent)
    BY PresentView DEF Managed
  <2>2. \A id \in ItemIDs : Present[id] # Absent => after[id] = Present[id]
    BY <1>4, <1>9, <2>1
  <2>3. \A id \in ItemIDs : Present[id] = Absent => after[id] \in toCreate \cup {Absent}
    BY <1>4, <1>5, <1>9, <2>1
  <2>4. \A item \in toCreate : \E id \in ItemIDs : after[id] = item
    BY <1>6, <1>7, <1>9
  <2>5. QED
    BY <2>2, <2>3, <2>4
<1> HIDE DEF after
<1>11. /\ \A f \in DOMAIN want : Uncovered(after, want, f) = {}
       /\ Deletions(after, want) = Deletions(Present, want)
  BY <1>1, <1>9, <1>10, CreatedView, PresentView, WantSorted, PolicyType
<1>12. /\ \A id \in Ids(Present) : id \in Ids(after) /\ after[id] = Present[id]
       /\ \A id \in Ids(after) : id \in Ids(Present) \/ after[id] \in toCreate
       /\ \A item \in toCreate : \E id \in Ids(after) : after[id] = item
  BY <1>1, <1>10 DEF Ids
<1>13. QED
  BY <1>4, <1>5, <1>7, <1>11, <1>12 DEF after

\* A deletion takes the items it names, managed or not, and no other.
LEMMA Removed ==
  ASSUME BasicInv, NEW l \in ListIDs, NEW ids \in SUBSET ItemIDs, Carry(Deleting(l, ids))
  PROVE  /\ list = l /\ list' = l
         /\ \A id \in ItemIDs : items'[id] = IF id \in ids THEN Absent ELSE items[id]
         /\ ManagedView(items') \in View
         /\ \A id \in ItemIDs :
              ManagedView(items')[id] = IF id \in ids THEN Absent ELSE Present[id]
<1>1. /\ list = l /\ list' = l /\ items \in View
      /\ items' = [id \in ItemIDs |-> IF Nothing[id] # Absent THEN Nothing[id]
                                      ELSE IF id \in ids THEN Absent ELSE items[id]]
  BY DEF Carry, Deleting, Applicable, Edited, BasicInv, RemoteInv
<1>2. \A id \in ItemIDs : items'[id] = IF id \in ids THEN Absent ELSE items[id]
  BY <1>1 DEF Nothing
<1>3. items' \in View
  BY <1>1, <1>2 DEF View
<1>4. \A id \in ItemIDs : ManagedView(items')[id] = IF Managed(items'[id]) THEN items'[id] ELSE Absent
  BY <1>3, ManagedViewType
<1>5. ~Managed(Absent)
  BY DEF Managed
<1>6. QED
  BY <1>1, <1>2, <1>3, <1>4, <1>5, PresentView, ManagedViewType

\* Carrying out the planned deletions leaves nothing missing and nothing useless.
LEMMA RemovedAsPlanned ==
  ASSUME BasicInv, pc = "delete", PlanRight, "plan" \notin stale,
         NEW l \in ListIDs, Carry(Deleting(l, toDelete))
  PROVE  \A f \in DOMAIN want : /\ Uncovered(ManagedView(items'), want, f) = {}
                                /\ Useless(ManagedView(items'), want, f) = {}
<1>1. /\ toDelete = Deletions(Present, want)
      /\ \A f \in DOMAIN want : Uncovered(Present, want, f) = {}
  BY DEF PlanRight
<1>2. toDelete \in SUBSET ItemIDs
  BY DEF BasicInv, RoundInv
<1>3. /\ ManagedView(items') \in View
      /\ \A id \in ItemIDs :
           ManagedView(items')[id] = IF id \in toDelete THEN Absent ELSE Present[id]
  BY <1>2, Removed
<1>4. QED
  BY <1>1, <1>3, DeletedView, PresentView, WantSorted

\* A plan made from the managed items is right.
LEMMA ProceedRight ==
  ASSUME BasicInv, Proceed(Present), want' = goal, items' = items, policy' = policy
  PROVE  PlanRight'
<1>1. /\ toCreate' = Creations(Present, want') /\ toDelete' = Deletions(Present, want')
      /\ Present' = Present /\ Present' = ManagedView(items')
  BY PresentAfter DEF Proceed
<1>2. \/ pc' = "create"
      \/ pc' = "delete" /\ toCreate' = {}
      \/ pc' = "idle" /\ toCreate' = {} /\ toDelete' = {}
  BY DEF Proceed
<1>3. ASSUME toCreate' = {}
      PROVE  \A f \in DOMAIN want' : Uncovered(Present, want', f) = {}
  BY <1>1, <1>3, NothingToCreate
<1>4. ASSUME toCreate' = {}, toDelete' = {}
      PROVE  Satisfied(want)'
  <2>1. \A f \in DOMAIN want' : Useless(Present, want', f) = {}
    BY <1>1, <1>4 DEF Deletions
  <2>2. QED
    BY <1>1, <1>3, <1>4, <2>1 DEF Satisfied, Present
<1>5. CASE pc' = "create"
  BY <1>1, <1>5 DEF PlanRight
<1>6. CASE pc' = "delete" /\ toCreate' = {}
  BY <1>1, <1>3, <1>6 DEF PlanRight
<1>7. CASE pc' = "idle" /\ toCreate' = {} /\ toDelete' = {}
  BY <1>4, <1>7 DEF PlanRight
<1>8. QED
  BY <1>2, <1>5, <1>6, <1>7

\* Every step leaves the plan right.
LEMMA NextPlan == Inductive /\ [Next]_vars => PlanRight'
<1> SUFFICES ASSUME Inductive, [Next]_vars PROVE PlanRight'
  OBVIOUS
<1>a. BasicInv /\ LookUpRight /\ ItemsRight /\ PlanRight
  BY DEF Inductive
<1>b. /\ policy' = policy
      /\ Present' = ManagedView(items')
      /\ items' = items => Present' = Present
  BY <1>a, NextWorld, PresentAfter
<1>c. /\ pc \in {"add", "sweep", "erase"} => at \in ListIDs
      /\ Resolved # NoList => Resolved \in ListIDs
  BY <1>a, LookUpType DEF BasicInv, RoundInv, ListSlot
<1>1. CASE "plan" \in stale'
  BY <1>1 DEF PlanRight
<1>2. ASSUME pc' = "sweep" \/ pc' = "stopped" PROVE PlanRight'
  BY <1>2 DEF PlanRight
<1>3. CASE Finish("failed") \/ Finish("none")
  BY <1>3 DEF Finish, PlanRight
<1>4. CASE items' = items /\ UNCHANGED <<want, toCreate, toDelete>>
           /\ pc = "create" /\ pc' = "add" /\ ("plan" \in stale => "plan" \in stale')
  BY <1>4, <1>a, <1>b DEF PlanRight
<1>5. CASE items' = items /\ UNCHANGED <<want, toCreate, toDelete, pc, result>>
           /\ ("plan" \in stale => "plan" \in stale')
  <2>1. Satisfied(want)' = Satisfied(want)
    BY <1>5, <1>b DEF Satisfied, Present
  <2>2. InScopeItems(Present)' = InScopeItems(Present)
    BY <1>5, <1>b DEF InScopeItems
  <2>3. QED
    BY <1>5, <1>a, <1>b, <2>1, <2>2 DEF PlanRight
<1>6. CASE StartFromCache
  <2>1. CASE "items" \in stale
    BY <1>1, <1>6, <2>1 DEF StartFromCache
  <2>2. CASE "items" \notin stale
    <3>1. cached = Present
      BY <1>6, <1>a, <2>2 DEF StartFromCache, ItemsRight
    <3>2. QED
      BY <1>6, <1>a, <1>b, <3>1, ProceedRight DEF StartFromCache, remote
  <2>3. QED
    BY <2>1, <2>2
<1>7. CASE StartFromListing
  <2>1. want' = goal /\ items' = items
    BY <1>7 DEF StartFromListing, remote
  <2>2. CASE Resolved # NoList
    BY <1>7, <1>a, <1>b, <2>1, <2>2, ProceedRight DEF StartFromListing, Present
  <2>3. CASE Resolved = NoList /\ "lists" \in StaleAfterLookUp
    BY <1>1, <1>7, <2>3 DEF StartFromListing
  <2>4. CASE Resolved = NoList /\ "lists" \notin StaleAfterLookUp
    <3>1. list = NoList
      BY <1>7, <1>a, <2>4, NotFound DEF StartFromListing, LookUpRight
    <3>2. Present = Nothing
      BY <1>a, <3>1, NothingManaged DEF BasicInv, RemoteInv, Present
    <3>3. QED
      BY <1>7, <1>a, <1>b, <2>1, <2>4, <3>2, ProceedRight DEF StartFromListing
  <2>5. QED
    BY <2>2, <2>3, <2>4
<1>8. CASE ListFails
  BY <1>8 DEF ListFails, PlanRight
<1>9. CASE ListThere
  BY <1>4, <1>9, StaleLookUp DEF ListThere, remote
<1>10. ASSUME NEW l \in ListIDs, MakeList(l) PROVE PlanRight'
  <2>1. items' = items
    BY <1>10, <1>a, MakingItems DEF MakeList
  <2>2. QED
    BY <1>4, <1>10, <2>1, StaleLookUp DEF MakeList
<1>11. CASE EnsureErrs \/ AddErrs \/ RemoveErrs \/ Restart
  BY <1>3, <1>11 DEF EnsureErrs, AddErrs, RemoveErrs, Restart
<1>12. CASE AddItems
  <2>1. CASE Finish("failed")
    BY <1>3, <2>1
  <2>2. CASE "plan" \in stale
    BY <1>1, <1>12, <2>2 DEF AddItems, TakeReply
  <2>3. CASE "plan" \notin stale
             /\ \/ toDelete = {} /\ Finish("updated")
                \/ /\ pc' = "delete" /\ toDelete' = toDelete
    <3>1. /\ pc = "add" /\ toCreate = Creations(Present, want) /\ toDelete = Deletions(Present, want)
          /\ want' = want
      BY <1>12, <1>a, <2>3 DEF AddItems, PlanRight
    <3>2. PICK req \in Creating(at) : Carry(req)
      BY <1>12 DEF AddItems
    <3>3. /\ \A f \in DOMAIN want : Uncovered(Present', want, f) = {}
          /\ Deletions(Present', want) = toDelete
      BY <1>a, <1>b, <3>1, <3>2, Added
    <3>4. CASE toDelete = {} /\ Finish("updated")
      <4>1. \A f \in DOMAIN want : Useless(Present', want, f) = {}
        BY <3>3, <3>4 DEF Deletions
      <4>2. Satisfied(want)'
        BY <1>b, <3>1, <3>3, <4>1 DEF Satisfied, Present
      <4>3. QED
        BY <3>4, <4>2 DEF Finish, PlanRight
    <3>5. CASE pc' = "delete" /\ toDelete' = toDelete
      BY <3>1, <3>3, <3>5 DEF PlanRight
    <3>6. QED
      BY <2>3, <3>4, <3>5
  <2>4. QED
    BY <1>12, <2>1, <2>2, <2>3 DEF AddItems, TakeReply
<1>13. CASE RemoveItems
  <2>1. CASE Finish("failed")
    BY <1>3, <2>1
  <2>2. CASE "plan" \in stale
    BY <1>1, <1>13, <2>2, StaleLookUp DEF RemoveItems, TakeReply
  <2>3. CASE "plan" \notin stale /\ Finish("updated")
    <3>1. /\ pc = "delete" /\ Resolved \in ListIDs
          /\ Carry(Deleting(Resolved, toDelete)) /\ want' = want
      BY <1>13, <1>c DEF RemoveItems
    <3>2. \A f \in DOMAIN want : Uncovered(Present', want, f) = {} /\ Useless(Present', want, f) = {}
      BY <1>a, <1>b, <2>3, <3>1, RemovedAsPlanned
    <3>3. Satisfied(want)'
      BY <1>b, <3>1, <3>2 DEF Satisfied, Present
    <3>4. QED
      BY <2>3, <3>3 DEF Finish, PlanRight
  <2>4. QED
    BY <1>13, <2>1, <2>2, <2>3 DEF RemoveItems, TakeReply
<1>14. CASE NothingToClean \/ DropList \/ DropListErrs \/ KeepList \/ SweepFails
            \/ EraseStarts \/ EraseErrs
  <2>1. pc' = "sweep" \/ pc' = "stopped"
    BY <1>14 DEF NothingToClean, DropList, DropListErrs, KeepList, SweepFails, EraseStarts,
                 EraseErrs, Stop
  <2>2. QED
    BY <1>2, <2>1
<1>15. CASE Sweep
  <2>1. CASE Stop("noop")
    <3>1. pc' = "stopped"
      BY <2>1 DEF Stop
    <3>2. QED
      BY <1>2, <3>1
  <2>2. CASE cached # NoCache /\ "items" \in stale
    BY <1>1, <1>15, <2>2 DEF Sweep
  <2>3. ASSUME NEW view, view = Present, SweepFrom(view)
        PROVE  PlanRight'
    <3>1. CASE pc' = "erase" /\ toDelete' = InScopeItems(Present)
      <4>1. InScopeItems(Present)' = InScopeItems(Present)
        BY <1>15, <1>b DEF Sweep, remote, InScopeItems
      <4>2. QED
        BY <3>1, <4>1 DEF PlanRight
    <3>2. QED
      BY <2>1, <2>3, <3>1 DEF SweepFrom
  <2>4. CASE cached # NoCache /\ "items" \notin stale
    BY <1>15, <1>a, <2>3, <2>4 DEF Sweep, ItemsRight
  <2>5. CASE cached = NoCache
    BY <1>15, <2>3, <2>5 DEF Sweep, Present
  <2>6. QED
    BY <2>2, <2>4, <2>5
<1>16. CASE Expire \/ AddressChange \/ (\E req \in late : LateLost(req)) \/ UNCHANGED vars
  BY <1>5, <1>16 DEF Expire, AddressChange, LateLost, vars, remote, plan
<1>17. CASE Disturbance /\ ~AddressChange
  BY <1>1, <1>17 DEF Disturbance, OutsideEdit, OutsideGarble, OutsideList, LateLands, Changed
<1>18. QED
  BY <1>6, <1>7, <1>8, <1>9, <1>10, <1>11, <1>12, <1>13, <1>14, <1>15, <1>16, <1>17
     DEF Next, RoundStep, FinalStep

\* What the proofs below rest on holds at first, ...
LEMMA InitInductive == Init => Inductive
<1> SUFFICES ASSUME Init PROVE Inductive
  OBVIOUS
<1>1. BasicInv
  BY InitBasic
<1>2. LookUpRight /\ ItemsRight /\ PlanRight
  BY DEF Init, LookUpRight, RightLists, RightID, ItemsRight, PlanRight
<1>3. QED
  BY <1>1, <1>2 DEF Inductive

\* ... after every step, ...
LEMMA NextInductive == Inductive /\ [Next]_vars => Inductive'
<1> SUFFICES ASSUME Inductive, [Next]_vars PROVE Inductive'
  OBVIOUS
<1>1. BasicInv /\ LookUpRight /\ ItemsRight
  BY DEF Inductive
<1>2. QED
  BY <1>1, NextBasic, NextLookUp, NextItems, NextPlan DEF Inductive

\* ... and always: the caches, the items and the plan agree wherever nobody has
\* interfered, whatever calls fail and whenever replies are lost.
THEOREM InductiveInvariant == Spec => []Inductive
  BY InitInductive, NextInductive, PTL DEF Spec

\* What the handle has cached of the account's lists, of the list's ID and of its
\* items is so at Cloudflare unless others have made it otherwise: no creation,
\* deletion, error or expired entry ever leaves a cache wrong.
THEOREM CachesAreCoherent == Spec => []CachesCoherent
<1>1. Inductive => CachesCoherent
  BY DEF Inductive, LookUpRight, RightLists, RightID, ItemsRight, Present, CachesCoherent
<1>2. QED
  BY <1>1, InductiveInvariant, PTL

\* SetWAFList says "noop" or "updated" only of a list that covers every target
\* and holds no useless managed item of the steered families.
THEOREM SuccessIsTrue == Spec => []SuccessMeansSatisfied
<1>1. Inductive => SuccessMeansSatisfied
  BY DEF Inductive, PlanRight, SuccessMeansSatisfied
<1>2. QED
  BY <1>1, InductiveInvariant, PTL

-----------------------------------------------------------------------------
(* What steps may do to the list                                           *)

\* A round touches the items only by the bulk creation and the bulk deletion.
LEMMA RoundEffects ==
  ASSUME BasicInv, RoundStep
  PROVE  /\ \/ items' = items
            \/ pc = "add" /\ \E req \in Creating(at) : Carry(req)
            \/ /\ pc = "delete" /\ Resolved \in ListIDs
               /\ Carry(Deleting(Resolved, toDelete))
         /\ pc # "idle" => want' = want
<1>1. /\ NoList \notin ListIDs /\ FreshLists \subseteq ListIDs
      /\ Resolved # NoList => Resolved \in ListIDs
  BY ConstantsAssumption, LookUpType DEF ListSlot, FreshLists
<1>2. CASE ListFails \/ StartFromCache \/ StartFromListing \/ ListThere
  BY <1>2 DEF ListFails, StartFromCache, StartFromListing, ListThere, remote, plan
<1>3. CASE (\E l \in ListIDs : MakeList(l)) \/ EnsureErrs
  BY <1>1, <1>3, MakingItems DEF MakeList, EnsureErrs, remote
<1>4. CASE AddItems
  BY <1>4 DEF AddItems
<1>5. CASE AddErrs
  BY <1>5 DEF AddErrs, Unanswered, remote
<1>6. CASE RemoveItems
  BY <1>1, <1>6 DEF RemoveItems
<1>7. CASE RemoveErrs
  <2>1. pc = "delete" /\ want' = want
    BY <1>7 DEF RemoveErrs
  <2>2. \/ items' = items
        \/ Resolved # NoList /\ Carry(Deleting(Resolved, toDelete))
    BY <1>7 DEF RemoveErrs, Unanswered, remote
  <2>3. QED
    BY <1>1, <2>1, <2>2
<1>8. QED
  BY <1>2, <1>3, <1>4, <1>5, <1>6, <1>7 DEF RoundStep

\* "Create first, then delete, to avoid temporary coverage gaps": wherever a round
\* without interference is interrupted, and whichever of its calls fail, no
\* covered target loses its cover, and nothing is deleted before every target of
\* the round is covered.
THEOREM NoGapOpens == Spec => NoCoverageGap
<1>1. ASSUME Inductive, RoundStep, pc # "idle", "plan" \notin stale
      PROVE  /\ CoveredTargets \subseteq CoveredTargets'
             /\ (\E id \in ItemIDs : items[id] # Absent /\ items'[id] = Absent) =>
                  \A f \in DOMAIN want : Uncovered(ManagedView(items), want, f) = {}
  <2>a. BasicInv /\ PlanRight /\ [Next]_vars
    BY <1>1 DEF Inductive, Next
  <2>b. want' = want /\ Present' = ManagedView(items') /\ (items' = items => Present' = Present)
    BY <1>1, <2>a, RoundEffects, NextWorld, PresentAfter
  <2>c. /\ CoveredTargets = {t \in UNION {want[f] : f \in DOMAIN want} :
                              \E id \in Ids(Present) : Hits(Present, id, t)}
        /\ CoveredTargets' = {t \in UNION {want[f] : f \in DOMAIN want} :
                               \E id \in Ids(Present') : Hits(Present', id, t)}
    BY <2>b DEF CoveredTargets, Present
  <2>1. CASE items' = items
    BY <2>1, <2>b, <2>c
  <2>2. ASSUME pc = "add", NEW req \in Creating(at), Carry(req)
        PROVE  /\ CoveredTargets \subseteq CoveredTargets'
               /\ \A id \in ItemIDs : items[id] # Absent => items'[id] # Absent
    <3>1. toCreate = Creations(Present, want)
      BY <1>1, <2>2, <2>a DEF PlanRight
    <3>2. /\ \A id \in ItemIDs : items[id] # Absent => items'[id] = items[id]
          /\ \A id \in Ids(Present) : id \in Ids(Present') /\ Present'[id] = Present[id]
      BY <2>2, <2>a, <2>b, <3>1, Added
    <3>3. CoveredTargets \subseteq CoveredTargets'
      BY <2>c, <3>2 DEF Hits
    <3>4. QED
      BY <3>2, <3>3
  <2>3. CASE /\ pc = "delete" /\ Resolved \in ListIDs
             /\ Carry(Deleting(Resolved, toDelete))
    <3>1. \A f \in DOMAIN want : Uncovered(Present, want, f) = {}
      BY <1>1, <2>3, <2>a DEF PlanRight
    <3>2. \A f \in DOMAIN want : Uncovered(Present', want, f) = {}
      BY <1>1, <2>3, <2>a, <2>b, RemovedAsPlanned
    <3>3. CoveredTargets' = UNION {want[f] : f \in DOMAIN want}
      BY <2>c, <3>2 DEF Uncovered
    <3>4. QED
      BY <2>c, <3>1, <3>3 DEF Present
  <2>4. QED
    BY <1>1, <2>a, <2>1, <2>2, <2>3, RoundEffects
<1>2. QED
  BY <1>1, InductiveInvariant, PTL DEF NoCoverageGap

\* A round without interference adds no item for a range that a managed item of
\* the list covers already.
THEOREM NothingAddedTwice == Spec => NoRedundantItems
<1>1. ASSUME Inductive, RoundStep, "plan" \notin stale,
             NEW id \in ItemIDs, items[id] = Absent, items'[id] # Absent
      PROVE  items'[id].prefix \notin CoveredTargets
  <2>a. BasicInv /\ PlanRight
    BY <1>1 DEF Inductive
  <2>1. ASSUME pc = "delete", Resolved \in ListIDs, Carry(Deleting(Resolved, toDelete))
        PROVE  FALSE
    <3>1. toDelete \in SUBSET ItemIDs
      BY <2>a DEF BasicInv, RoundInv
    <3>2. QED
      BY <1>1, <2>1, <2>a, <3>1, Removed
  <2>2. PICK req \in Creating(at) : pc = "add" /\ Carry(req)
    BY <1>1, <2>1, <2>a, RoundEffects
  <2>3. toCreate = Creations(Present, want)
    BY <1>1, <2>2, <2>a DEF PlanRight
  <2>4. items'[id] \in toCreate
    BY <1>1, <2>2, <2>3, <2>a, Added
  <2>5. PICK f \in DOMAIN want : items'[id] \in NewItems(Present, want, f)
    BY <2>3, <2>4 DEF Creations
  <2>6. items'[id].prefix \in Uncovered(Present, want, f)
    BY <2>5, <2>a, NewItem, PresentView, WantSorted, PolicyType DEF BasicInv, WorldInv
  <2>7. QED
    BY <2>6 DEF Uncovered, CoveredTargets, Present
<1>2. Inductive => (RoundStep /\ "plan" \notin stale =>
        \A id \in ItemIDs : items[id] = Absent /\ items'[id] # Absent =>
          items'[id].prefix \notin CoveredTargets)
  BY <1>1
<1>3. QED
  BY <1>2, InductiveInvariant, PTL DEF NoRedundantItems

\* The final clean-up touches the items only by deleting a list that is all its
\* own, or the items it has chosen.
LEMMA FinalEffects ==
  ASSUME BasicInv, FinalStep
  PROVE  \/ items' = items
         \/ WholeList
         \/ pc = "erase" /\ at \in ListIDs /\ Carry(Deleting(at, toDelete))
<1>1. CASE NothingToClean \/ KeepList \/ Sweep \/ SweepFails
  BY <1>1 DEF NothingToClean, KeepList, Sweep, SweepFails, remote
<1>2. CASE DropList \/ DropListErrs
  BY <1>2 DEF DropList, DropListErrs
<1>3. CASE EraseStarts \/ EraseErrs
  <2>1. pc = "erase" /\ (items' = items \/ Carry(Deleting(at, toDelete)))
    BY <1>3 DEF EraseStarts, EraseErrs, Unanswered, remote
  <2>2. QED
    BY <2>1 DEF BasicInv, RoundInv
<1>4. QED
  BY <1>1, <1>2, <1>3 DEF FinalStep

\* Without interference only managed items of families under the updater's
\* authority change: in a round, of the families with known targets; in the
\* final clean-up, of those with a provider. No item that the selector does
\* not match, or of a family out of scope, is ever created, edited or deleted.
THEOREM StaysInScope == Spec => ScopeRespected
<1>1. ASSUME Inductive, RoundStep, "plan" \notin stale,
             NEW id \in ItemIDs, items'[id] # items[id],
             NEW item \in {items[id], items'[id]} \ {Absent}
      PROVE  Managed(item) /\ FamilyOf[item.prefix] \in DOMAIN want
  <2>a. BasicInv /\ PlanRight
    BY <1>1 DEF Inductive
  <2>1. ASSUME pc = "add", NEW req \in Creating(at), Carry(req)
        PROVE  Managed(item) /\ FamilyOf[item.prefix] \in DOMAIN want
    <3>1. toCreate = Creations(Present, want)
      BY <1>1, <2>1, <2>a DEF PlanRight
    <3>2. item \in toCreate /\ Managed(item)
      BY <1>1, <2>1, <2>a, <3>1, Added
    <3>3. PICK f \in DOMAIN want : item \in NewItems(Present, want, f)
      BY <3>1, <3>2 DEF Creations
    <3>4. item.prefix \in want[f]
      BY <3>3, <2>a, NewItem, PresentView, WantSorted, PolicyType DEF BasicInv, WorldInv, Uncovered
    <3>5. QED
      BY <2>a, <3>2, <3>4, WantSorted DEF Sorted
  <2>2. CASE /\ pc = "delete" /\ Resolved \in ListIDs
             /\ Carry(Deleting(Resolved, toDelete))
    <3>1. toDelete = Deletions(Present, want)
      BY <1>1, <2>2, <2>a DEF PlanRight
    <3>2. items'[id] = Absent /\ id \in toDelete /\ item = items[id]
      BY <1>1, <2>2, <2>a, Removed DEF BasicInv, RoundInv
    <3>3. PICK f \in DOMAIN want : id \in OfFamily(Present, f)
      BY <3>1, <3>2 DEF Deletions, Useless
    <3>4. Managed(item) /\ Present[id] = item
      BY <2>a, <3>2, <3>3, PresentView DEF OfFamily
    <3>5. QED
      BY <3>3, <3>4 DEF OfFamily
  <2>3. QED
    BY <1>1, <2>a, <2>1, <2>2, RoundEffects
<1>2. ASSUME Inductive, FinalStep, "plan" \notin stale,
             NEW id \in ItemIDs, items'[id] # items[id],
             NEW item \in {items[id], items'[id]} \ {Absent}
      PROVE  Managed(item) /\ FamilyOf[item.prefix] \in policy.scope
  <2>a. BasicInv /\ BasicInv' /\ PlanRight
    BY <1>2, NextBasic DEF Inductive, Next
  <2>1. CASE WholeList
    <3>1. item \in Item
      BY <1>2, <2>a DEF BasicInv, RemoteInv, View
    <3>2. item.comment \in policy.managed /\ item # Absent
      BY <1>2, <2>1, <2>a, <3>1, PolicyType DEF WholeList, Item, BasicInv, WorldInv
    <3>3. FamilyOf[item.prefix] \in Families
      BY <3>1, ConstantsAssumption DEF Item
    <3>4. QED
      BY <2>1, <3>2, <3>3 DEF WholeList, Managed
  <2>2. CASE pc = "erase" /\ at \in ListIDs /\ Carry(Deleting(at, toDelete))
    <3>1. toDelete = InScopeItems(Present)
      BY <1>2, <2>2, <2>a DEF PlanRight
    <3>2. items'[id] = Absent /\ id \in toDelete /\ item = items[id]
      BY <1>2, <2>2, <2>a, Removed DEF BasicInv, RoundInv
    <3>3. PICK f \in policy.scope : id \in OfFamily(Present, f)
      BY <3>1, <3>2 DEF InScopeItems
    <3>4. Managed(item) /\ Present[id] = item
      BY <2>a, <3>2, <3>3, PresentView DEF OfFamily
    <3>5. QED
      BY <3>3, <3>4 DEF OfFamily
  <2>3. QED
    BY <1>2, <2>a, <2>1, <2>2, FinalEffects
<1>3. ~(RoundStep /\ FinalStep)
  BY FinalIsFinal
<1>4. Inductive => ((RoundStep \/ FinalStep) /\ {"plan", "lists", "id"} \cap stale = {} =>
        \A id \in ItemIDs : items'[id] # items[id] =>
          \A item \in {items[id], items'[id]} \ {Absent} :
            /\ Managed(item)
            /\ FamilyOf[item.prefix] \in
                 IF RoundStep THEN DOMAIN want ELSE policy.scope)
  BY <1>1, <1>2, <1>3
<1>5. QED
  BY <1>4, InductiveInvariant, PTL DEF ScopeRespected

\* Nothing is managed where nothing is.
LEMMA NothingInScope == InScopeItems(ManagedView(Nothing)) = {}
  BY NothingManaged, NothingView DEF InScopeItems, OfFamily

\* Once the items in scope are deleted there are none.
LEMMA ErasedInScope ==
  ASSUME BasicInv, NEW l \in ListIDs, Carry(Deleting(l, InScopeItems(Present)))
  PROVE  InScopeItems(ManagedView(items')) = {}
<1> DEFINE after == ManagedView(items')
<1>1. InScopeItems(Present) \in SUBSET ItemIDs
  BY DEF InScopeItems, OfFamily, Ids
<1>2. \A id \in ItemIDs :
        after[id] = IF id \in InScopeItems(Present) THEN Absent ELSE Present[id]
  BY <1>1, Removed
<1> HIDE DEF after
<1>3. ASSUME NEW f \in policy.scope, NEW id \in OfFamily(after, f)
      PROVE  FALSE
  <2>1. id \in ItemIDs /\ after[id] # Absent /\ FamilyOf[after[id].prefix] = f
    BY DEF OfFamily, Ids
  <2>2. id \notin InScopeItems(Present) /\ after[id] = Present[id]
    BY <1>2, <2>1
  <2>3. id \in OfFamily(Present, f)
    BY <2>1, <2>2 DEF OfFamily, Ids
  <2>4. QED
    BY <2>2, <2>3 DEF InScopeItems
<1>4. QED
  BY <1>3 DEF after, InScopeItems

\* A final clean-up that ends tells what it left.
LEMMA StopAccounts ==
  ASSUME Inductive, [Next]_vars, pc # "stopped", pc' = "stopped",
         {"plan", "lists", "id"} \cap stale' = {}
  PROVE  /\ result' \in {"noop", "updated"} => InScopeItems(ManagedView(items')) = {}
         /\ result' = "updating" =>
              InScopeItems(ManagedView(items')) \subseteq UNION {req.gone : req \in late'}
<1> DEFINE Accounted ==
             /\ result' \in {"noop", "updated"} => InScopeItems(ManagedView(items')) = {}
             /\ result' = "updating" =>
                  InScopeItems(ManagedView(items')) \subseteq UNION {req.gone : req \in late'}
<1>a. BasicInv /\ LookUpRight /\ ItemsRight /\ PlanRight
  BY DEF Inductive
<1>1. FinalStep
  BY FinalIsFinal DEF Next, Restart, Finish, Expire, Disturbance, AddressChange, OutsideEdit,
                            OutsideGarble, OutsideList, LateLands, LateLost, Changed, vars
<1>2. ASSUME items' = Nothing, result' # "updating" PROVE Accounted
  BY <1>2, NothingInScope
<1>3. CASE NothingToClean
  <2>1. CASE result' = "failed"
    BY <2>1
  <2>2. CASE result' = "noop"
    <3>1. /\ pc = "idle" /\ Resolved = NoList /\ stale' = StaleAfterLookUp /\ items' = items
      BY <1>3, <2>2 DEF NothingToClean, Stop, remote
    <3>2. RightLists /\ "lists" \notin StaleAfterLookUp
      BY <3>1, <1>a DEF LookUpRight
    <3>3. list = NoList
      BY <3>1, <3>2, <1>a, NotFound
    <3>4. QED
      BY <1>2, <1>a, <2>2, <3>1, <3>3 DEF BasicInv, RemoteInv
  <2>3. QED
    BY <1>3, <2>1, <2>2 DEF NothingToClean, Stop
<1>4. CASE DropList
  <2>1. items' = Nothing
    BY <1>4, <1>a, LookUpType, ConstantsAssumption DEF DropList, Carry, Dropping, ListSlot
  <2>2. result' = "updated"
    BY <1>4 DEF DropList, Stop
  <2>3. QED
    BY <1>2, <2>1, <2>2
<1>5. CASE DropListErrs \/ KeepList
  BY <1>5 DEF DropListErrs, KeepList
<1>6. CASE Sweep
  <2>1. /\ items' = items
        /\ IF cached # NoCache THEN SweepFrom(cached) ELSE SweepFrom(Present)
    BY <1>6 DEF Sweep, remote, Present
  <2>2. cached # NoCache => "items" \notin stale
    BY <1>6 DEF Sweep
  <2>3. SweepFrom(Present)
    BY <2>1, <2>2, <1>a DEF ItemsRight
  <2>4. InScopeItems(Present) = {} /\ result' = "noop"
    BY <2>3 DEF SweepFrom, Stop
  <2>5. QED
    BY <2>1, <2>4 DEF Present
<1>7. CASE SweepFails \/ EraseErrs
  BY <1>7 DEF SweepFails, EraseErrs, Stop
<1>8. CASE EraseStarts
  <2>1. /\ stale' = stale /\ pc = "erase" /\ at \in ListIDs /\ result' = "updating"
    BY <1>8, <1>a DEF EraseStarts, Stop, BasicInv, RoundInv
  <2>2. toDelete = InScopeItems(Present)
    BY <1>a, <2>1 DEF PlanRight
  <2>3. CASE Carry(Deleting(at, toDelete))
    BY <1>a, <2>1, <2>2, <2>3, ErasedInScope
  <2>4. CASE late' = late \cup {Deleting(at, toDelete)} /\ items' = items
    <3>1. Deleting(at, toDelete) \in late' /\ Deleting(at, toDelete).gone = toDelete
      BY <2>4 DEF Deleting
    <3>2. QED
      BY <2>1, <2>2, <2>4, <3>1 DEF Present
  <2>5. QED
    BY <1>8, <2>3, <2>4 DEF EraseStarts
<1>9. QED
  BY <1>1, <1>3, <1>4, <1>5, <1>6, <1>7, <1>8 DEF FinalStep

\* FinalCleanWAFList says "noop" or "updated" only when no managed item of a family
\* in scope is left, and "updating" only when Cloudflare has accepted to delete
\* each one that is.
THEOREM CleanUpIsHonest == Spec => CleanUpAccounts
<1>1. Inductive /\ [Next]_vars =>
        (pc # "stopped" /\ pc' = "stopped" /\ {"plan", "lists", "id"} \cap stale' = {} =>
           /\ result' \in {"noop", "updated"} => InScopeItems(ManagedView(items')) = {}
           /\ result' = "updating" =>
                InScopeItems(ManagedView(items')) \subseteq UNION {req.gone : req \in late'})
  BY StopAccounts
<1>2. QED
  BY <1>1, InductiveInvariant, PTL DEF CleanUpAccounts, Spec

-----------------------------------------------------------------------------
(* The promises of CoveredRanges                                           *)

\* The ranges of a view, and what is missing, superfluous and in scope among ranges.
RangesOf(view) == {view[id].prefix : id \in Ids(view)}
MissingIn(ranges, targets) ==
  {t \in UNION {targets[f] : f \in DOMAIN targets} : \A p \in ranges : <<p, t>> \notin Covers}
SuperfluousIn(ranges, targets) ==
  {p \in ranges : /\ FamilyOf[p] \in DOMAIN targets
                  /\ \A t \in targets[FamilyOf[p]] : <<p, t>> \notin Covers}
ScopedIn(ranges, scope) == {p \in ranges : FamilyOf[p] \in scope}

\* CoveredRanges says the same of the ranges held.
LEMMA PromiseWords ==
  /\ Held = RangesOf(Present) /\ Held' = RangesOf(ManagedView(items))'
  /\ Promise!Missing = MissingIn(Held, want) /\ Promise!Missing' = MissingIn(Held', want')
  /\ Promise!Superfluous = SuperfluousIn(Held, want)
  /\ Promise!Superfluous' = SuperfluousIn(Held', want')
  /\ Promise!InScope = ScopedIn(Held, policy.scope)
  /\ Promise!InScope' = ScopedIn(Held', policy'.scope)
<1>1. Held = RangesOf(Present) /\ Held' = RangesOf(ManagedView(items))'
  BY DEF Held, RangesOf, Present
<1>2. Promise!Missing = MissingIn(Held, want) /\ Promise!Missing' = MissingIn(Held', want')
  BY DEF Promise!Missing, MissingIn
<1>3. /\ Promise!Superfluous = SuperfluousIn(Held, want)
      /\ Promise!Superfluous' = SuperfluousIn(Held', want')
  BY DEF Promise!Superfluous, SuperfluousIn
<1>4. /\ Promise!InScope = ScopedIn(Held, policy.scope)
      /\ Promise!InScope' = ScopedIn(Held', policy'.scope)
  BY DEF Promise!InScope, ScopedIn
<1>5. QED
  BY <1>1, <1>2, <1>3, <1>4

\* What is missing among the ranges of a view is what it leaves uncovered, and its
\* superfluous ranges are those of the useless items.
LEMMA RangesTell ==
  ASSUME NEW view, NEW targets, NEW scope
  PROVE  /\ \A t : t \in MissingIn(RangesOf(view), targets)
                     <=> \E f \in DOMAIN targets : t \in Uncovered(view, targets, f)
         /\ \A id \in Ids(view) :
              view[id].prefix \in SuperfluousIn(RangesOf(view), targets)
                <=> id \in Deletions(view, targets)
         /\ \A id \in Ids(view) :
              view[id].prefix \in ScopedIn(RangesOf(view), scope)
                <=> \E f \in scope : id \in OfFamily(view, f)
<1>1. \A t : t \in MissingIn(RangesOf(view), targets)
               <=> \E f \in DOMAIN targets : t \in Uncovered(view, targets, f)
  BY DEF MissingIn, RangesOf, Uncovered, Hits
<1>2. ASSUME NEW id \in Ids(view)
      PROVE  /\ view[id].prefix \in SuperfluousIn(RangesOf(view), targets)
                  <=> id \in Deletions(view, targets)
             /\ view[id].prefix \in ScopedIn(RangesOf(view), scope)
                  <=> \E f \in scope : id \in OfFamily(view, f)
  <2>1. view[id].prefix \in RangesOf(view)
    BY DEF RangesOf
  <2>2. id \in Deletions(view, targets)
          <=> /\ FamilyOf[view[id].prefix] \in DOMAIN targets
              /\ \A t \in targets[FamilyOf[view[id].prefix]] : <<view[id].prefix, t>> \notin Covers
    BY DEF Deletions, Useless, OfFamily, Hits
  <2>3. QED
    BY <2>1, <2>2 DEF SuperfluousIn, ScopedIn, OfFamily
<1>3. QED
  BY <1>1, <1>2

\* When some items are gone the ranges of the others are left, if no range is that of
\* items of both kinds.
LEMMA RangesWithout ==
  ASSUME NEW ids, NEW some,
         \A id \in ItemIDs : ManagedView(items')[id] = IF id \in ids THEN Absent ELSE Present[id],
         \A id \in Ids(Present) : Present[id].prefix \in some <=> id \in ids
  PROVE  RangesOf(ManagedView(items')) = RangesOf(Present) \ some
<1> DEFINE v == Present
           w == ManagedView(items')
<1>a. /\ \A id \in ItemIDs : w[id] = IF id \in ids THEN Absent ELSE v[id]
      /\ \A id \in Ids(v) : v[id].prefix \in some <=> id \in ids
  OBVIOUS
<1> HIDE DEF v, w
<1>1. Ids(w) = {id \in Ids(v) : id \notin ids}
  BY <1>a DEF Ids
<1>2. \A id \in Ids(w) : w[id] = v[id]
  BY <1>a, <1>1 DEF Ids
<1>3. RangesOf(w) = RangesOf(v) \ some
  BY <1>a, <1>1, <1>2 DEF RangesOf
<1>4. QED
  BY <1>3 DEF v, w

\* The ranges held are ranges.
LEMMA HeldType ==
  ASSUME BasicInv
  PROVE  Held \in SUBSET Prefixes /\ policy.scope \in SUBSET Families
<1>1. Held \in SUBSET Prefixes
  BY PresentView, ItemThere, PromiseWords DEF RangesOf
<1>2. QED
  BY <1>1, PolicyType DEF BasicInv, WorldInv

\* The same after a step.
LEMMA HeldNext ==
  ASSUME BasicInv', policy' = policy
  PROVE  Held' = RangesOf(ManagedView(items')) /\ Held' \in SUBSET Prefixes
<1>1. Held' = RangesOf(ManagedView(items'))
  BY PresentAfter DEF Held, RangesOf, Present
<1>2. ManagedView(items') \in View
  BY ManagedViewType DEF BasicInv, RemoteInv
<1>3. QED
  BY <1>1, <1>2, ItemThere DEF RangesOf

\* What satisfies the targets has nothing missing and nothing superfluous.
LEMMA SatisfiedIsWell ==
  ASSUME Satisfied(want)'
  PROVE  Promise!Missing' = {} /\ Promise!Superfluous' = {}
<1> DEFINE after == ManagedView(items)'
<1>1. \A f \in DOMAIN want' : Uncovered(after, want', f) = {} /\ Useless(after, want', f) = {}
  BY DEF Satisfied
<1>2. Deletions(after, want') = {}
  BY <1>1 DEF Deletions
<1>3. MissingIn(RangesOf(after), want') = {}
  BY <1>1, RangesTell
<1>4. SuperfluousIn(RangesOf(after), want') = {}
  <2>1. \A p \in SuperfluousIn(RangesOf(after), want') : \E id \in Ids(after) : p = after[id].prefix
    BY DEF SuperfluousIn, RangesOf
  <2>2. QED
    BY <1>2, <2>1, RangesTell
<1>5. QED
  BY <1>3, <1>4, PromiseWords

\* A round changes the ranges by what is missing or by what is superfluous.
LEMMA RoundImproves ==
  ASSUME Inductive, Inductive', [Next]_vars, RoundStep, pc # "idle", "plan" \notin stale
  PROVE  Promise!Improve
<1>a. BasicInv /\ PlanRight
  BY DEF Inductive
<1>b. policy' = policy /\ Present' = ManagedView(items') /\ (items' = items => Present' = Present)
  BY <1>a, NextWorld, PresentAfter
<1>c. Held = RangesOf(Present) /\ Held' = RangesOf(ManagedView(items'))
  BY <1>b, PromiseWords DEF Present
<1>1. CASE items' = items
  BY <1>1, <1>b, <1>c DEF Promise!Improve, Present
<1>2. ASSUME pc = "add", NEW req \in Creating(at), Carry(req)
      PROVE  Held' = Held \cup Promise!Missing
  <2>1. toCreate = Creations(Present, want)
    BY <1>2, <1>a DEF PlanRight
  <2>2. /\ \A id \in Ids(Present) :
             id \in Ids(ManagedView(items')) /\ ManagedView(items')[id] = Present[id]
        /\ \A id \in Ids(ManagedView(items')) :
             id \in Ids(Present) \/ ManagedView(items')[id] \in toCreate
        /\ \A item \in toCreate :
             \E id \in Ids(ManagedView(items')) : ManagedView(items')[id] = item
    BY <1>2, <1>a, <2>1, Added
  <2>3. Held' = Held \cup {item.prefix : item \in toCreate}
    BY <1>c, <2>2 DEF RangesOf
  <2>4. {item.prefix : item \in toCreate} = MissingIn(RangesOf(Present), want)
    <3>1. ASSUME NEW item \in toCreate
          PROVE  item.prefix \in MissingIn(RangesOf(Present), want)
      <4>1. PICK f \in DOMAIN want : item \in NewItems(Present, want, f)
        BY <2>1 DEF Creations
      <4>2. item.prefix \in Uncovered(Present, want, f)
        BY <1>a, <4>1, NewItem, PresentView, WantSorted, PolicyType DEF BasicInv, WorldInv
      <4>3. QED
        BY <4>2, RangesTell
    <3>2. ASSUME NEW t \in MissingIn(RangesOf(Present), want)
          PROVE  \E item \in toCreate : item.prefix = t
      <4>1. PICK f \in DOMAIN want : t \in Uncovered(Present, want, f)
        BY RangesTell
      <4>2. QED
        BY <2>1, <4>1, UncoveredGetsItem
    <3>3. QED
      BY <3>1, <3>2
  <2>5. QED
    BY <1>c, <2>3, <2>4, PromiseWords
<1>3. ASSUME pc = "delete", Resolved \in ListIDs, Carry(Deleting(Resolved, toDelete))
      PROVE  Promise!Missing = {} /\ Held' = Held \ Promise!Superfluous
  <2>1. /\ toDelete = Deletions(Present, want)
        /\ \A f \in DOMAIN want : Uncovered(Present, want, f) = {}
    BY <1>3, <1>a DEF PlanRight
  <2>2. \A id \in ItemIDs :
          ManagedView(items')[id] = IF id \in toDelete THEN Absent ELSE Present[id]
    BY <1>3, <1>a, Removed DEF BasicInv, RoundInv
  <2>3. \A id \in Ids(Present) :
          Present[id].prefix \in SuperfluousIn(RangesOf(Present), want) <=> id \in toDelete
    BY <2>1, RangesTell
  <2>4. Held' = Held \ SuperfluousIn(RangesOf(Present), want)
    BY <1>c, <2>2, <2>3, RangesWithout
  <2>5. MissingIn(RangesOf(Present), want) = {}
    BY <2>1, RangesTell
  <2>6. QED
    BY <1>c, <2>4, <2>5, PromiseWords
<1>4. QED
  BY <1>a, <1>1, <1>2, <1>3, RoundEffects DEF Promise!Improve

\* Steps of a round that goes on.
LEMMA WorkPromised ==
  ASSUME Inductive, Inductive', [Next]_vars, RoundStep, pc # "idle"
  PROVE  Promise!Work
<1>a. BasicInv /\ BasicInv' /\ PlanRight'
  BY DEF Inductive
<1>1. /\ pc \in {"create", "add", "delete"}
      /\ \/ pc' \in {"create", "add", "delete"} /\ result' = result
         \/ pc' = "idle" /\ result' \in {"failed", "updated"}
      /\ "plan" \in stale' <=> "plan" \in stale
  BY StaleLookUp DEF RoundStep, ListFails, StartFromCache, StartFromListing, ListThere, MakeList,
       EnsureErrs, AddItems, AddErrs, RemoveItems, RemoveErrs, TakeReply, Finish
<1>2. want' = want /\ policy' = policy
  BY <1>a, RoundEffects, NextWorld
<1>3. Promise!Improve
  <2>1. Held' \in SUBSET Prefixes
    BY <1>a, <1>2, HeldNext
  <2>2. CASE "plan" \in stale
    BY <1>1, <2>1, <2>2 DEF Promise!Improve
  <2>3. QED
    BY <2>2, RoundImproves
<1>4. pc' = "idle" /\ result' = "updated" /\ "plan" \notin stale'
        => Promise!Missing' = {} /\ Promise!Superfluous' = {}
  BY <1>a, SatisfiedIsWell DEF PlanRight
<1>5. QED
  BY <1>1, <1>2, <1>3, <1>4 DEF Promise!Work, Promise!EndWell

\* The steps that begin a round.
LEMMA BeginPromised ==
  ASSUME Inductive, Inductive', [Next]_vars, StartFromCache \/ StartFromListing
  PROVE  Promise!BeginRound
<1>a. BasicInv /\ PlanRight'
  BY DEF Inductive
<1>1. /\ pc = "idle" /\ want' = goal /\ items' = items
      /\ \/ pc' \in {"create", "delete"} /\ result' = "none"
         \/ pc' = "idle" /\ result' = "noop"
  BY DEF StartFromCache, StartFromListing, Proceed, remote
<1>2. want' \in Targets /\ policy' = policy /\ Held' = Held
  BY <1>a, <1>1, WantSorted, NextWorld, PresentAfter DEF Held, ManagedView, Managed
<1>3. pc' = "idle" /\ "plan" \notin stale'
        => Promise!Missing' = {} /\ Promise!Superfluous' = {}
  BY <1>a, <1>1, SatisfiedIsWell DEF PlanRight
<1>4. Promise!Targets = Targets
  BY DEF Promise!Targets, Targets
<1>5. QED
  BY <1>1, <1>2, <1>3, <1>4 DEF Promise!BeginRound, Promise!EndWell

\* A final clean-up leaves the ranges alone or clears those in scope.
LEMMA FinalClears ==
  ASSUME Inductive, [Next]_vars, FinalStep
  PROVE  /\ pc # "erase" \/ "plan" \notin stale => Promise!Clear
         /\ pc = "erase" => Held' \in SUBSET Held
<1>a. BasicInv /\ BasicInv' /\ PlanRight
  BY NextBasic DEF Inductive
<1>b. policy' = policy /\ Present' = ManagedView(items') /\ (items' = items => Present' = Present)
  BY <1>a, NextWorld, PresentAfter
<1>c. Held = RangesOf(Present) /\ Held' = RangesOf(ManagedView(items'))
  BY <1>b, PromiseWords DEF Present
<1>1. CASE items' = items
  BY <1>1, <1>b, <1>c DEF Promise!Clear, Present
<1>2. CASE (DropList \/ DropListErrs) /\ items' # items
  <2>1. /\ WholeList /\ Resolved \in ListIDs /\ Carry(Dropping(Resolved)) /\ pc = "idle"
    BY <1>2, <1>a, LookUpType DEF DropList, DropListErrs, Unanswered, remote, ListSlot
  <2>2. items' = Nothing
    BY <2>1, ConstantsAssumption DEF Carry, Dropping
  <2>3. Held' = {}
    BY <1>c, <2>2, NothingManaged, NothingView DEF RangesOf
  <2>4. Promise!InScope = Held
    <3>1. \A p \in Held : FamilyOf[p] \in Families
      BY <1>a, HeldType, ConstantsAssumption
    <3>2. QED
      BY <2>1, <3>1, PromiseWords DEF ScopedIn, WholeList
  <2>5. QED
    BY <2>1, <2>3, <2>4 DEF Promise!Clear
<1>3. CASE pc = "erase" /\ at \in ListIDs /\ Carry(Deleting(at, toDelete))
  <2>1. \A id \in ItemIDs :
          ManagedView(items')[id] = IF id \in toDelete THEN Absent ELSE Present[id]
    BY <1>3, <1>a, Removed DEF BasicInv, RoundInv
  <2>2. Held' \in SUBSET Held
    BY <1>c, <2>1 DEF RangesOf, Ids
  <2>3. ASSUME "plan" \notin stale PROVE Held' = Held \ Promise!InScope
    <3>1. toDelete = InScopeItems(Present)
      BY <1>3, <1>a, <2>3 DEF PlanRight
    <3>2. \A id \in Ids(Present) :
            Present[id].prefix \in ScopedIn(RangesOf(Present), policy.scope) <=> id \in toDelete
      BY <3>1, RangesTell DEF InScopeItems
    <3>3. RangesOf(ManagedView(items')) =
            RangesOf(Present) \ ScopedIn(RangesOf(Present), policy.scope)
      BY <2>1, <3>2, RangesWithout
    <3>4. QED
      BY <1>c, <3>3, PromiseWords
  <2>4. QED
    BY <1>3, <2>2, <2>3 DEF Promise!Clear
<1>4. \/ items' = items
      \/ (DropList \/ DropListErrs) /\ items' # items
      \/ pc = "erase" /\ at \in ListIDs /\ Carry(Deleting(at, toDelete))
  <2>1. CASE NothingToClean \/ KeepList \/ Sweep \/ SweepFails
    BY <2>1 DEF NothingToClean, KeepList, Sweep, SweepFails, remote
  <2>2. CASE EraseStarts \/ EraseErrs
    BY <2>2, <1>a DEF EraseStarts, EraseErrs, Unanswered, remote, BasicInv, RoundInv
  <2>3. QED
    BY <2>1, <2>2 DEF FinalStep
<1>5. QED
  BY <1>1, <1>2, <1>3, <1>4

\* The steps of the final clean-up.
LEMMA FinalPromised ==
  ASSUME Inductive, [Next]_vars, FinalStep
  PROVE  Promise!BeginClearing \/ Promise!LookAgain \/ Promise!Erase
<1>a. policy' = policy
  BY NextWorld DEF Inductive
<1>b. want' = want
  BY DEF FinalStep, NothingToClean, DropList, DropListErrs, KeepList, Sweep, SweepFrom,
         SweepFails, EraseStarts, EraseErrs, Stop
<1>c. \/ pc' \in {"sweep", "erase"} /\ result' = result
      \/ pc' = "stopped" /\ result' \in {"noop", "updated", "updating", "failed"}
  BY DEF FinalStep, NothingToClean, DropList, DropListErrs, KeepList, Sweep, SweepFrom,
         SweepFails, EraseStarts, EraseErrs, Stop
<1>d. pc # "stopped" /\ pc' = "stopped" /\ {"plan", "lists", "id"} \cap stale' = {}
        /\ result' \in {"noop", "updated"} => Promise!InScope' = {}
  <2>1. SUFFICES ASSUME pc # "stopped", pc' = "stopped", {"plan", "lists", "id"} \cap stale' = {},
                        result' \in {"noop", "updated"}
                 PROVE  ScopedIn(RangesOf(ManagedView(items')), policy.scope) = {}
    BY <1>a, HeldNext, NextBasic, PromiseWords DEF Inductive
  <2>2. InScopeItems(ManagedView(items')) = {}
    BY <2>1, StopAccounts
  <2>3. ASSUME NEW p \in ScopedIn(RangesOf(ManagedView(items')), policy.scope) PROVE FALSE
    <3> DEFINE after == ManagedView(items')
    <3>1. PICK id \in Ids(after) : after[id].prefix = p /\ FamilyOf[p] \in policy.scope
      BY <2>3 DEF ScopedIn, RangesOf
    <3>2. id \in InScopeItems(after)
      <4> HIDE DEF after
      <4> QED
        BY <3>1 DEF InScopeItems, OfFamily
    <3>3. QED
      BY <2>2, <3>2
  <2>4. QED
    BY <2>3
<1>1. CASE NothingToClean \/ DropList \/ DropListErrs \/ KeepList
  <2>1. pc = "idle"
    BY <1>1 DEF NothingToClean, DropList, DropListErrs, KeepList
  <2>2. Promise!Clear
    BY <2>1, FinalClears
  <2>3. QED
    BY <1>a, <1>b, <1>c, <1>d, <2>1, <2>2
       DEF Promise!BeginClearing, Promise!EndCleared, Promise!EndUncleared
<1>2. CASE Sweep \/ SweepFails
  <2>1. pc = "sweep" /\ items' = items
    BY <1>2 DEF Sweep, SweepFails, remote
  <2>2. Held' = Held
    BY <1>a, <2>1 DEF Held, ManagedView, Managed
  <2>3. QED
    BY <1>a, <1>b, <1>c, <1>d, <2>1, <2>2
       DEF Promise!LookAgain, Promise!EndCleared, Promise!EndUncleared
<1>3. CASE EraseStarts \/ EraseErrs
  <2>1. pc = "erase" /\ pc' = "stopped" /\ result' \in {"updating", "failed"} /\ stale' = stale
    BY <1>3 DEF EraseStarts, EraseErrs, Stop
  <2>2. /\ "plan" \notin stale => Promise!Clear
        /\ Held' \in SUBSET Held
    BY <2>1, FinalClears
  <2>3. QED
    BY <1>a, <1>b, <2>1, <2>2 DEF Promise!Erase, Promise!EndUncleared
<1>4. QED
  BY <1>1, <1>2, <1>3 DEF FinalStep

\* Every step is one of CoveredRanges or changes nothing there.
LEMMA PromiseStep ==
  ASSUME Inductive, Inductive', [Next]_vars
  PROVE  [Promise!Next]_(Promise!covered)
<1> USE DEF Promise!covered
<1>a. BasicInv /\ BasicInv' /\ policy' = policy
  BY NextWorld DEF Inductive
<1>b. items' = items => Held' = Held
  BY <1>a DEF Held, ManagedView, Managed
<1>1. CASE RoundStep
  <2>1. CASE pc # "idle"
    BY <1>1, <2>1, WorkPromised DEF Promise!Next
  <2>2. CASE StartFromCache \/ StartFromListing
    BY <2>2, BeginPromised DEF Promise!Next
  <2>3. CASE ListFails
    <3>1. /\ pc = "idle" /\ pc' = pc /\ result' = "failed" /\ items' = items /\ want' = want
          /\ "plan" \in stale' <=> "plan" \in stale
      BY <2>3, StaleLookUp DEF ListFails, remote, plan
    <3>2. Promise!GiveUp
      BY <1>a, <1>b, <3>1 DEF Promise!GiveUp
    <3>3. QED
      BY <3>2 DEF Promise!Next
  <2>4. QED
    BY <1>1, <2>1, <2>2, <2>3
       DEF RoundStep, ListThere, MakeList, EnsureErrs, AddItems, AddErrs, RemoveItems, RemoveErrs
<1>2. CASE FinalStep
  BY <1>2, FinalPromised DEF Promise!Next
<1>3. CASE Restart
  BY <1>3, <1>a, <1>b DEF Restart, Finish, Preserved, remote, Promise!StartOver, Promise!Next
<1>4. CASE Expire \/ AddressChange \/ UNCHANGED vars \/ \E req \in late : LateLost(req)
  BY <1>4, <1>a, <1>b DEF Expire, AddressChange, LateLost, vars, remote, caches, plan
<1>5. ASSUME \/ \E id \in ItemIDs, slot \in Item \cup {Absent} : OutsideEdit(id, slot)
             \/ OutsideGarble \/ OutsideList
             \/ \E req \in late : LateLands(req)
      PROVE  Promise!Interfere
  <2>1. pc' = pc /\ want' = want /\ result' = result /\ "plan" \in stale'
    BY <1>5 DEF OutsideEdit, OutsideGarble, OutsideList, LateLands, Changed, plan
  <2>2. QED
    BY <1>a, <2>1, HeldNext DEF Promise!Interfere
<1>6. QED
  BY <1>1, <1>2, <1>3, <1>4, <1>5 DEF Next, Disturbance, Promise!Next

\* The list keeps its promises: what a round or a clean-up adds and takes out, in
\* which order, what it leaves alone, and what it may say at the end.
THEOREM ListKeepsPromise == Spec => PromiseKept
<1>1. Init => Promise!Init
  <2>1. SUFFICES ASSUME Init PROVE Promise!Init
    OBVIOUS
  <2>2. Held \in SUBSET Prefixes /\ policy.scope \in SUBSET Families
    BY <2>1, InitBasic, HeldType
  <2>3. QED
    BY <2>1, <2>2 DEF Init, Promise!Init, Preserved
<1>2. QED
  BY <1>1, PromiseStep, InductiveInvariant, PTL DEF Spec, PromiseKept, Promise!Spec
================================================================================
