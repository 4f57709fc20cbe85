--------------------------- MODULE WAFListReconciler ---------------------------
(***************************************************************************)
(* One WAF list: the setter that plans a round from a listing and carries  *)
(* it out as one bulk creation followed by one bulk deletion               *)
(* (internal/setter/setter.go), the handle with its three caches, of the   *)
(* account's lists, of the list's ID and of the list's managed items       *)
(* (internal/api/cloudflare_waf.go), and the list at Cloudflare, which     *)
(* others may delete, create and edit at any moment.                       *)
(*                                                                         *)
(* A resolved list ID and the call made with it are one step: a change by  *)
(* others between the two is told from one before them by nobody.          *)
(***************************************************************************)
EXTENDS RecordMetadata, Naturals, FiniteSets

CONSTANTS
  ListIDs,     \* IDs of lists, chosen by Cloudflare
  ItemIDs,     \* IDs of items, likewise
  Families,    \* the IP families
  Prefixes,    \* the IP ranges in play
  FamilyOf,    \* the family of each
  Covers,      \* the pairs of a range and one inside it
  Goals,       \* what detection may produce: the targets of the families it knows
  Fallback,    \* the configured item comment
  Policies,    \* what configurations may put under the updater's authority
  NoList,      \* the ID of a list that does not exist
  Absent,      \* the item of an ID that names no item
  NoCache,     \* a cache without an entry
  MaxLate,     \* bound on the requests that may still take effect late
  MaxEdits     \* bound on the changes by others

Item == [prefix : Prefixes, comment : Comments]
View == [ItemIDs -> Item \cup {Absent}]

\* Targets are known for some families. The items of the others, out of scope or
\* unavailable at present, are to be preserved.
Targets == UNION {[known -> SUBSET Prefixes] : known \in SUBSET Families}
Preserved == [f \in {} |-> {}]

\* The item comments that the selector matches, the families with a provider, and
\* whether the whole list may be deleted on shutdown.
Policy == [managed : SUBSET Comments, scope : SUBSET Families, whole : BOOLEAN]

\* The configuration is rejected unless the fallback comment matches the selector;
\* HandleOwnershipPolicy.Sanitize allows whole-list deletion only with the
\* selector that matches everything.
ASSUME ConstantsAssumption ==
  /\ Policies \subseteq Policy
  /\ \A p \in Policies :
       /\ Fallback \in p.managed
       /\ p.whole => p.managed = Comments
  /\ FamilyOf \in [Prefixes -> Families]
  /\ Covers \subseteq Prefixes \X Prefixes
  /\ \A p \in Prefixes : <<p, p>> \in Covers
  /\ \A pair \in Covers : FamilyOf[pair[1]] = FamilyOf[pair[2]]
  /\ Goals \subseteq Targets
  /\ \A g \in Goals :
       \A f \in DOMAIN g : \A p \in g[f] : FamilyOf[p] = f
  /\ NoList \notin ListIDs
  /\ NoCache \notin ListIDs \cup {NoList}
  /\ Absent \notin Item
  /\ NoCache \notin View
  /\ {MaxLate, MaxEdits} \subseteq Nat

VARIABLES
  list,      \* the list of the configured name at Cloudflare, or NoList
  items,     \* its items
  garbled,   \* whether it holds an entry that the client cannot read
  late,      \* requests that Cloudflare may still carry out
  policy,    \* the configured ownership, which does not change
  goal,      \* the targets derived from the addresses detected at present
  lists,     \* cache listLists: which list the account has of that name
  listID,    \* cache listID
  cached,    \* cache listListItems: the managed items
  pc,        \* where the goroutine is
  want,      \* the targets of the round that runs or ran last
  at,        \* the list ID that the call in progress holds
  toCreate,  \* the items the plan has yet to create
  toDelete,  \* the items the plan has yet to delete
  result,    \* the response code of the last operation
  stale,     \* history: what may be outdated by the doings of others: "lists",
             \* "id", "items" for the caches, "plan" for what was planned from them
  edits      \* how often others have changed the list

remote == <<list, items, garbled, late>>
caches == <<lists, listID, cached>>
plan == <<want, at, toCreate, toDelete>>
vars == <<remote, goal, policy, caches, pc, plan, result, stale, edits>>

Nothing == [id \in ItemIDs |-> Absent]

-----------------------------------------------------------------------------
(* Items and plans                                                         *)

\* HandleOptions.MatchManagedWAFListItemComment
Managed(item) == item # Absent /\ item.comment \in policy.managed

Ids(view) == {id \in ItemIDs : view[id] # Absent}

\* Mutation of the next: the selector is not applied.
UnfilteredView(view) == view

\* filterManagedWAFListItems
ManagedView(view) ==
  [id \in ItemIDs |-> IF Managed(view[id]) THEN view[id] ELSE Absent]

OfFamily(view, f) == {id \in Ids(view) : FamilyOf[view[id].prefix] = f}

\* prefixContainsPrefix, for an item of the view and a target
Hits(view, id, target) == <<view[id].prefix, target>> \in Covers

\* The items of a family that cover no target are deleted, the targets that no
\* item covers get an item of their own.
Useless(view, targets, f) ==
  {id \in OfFamily(view, f) : \A t \in targets[f] : ~Hits(view, id, t)}
Uncovered(view, targets, f) ==
  {t \in targets[f] : \A id \in Ids(view) : ~Hits(view, id, t)}

\* Mutation of the next: a family known to have no targets is preserved.
DeletionsIfTargets(view, targets) ==
  UNION {Useless(view, targets, f) : f \in {g \in DOMAIN targets : targets[g] # {}}}
Deletions(view, targets) ==
  UNION {Useless(view, targets, f) : f \in DOMAIN targets}

\* The comment of a family's new items is inherited from its deleted ones.
NewItems(view, targets, f) ==
  LET comment == ResolveScalar(Fallback, {view[id].comment : id \in Useless(view, targets, f)})
  IN  {[prefix |-> t, comment |-> comment] : t \in Uncovered(view, targets, f)}
\* Mutation of the next: a target is created whether or not it is covered.
CreationsForAll(view, targets) ==
  UNION {{[prefix |-> t, comment |-> Fallback] : t \in targets[f]} : f \in DOMAIN targets}
Creations(view, targets) ==
  UNION {NewItems(view, targets, f) : f \in DOMAIN targets}

-----------------------------------------------------------------------------
(* Requests. Every request is one for the list that has a given ID, or for  *)
(* no list; it makes or drops a list, or edits the items of one.            *)

ListSlot == ListIDs \cup {NoList}
Request ==
  [at : ListSlot, becomes : ListSlot, gone : SUBSET ItemIDs, new : View]

Making(l) == [at |-> NoList, becomes |-> l, gone |-> {}, new |-> Nothing]
Dropping(l) == [at |-> l, becomes |-> NoList, gone |-> {}, new |-> Nothing]
Deleting(l, ids) == [at |-> l, becomes |-> l, gone |-> ids, new |-> Nothing]

FreshItems ==
  ItemIDs \ (Ids(items) \cup toDelete \cup UNION {Ids(req.new) \cup req.gone : req \in late}
               \cup IF cached = NoCache THEN {} ELSE Ids(cached))
FreshLists ==
  ListIDs \ ({list, lists, listID, at} \cup {req.at : req \in late}
               \cup {req.becomes : req \in late})

\* The bulk creation of the planned items: each gets an ID of its own.
Creating(l) ==
  {[at |-> l, becomes |-> l, gone |-> {}, new |-> new] :
     new \in {v \in [ItemIDs -> toCreate \cup {Absent}] :
                /\ Ids(v) \subseteq FreshItems
                /\ \A item \in toCreate : \E id \in ItemIDs : v[id] = item
                /\ \A i, j \in Ids(v) : v[i] = v[j] => i = j}}

\* A request for a list that is gone, or to make one that exists, is refused.
Applicable(req) == list = req.at
Edited(req) ==
  [id \in ItemIDs |-> IF req.new[id] # Absent THEN req.new[id]
                      ELSE IF id \in req.gone THEN Absent ELSE items[id]]
Carry(req) ==
  /\ Applicable(req)
  /\ list' = req.becomes
  /\ items' = IF req.becomes = req.at THEN Edited(req) ELSE Nothing
  /\ garbled' = (garbled /\ req.becomes = req.at)

\* What became of a call that ended in an error: refused or lost on its way,
\* carried out with the reply lost, or to be carried out later.
Unanswered(req) ==
  \/ UNCHANGED remote
  \/ Carry(req) /\ UNCHANGED late
  \/ Cardinality(late) < MaxLate /\ late' = late \cup {req} /\ UNCHANGED <<list, items, garbled>>

-----------------------------------------------------------------------------
(* Looking the list up                                                     *)

\* wafListID: the cached ID, the cached lists of the account, or the lists
\* fetched anew. A list that is found leaves its ID in the cache.
Resolved ==
  IF listID # NoCache THEN listID ELSE IF lists # NoCache THEN lists ELSE list

ListsAfterLookUp == IF listID = NoCache /\ lists = NoCache THEN list ELSE lists
\* Mutation of the next: that no list was found is cached as an ID.
IDAlwaysCached == Resolved
IDAfterLookUp == IF Resolved = NoList THEN listID ELSE Resolved
StaleAfterLookUp ==
  IF listID # NoCache THEN stale
  ELSE IF lists = NoCache THEN stale \ {"lists", "id"}
  ELSE IF "lists" \in stale THEN stale \cup {"id"} ELSE stale \ {"id"}

\* Whether the lists have to be fetched, which may fail.
MustFetchLists == listID = NoCache /\ lists = NoCache

\* Whether fetching the items of the list can succeed.
Readable(l) == list = l /\ ~garbled

-----------------------------------------------------------------------------
(* Rounds: SetWAFList                                                      *)

\* Targets are derived for the families that have a provider only.
GoalsInScope == {g \in Goals : DOMAIN g \subseteq policy.scope}

Init ==
  /\ \/ list = NoList /\ items = Nothing /\ garbled = FALSE
     \/ list \in ListIDs /\ items \in View /\ garbled \in BOOLEAN
  /\ late = {}
  /\ policy \in Policies
  /\ goal \in GoalsInScope
  /\ lists = NoCache /\ listID = NoCache /\ cached = NoCache
  /\ pc = "idle"
  /\ want = Preserved
  /\ at = NoList /\ toCreate = {} /\ toDelete = {}
  /\ result = "none"
  /\ stale = {}
  /\ edits = 0

\* The call returns: what it held is forgotten.
Finish(code) ==
  /\ pc' = "idle"
  /\ result' = code
  /\ at' = NoList /\ toCreate' = {} /\ toDelete' = {}

\* The items could not be listed: the lookup failed, or the items of the list
\* it found could not be fetched or read.
ListFails ==
  /\ pc = "idle"
  /\ cached = NoCache
  /\ \/ MustFetchLists /\ UNCHANGED <<lists, listID, stale>>
     \/ /\ Resolved # NoList
        /\ lists' = ListsAfterLookUp /\ listID' = IDAfterLookUp /\ stale' = StaleAfterLookUp
  /\ result' = "failed"
  /\ UNCHANGED <<remote, goal, policy, cached, pc, plan, edits>>

\* Mutation of the next: the deletion comes first.
ProceedDeletingFirst(view) ==
  /\ toCreate' = Creations(view, goal)
  /\ toDelete' = Deletions(view, goal)
  /\ IF toDelete' # {} THEN pc' = "delete" /\ result' = "none"
     ELSE IF toCreate' # {} THEN pc' = "create" /\ result' = "none"
     ELSE pc' = "idle" /\ result' = "noop"

\* What is left of the plan decides where the round goes on.
Proceed(view) ==
  /\ toCreate' = Creations(view, goal)
  /\ toDelete' = Deletions(view, goal)
  /\ IF toCreate' # {} THEN pc' = "create" /\ result' = "none"
     ELSE IF toDelete' # {} THEN pc' = "delete" /\ result' = "none"
     ELSE pc' = "idle" /\ result' = "noop"

\* SetWAFList up to its first mutation, from the cached items.
StartFromCache ==
  /\ pc = "idle"
  /\ cached # NoCache
  /\ want' = goal
  /\ Proceed(cached)
  /\ stale' = IF "items" \in stale THEN stale \cup {"plan"} ELSE stale \ {"plan"}
  /\ UNCHANGED <<remote, goal, policy, caches, at, edits>>

\* The same from the items fetched, or from none when the list is not found.
StartFromListing ==
  /\ pc = "idle"
  /\ cached = NoCache
  /\ lists' = ListsAfterLookUp /\ listID' = IDAfterLookUp
  /\ want' = goal
  /\ IF Resolved = NoList
       THEN /\ Proceed(Nothing)
            /\ stale' = IF "lists" \in StaleAfterLookUp THEN StaleAfterLookUp \cup {"plan"}
                        ELSE StaleAfterLookUp \ {"plan"}
            /\ UNCHANGED cached
       ELSE /\ Readable(Resolved)
            /\ cached' = ManagedView(items)
            /\ Proceed(ManagedView(items))
            /\ stale' = StaleAfterLookUp \ {"items", "plan"}
  /\ UNCHANGED <<remote, goal, policy, at, edits>>

\* ensureWAFList: the list is there, or believed to be, ...
ListThere ==
  /\ pc = "create"
  /\ Resolved # NoList
  /\ lists' = ListsAfterLookUp /\ listID' = IDAfterLookUp /\ stale' = StaleAfterLookUp
  /\ at' = Resolved
  /\ pc' = "add"
  /\ UNCHANGED <<remote, goal, policy, cached, want, toCreate, toDelete, result, edits>>

\* ... or is made.
MakeList(l) ==
  /\ pc = "create"
  /\ Resolved = NoList /\ l \in FreshLists
  /\ Carry(Making(l)) /\ UNCHANGED late
  /\ lists' = l /\ listID' = l
  /\ stale' = StaleAfterLookUp \ {"lists", "id"}
  /\ at' = l
  /\ pc' = "add"
  /\ UNCHANGED <<goal, policy, cached, want, toCreate, toDelete, result, edits>>

\* It could not be looked up, or CreateList was not confirmed: the cached lists
\* of the account are dropped.
EnsureErrs ==
  /\ pc = "create"
  /\ \/ MustFetchLists /\ UNCHANGED <<remote, lists, stale>>
     \/ /\ Resolved = NoList
        /\ \E l \in FreshLists : Unanswered(Making(l))
        /\ lists' = NoCache
        /\ stale' = StaleAfterLookUp
  /\ Finish("failed")
  /\ UNCHANGED <<goal, policy, listID, cached, want, edits>>

\* CreateListItems and DeleteListItems reply with the whole list, which replaces
\* the cached items. When the reply cannot be read the round fails and the
\* cached items stay as they were.
TakeReply(staleBefore, goOn) ==
  IF garbled
    THEN Finish("failed") /\ stale' = staleBefore /\ UNCHANGED cached
    ELSE goOn /\ stale' = staleBefore \ {"items"} /\ cached' = ManagedView(items')

AddItems ==
  /\ pc = "add"
  /\ \E req \in Creating(at) : Carry(req)
  /\ TakeReply(stale,
       IF toDelete = {} THEN Finish("updated")
       ELSE /\ pc' = "delete" /\ at' = NoList /\ toCreate' = {}
            /\ UNCHANGED <<toDelete, result>>)
  /\ UNCHANGED <<late, goal, policy, lists, listID, want, edits>>

\* The cached items are dropped. Mutation: they are kept.
InvalidateForgotten == UNCHANGED cached
Invalidate == cached' = NoCache

AddErrs ==
  /\ pc = "add"
  /\ \E req \in Creating(at) : Unanswered(req)
  /\ Invalidate
  /\ Finish("failed")
  /\ UNCHANGED <<goal, policy, lists, listID, want, stale, edits>>

\* DeleteWAFListItems for the leftovers.
RemoveItems ==
  /\ pc = "delete"
  /\ Resolved # NoList
  /\ Carry(Deleting(Resolved, toDelete))
  /\ lists' = ListsAfterLookUp /\ listID' = IDAfterLookUp
  /\ TakeReply(StaleAfterLookUp, Finish("updated"))
  /\ UNCHANGED <<late, goal, policy, want, edits>>

\* The deletion was not confirmed, or the list was not found to begin with, in
\* which case nothing is dropped from the cache.
RemoveErrs ==
  /\ pc = "delete"
  /\ \/ /\ Resolved # NoList
        /\ Unanswered(Deleting(Resolved, toDelete))
        /\ Invalidate
        /\ lists' = ListsAfterLookUp /\ listID' = IDAfterLookUp /\ stale' = StaleAfterLookUp
     \/ /\ MustFetchLists
        /\ UNCHANGED <<remote, caches, stale>>
     \/ /\ Resolved = NoList
        /\ lists' = ListsAfterLookUp /\ stale' = StaleAfterLookUp
        /\ UNCHANGED <<remote, listID, cached>>
  /\ Finish("failed")
  /\ UNCHANGED <<goal, policy, want, edits>>

-----------------------------------------------------------------------------
(* The final clean-up: FinalCleanWAFList                                   *)

Stop(code) ==
  /\ pc' = "stopped"
  /\ result' = code
  /\ at' = NoList /\ toDelete' = {}
  /\ UNCHANGED <<want, toCreate>>

\* Mutation of the next: the families out of scope are forgotten.
WholeListIfAllowed == policy.whole

\* The whole list goes when every item in it is managed and every family in scope.
WholeList == policy.whole /\ policy.scope = Families

\* The lookup failed, or there is no list to clean.
NothingToClean ==
  /\ pc = "idle"
  /\ \/ /\ MustFetchLists
        /\ Stop("failed")
        /\ UNCHANGED <<caches, stale>>
     \/ /\ Resolved = NoList
        /\ Stop("noop")
        /\ lists' = ListsAfterLookUp
        /\ IF WholeList THEN listID' = NoCache /\ cached' = NoCache
                        ELSE UNCHANGED <<listID, cached>>
        /\ stale' = StaleAfterLookUp
  /\ UNCHANGED <<remote, goal, policy, edits>>

\* DeleteList is confirmed ...
DropList ==
  /\ pc = "idle" /\ WholeList
  /\ Resolved # NoList
  /\ Carry(Dropping(Resolved)) /\ UNCHANGED late
  /\ lists' = ListsAfterLookUp /\ listID' = NoCache /\ cached' = NoCache
  /\ stale' = StaleAfterLookUp
  /\ Stop("updated")
  /\ UNCHANGED <<goal, policy, edits>>

\* ... or not, and the items are deleted instead, listed anew.
DropListErrs ==
  /\ pc = "idle" /\ WholeList
  /\ Resolved # NoList
  /\ Unanswered(Dropping(Resolved))
  /\ lists' = ListsAfterLookUp /\ listID' = IDAfterLookUp /\ cached' = NoCache
  /\ stale' = StaleAfterLookUp
  /\ pc' = "sweep" /\ at' = Resolved
  /\ UNCHANGED <<goal, policy, want, toCreate, toDelete, result, edits>>

\* With a shared list only items are deleted.
KeepList ==
  /\ pc = "idle" /\ ~WholeList
  /\ Resolved # NoList
  /\ lists' = ListsAfterLookUp /\ listID' = IDAfterLookUp
  /\ stale' = StaleAfterLookUp
  /\ pc' = "sweep" /\ at' = Resolved
  /\ UNCHANGED <<remote, goal, policy, cached, want, toCreate, toDelete, result, edits>>

\* The managed items of the families in scope, from the cache or fetched.
InScopeItems(view) == UNION {OfFamily(view, f) : f \in policy.scope}

SweepFrom(view) ==
  IF InScopeItems(view) = {} THEN Stop("noop")
  ELSE /\ pc' = "erase" /\ toDelete' = InScopeItems(view)
       /\ UNCHANGED <<want, at, toCreate, result>>

Sweep ==
  /\ pc = "sweep"
  /\ IF cached # NoCache
       THEN /\ SweepFrom(cached)
            /\ stale' = IF "items" \in stale THEN stale \cup {"plan"} ELSE stale \ {"plan"}
            /\ UNCHANGED cached
       ELSE /\ Readable(at)
            /\ SweepFrom(ManagedView(items))
            /\ cached' = ManagedView(items)
            /\ stale' = stale \ {"items", "plan"}
  /\ UNCHANGED <<remote, goal, policy, lists, listID, edits>>

SweepFails ==
  /\ pc = "sweep"
  /\ cached = NoCache
  /\ Stop("failed")
  /\ UNCHANGED <<remote, goal, policy, caches, stale, edits>>

\* Cloudflare accepts the deletion, and carries it out now or later.
EraseStarts ==
  /\ pc = "erase"
  /\ Applicable(Deleting(at, toDelete))
  /\ \/ Carry(Deleting(at, toDelete)) /\ UNCHANGED late
     \/ late' = late \cup {Deleting(at, toDelete)} /\ UNCHANGED <<list, items, garbled>>
  /\ cached' = NoCache
  /\ Stop("updating")
  /\ UNCHANGED <<goal, policy, lists, listID, stale, edits>>

\* Mutation of the next: the error is not noticed.
EraseErrsIgnored ==
  /\ pc = "erase"
  /\ Unanswered(Deleting(at, toDelete))
  /\ cached' = NoCache
  /\ Stop("updating")
  /\ UNCHANGED <<goal, policy, lists, listID, stale, edits>>

EraseErrs ==
  /\ pc = "erase"
  /\ Unanswered(Deleting(at, toDelete))
  /\ cached' = NoCache
  /\ Stop("failed")
  /\ UNCHANGED <<goal, policy, lists, listID, stale, edits>>

-----------------------------------------------------------------------------
(* What happens around the process                                         *)

\* The process dies or has exited, and is started again.
Restart ==
  /\ lists' = NoCache /\ listID' = NoCache /\ cached' = NoCache
  /\ want' = Preserved
  /\ Finish("none")
  /\ stale' = {}
  /\ UNCHANGED <<remote, goal, policy, edits>>

\* Mutation of the next: the ID of the list is kept for ever.
ExpireListings ==
  /\ \/ lists # NoCache /\ lists' = NoCache /\ UNCHANGED cached
     \/ cached # NoCache /\ cached' = NoCache /\ UNCHANGED lists
  /\ UNCHANGED <<remote, goal, policy, listID, pc, plan, result, stale, edits>>

\* An entry of a cache reaches its time to live.
Expire ==
  /\ \/ lists # NoCache /\ lists' = NoCache /\ UNCHANGED <<listID, cached>>
     \/ listID # NoCache /\ listID' = NoCache /\ UNCHANGED <<lists, cached>>
     \/ cached # NoCache /\ cached' = NoCache /\ UNCHANGED <<lists, listID>>
  /\ UNCHANGED <<remote, goal, policy, pc, plan, result, stale, edits>>

\* The detected addresses change.
AddressChange ==
  /\ goal' \in GoalsInScope \ {goal}
  /\ UNCHANGED <<remote, policy, caches, pc, plan, result, stale, edits>>

\* The list changes other than by a call of the updater that is answered.
Changed(what) ==
  /\ edits < MaxEdits /\ edits' = edits + 1
  /\ stale' = stale \cup what
  /\ UNCHANGED <<goal, policy, caches, pc, plan, result>>

\* Another party edits the items, ...
OutsideEdit(id, slot) ==
  /\ list # NoList
  /\ items[id] # slot
  /\ items[id] = Absent => id \in FreshItems
  /\ items' = [items EXCEPT ![id] = slot]
  /\ Changed({"items", "plan"})
  /\ UNCHANGED <<list, garbled, late>>

\* ... adds or removes an entry that the client cannot read, ...
OutsideGarble ==
  /\ list # NoList
  /\ garbled' = ~garbled
  /\ Changed({"items", "plan"})
  /\ UNCHANGED <<list, items, late>>

\* ... or deletes or makes the list itself.
OutsideList ==
  /\ IF list = NoList THEN list' \in FreshLists ELSE list' = NoList
  /\ items' = Nothing /\ garbled' = FALSE
  /\ Changed({"lists", "id", "items", "plan"})
  /\ UNCHANGED late

\* A request given up on is carried out after all, or never.
LateLands(req) ==
  /\ Carry(req)
  /\ late' = late \ {req}
  /\ Changed(IF req.becomes = req.at THEN {"items", "plan"}
             ELSE {"lists", "id", "items", "plan"})

LateLost(req) ==
  /\ late' = late \ {req}
  /\ UNCHANGED <<list, items, garbled, goal, policy, caches, pc, plan, result, stale, edits>>

-----------------------------------------------------------------------------

RoundStep ==
  \/ ListFails \/ StartFromCache \/ StartFromListing
  \/ ListThere \/ \E l \in ListIDs : MakeList(l)
  \/ EnsureErrs
  \/ AddItems \/ AddErrs
  \/ RemoveItems \/ RemoveErrs

FinalStep ==
  \/ NothingToClean \/ DropList \/ DropListErrs \/ KeepList
  \/ Sweep \/ SweepFails \/ EraseStarts \/ EraseErrs

\* What the rest of the world does to the list.
Disturbance ==
  \/ AddressChange
  \/ \E id \in ItemIDs, slot \in Item \cup {Absent} : OutsideEdit(id, slot)
  \/ OutsideGarble
  \/ OutsideList
  \/ \E req \in late : LateLands(req)

Next ==
  \/ RoundStep
  \/ FinalStep
  \/ Restart
  \/ Expire
  \/ Disturbance
  \/ \E req \in late : LateLost(req)

Spec == Init /\ [][Next]_vars

\* The schedule runs the updater again and again; a fetch that can succeed and a
\* call that is attempted again and again succeed some time; every call returns,
\* if only by its timeout; a request given up on does not linger for ever; entries
\* of the caches expire.
Fairness ==
  /\ WF_vars(StartFromCache)
  /\ SF_vars(StartFromListing)
  /\ WF_vars(pc \in {"create", "add", "delete"} /\ RoundStep)
  /\ SF_vars(\E l \in ListIDs : MakeList(l))
  /\ SF_vars(ListThere)
  /\ SF_vars(AddItems)
  /\ SF_vars(RemoveItems)
  /\ WF_vars(\E req \in late : LateLands(req) \/ LateLost(req))
  /\ WF_vars(lists # NoCache /\ lists' = NoCache /\ Expire)
  /\ WF_vars(listID # NoCache /\ listID' = NoCache /\ Expire)
  /\ WF_vars(cached # NoCache /\ cached' = NoCache /\ Expire)

FairSpec == Spec /\ Fairness

-----------------------------------------------------------------------------
(* Properties                                                              *)

TypeOK ==
  /\ list \in ListSlot
  /\ items \in View
  /\ garbled \in BOOLEAN
  /\ late \in SUBSET Request
  /\ policy \in Policies
  /\ goal \in Targets
  /\ lists \in ListSlot \cup {NoCache}
  /\ listID \in ListIDs \cup {NoCache}
  /\ cached \in View \cup {NoCache}
  /\ pc \in {"idle", "create", "add", "delete", "sweep", "erase", "stopped"}
  /\ want \in Targets
  /\ at \in ListSlot
  /\ toCreate \in SUBSET Item
  /\ toDelete \in SUBSET ItemIDs
  /\ result \in {"none", "noop", "updated", "updating", "failed"}
  /\ stale \in SUBSET {"lists", "id", "items", "plan"}
  /\ edits \in Nat

\* What the handle has cached of the account's lists, of the list's ID and of its
\* managed items is so at Cloudflare, as long as nobody else has made it
\* otherwise: every creation, deletion and error leaves the three caches right.
CachesCoherent ==
  pc \in {"idle", "create", "add", "delete"} =>
    /\ "lists" \notin stale /\ lists # NoCache => lists = list
    /\ "id" \notin stale /\ listID # NoCache => listID = list
    /\ "items" \notin stale /\ cached # NoCache => cached = ManagedView(items)

\* Every target is covered by a managed item and every managed item of a
\* family with known targets covers a target.
Satisfied(targets) ==
  \A f \in DOMAIN targets :
    /\ Uncovered(ManagedView(items), targets, f) = {}
    /\ Useless(ManagedView(items), targets, f) = {}

\* A round that reports success left a list that satisfies its targets.
SuccessMeansSatisfied ==
  pc = "idle" /\ result \in {"noop", "updated"} /\ "plan" \notin stale => Satisfied(want)

\* The targets of the given steered families that managed items cover.
CoveredTargets ==
  {t \in UNION {want[f] : f \in DOMAIN want} :
     \E id \in Ids(ManagedView(items)) : Hits(ManagedView(items), id, t)}

\* A round that nobody interferes with opens no gap, wherever it is interrupted: no
\* covered target loses its cover, and items are only deleted once every target
\* is covered ("Create first, then delete, to avoid temporary coverage gaps").
NoCoverageGap ==
  [][RoundStep /\ pc # "idle" /\ "plan" \notin stale =>
       /\ CoveredTargets \subseteq CoveredTargets'
       /\ (\E id \in ItemIDs : items[id] # Absent /\ items'[id] = Absent) =>
            \A f \in DOMAIN want : Uncovered(ManagedView(items), want, f) = {}]_vars

\* Nor does it add an item for a target that a managed item covers.
NoRedundantItems ==
  [][RoundStep /\ "plan" \notin stale =>
       \A id \in ItemIDs : items[id] = Absent /\ items'[id] # Absent =>
         items'[id].prefix \notin CoveredTargets]_vars

\* The list keeps the promises of CoveredRanges. In particular, wherever an operation
\* is interrupted and whichever call fails, the ranges of the list have changed by
\* nothing, by exactly the missing targets or by exactly the useless ranges, in this
\* order; a success leaves neither; and ranges of families that a round knows nothing
\* of, or that are out of scope of the clean-up, stay. What is known from a cache that
\* others have made wrong binds to nothing.
Held == {ManagedView(items)[id].prefix : id \in Ids(ManagedView(items))}

Promise ==
  INSTANCE CoveredRanges WITH
    held <- Held,
    scope <- policy.scope,
    trusted <- (IF pc \in {"sweep", "erase", "stopped"} THEN {"plan", "lists", "id"} ELSE {"plan"})
                 \cap stale = {},
    phase <- IF pc \in {"create", "add", "delete"} THEN "covering"
             ELSE IF pc \in {"sweep", "erase"} THEN "clearing" ELSE pc,
    answer <- IF result \in {"noop", "updated"} THEN "done"
              ELSE IF result = "updating" THEN "pending" ELSE result

PromiseKept == Promise!Spec

\* Without interference the updater, in rounds and in the final clean-up, changes
\* only managed items of families it has authority over: those with a known
\* target in a round, those with a provider in the clean-up.
ScopeRespected ==
  [][(RoundStep \/ FinalStep) /\ {"plan", "lists", "id"} \cap stale = {} =>
       \A id \in ItemIDs : items'[id] # items[id] =>
         \A item \in {items[id], items'[id]} \ {Absent} :
           /\ Managed(item)
           /\ FamilyOf[item.prefix] \in
                IF RoundStep THEN DOMAIN want ELSE policy.scope]_vars

\* A final clean-up that reports success left no managed item of a family in scope,
\* and one that reports ResponseUpdating left none that Cloudflare has not
\* accepted to delete.
CleanUpAccounts ==
  [][pc # "stopped" /\ pc' = "stopped" /\ {"plan", "lists", "id"} \cap stale' = {} =>
       /\ result' \in {"noop", "updated"} => InScopeItems(ManagedView(items')) = {}
       /\ result' = "updating" =>
            InScopeItems(ManagedView(items')) \subseteq UNION {req.gone : req \in late'}]_vars

\* Cloudflare has IDs to give out: a limit of small instances only.
IDsLeft == FreshItems # {} /\ (list = NoList => FreshLists # {})

\* Once the rest of the world leaves the list alone and readable and the updater
\* keeps running, the list comes to satisfy the targets and stays so, whatever
\* was cached, lost or half done before, the list's own existence included.
Converges ==
  /\ <>[][~Disturbance /\ ~FinalStep /\ ~Restart]_vars
  /\ <>[](~garbled /\ IDsLeft /\ pc \notin {"sweep", "erase", "stopped"})
  => <>[]Satisfied(goal)
===============================================================================
