--------------------------- MODULE RecordReconciler ---------------------------
(***************************************************************************)
(* One DNS reconciliation unit, a (domain, IP family) pair: the setter     *)
(* that plans a round from a listing and carries the plan out one API call *)
(* at a time (internal/setter/setter.go), the handle that keeps a cache of *)
(* the managed records and updates it from each reply                      *)
(* (internal/api/cloudflare_records.go), and the records at Cloudflare,    *)
(* which other parties may edit at any moment.                             *)
(*                                                                         *)
(* Every API call may be confirmed, may fail before it is sent (the zone   *)
(* lookup fails), may be refused, may be carried out although its reply is *)
(* lost, and may be carried out later than the client stops waiting.       *)
(***************************************************************************)
EXTENDS RecordMetadata, Naturals, FiniteSets

CONSTANTS
  IDs,         \* record IDs, chosen by Cloudflare
  IPs,         \* addresses of the unit's family
  Goals,       \* the target sets that detection may produce
  Fallback,    \* the configured parameters (RECORD_COMMENT, TTL, PROXIED)
  Normalised,  \* what Cloudflare stores when asked for some parameters
  Absent,      \* the record of an ID that names no record
  NoCache,     \* the cache without an entry for the unit
  ManagedComments,  \* the comments that the managed-record selector matches
  MaxLate,     \* bound on the requests that may still take effect late
  MaxForeign,  \* bound on the records that the selector does not match
  MaxEdits     \* bound on the changes by others between two fetched listings

Record == [ip : IPs, params : Params]
Slot == Record \cup {Absent}
View == [IDs -> Slot]

\* The slots Cloudflare can hold: it stores parameters in normal form.
StoredSlot ==
  {rec \in Record : Normalised[rec.params] = rec.params} \cup {Absent}

\* The configuration is rejected unless the fallback comment matches the
\* selector (config checks); Cloudflare keeps comments as they are sent and
\* normalising twice changes nothing more.
ASSUME ConstantsAssumption ==
  /\ ManagedComments \subseteq Comments
  /\ Fallback \in Params
  /\ Fallback.comment \in ManagedComments
  /\ Normalised \in [Params -> Params]
  /\ \A p \in Params : /\ Normalised[p].comment = p.comment
                       /\ Normalised[Normalised[p]] = Normalised[p]
  /\ Absent \notin Record
  /\ NoCache \notin View
  /\ Goals \subseteq SUBSET IPs
  /\ {MaxLate, MaxForeign, MaxEdits} \subseteq Nat

\* Cloudflare keeps the other parameters too, but for the TTL; where it does not
\* keep the TTL (that of proxied records), it does not matter which one was sent.
ASSUME NormalisationAssumption ==
  \A p \in Params :
    /\ Normalised[p].proxied = p.proxied
    /\ Normalised[p].tags = p.tags
    /\ Normalised[p].ttl # p.ttl =>
         \A ttl \in TTLs : Normalised[[p EXCEPT !.ttl = ttl]] = Normalised[p]

VARIABLES
  remote,       \* the records at Cloudflare, by ID
  late,         \* requests given up on that Cloudflare may still carry out
  goal,         \* the addresses detected at present
  cache,        \* the handle's list of managed records, or NoCache
  pc,           \* where the unit's goroutine is
  want,         \* the targets of the round that runs or ran last
  listed,       \* the listing the round was planned from
  todo,         \* targets the plan has yet to satisfy
  spare,        \* outdated records the plan has yet to recycle or delete
  unconfirmed,  \* records whose final deletion was not confirmed
  result,       \* the response code of the last operation
  edits         \* history: how often the records changed, since a listing was
                \* last fetched, otherwise than by an answered or failed call

plan == <<want, listed, todo, spare, unconfirmed>>
process == <<cache, pc, plan, result>>
vars == <<remote, late, goal, process, edits>>

Nothing == [id \in IDs |-> Absent]

-----------------------------------------------------------------------------
(* Records and views of them                                               *)

\* HandleOptions.MatchManagedRecordComment
Managed(rec) == rec # Absent /\ rec.params.comment \in ManagedComments

Ids(view) == {id \in IDs : view[id] # Absent}
Covered(view) == {view[id].ip : id \in Ids(view)}
\* Mutation: the client-side filter of the listing is forgotten.
UnfilteredView(view) == view
ManagedView(view) ==
  [id \in IDs |-> IF Managed(view[id]) THEN view[id] ELSE Absent]

Foreign(view) == Ids(view) \ Ids(ManagedView(view))

\* What Cloudflare stores when asked to store rec.
Store(rec) == [rec EXCEPT !.params = Normalised[rec.params]]

\* partitionRecords
Outdated(view, targets) == {id \in Ids(view) : view[id].ip \notin targets}
\* Mutations: the difference is taken the wrong way round, or not at all.
Unexpected(view, targets) == Covered(view) \ targets
AllTargets(view, targets) == targets
Unmatched(view, targets) == targets \ Covered(view)

\* recordsAlreadyUpToDate: duplicates and metadata are tolerated residue.
\* Mutations: one half of the test is forgotten.
AllMatched(view, targets) == Unmatched(view, targets) = {}
NoneOutdated(view, targets) == Outdated(view, targets) = {}
AlreadyUpToDate(view, targets) ==
  Outdated(view, targets) = {} /\ Unmatched(view, targets) = {}

\* The parameters the plan writes for every unmatched target.
PlannedParams ==
  ResolveParams(Fallback, {listed[id].params : id \in Outdated(listed, want)})

\* The outdated records are used up in the order of reconcileAndSortRecords:
\* those that already have the planned parameters first, then by ID, an order
\* Cloudflare's IDs leave open.
NextSpare ==
  LET matching == {id \in spare : listed[id].params = PlannedParams}
  IN  IF matching # {} THEN matching ELSE spare

-----------------------------------------------------------------------------
(* Requests. A deletion stores Absent. The ID of a creation is the one     *)
(* Cloudflare gives the record; it never gives the same ID twice, so any   *)
(* ID that nobody remembers may stand for it.                              *)

Request == [new : BOOLEAN, id : IDs, rec : StoredSlot]

FreshIDs ==
  IDs \ (Ids(remote) \cup Ids(listed) \cup {req.id : req \in late}
           \cup IF cache = NoCache THEN {} ELSE Ids(cache))

\* An update or a deletion of a record that is gone is refused.
Applicable(req) == req.new <=> remote[req.id] = Absent
Carried(req) == [remote EXCEPT ![req.id] = req.rec]

UpdateOf(id, ip) ==
  [new |-> FALSE, id |-> id, rec |-> Store([ip |-> ip, params |-> PlannedParams])]
CreationOf(id, ip) ==
  [new |-> TRUE, id |-> id, rec |-> Store([ip |-> ip, params |-> PlannedParams])]
DeletionOf(id) == [new |-> FALSE, id |-> id, rec |-> Absent]

\* What became of a call that ended in an error: refused or lost on its way,
\* carried out with the reply lost, or to be carried out later.
Unanswered(req) ==
  \/ UNCHANGED <<remote, late>>
  \/ Applicable(req) /\ remote' = Carried(req) /\ UNCHANGED late
  \/ Cardinality(late) < MaxLate /\ late' = late \cup {req} /\ UNCHANGED remote

-----------------------------------------------------------------------------
(* The process                                                             *)

Init ==
  /\ remote \in [IDs -> StoredSlot]
  /\ late = {}
  /\ Cardinality(Foreign(remote)) <= MaxForeign
  /\ goal \in Goals
  /\ cache = NoCache
  /\ pc = "idle"
  /\ want = {} /\ listed = Nothing /\ todo = {} /\ spare = {} /\ unconfirmed = {}
  /\ result = "none"
  /\ edits = 0

\* The listing that ListRecords returns when it returns one.
Listing == IF cache = NoCache THEN ManagedView(remote) ELSE cache

\* ListRecords: a cached list is taken as it is, otherwise the managed records
\* are fetched and cached.
ListRecords ==
  /\ cache' = Listing
  /\ edits' = IF cache = NoCache THEN 0 ELSE edits

\* The call returns: its plan is forgotten.
Finish(code) ==
  /\ pc' = "idle"
  /\ result' = code
  /\ listed' = Nothing /\ todo' = {} /\ spare' = {}
  /\ UNCHANGED <<want, unconfirmed>>

\* The listing could not be fetched: neither SetIPs nor FinalDelete goes on.
ListFails(next) ==
  /\ pc = "idle"
  /\ cache = NoCache
  /\ pc' = next
  /\ result' = "failed"
  /\ UNCHANGED <<remote, late, goal, cache, plan, edits>>

\* SetIPs up to its first mutation: list, partition, and return at once when
\* the records already satisfy the targets.
StartRound ==
  /\ pc = "idle"
  /\ ListRecords
  /\ want' = goal
  /\ unconfirmed' = {}
  /\ IF AlreadyUpToDate(Listing, goal)
       THEN /\ UNCHANGED <<pc, listed, todo, spare>>
            /\ result' = "noop"
       ELSE /\ pc' = "round"
            /\ listed' = Listing
            /\ todo' = Unmatched(Listing, goal)
            /\ spare' = Outdated(Listing, goal)
            /\ result' = "none"
  /\ UNCHANGED <<remote, late, goal>>

\* The cached list after an edit of one slot; a missing list stays missing.
CacheSet(id, slot) ==
  cache' = IF cache = NoCache THEN NoCache ELSE [cache EXCEPT ![id] = slot]

\* Stage 1, while an outdated record is left: recycle it with UpdateRecord.
\* The cache takes the parameters of the reply, and drops a record whose
\* comment has left the selector.
RecycleOutdated(id, ip) ==
  /\ pc = "round" /\ ip \in todo /\ id \in NextSpare
  /\ LET req == UpdateOf(id, ip) IN
       /\ Applicable(req)
       /\ remote' = Carried(req)
       /\ CacheSet(id, IF Managed(req.rec) THEN req.rec ELSE Absent)
  /\ todo' = todo \ {ip}
  /\ spare' = spare \ {id}
  /\ UNCHANGED <<late, goal, pc, want, listed, unconfirmed, result, edits>>

\* Stage 1, when none is left: CreateRecord. The cache takes the parameters
\* that were asked for, not those of the reply.
CreateMissing(id, ip) ==
  /\ pc = "round" /\ ip \in todo /\ spare = {} /\ id \in FreshIDs
  /\ remote' = Carried(CreationOf(id, ip))
  /\ IF PlannedParams.comment \in ManagedComments
       THEN CacheSet(id, [ip |-> ip, params |-> PlannedParams])
       ELSE UNCHANGED cache
  /\ todo' = todo \ {ip}
  /\ UNCHANGED <<late, goal, pc, want, listed, spare, unconfirmed, result, edits>>

\* Mutation: stale records are deleted before the missing ones are created.
DeleteOutdatedEarly(id) ==
  /\ pc = "round" /\ id \in NextSpare
  /\ Applicable(DeletionOf(id))
  /\ remote' = Carried(DeletionOf(id))
  /\ CacheSet(id, Absent)
  /\ spare' = spare \ {id}
  /\ UNCHANGED <<late, goal, pc, want, listed, todo, unconfirmed, result, edits>>

\* Stage 2, when every target is satisfied: DeleteRecord, regular mode.
DeleteOutdated(id) ==
  /\ pc = "round" /\ todo = {} /\ id \in NextSpare
  /\ Applicable(DeletionOf(id))
  /\ remote' = Carried(DeletionOf(id))
  /\ CacheSet(id, Absent)
  /\ spare' = spare \ {id}
  /\ UNCHANGED <<late, goal, pc, want, listed, todo, unconfirmed, result, edits>>

\* The calls the round may make next.
NextCalls ==
  IF todo = {} THEN {DeletionOf(id) : id \in NextSpare}
  ELSE IF spare = {} THEN {CreationOf(id, ip) : id \in FreshIDs, ip \in todo}
  ELSE {UpdateOf(id, ip) : id \in NextSpare, ip \in todo}

\* The cached list is dropped. Mutation: it is kept.
InvalidateForgotten == UNCHANGED cache
Invalidate == cache' = NoCache

\* The call was sent and ended in an error: the cached list is dropped and the
\* round gives up.
CallErrs ==
  /\ pc = "round"
  /\ \E req \in NextCalls : Unanswered(req)
  /\ Invalidate
  /\ Finish("failed")
  /\ UNCHANGED <<goal, edits>>

\* The zone lookup of the call failed, nothing was sent: the round gives up
\* and the cached list stays.
CallNotSent ==
  /\ pc = "round"
  /\ todo # {} \/ spare # {}
  /\ Finish("failed")
  /\ UNCHANGED <<remote, late, goal, cache, edits>>

RoundDone ==
  /\ pc = "round" /\ todo = {} /\ spare = {}
  /\ Finish("updated")
  /\ UNCHANGED <<remote, late, goal, cache, edits>>

-----------------------------------------------------------------------------
(* FinalDelete: on the way out every managed record is deleted; a deletion *)
(* that is not confirmed does not stop the others, and the cache is kept.  *)

Stop(code) ==
  /\ pc' = "stopped"
  /\ result' = code
  /\ spare' = {}

StartFinalDelete ==
  /\ pc = "idle"
  /\ ListRecords
  /\ unconfirmed' = {}
  /\ IF Ids(Listing) = {}
       THEN Stop("noop")
       ELSE /\ pc' = "final"
            /\ spare' = Ids(Listing)
            /\ result' = "none"
  /\ UNCHANGED <<remote, late, goal, want, listed, todo>>

FinalDeleteRecord(id) ==
  /\ pc = "final" /\ id \in spare
  /\ Applicable(DeletionOf(id))
  /\ remote' = Carried(DeletionOf(id))
  /\ CacheSet(id, Absent)
  /\ spare' = spare \ {id}
  /\ UNCHANGED <<late, goal, pc, want, listed, todo, unconfirmed, result, edits>>

\* Mutation: a failed deletion is not remembered.
FinalDeleteErrsForgotten(id) ==
  /\ pc = "final" /\ id \in spare
  /\ Unanswered(DeletionOf(id))
  /\ spare' = spare \ {id}
  /\ UNCHANGED <<goal, cache, pc, result, want, listed, todo, unconfirmed, edits>>

\* The deletion was not confirmed, or not even sent. The loop goes on, unless
\* the context has ended.
FinalDeleteErrs(id) ==
  /\ pc = "final" /\ id \in spare
  /\ Unanswered(DeletionOf(id))
  /\ unconfirmed' = unconfirmed \cup {id}
  /\ \/ spare' = spare \ {id} /\ UNCHANGED <<pc, result>>
     \/ Stop("failed")
  /\ UNCHANGED <<goal, cache, want, listed, todo, edits>>

FinalDeleteDone ==
  /\ pc = "final" /\ spare = {}
  /\ Stop(IF unconfirmed = {} THEN "updated" ELSE "failed")
  /\ UNCHANGED <<remote, late, goal, cache, want, listed, todo, unconfirmed, edits>>

-----------------------------------------------------------------------------
(* What happens around the process                                         *)

\* The process dies or has exited, and is started again.
Restart ==
  /\ cache' = NoCache
  /\ pc' = "idle"
  /\ want' = {} /\ listed' = Nothing /\ todo' = {} /\ spare' = {} /\ unconfirmed' = {}
  /\ result' = "none"
  /\ UNCHANGED <<remote, late, goal, edits>>

\* The cached list reaches its time to live, possibly in the middle of a round.
Expire ==
  /\ cache # NoCache
  /\ cache' = NoCache
  /\ UNCHANGED <<remote, late, goal, pc, plan, result, edits>>

\* The detected addresses change.
AddressChange ==
  /\ goal' \in Goals \ {goal}
  /\ UNCHANGED <<remote, late, process, edits>>

\* Another party edits, deletes or creates a record.
OutsideEdit(id, slot) ==
  /\ remote[id] # slot
  /\ remote[id] = Absent => id \in FreshIDs
  /\ remote' = [remote EXCEPT ![id] = slot]
  /\ Cardinality(Foreign(remote')) <= MaxForeign
  /\ edits < MaxEdits /\ edits' = edits + 1
  /\ UNCHANGED <<late, goal, process>>

\* A request given up on is carried out after all, or never.
LateLands(req) ==
  /\ Applicable(req)
  /\ remote' = Carried(req)
  /\ late' = late \ {req}
  /\ edits < MaxEdits /\ edits' = edits + 1
  /\ UNCHANGED <<goal, process>>

LateLost(req) ==
  /\ late' = late \ {req}
  /\ UNCHANGED <<remote, goal, process, edits>>

-----------------------------------------------------------------------------

RoundStep ==
  \/ ListFails("idle")
  \/ StartRound
  \/ \E id \in IDs, ip \in IPs : RecycleOutdated(id, ip)
  \/ \E id \in IDs, ip \in IPs : CreateMissing(id, ip)
  \/ \E id \in IDs : DeleteOutdated(id)
  \/ CallErrs
  \/ CallNotSent
  \/ RoundDone

FinalStep ==
  \/ ListFails("stopped")
  \/ StartFinalDelete
  \/ \E id \in IDs : FinalDeleteRecord(id)
  \/ \E id \in IDs : FinalDeleteErrs(id)
  \/ FinalDeleteDone

\* What the rest of the world does to the unit.
Disturbance ==
  \/ AddressChange
  \/ \E id \in IDs, slot \in StoredSlot : OutsideEdit(id, slot)
  \/ \E req \in late : LateLands(req)

Next ==
  \/ RoundStep
  \/ FinalStep
  \/ Restart
  \/ Expire
  \/ Disturbance
  \/ \E req \in late : LateLost(req)

Spec == Init /\ [][Next]_vars

\* The schedule runs the updater again and again and a listing comes through
\* some time; every call returns, if only by its timeout; a call that is
\* attempted again and again is confirmed some time; entries of the cache expire.
Fairness ==
  /\ WF_vars(StartRound)
  /\ WF_vars(pc = "round" /\ RoundStep)
  /\ SF_vars(\E id \in IDs, ip \in IPs : RecycleOutdated(id, ip))
  /\ SF_vars(\E id \in IDs, ip \in IPs : CreateMissing(id, ip))
  /\ SF_vars(\E id \in IDs : DeleteOutdated(id))
  /\ WF_vars(Expire)

FairSpec == Spec /\ Fairness

-----------------------------------------------------------------------------
(* Properties                                                              *)

\* The addresses that managed records at Cloudflare cover.
Live == Covered(ManagedView(remote))

\* Nobody else changed the records since they were listed.
Undisturbed == edits = 0

TypeOK ==
  /\ remote \in [IDs -> StoredSlot]
  /\ late \in SUBSET Request
  /\ goal \in SUBSET IPs
  /\ cache \in View \cup {NoCache}
  /\ pc \in {"idle", "round", "final", "stopped"}
  /\ want \in SUBSET IPs
  /\ listed \in View
  /\ todo \in SUBSET want
  /\ spare \in SUBSET IDs
  /\ unconfirmed \in SUBSET IDs
  /\ result \in {"none", "noop", "updated", "failed"}
  /\ edits \in Nat

\* Two slots hold the same record, its parameters up to normalisation.
SameRecord(cached, stored) ==
  IF cached = Absent THEN stored = Absent
  ELSE stored # Absent /\ Store(cached) = stored

\* As long as nobody else changed the records since they were listed, the
\* cached list is the list of managed records: the edits that UpdateRecord,
\* CreateRecord and DeleteRecord make to it keep up with Cloudflare, and every
\* call whose outcome is unknown drops it. (FinalDelete keeps it; see below.)
CacheCoherent ==
  Undisturbed /\ cache # NoCache /\ pc \in {"idle", "round"} =>
    \A id \in IDs : SameRecord(cache[id], ManagedView(remote)[id])

\* A round that reports success left exactly the wanted addresses behind, and
\* so did a round that found, perhaps in the cache, that there was nothing to
\* do: SetIPs's ResponseNoop and ResponseUpdated can be believed.
SuccessMeansSatisfied ==
  Undisturbed /\ pc = "idle" /\ result \in {"noop", "updated"} => Live = want

\* A final deletion that reports success left no managed record behind, and
\* one that goes on after a failure has an account of every one that is left.
FinalDeletionAccounts ==
  Undisturbed =>
    /\ pc = "final" => Ids(ManagedView(remote)) \subseteq spare \cup unconfirmed
    /\ pc = "stopped" /\ result \in {"noop", "updated"} => Live = {}

\* While a round runs undisturbed, its plan is exact: what it has yet to serve and
\* to remove is what is missing and outdated at Cloudflare at that moment. What a
\* final deletion has yet to delete is still there and still managed.
PlanExact ==
  Undisturbed =>
    /\ pc = "round" => /\ todo = Unmatched(ManagedView(remote), want)
                       /\ spare = Outdated(ManagedView(remote), want)
    /\ pc = "final" => spare \subseteq Ids(ManagedView(remote))

\* The selector matches every record of a view.
AllManaged(view) == \A id \in Ids(view) : Managed(view[id])

\* Together these are inductive: the cache has to be right for a plan made from
\* it to be exact, and the plan exact for a finished round to be a success.
Inductive ==
  /\ TypeOK
  /\ pc # "round" => todo = {}
  /\ cache # NoCache => AllManaged(cache)
  /\ AllManaged(listed)
  /\ CacheCoherent
  /\ PlanExact
  /\ SuccessMeansSatisfied
  /\ FinalDeletionAccounts

\* A step of the updater itself, as opposed to what happens around it.
OwnStep == RoundStep \/ FinalStep

\* While nobody else interferes, the updater changes no record that its selector
\* does not match and writes no record that its selector would not match
\* again, whether the call is confirmed or not.
OwnershipRespected ==
  [][OwnStep /\ Undisturbed =>
       \A id \in IDs : remote'[id] # remote[id] =>
         /\ remote[id] = Absent \/ Managed(remote[id])
         /\ remote'[id] = Absent \/ Managed(remote'[id])]_vars

\* What docs/design/features/managed-record-ownership.markdown says of records
\* that the selector does not match, "Unmatched records are invisible to DNS
\* mutation logic": the updater never changes one, whatever others do. The code
\* asks the selector when it lists the records and not when it writes them.
UnmatchedRecordsInvisible ==
  [][OwnStep =>
       \A id \in IDs : remote'[id] # remote[id] =>
         remote[id] = Absent \/ Managed(remote[id])]_vars

\* The unit keeps the promises of ServedAddresses. In particular, wherever a
\* round is interrupted, the order of its calls has kept the addresses served:
\* no wanted address is taken away, and a stale one only while serving a wanted
\* one or when all are served (a missing target is worse than a stale record).
Promise ==
  INSTANCE ServedAddresses WITH
    live <- Live,
    trusted <- Undisturbed,
    phase <- CASE pc = "idle" -> "idle" [] pc = "round" -> "serving"
               [] pc = "final" -> "clearing" [] pc = "stopped" -> "stopped",
    answer <- IF result \in {"noop", "updated"} THEN "done" ELSE result

PromiseKept == Promise!Spec

\* While nobody else interferes, the updater never writes a record for an
\* address that a managed record already covers: lost replies, dropped caches
\* and restarts do not make it pile up duplicates.
NoNewDuplicates ==
  [][OwnStep /\ Undisturbed =>
       \A id \in IDs : remote'[id] # remote[id] /\ remote'[id] # Absent =>
         remote'[id].ip \notin Live]_vars

\* When the managed records all carry the same parameters, a round that
\* recycles some of them writes those very parameters: what was set by hand in
\* the dashboard survives address changes, lost replies and the cache's view of
\* parameters that Cloudflare has normalised.
UniformMetadataKept ==
  [][RoundStep /\ Undisturbed /\ Outdated(listed, want) # {} =>
       \A id, other \in IDs :
         /\ remote'[id] # remote[id] /\ remote'[id] # Absent
         /\ Managed(remote[other])
         /\ \A i \in Ids(ManagedView(remote)) :
               remote[i].params = remote[other].params
         => remote'[id].params = remote[other].params]_vars

\* Once the rest of the world leaves the unit alone and the updater keeps
\* running, the managed records come to cover exactly the detected addresses
\* and stay so, whatever was cached, lost or half done before.
Converges ==
  <>[][~Disturbance /\ ~Restart]_vars =>
    <>[](pc \in {"idle", "round"} => Live = goal)

===============================================================================
