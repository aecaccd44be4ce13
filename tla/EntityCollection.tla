-------------------------- MODULE EntityCollection --------------------------
(***************************************************************************)
(* EntityCollectionService (core/src/entity-collection/service.ts) with    *)
(* MemoryEntityCollectionStore (store.ts): refreshes of an anchor chained  *)
(* one after the other, snapshots published and retained, and readers who  *)
(* page through a filtered snapshot with cursors, while refreshes of the   *)
(* same and of other anchors (CollectionRefresh) go on.                    *)
(***************************************************************************)
EXTENDS CollectionRefresh

CONSTANTS
    Readers,        \* clients that page through a collection
    AnchorAsked,    \* the anchor each of them asks for
    Filters,        \* what they filter by: "all" or a trust mark type
    PageSize,       \* maxPageSize
    CursorTtl,      \* cursorTtlSeconds
    Retention,      \* retentionSeconds of the store
    MaxSnapshots,   \* maxSnapshots of the store
    MaxCursors,     \* maxCursors of the store
    MaxPages,       \* bound: pages a reader asks for
    MaxCalls,       \* bound: refreshes that are called
    MaxAborts       \* bound: refreshes that are cancelled at a time

ASSUME ServiceAssumption ==
    /\ Readers \subseteq Nat \ {0}
    /\ \A n \in {PageSize, CursorTtl, Retention, MaxSnapshots, MaxCursors, MaxPages} : n \in Nat

VARIABLES
    refreshes,  \* the service's map: anchor -> the last refresh chained, 0 for none
    previous,   \* call -> the refresh it waits for
    snapshots,  \* the store's snapshots, each with its place in the Map
    current,    \* anchor -> id of its current snapshot, 0 for none
    cursors,    \* the store's cursors, likewise
    reader      \* reader -> its position, what it was shown and what it should be
storeVars == <<snapshots, current, cursors>>
vars == <<buildVars, refreshes, previous, storeVars, reader>>

NoId == <<0, 0>>
NoCursor == [id |-> NoId, place |-> 0, snapshot |-> 0, anchor |-> 0, context |-> "all", index |-> 0,
             expiresAt |-> 0]
NewReader == [pc |-> "ready", filter |-> "all", at |-> 0, from |-> NoCursor, next |-> NoId,
              pages |-> 0, shown |-> <<>>, expected |-> <<>>]

Init ==
    /\ now = 0 /\ collects \in Collects /\ aborted = [c \in Calls |-> FALSE]
    /\ job = [c \in Calls |-> Fresh]
    /\ refreshes = [a \in Anchors |-> 0] /\ previous = [c \in Calls |-> 0]
    /\ snapshots = {} /\ current = [a \in Anchors |-> 0] /\ cursors = {}
    /\ reader \in [Readers -> {[NewReader EXCEPT !.filter = f] : f \in Filters}]
----------------------------------------------------------------------------
(* store.ts: Maps, which keep the order of insertion.                      *)
NextPlace(S) == 1 + Max({0} \cup {x.place : x \in S})
Oldest(S) == CHOOSE x \in S : \A y \in S : x.place <= y.place

(* prune *)
IsCurrent(s) == current[s.anchor] = s.id
Kept == {s \in snapshots : IsCurrent(s) \/ s.retainUntil > now}
LiveCursors == {k \in cursors : k.expiresAt > now}

(* Mutant: the oldest snapshot makes room, whoever needs it.               *)
RoomEvictingOldest(a, kept) == IF Cardinality(kept) < MaxSnapshots THEN kept ELSE kept \ {Oldest(kept)}

(* Room for a snapshot of anchor a: the oldest one that is not current     *)
(* goes, else a's own; there may be none.                                  *)
Room(a, kept) ==
    LET old == {s \in kept : ~IsCurrent(s)}
    IN  IF Cardinality(kept) < MaxSnapshots THEN kept
        ELSE IF old # {} THEN kept \ {Oldest(old)}
        ELSE {s \in kept : s.id # current[a]}

(* publish: prune, make room, retain the previous current snapshot for a   *)
(* while, and select the new one.                                          *)
Published(a, id, date, entries) ==
    LET room == Room(a, Kept)
    IN  {IF s.id = current[a] THEN [s EXCEPT !.retainUntil = now + Retention] ELSE s : s \in room}
        \cup {[id |-> id, place |-> NextPlace(room), anchor |-> a, lastUpdated |-> date,
               retainUntil |-> MaxTime + 1, entries |-> entries]}
----------------------------------------------------------------------------
(* service.ts: refresh.  A call chains itself behind the one in the map.   *)
CallRefresh(c) ==
    /\ job[c].pc = "none" /\ Cardinality({d \in Calls : job[d].pc # "none"}) < MaxCalls
    /\ \A d \in Calls : AnchorOf[d] = AnchorOf[c] /\ d < c => job[d].pc # "none"
    /\ previous' = [previous EXCEPT ![c] = refreshes[AnchorOf[c]]]
    /\ refreshes' = [refreshes EXCEPT ![AnchorOf[c]] = c]
    /\ job' = [job EXCEPT ![c].pc = "waiting"]
    /\ UNCHANGED <<now, collects, aborted, storeVars, reader>>

Settled(c) == c \in Calls => job[c].pc \in {"settled", "done"}

StartBuild(c) ==
    /\ job[c].pc = "waiting" /\ Settled(previous[c])
    /\ job' = [job EXCEPT ![c].pc = "start"]
    /\ previous' = [previous EXCEPT ![c] = 0]
    /\ UNCHANGED <<now, collects, aborted, refreshes, storeVars, reader>>

(* performRefresh with the outcome of buildCollectionSnapshot: a complete  *)
(* build is published, unless it was cancelled or the store is full.       *)
EndRefresh(c) ==
    /\ job[c].pc \in {"built", "failed"}
    /\ IF job[c].pc = "built" /\ ~aborted[c] /\ Cardinality(Room(AnchorOf[c], Kept)) < MaxSnapshots
       THEN /\ snapshots' = Published(AnchorOf[c], c, job[c].date, job[c].entries)
            /\ current' = [current EXCEPT ![AnchorOf[c]] = c]
            /\ cursors' = LiveCursors
       ELSE UNCHANGED storeVars
    /\ job' = [job EXCEPT ![c] = [Fresh EXCEPT !.pc = "settled"]]
    /\ aborted' = [aborted EXCEPT ![c] = FALSE]
    /\ UNCHANGED <<now, collects, refreshes, previous, reader>>

(* Mutant: the map entry goes with the first refresh that ends.            *)
CleanupAlways(c) ==
    /\ job[c].pc = "settled"
    /\ refreshes' = [refreshes EXCEPT ![AnchorOf[c]] = 0]
    /\ job' = [job EXCEPT ![c].pc = "done"]
    /\ UNCHANGED <<now, collects, aborted, previous, storeVars, reader>>

(* finally: the map entry goes with the last refresh of the chain.         *)
Cleanup(c) ==
    /\ job[c].pc = "settled"
    /\ refreshes' = [refreshes EXCEPT ![AnchorOf[c]] = IF @ = c THEN 0 ELSE @]
    /\ job' = [job EXCEPT ![c].pc = "done"]
    /\ UNCHANGED <<now, collects, aborted, previous, storeVars, reader>>
----------------------------------------------------------------------------
(* service.ts: query.  An entry matches while it and a mark of the type    *)
(* asked for are valid.                                                    *)
Matches(s, f, t) ==
    {e \in DOMAIN s.entries :
        /\ s.entries[e].exp > t
        /\ f = "all" \/ \E m \in s.entries[e].marks : m.type = f /\ m.exp > t}
Matching(s, f, t) == Sorted(Matches(s, f, t))

(* Mutant: a cursor lives as long as configured, whatever it counts.       *)
ValidUntilTtl(s, f, t) == t + CursorTtl

(* validUntil: until then the same entries match.                          *)
ValidUntil(s, f, t) ==
    LET ids == Matches(s, f, t)
    IN  Least({t + CursorTtl} \cup {s.entries[e].exp : e \in ids}
              \cup (IF f = "all" THEN {} ELSE
                    {Max({m.exp : m \in {n \in s.entries[e].marks : n.type = f}}) : e \in ids}))

(* The request arrives: the time is read and the cursor looked up.         *)
Lookup(r) ==
    /\ reader[r].pc = "ready" /\ reader[r].pages < MaxPages
    /\ LET found == {k \in LiveCursors : k.id = reader[r].next}
           k == IF found = {} THEN NoCursor ELSE CHOOSE x \in found : TRUE
           ok == \/ reader[r].next = NoId
                 \/ found # {} /\ k.context = reader[r].filter /\ k.anchor = AnchorAsked[r]
       IN  reader' = [reader EXCEPT ![r] = IF ok THEN [@ EXCEPT !.pc = "answer", !.at = now, !.from = k]
                                           ELSE [@ EXCEPT !.pc = "lost"]]
    /\ cursors' = IF reader[r].next = NoId THEN cursors ELSE LiveCursors
    /\ UNCHANGED <<buildVars, refreshes, previous, snapshots, current>>

(* The page: n entries from the cursor's index on (as many as the request  *)
(* limits it to, which may be none, or fewer when the response would grow  *)
(* too long), and a cursor if any are left; an error if not even one fits. *)
Answer(r, n) ==
    /\ reader[r].pc = "answer"
    /\ LET k == reader[r].from
           a == AnchorAsked[r]
           id == IF k.id = NoId THEN current[a] ELSE k.snapshot
           found == {s \in Kept : s.id = id}
           snapshot == CHOOSE s \in found : TRUE
           list == Matching(snapshot, reader[r].filter, reader[r].at)
           end == k.index + n
           fresh == <<r, reader[r].pages + 1>>
           old == IF Cardinality(LiveCursors) < MaxCursors THEN LiveCursors
                  ELSE LiveCursors \ {Oldest(LiveCursors)}
           v == ValidUntil(snapshot, reader[r].filter, reader[r].at)
           answered == [reader[r] EXCEPT !.pc = "ready", !.from = NoCursor, !.at = 0, !.pages = @ + 1]
           shown == [answered EXCEPT !.shown = @ \o SubSeq(list, k.index + 1, end),
                                     !.expected = IF k.id = NoId THEN list ELSE @]
       IN  \/ /\ found = {} /\ n = 0
              /\ reader' = [reader EXCEPT ![r].pc = "lost"]
              /\ cursors' = LiveCursors
           \/ /\ found # {} /\ n = 0 /\ k.index < Len(list)
              /\ reader' = [reader EXCEPT ![r] = answered]
              /\ cursors' = LiveCursors
           \/ /\ found # {} /\ n <= PageSize /\ end < Len(list)
              /\ reader' = [reader EXCEPT ![r] = [shown EXCEPT !.next = fresh]]
              /\ cursors' = old \cup {[id |-> fresh, place |-> NextPlace(old), snapshot |-> id, anchor |-> a,
                                       index |-> end, context |-> reader[r].filter,
                                       expiresAt |-> IF k.id = NoId THEN v ELSE Least({v, k.expiresAt})]}
           \/ /\ found # {} /\ n <= PageSize /\ end >= Len(list) /\ (n = 0 \/ end = Len(list))
              /\ reader' = [reader EXCEPT ![r] = [shown EXCEPT !.pc = "finished", !.next = NoId]]
              /\ cursors' = LiveCursors
    /\ snapshots' = Kept /\ UNCHANGED <<buildVars, refreshes, previous, current>>
----------------------------------------------------------------------------
Tick == now < MaxTime /\ now' = now + 1 /\ UNCHANGED <<collects, aborted, job, refreshes, previous, storeVars, reader>>
Abort(c) ==
    /\ job[c].pc \notin {"none", "settled", "done"} /\ aborted' = [aborted EXCEPT ![c] = TRUE]
    /\ Cardinality({d \in Calls : aborted[d]}) < MaxAborts
    /\ UNCHANGED <<now, collects, job, refreshes, previous, storeVars, reader>>

Refreshing(c) ==
    \/ CallRefresh(c) \/ StartBuild(c) \/ EndRefresh(c) \/ Cleanup(c)
    \/ Build(c) /\ UNCHANGED <<refreshes, previous, storeVars, reader>>
Reading(r) == Lookup(r) \/ \E n \in 0..PageSize : Answer(r, n)

Next ==
    \/ Tick
    \/ \E c \in Calls : Refreshing(c) \/ Abort(c)
    \/ \E r \in Readers : Reading(r)

Spec == Init /\ [][Next]_vars
----------------------------------------------------------------------------
(* The paths below an anchor that the listings span, without cycles,       *)
(* through entities that may be collected; what leads to an entity.        *)
Paths(a) ==
    {p \in UNION {[1..n -> Entities \cup {a}] : n \in 2..(Cardinality(Entities) + 1)} :
        /\ p[1] = a /\ \A i, k \in DOMAIN p : p[i] = p[k] => i = k
        /\ \A l \in Links(p) : l[2] \in Range(Listing[l[1]])
        /\ \A n \in 2..Len(p) : p[n] \notin Excluded /\ SubSeq(p, 1, n) \notin Refused}
Routes == {<<p[1], p[Len(p)], p>> : p \in UNION {Paths(a) : a \in Anchors}}
To(a, e) == {r[3] : r \in {q \in Routes : q[1] = a /\ q[2] = e}}

(* A path stands at a time when every authority on it, and its end, has a  *)
(* chain of its own that counts as valid.                                  *)
Stands(p, t) == \A n \in 2..Len(p) : PathExp(SubSeq(p, 1, n)) > t - Skew

(* Until when an entity may belong to the collection of an anchor: the     *)
(* expiry of one of its chains, or the collector's word.  Those that a     *)
(* refresh at time t must know of are the chains along paths that stand.   *)
Deadlines(a, e) ==
    IF ~collects THEN {PathExp(p) : p \in To(a, e)}
    ELSE IF e \in DOMAIN Inventory[a] THEN {Inventory[a][e]} ELSE {}
Standing(a, e, t) ==
    IF collects THEN Deadlines(a, e) ELSE {PathExp(p) : p \in {q \in To(a, e) : Stands(q, t)}}

(* A snapshot is never a part of a collection: whatever failed, expired or *)
(* was cut short on the way, an entity is in it for as long as the filter  *)
(* and some chain of its own allow, no shorter than along any path that    *)
(* still stood when the snapshot was dated, and with every mark from a     *)
(* listed issuer that is reachable.  An authority that is refused as a     *)
(* subject hides what is below it on its paths, even where the chains      *)
(* along them do not hold its configuration (refresh.ts, 281-287; 350:     *)
(* "Collection refresh incomplete").                                       *)
SnapshotComplete ==
    \A s \in snapshots :
        /\ \A e \in DOMAIN s.entries :
               \E d \in Deadlines(s.anchor, e) : s.entries[e].exp = Least({d, FilterUntil[e]})
        /\ \A e \in Entities : \A d \in Standing(s.anchor, e, s.lastUpdated) :
               Least({d, FilterUntil[e]}) > s.lastUpdated =>
                   e \in DOMAIN s.entries /\ s.entries[e].exp >= Least({d, FilterUntil[e]})
        /\ \A e \in DOMAIN s.entries :
               LET m == MarkOf[e]
               IN  m.type \in DOMAIN IssuersOf /\ m.iss \in IssuersOf[m.type] /\ m.exp > s.lastUpdated
                      /\ IssuerExp[m.iss] > s.lastUpdated
                   => \E v \in s.entries[e].marks : v.type = m.type

(* The search for issuers that no anchor lists may come to nothing, at its *)
(* own allowances or at the end of the refresh's budget, but it fails no   *)
(* refresh (refresh.ts, 158: "Optional proofs stop before they can abort   *)
(* the refresh-wide controller"): in the second pass only an abort does,   *)
(* or the application's filter.                                            *)
OptionalNeverFatal ==
    [][\A c \in Calls :
           job[c].pc \in {"open", "search"} /\ job'[c].pc = "failed" => aborted[c]]_vars

(* One refresh of an anchor at a time, although the map holds only the     *)
(* last one that was chained (service.ts, 113-122).                        *)
Building(c) == job[c].pc \notin {"none", "waiting", "settled", "done"}
RefreshesSerial ==
    \A c, d \in Calls : c # d /\ AnchorOf[c] = AnchorOf[d] => ~(Building(c) /\ Building(d))

(* A collection that was published once stays available, under the limit   *)
(* on snapshots and beside the refreshes of other anchors, and its date    *)
(* never goes back (store.ts, publish and prune).                          *)
SnapshotOf(a) == {s \in snapshots : s.id = current[a]}
CurrentStays ==
    [][\A a \in Anchors : current[a] # 0 =>
           /\ SnapshotOf(a)' # {}
           /\ \A s \in SnapshotOf(a), t \in SnapshotOf(a)' : s.lastUpdated <= t.lastUpdated]_vars

(* A reader who follows the cursors is shown every entry that matched its  *)
(* first request, once and in order, whatever expires, is published or is  *)
(* evicted meanwhile; or it is told that the page is gone (service.ts,     *)
(* 240-295: index and filter are evaluated at different times).            *)
PagesAgree ==
    \A r \in Readers :
        /\ IsPrefix(reader[r].shown, reader[r].expected)
        /\ reader[r].pc = "finished" => reader[r].shown = reader[r].expected
=============================================================================
