-------------------------- MODULE CollectionRefresh --------------------------
(***************************************************************************)
(* The refresh of an entity collection (core/src/entity-collection):       *)
(* buildCollectionSnapshot (refresh.ts) and the evidence it gathers        *)
(* (evidence.ts): a walk along every listed path below an anchor, or the   *)
(* application's own inventory, then the marks of the entries in two       *)
(* passes and the application's filter.                                    *)
(*                                                                         *)
(* The fetches of one step are one action, but for those of the search for *)
(* an open issuer, which are counted one by one.  An entity publishes at   *)
(* most one trust mark, an anchor is nobody's subordinate, and the         *)
(* federation itself does not change.                                      *)
(***************************************************************************)
EXTENDS Integers, FiniteSets, SequencesExt

CONSTANTS
    Calls,          \* refresh calls
    AnchorOf,       \* the anchor each call refreshes
    Entities,       \* subordinates: numbers, ordered as their identifiers
    Listing,        \* what an authority lists, each once and in order; <<>> without an endpoint
    RootExp,        \* anchor -> expiry of its configuration
    ConfigExp,      \* entity -> expiry of its Entity Configuration
    StatementExp,   \* <<authority, subordinate>> -> expiry of the Subordinate Statement
    Refused,        \* paths whose chains are refused whatever the time
    Excluded,       \* entities whose informational metadata is not accepted
    MarkOf,         \* the mark an entity publishes: [type, iss, exp]; type "none"
    IssuersOf,      \* trust_mark_issuers of the anchors: type -> issuers, {} for anyone
    IssuerExp,      \* what resolveTrustChains finds for an issuer, 0 for nothing
    IssuerCost,     \* and the fetches it takes for a listed issuer
    FilterUntil,    \* the filter's deadline for an entity, 0 for "exclude"
    Inventory,      \* the collector's candidates for an anchor: anchor -> entity -> deadline
    Collects,       \* whether a collector is configured: a set of BOOLEANs
    MaxFetches,     \* maxTotalFetches
    OpenPerIssuer,  \* MAX_OPEN_ISSUER_FETCHES
    OpenTotal,      \* MAX_OPEN_ISSUER_TOTAL_FETCHES
    MaxEntities,    \* maxEntities
    MaxDepth,       \* maxChainDepth
    Skew,           \* clockSkewSeconds
    MaxTime         \* bound: the last instant of the clock

Anchors == {AnchorOf[c] : c \in Calls}

Nodes == Anchors \cup Entities

(* The calls for an anchor are numbered in the order in which they are     *)
(* made; a listing names entities, times and costs are numbers.            *)
ASSUME CollectionAssumption ==
    /\ Calls \subseteq Nat \ {0}
    /\ Entities \subseteq Nat /\ IsFiniteSet(Entities) /\ Anchors \cap Entities = {}
    /\ \A n \in {MaxFetches, OpenPerIssuer, OpenTotal, MaxEntities, MaxDepth, Skew, MaxTime} : n \in Nat
    /\ \A a \in Anchors : RootExp[a] \in Nat
    /\ \A e \in Entities : ConfigExp[e] \in Nat /\ \A i \in Nodes : StatementExp[<<i, e>>] \in Nat
    /\ \A i \in Nodes : Listing[i] \in Seq(Entities)
    /\ \A a \in Anchors : /\ DOMAIN Inventory[a] \subseteq Entities
                          /\ \A e \in DOMAIN Inventory[a] : Inventory[a][e] \in Nat
    /\ \A e \in Entities : FilterUntil[e] \in Nat /\ MarkOf[e].exp \in Nat
    /\ \A e \in Entities : MarkOf[e].type \in DOMAIN IssuersOf =>
           IssuerCost[MarkOf[e].iss] \in Nat /\ IssuerExp[MarkOf[e].iss] \in Nat

VARIABLES
    now,        \* the clock
    collects,   \* config.collector is set
    aborted,    \* call -> its signal or the service's
    job         \* call -> progress of its buildCollectionSnapshot
buildVars == <<now, collects, aborted, job>>

(* known: memoised fetches; queue, node and todo: the walk; order: the     *)
(* keys of entries as inserted; left: those a pass has still to visit, the *)
(* first pass rebuilding order from those that stay; tried: issuers        *)
(* resolveTrustChains ran for; proofs: issuer -> expiry; spent and open:   *)
(* fetches for one open issuer and for all; date: lastUpdated.             *)
Fresh == [pc |-> "none", known |-> {}, fetches |-> 0, spent |-> 0, open |-> 0, queue |-> <<>>, node |-> <<>>,
          todo |-> <<>>, examined |-> 0, order |-> <<>>, left |-> <<>>, entries |-> <<>>, tried |-> {},
          proofs |-> <<>>, date |-> 0]
Failed == [Fresh EXCEPT !.pc = "failed"]

Live(exp) == exp > now - Skew
Set(f, k, v) == [i \in DOMAIN f \cup {k} |-> IF i = k THEN v ELSE f[i]]
Without(f, k) == [i \in DOMAIN f \ {k} |-> f[i]]
Largest(a, b) == IF a > b THEN a ELSE b
Least(S) == CHOOSE n \in S : \A k \in S : n <= k
Sorted(S) == CHOOSE s \in [1..Cardinality(S) -> S] : \A i, k \in DOMAIN s : i < k => s[i] < s[k]

(* The chain along a path from the anchor: the configuration of its last   *)
(* entity, the Subordinate Statements and the anchor's configuration.  The *)
(* configurations of the authorities in between are not in it.             *)
Links(path) == {<<path[i], path[i + 1]>> : i \in 1..(Len(path) - 1)}
PathExp(path) ==
    Least({RootExp[path[1]], ConfigExp[path[Len(path)]]} \cup {StatementExp[l] : l \in Links(path)})
PathValid(path) == path \notin Refused /\ Live(PathExp(path))
----------------------------------------------------------------------------
(* The shared http client: what is memoised costs nothing, an aborted      *)
(* refresh fetches nothing, and the first fetch beyond the budget aborts   *)
(* the refresh.                                                            *)
Fetches(c, keys, extra, ok) ==
    LET cost == Cardinality(keys \ job[c].known) + extra
    IN  cost = 0 \/ (ok /\ ~aborted[c] /\ job[c].fetches + cost <= MaxFetches)
Charged(c, keys, extra) ==
    [job[c] EXCEPT !.known = @ \cup keys,
                   !.fetches = @ + Cardinality(keys \ job[c].known) + extra]

Becomes(c, j) == job' = [job EXCEPT ![c] = j] /\ UNCHANGED <<now, collects, aborted>>

(* The application's collector answers, or fails.                          *)
Collect(c, ok) ==
    /\ job[c].pc = "start" /\ collects
    /\ LET supplied == Inventory[AnchorOf[c]]
       IN  Becomes(c, IF ok /\ ~aborted[c] /\ Cardinality(DOMAIN supplied) <= MaxEntities
                      THEN [job[c] EXCEPT !.pc = "listed", !.left = Sorted(DOMAIN supplied),
                                !.entries = [e \in DOMAIN supplied |-> [exp |-> supplied[e], marks |-> {}]]]
                      ELSE Failed)

(* evidence.root() at the start of the walk.                               *)
FetchRoot(c, ok) ==
    /\ job[c].pc = "start" /\ ~collects
    /\ LET a == AnchorOf[c] keys == {<<"configuration", a>>}
       IN  Becomes(c, IF Fetches(c, keys, 0, ok) /\ Live(RootExp[a])
                      THEN [Charged(c, keys, 0) EXCEPT !.pc = "walk", !.queue = <<<<a>>>>,
                                                       !.proofs = Set(@, a, RootExp[a])]
                      ELSE Failed)

(* The head of the queue: its listing, or the end of the walk.             *)
VisitNode(c, ok) ==
    /\ job[c].pc = "walk" /\ job[c].todo = <<>>
    /\ IF job[c].queue = <<>>
       THEN Becomes(c, [job[c] EXCEPT !.pc = "listed", !.left = job[c].order, !.order = <<>>])
       ELSE LET id == Head(job[c].queue)[Len(Head(job[c].queue))]
                keys == {<<"listing", id>>}
            IN  IF aborted[c] THEN Becomes(c, Failed)
                ELSE IF Listing[id] = <<>>
                THEN Becomes(c, [job[c] EXCEPT !.queue = Tail(@)])
                ELSE Becomes(c, IF Fetches(c, keys, 0, ok)
                                THEN [Charged(c, keys, 0) EXCEPT !.node = Head(job[c].queue),
                                                                 !.queue = Tail(@), !.todo = Listing[id]]
                                ELSE Failed)

(* Mutant: an entity that was reached before is not examined again.        *)
ExamineChildOnce(c, ok) ==
    /\ job[c].pc = "walk" /\ job[c].todo # <<>>
    /\ LET path == job[c].node id == Head(job[c].todo)
           keys == {<<"configuration", id>>, <<"statement", path[Len(path)], id>>}
           below == Append(path, id)
           rest == [Charged(c, keys, 0) EXCEPT !.todo = Tail(@), !.examined = @ + 1]
       IN  IF id \in DOMAIN job[c].entries THEN Becomes(c, [job[c] EXCEPT !.todo = Tail(@)])
           ELSE IF \/ job[c].examined >= MaxEntities \/ Len(path) > MaxDepth
                   \/ ~Fetches(c, keys, 0, ok)
           THEN Becomes(c, Failed)
           ELSE IF ~PathValid(below) \/ id \in Excluded THEN Becomes(c, rest)
           ELSE Becomes(c,
               [rest EXCEPT
                   !.queue = Append(@, below),
                   !.order = IF id \in DOMAIN job[c].entries THEN @ ELSE Append(@, id),
                   !.entries = Set(@, id, [exp |-> PathExp(below), marks |-> {}]),
                   !.proofs = Set(@, id, PathExp(below))])

(* One listed subordinate: both statements, the path to it, its entry and  *)
(* a place in the queue.  An entity whose path is invalid, or that is      *)
(* excluded, is skipped with what is below it on this path; a failed       *)
(* fetch, a path that is too deep or one entity too many ends the refresh. *)
ExamineChild(c, ok) ==
    /\ job[c].pc = "walk" /\ job[c].todo # <<>>
    /\ LET path == job[c].node id == Head(job[c].todo)
           keys == {<<"configuration", id>>, <<"statement", path[Len(path)], id>>}
           below == Append(path, id)
           rest == [Charged(c, keys, 0) EXCEPT !.todo = Tail(@), !.examined = @ + 1]
           best(f) == IF id \in DOMAIN f THEN f[id] ELSE 0
           proofs == Set(rest.proofs, id, Largest(best(rest.proofs), PathExp(below)))
       IN  IF \E i \in DOMAIN path : path[i] = id
           THEN Becomes(c, [job[c] EXCEPT !.todo = Tail(@)])
           ELSE IF \/ job[c].examined >= MaxEntities \/ Len(path) > MaxDepth
                   \/ ~Fetches(c, keys, 0, ok)
           THEN Becomes(c, Failed)
           ELSE IF ~PathValid(below) THEN Becomes(c, rest)
           ELSE IF id \in Excluded THEN Becomes(c, [rest EXCEPT !.proofs = proofs])
           ELSE Becomes(c,
               [rest EXCEPT
                   !.queue = Append(@, below),
                   !.order = IF id \in DOMAIN job[c].entries THEN @ ELSE Append(@, id),
                   !.entries = Set(@, id, [exp |-> Largest(PathExp(below),
                                               IF id \in DOMAIN @ THEN @[id].exp ELSE 0), marks |-> {}]),
                   !.proofs = proofs])

----------------------------------------------------------------------------
(* verifyMarks for the head of "left": the fetches it cannot do without.   *)
Applies(m, open) ==
    /\ m.type \in DOMAIN IssuersOf
    /\ open = (IssuersOf[m.type] = {})
    /\ open \/ m.iss \in IssuersOf[m.type]
Needed(c, e) ==
    IF MarkOf[e].type = "none" THEN {}
    ELSE {<<"configuration", AnchorOf[c]>>} \cup (IF collects THEN {<<"configuration", e>>} ELSE {})

(* The mark as evidence: it counts no longer than the entry, the anchor's  *)
(* configuration, the issuer's chain and the mark itself (with its         *)
(* publication and its delegation).                                        *)
Verified(c, e, proofs) ==
    LET m == MarkOf[e]
    IN  IF m.iss \in DOMAIN proofs /\ Live(m.exp)
        THEN {[type |-> m.type, exp |-> Least({job[c].entries[e].exp, RootExp[AnchorOf[c]],
                                             proofs[m.iss], m.exp})]}
        ELSE {}

(* What resolveTrustChains finds out about an issuer.                      *)
Resolved(proofs, i) == IF Live(IssuerExp[i]) /\ IssuerExp[i] # 0 THEN Set(proofs, i, IssuerExp[i]) ELSE proofs

(* evidence.root(), memoised: a collector's refresh gets there only now.   *)
Rooted(c) == AnchorOf[c] \in DOMAIN job[c].proofs
WithRoot(c, e) ==
    IF Needed(c, e) = {} \/ Rooted(c) THEN job[c].proofs
    ELSE Set(job[c].proofs, AnchorOf[c], RootExp[AnchorOf[c]])

(* First pass: entries that have expired leave, and marks whose issuers    *)
(* are listed are verified or the refresh fails.                           *)
VerifyListed(c, ok) ==
    /\ job[c].pc = "listed"
    /\ IF job[c].left = <<>>
       THEN Becomes(c, [job[c] EXCEPT !.pc = "open", !.left = job[c].order])
       ELSE LET e == Head(job[c].left)
                m == MarkOf[e]
                known == WithRoot(c, e)
                resolves == Applies(m, FALSE) /\ m.iss \notin DOMAIN known \cup job[c].tried
                extra == IF resolves THEN IssuerCost[m.iss] ELSE 0
                proofs == IF resolves THEN Resolved(known, m.iss) ELSE known
            IN  IF job[c].entries[e].exp <= now
                THEN Becomes(c, [job[c] EXCEPT !.left = Tail(@), !.entries = Without(@, e)])
                ELSE IF \/ ~Fetches(c, Needed(c, e), extra, ok)
                        \/ Needed(c, e) # {} /\ ~Rooted(c) /\ ~Live(RootExp[AnchorOf[c]])
                THEN Becomes(c, Failed)
                ELSE Becomes(c,
                    [Charged(c, Needed(c, e), extra) EXCEPT
                        !.left = Tail(@), !.order = Append(@, e), !.proofs = proofs,
                        !.tried = IF resolves THEN @ \cup {m.iss} ELSE @,
                        !.entries = Set(@, e, [@[e] EXCEPT !.marks =
                            IF Applies(m, FALSE) THEN Verified(c, e, proofs) ELSE {}])])
----------------------------------------------------------------------------
(* Second pass: the marks that anyone may issue, then the filter and the   *)
(* expiry, entry by entry.                                                 *)
Marking(c, proofs) ==
    LET e == Head(job[c].left)
        entry == job[c].entries[e]
        marked == [entry EXCEPT !.marks = @ \cup Verified(c, e, proofs)]
    IN  [job[c] EXCEPT !.pc = "filter", !.proofs = proofs, !.entries = Set(@, e, marked)]

(* issuerProof with a mark of an open type: from what is known, or a       *)
(* search for its issuer, with an http client of its own.                  *)
VerifyOpen(c) ==
    /\ job[c].pc = "open" /\ job[c].left # <<>>
    /\ LET m == MarkOf[Head(job[c].left)]
       IN  Becomes(c,
               IF ~Applies(m, TRUE) THEN [job[c] EXCEPT !.pc = "filter"]
               ELSE IF aborted[c] THEN Failed
               ELSE IF m.iss \in DOMAIN job[c].proofs \cup job[c].tried THEN Marking(c, job[c].proofs)
               ELSE [job[c] EXCEPT !.pc = "search", !.spent = 0, !.tried = @ \cup {m.iss}])

(* Mutant: the client does not look at what is left for the refresh.       *)
AllowanceWithoutBudget(c) == job[c].spent >= OpenPerIssuer \/ job[c].open >= OpenTotal

(* The allowances of the client for open issuers.                          *)
AllowanceSpent(c) ==
    \/ job[c].spent >= OpenPerIssuer \/ job[c].open >= OpenTotal
    \/ job[c].fetches >= MaxFetches

(* One fetch of the search through createHttpClient(true).  A fetch that   *)
(* fails or is not allowed leaves the search incomplete; one beyond        *)
(* maxTotalFetches would abort the refresh.                                *)
SearchFetch(c, ok) ==
    /\ job[c].pc = "search"
    /\ Becomes(c,
           IF aborted[c] THEN Failed
           ELSE IF AllowanceSpent(c) THEN Marking(c, job[c].proofs)
           ELSE IF job[c].fetches + 1 > MaxFetches THEN Failed
           ELSE LET counted == [job[c] EXCEPT !.spent = @ + 1, !.open = @ + 1, !.fetches = @ + 1]
                IN  IF ok THEN counted ELSE [counted EXCEPT !.pc = "filter"])

(* The search has run to its end, after as many fetches as it needed.      *)
SearchDone(c) ==
    /\ job[c].pc = "search"
    /\ Becomes(c, IF aborted[c] THEN Failed
                  ELSE Marking(c, Resolved(job[c].proofs, MarkOf[Head(job[c].left)].iss)))

(* The application's filter keeps the entry until a time, excludes it, or  *)
(* fails (and with an invalid decision just as well).                      *)
Filter(c, ok) ==
    /\ job[c].pc = "filter"
    /\ LET e == Head(job[c].left)
           exp == Least({job[c].entries[e].exp, FilterUntil[e]})
           marks == {[t EXCEPT !.exp = Least({@, exp})] : t \in job[c].entries[e].marks}
       IN  Becomes(c,
               IF aborted[c] \/ ~ok THEN Failed
               ELSE [job[c] EXCEPT
                        !.pc = "open", !.left = Tail(@),
                        !.entries = IF exp <= now THEN Without(@, e)
                                    ELSE Set(@, e, [exp |-> exp, marks |-> marks])])

(* The end of the second pass: the snapshot and its date, or "Collection   *)
(* refresh incomplete".                                                    *)
EndBuild(c) ==
    /\ job[c].pc = "open" /\ job[c].left = <<>>
    /\ Becomes(c, IF aborted[c] THEN Failed
                  ELSE [Fresh EXCEPT !.pc = "built", !.entries = job[c].entries, !.date = now])

Build(c) ==
    \/ \E ok \in BOOLEAN :
           \/ Collect(c, ok) \/ FetchRoot(c, ok) \/ VisitNode(c, ok) \/ ExamineChild(c, ok)
           \/ VerifyListed(c, ok) \/ SearchFetch(c, ok) \/ Filter(c, ok)
    \/ VerifyOpen(c) \/ SearchDone(c) \/ EndBuild(c)
=============================================================================
