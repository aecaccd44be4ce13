------------------------ MODULE AuthorityEndpoints ------------------------
(***************************************************************************)
(* The authority's endpoints that read in several steps while the lifecycle*)
(* goes on writing: the list and the extended list of subordinates         *)
(* (packages/authority/src/endpoints/list.ts, extended-list.ts), the list  *)
(* of Trust Marked entities (trust-mark-list.ts) and Trust Mark Status     *)
(* (trust-mark-status.ts), over the storage's paged queries.               *)
(*                                                                         *)
(* Writers appear as what AuthorityStorage and FederationKeys establish of *)
(* them: each commits at once, a subject has at most one valid mark, a key *)
(* that left the published set does not come back.  Readers do not disturb *)
(* each other, so one client at a time is enough; it walks all pages, and  *)
(* one action is what a handler does up to its next await.                 *)
(***************************************************************************)
EXTENDS Integers, FiniteSets, SequencesExt

CONSTANTS
    Subjects,       \* entity identifiers, as numbers in their string order
    NoRow,          \* no record
    NoCursor,       \* no `from', no nextCursor
    Filters,        \* of the lists: "all", "marked" (valid mark), "recent"
    Limits,         \* page sizes a client asks for, clamped already
    Scenarios,      \* the endpoints a client asks, how often at most, what is
                    \* written meanwhile and how often at most, and the
                    \* deployment's storeBatchSize and maxStorePagesPerRequest
    MarkPage,       \* the limit of trust-mark-list (500 in the code)
    Since,          \* updated_after of the "recent" filter
    Ttl, Skew,      \* of Trust Marks and of the verification
    MaxKid,         \* bound: keys 1..MaxKid are switched to in this order
    MaxTime         \* bound: the last instant of the clock

ASSUME SizeAssumption ==
    /\ Subjects \subseteq Nat /\ IsFiniteSet(Subjects) /\ NoRow \notin Nat /\ NoCursor \notin Nat
    /\ Filters \subseteq {"all", "marked", "recent"}
    /\ Limits \cup {MarkPage, MaxKid} \subseteq Nat \ {0}
    /\ \A n \in {Ttl, Skew, MaxTime} : n \in Nat
    /\ \A c \in Scenarios :
          /\ c.kinds \subseteq {"list", "extended", "marked", "status"}
          /\ c.writers \subseteq {"rows", "marks", "keys"}
          /\ c.asks \in Nat /\ c.writes \in Nat
          /\ c.batch \in Nat \ {0} /\ c.pages \in Nat \ {0}

VARIABLES
    rows,        \* subject -> its updatedAt, or NoRow
    marks,       \* the Trust Mark records: JWT (sub, iat, kid) and active
    signer,      \* the signing key
    published,   \* the keys of the JWKS
    now,         \* nowSeconds()
    writes,      \* writes made
    asks,        \* requests and walks begun
    config,      \* one of Scenarios
    pc,          \* "idle", "cursor", "page", "keys", "verify", "done", "failed"
                 \* (refused: 404, or a cursor that came again), "error" (500)
    q,           \* the query and the locals of its handler
    walk,        \* what the client has been told: subjects, page by page
    \* Kept for the properties only:
    stable,      \* the subjects that matched the query all the time
    removed,     \* the subjects that were removed since the walk began
    told         \* mark -> the last status told about it

store == <<rows, marks>>
keys == <<signer, published>>
client == <<pc, q, walk>>
vars == <<store, keys, now, writes, asks, config, client, stable, removed, told>>

Jwt(m) == [sub |-> m.sub, iat |-> m.iat, kid |-> m.kid]
Exp(m) == m.iat + Ttl
Jwts == [sub : Subjects, iat : 0..MaxTime, kid : 1..MaxKid]

(* isValidTrustMark, for a subject.                                        *)
HasValidMark(ms, s, validAt) ==
    \E m \in ms : m.sub = s /\ m.active /\ Exp(m) > validAt

(* The filters of subordinates.list, and of trustMarks.listValid.          *)
Matches(rs, ms, f, validAt, s) ==
    CASE f = "all"    -> rs[s] # NoRow
      [] f = "recent" -> rs[s] # NoRow /\ rs[s] >= Since
      [] f = "marked" -> rs[s] # NoRow /\ HasValidMark(ms, s, validAt)
      [] f = "marks"  -> HasValidMark(ms, s, validAt)

(* list and listValid: what matches, in order, from the cursor on; one     *)
(* page of it and the cursor of the next, the first that was not returned. *)
Sorted(S) == CHOOSE s \in [1..Cardinality(S) -> S] : \A i, j \in DOMAIN s : i < j => s[i] < s[j]
Matching(f, validAt, cursor) ==
    Sorted({s \in Subjects : /\ Matches(rows, marks, f, validAt, s)
                             /\ cursor = NoCursor \/ s >= cursor})
Page(found, limit) ==
    IF Len(found) > limit
    THEN [items |-> SubSeq(found, 1, limit), next |-> found[limit + 1]]
    ELSE [items |-> found, next |-> NoCursor]
----------------------------------------------------------------------------
(* A client's walk begins.                                                 *)
Ask ==
    /\ pc \in {"idle", "done", "failed", "error"} /\ asks < config.asks
    /\ asks' = asks + 1
    /\ walk' = <<>> /\ removed' = {}
    /\ UNCHANGED <<store, keys, now, writes, config, told>>

StableAtFirst(f) == {s \in Subjects : Matches(rows, marks, f, now, s)}

(* createListHandler: one query without a limit.                           *)
AskList(f) ==
    /\ "list" \in config.kinds /\ Ask
    /\ pc' = "page"
    /\ q' = [kind |-> "list", filter |-> f, cursor |-> NoCursor]
    /\ stable' = StableAtFirst(f)

List ==
    /\ pc = "page" /\ q.kind = "list"
    /\ walk' = Matching(q.filter, now, NoCursor)
    /\ pc' = "done"
    /\ UNCHANGED <<store, keys, now, writes, asks, config, q, stable, removed, told>>

(* createExtendedListHandler.  The first request has no cursor; each later *)
(* one bears the `next' of the answer before it.                           *)
Request(f, limit, from) ==
    [kind |-> "extended", filter |-> f, limit |-> limit, cursor |-> from,
     validAt |-> 0, pages |-> 0, accumulated |-> <<>>]

AskExtended(f, limit) ==
    /\ "extended" \in config.kinds /\ Ask
    /\ pc' = "cursor"
    /\ q' = Request(f, limit, NoCursor)
    /\ stable' = StableAtFirst(f)

(* The record that the cursor names must still exist.                      *)
LookUpCursor ==
    /\ pc = "cursor"
    /\ pc' = IF q.cursor # NoCursor /\ rows[q.cursor] = NoRow
             THEN "failed" ELSE "page"
    /\ UNCHANGED <<store, keys, now, writes, asks, config, q, walk, stable, removed, told>>

(* Mutant: the resume cursor is the store's, past what was read but not    *)
(* returned.                                                               *)
NextAfterStore(page, taken) == page.next

(* The resume cursor of a page that is full: the first record read that is *)
(* not returned, or else the store's next cursor.                          *)
NextAfter(page, taken) ==
    IF taken < Len(page.items) THEN page.items[taken + 1] ELSE page.next

(* The answer: the records accumulated, and where to go on.                *)
Answer(items, next) ==
    /\ walk' = walk \o items
    /\ IF next = NoCursor
       THEN pc' = "done" /\ UNCHANGED q
       ELSE pc' = "cursor" /\ q' = Request(q.filter, q.limit, next)

(* One turn of the loop that fills a page from batches of the store.  The  *)
(* time of the mark filter is read once per request.                       *)
FillPage ==
    /\ pc = "page" /\ q.kind = "extended"
    /\ LET validAt == IF q.pages = 0 THEN now ELSE q.validAt
           page == Page(Matching(q.filter, validAt, q.cursor), config.batch)
           room == q.limit - Len(q.accumulated)
           taken == IF Len(page.items) < room THEN Len(page.items) ELSE room
           acc == q.accumulated \o SubSeq(page.items, 1, taken)
       IN  IF Len(acc) >= q.limit THEN Answer(acc, NextAfter(page, taken))
           ELSE IF page.next = NoCursor THEN Answer(acc, NoCursor)
           ELSE IF q.pages + 1 >= config.pages THEN Answer(acc, page.next)
           ELSE /\ q' = [q EXCEPT !.validAt = validAt, !.pages = @ + 1,
                                  !.cursor = page.next, !.accumulated = acc]
                /\ UNCHANGED <<pc, walk>>
    /\ UNCHANGED <<store, keys, now, writes, asks, config, stable, removed, told>>

(* createTrustMarkListHandler: all pages in one request, valid at the time *)
(* it began; a cursor that comes again is an error.                        *)
AskMarked ==
    /\ "marked" \in config.kinds /\ Ask
    /\ pc' = "page"
    /\ q' = [kind |-> "marked", filter |-> "marks", cursor |-> NoCursor,
             validAt |-> now, seen |-> {}]
    /\ stable' = StableAtFirst("marks")

ListMarked ==
    /\ pc = "page" /\ q.kind = "marked"
    /\ LET page == Page(Matching("marks", q.validAt, q.cursor), MarkPage)
       IN  /\ walk' = walk \o page.items
           /\ q' = [q EXCEPT !.cursor = page.next, !.seen = @ \cup {page.next}]
           /\ pc' = IF page.next = NoCursor THEN "done"
                    ELSE IF page.next \in q.seen THEN "failed" ELSE "page"
    /\ UNCHANGED <<store, keys, now, writes, asks, config, stable, removed, told>>
----------------------------------------------------------------------------
(* createTrustMarkStatusHandler for a mark that was issued (others get an  *)
(* error): the clock and the record are read first.                        *)
AskStatus(m) ==
    /\ "status" \in config.kinds /\ Ask
    /\ m \in marks
    /\ pc' = "keys"
    /\ q' = [kind |-> "status", mark |-> m, at |-> now]
    /\ stable' = {}

(* buildStatusResponse.                                                    *)
Tell(status) ==
    /\ told' = [told EXCEPT ![Jwt(q.mark)] = status]
    /\ pc' = "done"

(* Expired by the time read first, or the key set is read.                 *)
ReadKeys ==
    /\ pc = "keys"
    /\ IF Exp(q.mark) <= q.at
       THEN Tell("expired") /\ UNCHANGED q
       ELSE /\ pc' = "verify"
            /\ q' = [kind |-> "status", mark |-> q.mark, at |-> q.at, jwks |-> published]
            /\ UNCHANGED told
    /\ UNCHANGED <<store, keys, now, writes, asks, config, walk, stable, removed>>

(* Mutant: revocation is answered before the signature is looked at.       *)
VerifyMarkRevokedFirst ==
    /\ pc = "verify"
    /\ Tell(IF ~q.mark.active THEN "revoked"
            ELSE IF q.mark.kid \notin q.jwks \/ now >= Exp(q.mark) + Skew THEN "invalid"
            ELSE "active")
    /\ UNCHANGED <<store, keys, now, writes, asks, config, q, walk, stable, removed>>

(* The signature, against the keys read and at the time it is now; then    *)
(* the record as it was read.                                              *)
VerifyMark ==
    /\ pc = "verify"
    /\ Tell(IF q.mark.kid \notin q.jwks \/ now >= Exp(q.mark) + Skew THEN "invalid"
            ELSE IF ~q.mark.active THEN "revoked"
            ELSE "active")
    /\ UNCHANGED <<store, keys, now, writes, asks, config, q, walk, stable, removed>>

(* The 500 of the handlers that sign: the claims of an extended listing or *)
(* the answer about a mark cannot be signed, or there is no key set.  The  *)
(* client has learned nothing from this request.                           *)
ServerError ==
    /\ (pc = "page" /\ q.kind = "extended") \/ pc \in {"keys", "verify"}
    /\ pc' = "error"
    /\ UNCHANGED <<store, keys, now, writes, asks, config, q, walk, stable, removed, told>>
----------------------------------------------------------------------------
(* The writers.  What they did before the client's first question is in    *)
(* the initial states, and after its last answer nothing depends on them.  *)
Asking == asks > 0 /\ (asks < config.asks \/ pc \notin {"done", "failed", "error"})

Write(what, gone) ==
    /\ what \in config.writers /\ Asking /\ writes < config.writes
    /\ writes' = writes + 1
    /\ removed' = IF pc \in {"cursor", "page"} THEN removed \cup gone ELSE removed
    /\ UNCHANGED <<now, asks, config, client, told>>

(* The subjects that go on matching while a walk is under way.             *)
StillStable ==
    LET at == IF q.kind = "marked" THEN q.validAt ELSE now'
    IN  stable' = IF pc \in {"cursor", "page"}
                  THEN {s \in stable : Matches(rows', marks', q.filter, at, s)}
                  ELSE {}

SetRow(s, row, gone) ==
    /\ rows' = [rows EXCEPT ![s] = row]
    /\ UNCHANGED <<marks, keys>>
    /\ Write("rows", gone) /\ StillStable

Register(s) == rows[s] = NoRow /\ SetRow(s, now, {})
Update(s) == rows[s] # NoRow /\ SetRow(s, now, {})
RemoveRow(s) == rows[s] # NoRow /\ SetRow(s, NoRow, {s})

SetMarks(new) ==
    /\ marks' = new
    /\ UNCHANGED <<rows, keys>>
    /\ Write("marks", {}) /\ StillStable

Issue(s) ==
    LET m == [sub |-> s, iat |-> now, kid |-> signer, active |-> TRUE]
    IN  /\ ~HasValidMark(marks, s, now)
        /\ \A n \in marks : Jwt(n) # Jwt(m)
        /\ SetMarks(marks \cup {m})

RevokeMarks(s) ==
    /\ \E m \in marks : m.sub = s /\ m.active
    /\ SetMarks({IF m.sub = s THEN [m EXCEPT !.active = FALSE] ELSE m : m \in marks})

SetKeys(kid, jwks) ==
    /\ signer' = kid /\ published' = jwks
    /\ UNCHANGED store
    /\ Write("keys", {}) /\ StillStable

SwitchKey == signer < MaxKid /\ SetKeys(signer + 1, published \cup {signer + 1})
RemoveKey(k) == k \in published \ {signer} /\ SetKeys(signer, published \ {k})

Tick ==
    /\ Asking /\ now < MaxTime
    /\ now' = now + 1
    /\ UNCHANGED <<store, keys, writes, asks, config, client, removed, told>>
    /\ StillStable
----------------------------------------------------------------------------
Init ==
    /\ rows \in [Subjects -> {0, NoRow}]
    /\ marks \in {{}, {[sub |-> s, iat |-> 0, kid |-> 1, active |-> TRUE] : s \in Subjects}}
    /\ signer = 1 /\ published = {1}
    /\ now = 0 /\ writes = 0 /\ asks = 0
    /\ config \in Scenarios
    /\ pc = "idle" /\ q = [kind |-> "none"] /\ walk = <<>>
    /\ stable = {} /\ removed = {}
    /\ told = [j \in Jwts |-> "nothing"]

Writers ==
    \/ \E s \in Subjects : \/ Register(s) \/ Update(s) \/ RemoveRow(s)
                           \/ Issue(s) \/ RevokeMarks(s)
    \/ SwitchKey
    \/ \E k \in 1..MaxKid : RemoveKey(k)

Next ==
    \/ \E f \in Filters : AskList(f)
    \/ \E f \in Filters, n \in Limits : AskExtended(f, n)
    \/ AskMarked
    \/ \E m \in marks : AskStatus(m)
    \/ List \/ LookUpCursor \/ FillPage \/ ListMarked \/ ReadKeys \/ VerifyMark \/ ServerError
    \/ Writers \/ Tick

Spec == Init /\ [][Next]_vars
----------------------------------------------------------------------------
(* A walk through the pages, while records come and go between and within  *)
(* its requests, tells each subject that matched all the time, in order    *)
(* and once (docs/guide/storage-guide.md, lines 49 and 76), whatever the   *)
(* sizes of pages and batches.  It is refused only because the record that *)
(* its cursor names was removed meanwhile; the list of Trust Marked        *)
(* entities never is.  (A walk that a 500 broke off has told no untruth,   *)
(* but is not complete.)                                                   *)
PagesExhaustive ==
    /\ pc = "done" => stable \subseteq ToSet(walk)
    /\ \A i, j \in DOMAIN walk : i < j => walk[i] < walk[j]
    /\ pc = "failed" => q.kind = "extended" /\ q.cursor \in removed

Rank == [nothing |-> 0, active |-> 1, revoked |-> 2, invalid |-> 3, expired |-> 4]

(* What a client is told of a Trust Mark only ever gets worse: no request  *)
(* that begins after a revocation, an expiry or the removal of its key was *)
(* told makes it look better again, although record, key set and clock are *)
(* read at different points of the handler.                                *)
StatusForward ==
    [][\A j \in Jwts : Rank[told[j]] <= Rank[told'[j]]]_vars
============================================================================
