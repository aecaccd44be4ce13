# oidfed: TLA+ models, checks and proofs

This directory models the parts of the oidfed monorepo (OpenID Federation in
TypeScript: `packages/core`, `authority`, `leaf`, `oidc`, `wallet`) whose
correctness depends on time, on concurrency, on the order of events or on the
interplay of several parties' data. `PROJECT.json` lists the components, runs,
mutants, the map from definitions to source lines, hazards, findings and
theorems.

Two conventions hold throughout. JavaScript runs a continuation up to its next
`await` without interruption, so an action is one such segment. A definition
preceded by `(* Mutant: ... *)` is never used by a specification: it is a
plausible bug in the operation it stands before, and the property paired with
it in `PROJECT.json` fails when it takes that operation's place.

## Inventory

| Component | State | Operations | Hard behaviours | Status |
|---|---|---|---|---|
| Federation keys (`core/src/federation-keys.ts`) | map kid -> entry, activation counter | publish, switch, revoke, read key set, read history | signatures in flight while the signer changes, equal clock readings, lockout | modelled, proved |
| Trust chain resolution (`core/src/trust-chain/resolve.ts`) | branches, limiter slots and queue, budget, result | recursive walk over `authority_hints`, limiter, abort | concurrent branches, slot transfer, abort at any await, four limits, loops | modelled, proved |
| Discovery, refresh (`trust-chain/discovery.ts`, `refresh.ts`), the resolve endpoint's choice | candidates | validate candidates, choose | order of arrival | modelled, proved |
| Chain validation (`trust-chain/validate.ts`), constraints, trust mark verification (`trust-marks/index.ts`) | errors collected per stage, preparations | validate, validate structure or publication only, prepare, complete | awaits between signatures, several clock readings, policy inputs put off | modelled, proved |
| Metadata policy (`core/src/metadata-policy`) | merged policy | merge, apply | operators of several superiors, combinations, order | modelled, proved |
| Authority storage (`authority/src/storage/memory.ts`), lifecycle (`subordinate-lifecycle.ts`), events (`endpoints/subordinate-events.ts`) | subordinates, event histories, trust marks, promise chain | register, update, revoke, record, read history, transactions | copy-and-commit transactions, mutex, callbacks that throw | modelled, proved |
| Trust mark issuance (`endpoints/trust-mark.ts`) | trust mark records | issue, revoke | check, sign, check again; revocation in between | modelled, proved |
| Listing endpoints (`authority/src/endpoints`) | none of their own | list, extended list, Trust Marked list, Trust Mark Status | pages and status while records, marks and keys change | partly (fetch, and the resolve endpoint beyond its choice, are not), proved |
| Replay protection (`core/src/memory-replay-store.ts`, `jose/client-auth.ts`) | claimed jti with expiry | claim, purge | concurrent presentations, skew boundaries, capacity | modelled, proved |
| Leaf configuration (`leaf/src/entity-configuration.ts`) | cached JWT, build in flight, generation | get, refresh | builds that end after the refresh that supersedes them | modelled, proved |
| Entity collection (`core/src/entity-collection`) | snapshots, cursors, chained refreshes, a build's walk and budgets | refresh, publish, query, page | serial refreshes, eviction under readers, index drift, mandatory and optional budgets | modelled, proved |
| Registration (`oidc/src/registration`) | both parties' progress, the host's record, the replay store | explicit and automatic, RP and OP side | several anchors, late or lost answers, key rollover, clocks apart, hooks that throw | modelled, proved; adapters are a verdict |
| Wallet (`packages/wallet/src`) | preparations | prepare and complete a request, authenticate a wallet | two validations with hooks between | partly, proved: creating requests and evaluating issuers and presentations are not |
| Cache, fetch (`core/src/cache`, `trust-chain/fetch.ts`) | LRU with TTL | get, set, fetch | TTL against statement expiry | partly (environment of the resolution) |
| Authority server, JOSE, JWKS, schemas, statement builders | none | route, parse, sign, verify | - | not modelled, see below |
| `tools/cli`, `apps`, `internal/ui`, `scripts`, docs | - | - | - | not modelled, see below |

How they interact: discovery, refresh, registration and the wallet call the
resolution, which fetches through the cache, and validate what it finds;
validation merges and applies the policies. The authority's endpoints run
transactions on the storage adapter and read key sets from the key provider
before they sign; the leaf reads the same kind of provider. Authenticated
endpoints, the collection, the wallet and automatic registration claim
identifiers in a shared replay store.

| Module | Builds on | Checked by |
|---|---|---|
| `FederationKeys` | - | `federation_keys` |
| `TrustChainResolve`, `TrustChainSelect` | the second extends the first | `resolve`, `refresh` |
| `PolicyOperators`, `MetadataPolicy` | the second extends the first | `metadata_policy` |
| `TrustChainValidate`, `WalletRequest` | `PolicyOperators` | `wallet_requests` |
| `AuthorityStorage` | implements `SubordinateRegistry` | `lifecycle`, `trust_marks` |
| `AuthorityEndpoints` | what `AuthorityStorage` and `FederationKeys` establish | `endpoints` |
| `ReplayProtection`, `Registration` | the second composes the first | `registration`, `request_objects` |
| `LeafConfiguration` | - | `leaf_configuration` |
| `CollectionRefresh`, `EntityCollection` | the second composes the first | `collection` |

## Modules

### FederationKeys (proofs: FederationKeysProofs)

`keys` is the Map (state `"absent"` for a kid it does not hold),
`activationOrder` the counter, `now` the clock in milliseconds. `lastSigner`
records when a key set last named a key as signer; only properties read it.
One action per method; each method of the class is one synchronous segment.
`SwitchActiveKey(k, previous, d)` needs a current signer because
`currentKeySet()` throws without one before anything changes. `Historical` is
what `getHistoricalFederationKeys` answers, floored to seconds.

Run `federation_keys`: four keys, two of them initial, overlaps of one and two
ticks, a second of two milliseconds, three instants. That suffices for
successive switches, a fallback to the second initial key after a revocation,
equal clock readings, revocation during an overlap, flooring, and lockout. The
keys are symmetric. `NoSignerAfterLockout` documents a consequence of the code
that operators should know: once the last active key is revoked, the provider
can never sign again, so a switch has to come before the revocation.

### TrustChainResolve (proofs: TrustChainResolveProofs)

A branch of the walk is named by the positions of the hints that lead to it.
`pc` says where it is (`queued`, `granted`, `fetching`, `got`, `joining`, ...),
`path` is the chain of entities so far (the `visited` set), `active`, `queue`,
`listening` are the limiter, `remaining` the fetch budget. The loop that
starts one branch per hint runs without an await: it is taken hint by hint and
`cursor` excludes everything else meanwhile. `FetchEnds` is the environment:
an answer, an error, an exception, or a Subordinate Statement that does not
decode, which the code only notices when the chain is complete. `Abort` may
happen between any two segments. Statements are reduced to the entities they
are about; the fields the walk does not look at are left out.

### TrustChainSelect (extends TrustChainResolve)

The callers: `discoverEntity`, `refreshTrustChain` and the resolve endpoint.
Whether a candidate validates is left open. The walk does not depend on its
caller, so `op` is chosen when it returns.

Run `resolve`: nine scenarios over four entities (two chains of different
lengths with a loop between intermediates, a dead end, a leaf that names
itself, an orphan, an anchor) with ample and scarce budgets, depths 0 to 3, a
filter, two slots for up to four concurrent branches, so that queueing, slot
transfer and every limit happen; then each of the three callers. Completeness
is checked against `ReferenceChains`, the chains of the graph defined without
any walk, and discovery returns the shortest of them whatever order the walk
found them in.

Fairness: `WF_allVars(Resolving)`. The event loop runs every continuation that
is ready, and `performFetch` bounds each fetch by `httpTimeoutMs`; `Abort` is
not fair, the caller need never abort. `Termination` is checked under it.

Run `refresh` expects a violation: the comment in `refresh.ts` (line 38) says
the shortest chain is validated, the loop returns the first valid one in order
of arrival.

### PolicyOperators and MetadataPolicy (proofs: WalletRequestProofs)

A JSON value is a kind, its elements and, for an array, its spelling, because
`deepEqual` tells orders apart that the set operations do not. Each method of
the seven operators is a case of an operator: `MergedValue` (merge),
`Combines` (`canCombineWith`), `Modified` and `Checked` (apply). `Applied` runs
them in their order and turns a `scope` that the subject publishes as a string
into an array and back; a string that an operator supplies stays one while the
others look at it, as in the code.
`MetadataPolicy` merges statement after statement and applies the result to
what a subject publishes.

`Obeys` is the reference: what one operator of one statement demands of the
final value, whoever else had a say. Run `metadata_policy`: all pairs of
statements with up to two operators each over two strings and an object,
unknown and federation-defined operators, critical operators, and twelve
inputs including null, Booleans, mixed arrays and scopes of no and of several
words, for a scope and for any other parameter. Combination is
checked pair by pair, so two statements meet every pair of operators, set by
one superior or by two; the merge over a chain runs again in `wallet_requests`.
`OrderIrrelevant` is about the seven standard operators: how a federation-defined
one merges is the federation's affair. So is what it does to a value: here it
lets every value pass and combines with all but `value`. One that only checks
refuses more than that; one that modifies is outside the model, and
`ApplyIdempotent` is about policies of standard operators.

`ApplyIdempotent` has one exception, found in the code: a policy that gives a
scope a `default` under `one_of`. The string that `default` supplies passes
`one_of`, but the same string in the subject's own metadata becomes an array
before the operators run (`apply.ts`, 56), and `one_of` refuses arrays
(`operators.ts`, 340). Nothing in the repository applies a policy to resolved
metadata: the completion of a preparation validates the saved chain, from the
published values. The property says that what passes is what all
operators are content with.

### TrustChainValidate and WalletRequest (proofs: WalletRequestProofs)

`pc` is the stage of `validateTrustChainImpl`; each signature is an action, so
the clock and an abort can come between any two. `errors` is whether the stage
has collected an error; a stage returns at its end if it has. `started` is the
time read once at the beginning, against which `iat` and `exp` are held, while
each signature compares `exp` with the time of its own. A statement is a record
of what the checks tell apart: issuer, subject, the key that really signed it,
the keys it publishes, times, hints, policy, metadata, constraints, marks.
`wellFormed` stands for the checks that one statement passes or fails by
itself. `ResolveMetadata` is everything between the last signature and the
first mark, which runs without an await. `VerifyMark` takes a mark's signature and
that of its delegation in one step, although the code awaits twice. `prepared` is what
`prepareTrustChainValidation` returned; `Complete` validates its chain again
with contextual values.

`WalletRequest` drives the staged validation: candidates tried in order, the
Request Object's checks, the completion with the query of `client_metadata`
when a policy waits for it, the choice of the query to answer, the
application's hooks, and expiry and abort once more at the end.

Run `wallet_requests`: every chain of families that vary one concern each over
a leaf, an intermediate, an anchor and a mark issuer: forged statements in all
positions with keys of the impostor's choice, statements that run out during
the call, every pair of operators on the wallet's query parameter, constraints,
and marks with every combination of issuer, key, owner and delegation; all four
entry points; five instants with a skew of one. `KeyOf` says which key an
entity really holds: only properties read it. `TruthAssumption` is what the
code cannot check: configured keys are the right ones, and whoever signs a
statement tells the truth about the keys of its subject and of the owners of
marks. A policy brings an entity type back that `allowed_entity_types` removed
(`metadata-policy/apply.ts`, 43); `QueriesJustified` is checked with chains
that do this to the wallet's query parameter.

### AuthorityStorage (implements SubordinateRegistry; proofs: AuthorityStorageProofs)

`runExclusive` chains promises: `tail` counts the promises made, `released`
those resolved, a call waits until the promise before its own `ticket` is
resolved. `draft` is a transaction's detached copy, `state` the committed one.
A transaction is one action per segment of its callback (`Register` then
`AppendEvents` then `Commit`, and so on); a callback that throws takes `Fail`,
which drops the draft and releases. `OwnTransaction` is an application's
transaction that changes its draft and throws. Trust Mark revocation on the
adapter itself writes the committed state under the same mutex, and so does
`WriteRow`: the application may add, update and remove rows through
`storage.subordinates` itself (docs/packages/authority.md, 257 and 292), with
times of its own choice and without events. `Untracked` are the subjects for
which it does. A row of theirs can be registered with an empty history, which
the authority then signs (line 300 of that page); of all others
`HistoryAnswered` shows that a reader never sees the row without its event, and
`TimesConsistent` relates the row's times to its history. One clock stands for
the handlers' and the adapter's, which are two options of the application.
`IssueTrustMark` looks, signs, and looks again in a transaction with the time
it read at the start; `Nonces` tells apart signatures with randomness.

`SubordinateRegistry` is the promise: a lifecycle operation is one atomic step
that changes one record and appends exactly the events that explain it; a row
the application writes itself changes and its history does not.
`RegistrySpec` is its specification under the refinement mapping that reads
the committed state.

Run `lifecycle`: three callers, four calls, two instants, two subjects. One has
its whole lifecycle, with an update of one claim and one of several, a
repeated update that changes nothing, explicit events and failing transactions
of the application; the other is registered, and its row added (with a time
that may lie ahead), changed and removed by the application. Three callers are one inside,
one that waits and one that arrives; subjects share only the mutex. Run
`trust_marks`: three callers, five calls, three instants with a lifetime of
one, two nonces, valid and invalid records, under symmetry. Fairness is `WF_vars(Step(c))` for each
caller: the event loop runs continuations, and the signer answers or fails.
`Quiescent` is the end of the bounded number of calls.

### AuthorityEndpoints (proofs: AuthorityEndpointsProofs)

One client walks through the pages of the list, the extended list or the Trust
Marked list, or asks twice for the status of a mark, while records are
registered, updated and removed, marks issued and revoked, and keys switched
and removed. The writers are what the other modules establish of them: each
commits at once, a subject has at most one valid mark, a key that left the
published set does not return. `FillPage` is one turn of the extended list's
loop over batches of the store, with its two resume cursors. `ServerError` is
the 500 of the handlers that sign: it ends a walk or a question without telling
anything. `PagesExhaustive` says when a walk that ended otherwise is complete
and why it may be refused. `stable` keeps the subjects that matched all the
time; only properties read it.

Run `endpoints`: three subjects, pages, batches and store pages of one and two,
so that a page ends within and at the end of a batch and by the limit on store
pages; two writes during a walk, three between two questions about a mark, two
keys, four instants. A reader does not disturb another one. The walk simply
ends, so deadlock is not checked.

### ReplayProtection (proofs: RegistrationProofs)

Requests check the time of their JWT, verify, and claim its tuple last: client
assertions, proofs of wallet attestations and Request Objects. `Claim(r, at)`
has two clock readings, the check's and the store's, which may straddle a
second. The store drops records at `expiresAt` and refuses a claim when it is
full. `Withdraw` is the wallet's look at the clock after the claim.
`AssertionOnce` counts claims that the store accepts before the window closes;
a claim whose second reading falls at the very end of the window is outside of
the promise and of the property. The clock does not go back. Run
`registration` checks it with four requests over three messages and a capacity
of two for the tuples.

Run `request_objects` expects a violation: `process-automatic.ts` (line 153)
records a Request Object until `exp` while it is accepted until `exp` plus the
skew, against docs/guide/storage-guide.md, line 95.

### Registration (composes ReplayProtection; proofs: RegistrationProofs)

`call` is the RP's side of a registration call, `post` the OP's handling of the
request it sent (or that another implementation sent), `object` the Request
Objects in circulation, `record` what the host's hooks keep, `holder` the call
whose registration the RP accepted last. Chains are records of what the
parties may disagree on: anchor, length, expiry, immediate superior, offered
registration types. `Resolved` is any selection of the valid chains in any
order, as a concurrent resolution with failing fetches leaves it. The OP's
handler is one action per await: `OpCheck` (chain), `OpPeer` (peer chain),
`OpPrepare` (adapter and signature), `OpInvalidate` and `OpRegister` (hooks,
either of which may throw). `drift` sets the two clocks apart, `RollKey` rolls
the OP's key over, `LoseResponse` loses the answer. The RP's comparison of the
registered metadata with its own (`explicit.ts`, 374-483) is left out, since the
OP's adapter in the library answers with what it was asked for, and so is the
refusal of an `iat` in the future (`process-explicit.ts`, 105).

Run `registration`: the RP has chains to three anchors, the OP to two, two are
shared; workloads of two RP calls, of one and a request of another
implementation (a chain in the body, none, a peer chain that ends elsewhere),
with the clocks apart by one either way, of a key rollover, of an automatic
registration whose object arrives twice, and of the client assertions above.
A workload ends, so deadlock is not checked.

### LeafConfiguration (proofs: LeafConfigurationProofs)

`build[c]` is the build caller c started, `inflight` the one calls join.
`version` counts the changes of the key provider; a build records the one it
read, `due` what its caller was promised. Run `leaf_configuration`: three
callers, two refreshes, one change of the keys, two instants; callers call
again, so a build, a refresh that supersedes it, and a reader that joins
either all meet. Fairness: `WF_vars(BuildStep(c))`; the key provider and the
signer answer or fail.

### CollectionRefresh and EntityCollection (proofs: EntityCollectionProofs)

`job[c]` is the progress of one `buildCollectionSnapshot`: the queue of the
walk, memoised fetches (`known`), the refresh's budget (`fetches`), the
allowances of one open issuer (`spent`) and of all (`open`), the entries with
their marks and the proofs of issuers. The chain of a path holds the Entity
Configuration of its last entity and the Subordinate Statements on the way
(`ConfigExp`, `StatementExp`), but not the configurations of the authorities
between (`refresh.ts`, 281-285). The walk examines an entity along every path,
keeps its best deadline, skips an invalid path and fails on everything else.
An authority that is skipped hides what is below it on that path, even if a
chain through it would still be valid; `Stands` is a path on which nobody is
skipped, and `SnapshotComplete` promises no more than those.

`VerifyListed` is the pass over marks whose issuers are listed. In the second
pass `VerifyOpen` begins the search for an open issuer, each `SearchFetch`
counts against the three allowances, `SearchDone` ends it after any number of
fetches, and `Filter` is the application's filter, which keeps, limits or
excludes the entry or fails the refresh; `EndBuild` dates the result. With a
collector the anchor's configuration is fetched and proved only when the first
mark needs it (`WithRoot`).

`EntityCollection` adds the chained refreshes (`refreshes` is the service's
map), the store (`snapshots`, `current`, `cursors`) and readers. Between the
date of a build and its publication other refreshes go on. A Map is a set of
records with a `place`, its rank in the order of insertion. `Answer(r, n)` is a
page of `n` entries: fewer than fit when the request limits it, down to none
with a cursor to the same place (`limit=0`), fewer than asked when the response
would grow too long, and the error when not even one entry fits. `expected` is
what a reader should be shown; only properties read it.

An anchor is assumed to be nobody's subordinate (`Anchors \cap Entities = {}`),
an entity to publish at most one trust mark, and the federation not to change
during a refresh beyond what expires.

Run `collection`: two anchors, an entity listed by the anchor and by an
intermediate with different expiries, an intermediate whose configuration
expires before the chains through it, an entity with unacceptable metadata, a
refused chain, marks of a listed issuer, of a listed one that cannot be
resolved, and of an open type; with and without the application's collector; up
to three refreshes of which one may be cancelled; room for two snapshots and one
cursor, pages of none and one, three instants. That is enough for a third
snapshot to evict, for an authority to expire above a valid entity and for an
entry and a mark to expire between pages. A search may spend two fetches for one
issuer; a collector's refresh comes to it with its budget almost used up, so
the first and the third allowance are reached. The total of all open issuers is
not, with a single open issuer: that one is left to the proof. Nothing has to
happen after the last call, so deadlock is not checked.

## Proofs

TLAPS proves these for every value of the constants. The named assumptions in
the modules give constants their types: limits and times are numbers, listings
and chains are sequences, policies name JSON values, initial keys are a finite
non-empty set, `None` and its like are not values. Those that say more are
listed below; in addition, no anchor of a collection is a subordinate in it. The bounds of the runs (`MaxTime`, `MaxCalls`, ...) are constants
too, so the theorems hold for each of their values.

- FederationKeysProofs. The inductive invariant is type correctness,
  `SelectionUnambiguous`, `SupersededForGood` and `EntryTimes`, which bounds
  the times of an entry by the clock and relates the last signature of a key
  to its activation, scheduled removal and revocation. It is needed because
  `RecentSignerPublished` and `HistoryCoversSignatures` say nothing about a
  key whose overlap is over. Theorems: `TypeCorrect`, `SelectionCorrect`,
  `SupersededCorrect`, `OverlapCorrect`, `HistoryCorrect`, and the action
  properties `LockoutPermanent`, `ForwardOnly`, `UnpublishedCorrect`; the last
  two rest on `KeyStep`, what one operation can do to one key. Assumption: callers
  ask for overlaps of at least `MinRetireMs`; `switchActiveKey` itself sets no
  minimum (`federation-keys.ts`, 188), so the overlap that
  `RecentSignerPublished` promises is the caller's to choose.
- LeafConfigurationProofs. The invariant has three parts: `Ownership` (who
  waits, waits for a build under way), `Generations` (`inflight` is exactly
  the unfinished build of the current generation) and `Freshness` (what a
  build has read is as new as what its callers were promised). Theorems:
  `TypeCorrect`, `FreshCorrect`, `SingleFlightCorrect`.
- TrustChainResolveProofs. The walk is a tree (`Tree`: branches are born below
  one that waits for them, whose depth is the length of their path) in which
  the limiter's count is the number of branches that hold a slot (`Slots`);
  `Cardinality` of finite sets of branches carries the budget. `WalkCorrect`
  has this invariant, `LimiterCorrect`, `BudgetCorrect` and the action property
  `AbortHonoured` follow. `ResultCorrect` adds `Walks`, that every path is one
  of the graph. `ResultCompleteCorrect` needs `CoverInv`: while no limit has
  flagged the result, each chain of the graph is found, cut off by an answer
  on its way, or some branch has followed it so far and will go on. It is
  proved against `ReferenceChains`, which knows nothing of the walk.
  `CallersObserve` shows that the callers only watch, so that the theorems
  carry over to `TrustChainSelect`, where `DiscoveryCorrect` concludes.
- WalletRequestProofs, first part: the policies. `Sound` is a policy whose
  operators fit together, `Stricter` that a merged operator asks at least what
  a statement's asks; merging preserves both, for any number of statements.
  `Fits` is a value that every operator of a sound policy is content with: what
  `Applied` returns fits, and what fits is left alone (for a scope, in the
  spelling the operators see; hence the exception above). From that
  `SuperiorsAlwaysObeyed` and `ApplicationIdempotent`; `MergeOrderIrrelevant`
  goes operator by operator.
- WalletRequestProofs, second part (on those lemmas): the wallet. The invariant
  follows the stages: `Signed` (the links checked so far), `Resolving` (the
  metadata is that of the merged policies), `Marking` (marks vouched for so
  far), `Staged` (a preparation and its completion are about one chain and one
  context) and `Flow` (where the wallet is while the validation is there). The
  merge along a chain is a recursive function: that it exists, and what it
  preserves, is shown by the least statement at which it would not. Theorems:
  `AuthenticChains` (link by link from the anchor's configured keys, under
  `TruthAssumption`), `AuthenticMarks`, `PoliciesAreSettled`,
  `PreparationsStand`, `QueriesAreJustified`.
- AuthorityStorageProofs. `Turns` is the mutex: whoever is in the chain holds
  a promise of its own, and only the first is inside its callback. `Work` says
  of each point of each operation that its draft is the committed state
  changed by the operation so far, hence nothing was committed meanwhile.
  `WriteRow` keeps the histories and the rows of tracked subjects.
  Theorems: `TimesCorrect`, `ResponsesCorrect`, `IssuanceCorrect`, the action
  properties `MarksKept` and `AnswersHonest`, and `RegistryImplemented`: every
  commit is one step of `SubordinateRegistry`, every other step none.
- RegistrationProofs. First `ReplayProtection` alone: `AssertionOnce` is
  inductive together with `RecordedWhileOpen`, because an accepted assertion
  is recorded until the end of its window and a full store never forgets
  (`AssertionsUsedOnce`). Then the composition: `RpSide`, `OpSide` and
  `AutoSide` say what each party knows at each await, `Kept` that what the OP
  registered and does not keep was replaced. Theorems: `TrustIsMutual`,
  `RefusalsExplained`, `RecordsStayAgreed`, `AssertionsStillOnce`. Assumption
  on the workloads: only a foreign request is under way to begin with, and a
  request that is said to carry a chain does.
- EntityCollectionProofs. `SerialInv`: calls for an anchor are made in order,
  each waits for the one before it, and the map knows the last that is not
  over, so whoever builds has only finished calls before it
  (`RefreshesAreSerial`). `JobInv` bounds a build's budget and types its
  walk and entries; with it `OptionalNeverFails`: `AllowanceSpent` stops a
  search before the fetch that would go beyond the budget. `StoreInv`:
  the snapshots are those of finished calls, one each, an anchor's current one
  among them; room is made from those that nobody has selected or from the
  anchor's own. `Dated`: what is built is no older than any snapshot of its
  anchor, because refreshes are serial (`CurrentNeverLost`). `ReaderInv` has two times for a cursor:
  one in the store fits from now on, one that a request has looked up fits
  from the time it read, until the cursor expires; `ValidUntilSame` shows that
  the expiry of the entries and of the longest-lived mark bounds that
  interval (`PagesAlwaysAgree`). Assumption: calls are numbered in the order
  in which they are made for an anchor, as the guard of `CallRefresh` has it.
  `SnapshotsAreComplete` takes `GatherInv`, one predicate for each stage of a
  build. Of the walk (`WalkOK`): each trail, a listed path without a cycle,
  that still stands leads to an entry that lasts as long, or a beginning of it
  is in the queue or is the node whose listing is being read (`Covered`). It is
  preserved because a trail stands only while all its beginnings have valid
  chains of their own, and none comes to stand later. Of the first pass
  (`ListedOK`): every deadline of a trail that stands is covered by its entry
  (`Full`), and an entry that was visited has its mark. Of the second
  (`OpenOK`): what was visited has the deadline that the filter leaves. The
  reference `Paths` enumerates paths and knows nothing of the walk; that it
  misses none is a pigeonhole argument on the length of trails (`TrailShort`).
- AuthorityEndpointsProofs. `StatusForward` follows from `StatusInv`: what was
  told of a mark stays true of it, and a request under way reads it after what
  was told (`StatusOnlyForward`). For `PagesExhaustive`, `PagesInv` says that
  what the client was told is increasing and has every stable subject before
  the cursor; the batches of the extended list extend it by what they fill
  (`Advance`), and a cursor past the last record ends it (`PagesTellAll`).
  Assumptions: finitely many subjects, pages and batches of at least one record.

Every safety property of the passing runs is a theorem. Left to TLC: liveness
(`Termination`, `EveryCallSettles`, `EveryCallAnswered`), since the prover
handles neither fairness nor ENABLED, and the two violations.

## Findings

1. `refreshTrustChain` returns the first valid chain, not the shortest
   (run `refresh`).
2. A Request Object can be used twice between `exp` and `exp` plus the skew
   (run `request_objects`).

## Not modelled

- The authority server validates its configuration and routes requests; the
  endpoints it wires are modelled. It keeps no state.
- JOSE and JWKS: cryptography and key parsing. A signature names the key that
  made it. Schemas, statement builders and protocol parsing: data validation
  without state; a message is well formed or not.
- The fetch endpoint reads one record and signs it. The resolve endpoint's
  cache and its filter of trust marks depend on other authorities' status
  answers and promise nothing beyond a single request.
- `MemoryCache` serves what some earlier fetch answered, which is one of the
  answers the environment of `TrustChainResolve` gives.
- The wallet's evaluation of issuers and presentations and its creation of
  requests: sequences of checks on one request over `validateTrustChain`.
- `trust-marks/fetch.ts`, `logo.ts`, `federation-api`: single requests.
- `apps`, `internal/ui`, `tools/cli`, `scripts`: user interfaces, components,
  pages and demonstrations over the packages; the larger part of the
  repository's lines and none of its protocol logic.

## Plan

The wallet's evaluation of presentations and the fetch and resolve endpoints,
where a property worth checking turns up.
