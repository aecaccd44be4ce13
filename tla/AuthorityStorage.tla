------------------------- MODULE AuthorityStorage -------------------------
(***************************************************************************)
(* MemoryStorageAdapter (packages/authority/src/storage/memory.ts) under   *)
(* the operations that write through it: the subordinate lifecycle         *)
(* (subordinate-lifecycle.ts), the Subordinate Events response             *)
(* (endpoints/subordinate-events.ts), Trust Mark issuance                  *)
(* (endpoints/trust-mark.ts) and revocation, and the writes an application *)
(* makes through storage.subordinates itself, which record no event.       *)
(*                                                                         *)
(* runExclusive chains promises: a call takes the promise of the call      *)
(* before it as its own turn.  Promise n of that chain is ticket n here.   *)
(* A transaction works on a draft, a detached copy of the whole state, and *)
(* an action is one segment between two awaits of its callback.            *)
(*                                                                         *)
(* The handlers' clock and the adapter's are one clock: both are options   *)
(* of the application, which configures the same one for both.             *)
(***************************************************************************)
EXTENDS Integers, Sequences

CONSTANTS
    Callers,         \* concurrent callers
    Subjects,        \* subordinates, or subjects of the one Trust Mark type
    Untracked,       \* subjects whose rows the application also writes itself
    Calls,           \* the operations callers invoke, with their arguments
    Metadata,        \* contents of the metadata claim
    MetadataPolicy,  \* contents of the metadata_policy claim
    Jwks,            \* contents of the public keys
    Registrations,   \* the records callers register
    Updates,         \* the updates callers pass: a claim left out is Keep
    Keep,
    Nonces,          \* what tells two signatures over one payload apart
    Ttl,             \* trustMarkTtlSeconds
    NoRecord, NoDraft,
    MaxCalls,        \* bound: calls made in all
    MaxTime          \* bound: the last instant of the clock

Contents == [metadata : Metadata, metadataPolicy : MetadataPolicy, jwks : Jwks]

ASSUME InputAssumption ==
    /\ Untracked \subseteq Subjects
    /\ Registrations \subseteq Contents
    /\ Keep \notin Metadata \cup MetadataPolicy \cup Jwks
    /\ Updates \subseteq [metadata : Metadata \cup {Keep},
                          metadataPolicy : MetadataPolicy \cup {Keep},
                          jwks : Jwks \cup {Keep}]
ASSUME BoundAssumption == MaxCalls \in Nat /\ MaxTime \in Nat /\ Ttl \in Nat

(* SubordinateRecord; claims that no event reports on are left out.        *)
Row == [content : Contents, createdAt : Nat, updatedAt : Nat]
ASSUME NoRecordAssumption == NoRecord \notin Row \cup Contents

(* SubordinateEvent: its type and iat.                                     *)
EventTypes == {"registration", "revocation", "metadata_update",
               "metadata_policy_update", "jwks_update", "custom"}
Event == [event : EventTypes, iat : Nat]

(* A Trust Mark JWT is its payload and its signature; exp is iat + Ttl.    *)
Jwt == [sub : Subjects, iat : Nat, nonce : Nonces]
BoundedJwt == [sub : Subjects, iat : 0..MaxTime, nonce : Nonces]

(* MemoryState.                                                            *)
State == [subordinates : [Subjects -> Row \cup {NoRecord}],
          events : [Subjects -> Seq(Event)],
          trustMarks : [BoundedJwt -> {"none", "active", "revoked"}]]
ASSUME NoDraftAssumption == NoDraft \notin State

VARIABLES
    state,      \* the committed state, what every reader sees
    draft,      \* caller -> the draft of its transaction, or NoDraft
    tail,       \* promises made by runExclusive
    released,   \* promises resolved
    ticket,     \* caller -> the promise it resolves when it is done
    pc,         \* caller -> where it is
    call,       \* caller -> the arguments and locals of its call
    answer,     \* caller -> what its last read or issuance returned
    now         \* nowSeconds()

mutex == <<tail, released, ticket>>
vars == <<state, draft, mutex, pc, call, answer, now>>

Idle == [op |-> "none"]
Nothing == [kind |-> "nothing"]
----------------------------------------------------------------------------
(* Mutant: a revoked mark counts as valid.                                 *)
ValidMarksIgnoringRevocation(st, s, validAt) ==
    {j \in BoundedJwt : /\ j.sub = s
                        /\ st.trustMarks[j] # "none"
                        /\ j.iat + Ttl > validAt}

(* isValidTrustMark: the valid marks of a subject; getValid: the newest.   *)
ValidMarks(st, s, validAt) ==
    {j \in BoundedJwt : /\ j.sub = s
                        /\ st.trustMarks[j] = "active"
                        /\ j.iat + Ttl > validAt}
GetValid(st, s, validAt) ==
    {j \in ValidMarks(st, s, validAt) :
        \A k \in ValidMarks(st, s, validAt) : k.iat <= j.iat}

(* The update events, in the order updateSubordinate collects them.        *)
Changes(before, after) ==
    (IF before.metadata # after.metadata
     THEN <<"metadata_update">> ELSE <<>>)
    \o (IF before.metadataPolicy # after.metadataPolicy
        THEN <<"metadata_policy_update">> ELSE <<>>)
    \o (IF before.jwks # after.jwks
        THEN <<"jwks_update">> ELSE <<>>)

Stamp(types, iat) == [i \in DOMAIN types |-> [event |-> types[i], iat |-> iat]]

(* The draft with the row of a subject replaced, or its history extended.  *)
WithRow(st, s, row) == [st EXCEPT !.subordinates[s] = row]
WithEvents(st, s, events) == [st EXCEPT !.events[s] = @ \o events]
----------------------------------------------------------------------------
(* runExclusive.  Enter: take the next promise of the chain.               *)
Enter(c) ==
    /\ tail' = tail + 1
    /\ ticket' = [ticket EXCEPT ![c] = tail]
    /\ UNCHANGED released

(* Mutant: the promise before is not awaited.                              *)
HasTurnAtOnce(c) == pc[c] = "waiting"

(* Its turn comes when the promise before its own is resolved.             *)
HasTurn(c) == pc[c] = "waiting" /\ ticket[c] = released

(* The finally block, on success and on an exception alike.                *)
Leave(c) ==
    /\ released' = released + 1
    /\ pc' = [pc EXCEPT ![c] = "idle"]
    /\ call' = [call EXCEPT ![c] = Idle]
    /\ draft' = [draft EXCEPT ![c] = NoDraft]
    /\ ticket' = [ticket EXCEPT ![c] = 0]
    /\ UNCHANGED tail

(* Mutant: a callback that throws does not resolve its promise.            *)
FailWithoutRelease(c) ==
    /\ pc' = [pc EXCEPT ![c] = "idle"]
    /\ call' = [call EXCEPT ![c] = Idle]
    /\ draft' = [draft EXCEPT ![c] = NoDraft]
    /\ UNCHANGED <<state, mutex, answer, now>>

(* The callback throws: the draft is dropped.                              *)
Fail(c) ==
    /\ Leave(c)
    /\ UNCHANGED <<state, answer, now>>

(* The callback goes on with a new draft after its await.                  *)
Continue(c, at, newDraft) ==
    /\ pc' = [pc EXCEPT ![c] = at]
    /\ draft' = [draft EXCEPT ![c] = newDraft]
    /\ UNCHANGED <<state, mutex, answer, now>>
----------------------------------------------------------------------------
(* A caller invokes a lifecycle operation, reads the history, revokes a    *)
(* mark, runs a transaction of its own or writes a row itself, with times  *)
(* of its own.  The arguments are copied and the call takes its place in   *)
(* the chain before anything is awaited.                                   *)
Arguments ==
    [op : {"register"}, sub : Subjects, content : Registrations, valid : BOOLEAN]
    \cup [op : {"update"}, sub : Subjects, updates : Updates, valid : BOOLEAN]
    \cup [op : {"revoke", "record", "events", "revokeMark", "own"}, sub : Subjects]
    \cup [op : {"add"}, sub : Untracked, content : Registrations, at : 0..MaxTime,
          valid : BOOLEAN]
    \cup [op : {"change"}, sub : Untracked, updates : Updates, valid : BOOLEAN]
    \cup [op : {"remove"}, sub : Untracked]

Invoke(c, args) ==
    /\ pc[c] = "idle" /\ tail < MaxCalls
    /\ args \in Calls
    /\ Enter(c)
    /\ pc' = [pc EXCEPT ![c] = "waiting"]
    /\ call' = [call EXCEPT ![c] = args]
    /\ answer' = [answer EXCEPT ![c] = Nothing]
    /\ UNCHANGED <<state, draft, now>>

(* registerSubordinate: add refuses a duplicate and an invalid record.     *)
Register(c) ==
    /\ HasTurn(c) /\ call[c].op = "register"
    /\ LET s == call[c].sub
           row == [content |-> call[c].content, createdAt |-> now, updatedAt |-> now]
       IN  \/ /\ state.subordinates[s] = NoRecord /\ call[c].valid
              /\ Continue(c, "appendRegistration", WithRow(state, s, row))
              /\ UNCHANGED call
           \/ /\ state.subordinates[s] # NoRecord \/ ~call[c].valid
              /\ Fail(c)

(* updateSubordinate, its first read: the row must exist.                  *)
Update(c) ==
    /\ HasTurn(c) /\ call[c].op = "update"
    /\ \/ /\ state.subordinates[call[c].sub] # NoRecord
          /\ Continue(c, "updateRow", state)
          /\ UNCHANGED call
       \/ /\ state.subordinates[call[c].sub] = NoRecord
          /\ Fail(c)

(* The content of a row after the caller's updates.                        *)
Merge(old, new) == IF new = Keep THEN old ELSE new
Updated(old, new) ==
    [metadata |-> Merge(old.metadata, new.metadata),
     metadataPolicy |-> Merge(old.metadataPolicy, new.metadataPolicy),
     jwks |-> Merge(old.jwks, new.jwks)]

(* Mutant: the update does not keep createdAt.                             *)
UpdateRowRecreates(c) ==
    /\ pc[c] = "updateRow" /\ call[c].valid
    /\ LET s == call[c].sub
           before == draft[c].subordinates[s].content
           row == [content |-> Updated(before, call[c].updates),
                   createdAt |-> now, updatedAt |-> now]
       IN  /\ Continue(c, "diff", WithRow(draft[c], s, row))
           /\ call' = [call EXCEPT ![c] = [op |-> "diff", sub |-> s, before |-> before]]

(* subordinates.update: createdAt is kept, updatedAt is the clock's, and   *)
(* the result is validated before it is stored.                            *)
UpdateRow(c) ==
    /\ pc[c] = "updateRow"
    /\ LET s == call[c].sub
           before == draft[c].subordinates[s]
           row == [before EXCEPT !.content = Updated(@, call[c].updates),
                                 !.updatedAt = now]
       IN  \/ /\ call[c].valid
              /\ Continue(c, "diff", WithRow(draft[c], s, row))
              /\ call' = [call EXCEPT ![c] = [op |-> "diff", sub |-> s,
                                              before |-> before.content]]
           \/ ~call[c].valid /\ Fail(c)

(* Mutant: the history is removed with the row.                            *)
RevokeErasesHistory(c) ==
    /\ HasTurn(c) /\ call[c].op = "revoke"
    /\ state.subordinates[call[c].sub] # NoRecord
    /\ Continue(c, "appendRevocation",
                [WithRow(state, call[c].sub, NoRecord) EXCEPT
                    !.events[call[c].sub] = <<>>])
    /\ UNCHANGED call

(* revokeSubordinate: remove refuses an unknown subject.                   *)
Revoke(c) ==
    /\ HasTurn(c) /\ call[c].op = "revoke"
    /\ \/ /\ state.subordinates[call[c].sub] # NoRecord
          /\ Continue(c, "appendRevocation", WithRow(state, call[c].sub, NoRecord))
          /\ UNCHANGED call
       \/ /\ state.subordinates[call[c].sub] = NoRecord
          /\ Fail(c)

(* The second half of a lifecycle operation: the events of its change, in  *)
(* the same transaction.  A registration bears the time of its row, the    *)
(* others the time of the append.                                          *)
AppendEvents(c) ==
    /\ LET s == call[c].sub
           row == draft[c].subordinates[s]
       IN  \/ /\ pc[c] = "appendRegistration"
              /\ Continue(c, "commit", WithEvents(draft[c], s,
                          Stamp(<<"registration">>, row.createdAt)))
           \/ /\ pc[c] = "appendRevocation"
              /\ Continue(c, "commit", WithEvents(draft[c], s,
                          Stamp(<<"revocation">>, now)))
           \/ /\ pc[c] = "diff"
              /\ Continue(c, "commit", WithEvents(draft[c], s,
                          Stamp(Changes(call[c].before, row.content), now)))
    /\ UNCHANGED call

(* recordSubordinateEvents: an event of the caller's own, bearing the time *)
(* at which the caller says it occurred (0: in the past).                  *)
RecordEvents(c) ==
    /\ HasTurn(c) /\ call[c].op = "record"
    /\ Continue(c, "commit", WithEvents(state, call[c].sub, Stamp(<<"custom">>, 0)))
    /\ UNCHANGED call

(* The commit: the draft becomes the state.                                *)
Commit(c) ==
    /\ pc[c] = "commit"
    /\ state' = draft[c]
    /\ Leave(c)
    /\ UNCHANGED <<answer, now>>

(* storage.subordinates.add, update and remove, called by the application: *)
(* one segment each, on the committed state, under the same mutex, and no  *)
(* event.  An error leaves everything as it is.                            *)
WriteRow(c) ==
    /\ HasTurn(c) /\ call[c].op \in {"add", "change", "remove"}
    /\ LET s == call[c].sub
           row == state.subordinates[s]
           Store(new) == /\ state' = WithRow(state, s, new)
                         /\ Leave(c)
                         /\ UNCHANGED <<answer, now>>
       IN  \/ /\ call[c].op = "add" /\ row = NoRecord /\ call[c].valid
              /\ Store([content |-> call[c].content,
                        createdAt |-> call[c].at, updatedAt |-> call[c].at])
           \/ /\ call[c].op = "change" /\ row # NoRecord /\ call[c].valid
              /\ Store([row EXCEPT !.content = Updated(@, call[c].updates),
                                   !.updatedAt = now])
           \/ /\ call[c].op = "remove" /\ row # NoRecord
              /\ Store(NoRecord)
           \/ /\ \/ call[c].op = "add" /\ (row # NoRecord \/ ~call[c].valid)
                 \/ call[c].op = "change" /\ (row = NoRecord \/ ~call[c].valid)
                 \/ call[c].op = "remove" /\ row = NoRecord
              /\ Fail(c)

(* A transaction of the application that removes a row, and whose callback *)
(* then throws.                                                            *)
OwnTransaction(c) ==
    \/ /\ HasTurn(c) /\ call[c].op = "own"
       /\ Continue(c, "throw", WithRow(state, call[c].sub, NoRecord))
       /\ UNCHANGED call
    \/ pc[c] = "throw" /\ Fail(c)

(* buildSubordinateEvents: the history first; if it is empty, the row too. *)
ListEvents(c) ==
    /\ HasTurn(c) /\ call[c].op = "events"
    /\ Continue(c, "lookUp", state)
    /\ UNCHANGED call

LookUp(c) ==
    /\ pc[c] = "lookUp"
    /\ LET s == call[c].sub
           history == draft[c].events[s]
       IN  answer' = [answer EXCEPT ![c] =
                        IF history = <<>> /\ draft[c].subordinates[s] = NoRecord
                        THEN [kind |-> "notFound"]
                        ELSE [kind |-> "history", sub |-> s, events |-> history]]
    /\ state' = draft[c]
    /\ Leave(c)
    /\ UNCHANGED now
----------------------------------------------------------------------------
(* issueTrustMark, before its transaction: an existing mark is returned,   *)
(* otherwise a candidate is signed.  `now' is read once, here.             *)
IssueTrustMark(c, s) ==
    /\ pc[c] = "idle" /\ tail < MaxCalls
    /\ [op |-> "issue", sub |-> s] \in Calls
    /\ LET valid == GetValid(state, s, now)
       IN  \/ /\ valid # {}
              /\ \E j \in valid : answer' = [answer EXCEPT ![c] =
                                            [kind |-> "mark", jwt |-> j]]
              /\ UNCHANGED <<pc, call>>
           \/ /\ valid = {}
              /\ pc' = [pc EXCEPT ![c] = "signing"]
              /\ call' = [call EXCEPT ![c] = [op |-> "issue", sub |-> s, at |-> now]]
              /\ answer' = [answer EXCEPT ![c] = Nothing]
    /\ UNCHANGED <<state, draft, mutex, now>>

(* buildTrustMark has signed: the transaction takes its place.             *)
Signed(c, nonce) ==
    /\ pc[c] = "signing"
    /\ Enter(c)
    /\ pc' = [pc EXCEPT ![c] = "waiting"]
    /\ call' = [call EXCEPT ![c] =
                  [op |-> "issue", sub |-> call[c].sub, at |-> call[c].at,
                   jwt |-> [sub |-> call[c].sub, iat |-> call[c].at, nonce |-> nonce]]]
    /\ UNCHANGED <<state, draft, answer, now>>

(* Mutant: the transaction does not look again.                            *)
ChooseMarkBlindly(c) ==
    /\ HasTurn(c) /\ call[c].op = "issue"
    /\ Continue(c, "issue", state)
    /\ UNCHANGED call

(* Its transaction: a winner that was stored meanwhile.                    *)
ChooseMark(c) ==
    /\ HasTurn(c) /\ call[c].op = "issue"
    /\ LET valid == GetValid(state, call[c].sub, call[c].at)
       IN  \/ /\ valid # {}
              /\ \E j \in valid : call' = [call EXCEPT ![c].jwt = j]
              /\ Continue(c, "selected", state)
           \/ /\ valid = {}
              /\ Continue(c, "issue", state)
              /\ UNCHANGED call

(* Mutant: a record with the same JWT is replaced.                         *)
IssueMarkOverwrites(c) ==
    /\ pc[c] = "issue"
    /\ Continue(c, "selected", [draft[c] EXCEPT !.trustMarks[call[c].jwt] = "active"])
    /\ UNCHANGED call

(* trustMarks.issue: a JWT that is already stored is left as it is.        *)
IssueMark(c) ==
    /\ pc[c] = "issue"
    /\ Continue(c, "selected",
                [draft[c] EXCEPT !.trustMarks[call[c].jwt] =
                    IF @ = "none" THEN "active" ELSE @])
    /\ UNCHANGED call

(* The transaction commits and the selected mark is returned.              *)
MarkSelected(c) ==
    /\ pc[c] = "selected"
    /\ state' = draft[c]
    /\ answer' = [answer EXCEPT ![c] = [kind |-> "mark", jwt |-> call[c].jwt]]
    /\ Leave(c)
    /\ UNCHANGED now

(* trustMarks.revoke on the adapter itself: all active marks of a subject, *)
(* in one segment, under the same mutex (an error if there is none).       *)
RevokeMark(c) ==
    /\ HasTurn(c) /\ call[c].op = "revokeMark"
    /\ state' = [state EXCEPT !.trustMarks =
                    [j \in BoundedJwt |->
                        IF j.sub = call[c].sub /\ @[j] = "active"
                        THEN "revoked" ELSE @[j]]]
    /\ Leave(c)
    /\ UNCHANGED <<answer, now>>
----------------------------------------------------------------------------
Init ==
    /\ state = [subordinates |-> [s \in Subjects |-> NoRecord],
                events |-> [s \in Subjects |-> <<>>],
                trustMarks |-> [j \in BoundedJwt |-> "none"]]
    /\ draft = [c \in Callers |-> NoDraft]
    /\ tail = 0 /\ released = 0
    /\ ticket = [c \in Callers |-> 0]
    /\ pc = [c \in Callers |-> "idle"]
    /\ call = [c \in Callers |-> Idle]
    /\ answer = [c \in Callers |-> Nothing]
    /\ now = 0

Tick ==
    /\ now < MaxTime
    /\ now' = now + 1
    /\ UNCHANGED <<state, draft, mutex, pc, call, answer>>

(* What the event loop runs once a call is made.                           *)
Step(c) ==
    \/ Register(c) \/ Update(c) \/ UpdateRow(c) \/ Revoke(c) \/ AppendEvents(c)
    \/ RecordEvents(c) \/ Commit(c) \/ WriteRow(c) \/ OwnTransaction(c)
    \/ ListEvents(c) \/ LookUp(c)
    \/ \E nonce \in Nonces : Signed(c, nonce)
    \/ ChooseMark(c) \/ IssueMark(c) \/ MarkSelected(c) \/ RevokeMark(c)

(* The calls the bound allows have all been made and have settled.         *)
Quiescent ==
    /\ tail >= MaxCalls /\ \A c \in Callers : pc[c] = "idle"
    /\ UNCHANGED vars

Next ==
    \/ \E c \in Callers :
          \/ \E args \in Arguments : Invoke(c, args)
          \/ \E s \in Subjects : IssueTrustMark(c, s)
          \/ Step(c)
    \/ Tick
    \/ Quiescent

Spec == Init /\ [][Next]_vars

(* The event loop runs every continuation; a signature is made in the end. *)
FairSpec == Spec /\ \A c \in Callers : WF_vars(Step(c))
----------------------------------------------------------------------------
(* Lifecycle operations and everything else that goes through the adapter  *)
(* look atomic to a reader: whatever the interleaving, each committed step *)
(* is one operation of SubordinateRegistry, with exactly the events that   *)
(* explain it, or the write of a row the application makes itself, and a   *)
(* callback that throws leaves no trace.                                   *)
Registry == INSTANCE SubordinateRegistry WITH
    record <- [s \in Subjects |-> IF state.subordinates[s] = NoRecord THEN NoRecord
                                  ELSE state.subordinates[s].content],
    history <- [s \in Subjects |-> [i \in DOMAIN state.events[s] |->
                                      state.events[s][i].event]]
RegistrySpec == Registry!Spec

(* The history of a subject that the authority itself wrote.               *)
OwnEvents(s) == {i \in DOMAIN state.events[s] : state.events[s][i].event # "custom"}

(* The times of row and history agree although they are read at different  *)
(* points of a transaction that waited its turn: the authority's events    *)
(* are in the order of their iat, and a row that only the lifecycle writes *)
(* was created by its last registration and updated since.                 *)
TimesConsistent ==
    \A s \in Subjects :
        LET events == state.events[s]
            row == state.subordinates[s]
        IN  /\ \A i, j \in OwnEvents(s) :
                  i <= j => events[i].iat <= events[j].iat /\ events[j].iat <= now
            /\ row # NoRecord /\ s \notin Untracked =>
                  /\ row.createdAt <= row.updatedAt /\ row.updatedAt <= now
                  /\ \E i \in OwnEvents(s) :
                        /\ events[i] = [event |-> "registration", iat |-> row.createdAt]
                        /\ \A j \in OwnEvents(s) : j > i =>
                              events[j].event \notin {"registration", "revocation"}

(* A Subordinate Events response is a history that was committed: a prefix *)
(* of the history as it is now.  The signed empty history is that of a row *)
(* the application wrote itself: the row of a registration and its event   *)
(* are never seen one without the other.                                   *)
HistoryAnswered ==
    \A c \in Callers : answer[c].kind = "history" =>
        LET now_ == state.events[answer[c].sub]
            then == answer[c].events
        IN  /\ then = <<>> => answer[c].sub \in Untracked
            /\ Len(then) <= Len(now_) /\ then = SubSeq(now_, 1, Len(then))

(* No operation waits for ever: a callback that throws or a call that      *)
(* finds nothing to do still resolves the promise the next one awaits.     *)
EveryCallSettles == \A c \in Callers : pc[c] # "idle" ~> pc[c] = "idle"

(* Concurrent issuers that all saw no valid mark store at most one.        *)
AtMostOneValid ==
    \A s \in Subjects : \A j, k \in ValidMarks(state, s, now) : j = k

(* Every issued JWT is preserved, and a revoked one stays revoked, through *)
(* reissuance and through transactions that began before the revocation.   *)
MarksPermanent ==
    [][\A j \in BoundedJwt :
          /\ state.trustMarks[j] = "revoked" => state'.trustMarks[j] = "revoked"
          /\ state.trustMarks[j] = "active" => state'.trustMarks[j] # "none"]_vars

(* The mark issueTrustMark returns is stored and active at that moment, no *)
(* matter what happened while it was signed.  One exception: a signature   *)
(* without randomness over the same second reproduces the JWT of a mark    *)
(* that was revoked since, and issue leaves that one as it is.             *)
AnswerHonest ==
    [][\A c \in Callers :
          answer'[c] # answer[c] /\ answer'[c].kind = "mark" =>
              LET j == answer'[c].jwt
              IN  \/ state'.trustMarks[j] = "active"
                  \/ /\ state.trustMarks[j] = "revoked"
                     /\ pc[c] = "selected" /\ j.iat = call[c].at]_vars
============================================================================
