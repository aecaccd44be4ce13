---------------------- MODULE AuthorityStorageProofs ----------------------
(***************************************************************************)
(* AuthorityStorage: the promise chain of runExclusive is a mutex, a       *)
(* transaction works on what is still the committed state, and therefore   *)
(* the storage implements SubordinateRegistry, keeps rows and histories    *)
(* consistent and stores at most one valid Trust Mark per subject, for any *)
(* number of callers, subjects and calls.                                  *)
(***************************************************************************)
EXTENDS AuthorityStorage, SequenceTheorems, FiniteSetTheorems, WellFoundedInduction, TLAPS

(* Where a transaction's callback can be.                                  *)
Callback == {"appendRegistration", "updateRow", "diff", "appendRevocation",
             "commit", "throw", "lookUp", "issue", "selected"}
Inside(c) == pc[c] \in Callback
InChain(c) == pc[c] = "waiting" \/ Inside(c)

Responses == [kind : {"nothing", "notFound"}]
             \cup [kind : {"mark"}, jwt : BoundedJwt]
             \cup [kind : {"history"}, sub : Subjects, events : Seq(Event)]

TypeOK ==
    /\ state \in State
    /\ draft \in [Callers -> State \cup {NoDraft}]
    /\ tail \in Nat /\ released \in Nat
    /\ ticket \in [Callers -> Nat]
    /\ pc \in [Callers -> Callback \cup {"idle", "signing", "waiting"}]
    /\ DOMAIN call = Callers
    /\ answer \in [Callers -> Responses]
    /\ now \in 0..MaxTime

(* The mutex: whoever is in the chain holds a promise of its own that is   *)
(* not resolved yet, and only the first of them is in its callback.        *)
Turns ==
    /\ released <= tail
    /\ \A c \in Callers : InChain(c) => released <= ticket[c] /\ ticket[c] < tail
    /\ \A c \in Callers : Inside(c) => ticket[c] = released
    /\ \A c, d \in Callers : InChain(c) /\ InChain(d) /\ ticket[c] = ticket[d] => c = d

(* What issueTrustMark carries from before its transaction into it.        *)
IssueCall ==
    {k \in [op : {"issue"}, sub : Subjects, at : 0..MaxTime, jwt : BoundedJwt] :
        k.jwt.sub = k.sub /\ k.jwt.iat = k.at}

(* No event the authority wrote about s is later than t.                   *)
NoLater(s, t) ==
    \A i \in OwnEvents(s) : state.events[s][i].iat <= t

(* The outcome of the first half of each lifecycle operation on the        *)
(* committed state, at an instant t that has passed.                       *)
NewRow(s, content, t) ==
    WithRow(state, s, [content |-> content, createdAt |-> t, updatedAt |-> t])
ChangedRow(s, content, t) ==
    WithRow(state, s, [content |-> content,
                       createdAt |-> state.subordinates[s].createdAt,
                       updatedAt |-> t])

CanAdd(s, t) == state.subordinates[s] = NoRecord /\ NoLater(s, t)
CanChange(s, t) == /\ state.subordinates[s] # NoRecord
                   /\ s \notin Untracked => state.subordinates[s].updatedAt <= t

(* And of the second: the draft is the committed state after one operation *)
(* of SubordinateRegistry on s.                                            *)
Explained(d, s) ==
    \E t, u \in 0..now :
        /\ NoLater(s, t)
        /\ \/ \E content \in Contents :
                /\ CanAdd(s, t)
                /\ d = WithEvents(NewRow(s, content, t), s, Stamp(<<"registration">>, t))
           \/ \E content \in Contents :
                /\ CanChange(s, u)
                /\ d = WithEvents(ChangedRow(s, content, u), s,
                         Stamp(Changes(state.subordinates[s].content, content), t))
           \/ /\ state.subordinates[s] # NoRecord
              /\ d = WithEvents(WithRow(state, s, NoRecord), s, Stamp(<<"revocation">>, t))
           \/ d = WithEvents(state, s, Stamp(<<"custom">>, 0))

(* What a call has done so far: its draft is the committed state changed   *)
(* by the operation up to where it is, so nothing was committed meanwhile. *)
Work(c) ==
    LET s == call[c].sub
        d == draft[c]
    IN  /\ pc[c] = "signing" =>
              /\ call[c] \in [op : {"issue"}, sub : Subjects, at : 0..MaxTime]
              /\ call[c].at <= now
        /\ pc[c] = "waiting" =>
              /\ call[c] \in Arguments \cup IssueCall
              /\ call[c] \in IssueCall => call[c].at <= now
        /\ Inside(c) => s \in Subjects /\ d \in State
        /\ pc[c] = "appendRegistration" =>
              \E t \in 0..now, content \in Contents :
                  CanAdd(s, t) /\ d = NewRow(s, content, t)
        /\ pc[c] = "updateRow" =>
              /\ call[c] \in Arguments /\ call[c].op = "update"
              /\ d = state /\ state.subordinates[s] # NoRecord
        /\ pc[c] = "diff" =>
              /\ call[c].before = state.subordinates[s].content
              /\ \E t \in 0..now, content \in Contents :
                    CanChange(s, t) /\ d = ChangedRow(s, content, t)
        /\ pc[c] = "appendRevocation" =>
              state.subordinates[s] # NoRecord /\ d = WithRow(state, s, NoRecord)
        /\ pc[c] = "commit" => Explained(d, s)
        /\ pc[c] = "lookUp" => d = state
        /\ pc[c] = "issue" =>
              /\ call[c] \in IssueCall /\ call[c].at <= now
              /\ d = state /\ ValidMarks(state, s, call[c].at) = {}
        /\ pc[c] = "selected" =>
              LET j == call[c].jwt
              IN  \/ d = state /\ j \in BoundedJwt /\ state.trustMarks[j] = "active"
                  \/ /\ call[c] \in IssueCall /\ call[c].at <= now
                     /\ ValidMarks(state, s, call[c].at) = {}
                     /\ d = [state EXCEPT !.trustMarks[j] =
                                IF @ = "none" THEN "active" ELSE @]

WorkDone == \A c \in Callers : Work(c)

IInv ==
    /\ TypeOK /\ Turns /\ WorkDone
    /\ TimesConsistent /\ HistoryAnswered /\ AtMostOneValid
----------------------------------------------------------------------------
(* The operators on states: what they replace, and that they keep the type. *)
LEMMA WithRowShape ==
    ASSUME NEW st \in State, NEW s \in Subjects, NEW row \in Row \cup {NoRecord}
    PROVE  /\ WithRow(st, s, row) \in State
           /\ WithRow(st, s, row).subordinates = [st.subordinates EXCEPT ![s] = row]
           /\ WithRow(st, s, row).events = st.events
           /\ WithRow(st, s, row).trustMarks = st.trustMarks
  BY DEF WithRow, State

LEMMA WithEventsShape ==
    ASSUME NEW st \in State, NEW s \in Subjects, NEW events \in Seq(Event)
    PROVE  /\ WithEvents(st, s, events) \in State
           /\ WithEvents(st, s, events).subordinates = st.subordinates
           /\ WithEvents(st, s, events).events =
                 [st.events EXCEPT ![s] = st.events[s] \o events]
           /\ WithEvents(st, s, events).trustMarks = st.trustMarks
<1>1. st.events[s] \o events \in Seq(Event)
  BY DEF State
<1> QED
  BY <1>1 DEF WithEvents, State

LEMMA StampShape ==
    ASSUME NEW types \in Seq(EventTypes), NEW t \in Nat
    PROVE  /\ Stamp(types, t) \in Seq(Event)
           /\ Len(Stamp(types, t)) = Len(types)
           /\ \A i \in 1..Len(types) :
                 Stamp(types, t)[i] = [event |-> types[i], iat |-> t]
<1>1. types \in [1..Len(types) -> EventTypes] /\ Len(types) \in Nat
  BY LenProperties
<1>2. Stamp(types, t) \in [1..Len(types) -> Event]
  BY <1>1 DEF Stamp, Event
<1>3. Stamp(types, t) \in Seq(Event)
  BY <1>1, <1>2, SeqDef
<1>4. Len(Stamp(types, t)) = Len(types)
  BY <1>1, <1>2, <1>3
<1> QED
  BY <1>1, <1>3, <1>4 DEF Stamp

LEMMA StampOne ==
    ASSUME NEW type \in EventTypes, NEW t \in Nat
    PROVE  /\ Stamp(<<type>>, t) \in Seq(Event) /\ Len(Stamp(<<type>>, t)) = 1
           /\ Stamp(<<type>>, t)[1] = [event |-> type, iat |-> t]
<1> DEFINE types == <<type>>
<1>1. types \in Seq(EventTypes) /\ Len(types) = 1 /\ types[1] = type
  OBVIOUS
<1> HIDE DEF types
<1>2. /\ Stamp(types, t) \in Seq(Event) /\ Len(Stamp(types, t)) = 1
      /\ Stamp(types, t)[1] = [event |-> type, iat |-> t]
  BY <1>1, StampShape
<1> QED
  BY <1>2 DEF types

LEMMA ChangesShape ==
    ASSUME NEW before \in Contents, NEW after \in Contents
    PROVE  Changes(before, after) \in
               Seq({"metadata_update", "metadata_policy_update", "jwks_update"})
<1> DEFINE T == {"metadata_update", "metadata_policy_update", "jwks_update"}
<1>1. /\ <<>> \in Seq(T) /\ <<"metadata_update">> \in Seq(T)
      /\ <<"metadata_policy_update">> \in Seq(T) /\ <<"jwks_update">> \in Seq(T)
  OBVIOUS
<1>2. \A a, b, c \in Seq(T) : a \o b \o c \in Seq(T)
  OBVIOUS
<1> HIDE DEF T
<1>3. Changes(before, after) \in Seq(T)
  BY <1>1, <1>2 DEF Changes
<1> QED
  BY <1>3 DEF T

(* A nonempty set of marks has a newest one.                               *)
LEMMA NewestExists ==
    ASSUME NEW S \in SUBSET BoundedJwt, S # {}
    PROVE  \E j \in S : \A k \in S : k.iat <= j.iat
<1> DEFINE Later(t) == (t + 1)..MaxTime
           T == {Later(j.iat) : j \in S}
           R == StrictSubsetOrdering(0..MaxTime)
           F == FiniteSubsetsOf(0..MaxTime)
<1>1. T # {} /\ T \subseteq F /\ IsWellFoundedOn(R, F)
  <2>1. ASSUME NEW j \in S PROVE Later(j.iat) \in F
    <3>1. j.iat \in 0..MaxTime /\ j.iat + 1 \in Int /\ MaxTime \in Int
      BY BoundAssumption DEF BoundedJwt
    <3>2. IsFiniteSet(Later(j.iat))
      BY <3>1, FS_Interval
    <3> QED
      BY <3>1, <3>2 DEF FiniteSubsetsOf
  <2> QED
    BY <2>1, FS_StrictSubsetOrderingWellFounded
<1>2. PICK x \in T : \A y \in T : ~(<<y, x>> \in R)
  <2> HIDE DEF T, R, F
  <2> QED
    BY <1>1, WFMin
<1>3. PICK j \in S : x = Later(j.iat)
  OBVIOUS
<1>4. ASSUME NEW k \in S PROVE k.iat <= j.iat
  <2> SUFFICES ASSUME j.iat < k.iat PROVE FALSE
    BY DEF BoundedJwt
  <2>1. j.iat \in 0..MaxTime /\ k.iat \in 0..MaxTime /\ MaxTime \in Nat
    BY BoundAssumption DEF BoundedJwt
  <2>2. /\ Later(k.iat) \in SUBSET (0..MaxTime) /\ Later(j.iat) \in SUBSET (0..MaxTime)
        /\ Later(k.iat) \subseteq Later(j.iat)
        /\ k.iat \in Later(j.iat) /\ k.iat \notin Later(k.iat)
    BY <2>1
  <2>3. <<Later(k.iat), Later(j.iat)>> \in R
    <3> HIDE DEF Later
    <3> QED
      BY <2>2 DEF StrictSubsetOrdering
  <2> QED
    BY <1>2, <1>3, <2>3
<1> QED
  BY <1>4

LEMMA NoValidMark ==
    ASSUME NEW st, NEW s, NEW t, GetValid(st, s, t) = {}
    PROVE  ValidMarks(st, s, t) = {}
<1> SUFFICES ASSUME ValidMarks(st, s, t) # {} PROVE FALSE
  OBVIOUS
<1>1. PICK j \in ValidMarks(st, s, t) : \A k \in ValidMarks(st, s, t) : k.iat <= j.iat
  <2>1. ValidMarks(st, s, t) \in SUBSET BoundedJwt
    BY DEF ValidMarks
  <2> QED
    BY <2>1, NewestExists
<1> QED
  BY <1>1 DEF GetValid
----------------------------------------------------------------------------
LEMMA InitIInv == Init => IInv
<1> SUFFICES ASSUME Init PROVE IInv
  OBVIOUS
<1>1. TypeOK
  BY BoundAssumption DEF Init, TypeOK, State, Responses, Nothing
<1>2. Turns /\ WorkDone
  BY DEF Init, Turns, WorkDone, Work, InChain, Inside, Callback
<1>3. TimesConsistent
  BY DEF Init, TimesConsistent, OwnEvents
<1>4. HistoryAnswered
  BY DEF Init, HistoryAnswered, Nothing
<1>5. AtMostOneValid
  BY DEF Init, AtMostOneValid, ValidMarks
<1> QED
  BY <1>1, <1>2, <1>3, <1>4, <1>5 DEF IInv

(* Whoever has the turn is alone in its callback, and first in the chain.  *)
LEMMA Alone ==
    ASSUME IInv, NEW c \in Callers, InChain(c), ticket[c] = released,
           NEW d \in Callers, d # c
    PROVE  ~Inside(d) /\ (InChain(d) => released < ticket[d])
<1>1. ticket[d] \in Nat /\ released \in Nat
  BY DEF IInv, TypeOK
<1> QED
  BY <1>1 DEF IInv, Turns, InChain

(* A caller that neither moves nor is in its callback keeps its place,     *)
(* whatever is committed.                                                  *)
LEMMA OutsideUntouched ==
    ASSUME IInv, NEW d \in Callers, ~Inside(d), now <= now', now' \in 0..MaxTime,
           pc'[d] = pc[d], call'[d] = call[d]
    PROVE  Work(d)'
<1>1. Work(d)
  BY DEF IInv, WorkDone
<1>2. ~Inside(d)'
  BY DEF Inside
<1>3. now \in 0..MaxTime
  BY DEF IInv, TypeOK
<1>4. pc[d] = "waiting" =>
        /\ call[d] \in Arguments \cup IssueCall
        /\ call[d] \in IssueCall => call'[d].at <= now'
  BY <1>1, <1>3, BoundAssumption DEF Work, IssueCall
<1>5. pc[d] = "signing" =>
        /\ call[d] \in [op : {"issue"}, sub : Subjects, at : 0..MaxTime]
        /\ call'[d].at <= now'
  BY <1>1, <1>3, BoundAssumption DEF Work
<1> QED
  BY <1>2, <1>4, <1>5 DEF Work, Inside, Callback

(* A segment of a callback that goes on.                                   *)
LEMMA ContinueIInv ==
    ASSUME IInv, NEW c \in Callers, InChain(c), ticket[c] = released,
           NEW at \in Callback, NEW d \in State, Continue(c, at, d),
           DOMAIN call' = Callers, \A e \in Callers : e # c => call'[e] = call[e],
           Work(c)'
    PROVE  IInv'
<1>1. /\ UNCHANGED <<state, tail, released, ticket, answer, now>>
      /\ pc' = [pc EXCEPT ![c] = at] /\ draft' = [draft EXCEPT ![c] = d]
  BY DEF Continue, mutex
<1>2. TypeOK'
  BY <1>1 DEF IInv, TypeOK
<1>3. /\ pc'[c] = at /\ Inside(c)' /\ InChain(c)'
      /\ \A e \in Callers : e # c => pc'[e] = pc[e] /\ (Inside(e)' <=> Inside(e))
                                     /\ (InChain(e)' <=> InChain(e))
  BY <1>1 DEF IInv, TypeOK, Inside, InChain
<1>4. Turns'
  BY <1>1, <1>3 DEF IInv, Turns
<1>5. WorkDone'
  <2> SUFFICES ASSUME NEW e \in Callers, e # c PROVE Work(e)'
    BY DEF WorkDone
  <2>1. ~Inside(e) /\ now <= now' /\ now' \in 0..MaxTime
    BY <1>1, Alone DEF IInv, TypeOK
  <2> QED
    BY <1>3, <2>1, OutsideUntouched
<1>6. TimesConsistent' /\ HistoryAnswered' /\ AtMostOneValid'
  BY <1>1 DEF IInv, TimesConsistent, HistoryAnswered, AtMostOneValid, ValidMarks, OwnEvents
<1> QED
  BY <1>2, <1>4, <1>5, <1>6 DEF IInv

(* The end of a transaction, whatever it commits.                          *)
LEMMA LeaveIInv ==
    ASSUME IInv, NEW c \in Callers, InChain(c), ticket[c] = released,
           Leave(c), now' = now, state' \in State, answer' \in [Callers -> Responses],
           TimesConsistent', HistoryAnswered', AtMostOneValid'
    PROVE  IInv'
<1>1. /\ released' = released + 1 /\ tail' = tail
      /\ ticket' = [ticket EXCEPT ![c] = 0]
      /\ pc' = [pc EXCEPT ![c] = "idle"] /\ call' = [call EXCEPT ![c] = Idle]
      /\ draft' = [draft EXCEPT ![c] = NoDraft]
  BY DEF Leave
<1>2. TypeOK'
  BY <1>1 DEF IInv, TypeOK
<1>3. /\ pc'[c] = "idle" /\ ~Inside(c)' /\ ~InChain(c)'
      /\ \A e \in Callers : e # c =>
            /\ pc'[e] = pc[e] /\ call'[e] = call[e] /\ ticket'[e] = ticket[e]
            /\ (Inside(e)' <=> Inside(e)) /\ (InChain(e)' <=> InChain(e))
  BY <1>1 DEF IInv, TypeOK, Inside, InChain, Callback
<1>4. Turns'
  <2>1. \A e \in Callers : InChain(e)' => released' <= ticket'[e] /\ ticket'[e] < tail'
    BY <1>1, <1>3, Alone DEF IInv, TypeOK, Turns
  <2>2. \A e \in Callers : ~Inside(e)'
    BY <1>3, Alone
  <2>3. released' <= tail'
    BY <1>1 DEF IInv, TypeOK, Turns
  <2> QED
    BY <1>3, <2>1, <2>2, <2>3 DEF IInv, Turns
<1>5. WorkDone'
  <2> SUFFICES ASSUME NEW e \in Callers PROVE Work(e)'
    BY DEF WorkDone
  <2>1. CASE e = c
    BY <1>3, <2>1 DEF Work, Inside, Callback
  <2>2. CASE e # c
    <3>1. ~Inside(e) /\ now <= now' /\ now' \in 0..MaxTime
      BY <2>2, Alone DEF IInv, TypeOK
    <3> QED
      BY <1>3, <2>2, <3>1, OutsideUntouched
  <2> QED
    BY <2>1, <2>2
<1> QED
  BY <1>2, <1>4, <1>5 DEF IInv
----------------------------------------------------------------------------
(* What a call that has its turn was called with.                          *)
LEMMA CalledWith ==
    ASSUME IInv, NEW c \in Callers, HasTurn(c)
    PROVE  /\ InChain(c) /\ ticket[c] = released
           /\ call[c].sub \in Subjects
           /\ call[c].op = "register" => call[c].content \in Contents
           /\ call[c].op = "update" => call[c] \in Arguments
           /\ call[c].op \in {"add", "change", "remove"} =>
                 call[c] \in Arguments /\ call[c].sub \in Untracked
           /\ call[c].op = "issue" => call[c] \in IssueCall /\ call[c].at <= now
<1>1. pc[c] = "waiting" /\ ticket[c] = released
  BY DEF HasTurn
<1>2. /\ call[c] \in Arguments \cup IssueCall
      /\ call[c] \in IssueCall => call[c].at <= now
  BY <1>1 DEF IInv, WorkDone, Work
<1>3. call[c] \in Arguments =>
        /\ call[c].sub \in Subjects
        /\ call[c].op # "issue"
        /\ call[c].op = "register" => call[c].content \in Registrations
        /\ call[c].op \in {"add", "change", "remove"} => call[c].sub \in Untracked
  BY InputAssumption DEF Arguments
<1>4. call[c] \in IssueCall => call[c].sub \in Subjects /\ call[c].op = "issue"
  BY DEF IssueCall
<1> QED
  BY <1>1, <1>2, <1>3, <1>4, InputAssumption DEF InChain

LEMMA FailIInv ==
    ASSUME IInv, NEW c \in Callers, InChain(c), ticket[c] = released, Fail(c)
    PROVE  IInv'
<1>1. /\ Leave(c) /\ UNCHANGED <<state, answer, now>>
  BY DEF Fail
<1>2. state' \in State /\ answer' \in [Callers -> Responses] /\ now' = now
  BY <1>1 DEF IInv, TypeOK
<1>3. TimesConsistent' /\ HistoryAnswered' /\ AtMostOneValid'
  BY <1>1 DEF IInv, TimesConsistent, HistoryAnswered, AtMostOneValid, ValidMarks, OwnEvents
<1> QED
  BY <1>1, <1>2, <1>3, LeaveIInv

(* Every event of the authority is dated by now.                           *)
LEMMA NoLaterThanNow ==
    ASSUME IInv, NEW s \in Subjects
    PROVE  /\ NoLater(s, now) /\ now \in 0..now
           /\ state.subordinates[s] # NoRecord => CanChange(s, now)
<1>1. now \in Nat
  BY BoundAssumption DEF IInv, TypeOK
<1>2. \A i, j \in OwnEvents(s) :
        i <= j => state.events[s][i].iat <= state.events[s][j].iat /\ state.events[s][j].iat <= now
  BY DEF IInv, TimesConsistent
<1>3. \A i \in OwnEvents(s) : i \in Int
  BY DEF IInv, TypeOK, State, OwnEvents
<1>4. state.subordinates[s] # NoRecord /\ s \notin Untracked =>
        state.subordinates[s].updatedAt <= now
  BY DEF IInv, TimesConsistent
<1> QED
  BY <1>1, <1>2, <1>3, <1>4 DEF NoLater, CanChange

(* While nothing is committed, the outcomes of an operation are the same.  *)
LEMMA SameState ==
    ASSUME UNCHANGED <<state, now>>
    PROVE  /\ \A s, t :
                 /\ CanAdd(s, t)' <=> CanAdd(s, t)
                 /\ CanChange(s, t)' <=> CanChange(s, t)
                 /\ ValidMarks(state, s, t)' = ValidMarks(state, s, t)
                 /\ \A content :
                       /\ NewRow(s, content, t)' = NewRow(s, content, t)
                       /\ ChangedRow(s, content, t)' = ChangedRow(s, content, t)
           /\ \A d, s : Explained(d, s)' <=> Explained(d, s)
<1>1. \A s, t : NoLater(s, t)' <=> NoLater(s, t)
  BY DEF NoLater, OwnEvents
<1>2. \A s, t : /\ CanAdd(s, t)' <=> CanAdd(s, t)
                /\ CanChange(s, t)' <=> CanChange(s, t)
                /\ ValidMarks(state, s, t)' = ValidMarks(state, s, t)
  BY <1>1 DEF CanAdd, CanChange, ValidMarks
<1>3. \A s, t, content : /\ NewRow(s, content, t)' = NewRow(s, content, t)
                         /\ ChangedRow(s, content, t)' = ChangedRow(s, content, t)
  BY DEF NewRow, ChangedRow
<1>4. \A d, s : Explained(d, s)' <=> Explained(d, s)
  BY <1>1, <1>2, <1>3 DEF Explained
<1> QED
  BY <1>2, <1>3, <1>4

(* A caller outside the chain calls, signs, or takes its place in it.      *)
LEMMA OutsideIInv ==
    ASSUME IInv, NEW c \in Callers, ~InChain(c), UNCHANGED <<state, draft, now>>,
           NEW at \in {"idle", "signing", "waiting"}, pc'[c] = at,
           pc' \in [Callers -> Callback \cup {"idle", "signing", "waiting"}],
           DOMAIN call' = Callers, answer' \in [Callers -> Responses],
           \A e \in Callers : e # c => pc'[e] = pc[e] /\ call'[e] = call[e],
           \A e \in Callers : answer'[e].kind = "history" => answer'[e] = answer[e],
           IF at = "waiting" THEN Enter(c) ELSE UNCHANGED mutex,
           Work(c)'
    PROVE  IInv'
<1>1. /\ released' = released
      /\ \/ at # "waiting" /\ tail' = tail /\ ticket' = ticket
         \/ at = "waiting" /\ tail' = tail + 1 /\ ticket' = [ticket EXCEPT ![c] = tail]
  BY DEF Enter, mutex
<1>2. tail \in Nat /\ released \in Nat /\ released <= tail /\ ticket \in [Callers -> Nat]
  BY DEF IInv, TypeOK, Turns
<1>3. TypeOK'
  BY <1>1, <1>2 DEF IInv, TypeOK
<1>4. /\ ~Inside(c) /\ ~Inside(c)' /\ (InChain(c)' <=> at = "waiting")
      /\ \A e \in Callers : e # c =>
            /\ ticket'[e] = ticket[e]
            /\ (Inside(e)' <=> Inside(e)) /\ (InChain(e)' <=> InChain(e))
  BY <1>1, <1>2 DEF Inside, InChain, Callback
<1>5. Turns'
  BY <1>1, <1>2, <1>4 DEF IInv, Turns
<1>6. WorkDone'
  <2> SUFFICES ASSUME NEW e \in Callers, e # c PROVE Work(e)'
    BY DEF WorkDone
  <2>1. Work(e) /\ draft' = draft /\ state' = state /\ now' = now
        /\ pc'[e] = pc[e] /\ call'[e] = call[e]
    BY DEF IInv, WorkDone
  <2> QED
    BY <2>1, SameState DEF Work, Inside
<1>7. TimesConsistent' /\ AtMostOneValid'
  BY DEF IInv, TimesConsistent, AtMostOneValid, ValidMarks, OwnEvents
<1>8. HistoryAnswered'
  BY DEF IInv, HistoryAnswered
<1> QED
  BY <1>3, <1>5, <1>6, <1>7, <1>8 DEF IInv

LEMMA InvokeIInv ==
    ASSUME IInv, NEW c \in Callers, NEW args \in Arguments, Invoke(c, args)
    PROVE  IInv'
<1>1. /\ pc[c] = "idle" /\ UNCHANGED <<state, draft, now>> /\ Enter(c)
      /\ pc' = [pc EXCEPT ![c] = "waiting"] /\ call' = [call EXCEPT ![c] = args]
      /\ answer' = [answer EXCEPT ![c] = Nothing]
  BY DEF Invoke
<1>2. ~InChain(c)
  BY <1>1 DEF InChain, Inside, Callback
<1>3. /\ pc'[c] = "waiting" /\ call'[c] = args
      /\ pc' \in [Callers -> Callback \cup {"idle", "signing", "waiting"}]
      /\ DOMAIN call' = Callers
      /\ \A e \in Callers : e # c => pc'[e] = pc[e] /\ call'[e] = call[e]
  BY <1>1 DEF IInv, TypeOK
<1>4. /\ answer' \in [Callers -> Responses]
      /\ \A e \in Callers : answer'[e].kind = "history" => answer'[e] = answer[e]
  BY <1>1 DEF IInv, TypeOK, Responses, Nothing
<1>5. Work(c)'
  <2>1. args.op # "issue"
    BY DEF Arguments
  <2> QED
    BY <1>3, <2>1 DEF Work, Inside, Callback, IssueCall
<1> QED
  BY <1>1, <1>2, <1>3, <1>4, <1>5, OutsideIInv

(* issueTrustMark before its transaction.                                  *)
LEMMA IssueTrustMarkIInv ==
    ASSUME IInv, NEW c \in Callers, NEW s \in Subjects, IssueTrustMark(c, s)
    PROVE  IInv'
<1> DEFINE valid == GetValid(state, s, now)
<1>1. pc[c] = "idle" /\ UNCHANGED <<state, draft, now>> /\ UNCHANGED mutex
  BY DEF IssueTrustMark
<1>2. ~InChain(c) /\ ~Inside(c)
  BY <1>1 DEF InChain, Inside, Callback
<1>3. CASE /\ UNCHANGED <<pc, call>>
           /\ \E j \in valid : answer' = [answer EXCEPT ![c] = [kind |-> "mark", jwt |-> j]]
  <2>1. PICK j \in valid : answer' = [answer EXCEPT ![c] = [kind |-> "mark", jwt |-> j]]
    BY <1>3
  <2>2. j \in BoundedJwt
    BY DEF GetValid, ValidMarks
  <2>3. /\ answer' \in [Callers -> Responses]
        /\ \A e \in Callers : answer'[e].kind = "history" => answer'[e] = answer[e]
    BY <2>1, <2>2 DEF IInv, TypeOK, Responses
  <2>4. /\ pc'[c] = "idle" /\ DOMAIN call' = Callers
        /\ pc' \in [Callers -> Callback \cup {"idle", "signing", "waiting"}]
        /\ \A e \in Callers : e # c => pc'[e] = pc[e] /\ call'[e] = call[e]
    BY <1>1, <1>3 DEF IInv, TypeOK
  <2>5. Work(c)'
    BY <2>4 DEF Work, Inside, Callback
  <2> QED
    BY <1>1, <1>2, <2>3, <2>4, <2>5, OutsideIInv
<1>4. CASE /\ pc' = [pc EXCEPT ![c] = "signing"]
           /\ call' = [call EXCEPT ![c] = [op |-> "issue", sub |-> s, at |-> now]]
           /\ answer' = [answer EXCEPT ![c] = Nothing]
  <2>1. /\ answer' \in [Callers -> Responses]
        /\ \A e \in Callers : answer'[e].kind = "history" => answer'[e] = answer[e]
    BY <1>4 DEF IInv, TypeOK, Responses, Nothing
  <2>2. /\ pc'[c] = "signing" /\ DOMAIN call' = Callers
        /\ call'[c] = [op |-> "issue", sub |-> s, at |-> now]
        /\ pc' \in [Callers -> Callback \cup {"idle", "signing", "waiting"}]
        /\ \A e \in Callers : e # c => pc'[e] = pc[e] /\ call'[e] = call[e]
    BY <1>4 DEF IInv, TypeOK
  <2>3. now \in 0..MaxTime /\ now' = now
    BY <1>1 DEF IInv, TypeOK
  <2>4. Work(c)'
    BY <2>2, <2>3, BoundAssumption DEF Work, Inside, Callback
  <2> QED
    BY <1>1, <1>2, <2>1, <2>2, <2>4, OutsideIInv
<1> QED
  BY <1>3, <1>4 DEF IssueTrustMark

LEMMA SignedIInv ==
    ASSUME IInv, NEW c \in Callers, NEW nonce \in Nonces, Signed(c, nonce)
    PROVE  IInv'
<1> DEFINE k == [op |-> "issue", sub |-> call[c].sub, at |-> call[c].at,
                 jwt |-> [sub |-> call[c].sub, iat |-> call[c].at, nonce |-> nonce]]
<1>1. /\ pc[c] = "signing" /\ UNCHANGED <<state, draft, now>> /\ Enter(c)
      /\ pc' = [pc EXCEPT ![c] = "waiting"] /\ call' = [call EXCEPT ![c] = k]
      /\ UNCHANGED answer
  BY DEF Signed
<1>2. ~InChain(c)
  BY <1>1 DEF InChain, Inside, Callback
<1>3. /\ pc'[c] = "waiting" /\ call'[c] = k
      /\ pc' \in [Callers -> Callback \cup {"idle", "signing", "waiting"}]
      /\ DOMAIN call' = Callers /\ answer' \in [Callers -> Responses]
      /\ \A e \in Callers : e # c => pc'[e] = pc[e] /\ call'[e] = call[e]
  BY <1>1 DEF IInv, TypeOK
<1>4. k \in IssueCall /\ k.at <= now
  BY <1>1 DEF IInv, WorkDone, Work, IssueCall, BoundedJwt
<1>5. Work(c)'
  <2> HIDE DEF k
  <2> QED
    BY <1>1, <1>3, <1>4 DEF Work, Inside, Callback
<1> QED
  BY <1>1, <1>2, <1>3, <1>5, OutsideIInv
----------------------------------------------------------------------------
(* The effect of Continue on the caller itself, and of leaving its call as *)
(* it was.                                                                 *)
LEMMA Continued ==
    ASSUME IInv, NEW c \in Callers, NEW at, NEW d, Continue(c, at, d)
    PROVE  /\ pc'[c] = at /\ draft'[c] = d /\ state' = state /\ now' = now
           /\ UNCHANGED call =>
                /\ DOMAIN call' = Callers
                /\ \A e \in Callers : e # c => call'[e] = call[e]
  BY DEF IInv, TypeOK, Continue

LEMMA RegisterIInv ==
    ASSUME IInv, NEW c \in Callers, Register(c)
    PROVE  IInv'
<1> DEFINE s == call[c].sub
           row == [content |-> call[c].content, createdAt |-> now, updatedAt |-> now]
<1>1. HasTurn(c) /\ call[c].op = "register"
  BY DEF Register
<1>2. /\ InChain(c) /\ ticket[c] = released /\ s \in Subjects
      /\ call[c].content \in Contents /\ state \in State /\ now \in Nat
  BY <1>1, CalledWith, BoundAssumption DEF IInv, TypeOK
<1>3. CASE /\ state.subordinates[s] = NoRecord /\ UNCHANGED call
           /\ Continue(c, "appendRegistration", WithRow(state, s, row))
  <2>1. WithRow(state, s, row) \in State
    BY <1>2, WithRowShape DEF Row
  <2>2. /\ pc'[c] = "appendRegistration" /\ draft'[c] = WithRow(state, s, row)
        /\ state' = state /\ now' = now /\ call' = call
        /\ DOMAIN call' = Callers /\ \A e \in Callers : e # c => call'[e] = call[e]
    BY <1>3, Continued
  <2>3. CanAdd(s, now) /\ WithRow(state, s, row) = NewRow(s, call[c].content, now)
        /\ now \in 0..now
    BY <1>2, <1>3, NoLaterThanNow DEF CanAdd, NewRow
  <2>4. \E t \in 0..now, content \in Contents :
           (CanAdd(s, t) /\ draft[c] = NewRow(s, content, t))'
    BY <1>2, <2>2, <2>3 DEF CanAdd, NewRow, NoLater, OwnEvents
  <2>5. Work(c)'
    BY <1>2, <2>1, <2>2, <2>4 DEF Work, Inside, Callback
  <2> QED
    BY <1>2, <1>3, <2>1, <2>2, <2>5, ContinueIInv DEF Callback
<1>4. CASE Fail(c)
  BY <1>2, <1>4, FailIInv
<1> QED
  BY <1>3, <1>4 DEF Register

LEMMA UpdateIInv ==
    ASSUME IInv, NEW c \in Callers, Update(c)
    PROVE  IInv'
<1>1. HasTurn(c) /\ call[c].op = "update"
  BY DEF Update
<1>2. /\ InChain(c) /\ ticket[c] = released /\ call[c].sub \in Subjects
      /\ call[c] \in Arguments /\ state \in State
  BY <1>1, CalledWith DEF IInv, TypeOK
<1>3. CASE /\ state.subordinates[call[c].sub] # NoRecord /\ UNCHANGED call
           /\ Continue(c, "updateRow", state)
  <2>1. /\ pc'[c] = "updateRow" /\ draft'[c] = state
        /\ state' = state /\ now' = now /\ call' = call
        /\ DOMAIN call' = Callers /\ \A e \in Callers : e # c => call'[e] = call[e]
    BY <1>3, Continued
  <2>2. Work(c)'
    BY <1>1, <1>2, <1>3, <2>1 DEF Work, Inside, Callback
  <2> QED
    BY <1>2, <1>3, <2>1, <2>2, ContinueIInv DEF Callback
<1>4. CASE Fail(c)
  BY <1>2, <1>4, FailIInv
<1> QED
  BY <1>3, <1>4 DEF Update

(* Updates keep records well formed.                                       *)
LEMMA UpdatedContent ==
    ASSUME NEW old \in Contents, NEW new \in Updates
    PROVE  Updated(old, new) \in Contents
  BY InputAssumption DEF Updated, Merge, Contents

(* In the callback, the caller has the turn.                               *)
LEMMA InsideHasTurn ==
    ASSUME IInv, NEW c \in Callers, Inside(c)
    PROVE  /\ InChain(c) /\ ticket[c] = released
           /\ call[c].sub \in Subjects /\ draft[c] \in State /\ Work(c)
           /\ state \in State /\ now \in 0..MaxTime /\ now \in Nat
<1>1. InChain(c) /\ ticket[c] = released
  BY DEF IInv, Turns, InChain
<1>2. Work(c)
  BY DEF IInv, WorkDone
<1>3. call[c].sub \in Subjects /\ draft[c] \in State
  BY <1>2 DEF Work
<1>4. state \in State /\ now \in 0..MaxTime /\ now \in Nat
  BY BoundAssumption DEF IInv, TypeOK
<1> QED
  BY <1>1, <1>2, <1>3, <1>4

LEMMA UpdateRowIInv ==
    ASSUME IInv, NEW c \in Callers, UpdateRow(c)
    PROVE  IInv'
<1> DEFINE s == call[c].sub
           before == draft[c].subordinates[s]
           row == [before EXCEPT !.content = Updated(@, call[c].updates),
                                 !.updatedAt = now]
           k == [op |-> "diff", sub |-> s, before |-> before.content]
<1>1. pc[c] = "updateRow" /\ Inside(c)
  BY DEF UpdateRow, Inside, Callback
<1>2. /\ InChain(c) /\ ticket[c] = released /\ s \in Subjects
      /\ draft[c] = state /\ state \in State /\ state.subordinates[s] # NoRecord
      /\ call[c] \in Arguments /\ call[c].op = "update" /\ now \in Nat
  BY <1>1, InsideHasTurn DEF Work
<1>3. before \in Row /\ call[c].updates \in Updates
  BY <1>2 DEF State, Arguments
<1>4. /\ row = [content |-> Updated(before.content, call[c].updates),
                createdAt |-> before.createdAt, updatedAt |-> now]
      /\ row \in Row /\ Updated(before.content, call[c].updates) \in Contents
  <2>1. Updated(before.content, call[c].updates) \in Contents
    BY <1>3, UpdatedContent DEF Row
  <2>2. /\ row \in Row /\ row.content = Updated(before.content, call[c].updates)
        /\ row.createdAt = before.createdAt /\ row.updatedAt = now
    <3> HIDE DEF before
    <3> QED
      BY <1>2, <1>3, <2>1 DEF Row
  <2> HIDE DEF row, before
  <2> QED
    BY <2>1, <2>2 DEF Row
<1>5. CASE Continue(c, "diff", WithRow(draft[c], s, row)) /\ call' = [call EXCEPT ![c] = k]
  <2>1. WithRow(state, s, row) \in State
    BY <1>2, <1>4, WithRowShape
  <2>2. /\ pc'[c] = "diff" /\ draft'[c] = WithRow(state, s, row)
        /\ state' = state /\ now' = now
    BY <1>2, <1>5, Continued
  <2>3. /\ call'[c] = k /\ DOMAIN call' = Callers
        /\ \A e \in Callers : e # c => call'[e] = call[e]
    BY <1>5 DEF IInv, TypeOK
  <2>4. /\ CanChange(s, now) /\ now \in 0..now
        /\ WithRow(state, s, row) =
              ChangedRow(s, Updated(before.content, call[c].updates), now)
    BY <1>2, <1>4, NoLaterThanNow DEF ChangedRow
  <2>5. call'[c].sub = s /\ call'[c].before = state.subordinates[s].content
    BY <1>2, <2>3
  <2>6. \E t \in 0..now', content \in Contents :
          (CanChange(call[c].sub, t) /\ draft[c] = ChangedRow(call[c].sub, content, t))'
    <3> HIDE DEF s, before, row
    <3> QED
      BY <1>4, <2>2, <2>4, <2>5, SameState
  <2>7. Work(c)'
    BY <1>2, <2>1, <2>2, <2>5, <2>6 DEF Work, Inside, Callback
  <2> QED
    BY <1>2, <1>5, <2>1, <2>3, <2>7, ContinueIInv DEF Callback
<1>6. CASE Fail(c)
  BY <1>2, <1>6, FailIInv
<1> QED
  BY <1>5, <1>6 DEF UpdateRow

LEMMA RevokeIInv ==
    ASSUME IInv, NEW c \in Callers, Revoke(c)
    PROVE  IInv'
<1> DEFINE s == call[c].sub
<1>1. HasTurn(c)
  BY DEF Revoke
<1>2. InChain(c) /\ ticket[c] = released /\ s \in Subjects /\ state \in State
  BY <1>1, CalledWith DEF IInv, TypeOK
<1>3. CASE /\ state.subordinates[s] # NoRecord /\ UNCHANGED call
           /\ Continue(c, "appendRevocation", WithRow(state, s, NoRecord))
  <2>1. WithRow(state, s, NoRecord) \in State
    BY <1>2, WithRowShape
  <2>2. /\ pc'[c] = "appendRevocation" /\ draft'[c] = WithRow(state, s, NoRecord)
        /\ state' = state /\ now' = now /\ call' = call
        /\ DOMAIN call' = Callers /\ \A e \in Callers : e # c => call'[e] = call[e]
    BY <1>3, Continued
  <2>3. Work(c)'
    BY <1>2, <1>3, <2>1, <2>2 DEF Work, Inside, Callback
  <2> QED
    BY <1>2, <1>3, <2>1, <2>2, <2>3, ContinueIInv DEF Callback
<1>4. CASE Fail(c)
  BY <1>2, <1>4, FailIInv
<1> QED
  BY <1>3, <1>4 DEF Revoke

(* The second half of an operation completes it.                           *)
LEMMA AppendEventsIInv ==
    ASSUME IInv, NEW c \in Callers, AppendEvents(c)
    PROVE  IInv'
<1> DEFINE s == call[c].sub
           row == draft[c].subordinates[s]
<1>1. Inside(c) /\ UNCHANGED call
  BY DEF AppendEvents, Inside, Callback
<1>2. /\ InChain(c) /\ ticket[c] = released /\ s \in Subjects /\ draft[c] \in State
      /\ Work(c) /\ state \in State /\ now \in Nat
  BY <1>1, InsideHasTurn
<1>3. ASSUME NEW events \in Seq(Event),
             Continue(c, "commit", WithEvents(draft[c], s, events)),
             Explained(WithEvents(draft[c], s, events), s)
      PROVE  IInv'
  <2> DEFINE d == WithEvents(draft[c], s, events)
  <2>1. d \in State
    BY <1>2, WithEventsShape
  <2>2. /\ pc'[c] = "commit" /\ draft'[c] = d /\ UNCHANGED <<state, now>>
        /\ DOMAIN call' = Callers /\ \A e \in Callers : e # c => call'[e] = call[e]
    BY <1>1, <1>3, Continued
  <2>3. Explained(draft[c], call[c].sub)'
    <3> HIDE DEF d
    <3>1. Explained(d, s)
      BY <1>3 DEF d
    <3> QED
      BY <1>1, <2>2, <3>1, SameState
  <2>4. Work(c)'
    BY <1>1, <1>2, <2>1, <2>2, <2>3 DEF Work, Inside, Callback
  <2> QED
    BY <1>2, <1>3, <2>1, <2>2, <2>4, ContinueIInv DEF Callback
<1>4. CASE /\ pc[c] = "appendRegistration"
           /\ Continue(c, "commit", WithEvents(draft[c], s,
                       Stamp(<<"registration">>, row.createdAt)))
  <2>1. PICK t \in 0..now, content \in Contents :
           CanAdd(s, t) /\ draft[c] = NewRow(s, content, t)
    BY <1>2, <1>4 DEF Work
  <2>2. row.createdAt = t /\ t \in Nat
    BY <1>2, <2>1 DEF NewRow, WithRow, State
  <2>3. Stamp(<<"registration">>, t) \in Seq(Event)
    BY <2>2, StampOne DEF EventTypes
  <2>4. Explained(WithEvents(draft[c], s, Stamp(<<"registration">>, t)), s)
    BY <1>2, <2>1 DEF Explained, CanAdd
  <2> QED
    BY <1>3, <1>4, <2>2, <2>3, <2>4
<1>5. CASE /\ pc[c] = "appendRevocation"
           /\ Continue(c, "commit", WithEvents(draft[c], s, Stamp(<<"revocation">>, now)))
  <2>1. state.subordinates[s] # NoRecord /\ draft[c] = WithRow(state, s, NoRecord)
    BY <1>2, <1>5 DEF Work
  <2>2. NoLater(s, now) /\ now \in 0..now
    BY <1>2, NoLaterThanNow
  <2>3. Stamp(<<"revocation">>, now) \in Seq(Event)
    BY <1>2, StampOne DEF EventTypes
  <2>4. Explained(WithEvents(draft[c], s, Stamp(<<"revocation">>, now)), s)
    BY <2>1, <2>2 DEF Explained
  <2> QED
    BY <1>3, <1>5, <2>3, <2>4
<1>6. CASE /\ pc[c] = "diff"
           /\ Continue(c, "commit", WithEvents(draft[c], s,
                       Stamp(Changes(call[c].before, row.content), now)))
  <2>1. PICK u \in 0..now, content \in Contents :
           CanChange(s, u) /\ draft[c] = ChangedRow(s, content, u)
    BY <1>2, <1>6 DEF Work
  <2>2. call[c].before = state.subordinates[s].content
    BY <1>2, <1>6 DEF Work
  <2>3. row.content = content
    BY <1>2, <2>1 DEF ChangedRow, WithRow, State
  <2>4. state.subordinates[s].content \in Contents
    BY <1>2, <2>1 DEF CanChange, State, Row
  <2>5. Changes(call[c].before, row.content) \in Seq(EventTypes)
    <3>1. Changes(call[c].before, row.content) \in
             Seq({"metadata_update", "metadata_policy_update", "jwks_update"})
      BY <2>2, <2>3, <2>4, ChangesShape
    <3> QED
      BY <3>1, SeqMonotonic DEF EventTypes
  <2>6. Stamp(Changes(call[c].before, row.content), now) \in Seq(Event)
    BY <1>2, <2>5, StampShape
  <2>7. NoLater(s, now) /\ now \in 0..now
    BY <1>2, NoLaterThanNow
  <2>8. Explained(WithEvents(draft[c], s,
            Stamp(Changes(call[c].before, row.content), now)), s)
    <3> HIDE DEF s, row
    <3> QED
      BY <2>1, <2>2, <2>3, <2>7 DEF Explained
  <2> QED
    BY <1>3, <1>6, <2>6, <2>8
<1> QED
  BY <1>4, <1>5, <1>6 DEF AppendEvents

LEMMA RecordEventsIInv ==
    ASSUME IInv, NEW c \in Callers, RecordEvents(c)
    PROVE  IInv'
<1> DEFINE s == call[c].sub
           d == WithEvents(state, s, Stamp(<<"custom">>, 0))
<1>1. HasTurn(c) /\ Continue(c, "commit", d) /\ UNCHANGED call
  BY DEF RecordEvents
<1>2. InChain(c) /\ ticket[c] = released /\ s \in Subjects /\ state \in State
  BY <1>1, CalledWith DEF IInv, TypeOK
<1>3. d \in State
  <2>1. Stamp(<<"custom">>, 0) \in Seq(Event)
    BY StampOne DEF EventTypes
  <2> QED
    BY <1>2, <2>1, WithEventsShape
<1>4. /\ pc'[c] = "commit" /\ draft'[c] = d /\ UNCHANGED <<state, now>>
      /\ DOMAIN call' = Callers /\ \A e \in Callers : e # c => call'[e] = call[e]
  BY <1>1, Continued
<1>5. Explained(draft[c], call[c].sub)'
  <2>1. NoLater(s, now) /\ now \in 0..now
    BY <1>2, NoLaterThanNow
  <2>2. Explained(d, s)
    BY <2>1 DEF Explained
  <2> HIDE DEF d
  <2> QED
    BY <1>1, <1>4, <2>2, SameState
<1>6. Work(c)'
  BY <1>1, <1>2, <1>3, <1>4, <1>5 DEF Work, Inside, Callback
<1> QED
  BY <1>1, <1>2, <1>3, <1>4, <1>6, ContinueIInv DEF Callback

LEMMA OwnTransactionIInv ==
    ASSUME IInv, NEW c \in Callers, OwnTransaction(c)
    PROVE  IInv'
<1> DEFINE d == WithRow(state, call[c].sub, NoRecord)
<1>1. CASE HasTurn(c) /\ Continue(c, "throw", d) /\ UNCHANGED call
  <2>1. InChain(c) /\ ticket[c] = released /\ call[c].sub \in Subjects /\ state \in State
    BY <1>1, CalledWith DEF IInv, TypeOK
  <2>2. d \in State
    BY <2>1, WithRowShape
  <2>3. /\ pc'[c] = "throw" /\ draft'[c] = d /\ state' = state /\ now' = now
        /\ DOMAIN call' = Callers /\ \A e \in Callers : e # c => call'[e] = call[e]
    BY <1>1, Continued
  <2>4. Work(c)'
    BY <1>1, <2>1, <2>2, <2>3 DEF Work, Inside, Callback
  <2> QED
    BY <1>1, <2>1, <2>2, <2>3, <2>4, ContinueIInv DEF Callback
<1>2. CASE pc[c] = "throw" /\ Fail(c)
  BY <1>2, InsideHasTurn, FailIInv DEF Inside, Callback
<1> QED
  BY <1>1, <1>2 DEF OwnTransaction

LEMMA ListEventsIInv ==
    ASSUME IInv, NEW c \in Callers, ListEvents(c)
    PROVE  IInv'
<1>1. HasTurn(c) /\ Continue(c, "lookUp", state) /\ UNCHANGED call
  BY DEF ListEvents
<1>2. InChain(c) /\ ticket[c] = released /\ call[c].sub \in Subjects /\ state \in State
  BY <1>1, CalledWith DEF IInv, TypeOK
<1>3. /\ pc'[c] = "lookUp" /\ draft'[c] = state /\ state' = state /\ now' = now
      /\ DOMAIN call' = Callers /\ \A e \in Callers : e # c => call'[e] = call[e]
  BY <1>1, Continued
<1>4. Work(c)'
  BY <1>1, <1>2, <1>3 DEF Work, Inside, Callback
<1> QED
  BY <1>1, <1>2, <1>3, <1>4, ContinueIInv DEF Callback

(* The transaction of an issuer looks again: no valid mark, or a winner.   *)
LEMMA ChooseMarkIInv ==
    ASSUME IInv, NEW c \in Callers, ChooseMark(c)
    PROVE  IInv'
<1> DEFINE s == call[c].sub
           valid == GetValid(state, s, call[c].at)
<1>1. HasTurn(c) /\ call[c].op = "issue"
  BY DEF ChooseMark
<1>2. /\ InChain(c) /\ ticket[c] = released /\ s \in Subjects /\ state \in State
      /\ call[c] \in IssueCall /\ call[c].at <= now
  BY <1>1, CalledWith DEF IInv, TypeOK
<1>3. CASE /\ \E j \in valid : call' = [call EXCEPT ![c].jwt = j]
           /\ Continue(c, "selected", state)
  <2>1. PICK j \in valid : call' = [call EXCEPT ![c].jwt = j]
    BY <1>3
  <2>2. j \in BoundedJwt /\ state.trustMarks[j] = "active"
    BY DEF GetValid, ValidMarks
  <2>3. /\ call'[c].jwt = j /\ call'[c].sub = s /\ DOMAIN call' = Callers
        /\ \A e \in Callers : e # c => call'[e] = call[e]
    BY <1>2, <2>1 DEF IInv, TypeOK, IssueCall
  <2>4. pc'[c] = "selected" /\ draft'[c] = state /\ state' = state /\ now' = now
    BY <1>3, Continued
  <2>5. Work(c)'
    BY <1>2, <2>2, <2>3, <2>4 DEF Work, Inside, Callback
  <2> QED
    BY <1>2, <1>3, <2>3, <2>5, ContinueIInv DEF Callback
<1>4. CASE valid = {} /\ Continue(c, "issue", state) /\ UNCHANGED call
  <2>1. ValidMarks(state, s, call[c].at) = {}
    BY <1>4, NoValidMark
  <2>2. /\ pc'[c] = "issue" /\ draft'[c] = state /\ UNCHANGED <<state, now>>
        /\ DOMAIN call' = Callers /\ \A e \in Callers : e # c => call'[e] = call[e]
    BY <1>4, Continued
  <2>3. Work(c)'
    BY <1>2, <1>4, <2>1, <2>2, SameState DEF Work, Inside, Callback
  <2> QED
    BY <1>2, <1>4, <2>2, <2>3, ContinueIInv DEF Callback
<1> QED
  BY <1>3, <1>4 DEF ChooseMark

LEMMA IssueMarkIInv ==
    ASSUME IInv, NEW c \in Callers, IssueMark(c)
    PROVE  IInv'
<1> DEFINE j == call[c].jwt
           d == [state EXCEPT !.trustMarks[j] = IF @ = "none" THEN "active" ELSE @]
<1>1. pc[c] = "issue" /\ Inside(c) /\ UNCHANGED call
  BY DEF IssueMark, Inside, Callback
<1>2. /\ InChain(c) /\ ticket[c] = released /\ call[c].sub \in Subjects /\ state \in State
      /\ call[c] \in IssueCall /\ call[c].at <= now
      /\ draft[c] = state /\ ValidMarks(state, call[c].sub, call[c].at) = {}
  BY <1>1, InsideHasTurn DEF Work
<1>3. Continue(c, "selected", d)
  BY <1>2 DEF IssueMark
<1>4. d \in State
  BY <1>2 DEF State, IssueCall
<1>5. /\ pc'[c] = "selected" /\ draft'[c] = d /\ UNCHANGED <<state, now>>
      /\ DOMAIN call' = Callers /\ \A e \in Callers : e # c => call'[e] = call[e]
  BY <1>1, <1>3, Continued
<1>6. Work(c)'
  BY <1>1, <1>2, <1>4, <1>5, SameState DEF Work, Inside, Callback
<1> QED
  BY <1>2, <1>3, <1>4, <1>5, <1>6, ContinueIInv DEF Callback
----------------------------------------------------------------------------
(* TimesConsistent, subject by subject.                                    *)
EventsOrdered(s) ==
    \A i, j \in OwnEvents(s) : i <= j =>
        /\ state.events[s][i].iat <= state.events[s][j].iat
        /\ state.events[s][j].iat <= now
RowDated(s) ==
    LET row == state.subordinates[s]
    IN  row # NoRecord /\ s \notin Untracked =>
          /\ row.createdAt <= row.updatedAt /\ row.updatedAt <= now
          /\ \E i \in OwnEvents(s) :
                /\ state.events[s][i] = [event |-> "registration", iat |-> row.createdAt]
                /\ \A j \in OwnEvents(s) : j > i =>
                      state.events[s][j].event \notin {"registration", "revocation"}

LEMMA BySubject == TimesConsistent <=> \A s \in Subjects : EventsOrdered(s) /\ RowDated(s)
  BY DEF TimesConsistent, EventsOrdered, RowDated

(* A concatenation, index by index.                                        *)
LEMMA ConcatAt ==
    ASSUME NEW S, NEW a \in Seq(S), NEW b \in Seq(S)
    PROVE  /\ Len(a) \in Nat /\ Len(b) \in Nat
           /\ a \o b \in [1..(Len(a) + Len(b)) -> S]
           /\ \A i \in 1..Len(a) : (a \o b)[i] = a[i]
           /\ \A i \in 1..Len(b) : (a \o b)[Len(a) + i] = b[i]
<1>1. Len(a) \in Nat /\ Len(b) \in Nat
  BY LenProperties
<1>2. a \o b \in Seq(S) /\ Len(a \o b) = Len(a) + Len(b)
  BY ConcatProperties
<1>3. a \o b \in [1..(Len(a) + Len(b)) -> S]
  BY <1>2, LenProperties
<1>4. \A i \in 1..(Len(a) + Len(b)) :
         (a \o b)[i] = IF i <= Len(a) THEN a[i] ELSE b[i - Len(a)]
  BY ConcatProperties
<1> QED
  BY <1>1, <1>3, <1>4

(* A history extended by events, those of the authority all dated t.       *)
LEMMA EventsAppended ==
    ASSUME IInv, NEW s \in Subjects, NEW t \in 0..now, NEW new \in Seq(Event),
           NoLater(s, t), now' = now, state'.events[s] = state.events[s] \o new,
           \A i \in 1..Len(new) : new[i].event # "custom" => new[i].iat = t
    PROVE  /\ Len(state.events[s]) \in Nat
           /\ state'.events[s] \in Seq(Event)
           /\ Len(state'.events[s]) = Len(state.events[s]) + Len(new)
           /\ \A i \in 1..Len(state.events[s]) : state'.events[s][i] = state.events[s][i]
           /\ \A i \in 1..Len(new) : state'.events[s][Len(state.events[s]) + i] = new[i]
           /\ OwnEvents(s) \subseteq OwnEvents(s)'
           /\ \A i \in OwnEvents(s)' :
                 \/ i \in OwnEvents(s)
                 \/ /\ i - Len(state.events[s]) \in 1..Len(new)
                    /\ new[i - Len(state.events[s])].event # "custom"
           /\ EventsOrdered(s)'
<1> DEFINE E == state.events[s]
<1>1. E \in Seq(Event) /\ now \in Nat
  BY BoundAssumption DEF IInv, TypeOK, State
<1>2. EventsOrdered(s)
  BY BySubject DEF IInv
<1>3. /\ Len(E) \in Nat /\ Len(new) \in Nat /\ DOMAIN E = 1..Len(E) /\ DOMAIN new = 1..Len(new)
      /\ \A i \in 1..Len(E) : E[i].iat \in Nat
  <2>1. \A x \in Event : x.iat \in Nat
    BY DEF Event
  <2> QED
    BY <1>1, <2>1, LenProperties, ElementOfSeq
<1>4. /\ E \o new \in Seq(Event) /\ Len(E \o new) = Len(E) + Len(new)
      /\ DOMAIN (E \o new) = 1..(Len(E) + Len(new))
      /\ \A i \in 1..Len(E) : (E \o new)[i] = E[i]
      /\ \A i \in 1..Len(new) : (E \o new)[Len(E) + i] = new[i]
  <2>1. E \o new \in Seq(Event) /\ Len(E \o new) = Len(E) + Len(new)
    BY <1>1
  <2>2. /\ E \o new \in [1..(Len(E) + Len(new)) -> Event]
        /\ \A i \in 1..Len(E) : (E \o new)[i] = E[i]
        /\ \A i \in 1..Len(new) : (E \o new)[Len(E) + i] = new[i]
    <3> HIDE DEF E
    <3> QED
      BY <1>1, ConcatAt
  <2> HIDE DEF E
  <2>3. DOMAIN (E \o new) = 1..(Len(E) + Len(new))
    BY <2>2
  <2> QED
    BY <2>1, <2>2, <2>3, Zenon
<1> DEFINE F == state'.events[s]
<1>5. /\ F \in Seq(Event) /\ Len(F) = Len(E) + Len(new)
      /\ DOMAIN F = 1..(Len(E) + Len(new))
      /\ \A i \in 1..Len(E) : F[i] = E[i]
      /\ \A i \in 1..Len(new) : F[Len(E) + i] = new[i]
  BY <1>4
<1>6. /\ OwnEvents(s) = {i \in 1..Len(E) : E[i].event # "custom"}
      /\ OwnEvents(s)' = {i \in 1..(Len(E) + Len(new)) : F[i].event # "custom"}
  BY <1>3, <1>5 DEF OwnEvents
<1> HIDE DEF E, F
<1>7. OwnEvents(s) \subseteq OwnEvents(s)'
  BY <1>3, <1>5, <1>6
<1>8. \A i \in OwnEvents(s)' :
         \/ i \in OwnEvents(s) /\ F[i] = E[i]
         \/ /\ i - Len(E) \in 1..Len(new) /\ i > Len(E)
            /\ new[i - Len(E)].event # "custom"
            /\ F[i].iat = t
  <2> SUFFICES ASSUME NEW i \in OwnEvents(s)'
               PROVE  \/ i \in OwnEvents(s) /\ F[i] = E[i]
                      \/ /\ i - Len(E) \in 1..Len(new) /\ i > Len(E)
                         /\ new[i - Len(E)].event # "custom"
                         /\ F[i].iat = t
    OBVIOUS
  <2>1. CASE i <= Len(E)
    BY <1>3, <1>5, <1>6, <2>1
  <2>2. CASE i > Len(E)
    <3>1. i - Len(E) \in 1..Len(new) /\ i = Len(E) + (i - Len(E))
      BY <1>3, <1>6, <2>2
    <3>2. F[i] = new[i - Len(E)]
      BY <1>5, <3>1
    <3> QED
      BY <1>6, <2>2, <3>1, <3>2
  <2> QED
    BY <1>3, <1>6, <2>1, <2>2
<1>9. EventsOrdered(s)'
  <2>1. \A i \in OwnEvents(s) : E[i].iat <= t /\ E[i].iat \in Nat /\ i <= Len(E)
    BY <1>3, <1>6 DEF NoLater, E
  <2>2. \A i, j \in OwnEvents(s) : i <= j => E[i].iat <= E[j].iat /\ E[j].iat <= now
    BY <1>2 DEF EventsOrdered, E
  <2>3. \A i \in OwnEvents(s)' : i \in Int
    BY <1>6
  <2>4. \A i, j \in OwnEvents(s)' : i <= j => F[i].iat <= F[j].iat /\ F[j].iat <= now
    BY <1>1, <1>3, <1>8, <2>1, <2>2, <2>3, SMTT(30)
  <2> QED
    BY <2>4 DEF EventsOrdered, F
<1> QED
  BY <1>3, <1>5, <1>7, <1>8, <1>9 DEF E, F

(* The row of a subject whose history grows without a registration or a    *)
(* revocation stays explained by the registration it had.                  *)
LEMMA RowStaysDated ==
    ASSUME IInv, NEW s \in Subjects, NEW t \in 0..now, NEW new \in Seq(Event),
           NoLater(s, t), now' = now, state'.events[s] = state.events[s] \o new,
           \A i \in 1..Len(new) : new[i].event # "custom" => new[i].iat = t,
           \A i \in 1..Len(new) : new[i].event \notin {"registration", "revocation"},
           state.subordinates[s] # NoRecord, s \notin Untracked,
           state'.subordinates[s].createdAt = state.subordinates[s].createdAt,
           state.subordinates[s].createdAt \in Nat,
           state.subordinates[s].updatedAt \in Nat,
           NEW u \in 0..now, state'.subordinates[s].updatedAt = u,
           state.subordinates[s].updatedAt <= u
    PROVE  RowDated(s)'
<1> DEFINE E == state.events[s]
           F == state'.events[s]
           created == state.subordinates[s].createdAt
<1>1. /\ Len(E) \in Nat
      /\ \A i \in 1..Len(E) : F[i] = E[i]
      /\ \A i \in 1..Len(new) : F[Len(E) + i] = new[i]
      /\ OwnEvents(s) \subseteq OwnEvents(s)'
      /\ \A i \in OwnEvents(s)' : i \in OwnEvents(s) \/ i - Len(E) \in 1..Len(new)
  BY EventsAppended
<1>2. /\ created <= state.subordinates[s].updatedAt
      /\ \E i \in OwnEvents(s) :
            /\ E[i] = [event |-> "registration", iat |-> created]
            /\ \A j \in OwnEvents(s) : j > i => E[j].event \notin {"registration", "revocation"}
  BY BySubject DEF IInv, RowDated
<1>3. PICK i \in OwnEvents(s) :
            /\ E[i] = [event |-> "registration", iat |-> created]
            /\ \A j \in OwnEvents(s) : j > i => E[j].event \notin {"registration", "revocation"}
  BY <1>2
<1>4. OwnEvents(s) \subseteq 1..Len(E) /\ \A j \in OwnEvents(s)' : j \in Int
  BY DEF OwnEvents, IInv, TypeOK, State
<1>5. F[i] = [event |-> "registration", iat |-> created] /\ i \in OwnEvents(s)'
  BY <1>1, <1>3, <1>4
<1>6. ASSUME NEW j \in OwnEvents(s)', j > i
      PROVE  F[j].event \notin {"registration", "revocation"}
  <2>1. CASE j \in OwnEvents(s)
    BY <1>1, <1>3, <1>4, <1>6, <2>1
  <2>2. CASE j - Len(E) \in 1..Len(new)
    <3>1. j = Len(E) + (j - Len(E))
      BY <1>1, <1>4
    <3>2. F[j] = new[j - Len(E)]
      BY <1>1, <2>2, <3>1
    <3> QED
      BY <2>2, <3>2
  <2> QED
    BY <1>1, <2>1, <2>2
<1>7. created <= u /\ u <= now
  BY <1>2, BoundAssumption DEF IInv, TypeOK
<1> QED
  BY <1>5, <1>6, <1>7 DEF RowDated

(* A new row is explained by the registration appended with it.            *)
LEMMA RowBecomesDated ==
    ASSUME IInv, NEW s \in Subjects, NEW t \in 0..now, NoLater(s, t), now' = now,
           state'.events[s] = state.events[s] \o Stamp(<<"registration">>, t),
           state'.subordinates[s].createdAt = t, state'.subordinates[s].updatedAt = t
    PROVE  RowDated(s)'
<1> DEFINE E == state.events[s]
           F == state'.events[s]
           new == Stamp(<<"registration">>, t)
           n == Len(E) + 1
<1>1. new \in Seq(Event) /\ Len(new) = 1 /\ new[1] = [event |-> "registration", iat |-> t]
      /\ t \in Nat
  BY StampOne, BoundAssumption DEF EventTypes, IInv, TypeOK
<1> HIDE DEF new
<1>2. /\ Len(E) \in Nat /\ F \in Seq(Event) /\ Len(F) = n /\ F[n] = new[1]
      /\ \A i \in OwnEvents(s)' : i \in OwnEvents(s) \/ i - Len(E) \in 1..1
  <2>1. \A i \in 1..Len(new) : new[i].event # "custom" => new[i].iat = t
    BY <1>1
  <2>2. F = E \o new
    BY DEF new
  <2>3. /\ Len(E) \in Nat /\ F \in Seq(Event) /\ Len(F) = Len(E) + Len(new)
        /\ \A i \in 1..Len(new) : F[Len(E) + i] = new[i]
        /\ \A i \in OwnEvents(s)' : i \in OwnEvents(s) \/ i - Len(E) \in 1..Len(new)
    BY <1>1, <2>1, <2>2, EventsAppended
  <2> QED
    BY <1>1, <2>3
<1>3. n \in OwnEvents(s)'
  <2>1. DOMAIN F = 1..n /\ n \in 1..n
    BY <1>2, LenProperties
  <2>2. F[n].event # "custom"
    BY <1>1, <1>2
  <2> HIDE DEF n
  <2> QED
    BY <2>1, <2>2 DEF OwnEvents
<1>4. \A j \in OwnEvents(s)' : ~(j > n)
  <2>1. OwnEvents(s)' \subseteq 1..n
    BY <1>2, LenProperties DEF OwnEvents
  <2> QED
    BY <1>2, <2>1
<1>5. t <= t /\ t <= now
  BY BoundAssumption DEF IInv, TypeOK
<1> QED
  BY <1>1, <1>2, <1>3, <1>4, <1>5 DEF RowDated

(* Histories only grow, so what was answered remains a prefix of them.     *)
LEMMA AnswersStand ==
    ASSUME IInv, \A s \in Subjects : \E new \in Seq(Event) :
                    state'.events[s] = state.events[s] \o new,
           NEW h \in Responses, h.kind = "history",
           LET E == state.events[h.sub]
           IN  Len(h.events) <= Len(E) /\ h.events = SubSeq(E, 1, Len(h.events))
    PROVE  LET F == state'.events[h.sub]
           IN  Len(h.events) <= Len(F) /\ h.events = SubSeq(F, 1, Len(h.events))
<1> DEFINE E == state.events[h.sub]
           n == Len(h.events)
<1>1. h.sub \in Subjects /\ h.events \in Seq(Event)
  BY DEF Responses
<1>2. PICK new \in Seq(Event) : state'.events[h.sub] = E \o new
  BY <1>1
<1>3. E \in Seq(Event) /\ Len(E) \in Nat
  BY <1>1 DEF IInv, TypeOK, State
<1>4. n \in Nat /\ n <= Len(E)
  BY <1>1
<1>5. SubSeq(E \o new, 1, n) = SubSeq(E, 1, n)
  <2>1. CASE n = 0
    BY <2>1, <1>3
  <2>2. CASE n # 0
    <3>1. n \in 1..Len(E) /\ 1 \in 1..Len(E)
      BY <1>3, <1>4, <2>2
    <3> QED
      BY <1>3, <3>1, SubSeqOfConcat1
  <2> QED
    BY <2>1, <2>2
<1>6. Len(E \o new) = Len(E) + Len(new) /\ Len(new) \in Nat
  BY <1>3, ConcatProperties, LenProperties
<1> QED
  BY <1>2, <1>3, <1>4, <1>5, <1>6

(* One lifecycle operation, committed.                                     *)
LEMMA Committed ==
    ASSUME IInv, NEW s \in Subjects, NEW d, Explained(d, s), state' = d, now' = now
    PROVE  /\ TimesConsistent'
           /\ state'.trustMarks = state.trustMarks
           /\ \A x \in Subjects : \E new \in Seq(Event) :
                 state'.events[x] = state.events[x] \o new
<1>1. state \in State /\ now \in Nat
  BY BoundAssumption DEF IInv, TypeOK
<1>2. ASSUME NEW half \in State, half.events = state.events,
             half.trustMarks = state.trustMarks,
             \A x \in Subjects : x # s => half.subordinates[x] = state.subordinates[x],
             NEW new \in Seq(Event), d = WithEvents(half, s, new),
             EventsOrdered(s)', RowDated(s)'
      PROVE  /\ TimesConsistent'
             /\ state'.trustMarks = state.trustMarks
             /\ \A x \in Subjects : \E h \in Seq(Event) :
                   state'.events[x] = state.events[x] \o h
  <2>1. /\ state'.subordinates = half.subordinates
        /\ state'.events = [state.events EXCEPT ![s] = state.events[s] \o new]
        /\ state'.trustMarks = state.trustMarks
    <3>1. /\ d.subordinates = half.subordinates
          /\ d.events = [half.events EXCEPT ![s] = half.events[s] \o new]
          /\ d.trustMarks = half.trustMarks
      BY <1>2, WithEventsShape
    <3>2. state' = d
      OBVIOUS
    <3> QED
      BY <1>2, <3>1, <3>2
  <2>2. \A x \in Subjects : x # s =>
           /\ state'.events[x] = state.events[x]
           /\ state'.subordinates[x] = state.subordinates[x]
    BY <1>1, <1>2, <2>1 DEF State
  <2>3. \A x \in Subjects : x # s => EventsOrdered(x)' /\ RowDated(x)'
    <3> SUFFICES ASSUME NEW x \in Subjects, x # s PROVE EventsOrdered(x)' /\ RowDated(x)'
      OBVIOUS
    <3>1. EventsOrdered(x) /\ RowDated(x)
      BY BySubject DEF IInv
    <3>2. /\ state'.events[x] = state.events[x] /\ OwnEvents(x)' = OwnEvents(x)
          /\ state'.subordinates[x] = state.subordinates[x]
      BY <2>2 DEF OwnEvents
    <3> QED
      BY <3>1, <3>2 DEF EventsOrdered, RowDated
  <2>4. TimesConsistent'
    BY <1>2, <2>3, BySubject, SMTT(30) DEF TimesConsistent, EventsOrdered, RowDated
  <2>5. ASSUME NEW x \in Subjects
        PROVE  \E h \in Seq(Event) : state'.events[x] = state.events[x] \o h
    <3>1. CASE x = s
      BY <1>1, <2>1, <3>1 DEF State
    <3>2. CASE x # s
      <4>1. /\ state.events[x] \in Seq(Event) /\ <<>> \in Seq(Event)
        BY <1>1 DEF State
      <4>2. state.events[x] \o <<>> = state.events[x]
        BY <4>1, ConcatEmptySeq
      <4> QED
        BY <2>2, <3>2, <4>1, <4>2
    <3> QED
      BY <3>1, <3>2
  <2> QED
    BY <2>1, <2>4, <2>5
<1>3. PICK t \in 0..now, u \in 0..now :
        /\ NoLater(s, t)
        /\ \/ \E content \in Contents :
                /\ CanAdd(s, t)
                /\ d = WithEvents(NewRow(s, content, t), s, Stamp(<<"registration">>, t))
           \/ \E content \in Contents :
                /\ CanChange(s, u)
                /\ d = WithEvents(ChangedRow(s, content, u), s,
                         Stamp(Changes(state.subordinates[s].content, content), t))
           \/ /\ state.subordinates[s] # NoRecord
              /\ d = WithEvents(WithRow(state, s, NoRecord), s, Stamp(<<"revocation">>, t))
           \/ d = WithEvents(state, s, Stamp(<<"custom">>, 0))
  BY DEF Explained
<1>4. t \in Nat /\ u \in Nat
  BY <1>1

<1>5. ASSUME NEW half \in State, half.events = state.events,
             NEW new \in Seq(Event), d = WithEvents(half, s, new),
             \A i \in 1..Len(new) : new[i].event # "custom" => new[i].iat = t
      PROVE  /\ state'.events[s] = state.events[s] \o new
             /\ state'.subordinates = half.subordinates
             /\ EventsOrdered(s)'
  <2>1. /\ state'.subordinates = half.subordinates
        /\ state'.events = [state.events EXCEPT ![s] = state.events[s] \o new]
    <3>1. /\ d.subordinates = half.subordinates
          /\ d.events = [half.events EXCEPT ![s] = half.events[s] \o new]
      BY <1>5, WithEventsShape
    <3>2. state' = d
      OBVIOUS
    <3> QED
      BY <1>5, <3>1, <3>2
  <2>2. state'.events[s] = state.events[s] \o new
    BY <1>1, <2>1 DEF State
  <2> QED
    BY <1>3, <1>5, <2>1, <2>2, EventsAppended
<1>6. ASSUME NEW content \in Contents, CanAdd(s, t),
             d = WithEvents(NewRow(s, content, t), s, Stamp(<<"registration">>, t))
      PROVE  /\ TimesConsistent'
             /\ state'.trustMarks = state.trustMarks
             /\ \A x \in Subjects : \E h \in Seq(Event) :
                   state'.events[x] = state.events[x] \o h
  <2> DEFINE new == Stamp(<<"registration">>, t)
             row == [content |-> content, createdAt |-> t, updatedAt |-> t]
             half == NewRow(s, content, t)
  <2>1. /\ new \in Seq(Event)
        /\ \A i \in 1..Len(new) : new[i].event # "custom" => new[i].iat = t
    <3>1. new \in Seq(Event) /\ Len(new) = 1 /\ new[1] = [event |-> "registration", iat |-> t]
      BY <1>4, StampOne DEF EventTypes
    <3> HIDE DEF new
    <3>2. new[1].iat = t
      BY <3>1
    <3> QED
      BY <3>1, <3>2
  <2>2. row \in Row
    BY <1>4 DEF Row
  <2>3. /\ half \in State /\ half.events = state.events /\ half.trustMarks = state.trustMarks
        /\ half.subordinates[s] = row
        /\ \A x \in Subjects : x # s => half.subordinates[x] = state.subordinates[x]
    <3>1. half = WithRow(state, s, row)
      BY DEF NewRow
    <3> HIDE DEF half, row
    <3>2. /\ half \in State /\ half.events = state.events /\ half.trustMarks = state.trustMarks
          /\ half.subordinates = [state.subordinates EXCEPT ![s] = row]
      BY <1>1, <2>2, <3>1, WithRowShape
    <3> QED
      BY <1>1, <3>2 DEF State
  <2>4. /\ state'.events[s] = state.events[s] \o new
        /\ state'.subordinates = half.subordinates
        /\ EventsOrdered(s)'
    BY <1>5, <1>6, <2>1, <2>3
  <2>5. RowDated(s)'
    <3>1. state'.subordinates[s].createdAt = t /\ state'.subordinates[s].updatedAt = t
      BY <2>3, <2>4
    <3> QED
      BY <1>3, <2>4, <3>1, RowBecomesDated
  <2> QED
    BY <1>2, <1>6, <2>1, <2>3, <2>4, <2>5
<1>7. ASSUME NEW content \in Contents, CanChange(s, u),
             d = WithEvents(ChangedRow(s, content, u), s,
                            Stamp(Changes(state.subordinates[s].content, content), t))
      PROVE  /\ TimesConsistent'
             /\ state'.trustMarks = state.trustMarks
             /\ \A x \in Subjects : \E h \in Seq(Event) :
                   state'.events[x] = state.events[x] \o h
  <2> DEFINE old == state.subordinates[s]
             types == Changes(old.content, content)
             new == Stamp(types, t)
             row == [content |-> content, createdAt |-> old.createdAt, updatedAt |-> u]
             half == ChangedRow(s, content, u)
  <2>1. old \in Row /\ old # NoRecord /\ (s \notin Untracked => old.updatedAt <= u)
    BY <1>1, <1>7 DEF CanChange, State
  <2>2. old.content \in Contents /\ old.createdAt \in Nat /\ old.updatedAt \in Nat /\ row \in Row
    BY <1>4, <2>1 DEF Row
  <2>3. types \in Seq({"metadata_update", "metadata_policy_update", "jwks_update"})
    BY <2>2, ChangesShape
  <2>4. types \in Seq(EventTypes) /\ Len(types) \in Nat
        /\ \A i \in 1..Len(types) : types[i] \notin {"registration", "revocation"}
    <3> HIDE DEF types
    <3> QED
      BY <2>3, SeqMonotonic, ElementOfSeq, LenProperties DEF EventTypes
  <2>5. /\ new \in Seq(Event)
        /\ \A i \in 1..Len(new) : /\ new[i].event # "custom" => new[i].iat = t
                                  /\ new[i].event \notin {"registration", "revocation"}
    <3> HIDE DEF types
    <3>1. /\ new \in Seq(Event) /\ Len(new) = Len(types)
          /\ \A i \in 1..Len(types) : new[i] = [event |-> types[i], iat |-> t]
      BY <1>4, <2>4, StampShape
    <3> HIDE DEF new
    <3>2. ASSUME NEW i \in 1..Len(types) PROVE new[i].event = types[i] /\ new[i].iat = t
      <4>1. new[i] = [event |-> types[i], iat |-> t]
        BY <3>1
      <4> QED
        BY <4>1
    <3> QED
      BY <2>4, <3>1, <3>2
  <2>6. /\ half \in State /\ half.events = state.events /\ half.trustMarks = state.trustMarks
        /\ half.subordinates[s] = row
        /\ \A x \in Subjects : x # s => half.subordinates[x] = state.subordinates[x]
    <3>1. half = WithRow(state, s, row)
      BY DEF ChangedRow
    <3> HIDE DEF half, row
    <3>2. /\ half \in State /\ half.events = state.events /\ half.trustMarks = state.trustMarks
          /\ half.subordinates = [state.subordinates EXCEPT ![s] = row]
      BY <1>1, <2>2, <3>1, WithRowShape
    <3> QED
      BY <1>1, <3>2 DEF State
  <2>7. /\ state'.events[s] = state.events[s] \o new
        /\ state'.subordinates = half.subordinates
        /\ EventsOrdered(s)'
    BY <1>5, <1>7, <2>5, <2>6
  <2>8. RowDated(s)'
    <3>1. /\ state'.subordinates[s].createdAt = old.createdAt
          /\ state'.subordinates[s].updatedAt = u
      BY <2>6, <2>7
    <3>2. CASE s \in Untracked
      BY <3>2 DEF RowDated
    <3>3. CASE s \notin Untracked
      <4> HIDE DEF new
      <4> QED
        BY <1>3, <2>1, <2>2, <2>5, <2>7, <3>1, <3>3, RowStaysDated
    <3> QED
      BY <3>2, <3>3
  <2> QED
    BY <1>2, <1>7, <2>5, <2>6, <2>7, <2>8
<1>8. ASSUME state.subordinates[s] # NoRecord,
             d = WithEvents(WithRow(state, s, NoRecord), s, Stamp(<<"revocation">>, t))
      PROVE  /\ TimesConsistent'
             /\ state'.trustMarks = state.trustMarks
             /\ \A x \in Subjects : \E h \in Seq(Event) :
                   state'.events[x] = state.events[x] \o h
  <2> DEFINE new == Stamp(<<"revocation">>, t)
             half == WithRow(state, s, NoRecord)
  <2>1. /\ new \in Seq(Event)
        /\ \A i \in 1..Len(new) : new[i].event # "custom" => new[i].iat = t
    <3>1. new \in Seq(Event) /\ Len(new) = 1 /\ new[1] = [event |-> "revocation", iat |-> t]
      BY <1>4, StampOne DEF EventTypes
    <3> HIDE DEF new
    <3>2. new[1].iat = t
      BY <3>1
    <3> QED
      BY <3>1, <3>2
  <2>2. /\ half \in State /\ half.events = state.events /\ half.trustMarks = state.trustMarks
        /\ half.subordinates[s] = NoRecord
        /\ \A x \in Subjects : x # s => half.subordinates[x] = state.subordinates[x]
    <3>1. /\ half \in State /\ half.events = state.events /\ half.trustMarks = state.trustMarks
          /\ half.subordinates = [state.subordinates EXCEPT ![s] = NoRecord]
      BY <1>1, WithRowShape
    <3> HIDE DEF half
    <3> QED
      BY <1>1, <3>1 DEF State
  <2>3. state'.subordinates = half.subordinates /\ EventsOrdered(s)'
    BY <1>5, <1>8, <2>1, <2>2
  <2>4. RowDated(s)'
    BY <2>2, <2>3 DEF RowDated
  <2> QED
    BY <1>2, <1>8, <2>1, <2>2, <2>3, <2>4
<1>9. ASSUME d = WithEvents(state, s, Stamp(<<"custom">>, 0))
      PROVE  /\ TimesConsistent'
             /\ state'.trustMarks = state.trustMarks
             /\ \A x \in Subjects : \E h \in Seq(Event) :
                   state'.events[x] = state.events[x] \o h
  <2> DEFINE old == state.subordinates[s]
             new == Stamp(<<"custom">>, 0)
  <2>1. /\ new \in Seq(Event) /\ Len(new) = 1 /\ new[1].event = "custom"
    <3>1. new \in Seq(Event) /\ Len(new) = 1 /\ new[1] = [event |-> "custom", iat |-> 0]
      BY StampOne DEF EventTypes
    <3> HIDE DEF new
    <3> QED
      BY <3>1
  <2>2. /\ \A i \in 1..Len(new) : new[i].event # "custom" => new[i].iat = t
        /\ \A i \in 1..Len(new) : new[i].event \notin {"registration", "revocation"}
    BY <2>1
  <2>3. /\ state'.events[s] = state.events[s] \o new
        /\ state'.subordinates = state.subordinates
        /\ EventsOrdered(s)'
    BY <1>1, <1>5, <1>9, <2>1, <2>2
  <2>4. RowDated(s)'
    <3>1. CASE old = NoRecord \/ s \in Untracked
      BY <2>3, <3>1 DEF RowDated
    <3>2. CASE old # NoRecord /\ s \notin Untracked
      <4>1. old.createdAt \in Nat /\ old.updatedAt \in Nat
        BY <1>1, <3>2 DEF State, Row
      <4>2. old.updatedAt \in 0..now
        BY <1>1, <3>2, <4>1, NoLaterThanNow DEF CanChange
      <4>3. /\ state'.subordinates[s].createdAt = old.createdAt
            /\ state'.subordinates[s].updatedAt = old.updatedAt
            /\ old.updatedAt <= old.updatedAt
        BY <2>3, <4>1
      <4> HIDE DEF new
      <4> QED
        BY <1>3, <2>1, <2>2, <2>3, <3>2, <4>1, <4>2, <4>3, RowStaysDated
    <3> QED
      BY <3>1, <3>2
  <2> QED
    BY <1>1, <1>2, <1>9, <2>1, <2>3, <2>4
<1> QED
  BY <1>3, <1>6, <1>7, <1>8, <1>9

LEMMA CommitIInv ==
    ASSUME IInv, NEW c \in Callers, Commit(c)
    PROVE  IInv'
<1>1. pc[c] = "commit" /\ Inside(c) /\ state' = draft[c] /\ Leave(c) /\ UNCHANGED <<answer, now>>
  BY DEF Commit, Inside, Callback
<1>2. /\ InChain(c) /\ ticket[c] = released /\ call[c].sub \in Subjects
      /\ draft[c] \in State /\ Explained(draft[c], call[c].sub)
  BY <1>1, InsideHasTurn DEF Work
<1>3. /\ TimesConsistent' /\ state'.trustMarks = state.trustMarks
      /\ \A x \in Subjects : \E new \in Seq(Event) :
            state'.events[x] = state.events[x] \o new
  BY <1>1, <1>2, Committed
<1>4. answer' \in [Callers -> Responses]
  BY <1>1 DEF IInv, TypeOK
<1>5. HistoryAnswered'
  <2> SUFFICES ASSUME NEW e \in Callers, answer[e].kind = "history"
               PROVE  LET F == state'.events[answer[e].sub]
                          h == answer[e].events
                      IN  /\ h = <<>> => answer[e].sub \in Untracked
                          /\ Len(h) <= Len(F) /\ h = SubSeq(F, 1, Len(h))
    BY <1>1 DEF HistoryAnswered
  <2>1. answer[e] \in Responses
    BY DEF IInv, TypeOK
  <2>2. LET E == state.events[answer[e].sub]
            h == answer[e].events
        IN  /\ h = <<>> => answer[e].sub \in Untracked
            /\ Len(h) <= Len(E) /\ h = SubSeq(E, 1, Len(h))
    BY DEF IInv, HistoryAnswered
  <2> QED
    BY <1>3, <2>1, <2>2, AnswersStand
<1>6. AtMostOneValid'
  BY <1>1, <1>3 DEF IInv, AtMostOneValid, ValidMarks
<1> QED
  BY <1>1, <1>2, <1>3, <1>4, <1>5, <1>6, LeaveIInv

(* The Subordinate Events response: a subject that only the lifecycle      *)
(* registers has a history.                                                *)
LEMMA LookUpIInv ==
    ASSUME IInv, NEW c \in Callers, LookUp(c)
    PROVE  IInv'
<1> DEFINE s == call[c].sub
           E == state.events[s]
           found == [kind |-> "history", sub |-> s, events |-> E]
<1>1. pc[c] = "lookUp" /\ Inside(c) /\ state' = draft[c] /\ Leave(c) /\ UNCHANGED now
  BY DEF LookUp, Inside, Callback
<1>2. /\ InChain(c) /\ ticket[c] = released /\ s \in Subjects
      /\ draft[c] = state /\ state \in State
  BY <1>1, InsideHasTurn DEF Work
<1>3. E \in Seq(Event)
  BY <1>2 DEF State
<1>4. \/ answer' = [answer EXCEPT ![c] = [kind |-> "notFound"]]
      \/ /\ E = <<>> => s \in Untracked
         /\ answer' = [answer EXCEPT ![c] = found]
  <2>1. state.subordinates[s] # NoRecord => E # <<>> \/ s \in Untracked
    <3>1. RowDated(s)
      BY <1>2, BySubject DEF IInv
    <3>2. OwnEvents(s) # {} => E # <<>>
      BY <1>3 DEF OwnEvents
    <3> QED
      BY <3>1, <3>2 DEF RowDated
  <2> QED
    BY <1>2, <2>1 DEF LookUp
<1>5. answer' \in [Callers -> Responses]
  <2>1. found \in Responses /\ [kind |-> "notFound"] \in Responses
    BY <1>2, <1>3 DEF Responses
  <2>2. answer \in [Callers -> Responses]
    BY DEF IInv, TypeOK
  <2> HIDE DEF found, E
  <2> QED
    BY <1>4, <2>1, <2>2
<1>6. TimesConsistent' /\ AtMostOneValid'
  BY <1>1, <1>2 DEF IInv, TimesConsistent, AtMostOneValid, ValidMarks, OwnEvents
<1>7. HistoryAnswered'
  <2> SUFFICES ASSUME NEW e \in Callers, answer'[e].kind = "history"
               PROVE  LET F == state.events[answer'[e].sub]
                          h == answer'[e].events
                      IN  /\ h = <<>> => answer'[e].sub \in Untracked
                          /\ Len(h) <= Len(F) /\ h = SubSeq(F, 1, Len(h))
    BY <1>1, <1>2 DEF HistoryAnswered
  <2>1. CASE e = c
    <3>1. answer'[c] = found /\ (E = <<>> => s \in Untracked)
      BY <1>4, <2>1 DEF IInv, TypeOK
    <3>2. SubSeq(E, 1, Len(E)) = E /\ Len(E) \in Nat
      BY <1>3, SubSeqFull
    <3> QED
      BY <2>1, <3>1, <3>2
  <2>2. CASE e # c
    <3>1. answer'[e] = answer[e]
      BY <1>4, <2>2 DEF IInv, TypeOK
    <3> QED
      BY <3>1 DEF IInv, HistoryAnswered
  <2> QED
    BY <2>1, <2>2
<1> QED
  BY <1>1, <1>2, <1>5, <1>6, <1>7, LeaveIInv

(* The mark that is stored is the only valid one: one that is valid now    *)
(* was valid when the issuer read the clock, and there was none.           *)
LEMMA MarkSelectedIInv ==
    ASSUME IInv, NEW c \in Callers, MarkSelected(c)
    PROVE  IInv'
<1> DEFINE s == call[c].sub
           j == call[c].jwt
<1>1. /\ pc[c] = "selected" /\ Inside(c) /\ state' = draft[c] /\ Leave(c) /\ UNCHANGED now
      /\ answer' = [answer EXCEPT ![c] = [kind |-> "mark", jwt |-> j]]
  BY DEF MarkSelected, Inside, Callback
<1>2. /\ InChain(c) /\ ticket[c] = released /\ s \in Subjects
      /\ draft[c] \in State /\ state \in State /\ now \in Nat
      /\ \/ draft[c] = state /\ j \in BoundedJwt
         \/ /\ call[c] \in IssueCall /\ call[c].at <= now
            /\ ValidMarks(state, s, call[c].at) = {}
            /\ draft[c] = [state EXCEPT !.trustMarks[j] = IF @ = "none" THEN "active" ELSE @]
  BY <1>1, InsideHasTurn DEF Work
<1>3. j \in BoundedJwt
  BY <1>2 DEF IssueCall
<1>4. /\ state'.subordinates = state.subordinates /\ state'.events = state.events
      /\ \A k \in BoundedJwt : k # j => state'.trustMarks[k] = state.trustMarks[k]
  BY <1>1, <1>2, <1>3 DEF State
<1>5. /\ answer' \in [Callers -> Responses]
      /\ \A e \in Callers : answer'[e].kind = "history" => answer'[e] = answer[e]
  BY <1>1, <1>3 DEF IInv, TypeOK, Responses
<1>6. TimesConsistent' /\ HistoryAnswered'
  BY <1>1, <1>4, <1>5 DEF IInv, TimesConsistent, HistoryAnswered, OwnEvents
<1>7. AtMostOneValid'
  <2>1. CASE draft[c] = state
    BY <1>1, <2>1 DEF IInv, AtMostOneValid, ValidMarks
  <2>2. CASE /\ call[c] \in IssueCall /\ call[c].at <= now
             /\ ValidMarks(state, s, call[c].at) = {}
    <3>1. j.sub = s /\ call[c].at \in 0..MaxTime
      BY <2>2 DEF IssueCall
    <3>2. \A x \in Subjects : \A k \in ValidMarks(state', x, now) :
             k = j \/ (k \in ValidMarks(state, x, now) /\ k.sub = x)
      BY <1>4 DEF ValidMarks
    <3>3. \A k \in ValidMarks(state, s, now) : k \in ValidMarks(state, s, call[c].at)
      BY <1>2, <2>2, <3>1, BoundAssumption DEF ValidMarks, BoundedJwt
    <3>4. ValidMarks(state, s, now) = {}
      BY <2>2, <3>3
    <3>5. \A x \in Subjects : j \in ValidMarks(state', x, now) => x = s
      BY <3>1 DEF ValidMarks
    <3>6. \A x \in Subjects : \A k, l \in ValidMarks(state, x, now) : k = l
      BY DEF IInv, AtMostOneValid
    <3>7. \A x \in Subjects : \A k, l \in ValidMarks(state', x, now) : k = l
      BY <3>2, <3>4, <3>5, <3>6
    <3> QED
      BY <1>1, <3>7 DEF AtMostOneValid
  <2> QED
    BY <1>2, <2>1, <2>2
<1> QED
  BY <1>1, <1>2, <1>5, <1>6, <1>7, LeaveIInv

(* A row the application writes: no event, no mark and no other row.       *)
Written(s) ==
    /\ s \in Untracked
    /\ state' \in State
    /\ state'.events = state.events /\ state'.trustMarks = state.trustMarks
    /\ \E row \in Row \cup {NoRecord} :
          state'.subordinates = [state.subordinates EXCEPT ![s] = row]

LEMMA WriteRowEffect ==
    ASSUME IInv, NEW c \in Callers, WriteRow(c)
    PROVE  /\ InChain(c) /\ ticket[c] = released /\ Leave(c) /\ UNCHANGED <<answer, now>>
           /\ UNCHANGED state \/ Written(call[c].sub)
<1> DEFINE s == call[c].sub
           row == state.subordinates[s]
           added == [content |-> call[c].content,
                     createdAt |-> call[c].at, updatedAt |-> call[c].at]
           changed == [row EXCEPT !.content = Updated(@, call[c].updates), !.updatedAt = now]
<1>1. HasTurn(c) /\ call[c].op \in {"add", "change", "remove"}
  BY DEF WriteRow
<1>2. /\ InChain(c) /\ ticket[c] = released /\ s \in Untracked /\ s \in Subjects
      /\ call[c] \in Arguments /\ state \in State /\ now \in Nat
  BY <1>1, CalledWith, BoundAssumption DEF IInv, TypeOK
<1>3. ASSUME NEW new \in Row \cup {NoRecord}, state' = WithRow(state, s, new)
      PROVE  Written(s)
  <2>1. /\ WithRow(state, s, new) \in State
        /\ WithRow(state, s, new).subordinates = [state.subordinates EXCEPT ![s] = new]
        /\ WithRow(state, s, new).events = state.events
        /\ WithRow(state, s, new).trustMarks = state.trustMarks
    BY <1>2, WithRowShape
  <2> DEFINE d == WithRow(state, s, new)
  <2>2. state' = d
    BY <1>3
  <2> HIDE DEF d
  <2>3. /\ d \in State /\ d.subordinates = [state.subordinates EXCEPT ![s] = new]
        /\ d.events = state.events /\ d.trustMarks = state.trustMarks
    BY <2>1 DEF d
  <2> HIDE DEF s
  <2> QED
    BY <1>2, <2>2, <2>3 DEF Written
<1>4. CASE /\ call[c].op = "add" /\ state' = WithRow(state, s, added)
           /\ Leave(c) /\ UNCHANGED <<answer, now>>
  <2>1. call[c].content \in Contents /\ call[c].at \in Nat
    BY <1>2, <1>4, InputAssumption, BoundAssumption DEF Arguments
  <2>2. added \in Row
    BY <2>1 DEF Row
  <2> QED
    BY <1>2, <1>3, <1>4, <2>2
<1>5. CASE /\ call[c].op = "change" /\ row # NoRecord /\ state' = WithRow(state, s, changed)
           /\ Leave(c) /\ UNCHANGED <<answer, now>>
  <2>1. row \in Row /\ call[c].updates \in Updates
    BY <1>2, <1>5 DEF State, Arguments
  <2>2. Updated(row.content, call[c].updates) \in Contents
    BY <2>1, UpdatedContent DEF Row
  <2>3. changed \in Row
    <3> HIDE DEF row
    <3> QED
      BY <1>2, <2>1, <2>2 DEF Row
  <2> QED
    BY <1>2, <1>3, <1>5, <2>3
<1>6. CASE /\ call[c].op = "remove" /\ state' = WithRow(state, s, NoRecord)
           /\ Leave(c) /\ UNCHANGED <<answer, now>>
  BY <1>2, <1>3, <1>6
<1>7. CASE Fail(c)
  BY <1>2, <1>7 DEF Fail
<1> QED
  BY <1>4, <1>5, <1>6, <1>7 DEF WriteRow

LEMMA WriteRowIInv ==
    ASSUME IInv, NEW c \in Callers, WriteRow(c)
    PROVE  IInv'
<1> DEFINE s == call[c].sub
<1>1. /\ InChain(c) /\ ticket[c] = released /\ Leave(c) /\ UNCHANGED <<answer, now>>
      /\ UNCHANGED state \/ Written(s)
  BY WriteRowEffect
<1>2. CASE UNCHANGED state
  BY <1>1, <1>2, FailIInv DEF Fail
<1>3. CASE Written(s)
  <2>1. /\ s \in Untracked /\ state' \in State /\ state \in State
        /\ state'.events = state.events /\ state'.trustMarks = state.trustMarks
        /\ answer' \in [Callers -> Responses]
    BY <1>1, <1>3 DEF Written, IInv, TypeOK
  <2>2. \A x \in Subjects : x # s => state'.subordinates[x] = state.subordinates[x]
    BY <1>3, <2>1 DEF Written, State
  <2>3. ASSUME NEW x \in Subjects PROVE EventsOrdered(x)' /\ RowDated(x)'
    <3>1. EventsOrdered(x) /\ RowDated(x)
      BY BySubject DEF IInv
    <3>2. OwnEvents(x)' = OwnEvents(x)
      BY <2>1 DEF OwnEvents
    <3>3. EventsOrdered(x)'
      BY <1>1, <2>1, <3>1, <3>2 DEF EventsOrdered
    <3>4. CASE x = s
      BY <2>1, <3>3, <3>4 DEF RowDated
    <3>5. CASE x # s
      BY <1>1, <2>1, <2>2, <3>1, <3>2, <3>3, <3>5 DEF RowDated
    <3> QED
      BY <3>3, <3>4, <3>5
  <2>4. TimesConsistent'
    BY <2>3 DEF TimesConsistent, EventsOrdered, RowDated
  <2>5. HistoryAnswered' /\ AtMostOneValid'
    BY <1>1, <2>1 DEF IInv, HistoryAnswered, AtMostOneValid, ValidMarks
  <2> QED
    BY <1>1, <2>1, <2>4, <2>5, LeaveIInv
<1> QED
  BY <1>1, <1>2, <1>3

LEMMA RevokeMarkIInv ==
    ASSUME IInv, NEW c \in Callers, RevokeMark(c)
    PROVE  IInv'
<1> DEFINE marks == [j \in BoundedJwt |->
                        IF j.sub = call[c].sub /\ state.trustMarks[j] = "active"
                        THEN "revoked" ELSE state.trustMarks[j]]
<1>1. /\ HasTurn(c) /\ Leave(c) /\ UNCHANGED <<answer, now>>
      /\ state' = [state EXCEPT !.trustMarks = marks]
  BY DEF RevokeMark
<1>2. InChain(c) /\ ticket[c] = released /\ state \in State
  BY <1>1, CalledWith DEF IInv, TypeOK
<1>3. marks \in [BoundedJwt -> {"none", "active", "revoked"}]
  BY <1>2 DEF State
<1>4. /\ state' \in State /\ state'.subordinates = state.subordinates
      /\ state'.events = state.events /\ state'.trustMarks = marks
  <2> HIDE DEF marks
  <2> QED
    BY <1>1, <1>2, <1>3 DEF State
<1>5. answer' \in [Callers -> Responses]
  BY <1>1 DEF IInv, TypeOK
<1>6. TimesConsistent' /\ HistoryAnswered'
  <2> HIDE DEF marks
  <2> QED
    BY <1>1, <1>4 DEF IInv, TimesConsistent, HistoryAnswered, OwnEvents
<1>7. AtMostOneValid'
  <2>1. \A x, t : ValidMarks(state', x, t) \subseteq ValidMarks(state, x, t)
    BY <1>4 DEF ValidMarks
  <2> QED
    BY <1>1, <2>1 DEF IInv, AtMostOneValid
<1> QED
  BY <1>1, <1>2, <1>4, <1>5, <1>6, <1>7, LeaveIInv

(* Time passes, or nothing happens.                                        *)
LEMMA TickIInv ==
    ASSUME IInv, UNCHANGED <<state, draft, tail, released, ticket, pc, call, answer>>,
           now <= now', now' \in 0..MaxTime
    PROVE  IInv'
<1>1. now \in 0..MaxTime /\ now \in Nat /\ now' \in Nat
  BY BoundAssumption DEF IInv, TypeOK
<1>2. TypeOK' /\ Turns' /\ HistoryAnswered'
  BY DEF IInv, TypeOK, Turns, InChain, Inside, HistoryAnswered
<1>3. TimesConsistent'
  <2>1. \A s \in Subjects : EventsOrdered(s) /\ RowDated(s)
    BY BySubject DEF IInv
  <2>2. state \in State
    BY DEF IInv, TypeOK
  <2>3. ASSUME NEW s \in Subjects PROVE EventsOrdered(s)' /\ RowDated(s)'
    <3>1. OwnEvents(s)' = OwnEvents(s)
      BY DEF OwnEvents
    <3>2. state.events[s] \in Seq(Event) /\ OwnEvents(s) \subseteq DOMAIN state.events[s]
      BY <2>2 DEF State, OwnEvents
    <3>3. \A i \in OwnEvents(s) : state.events[s][i].iat \in Nat
      <4>1. \A x \in Event : x.iat \in Nat
        BY DEF Event
      <4> QED
        BY <3>2, <4>1, ElementOfSeq, LenProperties
    <3>4. EventsOrdered(s)'
      BY <1>1, <2>1, <3>1, <3>3 DEF EventsOrdered
    <3>5. RowDated(s)'
      <4>1. state.subordinates[s] # NoRecord => state.subordinates[s].updatedAt \in Nat
        BY <2>2 DEF State, Row
      <4>2. RowDated(s)
        BY <2>1
      <4> QED
        BY <1>1, <3>1, <4>1, <4>2 DEF RowDated
    <3> QED
      BY <3>4, <3>5
  <2>4. \A s \in Subjects : EventsOrdered(s)' /\ RowDated(s)'
    BY <2>3
  <2> QED
    BY <2>4 DEF TimesConsistent, EventsOrdered, RowDated
<1>4. AtMostOneValid'
  <2>1. \A s : ValidMarks(state, s, now') \subseteq ValidMarks(state, s, now)
    BY <1>1, BoundAssumption DEF ValidMarks, BoundedJwt
  <2> QED
    BY <2>1 DEF IInv, AtMostOneValid
<1>5. WorkDone'
  <2> SUFFICES ASSUME NEW c \in Callers PROVE Work(c)'
    BY DEF WorkDone
  <2>1. CASE ~Inside(c)
    BY <2>1, OutsideUntouched
  <2>2. CASE Inside(c)
    <3> DEFINE s == call[c].sub
    <3>1. Work(c) /\ 0..now \subseteq 0..now'
      BY <1>1 DEF IInv, WorkDone
    <3>2. /\ \A t : CanAdd(s, t)' <=> CanAdd(s, t)
          /\ \A t : CanChange(s, t)' <=> CanChange(s, t)
          /\ \A t : NoLater(s, t)' <=> NoLater(s, t)
          /\ \A content, t : NewRow(s, content, t)' = NewRow(s, content, t)
          /\ \A content, t : ChangedRow(s, content, t)' = ChangedRow(s, content, t)
      BY DEF CanAdd, CanChange, NoLater, OwnEvents, NewRow, ChangedRow
    <3>3. Explained(draft[c], s) => Explained(draft[c], s)'
      BY <3>1, <3>2 DEF Explained
    <3>4. \A t : t \in 0..MaxTime /\ t <= now => t <= now'
      BY <1>1
    <3>5. call[c] \in IssueCall => call[c].at \in 0..MaxTime
      BY DEF IssueCall
    <3> QED
      BY <2>2, <3>1, <3>2, <3>3, <3>4, <3>5 DEF Work, Inside, Callback, ValidMarks
  <2> QED
    BY <2>1, <2>2
<1> QED
  BY <1>2, <1>3, <1>4, <1>5 DEF IInv

LEMMA StepIInv ==
    ASSUME IInv, NEW c \in Callers, Step(c)
    PROVE  IInv'
  BY RegisterIInv, UpdateIInv, UpdateRowIInv, RevokeIInv, AppendEventsIInv,
     RecordEventsIInv, CommitIInv, WriteRowIInv, OwnTransactionIInv, ListEventsIInv, LookUpIInv,
     SignedIInv, ChooseMarkIInv, IssueMarkIInv, MarkSelectedIInv, RevokeMarkIInv DEF Step

LEMMA NextIInv ==
    ASSUME IInv, [Next]_vars
    PROVE  IInv'
<1>1. ASSUME UNCHANGED vars PROVE IInv'
  <2>1. now \in 0..MaxTime /\ now <= now
    BY BoundAssumption DEF IInv, TypeOK
  <2> QED
    BY <1>1, <2>1, TickIInv DEF vars, mutex
<1>2. ASSUME Tick PROVE IInv'
  <2>1. now \in 0..MaxTime
    BY DEF IInv, TypeOK
  <2> QED
    BY <1>2, <2>1, TickIInv, BoundAssumption DEF Tick, mutex
<1>3. ASSUME NEW c \in Callers, NEW args \in Arguments, Invoke(c, args) PROVE IInv'
  BY <1>3, InvokeIInv
<1>4. ASSUME NEW c \in Callers, NEW s \in Subjects, IssueTrustMark(c, s) PROVE IInv'
  BY <1>4, IssueTrustMarkIInv
<1>5. ASSUME NEW c \in Callers, Step(c) PROVE IInv'
  BY <1>5, StepIInv
<1> QED
  BY <1>1, <1>2, <1>3, <1>4, <1>5 DEF Next, Quiescent

(* The inductive invariant holds: whoever works on a draft is alone, and   *)
(* its draft is still based on what is committed.                          *)
THEOREM StorageCorrect == Spec => []IInv
  BY InitIInv, NextIInv, PTL DEF Spec

(* The times of every row and of its history agree.                        *)
THEOREM TimesCorrect == Spec => []TimesConsistent
<1>1. IInv => TimesConsistent
  BY DEF IInv
<1> QED
  BY <1>1, StorageCorrect, PTL

(* Every Subordinate Events response is a prefix of the history, and the   *)
(* empty history only of a row the application wrote itself.               *)
THEOREM ResponsesCorrect == Spec => []HistoryAnswered
<1>1. IInv => HistoryAnswered
  BY DEF IInv
<1> QED
  BY <1>1, StorageCorrect, PTL

(* However many issuers race, a subject has at most one valid mark.        *)
THEOREM IssuanceCorrect == Spec => []AtMostOneValid
<1>1. IInv => AtMostOneValid
  BY DEF IInv
<1> QED
  BY <1>1, StorageCorrect, PTL
----------------------------------------------------------------------------
(* The steps that change the committed state.                              *)
LEMMA OnlyCommits ==
    ASSUME IInv, [Next]_vars
    PROVE  \/ state' = state
           \/ \E c \in Callers :
                 Commit(c) \/ MarkSelected(c) \/ RevokeMark(c) \/ WriteRow(c)
<1>1. CASE UNCHANGED vars
  BY <1>1 DEF vars
<1>2. CASE Tick
  BY <1>2 DEF Tick
<1>3. ASSUME NEW c \in Callers, NEW args \in Arguments, Invoke(c, args) PROVE state' = state
  BY <1>3 DEF Invoke
<1>4. ASSUME NEW c \in Callers, NEW s \in Subjects, IssueTrustMark(c, s) PROVE state' = state
  BY <1>4 DEF IssueTrustMark
<1>5. ASSUME NEW c \in Callers, Step(c)
      PROVE  state' = state \/ Commit(c) \/ MarkSelected(c) \/ RevokeMark(c) \/ WriteRow(c)
  <2>1. LookUp(c) => state' = state
    <3> SUFFICES ASSUME LookUp(c) PROVE state' = state
      OBVIOUS
    <3>1. pc[c] = "lookUp" /\ Inside(c) /\ state' = draft[c]
      BY DEF LookUp, Inside, Callback
    <3> QED
      BY <3>1, InsideHasTurn DEF Work
  <2> QED
    BY <1>5, <2>1 DEF Step, Register, Update, UpdateRow, Revoke, AppendEvents, RecordEvents,
       OwnTransaction, ListEvents, Signed, ChooseMark, IssueMark, Continue, Fail
<1> QED
  BY <1>1, <1>2, <1>3, <1>4, <1>5 DEF Next, Quiescent

(* What a lifecycle operation commits.                                     *)
LEMMA CommitEffect ==
    ASSUME IInv, NEW c \in Callers, Commit(c)
    PROVE  /\ call[c].sub \in Subjects /\ Explained(state', call[c].sub)
           /\ state'.trustMarks = state.trustMarks
<1>1. pc[c] = "commit" /\ Inside(c) /\ state' = draft[c] /\ now' = now
  BY DEF Commit, Inside, Callback
<1>2. call[c].sub \in Subjects /\ Explained(draft[c], call[c].sub)
  BY <1>1, InsideHasTurn DEF Work
<1> QED
  BY <1>1, <1>2, Committed

(* What the transaction of an issuer commits.                              *)
LEMMA MarkSelectedEffect ==
    ASSUME IInv, NEW c \in Callers, MarkSelected(c)
    PROVE  /\ call[c].jwt \in BoundedJwt
           /\ state'.subordinates = state.subordinates /\ state'.events = state.events
           /\ \A j \in BoundedJwt :
                 /\ state.trustMarks[j] # "none" => state'.trustMarks[j] = state.trustMarks[j]
                 /\ j = call[c].jwt =>
                       \/ state'.trustMarks[j] = "active"
                       \/ state.trustMarks[j] = "revoked" /\ j.iat = call[c].at
<1> DEFINE j == call[c].jwt
<1>1. pc[c] = "selected" /\ Inside(c) /\ state' = draft[c]
  BY DEF MarkSelected, Inside, Callback
<1>2. /\ state \in State
      /\ \/ draft[c] = state /\ j \in BoundedJwt /\ state.trustMarks[j] = "active"
         \/ /\ call[c] \in IssueCall
            /\ draft[c] = [state EXCEPT !.trustMarks[j] = IF @ = "none" THEN "active" ELSE @]
  BY <1>1, InsideHasTurn DEF Work
<1>3. CASE draft[c] = state /\ j \in BoundedJwt /\ state.trustMarks[j] = "active"
  BY <1>1, <1>3
<1>4. CASE /\ call[c] \in IssueCall
           /\ draft[c] = [state EXCEPT !.trustMarks[j] = IF @ = "none" THEN "active" ELSE @]
  <2>1. j \in BoundedJwt /\ j.iat = call[c].at
    BY <1>4 DEF IssueCall
  <2>2. state.trustMarks \in [BoundedJwt -> {"none", "active", "revoked"}]
    BY <1>2 DEF State
  <2> QED
    BY <1>1, <1>2, <1>4, <2>1, <2>2 DEF State
<1> QED
  BY <1>2, <1>3, <1>4

(* Issued marks are never forgotten and revoked ones never come back.      *)
THEOREM MarksKept == Spec => MarksPermanent
<1>1. ASSUME IInv, [Next]_vars, NEW j \in BoundedJwt
      PROVE  /\ state.trustMarks[j] = "revoked" => state'.trustMarks[j] = "revoked"
             /\ state.trustMarks[j] = "active" => state'.trustMarks[j] # "none"
  <2>1. ASSUME NEW c \in Callers, RevokeMark(c)
        PROVE  /\ state.trustMarks[j] = "revoked" => state'.trustMarks[j] = "revoked"
               /\ state.trustMarks[j] = "active" => state'.trustMarks[j] # "none"
    <3>1. state \in State
      BY <1>1 DEF IInv, TypeOK
    <3> QED
      BY <2>1, <3>1 DEF RevokeMark, State
  <2>2. ASSUME NEW c \in Callers, WriteRow(c) PROVE state'.trustMarks = state.trustMarks
    BY <1>1, <2>2, WriteRowEffect DEF Written
  <2> QED
    BY <1>1, <2>1, <2>2, OnlyCommits, CommitEffect, MarkSelectedEffect
<1>2. IInv /\ [Next]_vars =>
        [\A j \in BoundedJwt :
            /\ state.trustMarks[j] = "revoked" => state'.trustMarks[j] = "revoked"
            /\ state.trustMarks[j] = "active" => state'.trustMarks[j] # "none"]_vars
  BY <1>1
<1> QED
  BY <1>2, StorageCorrect, PTL DEF Spec, MarksPermanent

(* The mark issueTrustMark returns is stored and active.                   *)
THEOREM AnswersHonest == Spec => AnswerHonest
<1> DEFINE Honest(c) ==
      answer'[c] # answer[c] /\ answer'[c].kind = "mark" =>
          LET j == answer'[c].jwt
          IN  \/ state'.trustMarks[j] = "active"
              \/ /\ state.trustMarks[j] = "revoked"
                 /\ pc[c] = "selected" /\ j.iat = call[c].at
<1>1. ASSUME IInv, [Next]_vars, NEW c \in Callers
      PROVE  Honest(c)
  <2>1. answer \in [Callers -> Responses]
    BY <1>1 DEF IInv, TypeOK
  <2>2. ASSUME UNCHANGED answer PROVE Honest(c)
    BY <2>2
  <2>3. ASSUME NEW d \in Callers, d # c, NEW a, answer' = [answer EXCEPT ![d] = a]
        PROVE  Honest(c)
    BY <2>1, <2>3
  <2>4. ASSUME NEW a, answer' = [answer EXCEPT ![c] = a], a.kind # "mark"
        PROVE  Honest(c)
    BY <2>1, <2>4
  <2>5. ASSUME NEW d \in Callers, NEW args \in Arguments, Invoke(d, args) PROVE Honest(c)
    BY <2>3, <2>4, <2>5 DEF Invoke, Nothing
  <2>6. ASSUME NEW d \in Callers, NEW s \in Subjects, IssueTrustMark(d, s) PROVE Honest(c)
    <3>1. CASE \E j \in GetValid(state, s, now) :
                  answer' = [answer EXCEPT ![d] = [kind |-> "mark", jwt |-> j]]
      <4>1. PICK j \in GetValid(state, s, now) :
                  answer' = [answer EXCEPT ![d] = [kind |-> "mark", jwt |-> j]]
        BY <3>1
      <4>2. state.trustMarks[j] = "active" /\ state' = state
        BY <2>6 DEF GetValid, ValidMarks, IssueTrustMark
      <4> QED
        BY <2>1, <2>3, <4>1, <4>2
    <3>2. CASE answer' = [answer EXCEPT ![d] = Nothing]
      BY <2>3, <2>4, <3>2 DEF Nothing
    <3> QED
      BY <2>6, <3>1, <3>2 DEF IssueTrustMark
  <2>7. ASSUME NEW d \in Callers, LookUp(d) PROVE Honest(c)
    <3> DEFINE absent == [kind |-> "notFound"]
               found == [kind |-> "history", sub |-> call[d].sub,
                         events |-> draft[d].events[call[d].sub]]
    <3>1. absent.kind # "mark" /\ found.kind # "mark"
      OBVIOUS
    <3>2. answer' = [answer EXCEPT ![d] = absent] \/ answer' = [answer EXCEPT ![d] = found]
      BY <2>7 DEF LookUp
    <3> HIDE DEF absent, found, Honest
    <3>3. CASE d = c
      BY <2>4, <3>1, <3>2, <3>3
    <3>4. CASE d # c
      BY <2>3, <3>2, <3>4
    <3> QED
      BY <3>3, <3>4
  <2>8. ASSUME NEW d \in Callers, MarkSelected(d) PROVE Honest(c)
    <3>1. pc[d] = "selected"
          /\ answer' = [answer EXCEPT ![d] = [kind |-> "mark", jwt |-> call[d].jwt]]
      BY <2>8 DEF MarkSelected
    <3>2. CASE d = c
      BY <1>1, <2>1, <2>8, <3>1, <3>2, MarkSelectedEffect
    <3> QED
      BY <2>3, <3>1, <3>2
  <2>9. ASSUME NEW d \in Callers, Step(d) PROVE Honest(c)
    <3> HIDE DEF Honest
    <3>1. WriteRow(d) => UNCHANGED answer
      BY <1>1, WriteRowEffect
    <3> QED
      BY <2>2, <2>7, <2>8, <2>9, <3>1 DEF Step, Register, Update, UpdateRow, Revoke, AppendEvents,
         RecordEvents, OwnTransaction, ListEvents, Signed, ChooseMark, IssueMark, Continue,
         Fail, Commit, RevokeMark
  <2> HIDE DEF Honest
  <2> QED
    BY <1>1, <2>2, <2>5, <2>6, <2>9 DEF Next, Quiescent, Tick, vars
<1>2. IInv /\ [Next]_vars => [\A c \in Callers : Honest(c)]_vars
  <2> HIDE DEF Honest
  <2> QED
    BY <1>1
<1> QED
  BY <1>2, StorageCorrect, PTL DEF Spec, AnswerHonest
----------------------------------------------------------------------------
(* The refinement mapping: the contents of the committed rows and the      *)
(* types of the committed events.                                          *)
TypesOf(events) == [i \in DOMAIN events |-> events[i].event]
Record == [s \in Subjects |-> IF state.subordinates[s] = NoRecord THEN NoRecord
                              ELSE state.subordinates[s].content]
History == [s \in Subjects |-> TypesOf(state.events[s])]

(* Types and events concatenate alike, when each type is that of its event. *)
LEMMA AlignedConcat ==
    ASSUME NEW E \in Seq(Event), NEW new \in Seq(Event),
           NEW before \in Seq(EventTypes), NEW types \in Seq(EventTypes),
           Len(before) = Len(E), \A i \in 1..Len(E) : before[i] = E[i].event,
           Len(types) = Len(new), \A i \in 1..Len(new) : types[i] = new[i].event
    PROVE  TypesOf(E \o new) = before \o types
<1>1. /\ Len(E) \in Nat /\ Len(new) \in Nat
      /\ E \o new \in [1..(Len(E) + Len(new)) -> Event]
      /\ \A i \in 1..Len(E) : (E \o new)[i] = E[i]
      /\ \A i \in 1..Len(new) : (E \o new)[Len(E) + i] = new[i]
  BY ConcatAt
<1>2. /\ before \o types \in [1..(Len(E) + Len(new)) -> EventTypes]
      /\ \A i \in 1..Len(E) : (before \o types)[i] = before[i]
      /\ \A i \in 1..Len(new) : (before \o types)[Len(E) + i] = types[i]
  <2>1. /\ before \o types \in [1..(Len(before) + Len(types)) -> EventTypes]
        /\ \A i \in 1..Len(before) : (before \o types)[i] = before[i]
        /\ \A i \in 1..Len(types) : (before \o types)[Len(before) + i] = types[i]
    <3>1. \A a, b \in Seq(EventTypes) :
             /\ a \o b \in [1..(Len(a) + Len(b)) -> EventTypes]
             /\ \A i \in 1..Len(a) : (a \o b)[i] = a[i]
             /\ \A i \in 1..Len(b) : (a \o b)[Len(a) + i] = b[i]
      BY ConcatAt
    <3> QED
      BY <3>1, Zenon
  <2>2. Len(before) + Len(types) = Len(E) + Len(new)
    OBVIOUS
  <2>3. before \o types \in [1..(Len(E) + Len(new)) -> EventTypes]
    BY <2>1, <2>2, Zenon
  <2>4. \A i \in 1..Len(E) : (before \o types)[i] = before[i]
    BY <2>1, Zenon
  <2>5. \A i \in 1..Len(new) : (before \o types)[Len(E) + i] = types[i]
    BY <2>1, Zenon
  <2> QED
    BY <2>3, <2>4, <2>5
<1>3. ASSUME NEW F \in [1..(Len(E) + Len(new)) -> Event],
             NEW T \in [1..(Len(E) + Len(new)) -> EventTypes],
             \A i \in 1..Len(E) : F[i] = E[i] /\ T[i] = before[i],
             \A i \in 1..Len(new) : F[Len(E) + i] = new[i] /\ T[Len(E) + i] = types[i]
      PROVE  TypesOf(F) = T
  <2>1. ASSUME NEW i \in 1..(Len(E) + Len(new)) PROVE F[i].event = T[i]
    <3>1. CASE i \in 1..Len(E)
      BY <1>3, <3>1
    <3>2. CASE i \notin 1..Len(E)
      <4>1. i - Len(E) \in 1..Len(new) /\ i = Len(E) + (i - Len(E))
        BY <1>1, <3>2
      <4> QED
        BY <1>3, <4>1, ZenonT(30)
    <3> QED
      BY <3>1, <3>2
  <2>2. TypesOf(F) = [i \in 1..(Len(E) + Len(new)) |-> F[i].event]
    BY DEF TypesOf
  <2>3. T = [i \in 1..(Len(E) + Len(new)) |-> T[i]]
    OBVIOUS
  <2> QED
    BY <2>1, <2>2, <2>3
<1> QED
  BY <1>1, <1>2, <1>3

(* Stamped events appended to a history append their types to its types.   *)
LEMMA TypesAppended ==
    ASSUME NEW E \in Seq(Event), NEW types \in Seq(EventTypes), NEW t \in Nat
    PROVE  TypesOf(E \o Stamp(types, t)) = TypesOf(E) \o types
<1>1. /\ Stamp(types, t) \in Seq(Event) /\ Len(Stamp(types, t)) = Len(types)
      /\ \A i \in 1..Len(types) : Stamp(types, t)[i] = [event |-> types[i], iat |-> t]
  BY StampShape
<1>2. \A i \in 1..Len(types) : Stamp(types, t)[i].event = types[i]
  <2> TAKE i \in 1..Len(types)
  <2>1. \A e : [event |-> e, iat |-> t].event = e
    OBVIOUS
  <2> QED
    BY <1>1, <2>1, Zenon
<1>3. /\ Len(E) \in Nat /\ DOMAIN E = 1..Len(E)
      /\ \A i \in 1..Len(E) : E[i].event \in EventTypes
  <2>1. \A x \in Event : x.event \in EventTypes
    BY DEF Event
  <2> QED
    BY <2>1, LenProperties, ElementOfSeq
<1>4. /\ TypesOf(E) \in Seq(EventTypes) /\ Len(TypesOf(E)) = Len(E)
      /\ \A i \in 1..Len(E) : TypesOf(E)[i] = E[i].event
  <2>1. TypesOf(E) \in [1..Len(E) -> EventTypes]
    BY <1>3 DEF TypesOf
  <2>2. TypesOf(E) \in Seq(EventTypes)
    BY <1>3, <2>1, SeqDef
  <2>3. \A i \in 1..Len(E) : TypesOf(E)[i] = E[i].event
    BY <1>3 DEF TypesOf
  <2> QED
    BY <1>3, <2>1, <2>2, <2>3
<1> DEFINE before == TypesOf(E)
           new == Stamp(types, t)
<1>5. /\ new \in Seq(Event) /\ Len(types) = Len(new)
      /\ \A i \in 1..Len(new) : types[i] = new[i].event
  <2> HIDE DEF new
  <2>1. /\ new \in Seq(Event) /\ Len(new) = Len(types)
        /\ \A i \in 1..Len(types) : new[i].event = types[i]
    BY <1>1, <1>2, Zenon DEF new
  <2> QED
    BY <2>1, Zenon
<1>6. /\ before \in Seq(EventTypes) /\ Len(before) = Len(E)
      /\ \A i \in 1..Len(E) : before[i] = E[i].event
  BY <1>4, Zenon
<1> HIDE DEF before, new
<1>7. TypesOf(E \o new) = before \o types
  BY <1>5, <1>6, AlignedConcat, ZenonT(30)
<1> QED
  BY <1>7, Zenon DEF before, new

LEMMA MappedInit == Init => Registry!Init
  BY DEF Init, Registry!Init

(* A row replaced and a history extended, seen through the mapping.        *)
Changed(s, row, new) ==
    /\ state'.subordinates = [state.subordinates EXCEPT ![s] = row]
    /\ state'.events = [state.events EXCEPT ![s] = state.events[s] \o new]
Seen(s, row, types) ==
    /\ Record' = [Record EXCEPT ![s] = IF row = NoRecord THEN NoRecord ELSE row.content]
    /\ History' = [History EXCEPT ![s] = History[s] \o types]

LEMMA MappedChange ==
    ASSUME state \in State, NEW s \in Subjects, NEW row \in Row \cup {NoRecord},
           NEW types \in Seq(EventTypes), NEW t \in Nat,
           Changed(s, row, Stamp(types, t))
    PROVE  Seen(s, row, types)
<1>0. /\ state'.subordinates = [state.subordinates EXCEPT ![s] = row]
      /\ state'.events = [state.events EXCEPT ![s] = state.events[s] \o Stamp(types, t)]
  BY DEF Changed
<1>1. /\ state.subordinates \in [Subjects -> Row \cup {NoRecord}]
      /\ state.events \in [Subjects -> Seq(Event)]
  BY DEF State
<1>2. Record' = [x \in Subjects |-> IF state'.subordinates[x] = NoRecord THEN NoRecord
                                    ELSE state'.subordinates[x].content]
  BY DEF Record
<1>3. History' = [x \in Subjects |-> TypesOf(state'.events[x])]
  BY DEF History, TypesOf
<1>4. \A x \in Subjects :
         state'.subordinates[x] = IF x = s THEN row ELSE state.subordinates[x]
  BY <1>0, <1>1
<1>5. \A x \in Subjects : state'.events[x] =
         IF x = s THEN state.events[s] \o Stamp(types, t) ELSE state.events[x]
  BY <1>0, <1>1
<1>6. Record' = [Record EXCEPT ![s] = IF row = NoRecord THEN NoRecord ELSE row.content]
  BY <1>2, <1>4 DEF Record
<1>7. TypesOf(state.events[s] \o Stamp(types, t)) = TypesOf(state.events[s]) \o types
  BY <1>1, TypesAppended
<1>8. History' = [History EXCEPT ![s] = TypesOf(state.events[s] \o Stamp(types, t))]
  BY <1>3, <1>5 DEF History
<1>9. History[s] = TypesOf(state.events[s])
  BY DEF History
<1> QED
  BY <1>6, <1>7, <1>8, <1>9 DEF Seen

(* The operations of SubordinateRegistry, through the mapping.             *)
LEMMA MappedOperation ==
    ASSUME NEW s \in Subjects,
           \/ \E content \in Contents :
                 /\ Record[s] = NoRecord /\ Record' = [Record EXCEPT ![s] = content]
                 /\ History' = [History EXCEPT ![s] = History[s] \o <<"registration">>]
           \/ \E content \in Contents :
                 /\ Record[s] # NoRecord /\ Record' = [Record EXCEPT ![s] = content]
                 /\ History' = [History EXCEPT ![s] = History[s] \o Changes(Record[s], content)]
           \/ /\ Record[s] # NoRecord /\ Record' = [Record EXCEPT ![s] = NoRecord]
              /\ History' = [History EXCEPT ![s] = History[s] \o <<"revocation">>]
           \/ /\ Record' = Record
              /\ History' = [History EXCEPT ![s] = History[s] \o <<"custom">>]
           \/ \E content \in Contents \cup {NoRecord} :
                 /\ s \in Untracked /\ Record' = [Record EXCEPT ![s] = content]
                 /\ History' = History
    PROVE  Registry!Next
  BY DEF Record, History, TypesOf, Registry!Next, Registry!Register, Registry!Update,
         Registry!Revoke, Registry!RecordEvent, Registry!Write, Registry!Log

(* A commit is one operation of SubordinateRegistry.                       *)
LEMMA MappedCommit ==
    ASSUME IInv, NEW s \in Subjects, Explained(state', s)
    PROVE  Registry!Next
<1>1. /\ state \in State /\ now \in Nat
      /\ state.subordinates \in [Subjects -> Row \cup {NoRecord}]
  BY DEF IInv, TypeOK, State
<1>2. /\ "registration" \in EventTypes /\ "revocation" \in EventTypes /\ "custom" \in EventTypes
      /\ \A type \in EventTypes : <<type>> \in Seq(EventTypes)
  BY DEF EventTypes
<1>3. /\ Record[s] = IF state.subordinates[s] = NoRecord THEN NoRecord
                     ELSE state.subordinates[s].content
      /\ Record = [Record EXCEPT ![s] = Record[s]]
  BY DEF Record
<1>4. \A row \in Row : row # NoRecord /\ row.content # NoRecord /\ row.content \in Contents
  BY NoRecordAssumption DEF Row
<1>5. PICK t \in 0..now, u \in 0..now :
        \/ \E content \in Contents :
                /\ CanAdd(s, t)
                /\ state' = WithEvents(NewRow(s, content, t), s, Stamp(<<"registration">>, t))
        \/ \E content \in Contents :
                /\ CanChange(s, u)
                /\ state' = WithEvents(ChangedRow(s, content, u), s,
                         Stamp(Changes(state.subordinates[s].content, content), t))
        \/ /\ state.subordinates[s] # NoRecord
           /\ state' = WithEvents(WithRow(state, s, NoRecord), s, Stamp(<<"revocation">>, t))
        \/ state' = WithEvents(state, s, Stamp(<<"custom">>, 0))
  BY DEF Explained
<1>6. t \in Nat /\ u \in Nat
  BY <1>1
<1>7. ASSUME NEW row \in Row \cup {NoRecord}, NEW types \in Seq(EventTypes), NEW at \in Nat,
             state' = WithEvents(WithRow(state, s, row), s, Stamp(types, at))
      PROVE  Seen(s, row, types)
  <2>1. Stamp(types, at) \in Seq(Event)
    BY StampShape
  <2>2. \A new \in Seq(Event) :
           state' = WithEvents(WithRow(state, s, row), s, new) => Changed(s, row, new)
    <3> DEFINE Shaped(d, new) ==
                 /\ d.subordinates = [state.subordinates EXCEPT ![s] = row]
                 /\ d.events = [state.events EXCEPT ![s] = state.events[s] \o new]
    <3>0. \A new \in Seq(Event) : Shaped(WithEvents(WithRow(state, s, row), s, new), new)
      <4> TAKE new \in Seq(Event)
      <4> DEFINE half == WithRow(state, s, row)
      <4>1. /\ half \in State /\ half.events = state.events
            /\ half.subordinates = [state.subordinates EXCEPT ![s] = row]
        BY <1>1, WithRowShape
      <4> HIDE DEF half
      <4>2. /\ WithEvents(half, s, new).subordinates = half.subordinates
            /\ WithEvents(half, s, new).events = [half.events EXCEPT ![s] = half.events[s] \o new]
        <5>1. half \in State
          BY <4>1
        <5>2. \A st \in State : /\ WithEvents(st, s, new).subordinates = st.subordinates
                 /\ WithEvents(st, s, new).events = [st.events EXCEPT ![s] = st.events[s] \o new]
          BY WithEventsShape
        <5> QED
          BY <5>1, <5>2
      <4>3. Shaped(WithEvents(half, s, new), new)
        BY <4>1, <4>2
      <4> QED
        BY <4>3, Zenon DEF half
    <3> HIDE DEF Shaped
    <3> SUFFICES ASSUME NEW new \in Seq(Event),
                        state' = WithEvents(WithRow(state, s, row), s, new)
                 PROVE  Changed(s, row, new)
      OBVIOUS
    <3> DEFINE d == WithEvents(WithRow(state, s, row), s, new)
    <3>1. /\ d.subordinates = [state.subordinates EXCEPT ![s] = row]
          /\ d.events = [state.events EXCEPT ![s] = state.events[s] \o new]
      BY <3>0 DEF Shaped
    <3>2. state' = d
      OBVIOUS
    <3> HIDE DEF d
    <3> QED
      BY <3>1, <3>2 DEF Changed
  <2>3. Changed(s, row, Stamp(types, at))
    BY <1>7, <2>1, <2>2
  <2> QED
    BY <1>1, <2>3, MappedChange
<1>8. ASSUME NEW content \in Contents, CanAdd(s, t),
             state' = WithEvents(NewRow(s, content, t), s, Stamp(<<"registration">>, t))
      PROVE  Registry!Next
  <2> DEFINE row == [content |-> content, createdAt |-> t, updatedAt |-> t]
  <2>1. row \in Row /\ row.content = content
    BY <1>6 DEF Row
  <2>2. state' = WithEvents(WithRow(state, s, row), s, Stamp(<<"registration">>, t))
    BY <1>8 DEF NewRow
  <2> HIDE DEF row
  <2>3. /\ Record' = [Record EXCEPT ![s] = content]
        /\ History' = [History EXCEPT ![s] = History[s] \o <<"registration">>]
    BY <1>2, <1>4, <1>6, <1>7, <2>1, <2>2 DEF Seen
  <2>4. Record[s] = NoRecord
    BY <1>3, <1>8 DEF CanAdd
  <2> QED
    BY <2>3, <2>4, MappedOperation
<1>9. ASSUME NEW content \in Contents, CanChange(s, u),
             state' = WithEvents(ChangedRow(s, content, u), s,
                         Stamp(Changes(state.subordinates[s].content, content), t))
      PROVE  Registry!Next
  <2> DEFINE row == [content |-> content, createdAt |-> state.subordinates[s].createdAt,
                     updatedAt |-> u]
             types == Changes(state.subordinates[s].content, content)
  <2>1. /\ state.subordinates[s] \in Row /\ state.subordinates[s] # NoRecord
        /\ state.subordinates[s].content \in Contents
    BY <1>1, <1>4, <1>9 DEF CanChange
  <2>2. row \in Row /\ row.content = content
    BY <1>6, <2>1 DEF Row
  <2>3. types \in Seq(EventTypes)
    <3>1. types \in Seq({"metadata_update", "metadata_policy_update", "jwks_update"})
      BY <2>1, ChangesShape
    <3> HIDE DEF types
    <3> QED
      BY <3>1 DEF EventTypes
  <2>4. state' = WithEvents(WithRow(state, s, row), s, Stamp(types, t))
    BY <1>9 DEF ChangedRow
  <2>5. Record[s] = state.subordinates[s].content /\ Record[s] # NoRecord
    BY <1>3, <1>4, <2>1
  <2>6. types = Changes(Record[s], content)
    BY <2>5
  <2> HIDE DEF row, types
  <2>7. /\ Record' = [Record EXCEPT ![s] = content]
        /\ History' = [History EXCEPT ![s] = History[s] \o types]
    BY <1>4, <1>6, <1>7, <2>2, <2>3, <2>4 DEF Seen
  <2> QED
    BY <2>5, <2>6, <2>7, MappedOperation
<1>10. ASSUME state.subordinates[s] # NoRecord,
              state' = WithEvents(WithRow(state, s, NoRecord), s, Stamp(<<"revocation">>, t))
       PROVE  Registry!Next
  <2>1. /\ Record' = [Record EXCEPT ![s] = NoRecord]
        /\ History' = [History EXCEPT ![s] = History[s] \o <<"revocation">>]
    BY <1>2, <1>6, <1>7, <1>10 DEF Seen
  <2>2. Record[s] # NoRecord
    BY <1>1, <1>3, <1>4, <1>10
  <2> QED
    BY <2>1, <2>2, MappedOperation
<1>11. ASSUME state' = WithEvents(state, s, Stamp(<<"custom">>, 0))
       PROVE  Registry!Next
  <2>1. Stamp(<<"custom">>, 0) \in Seq(Event)
    BY <1>2, StampOne
  <2>2. \A new \in Seq(Event) :
           state' = WithEvents(state, s, new) => Changed(s, state.subordinates[s], new)
    <3> SUFFICES ASSUME NEW new \in Seq(Event), state' = WithEvents(state, s, new)
                 PROVE  Changed(s, state.subordinates[s], new)
      OBVIOUS
    <3> DEFINE d == WithEvents(state, s, new)
    <3>1. /\ d.subordinates = state.subordinates
          /\ d.events = [state.events EXCEPT ![s] = state.events[s] \o new]
      BY <1>1, WithEventsShape, ZenonT(30)
    <3>2. state' = d
      OBVIOUS
    <3> HIDE DEF d
    <3> QED
      BY <1>1, <3>1, <3>2 DEF Changed
  <2>3. Changed(s, state.subordinates[s], Stamp(<<"custom">>, 0))
    BY <1>11, <2>1, <2>2
  <2>4. 0 \in Nat /\ <<"custom">> \in Seq(EventTypes)
        /\ state.subordinates[s] \in Row \cup {NoRecord}
    BY <1>1, <1>2
  <2>5. Seen(s, state.subordinates[s], <<"custom">>)
    BY <1>1, <2>3, <2>4, MappedChange
  <2>6. /\ Record' = Record
        /\ History' = [History EXCEPT ![s] = History[s] \o <<"custom">>]
    BY <1>3, <2>5 DEF Seen
  <2> QED
    BY <2>6, MappedOperation
<1> QED
  BY <1>5, <1>8, <1>9, <1>10, <1>11

(* Every step of the storage is a step of SubordinateRegistry or stutters. *)
LEMMA MappedNext ==
    ASSUME IInv, [Next]_vars
    PROVE  Registry!Next \/ UNCHANGED <<Record, History>>
<1>1. \/ state' = state
      \/ \E c \in Callers :
            Commit(c) \/ MarkSelected(c) \/ RevokeMark(c) \/ WriteRow(c)
  BY OnlyCommits
<1>2. ASSUME state'.subordinates = state.subordinates, state'.events = state.events
      PROVE  UNCHANGED <<Record, History>>
  BY <1>2 DEF Record, History, TypesOf
<1>3. CASE state' = state
  BY <1>2, <1>3
<1>4. ASSUME NEW c \in Callers, Commit(c) PROVE Registry!Next
  BY <1>4, CommitEffect, MappedCommit
<1>5. ASSUME NEW c \in Callers, MarkSelected(c) PROVE UNCHANGED <<Record, History>>
  BY <1>2, <1>5, MarkSelectedEffect
<1>6. ASSUME NEW c \in Callers, RevokeMark(c) PROVE UNCHANGED <<Record, History>>
  <2>1. state \in State
    BY DEF IInv, TypeOK
  <2> QED
    BY <1>2, <1>6, <2>1 DEF RevokeMark, State
<1>7. ASSUME NEW s, Written(s) PROVE Registry!Next
  <2>1. /\ s \in Untracked /\ s \in Subjects /\ History' = History /\ state \in State
    BY <1>7, InputAssumption DEF Written, History, TypesOf, IInv, TypeOK
  <2>2. PICK row \in Row \cup {NoRecord} :
           state'.subordinates = [state.subordinates EXCEPT ![s] = row]
    BY <1>7 DEF Written
  <2> DEFINE content == IF row = NoRecord THEN NoRecord ELSE row.content
  <2>3. content \in Contents \cup {NoRecord}
    BY DEF Row
  <2>4. Record' = [Record EXCEPT ![s] = content]
    <3>1. \A x \in Subjects :
             state'.subordinates[x] = IF x = s THEN row ELSE state.subordinates[x]
      BY <2>1, <2>2 DEF State
    <3> QED
      BY <3>1 DEF Record
  <2> HIDE DEF content
  <2> QED
    BY <2>1, <2>3, <2>4, MappedOperation
<1>8. ASSUME NEW c \in Callers, WriteRow(c)
      PROVE  Registry!Next \/ UNCHANGED <<Record, History>>
  BY <1>2, <1>7, <1>8, WriteRowEffect
<1> QED
  BY <1>1, <1>3, <1>4, <1>5, <1>6, <1>8

(* The adapter implements the registry: whatever the interleaving of the   *)
(* callers, each committed transaction is one atomic lifecycle operation   *)
(* with exactly the events that explain it, or one row the application     *)
(* wrote itself, and nothing else is visible.                              *)
THEOREM RegistryImplemented == Spec => RegistrySpec
<1>1. Init => Registry!Init
  BY MappedInit
<1>2. IInv /\ [Next]_vars => [Registry!Next]_<<Record, History>>
  BY MappedNext
<1>3. [Registry!Next]_<<Record, History>> <=> Registry!Next \/ UNCHANGED <<Record, History>>
  OBVIOUS
<1> QED
  BY <1>1, <1>2, StorageCorrect, PTL DEF Spec, RegistrySpec, Registry!Spec, Record, History, TypesOf
=============================================================================
