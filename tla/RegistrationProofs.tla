------------------------ MODULE RegistrationProofs ------------------------
(***************************************************************************)
(* Registration: what the two sides of a registration agree on, for any    *)
(* number of concurrent calls and requests, any chains above the two, any  *)
(* clocks and any anchors.                                                 *)
(***************************************************************************)
EXTENDS Registration, TLAPS, FiniteSetTheorems, SequenceTheorems, WellFoundedInduction

(* The one-time use of assertions and proofs: any number of requests,      *)
(* clients and claims, any skew and any capacity.                          *)

(* AssertionOnce is inductive once it is known that an accepted assertion  *)
(* stays recorded while its window is open.                                *)
IInv == TypeOK /\ RecordedWhileOpen /\ AssertionOnce

LEMMA InitIInv == Init => IInv
<1> SUFFICES ASSUME Init PROVE IInv
  OBVIOUS
<1>1. TypeOK
  BY NumberAssumption DEF Init, TypeOK, Absent
<1>2. \A r \in Requests : pc[r] # "accepted"
  BY DEF Init
<1> QED
  BY <1>1, <1>2 DEF IInv, RecordedWhileOpen, AssertionOnce, Uses

(* A step that neither touches the store nor accepts a claim.              *)
LEMMA QuietStep ==
    ASSUME IInv, TypeOK', entries' = entries, message' = message,
           claimedAt' = claimedAt, now <= now',
           \A r \in Requests : pc'[r] = "accepted" => pc[r] = "accepted"
    PROVE  IInv'
<1>1. RecordedWhileOpen'
  BY MessageAssumption, NumberAssumption
     DEF IInv, TypeOK, RecordedWhileOpen, InWindow, WindowEnd
<1>2. AssertionOnce'
  BY DEF IInv, AssertionOnce, Uses, InWindow
<1> QED
  BY <1>1, <1>2 DEF IInv

LEMMA ReceiveIInv == ASSUME IInv, NEW r \in Requests, Receive(r) PROVE IInv'
<1>1. TypeOK' /\ now <= now'
  BY DEF IInv, TypeOK, Receive, Move
<1>2. \A q \in Requests : pc'[q] = "accepted" => pc[q] = "accepted"
  BY DEF IInv, TypeOK, Receive, Move
<1> QED
  BY <1>1, <1>2, QuietStep DEF Receive

LEMMA VerifyIInv ==
    ASSUME IInv, NEW r \in Requests, NEW authentic \in BOOLEAN, Verify(r, authentic)
    PROVE  IInv'
<1>1. TypeOK' /\ now <= now'
  BY DEF IInv, TypeOK, Verify, Move
<1>2. \A q \in Requests : pc'[q] = "accepted" => pc[q] = "accepted"
  BY DEF IInv, TypeOK, Verify, Move
<1> QED
  BY <1>1, <1>2, QuietStep DEF Verify

LEMMA WithdrawIInv == ASSUME IInv, NEW r \in Requests, Withdraw(r) PROVE IInv'
<1>1. TypeOK' /\ now <= now'
  BY DEF IInv, TypeOK, Withdraw, Move
<1>2. \A q \in Requests : pc'[q] = "accepted" => pc[q] = "accepted"
  BY DEF IInv, TypeOK, Withdraw, Move
<1> QED
  BY <1>1, <1>2, QuietStep DEF Withdraw

LEMMA TickIInv == ASSUME IInv, Tick PROVE IInv'
<1>1. TypeOK' /\ now <= now'
  BY NumberAssumption DEF IInv, TypeOK, Tick
<1> QED
  BY <1>1, QuietStep DEF Tick

(* Purging expired entries keeps every entry that is still live.           *)
LEMMA PurgeKeepsLive ==
    ASSUME TypeOK, NEW at \in Nat
    PROVE  /\ Purged(at) \in [Tuples -> Nat]
           /\ \A t \in Tuples : entries[t] > at => Purged(at)[t] = entries[t]
BY DEF TypeOK, Purged, Live, Absent

(* The claim: the one step that writes the store and accepts.              *)
LEMMA ClaimIInv ==
    ASSUME IInv, NEW r \in Requests, NEW at \in 0..MaxTime, Claim(r, at)
    PROVE  IInv'
<1> DEFINE m == message[r]
           t == tuple[m]
<1>1. /\ now' = at /\ now <= at /\ message' = message
      /\ now \in Nat /\ at \in Nat /\ m \in Messages /\ t \in Tuples
  BY MessageAssumption, NumberAssumption DEF IInv, TypeOK, Claim
<1>2. CASE /\ entries' = entries \/ entries' = Purged(at)
           /\ UNCHANGED claimedAt /\ pc' = [pc EXCEPT ![r] = "refused"]
  <2>1. TypeOK'
    BY <1>1, <1>2, PurgeKeepsLive DEF IInv, TypeOK
  <2>2. \A q \in Requests : pc'[q] = "accepted" => pc[q] = "accepted"
    BY <1>2 DEF IInv, TypeOK
  <2>3. RecordedWhileOpen'
    <3> SUFFICES ASSUME NEW q \in Requests, pc'[q] = "accepted",
                        Skewed(message[q]), InWindow(message[q], at)
                 PROVE  entries'[tuple[message[q]]] >= WindowEnd(message[q])
      BY <1>1 DEF RecordedWhileOpen, InWindow, WindowEnd
    <3>1. WindowEnd(message[q]) \in Nat /\ tuple[message[q]] \in Tuples
      BY MessageAssumption, NumberAssumption DEF IInv, TypeOK, WindowEnd
    <3>2. entries[tuple[message[q]]] >= WindowEnd(message[q])
      BY <1>1, <2>2, <3>1 DEF IInv, RecordedWhileOpen, InWindow
    <3>3. entries[tuple[message[q]]] > at
      BY <1>1, <3>1, <3>2 DEF InWindow, IInv, TypeOK
    <3> QED
      BY <1>1, <1>2, <3>1, <3>2, <3>3, PurgeKeepsLive DEF IInv
  <2>4. AssertionOnce'
    BY <1>1, <1>2, <2>2 DEF IInv, AssertionOnce, Uses, InWindow
  <2> QED
    BY <2>1, <2>3, <2>4 DEF IInv
<1>3. CASE /\ Skewed(m) => InWindow(m, now)
           /\ t \notin Live(at)
           /\ pc' = [pc EXCEPT ![r] = "accepted"] /\ pc[r] = "verified"
           /\ entries' = [Purged(at) EXCEPT ![t] = ExpiresAt(m)]
           /\ claimedAt' = [claimedAt EXCEPT ![r] = at]
  <2>1. TypeOK'
    <3>1. ExpiresAt(m) \in Nat
      BY <1>1, MessageAssumption, NumberAssumption DEF ExpiresAt
    <3> QED
      BY <1>1, <1>3, <3>1, PurgeKeepsLive DEF IInv, TypeOK
  (* Whoever was accepted before with a window that is still open is       *)
  (* recorded, and so has another tuple than the one just claimed.         *)
  <2>2. ASSUME NEW q \in Requests, q # r, pc'[q] = "accepted",
               Skewed(message[q]), InWindow(message[q], at)
        PROVE  /\ entries[tuple[message[q]]] >= WindowEnd(message[q])
               /\ tuple[message[q]] \in Live(at)
    <3>1. /\ WindowEnd(message[q]) \in Nat /\ tuple[message[q]] \in Tuples
          /\ entries[tuple[message[q]]] \in Nat
      BY MessageAssumption, NumberAssumption DEF IInv, TypeOK, WindowEnd
    <3>2. pc[q] = "accepted"
      BY <1>3, <2>2 DEF IInv, TypeOK
    <3>3. entries[tuple[message[q]]] >= WindowEnd(message[q])
      BY <1>1, <2>2, <3>1, <3>2 DEF IInv, RecordedWhileOpen, InWindow
    <3> QED
      BY <1>1, <2>2, <3>1, <3>3 DEF InWindow, Live
  <2>3. RecordedWhileOpen'
    <3> SUFFICES ASSUME NEW q \in Requests, pc'[q] = "accepted",
                        Skewed(message[q]), InWindow(message[q], at)
                 PROVE  entries'[tuple[message[q]]] >= WindowEnd(message[q])
      BY <1>1 DEF RecordedWhileOpen, InWindow, WindowEnd
    <3>1. CASE q = r
      <4>1. WindowEnd(m) \in Nat /\ ExpiresAt(m) = WindowEnd(m)
        BY <1>1, <3>1, MessageAssumption, NumberAssumption DEF ExpiresAt, WindowEnd
      <4>2. entries'[t] = ExpiresAt(m)
        BY <1>1, <1>3, PurgeKeepsLive DEF IInv
      <4> QED
        BY <3>1, <4>1, <4>2
    <3>2. CASE q # r
      <4>1. tuple[message[q]] # t /\ tuple[message[q]] \in Tuples
        BY <1>3, <2>2, <3>2 DEF Live
      <4>2. entries'[tuple[message[q]]] = Purged(at)[tuple[message[q]]]
        BY <1>1, <1>3, <4>1, PurgeKeepsLive DEF IInv
      <4>3. Purged(at)[tuple[message[q]]] = entries[tuple[message[q]]]
        BY <1>1, <2>2, <3>2, <4>1, PurgeKeepsLive DEF IInv, Live
      <4> QED
        BY <2>2, <3>2, <4>2, <4>3
    <3> QED
      BY <3>1, <3>2
  <2>4. AssertionOnce'
    <3> SUFFICES ASSUME NEW n \in Messages, Skewed(n),
                        NEW q1 \in Uses(n)', NEW q2 \in Uses(n)', q1 # q2
                 PROVE  FALSE
      BY DEF AssertionOnce
    <3>1. /\ q1 \in Requests /\ q2 \in Requests
          /\ message[q1] = n /\ message[q2] = n
          /\ pc'[q1] = "accepted" /\ pc'[q2] = "accepted"
          /\ InWindow(n, claimedAt'[q1]) /\ InWindow(n, claimedAt'[q2])
      BY <1>1 DEF Uses, InWindow, WindowEnd
    <3>2. ASSUME NEW q \in Requests, q # r, message[q] = n, pc'[q] = "accepted",
                 m = n, InWindow(n, at)
          PROVE  FALSE
      BY <1>3, <2>2, <3>2
    <3>3. claimedAt'[r] = at
      BY <1>3 DEF IInv, TypeOK
    <3>4. CASE q1 = r
      BY <3>1, <3>2, <3>3, <3>4
    <3>5. CASE q2 = r
      BY <3>1, <3>2, <3>3, <3>5
    <3>6. CASE q1 # r /\ q2 # r
      <4>1. q1 \in Uses(n) /\ q2 \in Uses(n)
        BY <1>3, <3>1, <3>6 DEF IInv, TypeOK, Uses
      <4> QED
        BY <4>1 DEF IInv, AssertionOnce
    <3> QED
      BY <3>4, <3>5, <3>6
  <2> QED
    BY <2>1, <2>3, <2>4 DEF IInv
<1> QED
  BY <1>2, <1>3 DEF Claim, Move

LEMMA NextIInv == IInv /\ [Next]_vars => IInv'
<1> SUFFICES ASSUME IInv, [Next]_vars PROVE IInv'
  OBVIOUS
<1>1. CASE UNCHANGED vars
  BY <1>1 DEF vars, IInv, TypeOK, RecordedWhileOpen, AssertionOnce, Uses, InWindow, WindowEnd
<1>2. CASE Answered
  BY <1>1, <1>2 DEF Answered
<1>3. CASE Tick
  BY <1>3, TickIInv
<1> QED
  BY <1>1, <1>2, <1>3, ReceiveIInv, VerifyIInv, WithdrawIInv, ClaimIInv DEF Next

(* The inductive invariant holds in every reachable state.                 *)
THEOREM Invariance == Spec => []IInv
  BY InitIInv, NextIInv, PTL DEF Spec

(* No client assertion is accepted twice within its window, however many   *)
(* requests present it and whatever else the store is asked to hold.       *)
THEOREM AssertionsUsedOnce == Spec => []AssertionOnce
<1>1. IInv => AssertionOnce
  BY DEF IInv
<1> QED
  BY <1>1, Invariance, PTL
----------------------------------------------------------------------------
(* Registration.                                                           *)

CallRecords ==
    [pc : {"none", "idle", "discovered", "selected", "sent", "delivered", "refused",
           "accepted", "lost"},
     op : OpChains \cup {None}, rp : RpChains \cup {None}, peer : OpChains \cup {None},
     key : Nat]

Objects == [chain : RpChains \cup {None}, peer : OpChains \cup {None}]

RegTypeOK ==
    /\ work \in Workloads /\ opKey \in Nat
    /\ call \in [Calls -> CallRecords]
    /\ post \in [Calls -> Posts \cup {None}]
    /\ object \in [Messages -> Objects \cup {None}]
    /\ auto \in [Requests -> RpChains \cup {None}]
    /\ hooked \in [Requests -> {"no", "done", "failed"}]
    /\ holder \in Calls \cup {None}

(* The RP's side of a call.  Once chains are selected they share an anchor *)
(* of the RP; what was sent is what the OP has; before anything is sent    *)
(* there is no post, and a call ends only with the OP's answer.            *)
RpSide(c) ==
    /\ call[c].pc = "discovered" => call[c].op \in OpChains
    /\ call[c].pc \in {"selected", "sent", "accepted", "lost"} =>
        /\ call[c].rp \in RpChains /\ call[c].op \in OpChains
        /\ call[c].rp.anchor = call[c].op.anchor /\ call[c].rp.anchor \in RpAnchors
    /\ call[c].pc \in {"idle", "discovered", "selected", "delivered"} => post[c] = None
    /\ call[c].pc \in {"sent", "accepted", "lost"} =>
        /\ post[c] # None /\ post[c].form = "header"
        /\ post[c].chain = call[c].rp
        /\ call[c].peer # None => call[c].peer.anchor = call[c].rp.anchor
    /\ call[c].pc = "accepted" => post[c].pc = "registered"
    /\ call[c].pc = "refused" /\ post[c] # None =>
        post[c].pc \in {"registered", "refused", "failed"}

Chained == {"chained", "trusted", "prepared", "invalidated", "registered", "failed", "processed"}
Prepared == {"prepared", "invalidated", "registered", "failed"}

(* The OP's side: the chain it goes by ends at one of its anchors and is   *)
(* the request's if that has one, and the response does not outlive it.    *)
OpSide(c) ==
    post[c] # None =>
        /\ post[c].form # "none" => post[c].chain \in RpChains
        /\ post[c].pc \in Chained =>
            /\ post[c].best \in RpChains /\ post[c].best.anchor \in OpAnchors
            /\ post[c].form # "none" => post[c].best = post[c].chain
        /\ post[c].pc \in Prepared => post[c].exp <= post[c].best.exp

(* A Request Object on its way through processAutomaticRegistration.       *)
AutoSide(r) ==
    /\ hooked[r] = "done" => Ours(r) /\ pc[r] = "accepted"
    /\ Ours(r) =>
        /\ pc[r] # "new" => object[message[r]] # None
        /\ pc[r] \in {"verified", "accepted"} =>
            /\ auto[r].anchor \in OpAnchors
            /\ object[message[r]].chain # None => auto[r] = object[message[r]].chain
        /\ pc[r] = "accepted" /\ object[message[r]].peer # None =>
            object[message[r]].peer.anchor = auto[r].anchor

(* Whatever the OP has registered and does not keep as its record has been *)
(* replaced; the RP holds what the OP has registered.                      *)
Superseded(c) ==
    \/ \E d \in Calls \ {c} :
        post[d] # None /\ post[d].pc \in {"invalidated", "registered", "failed"}
    \/ \E r \in Requests : hooked[r] = "done"
Kept ==
    /\ \A c \in Calls :
        post[c] # None /\ post[c].pc = "registered" /\ record # c => Superseded(c)
    /\ holder # None => post[holder] # None /\ post[holder].pc = "registered"

Sides ==
    /\ \A c \in Calls : RpSide(c) /\ OpSide(c)
    /\ \A r \in Requests : AutoSide(r)

RegInv == IInv /\ RegTypeOK /\ Sides /\ RefusalExplained /\ Kept
----------------------------------------------------------------------------
(* Sets of numbers have a least element.                                   *)
LEMMA LeastOf == ASSUME NEW T, T \subseteq Nat, T # {} PROVE \E m \in T : \A n \in T : m <= n
<1> DEFINE Up(n) == 1..n
           R == StrictSubsetOrdering(Nat)
           U == {Up(n) : n \in T}
<1>1. U \subseteq FiniteSubsetsOf(Nat) /\ U # {}
  <2>1. \A n \in Nat : Up(n) \subseteq Nat /\ IsFiniteSet(Up(n))
    BY FS_Interval
  <2> QED
    BY <2>1 DEF FiniteSubsetsOf
<1>2. IsWellFoundedOn(R, FiniteSubsetsOf(Nat))
  BY FS_StrictSubsetOrderingWellFounded
<1> HIDE DEF R
<1>3. \E x \in U : \A y \in U : ~(<<y, x>> \in R)
  <2> HIDE DEF U
  <2> QED
    BY <1>1, <1>2, WFMin
<1>4. PICK m \in T : \A n \in T : ~(<<Up(n), Up(m)>> \in R)
  BY <1>3
<1>5. ASSUME NEW n \in T PROVE m <= n
  <2>1. ASSUME n < m PROVE FALSE
    <3>1. Up(n) \subseteq Up(m) /\ Up(n) \subseteq Nat /\ Up(m) \subseteq Nat
      BY <2>1
    <3>2. m \in Up(m) /\ m \notin Up(n)
      BY <2>1
    <3> HIDE DEF Up
    <3>3. <<Up(n), Up(m)>> \in R
      BY <3>1, <3>2 DEF R, StrictSubsetOrdering
    <3> QED
      BY <1>4, <3>3
  <2> QED
    BY <2>1
<1> QED
  BY <1>5

(* What a resolution leaves are valid chains, one place after the other.   *)
LEMMA ResolvedChains ==
    ASSUME NEW chains, IsFiniteSet(chains), NEW anchors, NEW at,
           NEW s \in Resolved(chains, anchors, at)
    PROVE  \E n \in Nat : s \in [1..n -> {ch \in chains : ValidAt(ch, anchors, at)}]
<1> DEFINE V == {ch \in chains : ValidAt(ch, anchors, at)}
<1>1. PICK T \in SUBSET V : s \in SetToSeqs(T)
  BY DEF Resolved
<1>2. IsFiniteSet(T)
  <2>1. T \subseteq chains
    BY <1>1
  <2> QED
    BY <2>1, FS_Subset
<1>3. Cardinality(T) \in Nat
  BY <1>2, FS_CardinalityType
<1>4. s \in [1..Cardinality(T) -> T]
  BY <1>1 DEF SetToSeqs
<1>5. s \in [1..Cardinality(T) -> V]
  <2> HIDE DEF V
  <2> QED
    BY <1>1, <1>4
<1> QED
  BY <1>3, <1>5

(* The chain that shortestChain returns is one of those it is given.       *)
LEMMA ShortestIsOne ==
    ASSUME NEW C \in SUBSET (RpChains \cup OpChains), NEW n \in Nat, NEW s \in [1..n -> C],
           NEW places \in SUBSET (1..n), places # {}
    PROVE  \E i \in places : ShortestAt(s, places) = s[i]
<1>1. \A i \in places : s[i].len \in Nat /\ i \in Nat
  BY ChainAssumption
<1> DEFINE Lens == {s[i].len : i \in places}
<1>2. PICK len \in Lens : \A k \in Lens : len <= k
  <2>1. Lens \subseteq Nat /\ Lens # {}
    BY <1>1
  <2> HIDE DEF Lens
  <2> QED
    BY <2>1, LeastOf
<1> DEFINE Best == {i \in places : s[i].len = len}
<1>3. PICK i \in Best : \A j \in Best : i <= j
  <2>1. Best \subseteq Nat /\ Best # {}
    BY <1>1
  <2> HIDE DEF Best
  <2> QED
    BY <2>1, LeastOf
<1>4. \A j \in places : s[i].len < s[j].len \/ (s[i].len = s[j].len /\ i <= j)
  <2> SUFFICES ASSUME NEW j \in places PROVE s[i].len < s[j].len \/ (s[i].len = s[j].len /\ i <= j)
    OBVIOUS
  <2>1. s[i].len = len /\ len <= s[j].len /\ i \in places
    BY <1>2, <1>3
  <2>2. s[i].len \in Nat /\ s[j].len \in Nat
    BY <1>1, <2>1
  <2>3. s[j].len = len => i <= j
    BY <1>3
  <2> QED
    BY <2>1, <2>2, <2>3
<1> QED
  BY <1>3, <1>4 DEF ShortestAt

LEMMA NonEmptyDomain ==
    ASSUME NEW C, NEW n \in Nat, NEW s \in [1..n -> C], s # <<>>
    PROVE  DOMAIN s = 1..n /\ DOMAIN s # {}
<1>1. s \in Seq(C)
  BY SeqDef
<1>2. Len(s) # 0 /\ Len(s) \in Nat /\ DOMAIN s = 1..Len(s)
  BY <1>1, EmptySeq, LenProperties
<1>3. DOMAIN s = 1..n
  OBVIOUS
<1>4. 1 \in 1..Len(s)
  BY <1>2
<1> QED
  BY <1>2, <1>3, <1>4

(* So the chain found when none is supplied is a valid chain of the RP.    *)
LEMMA FoundChain ==
    ASSUME NEW anchors, NEW at, NEW s \in Resolved(RpChains, anchors, at), s # <<>>
    PROVE  Shortest(s) \in RpChains /\ ValidAt(Shortest(s), anchors, at)
<1>1. PICK n \in Nat : s \in [1..n -> {ch \in RpChains : ValidAt(ch, anchors, at)}]
  BY ResolvedChains, ChainAssumption
<1> DEFINE V == {ch \in RpChains : ValidAt(ch, anchors, at)}
<1>2. V \in SUBSET (RpChains \cup OpChains)
  OBVIOUS
<1>3. \E i \in DOMAIN s : ShortestAt(s, DOMAIN s) = s[i]
  <2> HIDE DEF V
  <2>1. s \in [1..n -> V]
    BY <1>1 DEF V
  <2>2. DOMAIN s = 1..n /\ DOMAIN s # {}
    BY <2>1, NonEmptyDomain
  <2> QED
    BY <1>2, <2>1, <2>2, ShortestIsOne
<1> QED
  BY <1>1, <1>3 DEF Shortest
----------------------------------------------------------------------------
LEMMA RegInitInv == RegistrationInit => RegInv
<1> SUFFICES ASSUME RegistrationInit PROVE RegInv
  OBVIOUS
<1>1. IInv
  BY InitIInv DEF RegistrationInit
<1>2. /\ work \in Workloads /\ opKey = 1 /\ record = None /\ holder = None
      /\ call \in [Calls -> CallRecords]
      /\ \A c \in Calls : /\ call[c].pc \in {"none", "idle"}
                          /\ call[c].pc = "none" <=> work.calls[c].type = "foreign"
      /\ post = [c \in Calls |-> work.calls[c].post]
  BY DEF RegistrationInit, CallRecords
<1>3. \A c \in Calls :
        post[c] # None => /\ call[c].pc = "none" /\ post[c] \in Posts
                          /\ post[c].pc = "received"
                          /\ post[c].form # "none" => post[c].chain \in RpChains
  BY <1>2, WorkloadAssumption
<1>4. post \in [Calls -> Posts \cup {None}]
  BY <1>2, <1>3
<1>5. /\ object \in [Messages -> Objects \cup {None}]
      /\ auto \in [Requests -> RpChains \cup {None}]
      /\ hooked \in [Requests -> {"no", "done", "failed"}]
      /\ \A r \in Requests : hooked[r] # "done" /\ pc[r] = "new"
  BY DEF RegistrationInit, Objects, Init
<1>6. RegTypeOK
  BY <1>2, <1>4, <1>5 DEF RegTypeOK
<1>7. \A c \in Calls : RpSide(c) /\ OpSide(c)
  BY <1>2, <1>3 DEF RpSide, OpSide, Chained, Prepared
<1>8. \A r \in Requests : AutoSide(r)
  BY <1>5 DEF AutoSide
<1>9. RefusalExplained
  BY <1>2 DEF RefusalExplained
<1>10. Kept
  BY <1>2, <1>3 DEF Kept
<1> QED
  BY <1>1, <1>6, <1>7, <1>8, <1>9, <1>10 DEF RegInv, Sides

(* A step on one call that leaves replay protection and automatic          *)
(* registration alone: what it has to show is about that call.             *)
LEMMA CallStep ==
    ASSUME RegInv, RegTypeOK', NEW c \in Calls,
           UNCHANGED <<vars, work, auto, hooked>>,
           \A m \in Messages : object[m] # None => object'[m] = object[m],
           \A d \in Calls : d # c => call'[d] = call[d] /\ post'[d] = post[d],
           RpSide(c)', OpSide(c)',
           call'[c].pc = "refused" /\ post'[c] # None /\ post'[c].pc = "registered" =>
               post'[c].key # call'[c].key \/ post'[c].exp <= RpNow,
           Kept'
    PROVE  RegInv'
<1>1. IInv'
  BY NextIInv DEF RegInv
<1>2. \A d \in Calls : RpSide(d)' /\ OpSide(d)'
  <2> SUFFICES ASSUME NEW d \in Calls, d # c PROVE RpSide(d)' /\ OpSide(d)'
    OBVIOUS
  <2> QED
    BY DEF RegInv, Sides, RpSide, OpSide
<1>3. \A r \in Requests : AutoSide(r)'
  <2> SUFFICES ASSUME NEW r \in Requests PROVE AutoSide(r)'
    OBVIOUS
  <2>1. /\ message' = message /\ pc' = pc /\ message[r] \in Messages
        /\ object[message[r]] # None => object'[message[r]] = object[message[r]]
    BY DEF vars, RegInv, IInv, TypeOK
  <2>2. Ours(r)' <=> Ours(r)
    BY <2>1 DEF Ours
  <2>3. AutoSide(r)
    BY DEF RegInv, Sides
  <2> QED
    BY <2>1, <2>2, <2>3 DEF AutoSide
<1>4. RefusalExplained'
  <2>1. RpNow' = RpNow
    BY DEF RpNow, vars
  <2> QED
    BY <2>1 DEF RegInv, RefusalExplained
<1> QED
  BY <1>1, <1>2, <1>3, <1>4 DEF RegInv, Sides

Late == {"invalidated", "registered", "failed"}

(* A step that keeps the record and moves no post into or out of the last  *)
(* phase.                                                                  *)
LEMMA KeptQuiet ==
    ASSUME Kept, holder \in Calls \cup {None}, NEW c \in Calls, UNCHANGED <<record, holder, hooked>>,
           \A d \in Calls : d # c => post'[d] = post[d],
           \/ post'[c] = post[c]
           \/ /\ ~(post[c] # None /\ post[c].pc \in Late)
              /\ ~(post'[c] # None /\ post'[c].pc \in Late)
    PROVE  Kept'
<1>1. \A d \in Calls :
        /\ (post'[d] # None /\ post'[d].pc \in Late)
           <=> (post[d] # None /\ post[d].pc \in Late)
        /\ (post'[d] # None /\ post'[d].pc = "registered")
           <=> (post[d] # None /\ post[d].pc = "registered")
  BY DEF Late
<1>2. \A d \in Calls : Superseded(d) => Superseded(d)'
  BY <1>1 DEF Superseded, Late
<1>3. holder # None => post'[holder] # None /\ post'[holder].pc = "registered"
  BY <1>1 DEF Kept
<1> QED
  BY <1>1, <1>2, <1>3 DEF Kept
----------------------------------------------------------------------------
(* The steps of the RP.                                                    *)

LEMMA DiscoverInv == ASSUME RegInv, NEW c \in Calls, Discover(c) PROVE RegInv'
<1>1. PICK ch \in OpChains :
        call' = [call EXCEPT ![c].pc = "discovered", ![c].op = ch, ![c].key = opKey]
  BY DEF Discover
<1>2. /\ call[c].pc = "idle" /\ post[c] = None
      /\ UNCHANGED <<vars, work, opKey, post, object, auto, hooked, record, holder>>
  BY DEF Discover, RegInv, Sides, RpSide
<1>3. /\ call'[c].pc = "discovered" /\ call'[c].op = ch
      /\ \A d \in Calls : d # c => call'[d] = call[d]
      /\ call' \in [Calls -> CallRecords]
  <2>1. call \in [Calls -> CallRecords] /\ call[c] \in CallRecords /\ opKey \in Nat
    BY DEF RegInv, RegTypeOK
  <2>2. call'[c] = [pc |-> "discovered", op |-> ch, rp |-> call[c].rp,
                    peer |-> call[c].peer, key |-> opKey]
    BY <1>1, <2>1 DEF CallRecords
  <2>3. call'[c] \in CallRecords
    BY <2>1, <2>2 DEF CallRecords
  <2>4. \A d \in Calls : d # c => call'[d] = call[d]
    BY <1>1, <2>1
  <2>5. call' \in [Calls -> CallRecords]
    BY <1>1, <2>1, <2>3, <2>4
  <2> QED
    BY <2>2, <2>4, <2>5
<1>4. RegTypeOK'
  BY <1>2, <1>3 DEF RegInv, RegTypeOK
<1>5. RpSide(c)' /\ OpSide(c)'
  BY <1>2, <1>3 DEF RpSide, OpSide
<1>6. Kept'
  BY <1>2, KeptQuiet DEF RegInv, RegTypeOK
<1> QED
  BY <1>2, <1>3, <1>4, <1>5, <1>6, CallStep

(* The chains that selectSharedRegistrationTrustChains returns are valid   *)
(* for the RP and end at one anchor.                                       *)
LEMMA SharedAnchor ==
    ASSUME RegInv, NEW c \in Calls,
           NEW rps \in Resolved(RpChains, RpAnchors, RpNow),
           NEW ops \in Resolved(OpChains, RpAnchors, RpNow), SelectShared(c, rps, ops)
    PROVE  \/ call' = [call EXCEPT ![c].pc = "refused"]
           \/ \E rp \in RpChains, op \in OpChains, key \in Nat :
                /\ rp.anchor = op.anchor /\ rp.anchor \in RpAnchors
                /\ call' = [call EXCEPT ![c].pc = "selected", ![c].rp = rp, ![c].op = op,
                                        ![c].key = key]
<1> DEFINE preferred == Ending(rps, call[c].op.anchor)
           matched == {i \in DOMAIN rps : Ending(ops, rps[i].anchor) # {}}
           first == rps[Min(matched)]
           opAt == Ending(ops, first.anchor)
           VR == {ch \in RpChains : ValidAt(ch, RpAnchors, RpNow)}
           VO == {ch \in OpChains : ValidAt(ch, RpAnchors, RpNow)}
<1>1. PICK n \in Nat : rps \in [1..n -> VR]
  BY ResolvedChains, ChainAssumption
<1>2. PICK k \in Nat : ops \in [1..k -> VO]
  BY ResolvedChains, ChainAssumption
<1>3. /\ VR \in SUBSET (RpChains \cup OpChains) /\ VO \in SUBSET (RpChains \cup OpChains)
      /\ \A ch \in VR : ch \in RpChains /\ ch.anchor \in RpAnchors
      /\ \A ch \in VO : ch \in OpChains
  BY DEF ValidAt
<1>4. /\ call[c].pc = "discovered" /\ call[c].op \in OpChains /\ call[c] \in CallRecords
      /\ opKey \in Nat
  BY DEF SelectShared, RegInv, Sides, RpSide, RegTypeOK
<1> HIDE DEF VR, VO
<1>5. CASE preferred # {}
  <2>1. call' = [call EXCEPT ![c].pc = "selected", ![c].rp = ShortestAt(rps, preferred)]
    BY <1>5 DEF SelectShared
  <2>2. preferred \in SUBSET (1..n)
    BY <1>1 DEF Ending
  <2>3. PICK i \in preferred : ShortestAt(rps, preferred) = rps[i]
    <3>1. VR \in SUBSET (RpChains \cup OpChains)
      BY <1>3
    <3> HIDE DEF preferred, matched, first, opAt
    <3> QED
      BY <1>1, <1>5, <2>2, <3>1, ShortestIsOne
  <2>4. rps[i] \in VR /\ rps[i].anchor = call[c].op.anchor
    BY <1>1, <2>3 DEF Ending
  <2>5. call' = [call EXCEPT ![c].pc = "selected", ![c].rp = rps[i], ![c].op = call[c].op,
                             ![c].key = call[c].key]
    BY <1>4, <2>1, <2>3 DEF RegInv, RegTypeOK, CallRecords
  <2>6. call[c].key \in Nat
    BY <1>4 DEF CallRecords
  <2> QED
    BY <1>3, <1>4, <2>4, <2>5, <2>6
<1>6. CASE preferred = {} /\ matched # {}
  <2>1. call' = [call EXCEPT ![c].pc = "selected", ![c].rp = first, ![c].key = opKey,
                             ![c].op = ShortestAt(ops, opAt)]
    BY <1>6 DEF SelectShared
  <2>2. matched \subseteq Nat
    BY <1>1
  <2>3. PICK j \in matched : first = rps[j]
    <3>1. \E j \in matched : \A x \in matched : j <= x
      <4> HIDE DEF matched
      <4> QED
        BY <1>6, <2>2, LeastOf
    <3>2. Min(matched) \in matched
      BY <3>1 DEF Min
    <3> QED
      BY <3>2
  <2>4. first \in VR /\ opAt # {}
    BY <1>1, <2>3
  <2>5. opAt \in SUBSET (1..k)
    BY <1>2 DEF Ending
  <2>6. PICK i \in opAt : ShortestAt(ops, opAt) = ops[i]
    <3>1. opAt # {} /\ VO \in SUBSET (RpChains \cup OpChains)
      BY <1>3, <2>4
    <3> HIDE DEF opAt, first, matched, preferred
    <3> QED
      BY <1>2, <2>5, <3>1, ShortestIsOne, ZenonT(30)
  <2>7. ops[i] \in VO /\ ops[i].anchor = first.anchor
    BY <1>2, <2>6 DEF Ending
  <2>8. call' = [call EXCEPT ![c].pc = "selected", ![c].rp = first, ![c].op = ops[i],
                             ![c].key = opKey]
    <3> HIDE DEF first, opAt
    <3> QED
      BY <1>4, <2>1, <2>6 DEF RegInv, RegTypeOK, CallRecords
  <2> HIDE DEF first
  <2> QED
    BY <1>3, <1>4, <2>4, <2>7, <2>8
<1>7. CASE preferred = {} /\ matched = {}
  BY <1>7 DEF SelectShared
<1> QED
  BY <1>5, <1>6, <1>7

LEMMA SelectInv ==
    ASSUME RegInv, NEW c \in Calls,
           NEW rps \in Resolved(RpChains, RpAnchors, RpNow),
           NEW ops \in Resolved(OpChains, RpAnchors, RpNow), SelectShared(c, rps, ops)
    PROVE  RegInv'
<1>1. /\ call[c].pc = "discovered" /\ post[c] = None
      /\ UNCHANGED <<vars, work, opKey, post, object, auto, hooked, record, holder>>
  BY DEF SelectShared, RegInv, Sides, RpSide
<1>2. Kept'
  BY <1>1, KeptQuiet DEF RegInv, RegTypeOK
<1>3. CASE call' = [call EXCEPT ![c].pc = "refused"]
  <2>1. /\ call'[c].pc = "refused" /\ \A d \in Calls : d # c => call'[d] = call[d]
        /\ call' \in [Calls -> CallRecords]
    BY <1>3, SMTT(30) DEF RegInv, RegTypeOK, CallRecords
  <2>2. RegTypeOK' /\ RpSide(c)' /\ OpSide(c)'
    BY <1>1, <2>1 DEF RegInv, RegTypeOK, RpSide, OpSide
  <2> QED
    BY <1>1, <1>2, <2>1, <2>2, CallStep
<1>4. ASSUME NEW rp \in RpChains, NEW op \in OpChains, NEW key \in Nat,
             rp.anchor = op.anchor, rp.anchor \in RpAnchors,
             call' = [call EXCEPT ![c].pc = "selected", ![c].rp = rp, ![c].op = op,
                                  ![c].key = key]
      PROVE  RegInv'
  <2>1. /\ call'[c].pc = "selected" /\ call'[c].rp = rp /\ call'[c].op = op
        /\ \A d \in Calls : d # c => call'[d] = call[d]
        /\ call' \in [Calls -> CallRecords]
    <3>1. call \in [Calls -> CallRecords] /\ call[c] \in CallRecords
      BY DEF RegInv, RegTypeOK
    <3>2. call'[c] = [pc |-> "selected", op |-> op, rp |-> rp, peer |-> call[c].peer,
                      key |-> key]
      BY <1>4, <3>1 DEF CallRecords
    <3>3. call'[c] \in CallRecords
      BY <3>1, <3>2 DEF CallRecords
    <3>4. \A d \in Calls : d # c => call'[d] = call[d]
      BY <1>4, <3>1
    <3>5. call' \in [Calls -> CallRecords]
      BY <1>4, <3>1, <3>3, <3>4
    <3> QED
      BY <3>2, <3>4, <3>5
  <2>2. RegTypeOK' /\ RpSide(c)' /\ OpSide(c)'
    BY <1>1, <1>4, <2>1 DEF RegInv, RegTypeOK, RpSide, OpSide
  <2> QED
    BY <1>1, <1>2, <2>1, <2>2, CallStep
<1> QED
  BY <1>3, <1>4, SharedAnchor, ZenonT(30)

LEMMA UnableInv == ASSUME RegInv, NEW c \in Calls, Unable(c) PROVE RegInv'
<1>1. /\ call[c].pc = "selected" /\ post[c] = None
      /\ UNCHANGED <<vars, work, opKey, post, object, auto, hooked, record, holder>>
  BY DEF Unable, RegInv, Sides, RpSide
<1>2. /\ call'[c].pc = "refused" /\ \A d \in Calls : d # c => call'[d] = call[d]
      /\ call' \in [Calls -> CallRecords]
  BY DEF Unable, RegInv, RegTypeOK, CallRecords
<1>3. RegTypeOK' /\ RpSide(c)' /\ OpSide(c)'
  BY <1>1, <1>2 DEF RegInv, RegTypeOK, RpSide, OpSide
<1>4. Kept'
  BY <1>1, KeptQuiet DEF RegInv, RegTypeOK
<1> QED
  BY <1>1, <1>2, <1>3, <1>4, CallStep

(* The record of a call that goes on with its peer chain.                  *)
LEMMA SentCall ==
    ASSUME call \in [Calls -> CallRecords], NEW c \in Calls,
           NEW to \in {"sent", "delivered", "refused"}, NEW peer \in OpChains \cup {None},
           call' = [call EXCEPT ![c].pc = to, ![c].peer = peer]
    PROVE  /\ call'[c].pc = to /\ call'[c].peer = peer /\ call'[c].rp = call[c].rp
           /\ call'[c].op = call[c].op
           /\ \A d \in Calls : d # c => call'[d] = call[d]
           /\ call' \in [Calls -> CallRecords]
<1>1. call[c] \in CallRecords
  OBVIOUS
<1>2. call'[c] = [pc |-> to, op |-> call[c].op, rp |-> call[c].rp, peer |-> peer,
                  key |-> call[c].key]
  BY <1>1 DEF CallRecords
<1>3. call'[c] \in CallRecords
  BY <1>1, <1>2 DEF CallRecords
<1>4. \A d \in Calls : d # c => call'[d] = call[d]
  OBVIOUS
<1>5. call' \in [Calls -> CallRecords]
  BY <1>3, <1>4
<1> QED
  BY <1>2, <1>4, <1>5

LEMMA SendInv ==
    ASSUME RegInv, NEW c \in Calls, NEW peer \in OpChains \cup {None}, SendRequest(c, peer)
    PROVE  RegInv'
<1> DEFINE p == Posted("header", call[c].rp, peer, RpNow + RequestTtl)
<1>1. /\ call[c].pc = "selected" /\ post[c] = None /\ call[c].rp \in RpChains
      /\ call[c].op \in OpChains
      /\ call[c].rp.anchor = call[c].op.anchor /\ call[c].rp.anchor \in RpAnchors
      /\ peer # None => peer.anchor = call[c].rp.anchor
      /\ UNCHANGED <<vars, work, opKey, object, auto, hooked, record, holder>>
  BY DEF SendRequest, PeerFound, RegInv, Sides, RpSide
<1>2. RpNow + RequestTtl \in Int
  BY WorkloadAssumption, TtlAssumption DEF RpNow, RegInv, RegTypeOK, IInv, TypeOK
<1>3. /\ p \in Posts /\ p # None /\ p.pc = "received" /\ p.form = "header"
      /\ p.chain = call[c].rp
  <2>1. p \in Posts
    BY <1>1, <1>2 DEF Posted, Posts
  <2> QED
    BY <2>1, WorkloadAssumption DEF Posted
<1> HIDE DEF p
<1>4. /\ call'[c].pc = "sent" /\ call'[c].peer = peer /\ call'[c].rp = call[c].rp
      /\ call'[c].op = call[c].op
      /\ \A d \in Calls : d # c => call'[d] = call[d]
      /\ call' \in [Calls -> CallRecords]
  BY SentCall DEF SendRequest, RegInv, RegTypeOK
<1>5. /\ post'[c] = p /\ \A d \in Calls : d # c => post'[d] = post[d]
      /\ post' \in [Calls -> Posts \cup {None}]
  BY <1>3 DEF SendRequest, RegInv, RegTypeOK, p
<1>6. RegTypeOK'
  BY <1>1, <1>4, <1>5 DEF RegInv, RegTypeOK
<1>7. RpSide(c)' /\ OpSide(c)'
  BY <1>1, <1>3, <1>4, <1>5 DEF RpSide, OpSide, Chained, Prepared
<1>8. Kept'
  BY <1>1, <1>3, <1>5, KeptQuiet DEF RegInv, RegTypeOK, Late
<1> QED
  BY <1>1, <1>3, <1>4, <1>5, <1>6, <1>7, <1>8, CallStep

LEMMA CreateInv ==
    ASSUME RegInv, NEW c \in Calls, NEW peer \in OpChains \cup {None}, NEW m \in Messages,
           NEW published \in BOOLEAN, NEW pushed \in BOOLEAN,
           CreateObject(c, peer, m, published, pushed)
    PROVE  RegInv'
<1>1. /\ call[c].pc = "selected" /\ post[c] = None /\ call[c].rp \in RpChains
      /\ object[m] = None
      /\ UNCHANGED <<vars, work, opKey, post, auto, hooked, record, holder>>
  BY DEF CreateObject, RegInv, Sides, RpSide
<1>2. PICK to \in {"delivered", "refused"} :
        call' = [call EXCEPT ![c].pc = to, ![c].peer = peer]
  BY DEF CreateObject, Delivery
<1>3. /\ call'[c].pc = to /\ \A d \in Calls : d # c => call'[d] = call[d]
      /\ call' \in [Calls -> CallRecords]
  BY <1>2, SentCall DEF RegInv, RegTypeOK
<1>4. /\ object' \in [Messages -> Objects \cup {None}]
      /\ \A n \in Messages : object[n] # None => object'[n] = object[n]
  <2>1. object' = object \/ object' = [object EXCEPT ![m] = [chain |-> call[c].rp, peer |-> peer]]
    BY DEF CreateObject
  <2>2. [chain |-> call[c].rp, peer |-> peer] \in Objects
    BY <1>1 DEF Objects
  <2> QED
    BY <1>1, <2>1, <2>2 DEF RegInv, RegTypeOK
<1>5. RegTypeOK'
  BY <1>1, <1>3, <1>4 DEF RegInv, RegTypeOK
<1>6. RpSide(c)' /\ OpSide(c)'
  BY <1>1, <1>3 DEF RpSide, OpSide
<1>7. Kept'
  BY <1>1, KeptQuiet DEF RegInv, RegTypeOK
<1> QED
  BY <1>1, <1>3, <1>4, <1>5, <1>6, <1>7, CallStep

(* The RP reads the OP's answer: when it refuses a registration that the   *)
(* OP has made, the chain, the anchor and the lifetime agree.              *)
LEMMA ResponseInv == ASSUME RegInv, NEW c \in Calls, CheckResponse(c) PROVE RegInv'
<1>1. /\ call[c].pc = "sent" /\ post[c].pc \in {"registered", "refused", "failed"}
      /\ UNCHANGED <<vars, work, opKey, post, object, auto, hooked, record>>
  BY DEF CheckResponse
<1>2. RpSide(c) /\ OpSide(c) /\ post \in [Calls -> Posts \cup {None}]
  BY DEF RegInv, Sides, RegTypeOK
<1>3. /\ post[c] # None /\ post[c].form = "header" /\ post[c].chain = call[c].rp
      /\ call[c].rp \in RpChains /\ call[c].rp.anchor \in RpAnchors
  BY <1>1, <1>2 DEF RpSide
<1>4. post[c].pc = "registered" => ResponseAgrees(c)
  BY <1>1, <1>2, <1>3 DEF OpSide, Chained, Prepared, ResponseAgrees
<1>5. /\ call'[c].pc = IF ResponseOK(c) THEN "accepted" ELSE "refused"
      /\ call'[c].rp = call[c].rp /\ call'[c].op = call[c].op
      /\ call'[c].peer = call[c].peer /\ call'[c].key = call[c].key
      /\ \A d \in Calls : d # c => call'[d] = call[d]
      /\ call' \in [Calls -> CallRecords]
  BY DEF CheckResponse, RegInv, RegTypeOK, CallRecords
<1>6. ResponseOK(c) => post[c].pc = "registered"
  BY DEF ResponseOK, ResponseAuthentic
<1>7. holder' = IF ResponseOK(c) THEN c ELSE holder
  BY DEF CheckResponse
<1>8. RegTypeOK'
  BY <1>1, <1>5, <1>7 DEF RegInv, RegTypeOK
<1>9. RpSide(c)' /\ OpSide(c)'
  BY <1>1, <1>2, <1>3, <1>5, <1>6 DEF RpSide, OpSide
<1>10. call'[c].pc = "refused" /\ post[c].pc = "registered" =>
         post[c].key # call[c].key \/ post[c].exp <= RpNow
  <2> SUFFICES ASSUME call'[c].pc = "refused", post[c].pc = "registered"
               PROVE  post[c].key # call[c].key \/ post[c].exp <= RpNow
    OBVIOUS
  <2>1. ~ResponseAuthentic(c)
    BY <1>4, <1>5 DEF ResponseOK
  <2>2. post[c].exp \in Int
    BY <1>2, <1>3 DEF Posts
  <2>3. RpNow \in Int
    BY WorkloadAssumption DEF RpNow, RegInv, RegTypeOK, IInv, TypeOK
  <2> QED
    BY <2>1, <2>2, <2>3 DEF ResponseAuthentic
<1>11. Kept'
  <2>1. \A d \in Calls : Superseded(d)' <=> Superseded(d)
    BY <1>1 DEF Superseded
  <2> QED
    BY <1>1, <1>3, <1>6, <1>7, <2>1 DEF RegInv, Kept
<1> QED
  BY <1>1, <1>5, <1>8, <1>9, <1>10, <1>11, CallStep

LEMMA LoseInv == ASSUME RegInv, NEW c \in Calls, LoseResponse(c) PROVE RegInv'
<1>1. /\ call[c].pc = "sent"
      /\ UNCHANGED <<vars, work, opKey, post, object, auto, hooked, record, holder>>
  BY DEF LoseResponse
<1>2. RpSide(c) /\ OpSide(c)
  BY DEF RegInv, Sides
<1>3. /\ call'[c].pc = "lost"
      /\ call'[c].rp = call[c].rp /\ call'[c].op = call[c].op
      /\ call'[c].peer = call[c].peer
      /\ \A d \in Calls : d # c => call'[d] = call[d]
      /\ call' \in [Calls -> CallRecords]
  BY DEF LoseResponse, RegInv, RegTypeOK, CallRecords
<1>4. RegTypeOK' /\ RpSide(c)' /\ OpSide(c)'
  BY <1>1, <1>2, <1>3 DEF RegInv, RegTypeOK, RpSide, OpSide
<1>5. Kept'
  BY <1>1, KeptQuiet DEF RegInv, RegTypeOK
<1> QED
  BY <1>1, <1>3, <1>4, <1>5, CallStep
----------------------------------------------------------------------------
(* The steps of the OP on a request that it has not answered.              *)

LEMMA PostStep ==
    ASSUME RegInv, NEW c \in Calls, NEW q \in Posts, post[c] # None,
           post[c].pc \notin {"registered", "refused", "failed"},
           UNCHANGED <<vars, work, opKey, call, object, auto, hooked, holder>>,
           post' = [post EXCEPT ![c] = q],
           q.form = post[c].form, q.chain = post[c].chain, OpSide(c)', Kept'
    PROVE  RegInv'
<1>1. q # None
  BY WorkloadAssumption
<1>2. /\ post'[c] = q /\ \A d \in Calls : d # c => post'[d] = post[d]
      /\ post' \in [Calls -> Posts \cup {None}]
  BY DEF RegInv, RegTypeOK
<1>3. RegTypeOK'
  BY <1>2 DEF RegInv, RegTypeOK
<1>4. RpSide(c) /\ call[c].pc # "refused"
  BY DEF RegInv, Sides, RpSide
<1>5. RpSide(c)'
  BY <1>1, <1>2, <1>4 DEF RpSide
<1> QED
  BY <1>2, <1>3, <1>4, <1>5, CallStep

LEMMA OpCheckInv ==
    ASSUME RegInv, NEW c \in Calls, NEW found \in Resolved(RpChains, OpAnchors, now),
           OpCheck(c, found) \/ ProcessExplicit(c, found)
    PROVE  RegInv'
<1> DEFINE p == post[c]
           b == IF p.form = "none" THEN Shortest(found) ELSE p.chain
           usable == IF p.form = "none" THEN found # <<>> ELSE OpValid(p.chain)
<1>1. /\ p # None /\ p.pc = "received" /\ p \in Posts
      /\ UNCHANGED <<vars, work, opKey, call, object, auto, hooked, record, holder>>
  BY DEF OpCheck, ProcessExplicit, RegInv, RegTypeOK
<1>2. p.form # "none" => p.chain \in RpChains
  BY <1>1 DEF RegInv, Sides, OpSide
<1>3. usable => b \in RpChains /\ b.anchor \in OpAnchors
  BY <1>2, FoundChain DEF OpValid, ValidAt
<1>4. CASE post' = [post EXCEPT ![c] = [p EXCEPT !.pc = "refused"]]
  <2> DEFINE q == [p EXCEPT !.pc = "refused"]
  <2>1. q \in Posts /\ q.pc = "refused" /\ q.form = p.form /\ q.chain = p.chain
    BY <1>1 DEF Posts
  <2>2. post'[c] = q /\ \A d \in Calls : d # c => post'[d] = post[d]
    BY <1>4 DEF RegInv, RegTypeOK
  <2> HIDE DEF q
  <2>3. OpSide(c)'
    BY <1>2, <2>1, <2>2 DEF OpSide, Chained, Prepared
  <2>4. Kept'
    BY <1>1, <2>1, <2>2, KeptQuiet DEF RegInv, RegTypeOK, Late
  <2> QED
    BY <1>1, <1>4, <2>1, <2>3, <2>4, PostStep DEF q
<1>5. ASSUME usable, NEW to \in {"chained", "processed"},
             post' = [post EXCEPT ![c] = [p EXCEPT !.pc = to, !.best = b]]
      PROVE  RegInv'
  <2> DEFINE q == [p EXCEPT !.pc = to, !.best = b]
  <2>0. b \in RpChains /\ b.anchor \in OpAnchors
    BY <1>3, <1>5
  <2>1. p.form # "none" => b = p.chain
    OBVIOUS
  <2> HIDE DEF b
  <2>2. q \in Posts /\ q.pc = to /\ q.form = p.form /\ q.chain = p.chain /\ q.best = b
    <3> DEFINE h == [p EXCEPT !.pc = to]
    <3>1. h \in Posts /\ h.pc = to /\ h.form = p.form /\ h.chain = p.chain
      BY <1>1 DEF Posts
    <3>2. q = [h EXCEPT !.best = b]
      OBVIOUS
    <3> HIDE DEF h, q
    <3> QED
      BY <2>0, <3>1, <3>2 DEF Posts
  <2>3. post'[c] = q /\ \A d \in Calls : d # c => post'[d] = post[d]
    BY <1>5 DEF RegInv, RegTypeOK
  <2> HIDE DEF q
  <2>4. OpSide(c)'
    BY <1>2, <2>0, <2>1, <2>2, <2>3 DEF OpSide, Chained, Prepared
  <2>5. Kept'
    BY <1>1, <2>2, <2>3, KeptQuiet DEF RegInv, RegTypeOK, Late
  <2> QED
    BY <1>1, <1>5, <2>2, <2>4, <2>5, PostStep DEF q
<1> QED
  BY <1>4, <1>5 DEF OpCheck, ProcessExplicit

(* A step of the OP that only moves on.                                    *)
LEMMA MovedPost ==
    ASSUME RegInv, NEW c \in Calls, post[c] # None,
           NEW to \in {"trusted", "refused", "invalidated", "registered", "failed"},
           post' = [post EXCEPT ![c].pc = to]
    PROVE  \E q \in Posts :
             /\ post' = [post EXCEPT ![c] = q] /\ post'[c] = q
             /\ \A d \in Calls : d # c => post'[d] = post[d]
             /\ q.pc = to /\ q.form = post[c].form /\ q.chain = post[c].chain
             /\ q.best = post[c].best /\ q.exp = post[c].exp /\ q # None
<1>1. post \in [Calls -> Posts \cup {None}] /\ post[c] \in Posts
  BY DEF RegInv, RegTypeOK
<1> DEFINE q == [post[c] EXCEPT !.pc = to]
<1>2. /\ q \in Posts /\ q.pc = to /\ q.form = post[c].form /\ q.chain = post[c].chain
      /\ q.best = post[c].best /\ q.exp = post[c].exp
  BY <1>1 DEF Posts
<1>3. post' = [post EXCEPT ![c] = q]
  OBVIOUS
<1> HIDE DEF q
<1>4. post'[c] = q /\ \A d \in Calls : d # c => post'[d] = post[d]
  BY <1>1, <1>3
<1> QED
  BY <1>2, <1>3, <1>4, WorkloadAssumption

LEMMA OpPeerInv == ASSUME RegInv, NEW c \in Calls, OpPeer(c) PROVE RegInv'
<1>1. /\ post[c] # None /\ post[c].pc = "chained" /\ OpSide(c)
      /\ UNCHANGED <<vars, work, opKey, call, object, auto, hooked, record, holder>>
  BY DEF OpPeer, RegInv, Sides
<1>2. PICK to \in {"trusted", "refused"} : post' = [post EXCEPT ![c].pc = to]
  BY DEF OpPeer
<1>3. PICK q \in Posts :
        /\ post' = [post EXCEPT ![c] = q] /\ post'[c] = q
        /\ \A d \in Calls : d # c => post'[d] = post[d]
        /\ q.pc = to /\ q.form = post[c].form /\ q.chain = post[c].chain
        /\ q.best = post[c].best /\ q.exp = post[c].exp /\ q # None
  <2>1. to \in {"trusted", "refused", "invalidated", "registered", "failed"}
    OBVIOUS
  <2> QED
    BY <1>1, <1>2, <2>1, MovedPost
<1>4. OpSide(c)'
  BY <1>1, <1>3 DEF OpSide, Chained, Prepared
<1>5. Kept'
  BY <1>1, <1>3, KeptQuiet DEF RegInv, RegTypeOK, Late
<1> QED
  BY <1>1, <1>3, <1>4, <1>5, PostStep

LEMMA OpPrepareInv ==
    ASSUME RegInv, NEW c \in Calls, NEW ok \in BOOLEAN, OpPrepare(c, ok) PROVE RegInv'
<1>1. /\ post[c] # None /\ post[c].pc = "trusted" /\ OpSide(c) /\ post[c] \in Posts
      /\ UNCHANGED <<vars, work, opKey, call, object, auto, hooked, record, holder>>
  BY DEF OpPrepare, RegInv, Sides, RegTypeOK
<1>2. CASE post' = [post EXCEPT ![c].pc = "refused"]
  <2>1. PICK q \in Posts :
          /\ post' = [post EXCEPT ![c] = q] /\ post'[c] = q
          /\ \A d \in Calls : d # c => post'[d] = post[d]
          /\ q.pc = "refused" /\ q.form = post[c].form /\ q.chain = post[c].chain
          /\ q.best = post[c].best /\ q.exp = post[c].exp /\ q # None
    BY <1>1, <1>2, MovedPost
  <2>2. OpSide(c)'
    BY <1>1, <2>1 DEF OpSide, Chained, Prepared
  <2>3. Kept'
    BY <1>1, <2>1, KeptQuiet DEF RegInv, RegTypeOK, Late
  <2> QED
    BY <1>1, <2>1, <2>2, <2>3, PostStep
<1>3. CASE ok
  <2> DEFINE e == ResponseExp(post[c].best)
             q == [post[c] EXCEPT !.pc = "prepared", !.exp = e, !.key = opKey]
  <2>1. post[c].best \in RpChains
    BY <1>1 DEF OpSide, Chained
  <2>2. e \in Int /\ e <= post[c].best.exp
    <3>1. post[c].best.exp \in Int /\ now + ResponseTtl \in Int
      BY <2>1, ChainAssumption, TtlAssumption DEF RegInv, IInv, TypeOK
    <3> QED
      BY <3>1 DEF ResponseExp
  <2> HIDE DEF e
  <2>3. opKey \in Nat
    BY DEF RegInv, RegTypeOK
  <2>5. /\ q \in Posts /\ q.pc = "prepared" /\ q.form = post[c].form
        /\ q.chain = post[c].chain /\ q.best = post[c].best /\ q.exp = e
    <3> DEFINE h == [post[c] EXCEPT !.pc = "prepared"]
               g == [post[c] EXCEPT !.pc = "prepared", !.exp = e]
    <3>1. /\ h \in Posts /\ h.pc = "prepared" /\ h.form = post[c].form
          /\ h.chain = post[c].chain /\ h.best = post[c].best
      BY <1>1 DEF Posts
    <3>2. g = [h EXCEPT !.exp = e] /\ q = [g EXCEPT !.key = opKey]
      OBVIOUS
    <3> HIDE DEF h, g, q
    <3>3. /\ g \in Posts /\ g.pc = "prepared" /\ g.form = post[c].form
          /\ g.chain = post[c].chain /\ g.best = post[c].best /\ g.exp = e
      BY <2>2, <3>1, <3>2 DEF Posts
    <3> QED
      BY <2>3, <3>2, <3>3 DEF Posts
  <2>6. post' = [post EXCEPT ![c] = q]
    BY <1>3 DEF OpPrepare, e
  <2>7. post'[c] = q /\ \A d \in Calls : d # c => post'[d] = post[d]
    BY <2>6 DEF RegInv, RegTypeOK
  <2> HIDE DEF q
  <2>8. OpSide(c)'
    BY <1>1, <2>2, <2>5, <2>7 DEF OpSide, Chained, Prepared
  <2>9. Kept'
    BY <1>1, <2>5, <2>7, KeptQuiet DEF RegInv, RegTypeOK, Late
  <2> QED
    BY <1>1, <2>5, <2>6, <2>8, <2>9, PostStep
<1>4. CASE ~ok
  <2>1. post' = [post EXCEPT ![c].pc = "refused"]
    BY <1>4 DEF OpPrepare
  <2> QED
    BY <1>2, <2>1
<1> QED
  BY <1>3, <1>4

(* Whoever was registered before c is superseded once c is invalidated,    *)
(* registered or failed.                                                   *)
LEMMA LateStep ==
    ASSUME RegInv, NEW c \in Calls, post[c] # None, post[c].pc \in {"prepared", "invalidated"},
           UNCHANGED <<vars, work, opKey, call, object, auto, hooked, holder>>,
           NEW to \in Late, to = "registered" => record' = c,
           post' = [post EXCEPT ![c].pc = to]
    PROVE  RegInv'
<1>1. PICK q \in Posts :
        /\ post' = [post EXCEPT ![c] = q] /\ post'[c] = q
        /\ \A d \in Calls : d # c => post'[d] = post[d]
        /\ q.pc = to /\ q.form = post[c].form /\ q.chain = post[c].chain
        /\ q.best = post[c].best /\ q.exp = post[c].exp /\ q # None
  <2>1. to \in {"trusted", "refused", "invalidated", "registered", "failed"}
    BY DEF Late
  <2> QED
    BY <2>1, MovedPost
<1>2. OpSide(c)
  BY DEF RegInv, Sides
<1>3. OpSide(c)'
  BY <1>1, <1>2 DEF OpSide, Chained, Prepared, Late
<1>4. Kept'
  <2>1. \A d \in Calls : d # c => Superseded(d)'
    BY <1>1 DEF Superseded, Late
  <2>2. holder # None => holder \in Calls /\ holder # c
    BY DEF RegInv, RegTypeOK, Kept
  <2>3. holder' = holder /\ (holder # None => post[holder] # None /\ post[holder].pc = "registered")
    BY DEF RegInv, Kept
  <2>4. holder' # None => post'[holder'] # None /\ post'[holder'].pc = "registered"
    BY <1>1, <2>2, <2>3
  <2>5. \A d \in Calls :
          post'[d] # None /\ post'[d].pc = "registered" /\ record' # d => Superseded(d)'
    BY <1>1, <2>1
  <2> QED
    BY <2>4, <2>5 DEF Kept
<1> QED
  BY <1>1, <1>3, <1>4, PostStep

LEMMA OpInvalidateInv ==
    ASSUME RegInv, NEW c \in Calls, NEW ok \in BOOLEAN, OpInvalidate(c, ok) PROVE RegInv'
<1>1. PICK to \in {"invalidated", "failed"} : post' = [post EXCEPT ![c].pc = to]
  BY DEF OpInvalidate
<1> QED
  BY <1>1, LateStep DEF OpInvalidate, Late

LEMMA OpRegisterInv ==
    ASSUME RegInv, NEW c \in Calls, NEW ok \in BOOLEAN, OpRegister(c, ok) PROVE RegInv'
<1>1. CASE ok
  <2>1. post' = [post EXCEPT ![c].pc = "registered"] /\ record' = c
    BY <1>1 DEF OpRegister
  <2> QED
    BY <2>1, LateStep DEF OpRegister, Late
<1>2. CASE ~ok
  <2>1. post' = [post EXCEPT ![c].pc = "failed"]
    BY <1>2 DEF OpRegister
  <2> QED
    BY <2>1, LateStep DEF OpRegister, Late
<1> QED
  BY <1>1, <1>2
----------------------------------------------------------------------------
(* The steps of automatic registration and of the clock.                   *)

LEMMA AutoStep ==
    ASSUME RegInv, IInv', RegTypeOK', UNCHANGED <<work, call, post, object, holder, message>>,
           now <= now', NEW r \in Requests,
           \A q \in Requests : q # r =>
               pc'[q] = pc[q] /\ auto'[q] = auto[q] /\ hooked'[q] = hooked[q],
           AutoSide(r)',
           record' = record \/ hooked'[r] = "done",
           hooked[r] = "done" => hooked'[r] = "done"
    PROVE  RegInv'
<1>1. \A c \in Calls : RpSide(c)' /\ OpSide(c)'
  BY DEF RegInv, Sides, RpSide, OpSide
<1>2. \A q \in Requests : AutoSide(q)'
  <2> SUFFICES ASSUME NEW q \in Requests, q # r PROVE AutoSide(q)'
    OBVIOUS
  <2>1. Ours(q)' <=> Ours(q)
    BY DEF Ours
  <2>2. AutoSide(q)
    BY DEF RegInv, Sides
  <2> QED
    BY <2>1, <2>2 DEF AutoSide
<1>3. RefusalExplained'
  <2> SUFFICES ASSUME NEW c \in Calls, call[c].pc = "refused", post[c] # None,
                      post[c].pc = "registered", post[c].key = call[c].key
               PROVE  post[c].exp <= RpNow'
    BY DEF RefusalExplained
  <2>1. post[c].exp <= RpNow
    BY DEF RegInv, RefusalExplained
  <2>2. post[c].exp \in Int
    BY DEF RegInv, RegTypeOK, Posts
  <2>3. now \in Int /\ now' \in Int /\ work.drift \in Int
    BY WorkloadAssumption DEF RegInv, RegTypeOK, IInv, TypeOK
  <2> QED
    BY <2>1, <2>2, <2>3 DEF RpNow
<1>4. Kept'
  <2>1. CASE hooked'[r] = "done"
    <3>1. \A c \in Calls : Superseded(c)'
      BY <2>1 DEF Superseded
    <3> QED
      BY <3>1 DEF RegInv, Kept
  <2>2. CASE record' = record
    <3>1. \A q \in Requests : hooked[q] = "done" => hooked'[q] = "done"
      OBVIOUS
    <3>2. \A c \in Calls : Superseded(c) => Superseded(c)'
      BY <3>1 DEF Superseded
    <3> QED
      BY <2>2, <3>2 DEF RegInv, Kept
  <2> QED
    BY <2>1, <2>2
<1> QED
  BY <1>1, <1>2, <1>3, <1>4 DEF RegInv, Sides

LEMMA AutoReceiveInv == ASSUME RegInv, NEW r \in Requests, AutoReceive(r) PROVE RegInv'
<1>1. IInv'
  BY ReceiveIInv DEF AutoReceive, RegInv
<1>2. PICK to \in {"checked", "refused"} : pc' = [pc EXCEPT ![r] = to]
  BY DEF AutoReceive, Receive, Move
<1>3. /\ pc[r] = "new"
      /\ Ours(r) => object[message[r]] # None
      /\ UNCHANGED <<entries, now, message, claimedAt>>
      /\ UNCHANGED <<work, opKey, call, post, object, auto, hooked, record, holder>>
  BY DEF AutoReceive, Receive, Move, reg
<1>4. pc'[r] = to /\ \A q \in Requests : q # r => pc'[q] = pc[q]
  BY <1>2 DEF RegInv, IInv, TypeOK
<1>5. AutoSide(r) /\ (Ours(r)' <=> Ours(r))
  BY <1>3 DEF RegInv, Sides, Ours
<1>6. AutoSide(r)'
  BY <1>3, <1>4, <1>5 DEF AutoSide
<1>7. RegTypeOK' /\ now <= now'
  BY <1>3 DEF RegInv, RegTypeOK, IInv, TypeOK
<1> QED
  BY <1>1, <1>3, <1>4, <1>6, <1>7, AutoStep

LEMMA AutoWithdrawInv ==
    ASSUME RegInv, NEW r \in Requests, Withdraw(r), UNCHANGED reg PROVE RegInv'
<1>1. IInv'
  BY WithdrawIInv DEF RegInv
<1>2. /\ pc' = [pc EXCEPT ![r] = "refused"] /\ ~Ours(r)
      /\ UNCHANGED <<entries, now, message, claimedAt>>
      /\ UNCHANGED <<work, opKey, call, post, object, auto, hooked, record, holder>>
  BY DEF Withdraw, Move, reg, Ours
<1>3. pc'[r] = "refused" /\ \A q \in Requests : q # r => pc'[q] = pc[q]
  BY <1>2 DEF RegInv, IInv, TypeOK
<1>4. AutoSide(r) /\ (Ours(r)' <=> Ours(r))
  BY <1>2 DEF RegInv, Sides, Ours
<1>5. AutoSide(r)'
  BY <1>2, <1>3, <1>4 DEF AutoSide
<1>6. RegTypeOK' /\ now <= now'
  BY <1>2 DEF RegInv, RegTypeOK, IInv, TypeOK
<1> QED
  BY <1>1, <1>2, <1>3, <1>5, <1>6, AutoStep

LEMMA AutoVerifyInv ==
    ASSUME RegInv, NEW r \in Requests, NEW authentic \in BOOLEAN,
           NEW found \in Resolved(RpChains, OpAnchors, now), AutoVerify(r, authentic, found)
    PROVE  RegInv'
<1> DEFINE o == object[message[r]]
           header == Ours(r) /\ o.chain # None
           usable == IF header THEN OpValid(o.chain) ELSE Ours(r) => found # <<>>
           b == IF header THEN o.chain ELSE Shortest(found)
           ok == authentic /\ usable
<1>1. /\ pc[r] = "checked" /\ Verify(r, ok)
      /\ auto' = IF Ours(r) /\ usable THEN [auto EXCEPT ![r] = b] ELSE auto
      /\ UNCHANGED <<work, opKey, call, post, object, hooked, record, holder>>
  BY DEF AutoVerify
<1>2. AutoSide(r) /\ message[r] \in Messages
  BY DEF RegInv, Sides, IInv, TypeOK
<1>3. Ours(r) => o # None /\ o \in Objects
  BY <1>1, <1>2 DEF AutoSide, RegInv, RegTypeOK
<1>4. Ours(r) /\ usable => /\ b \in RpChains /\ b.anchor \in OpAnchors
                           /\ o.chain # None => b = o.chain
  <2> SUFFICES ASSUME Ours(r), usable
               PROVE  b \in RpChains /\ b.anchor \in OpAnchors /\ (o.chain # None => b = o.chain)
    OBVIOUS
  <2>1. CASE o.chain # None
    <3>1. o.chain \in RpChains
      BY <1>3, <2>1 DEF Objects
    <3> QED
      BY <2>1, <3>1 DEF OpValid, ValidAt
  <2>2. CASE o.chain = None
    BY <2>2, FoundChain DEF ValidAt
  <2> QED
    BY <2>1, <2>2
<1>5. ok \in BOOLEAN
  <2> HIDE DEF usable
  <2> QED
    OBVIOUS
<1>6. IInv'
  <2> HIDE DEF ok
  <2> QED
    BY <1>1, <1>5, VerifyIInv DEF RegInv
<1>7. /\ \/ pc' = [pc EXCEPT ![r] = "verified"] /\ usable
         \/ pc' = [pc EXCEPT ![r] = "refused"]
      /\ UNCHANGED <<entries, now, message, claimedAt>>
  <2> HIDE DEF usable
  <2> QED
    BY <1>1 DEF Verify, Move
<1> HIDE DEF b, usable, ok
<1>8. /\ (pc'[r] = "verified" /\ usable) \/ pc'[r] = "refused"
      /\ \A q \in Requests : q # r => pc'[q] = pc[q]
  BY <1>7 DEF RegInv, IInv, TypeOK
<1>9. /\ auto' \in [Requests -> RpChains \cup {None}]
      /\ Ours(r) /\ usable => auto'[r] = b
      /\ \A q \in Requests : q # r => auto'[q] = auto[q]
  BY <1>1, <1>4 DEF RegInv, RegTypeOK
<1>10. Ours(r)' <=> Ours(r)
  BY <1>7 DEF Ours
<1>11. AutoSide(r)'
  BY <1>1, <1>2, <1>3, <1>4, <1>7, <1>8, <1>9, <1>10 DEF AutoSide
<1>12. RegTypeOK' /\ now <= now'
  BY <1>1, <1>7, <1>9 DEF RegInv, RegTypeOK, IInv, TypeOK
<1> QED
  BY <1>1, <1>6, <1>7, <1>8, <1>9, <1>11, <1>12, AutoStep

LEMMA AutoClaimInv ==
    ASSUME RegInv, NEW r \in Requests, NEW at \in 0..MaxTime, AutoClaim(r, at) PROVE RegInv'
<1>1. /\ UNCHANGED <<work, opKey, call, post, object, auto, hooked, record, holder>>
      /\ AutoSide(r)
  BY DEF AutoClaim, reg, RegInv, Sides
<1>2. CASE Ours(r) /\ pc[r] = "verified" /\ ~PeerOK(object[message[r]].peer, auto[r])
  <2>1. /\ pc' = [pc EXCEPT ![r] = "refused"] /\ pc[r] = "verified"
        /\ UNCHANGED <<entries, now, message, claimedAt>>
    BY <1>2 DEF AutoClaim, Move
  <2>2. pc'[r] = "refused" /\ \A q \in Requests : q # r => pc'[q] = pc[q]
    BY <2>1 DEF RegInv, IInv, TypeOK
  <2>3. TypeOK' /\ now <= now'
    BY <2>1 DEF RegInv, IInv, TypeOK
  <2>4. \A q \in Requests : pc'[q] = "accepted" => pc[q] = "accepted"
    BY <2>2
  <2>5. IInv'
    BY <2>1, <2>3, <2>4, QuietStep DEF RegInv
  <2>6. Ours(r)' <=> Ours(r)
    BY <2>1 DEF Ours
  <2>7. AutoSide(r)' /\ RegTypeOK'
    BY <1>1, <2>1, <2>2, <2>6 DEF AutoSide, RegInv, RegTypeOK
  <2> QED
    BY <1>1, <2>1, <2>2, <2>3, <2>5, <2>7, AutoStep
<1>3. CASE ~(Ours(r) /\ pc[r] = "verified" /\ ~PeerOK(object[message[r]].peer, auto[r]))
  <2>1. Claim(r, at)
    BY <1>3 DEF AutoClaim
  <2>2. IInv'
    BY <2>1, ClaimIInv DEF RegInv
  <2>3. /\ pc[r] = "verified" /\ message' = message /\ now <= now'
        /\ pc' = [pc EXCEPT ![r] = "refused"] \/ pc' = [pc EXCEPT ![r] = "accepted"]
    BY <2>1 DEF Claim, Move, RegInv, IInv, TypeOK
  <2>4. /\ pc'[r] \in {"refused", "accepted"}
        /\ \A q \in Requests : q # r => pc'[q] = pc[q]
    BY <2>3 DEF RegInv, IInv, TypeOK
  <2>5. Ours(r) /\ object[message[r]].peer # None =>
          object[message[r]].peer.anchor = auto[r].anchor
    BY <1>3, <2>3 DEF PeerOK
  <2>6. Ours(r)' <=> Ours(r)
    BY <2>3 DEF Ours
  <2>7. AutoSide(r)'
    BY <1>1, <2>3, <2>4, <2>5, <2>6 DEF AutoSide
  <2>8. RegTypeOK'
    BY <1>1 DEF RegInv, RegTypeOK
  <2> QED
    BY <1>1, <2>2, <2>3, <2>4, <2>7, <2>8, AutoStep
<1> QED
  BY <1>2, <1>3

LEMMA AutoHookInv ==
    ASSUME RegInv, NEW r \in Requests, NEW ok \in BOOLEAN, AutoHook(r, ok) PROVE RegInv'
<1>1. /\ Ours(r) /\ pc[r] = "accepted" /\ hooked[r] = "no"
      /\ UNCHANGED <<vars, work, opKey, call, post, object, auto, holder>>
  BY DEF AutoHook
<1>2. /\ hooked'[r] = "done" \/ (hooked'[r] = "failed" /\ record' = record)
      /\ \A q \in Requests : q # r => hooked'[q] = hooked[q]
      /\ hooked' \in [Requests -> {"no", "done", "failed"}]
  <2>1. \/ hooked' = [hooked EXCEPT ![r] = "done"]
        \/ hooked' = [hooked EXCEPT ![r] = "failed"] /\ record' = record
    BY DEF AutoHook
  <2> QED
    BY <2>1 DEF RegInv, RegTypeOK
<1>3. IInv' /\ UNCHANGED <<entries, now, pc, message, claimedAt>>
  BY <1>1, NextIInv DEF RegInv, vars
<1>4. AutoSide(r) /\ (Ours(r)' <=> Ours(r))
  BY <1>3 DEF RegInv, Sides, Ours
<1>5. AutoSide(r)'
  BY <1>1, <1>2, <1>3, <1>4 DEF AutoSide
<1>6. RegTypeOK' /\ now <= now'
  BY <1>1, <1>2, <1>3 DEF RegInv, RegTypeOK, IInv, TypeOK
<1> QED
  BY <1>1, <1>2, <1>3, <1>5, <1>6, AutoStep

LEMMA ClockStep ==
    ASSUME RegInv, IInv', RegTypeOK', now <= now',
           UNCHANGED <<work, call, post, object, auto, hooked, record, holder, message, pc>>
    PROVE  RegInv'
<1>1. Sides'
  BY DEF RegInv, Sides, RpSide, OpSide, AutoSide, Ours
<1>2. RefusalExplained'
  <2> SUFFICES ASSUME NEW c \in Calls, call[c].pc = "refused", post[c] # None,
                      post[c].pc = "registered", post[c].key = call[c].key
               PROVE  post[c].exp <= RpNow'
    BY DEF RefusalExplained
  <2>1. post[c].exp <= RpNow
    BY DEF RegInv, RefusalExplained
  <2>2. post[c].exp \in Int
    BY DEF RegInv, RegTypeOK, Posts
  <2>3. now \in Int /\ now' \in Int /\ work.drift \in Int
    BY WorkloadAssumption DEF RegInv, RegTypeOK, IInv, TypeOK
  <2> QED
    BY <2>1, <2>2, <2>3 DEF RpNow
<1>3. Kept'
  BY DEF RegInv, Kept, Superseded
<1> QED
  BY <1>1, <1>2, <1>3 DEF RegInv

LEMMA RollKeyInv == ASSUME RegInv, RollKey PROVE RegInv'
<1>1. IInv' /\ UNCHANGED <<entries, now, pc, message, claimedAt>>
  BY NextIInv DEF RollKey, RegInv, vars
<1>2. RegTypeOK' /\ now <= now'
  BY <1>1 DEF RollKey, RegInv, RegTypeOK, IInv, TypeOK
<1> QED
  BY <1>1, <1>2, ClockStep DEF RollKey

LEMMA RegTickInv == ASSUME RegInv, Tick, UNCHANGED reg PROVE RegInv'
<1>1. IInv'
  BY TickIInv DEF RegInv
<1>2. UNCHANGED <<work, opKey, call, post, object, auto, hooked, record, holder, message, pc>>
  BY DEF Tick, reg
<1>3. RegTypeOK' /\ now <= now'
  BY <1>2 DEF Tick, RegInv, RegTypeOK, IInv, TypeOK
<1> QED
  BY <1>1, <1>2, <1>3, ClockStep

LEMMA RegNextInv == RegInv /\ [RegistrationNext]_allVars => RegInv'
<1> SUFFICES ASSUME RegInv, [RegistrationNext]_allVars PROVE RegInv'
  OBVIOUS
<1>1. CASE UNCHANGED allVars
  <2>1. UNCHANGED vars /\ UNCHANGED reg
    BY <1>1 DEF allVars
  <2>2. IInv' /\ UNCHANGED <<entries, now, pc, message, claimedAt>>
    BY <2>1, NextIInv DEF RegInv, vars
  <2>3. UNCHANGED <<work, opKey, call, post, object, auto, hooked, record, holder>>
    BY <2>1 DEF reg
  <2>4. RegTypeOK' /\ now <= now'
    BY <2>2, <2>3 DEF RegInv, RegTypeOK, IInv, TypeOK
  <2> QED
    BY <2>2, <2>3, <2>4, ClockStep
<1>2. ASSUME NEW c \in Calls,
             \/ Discover(c) \/ Unable(c)
             \/ /\ call[c].pc = "discovered"
                /\ \E rps \in Resolved(RpChains, RpAnchors, RpNow),
                      ops \in Resolved(OpChains, RpAnchors, RpNow) : SelectShared(c, rps, ops)
             \/ \E peer \in OpChains \cup {None} : SendRequest(c, peer)
             \/ \E peer \in OpChains \cup {None}, m \in Messages, published, pushed \in BOOLEAN :
                 CreateObject(c, peer, m, published, pushed)
             \/ CheckResponse(c) \/ LoseResponse(c)
      PROVE  RegInv'
  BY <1>2, DiscoverInv, UnableInv, SelectInv, SendInv, CreateInv, ResponseInv, LoseInv
<1>3. ASSUME NEW c \in Calls,
             \/ /\ post[c] # None /\ post[c].pc = "received"
                /\ \E found \in Resolved(RpChains, OpAnchors, now) :
                     OpCheck(c, found) \/ ProcessExplicit(c, found)
             \/ OpPeer(c)
             \/ \E ok \in BOOLEAN : OpPrepare(c, ok) \/ OpInvalidate(c, ok) \/ OpRegister(c, ok)
      PROVE  RegInv'
  BY <1>3, OpCheckInv, OpPeerInv, OpPrepareInv, OpInvalidateInv, OpRegisterInv
<1>4. ASSUME NEW r \in Requests,
             \/ AutoReceive(r)
             \/ Withdraw(r) /\ UNCHANGED reg
             \/ /\ pc[r] = "checked"
                /\ \E authentic \in BOOLEAN, found \in Resolved(RpChains, OpAnchors, now) :
                     AutoVerify(r, authentic, found)
             \/ \E at \in 0..MaxTime : AutoClaim(r, at)
             \/ \E ok \in BOOLEAN : AutoHook(r, ok)
      PROVE  RegInv'
  BY <1>4, AutoReceiveInv, AutoWithdrawInv, AutoVerifyInv, AutoClaimInv, AutoHookInv
<1>5. CASE RegistrationNext
  BY <1>2, <1>3, <1>4, <1>5, RollKeyInv, RegTickInv DEF RegistrationNext
<1> QED
  BY <1>1, <1>5
----------------------------------------------------------------------------
(* The inductive invariant: what each side of a registration knows of the  *)
(* other holds in every reachable state, with one-time use beside it.      *)
THEOREM RegistrationCorrect == RegistrationSpec => []RegInv
  BY RegInitInv, RegNextInv, PTL DEF RegistrationSpec

(* A registration both sides accept rests on one anchor that both have     *)
(* configured and ends with the chain, however calls, lost answers, key    *)
(* rollovers and automatic requests interleave.                            *)
THEOREM TrustIsMutual == RegistrationSpec => []MutualTrust
<1>1. RegInv => MutualTrust
  <2> SUFFICES ASSUME RegInv PROVE MutualTrust
    OBVIOUS
  <2>1. ASSUME NEW c \in Calls, call[c].pc = "accepted"
        PROVE  LET anchor == post[c].best.anchor IN
               /\ anchor \in RpAnchors \cap OpAnchors
               /\ call[c].rp.anchor = anchor /\ call[c].op.anchor = anchor
               /\ call[c].peer # None => call[c].peer.anchor = anchor
               /\ post[c].exp <= post[c].best.exp
    BY <2>1 DEF RegInv, Sides, RpSide, OpSide, Chained, Prepared
  <2>2. ASSUME NEW c \in Calls, post[c] # None, post[c].pc = "processed"
        PROVE  post[c].best.anchor \in OpAnchors
    BY <2>2 DEF RegInv, Sides, OpSide, Chained
  <2>3. ASSUME NEW r \in Requests, hooked[r] = "done"
        PROVE  LET o == object[message[r]] IN
               /\ auto[r].anchor \in OpAnchors
               /\ o.chain # None => auto[r] = o.chain
               /\ o.peer # None => o.peer.anchor = auto[r].anchor
    BY <2>3 DEF RegInv, Sides, AutoSide
  <2> QED
    BY <2>1, <2>2, <2>3 DEF MutualTrust
<1> QED
  BY <1>1, RegistrationCorrect, PTL

(* When the RP refuses what the OP has registered, a key was rolled over   *)
(* or the time has run out: the two never disagree on the chain.           *)
THEOREM RefusalsExplained == RegistrationSpec => []RefusalExplained
<1>1. RegInv => RefusalExplained
  BY DEF RegInv
<1> QED
  BY <1>1, RegistrationCorrect, PTL

(* The registration the RP holds is the OP's record until another request  *)
(* has passed all the OP's checks.                                         *)
THEOREM RecordsStayAgreed == RegistrationSpec => []RecordsAgree
<1>1. RegInv => RecordsAgree
  <2> SUFFICES ASSUME RegInv, holder # None, record # holder
               PROVE  \/ \E c \in Calls \ {holder} :
                            post[c] # None /\ post[c].pc \in {"invalidated", "registered", "failed"}
                      \/ \E r \in Requests : hooked[r] = "done"
    BY DEF RecordsAgree
  <2>1. holder \in Calls
    BY DEF RegInv, RegTypeOK
  <2>2. Superseded(holder)
    BY <2>1 DEF RegInv, Kept
  <2> QED
    BY <2>2 DEF Superseded
<1> QED
  BY <1>1, RegistrationCorrect, PTL

(* The one-time use of assertions and proofs survives its composition with *)
(* registration, where a failed peer chain ends a request before its claim.*)
THEOREM AssertionsStillOnce == RegistrationSpec => []AssertionOnce
<1>1. RegInv => AssertionOnce
  BY DEF RegInv, IInv
<1> QED
  BY <1>1, RegistrationCorrect, PTL
=============================================================================
