----------------------- MODULE EntityCollectionProofs -----------------------
(***************************************************************************)
(* EntityCollection: refreshes, snapshots and pages for any number of      *)
(* anchors, refreshes, readers and entities, any limits and any times.     *)
(***************************************************************************)
EXTENDS EntityCollection, TLAPS, FiniteSetTheorems, SequenceTheorems, WellFoundedInduction

Same(c, d) == AnchorOf[c] = AnchorOf[d]
Called(c) == job[c].pc # "none"
Over(c) == job[c].pc \in {"settled", "done"}
Before(c) == {d \in Calls : Same(c, d) /\ d < c}

(* Refreshes of an anchor are called in order, each waits for the one      *)
(* called before it, and the map knows the last one that is not over.      *)
Forms ==
    /\ DOMAIN job = Calls /\ \A c \in Calls : "pc" \in DOMAIN job[c]
    /\ DOMAIN refreshes = Anchors /\ DOMAIN previous = Calls
InTurn(c) ==
    /\ Called(c) => \A d \in Before(c) : Called(d)
    /\ job[c].pc \notin {"none", "waiting"} => \A d \in Before(c) : Over(d)
    /\ job[c].pc = "waiting" =>
         IF previous[c] = 0 THEN \A d \in Before(c) : Over(d)
         ELSE previous[c] \in Before(c) /\ \A d \in Before(c) : d <= previous[c]
LastKnown(c) ==
    LET r == refreshes[AnchorOf[c]]
    IN  IF r = 0 THEN Called(c) => Over(c)
        ELSE r \in Calls /\ Same(c, r) /\ Called(r) /\ (Called(c) => c <= r)
SerialInv == Forms /\ \A c \in Calls : InTurn(c) /\ LastKnown(c)
----------------------------------------------------------------------------
LEMMA LeastOf == ASSUME NEW T, T \subseteq Nat, T # {} PROVE \E m \in T : \A n \in T : m <= n
<1> DEFINE Up(n) == 1..n
           R == StrictSubsetOrdering(Nat)
           U == {Up(n) : n \in T}
<1>1. U \subseteq FiniteSubsetsOf(Nat) /\ U # {}
  <2>1. \A n \in Nat : Up(n) \subseteq Nat /\ IsFiniteSet(Up(n))
    BY FS_Interval
  <2> QED
    BY <2>1 DEF FiniteSubsetsOf
<1>2. IsWellFoundedOn(R, FiniteSubsetsOf(Nat))
  BY FS_StrictSubsetOrderingWellFounded
<1> HIDE DEF R
<1>3. \E x \in U : \A y \in U : ~(<<y, x>> \in R)
  <2> HIDE DEF U
  <2> QED
    BY <1>1, <1>2, WFMin
<1>4. PICK m \in T : \A n \in T : ~(<<Up(n), Up(m)>> \in R)
  BY <1>3
<1>5. ASSUME NEW n \in T PROVE m <= n
  <2>1. ASSUME n < m PROVE FALSE
    <3>1. Up(n) \subseteq Up(m) /\ Up(n) \subseteq Nat /\ Up(m) \subseteq Nat
      BY <2>1
    <3>2. m \in Up(m) /\ m \notin Up(n)
      BY <2>1
    <3> HIDE DEF Up
    <3>3. <<Up(n), Up(m)>> \in R
      BY <3>1, <3>2 DEF R, StrictSubsetOrdering
    <3> QED
      BY <1>4, <3>3
  <2> QED
    BY <2>1
<1> QED
  BY <1>5

LEMMA LeastFacts ==
    ASSUME NEW S, S \subseteq Nat, S # {}
    PROVE  Least(S) \in S /\ Least(S) \in Nat /\ \A k \in S : Least(S) <= k
BY LeastOf DEF Least

Increasing(s) == \A i, k \in DOMAIN s : i < k => s[i] < s[k]

(* A finite set of numbers can be sorted.                                  *)
LEMMA SortedFacts ==
    ASSUME NEW S, S \subseteq Nat, IsFiniteSet(S)
    PROVE  /\ Cardinality(S) \in Nat /\ Sorted(S) \in [1..Cardinality(S) -> S]
           /\ Increasing(Sorted(S))
<1> DEFINE Sorts(s, R, n) == s \in [1..n -> R] /\ Increasing(s)
           Bad(n) == \E R \in SUBSET Nat : IsFiniteSet(R) /\ Cardinality(R) = n /\ ~\E s : Sorts(s, R, n)
           T == {n \in Nat : Bad(n)}
<1>1. T = {}
  <2> SUFFICES ASSUME T # {} PROVE FALSE
    OBVIOUS
  <2>1. PICK n \in T : \A k \in T : n <= k
    <3>1. T \subseteq Nat
      OBVIOUS
    <3> HIDE DEF T
    <3> QED
      BY <3>1, LeastOf
  <2>2. PICK R \in SUBSET Nat : IsFiniteSet(R) /\ Cardinality(R) = n /\ ~\E s : Sorts(s, R, n)
    BY <2>1
  <2>3. CASE n = 0
    <3> DEFINE s == [i \in 1..0 |-> 0]
    <3>1. \A i \in 1..0 : FALSE
      OBVIOUS
    <3>2. Sorts(s, R, 0)
      BY <3>1 DEF Increasing
    <3> QED
      BY <2>2, <2>3, <3>2
  <2>4. CASE n # 0
    <3>1. R # {}
      BY <2>2, <2>4, FS_EmptySet
    <3>2. PICK m \in R : \A k \in R : m <= k
      BY <3>1, LeastOf
    <3> DEFINE Q == R \ {m}
    <3>3. IsFiniteSet(Q) /\ Cardinality(Q) = n - 1 /\ Q \in SUBSET Nat
      BY <2>2, <3>2, FS_RemoveElement
    <3>4. n - 1 \in Nat /\ n - 1 \notin T /\ n \in Nat
      BY <2>1, <2>4
    <3>5. PICK q : Sorts(q, Q, n - 1)
      BY <3>3, <3>4
    <3> DEFINE s == [i \in 1..n |-> IF i = 1 THEN m ELSE q[i - 1]]
    <3>6. \A i \in 1..n : i # 1 => i - 1 \in 1..(n - 1) /\ q[i - 1] \in R /\ m < q[i - 1]
      <4> SUFFICES ASSUME NEW i \in 1..n, i # 1
                   PROVE  i - 1 \in 1..(n - 1) /\ q[i - 1] \in R /\ m < q[i - 1]
        OBVIOUS
      <4>1. i - 1 \in 1..(n - 1)
        BY <3>4
      <4>2. q[i - 1] \in Q
        BY <3>5, <4>1
      <4>3. q[i - 1] \in R /\ q[i - 1] # m /\ m <= q[i - 1] /\ q[i - 1] \in Nat /\ m \in Nat
        BY <2>2, <3>2, <4>2
      <4> QED
        BY <4>1, <4>3
    <3>7. s \in [1..n -> R]
      BY <3>2, <3>6
    <3>8. Increasing(s)
      <4> SUFFICES ASSUME NEW i \in 1..n, NEW k \in 1..n, i < k PROVE s[i] < s[k]
        BY DEF Increasing
      <4>1. k # 1 /\ s[k] = q[k - 1]
        BY <3>4
      <4>2. CASE i = 1
        BY <3>6, <4>1, <4>2
      <4>3. CASE i # 1
        <5>1. i - 1 \in 1..(n - 1) /\ k - 1 \in 1..(n - 1) /\ i - 1 < k - 1
          BY <3>4, <4>3
        <5>2. DOMAIN q = 1..(n - 1)
          BY <3>5
        <5>3. q[i - 1] < q[k - 1]
          BY <3>5, <5>1, <5>2 DEF Increasing
        <5> QED
          BY <4>1, <4>3, <5>3
      <4> QED
        BY <4>2, <4>3
    <3> QED
      BY <2>2, <3>7, <3>8
  <2> QED
    BY <2>3, <2>4
<1>2. Cardinality(S) \in Nat
  BY FS_CardinalityType
<1>3. \E s \in [1..Cardinality(S) -> S] : Increasing(s)
  BY <1>1, <1>2
<1> QED
  BY <1>2, <1>3 DEF Sorted, Increasing

LEMMA CallFacts ==
    /\ \A c \in Calls : c \in Nat /\ c # 0 /\ AnchorOf[c] \in Anchors
    /\ 0 \notin Calls
<1>1. Calls \subseteq Nat \ {0}
  BY CollectionAssumption
<1>2. \A c \in Calls : AnchorOf[c] \in Anchors
  BY DEF Anchors
<1> QED
  BY <1>1, <1>2

LEMMA InitSerial == ASSUME Init PROVE SerialInv
<1>1. /\ job = [c \in Calls |-> Fresh] /\ previous = [c \in Calls |-> 0]
      /\ refreshes = [a \in Anchors |-> 0]
  BY DEF Init
<1>2. "pc" \in DOMAIN Fresh /\ Fresh.pc = "none"
  BY DEF Fresh
<1>3. Forms /\ \A c \in Calls : job[c].pc = "none" /\ refreshes[AnchorOf[c]] = 0
  BY <1>1, <1>2, CallFacts DEF Forms
<1> QED
  BY <1>3 DEF SerialInv, InTurn, LastKnown, Called

(* A step of one call's build, or the end of it.                           *)
LEMMA BuildSerial ==
    ASSUME SerialInv, NEW c \in Calls, NEW j, job' = [job EXCEPT ![c] = j], "pc" \in DOMAIN j,
           Building(c), j.pc \notin {"none", "waiting", "done"},
           UNCHANGED <<refreshes, previous>>
    PROVE  SerialInv'
<1>1. Forms'
  BY DEF SerialInv, Forms
<1>2. job'[c] = j /\ \A d \in Calls : d # c => job'[d] = job[d]
  BY DEF SerialInv, Forms
<1>3. /\ \A d \in Calls : Called(d)' = Called(d)
      /\ \A d \in Calls : Over(d) => Over(d)'
      /\ \A d \in Calls : job'[d].pc = "waiting" <=> job[d].pc = "waiting"
      /\ \A d \in Calls : job'[d].pc \in {"none", "waiting"} <=> job[d].pc \in {"none", "waiting"}
  BY <1>2 DEF Called, Over, Building
<1>4. \A d \in Calls : Before(d)' = Before(d)
  BY DEF Before, Same
<1>5. ASSUME NEW d \in Calls PROVE InTurn(d)'
  BY <1>3, <1>4 DEF SerialInv, InTurn, Before, Called
<1>6. ASSUME NEW d \in Calls PROVE LastKnown(d)'
  BY <1>3 DEF SerialInv, LastKnown, Same
<1> QED
  BY <1>1, <1>5, <1>6 DEF SerialInv

LEMMA CallSerial == ASSUME SerialInv, NEW c \in Calls, CallRefresh(c) PROVE SerialInv'
<1> DEFINE a == AnchorOf[c]
           r == refreshes[a]
<1>1. /\ job[c].pc = "none" /\ \A d \in Before(c) : Called(d)
      /\ job'[c].pc = "waiting" /\ \A d \in Calls : d # c => job'[d] = job[d]
      /\ previous'[c] = r /\ \A d \in Calls : d # c => previous'[d] = previous[d]
      /\ refreshes'[a] = c /\ \A b \in Anchors : b # a => refreshes'[b] = refreshes[b]
  BY CallFacts DEF CallRefresh, SerialInv, Forms, Before, Same, Called
<1>2. Forms'
  BY DEF SerialInv, Forms, CallRefresh
<1>3. /\ Called(c)' /\ ~Over(c)' /\ \A d \in Calls : Called(d) => Called(d)'
      /\ \A d \in Calls : Over(d)' = Over(d) /\ (d # c => Called(d)' = Called(d))
  BY <1>1 DEF Called, Over
<1>4. \A d \in Calls : Before(d)' = Before(d)
  BY DEF Before, Same
<1>5. \A d \in Calls : Same(c, d) /\ Called(d) => d < c
  <2> SUFFICES ASSUME NEW d \in Calls, Same(c, d), Called(d), ~(d < c) PROVE FALSE
    OBVIOUS
  <2>1. d # c
    BY <1>1 DEF Called
  <2>2. c \in Before(d)
    BY <2>1, CallFacts DEF Before, Same
  <2> QED
    BY <1>1, <2>2 DEF SerialInv, InTurn, Called
<1>6. IF r = 0 THEN \A d \in Before(c) : Over(d)
      ELSE r \in Before(c) /\ \A d \in Before(c) : d <= r
  <2>1. CASE r = 0
    BY <1>1, <2>1 DEF SerialInv, LastKnown, Before, Same
  <2>2. CASE r # 0
    <3>1. r \in Calls /\ Same(c, r) /\ Called(r)
      BY <2>2 DEF SerialInv, LastKnown
    <3>2. r \in Before(c)
      BY <1>5, <3>1 DEF Before
    <3>3. \A d \in Before(c) : d <= r
      BY <1>1, <2>2 DEF SerialInv, LastKnown, Before, Same
    <3> QED
      BY <2>2, <3>2, <3>3
  <2> QED
    BY <2>1, <2>2
<1>7. ASSUME NEW d \in Calls PROVE InTurn(d)'
  <2>1. CASE d = c
    <3>1. \A e \in Before(c) : e \in Calls
      BY DEF Before
    <3>2. (\A e \in Before(c) : Over(e)) => \A e \in Before(c) : Over(e)'
      BY <1>3, <3>1
    <3>3. \A e \in Before(c) : Called(e)'
      BY <1>1, <1>3, <3>1
    <3>4. previous'[c] = r /\ job'[c].pc = "waiting" /\ Before(c)' = Before(c)
      BY <1>1, <1>4
    <3>5. InTurn(c)'
      BY <1>6, <3>2, <3>3, <3>4 DEF InTurn
    <3> QED
      BY <2>1, <3>5
  <2>2. CASE d # c
    <3>1. job'[d] = job[d] /\ previous'[d] = previous[d] /\ Before(d)' = Before(d)
      BY <1>1, <1>4, <2>2
    <3>2. \A e \in Before(d) : e \in Calls
      BY DEF Before
    <3>3. InTurn(d)
      BY DEF SerialInv
    <3>4. Called(d)' = Called(d)
      BY <1>3, <2>2
    <3> QED
      BY <1>3, <3>1, <3>2, <3>3, <3>4 DEF InTurn
  <2> QED
    BY <2>1, <2>2
<1>8. ASSUME NEW d \in Calls PROVE LastKnown(d)'
  <2>1. CASE Same(c, d)
    <3>1. refreshes'[AnchorOf[d]] = c /\ c # 0 /\ AnchorOf[d] = AnchorOf[c]
      BY <1>1, <2>1, CallFacts DEF Same
    <3>2. Called(d)' => d <= c
      BY <1>3, <1>5, <2>1, CallFacts
    <3> QED
      BY <1>3, <3>1, <3>2 DEF LastKnown, Same
  <2>2. CASE ~Same(c, d)
    <3>1. refreshes'[AnchorOf[d]] = refreshes[AnchorOf[d]] /\ d # c
      BY <1>1, <2>2, CallFacts DEF Same
    <3> QED
      BY <1>3, <3>1 DEF SerialInv, LastKnown, Same
  <2> QED
    BY <2>1, <2>2
<1> QED
  BY <1>2, <1>7, <1>8 DEF SerialInv

LEMMA StartSerial == ASSUME SerialInv, NEW c \in Calls, StartBuild(c) PROVE SerialInv'
<1>1. /\ job[c].pc = "waiting" /\ Settled(previous[c]) /\ UNCHANGED refreshes
      /\ job'[c].pc = "start" /\ \A d \in Calls : d # c => job'[d] = job[d]
      /\ \A d \in Calls : d # c => previous'[d] = previous[d]
  BY DEF StartBuild, SerialInv, Forms
<1>2. Forms'
  BY DEF SerialInv, Forms, StartBuild
<1>3. \A d \in Calls : Called(d)' = Called(d) /\ Over(d)' = Over(d)
  BY <1>1 DEF Called, Over
<1>4. \A d \in Calls : Before(d)' = Before(d) /\ \A e \in Before(d) : e \in Calls
  BY DEF Before, Same
<1>5. \A d \in Before(c) : Over(d)
  <2> DEFINE p == previous[c]
  <2>1. CASE p = 0
    BY <1>1, <2>1 DEF SerialInv, InTurn
  <2>2. CASE p # 0
    <3>1. p \in Before(c) /\ \A d \in Before(c) : d <= p
      BY <1>1, <2>2 DEF SerialInv, InTurn
    <3>2. Over(p) /\ p \in Calls
      BY <1>1, <3>1 DEF Settled, Over, Before
    <3>3. \A d \in Before(p) : Over(d)
      BY <3>2 DEF SerialInv, InTurn, Over
    <3>4. ASSUME NEW d \in Before(c) PROVE d = p \/ d \in Before(p)
      BY <3>1, CallFacts DEF Before, Same
    <3> QED
      BY <3>2, <3>3, <3>4
  <2> QED
    BY <2>1, <2>2
<1>6. ASSUME NEW d \in Calls PROVE InTurn(d)'
  <2>1. CASE d = c
    BY <1>1, <1>3, <1>4, <1>5, <2>1 DEF SerialInv, InTurn
  <2>2. CASE d # c
    <3>1. InTurn(d) /\ job'[d] = job[d] /\ previous'[d] = previous[d]
      BY <1>1, <2>2 DEF SerialInv
    <3> QED
      BY <1>3, <1>4, <3>1 DEF InTurn
  <2> QED
    BY <2>1, <2>2
<1>7. ASSUME NEW d \in Calls PROVE LastKnown(d)'
  BY <1>1, <1>3 DEF SerialInv, LastKnown, Same
<1> QED
  BY <1>2, <1>6, <1>7 DEF SerialInv

LEMMA CleanupSerial == ASSUME SerialInv, NEW c \in Calls, Cleanup(c) PROVE SerialInv'
<1> DEFINE a == AnchorOf[c]
<1>1. /\ job[c].pc = "settled" /\ UNCHANGED previous
      /\ job'[c].pc = "done" /\ \A d \in Calls : d # c => job'[d] = job[d]
      /\ refreshes'[a] = IF refreshes[a] = c THEN 0 ELSE refreshes[a]
      /\ \A b \in Anchors : b # a => refreshes'[b] = refreshes[b]
  BY CallFacts DEF Cleanup, SerialInv, Forms
<1>2. Forms'
  BY DEF SerialInv, Forms, Cleanup
<1>3. \A d \in Calls : Called(d)' = Called(d) /\ Over(d)' = Over(d)
  BY <1>1 DEF Called, Over
<1>4. \A d \in Calls : Before(d)' = Before(d) /\ \A e \in Before(d) : e \in Calls
  BY DEF Before, Same
<1>5. ASSUME NEW d \in Calls PROVE InTurn(d)'
  <2>1. InTurn(d)
    BY DEF SerialInv
  <2>2. /\ job'[d].pc = "waiting" <=> job[d].pc = "waiting"
        /\ job'[d].pc \in {"none", "waiting"} <=> job[d].pc \in {"none", "waiting"}
    BY <1>1
  <2> QED
    BY <1>1, <1>3, <1>4, <2>1, <2>2 DEF InTurn
<1>6. ASSUME NEW d \in Calls PROVE LastKnown(d)'
  <2>1. LastKnown(d)
    BY DEF SerialInv
  <2>2. CASE AnchorOf[d] = a /\ refreshes[a] = c
    <3>1. Called(d) => d <= c
      BY <2>1, <2>2, CallFacts DEF LastKnown
    <3>2. \A e \in Before(c) : Over(e)
      BY <1>1 DEF SerialInv, InTurn
    <3>3. Called(d) => Over(d)
      <4>1. d # c /\ Called(d) => d \in Before(c)
        BY <2>2, <3>1, CallFacts DEF Before, Same
      <4> QED
        BY <1>1, <3>2, <4>1 DEF Over
    <3>4. refreshes'[AnchorOf[d]] = 0
      BY <1>1, <2>2
    <3> QED
      BY <1>3, <3>3, <3>4 DEF LastKnown
  <2>3. CASE ~(AnchorOf[d] = a /\ refreshes[a] = c)
    <3>1. refreshes'[AnchorOf[d]] = refreshes[AnchorOf[d]]
      BY <1>1, <2>3, CallFacts
    <3> QED
      BY <1>3, <2>1, <3>1 DEF LastKnown, Same
  <2> QED
    BY <2>2, <2>3
<1> QED
  BY <1>2, <1>5, <1>6 DEF SerialInv
----------------------------------------------------------------------------
(* The build of a snapshot: what its budget, its walk and its entries are. *)

Walks == {p \in Seq(Nodes) : /\ p # <<>> /\ p[1] \in Anchors
                             /\ \A i \in DOMAIN p : i # 1 => p[i] \in Entities}
Mark == [type : DOMAIN IssuersOf, exp : Nat]
Entry == {x \in [exp : Nat, marks : SUBSET Mark] : \A m \in x.marks : m.exp <= x.exp}
EntriesOK(f) == DOMAIN f \subseteq Entities /\ \A e \in DOMAIN f : f[e] \in Entry
ProofsOK(f) == \A i \in DOMAIN f : f[i] \in Nat

(* A list of entries, each of them once.                                   *)
Lists(s, f) ==
    /\ s \in Seq(Entities)
    /\ \A i \in DOMAIN s : s[i] \in DOMAIN f
    /\ \A i, k \in DOMAIN s : s[i] = s[k] => i = k
Apart(s, t) == \A i \in DOMAIN s, k \in DOMAIN t : s[i] # t[k]

Second == {"open", "search", "filter"}
JobOK(j) ==
    /\ DOMAIN j = DOMAIN Fresh
    /\ j.fetches \in 0..MaxFetches /\ j.date \in Nat
    /\ j.spent \in 0..OpenPerIssuer /\ j.open \in 0..OpenTotal
    /\ j.queue \in Seq(Walks) /\ j.todo \in Seq(Entities) /\ (j.todo # <<>> => j.node \in Walks)
    /\ EntriesOK(j.entries) /\ ProofsOK(j.proofs)
    /\ Lists(j.left, j.entries) /\ j.order \in Seq(Entities)
    /\ j.pc \notin Second => Lists(j.order, j.entries)
    /\ j.pc \in {"search", "filter"} => j.left # <<>>
    /\ j.pc = "search" => Applies(MarkOf[Head(j.left)], TRUE)
    /\ j.pc = "listed" => Apart(j.left, j.order)
    /\ j.pc \in {"none", "waiting", "start"} => j.order = <<>>

JobInv == \A c \in Calls : JobOK(job[c])

LEMMA EmptyLists == \A f : Lists(<<>>, f) /\ \A s : Apart(s, <<>>)
<1>1. <<>> \in Seq(Entities) /\ DOMAIN <<>> = {}
  OBVIOUS
<1> QED
  BY <1>1 DEF Lists, Apart

LEMMA FreshOK ==
    ASSUME NEW p, p \notin {"search", "filter"}
    PROVE  JobOK([Fresh EXCEPT !.pc = p]) /\ [Fresh EXCEPT !.pc = p].pc = p
<1> DEFINE j == [Fresh EXCEPT !.pc = p]
<1>1. /\ DOMAIN j = DOMAIN Fresh /\ j.pc = p /\ j.fetches = 0 /\ j.open = 0 /\ j.spent = 0
      /\ j.date = 0 /\ j.queue = <<>>
      /\ j.todo = <<>> /\ j.entries = <<>> /\ j.proofs = <<>> /\ j.left = <<>> /\ j.order = <<>>
  BY DEF Fresh
<1> HIDE DEF j
<1>2. MaxFetches \in Nat /\ OpenPerIssuer \in Nat /\ OpenTotal \in Nat
  BY CollectionAssumption
<1>3. DOMAIN <<>> = {} /\ <<>> \in Seq(Walks) /\ <<>> \in Seq(Entities)
  OBVIOUS
<1>4. EntriesOK(<<>>) /\ ProofsOK(<<>>)
  BY <1>3 DEF EntriesOK, ProofsOK
<1>5. 0 \in 0..MaxFetches /\ 0 \in 0..OpenPerIssuer /\ 0 \in 0..OpenTotal /\ 0 \in Nat
  BY <1>2
<1>6. Lists(<<>>, <<>>) /\ Apart(<<>>, <<>>)
  BY EmptyLists
<1>7. JobOK(j)
  BY <1>1, <1>3, <1>4, <1>5, <1>6 DEF JobOK
<1> QED
  BY <1>1, <1>7 DEF j

LEMMA SetFacts ==
    ASSUME NEW f, NEW k, NEW v
    PROVE  /\ DOMAIN Set(f, k, v) = DOMAIN f \cup {k}
           /\ \A i \in DOMAIN f \cup {k} : Set(f, k, v)[i] = IF i = k THEN v ELSE f[i]
BY DEF Set

(* Dropping the head of a list, and adding to it.                          *)
LEMMA TailLists ==
    ASSUME NEW s, NEW f, Lists(s, f), s # <<>>
    PROVE  /\ Head(s) \in Entities /\ Head(s) \in DOMAIN f /\ Lists(Tail(s), f)
           /\ \A i \in DOMAIN Tail(s) : Tail(s)[i] # Head(s)
           /\ \A t : Apart(s, t) => Apart(Tail(s), t) /\ \A i \in DOMAIN t : t[i] # Head(s)
<1>1. s \in Seq(Entities) /\ Len(s) \in Nat \ {0} /\ DOMAIN s = 1..Len(s)
  BY DEF Lists
<1>2. /\ Tail(s) \in Seq(Entities) /\ Len(Tail(s)) = Len(s) - 1
      /\ DOMAIN Tail(s) = 1..(Len(s) - 1)
      /\ \A i \in 1..(Len(s) - 1) : Tail(s)[i] = s[i + 1] /\ i + 1 \in 1..Len(s)
      /\ Head(s) = s[1] /\ 1 \in 1..Len(s)
  BY <1>1
<1>3. \A i \in DOMAIN Tail(s) : Tail(s)[i] # Head(s)
  <2> SUFFICES ASSUME NEW i \in 1..(Len(s) - 1), s[i + 1] = s[1] PROVE FALSE
    BY <1>2
  <2>1. i + 1 = 1
    BY <1>1, <1>2 DEF Lists
  <2> QED
    BY <1>1, <2>1
<1>4. Lists(Tail(s), f)
  <2>1. \A i \in DOMAIN Tail(s) : Tail(s)[i] \in DOMAIN f
    BY <1>1, <1>2 DEF Lists
  <2>2. ASSUME NEW i \in DOMAIN Tail(s), NEW k \in DOMAIN Tail(s), Tail(s)[i] = Tail(s)[k] PROVE i = k
    <3>1. i + 1 = k + 1
      BY <1>1, <1>2, <2>2 DEF Lists
    <3>2. i \in Int /\ k \in Int
      BY <1>1, <1>2
    <3> QED
      BY <3>1, <3>2
  <2> QED
    BY <1>2, <2>1, <2>2 DEF Lists
<1>5. \A t : Apart(s, t) => Apart(Tail(s), t) /\ \A i \in DOMAIN t : t[i] # Head(s)
  BY <1>1, <1>2 DEF Apart
<1> QED
  BY <1>1, <1>2, <1>3, <1>4, <1>5 DEF Lists

LEMMA AppendLists ==
    ASSUME NEW s, NEW f, Lists(s, f), NEW e \in Entities, e \in DOMAIN f,
           \A i \in DOMAIN s : s[i] # e
    PROVE  Lists(Append(s, e), f)
<1> DEFINE t == Append(s, e)
<1>1. s \in Seq(Entities) /\ Len(s) \in Nat /\ DOMAIN s = 1..Len(s)
  BY DEF Lists
<1>2. /\ t \in Seq(Entities) /\ DOMAIN t = 1..(Len(s) + 1) /\ t[Len(s) + 1] = e
      /\ \A i \in 1..Len(s) : t[i] = s[i]
  BY <1>1
<1>3. \A i \in DOMAIN t : i = Len(s) + 1 \/ i \in 1..Len(s)
  BY <1>1, <1>2
<1> HIDE DEF t
<1>4. \A i, k \in DOMAIN t : t[i] = t[k] => i = k
  BY <1>1, <1>2, <1>3 DEF Lists
<1>5. \A i \in DOMAIN t : t[i] \in DOMAIN f
  BY <1>1, <1>2, <1>3 DEF Lists
<1> QED
  BY <1>2, <1>4, <1>5 DEF Lists, t

LEMMA ListsWider ==
    ASSUME NEW s, NEW f, NEW g, Lists(s, f), DOMAIN f \subseteq DOMAIN g PROVE Lists(s, g)
BY DEF Lists

LEMMA ListsWithout ==
    ASSUME NEW s, NEW f, NEW e, Lists(s, f), \A i \in DOMAIN s : s[i] # e
    PROVE  Lists(s, Without(f, e))
BY DEF Lists, Without

LEMMA EntriesKept ==
    ASSUME NEW f, EntriesOK(f), NEW e
    PROVE  /\ EntriesOK(Without(f, e))
           /\ e \in Entities => \A x \in Entry : EntriesOK(Set(f, e, x))
<1>1. EntriesOK(Without(f, e))
  BY DEF EntriesOK, Without
<1>2. ASSUME e \in Entities, NEW x \in Entry PROVE EntriesOK(Set(f, e, x))
  BY <1>2 DEF EntriesOK, Set
<1> QED
  BY <1>1, <1>2

LEMMA ProofsKept ==
    ASSUME NEW f, ProofsOK(f), NEW i, NEW n \in Nat PROVE ProofsOK(Set(f, i, n))
BY DEF ProofsOK, Set
----------------------------------------------------------------------------
(* The budget.                                                             *)
LEMMA ChargedFields ==
    ASSUME NEW c, NEW keys, NEW extra, NEW j, j = Charged(c, keys, extra),
           DOMAIN job[c] = DOMAIN Fresh
    PROVE  /\ DOMAIN j = DOMAIN Fresh /\ j.pc = job[c].pc /\ j.open = job[c].open /\ j.spent = job[c].spent /\ j.date = job[c].date
           /\ j.queue = job[c].queue /\ j.node = job[c].node /\ j.todo = job[c].todo
           /\ j.order = job[c].order /\ j.left = job[c].left
           /\ j.entries = job[c].entries /\ j.proofs = job[c].proofs
BY DEF Charged, Fresh

LEMMA ChargedFetches ==
    ASSUME NEW c, NEW keys, NEW extra, DOMAIN job[c] = DOMAIN Fresh
    PROVE  Charged(c, keys, extra).fetches =
             job[c].fetches + Cardinality(keys \ job[c].known) + extra
BY DEF Charged, Fresh

LEMMA BudgetKept ==
    ASSUME NEW c, NEW keys, NEW extra \in Nat, NEW ok, IsFiniteSet(keys), JobOK(job[c]),
           Fetches(c, keys, extra, ok)
    PROVE  Charged(c, keys, extra).fetches \in 0..MaxFetches
<1> DEFINE n == Cardinality(keys \ job[c].known)
<1>1. n \in Nat
  BY FS_Difference, FS_CardinalityType
<1>2. job[c].fetches \in 0..MaxFetches /\ MaxFetches \in Nat
  <2>1. MaxFetches \in Nat
    BY CollectionAssumption
  <2> QED
    BY <2>1 DEF JobOK
<1>3. Charged(c, keys, extra).fetches = job[c].fetches + n + extra
  <2>1. DOMAIN job[c] = DOMAIN Fresh
    BY DEF JobOK
  <2> QED
    BY <2>1, ChargedFetches
<1>4. n + extra = 0 \/ job[c].fetches + (n + extra) <= MaxFetches
  BY DEF Fetches
<1> HIDE DEF n
<1> QED
  BY <1>1, <1>2, <1>3, <1>4
----------------------------------------------------------------------------
(* Every step of a build keeps it in order, and only the abort of its call *)
(* fails one that looks for an issuer.                                     *)
Stages == {"walk", "listed", "built", "failed"} \cup Second
Step(c) ==
    /\ job' = [job EXCEPT ![c] = job'[c]] /\ JobOK(job'[c]) /\ UNCHANGED <<now, collects, aborted>>
    /\ Building(c) /\ job'[c].pc \in Stages
    /\ job[c].pc \in {"open", "search"} /\ job'[c].pc = "failed" => aborted[c]
    /\ job[c].pc # "built"
    /\ job'[c].pc = "built" => job'[c].date = now

LEMMA StepTo ==
    ASSUME DOMAIN job = Calls, NEW c \in Calls, NEW j, Becomes(c, j), JobOK(j), Building(c),
           j.pc \in Stages,
           job[c].pc \in {"open", "search"} /\ j.pc = "failed" => aborted[c],
           job[c].pc # "built", j.pc = "built" => j.date = now
    PROVE  Step(c)
<1>1. job' = [job EXCEPT ![c] = j] /\ UNCHANGED <<now, collects, aborted>>
  BY DEF Becomes
<1>2. job'[c] = j
  BY <1>1
<1> QED
  BY <1>1, <1>2 DEF Step

LEMMA StepToFailed ==
    ASSUME DOMAIN job = Calls, NEW c \in Calls, Becomes(c, Failed), Building(c), job[c].pc # "built",
           job[c].pc \in {"open", "search"} => aborted[c]
    PROVE  Step(c)
<1>1. JobOK(Failed) /\ Failed.pc = "failed"
  BY FreshOK DEF Failed
<1>2. Failed.pc \in Stages
  BY <1>1 DEF Stages
<1> QED
  BY <1>1, <1>2, StepTo

LEMMA CollectStep ==
    ASSUME JobInv, DOMAIN job = Calls, NEW c \in Calls, NEW ok, Collect(c, ok) PROVE Step(c)
<1> DEFINE I == Inventory[AnchorOf[c]]
           f == [e \in DOMAIN I |-> [exp |-> I[e], marks |-> {}]]
           l == Sorted(DOMAIN I)
           j == [job[c] EXCEPT !.pc = "listed", !.left = l, !.entries = f]
           cond == ok /\ ~aborted[c] /\ Cardinality(DOMAIN I) <= MaxEntities
<1>1. job[c].pc = "start" /\ Becomes(c, IF cond THEN j ELSE Failed)
  BY DEF Collect
<1>2. JobOK(job[c]) /\ Building(c)
  BY <1>1 DEF JobInv, Building
<1>3. /\ DOMAIN j = DOMAIN Fresh /\ j.pc = "listed" /\ j.left = l /\ j.entries = f
      /\ j.fetches = job[c].fetches /\ j.open = job[c].open /\ j.spent = job[c].spent
      /\ j.date = job[c].date /\ j.queue = job[c].queue
      /\ j.todo = job[c].todo /\ j.node = job[c].node /\ j.proofs = job[c].proofs
      /\ j.order = job[c].order
  BY <1>2 DEF JobOK, Fresh
<1>4. DOMAIN I \subseteq Entities /\ \A e \in DOMAIN I : I[e] \in Nat
  <2>1. AnchorOf[c] \in Anchors
    BY CallFacts
  <2> QED
    BY <2>1, CollectionAssumption
<1> HIDE DEF I
<1>5. DOMAIN I \subseteq Nat /\ IsFiniteSet(DOMAIN I)
  <2>1. Entities \subseteq Nat /\ IsFiniteSet(Entities)
    BY CollectionAssumption
  <2> QED
    BY <1>4, <2>1, FS_Subset
<1>6. EntriesOK(f)
  BY <1>4 DEF EntriesOK, Entry
<1>7. Lists(l, f)
  <2> DEFINE n == Cardinality(DOMAIN I)
  <2>1. n \in Nat /\ l \in [1..n -> DOMAIN I] /\ Increasing(l)
    BY <1>5, SortedFacts
  <2> HIDE DEF l, n
  <2>2. \A i \in 1..n : l[i] \in DOMAIN I /\ l[i] \in Nat
    BY <1>5, <2>1
  <2>3. l \in Seq(Entities)
    BY <1>4, <2>1
  <2>4. ASSUME NEW i \in 1..n, NEW k \in 1..n, l[i] = l[k] PROVE i = k
    <3>1. DOMAIN l = 1..n
      BY <2>1
    <3>2. ~(l[i] < l[k]) /\ ~(l[k] < l[i])
      BY <2>2, <2>4
    <3>3. ~(i < k) /\ ~(k < i)
      BY <2>1, <3>1, <3>2 DEF Increasing
    <3> QED
      BY <2>1, <3>3
  <2> QED
    BY <2>1, <2>2, <2>3, <2>4 DEF Lists
<1>8. JobOK(j)
  <2>1. job[c].order = <<>>
    BY <1>1, <1>2 DEF JobOK
  <2>2. Lists(j.order, j.entries) /\ Apart(j.left, j.order)
    BY <1>3, <2>1, EmptyLists
  <2> HIDE DEF j, f, l
  <2> QED
    BY <1>2, <1>3, <1>6, <1>7, <2>2 DEF JobOK
<1> HIDE DEF j
<1> QED
  BY <1>1, <1>2, <1>3, <1>8, StepTo, StepToFailed DEF Stages

LEMMA FetchRootStep ==
    ASSUME JobInv, DOMAIN job = Calls, NEW c \in Calls, NEW ok, FetchRoot(c, ok) PROVE Step(c)
<1> DEFINE a == AnchorOf[c]
           keys == {<<"configuration", a>>}
           h == Charged(c, keys, 0)
           j == [h EXCEPT !.pc = "walk", !.queue = <<<<a>>>>, !.proofs = Set(@, a, RootExp[a])]
           cond == Fetches(c, keys, 0, ok) /\ Live(RootExp[a])
<1>1. job[c].pc = "start" /\ Becomes(c, IF cond THEN j ELSE Failed)
  BY DEF FetchRoot
<1>2. JobOK(job[c]) /\ Building(c)
  BY <1>1 DEF JobInv, Building
<1>3. DOMAIN job[c] = DOMAIN Fresh
  BY <1>2 DEF JobOK
<1>4. a \in Anchors /\ RootExp[a] \in Nat
  <2>1. a \in Anchors
    BY CallFacts
  <2> QED
    BY <2>1, CollectionAssumption
<1>5. cond => h.fetches \in 0..MaxFetches
  <2>1. IsFiniteSet(keys)
    BY FS_Singleton
  <2> QED
    BY <1>2, <2>1, BudgetKept
<1>6. /\ DOMAIN h = DOMAIN Fresh /\ h.open = job[c].open /\ h.spent = job[c].spent
      /\ h.date = job[c].date /\ h.node = job[c].node
      /\ h.todo = job[c].todo /\ h.order = job[c].order /\ h.left = job[c].left
      /\ h.entries = job[c].entries /\ h.proofs = job[c].proofs
  <2>1. h = Charged(c, keys, 0)
    OBVIOUS
  <2> HIDE DEF keys, h
  <2> QED
    BY <1>3, <2>1, ChargedFields
<1> HIDE DEF h
<1>7. /\ DOMAIN j = DOMAIN Fresh /\ j.pc = "walk" /\ j.queue = <<<<a>>>>
      /\ j.proofs = Set(h.proofs, a, RootExp[a])
      /\ j.fetches = h.fetches /\ j.open = h.open /\ j.spent = h.spent /\ j.date = h.date
      /\ j.node = h.node /\ j.todo = h.todo
      /\ j.order = h.order /\ j.left = h.left /\ j.entries = h.entries
  BY <1>6 DEF Fresh
<1> HIDE DEF j
<1>8. <<<<a>>>> \in Seq(Walks)
  <2>1. <<a>> \in Seq(Nodes) /\ <<a>>[1] = a /\ \A i \in DOMAIN <<a>> : i = 1
    BY <1>4 DEF Nodes
  <2>2. <<a>> \in Walks
    BY <1>4, <2>1 DEF Walks
  <2> QED
    BY <2>2
<1>9. ProofsOK(j.proofs)
  <2>1. ProofsOK(h.proofs)
    BY <1>2, <1>6 DEF JobOK
  <2> HIDE DEF a
  <2> QED
    BY <1>4, <1>7, <2>1, ProofsKept
<1> HIDE DEF cond
<1>10. ASSUME cond PROVE JobOK(j)
  <2>1. j.fetches \in 0..MaxFetches /\ j.queue \in Seq(Walks) /\ j.pc = "walk"
    BY <1>5, <1>7, <1>8, <1>10
  <2>2. /\ DOMAIN j = DOMAIN Fresh /\ j.open = job[c].open /\ j.spent = job[c].spent
        /\ j.date = job[c].date /\ j.node = job[c].node
        /\ j.todo = job[c].todo /\ j.order = job[c].order /\ j.left = job[c].left
        /\ j.entries = job[c].entries
    BY <1>6, <1>7
  <2> QED
    BY <1>1, <1>2, <1>9, <2>1, <2>2 DEF JobOK, Second
<1> QED
  BY <1>1, <1>2, <1>7, <1>10, StepTo, StepToFailed DEF Stages

LEMMA VisitNodeStep ==
    ASSUME JobInv, DOMAIN job = Calls, NEW c \in Calls, NEW ok, VisitNode(c, ok) PROVE Step(c)
<1>1. job[c].pc = "walk" /\ job[c].todo = <<>> /\ JobOK(job[c]) /\ Building(c)
  BY DEF VisitNode, JobInv, Building
<1>2. DOMAIN job[c] = DOMAIN Fresh /\ job[c].queue \in Seq(Walks)
  BY <1>1 DEF JobOK
<1>3. CASE job[c].queue = <<>>
  <2> DEFINE j == [job[c] EXCEPT !.pc = "listed", !.left = job[c].order, !.order = <<>>]
  <2>1. Becomes(c, j)
    BY <1>3 DEF VisitNode
  <2>2. /\ DOMAIN j = DOMAIN Fresh /\ j.pc = "listed" /\ j.left = job[c].order /\ j.order = <<>>
        /\ j.fetches = job[c].fetches /\ j.open = job[c].open /\ j.spent = job[c].spent
        /\ j.date = job[c].date /\ j.queue = job[c].queue
        /\ j.todo = job[c].todo /\ j.node = job[c].node /\ j.proofs = job[c].proofs
        /\ j.entries = job[c].entries
    BY <1>2 DEF Fresh
  <2> HIDE DEF j
  <2>3. Lists(j.order, j.entries) /\ Apart(j.left, j.order) /\ j.order \in Seq(Entities)
    BY <2>2, EmptyLists
  <2>4. JobOK(j)
    BY <1>1, <2>2, <2>3 DEF JobOK, Second
  <2> QED
    BY <1>1, <2>1, <2>2, <2>4, StepTo DEF Stages
<1>4. CASE job[c].queue # <<>>
  <2> DEFINE p == Head(job[c].queue)
             id == p[Len(p)]
             keys == {<<"listing", id>>}
             h == Charged(c, keys, 0)
             i == [job[c] EXCEPT !.queue = Tail(@)]
             j == [h EXCEPT !.node = p, !.queue = Tail(@), !.todo = Listing[id]]
  <2>1. \/ Becomes(c, Failed)
        \/ Becomes(c, i)
        \/ Fetches(c, keys, 0, ok) /\ Becomes(c, j)
    BY <1>4 DEF VisitNode
  <2>2. p \in Walks /\ Tail(job[c].queue) \in Seq(Walks)
    BY <1>2, <1>4
  <2>3. Listing[id] \in Seq(Entities)
    <3>1. p \in Seq(Nodes) /\ p # <<>>
      BY <2>2 DEF Walks
    <3>2. id \in Nodes
      BY <3>1
    <3> QED
      BY <3>2, CollectionAssumption
  <2>4. JobOK(i) /\ i.pc = "walk"
    <3>1. /\ DOMAIN i = DOMAIN Fresh /\ i.pc = job[c].pc /\ i.left = job[c].left
          /\ i.order = job[c].order /\ i.fetches = job[c].fetches /\ i.open = job[c].open
          /\ i.spent = job[c].spent /\ i.date = job[c].date
          /\ i.queue = Tail(job[c].queue) /\ i.todo = job[c].todo /\ i.node = job[c].node
          /\ i.proofs = job[c].proofs /\ i.entries = job[c].entries
      BY <1>2 DEF Fresh
    <3> HIDE DEF i
    <3> QED
      BY <1>1, <2>2, <3>1 DEF JobOK
  <2>5. Fetches(c, keys, 0, ok) => JobOK(j) /\ j.pc = "walk"
    <3>1. Fetches(c, keys, 0, ok) => h.fetches \in 0..MaxFetches
      <4>1. IsFiniteSet(keys)
        BY FS_Singleton
      <4> QED
        BY <1>1, <4>1, BudgetKept
    <3>2. /\ DOMAIN h = DOMAIN Fresh /\ h.open = job[c].open /\ h.spent = job[c].spent
          /\ h.date = job[c].date /\ h.pc = job[c].pc
          /\ h.queue = job[c].queue /\ h.order = job[c].order /\ h.left = job[c].left
          /\ h.entries = job[c].entries /\ h.proofs = job[c].proofs
      <4>1. h = Charged(c, keys, 0)
        OBVIOUS
      <4> HIDE DEF keys, h
      <4> QED
        BY <1>2, <4>1, ChargedFields
    <3> HIDE DEF h, p
    <3>3. /\ DOMAIN j = DOMAIN Fresh /\ j.pc = h.pc /\ j.left = h.left /\ j.node = p
          /\ j.order = h.order /\ j.fetches = h.fetches /\ j.open = h.open
          /\ j.spent = h.spent /\ j.date = h.date
          /\ j.queue = Tail(h.queue) /\ j.todo = Listing[id]
          /\ j.proofs = h.proofs /\ j.entries = h.entries
      BY <3>2 DEF Fresh
    <3> HIDE DEF j
    <3> QED
      BY <1>1, <2>2, <2>3, <3>1, <3>2, <3>3 DEF JobOK
  <2> HIDE DEF i, j, keys
  <2> QED
    BY <1>1, <2>1, <2>4, <2>5, StepTo, StepToFailed DEF Stages
<1> QED
  BY <1>3, <1>4

LEMMA PairFinite == ASSUME NEW x, NEW y PROVE IsFiniteSet({x, y}) /\ IsFiniteSet({x})
<1>1. IsFiniteSet({x}) /\ {x, y} = {x} \cup {y}
  BY FS_Singleton
<1> QED
  BY <1>1, FS_AddElement

LEMMA NeededFinite == ASSUME NEW c, NEW e PROVE IsFiniteSet(Needed(c, e))
<1> DEFINE a == <<"configuration", AnchorOf[c]>>
           b == <<"configuration", e>>
<1>1. Needed(c, e) \in {{}, {a}, {a, b}}
  BY DEF Needed
<1>2. IsFiniteSet({}) /\ IsFiniteSet({a}) /\ IsFiniteSet({a, b})
  <2> HIDE DEF a, b
  <2> QED
    BY FS_EmptySet, PairFinite
<1> QED
  BY <1>1, <1>2

(* A chain expires with the first of its statements.                       *)
LEMMA ExpMember ==
    ASSUME NEW p \in Walks, Len(p) > 1
    PROVE  PathExp(p) \in Nat
<1> DEFINE S == {RootExp[p[1]], ConfigExp[p[Len(p)]]} \cup {StatementExp[l] : l \in Links(p)}
<1>1. p \in Seq(Nodes) /\ p[1] \in Anchors /\ \A i \in DOMAIN p : i # 1 => p[i] \in Entities
  BY DEF Walks
<1>2. RootExp[p[1]] \in Nat
  BY <1>1, CollectionAssumption
<1>3. \A e \in Entities : ConfigExp[e] \in Nat /\ \A i \in Nodes : StatementExp[<<i, e>>] \in Nat
  BY CollectionAssumption
<1>4. Len(p) \in Nat /\ DOMAIN p = 1..Len(p) /\ \A k \in DOMAIN p : p[k] \in Nodes
  BY <1>1
<1>5. ConfigExp[p[Len(p)]] \in Nat
  <2>1. Len(p) \in DOMAIN p /\ Len(p) # 1
    BY <1>4
  <2> QED
    BY <1>1, <1>3, <2>1
<1>6. ASSUME NEW l \in Links(p) PROVE StatementExp[l] \in Nat
  <2>1. PICK i \in 1..(Len(p) - 1) : l = <<p[i], p[i + 1]>>
    BY DEF Links
  <2>2. i \in 1..Len(p) /\ i + 1 \in 1..Len(p) /\ i + 1 # 1
    BY <1>4, <2>1
  <2>3. p[i] \in Nodes /\ p[i + 1] \in Entities
    BY <1>1, <1>4, <2>2
  <2> QED
    BY <1>3, <2>1, <2>3
<1>7. S \subseteq Nat /\ S # {} /\ PathExp(p) = Least(S)
  BY <1>2, <1>5, <1>6 DEF PathExp
<1> HIDE DEF S
<1> QED
  BY <1>7, LeastFacts

LEMMA AppendWalks ==
    ASSUME NEW p \in Walks, NEW e \in Entities
    PROVE  Append(p, e) \in Walks /\ PathExp(Append(p, e)) \in Nat
<1> DEFINE q == Append(p, e)
<1>1. p \in Seq(Nodes) /\ p # <<>> /\ p[1] \in Anchors /\ \A i \in DOMAIN p : i # 1 => p[i] \in Entities
  BY DEF Walks
<1>2. Len(p) \in Nat \ {0} /\ DOMAIN p = 1..Len(p)
  BY <1>1
<1>3. /\ q \in Seq(Nodes) /\ q # <<>> /\ DOMAIN q = 1..(Len(p) + 1) /\ q[Len(p) + 1] = e
      /\ \A i \in 1..Len(p) : q[i] = p[i]
  <2>1. e \in Nodes
    BY DEF Nodes
  <2> QED
    BY <1>1, <1>2, <2>1
<1>4. \A i \in 1..(Len(p) + 1) : i = Len(p) + 1 \/ i \in 1..Len(p)
  BY <1>2
<1> HIDE DEF q
<1>5. \A i \in DOMAIN q : i # 1 => q[i] \in Entities
  BY <1>1, <1>2, <1>3, <1>4
<1>6. q[1] \in Anchors
  BY <1>1, <1>2, <1>3
<1>7. q \in Walks /\ Len(q) > 1
  BY <1>2, <1>3, <1>5, <1>6 DEF Walks
<1>8. PathExp(q) \in Nat
  BY <1>7, ExpMember
<1> QED
  BY <1>7, <1>8 DEF q

LEMMA ExamineChildStep ==
    ASSUME JobInv, DOMAIN job = Calls, NEW c \in Calls, NEW ok, ExamineChild(c, ok) PROVE Step(c)
<1> DEFINE path == job[c].node
           id == Head(job[c].todo)
           keys == {<<"configuration", id>>, <<"statement", path[Len(path)], id>>}
           below == Append(path, id)
           h == Charged(c, keys, 0)
           rest == [h EXCEPT !.todo = Tail(@), !.examined = @ + 1]
           best(f) == IF id \in DOMAIN f THEN f[id] ELSE 0
           skip == [job[c] EXCEPT !.todo = Tail(@)]
           x == [exp |-> Largest(PathExp(below),
                          IF id \in DOMAIN rest.entries THEN rest.entries[id].exp ELSE 0), marks |-> {}]
           proofs == Set(rest.proofs, id, Largest(best(rest.proofs), PathExp(below)))
           noted == [rest EXCEPT !.proofs = proofs]
           added == [rest EXCEPT
                       !.queue = Append(@, below),
                       !.order = IF id \in DOMAIN job[c].entries THEN @ ELSE Append(@, id),
                       !.entries = Set(@, id, x),
                       !.proofs = proofs]
<1>1. job[c].pc = "walk" /\ job[c].todo # <<>> /\ JobOK(job[c]) /\ Building(c)
  BY DEF ExamineChild, JobInv, Building
<1>2. /\ DOMAIN job[c] = DOMAIN Fresh /\ job[c].todo \in Seq(Entities) /\ path \in Walks
      /\ EntriesOK(job[c].entries) /\ ProofsOK(job[c].proofs) /\ job[c].queue \in Seq(Walks)
      /\ Lists(job[c].order, job[c].entries) /\ Lists(job[c].left, job[c].entries)
  BY <1>1 DEF JobOK, Second
<1>3. \/ Becomes(c, skip)
      \/ Becomes(c, Failed)
      \/ Fetches(c, keys, 0, ok) /\ Becomes(c, rest)
      \/ Fetches(c, keys, 0, ok) /\ Becomes(c, noted)
      \/ Fetches(c, keys, 0, ok) /\ Becomes(c, added)
  BY DEF ExamineChild
<1>4. id \in Entities /\ Tail(job[c].todo) \in Seq(Entities)
  BY <1>1, <1>2
<1>5. /\ DOMAIN skip = DOMAIN Fresh /\ skip.pc = job[c].pc /\ skip.open = job[c].open
      /\ skip.spent = job[c].spent /\ skip.date = job[c].date
      /\ skip.fetches = job[c].fetches /\ skip.queue = job[c].queue /\ skip.node = job[c].node
      /\ skip.todo = Tail(job[c].todo) /\ skip.order = job[c].order /\ skip.left = job[c].left
      /\ skip.entries = job[c].entries /\ skip.proofs = job[c].proofs
  BY <1>2 DEF Fresh
<1>6. JobOK(skip) /\ skip.pc = "walk"
  <2> HIDE DEF skip
  <2> QED
    BY <1>1, <1>2, <1>4, <1>5 DEF JobOK
<1>7. Fetches(c, keys, 0, ok) => h.fetches \in 0..MaxFetches
  <2>1. IsFiniteSet(keys)
    BY PairFinite
  <2> QED
    BY <1>1, <2>1, BudgetKept
<1>8. /\ DOMAIN h = DOMAIN Fresh /\ h.pc = job[c].pc /\ h.open = job[c].open
      /\ h.spent = job[c].spent /\ h.date = job[c].date
      /\ h.queue = job[c].queue /\ h.node = job[c].node /\ h.todo = job[c].todo
      /\ h.order = job[c].order /\ h.left = job[c].left
      /\ h.entries = job[c].entries /\ h.proofs = job[c].proofs
  <2>1. h = Charged(c, keys, 0)
    OBVIOUS
  <2> HIDE DEF keys, h
  <2> QED
    BY <1>2, <2>1, ChargedFields
<1> HIDE DEF keys, h
<1>9. /\ DOMAIN rest = DOMAIN Fresh /\ rest.pc = h.pc /\ rest.open = h.open
      /\ rest.spent = h.spent /\ rest.date = h.date
      /\ rest.fetches = h.fetches /\ rest.queue = h.queue /\ rest.node = h.node
      /\ rest.todo = Tail(h.todo) /\ rest.order = h.order /\ rest.left = h.left
      /\ rest.entries = h.entries /\ rest.proofs = h.proofs
  BY <1>8 DEF Fresh
<1> HIDE DEF rest
<1>10. Fetches(c, keys, 0, ok) => JobOK(rest) /\ rest.pc = "walk"
  <2>1. /\ DOMAIN rest = DOMAIN Fresh /\ rest.pc = job[c].pc /\ rest.open = job[c].open
        /\ rest.spent = job[c].spent /\ rest.date = job[c].date
        /\ rest.queue = job[c].queue /\ rest.node = job[c].node
        /\ rest.todo = Tail(job[c].todo) /\ rest.order = job[c].order /\ rest.left = job[c].left
        /\ rest.entries = job[c].entries /\ rest.proofs = job[c].proofs
    BY <1>8, <1>9
  <2> QED
    BY <1>1, <1>4, <1>7, <1>9, <2>1 DEF JobOK
<1>11. below \in Walks /\ PathExp(below) \in Nat
  BY <1>2, <1>4, AppendWalks
<1>12. ProofsOK(proofs)
  <2>1. ProofsOK(rest.proofs)
    BY <1>2, <1>8, <1>9
  <2>2. best(rest.proofs) \in Nat
    BY <2>1 DEF ProofsOK
  <2> HIDE DEF best, below, id
  <2>3. Largest(best(rest.proofs), PathExp(below)) \in Nat
    BY <1>11, <2>2 DEF Largest
  <2> QED
    BY <2>1, <2>3, ProofsKept
<1> HIDE DEF proofs
<1>13. Fetches(c, keys, 0, ok) => JobOK(added) /\ added.pc = "walk"
  <2> DEFINE f == rest.entries
             g == Set(f, id, x)
  <2>1. /\ DOMAIN added = DOMAIN Fresh /\ added.pc = rest.pc /\ added.open = rest.open
        /\ added.spent = rest.spent /\ added.date = rest.date
        /\ added.fetches = rest.fetches /\ added.queue = Append(rest.queue, below)
        /\ added.node = rest.node /\ added.todo = rest.todo /\ added.left = rest.left
        /\ added.order = (IF id \in DOMAIN job[c].entries THEN rest.order ELSE Append(rest.order, id))
        /\ added.entries = g
        /\ added.proofs = proofs
    <3> HIDE DEF x, below, id
    <3> QED
      BY <1>9 DEF Fresh
  <2>2. below \in Walks /\ PathExp(below) \in Nat
    BY <1>11
  <2>3. x \in Entry
    <3>1. id \in DOMAIN f => f[id].exp \in Nat
      BY <1>2, <1>8, <1>9 DEF EntriesOK, Entry
    <3> DEFINE n == Largest(PathExp(below), IF id \in DOMAIN f THEN f[id].exp ELSE 0)
    <3>2. n \in Nat
      <4> HIDE DEF f, id, below
      <4> QED
        BY <2>2, <3>1 DEF Largest
    <3>3. x = [exp |-> n, marks |-> {}]
      OBVIOUS
    <3> HIDE DEF n, x
    <3> QED
      BY <3>2, <3>3 DEF Entry
  <2> HIDE DEF added, x, below, id
  <2>5. EntriesOK(g) /\ ProofsOK(added.proofs)
    <3>1. EntriesOK(f) /\ ProofsOK(rest.proofs)
      BY <1>2, <1>8, <1>9
    <3> HIDE DEF f
    <3>2. EntriesOK(g)
      BY <1>4, <2>3, <3>1, EntriesKept
    <3>3. ProofsOK(added.proofs)
      BY <1>12, <2>1
    <3> QED
      BY <3>2, <3>3
  <2>6. DOMAIN g = DOMAIN f \cup {id} /\ f = job[c].entries /\ rest.order = job[c].order
        /\ rest.left = job[c].left
    <3>1. DOMAIN g = DOMAIN f \cup {id}
      <4> HIDE DEF f
      <4> QED
        BY SetFacts
    <3>2. f = job[c].entries /\ rest.order = job[c].order /\ rest.left = job[c].left
      BY <1>8, <1>9
    <3> QED
      BY <3>1, <3>2
  <2> HIDE DEF g, f
  <2>7. Lists(added.left, g)
    BY <1>2, <2>1, <2>6, ListsWider
  <2>8. Lists(added.order, g)
    <3>1. Lists(rest.order, f) /\ Lists(rest.order, g)
      BY <1>2, <2>6, ListsWider
    <3>2. CASE id \in DOMAIN job[c].entries
      BY <2>1, <3>1, <3>2
    <3>3. CASE id \notin DOMAIN job[c].entries
      <4>1. \A i \in DOMAIN rest.order : rest.order[i] # id
        BY <2>6, <3>1, <3>3 DEF Lists
      <4>2. Lists(Append(rest.order, id), g)
        BY <1>4, <2>6, <3>1, <4>1, AppendLists
      <4> QED
        BY <2>1, <3>3, <4>2
    <3> QED
      BY <3>2, <3>3
  <2>9. added.queue \in Seq(Walks)
    <3>1. rest.queue \in Seq(Walks) /\ added.queue = Append(rest.queue, below)
      BY <1>2, <1>8, <1>9, <2>1
    <3> QED
      BY <2>2, <3>1
  <2>10. /\ added.pc = "walk" /\ added.todo \in Seq(Entities) /\ added.node \in Walks
    BY <1>1, <1>2, <1>4, <1>8, <1>9, <2>1 DEF JobOK
  <2>11. added.order \in Seq(Entities)
    BY <2>8 DEF Lists
  <2>12. /\ added.fetches = h.fetches /\ added.entries = g /\ DOMAIN added = DOMAIN Fresh
         /\ added.open = job[c].open /\ added.spent = job[c].spent /\ added.date = job[c].date
    BY <1>8, <1>9, <2>1
  <2> QED
    BY <1>1, <1>7, <2>5, <2>7, <2>8, <2>9, <2>10, <2>11, <2>12 DEF JobOK, Second
<1>14. Fetches(c, keys, 0, ok) => JobOK(noted) /\ noted.pc = "walk"
  <2>1. /\ DOMAIN noted = DOMAIN Fresh /\ noted.pc = rest.pc /\ noted.open = rest.open
        /\ noted.spent = rest.spent /\ noted.date = rest.date
        /\ noted.fetches = rest.fetches /\ noted.queue = rest.queue /\ noted.node = rest.node
        /\ noted.todo = rest.todo /\ noted.order = rest.order /\ noted.left = rest.left
        /\ noted.entries = rest.entries /\ noted.proofs = proofs
    BY <1>9 DEF Fresh
  <2> HIDE DEF noted
  <2> QED
    BY <1>10, <1>12, <2>1 DEF JobOK
<1> HIDE DEF skip, noted, added, proofs
<1>15. "walk" \in Stages
  BY DEF Stages
<1> QED
  BY <1>1, <1>3, <1>6, <1>10, <1>13, <1>14, <1>15, StepTo, StepToFailed DEF Stages

LEMMA ResolvedOK ==
    ASSUME NEW f, ProofsOK(f), NEW i, IssuerExp[i] \in Nat PROVE ProofsOK(Resolved(f, i))
BY ProofsKept DEF Resolved

LEMMA RootOK ==
    ASSUME NEW c \in Calls, NEW e, ProofsOK(job[c].proofs) PROVE ProofsOK(WithRoot(c, e))
<1>1. RootExp[AnchorOf[c]] \in Nat
  BY CallFacts, CollectionAssumption
<1> QED
  BY <1>1, ProofsKept DEF WithRoot

LEMMA VerifiedOK ==
    ASSUME NEW c \in Calls, NEW e \in Entities, NEW proofs, ProofsOK(proofs),
           job[c].entries[e] \in Entry, MarkOf[e].type \in DOMAIN IssuersOf
    PROVE  /\ Verified(c, e, proofs) \subseteq Mark
           /\ \A v \in Verified(c, e, proofs) : v.exp <= job[c].entries[e].exp
<1> DEFINE m == MarkOf[e]
           n == job[c].entries[e].exp
           a == AnchorOf[c]
           S == {n, RootExp[a], proofs[m.iss], m.exp}
           v == [type |-> m.type, exp |-> Least(S)]
<1>1. CASE ~(m.iss \in DOMAIN proofs /\ Live(m.exp))
  BY <1>1 DEF Verified
<1>2. CASE m.iss \in DOMAIN proofs /\ Live(m.exp)
  <2>1. Verified(c, e, proofs) = {v}
    BY <1>2 DEF Verified
  <2>2. n \in Nat /\ proofs[m.iss] \in Nat
    BY <1>2 DEF Entry, ProofsOK
  <2>3. RootExp[a] \in Nat /\ m.exp \in Nat
    <3>1. a \in Anchors
      BY CallFacts
    <3> QED
      BY <3>1, CollectionAssumption
  <2>4. S \subseteq Nat /\ S # {} /\ n \in S
    BY <2>2, <2>3
  <2>5. Least(S) \in Nat /\ Least(S) <= n
    <3> HIDE DEF S
    <3> QED
      BY <2>4, LeastFacts
  <2> HIDE DEF S
  <2>6. v \in Mark /\ v.exp <= n
    BY <2>5 DEF Mark
  <2> QED
    BY <2>1, <2>6
<1> QED
  BY <1>1, <1>2

LEMMA VerifyListedStep ==
    ASSUME JobInv, DOMAIN job = Calls, NEW c \in Calls, NEW ok, VerifyListed(c, ok) PROVE Step(c)
<1>1. job[c].pc = "listed" /\ JobOK(job[c]) /\ Building(c)
  BY DEF VerifyListed, JobInv, Building
<1>2. /\ DOMAIN job[c] = DOMAIN Fresh /\ Apart(job[c].left, job[c].order)
      /\ EntriesOK(job[c].entries) /\ ProofsOK(job[c].proofs)
      /\ Lists(job[c].order, job[c].entries) /\ Lists(job[c].left, job[c].entries)
  BY <1>1 DEF JobOK, Second
<1>3. CASE job[c].left = <<>>
  <2> DEFINE j == [job[c] EXCEPT !.pc = "open", !.left = job[c].order]
  <2>1. Becomes(c, j)
    BY <1>3 DEF VerifyListed
  <2>2. /\ DOMAIN j = DOMAIN Fresh /\ j.pc = "open" /\ j.left = job[c].order
        /\ j.order = job[c].order
        /\ j.fetches = job[c].fetches /\ j.open = job[c].open /\ j.spent = job[c].spent
        /\ j.date = job[c].date /\ j.queue = job[c].queue
        /\ j.todo = job[c].todo /\ j.node = job[c].node /\ j.proofs = job[c].proofs
        /\ j.entries = job[c].entries
    BY <1>2 DEF Fresh
  <2> HIDE DEF j
  <2>3. JobOK(j)
    BY <1>1, <1>2, <2>2 DEF JobOK, Second
  <2>4. j.pc \in Stages /\ j.pc = "open"
    BY <2>2 DEF Stages, Second
  <2> QED
    BY <1>1, <2>1, <2>3, <2>4, StepTo DEF Stages
<1>4. CASE job[c].left # <<>>
  <2> DEFINE e == Head(job[c].left)
             f == job[c].entries
             m == MarkOf[e]
             known == WithRoot(c, e)
             resolves == Applies(m, FALSE) /\ m.iss \notin DOMAIN known \cup job[c].tried
             extra == IF resolves THEN IssuerCost[m.iss] ELSE 0
             proofs == IF resolves THEN Resolved(known, m.iss) ELSE known
             marks == IF Applies(m, FALSE) THEN Verified(c, e, proofs) ELSE {}
             gone == [job[c] EXCEPT !.left = Tail(@), !.entries = Without(@, e)]
             h == Charged(c, Needed(c, e), extra)
             kept == [h EXCEPT !.left = Tail(@), !.order = Append(@, e), !.proofs = proofs,
                               !.tried = IF resolves THEN @ \cup {m.iss} ELSE @,
                               !.entries = Set(@, e, [@[e] EXCEPT !.marks = marks])]
  <2>1. \/ Becomes(c, gone)
        \/ Becomes(c, Failed)
        \/ Fetches(c, Needed(c, e), extra, ok) /\ Becomes(c, kept)
    BY <1>4 DEF VerifyListed
  <2>2. /\ e \in Entities /\ e \in DOMAIN f /\ Lists(Tail(job[c].left), f)
        /\ \A i \in DOMAIN Tail(job[c].left) : Tail(job[c].left)[i] # e
        /\ Apart(Tail(job[c].left), job[c].order)
        /\ \A i \in DOMAIN job[c].order : job[c].order[i] # e
    BY <1>2, <1>4, TailLists
  <2>3. f[e] \in Entry
    BY <1>2, <2>2 DEF EntriesOK
  <2> HIDE DEF e
  <2>4. JobOK(gone) /\ gone.pc = "listed"
    <3>1. /\ DOMAIN gone = DOMAIN Fresh /\ gone.pc = job[c].pc /\ gone.left = Tail(job[c].left)
          /\ gone.order = job[c].order /\ gone.fetches = job[c].fetches
          /\ gone.open = job[c].open /\ gone.spent = job[c].spent /\ gone.date = job[c].date
          /\ gone.queue = job[c].queue /\ gone.todo = job[c].todo /\ gone.node = job[c].node
          /\ gone.proofs = job[c].proofs /\ gone.entries = Without(f, e)
      BY <1>2 DEF Fresh
    <3> HIDE DEF gone, f
    <3>2. Lists(gone.left, gone.entries) /\ Lists(gone.order, gone.entries) /\ EntriesOK(gone.entries)
      BY <1>2, <2>2, <3>1, ListsWithout, EntriesKept DEF f
    <3> QED
      BY <1>1, <2>2, <3>1, <3>2 DEF JobOK
  <2>5. /\ resolves => m.type \in DOMAIN IssuersOf
        /\ Applies(m, FALSE) => m.type \in DOMAIN IssuersOf
        /\ m.type \in DOMAIN IssuersOf => IssuerCost[m.iss] \in Nat /\ IssuerExp[m.iss] \in Nat
    <3>1. Applies(m, FALSE) => m.type \in DOMAIN IssuersOf
      BY DEF Applies
    <3>2. m.type \in DOMAIN IssuersOf => IssuerCost[m.iss] \in Nat /\ IssuerExp[m.iss] \in Nat
      BY <2>2, CollectionAssumption
    <3> QED
      BY <3>1, <3>2
  <2>6. extra \in Nat /\ ProofsOK(proofs)
    <3>1. ProofsOK(known)
      BY <1>2, RootOK
    <3> HIDE DEF m, known
    <3>2. extra \in Nat
      BY <2>5
    <3>3. ProofsOK(proofs)
      BY <2>5, <3>1, ResolvedOK
    <3> QED
      BY <3>2, <3>3
  <2> HIDE DEF extra, proofs, resolves
  <2>7. marks \in SUBSET Mark /\ \A v \in marks : v.exp <= f[e].exp
    <3>1. CASE Applies(m, FALSE)
      BY <2>2, <2>3, <2>5, <2>6, <3>1, VerifiedOK
    <3>2. CASE ~Applies(m, FALSE)
      BY <3>2
    <3> QED
      BY <3>1, <3>2
  <2> HIDE DEF marks
  <2>8. [f[e] EXCEPT !.marks = marks] \in Entry
    <3> DEFINE x == f[e]
               y == [x EXCEPT !.marks = marks]
    <3>1. x \in [exp : Nat, marks : SUBSET Mark]
      BY <2>3 DEF Entry
    <3>2. y \in [exp : Nat, marks : SUBSET Mark] /\ y.exp = x.exp /\ y.marks = marks
      <4> HIDE DEF x
      <4> QED
        BY <2>7, <3>1
    <3> HIDE DEF y
    <3>3. y \in Entry
      BY <2>7, <3>2 DEF Entry
    <3> QED
      BY <3>3 DEF y
  <2>9. Fetches(c, Needed(c, e), extra, ok) => h.fetches \in 0..MaxFetches
    <3>1. IsFiniteSet(Needed(c, e))
      BY NeededFinite
    <3> QED
      BY <1>1, <2>6, <3>1, BudgetKept
  <2>10. /\ DOMAIN h = DOMAIN Fresh /\ h.pc = job[c].pc /\ h.open = job[c].open
         /\ h.spent = job[c].spent /\ h.date = job[c].date
         /\ h.queue = job[c].queue /\ h.node = job[c].node /\ h.todo = job[c].todo
         /\ h.order = job[c].order /\ h.left = job[c].left
         /\ h.entries = f /\ h.proofs = job[c].proofs
    <3>1. h = Charged(c, Needed(c, e), extra)
      OBVIOUS
    <3> HIDE DEF h
    <3> QED
      BY <1>2, <3>1, ChargedFields
  <2> HIDE DEF h
  <2> DEFINE x == [h.entries[e] EXCEPT !.marks = marks]
             g == Set(h.entries, e, x)
  <2>11. /\ DOMAIN kept = DOMAIN Fresh /\ kept.pc = h.pc /\ kept.open = h.open
         /\ kept.spent = h.spent /\ kept.date = h.date
         /\ kept.fetches = h.fetches /\ kept.queue = h.queue /\ kept.node = h.node
         /\ kept.todo = h.todo /\ kept.order = Append(h.order, e) /\ kept.left = Tail(h.left)
         /\ kept.entries = g /\ kept.proofs = proofs
    BY <2>10 DEF Fresh
  <2>12. Fetches(c, Needed(c, e), extra, ok) => JobOK(kept) /\ kept.pc = "listed"
    <3>1. x \in Entry
      BY <2>8, <2>10
    <3> HIDE DEF kept, x, f
    <3>2. EntriesOK(g) /\ DOMAIN g = DOMAIN f /\ kept.entries = g
      <4>1. h.entries = f /\ f = job[c].entries /\ e \in DOMAIN f /\ e \in Entities /\ EntriesOK(f)
        BY <1>2, <2>2, <2>10 DEF f
      <4>2. EntriesOK(Set(f, e, x))
        BY <3>1, <4>1, EntriesKept
      <4>3. DOMAIN Set(f, e, x) = DOMAIN f
        BY <4>1 DEF Set
      <4> QED
        BY <2>11, <4>1, <4>2, <4>3
    <3> HIDE DEF g
    <3>3. /\ kept.left = Tail(job[c].left) /\ kept.order = Append(job[c].order, e)
          /\ kept.pc = "listed" /\ kept.open = job[c].open /\ kept.spent = job[c].spent
          /\ kept.date = job[c].date /\ kept.queue = job[c].queue
          /\ kept.todo = job[c].todo /\ kept.node = job[c].node /\ DOMAIN kept = DOMAIN Fresh
          /\ kept.fetches = h.fetches /\ kept.proofs = proofs
      BY <1>1, <2>10, <2>11
    <3>4. Lists(kept.left, g)
      BY <2>2, <3>2, <3>3, ListsWider
    <3>5. Lists(kept.order, g) /\ kept.order \in Seq(Entities)
      <4>1. Lists(job[c].order, g)
        BY <1>2, <3>2, ListsWider DEF f
      <4>2. Lists(Append(job[c].order, e), g)
        BY <2>2, <3>2, <4>1, AppendLists
      <4> QED
        BY <3>3, <4>2 DEF Lists
    <3>6. Apart(kept.left, kept.order)
      <4>1. job[c].order \in Seq(Entities)
        BY <1>2 DEF Lists
      <4>2. \A i \in DOMAIN Append(job[c].order, e) :
              \/ Append(job[c].order, e)[i] = e
              \/ i \in DOMAIN job[c].order /\ Append(job[c].order, e)[i] = job[c].order[i]
        BY <2>2, <4>1
      <4> QED
        BY <2>2, <3>3, <4>2 DEF Apart
    <3> QED
      BY <1>1, <2>6, <2>9, <3>2, <3>3, <3>4, <3>5, <3>6 DEF JobOK
  <2> HIDE DEF gone, kept
  <2> QED
    BY <1>1, <2>1, <2>4, <2>12, StepTo, StepToFailed DEF Stages
<1> QED
  BY <1>3, <1>4

(* The second pass: its entry is a known one, and keeps its form with the  *)
(* marks of an open type and with the filter's deadline.                   *)
LEMMA HeadFacts ==
    ASSUME NEW c, JobOK(job[c]), job[c].left # <<>>
    PROVE  LET e == Head(job[c].left)
           IN  /\ e \in Entities /\ e \in DOMAIN job[c].entries /\ job[c].entries[e] \in Entry
               /\ Lists(Tail(job[c].left), job[c].entries)
               /\ \A i \in DOMAIN Tail(job[c].left) : Tail(job[c].left)[i] # e
<1>1. Lists(job[c].left, job[c].entries) /\ EntriesOK(job[c].entries)
  BY DEF JobOK
<1> QED
  BY <1>1, TailLists DEF EntriesOK

LEMMA OpenIssuer ==
    ASSUME NEW e \in Entities, Applies(MarkOf[e], TRUE)
    PROVE  MarkOf[e].type \in DOMAIN IssuersOf /\ IssuerExp[MarkOf[e].iss] \in Nat
<1>1. MarkOf[e].type \in DOMAIN IssuersOf
  BY DEF Applies
<1> QED
  BY <1>1, CollectionAssumption

LEMMA MarkingOK ==
    ASSUME NEW c \in Calls, JobOK(job[c]), job[c].pc \in {"open", "search"}, job[c].left # <<>>,
           Applies(MarkOf[Head(job[c].left)], TRUE), NEW proofs, ProofsOK(proofs)
    PROVE  JobOK(Marking(c, proofs)) /\ Marking(c, proofs).pc = "filter"
<1> DEFINE e == Head(job[c].left)
           f == job[c].entries
           x == [f[e] EXCEPT !.marks = @ \cup Verified(c, e, proofs)]
           g == Set(f, e, x)
           j == [job[c] EXCEPT !.pc = "filter", !.proofs = proofs, !.entries = Set(@, e, x)]
<1>1. Marking(c, proofs) = j
  BY DEF Marking
<1>2. /\ e \in Entities /\ e \in DOMAIN f /\ f[e] \in Entry /\ Lists(job[c].left, f) /\ EntriesOK(f)
      /\ DOMAIN job[c] = DOMAIN Fresh /\ job[c].pc \in Second
  BY HeadFacts DEF JobOK, Second
<1>3. /\ DOMAIN j = DOMAIN Fresh /\ j.pc = "filter" /\ j.left = job[c].left
      /\ j.order = job[c].order
      /\ j.queue = job[c].queue /\ j.todo = job[c].todo /\ j.node = job[c].node /\ j.proofs = proofs
      /\ j.entries = g /\ j.fetches = job[c].fetches /\ j.open = job[c].open
      /\ j.spent = job[c].spent /\ j.date = job[c].date
  BY <1>2 DEF Fresh
<1> HIDE DEF j
<1>4. MarkOf[e].type \in DOMAIN IssuersOf
  BY <1>2, OpenIssuer
<1> HIDE DEF e
<1>5. /\ Verified(c, e, proofs) \subseteq Mark
      /\ \A v \in Verified(c, e, proofs) : v.exp <= f[e].exp
  BY <1>2, <1>4, VerifiedOK
<1> DEFINE y == f[e]
           new == Verified(c, e, proofs)
<1>6. y \in [exp : Nat, marks : SUBSET Mark] /\ \A m \in y.marks : m.exp <= y.exp
  BY <1>2 DEF Entry
<1>7. x = [y EXCEPT !.marks = y.marks \cup new] /\ new \subseteq Mark /\ \A v \in new : v.exp <= y.exp
  BY <1>5
<1> HIDE DEF x, y, new
<1>8. x \in Entry
  <2>1. x \in [exp : Nat, marks : SUBSET Mark] /\ x.exp = y.exp /\ x.marks = y.marks \cup new
    BY <1>6, <1>7
  <2> QED
    BY <1>6, <1>7, <2>1 DEF Entry
<1>9. EntriesOK(g) /\ Lists(job[c].left, g)
  <2>1. EntriesOK(g)
    <3> HIDE DEF f
    <3> QED
      BY <1>2, <1>8, EntriesKept
  <2>2. DOMAIN f \subseteq DOMAIN g
    BY DEF Set
  <2> HIDE DEF f, g
  <2> QED
    BY <1>2, <2>1, <2>2, ListsWider
<1> HIDE DEF f, g
<1>10. JobOK(j)
  BY <1>2, <1>9, <1>3 DEF JobOK, Second
<1> QED
  BY <1>1, <1>3, <1>10

LEMMA StepToMarking ==
    ASSUME DOMAIN job = Calls, NEW c \in Calls, JobOK(job[c]), job[c].pc \in {"open", "search"},
           job[c].left # <<>>, Applies(MarkOf[Head(job[c].left)], TRUE), NEW proofs, ProofsOK(proofs),
           Becomes(c, Marking(c, proofs))
    PROVE  Step(c)
<1> DEFINE j == Marking(c, proofs)
<1>1. JobOK(j) /\ j.pc = "filter"
  BY MarkingOK
<1>2. Building(c) /\ Becomes(c, j)
  BY DEF Building
<1> HIDE DEF j
<1> QED
  BY <1>1, <1>2, StepTo DEF Stages, Second

LEMMA VerifyOpenStep ==
    ASSUME JobInv, DOMAIN job = Calls, NEW c \in Calls, VerifyOpen(c) PROVE Step(c)
<1> DEFINE m == MarkOf[Head(job[c].left)]
           i == [job[c] EXCEPT !.pc = "filter"]
           j == [job[c] EXCEPT !.pc = "search", !.spent = 0, !.tried = @ \cup {m.iss}]
<1>1. job[c].pc = "open" /\ JobOK(job[c]) /\ Building(c) /\ job[c].left # <<>>
  BY DEF VerifyOpen, JobInv, Building
<1>2. DOMAIN job[c] = DOMAIN Fresh /\ job[c].order \in Seq(Entities) /\ ProofsOK(job[c].proofs)
  BY <1>1 DEF JobOK
<1>3. \/ Becomes(c, i)
      \/ aborted[c] /\ Becomes(c, Failed)
      \/ Applies(m, TRUE) /\ Becomes(c, Marking(c, job[c].proofs))
      \/ Applies(m, TRUE) /\ Becomes(c, j)
  BY DEF VerifyOpen
<1>4. /\ DOMAIN i = DOMAIN Fresh /\ i.pc = "filter" /\ i.left = job[c].left
      /\ i.order = job[c].order
      /\ i.queue = job[c].queue /\ i.todo = job[c].todo /\ i.node = job[c].node
      /\ i.proofs = job[c].proofs /\ i.entries = job[c].entries /\ i.fetches = job[c].fetches
      /\ i.open = job[c].open /\ i.spent = job[c].spent /\ i.date = job[c].date
  BY <1>2 DEF Fresh
<1>5. /\ DOMAIN j = DOMAIN Fresh /\ j.pc = "search" /\ j.left = job[c].left
      /\ j.order = job[c].order
      /\ j.queue = job[c].queue /\ j.todo = job[c].todo /\ j.node = job[c].node
      /\ j.proofs = job[c].proofs /\ j.entries = job[c].entries /\ j.fetches = job[c].fetches
      /\ j.open = job[c].open /\ j.spent = 0 /\ j.date = job[c].date
  BY <1>2 DEF Fresh
<1> HIDE DEF i, j
<1>6. JobOK(i)
  BY <1>1, <1>2, <1>4 DEF JobOK, Second
<1>7. Applies(m, TRUE) => JobOK(j)
  <2>1. 0 \in 0..OpenPerIssuer
    BY CollectionAssumption
  <2> QED
    BY <1>1, <1>2, <1>5, <2>1 DEF JobOK, Second
<1>8. CASE Applies(m, TRUE) /\ Becomes(c, Marking(c, job[c].proofs))
  BY <1>1, <1>2, <1>8, StepToMarking
<1>9. CASE Becomes(c, i)
  BY <1>1, <1>4, <1>6, <1>9, StepTo DEF Stages, Second
<1>10. CASE Applies(m, TRUE) /\ Becomes(c, j)
  BY <1>1, <1>5, <1>7, <1>10, StepTo DEF Stages, Second
<1>11. CASE aborted[c] /\ Becomes(c, Failed)
  BY <1>1, <1>11, StepToFailed
<1> QED
  BY <1>3, <1>8, <1>9, <1>10, <1>11

LEMMA SearchFacts ==
    ASSUME JobInv, NEW c \in Calls, job[c].pc = "search"
    PROVE  /\ JobOK(job[c]) /\ Building(c) /\ job[c].left # <<>> /\ DOMAIN job[c] = DOMAIN Fresh
           /\ Applies(MarkOf[Head(job[c].left)], TRUE) /\ ProofsOK(job[c].proofs)
           /\ Head(job[c].left) \in Entities
<1>1. JobOK(job[c]) /\ Building(c)
  BY DEF JobInv, Building
<1>2. job[c].left # <<>>
  BY <1>1 DEF JobOK
<1>3. Head(job[c].left) \in Entities
  BY <1>1, <1>2, HeadFacts
<1> QED
  BY <1>1, <1>2, <1>3 DEF JobOK

LEMMA SearchFetchStep ==
    ASSUME JobInv, DOMAIN job = Calls, NEW c \in Calls, NEW ok, SearchFetch(c, ok) PROVE Step(c)
<1> DEFINE p == IF ok THEN "search" ELSE "filter"
           i == [job[c] EXCEPT !.spent = @ + 1, !.open = @ + 1, !.fetches = @ + 1]
           j == [i EXCEPT !.pc = p]
<1>1. job[c].pc = "search"
  BY DEF SearchFetch
<1>2. /\ JobOK(job[c]) /\ Building(c) /\ job[c].left # <<>> /\ DOMAIN job[c] = DOMAIN Fresh
      /\ Applies(MarkOf[Head(job[c].left)], TRUE) /\ ProofsOK(job[c].proofs)
  BY <1>1, SearchFacts
<1>3. /\ job[c].fetches \in 0..MaxFetches /\ MaxFetches \in Nat
      /\ job[c].spent \in 0..OpenPerIssuer /\ OpenPerIssuer \in Nat
      /\ job[c].open \in 0..OpenTotal /\ OpenTotal \in Nat
  BY <1>2, CollectionAssumption DEF JobOK
<1>4. i.pc = job[c].pc /\ DOMAIN i = DOMAIN job[c]
  BY <1>2 DEF Fresh
<1>5. ok => j = i
  BY <1>1, <1>2, <1>4 DEF Fresh
<1>6. \/ aborted[c] /\ Becomes(c, Failed)
      \/ Becomes(c, Marking(c, job[c].proofs))
      \/ ~AllowanceSpent(c) /\ job[c].fetches + 1 > MaxFetches
      \/ ~AllowanceSpent(c) /\ Becomes(c, j)
  BY <1>5 DEF SearchFetch
<1>7. ~AllowanceSpent(c) => /\ ~(job[c].fetches + 1 > MaxFetches)
                            /\ job[c].fetches + 1 \in 0..MaxFetches
                            /\ job[c].spent + 1 \in 0..OpenPerIssuer
                            /\ job[c].open + 1 \in 0..OpenTotal
  BY <1>3 DEF AllowanceSpent
<1>8. /\ DOMAIN j = DOMAIN Fresh /\ j.pc = p /\ j.left = job[c].left /\ j.order = job[c].order
      /\ j.queue = job[c].queue /\ j.todo = job[c].todo /\ j.node = job[c].node
      /\ j.proofs = job[c].proofs /\ j.entries = job[c].entries /\ j.date = job[c].date
      /\ j.fetches = job[c].fetches + 1 /\ j.open = job[c].open + 1 /\ j.spent = job[c].spent + 1
  BY <1>2 DEF Fresh
<1> HIDE DEF i, j
<1>9. ~AllowanceSpent(c) => JobOK(j)
  BY <1>1, <1>2, <1>7, <1>8 DEF JobOK, Second
<1>10. CASE ~AllowanceSpent(c) /\ Becomes(c, j)
  BY <1>1, <1>2, <1>8, <1>9, <1>10, StepTo DEF Stages, Second
<1>11. CASE Becomes(c, Marking(c, job[c].proofs))
  BY <1>1, <1>2, <1>11, StepToMarking
<1>12. CASE aborted[c] /\ Becomes(c, Failed)
  BY <1>1, <1>2, <1>12, StepToFailed
<1> QED
  BY <1>6, <1>7, <1>10, <1>11, <1>12

LEMMA SearchDoneStep ==
    ASSUME JobInv, DOMAIN job = Calls, NEW c \in Calls, SearchDone(c) PROVE Step(c)
<1> DEFINE e == Head(job[c].left)
           proofs == Resolved(job[c].proofs, MarkOf[e].iss)
<1>1. job[c].pc = "search"
  BY DEF SearchDone
<1>2. /\ JobOK(job[c]) /\ Building(c) /\ job[c].left # <<>>
      /\ Applies(MarkOf[e], TRUE) /\ ProofsOK(job[c].proofs) /\ e \in Entities
  BY <1>1, SearchFacts
<1>3. ProofsOK(proofs)
  <2>1. IssuerExp[MarkOf[e].iss] \in Nat
    BY <1>2, OpenIssuer
  <2> QED
    BY <1>2, <2>1, ResolvedOK
<1>4. (aborted[c] /\ Becomes(c, Failed)) \/ Becomes(c, Marking(c, proofs))
  BY DEF SearchDone
<1> HIDE DEF proofs
<1> QED
  BY <1>1, <1>2, <1>3, <1>4, StepToMarking, StepToFailed

LEMMA FilterStep ==
    ASSUME JobInv, DOMAIN job = Calls, NEW c \in Calls, NEW ok, Filter(c, ok) PROVE Step(c)
<1>1. job[c].pc = "filter" /\ JobOK(job[c]) /\ Building(c)
  BY DEF Filter, JobInv, Building
<1>2. DOMAIN job[c] = DOMAIN Fresh /\ job[c].left # <<>> /\ EntriesOK(job[c].entries)
  BY <1>1 DEF JobOK
<1> DEFINE e == Head(job[c].left)
           f == job[c].entries
           exp == Least({f[e].exp, FilterUntil[e]})
           marks == {[t EXCEPT !.exp = Least({@, exp})] : t \in f[e].marks}
           x == [exp |-> exp, marks |-> marks]
           g == IF exp <= now THEN Without(f, e) ELSE Set(f, e, x)
           j == [job[c] EXCEPT !.pc = "open", !.left = Tail(@), !.entries = g]
<1>3. Becomes(c, Failed) \/ Becomes(c, j)
  BY DEF Filter
<1>4. /\ e \in Entities /\ e \in DOMAIN f /\ f[e] \in Entry /\ Lists(Tail(job[c].left), f)
      /\ \A i \in DOMAIN Tail(job[c].left) : Tail(job[c].left)[i] # e
  BY <1>1, <1>2, HeadFacts
<1> HIDE DEF e
<1>5. /\ f[e].exp \in Nat /\ f[e].marks \subseteq Mark /\ FilterUntil[e] \in Nat
  BY <1>4, CollectionAssumption DEF Entry
<1>6. exp \in Nat
  <2> DEFINE S == {f[e].exp, FilterUntil[e]}
  <2>1. S \subseteq Nat /\ S # {}
    BY <1>5
  <2> HIDE DEF S
  <2>2. Least(S) \in Nat
    BY <2>1, LeastFacts
  <2> QED
    BY <2>2 DEF S
<1> HIDE DEF exp
<1>7. x \in Entry
  <2>1. ASSUME NEW t \in f[e].marks
        PROVE  [t EXCEPT !.exp = Least({@, exp})] \in Mark /\ [t EXCEPT !.exp = Least({@, exp})].exp <= exp
    <3>1. t \in Mark
      BY <1>5
    <3> DEFINE S == {t.exp, exp}
               u == [t EXCEPT !.exp = Least({@, exp})]
    <3>2. S \subseteq Nat /\ S # {} /\ exp \in S
      BY <1>6, <3>1 DEF Mark
    <3>3. Least(S) \in Nat /\ Least(S) <= exp
      <4> HIDE DEF S
      <4> QED
        BY <3>2, LeastFacts
    <3>4. u = [t EXCEPT !.exp = Least(S)]
      OBVIOUS
    <3> HIDE DEF S, u
    <3>5. u \in Mark /\ u.exp <= exp
      BY <3>1, <3>3, <3>4 DEF Mark
    <3> QED
      BY <3>5 DEF u
  <2>2. marks \subseteq Mark /\ \A v \in marks : v.exp <= exp
    BY <2>1
  <2> HIDE DEF marks
  <2>3. x.exp = exp /\ x.marks = marks /\ x \in [exp : Nat, marks : SUBSET Mark]
    BY <1>6, <2>2
  <2> QED
    BY <2>2, <2>3 DEF Entry
<1> HIDE DEF x
<1>8. EntriesOK(g) /\ Lists(Tail(job[c].left), g)
  <2>1. CASE exp <= now
    BY <1>2, <1>4, <2>1, EntriesKept, ListsWithout
  <2>2. CASE ~(exp <= now)
    <3>1. g = Set(f, e, x)
      BY <2>2
    <3>2. EntriesOK(Set(f, e, x))
      BY <1>2, <1>4, <1>7, EntriesKept
    <3>3. DOMAIN f \subseteq DOMAIN Set(f, e, x)
      BY DEF Set
    <3>4. Lists(Tail(job[c].left), Set(f, e, x))
      <4> HIDE DEF f
      <4> QED
        BY <1>4, <3>3, ListsWider
    <3> QED
      BY <3>1, <3>2, <3>4
  <2> QED
    BY <2>1, <2>2
<1> HIDE DEF g
<1>9. /\ DOMAIN j = DOMAIN Fresh /\ j.pc = "open" /\ j.left = Tail(job[c].left)
      /\ j.order = job[c].order /\ j.queue = job[c].queue /\ j.todo = job[c].todo
      /\ j.node = job[c].node /\ j.proofs = job[c].proofs /\ j.entries = g
      /\ j.fetches = job[c].fetches /\ j.open = job[c].open
      /\ j.spent = job[c].spent /\ j.date = job[c].date
  BY <1>2 DEF Fresh
<1> HIDE DEF j, f
<1>10. JobOK(j)
  BY <1>1, <1>8, <1>9 DEF JobOK, Second
<1> QED
  BY <1>1, <1>3, <1>9, <1>10, StepTo, StepToFailed DEF Stages, Second

(* Only here is a date given to what was built.                            *)
LEMMA EndBuildStep ==
    ASSUME JobInv, DOMAIN job = Calls, now \in Nat, NEW c \in Calls, EndBuild(c) PROVE Step(c)
<1> DEFINE j == [Fresh EXCEPT !.pc = "built", !.entries = job[c].entries, !.date = now]
<1>1. job[c].pc = "open" /\ JobOK(job[c]) /\ Building(c) /\ EntriesOK(job[c].entries)
  BY DEF EndBuild, JobInv, JobOK, Building
<1>2. (aborted[c] /\ Becomes(c, Failed)) \/ Becomes(c, j)
  BY DEF EndBuild
<1>3. /\ DOMAIN j = DOMAIN Fresh /\ j.pc = "built" /\ j.left = <<>> /\ j.order = <<>>
      /\ j.queue = <<>> /\ j.todo = <<>> /\ j.proofs = <<>> /\ j.entries = job[c].entries
      /\ j.fetches = 0 /\ j.open = 0 /\ j.spent = 0 /\ j.date = now
  BY DEF Fresh
<1> HIDE DEF j
<1>4. JobOK(j)
  <2>1. MaxFetches \in Nat /\ OpenPerIssuer \in Nat /\ OpenTotal \in Nat
    BY CollectionAssumption
  <2>2. DOMAIN <<>> = {} /\ <<>> \in Seq(Walks) /\ <<>> \in Seq(Entities)
    OBVIOUS
  <2>3. ProofsOK(<<>>)
    BY <2>2 DEF ProofsOK
  <2> QED
    BY <1>1, <1>3, <2>1, <2>2, <2>3, EmptyLists DEF JobOK, Second
<1> QED
  BY <1>1, <1>2, <1>3, <1>4, StepTo, StepToFailed DEF Stages

LEMMA BuildStep ==
    ASSUME JobInv, DOMAIN job = Calls, now \in Nat, NEW c \in Calls, Build(c) PROVE Step(c)
BY CollectStep, FetchRootStep, VisitNodeStep, ExamineChildStep, VerifyListedStep, VerifyOpenStep,
   SearchFetchStep, SearchDoneStep, FilterStep, EndBuildStep DEF Build
----------------------------------------------------------------------------
(* The refreshes of all anchors together.                                  *)
BuildInv == SerialInv /\ JobInv /\ now \in Nat

LEMMA BuildInit == ASSUME Init PROVE BuildInv
<1>1. job = [c \in Calls |-> Fresh] /\ now \in Nat
  BY DEF Init
<1>2. JobOK([Fresh EXCEPT !.pc = "none"])
  BY FreshOK
<1>3. [Fresh EXCEPT !.pc = "none"] = Fresh
  BY DEF Fresh
<1> HIDE DEF Fresh
<1> QED
  BY <1>1, <1>2, <1>3, InitSerial DEF BuildInv, JobInv

(* Only the progress of a call changes.                                    *)
LEMMA PcOnly ==
    ASSUME JobInv, DOMAIN job = Calls, NEW c \in Calls, NEW p, job' = [job EXCEPT ![c].pc = p],
           \/ job[c].pc \in {"none", "waiting"} /\ p \in {"waiting", "start"}
           \/ job[c].pc = "settled" /\ p = "done"
    PROVE  JobInv'
<1> DEFINE j == [job[c] EXCEPT !.pc = p]
<1>1. JobOK(job[c]) /\ DOMAIN job[c] = DOMAIN Fresh
  BY DEF JobInv, JobOK
<1>2. job' = [job EXCEPT ![c] = j]
  OBVIOUS
<1>3. /\ DOMAIN j = DOMAIN Fresh /\ j.pc = p /\ j.fetches = job[c].fetches
      /\ j.open = job[c].open /\ j.spent = job[c].spent /\ j.date = job[c].date
      /\ j.queue = job[c].queue /\ j.todo = job[c].todo /\ j.node = job[c].node
      /\ j.entries = job[c].entries /\ j.proofs = job[c].proofs
      /\ j.left = job[c].left /\ j.order = job[c].order
  BY <1>1 DEF Fresh
<1> HIDE DEF j
<1>4. JobOK(j)
  BY <1>1, <1>3 DEF JobOK, Second
<1>5. \A d \in Calls : job'[d] = IF d = c THEN j ELSE job[d]
  BY <1>2
<1>6. \A d \in Calls : JobOK(job'[d])
  BY <1>4, <1>5 DEF JobInv
<1> QED
  BY <1>6 DEF JobInv, JobOK, EntriesOK, ProofsOK, Lists, Walks, Entry, Mark, Apart

LEMMA RefreshEnded ==
    ASSUME BuildInv, NEW c \in Calls, EndRefresh(c) PROVE BuildInv'
<1> DEFINE j == [Fresh EXCEPT !.pc = "settled"]
<1>1. /\ job' = [job EXCEPT ![c] = j] /\ UNCHANGED <<refreshes, previous>> /\ Building(c)
      /\ DOMAIN job = Calls
  BY DEF EndRefresh, Building, BuildInv, SerialInv, Forms
<1>2. "pc" \in DOMAIN j /\ j.pc = "settled"
  BY DEF Fresh
<1>3. JobOK(j)
  BY FreshOK
<1> HIDE DEF j
<1>4. SerialInv'
  BY <1>1, <1>2, BuildSerial DEF BuildInv
<1>5. \A d \in Calls : job'[d] = IF d = c THEN j ELSE job[d]
  BY <1>1
<1>6. \A d \in Calls : JobOK(job'[d])
  BY <1>3, <1>5 DEF BuildInv, JobInv
<1>7. JobInv'
  BY <1>6 DEF JobInv, JobOK, EntriesOK, ProofsOK, Lists, Walks, Entry, Mark, Apart
<1>8. now' = now
  BY DEF EndRefresh
<1> QED
  BY <1>4, <1>7, <1>8 DEF BuildInv

LEMMA BuildsOn ==
    ASSUME BuildInv, NEW c \in Calls, Build(c), UNCHANGED <<refreshes, previous>> PROVE BuildInv'
<1>1. DOMAIN job = Calls
  BY DEF BuildInv, SerialInv, Forms
<1>2. Step(c)
  BY <1>1, BuildStep DEF BuildInv
<1> DEFINE j == job'[c]
<1>3. /\ job' = [job EXCEPT ![c] = j] /\ JobOK(j) /\ Building(c)
      /\ j.pc \notin {"none", "waiting", "done"}
  BY <1>2 DEF Step, Stages, Second
<1>4. "pc" \in DOMAIN j
  <2>1. DOMAIN j = DOMAIN Fresh
    BY <1>3 DEF JobOK
  <2> HIDE DEF j
  <2> QED
    BY <2>1 DEF Fresh
<1> HIDE DEF j
<1>5. SerialInv'
  BY <1>3, <1>4, BuildSerial DEF BuildInv
<1>6. \A d \in Calls : job'[d] = IF d = c THEN j ELSE job[d]
  BY <1>1, <1>3
<1>7. \A d \in Calls : JobOK(job'[d])
  BY <1>3, <1>6 DEF BuildInv, JobInv
<1>8. JobInv'
  BY <1>7 DEF JobInv, JobOK, EntriesOK, ProofsOK, Lists, Walks, Entry, Mark, Apart
<1>9. now' = now
  BY <1>2 DEF Step
<1> QED
  BY <1>5, <1>8, <1>9 DEF BuildInv

LEMMA BuildsStay == ASSUME BuildInv, UNCHANGED <<job, refreshes, previous>>, now' \in Nat PROVE BuildInv'
<1>1. SerialInv'
  BY DEF BuildInv, SerialInv, Forms, InTurn, LastKnown, Called, Over, Before, Same
<1>2. \A c \in Calls : JobOK(job'[c])
  BY DEF BuildInv, JobInv
<1>3. JobInv'
  BY <1>2 DEF JobInv, JobOK, EntriesOK, ProofsOK, Lists, Walks, Entry, Mark, Apart
<1> QED
  BY <1>1, <1>3 DEF BuildInv

LEMMA BuildNext == ASSUME BuildInv, [Next]_vars PROVE BuildInv'
<1>1. ASSUME UNCHANGED <<job, refreshes, previous>>, now' \in {now, now + 1} PROVE BuildInv'
  <2>1. now' \in Nat
    BY <1>1 DEF BuildInv
  <2> QED
    BY <1>1, <2>1, BuildsStay
<1>2. DOMAIN job = Calls /\ JobInv
  BY DEF BuildInv, SerialInv, Forms
<1>3. ASSUME NEW c \in Calls, Refreshing(c) PROVE BuildInv'
  <2>1. CASE CallRefresh(c)
    <3>1. JobInv'
      BY <1>2, <2>1, PcOnly DEF CallRefresh
    <3> QED
      BY <2>1, <3>1, CallSerial DEF BuildInv, CallRefresh
  <2>2. CASE StartBuild(c)
    <3>1. JobInv'
      BY <1>2, <2>2, PcOnly DEF StartBuild
    <3> QED
      BY <2>2, <3>1, StartSerial DEF BuildInv, StartBuild
  <2>3. CASE Cleanup(c)
    <3>1. JobInv'
      BY <1>2, <2>3, PcOnly DEF Cleanup
    <3> QED
      BY <2>3, <3>1, CleanupSerial DEF BuildInv, Cleanup
  <2> QED
    BY <1>3, <2>1, <2>2, <2>3, RefreshEnded, BuildsOn DEF Refreshing
<1>4. CASE Tick
  BY <1>1, <1>4 DEF Tick
<1>5. ASSUME NEW c \in Calls, Abort(c) PROVE BuildInv'
  BY <1>1, <1>5 DEF Abort
<1>6. ASSUME NEW r \in Readers, Reading(r) PROVE BuildInv'
  BY <1>1, <1>6 DEF Reading, Lookup, Answer, buildVars
<1>7. CASE UNCHANGED vars
  BY <1>1, <1>7 DEF vars, buildVars
<1> QED
  BY <1>3, <1>4, <1>5, <1>6, <1>7 DEF Next

LEMMA BuildsInOrder == Spec => []BuildInv
BY BuildInit, BuildNext, PTL DEF Spec

(* Only the steps of a refresh change what a refresh has gathered.         *)
LEMMA JobChanged == ASSUME [Next]_vars, job' # job PROVE \E d \in Calls : Refreshing(d)
<1>1. ~Tick /\ ~UNCHANGED vars
  BY DEF Tick, vars, buildVars
<1>2. \A c \in Calls : ~Abort(c)
  BY DEF Abort
<1>3. \A r \in Readers : ~Reading(r)
  <2>1. ASSUME NEW r \in Readers, Lookup(r) PROVE FALSE
    BY <2>1 DEF Lookup, buildVars
  <2>2. ASSUME NEW r \in Readers, NEW n \in 0..PageSize, Answer(r, n) PROVE FALSE
    BY <2>2 DEF Answer, buildVars
  <2> QED
    BY <2>1, <2>2 DEF Reading
<1> QED
  BY <1>1, <1>2, <1>3 DEF Next

LEMMA OneBuilding == ASSUME BuildInv PROVE RefreshesSerial
<1>1. SUFFICES ASSUME NEW c \in Calls, NEW d \in Calls, c < d, AnchorOf[c] = AnchorOf[d],
                      Building(c), Building(d)
               PROVE  FALSE
  <2>1. \A c, d \in Calls : c # d => c < d \/ d < c
    BY CallFacts
  <2> QED
    BY <1>1, <2>1 DEF RefreshesSerial
<1>2. c \in Before(d) /\ job[d].pc \notin {"none", "waiting"}
  BY <1>1 DEF Before, Same, Building
<1>3. Over(c)
  BY <1>2 DEF BuildInv, SerialInv, InTurn
<1> QED
  BY <1>1, <1>3 DEF Over, Building

(* An anchor is refreshed by one call at a time, however many calls are    *)
(* chained, fail or are cancelled, although the service's map forgets      *)
(* every call but the last (service.ts, 113-122).                          *)
THEOREM RefreshesAreSerial == Spec => []RefreshesSerial
BY OneBuilding, BuildsInOrder, PTL

(* Neither the fetches for issuers no anchor lists nor what they find can  *)
(* fail a refresh: while one looks for them only its abort does, whatever  *)
(* of its budget and of their allowances is left (refresh.ts, 158).        *)
THEOREM OptionalNeverFails == Spec => OptionalNeverFatal
<1> DEFINE A == \A c \in Calls : job[c].pc \in {"open", "search"} /\ job'[c].pc = "failed" => aborted[c]
<1>1. ASSUME BuildInv, [Next]_vars PROVE A
  <2>1. SUFFICES ASSUME NEW c \in Calls, job[c].pc \in {"open", "search"}, job'[c].pc = "failed"
               PROVE  aborted[c]
    OBVIOUS
  <2>2. DOMAIN job = Calls /\ JobInv /\ now \in Nat
    BY <1>1 DEF BuildInv, SerialInv, Forms
  <2>3. job' # job
    BY <2>1
  <2>4. PICK d \in Calls : Refreshing(d)
    BY <1>1, <2>3, JobChanged
  <2>5. CASE Build(d)
    <3>1. Step(d)
      BY <2>2, <2>5, BuildStep
    <3>2. d = c
      BY <2>1, <2>2, <3>1 DEF Step
    <3> QED
      BY <2>1, <3>1, <3>2 DEF Step
  <2>6. CASE CallRefresh(d) \/ StartBuild(d) \/ EndRefresh(d) \/ Cleanup(d)
    <3>1. DOMAIN job[d] = DOMAIN Fresh
      BY <2>2 DEF JobInv, JobOK
    <3>2. "pc" \in DOMAIN job[d] /\ [Fresh EXCEPT !.pc = "settled"].pc = "settled"
      BY <3>1 DEF Fresh
    <3>3. job'[d].pc \in {"waiting", "start", "settled", "done"} /\ \A b \in Calls : b # d => job'[b] = job[b]
      BY <2>2, <2>6, <3>2 DEF CallRefresh, StartBuild, EndRefresh, Cleanup
    <3> QED
      BY <2>1, <3>3
  <2> QED
    BY <2>4, <2>5, <2>6 DEF Refreshing
<1> QED
  BY <1>1, BuildsInOrder, PTL DEF Spec, OptionalNeverFatal
----------------------------------------------------------------------------
(* The store: every snapshot is that of a refresh that is over, no two are *)
(* of the same refresh, and the current one of an anchor is there.         *)
SnapshotFields == {"id", "place", "anchor", "lastUpdated", "retainUntil", "entries"}
SnapshotOK(s) ==
    /\ DOMAIN s = SnapshotFields
    /\ s.id \in Calls /\ s.anchor = AnchorOf[s.id] /\ Over(s.id)
    /\ s.place \in Nat /\ s.lastUpdated \in 0..now /\ EntriesOK(s.entries)
Placed(S) == (\A x \in S : x.place \in Nat) /\ \E n \in Nat : \A x \in S : x.place <= n
StoreInv ==
    /\ now \in Nat /\ DOMAIN current = Anchors /\ Placed(snapshots)
    /\ \A s \in snapshots : SnapshotOK(s)
    /\ \A s, t \in snapshots : s.id = t.id => s = t
    /\ \A a \in Anchors : current[a] # 0 => \E s \in snapshots : s.id = current[a] /\ s.anchor = a

(* What is built is no older than any snapshot of its anchor.              *)
Dated ==
    \A c \in Calls : job[c].pc = "built" =>
        /\ job[c].date \in 0..now
        /\ \A s \in snapshots : s.anchor = AnchorOf[c] => s.lastUpdated <= job[c].date

(* What a step makes of the snapshots.                                     *)
Descends(t, s) == s.id = t.id /\ s.entries = t.entries /\ s.lastUpdated = t.lastUpdated
Lineage == \A t \in snapshots' : \/ \E s \in snapshots : Descends(t, s)
                                 \/ t.id \in Calls /\ job[t.id].pc = "built" /\ t.lastUpdated = job[t.id].date
Selects == \A a \in Anchors : \/ current'[a] = current[a]
                              \/ current'[a] \in Calls /\ ~Over(current'[a])

LEMMA OldestIn == ASSUME NEW S, S # {}, \A x \in S : x.place \in Nat PROVE Oldest(S) \in S
<1> DEFINE T == {x.place : x \in S}
<1>1. T \subseteq Nat /\ T # {}
  OBVIOUS
<1>2. \E m \in T : \A n \in T : m <= n
  <2> HIDE DEF T
  <2> QED
    BY <1>1, LeastOf
<1>3. \E x \in S : \A y \in S : x.place <= y.place
  BY <1>2
<1> QED
  BY <1>3 DEF Oldest

LEMMA GreatestOf ==
    ASSUME NEW T, T \subseteq Nat, T # {}, NEW n \in Nat, \A x \in T : x <= n
    PROVE  Max(T) \in T /\ \A x \in T : x <= Max(T)
<1> DEFINE U == {n - x : x \in T}
<1>1. U \subseteq Nat /\ U # {}
  <2>1. \A x \in T : n - x \in Nat
    OBVIOUS
  <2> QED
    BY <2>1
<1>2. \E m \in U : \A k \in U : m <= k
  <2> HIDE DEF U
  <2> QED
    BY <1>1, LeastOf
<1>3. PICK m \in T : \A x \in T : n - m <= n - x
  BY <1>2
<1>4. \A x \in T : m >= x
  BY <1>3
<1>5. Max(T) \in T /\ \A x \in T : Max(T) >= x
  BY <1>4 DEF Max
<1> QED
  BY <1>5

LEMMA NextPlaceOK ==
    ASSUME NEW S, Placed(S) PROVE NextPlace(S) \in Nat /\ \A x \in S : x.place <= NextPlace(S)
<1> DEFINE T == {0} \cup {x.place : x \in S}
<1>1. PICK n \in Nat : \A x \in S : x.place <= n
  BY DEF Placed
<1>2. T \subseteq Nat /\ T # {} /\ \A x \in T : x <= n
  BY <1>1 DEF Placed
<1>3. \A x \in S : x.place \in T
  OBVIOUS
<1>4. NextPlace(S) = 1 + Max(T)
  BY DEF NextPlace
<1> HIDE DEF T
<1>5. Max(T) \in Nat /\ \A x \in T : x <= Max(T)
  BY <1>2, GreatestOf
<1> QED
  BY <1>3, <1>4, <1>5 DEF Placed

LEMMA PlacedPart == ASSUME NEW S, Placed(S), NEW R, R \subseteq S PROVE Placed(R)
BY DEF Placed

(* Room is never made by dropping another anchor's current snapshot.       *)
LEMMA RoomFacts ==
    ASSUME StoreInv, NEW a \in Anchors
    PROVE  /\ Kept \subseteq snapshots /\ Room(a, Kept) \subseteq Kept
           /\ \A s \in snapshots : IsCurrent(s) => s \in Kept
           /\ \A s \in snapshots : IsCurrent(s) /\ s.anchor # a => s \in Room(a, Kept)
<1>1. Kept \subseteq snapshots /\ \A s \in snapshots : IsCurrent(s) => s \in Kept
  BY DEF Kept
<1> DEFINE K == Kept
           old == {s \in K : ~IsCurrent(s)}
<1>2. \/ Room(a, K) = K
      \/ old # {} /\ Room(a, K) = K \ {Oldest(old)}
      \/ Room(a, K) = {s \in K : s.id # current[a]}
  BY DEF Room
<1>3. old # {} => Oldest(old) \in old
  <2>1. \A s \in old : s.place \in Nat
    BY <1>1 DEF StoreInv, Placed
  <2> HIDE DEF old
  <2> QED
    BY <2>1, OldestIn
<1> HIDE DEF K
<1>4. Room(a, K) \subseteq K
  BY <1>2
<1>5. ASSUME NEW s \in snapshots, IsCurrent(s), s.anchor # a PROVE s \in Room(a, K)
  <2>1. s \in K
    BY <1>1, <1>5 DEF K
  <2>2. s.id # current[a]
    <3>1. ASSUME s.id = current[a] PROVE FALSE
      <4>1. s.id \in Calls /\ s.anchor = AnchorOf[s.id]
        BY DEF StoreInv, SnapshotOK
      <4>2. PICK t \in snapshots : t.id = current[a] /\ t.anchor = a
        BY <3>1, <4>1, CallFacts DEF StoreInv
      <4>3. t.anchor = AnchorOf[t.id]
        BY DEF StoreInv, SnapshotOK
      <4> QED
        BY <1>5, <3>1, <4>1, <4>2, <4>3
    <3> QED
      BY <3>1
  <2>3. s \notin old
    BY <1>5
  <2> HIDE DEF old
  <2> QED
    BY <1>2, <1>3, <2>1, <2>2, <2>3
<1> QED
  BY <1>1, <1>4, <1>5 DEF K

(* Nothing is published.                                                   *)
LEMMA StoreKept ==
    ASSUME StoreInv, \A c \in Calls : Over(c) => Over(c)', now' \in Nat, now <= now',
           current' = current, snapshots' = snapshots \/ snapshots' = Kept
    PROVE  StoreInv' /\ Lineage /\ Selects
<1>1. snapshots' \subseteq snapshots
  BY DEF Kept
<1>2. Lineage
  BY <1>1 DEF Lineage, Descends
<1>3. Selects
  BY DEF Selects
<1>4. Placed(snapshots')
  BY <1>1, PlacedPart DEF StoreInv
<1>5. ASSUME NEW s \in snapshots' PROVE SnapshotOK(s)'
  <2>1. SnapshotOK(s)
    BY <1>1 DEF StoreInv
  <2>2. s.lastUpdated \in 0..now /\ s.id \in Calls /\ Over(s.id)
    BY <2>1 DEF SnapshotOK
  <2>3. s.lastUpdated \in 0..now'
    BY <2>2 DEF StoreInv
  <2>4. Over(s.id)'
    BY <2>2
  <2> QED
    BY <2>1, <2>3, <2>4 DEF SnapshotOK, SnapshotFields, EntriesOK, Entry, Mark
<1>6. \A s, t \in snapshots' : s.id = t.id => s = t
  BY <1>1 DEF StoreInv
<1>7. ASSUME NEW a \in Anchors, current'[a] # 0
      PROVE  \E s \in snapshots' : s.id = current'[a] /\ s.anchor = a
  <2>1. PICK s \in snapshots : s.id = current[a] /\ s.anchor = a
    BY <1>7 DEF StoreInv
  <2>2. s \in Kept
    BY <2>1 DEF Kept, IsCurrent
  <2> QED
    BY <2>1, <2>2
<1>8. DOMAIN current' = Anchors
  BY DEF StoreInv
<1>9. Placed(snapshots)'
  BY <1>4 DEF Placed
<1>10. StoreInv'
  BY <1>5, <1>6, <1>7, <1>8, <1>9 DEF StoreInv
<1> QED
  BY <1>2, <1>3, <1>10

(* A refresh that is ending publishes what it built.                       *)
LEMMA StorePublished ==
    ASSUME StoreInv, \A d \in Calls : Over(d) => Over(d)', now' = now,
           NEW c \in Calls, job[c].pc = "built", Over(c)', NEW f, EntriesOK(f),
           NEW d \in 0..now, d = job[c].date, snapshots' = Published(AnchorOf[c], c, d, f),
           current' = [current EXCEPT ![AnchorOf[c]] = c]
    PROVE  StoreInv' /\ Lineage /\ Selects
<1> DEFINE a == AnchorOf[c]
           R == Room(a, Kept)
           touch(s) == IF s.id = current[a] THEN [s EXCEPT !.retainUntil = now + Retention] ELSE s
           new == [id |-> c, place |-> NextPlace(R), anchor |-> a, lastUpdated |-> d,
                   retainUntil |-> MaxTime + 1, entries |-> f]
<1>1. snapshots' = {touch(s) : s \in R} \cup {new}
  BY DEF Published
<1>2. a \in Anchors
  BY CallFacts
<1>3. R \subseteq snapshots /\ \A s \in snapshots : IsCurrent(s) /\ s.anchor # a => s \in R
  BY <1>2, RoomFacts
<1>4. now \in Nat /\ NextPlace(R) \in Nat /\ \A s \in R : s.place <= NextPlace(R)
  <2>1. Placed(R)
    BY <1>3, PlacedPart DEF StoreInv
  <2> HIDE DEF R
  <2> QED
    BY <2>1, NextPlaceOK DEF StoreInv
<1>5. /\ new.id = c /\ new.place = NextPlace(R) /\ new.anchor = a /\ new.lastUpdated = d
      /\ new.entries = f /\ DOMAIN new = SnapshotFields
  BY DEF SnapshotFields
<1> HIDE DEF R, new
<1>6. ASSUME NEW s \in R
      PROVE  /\ touch(s).id = s.id /\ touch(s).place = s.place /\ touch(s).anchor = s.anchor
             /\ touch(s).lastUpdated = s.lastUpdated /\ touch(s).entries = s.entries
             /\ DOMAIN touch(s) = DOMAIN s
  <2>1. DOMAIN s = SnapshotFields
    BY <1>3 DEF StoreInv, SnapshotOK
  <2> QED
    BY <2>1 DEF SnapshotFields
<1> HIDE DEF touch
<1>7. Lineage
  <2>1. ASSUME NEW s \in R PROVE Descends(touch(s), s)
    BY <1>6 DEF Descends
  <2> QED
    BY <1>1, <1>3, <1>5, <2>1 DEF Lineage
<1>8. DOMAIN current = Anchors /\ current'[a] = c /\ \A b \in Anchors : b # a => current'[b] = current[b]
  BY <1>2 DEF StoreInv
<1>9. Selects
  BY <1>8 DEF Selects, Over
<1>10. Placed(snapshots)'
  <2>1. \A s \in R : s.place \in Nat
    BY <1>3 DEF StoreInv, Placed
  <2>2. \A t \in snapshots' : t.place \in Nat /\ t.place <= NextPlace(R)
    BY <1>1, <1>4, <1>5, <1>6, <2>1
  <2> QED
    BY <1>4, <2>2 DEF Placed
<1>11. ASSUME NEW t \in snapshots' PROVE SnapshotOK(t)'
  <2>1. CASE t = new
    <3>1. d \in 0..now'
      OBVIOUS
    <3> QED
      BY <1>4, <1>5, <2>1, <3>1 DEF SnapshotOK, SnapshotFields, EntriesOK, Entry, Mark
  <2>2. CASE t # new
    <3>1. PICK s \in R : t = touch(s)
      BY <1>1, <2>2
    <3>2. SnapshotOK(s)
      BY <1>3 DEF StoreInv
    <3>3. s.id \in Calls /\ Over(s.id)
      BY <3>2 DEF SnapshotOK
    <3>4. Over(s.id)'
      BY <3>3
    <3> QED
      BY <1>6, <3>1, <3>2, <3>4 DEF SnapshotOK, SnapshotFields, EntriesOK, Entry, Mark
  <2> QED
    BY <2>1, <2>2
<1>12. \A s, t \in snapshots' : s.id = t.id => s = t
  <2>1. \A s \in R : s.id # c
    BY <1>3 DEF StoreInv, SnapshotOK, Over
  <2>2. \A s, t \in R : s.id = t.id => s = t
    BY <1>3 DEF StoreInv
  <2> QED
    BY <1>1, <1>5, <1>6, <2>1, <2>2
<1>13. ASSUME NEW b \in Anchors, current'[b] # 0
       PROVE  \E s \in snapshots' : s.id = current'[b] /\ s.anchor = b
  <2>1. CASE b = a
    BY <1>1, <1>5, <1>8, <2>1
  <2>2. CASE b # a
    <3>1. PICK s \in snapshots : s.id = current[b] /\ s.anchor = b
      BY <1>8, <1>13, <2>2 DEF StoreInv
    <3>2. s \in R
      BY <1>3, <2>2, <3>1 DEF IsCurrent
    <3> QED
      BY <1>1, <1>6, <1>8, <2>2, <3>1, <3>2
  <2> QED
    BY <2>1, <2>2
<1>14. DOMAIN current' = Anchors
  BY DEF StoreInv
<1>15. StoreInv'
  BY <1>4, <1>10, <1>11, <1>12, <1>13, <1>14 DEF StoreInv
<1> QED
  BY <1>7, <1>9, <1>15

(* A refresh that is over stays over.                                      *)
LEMMA OverStays ==
    ASSUME BuildInv, [Next]_vars, NEW c \in Calls, Over(c) PROVE Over(c)'
<1>1. CASE job' = job
  BY <1>1 DEF Over
<1>2. CASE job' # job
  <2>1. PICK d \in Calls : Refreshing(d)
    BY <1>2, JobChanged
  <2>2. DOMAIN job = Calls /\ JobInv /\ "pc" \in DOMAIN job[d]
    BY DEF BuildInv, SerialInv, Forms
  <2>3. CASE Build(d)
    <3>1. Step(d)
      BY <2>2, <2>3, BuildStep DEF BuildInv
    <3>2. d # c
      BY <3>1 DEF Step, Building, Over
    <3> QED
      BY <2>2, <3>1, <3>2 DEF Step, Over
  <2>4. CASE CallRefresh(d) \/ StartBuild(d)
    <3>1. d # c
      BY <2>4 DEF CallRefresh, StartBuild, Over
    <3>2. job'[c] = job[c]
      BY <2>2, <2>4, <3>1 DEF CallRefresh, StartBuild
    <3> QED
      BY <3>2 DEF Over
  <2>5. CASE EndRefresh(d)
    <3>1. d # c
      BY <2>5 DEF EndRefresh, Over
    <3>2. job'[c] = job[c]
      BY <2>2, <2>5, <3>1 DEF EndRefresh
    <3> QED
      BY <3>2 DEF Over
  <2>6. CASE Cleanup(d)
    <3>1. job'[c] = job[c] \/ job'[c].pc = "done"
      BY <2>2, <2>6 DEF Cleanup
    <3> QED
      BY <3>1 DEF Over
  <2> QED
    BY <2>1, <2>3, <2>4, <2>5, <2>6 DEF Refreshing
<1> QED
  BY <1>1, <1>2

LEMMA StoreInit == ASSUME Init PROVE StoreInv
<1>1. now = 0 /\ snapshots = {} /\ current = [a \in Anchors |-> 0]
  BY DEF Init
<1> QED
  BY <1>1 DEF StoreInv, Placed

LEMMA StoreNext ==
    ASSUME BuildInv, StoreInv, Dated, [Next]_vars PROVE StoreInv' /\ Lineage /\ Selects
<1>1. \A c \in Calls : Over(c) => Over(c)'
  BY OverStays
<1>2. now \in Nat
  BY DEF StoreInv
<1>3. ASSUME now' = now \/ now' = now + 1, current' = current, snapshots' = snapshots \/ snapshots' = Kept
      PROVE  StoreInv' /\ Lineage /\ Selects
  BY <1>1, <1>2, <1>3, StoreKept
<1>4. CASE Tick
  BY <1>3, <1>4 DEF Tick, storeVars
<1>5. ASSUME NEW c \in Calls, Refreshing(c) PROVE StoreInv' /\ Lineage /\ Selects
  <2>1. CASE EndRefresh(c)
    <3>1. CASE UNCHANGED storeVars
      BY <1>3, <2>1, <3>1 DEF EndRefresh, storeVars
    <3>2. CASE ~(UNCHANGED storeVars)
      <4>1. /\ snapshots' = Published(AnchorOf[c], c, job[c].date, job[c].entries) /\ now' = now
            /\ job[c].pc = "built"
            /\ current' = [current EXCEPT ![AnchorOf[c]] = c]
        BY <2>1, <3>2 DEF EndRefresh
      <4>2. job[c].date \in 0..now
        BY <4>1 DEF Dated
      <4>3. job'[c].pc = "settled"
        <5>1. job'[c] = [Fresh EXCEPT !.pc = "settled"]
          BY <2>1 DEF EndRefresh, BuildInv, SerialInv, Forms
        <5> QED
          BY <5>1 DEF Fresh
      <4>4. Over(c)' /\ EntriesOK(job[c].entries)
        BY <4>3 DEF Over, BuildInv, JobInv, JobOK
      <4> QED
        BY <1>1, <4>1, <4>2, <4>4, StorePublished
    <3> QED
      BY <3>1, <3>2
  <2>2. CASE ~EndRefresh(c)
    <3>1. UNCHANGED <<now, storeVars>>
      <4>1. ASSUME Build(c) PROVE now' = now
        <5>1. Step(c)
          BY <4>1, BuildStep DEF BuildInv, SerialInv, Forms
        <5> QED
          BY <5>1 DEF Step
      <4> QED
        BY <1>5, <2>2, <4>1 DEF Refreshing, CallRefresh, StartBuild, Cleanup
    <3> QED
      BY <1>3, <3>1 DEF storeVars
  <2> QED
    BY <2>1, <2>2
<1>6. ASSUME NEW c \in Calls, Abort(c) PROVE StoreInv' /\ Lineage /\ Selects
  BY <1>3, <1>6 DEF Abort, storeVars
<1>7. ASSUME NEW r \in Readers, Reading(r) PROVE StoreInv' /\ Lineage /\ Selects
  <2>1. now' = now /\ current' = current /\ (snapshots' = snapshots \/ snapshots' = Kept)
    BY <1>7 DEF Reading, Lookup, Answer, buildVars
  <2> QED
    BY <1>3, <2>1
<1>8. CASE UNCHANGED vars
  BY <1>3, <1>8 DEF vars, buildVars, storeVars
<1> QED
  BY <1>4, <1>5, <1>6, <1>7, <1>8 DEF Next

LEMMA DatedNext ==
    ASSUME BuildInv, StoreInv, StoreInv', Lineage, Dated, [Next]_vars PROVE Dated'
<1>1. DOMAIN job = Calls /\ JobInv /\ now \in Nat /\ now' \in Nat
  BY DEF BuildInv, SerialInv, Forms, StoreInv
<1>2. now <= now'
  <2>1. now' = now \/ now' = now + 1
    <3>1. ASSUME NEW c \in Calls, Build(c) PROVE now' = now
      <4>1. Step(c)
        BY <1>1, <3>1, BuildStep
      <4> QED
        BY <4>1 DEF Step
    <3>2. ASSUME NEW c \in Calls, Refreshing(c) PROVE now' = now
      BY <3>1, <3>2 DEF Refreshing, CallRefresh, StartBuild, EndRefresh, Cleanup
    <3>3. ASSUME NEW c \in Calls, Abort(c) PROVE now' = now
      BY <3>3 DEF Abort
    <3>4. ASSUME NEW r \in Readers, Reading(r) PROVE now' = now
      BY <3>4 DEF Reading, Lookup, Answer, buildVars
    <3>5. Tick => now' = now + 1
      BY DEF Tick
    <3>6. UNCHANGED vars => now' = now
      BY DEF vars, buildVars
    <3> QED
      BY <3>2, <3>3, <3>4, <3>5, <3>6 DEF Next
  <2> QED
    BY <1>1, <2>1
<1>3. ASSUME NEW c \in Calls, job'[c].pc = "built"
      PROVE  \/ job[c].pc = "built" /\ job'[c].date = job[c].date
             \/ job'[c].date = now /\ now' = now
  <2>1. CASE job' = job
    BY <1>3, <2>1
  <2>2. CASE job' # job
    <3>1. PICK d \in Calls : Refreshing(d)
      BY <2>2, JobChanged
    <3>2. "pc" \in DOMAIN job[d]
      BY DEF BuildInv, SerialInv, Forms
    <3>3. CASE Build(d)
      <4>1. Step(d)
        BY <1>1, <3>3, BuildStep
      <4> QED
        BY <1>1, <1>3, <4>1 DEF Step
    <3>4. CASE CallRefresh(d) \/ StartBuild(d) \/ Cleanup(d)
      <4>1. job'[d].pc \in {"waiting", "start", "done"} /\ \A b \in Calls : b # d => job'[b] = job[b]
        BY <1>1, <3>2, <3>4 DEF CallRefresh, StartBuild, Cleanup
      <4> QED
        BY <1>3, <4>1
    <3>5. CASE EndRefresh(d)
      <4>1. job'[d] = [Fresh EXCEPT !.pc = "settled"] /\ \A b \in Calls : b # d => job'[b] = job[b]
        BY <1>1, <3>5 DEF EndRefresh
      <4>2. job'[d].pc = "settled"
        BY <4>1 DEF Fresh
      <4> QED
        BY <1>3, <4>1, <4>2
    <3> QED
      BY <3>1, <3>3, <3>4, <3>5 DEF Refreshing
  <2> QED
    BY <2>1, <2>2
<1>4. ASSUME NEW c \in Calls, job'[c].pc = "built"
      PROVE  /\ job'[c].date \in 0..now'
             /\ \A t \in snapshots' : t.anchor = AnchorOf[c] => t.lastUpdated <= job'[c].date
  <2>1. CASE job'[c].date = now /\ now' = now
    <3>1. \A t \in snapshots' : t.lastUpdated \in 0..now'
      BY DEF StoreInv, SnapshotOK
    <3> QED
      BY <1>1, <2>1, <3>1
  <2>2. CASE job[c].pc = "built" /\ job'[c].date = job[c].date
    <3>1. job[c].date \in 0..now'
      BY <1>1, <1>2, <2>2 DEF Dated
    <3>2. ASSUME NEW t \in snapshots', t.anchor = AnchorOf[c] PROVE t.lastUpdated <= job[c].date
      <4>1. t.id \in Calls /\ t.anchor = AnchorOf[t.id]
        BY DEF StoreInv, SnapshotOK
      <4>2. ASSUME NEW s \in snapshots, Descends(t, s) PROVE t.lastUpdated <= job[c].date
        <5>1. s.anchor = AnchorOf[s.id]
          BY DEF StoreInv, SnapshotOK
        <5>2. s.anchor = AnchorOf[c] /\ s.lastUpdated = t.lastUpdated
          BY <3>2, <4>1, <4>2, <5>1 DEF Descends
        <5> QED
          BY <2>2, <5>2 DEF Dated
      <4>3. ASSUME job[t.id].pc = "built", t.lastUpdated = job[t.id].date
            PROVE  t.lastUpdated <= job[c].date
        <5>1. Building(t.id) /\ Building(c)
          BY <2>2, <4>3 DEF Building
        <5>2. t.id = c
          BY <3>2, <4>1, <5>1, OneBuilding DEF RefreshesSerial
        <5> QED
          BY <1>1, <2>2, <4>3, <5>2 DEF Dated
      <4> QED
        BY <4>2, <4>3 DEF Lineage
    <3> QED
      BY <2>2, <3>1, <3>2
  <2> QED
    BY <1>3, <1>4, <2>1, <2>2
<1> QED
  BY <1>4 DEF Dated

CoreInv == BuildInv /\ StoreInv /\ Dated

LEMMA StoreInOrder == Spec => []CoreInv
<1>1. ASSUME Init PROVE CoreInv
  <2>1. Dated
    BY <1>1 DEF Init, Dated, Fresh
  <2> QED
    BY <1>1, <2>1, BuildInit, StoreInit DEF CoreInv
<1>2. ASSUME CoreInv, [Next]_vars PROVE CoreInv'
  <2>1. BuildInv' /\ StoreInv' /\ Lineage
    BY <1>2, BuildNext, StoreNext DEF CoreInv
  <2> QED
    BY <1>2, <2>1, DatedNext DEF CoreInv
<1> QED
  BY <1>1, <1>2, PTL DEF Spec

(* Once published, the collection of an anchor is never gone and never     *)
(* goes back in time, whatever limit the store has and whatever else is    *)
(* published, expires or is retained, although a collection is dated when  *)
(* it is built and published later (refresh.ts, 354; store.ts, publish).   *)
THEOREM CurrentNeverLost == Spec => CurrentStays
<1> DEFINE A == \A a \in Anchors : current[a] # 0 =>
                    /\ SnapshotOf(a)' # {}
                    /\ \A s \in SnapshotOf(a), t \in SnapshotOf(a)' : s.lastUpdated <= t.lastUpdated
<1>1. ASSUME CoreInv, CoreInv', [Next]_vars PROVE A
  <2> SUFFICES ASSUME NEW a \in Anchors, current[a] # 0
               PROVE  /\ SnapshotOf(a)' # {}
                      /\ \A s \in SnapshotOf(a), t \in SnapshotOf(a)' : s.lastUpdated <= t.lastUpdated
    OBVIOUS
  <2>1. StoreInv /\ StoreInv' /\ Lineage /\ Selects /\ Dated
    BY <1>1, StoreNext DEF CoreInv
  <2>2. PICK q \in snapshots : q.id = current[a]
    BY <2>1 DEF StoreInv
  <2>3. q.id \in Calls /\ Over(q.id)
    BY <2>1 DEF StoreInv, SnapshotOK
  <2>4. current'[a] # 0
    BY <2>1, CallFacts DEF Selects
  <2>5. SnapshotOf(a)' # {}
    <3>1. PICK t \in snapshots' : t.id = current'[a]
      BY <2>1, <2>4 DEF StoreInv
    <3> QED
      BY <3>1 DEF SnapshotOf
  <2>6. ASSUME NEW s \in snapshots, s.id = current[a], NEW t \in snapshots', t.id = current'[a]
        PROVE  s.lastUpdated <= t.lastUpdated
    <3>1. s.lastUpdated \in 0..now /\ now \in Nat
      BY <2>1 DEF StoreInv, SnapshotOK
    <3>2. ASSUME t.id \in Calls, job[t.id].pc = "built", t.lastUpdated = job[t.id].date
          PROVE  s.lastUpdated <= t.lastUpdated
      <4>1. s.anchor = a
        BY <2>1, <2>6 DEF StoreInv
      <4>2. t.anchor = a
        BY <2>1, <2>4, <2>6 DEF StoreInv
      <4>3. t.anchor = AnchorOf[t.id]
        BY <2>1 DEF StoreInv, SnapshotOK
      <4> QED
        BY <2>1, <3>2, <4>1, <4>2, <4>3 DEF Dated
    <3>3. CASE \E s2 \in snapshots : Descends(t, s2)
      <4>1. PICK s2 \in snapshots : Descends(t, s2)
        BY <3>3
      <4>2. Over(t.id)
        BY <2>1, <4>1 DEF StoreInv, SnapshotOK, Descends
      <4>3. t.id = current[a]
        BY <2>1, <2>6, <4>2 DEF Selects
      <4>4. s2 = s
        BY <2>1, <2>6, <4>1, <4>3 DEF StoreInv, Descends
      <4> QED
        BY <3>1, <4>1, <4>4 DEF Descends
    <3> QED
      BY <2>1, <3>2, <3>3 DEF Lineage
  <2> QED
    BY <2>5, <2>6 DEF SnapshotOf
<1> QED
  BY <1>1, StoreInOrder, PTL DEF Spec, CurrentStays
----------------------------------------------------------------------------
(* Pages.  What matches a filter is a sequence that depends on the entries *)
(* of a snapshot alone, and stays the same while a cursor is valid.        *)
LEMMA MatchingSeq ==
    ASSUME NEW s, EntriesOK(s.entries), NEW f, NEW t PROVE Matching(s, f, t) \in Seq(Entities)
<1> DEFINE M == Matches(s, f, t)
<1>1. M \subseteq Entities /\ Entities \subseteq Nat /\ IsFiniteSet(Entities)
  BY CollectionAssumption DEF Matches, EntriesOK
<1> HIDE DEF M
<1>2. IsFiniteSet(M) /\ M \subseteq Nat
  BY <1>1, FS_Subset
<1>3. Cardinality(M) \in Nat /\ Sorted(M) \in [1..Cardinality(M) -> M]
  BY <1>2, SortedFacts
<1>4. Sorted(M) \in [1..Cardinality(M) -> Entities]
  BY <1>1, <1>3
<1>5. Sorted(M) \in Seq(Entities)
  BY <1>3, <1>4
<1> QED
  BY <1>5 DEF Matching, M

LEMMA MatchingSame ==
    ASSUME NEW s, NEW u, s.entries = u.entries, NEW f, NEW t PROVE Matching(s, f, t) = Matching(u, f, t)
BY DEF Matching, Matches

(* The mark that lasts longest decides how long an entry matches.          *)
Expiries(x, f) == {m.exp : m \in {n \in x.marks : n.type = f}}

LEMMA BestMark ==
    ASSUME NEW x \in Entry, NEW f, NEW at \in Nat, \E m \in x.marks : m.type = f /\ m.exp > at
    PROVE  /\ Max(Expiries(x, f)) \in Nat
           /\ \E m \in x.marks : m.type = f /\ m.exp = Max(Expiries(x, f))
<1> DEFINE T == Expiries(x, f)
<1>1. x.exp \in Nat /\ x.marks \subseteq Mark /\ \A m \in x.marks : m.exp <= x.exp /\ m.exp \in Nat
  BY DEF Entry, Mark
<1>2. T \subseteq Nat /\ T # {} /\ \A n \in T : n <= x.exp
  BY <1>1 DEF Expiries
<1> HIDE DEF T
<1>3. Max(T) \in T
  BY <1>1, <1>2, GreatestOf
<1> QED
  BY <1>2, <1>3 DEF Expiries, T

LEMMA ValidUntilSame ==
    ASSUME NEW s, EntriesOK(s.entries), NEW f, NEW at \in Nat, NEW v, v = ValidUntil(s, f, at)
    PROVE  /\ v \in Nat
           /\ \A t \in Nat : at <= t /\ t < v => Matching(s, f, t) = Matching(s, f, at)
<1> DEFINE ids == Matches(s, f, at)
           T(e) == Expiries(s.entries[e], f)
           E == {s.entries[e].exp : e \in ids}
           B == IF f = "all" THEN {} ELSE {Max(T(e)) : e \in ids}
           S == {at + CursorTtl} \cup E \cup B
<1>1. v = Least(S)
  BY DEF ValidUntil, Expiries
<1>2. ASSUME NEW e \in ids
      PROVE  /\ e \in DOMAIN s.entries /\ s.entries[e] \in Entry /\ s.entries[e].exp \in Nat
             /\ f # "all" => /\ Max(T(e)) \in Nat
                             /\ \E m \in s.entries[e].marks : m.type = f /\ m.exp = Max(T(e))
  <2>1. e \in DOMAIN s.entries /\ s.entries[e] \in Entry
    BY DEF Matches, EntriesOK
  <2>2. s.entries[e].exp \in Nat
    BY <2>1 DEF Entry
  <2>3. ASSUME f # "all" PROVE \E m \in s.entries[e].marks : m.type = f /\ m.exp > at
    BY <2>3 DEF Matches
  <2> HIDE DEF ids
  <2>4. ASSUME f # "all"
        PROVE  Max(T(e)) \in Nat /\ \E m \in s.entries[e].marks : m.type = f /\ m.exp = Max(T(e))
    BY <2>1, <2>3, <2>4, BestMark
  <2> QED
    BY <2>1, <2>2, <2>4
<1> HIDE DEF ids, T
<1>3. S \subseteq Nat /\ S # {}
  <2>1. at + CursorTtl \in Nat
    BY ServiceAssumption
  <2> QED
    BY <1>2, <2>1
<1>4. v \in Nat /\ \A k \in S : v <= k
  <2> HIDE DEF S
  <2> QED
    BY <1>1, <1>3, LeastFacts
<1>5. ASSUME NEW t \in Nat, at <= t, t < v PROVE Matches(s, f, t) = ids
  <2>1. ASSUME NEW e \in Matches(s, f, t) PROVE e \in ids
    <3>1. e \in DOMAIN s.entries /\ s.entries[e] \in Entry
      BY DEF Matches, EntriesOK
    <3>2. s.entries[e].exp \in Nat /\ \A m \in s.entries[e].marks : m.exp \in Nat
      BY <3>1 DEF Entry, Mark
    <3> QED
      BY <1>5, <2>1, <3>1, <3>2 DEF Matches, ids
  <2>2. ASSUME NEW e \in ids PROVE e \in Matches(s, f, t)
    <3>1. s.entries[e].exp \in S
      OBVIOUS
    <3>2. s.entries[e].exp > t /\ e \in DOMAIN s.entries
      BY <1>2, <1>4, <1>5, <3>1
    <3>3. ASSUME f # "all" PROVE \E m \in s.entries[e].marks : m.type = f /\ m.exp > t
      <4>1. Max(T(e)) \in S
        BY <3>3
      <4>2. Max(T(e)) > t
        BY <1>2, <1>4, <1>5, <3>3, <4>1
      <4> QED
        BY <1>2, <3>3, <4>2
    <3> QED
      BY <3>2, <3>3 DEF Matches
  <2> QED
    BY <2>1, <2>2
<1>6. \A t \in Nat : at <= t /\ t < v => Matching(s, f, t) = Matching(s, f, at)
  BY <1>5 DEF Matching, ids
<1> QED
  BY <1>4, <1>6

(* Showing the next entries of a list one has seen the beginning of.       *)
Begins(w, list) ==
    /\ w \in Seq(Entities) /\ list \in Seq(Entities) /\ Len(w) <= Len(list)
    /\ \A i \in 1..Len(w) : w[i] = list[i]

More(w, list, end) == w \o SubSeq(list, Len(w) + 1, end)

LEMMA ShowMore ==
    ASSUME NEW w, NEW list, Begins(w, list), NEW end \in Len(w)..Len(list)
    PROVE  Begins(More(w, list, end), list) /\ Len(More(w, list, end)) = end
<1> DEFINE p == SubSeq(list, Len(w) + 1, end)
           x == More(w, list, end)
<1>1. /\ w \in Seq(Entities) /\ list \in Seq(Entities) /\ Len(w) \in Nat /\ Len(list) \in Nat
      /\ \A i \in 1..Len(list) : list[i] \in Entities
  BY DEF Begins
<1>2. \A i \in (Len(w) + 1)..end : list[i] \in Entities
  BY <1>1
<1>3. /\ p \in Seq(Entities) /\ Len(p) = end - Len(w)
      /\ \A i \in 1..(end - Len(w)) : p[i] = list[Len(w) + i]
  <2>1. /\ p \in Seq(Entities) /\ Len(p) = IF Len(w) + 1 <= end THEN end - (Len(w) + 1) + 1 ELSE 0
        /\ \A i \in 1..(end - (Len(w) + 1) + 1) : p[i] = list[Len(w) + 1 + i - 1]
    BY <1>1, <1>2, SubSeqProperties
  <2> HIDE DEF p
  <2>2. Len(p) = end - Len(w)
    BY <1>1, <2>1
  <2>3. \A i \in 1..(end - Len(w)) : p[i] = list[Len(w) + i]
    BY <1>1, <2>1
  <2> QED
    BY <2>1, <2>2, <2>3
<1> HIDE DEF p, x
<1>4. x = w \o p
  BY DEF p, x, More
<1>5. /\ x \in Seq(Entities) /\ Len(x) = Len(w) + Len(p)
      /\ \A i \in 1..(Len(w) + Len(p)) : x[i] = IF i <= Len(w) THEN w[i] ELSE p[i - Len(w)]
  BY <1>1, <1>3, <1>4, ConcatProperties
<1>6. Len(x) = end
  BY <1>1, <1>3, <1>5
<1>7. ASSUME NEW i \in 1..Len(x) PROVE x[i] = list[i]
  <2>1. CASE i <= Len(w)
    BY <1>1, <1>3, <1>5, <1>6, <2>1 DEF Begins
  <2>2. CASE ~(i <= Len(w))
    <3>1. x[i] = p[i - Len(w)] /\ i - Len(w) \in 1..(end - Len(w))
      BY <1>1, <1>3, <1>5, <1>6, <2>2
    <3>2. p[i - Len(w)] = list[Len(w) + (i - Len(w))]
      BY <1>3, <3>1
    <3>3. Len(w) + (i - Len(w)) = i
      BY <1>1, <1>6
    <3> QED
      BY <3>1, <3>2, <3>3
  <2> QED
    BY <2>1, <2>2
<1> QED
  BY <1>1, <1>5, <1>6, <1>7 DEF Begins, x

LEMMA ShownAll == ASSUME NEW w, NEW list, Begins(w, list), Len(w) = Len(list) PROVE w = list
<1>1. w \in [1..Len(w) -> Entities] /\ list \in [1..Len(list) -> Entities]
  BY LenProperties DEF Begins
<1> QED
  BY <1>1 DEF Begins

LEMMA BeginsPrefix == ASSUME NEW w, NEW list, Begins(w, list) PROVE IsPrefix(w, list)
<1> DEFINE n == Len(w)
<1>1. n \in Nat /\ Len(list) \in Nat /\ n <= Len(list) /\ \A i \in 1..n : w[i] = list[i] /\ list[i] \in Entities
  BY DEF Begins
<1> HIDE DEF n
<1>2. \A i \in 1..n : w[i] \in Entities
  BY <1>1
<1> DEFINE u == SubSeq(w, 1, n)
           v == SubSeq(list, 1, n)
<1>3. u \in Seq(Entities) /\ v \in Seq(Entities) /\ Len(u) = n /\ Len(v) = n
      /\ \A i \in 1..n : u[i] = w[i] /\ v[i] = list[i]
  <2>1. /\ u \in Seq(Entities) /\ Len(u) = (IF 1 <= n THEN n - 1 + 1 ELSE 0)
        /\ \A i \in 1..(n - 1 + 1) : u[i] = w[1 + i - 1]
    BY <1>1, <1>2, SubSeqProperties
  <2>2. /\ v \in Seq(Entities) /\ Len(v) = (IF 1 <= n THEN n - 1 + 1 ELSE 0)
        /\ \A i \in 1..(n - 1 + 1) : v[i] = list[1 + i - 1]
    BY <1>1, SubSeqProperties
  <2> HIDE DEF u, v
  <2> QED
    BY <1>1, <2>1, <2>2
<1> HIDE DEF u, v
<1>4. u \in [1..n -> Entities] /\ v \in [1..n -> Entities]
  BY <1>3, LenProperties
<1>5. u = v
  BY <1>1, <1>3, <1>4
<1> QED
  BY <1>1, <1>5 DEF IsPrefix, n, u, v
----------------------------------------------------------------------------
(* Readers.  A cursor continues where its reader stopped, and until it     *)
(* expires its snapshot matches what the reader expects.                   *)
Fits(rd, S, k, from) ==
    /\ k.index = Len(rd.shown)
    /\ \A s \in S : s.id = k.snapshot =>
         \A t \in Nat : from <= t /\ t < k.expiresAt => Matching(s, rd.filter, t) = rd.expected
Reads(r, rd, S, t) ==
    /\ DOMAIN rd = DOMAIN NewReader /\ rd.pages \in Nat /\ rd.at \in 0..t
    /\ Begins(rd.shown, rd.expected)
    /\ rd.next = NoId /\ rd.pc # "finished" => rd.shown = <<>>
    /\ rd.next # NoId => \E p \in 1..rd.pages : rd.next = <<r, p>>
    /\ rd.pc = "finished" => rd.shown = rd.expected
    /\ rd.pc = "answer" => IF rd.from.id = NoId THEN rd.next = NoId /\ rd.from.index = 0
                           ELSE rd.next # NoId /\ Fits(rd, S, rd.from, rd.at) /\ rd.at < rd.from.expiresAt
CursorOK(k, j) ==
    k.snapshot \in Calls /\ j[k.snapshot].pc \in {"settled", "done"} /\ k.expiresAt \in Nat
ReaderInv ==
    /\ DOMAIN reader = Readers
    /\ \A r \in Readers : Reads(r, reader[r], snapshots, now)
    /\ \A r \in Readers : reader[r].pc = "answer" /\ reader[r].from.id # NoId => CursorOK(reader[r].from, job)
    /\ \A k \in cursors : CursorOK(k, job) /\ \E q \in Readers : \E p \in 1..reader[q].pages : k.id = <<q, p>>
    /\ \A k \in cursors, r \in Readers : k.id = reader[r].next => Fits(reader[r], snapshots, k, now)

LEMMA ReaderIds ==
    /\ \A r \in Readers : r \in Nat /\ r # 0
    /\ \A q, p : q \in Readers => <<q, p>> # NoId
<1>1. Readers \subseteq Nat \ {0}
  BY ServiceAssumption
<1> QED
  BY <1>1 DEF NoId

LEMMA ReaderInit == ASSUME Init PROVE ReaderInv
<1>1. now = 0 /\ snapshots = {} /\ cursors = {}
      /\ reader \in [Readers -> {[NewReader EXCEPT !.filter = f] : f \in Filters}]
  BY DEF Init
<1>2. ASSUME NEW r \in Readers
      PROVE  /\ DOMAIN reader[r] = DOMAIN NewReader /\ reader[r].pc = "ready" /\ reader[r].at = 0
             /\ reader[r].next = NoId /\ reader[r].pages = 0 /\ reader[r].shown = <<>>
             /\ reader[r].expected = <<>>
  <2>1. PICK f \in Filters : reader[r] = [NewReader EXCEPT !.filter = f]
    BY <1>1
  <2> QED
    BY <2>1 DEF NewReader
<1>3. Begins(<<>>, <<>>)
  BY DEF Begins
<1>4. ASSUME NEW r \in Readers PROVE Reads(r, reader[r], snapshots, now)
  BY <1>1, <1>2, <1>3 DEF Reads
<1> QED
  BY <1>1, <1>2, <1>4 DEF ReaderInv

(* Fits survives what other actors do to the snapshots and to the clock.   *)
LEMMA FitsStays ==
    ASSUME Lineage, NEW rd, NEW k, NEW a \in Nat, NEW b \in Nat, a <= b, CursorOK(k, job), Fits(rd, snapshots, k, a)
    PROVE  Fits(rd, snapshots', k, b)
<1>1. ASSUME NEW s \in snapshots', s.id = k.snapshot, NEW t \in Nat, b <= t, t < k.expiresAt
      PROVE  Matching(s, rd.filter, t) = rd.expected
  <2>1. Over(s.id)
    BY <1>1 DEF CursorOK, Over
  <2>2. PICK u \in snapshots : Descends(s, u)
    BY <1>1, <2>1 DEF Lineage, Over
  <2>3. u.id = k.snapshot /\ s.entries = u.entries
    BY <1>1, <2>2 DEF Descends
  <2>4. a <= t
    BY <1>1
  <2>5. Matching(u, rd.filter, t) = rd.expected
    BY <1>1, <2>3, <2>4 DEF Fits
  <2>6. Matching(s, rd.filter, t) = Matching(u, rd.filter, t)
    BY <2>3, MatchingSame
  <2> QED
    BY <2>5, <2>6
<1> QED
  BY <1>1 DEF Fits

LEMMA ReadsStays ==
    ASSUME Lineage, NEW r, NEW rd, now \in Nat, now' \in Nat, now <= now', Reads(r, rd, snapshots, now),
           rd.pc = "answer" /\ rd.from.id # NoId => CursorOK(rd.from, job)
    PROVE  Reads(r, rd, snapshots', now')
<1>1. rd.at \in 0..now /\ rd.at \in Nat
  BY DEF Reads
<1>2. rd.at \in 0..now'
  BY <1>1
<1>3. ASSUME rd.pc = "answer", rd.from.id # NoId PROVE Fits(rd, snapshots', rd.from, rd.at)
  <2>1. Fits(rd, snapshots, rd.from, rd.at) /\ CursorOK(rd.from, job)
    BY <1>3 DEF Reads
  <2> QED
    BY <1>1, <2>1, FitsStays
<1> QED
  BY <1>2, <1>3 DEF Reads

(* All readers but perhaps one stand still, and no cursor is new but       *)
(* perhaps one of that reader's.                                           *)
Others(r) ==
    /\ DOMAIN reader' = Readers /\ \A q \in Readers : q # r => reader'[q] = reader[q]
    /\ r \in Readers => reader'[r].pages \in Nat /\ reader[r].pages <= reader'[r].pages
    /\ \A k \in cursors' : \/ k \in cursors
                           \/ /\ r \in Readers /\ k.id = <<r, reader'[r].pages>> /\ CursorOK(k, job)
                              /\ reader'[r].pages > 0

LEMMA OthersStay ==
    ASSUME ReaderInv, Lineage, \A c \in Calls : Over(c) => Over(c)', now \in Nat, now' \in Nat, now <= now',
           NEW r, Others(r)
    PROVE  /\ \A q \in Readers : q # r => Reads(q, reader'[q], snapshots', now')
           /\ \A q \in Readers : q # r /\ reader'[q].pc = "answer" /\ reader'[q].from.id # NoId
                 => CursorOK(reader'[q].from, job')
           /\ \A k \in cursors' : CursorOK(k, job')
           /\ \A k \in cursors' : \E q \in Readers : \E p \in 1..reader'[q].pages : k.id = <<q, p>>
           /\ \A k \in cursors', q \in Readers : q # r /\ k.id = reader'[q].next
                 => Fits(reader'[q], snapshots', k, now')
<1>1. \A k : CursorOK(k, job) => CursorOK(k, job')
  BY DEF CursorOK, Over
<1>2. ASSUME NEW q \in Readers, q # r PROVE Reads(q, reader'[q], snapshots', now')
  <2>1. reader'[q] = reader[q]
    BY <1>2 DEF Others
  <2>2. Reads(q, reader[q], snapshots, now)
    BY DEF ReaderInv
  <2>3. reader[q].pc = "answer" /\ reader[q].from.id # NoId => CursorOK(reader[q].from, job)
    BY DEF ReaderInv
  <2>4. Reads(q, reader[q], snapshots', now')
    BY <2>2, <2>3, ReadsStays
  <2> QED
    BY <2>1, <2>4
<1>3. ASSUME NEW q \in Readers, q # r, reader'[q].pc = "answer", reader'[q].from.id # NoId
      PROVE  CursorOK(reader'[q].from, job')
  <2>1. reader'[q] = reader[q]
    BY <1>3 DEF Others
  <2>2. CursorOK(reader[q].from, job)
    BY <1>3, <2>1 DEF ReaderInv
  <2> QED
    BY <1>1, <2>1, <2>2
<1>4. \A k \in cursors' : CursorOK(k, job')
  BY <1>1 DEF Others, ReaderInv
<1>5. ASSUME NEW k \in cursors' PROVE \E q \in Readers : \E p \in 1..reader'[q].pages : k.id = <<q, p>>
  <2>1. CASE k \in cursors
    <3>1. PICK q \in Readers : \E p \in 1..reader[q].pages : k.id = <<q, p>>
      BY <2>1 DEF ReaderInv
    <3>2. PICK p \in 1..reader[q].pages : k.id = <<q, p>>
      BY <3>1
    <3>3. reader[q].pages \in Nat
      BY DEF ReaderInv, Reads
    <3>4. p \in 1..reader'[q].pages
      BY <3>2, <3>3 DEF Others
    <3> QED
      BY <3>2, <3>4
  <2>2. CASE k \notin cursors
    <3>1. r \in Readers /\ k.id = <<r, reader'[r].pages>> /\ reader'[r].pages \in Nat /\ reader'[r].pages > 0
      BY <2>2 DEF Others
    <3>2. reader'[r].pages \in 1..reader'[r].pages
      BY <3>1
    <3> QED
      BY <3>1, <3>2
  <2> QED
    BY <2>1, <2>2
<1>6. ASSUME NEW k \in cursors', NEW q \in Readers, q # r, k.id = reader'[q].next
      PROVE  Fits(reader'[q], snapshots', k, now')
  <2>1. reader'[q] = reader[q]
    BY <1>6 DEF Others
  <2>2. k \in cursors
    <3>1. ASSUME k.id = <<r, reader'[r].pages>>, r \in Readers PROVE FALSE
      <4>1. reader[q].next # NoId
        BY <1>6, <2>1, <3>1, ReaderIds
      <4>2. PICK p : reader[q].next = <<q, p>>
        BY <4>1 DEF ReaderInv, Reads
      <4> QED
        BY <1>6, <2>1, <3>1, <4>2
    <3> QED
      BY <3>1 DEF Others
  <2>3. Fits(reader[q], snapshots, k, now) /\ CursorOK(k, job)
    BY <1>6, <2>1, <2>2 DEF ReaderInv
  <2>4. Fits(reader[q], snapshots', k, now')
    BY <2>3, FitsStays
  <2> QED
    BY <2>1, <2>4
<1> QED
  BY <1>2, <1>3, <1>4, <1>5, <1>6

LEMMA ReadersStay ==
    ASSUME ReaderInv, Lineage, \A c \in Calls : Over(c) => Over(c)', now \in Nat, now' \in Nat, now <= now',
           reader' = reader, cursors' \subseteq cursors
    PROVE  ReaderInv'
<1>1. 0 \notin Readers
  BY ReaderIds
<1>2. Others(0)
  BY <1>1 DEF Others, ReaderInv
<1>3. /\ \A q \in Readers : Reads(q, reader'[q], snapshots', now')
      /\ \A q \in Readers : reader'[q].pc = "answer" /\ reader'[q].from.id # NoId => CursorOK(reader'[q].from, job')
      /\ \A k \in cursors' : CursorOK(k, job')
      /\ \A k \in cursors' : \E q \in Readers : \E p \in 1..reader'[q].pages : k.id = <<q, p>>
      /\ \A k \in cursors', q \in Readers : k.id = reader'[q].next => Fits(reader'[q], snapshots', k, now')
  BY <1>1, <1>2, OthersStay
<1> QED
  BY <1>2, <1>3 DEF ReaderInv, Others

LEMMA ReaderMoves ==
    ASSUME ReaderInv, Lineage, \A c \in Calls : Over(c) => Over(c)', now \in Nat, now' = now,
           NEW r \in Readers, Others(r), Reads(r, reader'[r], snapshots', now),
           reader'[r].pc = "answer" /\ reader'[r].from.id # NoId => CursorOK(reader'[r].from, job'),
           \A k \in cursors' : k.id = reader'[r].next => Fits(reader'[r], snapshots', k, now)
    PROVE  ReaderInv'
<1>1. now' \in Nat /\ now <= now'
  OBVIOUS
<1>2. /\ \A q \in Readers : q # r => Reads(q, reader'[q], snapshots', now')
      /\ \A q \in Readers : q # r /\ reader'[q].pc = "answer" /\ reader'[q].from.id # NoId
            => CursorOK(reader'[q].from, job')
      /\ \A k \in cursors' : CursorOK(k, job')
      /\ \A k \in cursors' : \E q \in Readers : \E p \in 1..reader'[q].pages : k.id = <<q, p>>
      /\ \A k \in cursors', q \in Readers : q # r /\ k.id = reader'[q].next
            => Fits(reader'[q], snapshots', k, now')
  BY <1>1, OthersStay
<1>3. \A q \in Readers : Reads(q, reader'[q], snapshots', now')
  BY <1>2
<1>4. \A q \in Readers : reader'[q].pc = "answer" /\ reader'[q].from.id # NoId => CursorOK(reader'[q].from, job')
  BY <1>2
<1>5. \A k \in cursors', q \in Readers : k.id = reader'[q].next => Fits(reader'[q], snapshots', k, now')
  BY <1>2
<1> QED
  BY <1>2, <1>3, <1>4, <1>5 DEF ReaderInv, Others

LEMMA FitsSame ==
    ASSUME NEW x, NEW rd, x.shown = rd.shown, x.expected = rd.expected, x.filter = rd.filter,
           NEW S, NEW k, NEW t, Fits(rd, S, k, t)
    PROVE  Fits(x, S, k, t)
BY DEF Fits

LEMMA LookupReads ==
    ASSUME CoreInv, ReaderInv, Lineage, \A c \in Calls : Over(c) => Over(c)', NEW r \in Readers, Lookup(r)
    PROVE  ReaderInv'
<1> DEFINE rd == reader[r]
           found == {k \in LiveCursors : k.id = rd.next}
           k == IF found = {} THEN NoCursor ELSE CHOOSE y \in found : TRUE
           going == [rd EXCEPT !.pc = "answer", !.at = now, !.from = k]
           lost == [rd EXCEPT !.pc = "lost"]
           x == reader'[r]
<1>1. DOMAIN reader = Readers /\ Reads(r, rd, snapshots, now) /\ DOMAIN rd = DOMAIN NewReader /\ now \in Nat
  BY DEF ReaderInv, Reads, CoreInv, StoreInv
<1>2. /\ rd.pc = "ready" /\ now' = now /\ snapshots' = snapshots /\ job' = job
      /\ cursors' \subseteq cursors
      /\ \/ reader' = [reader EXCEPT ![r] = going] /\ (rd.next = NoId \/ found # {})
         \/ reader' = [reader EXCEPT ![r] = lost]
  BY DEF Lookup, LiveCursors, buildVars
<1>3. /\ DOMAIN reader' = Readers /\ \A q \in Readers : q # r => reader'[q] = reader[q]
      /\ (x = going /\ (rd.next = NoId \/ found # {})) \/ x = lost
  BY <1>1, <1>2
<1>4. rd.next = NoId => found = {}
  <2>1. \A y \in cursors : y.id # NoId
    BY ReaderIds DEF ReaderInv
  <2> QED
    BY <2>1 DEF LiveCursors
<1>5. found # {} => /\ k \in cursors /\ k.id = rd.next /\ k.expiresAt > now
  BY DEF LiveCursors
<1>6. found = {} => k = NoCursor /\ k.id = NoId /\ k.index = 0
  BY DEF NoCursor
<1> HIDE DEF found, k
<1>7. /\ DOMAIN x = DOMAIN NewReader /\ x.shown = rd.shown /\ x.expected = rd.expected
      /\ x.filter = rd.filter /\ x.next = rd.next /\ x.pages = rd.pages
      /\ \/ x.pc = "answer" /\ x.at = now /\ x.from = k /\ (rd.next = NoId \/ found # {})
         \/ x.pc = "lost" /\ x.at = rd.at
  <2> HIDE DEF rd
  <2>1. CASE x = going /\ (rd.next = NoId \/ found # {})
    <3> HIDE DEF x
    <3> QED
      BY <1>1, <2>1 DEF NewReader
  <2>2. CASE x = lost
    <3> HIDE DEF x
    <3> QED
      BY <1>1, <2>2 DEF NewReader
  <2> QED
    BY <1>3, <2>1, <2>2
<1> HIDE DEF x
<1>8. \A y \in cursors : y.id = rd.next => Fits(rd, snapshots, y, now) /\ CursorOK(y, job)
  BY DEF ReaderInv
<1>9. \A y \in cursors : y.id = rd.next => Fits(x, snapshots, y, now)
  BY <1>7, <1>8, FitsSame
<1> HIDE DEF rd
<1>10. x.pages \in Nat /\ x.at \in 0..now
  BY <1>1, <1>7 DEF Reads
<1>11. ASSUME x.pc = "answer", x.from.id # NoId
       PROVE  x.next # NoId /\ Fits(x, snapshots, x.from, x.at) /\ x.at < x.from.expiresAt /\ CursorOK(x.from, job)
  <2>1. found # {} /\ x.from = k /\ x.at = now
    BY <1>6, <1>7, <1>11
  <2>2. k \in cursors /\ k.id = rd.next /\ k.expiresAt > now
    BY <1>5, <2>1
  <2>3. CursorOK(k, job) /\ Fits(x, snapshots, k, now)
    BY <1>8, <1>9, <2>2
  <2>4. now < k.expiresAt
    <3>1. k.expiresAt \in Nat
      BY <2>3 DEF CursorOK
    <3> QED
      BY <1>1, <2>2, <3>1
  <2> QED
    BY <1>4, <1>7, <2>1, <2>2, <2>3, <2>4
<1>12. ASSUME x.pc = "answer", x.from.id = NoId PROVE x.next = NoId /\ x.from.index = 0
  <2>1. CASE found = {}
    BY <1>6, <1>7, <1>12, <2>1
  <2>2. CASE found # {}
    BY <1>4, <1>5, <1>7, <1>12, <2>2
  <2> QED
    BY <2>1, <2>2
<1>13. Reads(r, x, snapshots, now)
  <2>1. /\ Begins(x.shown, x.expected) /\ (x.next = NoId => x.shown = <<>>)
        /\ x.next # NoId => \E p \in 1..x.pages : x.next = <<r, p>>
        /\ x.pc # "finished"
    BY <1>1, <1>2, <1>7 DEF Reads, rd
  <2> QED
    BY <1>7, <1>10, <1>11, <1>12, <2>1 DEF Reads
<1>14. Others(r)
  <2>1. rd.pages \in Nat
    BY <1>1 DEF Reads
  <2> QED
    BY <1>2, <1>3, <1>7, <1>10, <2>1 DEF Others, x, rd
<1>15. \A y \in cursors' : y.id = x.next => Fits(x, snapshots', y, now)
  BY <1>2, <1>7, <1>9
<1> QED
  BY <1>1, <1>2, <1>11, <1>13, <1>14, <1>15, ReaderMoves DEF x

(* What a page is cut from: the reader has seen the beginning of it, and   *)
(* expects the rest.                                                       *)
LEMMA PageSource ==
    ASSUME CoreInv, ReaderInv, NEW r \in Readers, reader[r].pc = "answer",
           NEW s \in snapshots,
           reader[r].from.id # NoId => s.id = reader[r].from.snapshot,
           NEW list, list = Matching(s, reader[r].filter, reader[r].at)
    PROVE  /\ reader[r].from.index = Len(reader[r].shown) /\ Begins(reader[r].shown, list)
           /\ reader[r].from.id # NoId => list = reader[r].expected
<1> DEFINE rd == reader[r]
           k == rd.from
<1>1. Reads(r, rd, snapshots, now) /\ rd.at \in Nat
  <2>1. Reads(r, rd, snapshots, now)
    BY DEF ReaderInv
  <2> QED
    BY <2>1 DEF Reads
<1>2. list \in Seq(Entities)
  <2>1. EntriesOK(s.entries)
    BY DEF CoreInv, StoreInv, SnapshotOK
  <2> QED
    BY <2>1, MatchingSeq
<1> HIDE DEF rd
<1>3. CASE k.id = NoId
  <2>1. rd.next = NoId /\ k.index = 0
    BY <1>1, <1>3 DEF Reads, rd
  <2>2. rd.shown = <<>>
    BY <1>1, <2>1 DEF Reads, rd
  <2>3. Begins(<<>>, list) /\ Len(<<>>) = 0
    BY <1>2 DEF Begins
  <2> QED
    BY <1>3, <2>1, <2>2, <2>3 DEF rd
<1>4. CASE k.id # NoId
  <2>1. Fits(rd, snapshots, k, rd.at) /\ rd.at < k.expiresAt /\ Begins(rd.shown, rd.expected)
    BY <1>1, <1>4 DEF Reads, rd
  <2>2. s.id = k.snapshot
    BY <1>4 DEF rd
  <2>3. rd.at <= rd.at
    BY <1>1
  <2>4. Matching(s, rd.filter, rd.at) = rd.expected /\ k.index = Len(rd.shown)
    BY <1>1, <2>1, <2>2, <2>3 DEF Fits
  <2> QED
    BY <1>4, <2>1, <2>4 DEF rd
<1> QED
  BY <1>3, <1>4

(* The reader keeps what it was shown: it is told that the page is gone,   *)
(* or that it is too long.                                                 *)
LEMMA NothingShown ==
    ASSUME CoreInv, ReaderInv, Lineage, \A c \in Calls : Over(c) => Over(c)', NEW r \in Readers, now' = now,
           reader[r].pc = "answer", NEW x, reader' = [reader EXCEPT ![r] = x], cursors' \subseteq cursors,
           DOMAIN x = DOMAIN NewReader, x.shown = reader[r].shown, x.expected = reader[r].expected,
           x.filter = reader[r].filter, x.next = reader[r].next, x.pc \in {"lost", "ready"},
           x.at \in 0..now, x.pages \in Nat, reader[r].pages <= x.pages
    PROVE  ReaderInv'
<1> DEFINE rd == reader[r]
<1>1. DOMAIN reader = Readers /\ Reads(r, rd, snapshots, now) /\ now \in Nat /\ reader'[r] = x
  BY DEF ReaderInv, CoreInv, StoreInv
<1>2. ASSUME NEW y \in cursors', y.id = x.next PROVE Fits(x, snapshots', y, now)
  <2>1. Fits(rd, snapshots, y, now) /\ CursorOK(y, job)
    BY <1>2 DEF ReaderInv
  <2>2. now <= now
    BY <1>1
  <2>3. Fits(rd, snapshots', y, now)
    BY <1>1, <2>1, <2>2, FitsStays
  <2> QED
    BY <2>3, FitsSame
<1>3. Others(r)
  BY <1>1 DEF Others
<1>4. Reads(r, x, snapshots', now)
  <2>1. /\ Begins(x.shown, x.expected) /\ (x.next = NoId => x.shown = <<>>)
    BY <1>1 DEF Reads
  <2>2. x.next # NoId => \E p \in 1..x.pages : x.next = <<r, p>>
    <3>1. ASSUME x.next # NoId PROVE \E p \in 1..x.pages : x.next = <<r, p>>
      <4>1. PICK p \in 1..rd.pages : x.next = <<r, p>>
        BY <1>1, <3>1 DEF Reads
      <4>2. rd.pages \in Nat
        BY <1>1 DEF Reads
      <4>3. p \in 1..x.pages
        BY <4>1, <4>2
      <4> QED
        BY <4>1, <4>3
    <3> QED
      BY <3>1
  <2> QED
    BY <2>1, <2>2 DEF Reads
<1> QED
  BY <1>1, <1>2, <1>3, <1>4, ReaderMoves

(* The last page.                                                          *)
LEMMA LastPage ==
    ASSUME CoreInv, ReaderInv, Lineage, \A c \in Calls : Over(c) => Over(c)', NEW r \in Readers, now' = now,
           reader[r].pc = "answer", NEW x, reader' = [reader EXCEPT ![r] = x], cursors' \subseteq cursors,
           DOMAIN x = DOMAIN NewReader, x.next = NoId, x.pc = "finished", x.at = 0,
           x.pages \in Nat, reader[r].pages <= x.pages,
           Begins(x.shown, x.expected), x.shown = x.expected
    PROVE  ReaderInv'
<1>1. DOMAIN reader = Readers /\ now \in Nat /\ reader'[r] = x
  BY DEF ReaderInv, CoreInv, StoreInv
<1>2. \A y \in cursors' : y.id # NoId
  BY ReaderIds DEF ReaderInv
<1>3. Others(r)
  BY <1>1 DEF Others
<1>4. 0 \in 0..now
  BY <1>1
<1>5. Reads(r, x, snapshots', now)
  BY <1>4 DEF Reads
<1> QED
  BY <1>1, <1>2, <1>3, <1>5, ReaderMoves

(* A page with more to come: the new cursor fits.                          *)
LEMMA MorePages ==
    ASSUME CoreInv, ReaderInv, Lineage, \A c \in Calls : Over(c) => Over(c)', NEW r \in Readers, now' = now,
           reader[r].pc = "answer", NEW x, reader' = [reader EXCEPT ![r] = x],
           NEW s \in snapshots, NEW y, NEW v, v = ValidUntil(s, reader[r].filter, reader[r].at),
           \A z \in cursors' : z \in cursors \/ z = y,
           DOMAIN x = DOMAIN NewReader, x.pc = "ready", x.at = 0, x.pages = reader[r].pages + 1,
           x.filter = reader[r].filter, x.next = <<r, x.pages>>,
           x.expected = Matching(s, reader[r].filter, reader[r].at), Begins(x.shown, x.expected),
           y.id = x.next, y.snapshot = s.id, y.index = Len(x.shown), y.expiresAt \in Nat, y.expiresAt <= v
    PROVE  ReaderInv'
<1> DEFINE rd == reader[r]
<1>1. /\ DOMAIN reader = Readers /\ now \in Nat /\ reader'[r] = x
      /\ rd.pages \in Nat /\ rd.at \in Nat /\ rd.at <= now
  <2>1. Reads(r, rd, snapshots, now)
    BY DEF ReaderInv
  <2>2. rd.pages \in Nat /\ rd.at \in 0..now
    BY <2>1 DEF Reads
  <2>3. now \in Nat
    BY DEF CoreInv, StoreInv
  <2> QED
    BY <2>2, <2>3 DEF ReaderInv
<1>2. x.pages \in Nat /\ x.pages > 0 /\ rd.pages <= x.pages /\ ~(x.pages \in 1..rd.pages)
  BY <1>1
<1>3. SnapshotOK(s) /\ EntriesOK(s.entries) /\ s.id \in Calls /\ Over(s.id)
  BY DEF CoreInv, StoreInv, SnapshotOK
<1>4. CursorOK(y, job)
  BY <1>3 DEF CursorOK, Over
<1>5. Others(r)
  BY <1>1, <1>2, <1>4 DEF Others
<1>6. x.next # NoId
  BY ReaderIds
<1>7. Reads(r, x, snapshots', now)
  <2>1. x.pages \in 1..x.pages /\ 0 \in 0..now
    BY <1>1, <1>2
  <2> QED
    BY <1>2, <1>6, <2>1 DEF Reads
<1>8. ASSUME NEW z \in cursors' , z.id = x.next PROVE z = y
  <2>1. CASE z \in cursors
    <3>1. PICK q \in Readers : \E p \in 1..reader[q].pages : z.id = <<q, p>>
      BY <2>1 DEF ReaderInv
    <3>2. PICK p \in 1..reader[q].pages : z.id = <<q, p>>
      BY <3>1
    <3>3. q = r /\ p = x.pages
      BY <1>8, <3>2
    <3> QED
      BY <1>2, <3>2, <3>3
  <2> QED
    BY <2>1
<1>9. v \in Nat /\ \A t \in Nat : rd.at <= t /\ t < v => Matching(s, rd.filter, t) = Matching(s, rd.filter, rd.at)
  BY <1>1, <1>3, ValidUntilSame
<1>10. Fits(x, snapshots', y, now)
  <2>1. ASSUME NEW u \in snapshots', u.id = y.snapshot, NEW t \in Nat, now <= t, t < y.expiresAt
        PROVE  Matching(u, x.filter, t) = x.expected
    <3>1. PICK w \in snapshots : Descends(u, w)
      BY <1>3, <2>1 DEF Lineage, Over
    <3>2. w = s
      BY <2>1, <3>1 DEF CoreInv, StoreInv, Descends
    <3>3. Matching(u, x.filter, t) = Matching(s, x.filter, t)
      BY <3>1, <3>2, MatchingSame DEF Descends
    <3>4. rd.at <= t /\ t < v
      BY <1>1, <1>9, <2>1
    <3>5. Matching(s, rd.filter, t) = Matching(s, rd.filter, rd.at)
      BY <1>9, <3>4
    <3> QED
      BY <3>3, <3>5
  <2> QED
    BY <2>1 DEF Fits
<1> QED
  BY <1>1, <1>5, <1>7, <1>8, <1>10, ReaderMoves

LEMMA AnswerReads ==
    ASSUME CoreInv, ReaderInv, Lineage, \A c \in Calls : Over(c) => Over(c)', NEW r \in Readers,
           NEW n \in 0..PageSize, Answer(r, n)
    PROVE  ReaderInv'
<1> DEFINE rd == reader[r]
           k == rd.from
           a == AnchorAsked[r]
           id == IF k.id = NoId THEN current[a] ELSE k.snapshot
           found == {s \in Kept : s.id = id}
           snapshot == CHOOSE s \in found : TRUE
           list == Matching(snapshot, rd.filter, rd.at)
           end == k.index + n
           fresh == <<r, rd.pages + 1>>
           old == IF Cardinality(LiveCursors) < MaxCursors THEN LiveCursors
                  ELSE LiveCursors \ {Oldest(LiveCursors)}
           v == ValidUntil(snapshot, rd.filter, rd.at)
           answered == [rd EXCEPT !.pc = "ready", !.from = NoCursor, !.at = 0, !.pages = @ + 1]
           shown == [answered EXCEPT !.shown = @ \o SubSeq(list, k.index + 1, end),
                                     !.expected = IF k.id = NoId THEN list ELSE @]
           more == [shown EXCEPT !.next = fresh]
           last == [shown EXCEPT !.pc = "finished", !.next = NoId]
           lost == [rd EXCEPT !.pc = "lost"]
           y == [id |-> fresh, place |-> NextPlace(old), snapshot |-> id, anchor |-> a, index |-> end,
                 context |-> rd.filter, expiresAt |-> IF k.id = NoId THEN v ELSE Least({v, k.expiresAt})]
<1>1. /\ rd.pc = "answer" /\ now' = now /\ snapshots' = Kept
      /\ \/ reader' = [reader EXCEPT ![r].pc = "lost"] /\ cursors' = LiveCursors
         \/ reader' = [reader EXCEPT ![r] = answered] /\ cursors' = LiveCursors
         \/ /\ found # {} /\ end < Len(list)
            /\ reader' = [reader EXCEPT ![r] = more] /\ cursors' = old \cup {y}
         \/ /\ found # {} /\ end >= Len(list) /\ (n = 0 \/ end = Len(list))
            /\ reader' = [reader EXCEPT ![r] = last] /\ cursors' = LiveCursors
  BY DEF Answer, buildVars
<1>2. /\ DOMAIN reader = Readers /\ DOMAIN rd = DOMAIN NewReader /\ rd.pages \in Nat
      /\ rd.at \in 0..now
      /\ now \in Nat /\ Reads(r, rd, snapshots, now)
  BY DEF ReaderInv, Reads, CoreInv, StoreInv
<1>3. LiveCursors \subseteq cursors /\ old \subseteq cursors /\ n \in Nat
  BY ServiceAssumption DEF LiveCursors
<1>4. found # {} => snapshot \in found
  <2> HIDE DEF found
  <2> QED
    OBVIOUS
<1>5. found # {} => snapshot \in snapshots /\ snapshot.id = id
  <2> HIDE DEF snapshot
  <2> QED
    BY <1>4 DEF Kept
<1>6. CASE reader' = [reader EXCEPT ![r].pc = "lost"] /\ cursors' = LiveCursors
  <2>1. reader' = [reader EXCEPT ![r] = lost]
    BY <1>6
  <2>2. /\ DOMAIN lost = DOMAIN NewReader /\ lost.shown = rd.shown /\ lost.expected = rd.expected
        /\ lost.filter = rd.filter /\ lost.next = rd.next /\ lost.pc = "lost"
        /\ lost.at = rd.at /\ lost.pages = rd.pages
    <3> HIDE DEF rd
    <3> QED
      BY <1>2 DEF NewReader
  <2> HIDE DEF lost
  <2>3. rd.pages <= lost.pages
    BY <1>2, <2>2
  <2>4. rd.pc = "answer" /\ now' = now /\ cursors' \subseteq cursors
    BY <1>1, <1>3, <1>6
  <2>5. lost.at \in 0..now /\ lost.pages \in Nat /\ lost.pc \in {"lost", "ready"}
    BY <1>2, <2>2
  <2> QED
    BY <2>1, <2>2, <2>3, <2>4, <2>5, NothingShown
<1>7. /\ DOMAIN answered = DOMAIN NewReader /\ answered.shown = rd.shown
      /\ answered.expected = rd.expected
      /\ answered.filter = rd.filter /\ answered.next = rd.next /\ answered.pc = "ready"
      /\ answered.at = 0 /\ answered.pages = rd.pages + 1
  <2> HIDE DEF rd
  <2> QED
    BY <1>2 DEF NewReader
<1> HIDE DEF answered
<1>8. rd.pages + 1 \in Nat /\ rd.pages <= rd.pages + 1 /\ 0 \in 0..now
  BY <1>2
<1>9. CASE reader' = [reader EXCEPT ![r] = answered] /\ cursors' = LiveCursors
  <2>1. rd.pc = "answer" /\ now' = now /\ cursors' \subseteq cursors
    BY <1>1, <1>3, <1>9
  <2>2. /\ answered.at \in 0..now /\ answered.pages \in Nat /\ rd.pages <= answered.pages
        /\ answered.pc \in {"lost", "ready"}
    BY <1>7, <1>8
  <2> QED
    BY <1>7, <1>9, <2>1, <2>2, NothingShown
<1>10. /\ DOMAIN shown = DOMAIN NewReader
       /\ shown.shown = rd.shown \o SubSeq(list, k.index + 1, end)
       /\ shown.expected = IF k.id = NoId THEN list ELSE rd.expected
       /\ shown.filter = rd.filter /\ shown.pc = "ready"
       /\ shown.at = 0 /\ shown.pages = rd.pages + 1
  <2> HIDE DEF rd, list, k, end
  <2> QED
    BY <1>7 DEF NewReader
<1> HIDE DEF shown
<1>11. ASSUME found # {}
       PROVE  /\ k.index = Len(rd.shown) /\ Begins(rd.shown, list) /\ shown.expected = list
              /\ Len(rd.shown) \in Nat /\ list \in Seq(Entities) /\ Len(list) \in Nat
              /\ Len(rd.shown) <= Len(list)
  <2>1. snapshot \in snapshots /\ (k.id # NoId => snapshot.id = k.snapshot)
    BY <1>5, <1>11
  <2> HIDE DEF snapshot
  <2>2. k.index = Len(rd.shown) /\ Begins(rd.shown, list) /\ (k.id # NoId => list = rd.expected)
    BY <1>1, <2>1, PageSource
  <2>3. shown.expected = list
    BY <1>10, <2>2
  <2> HIDE DEF list
  <2>4. Len(rd.shown) \in Nat /\ list \in Seq(Entities) /\ Len(list) \in Nat /\ Len(rd.shown) <= Len(list)
    BY <2>2 DEF Begins
  <2> QED
    BY <2>2, <2>3, <2>4
<1> HIDE DEF list
<1>12. ASSUME found # {}, end <= Len(list)
       PROVE  Begins(shown.shown, list) /\ Len(shown.shown) = end
  <2>1. shown.shown = rd.shown \o SubSeq(list, Len(rd.shown) + 1, end)
    BY <1>10, <1>11, <1>12
  <2>2. end \in Nat /\ Len(rd.shown) <= end
    BY <1>3, <1>11, <1>12
  <2>3. Begins(rd.shown, list) /\ end <= Len(list) /\ Len(rd.shown) \in Nat
    BY <1>11, <1>12
  <2>4. end \in Len(rd.shown)..Len(list) /\ shown.shown = More(rd.shown, list, end)
    BY <1>11, <1>12, <2>1, <2>2, <2>3 DEF More
  <2> HIDE DEF end, rd
  <2>5. Begins(More(rd.shown, list, end), list) /\ Len(More(rd.shown, list, end)) = end
    BY <2>3, <2>4, ShowMore
  <2> QED
    BY <2>4, <2>5
<1>13. CASE /\ found # {} /\ end >= Len(list) /\ (n = 0 \/ end = Len(list))
            /\ reader' = [reader EXCEPT ![r] = last] /\ cursors' = LiveCursors
  <2>1. end = Len(list) /\ end <= Len(list)
    BY <1>3, <1>11, <1>13
  <2>2. Begins(shown.shown, list) /\ Len(shown.shown) = Len(list) /\ shown.expected = list
    BY <1>11, <1>12, <1>13, <2>1
  <2>3. shown.shown = list
    BY <2>2, ShownAll
  <2>4. /\ DOMAIN last = DOMAIN NewReader /\ last.next = NoId /\ last.pc = "finished" /\ last.at = 0
        /\ last.pages = rd.pages + 1 /\ last.shown = shown.shown /\ last.expected = shown.expected
    BY <1>10 DEF NewReader
  <2> HIDE DEF last
  <2> QED
    <3>1. rd.pc = "answer" /\ now' = now /\ cursors' \subseteq cursors
      BY <1>1, <1>3, <1>13
    <3>2. last.pages \in Nat /\ rd.pages <= last.pages
      BY <1>8, <2>4
    <3>3. Begins(last.shown, last.expected) /\ last.shown = last.expected
      BY <2>2, <2>3, <2>4
    <3>4. reader' = [reader EXCEPT ![r] = last]
      BY <1>13
    <3> QED
      BY <1>1, <2>4, <3>1, <3>2, <3>3, <3>4, LastPage
<1>14. CASE /\ found # {} /\ end < Len(list)
            /\ reader' = [reader EXCEPT ![r] = more] /\ cursors' = old \cup {y}
  <2>1. end <= Len(list)
    BY <1>3, <1>11, <1>14
  <2>2. Begins(shown.shown, list) /\ Len(shown.shown) = end /\ shown.expected = list
    BY <1>11, <1>12, <1>14, <2>1
  <2>3. /\ DOMAIN more = DOMAIN NewReader /\ more.next = fresh /\ more.pc = "ready" /\ more.at = 0
        /\ more.pages = rd.pages + 1 /\ more.shown = shown.shown /\ more.expected = shown.expected
        /\ more.filter = rd.filter
    BY <1>10 DEF NewReader
  <2>4. y.id = fresh /\ y.snapshot = id /\ y.index = end
        /\ y.expiresAt = IF k.id = NoId THEN v ELSE Least({v, k.expiresAt})
    OBVIOUS
  <2>5. snapshot \in snapshots /\ snapshot.id = id
    BY <1>5, <1>14
  <2> HIDE DEF snapshot, y, more
  <2>6. v \in Nat
    <3>1. EntriesOK(snapshot.entries) /\ rd.at \in Nat
      BY <1>2, <2>5 DEF CoreInv, StoreInv, SnapshotOK
    <3> QED
      BY <3>1, ValidUntilSame
  <2>7. y.expiresAt \in Nat /\ y.expiresAt <= v
    <3>1. CASE k.id = NoId
      <4> HIDE DEF v
      <4> QED
        BY <2>4, <2>6, <3>1
    <3>2. CASE k.id # NoId
      <4> DEFINE S == {v, k.expiresAt}
      <4>1. k.expiresAt \in Nat
        BY <1>1, <3>2 DEF ReaderInv, CursorOK
      <4> HIDE DEF v
      <4>2. S \subseteq Nat /\ S # {} /\ v \in S
        BY <2>6, <4>1
      <4>3. y.expiresAt = Least(S)
        BY <2>4, <3>2
      <4> HIDE DEF S
      <4> QED
        BY <4>2, <4>3, LeastFacts
    <3> QED
      BY <3>1, <3>2
  <2>8. \A z \in cursors' : z \in cursors \/ z = y
    BY <1>3, <1>14
  <2>9. more.expected = Matching(snapshot, rd.filter, rd.at)
    BY <2>2, <2>3 DEF list
  <2>10. more.next = <<r, more.pages>> /\ Begins(more.shown, more.expected) /\ y.index = Len(more.shown)
    BY <2>2, <2>3, <2>4
  <2>11. rd.pc = "answer" /\ now' = now /\ reader' = [reader EXCEPT ![r] = more]
    BY <1>1, <1>14
  <2>12. y.id = more.next /\ y.snapshot = snapshot.id
    BY <2>3, <2>4, <2>5
  <2> HIDE DEF id, old, end, fresh, list
  <2> QED
    BY <2>3, <2>5, <2>7, <2>8, <2>9, <2>10, <2>11, <2>12, MorePages
<1> QED
  BY <1>1, <1>6, <1>9, <1>13, <1>14

LEMMA ReaderNext == ASSUME CoreInv, CoreInv', ReaderInv, [Next]_vars PROVE ReaderInv'
<1>1. Lineage /\ \A c \in Calls : Over(c) => Over(c)'
  BY StoreNext, OverStays DEF CoreInv
<1>2. now \in Nat
  BY DEF CoreInv, StoreInv
<1>3. ASSUME reader' = reader, cursors' \subseteq cursors, now' = now \/ now' = now + 1 PROVE ReaderInv'
  <2>1. now' \in Nat /\ now <= now'
    BY <1>2, <1>3
  <2> QED
    BY <1>1, <1>2, <1>3, <2>1, ReadersStay
<1>4. CASE Tick
  BY <1>3, <1>4 DEF Tick, storeVars
<1>5. ASSUME NEW c \in Calls, Refreshing(c) PROVE ReaderInv'
  <2>1. reader' = reader /\ cursors' \subseteq cursors
    BY <1>5 DEF Refreshing, CallRefresh, StartBuild, EndRefresh, Cleanup, LiveCursors, storeVars
  <2>2. now' = now
    <3>1. CASE Build(c)
      <4>1. Step(c)
        BY <3>1, BuildStep DEF CoreInv, BuildInv, SerialInv, Forms
      <4> QED
        BY <4>1 DEF Step
    <3>2. CASE ~Build(c)
      BY <1>5, <3>2 DEF Refreshing, CallRefresh, StartBuild, EndRefresh, Cleanup
    <3> QED
      BY <3>1, <3>2
  <2> QED
    BY <1>3, <2>1, <2>2
<1>6. ASSUME NEW c \in Calls, Abort(c) PROVE ReaderInv'
  BY <1>3, <1>6 DEF Abort, storeVars
<1>7. ASSUME NEW r \in Readers, Reading(r) PROVE ReaderInv'
  BY <1>1, <1>7, LookupReads, AnswerReads DEF Reading
<1>8. CASE UNCHANGED vars
  BY <1>3, <1>8 DEF vars, buildVars, storeVars
<1> QED
  BY <1>4, <1>5, <1>6, <1>7, <1>8 DEF Next

(* A reader who follows the cursors is shown the entries that matched its  *)
(* first request, in order and each once, and all of them when no cursor   *)
(* is left, whatever is published, pruned, evicted or expires meanwhile    *)
(* and however long a page takes (service.ts, 240-295).                    *)
THEOREM PagesAlwaysAgree == Spec => []PagesAgree
<1>1. ASSUME Init PROVE ReaderInv
  BY <1>1, ReaderInit
<1>2. ASSUME CoreInv, CoreInv', ReaderInv, [Next]_vars PROVE ReaderInv'
  BY <1>2, ReaderNext
<1>3. ASSUME ReaderInv PROVE PagesAgree
  <2>1. ASSUME NEW r \in Readers
        PROVE  /\ IsPrefix(reader[r].shown, reader[r].expected)
               /\ reader[r].pc = "finished" => reader[r].shown = reader[r].expected
    <3>1. Reads(r, reader[r], snapshots, now)
      BY <1>3 DEF ReaderInv
    <3> QED
      BY <3>1, BeginsPrefix DEF Reads
  <2> QED
    BY <2>1 DEF PagesAgree
<1> QED
  BY <1>1, <1>2, <1>3, StoreInOrder, PTL DEF Spec
----------------------------------------------------------------------------
(* What a build gathers.  A trail is a path below an anchor that every     *)
(* authority on it lists, without a cycle, on which none is refused or     *)
(* excluded; one path leads to another that goes on from it.               *)
Trails(a) ==
    {p \in Seq(Entities \cup {a}) :
        /\ p # <<>> /\ p[1] = a
        /\ (\A i, k \in DOMAIN p : p[i] = p[k] => i = k)
        /\ \A i \in 1..(Len(p) - 1) : p[i + 1] \in Range(Listing[p[i]])
        /\ \A n \in 2..Len(p) : p[n] \notin Excluded /\ SubSeq(p, 1, n) \notin Refused}
Leads(q, p) == Len(q) < Len(p) /\ \A i \in 1..Len(q) : q[i] = p[i]

(* The deadlines an entity may have in a collection of anchor a, gathered  *)
(* by the collector (g) or by the walk, and those of paths that stand.     *)
Own(g, a, e) ==
    IF ~g THEN {PathExp(p) : p \in To(a, e)}
    ELSE IF e \in DOMAIN Inventory[a] THEN {Inventory[a][e]} ELSE {}
Sure(g, a, e, t) == IF g THEN Own(g, a, e) ELSE {PathExp(p) : p \in {q \in To(a, e) : Stands(q, t)}}
Cut(d, e) == Least({d, FilterUntil[e]})

LEMMA RangeTail ==
    ASSUME NEW S, NEW s \in Seq(S), s # <<>>
    PROVE  /\ Range(s) = Range(Tail(s)) \cup {Head(s)} /\ Tail(s) \in Seq(S)
           /\ Head(s) \in S
<1>1. /\ Len(s) \in Nat \ {0} /\ DOMAIN s = 1..Len(s) /\ Tail(s) \in Seq(S)
      /\ DOMAIN Tail(s) = 1..(Len(s) - 1) /\ Head(s) = s[1]
      /\ \A i \in 1..(Len(s) - 1) : Tail(s)[i] = s[i + 1]
  OBVIOUS
<1>2. ASSUME NEW i \in 1..Len(s) PROVE s[i] = Head(s) \/ s[i] \in Range(Tail(s))
  <2>1. i = 1 \/ (i - 1 \in 1..(Len(s) - 1) /\ (i - 1) + 1 = i)
    BY <1>1
  <2>2. ASSUME i - 1 \in 1..(Len(s) - 1), (i - 1) + 1 = i PROVE s[i] \in Range(Tail(s))
    <3>1. Tail(s)[i - 1] = s[i]
      BY <1>1, <2>2
    <3> QED
      BY <1>1, <2>2, <3>1 DEF Range
  <2> QED
    BY <1>1, <2>1, <2>2
<1>3. ASSUME NEW i \in 1..(Len(s) - 1) PROVE Tail(s)[i] \in Range(s)
  <2>1. i + 1 \in 1..Len(s)
    BY <1>1
  <2> QED
    BY <1>1, <2>1 DEF Range
<1>4. Head(s) \in Range(s) /\ Head(s) \in S
  <2>1. 1 \in 1..Len(s)
    BY <1>1
  <2> QED
    BY <1>1, <2>1 DEF Range
<1>5. Range(s) \subseteq Range(Tail(s)) \cup {Head(s)}
  BY <1>1, <1>2 DEF Range
<1>6. Range(Tail(s)) \subseteq Range(s)
  BY <1>1, <1>3 DEF Range
<1> QED
  BY <1>1, <1>4, <1>5, <1>6

LEMMA RangeAppend ==
    ASSUME NEW S, NEW s \in Seq(S), NEW x \in S PROVE Range(Append(s, x)) = Range(s) \cup {x}
<1> DEFINE t == Append(s, x)
<1>1. /\ Len(s) \in Nat /\ DOMAIN s = 1..Len(s) /\ DOMAIN t = 1..(Len(s) + 1)
      /\ t[Len(s) + 1] = x /\ \A i \in 1..Len(s) : t[i] = s[i]
  OBVIOUS
<1>2. \A i \in 1..(Len(s) + 1) : i = Len(s) + 1 \/ i \in 1..Len(s)
  BY <1>1
<1>3. Len(s) + 1 \in 1..(Len(s) + 1) /\ \A i \in 1..Len(s) : i \in 1..(Len(s) + 1)
  BY <1>1
<1> HIDE DEF t
<1>4. Range(t) \subseteq Range(s) \cup {x}
  BY <1>1, <1>2 DEF Range
<1>5. Range(s) \cup {x} \subseteq Range(t)
  BY <1>1, <1>3 DEF Range
<1> QED
  BY <1>4, <1>5 DEF t

LEMMA RangeEmpty == Range(<<>>) = {}
BY DEF Range

LEMMA TrailFacts ==
    ASSUME NEW a \in Anchors, NEW p \in Trails(a)
    PROVE  /\ Len(p) \in Nat \ {0} /\ DOMAIN p = 1..Len(p) /\ p \in Seq(Nodes) /\ p \in Walks /\ p[1] = a
           /\ Last(p) \in Nodes /\ Listing[Last(p)] \in Seq(Entities)
           /\ Len(p) >= 2 => Last(p) \in Entities
<1>1. /\ p \in Seq(Entities \cup {a}) /\ p # <<>> /\ p[1] = a
      /\ \A i, k \in DOMAIN p : p[i] = p[k] => i = k
  BY DEF Trails
<1>2. Len(p) \in Nat \ {0} /\ DOMAIN p = 1..Len(p) /\ \A i \in DOMAIN p : p[i] \in Entities \cup {a}
  BY <1>1
<1>3. \A i \in DOMAIN p : i # 1 => p[i] \in Entities
  <2>1. 1 \in DOMAIN p
    BY <1>2
  <2>2. \A i \in DOMAIN p : i # 1 => p[i] # a
    BY <1>1, <2>1
  <2> QED
    BY <1>2, <2>2
<1>4. p \in Seq(Nodes)
  <2>1. Entities \cup {a} \subseteq Nodes
    BY DEF Nodes
  <2> QED
    BY <1>1, <2>1
<1>5. p \in Walks
  BY <1>1, <1>3, <1>4 DEF Walks
<1>6. Len(p) \in DOMAIN p /\ (Len(p) >= 2 => Len(p) # 1)
  BY <1>2
<1>7. Last(p) \in Nodes /\ (Len(p) >= 2 => Last(p) \in Entities)
  <2>1. p[Len(p)] \in Nodes
    BY <1>4, <1>6
  <2> QED
    BY <1>3, <1>6, <2>1 DEF Last
<1>8. Listing[Last(p)] \in Seq(Entities)
  BY <1>7, CollectionAssumption
<1> QED
  BY <1>1, <1>2, <1>4, <1>5, <1>7, <1>8

(* The beginnings of a path.                                               *)
Begun(y, p) == Len(y) <= Len(p) /\ \A i \in 1..Len(y) : y[i] = p[i]

LEMMA BegunParts ==
    ASSUME NEW S, NEW p \in Seq(S), NEW y \in Seq(S), Begun(y, p), NEW n \in 1..Len(y)
    PROVE  SubSeq(y, 1, n) = SubSeq(p, 1, n) /\ (n = Len(y) => y = SubSeq(p, 1, n))
<1> DEFINE u == SubSeq(y, 1, n)
           v == SubSeq(p, 1, n)
<1>1. /\ Len(p) \in Nat /\ Len(y) \in Nat /\ n \in Nat /\ 1 <= n /\ n <= Len(y)
      /\ \A i \in 1..Len(p) : p[i] \in S
  OBVIOUS
<1>2. \A i \in 1..n : i \in 1..Len(y) /\ i \in 1..Len(p)
  BY <1>1 DEF Begun
<1>3. \A i \in 1..n : y[i] = p[i] /\ p[i] \in S
  BY <1>1, <1>2 DEF Begun
<1>4. /\ u \in Seq(S) /\ Len(u) = n /\ v \in Seq(S) /\ Len(v) = n
      /\ \A i \in 1..n : u[i] = y[i] /\ v[i] = p[i]
  <2>1. /\ u \in Seq(S) /\ Len(u) = (IF 1 <= n THEN n - 1 + 1 ELSE 0)
        /\ \A i \in 1..(n - 1 + 1) : u[i] = y[1 + i - 1]
    BY <1>1, <1>3, SubSeqProperties
  <2>2. /\ v \in Seq(S) /\ Len(v) = (IF 1 <= n THEN n - 1 + 1 ELSE 0)
        /\ \A i \in 1..(n - 1 + 1) : v[i] = p[1 + i - 1]
    BY <1>1, <1>3, SubSeqProperties
  <2> HIDE DEF u, v
  <2> QED
    BY <1>1, <2>1, <2>2
<1> HIDE DEF u, v
<1>5. u = v
  <2>1. \A i \in 1..n : u[i] = v[i]
    BY <1>3, <1>4
  <2> QED
    BY <1>4, <2>1, SeqEqual
<1>6. ASSUME n = Len(y) PROVE y = v
  <2>1. \A i \in 1..n : v[i] = y[i]
    BY <1>3, <1>4
  <2>2. y \in Seq(S) /\ Len(y) = n
    BY <1>6
  <2> QED
    BY <1>4, <2>1, <2>2, SeqEqual
<1> QED
  BY <1>5, <1>6 DEF u, v

(* The beginnings of a path that stands are alive.                         *)
LEMMA BegunTrail ==
    ASSUME NEW a \in Anchors, NEW p \in Trails(a), NEW y \in Trails(a), Begun(y, p), Len(y) >= 2, NEW t, Stands(p, t)
    PROVE  PathExp(y) > t - Skew
<1> DEFINE n == Len(y)
           S == Entities \cup {a}
<1>1. p \in Seq(S) /\ y \in Seq(S) /\ n \in Nat /\ Len(p) \in Nat
  BY TrailFacts DEF Trails
<1>2. n <= Len(p)
  BY DEF Begun
<1>3. n \in 1..Len(y) /\ n \in 2..Len(p)
  <2>1. n >= 2
    OBVIOUS
  <2>2. n = Len(y)
    OBVIOUS
  <2> HIDE DEF n
  <2> QED
    BY <1>1, <1>2, <2>1, <2>2
<1>4. y = SubSeq(p, 1, n)
  BY <1>1, <1>3, BegunParts
<1> QED
  BY <1>3, <1>4 DEF Stands

LEMMA StandsLater ==
    ASSUME NEW a \in Anchors, NEW p \in Trails(a), NEW t \in Nat, Stands(p, t + 1) PROVE Stands(p, t)
<1> SUFFICES ASSUME NEW n \in 2..Len(p) PROVE PathExp(SubSeq(p, 1, n)) > t - Skew
  BY DEF Stands
<1> DEFINE v == SubSeq(p, 1, n)
<1>1. p \in Walks /\ p \in Seq(Nodes) /\ Len(p) \in Nat
  BY TrailFacts
<1>2. /\ v \in Seq(Nodes) /\ Len(v) = n /\ n > 1 /\ \A i \in 1..n : v[i] = p[i] /\ i \in DOMAIN p
  <2>1. n \in Nat /\ n <= Len(p) /\ n > 1 /\ \A i \in 1..n : i \in 1..Len(p)
    BY <1>1
  <2>2. \A i \in 1..n : p[i] \in Nodes /\ i \in DOMAIN p
    BY <1>1, <2>1
  <2>3. /\ v \in Seq(Nodes) /\ Len(v) = (IF 1 <= n THEN n - 1 + 1 ELSE 0)
        /\ \A i \in 1..(n - 1 + 1) : v[i] = p[1 + i - 1]
    BY <2>1, <2>2, SubSeqProperties
  <2> HIDE DEF v
  <2> QED
    BY <2>1, <2>2, <2>3
<1> HIDE DEF v
<1>3. v \in Walks
  <2>1. DOMAIN v = 1..n /\ v # <<>> /\ 1 \in 1..n
    BY <1>2
  <2>2. p[1] \in Anchors /\ \A i \in DOMAIN p : i # 1 => p[i] \in Entities
    BY <1>1 DEF Walks
  <2> QED
    BY <1>2, <2>1, <2>2 DEF Walks
<1>4. PathExp(v) \in Nat /\ Skew \in Nat
  BY <1>2, <1>3, ExpMember, CollectionAssumption
<1>5. PathExp(v) > (t + 1) - Skew
  BY DEF Stands, v
<1>6. PathExp(v) > t - Skew
  BY <1>4, <1>5
<1> QED
  BY <1>6 DEF v

(* The paths the entries come from are the trails: there are no more       *)
(* nodes on one than there are.                                            *)
LEMMA TrailShort ==
    ASSUME NEW a \in Anchors, NEW p \in Trails(a) PROVE Len(p) <= Cardinality(Entities) + 1
<1> DEFINE S == Entities \cup {a}
           n == Len(p)
<1>1. n \in Nat /\ DOMAIN p = 1..n /\ p \in Seq(S) /\ \A i, k \in DOMAIN p : p[i] = p[k] => i = k
  BY TrailFacts DEF Trails
<1>2. p \in Injection(1..n, S)
  <2>1. p \in [1..n -> S]
    BY <1>1
  <2> QED
    BY <1>1, <2>1 DEF Injection, IsInjective
<1>3. IsFiniteSet(Entities) /\ a \notin Entities
  BY CollectionAssumption
<1>4. IsFiniteSet(S) /\ Cardinality(S) = Cardinality(Entities) + 1
  BY <1>3, FS_AddElement
<1>5. Cardinality(1..n) = n /\ Cardinality(Entities) \in Nat
  <2>1. Cardinality(1..n) = IF 1 > n THEN 0 ELSE n - 1 + 1
    BY <1>1, FS_Interval
  <2>2. Cardinality(Entities) \in Nat
    BY <1>3, FS_CardinalityType
  <2> HIDE DEF n
  <2> QED
    BY <1>1, <2>1, <2>2
<1>6. Cardinality(1..n) <= Cardinality(S)
  <2> HIDE DEF S, n
  <2> QED
    BY <1>2, <1>4, FS_Injection
<1> HIDE DEF S, n
<1> QED
  BY <1>4, <1>5, <1>6 DEF n

LEMMA TrailIn ==
    ASSUME NEW a \in Anchors, NEW p \in Trails(a), Len(p) >= 2
    PROVE  Last(p) \in Entities /\ p \in To(a, Last(p))
<1> DEFINE S == Entities \cup {a}
           n == Len(p)
           r == <<p[1], p[n], p>>
<1>1. /\ p \in Seq(S) /\ p[1] = a /\ (\A i, k \in DOMAIN p : p[i] = p[k] => i = k)
      /\ (\A i \in 1..(n - 1) : p[i + 1] \in Range(Listing[p[i]]))
      /\ \A i \in 2..n : p[i] \notin Excluded /\ SubSeq(p, 1, i) \notin Refused
  BY DEF Trails
<1>2. \A l \in Links(p) : l[2] \in Range(Listing[l[1]])
  BY <1>1 DEF Links
<1>3. n \in 2..(Cardinality(Entities) + 1)
  <2>1. n \in Nat /\ n <= Cardinality(Entities) + 1 /\ Cardinality(Entities) \in Nat
    BY TrailFacts, TrailShort, FS_CardinalityType, CollectionAssumption
  <2> HIDE DEF n
  <2>2. n >= 2
    BY DEF n
  <2> QED
    BY <2>1, <2>2
<1>4. p \in [1..n -> S]
  BY <1>1
<1>5. p \in Paths(a)
  BY <1>1, <1>2, <1>3, <1>4 DEF Paths
<1>6. Last(p) \in Entities
  BY TrailFacts
<1>7. r \in Routes
  BY <1>5 DEF Routes
<1>8. r[1] = a /\ r[2] = Last(p) /\ r[3] = p
  BY <1>1 DEF Last
<1> HIDE DEF r
<1> QED
  BY <1>6, <1>7, <1>8 DEF To

LEMMA ByTrail ==
    ASSUME NEW a \in Anchors, NEW e, NEW p \in To(a, e)
    PROVE  p \in Trails(a) /\ Len(p) >= 2 /\ Last(p) = e
<1>1. PICK r \in Routes : r[1] = a /\ r[2] = e /\ r[3] = p
  BY DEF To
<1>2. PICK b \in Anchors : \E q \in Paths(b) : r = <<q[1], q[Len(q)], q>>
  BY DEF Routes
<1>3. PICK q \in Paths(b) : r = <<q[1], q[Len(q)], q>>
  BY <1>2
<1>4. q = p /\ p[1] = a /\ p[Len(p)] = e
  BY <1>1, <1>3
<1>5. p \in Paths(b) /\ b = a
  BY <1>3, <1>4 DEF Paths
<1> DEFINE S == Entities \cup {a}
<1>6. PICK n \in 2..(Cardinality(Entities) + 1) : p \in [1..n -> S]
  BY <1>5 DEF Paths
<1>7. Cardinality(Entities) \in Nat
  BY FS_CardinalityType, CollectionAssumption
<1>8. p \in Seq(S) /\ Len(p) = n /\ n >= 2 /\ p # <<>>
  BY <1>6, <1>7
<1>9. /\ (\A i, k \in DOMAIN p : p[i] = p[k] => i = k)
      /\ (\A l \in Links(p) : l[2] \in Range(Listing[l[1]]))
      /\ \A i \in 2..Len(p) : p[i] \notin Excluded /\ SubSeq(p, 1, i) \notin Refused
  BY <1>5 DEF Paths
<1>10. ASSUME NEW i \in 1..(Len(p) - 1) PROVE p[i + 1] \in Range(Listing[p[i]])
  <2>1. <<p[i], p[i + 1]>> \in Links(p)
    BY DEF Links
  <2> QED
    BY <1>9, <2>1
<1>11. p \in Trails(a)
  BY <1>4, <1>8, <1>9, <1>10 DEF Trails
<1> QED
  BY <1>4, <1>8, <1>11 DEF Last

LEMMA TrailExp == ASSUME NEW a \in Anchors, NEW p \in Trails(a), Len(p) >= 2 PROVE PathExp(p) \in Nat
<1>1. p \in Walks /\ Len(p) \in Nat
  BY TrailFacts
<1>2. Len(p) > 1
  BY <1>1
<1> QED
  BY <1>1, <1>2, ExpMember

LEMMA OwnNat ==
    ASSUME NEW a \in Anchors, NEW e \in Entities, NEW g, NEW t
    PROVE  Own(g, a, e) \subseteq Nat /\ Sure(g, a, e, t) \subseteq Own(g, a, e)
<1>1. CASE ~g
  <2>1. ASSUME NEW p \in To(a, e) PROVE PathExp(p) \in Nat
    BY <2>1, ByTrail, TrailExp
  <2> QED
    BY <1>1, <2>1 DEF Own, Sure
<1>2. CASE g
  <2>1. \A i \in DOMAIN Inventory[a] : Inventory[a][i] \in Nat
    BY CollectionAssumption
  <2>2. CASE e \in DOMAIN Inventory[a]
    BY <1>2, <2>1, <2>2 DEF Own, Sure
  <2>3. CASE e \notin DOMAIN Inventory[a]
    BY <1>2, <2>3 DEF Own, Sure
  <2> QED
    BY <2>2, <2>3
<1> QED
  BY <1>1, <1>2

(* Fewer paths stand later.                                                *)
LEMMA SureLater ==
    ASSUME NEW a \in Anchors, NEW e \in Entities, NEW g, NEW t \in Nat
    PROVE  Sure(g, a, e, t + 1) \subseteq Sure(g, a, e, t)
<1>1. ASSUME NEW p \in To(a, e), Stands(p, t + 1) PROVE Stands(p, t)
  BY <1>1, StandsLater, ByTrail
<1> QED
  BY <1>1 DEF Sure

(* The filter's deadline.                                                  *)
LEMMA CutFacts ==
    ASSUME NEW e \in Entities, NEW d \in Nat
    PROVE  /\ Cut(d, e) \in Nat /\ Cut(d, e) <= d
           /\ \A x \in Nat : Cut(x, e) <= d => Cut(x, e) <= Cut(d, e)
<1>1. FilterUntil[e] \in Nat
  BY CollectionAssumption
<1>2. ASSUME NEW x \in Nat
      PROVE  Cut(x, e) \in {x, FilterUntil[e]} /\ Cut(x, e) <= x /\ Cut(x, e) <= FilterUntil[e] /\ Cut(x, e) \in Nat
  <2> DEFINE S == {x, FilterUntil[e]}
  <2>1. S \subseteq Nat /\ S # {} /\ x \in S /\ FilterUntil[e] \in S
    BY <1>1
  <2>2. Cut(x, e) = Least(S)
    BY DEF Cut
  <2> HIDE DEF S
  <2>3. Cut(x, e) \in S /\ Cut(x, e) <= x /\ Cut(x, e) <= FilterUntil[e] /\ Cut(x, e) \in Nat
    BY <2>1, <2>2, LeastFacts
  <2> QED
    BY <2>3 DEF S
<1>3. ASSUME NEW x \in Nat, Cut(x, e) <= d PROVE Cut(x, e) <= Cut(d, e)
  <2>1. Cut(d, e) = d \/ Cut(d, e) = FilterUntil[e]
    BY <1>2
  <2> QED
    BY <1>2, <1>3, <2>1
<1> QED
  BY <1>2, <1>3
----------------------------------------------------------------------------
(* The walk.  Every trail that stands leads to an entry that lasts as      *)
(* long, or a beginning of it is still to be followed: it is in the queue, *)
(* or it is the node whose listing is being read.                          *)
Sound(f, g, a) == \A e \in DOMAIN f : f[e].exp \in Own(g, a, e)
Reached(f, p) == Last(p) \in DOMAIN f /\ PathExp(p) <= f[Last(p)].exp
Pending(q, n, d, p) ==
    \/ \E x \in Range(q) : Leads(x, p)
    \/ Leads(n, p) /\ p[Len(n) + 1] \in Range(d)
Covered(f, q, n, d, a, t) ==
    \A p \in Trails(a) : Len(p) >= 2 /\ Stands(p, t) => Reached(f, p) \/ Pending(q, n, d, p)
Lasts(f, h) == \A e \in DOMAIN f : e \in DOMAIN h /\ f[e].exp <= h[e].exp
WalkOK(j, a, g, t) ==
    /\ ~g /\ j.tried = {} /\ Sound(j.entries, g, a) /\ DOMAIN j.entries \subseteq Range(j.order)
    /\ Range(j.queue) \subseteq Trails(a)
    /\ j.todo # <<>> => j.node \in Trails(a) /\ Range(j.todo) \subseteq Range(Listing[Last(j.node)])
    /\ Covered(j.entries, j.queue, j.node, j.todo, a, t)

(* Where a trail goes on from a beginning of it.                           *)
LEMMA LeadsOn ==
    ASSUME NEW a \in Anchors, NEW p \in Trails(a), NEW x \in Trails(a), Leads(x, p)
    PROVE  /\ p[Len(x) + 1] \in Range(Listing[Last(x)]) /\ p[Len(x) + 1] \in Entities
           /\ p[Len(x) + 1] \notin Range(x)
<1> DEFINE n == Len(x)
<1>1. n \in Nat \ {0} /\ DOMAIN x = 1..n /\ Len(p) \in Nat \ {0} /\ DOMAIN p = 1..Len(p)
  BY TrailFacts
<1>2. n < Len(p) /\ \A i \in 1..n : x[i] = p[i]
  BY DEF Leads
<1>3. /\ n \in 1..n /\ n \in 1..(Len(p) - 1) /\ n + 1 \in DOMAIN p /\ n + 1 # 1
      /\ \A i \in 1..n : i \in DOMAIN p /\ i # n + 1
  BY <1>1, <1>2
<1> HIDE DEF n
<1>4. /\ (\A i, k \in DOMAIN p : p[i] = p[k] => i = k)
      /\ \A i \in 1..(Len(p) - 1) : p[i + 1] \in Range(Listing[p[i]])
  BY DEF Trails
<1>5. p[n + 1] \notin Range(x)
  BY <1>1, <1>2, <1>3, <1>4 DEF Range
<1>6. Last(x) = p[n]
  BY <1>2, <1>3 DEF Last, n
<1>7. p[n + 1] \in Range(Listing[Last(x)])
  BY <1>3, <1>4, <1>6
<1>8. p[n + 1] \in Entities
  <2>1. p \in Walks
    BY TrailFacts
  <2> QED
    BY <1>3, <2>1 DEF Walks
<1> QED
  BY <1>5, <1>7, <1>8 DEF n

(* A beginning with the next node is again one, or the whole trail.        *)
LEMMA LeadsNext ==
    ASSUME NEW a \in Anchors, NEW p \in Trails(a), NEW x \in Trails(a), Leads(x, p),
           NEW e \in Entities, p[Len(x) + 1] = e
    PROVE  Append(x, e) \in Trails(a) /\ Last(Append(x, e)) = e
           /\ (p = Append(x, e) \/ Leads(Append(x, e), p)) /\ Begun(Append(x, e), p)
<1> DEFINE n == Len(x)
           y == Append(x, e)
<1>1. /\ n \in Nat \ {0} /\ DOMAIN x = 1..n /\ Len(p) \in Nat \ {0} /\ DOMAIN p = 1..Len(p)
      /\ x \in Seq(Nodes) /\ p \in Seq(Nodes)
  BY TrailFacts
<1>2. n < Len(p) /\ \A i \in 1..n : x[i] = p[i]
  BY DEF Leads
<1>3. e \in Nodes /\ x \in Seq(Entities \cup {a}) /\ x[1] = a
  BY DEF Nodes, Trails
<1>4. /\ y \in Seq(Nodes) /\ y \in Seq(Entities \cup {a}) /\ Len(y) = n + 1 /\ y[n + 1] = e
      /\ DOMAIN y = 1..(n + 1)
      /\ \A i \in 1..n : y[i] = x[i]
  BY <1>1, <1>3
<1> HIDE DEF y
<1>5. \A i \in 1..(n + 1) : y[i] = p[i] /\ i \in DOMAIN p
  <2>1. \A i \in 1..(n + 1) : (i = n + 1 \/ i \in 1..n) /\ i \in 1..Len(p)
    BY <1>1, <1>2
  <2>2. p[n + 1] = e
    OBVIOUS
  <2> HIDE DEF n
  <2> QED
    BY <1>1, <1>2, <1>4, <2>1, <2>2
<1>6. Begun(y, p)
  <2>1. n + 1 <= Len(p)
    BY <1>1, <1>2
  <2> HIDE DEF n
  <2> QED
    BY <1>4, <1>5, <2>1 DEF Begun
<1>7. y \in Trails(a)
  <2>1. /\ (\A i, k \in DOMAIN p : p[i] = p[k] => i = k)
        /\ \A i \in 1..(Len(p) - 1) : p[i + 1] \in Range(Listing[p[i]])
    BY DEF Trails
  <2>2. \A i \in 1..(Len(y) - 1) : i \in 1..(n + 1) /\ i + 1 \in 1..(n + 1) /\ i \in 1..(Len(p) - 1)
    BY <1>1, <1>2, <1>4
  <2>3. y # <<>> /\ y[1] = a
    BY <1>1, <1>3, <1>4
  <2> HIDE DEF n
  <2>4. \A i, k \in DOMAIN y : y[i] = y[k] => i = k
    BY <1>4, <1>5, <2>1
  <2>5. \A i \in 1..(Len(y) - 1) : y[i + 1] \in Range(Listing[y[i]])
    BY <1>5, <2>1, <2>2
  <2>6. ASSUME NEW i \in 2..Len(y) PROVE y[i] \notin Excluded /\ SubSeq(y, 1, i) \notin Refused
    <3>1. i \in 1..Len(y) /\ i \in 2..Len(p) /\ y[i] = p[i]
      <4>1. Len(y) <= Len(p) /\ Len(p) \in Nat /\ Len(y) \in Nat
        BY <1>1, <1>4, <1>6 DEF Begun
      <4> QED
        BY <1>6, <4>1 DEF Begun
    <3>2. p[i] \notin Excluded /\ SubSeq(p, 1, i) \notin Refused
      BY <3>1 DEF Trails
    <3>3. SubSeq(y, 1, i) = SubSeq(p, 1, i)
      BY <1>1, <1>4, <1>6, <3>1, BegunParts
    <3> QED
      BY <3>1, <3>2, <3>3
  <2> QED
    BY <1>4, <2>3, <2>4, <2>5, <2>6 DEF Trails
<1>8. Last(y) = e
  BY <1>4 DEF Last
<1>9. p = y \/ Leads(y, p)
  <2>1. CASE n + 1 = Len(p)
    BY <1>1, <1>4, <1>5, <2>1
  <2>2. CASE n + 1 # Len(p)
    <3>1. n \in Nat /\ Len(p) \in Nat /\ n < Len(p)
      BY <1>1, <1>2
    <3> HIDE DEF n
    <3>2. n + 1 < Len(p)
      BY <2>2, <3>1
    <3> QED
      BY <1>4, <1>5, <3>2 DEF Leads
  <2> QED
    BY <2>1, <2>2
<1>10. y = Append(x, e)
  BY DEF y
<1> QED
  BY <1>7, <1>8, <1>9, <1>10, <1>6, Zenon

LEMMA TrailAppend ==
    ASSUME NEW a \in Anchors, NEW x \in Trails(a), NEW e \in Entities, e \notin Range(x),
           e \in Range(Listing[Last(x)]), e \notin Excluded, Append(x, e) \notin Refused
    PROVE  Append(x, e) \in Trails(a) /\ Len(Append(x, e)) >= 2 /\ Last(Append(x, e)) = e
<1> DEFINE n == Len(x)
           y == Append(x, e)
<1>1. n \in Nat \ {0} /\ DOMAIN x = 1..n /\ x \in Seq(Entities \cup {a}) /\ x[1] = a
  BY TrailFacts DEF Trails
<1>2. /\ y \in Seq(Entities \cup {a}) /\ Len(y) = n + 1 /\ DOMAIN y = 1..(n + 1) /\ y[n + 1] = e
      /\ \A i \in 1..n : y[i] = x[i]
  BY <1>1
<1>3. /\ (\A i, k \in DOMAIN x : x[i] = x[k] => i = k)
      /\ \A i \in 1..(n - 1) : x[i + 1] \in Range(Listing[x[i]])
  BY DEF Trails
<1>4. y \notin Refused /\ e \notin Excluded
  OBVIOUS
<1>5. Last(x) = x[n]
  BY DEF Last
<1>6. \A i \in 2..n : x[i] \notin Excluded /\ SubSeq(x, 1, i) \notin Refused
  BY DEF Trails
<1>7. Len(x) = n
  OBVIOUS
<1> HIDE DEF n, y
<1>8. \A i \in 1..(n + 1) : i = n + 1 \/ i \in 1..n
  BY <1>1
<1>9. \A i \in 1..n : x[i] # e
  BY <1>1 DEF Range
<1>10. \A i, k \in DOMAIN y : y[i] = y[k] => i = k
  BY <1>1, <1>2, <1>3, <1>8, <1>9
<1>11. ASSUME NEW i \in 1..(Len(y) - 1)
      PROVE  y[i + 1] \in Range(Listing[y[i]])
  <2>2. i \in 1..n /\ (i = n \/ (i \in 1..(n - 1) /\ i + 1 \in 1..n))
    BY <1>1, <1>2
  <2>3. y[i + 1] \in Range(Listing[y[i]])
    <3>1. CASE i = n
      BY <1>2, <1>5, <2>2, <3>1
    <3>2. CASE i \in 1..(n - 1) /\ i + 1 \in 1..n
      BY <1>2, <1>3, <2>2, <3>2
    <3> QED
      BY <2>2, <3>1, <3>2
  <2> QED
    BY <2>3
<1>12. y # <<>> /\ y[1] = a /\ Len(y) >= 2
  BY <1>1, <1>2
<1>13. ASSUME NEW i \in 2..Len(y) PROVE y[i] \notin Excluded /\ SubSeq(y, 1, i) \notin Refused
  <2>1. CASE i = n + 1
    <3>1. Begun(y, y) /\ i \in 1..Len(y) /\ i = Len(y)
      BY <1>1, <1>2, <2>1 DEF Begun
    <3>2. y = SubSeq(y, 1, i)
      BY <1>2, <3>1, BegunParts
    <3> QED
      BY <1>2, <1>4, <2>1, <3>2
  <2>2. CASE i # n + 1
    <3>1. i \in 1..n /\ i \in 2..n
      BY <1>1, <1>2, <2>2
    <3>2. x[i] \notin Excluded /\ SubSeq(x, 1, i) \notin Refused
      BY <1>6, <3>1
    <3>3. Begun(x, y) /\ i \in 1..Len(x)
      BY <1>1, <1>2, <1>7, <3>1 DEF Begun
    <3>4. SubSeq(x, 1, i) = SubSeq(y, 1, i)
      BY <1>1, <1>2, <3>3, BegunParts
    <3> QED
      BY <1>2, <3>1, <3>2, <3>4
  <2> QED
    BY <2>1, <2>2
<1>14. y \in Trails(a)
  BY <1>2, <1>10, <1>11, <1>12, <1>13 DEF Trails
<1>15. Last(y) = e /\ y = Append(x, e)
  BY <1>2 DEF Last, y
<1> QED
  BY <1>12, <1>14, <1>15, Zenon

(* The head of the queue becomes the node whose listing is read; nothing   *)
(* is lost when that listing is empty.                                     *)
LEMMA HeadRead ==
    ASSUME NEW a \in Anchors, NEW f, NEW q \in Seq(Walks), q # <<>>, NEW n, NEW t,
           Covered(f, q, n, <<>>, a, t), Range(q) \subseteq Trails(a)
    PROVE  /\ Head(q) \in Trails(a) /\ Range(Tail(q)) \subseteq Trails(a)
           /\ Covered(f, Tail(q), Head(q), Listing[Last(Head(q))], a, t)
           /\ Listing[Last(Head(q))] = <<>> => Covered(f, Tail(q), n, <<>>, a, t)
<1> DEFINE h == Head(q)
           l == Listing[Last(h)]
<1>1. Range(q) = Range(Tail(q)) \cup {h}
  BY RangeTail
<1> HIDE DEF h
<1>2. h \in Trails(a) /\ Range(Tail(q)) \subseteq Trails(a)
  BY <1>1
<1>3. ASSUME NEW p \in Trails(a), Len(p) >= 2, Stands(p, t), ~Reached(f, p)
      PROVE  (\E x \in Range(Tail(q)) : Leads(x, p)) \/ (Leads(h, p) /\ p[Len(h) + 1] \in Range(l))
  <2>1. Pending(q, n, <<>>, p)
    BY <1>3 DEF Covered
  <2>2. PICK x \in Range(q) : Leads(x, p)
    BY <2>1, RangeEmpty DEF Pending
  <2>3. CASE x = h
    BY <1>2, <2>2, <2>3, LeadsOn
  <2> QED
    BY <1>1, <2>2, <2>3
<1>4. Covered(f, Tail(q), h, l, a, t)
  BY <1>3 DEF Covered, Pending
<1>5. ASSUME l = <<>> PROVE Covered(f, Tail(q), n, <<>>, a, t)
  BY <1>3, <1>5, RangeEmpty DEF Covered, Pending
<1> QED
  BY <1>2, <1>4, <1>5 DEF h

(* One listed subordinate is done with: every trail through it goes on     *)
(* from the queue or has its entry.                                        *)
LEMMA ChildDone ==
    ASSUME NEW a \in Anchors, NEW f, NEW h, EntriesOK(f), EntriesOK(h), Lasts(f, h),
           NEW q, NEW r, Range(q) \subseteq Range(r), NEW n, NEW d \in Seq(Entities), d # <<>>, NEW t,
           Covered(f, q, n, d, a, t),
           \A p \in Trails(a) : Stands(p, t) /\ Leads(n, p) /\ p[Len(n) + 1] = Head(d)
               => Reached(h, p) \/ \E x \in Range(r) : Leads(x, p)
    PROVE  Covered(h, r, n, Tail(d), a, t)
<1>1. Range(d) = Range(Tail(d)) \cup {Head(d)}
  BY RangeTail
<1>2. SUFFICES ASSUME NEW p \in Trails(a), Len(p) >= 2, Stands(p, t)
               PROVE  Reached(h, p) \/ Pending(r, n, Tail(d), p)
  BY DEF Covered
<1>3. Reached(f, p) \/ Pending(q, n, d, p)
  BY <1>2 DEF Covered
<1>4. CASE Reached(f, p)
  <2>1. /\ Last(p) \in DOMAIN f /\ Last(p) \in DOMAIN h /\ PathExp(p) <= f[Last(p)].exp
        /\ f[Last(p)].exp <= h[Last(p)].exp
    BY <1>4 DEF Reached, Lasts
  <2>2. f[Last(p)].exp \in Nat /\ h[Last(p)].exp \in Nat
    BY <2>1 DEF EntriesOK, Entry
  <2>3. PathExp(p) \in Nat
    BY <1>2, TrailExp
  <2>4. PathExp(p) <= h[Last(p)].exp
    BY <2>1, <2>2, <2>3
  <2> QED
    BY <2>1, <2>4 DEF Reached
<1>5. CASE \E x \in Range(q) : Leads(x, p)
  BY <1>5 DEF Pending
<1>6. CASE Leads(n, p) /\ p[Len(n) + 1] \in Range(d)
  BY <1>1, <1>2, <1>6 DEF Pending
<1> QED
  BY <1>3, <1>4, <1>5, <1>6 DEF Pending

LEMMA ChildSkipped ==
    ASSUME NEW a \in Anchors, NEW f, EntriesOK(f), NEW q, NEW n \in Trails(a), NEW d \in Seq(Entities), d # <<>>,
           NEW t \in Nat, Covered(f, q, n, d, a, t),
           \/ Head(d) \in Range(n)
           \/ ~(PathExp(Append(n, Head(d))) > t - Skew)
           \/ Append(n, Head(d)) \in Refused
           \/ Head(d) \in Excluded
    PROVE  Covered(f, q, n, Tail(d), a, t)
<1> DEFINE e == Head(d)
           y == Append(n, e)
<1>1. ASSUME NEW p \in Trails(a), Stands(p, t), Leads(n, p), p[Len(n) + 1] = e PROVE FALSE
  <2>1. e \in Entities /\ e \notin Range(n)
    BY <1>1, LeadsOn
  <2>2. y \in Trails(a) /\ Begun(y, p) /\ Last(y) = e
    <3> HIDE DEF e
    <3> QED
      BY <1>1, <2>1, LeadsNext
  <2>3. Len(n) \in Nat \ {0} /\ n \in Seq(Nodes) /\ e \in Nodes
    BY <2>1, TrailFacts DEF Nodes
  <2>4. Len(y) = Len(n) + 1 /\ y \in Seq(Nodes)
    <3> HIDE DEF e
    <3> QED
      BY <2>3
  <2> HIDE DEF y, e
  <2>5. Len(y) >= 2 /\ Len(y) \in 2..Len(y) /\ Len(y) \in 1..Len(y)
    BY <2>3, <2>4
  <2>6. PathExp(y) > t - Skew
    BY <1>1, <2>2, <2>5, BegunTrail
  <2>7. y = SubSeq(y, 1, Len(y))
    <3>1. Begun(y, y)
      BY <2>4 DEF Begun
    <3> QED
      BY <2>4, <2>5, <3>1, BegunParts
  <2>8. y \notin Refused /\ e \notin Excluded
    <3>1. y[Len(y)] = e
      BY <2>2 DEF Last
    <3>2. y[Len(y)] \notin Excluded /\ SubSeq(y, 1, Len(y)) \notin Refused
      BY <2>2, <2>5 DEF Trails
    <3> QED
      BY <2>7, <3>1, <3>2
  <2> QED
    BY <2>1, <2>6, <2>8 DEF y, e
<1>2. Lasts(f, f)
  BY DEF Lasts, EntriesOK, Entry
<1> HIDE DEF y
<1> QED
  BY <1>1, <1>2, ChildDone

Adds(f, h, q, n, d, y, a, t) ==
    /\ a \in Anchors /\ EntriesOK(f) /\ EntriesOK(h) /\ Lasts(f, h) /\ q \in Seq(Walks)
    /\ n \in Trails(a) /\ d \in Seq(Entities) /\ d # <<>> /\ Covered(f, q, n, d, a, t)
    /\ y = Append(n, Head(d)) /\ y \in Trails(a) /\ Head(d) \in DOMAIN h
    /\ PathExp(y) <= h[Head(d)].exp

LEMMA ChildAdded ==
    ASSUME NEW f, NEW h, NEW q, NEW n, NEW d, NEW y, NEW a, NEW t, Adds(f, h, q, n, d, y, a, t)
    PROVE  Covered(h, Append(q, y), n, Tail(d), a, t) /\ Range(Append(q, y)) = Range(q) \cup {y}
<1> a \in Anchors /\ EntriesOK(f) /\ EntriesOK(h) /\ Lasts(f, h) /\ q \in Seq(Walks)
  BY DEF Adds
<1> n \in Trails(a) /\ d \in Seq(Entities) /\ d # <<>> /\ Covered(f, q, n, d, a, t)
  BY DEF Adds
<1> y = Append(n, Head(d)) /\ y \in Trails(a) /\ Head(d) \in DOMAIN h /\ PathExp(y) <= h[Head(d)].exp
  BY DEF Adds
<1>1. y \in Walks
  BY TrailFacts
<1>2. Range(Append(q, y)) = Range(q) \cup {y}
  <2>1. \A z \in Walks : Range(Append(q, z)) = Range(q) \cup {z}
    BY RangeAppend
  <2> QED
    BY <1>1, <2>1, Zenon
<1>3. ASSUME NEW p \in Trails(a), Stands(p, t), Leads(n, p), p[Len(n) + 1] = Head(d)
      PROVE  Reached(h, p) \/ \E x \in Range(Append(q, y)) : Leads(x, p)
  <2>1. Head(d) \in Entities
    BY RangeTail
  <2>2. Last(y) = Head(d) /\ (p = y \/ Leads(y, p))
    <3> DEFINE e == Head(d)
    <3>1. e \in Entities /\ y = Append(n, e)
      BY <2>1
    <3> HIDE DEF e
    <3>2. p[Len(n) + 1] = e
      BY <1>3 DEF e
    <3>3. Last(Append(n, e)) = e /\ (p = Append(n, e) \/ Leads(Append(n, e), p))
      BY <1>3, <3>1, <3>2, LeadsNext
    <3> QED
      BY <3>1, <3>3 DEF e
  <2>3. CASE p = y
    BY <2>2, <2>3 DEF Reached
  <2>4. CASE Leads(y, p)
    BY <1>2, <2>4
  <2> QED
    BY <2>2, <2>3, <2>4
<1> DEFINE r == Append(q, y)
<1>4. Range(q) \subseteq Range(r)
  BY <1>2
<1> HIDE DEF r
<1>5. ASSUME NEW p \in Trails(a), Stands(p, t), Leads(n, p), p[Len(n) + 1] = Head(d)
      PROVE  Reached(h, p) \/ \E x \in Range(r) : Leads(x, p)
  BY <1>3, <1>5 DEF r
<1>6. Covered(h, r, n, Tail(d), a, t)
  BY <1>4, <1>5, ChildDone
<1> QED
  BY <1>2, <1>6 DEF r
----------------------------------------------------------------------------
(* The two passes.  Every deadline of a path that stands is covered by the *)
(* entry; the first pass leaves entries with their mark from a listed      *)
(* issuer, the second with the deadline that the filter leaves of theirs.  *)
Full(f, g, a, t) == \A e \in Entities : \A x \in Sure(g, a, e, t) : x > t => e \in DOMAIN f /\ x <= f[e].exp
Marked(f, e, t) ==
    LET m == MarkOf[e]
    IN  m.type \in DOMAIN IssuersOf /\ m.iss \in IssuersOf[m.type] /\ m.exp > t /\ IssuerExp[m.iss] > t
        => \E v \in f[e].marks : v.type = m.type
Tries(j, t) == \A i \in j.tried : IssuerExp[i] \in Nat /\ (IssuerExp[i] > t => i \in DOMAIN j.proofs)
ListedOK(j, a, g, t) ==
    /\ Sound(j.entries, g, a) /\ Full(j.entries, g, a, t) /\ Tries(j, t)
    /\ \A e \in DOMAIN j.entries : e \in Range(j.left) \/ (e \in Range(j.order) /\ Marked(j.entries, e, t))
Owed(f, g, a, t) ==
    /\ \A e \in Entities : \A x \in Sure(g, a, e, t) :
           Cut(x, e) > t => e \in DOMAIN f /\ Cut(x, e) <= f[e].exp
    /\ \A e \in DOMAIN f : Marked(f, e, t)
OpenOK(j, a, g, t) ==
    /\ Owed(j.entries, g, a, t)
    /\ \A e \in DOMAIN j.entries :
           IF e \in Range(j.left) THEN j.entries[e].exp \in Own(g, a, e)
           ELSE \E d \in Own(g, a, e) : j.entries[e].exp = Cut(d, e)
Complete(f, g, a, t) ==
    /\ Owed(f, g, a, t)
    /\ \A e \in DOMAIN f : \E d \in Own(g, a, e) : f[e].exp = Cut(d, e)
Blank(j) == j.tried = {} /\ j.entries = <<>> /\ j.todo = <<>>
GatherOK(j, a, g, t) ==
    /\ j.pc \in {"none", "waiting", "start"} => Blank(j)
    /\ j.pc = "walk" => WalkOK(j, a, g, t)
    /\ j.pc = "listed" => ListedOK(j, a, g, t)
    /\ j.pc \in Second => OpenOK(j, a, g, t)
    /\ j.pc = "built" => Complete(j.entries, g, a, j.date)
Gathers(c) == GatherOK(job[c], AnchorOf[c], collects, now)

LEMMA FreshGathers ==
    ASSUME NEW p, p \notin {"walk", "listed", "built"} \cup Second, NEW a, NEW g, NEW t
    PROVE  GatherOK([Fresh EXCEPT !.pc = p], a, g, t)
<1> DEFINE j == [Fresh EXCEPT !.pc = p]
<1>1. j.pc = p /\ j.tried = {} /\ j.entries = <<>> /\ j.todo = <<>>
  BY DEF Fresh
<1> HIDE DEF j
<1>2. GatherOK(j, a, g, t)
  BY <1>1 DEF GatherOK, Blank
<1> QED
  BY <1>2 DEF j

(* Nothing that was gathered is wrong later.                               *)
LEMMA LaterGathers ==
    ASSUME NEW j, JobOK(j), NEW a \in Anchors, NEW g, NEW t \in Nat, GatherOK(j, a, g, t)
    PROVE  GatherOK(j, a, g, t + 1)
<1>1. ASSUME NEW x \in Nat, x > t + 1 PROVE x > t
  BY <1>1
<1>2. EntriesOK(j.entries)
  BY DEF JobOK
<1>3. ASSUME NEW e \in DOMAIN j.entries, Marked(j.entries, e, t) PROVE Marked(j.entries, e, t + 1)
  <2>1. MarkOf[e].exp \in Nat /\ (MarkOf[e].type \in DOMAIN IssuersOf => IssuerExp[MarkOf[e].iss] \in Nat)
    <3>1. e \in Entities
      BY <1>2 DEF EntriesOK
    <3> QED
      BY <3>1, CollectionAssumption
  <2> QED
    BY <1>1, <1>3, <2>1 DEF Marked
<1>4. ASSUME j.pc = "walk" PROVE WalkOK(j, a, g, t + 1)
  <2>1. WalkOK(j, a, g, t)
    BY <1>4 DEF GatherOK
  <2>2. ASSUME NEW p \in Trails(a), Stands(p, t + 1) PROVE Stands(p, t)
    BY <2>2, StandsLater
  <2>3. Covered(j.entries, j.queue, j.node, j.todo, a, t + 1)
    BY <2>1, <2>2 DEF WalkOK, Covered
  <2> QED
    BY <2>1, <2>3 DEF WalkOK
<1>5. ASSUME NEW e \in Entities, NEW x \in Sure(g, a, e, t + 1)
      PROVE  x \in Sure(g, a, e, t) /\ x \in Nat /\ Cut(x, e) \in Nat
  <2>1. x \in Sure(g, a, e, t) /\ x \in Nat
    BY OwnNat, SureLater
  <2> QED
    BY <2>1, CutFacts
<1>6. ASSUME j.pc = "listed" PROVE ListedOK(j, a, g, t + 1)
  <2>1. ListedOK(j, a, g, t)
    BY <1>6 DEF GatherOK
  <2>2. Full(j.entries, g, a, t + 1)
    BY <1>1, <1>5, <2>1 DEF ListedOK, Full
  <2>3. Tries(j, t + 1)
    BY <1>1, <2>1 DEF ListedOK, Tries
  <2> QED
    BY <1>3, <2>1, <2>2, <2>3 DEF ListedOK
<1>7. ASSUME j.pc \in Second PROVE OpenOK(j, a, g, t + 1)
  <2>1. OpenOK(j, a, g, t)
    BY <1>7 DEF GatherOK
  <2>2. Owed(j.entries, g, a, t + 1)
    BY <1>1, <1>3, <1>5, <2>1 DEF OpenOK, Owed
  <2> QED
    BY <2>1, <2>2 DEF OpenOK
<1> QED
  BY <1>4, <1>6, <1>7 DEF GatherOK
----------------------------------------------------------------------------
(* The steps of a build.                                                   *)
GatherStep(c) == Gathers(c) => GatherOK(job'[c], AnchorOf[c], collects, now)

LEMMA GatherTo ==
    ASSUME DOMAIN job = Calls, NEW c \in Calls, NEW j, Becomes(c, j),
           Gathers(c) => GatherOK(j, AnchorOf[c], collects, now)
    PROVE  GatherStep(c)
<1>1. job'[c] = j
  BY DEF Becomes
<1> QED
  BY <1>1 DEF GatherStep

LEMMA GatherToFailed == ASSUME DOMAIN job = Calls, NEW c \in Calls, Becomes(c, Failed) PROVE GatherStep(c)
<1>1. GatherOK(Failed, AnchorOf[c], collects, now)
  BY FreshGathers DEF Failed, Second
<1> QED
  BY <1>1, GatherTo

LEMMA ChargedTried ==
    ASSUME NEW c, NEW keys, NEW extra, DOMAIN job[c] = DOMAIN Fresh
    PROVE  Charged(c, keys, extra).tried = job[c].tried
BY DEF Charged, Fresh

LEMMA SortedAll == ASSUME NEW S, S \subseteq Nat, IsFiniteSet(S) PROVE Range(Sorted(S)) = S
<1> DEFINE f == Sorted(S)
           n == Cardinality(S)
<1>1. n \in Nat /\ f \in [1..n -> S] /\ Increasing(f)
  BY SortedFacts
<1> HIDE DEF f, n
<1>2. ASSUME NEW i \in 1..n, NEW k \in 1..n, f[i] = f[k] PROVE i = k
  <2>1. f[i] \in Nat /\ f[k] \in Nat /\ i \in Int /\ k \in Int
    <3>1. f[i] \in S /\ f[k] \in S
      BY <1>1
    <3>2. i \in Int /\ k \in Int
      BY <1>1
    <3> QED
      BY <3>1, <3>2
  <2>2. ~(i < k) /\ ~(k < i)
    BY <1>1, <1>2, <2>1 DEF Increasing
  <2> QED
    BY <2>1, <2>2
<1>3. f \in Injection(1..n, S)
  BY <1>1, <1>2 DEF Injection, IsInjective
<1>4. Cardinality(1..n) = Cardinality(S) /\ IsFiniteSet(1..n)
  <2>1. Cardinality(1..n) = (IF 1 > n THEN 0 ELSE n - 1 + 1) /\ IsFiniteSet(1..n)
    BY <1>1, FS_Interval
  <2>2. Cardinality(1..n) = n
    BY <1>1, <2>1
  <2> QED
    BY <2>1, <2>2 DEF n
<1>5. f \in Surjection(1..n, S)
  BY <1>3, <1>4, FS_Injection
<1>6. Range(f) = S
  BY <1>1, <1>5 DEF Surjection, Range
<1> QED
  BY <1>6 DEF f

LEMMA CollectGathers ==
    ASSUME JobInv, DOMAIN job = Calls, NEW c \in Calls, NEW ok, Collect(c, ok) PROVE GatherStep(c)
<1> DEFINE a == AnchorOf[c]
           I == Inventory[AnchorOf[c]]
           f == [e \in DOMAIN I |-> [exp |-> I[e], marks |-> {}]]
           l == Sorted(DOMAIN I)
           j == [job[c] EXCEPT !.pc = "listed", !.left = l, !.entries = f]
<1>1. job[c].pc = "start" /\ collects /\ (Becomes(c, j) \/ Becomes(c, Failed))
  BY DEF Collect
<1>2. DOMAIN job[c] = DOMAIN Fresh
  BY DEF JobInv, JobOK
<1>3. j.pc = "listed" /\ j.left = l /\ j.entries = f /\ j.tried = job[c].tried
  BY <1>2 DEF Fresh
<1> HIDE DEF j
<1>4. DOMAIN I \subseteq Entities /\ (\A e \in DOMAIN I : I[e] \in Nat) /\ I = Inventory[a]
  BY CallFacts, CollectionAssumption
<1> HIDE DEF I
<1>5. Range(l) = DOMAIN I
  <2>1. Entities \subseteq Nat /\ IsFiniteSet(Entities)
    BY CollectionAssumption
  <2>2. DOMAIN I \subseteq Nat /\ IsFiniteSet(DOMAIN I)
    BY <1>4, <2>1, FS_Subset
  <2> QED
    BY <2>2, SortedAll
<1>6. DOMAIN f = DOMAIN I /\ \A e \in DOMAIN I : f[e].exp = I[e]
  OBVIOUS
<1> HIDE DEF f, l, a
<1>7. Sound(f, collects, a) /\ Full(f, collects, a, now)
  BY <1>1, <1>4, <1>6 DEF Sound, Full, Own, Sure
<1>8. ASSUME Gathers(c) PROVE GatherOK(j, a, collects, now)
  <2>1. j.tried = {}
    BY <1>1, <1>3, <1>8 DEF Gathers, GatherOK, Blank
  <2>2. ListedOK(j, a, collects, now)
    BY <1>3, <1>5, <1>6, <1>7, <2>1 DEF ListedOK, Tries
  <2> QED
    BY <1>3, <2>2 DEF GatherOK, Second
<1> QED
  BY <1>1, <1>8, GatherTo, GatherToFailed DEF a

LEMMA FetchRootGathers ==
    ASSUME JobInv, DOMAIN job = Calls, NEW c \in Calls, NEW ok, FetchRoot(c, ok) PROVE GatherStep(c)
<1> DEFINE a == AnchorOf[c]
           keys == {<<"configuration", a>>}
           h == Charged(c, keys, 0)
           j == [h EXCEPT !.pc = "walk", !.queue = <<<<a>>>>, !.proofs = Set(@, a, RootExp[a])]
<1>1. job[c].pc = "start" /\ ~collects /\ (Becomes(c, j) \/ Becomes(c, Failed))
  BY DEF FetchRoot
<1>2. DOMAIN job[c] = DOMAIN Fresh /\ a \in Anchors
  BY CallFacts DEF JobInv, JobOK
<1>3. /\ DOMAIN h = DOMAIN Fresh /\ h.todo = job[c].todo /\ h.entries = job[c].entries
      /\ h.tried = job[c].tried
  <2>1. h = Charged(c, keys, 0)
    OBVIOUS
  <2> HIDE DEF keys, h
  <2> QED
    BY <1>2, <2>1, ChargedFields, ChargedTried
<1> HIDE DEF h
<1>4. /\ j.pc = "walk" /\ j.queue = <<<<a>>>> /\ j.todo = h.todo /\ j.entries = h.entries
      /\ j.tried = h.tried
  BY <1>3 DEF Fresh
<1> HIDE DEF j
<1>5. <<a>> \in Trails(a) /\ Range(<<<<a>>>>) = {<<a>>}
  <2>1. <<a>> \in Seq(Entities \cup {a}) /\ <<a>> # <<>> /\ <<a>>[1] = a /\ Len(<<a>>) = 1 /\ DOMAIN <<a>> = {1}
    OBVIOUS
  <2>2. \A i \in 1..(Len(<<a>>) - 1) : FALSE
    BY <2>1
  <2>3. <<a>> \in Trails(a)
    BY <2>1, <2>2 DEF Trails
  <2>4. Range(<<<<a>>>>) = {<<a>>}
    BY DEF Range
  <2> QED
    BY <2>3, <2>4
<1>6. ASSUME NEW p \in Trails(a), Len(p) >= 2 PROVE Leads(<<a>>, p)
  <2>1. Len(<<a>>) = 1 /\ <<a>>[1] = a /\ p[1] = a /\ Len(p) \in Nat
    BY <1>2, TrailFacts
  <2> QED
    BY <1>6, <2>1 DEF Leads
<1>7. ASSUME Gathers(c) PROVE GatherOK(j, a, collects, now)
  <2>1. j.tried = {} /\ j.entries = <<>> /\ j.todo = <<>> /\ DOMAIN <<>> = {}
    BY <1>1, <1>3, <1>4, <1>7 DEF Gathers, GatherOK, Blank
  <2>2. Covered(j.entries, j.queue, j.node, j.todo, a, now)
    BY <1>4, <1>5, <1>6 DEF Covered, Pending
  <2>3. Range(j.queue) \subseteq Trails(a)
    BY <1>4, <1>5
  <2>4. WalkOK(j, a, collects, now)
    BY <1>1, <2>1, <2>2, <2>3 DEF WalkOK, Sound
  <2> QED
    BY <1>4, <2>4 DEF GatherOK, Second
<1> QED
  BY <1>1, <1>7, GatherTo, GatherToFailed

(* The walk ends with every deadline that counts.                          *)
LEMMA WalkFull ==
    ASSUME NEW j, NEW a \in Anchors, NEW g, NEW t \in Nat, WalkOK(j, a, g, t), j.queue = <<>>, j.todo = <<>>
    PROVE  Full(j.entries, g, a, t)
<1>1. ~g /\ Covered(j.entries, <<>>, j.node, <<>>, a, t)
  BY DEF WalkOK
<1>2. SUFFICES ASSUME NEW e \in Entities, NEW p \in To(a, e), Stands(p, t)
               PROVE  e \in DOMAIN j.entries /\ PathExp(p) <= j.entries[e].exp
  BY <1>1 DEF Full, Sure
<1>3. p \in Trails(a) /\ Len(p) >= 2 /\ Last(p) = e
  BY ByTrail
<1>4. ~Pending(<<>>, j.node, <<>>, p)
  BY RangeEmpty DEF Pending
<1>5. Reached(j.entries, p)
  BY <1>1, <1>2, <1>3, <1>4 DEF Covered
<1> QED
  BY <1>3, <1>5 DEF Reached

LEMMA VisitNodeGathers ==
    ASSUME JobInv, DOMAIN job = Calls, now \in Nat, NEW c \in Calls, NEW ok, VisitNode(c, ok) PROVE GatherStep(c)
<1> DEFINE a == AnchorOf[c]
           q == job[c].queue
<1>1. job[c].pc = "walk" /\ job[c].todo = <<>> /\ JobOK(job[c])
  BY DEF VisitNode, JobInv
<1>2. DOMAIN job[c] = DOMAIN Fresh /\ q \in Seq(Walks) /\ a \in Anchors
  BY <1>1, CallFacts DEF JobOK
<1>3. Gathers(c) => WalkOK(job[c], a, collects, now)
  BY <1>1 DEF Gathers, GatherOK
<1> HIDE DEF q
<1>4. CASE q = <<>>
  <2> DEFINE j == [job[c] EXCEPT !.pc = "listed", !.left = job[c].order, !.order = <<>>]
  <2>1. Becomes(c, j)
    BY <1>4 DEF VisitNode, q
  <2>2. /\ j.pc = "listed" /\ j.left = job[c].order /\ j.entries = job[c].entries
        /\ j.tried = job[c].tried
    BY <1>2 DEF Fresh
  <2> HIDE DEF j
  <2>3. ASSUME Gathers(c) PROVE GatherOK(j, a, collects, now)
    <3>1. WalkOK(job[c], a, collects, now)
      BY <1>3, <2>3
    <3>2. Full(job[c].entries, collects, a, now)
      <4> HIDE DEF a
      <4> QED
        BY <1>1, <1>2, <1>4, <3>1, WalkFull DEF q
    <3>3. ListedOK(j, a, collects, now)
      BY <2>2, <3>1, <3>2 DEF ListedOK, WalkOK, Tries
    <3> QED
      BY <2>2, <3>3 DEF GatherOK, Second
  <2> QED
    BY <2>1, <2>3, GatherTo
<1>5. CASE q # <<>>
  <2> DEFINE p == Head(q)
             id == p[Len(p)]
             keys == {<<"listing", id>>}
             h == Charged(c, keys, 0)
             i == [job[c] EXCEPT !.queue = Tail(@)]
             j == [h EXCEPT !.node = p, !.queue = Tail(@), !.todo = Listing[id]]
  <2>1. \/ Becomes(c, Failed)
        \/ Listing[id] = <<>> /\ Becomes(c, i)
        \/ Becomes(c, j)
    BY <1>5 DEF VisitNode, q
  <2>2. /\ i.pc = job[c].pc /\ i.order = job[c].order /\ i.tried = job[c].tried
        /\ i.queue = Tail(q) /\ i.todo = job[c].todo /\ i.node = job[c].node
        /\ i.entries = job[c].entries
    BY <1>2 DEF Fresh, q
  <2>3. /\ DOMAIN h = DOMAIN Fresh /\ h.pc = job[c].pc /\ h.queue = q /\ h.order = job[c].order
        /\ h.entries = job[c].entries /\ h.tried = job[c].tried
    <3>1. h = Charged(c, keys, 0)
      OBVIOUS
    <3> HIDE DEF keys, h
    <3> QED
      BY <1>2, <3>1, ChargedFields, ChargedTried DEF q
  <2> HIDE DEF h, i, p
  <2>4. /\ j.pc = h.pc /\ j.node = p /\ j.order = h.order /\ j.queue = Tail(h.queue)
        /\ j.todo = Listing[id] /\ j.entries = h.entries /\ j.tried = h.tried
    BY <2>3 DEF Fresh
  <2> HIDE DEF j
  <2>5. ASSUME Gathers(c)
        PROVE  GatherOK(j, a, collects, now) /\ (Listing[id] = <<>> => GatherOK(i, a, collects, now))
    <3>1. WalkOK(job[c], a, collects, now)
      BY <1>3, <2>5
    <3>2. Covered(job[c].entries, q, job[c].node, <<>>, a, now) /\ Range(q) \subseteq Trails(a)
      BY <1>1, <3>1 DEF WalkOK, q
    <3>3. /\ p \in Trails(a) /\ Range(Tail(q)) \subseteq Trails(a)
          /\ Covered(job[c].entries, Tail(q), p, Listing[Last(p)], a, now)
          /\ Listing[Last(p)] = <<>> => Covered(job[c].entries, Tail(q), job[c].node, <<>>, a, now)
      <4> HIDE DEF a
      <4> QED
        BY <1>2, <1>5, <3>2, HeadRead DEF p
    <3>4. id = Last(p)
      BY DEF Last
    <3> HIDE DEF id, a
    <3>5. WalkOK(j, a, collects, now)
      BY <1>1, <2>3, <2>4, <3>1, <3>3, <3>4 DEF WalkOK
    <3>6. ASSUME Listing[id] = <<>> PROVE WalkOK(i, a, collects, now)
      BY <1>1, <2>2, <3>1, <3>3, <3>4, <3>6 DEF WalkOK
    <3>7. j.pc = "walk" /\ i.pc = "walk"
      BY <1>1, <2>2, <2>3, <2>4
    <3> QED
      BY <3>5, <3>6, <3>7 DEF GatherOK, Second
  <2> HIDE DEF id
  <2> QED
    BY <2>1, <2>5, GatherTo, GatherToFailed
<1> QED
  BY <1>4, <1>5

LEMMA ExamineChildGathers ==
    ASSUME JobInv, DOMAIN job = Calls, now \in Nat, NEW c \in Calls, NEW ok, ExamineChild(c, ok)
    PROVE  GatherStep(c)
<1> DEFINE a == AnchorOf[c]
           path == job[c].node
           d == job[c].todo
           id == Head(d)
           keys == {<<"configuration", id>>, <<"statement", path[Len(path)], id>>}
           below == Append(path, id)
           h == Charged(c, keys, 0)
           rest == [h EXCEPT !.todo = Tail(@), !.examined = @ + 1]
           best(f) == IF id \in DOMAIN f THEN f[id] ELSE 0
           skip == [job[c] EXCEPT !.todo = Tail(@)]
           n == Largest(PathExp(below), IF id \in DOMAIN rest.entries THEN rest.entries[id].exp ELSE 0)
           x == [exp |-> n, marks |-> {}]
           proofs == Set(rest.proofs, id, Largest(best(rest.proofs), PathExp(below)))
           noted == [rest EXCEPT !.proofs = proofs]
           added == [rest EXCEPT
                       !.queue = Append(@, below),
                       !.order = IF id \in DOMAIN job[c].entries THEN @ ELSE Append(@, id),
                       !.entries = Set(@, id, x),
                       !.proofs = proofs]
<1>1. job[c].pc = "walk" /\ d # <<>> /\ JobOK(job[c])
  BY DEF ExamineChild, JobInv
<1>2. /\ DOMAIN job[c] = DOMAIN Fresh /\ d \in Seq(Entities) /\ path \in Walks /\ a \in Anchors
      /\ EntriesOK(job[c].entries) /\ job[c].queue \in Seq(Walks) /\ job[c].order \in Seq(Entities)
  BY <1>1, CallFacts DEF JobOK
<1>3. \/ (\E i \in DOMAIN path : path[i] = id) /\ Becomes(c, skip)
      \/ Becomes(c, Failed)
      \/ ~PathValid(below) /\ Becomes(c, rest)
      \/ id \in Excluded /\ Becomes(c, noted)
      \/ /\ ~(\E i \in DOMAIN path : path[i] = id) /\ PathValid(below) /\ id \notin Excluded
         /\ Becomes(c, added)
  BY DEF ExamineChild
<1>4. id \in Entities /\ Range(d) = Range(Tail(d)) \cup {id}
  BY <1>1, <1>2, RangeTail
<1>5. ASSUME Gathers(c)
      PROVE  /\ WalkOK(job[c], a, collects, now) /\ path \in Trails(a) /\ ~collects
             /\ Range(d) \subseteq Range(Listing[Last(path)]) /\ Sound(job[c].entries, collects, a)
             /\ Covered(job[c].entries, job[c].queue, path, d, a, now)
  BY <1>1, <1>5 DEF Gathers, GatherOK, WalkOK
<1>6. /\ skip.pc = job[c].pc /\ skip.queue = job[c].queue /\ skip.node = job[c].node
      /\ skip.todo = Tail(d) /\ skip.order = job[c].order
      /\ skip.entries = job[c].entries /\ skip.tried = job[c].tried
  BY <1>2 DEF Fresh
<1>7. /\ DOMAIN h = DOMAIN Fresh /\ h.pc = job[c].pc /\ h.queue = job[c].queue
      /\ h.node = job[c].node /\ h.todo = d /\ h.order = job[c].order
      /\ h.entries = job[c].entries /\ h.tried = job[c].tried
  <2>1. h = Charged(c, keys, 0)
    OBVIOUS
  <2> HIDE DEF keys, h
  <2> QED
    BY <1>2, <2>1, ChargedFields, ChargedTried
<1> HIDE DEF keys, h
<1>8. /\ DOMAIN rest = DOMAIN Fresh /\ rest.pc = h.pc /\ rest.queue = h.queue /\ rest.node = h.node
      /\ rest.todo = Tail(h.todo) /\ rest.order = h.order
      /\ rest.entries = h.entries /\ rest.tried = h.tried
  BY <1>7 DEF Fresh
<1> HIDE DEF rest, proofs
<1>9. /\ noted.pc = rest.pc /\ noted.queue = rest.queue /\ noted.node = rest.node
       /\ noted.todo = rest.todo /\ noted.order = rest.order
       /\ noted.entries = rest.entries /\ noted.tried = rest.tried
  BY <1>8 DEF Fresh
<1>10. /\ added.pc = rest.pc /\ added.queue = Append(rest.queue, below)
      /\ added.node = rest.node /\ added.todo = rest.todo /\ added.tried = rest.tried
      /\ added.order = (IF id \in DOMAIN job[c].entries THEN rest.order ELSE Append(rest.order, id))
      /\ added.entries = Set(rest.entries, id, x)
  <2> HIDE DEF x, best, below, id
  <2> QED
    BY <1>8 DEF Fresh
<1> HIDE DEF skip, noted, added
<1>11. ASSUME Gathers(c),
              \/ \E i \in DOMAIN path : path[i] = id
              \/ ~PathValid(below)
              \/ id \in Excluded
       PROVE  /\ GatherOK(skip, a, collects, now) /\ GatherOK(rest, a, collects, now)
              /\ GatherOK(noted, a, collects, now)
  <2>1. Covered(job[c].entries, job[c].queue, path, Tail(d), a, now)
    <3>1. \/ Head(d) \in Range(path)
          \/ ~(PathExp(Append(path, Head(d))) > now - Skew)
          \/ Append(path, Head(d)) \in Refused
          \/ Head(d) \in Excluded
      BY <1>11 DEF PathValid, Live, Range
    <3> HIDE DEF a, path, d
    <3> QED
      BY <1>1, <1>2, <1>5, <1>11, <3>1, ChildSkipped
  <2>2. Range(Tail(d)) \subseteq Range(Listing[Last(path)]) /\ path \in Trails(a)
    BY <1>4, <1>5, <1>11
  <2>3. WalkOK(skip, a, collects, now) /\ skip.pc = "walk"
    BY <1>1, <1>5, <1>6, <1>11, <2>1, <2>2 DEF WalkOK
  <2>4. WalkOK(rest, a, collects, now) /\ rest.pc = "walk"
    BY <1>1, <1>5, <1>7, <1>8, <1>11, <2>1, <2>2 DEF WalkOK
  <2>5. WalkOK(noted, a, collects, now) /\ noted.pc = "walk"
    BY <1>1, <1>5, <1>7, <1>8, <1>11, <1>9, <2>1, <2>2 DEF WalkOK
  <2> QED
    BY <2>3, <2>4, <2>5 DEF GatherOK, Second
<1>12. ASSUME Gathers(c), ~\E i \in DOMAIN path : path[i] = id, PathValid(below), id \notin Excluded
       PROVE  GatherOK(added, a, collects, now)
  <2> DEFINE f == job[c].entries
             k == Set(f, id, x)
  <2>1. below \in Trails(a) /\ Len(below) >= 2 /\ Last(below) = id /\ PathExp(below) \in Nat
    <3>1. id \notin Range(path) /\ id \in Range(Listing[Last(path)])
      BY <1>4, <1>5, <1>12 DEF Range
    <3>2. id \notin Excluded /\ Append(path, id) \notin Refused
      BY <1>12 DEF PathValid
    <3> HIDE DEF id, path, a
    <3>3. below \in Trails(a) /\ Len(below) >= 2 /\ Last(below) = id
      BY <1>2, <1>4, <1>5, <1>12, <3>1, <3>2, TrailAppend
    <3> HIDE DEF below
    <3> QED
      BY <1>2, <3>3, TrailExp
  <2>2. n \in Nat /\ PathExp(below) <= n /\ (n = PathExp(below) \/ (id \in DOMAIN f /\ n = f[id].exp))
        /\ (id \in DOMAIN f => f[id].exp <= n)
    <3>1. rest.entries = f /\ (id \in DOMAIN f => f[id].exp \in Nat)
      BY <1>2, <1>7, <1>8 DEF EntriesOK, Entry
    <3> HIDE DEF f, id, below
    <3> QED
      BY <2>1, <3>1 DEF Largest
  <2>3. x.exp = n /\ x \in Entry
    <3> HIDE DEF n
    <3> QED
      BY <2>2 DEF Entry
  <2> HIDE DEF n, x
  <2>4. DOMAIN k = DOMAIN f \cup {id} /\ \A e \in DOMAIN k : k[e] = IF e = id THEN x ELSE f[e]
    <3> HIDE DEF f, id
    <3> QED
      BY DEF Set
  <2>5. EntriesOK(k) /\ Lasts(f, k)
    <3>1. EntriesOK(k)
      <4> HIDE DEF f, id
      <4>1. EntriesOK(f)
        BY <1>2 DEF f
      <4> QED
        BY <1>4, <2>3, <4>1, EntriesKept
    <3>2. \A e \in DOMAIN f : f[e].exp \in Nat
      BY <1>2 DEF EntriesOK, Entry
    <3> HIDE DEF f, id, k
    <3>3. Lasts(f, k)
      BY <2>2, <2>3, <2>4, <3>2 DEF Lasts
    <3> QED
      BY <3>1, <3>3
  <2>6. Sound(k, collects, a)
    <3>1. below \in To(a, id) /\ ~collects
      <4> HIDE DEF below
      <4> QED
        BY <1>2, <1>5, <1>12, <2>1, TrailIn
    <3>2. PathExp(below) \in Own(collects, a, id)
      BY <3>1 DEF Own
    <3>3. Sound(f, collects, a)
      BY <1>5, <1>12
    <3> HIDE DEF f, id, below, k, a
    <3> QED
      BY <2>2, <2>3, <2>4, <3>2, <3>3 DEF Sound
  <2>7. /\ Covered(k, Append(job[c].queue, below), path, Tail(d), a, now)
        /\ Range(Append(job[c].queue, below)) = Range(job[c].queue) \cup {below}
    <3>1. Head(d) \in DOMAIN k /\ PathExp(below) <= k[Head(d)].exp /\ below = Append(path, Head(d))
      BY <2>2, <2>3, <2>4
    <3>2. EntriesOK(f) /\ Covered(f, job[c].queue, path, d, a, now) /\ path \in Trails(a)
      BY <1>2, <1>5, <1>12
    <3> DEFINE q == job[c].queue
    <3>3. Adds(f, k, q, path, d, below, a, now)
      BY <1>1, <1>2, <2>1, <2>5, <3>1, <3>2 DEF Adds
    <3> HIDE DEF a, path, d, below, f, k, id, q
    <3>4. Covered(k, Append(q, below), path, Tail(d), a, now) /\ Range(Append(q, below)) = Range(q) \cup {below}
      BY <3>3, ChildAdded
    <3> QED
      BY <3>4 DEF q
  <2>8. DOMAIN k \subseteq Range(added.order)
    <3>1. DOMAIN f \subseteq Range(job[c].order)
      BY <1>5, <1>12 DEF WalkOK
    <3>2. Range(Append(job[c].order, id)) = Range(job[c].order) \cup {id}
      <4> HIDE DEF id
      <4> QED
        BY <1>2, <1>4, RangeAppend
    <3>3. added.order = IF id \in DOMAIN f THEN job[c].order ELSE Append(job[c].order, id)
      BY <1>7, <1>8, <1>10
    <3> HIDE DEF f, id, k
    <3> QED
      BY <2>4, <3>1, <3>2, <3>3
  <2>9. Range(Tail(d)) \subseteq Range(Listing[Last(path)])
    BY <1>4, <1>5, <1>12
  <2>10. /\ added.pc = "walk" /\ added.queue = Append(job[c].queue, below) /\ added.node = path
         /\ added.todo = Tail(d) /\ added.tried = {} /\ added.entries = k
    <3>1. job[c].tried = {}
      BY <1>5, <1>12 DEF WalkOK
    <3> QED
      BY <1>1, <1>7, <1>8, <1>10, <3>1
  <2>11. Range(job[c].queue) \subseteq Trails(a) /\ path \in Trails(a) /\ ~collects
    BY <1>5, <1>12 DEF WalkOK
  <2> HIDE DEF k, f, id, below, path, d, a
  <2>12. WalkOK(added, a, collects, now)
    BY <2>1, <2>6, <2>7, <2>8, <2>9, <2>10, <2>11 DEF WalkOK
  <2> QED
    BY <2>10, <2>12 DEF GatherOK, Second
<1> HIDE DEF below, path, id, a
<1> QED
  BY <1>3, <1>11, <1>12, GatherTo, GatherToFailed DEF a

(* A mark from a listed issuer whose chain resolves is verified.           *)
Certain(m, proofs) ==
    m.type \in DOMAIN IssuersOf /\ m.iss \in IssuersOf[m.type] /\ m.exp > now /\ m.iss \in DOMAIN proofs

LEMMA MarkVerified ==
    ASSUME now \in Nat, NEW c \in Calls, NEW e \in Entities, NEW proofs, Certain(MarkOf[e], proofs)
    PROVE  \E v \in Verified(c, e, proofs) : v.type = MarkOf[e].type
<1> DEFINE m == MarkOf[e]
           x == Least({job[c].entries[e].exp, RootExp[AnchorOf[c]], proofs[m.iss], m.exp})
           v == [type |-> m.type, exp |-> x]
<1>1. m.exp \in Nat /\ Skew \in Nat
  BY CollectionAssumption
<1>2. Live(m.exp) /\ m.iss \in DOMAIN proofs
  BY <1>1 DEF Live, Certain
<1>3. Verified(c, e, proofs) = {v}
  BY <1>2 DEF Verified
<1> HIDE DEF x
<1>4. v.type = m.type /\ v \in Verified(c, e, proofs)
  BY <1>3
<1> QED
  BY <1>4

(* What is known of the issuers, before and after a search.                *)
Extends(j, i, known, proofs, resolves, m) ==
    /\ DOMAIN i.proofs \subseteq DOMAIN known
    /\ resolves => m.type \in DOMAIN IssuersOf
    /\ proofs = (IF resolves THEN Resolved(known, m.iss) ELSE known)
    /\ j.proofs = proofs /\ j.tried = (IF resolves THEN i.tried \cup {m.iss} ELSE i.tried)

LEMMA TriesKept ==
    ASSUME now \in Nat, NEW e \in Entities, NEW i, Tries(i, now), NEW j, NEW known, NEW proofs, NEW resolves,
           Extends(j, i, known, proofs, resolves, MarkOf[e])
    PROVE  Tries(j, now)
<1> DEFINE m == MarkOf[e]
<1>1. /\ DOMAIN i.proofs \subseteq DOMAIN known /\ (resolves => m.type \in DOMAIN IssuersOf)
      /\ proofs = (IF resolves THEN Resolved(known, m.iss) ELSE known)
      /\ j.proofs = proofs /\ j.tried = (IF resolves THEN i.tried \cup {m.iss} ELSE i.tried)
  BY DEF Extends
<1>2. CASE ~resolves
  BY <1>1, <1>2 DEF Tries
<1>3. CASE resolves
  <2>1. IssuerExp[m.iss] \in Nat /\ Skew \in Nat
    BY <1>1, <1>3, CollectionAssumption
  <2>2. DOMAIN known \subseteq DOMAIN Resolved(known, m.iss)
    BY DEF Resolved, Set
  <2>3. IssuerExp[m.iss] > now => Live(IssuerExp[m.iss]) /\ IssuerExp[m.iss] # 0
    BY <2>1 DEF Live
  <2>4. IssuerExp[m.iss] > now => m.iss \in DOMAIN Resolved(known, m.iss)
    BY <2>3 DEF Resolved, Set
  <2> HIDE DEF m
  <2> QED
    BY <1>1, <1>3, <2>1, <2>2, <2>4 DEF Tries
<1> QED
  BY <1>2, <1>3

LEMMA VerifyListedGathers ==
    ASSUME JobInv, DOMAIN job = Calls, now \in Nat, NEW c \in Calls, NEW ok, VerifyListed(c, ok)
    PROVE  GatherStep(c)
<1> DEFINE a == AnchorOf[c]
           f == job[c].entries
           l == job[c].left
<1>1. job[c].pc = "listed" /\ JobOK(job[c])
  BY DEF VerifyListed, JobInv
<1>2. /\ DOMAIN job[c] = DOMAIN Fresh /\ a \in Anchors /\ EntriesOK(f) /\ l \in Seq(Entities)
      /\ Lists(l, f) /\ job[c].order \in Seq(Entities)
  BY <1>1, CallFacts DEF JobOK, Lists
<1>3. Gathers(c) => ListedOK(job[c], a, collects, now)
  BY <1>1 DEF Gathers, GatherOK
<1>4. CASE l = <<>>
  <2> DEFINE j == [job[c] EXCEPT !.pc = "open", !.left = job[c].order]
  <2>1. Becomes(c, j)
    BY <1>4 DEF VerifyListed
  <2>2. j.pc = "open" /\ j.left = job[c].order /\ j.entries = f
    BY <1>2 DEF Fresh
  <2> HIDE DEF j
  <2>3. ASSUME Gathers(c) PROVE GatherOK(j, a, collects, now)
    <3>1. ListedOK(job[c], a, collects, now)
      BY <1>3, <2>3
    <3>2. \A e \in DOMAIN f : e \in Range(job[c].order) /\ f[e].exp \in Own(collects, a, e) /\ Marked(f, e, now)
      BY <1>4, <3>1, RangeEmpty DEF ListedOK, Sound
    <3>3. ASSUME NEW e \in Entities, NEW x \in Sure(collects, a, e, now), Cut(x, e) > now
          PROVE  e \in DOMAIN f /\ Cut(x, e) <= f[e].exp
      <4>1. x \in Nat /\ Cut(x, e) <= x /\ Cut(x, e) \in Nat
        <5>1. x \in Nat
          BY <1>2, OwnNat
        <5> QED
          BY <5>1, CutFacts
      <4>2. x > now
        BY <3>3, <4>1
      <4>3. e \in DOMAIN f /\ x <= f[e].exp
        BY <3>1, <4>2 DEF ListedOK, Full
      <4>4. f[e].exp \in Nat
        BY <1>2, <4>3 DEF EntriesOK, Entry
      <4> HIDE DEF f
      <4> QED
        BY <4>1, <4>3, <4>4
    <3>4. Owed(f, collects, a, now)
      <4> HIDE DEF f, a
      <4> QED
        BY <3>2, <3>3 DEF Owed
    <3>5. OpenOK(j, a, collects, now)
      <4> HIDE DEF f, a
      <4> QED
        BY <2>2, <3>2, <3>4 DEF OpenOK
    <3> QED
      BY <2>2, <3>5 DEF GatherOK, Second
  <2> QED
    BY <2>1, <2>3, GatherTo
<1>5. CASE l # <<>>
  <2> DEFINE e == Head(l)
             m == MarkOf[e]
             known == WithRoot(c, e)
             resolves == Applies(m, FALSE) /\ m.iss \notin DOMAIN known \cup job[c].tried
             extra == IF resolves THEN IssuerCost[m.iss] ELSE 0
             proofs == IF resolves THEN Resolved(known, m.iss) ELSE known
             marks == IF Applies(m, FALSE) THEN Verified(c, e, proofs) ELSE {}
             gone == [job[c] EXCEPT !.left = Tail(@), !.entries = Without(@, e)]
             h == Charged(c, Needed(c, e), extra)
             kept == [h EXCEPT !.left = Tail(@), !.order = Append(@, e), !.proofs = proofs,
                               !.tried = IF resolves THEN @ \cup {m.iss} ELSE @,
                               !.entries = Set(@, e, [@[e] EXCEPT !.marks = marks])]
  <2>1. \/ f[e].exp <= now /\ Becomes(c, gone)
        \/ Becomes(c, Failed)
        \/ ~(f[e].exp <= now) /\ Becomes(c, kept)
    BY <1>5 DEF VerifyListed
  <2>2. e \in Entities /\ e \in DOMAIN f /\ Range(l) = Range(Tail(l)) \cup {e}
    BY <1>2, <1>5, TailLists, RangeTail
  <2>3. f[e] \in Entry /\ f[e].exp \in Nat
    BY <1>2, <2>2 DEF EntriesOK, Entry
  <2> HIDE DEF e
  <2>4. /\ gone.pc = job[c].pc /\ gone.left = Tail(l) /\ gone.order = job[c].order
        /\ gone.proofs = job[c].proofs /\ gone.entries = Without(f, e) /\ gone.tried = job[c].tried
    BY <1>2 DEF Fresh
  <2>5. ASSUME Gathers(c), f[e].exp <= now PROVE GatherOK(gone, a, collects, now)
    <3> DEFINE k == Without(f, e)
    <3>1. ListedOK(job[c], a, collects, now)
      BY <1>3, <2>5
    <3>2. DOMAIN k = DOMAIN f \ {e} /\ \A i \in DOMAIN k : k[i] = f[i]
      BY DEF Without
    <3>3. /\ Sound(f, collects, a) /\ Full(f, collects, a, now) /\ Tries(job[c], now)
          /\ \A i \in DOMAIN f : \/ i \in Range(l)
                                 \/ i \in Range(job[c].order) /\ Marked(f, i, now)
      BY <3>1 DEF ListedOK
    <3>4. Sure(collects, a, e, now) \subseteq Nat
      BY <1>2, <2>2, OwnNat
    <3> HIDE DEF k, f, l, a, gone
    <3>5. \A x \in Sure(collects, a, e, now) : ~(x > now)
      <4> SUFFICES ASSUME NEW x \in Sure(collects, a, e, now), x > now PROVE FALSE
        OBVIOUS
      <4>1. x <= f[e].exp
        BY <2>2, <3>3 DEF Full
      <4>2. x \in Nat
        BY <3>4
      <4> QED
        BY <2>3, <2>5, <4>1, <4>2
    <3>6. Sound(k, collects, a) /\ Full(k, collects, a, now)
      BY <3>2, <3>3, <3>5 DEF Sound, Full
    <3>7. \A i \in DOMAIN k : \/ i \in Range(Tail(l))
                              \/ i \in Range(job[c].order) /\ Marked(k, i, now)
      BY <2>2, <3>2, <3>3 DEF Marked
    <3>8. gone.entries = k
      BY <2>4 DEF k
    <3>9. ListedOK(gone, a, collects, now)
      BY <2>4, <3>3, <3>6, <3>7, <3>8 DEF ListedOK, Tries
    <3> QED
      BY <1>1, <2>4, <3>9 DEF GatherOK, Second
  <2>6. /\ DOMAIN h = DOMAIN Fresh /\ h.pc = job[c].pc /\ h.order = job[c].order /\ h.left = l
        /\ h.entries = f /\ h.tried = job[c].tried
    <3>1. h = Charged(c, Needed(c, e), extra)
      OBVIOUS
    <3> HIDE DEF h, extra
    <3> QED
      BY <1>2, <3>1, ChargedFields, ChargedTried
  <2> HIDE DEF h, extra
  <2> DEFINE x == [h.entries[e] EXCEPT !.marks = marks]
             k == Set(f, e, x)
  <2>7. /\ kept.pc = "listed" /\ kept.order = Append(job[c].order, e) /\ kept.left = Tail(l)
        /\ kept.entries = k /\ kept.proofs = proofs
        /\ kept.tried = IF resolves THEN job[c].tried \cup {m.iss} ELSE job[c].tried
    <3>1. /\ kept.pc = h.pc /\ kept.order = Append(h.order, e) /\ kept.left = Tail(h.left)
          /\ kept.entries = Set(h.entries, e, x) /\ kept.proofs = proofs
          /\ kept.tried = IF resolves THEN h.tried \cup {m.iss} ELSE h.tried
      <4> HIDE DEF proofs, resolves, m
      <4> QED
        BY <2>6 DEF Fresh
    <3> HIDE DEF kept, proofs, resolves, m, x
    <3> QED
      BY <1>1, <2>6, <3>1
  <2>8. x.exp = f[e].exp /\ x.marks = marks
    <3> HIDE DEF marks
    <3>1. h.entries[e] \in [exp : Nat, marks : SUBSET Mark] /\ h.entries[e] = f[e]
      BY <2>3, <2>6 DEF Entry
    <3> QED
      BY <3>1
  <2>9. ASSUME Gathers(c), ~(f[e].exp <= now) PROVE GatherOK(kept, a, collects, now)
    <3>1. ListedOK(job[c], a, collects, now)
      BY <1>3, <2>9
    <3>2. DOMAIN k = DOMAIN f /\ \A i \in DOMAIN f : k[i] = IF i = e THEN x ELSE f[i]
      <4> HIDE DEF f, x
      <4> QED
        BY <2>2 DEF Set
    <3>3. /\ Sound(f, collects, a) /\ Full(f, collects, a, now) /\ Tries(job[c], now)
          /\ \A i \in DOMAIN f : \/ i \in Range(l)
                                 \/ i \in Range(job[c].order) /\ Marked(f, i, now)
      BY <3>1 DEF ListedOK
    <3>4. \A i \in DOMAIN f : k[i].exp = f[i].exp
      <4> HIDE DEF f, x, k
      <4> QED
        BY <2>8, <3>2
    <3>5. Sound(k, collects, a) /\ Full(k, collects, a, now)
      <4> HIDE DEF f, k
      <4> QED
        BY <3>2, <3>3, <3>4 DEF Sound, Full
    <3>6. Tries(kept, now)
      <4>1. resolves => m.type \in DOMAIN IssuersOf
        BY DEF Applies
      <4>2. DOMAIN job[c].proofs \subseteq DOMAIN known
        BY DEF WithRoot, Set
      <4>3. proofs = IF resolves THEN Resolved(known, m.iss) ELSE known
        OBVIOUS
      <4> HIDE DEF resolves, kept, f, l, known, proofs
      <4>4. Extends(kept, job[c], known, proofs, resolves, MarkOf[e])
        BY <2>7, <4>1, <4>2, <4>3 DEF Extends
      <4> QED
        BY <2>2, <3>3, <4>4, TriesKept
    <3>7. Marked(k, e, now)
      <4>1. k[e].marks = marks
        BY <2>2, <2>8, <3>2
      <4>2. ASSUME m.type \in DOMAIN IssuersOf, m.iss \in IssuersOf[m.type], m.exp > now, IssuerExp[m.iss] > now
            PROVE  \E v \in marks : v.type = m.type
        <5>1. Applies(m, FALSE)
          BY <4>2 DEF Applies
        <5>2. m.iss \in kept.tried \cup DOMAIN kept.proofs
          <6>1. CASE resolves
            BY <2>7, <6>1
          <6>2. CASE ~resolves
            <7>1. m.iss \in DOMAIN known \cup job[c].tried
              BY <5>1, <6>2
            <7>2. ~resolves => proofs = known
              OBVIOUS
            <7> HIDE DEF kept, resolves, m, known, proofs
            <7> QED
              BY <2>7, <6>2, <7>1, <7>2
          <6> QED
            BY <6>1, <6>2
        <5>3. m.iss \in DOMAIN kept.proofs
          BY <3>6, <4>2, <5>2 DEF Tries
        <5>4. m.iss \in DOMAIN proofs
          BY <2>7, <5>3
        <5>5. Certain(MarkOf[e], proofs)
          BY <4>2, <5>4 DEF Certain
        <5> HIDE DEF proofs
        <5>6. \E v \in Verified(c, e, proofs) : v.type = MarkOf[e].type
          BY <2>2, <5>5, MarkVerified
        <5> QED
          BY <5>1, <5>6
      <4> HIDE DEF k, marks
      <4> QED
        BY <4>1, <4>2 DEF Marked
    <3>8. Range(kept.order) = Range(job[c].order) \cup {e}
      <4>1. kept.order = Append(job[c].order, e) /\ job[c].order \in Seq(Entities)
        BY <1>2, <2>7
      <4> HIDE DEF kept
      <4> QED
        BY <2>2, <4>1, RangeAppend
    <3> HIDE DEF k, f, l, a, kept
    <3>9. ASSUME NEW i \in DOMAIN k
           PROVE  \/ i \in Range(Tail(l))
                  \/ i \in Range(kept.order) /\ Marked(k, i, now)
      <4>1. CASE i = e
        BY <3>7, <3>8, <4>1
      <4>2. CASE i # e
        <5>1. k[i] = f[i] /\ i \in DOMAIN f
          BY <3>2, <4>2
        <5> QED
          BY <2>2, <3>3, <3>8, <4>2, <5>1 DEF Marked
      <4> QED
        BY <4>1, <4>2
    <3>10. ListedOK(kept, a, collects, now)
      BY <2>7, <3>5, <3>6, <3>9 DEF ListedOK
    <3> QED
      BY <2>7, <3>10 DEF GatherOK, Second
  <2> HIDE DEF gone, kept, f, a
  <2> QED
    BY <2>1, <2>5, <2>9, GatherTo, GatherToFailed DEF a
<1> QED
  BY <1>4, <1>5

(* Entries and what is left of them are all that the second pass owes.     *)
LEMMA SameGathers ==
    ASSUME DOMAIN job = Calls, NEW c \in Calls, job[c].pc \in Second, NEW j, Becomes(c, j), j.pc \in Second,
           j.entries = job[c].entries, j.left = job[c].left
    PROVE  GatherStep(c)
<1>1. ASSUME Gathers(c) PROVE GatherOK(j, AnchorOf[c], collects, now)
  <2>1. OpenOK(job[c], AnchorOf[c], collects, now)
    BY <1>1 DEF Gathers, GatherOK
  <2>2. OpenOK(j, AnchorOf[c], collects, now)
    BY <2>1 DEF OpenOK
  <2> QED
    BY <2>2 DEF GatherOK, Second
<1> QED
  BY <1>1, GatherTo

LEMMA MarkingGathers ==
    ASSUME DOMAIN job = Calls, NEW c \in Calls, JobOK(job[c]), job[c].pc \in Second, job[c].left # <<>>,
           NEW proofs, Becomes(c, Marking(c, proofs))
    PROVE  GatherStep(c)
<1> DEFINE a == AnchorOf[c]
           l == job[c].left
           e == Head(l)
           f == job[c].entries
           x == [f[e] EXCEPT !.marks = @ \cup Verified(c, e, proofs)]
           k == Set(f, e, x)
           j == [job[c] EXCEPT !.pc = "filter", !.proofs = proofs, !.entries = Set(@, e, x)]
<1>1. Becomes(c, j)
  BY DEF Marking
<1>2. /\ e \in Entities /\ e \in DOMAIN f /\ f[e] \in Entry /\ DOMAIN job[c] = DOMAIN Fresh
  BY HeadFacts DEF JobOK
<1>3. j.pc = "filter" /\ j.left = l /\ j.entries = k
  BY <1>2 DEF Fresh
<1> HIDE DEF j, e
<1>4. x.exp = f[e].exp /\ f[e].marks \subseteq x.marks
  <2>1. f[e] \in [exp : Nat, marks : SUBSET Mark]
    BY <1>2 DEF Entry
  <2> DEFINE y == f[e]
  <2>2. x = [y EXCEPT !.marks = y.marks \cup Verified(c, e, proofs)]
    OBVIOUS
  <2> HIDE DEF x, y
  <2>3. x.exp = y.exp /\ y.marks \subseteq x.marks
    BY <2>1, <2>2 DEF y
  <2> QED
    BY <2>3 DEF y
<1> HIDE DEF x
<1>5. DOMAIN k = DOMAIN f /\ \A i \in DOMAIN f : k[i] = IF i = e THEN x ELSE f[i]
  <2> HIDE DEF f
  <2> QED
    BY <1>2 DEF Set
<1> HIDE DEF k, f
<1>6. \A i \in DOMAIN f : k[i].exp = f[i].exp /\ f[i].marks \subseteq k[i].marks
  BY <1>4, <1>5
<1>7. ASSUME Gathers(c) PROVE GatherOK(j, a, collects, now)
  <2>1. OpenOK(job[c], a, collects, now)
    BY <1>7 DEF Gathers, GatherOK
  <2>2. /\ Owed(f, collects, a, now)
        /\ \A i \in DOMAIN f : IF i \in Range(l) THEN f[i].exp \in Own(collects, a, i)
                               ELSE \E d \in Own(collects, a, i) : f[i].exp = Cut(d, i)
    BY <2>1 DEF OpenOK, f
  <2> HIDE DEF a, l
  <2>3. ASSUME NEW i \in DOMAIN k PROVE Marked(k, i, now)
    <3>1. Marked(f, i, now) /\ f[i].marks \subseteq k[i].marks
      BY <1>5, <1>6, <2>2 DEF Owed
    <3> QED
      BY <3>1 DEF Marked
  <2>4. Owed(k, collects, a, now)
    BY <1>5, <1>6, <2>2, <2>3 DEF Owed
  <2>5. \A i \in DOMAIN k : IF i \in Range(l) THEN k[i].exp \in Own(collects, a, i)
                            ELSE \E d \in Own(collects, a, i) : k[i].exp = Cut(d, i)
    BY <1>5, <1>6, <2>2
  <2>6. OpenOK(j, a, collects, now)
    BY <1>3, <2>4, <2>5 DEF OpenOK
  <2> QED
    BY <1>3, <2>6 DEF GatherOK, Second
<1> QED
  BY <1>1, <1>7, GatherTo DEF a

LEMMA VerifyOpenGathers ==
    ASSUME JobInv, DOMAIN job = Calls, NEW c \in Calls, VerifyOpen(c) PROVE GatherStep(c)
<1> DEFINE m == MarkOf[Head(job[c].left)]
           i == [job[c] EXCEPT !.pc = "filter"]
           j == [job[c] EXCEPT !.pc = "search", !.spent = 0, !.tried = @ \cup {m.iss}]
<1>1. job[c].pc = "open" /\ JobOK(job[c]) /\ job[c].left # <<>> /\ job[c].pc \in Second
  BY DEF VerifyOpen, JobInv, Second
<1>2. DOMAIN job[c] = DOMAIN Fresh
  BY <1>1 DEF JobOK
<1>3. \/ Becomes(c, i)
      \/ Becomes(c, Failed)
      \/ Becomes(c, Marking(c, job[c].proofs))
      \/ Becomes(c, j)
  BY DEF VerifyOpen
<1>4. /\ i.pc \in Second /\ i.left = job[c].left /\ i.entries = job[c].entries
      /\ j.pc \in Second /\ j.left = job[c].left /\ j.entries = job[c].entries
  BY <1>2 DEF Fresh, Second
<1> HIDE DEF i, j
<1> QED
  BY <1>1, <1>3, <1>4, SameGathers, MarkingGathers, GatherToFailed

LEMMA SearchFetchGathers ==
    ASSUME JobInv, DOMAIN job = Calls, NEW c \in Calls, NEW ok, SearchFetch(c, ok) PROVE GatherStep(c)
<1> DEFINE i == [job[c] EXCEPT !.spent = @ + 1, !.open = @ + 1, !.fetches = @ + 1]
           j == [i EXCEPT !.pc = "filter"]
<1>1. job[c].pc = "search" /\ job[c].pc \in Second
  BY DEF SearchFetch, Second
<1>2. JobOK(job[c]) /\ job[c].left # <<>> /\ DOMAIN job[c] = DOMAIN Fresh
  BY <1>1, SearchFacts
<1>3. \/ Becomes(c, Failed)
      \/ Becomes(c, Marking(c, job[c].proofs))
      \/ Becomes(c, i)
      \/ Becomes(c, j)
  BY DEF SearchFetch
<1>4. /\ DOMAIN i = DOMAIN Fresh /\ i.pc = job[c].pc /\ i.left = job[c].left
      /\ i.entries = job[c].entries
  BY <1>2 DEF Fresh
<1> HIDE DEF i
<1>5. j.pc \in Second /\ j.left = job[c].left /\ j.entries = job[c].entries
  BY <1>4 DEF Fresh, Second
<1> HIDE DEF j
<1> QED
  BY <1>1, <1>2, <1>3, <1>4, <1>5, SameGathers, MarkingGathers, GatherToFailed

LEMMA SearchDoneGathers ==
    ASSUME JobInv, DOMAIN job = Calls, NEW c \in Calls, SearchDone(c) PROVE GatherStep(c)
<1> DEFINE proofs == Resolved(job[c].proofs, MarkOf[Head(job[c].left)].iss)
<1>1. job[c].pc = "search" /\ job[c].pc \in Second
  BY DEF SearchDone, Second
<1>2. JobOK(job[c]) /\ job[c].left # <<>>
  BY <1>1, SearchFacts
<1>3. Becomes(c, Failed) \/ Becomes(c, Marking(c, proofs))
  BY DEF SearchDone
<1> HIDE DEF proofs
<1> QED
  BY <1>1, <1>2, <1>3, MarkingGathers, GatherToFailed

LEMMA FilterGathers ==
    ASSUME JobInv, DOMAIN job = Calls, now \in Nat, NEW c \in Calls, NEW ok, Filter(c, ok) PROVE GatherStep(c)
<1> DEFINE a == AnchorOf[c]
           l == job[c].left
           e == Head(l)
           f == job[c].entries
           exp == Least({f[e].exp, FilterUntil[e]})
           cut == {[t EXCEPT !.exp = Least({@, exp})] : t \in f[e].marks}
           x == [exp |-> exp, marks |-> cut]
           k == IF exp <= now THEN Without(f, e) ELSE Set(f, e, x)
           j == [job[c] EXCEPT !.pc = "open", !.left = Tail(@), !.entries = k]
<1>1. job[c].pc = "filter" /\ job[c].pc \in Second /\ JobOK(job[c])
  BY DEF Filter, JobInv, Second
<1>2. /\ DOMAIN job[c] = DOMAIN Fresh /\ l # <<>> /\ a \in Anchors /\ EntriesOK(f)
      /\ l \in Seq(Entities) /\ Lists(l, f)
  BY <1>1, CallFacts DEF JobOK, Lists
<1>3. Becomes(c, Failed) \/ Becomes(c, j)
  BY DEF Filter
<1>4. /\ e \in Entities /\ e \in DOMAIN f /\ Range(l) = Range(Tail(l)) \cup {e}
      /\ e \notin Range(Tail(l))
  <2>1. \A i \in DOMAIN Tail(l) : Tail(l)[i] # e
    BY <1>2, TailLists
  <2> QED
    BY <1>2, <2>1, TailLists, RangeTail DEF Range
<1>5. j.pc = "open" /\ j.left = Tail(l) /\ j.entries = k
  <2> HIDE DEF k
  <2> QED
    BY <1>2 DEF Fresh
<1> HIDE DEF j, e
<1>6. f[e].marks \subseteq Mark /\ f[e].exp \in Nat
  BY <1>2, <1>4 DEF EntriesOK, Entry
<1>7. exp = Cut(f[e].exp, e)
  BY DEF Cut
<1> HIDE DEF exp
<1>8. ASSUME NEW v \in f[e].marks PROVE \E w \in cut : w.type = v.type
  <2> DEFINE w == [v EXCEPT !.exp = Least({@, exp})]
  <2>1. v \in Mark
    BY <1>6
  <2>2. w.type = v.type
    BY <2>1 DEF Mark
  <2>3. w \in cut
    OBVIOUS
  <2> QED
    BY <2>2, <2>3
<1>9. x.exp = exp /\ x.marks = cut
  <2> HIDE DEF cut
  <2> QED
    OBVIOUS
<1> HIDE DEF x, cut
<1>10. /\ \A i \in DOMAIN k : i # e => i \in DOMAIN f /\ k[i] = f[i]
       /\ \A i \in DOMAIN f : i # e => i \in DOMAIN k
       /\ e \in DOMAIN k => k[e] = x
       /\ ~(exp <= now) => e \in DOMAIN k
  <2> HIDE DEF f
  <2>1. CASE exp <= now
    BY <2>1 DEF Without
  <2>2. CASE ~(exp <= now)
    BY <2>2 DEF Set
  <2> QED
    BY <2>1, <2>2
<1> HIDE DEF k
<1>11. ASSUME Gathers(c) PROVE GatherOK(j, a, collects, now)
  <2>1. OpenOK(job[c], a, collects, now)
    BY <1>1, <1>11 DEF Gathers, GatherOK
  <2>2. /\ Owed(f, collects, a, now)
        /\ \A i \in DOMAIN f : IF i \in Range(l) THEN f[i].exp \in Own(collects, a, i)
                               ELSE \E d \in Own(collects, a, i) : f[i].exp = Cut(d, i)
    BY <2>1 DEF OpenOK
  <2> HIDE DEF f, l, a
  <2>3. ASSUME NEW i \in DOMAIN k PROVE Marked(k, i, now)
    <3>1. CASE i = e
      <4>1. k[e].marks = cut /\ Marked(f, e, now)
        BY <1>4, <1>9, <1>10, <2>2, <2>3, <3>1 DEF Owed
      <4> QED
        BY <1>8, <3>1, <4>1 DEF Marked
    <3>2. CASE i # e
      <4>1. i \in DOMAIN f /\ k[i] = f[i] /\ Marked(f, i, now)
        BY <1>10, <2>2, <3>2 DEF Owed
      <4> QED
        BY <4>1 DEF Marked
    <3> QED
      BY <3>1, <3>2
  <2>4. ASSUME NEW i \in DOMAIN k
        PROVE  IF i \in Range(Tail(l)) THEN k[i].exp \in Own(collects, a, i)
               ELSE \E d \in Own(collects, a, i) : k[i].exp = Cut(d, i)
    <3>1. CASE i = e
      <4>1. f[e].exp \in Own(collects, a, e) /\ k[e].exp = exp
        BY <1>4, <1>9, <1>10, <2>2, <3>1
      <4> QED
        BY <1>4, <1>7, <3>1, <4>1
    <3>2. CASE i # e
      <4>1. i \in DOMAIN f /\ k[i] = f[i] /\ (i \in Range(l) <=> i \in Range(Tail(l)))
        BY <1>4, <1>10, <3>2
      <4> QED
        BY <2>2, <4>1
    <3> QED
      BY <3>1, <3>2
  <2>5. ASSUME NEW i \in Entities, NEW y \in Sure(collects, a, i, now), Cut(y, i) > now
        PROVE  i \in DOMAIN k /\ Cut(y, i) <= k[i].exp
    <3>1. i \in DOMAIN f /\ Cut(y, i) <= f[i].exp
      BY <2>2, <2>5 DEF Owed
    <3>2. CASE i = e
      <4>1. y \in Nat
        BY <1>2, OwnNat
      <4>2. Cut(y, e) \in Nat /\ exp \in Nat
        BY <1>4, <1>6, <1>7, <4>1, CutFacts
      <4>3. Cut(y, e) <= exp
        BY <1>4, <1>6, <1>7, <3>1, <3>2, <4>1, CutFacts
      <4>4. ~(exp <= now)
        BY <2>5, <3>2, <4>2, <4>3
      <4> QED
        BY <1>9, <1>10, <3>2, <4>3, <4>4
    <3>3. CASE i # e
      BY <1>10, <3>1, <3>3
    <3> QED
      BY <3>2, <3>3
  <2>6. Owed(k, collects, a, now)
    BY <2>3, <2>5 DEF Owed
  <2>7. OpenOK(j, a, collects, now)
    BY <1>5, <2>4, <2>6 DEF OpenOK
  <2> QED
    BY <1>5, <2>7 DEF GatherOK, Second
<1> QED
  BY <1>3, <1>11, GatherTo, GatherToFailed DEF a

LEMMA EndBuildGathers ==
    ASSUME JobInv, DOMAIN job = Calls, NEW c \in Calls, EndBuild(c) PROVE GatherStep(c)
<1> DEFINE a == AnchorOf[c]
           f == job[c].entries
           j == [Fresh EXCEPT !.pc = "built", !.entries = f, !.date = now]
<1>1. job[c].pc = "open" /\ job[c].left = <<>> /\ (Becomes(c, Failed) \/ Becomes(c, j))
  BY DEF EndBuild
<1>2. j.pc = "built" /\ j.entries = f /\ j.date = now
  BY DEF Fresh
<1> HIDE DEF j
<1>3. ASSUME Gathers(c) PROVE GatherOK(j, a, collects, now)
  <2>1. OpenOK(job[c], a, collects, now)
    BY <1>1, <1>3 DEF Gathers, GatherOK, Second
  <2>2. \A i \in DOMAIN f : i \notin Range(job[c].left)
    BY <1>1, RangeEmpty
  <2>3. Complete(f, collects, a, now)
    BY <2>1, <2>2 DEF OpenOK, Complete
  <2> HIDE DEF f, a
  <2> QED
    BY <1>2, <2>3 DEF GatherOK, Second
<1> QED
  BY <1>1, <1>3, GatherTo, GatherToFailed DEF a
----------------------------------------------------------------------------
(* The collections that are gathered and published.                        *)
Whole(s, g) == Complete(s.entries, g, s.anchor, s.lastUpdated)
GatherInv == (\A c \in Calls : Gathers(c)) /\ \A s \in snapshots : Whole(s, collects)

LEMMA OthersGather ==
    ASSUME DOMAIN job = Calls, \A d \in Calls : Gathers(d), NEW c \in Calls, NEW j,
           job' = [job EXCEPT ![c] = j], UNCHANGED <<now, collects>>,
           GatherOK(j, AnchorOf[c], collects, now)
    PROVE  \A d \in Calls : GatherOK(job'[d], AnchorOf[d], collects', now')
<1>1. \A d \in Calls : job'[d] = IF d = c THEN j ELSE job[d]
  OBVIOUS
<1> QED
  BY <1>1 DEF Gathers

LEMMA BuildGathers ==
    ASSUME JobInv, DOMAIN job = Calls, now \in Nat, NEW c \in Calls, Build(c) PROVE GatherStep(c)
BY CollectGathers, FetchRootGathers, VisitNodeGathers, ExamineChildGathers, VerifyListedGathers,
   VerifyOpenGathers, SearchFetchGathers, SearchDoneGathers, FilterGathers, EndBuildGathers DEF Build

LEMMA RefreshGathers ==
    ASSUME CoreInv, GatherInv, NEW c \in Calls, Refreshing(c)
    PROVE  (\A d \in Calls : GatherOK(job'[d], AnchorOf[d], collects', now')) /\ collects' = collects
<1>1. DOMAIN job = Calls /\ JobInv /\ now \in Nat /\ \A d \in Calls : Gathers(d)
  BY DEF CoreInv, BuildInv, SerialInv, Forms, StoreInv, GatherInv
<1>2. DOMAIN job[c] = DOMAIN Fresh
  BY <1>1 DEF JobInv, JobOK
<1>3. ASSUME NEW p, job' = [job EXCEPT ![c].pc = p], UNCHANGED <<now, collects>>,
             \/ job[c].pc \in {"none", "waiting"} /\ p \in {"waiting", "start"}
             \/ p = "done"
      PROVE  \A d \in Calls : GatherOK(job'[d], AnchorOf[d], collects', now')
  <2> DEFINE j == [job[c] EXCEPT !.pc = p]
  <2>1. job' = [job EXCEPT ![c] = j]
    BY <1>3
  <2>2. j.pc = p /\ j.entries = job[c].entries /\ j.tried = job[c].tried /\ j.todo = job[c].todo
    BY <1>2 DEF Fresh
  <2> HIDE DEF j
  <2>3. GatherOK(j, AnchorOf[c], collects, now)
    BY <1>1, <1>3, <2>2 DEF Gathers, GatherOK, Blank, Second
  <2> QED
    BY <1>1, <1>3, <2>1, <2>3, OthersGather
<1>4. CASE CallRefresh(c)
  BY <1>3, <1>4 DEF CallRefresh
<1>5. CASE StartBuild(c)
  BY <1>3, <1>5 DEF StartBuild
<1>6. CASE Cleanup(c)
  BY <1>3, <1>6 DEF Cleanup
<1>7. CASE EndRefresh(c)
  <2> DEFINE j == [Fresh EXCEPT !.pc = "settled"]
  <2>1. job' = [job EXCEPT ![c] = j] /\ UNCHANGED <<now, collects>>
    BY <1>7 DEF EndRefresh
  <2>2. GatherOK(j, AnchorOf[c], collects, now)
    BY FreshGathers DEF Second
  <2> HIDE DEF j
  <2> QED
    BY <1>1, <2>1, <2>2, OthersGather
<1>8. CASE Build(c)
  <2>1. Step(c) /\ GatherStep(c)
    BY <1>1, <1>8, BuildStep, BuildGathers
  <2> DEFINE j == job'[c]
  <2>2. job' = [job EXCEPT ![c] = j] /\ UNCHANGED <<now, collects>>
    BY <2>1 DEF Step
  <2>3. GatherOK(j, AnchorOf[c], collects, now)
    BY <1>1, <2>1 DEF GatherStep
  <2> HIDE DEF j
  <2> QED
    BY <1>1, <2>2, <2>3, OthersGather
<1> QED
  BY <1>4, <1>5, <1>6, <1>7, <1>8 DEF Refreshing

(* What is published is whole at the time it is published.                 *)
LEMMA PublishedWhole ==
    ASSUME CoreInv, GatherInv, NEW c \in Calls, EndRefresh(c)
    PROVE  \A s \in snapshots' : Whole(s, collects)
<1>1. CASE snapshots' = snapshots
  BY <1>1 DEF GatherInv
<1>2. CASE snapshots' # snapshots
  <2> DEFINE a == AnchorOf[c]
             f == job[c].entries
             R == Room(a, Kept)
             touch(s) == IF s.id = current[a] THEN [s EXCEPT !.retainUntil = now + Retention] ELSE s
             d == job[c].date
             new == [id |-> c, place |-> NextPlace(R), anchor |-> a, lastUpdated |-> d,
                     retainUntil |-> MaxTime + 1, entries |-> f]
  <2>1. job[c].pc = "built" /\ snapshots' = Published(a, c, d, f)
    BY <1>2 DEF EndRefresh, storeVars
  <2>2. snapshots' = {touch(s) : s \in R} \cup {new}
    BY <2>1 DEF Published
  <2>3. R \subseteq snapshots
    BY CallFacts, RoomFacts DEF CoreInv
  <2>4. ASSUME NEW s \in R PROVE Whole(touch(s), collects)
    <3>1. DOMAIN s = SnapshotFields /\ Whole(s, collects)
      BY <2>3 DEF CoreInv, StoreInv, SnapshotOK, GatherInv
    <3>2. touch(s).entries = s.entries /\ touch(s).anchor = s.anchor /\ touch(s).lastUpdated = s.lastUpdated
      BY <3>1 DEF SnapshotFields
    <3> HIDE DEF touch
    <3> QED
      BY <3>1, <3>2 DEF Whole
  <2>5. Whole(new, collects)
    <3>1. Complete(f, collects, a, d)
      BY <2>1 DEF GatherInv, Gathers, GatherOK
    <3>2. new.entries = f /\ new.anchor = a /\ new.lastUpdated = d
      OBVIOUS
    <3> HIDE DEF new, a, f, d
    <3> QED
      BY <3>1, <3>2 DEF Whole
  <2> HIDE DEF touch, new
  <2> QED
    BY <2>2, <2>4, <2>5
<1> QED
  BY <1>1, <1>2

LEMMA GatherInit == ASSUME Init PROVE GatherInv
<1>1. job = [c \in Calls |-> Fresh] /\ snapshots = {}
  BY DEF Init
<1>2. \A a, g, t : GatherOK([Fresh EXCEPT !.pc = "none"], a, g, t)
  BY FreshGathers DEF Second
<1>3. [Fresh EXCEPT !.pc = "none"] = Fresh
  BY DEF Fresh
<1> HIDE DEF Fresh
<1> QED
  BY <1>1, <1>2, <1>3 DEF GatherInv, Gathers

LEMMA GatherNext == ASSUME CoreInv, GatherInv, [Next]_vars PROVE GatherInv'
<1>1. ASSUME \A c \in Calls : GatherOK(job'[c], AnchorOf[c], collects', now'),
             \A s \in snapshots' : Whole(s, collects')
      PROVE  GatherInv'
  BY <1>1 DEF GatherInv, Gathers
<1>2. Kept \subseteq snapshots /\ now \in Nat
  BY DEF Kept, CoreInv, StoreInv
<1>3. ASSUME UNCHANGED <<job, collects>>, now' = now \/ now' = now + 1, snapshots' \subseteq snapshots
      PROVE  GatherInv'
  <2>1. ASSUME NEW c \in Calls PROVE GatherOK(job[c], AnchorOf[c], collects, now')
    <3>1. GatherOK(job[c], AnchorOf[c], collects, now) /\ JobOK(job[c]) /\ AnchorOf[c] \in Anchors
      BY CallFacts DEF GatherInv, Gathers, CoreInv, BuildInv, JobInv
    <3>2. GatherOK(job[c], AnchorOf[c], collects, now + 1)
      BY <1>2, <3>1, LaterGathers
    <3> QED
      BY <1>3, <3>1, <3>2
  <2>2. \A s \in snapshots' : Whole(s, collects)
    BY <1>3 DEF GatherInv
  <2> QED
    BY <1>1, <1>3, <2>1, <2>2
<1>4. CASE Tick
  BY <1>3, <1>4 DEF Tick, storeVars
<1>5. ASSUME NEW c \in Calls, Refreshing(c) PROVE GatherInv'
  <2>1. (\A d \in Calls : GatherOK(job'[d], AnchorOf[d], collects', now')) /\ collects' = collects
    BY <1>5, RefreshGathers
  <2>2. \A s \in snapshots' : Whole(s, collects)
    <3>1. CASE EndRefresh(c)
      BY <3>1, PublishedWhole
    <3>2. CASE ~EndRefresh(c)
      <4>1. snapshots' = snapshots
        BY <1>5, <3>2 DEF Refreshing, CallRefresh, StartBuild, Cleanup, storeVars
      <4> QED
        BY <4>1 DEF GatherInv
    <3> QED
      BY <3>1, <3>2
  <2> QED
    BY <1>1, <2>1, <2>2
<1>6. ASSUME NEW c \in Calls, Abort(c) PROVE GatherInv'
  BY <1>3, <1>6 DEF Abort, storeVars
<1>7. ASSUME NEW r \in Readers, Reading(r) PROVE GatherInv'
  <2>1. UNCHANGED <<job, collects, now>> /\ snapshots' \subseteq snapshots
    BY <1>2, <1>7 DEF Reading, Lookup, Answer, buildVars
  <2> QED
    BY <1>3, <2>1
<1>8. CASE UNCHANGED vars
  BY <1>3, <1>8 DEF vars, buildVars, storeVars
<1> QED
  BY <1>4, <1>5, <1>6, <1>7, <1>8 DEF Next

(* A collection is published complete or not at all: an entity is in a     *)
(* snapshot for as long as the filter and some chain of its own, or the    *)
(* collector's word, allow, no shorter than along any path that stood when *)
(* the snapshot was dated, and with the mark of every listed issuer that   *)
(* is reachable, whatever expires, fails or is cancelled on the way        *)
(* (refresh.ts, 281-287 and 350: "Collection refresh incomplete").         *)
THEOREM SnapshotsAreComplete == Spec => []SnapshotComplete
<1>1. ASSUME GatherInv PROVE SnapshotComplete
  <2>1. SUFFICES ASSUME NEW s \in snapshots
                 PROVE  /\ \A e \in DOMAIN s.entries :
                               \E d \in Deadlines(s.anchor, e) : s.entries[e].exp = Cut(d, e)
                        /\ \A e \in Entities : \A d \in Standing(s.anchor, e, s.lastUpdated) :
                               Cut(d, e) > s.lastUpdated =>
                                   e \in DOMAIN s.entries /\ s.entries[e].exp >= Cut(d, e)
                        /\ \A e \in DOMAIN s.entries : Marked(s.entries, e, s.lastUpdated)
    BY DEF SnapshotComplete, Cut, Marked
  <2>2. Complete(s.entries, collects, s.anchor, s.lastUpdated)
    BY <1>1 DEF GatherInv, Whole
  <2>3. \A a, e : Deadlines(a, e) = Own(collects, a, e)
    BY DEF Deadlines, Own
  <2>4. \A a, e, t : Standing(a, e, t) = Sure(collects, a, e, t)
    BY <2>3 DEF Standing, Sure
  <2>5. \A e \in Entities : \A x \in Sure(collects, s.anchor, e, s.lastUpdated) :
            Cut(x, e) > s.lastUpdated => e \in DOMAIN s.entries /\ s.entries[e].exp >= Cut(x, e)
    BY <2>2 DEF Complete, Owed
  <2> QED
    BY <2>2, <2>3, <2>4, <2>5 DEF Complete, Owed
<1>2. ASSUME Init PROVE GatherInv
  BY <1>2, GatherInit
<1>3. ASSUME CoreInv, GatherInv, [Next]_vars PROVE GatherInv'
  BY <1>3, GatherNext
<1> QED
  BY <1>1, <1>2, <1>3, StoreInOrder, PTL DEF Spec
=============================================================================
