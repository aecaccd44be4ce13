---------------------- MODULE TrustChainResolveProofs ----------------------
(***************************************************************************)
(* TrustChainResolve and its callers (TrustChainSelect): the limiter loses *)
(* no slot and no waiter, the budget is never overspent, every chain       *)
(* reported is one of the federation graph, and a result that is not       *)
(* flagged incomplete misses none but those an answer cut off; for every   *)
(* federation, every limit and every order of the answers.                 *)
(***************************************************************************)
EXTENDS TrustChainSelect, SequenceTheorems, FiniteSetTheorems, TLAPS

(* A branch that has not settled yet.                                      *)
Live == {"queued", "granted", "fetching", "got", "joining"}

TypeOK ==
    /\ env \in Scenarios
    /\ phase \in {"start", "leaf", "walking", "returned"}
    /\ pc \in [Branches -> Live \cup Finished]
    /\ stage \in [Branches -> {"ec", "ss"}]
    /\ path \in [Branches -> Seq(Entities)]
    /\ cursor \in Branches \cup {None} /\ next \in Nat \ {0}
    /\ remaining \in Nat /\ active \in Nat /\ started \in Nat
    /\ queue \in Seq(Branches)
    /\ listening \in BOOLEAN /\ aborted \in BOOLEAN
    /\ errored \in BOOLEAN /\ incomplete \in BOOLEAN
    /\ chains \in Seq(Seq(Entities))
    /\ garbled \subseteq Branches /\ failed \subseteq Branches

(* The walk as a tree: branches are born one level at a time, below a      *)
(* branch that waits for them, and the loop over the hints of a branch     *)
(* meets only unborn ones.                                                 *)
Quiet == cursor = None /\ \A b \in Branches : pc[b] \notin Live
Begun == phase \in {"start", "leaf"} => \A b \in Branches : pc[b] = "unborn"
OnlyWalking == phase # "walking" => Quiet
RootPlace == pc[Root] \in {"unborn", "joining", "done"} /\ path[Root] = <<Leaf>>
Births ==
    \A b \in Branches, i \in 1..MaxHints :
        Child(b, i) \in Branches /\ pc[Child(b, i)] # "unborn" =>
            pc[b] \in {"joining", "done"}
Looping ==
    cursor # None =>
        /\ pc[cursor] = "joining" /\ Len(cursor) < MaxDepth
        /\ \A i \in next..MaxHints : pc[Child(cursor, i)] = "unborn"
Depths == \A b \in Branches : pc[b] \in Live \cup {"rejected"} => Len(path[b]) = Len(b) + 1
Awaited ==
    \A b \in Branches : pc[b] \in Live =>
        \A n \in 0..(Len(b) - 1) : pc[SubSeq(b, 1, n)] = "joining"

Tree == Begun /\ OnlyWalking /\ RootPlace /\ Births /\ Looping /\ Depths /\ Awaited

(* The units of the budget that are taken and not yet used.                *)
Reserved == Waiting \cup {b \in Branches : pc[b] = "granted"}
Slots == LimiterSound /\ IsFiniteSet(Holders) /\ IsFiniteSet(Reserved)

IInv == TypeOK /\ Tree /\ Slots /\ BudgetRespected
----------------------------------------------------------------------------
(* What a path of the walk satisfies, whatever branch it belongs to.       *)
IsWalk(p) ==
    /\ p # <<>> /\ p[1] = Leaf
    /\ \A i, j \in 1..Len(p) : p[i] = p[j] => i = j
    /\ \A i \in 1..(Len(p) - 1) :
          /\ p[i + 1] \in Visited(hints[p[i]])
          /\ <<p[i + 1], p[i]>> \in env.filter
          /\ i > 1 => p[i] \notin Anchors

Walks ==
    /\ \A b \in Branches : IsWalk(path[b])
    /\ cursor # None /\ cursor # Root => Last(path[cursor]) \notin Anchors
PathInv == Walks /\ ResultSound
----------------------------------------------------------------------------
(* Where a chain p of the graph is on its way through the walk: branch b   *)
(* has followed it so far and is still to go on, or was refused a slot     *)
(* after an abort that its parent has yet to report.                       *)
Along(b, p) == Len(path[b]) <= Len(p) /\ path[b] = SubSeq(p, 1, Len(path[b]))
Parent(b) == SubSeq(b, 1, Len(b) - 1)
ToCome(b, p) ==
    \E i \in next..MaxHints :
        /\ Len(path[b]) < Len(p)
        /\ i \in DOMAIN hints[Last(path[b])]
        /\ hints[Last(path[b])][i] = p[Len(path[b]) + 1]
OnItsWay(b, p) ==
    /\ Along(b, p)
    /\ \/ pc[b] \in {"queued", "granted", "fetching", "got"}
       \/ pc[b] = "rejected" /\ aborted /\ b # Root /\ pc[Parent(b)] = "joining"
       \/ cursor = b /\ ToCome(b, p)
CutOff(p) == \E b \in failed : Along(b, p)
Covered(p) ==
    p \in Visited(chains) \/ CutOff(p) \/ \E b \in Branches : OnItsWay(b, p)

(* The path of a live branch continues those of the branches it is below.  *)
Continues ==
    \A b \in Branches : pc[b] \in Live =>
        \A n \in 0..(Len(b) - 1) : path[SubSeq(b, 1, n)] = SubSeq(path[b], 1, n + 1)
(* What failed was born, unless the leaf itself failed.                    *)
FailedBorn == phase # "returned" => \A b \in failed : pc[b] # "unborn"
EarlyEnd == phase = "walking" /\ pc[Root] = "done" => incomplete
Complete ==
    phase \in {"walking", "returned"} /\ ~incomplete =>
        \A p \in ReferenceChains : Covered(p)
CoverInv == garbled \subseteq failed /\ FailedBorn /\ Continues /\ EarlyEnd /\ Complete
----------------------------------------------------------------------------
(* Branches and their children.                                            *)
LEMMA BranchShape ==
    /\ \A b : b \in Branches <=> b \in Seq(1..MaxHints) /\ Len(b) <= MaxDepth
    /\ \A b \in Branches : Len(b) \in Nat
    /\ Root \in Branches /\ Len(Root) = 0
    /\ \A b \in Branches : Len(b) = 0 => b = Root
<1> USE LimitAssumption
<1>1. ASSUME NEW b \in Branches
      PROVE  b \in Seq(1..MaxHints) /\ Len(b) <= MaxDepth /\ Len(b) \in Nat
  <2>1. PICK n \in 0..MaxDepth : b \in [1..n -> 1..MaxHints]
    BY DEF Branches
  <2>2. b \in Seq(1..MaxHints)
    BY <2>1, SeqDef
  <2> QED
    BY <2>1, <2>2
<1>2. ASSUME NEW b \in Seq(1..MaxHints), Len(b) <= MaxDepth PROVE b \in Branches
  <2>1. b \in [1..Len(b) -> 1..MaxHints] /\ Len(b) \in 0..MaxDepth
    BY <1>2, LenProperties
  <2> QED
    BY <2>1 DEF Branches
<1>3. Root \in Seq(1..MaxHints) /\ Len(Root) = 0
  BY DEF Root
<1>4. \A b \in Seq(1..MaxHints) : Len(b) = 0 => b = Root
  BY DEF Root
<1>5. \A b : b \in Branches <=> b \in Seq(1..MaxHints) /\ Len(b) <= MaxDepth
  BY <1>1, <1>2, Zenon
<1>6. Root \in Branches
  <2>1. Len(Root) <= MaxDepth
    BY <1>3
  <2> QED
    BY <1>2, <1>3, <2>1, Zenon
<1>7. \A b \in Branches : Len(b) = 0 => b = Root
  BY <1>1, <1>4, Zenon
<1> QED
  BY <1>1, <1>3, <1>5, <1>6, <1>7, Zenon

LEMMA ChildShape ==
    ASSUME NEW b \in Branches, NEW i \in 1..MaxHints
    PROVE  /\ Child(b, i) \in Seq(1..MaxHints) /\ Len(Child(b, i)) = Len(b) + 1
           /\ Child(b, i) \in Branches <=> Len(b) < MaxDepth
           /\ Child(b, i) # Root /\ Child(b, i) # b
<1>1. b \in Seq(1..MaxHints) /\ Len(b) \in Nat
  BY BranchShape
<1>2. Child(b, i) \in Seq(1..MaxHints) /\ Len(Child(b, i)) = Len(b) + 1
  BY <1>1, AppendProperties DEF Child
<1> HIDE DEF Child
<1>3. Child(b, i) \in Branches <=> Len(Child(b, i)) <= MaxDepth
  BY <1>2, BranchShape
<1> QED
  BY <1>1, <1>2, <1>3, BranchShape, LimitAssumption

LEMMA ChildrenDiffer ==
    ASSUME NEW b \in Branches, NEW c \in Branches, NEW i \in 1..MaxHints, NEW j \in 1..MaxHints,
           Child(b, i) = Child(c, j)
    PROVE  b = c /\ i = j
  BY BranchShape, AppendInjective DEF Child
----------------------------------------------------------------------------
(* The limiter's queue, which holds nobody twice.                          *)
Once(q) == \A i, j \in DOMAIN q : q[i] = q[j] => i = j

LEMMA Enqueued ==
    ASSUME NEW S, NEW q \in Seq(S), NEW b \in S, b \notin Visited(q), Once(q)
    PROVE  /\ Append(q, b) \in Seq(S) /\ Append(q, b) # <<>>
           /\ Visited(Append(q, b)) = Visited(q) \cup {b} /\ Once(Append(q, b))
<1> DEFINE r == Append(q, b)
<1>1. /\ r \in Seq(S) /\ r # <<>> /\ DOMAIN r = 1..(Len(q) + 1)
      /\ Len(q) \in Nat /\ DOMAIN q = 1..Len(q)
      /\ \A i \in 1..Len(q) : r[i] = q[i]
      /\ r[Len(q) + 1] = b
  BY AppendProperties, LenProperties
<1> HIDE DEF r
<1>2. Visited(r) = Visited(q) \cup {b}
  <2>1. \A x \in Visited(r) : x \in Visited(q) \cup {b}
    <3> SUFFICES ASSUME NEW i \in 1..(Len(q) + 1) PROVE r[i] \in Visited(q) \cup {b}
      BY <1>1 DEF Visited
    <3> QED
      BY <1>1 DEF Visited
  <2>2. \A x \in Visited(q) : x \in Visited(r)
    BY <1>1 DEF Visited
  <2>3. b \in Visited(r)
    BY <1>1 DEF Visited
  <2> QED
    BY <2>1, <2>2, <2>3
<1>3. Once(r)
  <2> SUFFICES ASSUME NEW i \in 1..(Len(q) + 1), NEW j \in 1..(Len(q) + 1), r[i] = r[j]
               PROVE  i = j
    BY <1>1 DEF Once
  <2>1. \A k \in 1..Len(q) : r[k] \in Visited(q)
    BY <1>1 DEF Visited
  <2> QED
    BY <1>1, <2>1 DEF Once
<1> QED
  BY <1>1, <1>2, <1>3 DEF r

LEMMA Dequeued ==
    ASSUME NEW S, NEW q \in Seq(S), q # <<>>, Once(q)
    PROVE  /\ Tail(q) \in Seq(S) /\ Head(q) \in S /\ Head(q) \in Visited(q)
           /\ Visited(Tail(q)) = Visited(q) \ {Head(q)} /\ Once(Tail(q))
<1> DEFINE r == Tail(q)
<1>1. /\ r \in Seq(S) /\ DOMAIN r = 1..(Len(q) - 1) /\ Len(q) \in Nat \ {0}
      /\ DOMAIN q = 1..Len(q) /\ Head(q) = q[1] /\ Head(q) \in S
      /\ \A i \in 1..(Len(q) - 1) : r[i] = q[i + 1]
  BY HeadTailProperties, LenProperties, EmptySeq
<1> HIDE DEF r
<1>2. Head(q) \in Visited(q)
  BY <1>1 DEF Visited
<1>3. Visited(r) = Visited(q) \ {Head(q)}
  <2>1. ASSUME NEW i \in 1..(Len(q) - 1) PROVE r[i] \in Visited(q) \ {Head(q)}
    BY <1>1 DEF Visited, Once
  <2>2. ASSUME NEW i \in 1..Len(q), q[i] # Head(q) PROVE q[i] \in Visited(r)
    <3>1. i - 1 \in 1..(Len(q) - 1) /\ q[i] = r[i - 1]
      BY <1>1, <2>2
    <3> QED
      BY <1>1, <3>1 DEF Visited
  <2>3. Visited(r) = {r[i] : i \in 1..(Len(q) - 1)} /\ Visited(q) = {q[i] : i \in 1..Len(q)}
    BY <1>1 DEF Visited
  <2> QED
    BY <2>1, <2>2, <2>3
<1>4. Once(r)
  <2> SUFFICES ASSUME NEW i \in 1..(Len(q) - 1), NEW j \in 1..(Len(q) - 1), r[i] = r[j]
               PROVE  i = j
    BY <1>1 DEF Once
  <2>1. i + 1 \in DOMAIN q /\ j + 1 \in DOMAIN q /\ q[i + 1] = q[j + 1]
    BY <1>1
  <2>2. i + 1 = j + 1
    BY <2>1 DEF Once
  <2> QED
    BY <2>2
<1> QED
  BY <1>1, <1>2, <1>3, <1>4 DEF r

LEMMA SlotsShape ==
    Slots <=> /\ active = Cardinality(Holders) /\ active <= MaxConcurrent
              /\ Visited(queue) = Waiting /\ Once(queue)
              /\ queue # <<>> => active = MaxConcurrent /\ listening /\ ~aborted
              /\ IsFiniteSet(Holders) /\ IsFiniteSet(Reserved)
  BY DEF Slots, LimiterSound, Once

LEMMA SlotsShapePrimed ==
    Slots' <=> /\ active' = Cardinality(Holders') /\ active' <= MaxConcurrent
               /\ Visited(queue') = Waiting' /\ Once(queue')
               /\ queue' # <<>> => active' = MaxConcurrent /\ listening' /\ ~aborted'
               /\ IsFiniteSet(Holders') /\ IsFiniteSet(Reserved')
  BY DEF Slots, LimiterSound, Once, Visited

(* A step that moves a branch neither into the limiter nor out of it.      *)
LEMMA SlotsKept ==
    ASSUME TypeOK, Slots, UNCHANGED <<limiter, aborted>>,
           \/ pc' = pc
           \/ \E b \in Branches, to \in {"done", "joining"} :
                 /\ pc[b] \notin Holding \cup {"queued"} /\ pc' = [pc EXCEPT ![b] = to]
    PROVE  Slots' /\ Reserved' = Reserved
<1>1. pc \in [Branches -> Live \cup Finished]
  BY DEF TypeOK
<1>2. Holders' = Holders /\ Waiting' = Waiting /\ Reserved' = Reserved
  <2>1. \A b \in Branches : /\ pc'[b] \in Holding <=> pc[b] \in Holding
                            /\ pc'[b] = "queued" <=> pc[b] = "queued"
                            /\ pc'[b] = "granted" <=> pc[b] = "granted"
    BY <1>1 DEF Holding
  <2> QED
    BY <2>1 DEF Holders, Waiting, Reserved
<1>3. UNCHANGED <<active, queue, listening, aborted>>
  BY DEF limiter
<1> QED
  BY <1>2, <1>3, SlotsShape, SlotsShapePrimed

(* acquire: one unit at most is reserved, and the count is the holders'.   *)
LEMMA SlotsAcquired ==
    ASSUME TypeOK, Slots, NEW b \in Branches, pc[b] \in {"unborn", "got"},
           Acquire(b), aborted' = aborted
    PROVE  /\ Slots' /\ Cardinality(Reserved') <= Cardinality(Reserved) + 1
           /\ queue' \in Seq(Branches) /\ active' \in Nat /\ listening' \in BOOLEAN
           /\ \E to \in {"rejected", "granted", "queued"} : pc' = [pc EXCEPT ![b] = to]
<1>1. /\ pc \in [Branches -> Live \cup Finished] /\ queue \in Seq(Branches) /\ active \in Nat
      /\ listening \in BOOLEAN /\ aborted \in BOOLEAN /\ MaxConcurrent \in Nat
  BY LimitAssumption DEF TypeOK
<1>2. /\ b \notin Holders /\ b \notin Waiting /\ b \notin Reserved
      /\ b \notin Visited(queue)
  BY SlotsShape DEF Holders, Waiting, Reserved, Holding
<1>3. /\ IsFiniteSet(Holders \cup {b}) /\ Cardinality(Holders \cup {b}) = active + 1
      /\ IsFiniteSet(Reserved \cup {b})
      /\ Cardinality(Reserved \cup {b}) = Cardinality(Reserved) + 1
      /\ Cardinality(Reserved) \in Nat
  BY <1>2, SlotsShape, FS_AddElement, FS_CardinalityType
<1>4. CASE aborted /\ pc' = [pc EXCEPT ![b] = "rejected"] /\ UNCHANGED limiter
  <2>1. Holders' = Holders /\ Waiting' = Waiting /\ Reserved' = Reserved
    BY <1>1, <1>2, <1>4 DEF Holders, Waiting, Reserved, Holding
  <2>2. UNCHANGED <<active, queue, listening>>
    BY <1>4 DEF limiter
  <2> QED
    BY <1>1, <1>3, <1>4, <2>1, <2>2, SlotsShape, SlotsShapePrimed
<1>5. CASE /\ ~aborted /\ active < MaxConcurrent /\ pc' = [pc EXCEPT ![b] = "granted"]
           /\ active' = active + 1 /\ UNCHANGED <<queue, listening>>
  <2>1. Holders' = Holders \cup {b} /\ Waiting' = Waiting /\ Reserved' = Reserved \cup {b}
    BY <1>1, <1>2, <1>5 DEF Holders, Waiting, Reserved, Holding
  <2>2. queue = <<>>
    <3>1. active # MaxConcurrent
      BY <1>1, <1>5
    <3> QED
      BY <3>1, SlotsShape, Zenon
  <2>3. active' <= MaxConcurrent /\ active' \in Nat
    BY <1>1, <1>5
  <2> QED
    BY <1>1, <1>3, <1>5, <2>1, <2>2, <2>3, SlotsShape, SlotsShapePrimed
<1>6. CASE /\ ~aborted /\ active >= MaxConcurrent /\ pc' = [pc EXCEPT ![b] = "queued"]
           /\ queue' = Append(queue, b) /\ listening' = (listening \/ queue = <<>>)
           /\ UNCHANGED active
  <2>1. Holders' = Holders /\ Waiting' = Waiting \cup {b} /\ Reserved' = Reserved \cup {b}
    BY <1>1, <1>2, <1>6 DEF Holders, Waiting, Reserved, Holding
  <2>2. /\ queue' \in Seq(Branches) /\ queue' # <<>> /\ Once(queue')
        /\ Visited(queue') = Visited(queue) \cup {b}
    BY <1>1, <1>2, <1>6, SlotsShape, Enqueued
  <2>3. active' = MaxConcurrent /\ listening'
    <3>1. active <= MaxConcurrent /\ (queue # <<>> => listening)
      BY SlotsShape, Zenon
    <3>2. listening'
      BY <1>6, <3>1, Zenon
    <3> QED
      BY <1>1, <1>6, <3>1, <3>2
  <2> QED
    BY <1>1, <1>3, <1>6, <2>1, <2>2, <2>3, SlotsShape, SlotsShapePrimed
<1> QED
  BY <1>4, <1>5, <1>6 DEF Acquire

(* release: the slot passes to the first waiter or is given back.          *)
LEMMA SlotsReleased ==
    ASSUME TypeOK, Slots, NEW b \in Branches, pc[b] \in Holding,
           NEW to \in {"done", "rejected", "got"}, Release(b, to), aborted' = aborted
    PROVE  /\ Slots' /\ Cardinality(Reserved') <= Cardinality(Reserved)
           /\ pc[b] = "granted" => Cardinality(Reserved') = Cardinality(Reserved) - 1
           /\ queue' \in Seq(Branches) /\ active' \in Nat /\ listening' \in BOOLEAN
           /\ pc' \in [Branches -> Live \cup Finished] /\ pc'[b] = to
           /\ \A c \in Branches \ {b} :
                 \/ pc'[c] = pc[c]
                 \/ pc[c] = "queued" /\ pc'[c] = "granted"
<1>1. /\ pc \in [Branches -> Live \cup Finished] /\ queue \in Seq(Branches) /\ active \in Nat
      /\ listening \in BOOLEAN /\ aborted \in BOOLEAN /\ MaxConcurrent \in Nat
  BY LimitAssumption DEF TypeOK
<1>2. b \in Holders /\ b \notin Waiting
  BY DEF Holders, Waiting, Holding
<1>3. /\ IsFiniteSet(Holders \ {b}) /\ Cardinality(Holders \ {b}) = active - 1
      /\ IsFiniteSet(Reserved \ {b})
      /\ b \in Reserved => Cardinality(Reserved \ {b}) = Cardinality(Reserved) - 1
      /\ b \notin Reserved => Cardinality(Reserved \ {b}) = Cardinality(Reserved)
      /\ Cardinality(Reserved) \in Nat /\ Cardinality(Holders) \in Nat
      /\ Cardinality(Holders) # 0
  BY <1>2, SlotsShape, FS_RemoveElement, FS_CardinalityType, FS_EmptySet
<1>4. b \in Reserved <=> pc[b] = "granted"
  BY <1>2 DEF Reserved, Waiting
<1>5. CASE /\ queue # <<>> /\ pc' = [pc EXCEPT ![b] = to, ![Head(queue)] = "granted"]
           /\ queue' = Tail(queue) /\ listening' = (listening /\ Tail(queue) # <<>>)
           /\ UNCHANGED active
  <2> DEFINE h == Head(queue)
  <2>1. /\ Tail(queue) \in Seq(Branches) /\ h \in Branches /\ h \in Visited(queue)
        /\ Visited(Tail(queue)) = Visited(queue) \ {h} /\ Once(Tail(queue))
    BY <1>1, <1>5, SlotsShape, Dequeued
  <2> HIDE DEF h
  <2>2. h \in Waiting /\ pc[h] = "queued" /\ h # b /\ h \notin Holders
    BY <1>2, <2>1, SlotsShape DEF Waiting, Holders, Holding
  <2>3. /\ pc' \in [Branches -> Live \cup Finished] /\ pc'[b] = to /\ pc'[h] = "granted"
        /\ \A c \in Branches \ {b, h} : pc'[c] = pc[c]
    <3>1. pc' = [pc EXCEPT ![b] = to, ![h] = "granted"]
      BY <1>5 DEF h
    <3> QED
      BY <1>1, <2>1, <2>2, <3>1 DEF Live, Finished
  <2>4. Waiting' = Waiting \ {h}
    BY <1>2, <2>1, <2>2, <2>3 DEF Waiting
  <2>5. Holders' = (Holders \ {b}) \cup {h}
    BY <2>1, <2>2, <2>3 DEF Holders, Holding
  <2>6. Reserved' = Reserved \ {b}
    <3>1. h \in Reserved
      BY <2>2 DEF Reserved
    <3>2. \A c \in Branches : c \in Reserved <=> pc[c] \in {"queued", "granted"}
      BY DEF Reserved, Waiting
    <3>3. \A c \in Branches : c \in Reserved' <=> pc'[c] \in {"queued", "granted"}
      BY DEF Reserved, Waiting
    <3>4. Reserved \subseteq Branches /\ Reserved' \subseteq Branches
      BY DEF Reserved, Waiting
    <3> QED
      BY <2>2, <2>3, <3>1, <3>2, <3>3, <3>4
  <2>7. IsFiniteSet(Holders') /\ Cardinality(Holders') = active
    <3>1. h \notin Holders \ {b}
      BY <2>2
    <3>2. /\ IsFiniteSet((Holders \ {b}) \cup {h})
          /\ Cardinality((Holders \ {b}) \cup {h}) = Cardinality(Holders \ {b}) + 1
      BY <1>3, <3>1, FS_AddElement
    <3> QED
      BY <1>1, <1>3, <2>5, <3>2
  <2>8. active = MaxConcurrent /\ listening /\ ~aborted
    BY <1>5, SlotsShape, Zenon
  <2>9. /\ Visited(queue') = Waiting' /\ Once(queue') /\ queue' \in Seq(Branches)
        /\ queue' # <<>> => active' = MaxConcurrent /\ listening' /\ ~aborted'
    BY <1>5, <2>1, <2>4, <2>8, SlotsShape
  <2>10. Slots'
    <3>1. active' = Cardinality(Holders') /\ active' <= MaxConcurrent
      BY <1>1, <1>5, <2>7, <2>8
    <3>2. IsFiniteSet(Reserved')
      BY <1>3, <2>6
    <3> QED
      BY <2>7, <2>9, <3>1, <3>2, SlotsShapePrimed, Zenon
  <2>11. \A c \in Branches \ {b} : pc'[c] = pc[c] \/ (pc[c] = "queued" /\ pc'[c] = "granted")
    BY <2>2, <2>3
  <2> QED
    BY <1>1, <1>3, <1>4, <1>5, <2>1, <2>3, <2>6, <2>10, <2>11, SMTT(30)
<1>6. CASE /\ queue = <<>> /\ pc' = [pc EXCEPT ![b] = to] /\ active' = active - 1
           /\ listening' = FALSE /\ UNCHANGED queue
  <2>1. /\ pc' \in [Branches -> Live \cup Finished] /\ pc'[b] = to
        /\ \A c \in Branches \ {b} : pc'[c] = pc[c]
    BY <1>1, <1>6 DEF Live, Finished
  <2>2. /\ Holders' = Holders \ {b} /\ Waiting' = Waiting /\ Reserved' = Reserved \ {b}
    BY <1>2, <2>1 DEF Holders, Waiting, Reserved, Holding
  <2>3. active' \in Nat /\ active' <= MaxConcurrent
    BY <1>1, <1>3, <1>6, SlotsShape
  <2>4. Slots'
    <3>1. active' = Cardinality(Holders') /\ IsFiniteSet(Holders') /\ IsFiniteSet(Reserved')
      BY <1>3, <1>6, <2>2
    <3>2. Visited(queue') = Waiting' /\ Once(queue') /\ queue' = <<>>
      BY <1>6, <2>2, SlotsShape
    <3> QED
      BY <2>3, <3>1, <3>2, SlotsShapePrimed, Zenon
  <2>5. /\ Cardinality(Reserved') <= Cardinality(Reserved)
        /\ pc[b] = "granted" => Cardinality(Reserved') = Cardinality(Reserved) - 1
    BY <1>3, <1>4, <2>2
  <2>6. queue' \in Seq(Branches) /\ listening' \in BOOLEAN
    BY <1>1, <1>6
  <2> QED
    BY <2>1, <2>3, <2>4, <2>5, <2>6
<1> QED
  BY <1>5, <1>6 DEF Release
----------------------------------------------------------------------------
(* The branches above a branch, and above its children.                    *)
LEMMA Above ==
    ASSUME NEW b \in Branches
    PROVE  \A n \in 0..Len(b) : SubSeq(b, 1, n) \in Branches /\ Len(SubSeq(b, 1, n)) = n
<1>1. b \in Seq(1..MaxHints) /\ Len(b) \in Nat /\ Len(b) <= MaxDepth
  BY BranchShape
<1> SUFFICES ASSUME NEW n \in 0..Len(b)
             PROVE  SubSeq(b, 1, n) \in Branches /\ Len(SubSeq(b, 1, n)) = n
  OBVIOUS
<1>2. \A i \in 1..n : b[i] \in 1..MaxHints
  <2>1. b \in [1..Len(b) -> 1..MaxHints]
    BY <1>1, LenProperties
  <2> QED
    BY <1>1, <2>1
<1>3. SubSeq(b, 1, n) \in Seq(1..MaxHints) /\ Len(SubSeq(b, 1, n)) = n
  BY <1>1, <1>2, SubSeqProperties
<1>4. n <= MaxDepth
  BY <1>1, LimitAssumption
<1> QED
  BY <1>3, <1>4, BranchShape, Zenon

LEMMA AboveChild ==
    ASSUME NEW b \in Branches, NEW i \in 1..MaxHints
    PROVE  /\ \A n \in 0..(Len(b) - 1) : SubSeq(Child(b, i), 1, n) = SubSeq(b, 1, n)
           /\ SubSeq(Child(b, i), 1, Len(b)) = b
<1>1. b \in Seq(1..MaxHints) /\ Len(b) \in Nat
  BY BranchShape
<1>2. /\ Child(b, i) \in Seq(1..MaxHints) /\ Len(Child(b, i)) = Len(b) + 1
      /\ \A j \in 1..Len(b) : Child(b, i)[j] = b[j]
  BY <1>1, AppendProperties DEF Child
<1>3. ASSUME NEW n \in 0..Len(b) PROVE SubSeq(Child(b, i), 1, n) = SubSeq(b, 1, n)
  <2> DEFINE c == Child(b, i)
  <2> HIDE DEF c
  <2>1. \A j \in 1..n : c[j] = b[j] /\ c[j] \in 1..MaxHints
    <3>1. b \in [1..Len(b) -> 1..MaxHints]
      BY <1>1, LenProperties
    <3> QED
      BY <1>1, <1>2, <3>1 DEF c
  <2>2. /\ SubSeq(c, 1, n) \in Seq(1..MaxHints) /\ Len(SubSeq(c, 1, n)) = n
        /\ \A j \in 1..n : SubSeq(c, 1, n)[j] = c[j]
    BY <1>1, <2>1, SubSeqProperties
  <2>3. /\ SubSeq(b, 1, n) \in Seq(1..MaxHints) /\ Len(SubSeq(b, 1, n)) = n
        /\ \A j \in 1..n : SubSeq(b, 1, n)[j] = b[j]
    BY <1>1, <2>1, SubSeqProperties
  <2>4. SubSeq(c, 1, n) = SubSeq(b, 1, n)
    BY <2>1, <2>2, <2>3, SeqEqual
  <2> QED
    BY <2>4 DEF c
<1>4. SubSeq(b, 1, Len(b)) = b
  BY <1>1, SubSeqFull
<1> QED
  BY <1>1, <1>3, <1>4

(* The branch one level below b on the way to c.                           *)
LEMMA Below ==
    ASSUME NEW b \in Branches, NEW c \in Branches, Len(b) < Len(c), b = SubSeq(c, 1, Len(b))
    PROVE  \E i \in 1..MaxHints : Child(b, i) = SubSeq(c, 1, Len(b) + 1)
<1>1. /\ b \in Seq(1..MaxHints) /\ Len(b) \in Nat
      /\ c \in Seq(1..MaxHints) /\ Len(c) \in Nat
  BY BranchShape
<1> DEFINE n == Len(b)
           i == c[n + 1]
<1>2. i \in 1..MaxHints /\ \A j \in 1..(n + 1) : c[j] \in 1..MaxHints
  <2>1. c \in [1..Len(c) -> 1..MaxHints]
    BY <1>1, LenProperties
  <2> QED
    BY <1>1, <2>1
<1>3. /\ SubSeq(c, 1, n + 1) \in Seq(1..MaxHints) /\ Len(SubSeq(c, 1, n + 1)) = n + 1
      /\ \A j \in 1..(n + 1) : SubSeq(c, 1, n + 1)[j] = c[j]
  BY <1>1, <1>2, SubSeqProperties
<1>4. \A j \in 1..n : b[j] = c[j]
  <2>1. \A j \in 1..n : SubSeq(c, 1, n)[j] = c[j]
    BY <1>1, <1>2, SubSeqProperties
  <2> QED
    BY <2>1
<1>5. /\ Append(b, i) \in Seq(1..MaxHints) /\ Len(Append(b, i)) = n + 1
      /\ \A j \in 1..n : Append(b, i)[j] = b[j]
      /\ Append(b, i)[n + 1] = i
  BY <1>1, <1>2, AppendProperties
<1>6. ASSUME NEW j \in 1..(n + 1) PROVE Append(b, i)[j] = SubSeq(c, 1, n + 1)[j]
  BY <1>1, <1>3, <1>4, <1>5
<1>7. Append(b, i) = SubSeq(c, 1, n + 1)
  BY <1>3, <1>5, <1>6, SeqEqual
<1> QED
  BY <1>2, <1>7 DEF Child
----------------------------------------------------------------------------
(* A step in which live branches move on or settle, and nothing is born.   *)
Moving == {"queued", "granted", "fetching", "got"}
LEMMA TreeKept ==
    ASSUME TypeOK, Tree, UNCHANGED <<phase, path, cursor, next>>,
           pc' \in [Branches -> Live \cup Finished],
           \A b \in Branches : \/ pc'[b] = pc[b]
                               \/ /\ pc[b] \in Moving
                                  /\ pc'[b] \in Moving \cup {"rejected", "done"}
    PROVE  Tree'
<1>1. \A b \in Branches : /\ pc[b] \notin Live => pc'[b] = pc[b]
                          /\ pc[b] = "joining" => pc'[b] = "joining"
                          /\ pc'[b] = "unborn" <=> pc[b] = "unborn"
                          /\ pc'[b] \in Live => pc[b] \in Live
                          /\ pc'[b] \in Live \cup {"rejected"} => pc[b] \in Live \cup {"rejected"}
  BY DEF Live, Moving
<1>2. Begun' /\ OnlyWalking'
  BY <1>1 DEF Tree, Begun, OnlyWalking, Quiet
<1>3. RootPlace'
  BY BranchShape DEF Tree, RootPlace, Moving
<1>4. Births'
  <2> SUFFICES ASSUME NEW b \in Branches, NEW i \in 1..MaxHints, Child(b, i) \in Branches,
                      pc'[Child(b, i)] # "unborn"
               PROVE  pc'[b] \in {"joining", "done"}
    BY DEF Births, Child
  <2>1. pc[b] \in {"joining", "done"}
    BY <1>1 DEF Tree, Births
  <2> QED
    BY <1>1, <2>1 DEF Live
<1>5. Looping'
  <2> SUFFICES ASSUME cursor # None
               PROVE  /\ pc'[cursor] = "joining" /\ Len(cursor) < MaxDepth
                      /\ \A i \in next..MaxHints : pc'[Child(cursor, i)] = "unborn"
    BY DEF Looping, Child
  <2>1. /\ cursor \in Branches /\ next \in Nat \ {0} /\ pc[cursor] = "joining"
        /\ Len(cursor) < MaxDepth
        /\ \A i \in next..MaxHints : pc[Child(cursor, i)] = "unborn"
    BY DEF TypeOK, Tree, Looping
  <2>2. \A i \in next..MaxHints : Child(cursor, i) \in Branches
    BY <2>1, ChildShape, LimitAssumption
  <2> QED
    BY <1>1, <2>1, <2>2
<1>6. Depths'
  BY <1>1 DEF Tree, Depths
<1>7. Awaited'
  <2> SUFFICES ASSUME NEW b \in Branches, pc'[b] \in Live, NEW n \in 0..(Len(b) - 1)
               PROVE  pc'[SubSeq(b, 1, n)] = "joining"
    BY DEF Awaited
  <2>1. pc[SubSeq(b, 1, n)] = "joining"
    BY <1>1 DEF Tree, Awaited
  <2>2. SubSeq(b, 1, n) \in Branches
    BY Above, BranchShape
  <2> QED
    BY <1>1, <2>1, <2>2
<1> QED
  BY <1>2, <1>3, <1>4, <1>5, <1>6, <1>7 DEF Tree

(* buildChains is entered for b: it returns, or its loop begins.           *)
LEMMA TreeEntered ==
    ASSUME TypeOK, Tree, NEW b \in Branches, cursor = None,
           pc[b] = "got" \/ (b = Root /\ pc[b] = "unborn"),
           UNCHANGED path, phase' = "walking",
           \/ pc' = [pc EXCEPT ![b] = "done"] /\ UNCHANGED <<cursor, next>>
           \/ /\ pc' = [pc EXCEPT ![b] = "joining"] /\ cursor' = b /\ next' = 1
              /\ Len(path[b]) <= env.maxDepth
    PROVE  Tree'
<1>1. pc \in [Branches -> Live \cup Finished] /\ env \in Scenarios /\ None \notin Branches
  BY NoneAssumption DEF TypeOK
<1>2. /\ pc'[b] \in {"done", "joining"}
      /\ \A c \in Branches \ {b} : pc'[c] = pc[c]
      /\ pc' \in [Branches -> Live \cup Finished]
  BY <1>1 DEF Live, Finished
<1>3. Len(path[b]) = Len(b) + 1 /\ Len(b) \in Nat
  <2>1. CASE pc[b] = "got"
    BY <2>1, BranchShape DEF Tree, Depths, Live
  <2>2. CASE b = Root
    <3>1. path[b] = <<Leaf>> /\ Len(b) = 0
      BY <2>2, BranchShape, Zenon DEF Tree, RootPlace
    <3>2. Len(<<Leaf>>) = 1
      OBVIOUS
    <3> QED
      BY <3>1, <3>2
  <2> QED
    BY <2>1, <2>2
<1>4. \A i \in 1..MaxHints : Child(b, i) \in Branches => pc[Child(b, i)] = "unborn"
  BY DEF Tree, Births
<1>5. \A c \in Branches : pc[c] \in {"joining", "done"} => pc'[c] = pc[c]
  BY <1>2
<1>6. Begun' /\ OnlyWalking'
  BY DEF Begun, OnlyWalking
<1>7. RootPlace'
  BY <1>2, BranchShape DEF Tree, RootPlace
<1>8. Births'
  <2> SUFFICES ASSUME NEW c \in Branches, NEW i \in 1..MaxHints, Child(c, i) \in Branches,
                      pc'[Child(c, i)] # "unborn"
               PROVE  pc'[c] \in {"joining", "done"}
    BY DEF Births, Child
  <2>1. CASE c = b
    BY <1>2, <2>1
  <2>2. CASE c # b /\ Child(c, i) # b
    <3>1. pc[Child(c, i)] # "unborn"
      BY <1>2, <2>2
    <3>2. pc[c] \in {"joining", "done"}
      BY <3>1 DEF Tree, Births
    <3> QED
      BY <1>5, <3>2
  <2>3. CASE Child(c, i) = b
    <3>1. b # Root
      BY <2>3, ChildShape
    <3>2. pc[b] # "unborn"
      BY <3>1
    <3>3. pc[c] \in {"joining", "done"}
      BY <2>3, <3>2 DEF Tree, Births
    <3> QED
      BY <1>5, <3>3
  <2> QED
    BY <2>1, <2>2, <2>3
<1>9. Looping'
  <2> SUFFICES ASSUME cursor' # None
               PROVE  /\ pc'[cursor'] = "joining" /\ Len(cursor') < MaxDepth
                      /\ \A i \in (next')..MaxHints : pc'[Child(cursor', i)] = "unborn"
    BY DEF Looping, Child
  <2>1. /\ pc' = [pc EXCEPT ![b] = "joining"] /\ cursor' = b /\ next' = 1
        /\ Len(path[b]) <= env.maxDepth
    OBVIOUS
  <2>2. env.maxDepth \in 0..MaxDepth /\ MaxDepth \in Nat
    BY <1>1, ScenarioAssumption, LimitAssumption
  <2>3. Len(b) < MaxDepth
    BY <1>3, <2>1, <2>2
  <2>4. \A i \in 1..MaxHints : Child(b, i) \in Branches /\ Child(b, i) # b
    BY <2>3, ChildShape
  <2> QED
    BY <1>1, <1>2, <1>4, <2>1, <2>3, <2>4
<1>10. Depths'
  BY <1>2, <1>3 DEF Tree, Depths
<1>11. Awaited'
  <2> SUFFICES ASSUME NEW c \in Branches, pc'[c] \in Live, NEW n \in 0..(Len(c) - 1)
               PROVE  pc'[SubSeq(c, 1, n)] = "joining"
    BY DEF Awaited
  <2>1. SubSeq(c, 1, n) \in Branches /\ Len(c) # 0
    BY Above, BranchShape
  <2>2. pc[c] \in Live
    BY <1>2, <2>1, BranchShape DEF Live
  <2>3. pc[SubSeq(c, 1, n)] = "joining"
    BY <2>2 DEF Tree, Awaited
  <2> QED
    BY <1>5, <2>1, <2>3
<1> QED
  BY <1>6, <1>7, <1>8, <1>9, <1>10, <1>11 DEF Tree

(* The loop starts, or skips, the branch of one hint.                      *)
LEMMA TreeBorn ==
    ASSUME TypeOK, Tree, cursor # None, next \in 1..MaxHints,
           NEW to \in {"unborn", "done", "rejected", "granted", "queued"},
           pc' = [pc EXCEPT ![Child(cursor, next)] = to],
           \/ UNCHANGED path /\ to \in {"unborn", "done"}
           \/ \E hint \in Entities :
                 path' = [path EXCEPT ![Child(cursor, next)] = Append(path[cursor], hint)],
           UNCHANGED <<phase, cursor>>, next' = next + 1
    PROVE  Tree'
<1> DEFINE c == Child(cursor, next)
<1>1. /\ pc \in [Branches -> Live \cup Finished] /\ path \in [Branches -> Seq(Entities)]
      /\ cursor \in Branches /\ pc[cursor] = "joining" /\ Len(cursor) < MaxDepth
      /\ \A i \in next..MaxHints : pc[Child(cursor, i)] = "unborn"
      /\ phase = "walking" /\ Len(path[cursor]) = Len(cursor) + 1 /\ Len(cursor) \in Nat
  BY BranchShape DEF TypeOK, Tree, Looping, OnlyWalking, Quiet, Depths, Live
<1>2. c \in Branches /\ Len(c) = Len(cursor) + 1 /\ c # Root /\ c # cursor /\ pc[c] = "unborn"
  <2>1. next \in next..MaxHints
    BY LimitAssumption
  <2>2. pc[c] = "unborn"
    BY <1>1, <2>1
  <2>3. c \in Branches /\ Len(c) = Len(cursor) + 1 /\ c # Root /\ c # cursor
    BY <1>1, ChildShape
  <2> QED
    BY <2>2, <2>3
<1>3. \A n \in 0..(Len(c) - 1) : SubSeq(c, 1, n) =
         IF n = Len(cursor) THEN cursor ELSE SubSeq(cursor, 1, n)
  <2>1. /\ \A n \in 0..(Len(cursor) - 1) : SubSeq(c, 1, n) = SubSeq(cursor, 1, n)
        /\ SubSeq(c, 1, Len(cursor)) = cursor
    BY <1>1, AboveChild
  <2> HIDE DEF c
  <2>2. SUFFICES ASSUME NEW n \in 0..(Len(c) - 1)
                 PROVE  SubSeq(c, 1, n) = IF n = Len(cursor) THEN cursor ELSE SubSeq(cursor, 1, n)
    OBVIOUS
  <2>3. n = Len(cursor) \/ n \in 0..(Len(cursor) - 1)
    BY <1>1, <1>2
  <2>4. CASE n = Len(cursor)
    BY <2>1, <2>4, Zenon
  <2>5. CASE n \in 0..(Len(cursor) - 1)
    <3>1. n # Len(cursor)
      BY <1>1, <2>5
    <3> QED
      BY <2>1, <2>5, <3>1, Zenon
  <2> QED
    BY <2>3, <2>4, <2>5
<1> HIDE DEF c
<1>4. pc'[c] = to /\ \A b \in Branches \ {c} : pc'[b] = pc[b]
  BY <1>1, <1>2 DEF c
<1>5. \A b \in Branches \ {c} : path'[b] = path[b]
  BY <1>1, <1>2 DEF c
<1>6. to \notin {"unborn", "done"} => Len(path'[c]) = Len(c) + 1
  <2> SUFFICES ASSUME NEW hint \in Entities, path' = [path EXCEPT ![c] = Append(path[cursor], hint)]
               PROVE  Len(path'[c]) = Len(c) + 1
    BY DEF c
  <2>1. path'[c] = Append(path[cursor], hint) /\ path[cursor] \in Seq(Entities)
    BY <1>1, <1>2
  <2>2. Len(Append(path[cursor], hint)) = Len(path[cursor]) + 1
    BY <2>1, AppendProperties
  <2> QED
    BY <1>1, <1>2, <2>1, <2>2
<1>7. Begun' /\ OnlyWalking'
  BY <1>1 DEF Begun, OnlyWalking
<1>8. RootPlace'
  BY <1>2, <1>4, <1>5, BranchShape DEF Tree, RootPlace
<1>9. Births'
  <2> SUFFICES ASSUME NEW b \in Branches, NEW i \in 1..MaxHints, Child(b, i) \in Branches,
                      pc'[Child(b, i)] # "unborn"
               PROVE  pc'[b] \in {"joining", "done"}
    BY DEF Births, Child
  <2>1. CASE Child(b, i) = c
    <3>1. b = cursor
      BY <1>1, <2>1, ChildrenDiffer DEF c
    <3> QED
      BY <1>1, <1>2, <1>4, <3>1
  <2>2. CASE Child(b, i) # c
    <3>1. pc[b] \in {"joining", "done"}
      BY <1>4, <2>2 DEF Tree, Births
    <3>2. b # c
      BY <1>2, <3>1
    <3> QED
      BY <1>4, <3>1, <3>2
  <2> QED
    BY <2>1, <2>2
<1>10. Looping'
  <2> SUFFICES /\ pc'[cursor] = "joining" /\ Len(cursor) < MaxDepth
               /\ \A i \in (next + 1)..MaxHints : pc'[Child(cursor, i)] = "unborn"
    BY DEF Looping, Child
  <2>1. ASSUME NEW i \in (next + 1)..MaxHints PROVE pc'[Child(cursor, i)] = "unborn"
    <3>1. i \in 1..MaxHints /\ i \in next..MaxHints /\ i # next
      BY LimitAssumption
    <3>2. Child(cursor, i) \in Branches
      BY <1>1, <3>1, ChildShape
    <3>3. Child(cursor, i) # c
      BY <1>1, <3>1, ChildrenDiffer DEF c
    <3> QED
      BY <1>1, <1>4, <3>1, <3>2, <3>3
  <2> QED
    BY <1>1, <1>2, <1>4, <2>1
<1>11. Depths'
  <2> SUFFICES ASSUME NEW b \in Branches, pc'[b] \in Live \cup {"rejected"}
               PROVE  Len(path'[b]) = Len(b) + 1
    BY DEF Depths
  <2>1. CASE b = c
    BY <1>4, <1>6, <2>1 DEF Live
  <2>2. CASE b # c
    BY <1>4, <1>5, <2>2 DEF Tree, Depths
  <2> QED
    BY <2>1, <2>2
<1>12. Awaited'
  <2> SUFFICES ASSUME NEW b \in Branches, pc'[b] \in Live, NEW n \in 0..(Len(b) - 1)
               PROVE  pc'[SubSeq(b, 1, n)] = "joining"
    BY DEF Awaited
  <2>1. \A x \in Branches : pc[x] = "joining" => pc'[x] = "joining"
    BY <1>2, <1>4
  <2>2. SubSeq(b, 1, n) \in Branches
    BY Above, BranchShape
  <2>3. CASE b # c
    <3>1. pc[SubSeq(b, 1, n)] = "joining"
      BY <1>4, <2>3 DEF Tree, Awaited
    <3> QED
      BY <2>1, <2>2, <3>1
  <2>4. CASE b = c
    <3>1. CASE n = Len(cursor)
      BY <1>1, <1>3, <2>1, <2>4, <3>1
    <3>2. CASE n # Len(cursor)
      <4>1. n \in 0..(Len(cursor) - 1) /\ SubSeq(b, 1, n) = SubSeq(cursor, 1, n)
        BY <1>1, <1>2, <1>3, <2>4, <3>2
      <4>2. pc[SubSeq(cursor, 1, n)] = "joining"
        BY <1>1, <4>1 DEF Tree, Awaited, Live
      <4> QED
        BY <2>1, <2>2, <4>1, <4>2
    <3> QED
      BY <3>1, <3>2
  <2> QED
    BY <2>3, <2>4
<1> QED
  BY <1>7, <1>8, <1>9, <1>10, <1>11, <1>12 DEF Tree

(* buildChains returns from its branches: they have all settled.           *)
LEMMA TreeJoined ==
    ASSUME TypeOK, Tree, NEW b \in Branches, Join(b)
    PROVE  Tree'
<1>1. /\ pc \in [Branches -> Live \cup Finished] /\ pc[b] = "joining" /\ cursor = None
      /\ pc' = [pc EXCEPT ![b] = "done"] /\ UNCHANGED <<path, cursor, next>>
      /\ \A i \in 1..MaxHints : Child(b, i) \in Branches => pc[Child(b, i)] \in Finished
      /\ phase' = IF b = Root THEN "returned" ELSE phase
  BY DEF TypeOK, Join
<1>2. phase = "walking"
  BY <1>1 DEF Tree, OnlyWalking, Quiet, Live
<1>3. pc'[b] = "done" /\ \A c \in Branches \ {b} : pc'[c] = pc[c]
  BY <1>1
<1>4. ASSUME NEW c \in Branches, c # b, pc[c] \in Live, NEW n \in 0..(Len(c) - 1)
      PROVE  SubSeq(c, 1, n) # b
  <2> SUFFICES ASSUME SubSeq(c, 1, n) = b PROVE FALSE
    OBVIOUS
  <2>1. Len(b) = n /\ Len(c) \in Nat
    BY Above, BranchShape
  <2>2. PICK i \in 1..MaxHints : Child(b, i) = SubSeq(c, 1, n + 1)
    BY <2>1, Below
  <2>3. SubSeq(c, 1, n + 1) \in Branches
    BY <2>1, Above
  <2>4. pc[SubSeq(c, 1, n + 1)] \in Live
    <3>1. CASE n + 1 = Len(c)
      <4>1. SubSeq(c, 1, n + 1) = c
        BY <3>1, BranchShape, SubSeqFull
      <4> QED
        BY <1>4, <4>1
    <3>2. CASE n + 1 # Len(c)
      BY <1>4, <2>1, <3>2 DEF Tree, Awaited, Live
    <3> QED
      BY <3>1, <3>2
  <2> QED
    BY <1>1, <2>2, <2>3, <2>4 DEF Live, Finished
<1>5. Begun'
  BY <1>1, <1>2 DEF Begun
<1>6. OnlyWalking'
  <2>1. ASSUME b = Root, NEW c \in Branches PROVE pc'[c] \notin Live
    <3>1. CASE c = b
      BY <1>3, <3>1 DEF Live
    <3>2. CASE c # b
      <4>1. Len(c) \in Nat /\ Len(c) # 0 /\ SubSeq(c, 1, 0) = b
        BY <2>1, <3>2, BranchShape, Above
      <4>2. pc[c] \notin Live
        <5>1. 0 \in 0..(Len(c) - 1)
          BY <4>1
        <5> QED
          BY <1>4, <3>2, <4>1, <5>1
      <4> QED
        BY <1>3, <3>2, <4>2
    <3> QED
      BY <3>1, <3>2
  <2> QED
    BY <1>1, <1>2, <2>1 DEF OnlyWalking, Quiet
<1>7. RootPlace'
  BY <1>1, <1>3, BranchShape DEF Tree, RootPlace
<1>8. Births'
  <2> SUFFICES ASSUME NEW c \in Branches, NEW i \in 1..MaxHints, Child(c, i) \in Branches,
                      pc'[Child(c, i)] # "unborn"
               PROVE  pc'[c] \in {"joining", "done"}
    BY DEF Births, Child
  <2>1. pc[Child(c, i)] # "unborn"
    BY <1>1, <1>3
  <2>2. pc[c] \in {"joining", "done"}
    BY <2>1 DEF Tree, Births
  <2> QED
    BY <1>3, <2>2
<1>9. Looping'
  BY <1>1 DEF Looping
<1>10. Depths'
  BY <1>1, <1>3 DEF Tree, Depths, Live
<1>11. Awaited'
  <2> SUFFICES ASSUME NEW c \in Branches, pc'[c] \in Live, NEW n \in 0..(Len(c) - 1)
               PROVE  pc'[SubSeq(c, 1, n)] = "joining"
    BY DEF Awaited
  <2>1. c # b /\ pc[c] \in Live
    BY <1>3 DEF Live
  <2>2. SubSeq(c, 1, n) # b /\ pc[SubSeq(c, 1, n)] = "joining" /\ SubSeq(c, 1, n) \in Branches
    <3>1. n \in 0..Len(c)
      BY BranchShape
    <3>2. SubSeq(c, 1, n) \in Branches
      BY <3>1, Above
    <3>3. SubSeq(c, 1, n) # b
      BY <1>4, <2>1
    <3> QED
      BY <2>1, <3>2, <3>3 DEF Tree, Awaited
  <2> QED
    BY <1>3, <2>2
<1> QED
  BY <1>5, <1>6, <1>7, <1>8, <1>9, <1>10, <1>11 DEF Tree
----------------------------------------------------------------------------
(* The invariant, initially and through each action.                       *)
LEMMA BudgetShape ==
    /\ BudgetRespected <=> started + Cardinality(Reserved) + remaining <= env.maxTotalFetches
    /\ BudgetRespected' <=>
          started' + Cardinality(Reserved') + remaining' <= env'.maxTotalFetches
  BY DEF BudgetRespected, Reserved

LEMMA Sums ==
    ASSUME NEW s \in Nat, NEW c \in Nat, NEW r \in Nat, NEW s1 \in Nat, NEW c1 \in Nat,
           NEW r1 \in Nat, NEW k \in Int, NEW max \in Nat,
           s + c + r <= max, c1 <= c + k, s1 + r1 + k <= s + r
    PROVE  s1 + c1 + r1 <= max
  OBVIOUS

(* What is needed of the types of the budget.                              *)
LEMMA BudgetTypes ==
    ASSUME IInv
    PROVE  /\ remaining \in Nat /\ started \in Nat /\ Cardinality(Reserved) \in Nat
           /\ env \in Scenarios /\ env.maxTotalFetches \in Nat
           /\ started + Cardinality(Reserved) + remaining <= env.maxTotalFetches
<1>1. IsFiniteSet(Reserved)
  BY DEF IInv, Slots
<1>2. started + Cardinality(Reserved) + remaining <= env.maxTotalFetches
  BY BudgetShape DEF IInv
<1> QED
  BY <1>1, <1>2, FS_CardinalityType, ScenarioAssumption DEF IInv, TypeOK

(* A step that takes r units, and hands s fetches over, when the reserved  *)
(* units change accordingly.                                               *)
LEMMA BudgetKept ==
    ASSUME IInv, env' = env, Slots', remaining' \in Nat, started' \in Nat,
           NEW reserve \in Int, Cardinality(Reserved') <= Cardinality(Reserved) + reserve,
           started' + remaining' + reserve <= started + remaining
    PROVE  BudgetRespected'
<1>1. /\ remaining \in Nat /\ started \in Nat /\ Cardinality(Reserved) \in Nat
      /\ started + Cardinality(Reserved) + remaining <= env.maxTotalFetches
      /\ env.maxTotalFetches \in Nat
  BY BudgetTypes
<1>2. Cardinality(Reserved') \in Nat
  BY FS_CardinalityType, SlotsShapePrimed
<1>3. started' + Cardinality(Reserved') + remaining' <= env.maxTotalFetches
  BY <1>1, <1>2, Sums, ZenonT(30)
<1>4. env'.maxTotalFetches = env.maxTotalFetches
  OBVIOUS
<1> QED
  BY <1>3, <1>4, BudgetShape

LEMMA InitIInv == Init => IInv
<1> SUFFICES ASSUME Init PROVE IInv
  OBVIOUS
<1> USE DEF Init
<1>1. /\ pc = [b \in Branches |-> "unborn"] /\ path = [b \in Branches |-> <<Leaf>>]
      /\ Leaf \in Entities /\ Root \in Branches /\ env.maxTotalFetches \in Nat
  BY BranchShape, EntityAssumption, ScenarioAssumption
<1>2. TypeOK
  <2>1. /\ <<Leaf>> \in Seq(Entities) /\ <<>> \in Seq(Branches)
        /\ <<>> \in Seq(Seq(Entities)) /\ remaining \in Nat
    BY <1>1
  <2>2. /\ pc \in [Branches -> Live \cup Finished] /\ stage \in [Branches -> {"ec", "ss"}]
        /\ path \in [Branches -> Seq(Entities)]
    BY <1>1, <2>1 DEF Finished
  <2>3. cursor \in Branches \cup {None} /\ next \in Nat \ {0} /\ active \in Nat /\ started \in Nat
    OBVIOUS
  <2> QED
    BY <2>1, <2>2, <2>3, Zenon DEF TypeOK
<1>3. Tree
  BY <1>1 DEF Tree, Begun, OnlyWalking, Quiet, RootPlace, Births, Looping, Depths, Awaited, Live
<1>4. Holders = {} /\ Waiting = {} /\ Reserved = {} /\ Visited(queue) = {}
  BY <1>1 DEF Holders, Waiting, Reserved, Visited, Holding
<1>5. Slots
  BY <1>4, FS_EmptySet, LimitAssumption DEF Slots, LimiterSound
<1>6. BudgetRespected
  BY <1>1, <1>4, FS_EmptySet, BudgetShape
<1> QED
  BY <1>2, <1>3, <1>5, <1>6 DEF IInv

(* A step that leaves the limiter, the budget and the federation alone.    *)
LEMMA Untouched ==
    ASSUME IInv, UNCHANGED <<env, limiter, aborted, remaining, started>>,
           \/ pc' = pc
           \/ \E b \in Branches, to \in {"done", "joining"} :
                 /\ pc[b] \notin Holding \cup {"queued"} /\ pc' = [pc EXCEPT ![b] = to]
    PROVE  Slots' /\ BudgetRespected'
<1>1. Slots' /\ Reserved' = Reserved
  BY SlotsKept DEF IInv
<1> QED
  BY <1>1, BudgetShape DEF IInv

LEMMA BeginIInv == ASSUME IInv, Begin PROVE IInv'
<1>0. /\ remaining \in Nat /\ started \in Nat /\ Cardinality(Reserved) \in Nat
      /\ env.maxTotalFetches \in Nat /\ env' = env
      /\ UNCHANGED <<walk, limiter, aborted, chains, garbled, failed>>
  <2>1. IsFiniteSet(Reserved)
    BY DEF IInv, Slots
  <2> QED
    BY <2>1, FS_CardinalityType, ScenarioAssumption DEF IInv, TypeOK, Begin
<1>1. /\ started' + remaining' + 0 <= started + remaining
      /\ started' \in Nat /\ remaining' \in Nat
  BY <1>0 DEF Begin
<1>2. TypeOK'
  <2>1. /\ phase' \in {"start", "leaf", "walking", "returned"}
        /\ errored' \in BOOLEAN /\ incomplete' \in BOOLEAN
    BY DEF IInv, TypeOK, Begin
  <2> QED
    BY <1>0, <1>1, <2>1 DEF IInv, TypeOK, walk, limiter
<1>3. Tree'
  BY DEF IInv, Tree, Begin, walk, Begun, OnlyWalking, Quiet, RootPlace, Births, Looping,
         Depths, Awaited
<1>4. Slots' /\ Reserved' = Reserved
  BY SlotsKept DEF IInv, Begin, walk
<1>5. BudgetRespected'
  <2>1. Cardinality(Reserved') <= Cardinality(Reserved) + 0
    BY <1>0, <1>4
  <2>2. UNCHANGED <<env, limiter>> /\ Slots'
    BY <1>0, <1>4
  <2>3. /\ remaining' \in Nat /\ started' \in Nat /\ started' + remaining' + 0 <= started + remaining
    BY <1>1
  <2> QED
    BY <2>1, <2>2, <2>3, BudgetKept
<1> QED
  BY <1>2, <1>3, <1>4, <1>5 DEF IInv

LEMMA LeafFailsIInv == ASSUME IInv, LeafFails PROVE IInv'
<1>1. TypeOK'
  BY BranchShape DEF IInv, TypeOK, LeafFails, walk, limiter
<1>2. Tree'
  BY DEF IInv, Tree, LeafFails, walk, Begun, OnlyWalking, Quiet, RootPlace, Births, Looping,
         Depths, Awaited
<1> QED
  BY <1>1, <1>2, Untouched DEF IInv, LeafFails, walk

LEMMA ReturnEarlyIInv == ASSUME IInv, ReturnEarly PROVE IInv'
<1>1. TypeOK'
  BY DEF IInv, TypeOK, ReturnEarly, walk, limiter
<1>2. cursor = None /\ \A b \in Branches : pc[b] \notin Live
  <2>1. ASSUME NEW b \in Branches PROVE pc[b] \notin Live
    <3>1. CASE b = Root
      BY <3>1 DEF ReturnEarly, Live
    <3>2. CASE b # Root
      <4>1. Len(b) \in Nat /\ Len(b) # 0
        BY <3>2, BranchShape
      <4>2. 0 \in 0..(Len(b) - 1) /\ 0 \in 0..Len(b)
        BY <4>1
      <4>3. SubSeq(b, 1, 0) = Root
        BY <4>2, Above, BranchShape
      <4> QED
        BY <4>2, <4>3 DEF IInv, Tree, Awaited, ReturnEarly
    <3> QED
      BY <3>1, <3>2
  <2> QED
    BY <2>1 DEF IInv, TypeOK, Tree, Looping, Live
<1>3. Tree'
  BY <1>2 DEF IInv, Tree, ReturnEarly, walk, Begun, OnlyWalking, Quiet, RootPlace, Births, Looping,
         Depths, Awaited
<1> QED
  BY <1>1, <1>3, Untouched DEF IInv, ReturnEarly, walk

LEMMA EndLoopIInv == ASSUME IInv, EndLoop PROVE IInv'
<1>1. TypeOK'
  BY DEF IInv, TypeOK, EndLoop, limiter, result
<1>2. phase = "walking"
  BY DEF IInv, EndLoop, Tree, OnlyWalking, Quiet
<1>3. Tree'
  BY <1>2 DEF IInv, Tree, EndLoop, Begun, OnlyWalking, Quiet, RootPlace, Births, Looping,
         Depths, Awaited
<1> QED
  BY <1>1, <1>3, Untouched DEF IInv, EndLoop

LEMMA JoinIInv == ASSUME IInv, NEW b \in Branches, Join(b) PROVE IInv'
<1>1. /\ pc[b] = "joining" /\ pc' = [pc EXCEPT ![b] = "done"]
      /\ UNCHANGED <<env, limiter, aborted, remaining, started>>
  BY DEF Join
<1>2. TypeOK'
  BY BranchShape DEF IInv, TypeOK, Join, limiter, Finished
<1>3. Tree'
  BY TreeJoined DEF IInv
<1>4. pc[b] \notin Holding \cup {"queued"}
  BY <1>1 DEF Holding
<1> QED
  BY <1>1, <1>2, <1>3, <1>4, Untouched DEF IInv

(* buildChains, up to its loop.                                            *)
LEMMA BuildChainsEffect ==
    ASSUME TypeOK, NEW b \in Branches, BuildChains(b)
    PROVE  /\ \/ pc' = [pc EXCEPT ![b] = "done"] /\ UNCHANGED <<cursor, next>>
              \/ /\ pc' = [pc EXCEPT ![b] = "joining"] /\ cursor' = b /\ next' = 1
                 /\ Len(path[b]) <= env.maxDepth
           /\ errored' \in BOOLEAN /\ incomplete' \in BOOLEAN
           /\ pc' \in [Branches -> Live \cup Finished]
           /\ cursor' \in Branches \cup {None} /\ next' \in Nat \ {0}
<1>1. /\ \/ pc' = [pc EXCEPT ![b] = "done"] /\ UNCHANGED <<cursor, next>>
         \/ /\ pc' = [pc EXCEPT ![b] = "joining"] /\ cursor' = b /\ next' = 1
            /\ Len(path[b]) <= env.maxDepth
  BY DEF BuildChains
<1>2. errored' \in BOOLEAN /\ incomplete' \in BOOLEAN
  BY DEF TypeOK, BuildChains
<1>3. /\ pc \in [Branches -> Live \cup Finished] /\ cursor \in Branches \cup {None}
      /\ next \in Nat \ {0} /\ 1 \in Nat \ {0}
      /\ "done" \in Live \cup Finished /\ "joining" \in Live \cup Finished
  BY DEF TypeOK, Live, Finished
<1>4. pc' \in [Branches -> Live \cup Finished]
  BY <1>1, <1>3
<1>5. cursor' \in Branches \cup {None} /\ next' \in Nat \ {0}
  BY <1>1, <1>3
<1> QED
  BY <1>1, <1>2, <1>4, <1>5

LEMMA EnteredIInv ==
    ASSUME IInv, NEW b \in Branches, BuildChains(b), cursor = None,
           pc[b] = "got" \/ (b = Root /\ pc[b] = "unborn"), phase' = "walking",
           UNCHANGED <<env, stage, path, remaining, limiter, aborted, chains, garbled,
                       failed, started>>
    PROVE  IInv'
<1>1. TypeOK'
  BY BuildChainsEffect DEF IInv, TypeOK, limiter
<1>2. Tree'
  BY BuildChainsEffect, TreeEntered DEF IInv
<1>3. pc[b] \notin Holding \cup {"queued"}
  BY DEF Holding
<1>4. Slots' /\ BudgetRespected'
  BY <1>3, BuildChainsEffect, Untouched DEF IInv
<1> QED
  BY <1>1, <1>2, <1>4 DEF IInv

LEMMA LeafArrivesIInv == ASSUME IInv, LeafArrives PROVE IInv'
<1>1. CASE /\ hints[Leaf] = <<>> /\ phase' = "returned"
           /\ chains' = IF Leaf \in Anchors THEN <<<<Leaf>>>> ELSE chains
           /\ errored' = (Leaf \notin Anchors)
           /\ UNCHANGED <<pc, cursor, next, incomplete>>
  <2>1. chains' \in Seq(Seq(Entities))
    BY <1>1, EntityAssumption DEF IInv, TypeOK
  <2>2. TypeOK'
    BY <1>1, <2>1 DEF IInv, TypeOK, LeafArrives, limiter
  <2>3. Tree'
    BY <1>1 DEF IInv, Tree, LeafArrives, Begun, OnlyWalking, Quiet, RootPlace, Births, Looping,
           Depths, Awaited
  <2>4. Slots' /\ BudgetRespected'
    BY <1>1, Untouched DEF LeafArrives
  <2> QED
    BY <2>2, <2>3, <2>4 DEF IInv
<1>2. CASE hints[Leaf] # <<>> /\ phase' = "walking" /\ BuildChains(Root) /\ UNCHANGED chains
  <2>1. cursor = None /\ pc[Root] = "unborn" /\ Root \in Branches
    BY BranchShape DEF IInv, LeafArrives, Tree, Begun, OnlyWalking, Quiet
  <2> QED
    BY <1>2, <2>1, EnteredIInv DEF LeafArrives
<1> QED
  BY <1>1, <1>2 DEF LeafArrives

LEMMA AbortIInv == ASSUME IInv, Abort PROVE IInv'
<1>1. /\ aborted' = TRUE /\ listening' = FALSE
      /\ pc' = [b \in Branches |->
                  IF listening /\ b \in Visited(queue) THEN "rejected" ELSE pc[b]]
      /\ queue' = IF listening THEN <<>> ELSE queue
      /\ UNCHANGED <<env, phase, stage, path, cursor, next, remaining, active, failed, started>>
      /\ UNCHANGED <<chains, garbled, errored, incomplete>>
  BY DEF Abort, result
<1>2. Visited(queue) = Waiting /\ (~listening => queue = <<>>)
  BY SlotsShape, Zenon DEF IInv
<1>3. queue' = <<>> /\ <<>> \in Seq(Branches)
  BY <1>1, <1>2
<1>4. /\ pc \in [Branches -> Live \cup Finished]
      /\ pc' \in [Branches -> Live \cup Finished]
  BY <1>1 DEF IInv, TypeOK, Finished
<1>5. \A b \in Branches : pc'[b] = IF pc[b] = "queued" THEN "rejected" ELSE pc[b]
  <2>1. Visited(<<>>) = {}
    BY DEF Visited
  <2> QED
    BY <1>1, <1>2, <2>1 DEF Waiting
<1>6. TypeOK'
  BY <1>1, <1>3, <1>4 DEF IInv, TypeOK
<1>7. Tree'
  <2>1. \A b \in Branches : \/ pc'[b] = pc[b]
                            \/ /\ pc[b] \in Moving
                               /\ pc'[b] \in Moving \cup {"rejected", "done"}
    BY <1>5 DEF Moving
  <2> QED
    BY <1>1, <1>4, <2>1, TreeKept DEF IInv
<1>8. Holders' = Holders /\ Waiting' = {} /\ Reserved' \subseteq Reserved
  BY <1>5 DEF Holders, Waiting, Reserved, Holding
<1>9. /\ IsFiniteSet(Reserved) /\ IsFiniteSet(Reserved')
      /\ Cardinality(Reserved') <= Cardinality(Reserved)
      /\ Cardinality(Reserved) \in Nat
  <2>1. IsFiniteSet(Reserved)
    BY DEF IInv, Slots
  <2> QED
    BY <1>8, <2>1, FS_Subset, FS_CardinalityType
<1>10. Slots'
  <2>1. /\ active = Cardinality(Holders) /\ active <= MaxConcurrent /\ IsFiniteSet(Holders)
    BY SlotsShape DEF IInv
  <2>2. Visited(queue') = {} /\ Once(queue')
    BY <1>3 DEF Visited, Once
  <2> QED
    BY <1>1, <1>3, <1>8, <1>9, <2>1, <2>2, SlotsShapePrimed
<1>11. BudgetRespected'
  <2>1. /\ remaining' \in Nat /\ started' \in Nat /\ started' + remaining' + 0 <= started + remaining
    BY <1>1, BudgetTypes
  <2> QED
    BY <1>1, <1>9, <1>10, <2>1, BudgetKept
<1> QED
  BY <1>6, <1>7, <1>10, <1>11 DEF IInv

LEMMA ClimbIInv == ASSUME IInv, NEW b \in Branches, Climb(b) PROVE IInv'
<1>1. /\ cursor = None /\ pc[b] = "got" /\ phase = "walking"
      /\ UNCHANGED <<env, phase, stage, path, remaining, limiter, aborted, garbled, failed, started>>
  <2>1. cursor = None /\ pc[b] = "got"
    BY DEF Climb
  <2> QED
    BY <2>1 DEF Climb, IInv, Tree, OnlyWalking, Quiet, Live
<1>2. CASE BuildChains(b) /\ UNCHANGED chains
  BY <1>1, <1>2, EnteredIInv
<1>3. CASE /\ pc' = [pc EXCEPT ![b] = "done"] /\ UNCHANGED <<cursor, next, incomplete>>
           /\ chains' \in Seq(Seq(Entities)) /\ errored' \in BOOLEAN
  <2>1. pc' \in [Branches -> Live \cup Finished]
    BY <1>3 DEF IInv, TypeOK, Finished
  <2>2. TypeOK'
    BY <1>1, <1>3, <2>1 DEF IInv, TypeOK, limiter
  <2>3. \A c \in Branches : \/ pc'[c] = pc[c]
                            \/ /\ pc[c] \in Moving
                               /\ pc'[c] \in Moving \cup {"rejected", "done"}
    BY <1>1, <1>3 DEF IInv, TypeOK, Moving
  <2>4. Tree'
    BY <1>1, <1>3, <2>1, <2>3, TreeKept DEF IInv
  <2>5. pc[b] \notin Holding \cup {"queued"}
    BY <1>1 DEF Holding
  <2>6. Slots' /\ BudgetRespected'
    BY <1>1, <1>3, <2>5, Untouched
  <2> QED
    BY <2>2, <2>4, <2>6 DEF IInv
<1>4. CASE /\ pc' = [pc EXCEPT ![b] = "done"]
           /\ chains' = IF Prefixes(b) \cap garbled = {} THEN Append(chains, path[b]) ELSE chains
           /\ UNCHANGED <<cursor, next, errored, incomplete>>
  <2>1. chains \in Seq(Seq(Entities)) /\ path[b] \in Seq(Entities) /\ errored \in BOOLEAN
    BY DEF IInv, TypeOK
  <2>2. Append(chains, path[b]) \in Seq(Seq(Entities))
    BY <2>1, AppendProperties
  <2> QED
    BY <1>3, <1>4, <2>1, <2>2
<1>5. CASE pc' = [pc EXCEPT ![b] = "done"] /\ errored' = TRUE
           /\ UNCHANGED <<cursor, next, chains, incomplete>>
  <2>1. chains \in Seq(Seq(Entities))
    BY DEF IInv, TypeOK
  <2> QED
    BY <1>3, <1>5, <2>1
<1> QED
  BY <1>2, <1>4, <1>5 DEF Climb

LEMMA StartFetchIInv == ASSUME IInv, NEW b \in Branches, StartFetch(b) PROVE IInv'
<1>1. /\ pc[b] = "granted" /\ pc[b] \in Holding
      /\ UNCHANGED <<env, phase, stage, path, cursor, next, remaining, aborted, failed>>
      /\ UNCHANGED <<chains, garbled, errored, incomplete>>
  BY DEF StartFetch, Holding, result
<1>2. CASE aborted /\ Release(b, "rejected") /\ UNCHANGED started
  <2>1. /\ Slots' /\ Cardinality(Reserved') <= Cardinality(Reserved)
        /\ queue' \in Seq(Branches) /\ active' \in Nat /\ listening' \in BOOLEAN
        /\ pc' \in [Branches -> Live \cup Finished] /\ pc'[b] = "rejected"
        /\ \A c \in Branches \ {b} :
              \/ pc'[c] = pc[c]
              \/ pc[c] = "queued" /\ pc'[c] = "granted"
    BY <1>1, <1>2, SlotsReleased DEF IInv
  <2>2. TypeOK'
    BY <1>1, <1>2, <2>1 DEF IInv, TypeOK
  <2>3. \A c \in Branches : \/ pc'[c] = pc[c]
                            \/ /\ pc[c] \in Moving
                               /\ pc'[c] \in Moving \cup {"rejected", "done"}
    BY <1>1, <2>1 DEF Moving
  <2>4. Tree'
    BY <1>1, <2>1, <2>3, TreeKept DEF IInv
  <2>5. /\ remaining' \in Nat /\ started' \in Nat /\ started' + remaining' + 0 <= started + remaining
        /\ Cardinality(Reserved') <= Cardinality(Reserved) + 0
    BY <1>1, <1>2, <2>1, BudgetTypes
  <2>6. BudgetRespected'
    BY <1>1, <2>1, <2>5, BudgetKept
  <2> QED
    BY <2>1, <2>2, <2>4, <2>6 DEF IInv
<1>3. CASE /\ ~aborted /\ pc' = [pc EXCEPT ![b] = "fetching"] /\ started' = started + 1
           /\ UNCHANGED limiter
  <2>1. /\ pc \in [Branches -> Live \cup Finished] /\ pc' \in [Branches -> Live \cup Finished]
        /\ pc'[b] = "fetching" /\ \A c \in Branches \ {b} : pc'[c] = pc[c]
    BY <1>3 DEF IInv, TypeOK, Live
  <2>2. UNCHANGED <<active, queue, listening>> /\ started' \in Nat
    BY <1>3, BudgetTypes DEF limiter
  <2>3. TypeOK'
    BY <1>1, <2>1, <2>2 DEF IInv, TypeOK
  <2>4. Tree'
    <3>1. \A c \in Branches : \/ pc'[c] = pc[c]
                              \/ /\ pc[c] \in Moving
                                 /\ pc'[c] \in Moving \cup {"rejected", "done"}
      BY <1>1, <2>1 DEF Moving
    <3> QED
      BY <1>1, <2>1, <3>1, TreeKept DEF IInv
  <2>5. Holders' = Holders /\ Waiting' = Waiting /\ Reserved' = Reserved \ {b} /\ b \in Reserved
    BY <1>1, <2>1 DEF Holders, Waiting, Reserved, Holding
  <2>6. /\ IsFiniteSet(Reserved \ {b}) /\ Cardinality(Reserved \ {b}) = Cardinality(Reserved) - 1
    BY <2>5, FS_RemoveElement DEF IInv, Slots
  <2>7. Slots'
    <3>1. IsFiniteSet(Reserved')
      BY <2>5, <2>6
    <3> QED
      BY <1>1, <2>2, <2>5, <3>1, SlotsShape, SlotsShapePrimed, Zenon DEF IInv
  <2>8. /\ remaining' \in Nat /\ started' \in Nat
        /\ started' + remaining' + (-1) <= started + remaining
        /\ Cardinality(Reserved') <= Cardinality(Reserved) + (-1)
    BY <1>1, <1>3, <2>5, <2>6, BudgetTypes
  <2>9. BudgetRespected'
    BY <1>1, <2>7, <2>8, BudgetKept
  <2> QED
    BY <2>3, <2>4, <2>7, <2>9 DEF IInv
<1> QED
  BY <1>2, <1>3 DEF StartFetch

LEMMA FetchEndsIInv ==
    ASSUME IInv, NEW b \in Branches, NEW answer \in Answers, FetchEnds(b, answer) PROVE IInv'
<1> DEFINE to == CASE answer = "error" -> "done"
                   [] answer = "throws" -> "rejected"
                   [] OTHER -> "got"
<1>1. /\ pc[b] = "fetching" /\ pc[b] \in Holding /\ Release(b, to)
      /\ UNCHANGED <<env, phase, stage, path, cursor, next, remaining, aborted, chains,
                     incomplete, started>>
      /\ garbled' \subseteq Branches /\ failed' \subseteq Branches /\ errored' \in BOOLEAN
  BY DEF FetchEnds, Holding, IInv, TypeOK
<1>2. to \in {"done", "rejected", "got"}
  OBVIOUS
<1> HIDE DEF to
<1>3. /\ Slots' /\ Cardinality(Reserved') <= Cardinality(Reserved)
      /\ queue' \in Seq(Branches) /\ active' \in Nat /\ listening' \in BOOLEAN
      /\ pc' \in [Branches -> Live \cup Finished] /\ pc'[b] = to
      /\ \A c \in Branches \ {b} :
            \/ pc'[c] = pc[c]
            \/ pc[c] = "queued" /\ pc'[c] = "granted"
  BY <1>1, <1>2, SlotsReleased DEF IInv
<1>4. TypeOK'
  BY <1>1, <1>3 DEF IInv, TypeOK
<1>5. \A c \in Branches : \/ pc'[c] = pc[c]
                          \/ /\ pc[c] \in Moving
                             /\ pc'[c] \in Moving \cup {"rejected", "done"}
  BY <1>1, <1>2, <1>3 DEF Moving
<1>6. Tree'
  BY <1>1, <1>3, <1>5, TreeKept DEF IInv
<1>7. /\ remaining' \in Nat /\ started' \in Nat /\ started' + remaining' + 0 <= started + remaining
      /\ Cardinality(Reserved') <= Cardinality(Reserved) + 0
  BY <1>1, <1>3, BudgetTypes
<1>8. BudgetRespected'
  BY <1>1, <1>3, <1>7, BudgetKept
<1> QED
  BY <1>3, <1>4, <1>6, <1>8 DEF IInv

LEMMA FetchStatementIInv == ASSUME IInv, NEW b \in Branches, FetchStatement(b) PROVE IInv'
<1>1. /\ pc[b] = "got"
      /\ UNCHANGED <<env, phase, path, cursor, next, aborted, chains, garbled, failed, started>>
  BY DEF FetchStatement
<1>2. CASE /\ pc' = [pc EXCEPT ![b] = "done"] /\ incomplete' = TRUE /\ errored' = TRUE
           /\ UNCHANGED <<stage, remaining, limiter>>
  <2>1. pc \in [Branches -> Live \cup Finished] /\ pc' \in [Branches -> Live \cup Finished]
    BY <1>2 DEF IInv, TypeOK, Finished
  <2>2. TypeOK'
    BY <1>1, <1>2, <2>1 DEF IInv, TypeOK, limiter
  <2>3. \A c \in Branches : \/ pc'[c] = pc[c]
                            \/ /\ pc[c] \in Moving
                               /\ pc'[c] \in Moving \cup {"rejected", "done"}
    BY <1>1, <1>2, <2>1 DEF Moving
  <2>4. Tree'
    BY <1>1, <2>1, <2>3, TreeKept DEF IInv
  <2>5. pc[b] \notin Holding \cup {"queued"}
    BY <1>1 DEF Holding
  <2>6. Slots' /\ BudgetRespected'
    BY <1>1, <1>2, <2>5, Untouched
  <2> QED
    BY <2>2, <2>4, <2>6 DEF IInv
<1>3. CASE /\ remaining > 0 /\ remaining' = remaining - 1
           /\ stage' = [stage EXCEPT ![b] = "ss"] /\ Acquire(b)
           /\ UNCHANGED <<incomplete, errored>>
  <2>1. /\ Slots' /\ Cardinality(Reserved') <= Cardinality(Reserved) + 1
        /\ queue' \in Seq(Branches) /\ active' \in Nat /\ listening' \in BOOLEAN
        /\ \E to \in {"rejected", "granted", "queued"} : pc' = [pc EXCEPT ![b] = to]
    BY <1>1, <1>3, SlotsAcquired DEF IInv
  <2>2. pc \in [Branches -> Live \cup Finished] /\ pc' \in [Branches -> Live \cup Finished]
    BY <2>1 DEF IInv, TypeOK, Live, Finished
  <2>3. /\ stage' \in [Branches -> {"ec", "ss"}]
        /\ remaining' \in Nat /\ started' \in Nat
        /\ started' + remaining' + 1 <= started + remaining
    BY <1>1, <1>3, BudgetTypes DEF IInv, TypeOK
  <2>4. TypeOK'
    BY <1>1, <1>3, <2>1, <2>2, <2>3 DEF IInv, TypeOK
  <2>5. \A c \in Branches : \/ pc'[c] = pc[c]
                            \/ /\ pc[c] \in Moving
                               /\ pc'[c] \in Moving \cup {"rejected", "done"}
    BY <1>1, <2>1, <2>2 DEF Moving
  <2>6. Tree'
    BY <1>1, <2>2, <2>5, TreeKept DEF IInv
  <2>7. BudgetRespected'
    BY <1>1, <2>1, <2>3, BudgetKept
  <2> QED
    BY <2>1, <2>4, <2>6, <2>7 DEF IInv
<1> QED
  BY <1>2, <1>3 DEF FetchStatement

(* The hint the loop is at.                                                *)
LEMMA LoopHintShape ==
    ASSUME IInv, cursor # None, MoreHints
    PROVE  /\ next \in 1..MaxHints /\ cursor \in Branches /\ phase = "walking"
           /\ pc[cursor] = "joining" /\ Len(path[cursor]) = Len(cursor) + 1
           /\ Len(cursor) \in Nat /\ Len(cursor) < MaxDepth
           /\ path[cursor] \in Seq(Entities) /\ Last(path[cursor]) \in Entities
           /\ hints[Last(path[cursor])] \in Seq(Entities)
           /\ next \in DOMAIN hints[Last(path[cursor])]
           /\ LoopHint \in Entities
           /\ Child(cursor, next) \in Branches /\ pc[Child(cursor, next)] = "unborn"
<1>1. /\ cursor \in Branches /\ pc[cursor] = "joining" /\ Len(cursor) < MaxDepth
      /\ \A i \in next..MaxHints : pc[Child(cursor, i)] = "unborn"
      /\ phase = "walking" /\ Len(path[cursor]) = Len(cursor) + 1 /\ Len(cursor) \in Nat
      /\ path[cursor] \in Seq(Entities) /\ next \in Nat \ {0} /\ env \in Scenarios
  BY BranchShape DEF IInv, TypeOK, Tree, Looping, OnlyWalking, Quiet, Depths, Live
<1>2. next \in 1..MaxHints /\ next \in next..MaxHints
  BY <1>1, LimitAssumption DEF MoreHints
<1>3. Last(path[cursor]) \in Entities
  BY <1>1, ElementOfSeq DEF Last
<1>4. hints \in [Entities -> Seq(Entities)]
  BY <1>1, ScenarioAssumption DEF hints
<1>5. hints[Last(path[cursor])] \in Seq(Entities)
  BY <1>3, <1>4
<1>6. next \in DOMAIN hints[Last(path[cursor])]
  BY <1>1, <1>5, LenProperties DEF MoreHints
<1>7. LoopHint \in Entities
  BY <1>5, <1>6, LenProperties DEF LoopHint
<1>8. Child(cursor, next) \in Branches
  BY <1>1, <1>2, ChildShape
<1> QED
  BY <1>1, <1>2, <1>3, <1>5, <1>6, <1>7, <1>8

LEMMA StartHintIInv == ASSUME IInv, StartHint PROVE IInv'
<1> DEFINE c == Child(cursor, next)
           longer == [path EXCEPT ![c] = Append(path[cursor], LoopHint)]
<1>1. /\ cursor # None /\ MoreHints /\ next' = next + 1
      /\ UNCHANGED <<env, phase, cursor, aborted, chains, garbled, failed, started>>
  BY DEF StartHint
<1>2. /\ next \in 1..MaxHints /\ cursor \in Branches
      /\ path[cursor] \in Seq(Entities) /\ LoopHint \in Entities
      /\ c \in Branches /\ pc[c] = "unborn"
  BY <1>1, LoopHintShape
<1>3. /\ pc \in [Branches -> Live \cup Finished] /\ path \in [Branches -> Seq(Entities)]
      /\ next' \in Nat \ {0}
  BY <1>1, <1>2 DEF IInv, TypeOK
<1>4. longer \in [Branches -> Seq(Entities)]
  <2>1. Append(path[cursor], LoopHint) \in Seq(Entities)
    BY <1>2, AppendProperties
  <2> QED
    BY <1>3, <2>1
<1>5. pc[c] \notin Holding \cup {"queued"}
  BY <1>2 DEF Holding
<1> HIDE DEF c, longer
<1>6. CASE UNCHANGED <<pc, stage, path, remaining, limiter, errored, incomplete>>
  <2>1. TypeOK'
    BY <1>1, <1>3, <1>6 DEF IInv, TypeOK, limiter
  <2>2. pc' = [pc EXCEPT ![c] = "unborn"]
    BY <1>2, <1>3, <1>6
  <2>3. Tree'
    BY <1>1, <1>2, <1>6, <2>2, TreeBorn DEF IInv, c
  <2> QED
    BY <1>1, <1>6, <2>1, <2>3, Untouched DEF IInv
<1>7. CASE /\ pc' = [pc EXCEPT ![c] = "done"] /\ errored' = TRUE
           /\ path' \in {path, longer} /\ incomplete' \in BOOLEAN
           /\ UNCHANGED <<stage, remaining, limiter>>
  <2>1. pc' \in [Branches -> Live \cup Finished] /\ path' \in [Branches -> Seq(Entities)]
    BY <1>3, <1>4, <1>7 DEF Finished
  <2>2. TypeOK'
    BY <1>1, <1>3, <1>7, <2>1 DEF IInv, TypeOK, limiter
  <2>3. \/ UNCHANGED path
        \/ \E hint \in Entities : path' = [path EXCEPT ![c] = Append(path[cursor], hint)]
    BY <1>2, <1>7 DEF longer
  <2>4. Tree'
    BY <1>1, <1>2, <1>7, <2>3, TreeBorn DEF IInv, c
  <2>5. Slots' /\ BudgetRespected'
    BY <1>1, <1>2, <1>5, <1>7, Untouched
  <2> QED
    BY <2>2, <2>4, <2>5 DEF IInv
<1>8. CASE /\ path' = longer /\ remaining > 0 /\ remaining' = remaining - 1
           /\ stage' = [stage EXCEPT ![c] = "ec"] /\ Acquire(c)
           /\ UNCHANGED <<errored, incomplete>>
  <2>1. /\ Slots' /\ Cardinality(Reserved') <= Cardinality(Reserved) + 1
        /\ queue' \in Seq(Branches) /\ active' \in Nat /\ listening' \in BOOLEAN
        /\ \E to \in {"rejected", "granted", "queued"} : pc' = [pc EXCEPT ![c] = to]
    BY <1>1, <1>2, <1>8, SlotsAcquired DEF IInv
  <2>2. PICK to \in {"rejected", "granted", "queued"} : pc' = [pc EXCEPT ![c] = to]
    BY <2>1
  <2>3. pc' \in [Branches -> Live \cup Finished]
    BY <1>3, <2>2 DEF Live, Finished
  <2>4. /\ stage' \in [Branches -> {"ec", "ss"}]
        /\ remaining' \in Nat /\ started' \in Nat
        /\ started' + remaining' + 1 <= started + remaining
    <3>1. stage' \in [Branches -> {"ec", "ss"}]
      BY <1>8 DEF IInv, TypeOK
    <3>2. /\ remaining' \in Nat /\ started' \in Nat
          /\ started' + remaining' + 1 <= started + remaining
      BY <1>1, <1>8, BudgetTypes
    <3> QED
      BY <3>1, <3>2
  <2>5. TypeOK'
    BY <1>1, <1>3, <1>4, <1>8, <2>1, <2>3, <2>4 DEF IInv, TypeOK
  <2>6. \E hint \in Entities : path' = [path EXCEPT ![c] = Append(path[cursor], hint)]
    BY <1>2, <1>8 DEF longer
  <2>7. Tree'
    BY <1>1, <1>2, <2>2, <2>6, TreeBorn DEF IInv, c
  <2>8. BudgetRespected'
    BY <1>1, <2>1, <2>4, BudgetKept
  <2> QED
    BY <2>1, <2>5, <2>7, <2>8 DEF IInv
<1>9. incomplete \in BOOLEAN
  BY DEF IInv, TypeOK
<1>10. \/ UNCHANGED <<pc, stage, path, remaining, limiter, errored, incomplete>>
       \/ /\ pc' = [pc EXCEPT ![c] = "done"] /\ errored' = TRUE
          /\ path' \in {path, longer} /\ incomplete' \in {incomplete, TRUE}
          /\ UNCHANGED <<stage, remaining, limiter>>
       \/ /\ path' = longer /\ remaining > 0 /\ remaining' = remaining - 1
          /\ stage' = [stage EXCEPT ![c] = "ec"] /\ Acquire(c)
          /\ UNCHANGED <<errored, incomplete>>
  BY DEF StartHint, c, longer
<1> QED
  BY <1>6, <1>7, <1>8, <1>9, <1>10

LEMMA NextIInv == ASSUME IInv, [Next]_vars PROVE IInv'
<1>1. CASE UNCHANGED vars
  <2>1. UNCHANGED <<env, phase, pc, stage, path, cursor, next, remaining, active, queue, listening,
                    aborted, chains, garbled, errored, incomplete, failed, started>>
    BY <1>1 DEF vars, walk, limiter, result
  <2>2. TypeOK'
    BY <2>1 DEF IInv, TypeOK
  <2>3. Tree'
    BY <2>1 DEF IInv, Tree, Begun, OnlyWalking, Quiet, RootPlace, Births, Looping, Depths, Awaited
  <2>4. Slots' /\ BudgetRespected'
    BY <2>1, Untouched DEF limiter
  <2> QED
    BY <2>2, <2>3, <2>4 DEF IInv
<1>2. CASE Returned
  BY <1>1, <1>2 DEF Returned
<1> QED
  BY <1>1, <1>2, BeginIInv, LeafFailsIInv, LeafArrivesIInv, ReturnEarlyIInv, StartHintIInv,
     EndLoopIInv, JoinIInv, StartFetchIInv, FetchEndsIInv, FetchStatementIInv, ClimbIInv, AbortIInv
     DEF Next, Progress
----------------------------------------------------------------------------
(* The walk of resolveTrustChains keeps IInv, whatever the scenario.       *)
THEOREM WalkCorrect == Spec => []IInv
<1>1. Init => IInv
  BY InitIInv
<1>2. IInv /\ [Next]_vars => IInv'
  BY NextIInv
<1> QED
  BY <1>1, <1>2, PTL DEF Spec

(* The limiter of createConcurrencyLimiter: its count is the number of     *)
(* branches that hold a slot, within the limit, and no waiter is lost or   *)
(* queued twice, through transfers, aborts and rejections.                 *)
THEOREM LimiterCorrect == Spec => []LimiterSound
<1>1. IInv => LimiterSound
  BY DEF IInv, Slots
<1> QED
  BY <1>1, WalkCorrect, PTL

(* The shared fetch budget is never overspent by concurrent branches.      *)
THEOREM BudgetCorrect == Spec => []BudgetRespected
<1>1. IInv => BudgetRespected
  BY DEF IInv
<1> QED
  BY <1>1, WalkCorrect, PTL

(* After the signal fired, the walk hands no fetch to the network, whoever *)
(* held a slot or received one in the meantime.                            *)
THEOREM AbortHonoured == Spec => NoFetchAfterAbort
<1>1. [Next]_vars => [aborted /\ phase = "walking" => started' = started]_vars
  BY DEF Next, Progress, Begin, LeafFails, LeafArrives, ReturnEarly, StartHint, EndLoop, Join,
         StartFetch, FetchEnds, FetchStatement, Climb, Abort, Returned, vars
<1> QED
  BY <1>1, PTL DEF Spec, NoFetchAfterAbort

(* The callers of the walk (discovery, refresh, the resolve endpoint) only *)
(* observe it: with any of them, the walk is still a behaviour of Spec.    *)
THEOREM CallersObserve == SelectSpec => Spec
<1>1. SelectInit => Init
  BY DEF SelectInit
<1>2. [SelectNext]_allVars => [Next]_vars
  BY DEF SelectNext, KeepHeld, Resolving, Aborting, Receive, Validate, Conclude, Concluded,
         allVars, Next
<1> QED
  BY <1>1, <1>2, PTL DEF SelectSpec, Spec
----------------------------------------------------------------------------
(* Paths.                                                                  *)
LEMMA WalkExtended ==
    ASSUME NEW p \in Seq(Entities), NEW x \in Entities, IsWalk(p), x \notin Visited(p),
           x \in Visited(hints[Last(p)]), <<x, Last(p)>> \in env.filter,
           Len(p) > 1 => Last(p) \notin Anchors
    PROVE  IsWalk(Append(p, x))
<1> DEFINE q == Append(p, x)
           n == Len(p)
<1>1. /\ q \in Seq(Entities) /\ q # <<>> /\ Len(q) = n + 1 /\ q[n + 1] = x
      /\ \A i \in 1..n : q[i] = p[i]
  BY AppendProperties
<1>2. n \in Nat \ {0} /\ DOMAIN p = 1..n
  BY LenProperties, EmptySeq DEF IsWalk
<1> HIDE DEF q, n
<1>3. q[1] = Leaf
  BY <1>1, <1>2 DEF IsWalk
<1>4. \A i, j \in 1..Len(q) : q[i] = q[j] => i = j
  <2>1. \A i \in 1..n : q[i] # x
    BY <1>1, <1>2 DEF Visited
  <2>2. \A i, j \in 1..n : q[i] = q[j] => i = j
    BY <1>1 DEF IsWalk, n
  <2> QED
    BY <1>1, <1>2, <2>1, <2>2
<1>5. ASSUME NEW i \in 1..(Len(q) - 1)
      PROVE  /\ q[i + 1] \in Visited(hints[q[i]])
             /\ <<q[i + 1], q[i]>> \in env.filter
             /\ i > 1 => q[i] \notin Anchors
  <2>1. CASE i = n
    <3>1. q[i] = Last(p) /\ q[i + 1] = x
      BY <1>1, <1>2, <2>1 DEF Last, n
    <3>2. i > 1 => Last(p) \notin Anchors
      BY <2>1 DEF n
    <3> QED
      BY <3>1, <3>2, Zenon
  <2>2. CASE i # n
    <3>1. i \in 1..(n - 1) /\ q[i] = p[i] /\ q[i + 1] = p[i + 1]
      BY <1>1, <1>2, <2>2
    <3>2. /\ p[i + 1] \in Visited(hints[p[i]])
          /\ <<p[i + 1], p[i]>> \in env.filter
          /\ i > 1 => p[i] \notin Anchors
      BY <3>1 DEF IsWalk, n
    <3> QED
      BY <3>1, <3>2, Zenon
  <2> QED
    BY <2>1, <2>2
<1>6. IsWalk(q)
  BY <1>1, <1>3, <1>4, <1>5 DEF IsWalk
<1> QED
  BY <1>6 DEF q

(* A path without repetitions visits as many entities as it has elements.  *)
LEMMA VisitedCount ==
    ASSUME NEW p \in Seq(Entities), \A i, j \in 1..Len(p) : p[i] = p[j] => i = j
    PROVE  Cardinality(Visited(p)) = Len(p)
<1>1. Len(p) \in Nat /\ DOMAIN p = 1..Len(p) /\ p \in [1..Len(p) -> Entities]
  BY LenProperties
<1>2. p \in [1..Len(p) -> Visited(p)]
  BY <1>1 DEF Visited
<1>3. p \in Bijection(1..Len(p), Visited(p))
  <2>1. p \in Injection(1..Len(p), Visited(p))
    BY <1>2 DEF Injection, IsInjective
  <2>2. p \in Surjection(1..Len(p), Visited(p))
    BY <1>1, <1>2 DEF Surjection, Visited
  <2> QED
    BY <2>1, <2>2 DEF Bijection
<1> QED
  BY <1>1, <1>3, FS_CountingElements DEF ExistsBijection

LEMMA ChainFromWalk ==
    ASSUME NEW p \in Seq(Entities), IsWalk(p), Last(p) \in Anchors, Len(p) = 1 => hints[Leaf] = <<>>
    PROVE  IsChainPath(p)
  BY VisitedCount DEF IsWalk, IsChainPath

(* The first entity of every walk is a walk.                               *)
LEMMA LeafWalk == /\ <<Leaf>> \in Seq(Entities) /\ IsWalk(<<Leaf>>)
                  /\ Last(<<Leaf>>) = Leaf /\ Len(<<Leaf>>) = 1
  BY EntityAssumption DEF IsWalk, Last

LEMMA FixedFederation ==
    ASSUME env' = env
    PROVE  /\ hints' = hints /\ Anchors' = Anchors
           /\ \A p : IsWalk(p)' <=> IsWalk(p)
           /\ \A p : IsChainPath(p)' <=> IsChainPath(p)
           /\ ReferenceChains' = ReferenceChains
<1>1. hints' = hints /\ Anchors' = Anchors
  BY DEF hints, Anchors
<1>2. \A p : IsWalk(p)' <=> IsWalk(p)
  BY <1>1 DEF IsWalk, Visited
<1>3. \A p : IsChainPath(p)' <=> IsChainPath(p)
  BY <1>1 DEF IsChainPath, Visited, Last
<1> QED
  BY <1>1, <1>2, <1>3 DEF ReferenceChains

LEMMA InitPathInv == Init => PathInv
<1> SUFFICES ASSUME Init PROVE PathInv
  OBVIOUS
<1>1. path = [b \in Branches |-> <<Leaf>>] /\ cursor = None /\ chains = <<>>
  BY DEF Init
<1> QED
  BY <1>1, LeafWalk DEF PathInv, Walks, ResultSound

(* The invariant after a step, which never changes the federation.         *)
LEMMA PathsPrimed ==
    ASSUME env' = env
    PROVE  PathInv' <=> /\ \A b \in Branches : IsWalk(path'[b])
                        /\ cursor' # None /\ cursor' # Root => Last(path'[cursor']) \notin Anchors
                        /\ \A i \in DOMAIN chains' : IsChainPath(chains'[i])
<1>1. hints' = hints /\ Anchors' = Anchors
  BY DEF hints, Anchors
<1> QED
  BY <1>1 DEF PathInv, Walks, ResultSound, IsWalk, IsChainPath, Visited, Last

LEMMA PathsKept ==
    ASSUME PathInv, UNCHANGED <<env, path>>, cursor' \in {cursor, None},
           \A i \in DOMAIN chains' : IsChainPath(chains'[i])
    PROVE  PathInv'
<1>1. \A b \in Branches : IsWalk(path'[b])
  BY DEF PathInv, Walks
<1>2. cursor' # None /\ cursor' # Root => Last(path'[cursor']) \notin Anchors
  BY DEF PathInv, Walks
<1> QED
  BY <1>1, <1>2, PathsPrimed, Zenon

(* A chain is reported for a branch at an anchor, and for the leaf alone.  *)
LEMMA ChainsGrow ==
    ASSUME IInv, PathInv, NEW p \in Seq(Entities), IsChainPath(p),
           chains' \in {chains, Append(chains, p)}
    PROVE  \A i \in DOMAIN chains' : IsChainPath(chains'[i])
<1>1. chains \in Seq(Seq(Entities)) /\ \A i \in DOMAIN chains : IsChainPath(chains[i])
  BY DEF IInv, TypeOK, PathInv, ResultSound
<1>2. /\ Len(chains) \in Nat /\ DOMAIN chains = 1..Len(chains)
      /\ DOMAIN Append(chains, p) = 1..(Len(chains) + 1)
      /\ \A i \in 1..Len(chains) : Append(chains, p)[i] = chains[i]
      /\ Append(chains, p)[Len(chains) + 1] = p
  BY <1>1, AppendProperties, LenProperties
<1>3. \A i \in 1..(Len(chains) + 1) : i \in 1..Len(chains) \/ i = Len(chains) + 1
  BY <1>2
<1>4. \A i \in DOMAIN Append(chains, p) : IsChainPath(Append(chains, p)[i])
  BY <1>1, <1>2, <1>3, Zenon
<1> QED
  BY <1>1, <1>4, Zenon

LEMMA LeafArrivesPaths == ASSUME IInv, PathInv, LeafArrives PROVE PathInv'
<1>1. UNCHANGED <<env, path>>
  BY DEF LeafArrives
<1>2. CASE /\ hints[Leaf] = <<>> /\ UNCHANGED cursor
           /\ chains' = IF Leaf \in Anchors THEN <<<<Leaf>>>> ELSE chains
  <2>1. Leaf \in Anchors => IsChainPath(<<Leaf>>)
    BY <1>2, LeafWalk, ChainFromWalk
  <2>2. \A i \in DOMAIN <<<<Leaf>>>> : <<<<Leaf>>>>[i] = <<Leaf>>
    OBVIOUS
  <2>3. \A i \in DOMAIN chains : IsChainPath(chains[i])
    BY DEF PathInv, ResultSound
  <2>4. \A i \in DOMAIN chains' : IsChainPath(chains'[i])
    BY <1>2, <2>1, <2>2, <2>3, Zenon
  <2> QED
    BY <1>1, <1>2, <2>4, PathsKept
<1>3. CASE UNCHANGED chains /\ BuildChains(Root)
  <2>1. cursor' \in {cursor, Root}
    BY <1>3 DEF BuildChains
  <2>2. \A b \in Branches : IsWalk(path'[b])
    BY <1>1 DEF PathInv, Walks
  <2>3. cursor' # None /\ cursor' # Root => Last(path'[cursor']) \notin Anchors
    BY <1>1, <2>1 DEF PathInv, Walks
  <2>4. \A i \in DOMAIN chains' : IsChainPath(chains'[i])
    BY <1>3 DEF PathInv, ResultSound
  <2> QED
    BY <1>1, <2>2, <2>3, <2>4, PathsPrimed, Zenon
<1> QED
  BY <1>2, <1>3 DEF LeafArrives

LEMMA ClimbPaths == ASSUME IInv, PathInv, NEW b \in Branches, Climb(b) PROVE PathInv'
<1>1. UNCHANGED <<env, path>> /\ pc[b] = "got"
  BY DEF Climb
<1>2. /\ path[b] \in Seq(Entities) /\ IsWalk(path[b]) /\ Len(path[b]) # 1
  <2>1. b # Root /\ Len(path[b]) = Len(b) + 1
    BY <1>1 DEF IInv, Tree, RootPlace, Depths, Live
  <2>2. Len(b) \in Nat /\ Len(b) # 0
    BY <2>1, BranchShape
  <2>3. path[b] \in Seq(Entities) /\ IsWalk(path[b])
    BY DEF IInv, TypeOK, PathInv, Walks
  <2> QED
    BY <2>1, <2>2, <2>3
<1>3. CASE /\ Last(path[b]) \in Anchors /\ UNCHANGED cursor
           /\ chains' \in {chains, Append(chains, path[b])}
  <2>1. IsChainPath(path[b])
    BY <1>2, <1>3, ChainFromWalk
  <2>2. \A i \in DOMAIN chains' : IsChainPath(chains'[i])
    BY <1>2, <1>3, <2>1, ChainsGrow
  <2> QED
    BY <1>1, <1>3, <2>2, PathsKept
<1>4. CASE Last(path[b]) \notin Anchors /\ UNCHANGED chains /\ cursor' \in {cursor, b}
  <2>1. \A c \in Branches : IsWalk(path'[c])
    BY <1>1 DEF PathInv, Walks
  <2>2. cursor' # None /\ cursor' # Root => Last(path'[cursor']) \notin Anchors
    BY <1>1, <1>4 DEF PathInv, Walks
  <2>3. \A i \in DOMAIN chains' : IsChainPath(chains'[i])
    BY <1>4 DEF PathInv, ResultSound
  <2> QED
    BY <1>1, <2>1, <2>2, <2>3, PathsPrimed, Zenon
<1> QED
  BY <1>3, <1>4 DEF Climb, BuildChains

LEMMA StartHintPaths == ASSUME IInv, PathInv, StartHint PROVE PathInv'
<1> DEFINE c == Child(cursor, next)
           longer == Append(path[cursor], LoopHint)
<1>1. cursor # None /\ MoreHints /\ UNCHANGED <<env, cursor, chains>>
  BY DEF StartHint
<1>2. /\ next \in 1..MaxHints /\ cursor \in Branches /\ c \in Branches /\ c # cursor
      /\ path[cursor] \in Seq(Entities) /\ LoopHint \in Entities
      /\ Len(path[cursor]) = Len(cursor) + 1 /\ next \in DOMAIN hints[Last(path[cursor])]
  BY <1>1, LoopHintShape, ChildShape
<1>3. \A i \in DOMAIN chains' : IsChainPath(chains'[i])
  BY <1>1 DEF PathInv, ResultSound
<1> HIDE DEF c
<1>4. CASE UNCHANGED path
  BY <1>1, <1>3, <1>4, PathsKept
<1>5. CASE /\ <<LoopHint, Last(path[cursor])>> \in env.filter
           /\ LoopHint \notin Visited(path[cursor])
           /\ path' = [path EXCEPT ![c] = longer]
  <2>1. LoopHint \in Visited(hints[Last(path[cursor])])
    BY <1>2 DEF LoopHint, Visited
  <2>2. Len(path[cursor]) > 1 => Last(path[cursor]) \notin Anchors
    <3>1. Len(path[cursor]) > 1 => cursor # Root
      BY <1>2, BranchShape
    <3> QED
      BY <1>1, <3>1, Zenon DEF PathInv, Walks
  <2>3. IsWalk(path[cursor])
    BY <1>2 DEF PathInv, Walks
  <2>4. IsWalk(longer)
    BY <1>2, <1>5, <2>1, <2>2, <2>3, WalkExtended
  <2> HIDE DEF longer
  <2>5. path \in [Branches -> Seq(Entities)] /\ \A b \in Branches : IsWalk(path[b])
    BY DEF IInv, TypeOK, PathInv, Walks
  <2>6. \A b \in Branches : path'[b] = IF b = c THEN longer ELSE path[b]
    BY <1>5, <2>5
  <2>7. \A b \in Branches : IsWalk(path'[b])
    BY <2>4, <2>5, <2>6, Zenon
  <2>8. cursor' # None /\ cursor' # Root => Last(path'[cursor']) \notin Anchors
    BY <1>1, <1>2, <2>6 DEF PathInv, Walks
  <2> QED
    BY <1>1, <1>3, <2>7, <2>8, PathsPrimed, Zenon
<1> QED
  BY <1>4, <1>5 DEF StartHint, c

LEMMA NextPathInv == ASSUME IInv, PathInv, [Next]_vars PROVE PathInv'
<1>1. CASE UNCHANGED <<env, path, chains>> /\ cursor' \in {cursor, None}
  <2>1. \A i \in DOMAIN chains' : IsChainPath(chains'[i])
    BY <1>1 DEF PathInv, ResultSound
  <2> QED
    BY <1>1, <2>1, PathsKept
<1>2. \/ UNCHANGED <<env, path, chains>> /\ cursor' \in {cursor, None}
      \/ LeafArrives \/ StartHint \/ \E b \in Branches : Climb(b)
  BY DEF Next, Progress, Begin, LeafFails, ReturnEarly, EndLoop, Join, StartFetch, FetchEnds,
         FetchStatement, Abort, Returned, vars, walk, result
<1> QED
  BY <1>1, <1>2, LeafArrivesPaths, StartHintPaths, ClimbPaths

(* Every chain resolveTrustChains reports is a chain of the federation     *)
(* graph: from the leaf, hint by hint, without a loop, accepted by the     *)
(* filter, to the first trust anchor it meets; whatever the order of the   *)
(* answers, the limits and the aborts.                                     *)
THEOREM ResultCorrect == Spec => []ResultSound
<1>1. Init => PathInv
  BY InitPathInv
<1>2. IInv /\ PathInv /\ [Next]_vars => PathInv'
  BY NextPathInv
<1>3. PathInv => ResultSound
  BY DEF PathInv
<1> QED
  BY <1>1, <1>2, <1>3, WalkCorrect, PTL DEF Spec
----------------------------------------------------------------------------
(* The chains of the graph, and how far the walk is on its way to each.    *)
LEMMA ReferenceShape ==
    ASSUME NEW p \in ReferenceChains
    PROVE  /\ p \in Seq(Entities) /\ Len(p) \in Nat \ {0} /\ DOMAIN p = 1..Len(p)
           /\ p[1] = Leaf /\ p[Len(p)] \in Anchors
           /\ \A i, j \in 1..Len(p) : p[i] = p[j] => i = j
           /\ Len(p) = 1 => hints[Leaf] = <<>>
           /\ \A i \in 1..(Len(p) - 1) :
                 /\ p[i + 1] \in Visited(hints[p[i]])
                 /\ <<p[i + 1], p[i]>> \in env.filter
                 /\ i > 1 => p[i] \notin Anchors
<1>1. PICK n \in 1..Cardinality(Entities) : p \in [1..n -> Entities]
  BY DEF ReferenceChains
<1>2. n \in Nat \ {0}
  BY <1>1
<1>3. p \in Seq(Entities) /\ Len(p) = n /\ DOMAIN p = 1..n
  BY <1>1, <1>2, SeqDef
<1>4. IsChainPath(p)
  BY DEF ReferenceChains
<1>5. p \in Injection(1..n, Visited(p))
  <2>1. p \in [1..n -> Visited(p)]
    BY <1>1, <1>3 DEF Visited
  <2>2. p \in Surjection(1..n, Visited(p))
    BY <1>3, <2>1 DEF Surjection, Visited
  <2>3. IsFiniteSet(1..n) /\ Cardinality(1..n) = n
    BY <1>2, FS_Interval
  <2>4. Cardinality(1..n) = Cardinality(Visited(p))
    BY <1>3, <1>4, <2>3 DEF IsChainPath
  <2> QED
    BY <2>2, <2>3, <2>4, FS_SurjSameCardinalityImpliesInj
<1>6. \A i, j \in 1..n : p[i] = p[j] => i = j
  BY <1>5 DEF Injection, IsInjective
<1> QED
  BY <1>2, <1>3, <1>4, <1>6 DEF IsChainPath, Last

(* A branch along a chain is at the chain's element of its depth.          *)
LEMMA AlongShape ==
    ASSUME IInv, PathInv, NEW p \in ReferenceChains, NEW b \in Branches, Along(b, p)
    PROVE  /\ Len(path[b]) \in 1..Len(p) /\ path[b] \in Seq(Entities)
           /\ Last(path[b]) = p[Len(path[b])]
           /\ \A i \in 1..Len(path[b]) : path[b][i] = p[i]
           /\ Visited(path[b]) = {p[i] : i \in 1..Len(path[b])}
<1>1. /\ p \in Seq(Entities) /\ Len(p) \in Nat \ {0}
  BY ReferenceShape
<1>2. path[b] \in Seq(Entities) /\ path[b] # <<>>
  BY DEF IInv, TypeOK, PathInv, Walks, IsWalk
<1>3. Len(path[b]) \in 1..Len(p) /\ DOMAIN path[b] = 1..Len(path[b])
  BY <1>1, <1>2, EmptySeq, LenProperties DEF Along
<1>4. path[b] = SubSeq(p, 1, Len(path[b]))
  BY DEF Along
<1>5. \A n \in 1..Len(p) : \A i \in 1..n : SubSeq(p, 1, n)[i] = p[i]
  BY <1>1, SubSeqProperties
<1>6. \A i \in 1..Len(path[b]) : path[b][i] = p[i]
  BY <1>3, <1>4, <1>5
<1>7. Visited(path[b]) = {p[i] : i \in 1..Len(path[b])}
  BY <1>3, <1>6 DEF Visited
<1> QED
  BY <1>2, <1>3, <1>6, <1>7 DEF Last

(* What keeps a chain covered after a step: the branch along it still has  *)
(* a fetch to make or was refused one, or it is about to loop over hints.  *)
LEMMA CoveredByBorn ==
    ASSUME NEW p, NEW b \in Branches,
           Len(path'[b]) <= Len(p), path'[b] = SubSeq(p, 1, Len(path'[b])),
           \/ pc'[b] \in Moving
           \/ pc'[b] = "rejected" /\ aborted' /\ b # Root /\ pc'[Parent(b)] = "joining"
    PROVE  Covered(p)'
<1>1. OnItsWay(b, p)'
  BY DEF OnItsWay, Along, Moving, Parent
<1> QED
  BY <1>1 DEF Covered

LEMMA CoveredByMoving ==
    ASSUME NEW p, NEW b \in Branches, Along(b, p), path'[b] = path[b],
           \/ pc'[b] \in Moving
           \/ pc'[b] = "rejected" /\ aborted' /\ b # Root /\ pc'[Parent(b)] = "joining"
    PROVE  Covered(p)'
  BY CoveredByBorn DEF Along

LEMMA CoveredByLoop ==
    ASSUME env' = env, NEW p, NEW b \in Branches, Along(b, p), path'[b] = path[b], cursor' = b,
           Len(path[b]) < Len(p), NEW i \in next'..MaxHints, i \in DOMAIN hints[Last(path[b])],
           hints[Last(path[b])][i] = p[Len(path[b]) + 1]
    PROVE  Covered(p)'
<1>1. hints' = hints
  BY DEF hints
<1>2. ToCome(b, p)'
  BY <1>1 DEF ToCome, Last
<1>3. OnItsWay(b, p)'
  BY <1>2 DEF OnItsWay, Along
<1> QED
  BY <1>3 DEF Covered

LEMMA CoveredByResult ==
    ASSUME NEW p, p \in Visited(chains') \/ \E b \in failed' : path'[b] = path[b] /\ Along(b, p)
    PROVE  Covered(p)'
<1>1. p \in Visited(chains)' \/ CutOff(p)'
  BY DEF CutOff, Along, Visited
<1> QED
  BY <1>1 DEF Covered

(* A step outside the loop that takes no branch off its way but by an      *)
(* abort that its parent is still to report.                               *)
LEMMA CoveredOnwards ==
    ASSUME IInv, NEW p, NEW b \in Branches, OnItsWay(b, p), cursor = None, path' = path,
           aborted => aborted',
           \/ pc'[b] = pc[b]
           \/ pc[b] \in Moving /\ pc'[b] \in Moving
           \/ pc[b] \in Moving /\ pc'[b] = "rejected" /\ aborted',
           b # Root /\ pc[Parent(b)] = "joining" => pc'[Parent(b)] = "joining"
    PROVE  Covered(p)'
<1>1. cursor # b
  BY NoneAssumption
<1>2. Along(b, p)
  BY DEF OnItsWay
<1>3. CASE pc'[b] \in Moving
  BY <1>2, <1>3, CoveredByMoving
<1>4. CASE pc[b] \in Moving /\ pc'[b] = "rejected" /\ aborted'
  <2>1. b # Root /\ pc[b] \in Live
    BY <1>4 DEF IInv, Tree, RootPlace, Moving, Live
  <2>2. Len(b) \in Nat /\ Len(b) # 0 /\ Len(b) - 1 \in 0..(Len(b) - 1)
    BY <2>1, BranchShape
  <2>3. pc[Parent(b)] = "joining"
    BY <2>1, <2>2 DEF IInv, Tree, Awaited, Parent
  <2> QED
    BY <1>2, <1>4, <2>1, <2>3, CoveredByMoving
<1>5. CASE pc[b] = "rejected" /\ pc'[b] = "rejected" /\ aborted /\ b # Root
           /\ pc[Parent(b)] = "joining"
  BY <1>2, <1>5, CoveredByMoving
<1> QED
  BY <1>1, <1>3, <1>4, <1>5 DEF OnItsWay, Moving

LEMMA ParentShape ==
    /\ \A b \in Branches, i \in 1..MaxHints : Parent(Child(b, i)) = b
    /\ \A c \in Branches \ {Root} :
          Parent(c) \in Branches /\ \E i \in 1..MaxHints : c = Child(Parent(c), i)
<1>1. ASSUME NEW b \in Branches, NEW i \in 1..MaxHints PROVE Parent(Child(b, i)) = b
  <2>1. Len(Child(b, i)) = Len(b) + 1 /\ Len(b) \in Nat
    BY ChildShape, BranchShape
  <2>2. Len(Child(b, i)) - 1 = Len(b)
    BY <2>1
  <2> QED
    BY <2>2, AboveChild DEF Parent
<1>2. ASSUME NEW c \in Branches \ {Root}
      PROVE  Parent(c) \in Branches /\ \E i \in 1..MaxHints : c = Child(Parent(c), i)
  <2>1. Len(c) \in Nat /\ Len(c) # 0 /\ c \in Seq(1..MaxHints)
    BY BranchShape
  <2>2. Len(c) - 1 \in 0..Len(c) /\ (Len(c) - 1) + 1 = Len(c)
    BY <2>1
  <2>3. Parent(c) \in Branches /\ Len(Parent(c)) = Len(c) - 1
    BY <2>2, Above DEF Parent
  <2>4. Len(Parent(c)) < Len(c) /\ Parent(c) = SubSeq(c, 1, Len(Parent(c)))
        /\ Len(Parent(c)) + 1 = Len(c)
    BY <2>1, <2>3 DEF Parent
  <2>5. SubSeq(c, 1, Len(c)) = c
    BY <2>1
  <2>6. \E i \in 1..MaxHints : Child(Parent(c), i) = SubSeq(c, 1, Len(Parent(c)) + 1)
    BY <2>3, <2>4, Below
  <2> QED
    BY <2>3, <2>4, <2>5, <2>6
<1> QED
  BY <1>1, <1>2

(* The parts of CoverInv about one branch, under steps that bear none.     *)
LEMMA SidesKept ==
    ASSUME IInv, CoverInv, path' = path, garbled' \subseteq failed',
           failed' \subseteq Branches,
           \A b \in failed' : b \in failed \/ phase' = "returned" \/ pc'[b] # "unborn",
           \A b \in Branches : /\ pc[b] # "unborn" => pc'[b] # "unborn"
                               /\ pc'[b] \in Live => pc[b] \in Live \/ b = Root,
           phase = "returned" => phase' = "returned"
    PROVE  (garbled \subseteq failed)' /\ FailedBorn' /\ Continues'
<1>1. FailedBorn'
  BY DEF CoverInv, FailedBorn
<1>2. Continues'
  <2> SUFFICES ASSUME NEW b \in Branches, pc'[b] \in Live, NEW n \in 0..(Len(b) - 1)
               PROVE  path[SubSeq(b, 1, n)] = SubSeq(path[b], 1, n + 1)
    BY DEF Continues
  <2>1. b # Root
    BY BranchShape
  <2> QED
    BY <2>1 DEF CoverInv, Continues
<1> QED
  BY <1>1, <1>2

LEMMA CompleteKept ==
    ASSUME IInv, CoverInv, UNCHANGED <<env, path>>, failed \subseteq failed',
           Visited(chains) \subseteq Visited(chains'),
           phase' \in {"walking", "returned"} /\ ~incomplete' =>
               phase \in {"walking", "returned"} /\ ~incomplete,
           \A p \in ReferenceChains, b \in Branches :
               OnItsWay(b, p) /\ ~incomplete' => Covered(p)'
    PROVE  Complete'
<1>1. ReferenceChains' = ReferenceChains
  BY FixedFederation
<1>2. ASSUME NEW p \in ReferenceChains, phase' \in {"walking", "returned"}, ~incomplete'
      PROVE  Covered(p)'
  <2>1. Covered(p)
    BY <1>2 DEF CoverInv, Complete
  <2>2. CASE p \in Visited(chains) \/ CutOff(p)
    <3>1. p \in Visited(chains') \/ \E b \in failed' : path'[b] = path[b] /\ Along(b, p)
      BY <2>2 DEF CutOff
    <3> QED
      BY <3>1, CoveredByResult
  <2>3. CASE \E b \in Branches : OnItsWay(b, p)
    BY <1>2, <2>3
  <2> QED
    BY <2>1, <2>2, <2>3 DEF Covered
<1> QED
  BY <1>1, <1>2 DEF Complete

LEMMA FirstOnly ==
    ASSUME NEW p \in Seq(Entities), Len(p) \in Nat \ {0} PROVE SubSeq(p, 1, 1) = <<p[1]>>
<1>1. SubSeq(p, 1, 1) \in Seq(Entities) /\ Len(SubSeq(p, 1, 1)) = 1 /\ SubSeq(p, 1, 1)[1] = p[1]
  BY SubSeqProperties
<1>2. <<p[1]>> \in Seq(Entities) /\ Len(<<p[1]>>) = 1 /\ <<p[1]>>[1] = p[1]
  BY LenProperties
<1>3. \A i \in 1..1 : i = 1
  OBVIOUS
<1>4. \A i \in 1..Len(SubSeq(p, 1, 1)) : SubSeq(p, 1, 1)[i] = <<p[1]>>[i]
  BY <1>1, <1>2, <1>3, Zenon
<1> QED
  BY <1>1, <1>2, <1>4, SeqEqual, Zenon

LEMMA BeginCover == ASSUME IInv, CoverInv, Begin PROVE CoverInv'
<1>1. UNCHANGED <<env, path, pc, garbled, failed>> /\ phase = "start"
  BY DEF Begin, walk
<1>2. (garbled \subseteq failed)' /\ FailedBorn' /\ Continues'
  <2>1. failed' \subseteq Branches /\ garbled' \subseteq failed'
    BY <1>1 DEF IInv, TypeOK, CoverInv
  <2>2. \A b \in Branches : /\ pc[b] # "unborn" => pc'[b] # "unborn"
                            /\ pc'[b] \in Live => pc[b] \in Live \/ b = Root
    BY <1>1
  <2> QED
    BY <1>1, <2>1, <2>2, SidesKept
<1>3. phase' = "leaf" \/ (phase' = "returned" /\ incomplete')
  BY Zenon DEF Begin
<1> QED
  BY <1>2, <1>3 DEF CoverInv, EarlyEnd, Complete

LEMMA LeafFailsCover == ASSUME IInv, PathInv, CoverInv, LeafFails PROVE CoverInv'
<1>1. /\ UNCHANGED <<env, path, pc, garbled>> /\ phase = "leaf" /\ phase' = "returned"
      /\ failed' = failed \cup {Root}
  BY DEF LeafFails, walk
<1>2. (garbled \subseteq failed)' /\ FailedBorn' /\ Continues'
  <2>1. failed' \subseteq Branches /\ garbled' \subseteq failed'
    BY <1>1, BranchShape DEF IInv, TypeOK, CoverInv
  <2>2. \A b \in Branches : /\ pc[b] # "unborn" => pc'[b] # "unborn"
                            /\ pc'[b] \in Live => pc[b] \in Live \/ b = Root
    BY <1>1
  <2> QED
    BY <1>1, <2>1, <2>2, SidesKept
<1>3. ReferenceChains' = ReferenceChains
  BY <1>1, FixedFederation
<1>4. ASSUME NEW p \in ReferenceChains PROVE Covered(p)'
  <2>1. p \in Seq(Entities) /\ Len(p) \in Nat \ {0} /\ p[1] = Leaf
    BY ReferenceShape
  <2>2. path[Root] = <<Leaf>>
    BY DEF IInv, Tree, RootPlace
  <2>3. SubSeq(p, 1, 1) = <<Leaf>> /\ Len(<<Leaf>>) = 1
    BY <2>1, FirstOnly
  <2>4. Along(Root, p)
    BY <2>1, <2>2, <2>3 DEF Along
  <2> QED
    BY <1>1, <2>4, CoveredByResult
<1> QED
  BY <1>1, <1>2, <1>3, <1>4 DEF CoverInv, EarlyEnd, Complete

(* buildChains: the loop ahead is to start the branch of every chain.      *)
LEMMA BuildChainsCovers ==
    ASSUME IInv, PathInv, NEW p \in ReferenceChains, NEW b \in Branches, Along(b, p),
           UNCHANGED <<env, path>>, BuildChains(b), ~incomplete', Len(path[b]) # Len(p)
    PROVE  Covered(p)'
<1>1. /\ cursor' = b /\ next' = 1 /\ ~(Len(hints[Last(path[b])]) > MaxHints)
  BY DEF BuildChains
<1>2. /\ Len(path[b]) \in 1..Len(p) /\ Last(path[b]) = p[Len(path[b])]
  BY AlongShape
<1>3. /\ p \in Seq(Entities) /\ Len(p) \in Nat \ {0}
      /\ \A i \in 1..(Len(p) - 1) : p[i + 1] \in Visited(hints[p[i]])
  BY ReferenceShape
<1>4. Len(path[b]) \in 1..(Len(p) - 1) /\ Len(path[b]) < Len(p)
  BY <1>2, <1>3
<1>5. p[Len(path[b]) + 1] \in Visited(hints[Last(path[b])])
  BY <1>2, <1>3, <1>4
<1>6. hints[Last(path[b])] \in Seq(Entities)
  <2>1. Last(path[b]) \in Entities
    BY <1>2, <1>3, LenProperties
  <2> QED
    BY <2>1, ScenarioAssumption DEF IInv, TypeOK, hints
<1>7. PICK i \in DOMAIN hints[Last(path[b])] : hints[Last(path[b])][i] = p[Len(path[b]) + 1]
  BY <1>5 DEF Visited
<1>8. i \in next'..MaxHints
  BY <1>1, <1>6, <1>7, LenProperties, LimitAssumption
<1> QED
  BY <1>1, <1>4, <1>7, <1>8, CoveredByLoop

LEMMA LeafArrivesCover == ASSUME IInv, PathInv, CoverInv, LeafArrives PROVE CoverInv'
<1>1. UNCHANGED <<env, path, garbled, failed>> /\ phase = "leaf"
  BY DEF LeafArrives
<1>2. /\ path[Root] = <<Leaf>> /\ Root \in Branches
      /\ pc \in [Branches -> Live \cup Finished] /\ \A b \in Branches : pc[b] = "unborn"
  BY <1>1, BranchShape DEF IInv, TypeOK, Tree, RootPlace, Begun
<1>3. \A b \in Branches : /\ pc[b] # "unborn" => pc'[b] # "unborn"
                          /\ pc'[b] \in Live => b = Root
  BY <1>2 DEF LeafArrives, BuildChains, Live
<1>4. (garbled \subseteq failed)' /\ FailedBorn' /\ Continues'
  <2>1. failed' \subseteq Branches /\ garbled' \subseteq failed'
    BY <1>1 DEF IInv, TypeOK, CoverInv
  <2> QED
    BY <1>1, <1>3, <2>1, SidesKept
<1>5. ReferenceChains' = ReferenceChains
  BY <1>1, FixedFederation
<1>6. ASSUME NEW p \in ReferenceChains
      PROVE  /\ Along(Root, p)
             /\ Len(p) = 1 <=> hints[Leaf] = <<>>
             /\ Len(p) = 1 => p = <<Leaf>> /\ Leaf \in Anchors
  <2>1. /\ p \in Seq(Entities) /\ Len(p) \in Nat \ {0} /\ p[1] = Leaf
        /\ p[Len(p)] \in Anchors
        /\ Len(p) = 1 => hints[Leaf] = <<>>
        /\ \A i \in 1..(Len(p) - 1) : p[i + 1] \in Visited(hints[p[i]])
    BY ReferenceShape
  <2>2. SubSeq(p, 1, 1) = <<Leaf>> /\ Len(<<Leaf>>) = 1
    BY <2>1, FirstOnly
  <2>3. Along(Root, p)
    BY <1>2, <2>1, <2>2 DEF Along
  <2>4. Len(p) = 1 => p = <<Leaf>> /\ Leaf \in Anchors
    BY <2>1
  <2>5. Len(p) # 1 => p[2] \in Visited(hints[Leaf])
    <3>1. ASSUME Len(p) # 1 PROVE 1 \in 1..(Len(p) - 1)
      <4>1. Len(p) \in Nat \ {0}
        BY ReferenceShape
      <4>2. \A n \in Nat \ {0} : n # 1 => 1 \in 1..(n - 1)
        OBVIOUS
      <4> QED
        BY <3>1, <4>1, <4>2, Zenon
    <3> QED
      BY <2>1, <3>1
  <2>6. Visited(<<>>) = {}
    BY DEF Visited
  <2>7. Len(p) # 1 => hints[Leaf] # <<>>
    BY <2>5, <2>6
  <2> QED
    BY <2>1, <2>3, <2>4, <2>7
<1>7. CASE /\ hints[Leaf] = <<>> /\ phase' = "returned"
           /\ chains' = IF Leaf \in Anchors THEN <<<<Leaf>>>> ELSE chains
  <2>1. ASSUME NEW p \in ReferenceChains PROVE Covered(p)'
    <3>1. chains' = <<p>>
      BY <1>6, <1>7
    <3>2. p \in Visited(chains')
      BY <3>1 DEF Visited
    <3> QED
      BY <3>2, CoveredByResult
  <2> QED
    BY <1>4, <1>5, <1>7, <2>1 DEF CoverInv, EarlyEnd, Complete
<1>8. CASE hints[Leaf] # <<>> /\ phase' = "walking" /\ BuildChains(Root)
  <2>1. ASSUME NEW p \in ReferenceChains, ~incomplete' PROVE Covered(p)'
    <3>1. Len(path[Root]) # Len(p)
      BY <1>2, <1>6, <1>8
    <3> QED
      BY <1>1, <1>2, <1>6, <1>8, <2>1, <3>1, BuildChainsCovers
  <2>2. EarlyEnd'
    <3>1. pc'[Root] = "joining" \/ incomplete'
      BY <1>2, <1>8 DEF BuildChains
    <3> QED
      BY <3>1 DEF EarlyEnd
  <2> QED
    BY <1>4, <1>5, <1>8, <2>1, <2>2 DEF CoverInv, Complete
<1> QED
  BY <1>7, <1>8 DEF LeafArrives

LEMMA ReturnEarlyCover == ASSUME IInv, CoverInv, ReturnEarly PROVE CoverInv'
<1>1. /\ UNCHANGED <<env, path, pc, garbled, failed>> /\ phase = "walking" /\ phase' = "returned"
      /\ incomplete'
  BY DEF ReturnEarly, walk, CoverInv, EarlyEnd
<1>2. (garbled \subseteq failed)' /\ FailedBorn' /\ Continues'
  <2>1. failed' \subseteq Branches /\ garbled' \subseteq failed'
    BY <1>1 DEF IInv, TypeOK, CoverInv
  <2>2. \A b \in Branches : /\ pc[b] # "unborn" => pc'[b] # "unborn"
                            /\ pc'[b] \in Live => pc[b] \in Live \/ b = Root
    BY <1>1
  <2> QED
    BY <1>1, <2>1, <2>2, SidesKept
<1> QED
  BY <1>1, <1>2 DEF CoverInv, EarlyEnd, Complete

LEMMA EndLoopCover == ASSUME IInv, PathInv, CoverInv, EndLoop PROVE CoverInv'
<1>1. /\ UNCHANGED <<env, phase, path, pc, aborted, chains, garbled, failed, incomplete>>
      /\ cursor # None /\ ~MoreHints
  BY DEF EndLoop, result
<1>2. (garbled \subseteq failed)' /\ FailedBorn' /\ Continues'
  <2>1. failed' \subseteq Branches /\ garbled' \subseteq failed'
    BY <1>1 DEF IInv, TypeOK, CoverInv
  <2>2. \A b \in Branches : /\ pc[b] # "unborn" => pc'[b] # "unborn"
                            /\ pc'[b] \in Live => pc[b] \in Live \/ b = Root
    BY <1>1
  <2> QED
    BY <1>1, <2>1, <2>2, SidesKept
<1>3. ASSUME NEW p \in ReferenceChains, NEW b \in Branches, OnItsWay(b, p) PROVE Covered(p)'
  <2>1. Along(b, p)
    BY <1>3 DEF OnItsWay
  <2>2. CASE pc[b] \in Moving
    BY <1>1, <2>1, <2>2, CoveredByMoving
  <2>3. CASE pc[b] = "rejected" /\ aborted /\ b # Root /\ pc[Parent(b)] = "joining"
    BY <1>1, <2>1, <2>3, CoveredByMoving
  <2>4. CASE cursor = b /\ ToCome(b, p)
    <3>1. PICK i \in next..MaxHints :
             Len(path[b]) < Len(p) /\ i \in DOMAIN hints[Last(path[b])]
      BY <2>4 DEF ToCome
    <3>2. hints[Last(path[b])] \in Seq(Entities)
      <4>1. Len(path[b]) \in 1..Len(p) /\ Last(path[b]) = p[Len(path[b])] /\ p \in Seq(Entities)
        BY <2>1, AlongShape, ReferenceShape
      <4>2. Last(path[b]) \in Entities
        BY <4>1, LenProperties
      <4> QED
        BY <4>2, ScenarioAssumption DEF IInv, TypeOK, hints
    <3>3. next \in Nat /\ MaxHints \in Nat /\ i \in 1..Len(hints[Last(path[b])])
      BY <3>1, <3>2, LenProperties, LimitAssumption DEF IInv, TypeOK
    <3>4. next <= MaxHints /\ next <= Len(hints[Last(path[b])])
      BY <3>1, <3>2, <3>3, LenProperties
    <3> QED
      BY <1>1, <2>4, <3>4 DEF MoreHints
  <2> QED
    BY <1>3, <2>2, <2>3, <2>4 DEF OnItsWay, Moving
<1>4. Complete'
  BY <1>1, <1>3, CompleteKept
<1>5. EarlyEnd'
  BY <1>1 DEF CoverInv, EarlyEnd
<1> QED
  BY <1>2, <1>4, <1>5 DEF CoverInv

LEMMA JoinCover == ASSUME IInv, CoverInv, NEW b \in Branches, Join(b) PROVE CoverInv'
<1>1. /\ UNCHANGED <<env, path, aborted, chains, garbled, failed>>
      /\ cursor = None /\ pc[b] = "joining" /\ pc' = [pc EXCEPT ![b] = "done"]
      /\ phase' = IF b = Root THEN "returned" ELSE phase
  BY DEF Join
<1>2. /\ pc \in [Branches -> Live \cup Finished] /\ phase = "walking"
      /\ \A c \in Branches : pc'[c] = IF c = b THEN "done" ELSE pc[c]
  BY <1>1 DEF IInv, TypeOK, Tree, OnlyWalking, Quiet, Live
<1>3. (garbled \subseteq failed)' /\ FailedBorn' /\ Continues'
  <2>1. failed' \subseteq Branches /\ garbled' \subseteq failed'
    BY <1>1 DEF IInv, TypeOK, CoverInv
  <2>2. \A c \in Branches : /\ pc[c] # "unborn" => pc'[c] # "unborn"
                            /\ pc'[c] \in Live => pc[c] \in Live \/ c = Root
    BY <1>2 DEF Live
  <2> QED
    BY <1>1, <1>2, <2>1, <2>2, SidesKept
<1>4. ~incomplete' => ~incomplete
  BY Zenon DEF Join
<1>5. ASSUME NEW p \in ReferenceChains, NEW c \in Branches, OnItsWay(c, p), ~incomplete'
      PROVE  Covered(p)'
  <2>1. Along(c, p) /\ c # cursor
    BY <1>1, <1>5, NoneAssumption DEF OnItsWay
  <2>2. CASE pc[c] \in Moving
    <3>1. pc'[c] \in Moving
      BY <1>1, <1>2, <2>2 DEF Moving
    <3> QED
      BY <1>1, <2>1, <3>1, CoveredByMoving
  <2>3. CASE pc[c] = "rejected" /\ aborted /\ c # Root /\ pc[Parent(c)] = "joining"
    <3>1. Parent(c) \in Branches /\ \E i \in 1..MaxHints : c = Child(Parent(c), i)
      BY <2>3, ParentShape
    <3>2. Parent(c) # b
      <4> SUFFICES ASSUME Parent(c) = b PROVE FALSE
        OBVIOUS
      <4>1. c \in {d \in {Child(b, i) : i \in 1..MaxHints} \cap Branches : pc[d] = "rejected"}
        BY <2>3, <3>1
      <4>2. incomplete'
        BY <2>3, <4>1, Zenon DEF Join
      <4> QED
        BY <1>5, <4>2
    <3>3. pc'[c] = "rejected" /\ pc'[Parent(c)] = "joining"
      BY <1>1, <1>2, <2>3, <3>1, <3>2
    <3> QED
      BY <1>1, <2>1, <2>3, <3>3, CoveredByMoving
  <2> QED
    BY <1>5, <2>1, <2>2, <2>3 DEF OnItsWay, Moving
<1>6. Complete'
  BY <1>1, <1>2, <1>4, <1>5, CompleteKept
<1>7. EarlyEnd'
  <2>1. CASE b = Root
    BY <1>1, <2>1 DEF EarlyEnd
  <2>2. CASE b # Root
    <3>1. phase' = phase /\ pc'[Root] = pc[Root]
      BY <1>1, <1>2, <2>2, BranchShape
    <3>2. incomplete => incomplete'
      BY Zenon DEF Join
    <3> QED
      BY <3>1, <3>2, Zenon DEF CoverInv, EarlyEnd
  <2> QED
    BY <2>1, <2>2
<1> QED
  BY <1>3, <1>6, <1>7 DEF CoverInv

(* A step of branches in the limiter, on the network or between the two.   *)
LEMMA MovesCover ==
    ASSUME IInv, CoverInv, UNCHANGED <<env, phase, path, chains>>, cursor = None,
           incomplete => incomplete', aborted => aborted', garbled' \subseteq failed',
           failed \subseteq failed', failed' \subseteq Branches,
           \A c \in failed' \ failed : pc[c] # "unborn",
           \A c \in Branches :
              \/ pc'[c] = pc[c]
              \/ pc[c] \in Moving /\ pc'[c] \in Moving
              \/ pc[c] \in Moving /\ pc'[c] = "rejected" /\ aborted'
              \/ pc[c] \in Moving /\ pc'[c] \in {"done", "rejected"} /\ (incomplete' \/ c \in failed')
    PROVE  CoverInv'
<1>1. (garbled \subseteq failed)' /\ FailedBorn' /\ Continues'
  <2>1. \A c \in Branches : /\ pc[c] # "unborn" => pc'[c] # "unborn"
                            /\ pc'[c] \in Live => pc[c] \in Live \/ c = Root
    BY DEF Moving, Live
  <2> QED
    BY <2>1, SidesKept
<1>2. \A c \in Branches : pc[c] = "joining" => pc'[c] = "joining"
  BY DEF Moving
<1>3. ASSUME NEW p \in ReferenceChains, NEW c \in Branches, OnItsWay(c, p), ~incomplete'
      PROVE  Covered(p)'
  <2>1. CASE c \in failed'
    <3>1. Along(c, p)
      BY <1>3 DEF OnItsWay
    <3> QED
      BY <2>1, <3>1, CoveredByResult
  <2>2. CASE c \notin failed'
    <3>1. c # Root /\ pc[Parent(c)] = "joining" => pc'[Parent(c)] = "joining"
      BY <1>2, ParentShape
    <3> QED
      BY <1>3, <2>2, <3>1, CoveredOnwards
  <2> QED
    BY <2>1, <2>2
<1>4. Complete'
  BY <1>3, CompleteKept
<1>5. EarlyEnd'
  <2>1. pc'[Root] = pc[Root]
    <3>1. Root \in Branches /\ pc[Root] \notin Moving
      BY BranchShape DEF IInv, Tree, RootPlace, Moving
    <3> QED
      BY <3>1
  <2> QED
    BY <2>1 DEF CoverInv, EarlyEnd
<1> QED
  BY <1>1, <1>4, <1>5 DEF CoverInv

LEMMA AbortCover == ASSUME IInv, CoverInv, Abort PROVE CoverInv'
<1>1. /\ UNCHANGED <<env, phase, path, chains, garbled, failed, incomplete>>
      /\ cursor = None /\ aborted' = TRUE
      /\ pc' = [b \in Branches |->
                  IF listening /\ b \in Visited(queue) THEN "rejected" ELSE pc[b]]
  BY DEF Abort, result
<1>2. \A c \in Visited(queue) : pc[c] \in Moving
  BY SlotsShape DEF IInv, Waiting, Moving
<1>3. \A c \in Branches : \/ pc'[c] = pc[c]
                          \/ pc[c] \in Moving /\ pc'[c] = "rejected" /\ aborted'
  BY <1>1, <1>2
<1>4. garbled' \subseteq failed' /\ failed' \subseteq Branches
  BY <1>1 DEF IInv, TypeOK, CoverInv
<1> QED
  BY <1>1, <1>3, <1>4, MovesCover

LEMMA StartFetchCover == ASSUME IInv, CoverInv, NEW b \in Branches, StartFetch(b) PROVE CoverInv'
<1>1. /\ UNCHANGED <<env, phase, path, chains, garbled, failed, incomplete, aborted>>
      /\ cursor = None /\ pc[b] = "granted" /\ pc[b] \in Moving /\ pc[b] \in Holding
  BY DEF StartFetch, result, Moving, Holding
<1>2. garbled' \subseteq failed' /\ failed' \subseteq Branches
  BY <1>1 DEF IInv, TypeOK, CoverInv
<1>3. CASE aborted /\ Release(b, "rejected")
  <2>1. /\ pc'[b] = "rejected"
        /\ \A c \in Branches \ {b} : pc'[c] = pc[c] \/ (pc[c] = "queued" /\ pc'[c] = "granted")
    BY <1>1, <1>3, SlotsReleased DEF IInv
  <2>2. \A c \in Branches : \/ pc'[c] = pc[c]
                            \/ pc[c] \in Moving /\ pc'[c] \in Moving
                            \/ pc[c] \in Moving /\ pc'[c] = "rejected" /\ aborted'
    BY <1>1, <1>3, <2>1 DEF Moving
  <2> QED
    BY <1>1, <1>2, <2>2, MovesCover
<1>4. CASE pc' = [pc EXCEPT ![b] = "fetching"]
  <2>1. \A c \in Branches : \/ pc'[c] = pc[c]
                            \/ pc[c] \in Moving /\ pc'[c] \in Moving
    BY <1>1, <1>4 DEF Moving, IInv, TypeOK
  <2> QED
    BY <1>1, <1>2, <2>1, MovesCover
<1> QED
  BY <1>3, <1>4 DEF StartFetch

LEMMA FetchEndsCover ==
    ASSUME IInv, CoverInv, NEW b \in Branches, NEW answer \in Answers, FetchEnds(b, answer)
    PROVE  CoverInv'
<1> DEFINE to == CASE answer = "error" -> "done"
                   [] answer = "throws" -> "rejected"
                   [] OTHER -> "got"
<1>1. /\ UNCHANGED <<env, phase, path, chains, incomplete, aborted>>
      /\ cursor = None /\ pc[b] = "fetching" /\ Release(b, to)
      /\ garbled' = IF answer = "garbled" THEN garbled \cup {b} ELSE garbled
      /\ failed' = IF answer = "ok" THEN failed ELSE failed \cup {b}
  BY DEF FetchEnds
<1>2. pc[b] \in Moving /\ pc[b] \in Holding /\ pc[b] # "unborn"
  BY <1>1 DEF Moving, Holding
<1>3. to \in {"done", "rejected", "got"} /\ (to # "got" => b \in failed')
  BY <1>1 DEF Answers
<1> HIDE DEF to
<1>4. /\ pc'[b] = to
      /\ \A c \in Branches \ {b} : pc'[c] = pc[c] \/ (pc[c] = "queued" /\ pc'[c] = "granted")
  BY <1>1, <1>2, <1>3, SlotsReleased DEF IInv
<1>5. /\ garbled' \subseteq failed' /\ failed' \subseteq Branches /\ failed \subseteq failed'
      /\ \A c \in failed' \ failed : pc[c] # "unborn"
  <2>1. garbled \subseteq failed /\ failed \subseteq Branches
    BY DEF IInv, TypeOK, CoverInv
  <2> QED
    BY <1>1, <1>2, <2>1
<1>6. \A c \in Branches :
         \/ pc'[c] = pc[c]
         \/ pc[c] \in Moving /\ pc'[c] \in Moving
         \/ pc[c] \in Moving /\ pc'[c] \in {"done", "rejected"} /\ (incomplete' \/ c \in failed')
  BY <1>2, <1>3, <1>4 DEF Moving
<1> QED
  BY <1>1, <1>5, <1>6, MovesCover

(* Acquire refuses a slot only after an abort.                             *)
LEMMA AcquireMoves ==
    ASSUME NEW b \in Branches, Acquire(b), aborted' = aborted, pc \in [Branches -> Live \cup Finished]
    PROVE  /\ \A c \in Branches \ {b} : pc'[c] = pc[c]
           /\ pc'[b] \in Moving \/ (pc'[b] = "rejected" /\ aborted')
  BY DEF Acquire, Moving

LEMMA FetchStatementCover ==
    ASSUME IInv, CoverInv, NEW b \in Branches, FetchStatement(b) PROVE CoverInv'
<1>1. /\ UNCHANGED <<env, phase, path, chains, garbled, failed, aborted>>
      /\ cursor = None /\ pc[b] \in Moving
  BY DEF FetchStatement, Moving
<1>2. /\ garbled' \subseteq failed' /\ failed' \subseteq Branches
      /\ pc \in [Branches -> Live \cup Finished]
  BY <1>1 DEF IInv, TypeOK, CoverInv
<1>3. CASE pc' = [pc EXCEPT ![b] = "done"] /\ incomplete' = TRUE
  <2>1. \A c \in Branches : pc'[c] = pc[c] \/ (c = b /\ pc'[c] = "done")
    BY <1>2, <1>3
  <2>2. \A c \in Branches :
           \/ pc'[c] = pc[c]
           \/ /\ pc[c] \in Moving /\ pc'[c] \in {"done", "rejected"}
              /\ (incomplete' \/ c \in failed')
    BY <1>1, <1>3, <2>1
  <2>3. incomplete => incomplete'
    BY <1>3
  <2> QED
    BY <1>1, <1>2, <2>2, <2>3, MovesCover
<1>4. CASE Acquire(b) /\ UNCHANGED incomplete
  <2>1. \A c \in Branches : \/ pc'[c] = pc[c]
                            \/ pc[c] \in Moving /\ pc'[c] \in Moving
                            \/ pc[c] \in Moving /\ pc'[c] = "rejected" /\ aborted'
    BY <1>1, <1>2, <1>4, AcquireMoves
  <2> QED
    BY <1>1, <1>2, <1>4, <2>1, MovesCover
<1> QED
  BY <1>3, <1>4 DEF FetchStatement

LEMMA AppendVisits ==
    ASSUME NEW S, NEW s \in Seq(S), NEW x \in S
    PROVE  Visited(s) \subseteq Visited(Append(s, x)) /\ x \in Visited(Append(s, x))
<1> DEFINE r == Append(s, x)
<1>1. /\ DOMAIN r = 1..(Len(s) + 1) /\ Len(s) \in Nat /\ DOMAIN s = 1..Len(s)
      /\ \A i \in 1..Len(s) : r[i] = s[i]
      /\ r[Len(s) + 1] = x
  BY AppendProperties, LenProperties
<1> HIDE DEF r
<1>2. Visited(s) \subseteq Visited(r) /\ x \in Visited(r)
  BY <1>1 DEF Visited
<1> QED
  BY <1>2 DEF r

LEMMA ClimbCover == ASSUME IInv, PathInv, CoverInv, NEW b \in Branches, Climb(b) PROVE CoverInv'
<1>1. /\ UNCHANGED <<env, phase, path, aborted, garbled, failed>>
      /\ cursor = None /\ pc[b] = "got" /\ pc[b] \in Live
  BY DEF Climb, Live
<1>2. /\ pc \in [Branches -> Live \cup Finished] /\ phase = "walking" /\ b # Root
      /\ chains \in Seq(Seq(Entities)) /\ path[b] \in Seq(Entities)
  BY <1>1 DEF IInv, TypeOK, Tree, RootPlace, OnlyWalking, Quiet, Live
<1>3. /\ \A c \in Branches \ {b} : pc'[c] = pc[c]
      /\ pc'[b] \in {"done", "joining"} /\ (incomplete => incomplete')
  <2>1. pc' = [pc EXCEPT ![b] = "done"] \/ pc' = [pc EXCEPT ![b] = "joining"]
    BY DEF Climb, BuildChains
  <2>2. incomplete => incomplete'
    BY Zenon DEF Climb, BuildChains
  <2> QED
    BY <1>2, <2>1, <2>2
<1>4. (garbled \subseteq failed)' /\ FailedBorn' /\ Continues'
  <2>1. failed' \subseteq Branches /\ garbled' \subseteq failed'
    BY <1>1 DEF IInv, TypeOK, CoverInv
  <2>2. \A c \in Branches : /\ pc[c] # "unborn" => pc'[c] # "unborn"
                            /\ pc'[c] \in Live => pc[c] \in Live \/ c = Root
    BY <1>1, <1>3
  <2> QED
    BY <1>1, <2>1, <2>2, SidesKept
<1>5. EarlyEnd'
  <2>1. pc'[Root] = pc[Root]
    BY <1>2, <1>3, BranchShape
  <2> QED
    BY <1>1, <1>3, <2>1 DEF CoverInv, EarlyEnd
<1>6. Visited(chains) \subseteq Visited(chains')
  <2>1. chains' \in {chains, Append(chains, path[b])}
    BY DEF Climb
  <2>2. Visited(chains) \subseteq Visited(Append(chains, path[b]))
    BY <1>2, AppendVisits
  <2> QED
    BY <2>1, <2>2
<1>7. ASSUME NEW p \in ReferenceChains, Along(b, p), ~incomplete' PROVE Covered(p)'
  <2> DEFINE k == Len(path[b])
  <2>1. /\ k \in 1..Len(p) /\ Last(path[b]) = p[k]
    BY <1>7, AlongShape
  <2>2. k = Len(b) + 1 /\ Len(b) \in Nat /\ Len(b) # 0
    BY <1>1, <1>2, BranchShape DEF IInv, Tree, Depths
  <2>3. /\ p \in Seq(Entities) /\ Len(p) \in Nat \ {0}
        /\ p[Len(p)] \in Anchors
        /\ \A i \in 1..(Len(p) - 1) : /\ p[i + 1] \in Visited(hints[p[i]])
                                      /\ i > 1 => p[i] \notin Anchors
    BY ReferenceShape
  <2> HIDE DEF k
  <2>4. k # Len(p) => k \in 1..(Len(p) - 1) /\ k > 1
    BY <2>1, <2>2, <2>3
  <2>5. Last(path[b]) \in Anchors <=> k = Len(p)
    BY <2>1, <2>3, <2>4
  <2>6. CASE /\ Last(path[b]) \in Anchors
             /\ chains' = IF Prefixes(b) \cap garbled = {} THEN Append(chains, path[b]) ELSE chains
    <3>1. p = path[b]
      <4>1. path[b] = SubSeq(p, 1, Len(p))
        BY <1>7, <2>5, <2>6 DEF Along, k
      <4> QED
        BY <2>3, <4>1
    <3>2. CASE Prefixes(b) \cap garbled = {}
      <4>1. chains' = Append(chains, p)
        BY <2>6, <3>1, <3>2
      <4>2. p \in Visited(chains')
        BY <1>2, <3>1, <4>1, AppendVisits
      <4> QED
        BY <4>2, CoveredByResult
    <3>3. CASE Prefixes(b) \cap garbled # {}
      <4>1. PICK n \in 1..Len(b) : SubSeq(b, 1, n) \in garbled
        BY <3>3 DEF Prefixes
      <4>2. SubSeq(b, 1, n) \in failed /\ SubSeq(b, 1, n) \in Branches
        BY <4>1 DEF CoverInv, IInv, TypeOK
      <4>3. path[SubSeq(b, 1, n)] = SubSeq(p, 1, n + 1)
        <5>1. CASE n = Len(b)
          <6>1. SubSeq(b, 1, n) = b /\ SubSeq(p, 1, Len(p)) = p
            BY <2>3, <5>1, BranchShape
          <6>2. n + 1 = Len(p)
            BY <2>2, <2>5, <2>6, <5>1 DEF k
          <6> QED
            BY <3>1, <6>1, <6>2
        <5>2. CASE n # Len(b)
          <6>1. n \in 0..(Len(b) - 1)
            BY <2>2, <4>1, <5>2
          <6> QED
            BY <1>1, <3>1, <6>1 DEF CoverInv, Continues
        <5> QED
          BY <5>1, <5>2
      <4>4. n + 1 \in 1..Len(p) /\ Len(SubSeq(p, 1, n + 1)) = n + 1
        <5>1. n + 1 \in 1..Len(p)
          BY <2>1, <2>2, <2>3, <4>1
        <5> QED
          BY <2>3, <5>1, SubSeqProperties
      <4>5. Along(SubSeq(b, 1, n), p)
        BY <2>3, <4>3, <4>4 DEF Along
      <4> QED
        BY <1>1, <4>2, <4>5, CoveredByResult
    <3> QED
      BY <3>2, <3>3
  <2>7. CASE Last(path[b]) \notin Anchors /\ hints[Last(path[b])] = <<>>
    <3>1. p[k + 1] \in Visited(<<>>)
      BY <2>1, <2>3, <2>4, <2>5, <2>7
    <3> QED
      BY <3>1 DEF Visited
  <2>8. CASE Last(path[b]) \notin Anchors /\ BuildChains(b)
    <3>1. Len(path[b]) # Len(p)
      BY <2>5, <2>8 DEF k
    <3> QED
      BY <1>1, <1>7, <2>8, <3>1, BuildChainsCovers
  <2> QED
    BY <2>6, <2>7, <2>8 DEF Climb
<1>8. ASSUME NEW p \in ReferenceChains, NEW c \in Branches, OnItsWay(c, p), ~incomplete'
      PROVE  Covered(p)'
  <2>1. CASE c = b
    BY <1>7, <1>8, <2>1 DEF OnItsWay
  <2>2. CASE c # b
    <3>1. pc'[c] = pc[c]
      BY <1>3, <2>2
    <3>2. c # Root /\ pc[Parent(c)] = "joining" => pc'[Parent(c)] = "joining"
      <4>1. c # Root => Parent(c) \in Branches
        BY ParentShape
      <4> QED
        BY <1>1, <1>3, <4>1
    <3> QED
      BY <1>1, <1>8, <3>1, <3>2, CoveredOnwards
  <2> QED
    BY <2>1, <2>2
<1>9. Complete'
  BY <1>1, <1>2, <1>3, <1>6, <1>8, CompleteKept
<1> QED
  BY <1>4, <1>5, <1>9 DEF CoverInv

LEMMA PrefixOfAppend ==
    ASSUME NEW S, NEW s \in Seq(S), NEW x \in S, NEW m \in 0..Len(s)
    PROVE  SubSeq(Append(s, x), 1, m) = SubSeq(s, 1, m)
<1> DEFINE r == Append(s, x)
<1>1. /\ r \in Seq(S) /\ Len(r) = Len(s) + 1 /\ Len(s) \in Nat /\ m \in Nat
      /\ \A i \in 1..Len(s) : r[i] = s[i]
  BY AppendProperties, LenProperties
<1> HIDE DEF r
<1>2. /\ SubSeq(r, 1, m) \in Seq(S) /\ Len(SubSeq(r, 1, m)) = m
      /\ \A i \in 1..m : SubSeq(r, 1, m)[i] = r[i]
  <2>1. \A i \in 1..m : i \in 1..Len(r)
    BY <1>1
  <2> QED
    BY <1>1, <2>1, SubSeqProperties
<1>3. /\ SubSeq(s, 1, m) \in Seq(S) /\ Len(SubSeq(s, 1, m)) = m
      /\ \A i \in 1..m : SubSeq(s, 1, m)[i] = s[i]
  <2>1. \A i \in 1..m : i \in 1..Len(s)
    BY <1>1
  <2> QED
    BY <1>1, <2>1, SubSeqProperties
<1>4. \A i \in 1..m : SubSeq(r, 1, m)[i] = SubSeq(s, 1, m)[i]
  BY <1>1, <1>2, <1>3
<1>5. SubSeq(r, 1, m) = SubSeq(s, 1, m)
  BY <1>2, <1>3, <1>4, SeqEqual
<1> QED
  BY <1>5 DEF r

(* A branch's path continues its parent's, and through it all those above. *)
LEMMA ContinuesBorn ==
    ASSUME IInv, CoverInv, cursor # None, MoreHints,
           \A d \in Branches \ {Child(cursor, next)} : pc'[d] = pc[d] /\ path'[d] = path[d],
           pc'[Child(cursor, next)] \in Live =>
               path'[Child(cursor, next)] = Append(path[cursor], LoopHint)
    PROVE  Continues'
<1> DEFINE c == Child(cursor, next)
<1>1. /\ next \in 1..MaxHints /\ cursor \in Branches /\ c \in Branches /\ pc[c] = "unborn"
      /\ pc[cursor] = "joining" /\ path[cursor] \in Seq(Entities) /\ LoopHint \in Entities
      /\ Len(path[cursor]) = Len(cursor) + 1 /\ Len(cursor) \in Nat
  BY LoopHintShape
<1>2. Len(c) = Len(cursor) + 1 /\ c # cursor
  BY <1>1, ChildShape
<1>3. ASSUME NEW d \in Branches, pc[d] \in Live, NEW n \in 0..(Len(d) - 1)
      PROVE  /\ path[SubSeq(d, 1, n)] = SubSeq(path[d], 1, n + 1)
             /\ path'[SubSeq(d, 1, n)] = path[SubSeq(d, 1, n)]
  <2>1. n \in 0..Len(d)
    BY <1>3, BranchShape
  <2>2. SubSeq(d, 1, n) \in Branches /\ pc[SubSeq(d, 1, n)] = "joining"
    BY <1>3, <2>1, Above DEF IInv, Tree, Awaited
  <2>3. SubSeq(d, 1, n) # c
    BY <1>1, <2>2
  <2> QED
    BY <1>3, <2>2, <2>3 DEF CoverInv, Continues
<1> SUFFICES ASSUME NEW d \in Branches, pc'[d] \in Live, NEW n \in 0..(Len(d) - 1)
             PROVE  path'[SubSeq(d, 1, n)] = SubSeq(path'[d], 1, n + 1)
  BY DEF Continues
<1>4. CASE d # c
  <2>1. pc[d] \in Live /\ path'[d] = path[d]
    BY <1>4
  <2> QED
    BY <1>3, <2>1
<1>5. CASE d = c
  <2>1. path'[d] = Append(path[cursor], LoopHint) /\ path'[cursor] = path[cursor]
    BY <1>1, <1>2, <1>5
  <2>2. n + 1 \in 0..Len(path[cursor]) /\ n \in 0..Len(cursor)
    BY <1>1, <1>2, <1>5
  <2>3. SubSeq(path'[d], 1, n + 1) = SubSeq(path[cursor], 1, n + 1)
    BY <1>1, <2>1, <2>2, PrefixOfAppend
  <2>4. CASE n = Len(cursor)
    <3>1. SubSeq(d, 1, n) = cursor
      BY <1>1, <1>5, <2>4, AboveChild
    <3>2. SubSeq(path[cursor], 1, n + 1) = path[cursor]
      BY <1>1, <2>4
    <3> QED
      BY <2>1, <2>3, <3>1, <3>2
  <2>5. CASE n # Len(cursor)
    <3>1. n \in 0..(Len(cursor) - 1)
      BY <1>1, <2>2, <2>5
    <3>2. SubSeq(d, 1, n) = SubSeq(cursor, 1, n)
      BY <1>1, <1>5, <3>1, AboveChild
    <3>3. pc[cursor] \in Live
      BY <1>1 DEF Live
    <3>4. path'[SubSeq(cursor, 1, n)] = SubSeq(path[cursor], 1, n + 1)
      BY <1>1, <1>3, <3>1, <3>3
    <3> QED
      BY <2>3, <3>2, <3>4
  <2> QED
    BY <2>4, <2>5
<1> QED
  BY <1>4, <1>5

LEMMA StartHintCover == ASSUME IInv, PathInv, CoverInv, StartHint PROVE CoverInv'
<1> DEFINE c == Child(cursor, next)
           longer == Append(path[cursor], LoopHint)
<1>1. /\ cursor # None /\ MoreHints /\ next' = next + 1
      /\ UNCHANGED <<env, phase, cursor, aborted, chains, garbled, failed>>
  BY DEF StartHint
<1>2. /\ next \in 1..MaxHints /\ cursor \in Branches /\ c \in Branches /\ pc[c] = "unborn"
      /\ pc[cursor] = "joining" /\ path[cursor] \in Seq(Entities) /\ LoopHint \in Entities
      /\ phase = "walking" /\ next \in DOMAIN hints[Last(path[cursor])]
  BY <1>1, LoopHintShape
<1>3. c # cursor /\ c # Root /\ Parent(c) = cursor
  BY <1>2, ChildShape, ParentShape
<1>4. /\ pc \in [Branches -> Live \cup Finished] /\ path \in [Branches -> Seq(Entities)]
      /\ failed \subseteq Branches /\ garbled \subseteq failed /\ c \notin failed
  BY <1>2 DEF IInv, TypeOK, CoverInv, FailedBorn
<1>5. /\ \A d \in Branches \ {c} : pc'[d] = pc[d] /\ path'[d] = path[d]
      /\ incomplete => incomplete'
  <2>1. \A d \in Branches \ {c} : path'[d] = path[d]
    <3>1. path' = path \/ path' = [path EXCEPT ![c] = longer]
      BY DEF StartHint
    <3> QED
      BY <1>4, <3>1
  <2>2. \A d \in Branches \ {c} : pc'[d] = pc[d]
    BY <1>1, <1>2, <1>4, AcquireMoves DEF StartHint
  <2>3. incomplete => incomplete'
    BY Zenon DEF StartHint
  <2> QED
    BY <2>1, <2>2, <2>3
<1>6. \/ <<LoopHint, Last(path[cursor])>> \notin env.filter /\ pc'[c] = "unborn"
      \/ LoopHint \in Visited(path[cursor]) /\ pc'[c] = "done"
      \/ incomplete' /\ pc'[c] = "done"
      \/ /\ path'[c] = longer
         /\ pc'[c] \in Moving \/ (pc'[c] = "rejected" /\ aborted')
  <2>1. \/ <<LoopHint, Last(path[cursor])>> \notin env.filter /\ pc' = pc
        \/ LoopHint \in Visited(path[cursor]) /\ pc' = [pc EXCEPT ![c] = "done"]
        \/ incomplete' = TRUE /\ pc' = [pc EXCEPT ![c] = "done"]
        \/ path' = [path EXCEPT ![c] = longer] /\ Acquire(c)
    BY DEF StartHint
  <2>2. Acquire(c) => pc'[c] \in Moving \/ (pc'[c] = "rejected" /\ aborted')
    BY <1>1, <1>2, <1>4, AcquireMoves
  <2> QED
    BY <1>2, <1>4, <2>1, <2>2
<1> HIDE DEF c, longer
<1>7. Continues'
  <2>1. pc'[c] \in Live => path'[c] = longer
    BY <1>6 DEF Live
  <2> QED
    BY <1>1, <1>5, <2>1, ContinuesBorn DEF c, longer
<1>8. (garbled \subseteq failed)' /\ FailedBorn'
  BY <1>1, <1>4, <1>5 DEF CoverInv, FailedBorn
<1>9. EarlyEnd'
  <2>1. pc'[Root] = pc[Root]
    BY <1>3, <1>5, BranchShape
  <2> QED
    BY <1>1, <1>5, <2>1 DEF CoverInv, EarlyEnd
<1>10. ASSUME NEW p \in ReferenceChains, NEW b \in Branches, OnItsWay(b, p), ~incomplete'
       PROVE  Covered(p)'
  <2>1. Along(b, p) /\ b # c
    <3>1. pc[b] # "unborn"
      BY <1>2, <1>10 DEF OnItsWay, Moving
    <3> QED
      BY <1>2, <1>10, <3>1 DEF OnItsWay
  <2>2. pc'[b] = pc[b] /\ path'[b] = path[b]
    BY <1>5, <2>1
  <2>3. CASE pc[b] \in Moving
    BY <2>1, <2>2, <2>3, CoveredByMoving
  <2>4. CASE pc[b] = "rejected" /\ aborted /\ b # Root /\ pc[Parent(b)] = "joining"
    <3>1. pc'[Parent(b)] = "joining"
      <4>1. Parent(b) \in Branches \ {c}
        BY <1>2, <2>4, ParentShape
      <4> QED
        BY <1>5, <2>4, <4>1
    <3> QED
      BY <1>1, <2>1, <2>2, <2>4, <3>1, CoveredByMoving
  <2>5. CASE cursor = b /\ ToCome(b, p)
    <3> DEFINE k == Len(path[b])
    <3>1. PICK i \in next..MaxHints :
             /\ k < Len(p) /\ i \in DOMAIN hints[Last(path[b])]
             /\ hints[Last(path[b])][i] = p[k + 1]
      BY <2>5 DEF ToCome
    <3>2. CASE i # next
      <4>1. i \in next'..MaxHints
        BY <1>1, <1>2, <3>1, <3>2
      <4> QED
        BY <1>1, <2>1, <2>2, <2>5, <3>1, <4>1, CoveredByLoop
    <3>3. CASE i = next
      <4>1. LoopHint = p[k + 1]
        BY <2>5, <3>1, <3>3 DEF LoopHint
      <4>2. /\ k \in 1..Len(p) /\ Last(path[b]) = p[k]
            /\ Visited(path[b]) = {p[j] : j \in 1..k}
        BY <2>1, AlongShape
      <4>3. /\ p \in Seq(Entities) /\ Len(p) \in Nat \ {0}
            /\ \A j, m \in 1..Len(p) : p[j] = p[m] => j = m
            /\ \A j \in 1..(Len(p) - 1) : <<p[j + 1], p[j]>> \in env.filter
        BY ReferenceShape
      <4> HIDE DEF k
      <4>4. /\ k \in 1..(Len(p) - 1) /\ k + 1 \in 1..Len(p)
            /\ \A j \in 1..k : j \in 1..Len(p) /\ j # k + 1
        BY <3>1, <4>2, <4>3
      <4>5. <<LoopHint, Last(path[cursor])>> \in env.filter
        BY <2>5, <4>1, <4>2, <4>3, <4>4
      <4>6. LoopHint \notin Visited(path[cursor])
        BY <2>5, <4>1, <4>2, <4>3, <4>4
      <4>7. /\ path'[c] = longer
            /\ pc'[c] \in Moving \/ (pc'[c] = "rejected" /\ aborted')
        BY <1>6, <1>10, <4>5, <4>6, Zenon
      <4>8. longer = SubSeq(p, 1, k + 1) /\ Len(longer) = k + 1
        <5>1. path[b] = SubSeq(p, 1, k) /\ Len(path[b]) = k
          BY <2>1 DEF Along, k
        <5>2. SubSeq(p, 1, k + 1) = Append(SubSeq(p, 1, k), p[k + 1])
          BY <4>3, <4>4
        <5> QED
          BY <1>2, <2>5, <4>1, <5>1, <5>2, AppendProperties DEF longer
      <4>9. Len(longer) <= Len(p) /\ longer = SubSeq(p, 1, Len(longer))
        BY <4>2, <4>3, <4>4, <4>8
      <4>10. pc'[Parent(c)] = "joining"
        BY <1>2, <1>3, <1>5
      <4> QED
        BY <1>2, <1>3, <4>7, <4>9, <4>10, CoveredByBorn
    <3> QED
      BY <3>2, <3>3
  <2> QED
    BY <1>10, <2>3, <2>4, <2>5 DEF OnItsWay, Moving
<1>11. Complete'
  <2>1. ReferenceChains' = ReferenceChains
    BY <1>1, FixedFederation
  <2>2. ASSUME NEW p \in ReferenceChains, ~incomplete' PROVE Covered(p)'
    <3>1. Covered(p)
      BY <1>2, <1>5, <2>2 DEF CoverInv, Complete
    <3>2. CASE p \in Visited(chains) \/ CutOff(p)
      <4>1. p \in Visited(chains') \/ \E b \in failed' : path'[b] = path[b] /\ Along(b, p)
        BY <1>1, <1>4, <1>5, <3>2 DEF CutOff
      <4> QED
        BY <4>1, CoveredByResult
    <3>3. CASE \E b \in Branches : OnItsWay(b, p)
      BY <1>10, <2>2, <3>3
    <3> QED
      BY <3>1, <3>2, <3>3 DEF Covered
  <2> QED
    BY <2>1, <2>2 DEF Complete
<1> QED
  BY <1>7, <1>8, <1>9, <1>11 DEF CoverInv

LEMMA NextCover == ASSUME IInv, PathInv, CoverInv, [Next]_vars PROVE CoverInv'
<1>1. CASE UNCHANGED vars
  <2>1. UNCHANGED <<env, phase, pc, path, cursor, next, aborted, chains, garbled, incomplete, failed>>
    BY <1>1 DEF vars, walk, result
  <2>2. ReferenceChains' = ReferenceChains /\ hints' = hints
    BY <2>1, FixedFederation
  <2> QED
    BY <2>1, <2>2 DEF CoverInv, FailedBorn, Continues, EarlyEnd, Complete, Covered, CutOff,
                      OnItsWay, ToCome, Along, Parent, Visited, Last
<1>2. CASE Returned
  BY <1>1, <1>2 DEF Returned
<1> QED
  BY <1>1, <1>2, BeginCover, LeafFailsCover, LeafArrivesCover, ReturnEarlyCover, StartHintCover,
     EndLoopCover, JoinCover, StartFetchCover, FetchEndsCover, FetchStatementCover, ClimbCover,
     AbortCover
     DEF Next, Progress

LEMMA InitCover == Init => CoverInv
<1> SUFFICES ASSUME Init PROVE CoverInv
  OBVIOUS
<1> QED
  BY DEF Init, CoverInv, FailedBorn, Continues, EarlyEnd, Complete, Live

(* A result that is not flagged incomplete misses a chain of the graph     *)
(* only because of an answer on the chain's way: no limit, no abort and no *)
(* order of the answers makes the walk lose a chain silently.              *)
THEOREM ResultCompleteCorrect == Spec => []ResultComplete
<1>1. Init => PathInv /\ CoverInv
  BY InitPathInv, InitCover
<1>2. IInv /\ PathInv /\ CoverInv /\ [Next]_vars => PathInv' /\ CoverInv'
  BY NextPathInv, NextCover
<1>3. IInv /\ CoverInv => ResultComplete
  <2> SUFFICES ASSUME IInv, CoverInv, phase = "returned", ~incomplete, NEW p \in ReferenceChains
               PROVE  p \in Visited(chains)
                      \/ \E b \in failed : path[b] = SubSeq(p, 1, Len(path[b]))
    BY DEF ResultComplete
  <2>1. Covered(p)
    BY DEF CoverInv, Complete
  <2>2. ASSUME NEW b \in Branches PROVE ~OnItsWay(b, p)
    <3>1. cursor # b /\ pc[b] \notin Live /\ (b # Root => pc[Parent(b)] # "joining")
      BY NoneAssumption, ParentShape DEF IInv, Tree, OnlyWalking, Quiet, Live
    <3> QED
      BY <3>1 DEF OnItsWay, Live
  <2> QED
    BY <2>1, <2>2 DEF Covered, CutOff, Along
<1> QED
  BY <1>1, <1>2, <1>3, WalkCorrect, PTL DEF Spec
----------------------------------------------------------------------------
(* The callers.  What they hold agrees with the chains they were given,    *)
(* which no longer change.                                                 *)
SelectInv ==
    /\ cand \in Nat \ {0} /\ valid \in Seq(Nat)
    /\ op = "none" => cand = 1 /\ valid = <<>>
    /\ op # "none" /\ outcome # "held" => phase = "returned"
    /\ op = "discover" =>
         /\ outcome # "held" /\ cand <= Len(chains) + 1
         /\ \A j \in DOMAIN valid : valid[j] \in 1..(cand - 1)
         /\ \A i \in 1..(cand - 1) : i \in Visited(valid) \cup invalid
         /\ outcome = "chain" =>
              \A i \in DOMAIN chains : i \in invalid \/ Len(chosen) <= Len(chains[i])

LEMMA LeastOf == ASSUME NEW T, T \subseteq Nat, T # {} PROVE \E m \in T : \A n \in T : m <= n
<1> DEFINE Up(n) == 1..n
           R == StrictSubsetOrdering(Nat)
           U == {Up(n) : n \in T}
<1>1. U \subseteq FiniteSubsetsOf(Nat) /\ U # {}
  <2>1. \A n \in Nat : Up(n) \subseteq Nat /\ IsFiniteSet(Up(n))
    BY FS_Interval
  <2> QED
    BY <2>1 DEF FiniteSubsetsOf
<1>2. IsWellFoundedOn(R, FiniteSubsetsOf(Nat))
  BY FS_StrictSubsetOrderingWellFounded
<1> HIDE DEF R
<1>3. \E x \in U : \A y \in U : ~(<<y, x>> \in R)
  <2> HIDE DEF U
  <2> QED
    BY <1>1, <1>2, WFMin
<1>4. PICK m \in T : \A n \in T : ~(<<Up(n), Up(m)>> \in R)
  BY <1>3
<1>5. ASSUME NEW n \in T PROVE m <= n
  <2>1. ASSUME n < m PROVE FALSE
    <3>1. Up(n) \subseteq Up(m) /\ Up(n) \subseteq Nat /\ Up(m) \subseteq Nat
      BY <2>1
    <3>2. m \in Up(m) /\ m \notin Up(n)
      BY <2>1
    <3> HIDE DEF Up
    <3>3. <<Up(n), Up(m)>> \in R
      BY <3>1, <3>2 DEF R, StrictSubsetOrdering
    <3> QED
      BY <1>4, <3>3
  <2> QED
    BY <2>1
<1> QED
  BY <1>5

(* shortestChain returns one that no other valid chain undercuts.          *)
LEMMA ShortestChosen ==
    ASSUME chains \in Seq(Seq(Entities)), NEW s \in Seq(Nat), s # <<>>,
           \A j \in DOMAIN s : s[j] \in DOMAIN chains
    PROVE  \A j \in DOMAIN s : Len(Shortest(s)) <= Len(chains[s[j]])
<1> DEFINE L(j) == Len(chains[s[j]])
           Best(i) == /\ \A j \in DOMAIN s : L(i) <= L(j)
                      /\ \A j \in 1..(i - 1) : L(i) < L(j)
<1>1. /\ DOMAIN s \subseteq Nat \ {0} /\ DOMAIN s # {}
      /\ \A i \in DOMAIN s : \A j \in 1..(i - 1) : j \in DOMAIN s
      /\ \A j \in DOMAIN s : L(j) \in Nat
  <2>1. DOMAIN s = 1..Len(s) /\ Len(s) \in Nat \ {0}
    BY LenProperties, EmptySeq
  <2>2. \A j \in DOMAIN s : L(j) \in Nat
    BY LenProperties
  <2> HIDE DEF L
  <2> QED
    BY <2>1, <2>2
<1> HIDE DEF L
<1>2. PICK least \in {L(j) : j \in DOMAIN s} : \A n \in {L(j) : j \in DOMAIN s} : least <= n
  <2> DEFINE T == {L(j) : j \in DOMAIN s}
  <2>1. T \subseteq Nat /\ T # {}
    BY <1>1
  <2> HIDE DEF T
  <2>2. \E m \in T : \A n \in T : m <= n
    BY <2>1, LeastOf
  <2> QED
    BY <2>2 DEF T
<1>3. PICK first \in {j \in DOMAIN s : L(j) = least} :
         \A n \in {j \in DOMAIN s : L(j) = least} : first <= n
  <2>1. {j \in DOMAIN s : L(j) = least} \subseteq Nat /\ {j \in DOMAIN s : L(j) = least} # {}
    BY <1>1, <1>2
  <2> QED
    BY <2>1, LeastOf
<1>4. first \in DOMAIN s /\ Best(first)
  <2>1. \A j \in DOMAIN s : L(first) <= L(j)
    BY <1>2, <1>3
  <2>2. ASSUME NEW j \in 1..(first - 1) PROVE L(first) < L(j)
    <3>1. j \in DOMAIN s /\ ~(first <= j)
      BY <1>1, <1>3
    <3>2. L(j) # least /\ L(first) = least
      BY <1>3, <3>1
    <3> QED
      BY <1>1, <1>3, <2>1, <3>1, <3>2
  <2> QED
    BY <1>3, <2>1, <2>2
<1> HIDE DEF Best
<1>5. /\ (CHOOSE i \in DOMAIN s : Best(i)) \in DOMAIN s
      /\ Best(CHOOSE i \in DOMAIN s : Best(i))
  BY <1>4, Zenon
<1>6. Shortest(s) = chains[s[CHOOSE i \in DOMAIN s : Best(i)]]
  BY DEF Shortest, Best, L
<1> QED
  BY <1>5, <1>6 DEF Best, L

(* Nothing of the walk happens after it returned.                          *)
LEMMA WalkOver == ASSUME IInv, phase = "returned", [Next]_vars PROVE UNCHANGED <<phase, chains>>
<1>1. Quiet
  BY DEF IInv, Tree, OnlyWalking
<1>2. \A b \in Branches : pc[b] \notin {"joining", "granted", "fetching", "got"}
  BY <1>1 DEF Quiet, Live
<1>3. ~Progress /\ ~Abort
  BY <1>1, <1>2 DEF Quiet, Progress, Begin, LeafFails, LeafArrives, ReturnEarly, StartHint, EndLoop,
                    Join, StartFetch, FetchEnds, FetchStatement, Climb, Abort
<1> QED
  BY <1>3 DEF Next, Returned, vars, result

LEMMA SelectNextInv ==
    ASSUME IInv, SelectInv, [SelectNext]_allVars PROVE SelectInv'
<1>1. [Next]_vars
  BY DEF SelectNext, KeepHeld, Resolving, Aborting, Receive, Validate, Conclude, Concluded,
         allVars, Next
<1>2. chains \in Seq(Seq(Entities)) /\ Len(chains) \in Nat /\ DOMAIN chains = 1..Len(chains)
  BY LenProperties DEF IInv, TypeOK
<1>3. CASE UNCHANGED select
  <2>1. UNCHANGED <<op, cand, valid, invalid, outcome, chosen>>
    BY <1>3 DEF select
  <2>2. CASE op # "none" /\ outcome # "held"
    <3>1. UNCHANGED <<phase, chains>>
      BY <1>1, <2>2, WalkOver DEF SelectInv
    <3> QED
      BY <2>1, <3>1 DEF SelectInv, Visited
  <2>3. CASE op = "none" \/ outcome = "held"
    BY <2>1, <2>3 DEF SelectInv
  <2> QED
    BY <2>2, <2>3
<1>4. CASE KeepHeld
  BY <1>4 DEF KeepHeld, SelectInv
<1>5. ASSUME NEW o \in Ops, Receive(o) PROVE SelectInv'
  <2>1. /\ UNCHANGED <<cand, valid, invalid, outcome, chosen>> /\ op' = o /\ outcome = "pending"
        /\ phase' = "returned" /\ chains' = chains /\ cand = 1 /\ valid = <<>>
    BY <1>5 DEF Receive, vars, result, SelectInv
  <2>2. cand <= Len(chains) + 1 /\ 1..(cand - 1) = {} /\ DOMAIN valid = {}
    BY <1>2, <2>1
  <2> QED
    BY <2>1, <2>2 DEF SelectInv
<1>6. ASSUME NEW ok \in BOOLEAN, Validate(ok) PROVE SelectInv'
  <2>1. /\ UNCHANGED <<phase, chains, op>> /\ op # "none" /\ outcome = "pending"
        /\ cand <= Len(chains) /\ cand' = cand + 1 /\ phase = "returned"
        /\ valid' = IF ok THEN Append(valid, cand) ELSE valid
        /\ invalid' = IF ok THEN invalid ELSE invalid \cup {cand}
        /\ op = "discover" => outcome' = "pending"
        /\ cand \in Nat \ {0} /\ valid \in Seq(Nat)
    BY <1>6 DEF Validate, vars, result, SelectInv
  <2>2. /\ Append(valid, cand) \in Seq(Nat)
        /\ DOMAIN Append(valid, cand) = 1..(Len(valid) + 1) /\ DOMAIN valid = 1..Len(valid)
        /\ Len(valid) \in Nat
        /\ \A j \in 1..Len(valid) : Append(valid, cand)[j] = valid[j]
        /\ Append(valid, cand)[Len(valid) + 1] = cand
    BY <2>1, AppendProperties, LenProperties
  <2>3. cand' \in Nat \ {0} /\ valid' \in Seq(Nat)
    BY <2>1, <2>2
  <2>4. ASSUME op = "discover" PROVE \A j \in DOMAIN valid' : valid'[j] \in 1..(cand' - 1)
    <3>1. /\ \A j \in DOMAIN valid : valid[j] \in 1..(cand - 1)
          /\ 1..(cand - 1) \subseteq 1..(cand' - 1) /\ cand \in 1..(cand' - 1)
      BY <2>1, <2>4 DEF SelectInv
    <3>2. \A j \in DOMAIN Append(valid, cand) : Append(valid, cand)[j] \in 1..(cand' - 1)
      <4>1. \A j \in 1..(Len(valid) + 1) : j \in 1..Len(valid) \/ j = Len(valid) + 1
        BY <2>2
      <4> QED
        BY <2>2, <3>1, <4>1
    <3> QED
      BY <2>1, <3>1, <3>2
  <2>5. ASSUME op = "discover", NEW i \in 1..(cand' - 1) PROVE i \in Visited(valid') \cup invalid'
    <3>1. i \in 1..(cand - 1) \/ i = cand
      BY <2>1
    <3>2. /\ Visited(valid) \subseteq Visited(Append(valid, cand))
          /\ cand \in Visited(Append(valid, cand))
      BY <2>1, AppendVisits
    <3>3. i \in 1..(cand - 1) => i \in Visited(valid) \cup invalid
      BY <2>5 DEF SelectInv
    <3> QED
      BY <2>1, <3>1, <3>2, <3>3
  <2>6. cand' <= Len(chains') + 1
    BY <1>2, <2>1
  <2> QED
    BY <2>1, <2>3, <2>4, <2>5, <2>6 DEF SelectInv, Visited
<1>7. CASE Conclude
  <2>1. /\ UNCHANGED <<phase, chains, op, cand, valid, invalid>> /\ op # "none" /\ outcome = "pending"
        /\ cand > Len(chains) /\ phase = "returned"
        /\ outcome' \in {"error", "chain"}
        /\ outcome' = "chain" => valid # <<>> /\ chosen' = Shortest(valid)
        /\ cand \in Nat \ {0} /\ valid \in Seq(Nat)
    BY <1>7 DEF Conclude, vars, result, SelectInv
  <2>2. ASSUME op = "discover", outcome' = "chain", NEW i \in DOMAIN chains, i \notin invalid
        PROVE  Len(chosen') <= Len(chains[i])
    <3>1. 1..(cand - 1) = DOMAIN chains
      BY <1>2, <2>1, <2>2 DEF SelectInv
    <3>2. \A j \in DOMAIN valid : valid[j] \in DOMAIN chains
      BY <2>2, <3>1 DEF SelectInv
    <3>3. i \in Visited(valid)
      BY <2>2, <3>1 DEF SelectInv
    <3>4. PICK j \in DOMAIN valid : i = valid[j]
      BY <3>3 DEF Visited
    <3>5. Len(Shortest(valid)) <= Len(chains[valid[j]])
      BY <1>2, <2>1, <2>2, <3>2, ShortestChosen
    <3> QED
      BY <2>1, <2>2, <3>4, <3>5
  <2> QED
    BY <2>1, <2>2 DEF SelectInv, Visited
<1>8. \/ UNCHANGED select \/ KeepHeld \/ (\E o \in Ops : Receive(o))
      \/ (\E ok \in BOOLEAN : Validate(ok)) \/ Conclude
  BY DEF SelectNext, Resolving, Aborting, Concluded, allVars
<1> QED
  BY <1>3, <1>4, <1>5, <1>6, <1>7, <1>8

(* discoverEntity returns a chain that no chain of the graph undercuts,    *)
(* but one that an answer cut off or that did not validate, unless the     *)
(* result is flagged incomplete; in whatever order the walk found them.    *)
THEOREM DiscoveryCorrect == SelectSpec => []DiscoveryShortest
<1>1. SelectInit => SelectInv
  BY DEF SelectInit, SelectInv
<1>2. IInv /\ SelectInv /\ [SelectNext]_allVars => SelectInv'
  BY SelectNextInv
<1>3. SelectInv /\ ResultComplete => DiscoveryShortest
  <2> SUFFICES ASSUME SelectInv, ResultComplete, op = "discover", ChainReturned, ~incomplete,
                      NEW p \in ReferenceChains
               PROVE  \/ Len(chosen) <= Len(p)
                      \/ \E b \in failed : path[b] = SubSeq(p, 1, Len(path[b]))
                      \/ \E i \in invalid : chains[i] = p
    BY DEF DiscoveryShortest
  <2>1. /\ phase = "returned"
        /\ \A i \in DOMAIN chains : i \in invalid \/ Len(chosen) <= Len(chains[i])
    BY DEF SelectInv, ChainReturned
  <2>2. p \in Visited(chains) \/ \E b \in failed : path[b] = SubSeq(p, 1, Len(path[b]))
    BY <2>1 DEF ResultComplete
  <2> QED
    BY <2>1, <2>2 DEF Visited
<1> QED
  BY <1>1, <1>2, <1>3, CallersObserve, WalkCorrect, ResultCompleteCorrect, PTL DEF SelectSpec
=============================================================================
