----------------------- MODULE FederationKeysProofs -----------------------
(***************************************************************************)
(* Proofs about FederationKeys for any set of kids, any overlaps and any   *)
(* clock bound.                                                            *)
(***************************************************************************)
EXTENDS FederationKeys, FiniteSetTheorems, TLAPS

(* What the times of an entry say about its state and about when the key   *)
(* last signed; the strengthening that makes the invariants inductive.     *)
EntryTimes ==
    \A k \in Kids :
        /\ keys[k].state = "active" => keys[k].activatedAt \in 0..now
        /\ keys[k].state \in {"published", "active"} =>
              /\ keys[k].scheduledRemovalAt = Undefined
              /\ keys[k].revokedAt = Undefined
        /\ keys[k].state = "retiring" =>
              /\ keys[k].scheduledRemovalAt # Undefined
              /\ keys[k].revokedAt = Undefined
        /\ keys[k].state = "revoked" => keys[k].revokedAt # Undefined
        /\ lastSigner[k] # Undefined =>
              /\ lastSigner[k] <= now
              /\ keys[k].activatedAt \in 0..lastSigner[k]
              /\ keys[k].scheduledRemovalAt # Undefined =>
                    lastSigner[k] + MinRetireMs <= keys[k].scheduledRemovalAt
              /\ keys[k].revokedAt # Undefined => lastSigner[k] <= keys[k].revokedAt

(* The inductive invariant.                                                *)
IInv == TypeOK /\ SelectionUnambiguous /\ SupersededForGood /\ EntryTimes
----------------------------------------------------------------------------
(* The constructor establishes the invariant: every initial key is active  *)
(* with an order of its own below the counter, and none has signed.        *)
LEMMA InitIInv == Init => IInv
<1> SUFFICES ASSUME Init PROVE IInv
  OBVIOUS
<1>1. Cardinality(InitialKids) \in Nat
  BY KidsAssumption, FS_CardinalityType
<1>2. PICK order \in [InitialKids -> 0..(Cardinality(InitialKids) - 1)] :
         /\ \A j, k \in InitialKids : order[j] = order[k] => j = k
         /\ keys = [k \in Kids |->
                      IF k \in InitialKids
                      THEN [AbsentEntry EXCEPT !.state = "active",
                                               !.createdAt = 0,
                                               !.activatedAt = 0,
                                               !.activationOrder = order[k]]
                      ELSE AbsentEntry]
  BY DEF Init
<1>a. \A k \in InitialKids : order[k] \in 0..(Cardinality(InitialKids) - 1)
  OBVIOUS
<1>3. TypeOK
  <2>1. \A k \in InitialKids : order[k] \in Nat
    BY <1>1, <1>a
  <2>2. \A k \in Kids : keys[k] \in Entry
    BY <1>2, <2>1 DEF Entry, AbsentEntry, States, OptionalTime, Undefined
  <2>3. keys \in [Kids -> Entry]
    BY <1>2, <2>2
  <2> QED
    BY <1>1, <2>3 DEF Init, TypeOK, OptionalTime
<1>4. Active = InitialKids
  BY <1>2, KidsAssumption DEF Active, AbsentEntry
<1>5. \A k \in InitialKids : keys[k].activationOrder = order[k]
  BY <1>2, KidsAssumption DEF AbsentEntry
<1>6. SelectionUnambiguous
  <2>1. activationOrder = Cardinality(InitialKids)
    BY DEF Init
  <2>2. \A j, k \in InitialKids : order[j] = order[k] => j = k
    BY <1>2
  <2> QED
    BY <1>a, <1>4, <1>5, <2>1, <2>2 DEF SelectionUnambiguous
<1>7. SupersededForGood
  BY DEF Init, SupersededForGood
<1>8. EntryTimes
  <2> SUFFICES ASSUME NEW k \in Kids
               PROVE  EntryTimes!(k)
    BY DEF EntryTimes
  <2>1. lastSigner[k] = Undefined /\ now = 0
    BY DEF Init
  <2>2. \/ keys[k].state = "absent"
        \/ /\ keys[k].state = "active" /\ keys[k].activatedAt = 0
           /\ keys[k].scheduledRemovalAt = Undefined
           /\ keys[k].revokedAt = Undefined
    BY <1>2 DEF AbsentEntry
  <2> QED
    BY <2>1, <2>2
<1> QED
  BY <1>3, <1>6, <1>7, <1>8 DEF IInv

(* getFederationKeySet only records that the signer signed now.            *)
LEMMA GetFederationKeySetIInv ==
    ASSUME IInv, NEW s \in Kids, GetFederationKeySet(s) PROVE IInv'
<1> USE DEF IInv, GetFederationKeySet
<1>1. TypeOK'
  BY DEF TypeOK, OptionalTime
<1>2. SelectionUnambiguous'
  BY DEF SelectionUnambiguous, Active
<1>3. SupersededForGood'
  BY DEF SupersededForGood, IsSigner, Active, TypeOK
<1>4. EntryTimes'
  <2> SUFFICES ASSUME NEW k \in Kids PROVE EntryTimes!(k)'
    BY DEF EntryTimes
  <2>1. CASE k # s
    BY <2>1 DEF EntryTimes, TypeOK
  <2>2. CASE k = s
    <3>1. keys[k].state = "active" /\ lastSigner'[k] = now
      BY <2>2 DEF IsSigner, Active, TypeOK
    <3> QED
      BY <3>1 DEF EntryTimes, TypeOK
  <2> QED
    BY <2>1, <2>2
<1> QED
  BY <1>1, <1>2, <1>3, <1>4

(* publishKey adds an entry that is neither active nor a past signer.      *)
LEMMA PublishKeyIInv ==
    ASSUME IInv, NEW p \in Kids, PublishKey(p) PROVE IInv'
<1>1. keys[p].state = "absent" /\ lastSigner[p] = Undefined
  BY DEF IInv, PublishKey, SupersededForGood, IsSigner, Active
<1>2. /\ now' = now /\ lastSigner' = lastSigner /\ activationOrder' = activationOrder
      /\ \A k \in Kids \ {p} : keys'[k] = keys[k]
      /\ keys'[p] = [AbsentEntry EXCEPT !.state = "published", !.createdAt = now]
  BY DEF PublishKey, IInv, TypeOK
<1>3. /\ keys'[p].state = "published" /\ keys'[p].scheduledRemovalAt = Undefined
      /\ keys'[p].revokedAt = Undefined
  BY <1>2 DEF AbsentEntry
<1>4. TypeOK'
  <2>1. keys'[p] \in Entry
    BY <1>2 DEF IInv, TypeOK, AbsentEntry, Entry, States, OptionalTime, Undefined
  <2> QED
    BY <1>2, <2>1 DEF IInv, TypeOK, PublishKey
<1>5. \A k \in Kids \ {p} : keys'[k] = keys[k]
  BY <1>2
<1>6. Active' = Active /\ \A k \in Active : keys'[k] = keys[k]
  BY <1>1, <1>3, <1>5 DEF Active
<1>7. activationOrder' = activationOrder /\ lastSigner' = lastSigner
  BY <1>2
<1>8. SelectionUnambiguous'
  BY <1>6, <1>7 DEF IInv, SelectionUnambiguous
<1>9. SupersededForGood'
  BY <1>1, <1>5, <1>6, <1>7 DEF IInv, SupersededForGood, IsSigner
<1>10. EntryTimes'
  BY <1>1, <1>2, <1>3 DEF IInv, EntryTimes
<1> QED
  BY <1>4, <1>8, <1>9, <1>10 DEF IInv

(* switchActiveKey gives the new signer the highest order and retires the  *)
(* only key that could have signed since the last switch.                  *)
LEMMA SwitchActiveKeyIInv ==
    ASSUME IInv, NEW n \in Kids, NEW p \in Kids, NEW d \in RetireAfterMs,
           SwitchActiveKey(n, p, d)
    PROVE  IInv'
<1> USE DEF IInv
<1>1. /\ keys[n].state = "published" /\ IsSigner(p) /\ n # p
      /\ keys[p].state = "active"
      /\ now' = now /\ lastSigner' = lastSigner
      /\ activationOrder' = activationOrder + 1
  BY DEF SwitchActiveKey, SwitchTo, IsSigner, Active
<1>2. /\ keys'[n] = [keys[n] EXCEPT !.state = "active", !.activatedAt = now,
                                    !.activationOrder = activationOrder]
      /\ keys'[p] = [keys[p] EXCEPT !.state = "retiring",
                                    !.scheduledRemovalAt = now + d]
      /\ \A k \in Kids \ {n, p} : keys'[k] = keys[k]
      /\ DOMAIN keys' = Kids
  BY <1>1 DEF SwitchActiveKey, SwitchTo, RetiredAt, TypeOK
<1>3. d \in Nat /\ d >= MinRetireMs /\ MinRetireMs \in Nat
  BY RetireAssumption, TimeAssumption
<1>4. /\ keys'[n].state = "active" /\ keys'[n].activatedAt = now
      /\ keys'[n].activationOrder = activationOrder
      /\ keys'[n].scheduledRemovalAt = keys[n].scheduledRemovalAt
      /\ keys'[n].revokedAt = keys[n].revokedAt
      /\ keys'[p].state = "retiring" /\ keys'[p].activatedAt = keys[p].activatedAt
      /\ keys'[p].scheduledRemovalAt = now + d
      /\ keys'[p].revokedAt = keys[p].revokedAt
  BY <1>2 DEF TypeOK, Entry
<1>5. TypeOK'
  <2>1. keys'[n] \in Entry /\ keys'[p] \in Entry
    <3>1. keys[n] \in Entry /\ keys[p] \in Entry /\ now + d \in Nat
      BY <1>3 DEF TypeOK
    <3>2. activationOrder \in Nat /\ now \in Nat
      BY DEF TypeOK
    <3> HIDE DEF IInv
    <3>3. keys'[n] \in Entry
      BY <1>2, <3>1, <3>2 DEF Entry, States, OptionalTime
    <3>4. keys'[p] \in Entry
      BY <1>2, <3>1, <3>2 DEF Entry, States, OptionalTime
    <3> QED
      BY <3>3, <3>4
  <2>2. keys' \in [Kids -> Entry]
    BY <1>1, <1>2, <2>1 DEF SwitchActiveKey, SwitchTo, TypeOK
  <2> QED
    BY <1>1, <2>2 DEF TypeOK
<1>6. Active' = (Active \ {p}) \cup {n}
  <2>1. \A k \in Kids : keys'[k].state = "active" <=>
           k = n \/ (k # p /\ keys[k].state = "active")
    <3>1. \A k \in Kids \ {n, p} : keys'[k] = keys[k]
      BY <1>2
    <3> QED
      BY <1>1, <1>4, <3>1
  <2> QED
    BY <2>1 DEF Active
<1>7. SelectionUnambiguous'
  <2>1. \A k \in Active \ {p} : k # n /\ keys'[k] = keys[k]
    BY <1>1, <1>2 DEF Active
  <2> QED
    BY <1>1, <1>4, <1>6, <2>1 DEF SelectionUnambiguous, TypeOK
<1>8. lastSigner[n] = Undefined
  BY <1>1 DEF SupersededForGood, IsSigner, Active
<1>9. SupersededForGood'
  <2> SUFFICES ASSUME NEW k \in Kids, lastSigner[k] # Undefined
               PROVE  IsSigner(k)' \/ keys'[k].state \in {"retiring", "revoked"}
    BY <1>1 DEF SupersededForGood
  <2>1. CASE k = p
    BY <1>4, <2>1
  <2>2. CASE k # p
    <3>1. ~ IsSigner(k)
      BY <1>1, <2>2 DEF IsSigner, SelectionUnambiguous, Active
    <3> QED
      BY <1>2, <1>8, <2>2, <3>1 DEF SupersededForGood
  <2> QED
    BY <2>1, <2>2
<1>10. EntryTimes'
  <2> SUFFICES ASSUME NEW k \in Kids PROVE EntryTimes!(k)'
    BY DEF EntryTimes
  <2>1. CASE k = n
    BY <1>1, <1>4, <1>8, <2>1 DEF EntryTimes, TypeOK
  <2>2. CASE k = p
    BY <1>1, <1>3, <1>4, <2>2 DEF EntryTimes, TypeOK, OptionalTime, Undefined
  <2>3. CASE k \notin {n, p}
    BY <1>1, <1>2, <2>3 DEF EntryTimes
  <2> QED
    BY <2>1, <2>2, <2>3
<1> QED
  BY <1>5, <1>7, <1>9, <1>10

(* revokeKey takes a key out of every set at once and keeps its times.     *)
LEMMA RevokeKeyIInv ==
    ASSUME IInv, NEW r \in Kids, RevokeKey(r) PROVE IInv'
<1> USE DEF IInv
<1>1. /\ keys[r].state # "absent"
      /\ now' = now /\ lastSigner' = lastSigner /\ activationOrder' = activationOrder
      /\ \A k \in Kids \ {r} : keys'[k] = keys[k]
      /\ keys'[r] = [keys[r] EXCEPT !.state = "revoked", !.revokedAt = now]
  BY DEF RevokeKey, TypeOK
<1>2. /\ keys'[r].state = "revoked" /\ keys'[r].revokedAt = now
      /\ keys'[r].activatedAt = keys[r].activatedAt
      /\ keys'[r].scheduledRemovalAt = keys[r].scheduledRemovalAt
  BY <1>1 DEF TypeOK, Entry
<1>3. TypeOK'
  <2>1. keys'[r] \in Entry
    BY <1>1 DEF TypeOK, Entry, States, OptionalTime
  <2> QED
    BY <1>1, <2>1 DEF TypeOK, RevokeKey
<1>4. Active' = Active \ {r} /\ \A k \in Active' : keys'[k] = keys[k]
  BY <1>1, <1>2 DEF Active
<1>5. SelectionUnambiguous'
  BY <1>1, <1>4 DEF SelectionUnambiguous
<1>6. SupersededForGood'
  BY <1>1, <1>2, <1>4 DEF SupersededForGood, IsSigner
<1>7. EntryTimes'
  <2> SUFFICES ASSUME NEW k \in Kids PROVE EntryTimes!(k)'
    BY DEF EntryTimes
  <2>1. CASE k = r
    <3>1. now # Undefined /\ now' = now /\ lastSigner' = lastSigner
      BY <1>1 DEF TypeOK, Undefined
    <3> QED
      BY <1>2, <2>1, <3>1 DEF EntryTimes
  <2>2. CASE k # r
    BY <1>1, <2>2 DEF EntryTimes
  <2> QED
    BY <2>1, <2>2
<1> QED
  BY <1>3, <1>5, <1>6, <1>7

(* The clock only widens the intervals the invariant speaks of.            *)
LEMMA TickIInv == ASSUME IInv, Tick PROVE IInv'
<1> USE DEF IInv, Tick
<1>1. TypeOK'
  BY DEF TypeOK
<1>2. SelectionUnambiguous' /\ SupersededForGood'
  BY DEF SelectionUnambiguous, SupersededForGood, IsSigner, Active
<1>3. EntryTimes'
  <2>1. keys' = keys /\ lastSigner' = lastSigner /\ now \in Nat /\ now' = now + 1
    BY DEF TypeOK
  <2>2. \A k \in Kids : lastSigner[k] # Undefined => lastSigner[k] \in Nat
    BY DEF TypeOK, OptionalTime
  <2>3. 0..now \subseteq 0..now'
    BY <2>1
  <2> QED
    BY <2>1, <2>2, <2>3 DEF EntryTimes
<1> QED
  BY <1>1, <1>2, <1>3

(* Every step of the provider, its callers and the clock preserves IInv.   *)
LEMMA NextIInv == IInv /\ [Next]_vars => IInv'
<1> SUFFICES ASSUME IInv, [Next]_vars PROVE IInv'
  OBVIOUS
<1>1. CASE Next
  BY <1>1, GetFederationKeySetIInv, PublishKeyIInv, SwitchActiveKeyIInv,
     RevokeKeyIInv, TickIInv DEF Next
<1>2. CASE UNCHANGED vars
  BY <1>2 DEF vars, IInv, TypeOK, SelectionUnambiguous, SupersededForGood,
              EntryTimes, IsSigner, Active
<1> QED
  BY <1>1, <1>2

(* The inductive invariant holds in every reachable state.                 *)
THEOREM Invariance == Spec => []IInv
  BY InitIInv, NextIInv, PTL DEF Spec
----------------------------------------------------------------------------
(* The variables keep their types.                                         *)
THEOREM TypeCorrect == Spec => []TypeOK
<1>1. IInv => TypeOK
  BY DEF IInv
<1> QED
  BY <1>1, Invariance, PTL

(* currentKeySet never meets two active keys of the same order.            *)
THEOREM SelectionCorrect == Spec => []SelectionUnambiguous
<1>1. IInv => SelectionUnambiguous
  BY DEF IInv
<1> QED
  BY <1>1, Invariance, PTL

(* A signer that was replaced never signs again.                           *)
THEOREM SupersededCorrect == Spec => []SupersededForGood
<1>1. IInv => SupersededForGood
  BY DEF IInv
<1> QED
  BY <1>1, Invariance, PTL

(* Statements stay verifiable for the shortest overlap after they are      *)
(* signed, unless their key is revoked.                                    *)
THEOREM OverlapCorrect == Spec => []RecentSignerPublished
<1>1. IInv => RecentSignerPublished
  <2> SUFFICES ASSUME IInv, NEW k \in Kids, lastSigner[k] # Undefined,
                      keys[k].state # "revoked",
                      now < lastSigner[k] + MinRetireMs
               PROVE  Published(k)
    BY DEF RecentSignerPublished, Jwks
  <2>1. CASE IsSigner(k)
    BY <2>1 DEF IsSigner, Active, Published
  <2>2. CASE keys[k].state = "retiring"
    <3>1. lastSigner[k] + MinRetireMs <= keys[k].scheduledRemovalAt
      BY <2>2 DEF IInv, EntryTimes
    <3>2. keys[k].scheduledRemovalAt > now
      BY <3>1, TimeAssumption DEF IInv, TypeOK, Entry, OptionalTime, Undefined
    <3> QED
      BY <2>2, <3>2 DEF Published
  <2> QED
    BY <2>1, <2>2 DEF IInv, SupersededForGood
<1> QED
  BY <1>1, Invariance, PTL

(* Rounding down to seconds keeps the order of times.                      *)
LEMMA SecondsMonotonic ==
    ASSUME NEW a \in Nat, NEW b \in Nat, a <= b
    PROVE  Seconds(a) \in Nat /\ Seconds(a) <= Seconds(b)
<1>1. MsPerSecond \in Nat \ {0}
  BY TimeAssumption
<1>2. a \div MsPerSecond \in Nat
  BY <1>1, SMT
<1>3. a \div MsPerSecond <= b \div MsPerSecond
  BY <1>1, SMT
<1> QED
  BY <1>2, <1>3 DEF Seconds

(* Each past signature falls into the validity of a historical record.     *)
THEOREM HistoryCorrect == Spec => []HistoryCoversSignatures
<1>1. IInv => HistoryCoversSignatures
  <2> SUFFICES ASSUME IInv, NEW k \in Kids, lastSigner[k] # Undefined
               PROVE  \E h \in Historical :
                         /\ h.kid = k /\ h.nbf # Undefined
                         /\ h.nbf <= Seconds(lastSigner[k])
                         /\ Seconds(lastSigner[k]) <= h.exp
    BY DEF HistoryCoversSignatures
  <2>1. keys[k].state # "absent"
    BY DEF IInv, SupersededForGood, IsSigner, Active
  <2> DEFINE end == IF keys[k].scheduledRemovalAt # Undefined
                    THEN keys[k].scheduledRemovalAt
                    ELSE IF keys[k].revokedAt # Undefined THEN keys[k].revokedAt
                    ELSE now
  <2>2. /\ lastSigner[k] \in Nat /\ keys[k].activatedAt \in Nat /\ end \in Nat
        /\ keys[k].activatedAt <= lastSigner[k] /\ lastSigner[k] <= end
    BY TimeAssumption
       DEF IInv, EntryTimes, TypeOK, Entry, OptionalTime, Undefined
  <2>3. /\ Seconds(keys[k].activatedAt) \in Nat
        /\ Seconds(keys[k].activatedAt) <= Seconds(lastSigner[k])
        /\ Seconds(lastSigner[k]) <= Seconds(end)
    BY <2>2, SecondsMonotonic
  <2>4. HistoricalExp(k) = Seconds(end)
    BY DEF HistoricalExp
  <2>5. HistoricalNbf(k) = Seconds(keys[k].activatedAt)
    BY <2>2 DEF HistoricalNbf, Undefined
  <2> DEFINE h == [kid |-> k, exp |-> HistoricalExp(k), nbf |-> HistoricalNbf(k),
                   revoked |-> keys[k].state = "revoked"]
  <2>6. h \in Historical
    BY <2>1 DEF Historical
  <2>7. /\ h.kid = k /\ h.nbf # Undefined
        /\ h.nbf <= Seconds(lastSigner[k]) /\ Seconds(lastSigner[k]) <= h.exp
    BY <2>3, <2>4, <2>5 DEF Undefined
  <2> QED
    BY <2>6, <2>7
<1> QED
  BY <1>1, Invariance, PTL
----------------------------------------------------------------------------
(* Once the last active key is revoked, no key is ever active again.       *)
THEOREM LockoutPermanent == Spec => NoSignerAfterLockout
<1>1. TypeOK /\ [Next]_vars => [Active = {} => Active' = {}]_vars
  <2> SUFFICES ASSUME TypeOK, Next, Active = {} PROVE Active' = {}
    BY DEF vars
  <2>1. ASSUME NEW k \in Kids, PublishKey(k) PROVE Active' = {}
    BY <2>1 DEF PublishKey, Active, AbsentEntry, TypeOK
  <2>2. ASSUME NEW k \in Kids, RevokeKey(k) PROVE Active' = {}
    BY <2>2 DEF RevokeKey, Active, TypeOK
  <2> QED
    BY <2>1, <2>2 DEF Next, GetFederationKeySet, SwitchActiveKey, Tick, IsSigner, Active
<1> QED
  BY <1>1, TypeCorrect, PTL DEF Spec, NoSignerAfterLockout

(* What one operation of the provider can do to one key.                   *)
LEMMA KeyStep ==
    ASSUME TypeOK, Next, NEW k \in Kids
    PROVE  \/ keys'[k] = keys[k]
           \/ /\ keys[k].state = "absent" /\ keys'[k].state = "published"
           \/ /\ keys[k].state = "published" /\ keys'[k].state = "active"
              /\ keys'[k].createdAt = keys[k].createdAt
           \/ /\ keys[k].state = "active" /\ keys'[k].state = "retiring"
              /\ keys'[k].createdAt = keys[k].createdAt /\ now' = now
              /\ keys'[k].scheduledRemovalAt \in Nat
           \/ /\ keys[k].state # "absent" /\ keys'[k].state = "revoked"
              /\ keys'[k].createdAt = keys[k].createdAt
<1>1. ASSUME NEW p \in Kids, PublishKey(p)
      PROVE  \/ keys'[k] = keys[k]
             \/ keys[k].state = "absent" /\ keys'[k].state = "published"
  BY <1>1 DEF PublishKey, AbsentEntry, TypeOK
<1>2. ASSUME NEW r \in Kids, RevokeKey(r)
      PROVE  \/ keys'[k] = keys[k]
             \/ /\ keys[k].state # "absent" /\ keys'[k].state = "revoked"
                /\ keys'[k].createdAt = keys[k].createdAt
  BY <1>2 DEF RevokeKey, TypeOK, Entry
<1>3. ASSUME NEW n \in Kids, NEW p \in Kids, NEW d \in RetireAfterMs,
             SwitchActiveKey(n, p, d)
      PROVE  \/ keys'[k] = keys[k]
             \/ /\ keys[k].state = "published" /\ keys'[k].state = "active"
                /\ keys'[k].createdAt = keys[k].createdAt
             \/ /\ keys[k].state = "active" /\ keys'[k].state = "retiring"
                /\ keys'[k].createdAt = keys[k].createdAt /\ now' = now
                /\ keys'[k].scheduledRemovalAt \in Nat
  <2>1. /\ keys[n].state = "published" /\ keys[p].state = "active" /\ n # p /\ now' = now
    BY <1>3 DEF SwitchActiveKey, SwitchTo, IsSigner, Active
  <2>2. /\ keys'[n] = [keys[n] EXCEPT !.state = "active", !.activatedAt = now,
                                      !.activationOrder = activationOrder]
        /\ keys'[p] = [keys[p] EXCEPT !.state = "retiring",
                                      !.scheduledRemovalAt = now + d]
        /\ \A j \in Kids \ {n, p} : keys'[j] = keys[j]
    BY <1>3, <2>1 DEF SwitchActiveKey, SwitchTo, RetiredAt, TypeOK
  <2>3. now + d \in Nat
    BY RetireAssumption DEF TypeOK
  <2>4. keys[n] \in Entry /\ keys[p] \in Entry
    BY DEF TypeOK
  <2>5. /\ keys'[n].state = "active" /\ keys'[n].createdAt = keys[n].createdAt
        /\ keys'[p].state = "retiring" /\ keys'[p].createdAt = keys[p].createdAt
        /\ keys'[p].scheduledRemovalAt = now + d
    BY <2>2, <2>4 DEF Entry
  <2>6. CASE k = n
    BY <2>1, <2>5, <2>6
  <2>7. CASE k = p
    BY <2>1, <2>3, <2>5, <2>7
  <2> QED
    BY <2>2, <2>6, <2>7
<1>4. ASSUME UNCHANGED keys PROVE keys'[k] = keys[k]
  BY <1>4
<1> QED
  BY <1>1, <1>2, <1>3, <1>4 DEF Next, GetFederationKeySet, Tick

(* publishKey, switchActiveKey and revokeKey never take a key back.        *)
THEOREM ForwardOnly == Spec => LifecycleForward
<1>1. TypeOK /\ [Next]_vars =>
        [\A k \in Kids :
            /\ keys[k].state # "absent" =>
                  keys'[k].createdAt = keys[k].createdAt /\ keys'[k].state # "absent"
            /\ keys[k].state = "retiring" => keys'[k].state \in {"retiring", "revoked"}
            /\ keys[k].state = "revoked" => keys'[k].state = "revoked"]_vars
  BY KeyStep
<1> QED
  BY <1>1, TypeCorrect, PTL DEF Spec, LifecycleForward

(* The published JWKS loses a key by revocation or when its time has come. *)
THEOREM UnpublishedCorrect == Spec => UnpublishedOnlyWhenDue
<1>1. ASSUME TypeOK, Next, NEW k \in Kids, k \in Jwks, k \notin Jwks'
      PROVE  \/ keys'[k].state = "revoked"
             \/ /\ keys'[k].state = "retiring"
                /\ now' >= keys'[k].scheduledRemovalAt
  <2>1. Published(k) /\ ~Published(k)'
    BY <1>1 DEF Jwks
  <2>2. now \in Nat /\ now' \in Nat
    <3>1. now' = now \/ now' = now + 1
      BY <1>1 DEF Next, GetFederationKeySet, PublishKey, SwitchActiveKey, SwitchTo,
         RevokeKey, Tick
    <3> QED
      BY <1>1, <3>1 DEF TypeOK
  <2>3. CASE keys'[k] = keys[k]
    BY <2>1, <2>2, <2>3, <1>1 DEF Published, TypeOK, Entry, OptionalTime, Undefined
  <2>4. CASE /\ keys'[k].state = "retiring" /\ keys'[k].scheduledRemovalAt \in Nat
    BY <2>1, <2>2, <2>4 DEF Published
  <2> QED
    BY <1>1, <2>1, <2>3, <2>4, KeyStep DEF Published
<1>2. TypeOK /\ [Next]_vars =>
        [\A k \in Kids : k \in Jwks /\ k \notin Jwks' =>
            \/ keys'[k].state = "revoked"
            \/ /\ keys'[k].state = "retiring"
               /\ now' >= keys'[k].scheduledRemovalAt]_vars
  BY <1>1
<1> QED
  BY <1>2, TypeCorrect, PTL DEF Spec, UnpublishedOnlyWhenDue
============================================================================
