-------------------------- MODULE FederationKeys --------------------------
(***************************************************************************)
(* The federation signing-key lifecycle of MemoryFederationKeyProvider     *)
(* (packages/core/src/federation-keys.ts).                                 *)
(*                                                                         *)
(* A key is published, made active (it signs), retired when another key    *)
(* takes over, and may be revoked at any time.  Every operation of the     *)
(* provider runs in one synchronous JavaScript segment, so each is one     *)
(* action.  What is asynchronous is its use: a caller obtains a key set,   *)
(* awaits the signature, and the lifecycle moves on meanwhile.             *)
(***************************************************************************)
EXTENDS Integers, FiniteSets

CONSTANTS
    Kids,            \* key identifiers
    InitialKids,     \* the kids given to the constructor, all made active
    RetireAfterMs,   \* the values of retirePreviousAfterMs callers pass
    MinRetireMs,     \* a lower bound of RetireAfterMs (the shortest overlap)
    MsPerSecond,     \* milliseconds to a NumericDate second (1000)
    MaxTime          \* bound: the last instant of the clock

ASSUME KidsAssumption ==
    InitialKids \subseteq Kids /\ InitialKids # {} /\ IsFiniteSet(InitialKids)
ASSUME TimeAssumption ==
    MaxTime \in Nat /\ MinRetireMs \in Nat /\ MsPerSecond \in Nat \ {0}
(* How long a replaced key stays published is up to the caller of          *)
(* switchActiveKey, which sets no minimum.                                 *)
ASSUME RetireAssumption ==
    RetireAfterMs \subseteq Nat /\ \A d \in RetireAfterMs : d >= MinRetireMs

(* An optional number of the code that is undefined. *)
Undefined == -1

OptionalTime == Nat \cup {Undefined}

States == {"absent", "published", "active", "retiring", "revoked"}

(* ManagedFederationKeyEntry.  The entry "absent" stands for a kid the Map *)
(* does not hold.  expiresAt is never assigned and is left out, as are the *)
(* key material and the revocation reason.                                 *)
Entry == [state : States,
          createdAt : OptionalTime,
          activatedAt : OptionalTime,
          activationOrder : OptionalTime,
          scheduledRemovalAt : OptionalTime,
          revokedAt : OptionalTime]

AbsentEntry == [state |-> "absent", createdAt |-> Undefined,
                activatedAt |-> Undefined, activationOrder |-> Undefined,
                scheduledRemovalAt |-> Undefined, revokedAt |-> Undefined]

VARIABLES
    keys,              \* the Map from kid to entry
    activationOrder,   \* the counter that orders activations
    now,               \* nowMs()
    \* History of what callers obtained, kept for the properties only:
    lastSigner         \* kid -> last time a key set named it as the signer

vars == <<keys, activationOrder, now, lastSigner>>

----------------------------------------------------------------------------
(* The published JWKS: active and published keys, and retiring ones before *)
(* their removal time.                                                     *)
Published(k) ==
    \/ keys[k].state \in {"active", "published"}
    \/ /\ keys[k].state = "retiring"
       /\ \/ keys[k].scheduledRemovalAt = Undefined
          \/ keys[k].scheduledRemovalAt > now

Jwks == {k \in Kids : Published(k)}

Active == {k \in Kids : keys[k].state = "active"}

(* The signer currentKeySet selects: the active key activated last.        *)
IsSigner(k) ==
    /\ k \in Active
    /\ \A j \in Active : keys[j].activationOrder <= keys[k].activationOrder

(* Math.floor(ms / 1000): statements and historical records bear seconds.  *)
Seconds(ms) == ms \div MsPerSecond

(* mapHistoricalEntry: the exp and nbf of the historical record of a key.  *)
HistoricalExp(k) ==
    Seconds(IF keys[k].scheduledRemovalAt # Undefined THEN keys[k].scheduledRemovalAt
            ELSE IF keys[k].revokedAt # Undefined THEN keys[k].revokedAt
            ELSE now)

HistoricalNbf(k) ==
    IF keys[k].activatedAt = Undefined THEN Undefined ELSE Seconds(keys[k].activatedAt)

(* getHistoricalFederationKeys: one record per key the Map holds.          *)
Historical ==
    {[kid |-> k, exp |-> HistoricalExp(k), nbf |-> HistoricalNbf(k),
      revoked |-> keys[k].state = "revoked"] :
        k \in {j \in Kids : keys[j].state # "absent"}}

----------------------------------------------------------------------------
(* The constructor activates the initial keys one after the other: the     *)
(* activation orders are a numbering of them from 0.                       *)
Init ==
    /\ now = 0
    /\ \E order \in [InitialKids -> 0..(Cardinality(InitialKids) - 1)] :
         /\ \A j, k \in InitialKids : order[j] = order[k] => j = k
         /\ keys = [k \in Kids |->
                      IF k \in InitialKids
                      THEN [AbsentEntry EXCEPT !.state = "active",
                                               !.createdAt = 0,
                                               !.activatedAt = 0,
                                               !.activationOrder = order[k]]
                      ELSE AbsentEntry]
    /\ activationOrder = Cardinality(InitialKids)
    /\ lastSigner = [k \in Kids |-> Undefined]

(* getFederationKeySet: fails when no key is active.                       *)
GetFederationKeySet(k) ==
    /\ IsSigner(k)
    /\ lastSigner' = [lastSigner EXCEPT ![k] = now]
    /\ UNCHANGED <<keys, activationOrder, now>>

(* publishKey: refuses a kid the Map already holds, whatever its state.    *)
PublishKey(k) ==
    /\ keys[k].state = "absent"
    /\ keys' = [keys EXCEPT ![k] = [AbsentEntry EXCEPT !.state = "published",
                                                       !.createdAt = now]]
    /\ UNCHANGED <<activationOrder, now, lastSigner>>

(* The common form of switchActiveKey and of its mutants: k is activated   *)
(* with the given order, and the previous signer becomes the given entry.  *)
SwitchTo(k, order, previous, retired) ==
    /\ keys[k].state = "published"
    /\ keys' = [keys EXCEPT ![previous] = retired,
                            ![k].state = "active",
                            ![k].activatedAt = now,
                            ![k].activationOrder = order]
    /\ activationOrder' = activationOrder + 1
    /\ UNCHANGED <<now, lastSigner>>

(* The previous signer's entry once it is retired at the given time.       *)
RetiredAt(previous, removal) ==
    [keys[previous] EXCEPT !.state = "retiring",
                           !.scheduledRemovalAt = removal]

(* Mutant: the previous signer is not retired.                             *)
SwitchActiveKeyKeepsPrevious(k, previous, retireAfter) ==
    /\ IsSigner(previous)
    /\ SwitchTo(k, activationOrder, previous, keys[previous])

(* Mutant: the overlap is counted from the previous key's activation.      *)
SwitchActiveKeyEarlyRemoval(k, previous, retireAfter) ==
    /\ IsSigner(previous)
    /\ SwitchTo(k, activationOrder, previous,
                RetiredAt(previous, keys[previous].activatedAt + retireAfter))

(* Mutant: the switch does not need a current signer.                      *)
SwitchActiveKeyWithoutSigner(k, previous, retireAfter) ==
    SwitchTo(k, activationOrder, previous,
             IF IsSigner(previous) THEN RetiredAt(previous, now + retireAfter)
                                   ELSE keys[previous])

(* switchActiveKey: only a published key, and only while some key is       *)
(* active (currentKeySet throws otherwise, before any change).             *)
SwitchActiveKey(k, previous, retireAfter) ==
    /\ IsSigner(previous)
    /\ SwitchTo(k, activationOrder, previous, RetiredAt(previous, now + retireAfter))

(* Mutant: the entry is rebuilt instead of copied, and loses its times.    *)
RevokeKeyRebuildsEntry(k) ==
    /\ keys[k].state # "absent"
    /\ keys' = [keys EXCEPT ![k] = [AbsentEntry EXCEPT !.state = "revoked",
                                                       !.createdAt = keys[k].createdAt,
                                                       !.revokedAt = now]]
    /\ UNCHANGED <<activationOrder, now, lastSigner>>

(* revokeKey: from any state, a revoked key again included.                *)
RevokeKey(k) ==
    /\ keys[k].state # "absent"
    /\ keys' = [keys EXCEPT ![k].state = "revoked", ![k].revokedAt = now]
    /\ UNCHANGED <<activationOrder, now, lastSigner>>

(* The wall clock; no timer of the provider runs.                          *)
Tick ==
    /\ now < MaxTime
    /\ now' = now + 1
    /\ UNCHANGED <<keys, activationOrder, lastSigner>>

Next ==
    \/ \E k \in Kids : GetFederationKeySet(k)
    \/ \E k \in Kids : PublishKey(k)
    \/ \E k, previous \in Kids, d \in RetireAfterMs :
          SwitchActiveKey(k, previous, d)
    \/ \E k \in Kids : RevokeKey(k)
    \/ Tick

Spec == Init /\ [][Next]_vars

----------------------------------------------------------------------------
(* The variables have their types: of the Map's entries, the activation    *)
(* counter and the clock.                                                  *)
TypeOK ==
    /\ keys \in [Kids -> Entry]
    /\ activationOrder \in Nat
    /\ now \in Nat
    /\ lastSigner \in [Kids -> OptionalTime]

(* currentKeySet never has to choose between two active keys: no two share *)
(* an activation order, whatever the clock says (the comment at line 88).  *)
SelectionUnambiguous ==
    /\ \A k \in Active : keys[k].activationOrder \in 0..(activationOrder - 1)
    /\ \A j, k \in Active :
          keys[j].activationOrder = keys[k].activationOrder => j = k

(* A key that has signed either still is the signer or has left for good:  *)
(* switchActiveKey retires exactly the signer it replaces, so revoking the *)
(* newest key can never bring a superseded signer back.                    *)
SupersededForGood ==
    \A k \in Kids : lastSigner[k] # Undefined =>
        IsSigner(k) \/ keys[k].state \in {"retiring", "revoked"}

(* A statement signed by a key that is not revoked verifies against the    *)
(* published JWKS for at least the shortest overlap after the key set was  *)
(* obtained, whatever switches happen in between.                          *)
RecentSignerPublished ==
    \A k \in Kids :
        /\ lastSigner[k] # Undefined
        /\ keys[k].state # "revoked"
        /\ now < lastSigner[k] + MinRetireMs
        => k \in Jwks

(* The historical record covers every signature: it exists for each key    *)
(* that has signed and its nbf..exp interval contains the iat of what it   *)
(* signed, through retirement and revocation in any order.                 *)
HistoryCoversSignatures ==
    \A k \in Kids : lastSigner[k] # Undefined =>
        \E h \in Historical :
            /\ h.kid = k /\ h.nbf # Undefined
            /\ h.nbf <= Seconds(lastSigner[k]) /\ Seconds(lastSigner[k]) <= h.exp

(* A key leaves the published JWKS in two ways only: it is revoked, or it  *)
(* is retiring and the clock reaches its scheduled removal.                *)
UnpublishedOnlyWhenDue ==
    [][\A k \in Kids : k \in Jwks /\ k \notin Jwks' =>
          \/ keys'[k].state = "revoked"
          \/ /\ keys'[k].state = "retiring"
             /\ now' >= keys'[k].scheduledRemovalAt]_vars

(* The lifecycle only moves forward: a kid is never forgotten or reused,   *)
(* a retiring key never signs again and a revoked key stays revoked.       *)
LifecycleForward ==
    [][\A k \in Kids :
          /\ keys[k].state # "absent" =>
                keys'[k].createdAt = keys[k].createdAt /\ keys'[k].state # "absent"
          /\ keys[k].state = "retiring" => keys'[k].state \in {"retiring", "revoked"}
          /\ keys[k].state = "revoked" => keys'[k].state = "revoked"]_vars

(* Revoking the last active key is final: switchActiveKey reads the        *)
(* current key set first, which throws, so no published key can be         *)
(* activated any more.  Callers must switch before they revoke.            *)
NoSignerAfterLockout == [][Active = {} => Active' = {}]_vars
============================================================================
