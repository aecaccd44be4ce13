------------------------- MODULE ReplayProtection -------------------------
(***************************************************************************)
(* One-time use of JWTs through MemoryReplayStore (packages/core/src/      *)
(* memory-replay-store.ts) by its three users: client assertions           *)
(* (jose/client-auth.ts, behind the authority's endpoints), proofs of      *)
(* wallet attestations (packages/wallet/src/attestation.ts) and Request    *)
(* Objects of automatic registration (packages/oidc/src/registration/      *)
(* process-automatic.ts).                                                  *)
(*                                                                         *)
(* Requests run concurrently.  Each checks the time of its JWT, awaits     *)
(* keys, chains and signatures, and claims the jti last.                   *)
(***************************************************************************)
EXTENDS Integers, FiniteSets

CONSTANTS
    Requests,        \* concurrent requests, each presents one JWT
    Messages,        \* the JWTs
    Tuples,          \* [issuer, audience, jti] tuples
    tuple,           \* message -> its tuple; two messages may share one
    exp,             \* message -> its exp (of a proof: the earliest of its
                     \* exp, its greatest age and the attestation's exp)
    kind,            \* message -> "assertion", "proof" or "requestObject"
    Skew,            \* clockSkewSeconds
    MaxEntries,      \* maxEntries
    MaxTime          \* bound: the last instant of the clock

ASSUME MessageAssumption ==
    /\ tuple \in [Messages -> Tuples]
    /\ exp \in [Messages -> Nat]
    /\ kind \in [Messages -> {"assertion", "proof", "requestObject"}]
ASSUME NumberAssumption == Skew \in Nat /\ MaxEntries \in Nat \ {0} /\ MaxTime \in Nat

(* No entry: a time that every instant is past.                            *)
Absent == 0

VARIABLES
    entries,   \* the Map: tuple -> expiresAt, or Absent
    now,       \* nowSeconds()
    pc,        \* request -> "new", "checked", "verified", "accepted", "refused"
    message,   \* request -> the JWT it presents
    claimedAt  \* request -> the store's clock when its claim was accepted

vars == <<entries, now, pc, message, claimedAt>>
----------------------------------------------------------------------------
(* The end of the time in which the checks accept a message.               *)
WindowEnd(m) == exp[m] + Skew
InWindow(m, at) == at < WindowEnd(m)

(* Client assertions and proofs are claimed with the skew.                 *)
Skewed(m) == kind[m] # "requestObject"

(* Mutant: an assertion is recorded until its exp only.                    *)
ExpiresAtBare(m) == exp[m]

(* The expiresAt of the claim: the bare exp for a Request Object.          *)
ExpiresAt(m) == IF Skewed(m) THEN exp[m] + Skew ELSE exp[m]

(* removeExpired.                                                          *)
Live(at) == {t \in Tuples : entries[t] > at}
Purged(at) == [t \in Tuples |-> IF t \in Live(at) THEN entries[t] ELSE Absent]

Move(r, from, to) == pc[r] = from /\ pc' = [pc EXCEPT ![r] = to]

(* A request arrives.  A Request Object's time is checked at once, before  *)
(* its chain is resolved, and a proof's before its signature; an           *)
(* assertion's only by jwtVerify.                                          *)
Receive(r) ==
    /\ LET m == message[r]
       IN  \/ /\ kind[m] = "assertion" \/ InWindow(m, now)
              /\ Move(r, "new", "checked")
           \/ /\ kind[m] # "assertion" /\ ~InWindow(m, now)
              /\ Move(r, "new", "refused")
    /\ UNCHANGED <<entries, now, message, claimedAt>>

(* The signature is verified, and the time with it.                        *)
Verify(r, authentic) ==
    /\ \/ /\ authentic /\ InWindow(message[r], now)
          /\ Move(r, "checked", "verified")
       \/ /\ ~(authentic /\ InWindow(message[r], now))
          /\ Move(r, "checked", "refused")
    /\ UNCHANGED <<entries, now, message, claimedAt>>

(* The last check and useJti, in one segment.  The check and the store     *)
(* read the clock one after the other: `at' is what the store reads.       *)
Claim(r, at) ==
    LET m == message[r]
        t == tuple[m]
        passes == Skewed(m) => InWindow(m, now)
    IN  /\ at \in now..(now + 1) /\ at <= MaxTime
        /\ now' = at
        /\ \/ /\ ~passes
              /\ Move(r, "verified", "refused")
              /\ UNCHANGED <<entries, claimedAt>>
           \/ /\ passes
              /\ t \in Live(at) \/ Cardinality(Live(at)) >= MaxEntries
              /\ Move(r, "verified", "refused")
              /\ entries' = Purged(at)
              /\ UNCHANGED claimedAt
           \/ /\ passes
              /\ t \notin Live(at) /\ Cardinality(Live(at)) < MaxEntries
              /\ Move(r, "verified", "accepted")
              /\ entries' = [Purged(at) EXCEPT ![t] = ExpiresAt(m)]
              /\ claimedAt' = [claimedAt EXCEPT ![r] = at]
        /\ UNCHANGED message

(* authenticateWallet looks at the time and the signal once more after the *)
(* claim, which may also time out: the proof is spent and yet refused.     *)
Withdraw(r) ==
    /\ kind[message[r]] = "proof" /\ Move(r, "accepted", "refused")
    /\ UNCHANGED <<entries, now, message, claimedAt>>

Tick ==
    /\ now < MaxTime
    /\ now' = now + 1
    /\ UNCHANGED <<entries, pc, message, claimedAt>>

Answered ==
    /\ \A r \in Requests : pc[r] \in {"accepted", "refused"}
    /\ UNCHANGED vars

Init ==
    /\ entries = [t \in Tuples |-> Absent]
    /\ now = 0
    /\ pc = [r \in Requests |-> "new"]
    /\ message \in [Requests -> Messages]
    /\ claimedAt = [r \in Requests |-> 0]

Next ==
    \/ \E r \in Requests : Receive(r) \/ Withdraw(r)
    \/ \E r \in Requests, authentic \in BOOLEAN : Verify(r, authentic)
    \/ \E r \in Requests, at \in 0..MaxTime : Claim(r, at)
    \/ Tick
    \/ Answered

Spec == Init /\ [][Next]_vars
----------------------------------------------------------------------------
(* The variables have their types.                                         *)
TypeOK ==
    /\ entries \in [Tuples -> Nat]
    /\ now \in 0..MaxTime
    /\ pc \in [Requests -> {"new", "checked", "verified", "accepted", "refused"}]
    /\ message \in [Requests -> Messages]
    /\ claimedAt \in [Requests -> Nat]

(* Requests whose claim of m was accepted within m's window.               *)
Uses(m) ==
    {r \in Requests : /\ message[r] = m /\ pc[r] = "accepted"
                      /\ InWindow(m, claimedAt[r])}

(* A client assertion or a proof authenticates one request: of those that  *)
(* present it, at the same time or one after the other, one at most has    *)
(* its claim accepted before the window of exp and skew closes, whatever   *)
(* other claims fill the store or expire.                                  *)
AssertionOnce ==
    \A m \in Messages : Skewed(m) =>
        \A r1, r2 \in Uses(m) : r1 = r2

(* The same of Request Objects, as the replay contract says of every claim *)
(* (docs/guide/storage-guide.md, line 95: "Replay records remain live      *)
(* through the accepted clock-skew window").  processAutomaticRegistration *)
(* accepts them for the skew after exp but records them only until exp.    *)
RequestObjectOnce ==
    \A m \in Messages : kind[m] = "requestObject" =>
        \A r1, r2 \in Uses(m) : r1 = r2

(* While the window of an accepted assertion is open, its claim is still   *)
(* in the store.                                                           *)
RecordedWhileOpen ==
    \A r \in Requests :
        /\ pc[r] = "accepted" /\ Skewed(message[r])
        /\ InWindow(message[r], now)
        => entries[tuple[message[r]]] >= WindowEnd(message[r])
============================================================================
