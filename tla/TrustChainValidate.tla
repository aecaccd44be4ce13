------------------------- MODULE TrustChainValidate -------------------------
(***************************************************************************)
(* Validation of a trust chain (core/src/trust-chain/validate.ts) with the *)
(* constraints (constraints/index.ts), the metadata policies               *)
(* (PolicyOperators) and the trust marks (trust-marks/index.ts) it         *)
(* evaluates: validateTrustChain, its structural and publication variants, *)
(* and the two-step prepareTrustChainValidation and                        *)
(* completeTrustChainValidation.                                           *)
(*                                                                         *)
(* Every signature is an await, at which the clock may move and the caller *)
(* may abort.  Errors are collected until the end of a stage, which        *)
(* returns if there are any.  A statement is a record of what the checks   *)
(* tell apart; "wellFormed" stands for all checks that one statement       *)
(* passes or fails by itself.                                              *)
(***************************************************************************)
EXTENDS PolicyOperators, Sequences

CONSTANTS
    Entities,       \* entity identifiers
    Types,          \* entity types; "federation" is always allowed
    Params,         \* <<entity type, parameter>> pairs
    Chains,         \* the chains callers pass
    AnchorKeys,     \* trustAnchors: anchor -> keys configured for it
    MarkIssuerKeys, \* trustMarkIssuerKeys: issuer -> keys, {} if it has none
    Deferred,       \* deferredClaims of prepareTrustChainValidation
    Modes,          \* which of the entry points callers use
    Audience,       \* explicitRegistrationAudience
    Skew,           \* clockSkewSeconds
    MaxTime         \* bound: the last instant of the clock

Anchors == DOMAIN AnchorKeys
NoValue == [p \in Params |-> Absent]

ASSUME ValidationAssumption ==
    /\ Skew \in Nat /\ MaxTime \in Nat /\ Anchors \subseteq Entities
    /\ Deferred \subseteq Params /\ "federation" \in Types
    /\ \A p \in Params : p[1] \in Types
    /\ Modes \subseteq {"validate", "structure", "publication", "prepare"}

(* A chain is a sequence of statements: a published value is a JSON value, *)
(* policies are about parameters and name JSON values, and an owner, if    *)
(* only "none", goes with every type of mark.                              *)
IsSequence(s) == s \in Seq({s[i] : i \in DOMAIN s})
ASSUME ChainsAssumption ==
    \A c \in Chains :
        /\ IsSequence(c)
        /\ \A i \in DOMAIN c :
            /\ c[i].metadata \in [Params -> Values] /\ DOMAIN c[i].policy \subseteq Params
            /\ \A p \in DOMAIN c[i].policy : \A o \in DOMAIN c[i].policy[p] :
                   c[i].policy[p][o] \in Values \ {Absent}
            /\ IsSequence(c[i].marks) /\ \A k \in DOMAIN c[i].marks : c[i].marks[k].iss \in Entities
            /\ DOMAIN c[i].markIssuers \subseteq DOMAIN c[i].markOwners

VARIABLES
    now,        \* the caller's clock
    aborted,    \* options.signal
    mode,       \* entry point
    chain,      \* its statements, leaf first
    pc,         \* where the call is
    started,    \* nowSeconds, read once at the start
    next,       \* index of the next link or mark to verify
    errors,     \* the stage found an error
    types,      \* entity types of the metadata being resolved
    meta,       \* its parameters
    pending,    \* stage.pending: parameters whose policy is put off
    context,    \* stage.context
    prepared    \* what prepareTrustChainValidation returned, or None
callVars == <<mode, chain, started, next, errors, types, meta, pending, context>>
vars == <<now, aborted, pc, callVars, prepared>>

None == [live |-> FALSE, expiresAt |-> 0, types |-> {}, meta |-> NoValue, pending |-> {}]
----------------------------------------------------------------------------
IsEC(s) == s.iss = s.sub
Trailing(c) == IsEC(c[Len(c)])
Subordinates(c) == SubSeq(c, 2, IF Trailing(c) THEN Len(c) - 1 ELSE Len(c))

(* calculateChainExpiration                                                *)
ExpiresAt(c) == CHOOSE t \in {c[i].exp : i \in DOMAIN c} : \A i \in DOMAIN c : t <= c[i].exp

(* The first loop.  A statement by itself: its encoding, the headers, the  *)
(* metadata, crit.                                                         *)
WellFormed(s) == s.decodes /\ s.wellFormed

(* validateRawStatementShape: the kind of statement each position takes.   *)
PositionOK(c, i) ==
    /\ i = 1 => IsEC(c[i])
    /\ 1 < i /\ i < Len(c) => ~IsEC(c[i])

TimesOK(s, at) == s.iat <= at + Skew /\ s.exp >= at - Skew

(* Claims that only one of the two kinds may carry, and the audience only  *)
(* the leaf of an explicit registration.                                   *)
ClaimsOK(c, i) ==
    /\ IsEC(c[i]) => c[i].policy = <<>> /\ c[i].constraints = <<>>
    /\ ~IsEC(c[i]) => c[i].hints = {} /\ c[i].marks = <<>>
    /\ c[i].aud # "none" => i = 1 /\ c[i].aud = Audience

ShapeOK(c, i, at) ==
    WellFormed(c[i]) /\ PositionOK(c, i) /\ TimesOK(c[i], at) /\ ClaimsOK(c, i)

(* verifyEntityStatement: selectVerificationKey by kid, the signature, and *)
(* jose's own comparison of exp with the time of the call.                 *)
Verifies(token, keys, at) == token.key \in keys /\ token.exp > at - Skew

(* Non-anchor Entity Configurations name superiors, a trailing anchor's    *)
(* does not, and the issuer of a statement is among its subject's hints.   *)
HintsOK(c) ==
    \A i \in DOMAIN c :
        /\ IsEC(c[i]) /\ ~(i = Len(c) /\ c[i].iss \in Anchors) => c[i].hints # {}
        /\ i = Len(c) /\ IsEC(c[i]) /\ c[i].iss \in Anchors => c[i].hints = {}
        /\ i > 1 /\ ~IsEC(c[i]) /\ IsEC(c[i - 1]) => c[i].iss \in c[i - 1].hints
----------------------------------------------------------------------------
(* checkConstraints of statement i: its max_path_length bounds the         *)
(* intermediates below it, and every entity below it passes its naming     *)
(* constraints.                                                            *)
ConstraintsOK(c) ==
    \A i \in 2..Len(c) : c[i].constraints # <<>> =>
        LET con == c[i].constraints[1]
        IN  /\ i - 2 <= con.maxPath
            /\ \A k \in 1..(i - 1) : c[k].sub \in con.permitted \ con.excluded

(* The leaf's metadata with what its immediate superior sets, for entity   *)
(* types that the leaf has.                                                *)
Published(c) ==
    LET ss == Subordinates(c)
        own == c[1].metadata
    IN  [p \in Params |->
            IF ss # <<>> /\ p[1] \in c[1].types /\ ss[1].metadata[p] # Absent
            THEN ss[1].metadata[p] ELSE own[p]]

(* applyAllowedEntityTypes for every statement above the leaf.             *)
AllowedTypes(c) ==
    {t \in c[1].types :
        \/ t = "federation"
        \/ \A i \in 2..Len(c) : c[i].constraints # <<>> => t \in c[i].constraints[1].allowed}

(* resolveMetadataPolicy: the policy for p merged from the top down; the   *)
(* first i statements from the top.                                        *)
MergedPolicy(c, p) ==
    LET ss == Subordinates(c)
        m[i \in 0..Len(ss)] ==
            IF i = 0 THEN <<>>
            ELSE LET s == ss[Len(ss) - i + 1]
                 IN  IF p \in DOMAIN s.policy THEN MergedParam(m[i - 1], s.policy[p]) ELSE m[i - 1]
    IN  [fails |-> \E i \in 0..Len(ss) : MergeFails(m[i]), ops |-> m[Len(ss)]]

PolicyParams(c) == UNION {DOMAIN c[i].policy : i \in DOMAIN c}

(* Contextual values fill parameters that the metadata leaves undefined.   *)
WithContext(published, ts, ctx) ==
    [p \in Params |-> IF published[p] = Absent /\ p[1] \in ts THEN ctx[p] ELSE published[p]]

(* Deferred claims whose policy waits for a value.                         *)
PutOff(c, v, ts) ==
    {p \in Deferred : p[1] \in ts /\ v[p] = Absent /\ p \in PolicyParams(c)}

IsScope(p) == p[2] = "scope"

(* applyMetadataPolicy on all parameters but those put off.                *)
Resolved(c, v, off) ==
    [p \in Params |-> IF p \in PolicyParams(c) \ off
                      THEN Applied(MergedPolicy(c, p).ops, v[p], IsScope(p)) ELSE v[p]]
----------------------------------------------------------------------------
(* The keys known for a trust mark's issuer: configured by the caller,     *)
(* else published by an Entity Configuration of the chain, else the        *)
(* anchor's configured keys.                                               *)
IssuerKeys(c, iss) ==
    LET ecs == {i \in DOMAIN c : IsEC(c[i]) /\ c[i].iss = iss}
        anchor == c[Len(c)].iss
    IN  IF MarkIssuerKeys[iss] # {} THEN MarkIssuerKeys[iss]
        ELSE IF ecs # {} THEN c[CHOOSE i \in ecs : \A k \in ecs : k <= i].jwks
        ELSE IF iss = anchor /\ anchor \in Anchors THEN AnchorKeys[anchor]
        ELSE {}

(* validateDelegation                                                      *)
DelegationOK(m, owner, at) ==
    /\ m.delegation.sub = m.iss /\ m.delegation.type = m.type
    /\ owner.sub # "none" /\ m.delegation.iss = owner.sub
    /\ m.delegation.iat <= at + Skew
    /\ Verifies(m.delegation, owner.keys, at)

(* Mutant: an owner of the type does not oblige the issuer to a delegation *)
MarkOKWithoutOwner(c, m, at) ==
    LET ta == c[Len(c)]
    IN  /\ IsEC(ta) /\ m.type \in DOMAIN ta.markIssuers
        /\ m.sub = c[1].iss
        /\ ta.markIssuers[m.type] = {} \/ m.iss \in ta.markIssuers[m.type]
        /\ m.iat <= at + Skew
        /\ Verifies(m, IssuerKeys(c, m.iss), at)
        /\ m.delegation.iss # "none" => DelegationOK(m, ta.markOwners[m.type], at)

(* validateTrustMark of a mark the leaf publishes: issuers and owners come *)
(* from a trailing anchor configuration; an empty list of issuers admits   *)
(* anyone; a type that has an owner needs a delegation.                    *)
MarkOK(c, m, at) ==
    LET ta == c[Len(c)]
    IN  /\ IsEC(ta) /\ m.type \in DOMAIN ta.markIssuers
        /\ m.sub = c[1].iss
        /\ ta.markIssuers[m.type] = {} \/ m.iss \in ta.markIssuers[m.type]
        /\ m.iat <= at + Skew
        /\ Verifies(m, IssuerKeys(c, m.iss), at)
        /\ ta.markOwners[m.type].sub # "none" => m.delegation.iss # "none"
        /\ m.delegation.iss # "none" => DelegationOK(m, ta.markOwners[m.type], at)
----------------------------------------------------------------------------
Init ==
    /\ now = 0 /\ aborted = FALSE /\ pc = "idle" /\ prepared = None
    /\ mode \in Modes /\ chain \in Chains
    /\ started = 0 /\ next = 1 /\ errors = FALSE
    /\ types = {} /\ meta = NoValue /\ pending = {} /\ context = NoValue

(* The synchronous part of validateTrustChainImpl up to its first await.   *)
Enter(m, c, ctx) ==
    /\ mode' = m /\ chain' = c /\ context' = ctx /\ started' = now
    /\ next' = 1 /\ errors' = FALSE /\ types' = {} /\ meta' = NoValue /\ pending' = {}
    /\ pc' = IF c # <<>> /\ \A i \in DOMAIN c : ShapeOK(c, i, now)
             THEN "leaf" ELSE "rejected"
    /\ UNCHANGED <<now, aborted>>

(* A call of one of the entry points.                                      *)
Begin ==
    /\ pc = "idle" /\ ~(mode = "prepare" /\ aborted)
    /\ Enter(mode, chain, NoValue)
    /\ UNCHANGED prepared

(* prepareTrustChainValidation returns at once when the signal is aborted. *)
BeginAborted ==
    /\ pc = "idle" /\ mode = "prepare" /\ aborted
    /\ pc' = "rejected" /\ UNCHANGED <<now, aborted, callVars, prepared>>

(* The leaf verifies its own configuration.                                *)
VerifyLeaf ==
    /\ pc = "leaf"
    /\ errors' = ~(IsEC(chain[1]) /\ Verifies(chain[1], chain[1].jwks, now))
    /\ pc' = IF mode = "publication"
             THEN IF errors' THEN "rejected" ELSE "accepted"
             ELSE IF Len(chain) = 1 THEN "anchor" ELSE "links"
    /\ UNCHANGED <<now, aborted, mode, chain, started, next, types, meta, pending, context, prepared>>

(* Mutant: a link is held against the keys of the statement itself.        *)
VerifyLinkSelfSigned ==
    /\ pc = "links"
    /\ LET s == chain[next] above == chain[next + 1]
       IN  errors' = (errors \/ s.iss # above.sub \/ ~Verifies(s, s.jwks \cup above.jwks, now))
    /\ next' = next + 1
    /\ pc' = IF next + 1 = Len(chain) THEN "anchor" ELSE "links"
    /\ UNCHANGED <<now, aborted, mode, chain, started, types, meta, pending, context, prepared>>

(* Each statement is verified with the keys the one above it publishes for *)
(* its issuer.                                                             *)
VerifyLink ==
    /\ pc = "links"
    /\ LET s == chain[next] above == chain[next + 1]
       IN  errors' = (errors \/ s.iss # above.sub \/ ~Verifies(s, above.jwks, now))
    /\ next' = next + 1
    /\ pc' = IF next + 1 = Len(chain) THEN "anchor" ELSE "links"
    /\ UNCHANGED <<now, aborted, mode, chain, started, types, meta, pending, context, prepared>>

(* The last statement is verified with the keys configured for the anchor. *)
VerifyAnchor ==
    /\ pc = "anchor"
    /\ LET last == chain[Len(chain)]
           bad == \/ errors \/ last.iss \notin Anchors
                  \/ ~Verifies(last, AnchorKeys[last.iss], now)
                  \/ ~HintsOK(chain)
       IN  errors' = bad /\ pc' = IF bad THEN "rejected" ELSE "resolve"
    /\ UNCHANGED <<now, aborted, mode, chain, started, next, types, meta, pending, context, prepared>>

(* Constraints, allowed entity types and policies, without an await.       *)
ResolveMetadata ==
    /\ pc = "resolve"
    /\ LET ts == AllowedTypes(chain)
           published == [p \in Params |-> IF p[1] \in ts THEN Published(chain)[p] ELSE Absent]
           v == WithContext(published, ts, context)
           off == IF mode = "prepare" THEN PutOff(chain, v, ts) ELSE {}
           fails == \E p \in PolicyParams(chain) : MergedPolicy(chain, p).fails
           r == Resolved(chain, v, off)
       IN  /\ types' = ts \cup {p[1] : p \in PolicyParams(chain)}
           /\ meta' = IF fails THEN v ELSE r
           /\ pending' = IF fails THEN {} ELSE off
           /\ errors' = (~ConstraintsOK(chain) \/ fails \/ \E p \in Params : r[p] = Failure)
    /\ next' = 1
    /\ pc' = IF mode = "structure" \/ chain[1].marks = <<>> THEN "conclude" ELSE "marks"
    /\ UNCHANGED <<now, aborted, mode, chain, started, context, prepared>>

(* One published trust mark after the other: its own signature and the one *)
(* of its delegation, two awaits that nothing else depends on, at once.    *)
VerifyMark ==
    /\ pc = "marks"
    /\ errors' = (errors \/ ~MarkOK(chain, chain[1].marks[next], now))
    /\ next' = next + 1
    /\ pc' = IF next = Len(chain[1].marks) THEN "conclude" ELSE "marks"
    /\ UNCHANGED <<now, aborted, mode, chain, started, types, meta, pending, context, prepared>>

(* Mutant: the verdict is given although a check of the last stage failed. *)
ConcludeRegardless ==
    /\ pc = "conclude"
    /\ IF mode \in {"prepare", "complete"} /\ aborted
       THEN pc' = "rejected" /\ UNCHANGED prepared
       ELSE IF mode = "prepare"
       THEN /\ pc' = "prepared"
            /\ prepared' = [live |-> TRUE, expiresAt |-> ExpiresAt(chain), types |-> types,
                            meta |-> meta, pending |-> pending]
       ELSE pc' = "accepted" /\ UNCHANGED prepared
    /\ UNCHANGED <<now, aborted, callVars>>

(* The verdict.  A preparation keeps its chain and what is pending.        *)
Conclude ==
    /\ pc = "conclude"
    /\ IF errors \/ (mode \in {"prepare", "complete"} /\ aborted)
       THEN pc' = "rejected" /\ UNCHANGED prepared
       ELSE IF mode = "prepare"
       THEN /\ pc' = "prepared"
            /\ prepared' = [live |-> TRUE, expiresAt |-> ExpiresAt(chain), types |-> types,
                            meta |-> meta, pending |-> pending]
       ELSE pc' = "accepted" /\ UNCHANGED prepared
    /\ UNCHANGED <<now, aborted, callVars>>

(* completeTrustChainValidation: the preparation has not expired, strictly *)
(* and without skew, the context names reserved parameters only, and the   *)
(* saved chain is validated again with it.                                 *)
Complete(ctx) ==
    /\ pc = "prepared"
    /\ IF \/ aborted \/ prepared.expiresAt <= now
          \/ \E p \in Params : ctx[p] # Absent /\ p \notin prepared.pending
       THEN pc' = "rejected" /\ UNCHANGED <<now, aborted, callVars>>
       ELSE Enter("complete", chain, ctx)
    /\ UNCHANGED prepared

Tick == now < MaxTime /\ now' = now + 1 /\ UNCHANGED <<aborted, pc, callVars, prepared>>
Abort == ~aborted /\ aborted' = TRUE /\ UNCHANGED <<now, pc, callVars, prepared>>

Validate ==
    \/ Begin \/ BeginAborted \/ VerifyLeaf \/ VerifyLink \/ VerifyAnchor
    \/ ResolveMetadata \/ VerifyMark \/ Conclude
=============================================================================
