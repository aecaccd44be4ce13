---------------------------- MODULE WalletRequest ----------------------------
(***************************************************************************)
(* A wallet's handling of an OpenID4VP request (packages/wallet/src):      *)
(* prepareRequest and completeRequest (request.ts) with prepareVerifier,   *)
(* candidates and protocolKeys (trust.ts), verifyToken (jwt.ts) and the    *)
(* application's hooks (invokePolicy, attestation.ts; runOperation,        *)
(* operation.ts), on top of the staged validation of TrustChainValidate.   *)
(*                                                                         *)
(* Other callers of the validation (validate, structure, publication) run  *)
(* it alone.                                                               *)
(***************************************************************************)
EXTENDS TrustChainValidate

CONSTANTS
    Candidates,     \* sequences of chains: what candidates() may return
    Requests,       \* Request Objects
    Queries,        \* <<entity type, parameter>> of dcql_queries
    ProtocolKeys,   \* <<entity type, parameter>> of the verifier's jwks
    KeyOf           \* the key each entity really holds (for the properties)

(* prepareVerifier puts off the policy of dcql_queries and nothing else,   *)
(* and fails at once without a candidate.                                  *)
ASSUME WalletAssumption ==
    /\ Deferred = {Queries} /\ ProtocolKeys \in Params
    /\ \A ps \in Candidates : ps \in Seq(Chains) \ {<<>>}
    /\ \A r \in Requests : r.clientQuery \in Values

(* What no code can check: the configured keys are the ones the anchors    *)
(* and mark issuers hold, and whoever signs a statement tells the truth    *)
(* about the keys of its subject and of the owners of marks.               *)
ASSUME TruthAssumption ==
    /\ \A a \in Anchors : AnchorKeys[a] \subseteq {KeyOf[a]}
    /\ \A e \in Entities : MarkIssuerKeys[e] \subseteq {KeyOf[e]}
    /\ \A c \in Chains : \A i \in DOMAIN c : c[i].key = KeyOf[c[i].iss] =>
        /\ c[i].jwks \subseteq {KeyOf[c[i].sub]}
        /\ \A t \in DOMAIN c[i].markOwners : LET owner == c[i].markOwners[t] IN
               owner.sub # "none" => owner.keys \subseteq {KeyOf[owner.sub]}

VARIABLES
    paths,          \* the chains of candidates() that are left to try
    request,        \* the Request Object
    wpc,            \* where the wallet's call is
    effective       \* effectiveQueries of the result
wallet == <<paths, request, wpc, effective>>
allVars == <<vars, wallet>>

Verifier == Queries[1]

WalletInit ==
    /\ Init
    /\ IF mode = "prepare"
       THEN /\ paths \in Candidates /\ request \in Requests /\ wpc = "preparing"
            /\ chain = paths[1]
       ELSE paths = <<>> /\ request = None /\ wpc = "none"
    /\ effective = Absent

(* roleMetadata: the chain is about the entity asked for, and its resolved *)
(* metadata fits the role.                                                 *)
RoleOK(ts, m) ==
    /\ chain[1].sub = request.client /\ Verifier \in ts /\ m[ProtocolKeys] # Absent

(* prepareVerifier tries the candidates, shortest first.                   *)
NextPath ==
    /\ wpc = "preparing"
    /\ pc = "rejected" \/ (pc = "prepared" /\ ~RoleOK(prepared.types, prepared.meta))
    /\ paths' = Tail(paths) /\ prepared' = None
    /\ IF Tail(paths) = <<>>
       THEN wpc' = "failed" /\ UNCHANGED <<pc, chain>>
       ELSE UNCHANGED wpc /\ pc' = "idle" /\ chain' = paths[2]
    /\ UNCHANGED <<now, aborted, mode, started, next, errors, types, meta, pending, context>>
    /\ UNCHANGED <<request, effective>>

(* The end of prepareRequest: the request_uri is registered, and the       *)
(* protocol keys could be resolved.                                        *)
PrepareRequest(keysFound) ==
    /\ wpc = "preparing" /\ pc = "prepared" /\ RoleOK(prepared.types, prepared.meta)
    /\ wpc' = IF request.registered /\ keysFound THEN "waiting" ELSE "failed"
    /\ UNCHANGED <<vars, paths, request, effective>>

(* completeRequest up to the signature of the Request Object.              *)
BeginComplete ==
    /\ wpc = "waiting"
    /\ wpc' = IF prepared.expiresAt <= now \/ aborted \/ ~request.sameAsInline
              THEN "failed" ELSE "verifying"
    /\ UNCHANGED <<vars, paths, request, effective>>

(* The query of client_metadata as policy input, when one is pending.      *)
ContextOf(r) ==
    [p \in Params |-> IF p = Queries /\ prepared.pending # {} THEN r.clientQuery ELSE Absent]

(* Mutant: the query of client_metadata is passed whether or not a policy  *)
(* waits for it, and the reservation is not checked.                       *)
VerifyRequestAlwaysPasses(authentic) ==
    /\ wpc = "verifying"
    /\ IF authentic /\ ~aborted /\ request.wellFormed
       THEN /\ wpc' = "completing"
            /\ Enter("complete", chain, [NoValue EXCEPT ![Queries] = request.clientQuery])
            /\ UNCHANGED prepared
       ELSE wpc' = "failed" /\ UNCHANGED vars
    /\ UNCHANGED <<paths, request, effective>>

(* verifyToken and the checks of the Request Object (schema, client_id,    *)
(* nonce, exactly one of query and scope), then the staged completion.     *)
VerifyRequest(authentic) ==
    /\ wpc = "verifying"
    /\ IF authentic /\ ~aborted /\ request.wellFormed
       THEN wpc' = "completing" /\ Complete(ContextOf(request))
       ELSE wpc' = "failed" /\ UNCHANGED vars
    /\ UNCHANGED <<paths, request, effective>>

SuperiorQueries ==
    IF Len(chain) = 1 \/ IsEC(chain[2]) THEN Absent ELSE chain[2].metadata[Queries]

(* Mutant: the requested query comes before the verifier's metadata.       *)
EffectiveOfRequest ==
    IF SuperiorQueries # Absent THEN meta[Queries] ELSE request.query

(* The query the wallet answers: from the resolved metadata, else the      *)
(* requested one, which a superior's list replaces.                        *)
Effective ==
    IF meta[Queries] # Absent THEN meta[Queries]
    ELSE IF SuperiorQueries # Absent THEN Absent ELSE request.query

(* Role, endpoints and queries after the completed validation.             *)
CheckRequest ==
    /\ wpc = "completing" /\ pc \in {"accepted", "rejected"}
    /\ IF /\ pc = "accepted" /\ RoleOK(types, meta) /\ request.endpointsOK
          /\ SuperiorQueries = Absent => request.query # Absent
          /\ Effective # Absent
       THEN wpc' = "hooks" /\ effective' = Effective
       ELSE wpc' = "failed" /\ UNCHANGED effective
    /\ UNCHANGED <<vars, paths, request>>

(* verifyTransactionData and queryPolicy: application code that may take   *)
(* its time, refuse, throw or time out; then expiry and abort once more.   *)
Hooks(accept) ==
    /\ wpc = "hooks"
    /\ wpc' = IF accept /\ ~aborted /\ ExpiresAt(chain) > now THEN "validated" ELSE "failed"
    /\ UNCHANGED <<vars, paths, request, effective>>

Validation == Validate /\ UNCHANGED wallet
Environment == (Tick \/ Abort) /\ wpc # "validated" /\ UNCHANGED wallet
Returned ==
    /\ wpc \in {"validated", "failed"} \/ (wpc = "none" /\ pc \in {"accepted", "rejected"})
    /\ UNCHANGED allVars

WalletStep ==
    \/ Validation \/ NextPath \/ BeginComplete \/ CheckRequest
    \/ \E answer \in BOOLEAN : PrepareRequest(answer) \/ VerifyRequest(answer) \/ Hooks(answer)

WalletNext == WalletStep \/ Environment \/ Returned

WalletSpec == WalletInit /\ [][WalletNext]_allVars
-----------------------------------------------------------------------------
(* A verdict that vouches for a chain: every statement of it was signed by *)
(* the entity it names as its issuer, although the caller knows only the   *)
(* anchor's keys, provided that entities tell the truth about their        *)
(* subordinates' keys (validate.ts, 986-1064: each link is checked on its  *)
(* own, with collected errors and awaits between them).                    *)
ChainAuthentic ==
    pc \in {"prepared", "accepted"} /\ mode # "publication" =>
        \A i \in DOMAIN chain : chain[i].key = KeyOf[chain[i].iss]

(* Where trust marks were evaluated, each of them comes from the issuer it *)
(* names, and from one the type's owner chose if the anchor names an owner *)
(* (validateTrustMark and validateDelegation).                             *)
MarksAuthentic ==
    pc = "accepted" /\ mode \in {"validate", "complete"} =>
        \A i \in DOMAIN chain[1].marks :
            LET mark == chain[1].marks[i]
                owner == chain[Len(chain)].markOwners[mark.type]
            IN  /\ mark.key = KeyOf[mark.iss] /\ mark.sub = chain[1].sub
                /\ owner.sub # "none" => /\ mark.delegation.key = KeyOf[owner.sub]
                                         /\ mark.delegation.sub = mark.iss

(* When a chain is accepted, what every superior demands of every          *)
(* parameter holds of the resolved metadata: a policy put off by the       *)
(* preparation is settled by the completion.                               *)
PoliciesSettled ==
    pc = "accepted" /\ mode # "publication" =>
        \A i \in 2..Len(chain) : \A p \in DOMAIN chain[i].policy :
            \A o \in DOMAIN chain[i].policy[p] \cap Standard :
                Obeys(meta[p], o, chain[i].policy[p][o])

(* The completion confirms the preparation: same types, and the same value *)
(* for every parameter that was not pending ("contextual values cannot     *)
(* replace published metadata", validate.ts, line 508).                    *)
PreparationStands ==
    pc = "accepted" /\ mode = "complete" =>
        /\ types = prepared.types
        /\ \A p \in Params \ prepared.pending : meta[p] = prepared.meta[p]

(* The queries of a validated request follow the rule of the wallet guide  *)
(* (docs/packages/wallet.md, line 170): a superior's list first, then the  *)
(* published one, then the policy's view of client_metadata, and only then *)
(* the request; and they come from a chain that has not expired.  What is  *)
(* published for an entity type that a constraint removed does not count,  *)
(* even when a policy brings the type back (apply.ts, line 43).            *)
QueriesJustified ==
    wpc = "validated" =>
        LET allowed == Verifier \in AllowedTypes(chain)
            published == IF allowed THEN Published(chain)[Queries] ELSE Absent
            policed == Queries \in PolicyParams(chain)
            basis == IF allowed /\ policed /\ published = Absent THEN request.clientQuery ELSE published
            value == IF policed THEN Applied(MergedPolicy(chain, Queries).ops, basis, IsScope(Queries))
                     ELSE basis
        IN  /\ value # Failure /\ now < ExpiresAt(chain)
            /\ effective = IF value = Absent THEN request.query ELSE value
=============================================================================
