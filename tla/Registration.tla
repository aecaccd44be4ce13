---------------------------- MODULE Registration ----------------------------
(***************************************************************************)
(* Registration of a Relying Party at an OpenID Provider (packages/oidc/   *)
(* src): explicitRegistration and automaticRegistration of the RP, the     *)
(* explicit registration handler and processAutomaticRegistration of the   *)
(* OP with its hooks, composed with the one-time use of ReplayProtection.  *)
(*                                                                         *)
(* `now' is the OP's clock.  Several calls of the RP, requests of other    *)
(* implementations and automatic requests reach the OP at the same time;   *)
(* an answer may be late or lost.                                          *)
(***************************************************************************)
EXTENDS ReplayProtection, SequencesExt

CONSTANTS
    None,
    Calls,           \* registration calls of the RP, and posts of others
    Workloads,       \* records: `calls' (call -> its type, whether it includes
                     \* the peer chain, and the post of a foreign one),
                     \* `arrivals' (request -> its message or None), `drift' (how
                     \* far the RP's clock is ahead of the OP's) and `keys' (the
                     \* federation keys the OP signs with, in turn)
    RpChains,        \* the chains above the RP
    OpChains,        \* the chains above the OP
    RpAnchors,       \* Trust Anchors the RP is configured with
    OpAnchors,       \* Trust Anchors the OP is configured with
    ResponseTtl,     \* registrationResponseTtlSeconds
    RequestTtl,      \* entityConfigurationTtlSeconds
    ObjectTtl,       \* requestObjectTtlSeconds
    ForeignObjects   \* Request Objects of other implementations, no headers

VARIABLES
    work,      \* the workload
    opKey,     \* the OP's signing key, which its superior publishes
    call,      \* call -> the RP's side of it
    post,      \* call -> the OP's handling of its request
    object,    \* Request Object -> its trust_chain and peer_trust_chain
    auto,      \* request -> the chain its Request Object was accepted on
    hooked,    \* request -> what became of onRegistration: "no", "done", "failed"
    record,    \* the OP's record of the client: the call or request it is from
    holder     \* the call whose registration the RP accepted last
reg == <<work, opKey, call, post, object, auto, hooked, record, holder>>
allVars == <<vars, reg>>

RpNow == now + work.drift

ASSUME ChainAssumption ==
    /\ IsFiniteSet(RpChains) /\ IsFiniteSet(OpChains)
    /\ \A ch \in RpChains \cup OpChains : ch.len \in Nat /\ ch.exp \in Int
ASSUME TtlAssumption == ResponseTtl \in Nat /\ RequestTtl \in Nat

Posted(form, chain, peer, until) ==
    [pc |-> "received", form |-> form, chain |-> chain, peer |-> peer,
     until |-> until, best |-> None, exp |-> 0, key |-> 0]

Posts ==
    [pc : {"received", "refused", "chained", "trusted", "prepared", "invalidated",
           "registered", "failed", "processed"},
     form : {"header", "body", "none"}, chain : RpChains \cup {None},
     peer : OpChains \cup {None}, until : Int, best : RpChains \cup {None},
     exp : Int, key : Nat]

(* Only a foreign call is posted to begin with, and a form with a chain    *)
(* carries one.                                                            *)
ASSUME WorkloadAssumption ==
    /\ None \notin Posts
    /\ \A w \in Workloads :
        /\ w.drift \in Int /\ w.keys \in Nat
        /\ \A c \in Calls : LET p == w.calls[c].post IN
            p # None =>
                /\ w.calls[c].type = "foreign" /\ p \in Posts /\ p.pc = "received"
                /\ p.form # "none" => p.chain \in RpChains

RegistrationInit ==
    /\ Init
    /\ work \in Workloads /\ opKey = 1
    /\ \A r \in Requests :
        message[r] = IF work.arrivals[r] = None THEN CHOOSE m \in Messages : TRUE
                     ELSE work.arrivals[r]
    /\ call = [c \in Calls |->
                 [pc |-> IF work.calls[c].type = "foreign" THEN "none" ELSE "idle",
                  op |-> None, rp |-> None, peer |-> None, key |-> 0]]
    /\ post = [c \in Calls |-> work.calls[c].post]
    /\ object = [m \in Messages |->
                   IF m \in ForeignObjects THEN [chain |-> None, peer |-> None] ELSE None]
    /\ auto = [r \in Requests |-> None] /\ hooked = [r \in Requests |-> "no"]
    /\ record = None /\ holder = None
----------------------------------------------------------------------------
(* validateTrustChain, as far as the parties may disagree on it: the       *)
(* anchor must be configured, and expiry allows for the skew.              *)
ValidAt(ch, anchors, at) == ch.anchor \in anchors /\ at < ch.exp + Skew

(* What resolveTrustChains followed by validateTrustChain may leave: any   *)
(* of the valid chains, in any order.                                      *)
Resolved(chains, anchors, at) ==
    UNION {SetToSeqs(s) : s \in SUBSET {ch \in chains : ValidAt(ch, anchors, at)}}

(* shortestChain and shortestRegistrationChain: a stable sort of the       *)
(* chains at some places of a sequence, and the first of them.             *)
ShortestAt(s, places) ==
    s[CHOOSE i \in places : \A j \in places :
        s[i].len < s[j].len \/ (s[i].len = s[j].len /\ i <= j)]
Shortest(s) == ShortestAt(s, DOMAIN s)

(* The places of the chains that end at the anchor.                        *)
Ending(s, anchor) == {i \in DOMAIN s : s[i].anchor = anchor}

WantsPeer(c) == work.calls[c].peer
Offered(c) == work.calls[c].type \in call[c].op.offers

(* discoverEntity, by the role or earlier by the application, which then   *)
(* passes the DiscoveryResult to the registration.                         *)
Discover(c) ==
    /\ call[c].pc = "idle"
    /\ \E ch \in OpChains :
        /\ ValidAt(ch, RpAnchors, RpNow)
        /\ call' = [call EXCEPT ![c].pc = "discovered", ![c].op = ch, ![c].key = opKey]
    /\ UNCHANGED <<vars, work, opKey, post, object, auto, hooked, record, holder>>

(* Mutant: the OP's chain need not end where the RP's does.                *)
SelectSharedAnyAnchor(c, rps, ops) ==
    /\ call[c].pc = "discovered"
    /\ call' = IF rps = <<>> THEN [call EXCEPT ![c].pc = "refused"]
               ELSE [call EXCEPT ![c].pc = "selected", ![c].rp = Shortest(rps)]
    /\ UNCHANGED <<vars, work, opKey, post, object, auto, hooked, record, holder>>

(* selectSharedRegistrationTrustChains: the shortest of the RP's chains    *)
(* that end at the anchor of the discovered OP chain; if there is none the *)
(* first RP chain that an OP chain resolved for the purpose matches.       *)
SelectShared(c, rps, ops) ==
    LET preferred == Ending(rps, call[c].op.anchor)
        matched == {i \in DOMAIN rps : Ending(ops, rps[i].anchor) # {}}
        first == rps[Min(matched)]
    IN  /\ call[c].pc = "discovered"
        /\ call' =
             IF preferred # {}
             THEN [call EXCEPT ![c].pc = "selected", ![c].rp = ShortestAt(rps, preferred)]
             ELSE IF matched # {}
             THEN [call EXCEPT ![c].pc = "selected", ![c].rp = first, ![c].key = opKey,
                               ![c].op = ShortestAt(ops, Ending(ops, first.anchor))]
             ELSE [call EXCEPT ![c].pc = "refused"]
        /\ UNCHANGED <<vars, work, opKey, post, object, auto, hooked, record, holder>>

(* resolveTrustChainForAnchor: any valid chain of the OP to the anchor.    *)
PeerFound(c, peer) ==
    IF WantsPeer(c)
    THEN peer \in {ch \in OpChains : ValidAt(ch, RpAnchors, RpNow) /\ ch.anchor = call[c].rp.anchor}
    ELSE peer = None

(* The registration type is not offered, or no peer chain is found.        *)
Unable(c) ==
    /\ call[c].pc = "selected"
    /\ ~Offered(c) \/ WantsPeer(c)
    /\ call' = [call EXCEPT ![c].pc = "refused"]
    /\ UNCHANGED <<vars, work, opKey, post, object, auto, hooked, record, holder>>

(* explicitRegistration sends its Entity Configuration with the selected   *)
(* chain, and the peer chain if so configured, in the header.              *)
SendRequest(c, peer) ==
    /\ call[c].pc = "selected" /\ work.calls[c].type = "explicit"
    /\ Offered(c) /\ PeerFound(c, peer)
    /\ call' = [call EXCEPT ![c].pc = "sent", ![c].peer = peer]
    /\ post' = [post EXCEPT ![c] = Posted("header", call[c].rp, peer, RpNow + RequestTtl)]
    /\ UNCHANGED <<vars, work, opKey, object, auto, hooked, record, holder>>

(* requestDelivery.  With PAR the object is pushed first, and the answer   *)
(* may be bad: the object is out although the call fails.                  *)
Delivery(published, pushed) == IF published /\ pushed THEN "delivered" ELSE "refused"

(* automaticRegistration: the Request Object that expires ObjectTtl from   *)
(* now, whose signer must be published, is handed to the user agent.       *)
CreateObject(c, peer, m, published, pushed) ==
    /\ call[c].pc = "selected" /\ work.calls[c].type = "automatic"
    /\ Offered(c) /\ PeerFound(c, peer)
    /\ object[m] = None /\ kind[m] = "requestObject" /\ exp[m] = RpNow + ObjectTtl
    /\ call' = [call EXCEPT ![c].pc = Delivery(published, pushed),
                            ![c].peer = peer]
    /\ object' = IF published
                 THEN [object EXCEPT ![m] = [chain |-> call[c].rp, peer |-> peer]] ELSE object
    /\ UNCHANGED <<vars, work, opKey, post, auto, hooked, record, holder>>
----------------------------------------------------------------------------
OpValid(ch) == ValidAt(ch, OpAnchors, now)

(* The handler's checks of the request before any chain: the self-signed   *)
(* Entity Configuration is within its time, a chain in the body comes      *)
(* without a peer chain, and header chains end at one anchor.              *)
RequestOK(p) ==
    /\ now < p.until + Skew
    /\ p.form = "body" => p.peer = None
    /\ p.form = "header" /\ p.peer # None => p.peer.anchor = p.chain.anchor

(* Mutant: the handler resolves a chain of its own.                        *)
OpCheckResolves(c, found) ==
    /\ post[c] # None /\ post[c].pc = "received"
    /\ LET p == post[c]
       IN  post' = [post EXCEPT ![c] =
               IF RequestOK(p) /\ found # <<>>
               THEN [p EXCEPT !.pc = "chained", !.best = Shortest(found)]
               ELSE [p EXCEPT !.pc = "refused"]]
    /\ UNCHANGED <<vars, work, opKey, call, object, auto, hooked, record, holder>>

(* The chain the OP goes by: the body's, else the header's, which must be  *)
(* valid, else the shortest of those it resolves.                          *)
OpCheck(c, found) ==
    /\ post[c] # None /\ post[c].pc = "received"
    /\ LET p == post[c]
           usable == IF p.form = "none" THEN found # <<>> ELSE OpValid(p.chain)
       IN  post' = [post EXCEPT ![c] =
               IF RequestOK(p) /\ usable
               THEN [p EXCEPT !.pc = "chained",
                              !.best = IF p.form = "none" THEN Shortest(found) ELSE p.chain]
               ELSE [p EXCEPT !.pc = "refused"]]
    /\ UNCHANGED <<vars, work, opKey, call, object, auto, hooked, record, holder>>

(* processExplicitRegistration, for hosts with an endpoint of their own:   *)
(* the same chain, no peer chain, no hooks and no response.  (Its refusal  *)
(* of an iat ahead of the OP's clock and skew, process-explicit.ts, 105,   *)
(* is left out: the requests of the model were issued before they arrive.) *)
ProcessExplicit(c, found) ==
    /\ call[c].pc = "none" /\ post[c] # None /\ post[c].pc = "received"
    /\ LET p == post[c]
           usable == IF p.form = "none" THEN found # <<>> ELSE OpValid(p.chain)
       IN  post' = [post EXCEPT ![c] =
               IF now < p.until + Skew /\ usable
               THEN [p EXCEPT !.pc = "processed",
                              !.best = IF p.form = "none" THEN Shortest(found) ELSE p.chain]
               ELSE [p EXCEPT !.pc = "refused"]]
    /\ UNCHANGED <<vars, work, opKey, call, object, auto, hooked, record, holder>>

(* The peer chain is validated and ends at the anchor of the OP's choice.  *)
PeerOK(peer, best) == peer # None => OpValid(peer) /\ peer.anchor = best.anchor

(* Mutant: the prior registration is invalidated as soon as the chain is   *)
(* known, before the peer chain and the metadata are checked.              *)
OpPeerInvalidates(c) ==
    /\ post[c] # None /\ post[c].pc = "chained"
    /\ post' = [post EXCEPT ![c].pc =
                  IF PeerOK(post[c].peer, post[c].best) THEN "trusted" ELSE "refused"]
    /\ record' = None
    /\ UNCHANGED <<vars, work, opKey, call, object, auto, hooked, holder>>

OpPeer(c) ==
    /\ post[c] # None /\ post[c].pc = "chained"
    /\ post' = [post EXCEPT ![c].pc =
                  IF PeerOK(post[c].peer, post[c].best) THEN "trusted" ELSE "refused"]
    /\ UNCHANGED <<vars, work, opKey, call, object, auto, hooked, record, holder>>

(* The registration ends with the chain at the latest.                     *)
ResponseExp(best) ==
    IF best.exp < now + ResponseTtl THEN best.exp ELSE now + ResponseTtl

(* The adapter accepts the metadata, and the response is prepared and      *)
(* signed with the key set read here.                                      *)
OpPrepare(c, ok) ==
    /\ post[c] # None /\ post[c].pc = "trusted"
    /\ post' = [post EXCEPT ![c] =
                  IF ok THEN [@ EXCEPT !.pc = "prepared", !.exp = ResponseExp(post[c].best), !.key = opKey]
                  ELSE [@ EXCEPT !.pc = "refused"]]
    /\ UNCHANGED <<vars, work, opKey, call, object, auto, hooked, record, holder>>

(* onRegistrationInvalidation: the host drops its record, or throws before *)
(* or after it did.                                                        *)
OpInvalidate(c, ok) ==
    /\ post[c] # None /\ post[c].pc = "prepared"
    /\ post' = [post EXCEPT ![c].pc = IF ok THEN "invalidated" ELSE "failed"]
    /\ record' = None \/ (~ok /\ record' = record)
    /\ UNCHANGED <<vars, work, opKey, call, object, auto, hooked, holder>>

(* onRegistration: the host keeps the client, or throws; then the answer   *)
(* goes out.                                                               *)
OpRegister(c, ok) ==
    /\ post[c] # None /\ post[c].pc = "invalidated"
    /\ post' = [post EXCEPT ![c].pc = IF ok THEN "registered" ELSE "failed"]
    /\ record' = IF ok THEN c ELSE record
    /\ UNCHANGED <<vars, work, opKey, call, object, auto, hooked, holder>>
----------------------------------------------------------------------------
(* What explicitRegistration demands of the answer.  Status 200, a key the *)
(* OP's superior published, and an exp ahead of its own clock, no skew.    *)
ResponseAuthentic(c) ==
    /\ post[c].pc = "registered" /\ post[c].key = call[c].key
    /\ RpNow < post[c].exp

(* The selected anchor, the RP's own superior, and the RP's chain as the   *)
(* limit of the registration.  The RP's checks of the registered metadata  *)
(* (explicit.ts, 374-483) are left out: the OP's adapter answers with the  *)
(* metadata it was asked for, and another OP's answer is not modelled.     *)
ResponseAgrees(c) ==
    LET best == post[c].best IN
    /\ best.anchor \in RpAnchors /\ best.anchor = call[c].rp.anchor
    /\ best.hint = call[c].rp.hint
    /\ post[c].exp <= call[c].rp.exp

ResponseOK(c) == ResponseAuthentic(c) /\ ResponseAgrees(c)

CheckResponse(c) ==
    /\ call[c].pc = "sent" /\ post[c].pc \in {"registered", "refused", "failed"}
    /\ call' = [call EXCEPT ![c].pc = IF ResponseOK(c) THEN "accepted" ELSE "refused"]
    /\ holder' = IF ResponseOK(c) THEN c ELSE holder
    /\ UNCHANGED <<vars, work, opKey, post, object, auto, hooked, record>>

(* The HTTP client rejects: the answer is lost, or comes too late.         *)
LoseResponse(c) ==
    /\ call[c].pc = "sent"
    /\ call' = [call EXCEPT ![c].pc = "lost"]
    /\ UNCHANGED <<vars, work, opKey, post, object, auto, hooked, record, holder>>
----------------------------------------------------------------------------
Ours(r) == kind[message[r]] = "requestObject"

(* A Request Object arrives, possibly more than once.                      *)
AutoReceive(r) ==
    /\ work.arrivals[r] # None /\ (Ours(r) => object[message[r]] # None)
    /\ Receive(r)
    /\ UNCHANGED reg

(* Its chain is validated or resolved, then its signature is verified with *)
(* the protocol keys of the resolved metadata.                             *)
AutoVerify(r, authentic, found) ==
    LET o == object[message[r]]
        header == Ours(r) /\ o.chain # None
        usable == IF header THEN OpValid(o.chain) ELSE Ours(r) => found # <<>>
    IN  /\ pc[r] = "checked"
        /\ Verify(r, authentic /\ usable)
        /\ auto' = IF Ours(r) /\ usable
                   THEN [auto EXCEPT ![r] = IF header THEN o.chain ELSE Shortest(found)]
                   ELSE auto
        /\ UNCHANGED <<work, opKey, call, post, object, hooked, record, holder>>

(* The peer chain is checked, and then the jti claimed.                    *)
AutoClaim(r, at) ==
    /\ IF Ours(r) /\ pc[r] = "verified" /\ ~PeerOK(object[message[r]].peer, auto[r])
       THEN Move(r, "verified", "refused") /\ UNCHANGED <<entries, now, message, claimedAt>>
       ELSE Claim(r, at)
    /\ UNCHANGED reg

(* The role's adapter and onRegistration, after the claim.                 *)
AutoHook(r, ok) ==
    /\ Ours(r) /\ pc[r] = "accepted" /\ hooked[r] = "no"
    /\ hooked' = [hooked EXCEPT ![r] = IF ok THEN "done" ELSE "failed"]
    /\ record' = IF ok THEN r ELSE record
    /\ UNCHANGED <<vars, work, opKey, call, post, object, auto, holder>>

(* The OP rolls its federation key over; its superior publishes the new.   *)
RollKey ==
    /\ opKey < work.keys /\ opKey' = opKey + 1
    /\ UNCHANGED <<vars, work, call, post, object, auto, hooked, record, holder>>

RegistrationNext ==
    \/ \E c \in Calls :
        \/ Discover(c) \/ Unable(c)
        \/ /\ call[c].pc = "discovered"
           /\ \E rps \in Resolved(RpChains, RpAnchors, RpNow),
                 ops \in Resolved(OpChains, RpAnchors, RpNow) : SelectShared(c, rps, ops)
        \/ \E peer \in OpChains \cup {None} : SendRequest(c, peer)
        \/ \E peer \in OpChains \cup {None}, m \in Messages, published, pushed \in BOOLEAN :
            CreateObject(c, peer, m, published, pushed)
        \/ /\ post[c] # None /\ post[c].pc = "received"
           /\ \E found \in Resolved(RpChains, OpAnchors, now) :
                OpCheck(c, found) \/ ProcessExplicit(c, found)
        \/ OpPeer(c)
        \/ \E ok \in BOOLEAN : OpPrepare(c, ok) \/ OpInvalidate(c, ok) \/ OpRegister(c, ok)
        \/ CheckResponse(c) \/ LoseResponse(c)
    \/ \E r \in Requests :
        \/ AutoReceive(r)
        \/ Withdraw(r) /\ UNCHANGED reg
        \/ /\ pc[r] = "checked"
           /\ \E authentic \in BOOLEAN, found \in Resolved(RpChains, OpAnchors, now) :
                AutoVerify(r, authentic, found)
        \/ \E at \in 0..MaxTime : AutoClaim(r, at)
        \/ \E ok \in BOOLEAN : AutoHook(r, ok)
    \/ RollKey
    \/ Tick /\ UNCHANGED reg

RegistrationSpec == RegistrationInit /\ [][RegistrationNext]_allVars
----------------------------------------------------------------------------
(* A registration both sides accept rests on one anchor: the RP's chain    *)
(* and its chain for the OP, the chain the OP went by and the peer chain   *)
(* all end at it, both sides have configured it, and the registration does *)
(* not outlive the chain (docs/guide/operator-responsibilities.md, line    *)
(* 80).  What processExplicitRegistration returns and what automatic       *)
(* registration hands to the hook rest on an anchor of the OP.             *)
MutualTrust ==
    /\ \A c \in Calls : call[c].pc = "accepted" =>
        LET anchor == post[c].best.anchor IN
        /\ anchor \in RpAnchors \cap OpAnchors
        /\ call[c].rp.anchor = anchor /\ call[c].op.anchor = anchor
        /\ call[c].peer # None => call[c].peer.anchor = anchor
        /\ post[c].exp <= post[c].best.exp
    /\ \A c \in Calls : post[c] # None /\ post[c].pc = "processed" =>
        post[c].best.anchor \in OpAnchors
    /\ \A r \in Requests : hooked[r] = "done" =>
        LET o == object[message[r]] IN
        /\ auto[r].anchor \in OpAnchors
        /\ o.chain # None => auto[r] = o.chain
        /\ o.peer # None => o.peer.anchor = auto[r].anchor

(* When the OP has registered the RP but the RP refuses the answer, the    *)
(* OP's key was rolled over since the RP read it, or the registration has  *)
(* ended by the RP's clock: the two sides never disagree on the chain, the *)
(* anchor or the lifetime, whatever the OP could resolve for itself.       *)
RefusalExplained ==
    \A c \in Calls :
        call[c].pc = "refused" /\ post[c] # None /\ post[c].pc = "registered" =>
            post[c].key # call[c].key \/ post[c].exp <= RpNow

(* The registration the RP holds is the OP's record until another request  *)
(* has passed all the OP's checks (packages/oidc/CHANGELOG.md, line 54:    *)
(* "invalidation hooks now run only after validation and response          *)
(* preparation"): a refused request disturbs nothing.                      *)
RecordsAgree ==
    holder # None /\ record # holder =>
        \/ \E c \in Calls \ {holder} :
            post[c] # None /\ post[c].pc \in {"invalidated", "registered", "failed"}
        \/ \E r \in Requests : hooked[r] = "done"
=============================================================================
