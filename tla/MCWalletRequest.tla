--------------------------- MODULE MCWalletRequest ---------------------------
(* WalletRequest for TLC: a verifier below an intermediate below an anchor, *)
(* and a mark issuer.  Families of chains vary one concern each.            *)
EXTENDS WalletRequest, TLC

CONSTANTS x, y

VQ == <<"verifier", "queries">>
VK == <<"verifier", "jwks">>
MCParams == {VQ, VK, <<"other", "name">>}
NoOwner == [sub |-> "none", keys |-> {}]
MCDeferred == {VQ}
MCKeyOf == [e \in {"rp", "int", "ta", "tmi"} |-> "k_" \o e]
MCAnchorKeys == [e \in {"ta"} |-> {"k_ta"}]
MCMarkIssuerKeys == [e \in {"rp", "int", "ta", "tmi"} |-> IF e = "tmi" THEN {"k_tmi"} ELSE {}]

Meta(queries) == [p \in MCParams |-> IF p = VQ THEN queries
                                     ELSE IF p = VK THEN Scalar(x) ELSE Absent]
Nothing == [p \in MCParams |-> Absent]

Statement(iss, sub) ==
    [decodes |-> TRUE, wellFormed |-> TRUE, iss |-> iss, sub |-> sub,
     key |-> "k_" \o iss, jwks |-> {"k_" \o sub}, iat |-> 0, exp |-> 4,
     hints |-> {}, policy |-> <<>>, metadata |-> Nothing, types |-> {}, constraints |-> <<>>,
     marks |-> <<>>, aud |-> "none", markIssuers |-> <<>>, markOwners |-> [t \in {"tm"} |-> NoOwner]]

Leaf == [Statement("rp", "rp") EXCEPT !.hints = {"int"}, !.metadata = Meta(Absent),
                                      !.types = {"verifier", "federation"}]
OverLeaf == Statement("int", "rp")
OverInt == Statement("ta", "int")
Anchor == Statement("ta", "ta")
Plain == <<Leaf, OverLeaf, OverInt, Anchor>>

(* An impostor signs with its own key and names the keys it likes.          *)
Forms(s) == {s} \cup {[s EXCEPT !.key = "rogue", !.jwks = j] : j \in {{"rogue"}, s.jwks}}
Forged ==
    {<<l, a, b, t>> : l \in Forms(Leaf), a \in Forms(OverLeaf), b \in Forms(OverInt), t \in Forms(Anchor)}
    \cup {<<l, a, b>> : l \in Forms(Leaf), a \in Forms(OverLeaf), b \in Forms(OverInt)}
    \cup {<<l, a>> : l \in Forms(Leaf), a \in Forms(Statement("ta", "rp")) \cup Forms(OverLeaf)}
    \cup {<<Leaf, OverInt>>, <<Leaf, OverLeaf, Anchor>>, <<Anchor>>, <<Leaf>>, <<>>,
          [Plain EXCEPT ![2].decodes = FALSE], [Plain EXCEPT ![3].wellFormed = FALSE],
          [Plain EXCEPT ![1].aud = "op"], [Plain EXCEPT ![1].aud = "rp"], [Plain EXCEPT ![2].aud = "op"],
          <<[Leaf EXCEPT !.hints = {"ta"}], OverLeaf, OverInt, Anchor>>}

(* Statements that run out while the call is under way.                     *)
Timed ==
    {<<[Leaf EXCEPT !.exp = e], [OverLeaf EXCEPT !.exp = f], [OverInt EXCEPT !.iat = i], Anchor>> :
        e \in 1..2, f \in 2..3, i \in {0, 2}}

Lists == {Arr({x}, 1), Arr({x, y}, 1)}
OnQueries ==
    {<<>>} \cup {[o \in {op} |-> v] : op \in {"value", "default", "subset_of", "add"}, v \in Lists}
    \cup {[o \in {"essential"} |-> True]}
Policy(ops) == IF ops = <<>> THEN <<>> ELSE [p \in {VQ} |-> ops]
Policed ==
    {<<[Leaf EXCEPT !.metadata = Meta(own)],
       [OverLeaf EXCEPT !.metadata = [Nothing EXCEPT ![VQ] = set], !.policy = Policy(low)],
       [OverInt EXCEPT !.policy = Policy(high)]>> :
        own \in {Absent, Arr({x}, 1)}, set \in {Absent, Arr({y}, 1)}, low, high \in OnQueries}
    \cup {[Plain EXCEPT ![1].types = {"federation"}, ![1].metadata = Nothing,
                        ![3].policy = [p \in {VK} |-> [o \in {"add"} |-> Arr({x}, 1)]]]}

Constrained ==
    {[Plain EXCEPT ![2].constraints = c, ![3].constraints = d] :
        c, d \in {<<>>} \cup {<<[maxPath |-> n, excluded |-> ex, permitted |-> {"rp", "int"}, allowed |-> al]>> :
                              n \in 0..1, ex \in {{}, {"rp"}}, al \in {{"verifier"}, {"other"}}}}

(* A type that the constraints remove and a policy brings back.             *)
Returning ==
    {[Plain EXCEPT ![1].metadata = Meta(Arr({x}, 1)),
                   ![2].constraints = <<[maxPath |-> 0, excluded |-> {}, permitted |-> {"rp"}, allowed |-> {"other"}]>>,
                   ![3].policy = [p \in ps |-> [o \in {"add"} |-> Arr({y}, 1)]]] : ps \in {{VK}, {VK, VQ}}}

Delegation(iss, key) == [iss |-> iss, sub |-> "tmi", type |-> "tm", key |-> key, iat |-> 0, exp |-> 4]
Mark(iss, key, d) == [type |-> "tm", iss |-> iss, sub |-> "rp", key |-> key, iat |-> 0, exp |-> 2, delegation |-> d]
Marked ==
    {[Plain EXCEPT ![1].marks = <<Mark(iss, key, Delegation(by, dkey))>>,
                   ![4].markIssuers = [t \in {"tm"} |-> issuers],
                   ![4].markOwners = [t \in {"tm"} |-> owner]] :
        iss \in {"tmi", "ta"}, key \in {"k_tmi", "k_ta", "rogue"}, by \in {"none", "int"}, dkey \in {"k_int", "rogue"},
        issuers \in {{}, {"tmi"}}, owner \in {NoOwner, [sub |-> "int", keys |-> {"k_int"}]}}

MCChains == Forged \cup Timed \cup Policed \cup Returning \cup Constrained \cup Marked
Detour == <<Leaf, OverLeaf, OverInt, [Anchor EXCEPT !.key = "rogue"]>>
MCCandidates == {<<c>> : c \in Timed \cup Policed \cup Returning} \cup {<<Detour, Plain>>, <<Plain, Detour>>, <<Detour>>}

Asked == [client |-> "rp", registered |-> TRUE, sameAsInline |-> TRUE, wellFormed |-> TRUE,
          clientQuery |-> Absent, query |-> Arr({x, y}, 1), endpointsOK |-> TRUE]
MCRequests ==
    {Asked, [Asked EXCEPT !.clientQuery = Arr({x}, 1)], [Asked EXCEPT !.clientQuery = Arr({y}, 1)],
     [Asked EXCEPT !.query = Absent], [Asked EXCEPT !.registered = FALSE],
     [Asked EXCEPT !.sameAsInline = FALSE], [Asked EXCEPT !.client = "int"]}
=============================================================================
