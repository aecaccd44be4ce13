--------------------------- MODULE MetadataPolicy ---------------------------
(***************************************************************************)
(* The policies of a chain (core/src/metadata-policy): their merge over    *)
(* the Subordinate Statements, Trust Anchor first (resolveMetadataPolicy,  *)
(* merge.ts), and their application to the subject's metadata              *)
(* (applyMetadataPolicy, apply.ts).                                        *)
(*                                                                         *)
(* The loops of the code treat every parameter of every entity type by     *)
(* itself, except that one error ends them all; the state machine follows  *)
(* one parameter.                                                          *)
(***************************************************************************)
EXTENDS PolicyOperators, FiniteSets

CONSTANTS
    Statements,     \* parameter policies a Subordinate Statement may carry
    Critical,       \* metadata_policy_crit of the statements together
    Inputs,         \* what the subject publishes for the parameter
    MaxStatements   \* bound: Subordinate Statements of the chain

ASSUME PolicyAssumption ==
    /\ MaxStatements \in Nat /\ Inputs \subseteq Values
    /\ \A s \in Statements : \A o \in DOMAIN s : s[o] \in Values \ {Absent}

VARIABLES
    scope,      \* whether the parameter is "scope"
    merged,     \* mergedParam: operator name to merged value
    seen,       \* the policies merged so far (history)
    crit,       \* criticalOps: metadata_policy_crit of all statements
    phase,      \* "merging", "failed" or "applied"
    input,      \* the published value the policy was applied to
    result      \* what applyMetadataPolicy made of it
policyVars == <<scope, merged, seen, crit, phase, input, result>>

PolicyInit ==
    /\ scope \in BOOLEAN /\ crit \in Critical
    /\ merged = [o \in {} |-> Absent] /\ seen = {}
    /\ phase = IF crit \cap Standard # {} \/ ~(crit \subseteq Lookup) THEN "failed" ELSE "merging"
    /\ input = Absent /\ result = Absent

(* A scope consists of words; another parameter's string is one element.   *)
Suits(v) ==
    IF scope THEN v.items \subseteq Strings /\ v.kind # "mixed"
    ELSE v.kind = "string" => \E e \in Strings : v.items = {e}

(* One statement of the loop, from the Trust Anchor down.                  *)
MergeStatement(policy) ==
    /\ phase = "merging" /\ Cardinality(seen) < MaxStatements
    /\ \A o \in DOMAIN policy : Suits(policy[o])
    /\ LET m == MergedParam(merged, policy)
       IN  IF MergeFails(m)
           THEN phase' = "failed" /\ UNCHANGED <<merged, seen>>
           ELSE phase' = phase /\ merged' = m /\ seen' = seen \cup {policy}
    /\ UNCHANGED <<scope, crit, input, result>>

(* applyMetadataPolicy on the merged policy.                               *)
Apply(v) ==
    /\ phase = "merging" /\ Suits(v)
    /\ input' = v /\ result' = Applied(merged, v, scope)
    /\ phase' = IF Applied(merged, v, scope) = Failure THEN "failed" ELSE "applied"
    /\ UNCHANGED <<scope, merged, seen, crit>>

Next ==
    \/ \E policy \in Statements : MergeStatement(policy)
    \/ \E v \in Inputs : Apply(v)

Spec == PolicyInit /\ [][Next]_policyVars
----------------------------------------------------------------------------
(* Metadata that leaves applyMetadataPolicy meets the demands of every     *)
(* superior in the chain taken by itself: no subordinate's policy loosens  *)
(* what a superior set (resolveMetadataPolicy with operators.ts).          *)
SuperiorsObeyed ==
    phase = "applied" =>
        \A p \in seen : \A o \in DOMAIN p \cap Standard : Obeys(result, o, p[o])

(* The standard operators, in the order of their order fields, leave a     *)
(* value that all of them are content with: applying the policy to its own *)
(* result changes nothing, for a scope as for any other parameter, with    *)
(* one exception.  A scope that default supplies is a string while one_of  *)
(* looks at it, but the same string is an array when it is what the        *)
(* subject publishes (apply.ts, 56), and one_of refuses every array.       *)
ApplyIdempotent ==
    phase = "applied" /\ DOMAIN merged \subseteq Standard
        /\ (scope /\ "one_of" \in DOMAIN merged => "value" \in DOMAIN merged)
    => Applied(merged, result, scope) = result

(* What the statements ask together does not depend on the order in which  *)
(* they are merged: the last of two to arrive may as well be the first.    *)
(* (How a federation-defined operator merges is the federation's affair.)  *)
OrderIrrelevant ==
    phase = "merging" => \A p, q \in seen :
        LET pq == MergedParam(MergedParam([o \in {} |-> Absent], p), q)
            qp == MergedParam(MergedParam([o \in {} |-> Absent], q), p)
        IN  /\ MergeFails(pq) <=> MergeFails(qp)
            /\ \A o \in DOMAIN pq \cap Standard : pq[o].items = qp[o].items
=============================================================================
