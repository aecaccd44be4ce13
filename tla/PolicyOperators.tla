-------------------------- MODULE PolicyOperators --------------------------
(***************************************************************************)
(* The seven standard metadata policy operators (core/src/metadata-policy/ *)
(* operators.ts), the merge of two policies for one parameter (merge.ts)   *)
(* and the application of a policy to a value (apply.ts).                  *)
(*                                                                         *)
(* A JSON value is a kind, its elements and, for an array, its spelling:   *)
(* arrays with the same elements in another order are equal to the set     *)
(* operations but not to deepEqual.  A string is a word, an element by     *)
(* itself; only one of the scope parameter has several words, or none.     *)
(*                                                                         *)
(* What a federation-defined operator does is the federation's code.  One  *)
(* that checks can only refuse more than is refused here, where it lets    *)
(* everything pass; one that modifies is not considered.                   *)
(***************************************************************************)
EXTENDS Naturals

CONSTANTS
    Strings,        \* string and number elements
    Objects,        \* object elements
    Spellings,      \* ways to write the same elements as an array
    CustomOperators \* federation-defined operators the caller supplied

Elements == Strings \cup Objects

Kinds == {"absent", "null", "false", "true", "string", "object", "array", "mixed"}
Values ==
    {v \in [kind : Kinds, items : SUBSET Elements, spelling : Spellings \cup {0}] :
        v.kind \in {"absent", "null", "false", "true"} => v.items = {} /\ v.spelling = 0}
Absent == [kind |-> "absent", items |-> {}, spelling |-> 0]
Null == [kind |-> "null", items |-> {}, spelling |-> 0]
False == [kind |-> "false", items |-> {}, spelling |-> 0]
True == [kind |-> "true", items |-> {}, spelling |-> 0]
Failure == [kind |-> "error", items |-> {}, spelling |-> 0]
Arr(S, n) == [kind |-> "array", items |-> S, spelling |-> n]
Scalar(e) == [kind |-> IF e \in Objects THEN "object" ELSE "string",
              items |-> {e}, spelling |-> 0]

Standard == {"value", "add", "default", "one_of", "subset_of", "superset_of", "essential"}
Lookup == Standard \cup CustomOperators

(* validateCustomOperators refuses names of standard operators.            *)
ASSUME OperatorAssumption ==
    /\ Strings \cap Objects = {} /\ Spellings \subseteq Nat \ {0}
    /\ CustomOperators \cap Standard = {}
----------------------------------------------------------------------------
(* operators.ts.  IsArray is Array.isArray, IsComparable isComparableArray *)
(* ("mixed" is an array that holds a Boolean, a null or an array).         *)
IsArray(v) == v.kind \in {"array", "mixed"}
IsComparable(v) == v.kind = "array"
IsValueOrDefault(v) == v.kind \in {"string", "true", "false"} \/ IsArray(v)

(* containsElement: a value that is one of the elements of an array.       *)
Among(v, list) == v.kind \in {"string", "object"} /\ \E e \in list.items : v.items = {e}

(* validateStandardPolicyOperatorConfiguration                             *)
ConfigOK(o, v) ==
    CASE o = "value" -> v = Null \/ IsValueOrDefault(v)
      [] o = "default" -> IsValueOrDefault(v)
      [] o = "essential" -> v \in {True, False}
      [] o \in {"add", "one_of", "subset_of", "superset_of"} -> IsComparable(v)
      [] OTHER -> TRUE

(* Mutant: a later subset_of replaces what a superior allowed.             *)
MergedValueLoosening(o, old, new) ==
    CASE o \in {"value", "default"} -> IF old = new THEN old ELSE Failure
      [] o \in {"add", "superset_of"} -> [old EXCEPT !.items = @ \cup new.items]
      [] o = "subset_of" -> new
      [] o = "one_of" -> IF old.items \cap new.items = {} THEN Failure
                         ELSE [old EXCEPT !.items = @ \cap new.items]
      [] o = "essential" -> IF old = True THEN True ELSE new
      [] OTHER -> old

(* The merge method of each operator: Failure where it refuses.            *)
MergedValue(o, old, new) ==
    CASE o \in {"value", "default"} -> IF old = new THEN old ELSE Failure
      [] o \in {"add", "superset_of"} -> [old EXCEPT !.items = @ \cup new.items]
      [] o = "subset_of" -> [old EXCEPT !.items = @ \cap new.items]
      [] o = "one_of" -> IF old.items \cap new.items = {} THEN Failure
                         ELSE [old EXCEPT !.items = @ \cap new.items]
      [] o = "essential" -> IF old = True THEN True ELSE new
      [] OTHER -> old

(* checkValueCombination: a value next to what another operator asks.      *)
ValueCombines(v, other, ov) ==
    CASE other \in {"add", "superset_of"} -> IsArray(v) /\ ov.items \subseteq v.items
      [] other = "subset_of" -> IsArray(v) /\ v.kind # "mixed" /\ v.items \subseteq ov.items
      [] other = "default" -> v # Null /\ v = ov
      [] other = "one_of" -> Among(v, ov)
      [] other = "essential" -> ~(v = Null /\ ov = True)
      [] OTHER -> FALSE

NeverAllowed == {{"add", "one_of"}, {"one_of", "subset_of"}, {"one_of", "superset_of"}}

(* Mutant: neither the floor of superset_of nor what add inserts is held   *)
(* against the ceiling of subset_of.                                       *)
CombinesLoosely(o, other, v, ov) ==
    IF o = other \/ {o, other} \in NeverAllowed THEN FALSE
    ELSE IF o = "value" THEN ValueCombines(v, other, ov)
    ELSE other = "value" => ValueCombines(ov, o, v)

(* canCombineWith, in either direction: o with v next to other with ov.    *)
(* A federation-defined operator combines with all but value.              *)
Combines(o, other, v, ov) ==
    IF o = other \/ {o, other} \in NeverAllowed THEN FALSE
    ELSE IF o = "value" THEN ValueCombines(v, other, ov)
    ELSE /\ other = "value" => ValueCombines(ov, o, v)
         /\ o \in {"add", "superset_of"} /\ other = "subset_of" => v.items \subseteq ov.items
         /\ o = "subset_of" /\ other \in {"add", "superset_of"} => ov.items \subseteq v.items

(* The apply methods, on the current value of a parameter: operators that  *)
(* set it, and operators that hold it against something.                   *)
Modified(o, v, ov) ==
    CASE o = "value" -> IF v # Absent /\ ~IsValueOrDefault(v) THEN Failure
                        ELSE IF ov = Null THEN Absent ELSE ov
      [] o = "add" -> IF v = Absent THEN ov
                      ELSE IF IsComparable(v) THEN [v EXCEPT !.items = @ \cup ov.items]
                      ELSE Failure
      [] o = "default" -> IF v = Absent THEN ov ELSE IF IsValueOrDefault(v) THEN v ELSE Failure

Checked(o, v, ov) ==
    CASE o = "one_of" -> IF v = Absent \/ Among(v, ov) THEN v ELSE Failure
      [] o = "subset_of" -> IF v = Absent THEN v
                            ELSE IF IsComparable(v) THEN [v EXCEPT !.items = @ \cap ov.items]
                            ELSE Failure
      [] o = "superset_of" -> IF v = Absent \/ (IsComparable(v) /\ ov.items \subseteq v.items)
                              THEN v ELSE Failure
      [] o = "essential" -> IF v = Null \/ (v = Absent /\ ov = True) THEN Failure ELSE v

AppliedOperator(o, v, ov) ==
    IF ~ConfigOK(o, ov) THEN Failure
    ELSE IF o \in {"value", "add", "default"} THEN Modified(o, v, ov)
    ELSE IF o \in Standard THEN Checked(o, v, ov)
    ELSE v
----------------------------------------------------------------------------
(* The body of resolveMetadataPolicy for one parameter of one statement:   *)
(* operators outside the lookup are skipped, each one's configuration is   *)
(* checked, operators present on both sides are merged, and all pairs of   *)
(* the result must combine.                                                *)
MergedParam(merged, policy) ==
    [o \in DOMAIN merged \cup (DOMAIN policy \cap Lookup) |->
        IF o \notin DOMAIN policy THEN merged[o]
        ELSE IF ~ConfigOK(o, policy[o]) THEN Failure
        ELSE IF o \in DOMAIN merged THEN MergedValue(o, merged[o], policy[o])
        ELSE policy[o]]

MergeFails(m) ==
    \/ \E o \in DOMAIN m : m[o] = Failure
    \/ \E o, other \in DOMAIN m : o # other /\ ~Combines(o, other, m[o], m[other])

(* One operator of sortedOps on what the one before it left; an error     *)
(* ends the loop.                                                          *)
Step(m, o, v) == IF v = Failure \/ o \notin DOMAIN m THEN v ELSE AppliedOperator(o, v, m[o])

(* Mutant: one_of runs before the operators that modify.                   *)
AppliedChecksFirst(m, v) ==
    Step(m, "essential", Step(m, "superset_of", Step(m, "subset_of",
        Step(m, "default", Step(m, "add", Step(m, "value", Step(m, "one_of", v)))))))

(* applyMetadataPolicy for one parameter: the operators by their order     *)
(* fields, 1 to 7.                                                         *)
AppliedInOrder(m, v) ==
    Step(m, "essential", Step(m, "superset_of", Step(m, "subset_of", Step(m, "one_of",
        Step(m, "default", Step(m, "add", Step(m, "value", v)))))))

(* normalizeScope and denormalizeScope: a scope that is a string when the  *)
(* operators begin is an array while they run, and a string again          *)
(* afterwards.  A string that an operator sets is not made an array.       *)
Applied(m, v, scope) ==
    IF ~(scope /\ v.kind = "string") THEN AppliedInOrder(m, v)
    ELSE LET r == AppliedInOrder(m, [v EXCEPT !.kind = "array"])
         IN  IF IsArray(r) THEN [r EXCEPT !.kind = "string"] ELSE r
----------------------------------------------------------------------------
(* The reference: what each operator of a single statement demands of the  *)
(* final value, whoever else had a say.                                    *)
Obeys(v, o, ov) ==
    CASE o = "value" -> IF ov = Null THEN v = Absent ELSE v.items = ov.items
      [] o = "add" -> v # Absent /\ ov.items \subseteq v.items
      [] o = "default" -> v # Absent
      [] o \in {"one_of", "subset_of"} -> v.items \subseteq ov.items
      [] o = "superset_of" -> v = Absent \/ ov.items \subseteq v.items
      [] o = "essential" -> ov = True => v # Absent
      [] OTHER -> TRUE
============================================================================
