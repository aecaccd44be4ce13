------------------------- MODULE WalletRequestProofs -------------------------
(***************************************************************************)
(* MetadataPolicy, TrustChainValidate and the wallet's use of them         *)
(* (WalletRequest).  First, what the merged policy lets through obeys      *)
(* every superior, applying it again changes nothing, and the order of the *)
(* merge does not matter, for any values, any policies and chains of any   *)
(* length.  Then, what a verdict vouches for, for every chain of any       *)
(* length, every policy, every order of awaits, aborts and clock readings. *)
(***************************************************************************)
EXTENDS WalletRequest, MetadataPolicy, TLAPS, FiniteSetTheorems, WellFoundedInduction

(* The merged value of an operator asks at least as much as a statement's. *)
Stricter(o, mv, sv) ==
    /\ o \in {"value", "default"} => mv = sv
    /\ o \in {"add", "superset_of"} => sv.items \subseteq mv.items
    /\ o \in {"one_of", "subset_of"} => mv.items \subseteq sv.items
    /\ o = "essential" /\ sv = True => mv = True

(* A policy that resolveMetadataPolicy lets pass.                          *)
Sound(m) ==
    /\ DOMAIN m \subseteq Lookup
    /\ \A o \in DOMAIN m : m[o] \in Values \ {Absent} /\ ConfigOK(o, m[o])
    /\ \A o, other \in DOMAIN m : o # other => Combines(o, other, m[o], m[other])

(* The merged policy stands for all the statements merged.                 *)
Merged ==
    /\ seen \subseteq Statements /\ Sound(merged)
    /\ \A p \in seen : \A o \in DOMAIN p \cap Lookup :
        /\ o \in DOMAIN merged /\ ConfigOK(o, p[o])
        /\ Stricter(o, merged[o], p[o])

AppliedOnce ==
    phase = "applied" => input \in Values /\ result = Applied(merged, input, scope) /\ result # Failure

PolicyInv == scope \in BOOLEAN /\ Merged /\ AppliedOnce
----------------------------------------------------------------------------
(* Values and the operators on them.                                       *)

Records == [kind : Kinds, items : SUBSET Elements, spelling : Spellings \cup {0}]

LEMMA ValueRecords ==
    ASSUME NEW v \in Values
    PROVE  v \in Records /\ v # Failure
BY DEF Values, Records, Kinds, Failure

(* An array that holds other elements is a value like it.                  *)
LEMMA OtherItems ==
    ASSUME NEW v \in Values, v.kind = "array", NEW S \in SUBSET Elements
    PROVE  LET w == [v EXCEPT !.items = S]
           IN  /\ w \in Values \ {Absent} /\ w # Failure /\ w.kind = "array"
               /\ w.items = S /\ (S = v.items => w = v)
<1>1. v \in Records
  BY ValueRecords
<1> DEFINE w == [v EXCEPT !.items = S]
<1>2. w \in Records /\ w.kind = "array" /\ w.items = S
  BY <1>1 DEF Records
<1>3. S = v.items => w = v
  BY <1>1 DEF Records
<1>4. w \in Values /\ w # Absent /\ w # Failure
  BY <1>2 DEF Values, Records, Absent, Failure
<1> QED
  BY <1>2, <1>3, <1>4

LEMMA ArrayFacts ==
    ASSUME NEW o \in {"add", "one_of", "subset_of", "superset_of"}, NEW v, ConfigOK(o, v)
    PROVE  v.kind = "array"
BY DEF ConfigOK, IsComparable

LEMMA MergedValueFacts ==
    ASSUME NEW o \in Lookup, NEW old \in Values \ {Absent}, NEW new \in Values \ {Absent},
           ConfigOK(o, old), ConfigOK(o, new), MergedValue(o, old, new) # Failure
    PROVE  LET mv == MergedValue(o, old, new)
           IN  /\ mv \in Values \ {Absent} /\ ConfigOK(o, mv)
               /\ Stricter(o, mv, old) /\ Stricter(o, mv, new)
<1> DEFINE mv == MergedValue(o, old, new)
<1>1. old \in Records /\ new \in Records
  BY ValueRecords
<1>2. CASE o \in {"value", "default"}
  <2>1. mv = old /\ old = new
    BY <1>2 DEF MergedValue
  <2> QED
    BY <1>2, <2>1 DEF Stricter
<1>3. CASE o \in {"add", "superset_of"}
  <2> DEFINE S == old.items \cup new.items
  <2>1. mv = [old EXCEPT !.items = S]
    BY <1>3 DEF MergedValue
  <2>2. S \in SUBSET Elements /\ old.kind = "array"
    BY <1>1, <1>3, ArrayFacts DEF Records
  <2>3. mv \in Values \ {Absent} /\ mv.kind = "array" /\ mv.items = S
    <3> HIDE DEF S, mv
    <3> QED
      BY <2>1, <2>2, OtherItems
  <2> HIDE DEF mv
  <2>4. ConfigOK(o, mv)
    BY <1>3, <2>3 DEF ConfigOK, IsComparable
  <2> QED
    BY <1>3, <2>3, <2>4 DEF Stricter, mv
<1>4. CASE o \in {"one_of", "subset_of"}
  <2> DEFINE S == old.items \cap new.items
  <2>1. mv = [old EXCEPT !.items = S]
    BY <1>4 DEF MergedValue
  <2>2. S \in SUBSET Elements /\ old.kind = "array"
    BY <1>1, <1>4, ArrayFacts DEF Records
  <2>3. mv \in Values \ {Absent} /\ mv.kind = "array" /\ mv.items = S
    <3> HIDE DEF S, mv
    <3> QED
      BY <2>1, <2>2, OtherItems
  <2> HIDE DEF mv
  <2>4. ConfigOK(o, mv)
    BY <1>4, <2>3 DEF ConfigOK, IsComparable
  <2> QED
    BY <1>4, <2>3, <2>4 DEF Stricter, mv
<1>5. CASE o = "essential"
  <2>1. mv = IF old = True THEN True ELSE new
    BY <1>5 DEF MergedValue
  <2> QED
    BY <1>5, <2>1 DEF Stricter
<1>6. CASE o \notin Standard
  <2>1. mv = old
    BY <1>6 DEF MergedValue, Standard
  <2> QED
    BY <1>6, <2>1 DEF Stricter, Standard
<1> QED
  BY <1>2, <1>3, <1>4, <1>5, <1>6 DEF Standard

LEMMA StricterTwice ==
    ASSUME NEW o, NEW a, NEW b, NEW c, Stricter(o, a, b), Stricter(o, b, c)
    PROVE  Stricter(o, a, c)
BY DEF Stricter

(* Merging a statement into a sound policy, when it succeeds, is sound and *)
(* stricter than both.                                                     *)
LEMMA MergeSound ==
    ASSUME NEW m, Sound(m), NEW p, \A o \in DOMAIN p : p[o] \in Values \ {Absent},
           ~MergeFails(MergedParam(m, p))
    PROVE  LET n == MergedParam(m, p)
           IN  /\ Sound(n)
               /\ \A o \in DOMAIN m : o \in DOMAIN n /\ Stricter(o, n[o], m[o])
               /\ \A o \in DOMAIN p \cap Lookup :
                   o \in DOMAIN n /\ ConfigOK(o, p[o]) /\ Stricter(o, n[o], p[o])
<1> DEFINE n == MergedParam(m, p)
<1>1. /\ DOMAIN n = DOMAIN m \cup (DOMAIN p \cap Lookup)
      /\ \A o \in DOMAIN n :
           n[o] = IF o \notin DOMAIN p THEN m[o]
                  ELSE IF ~ConfigOK(o, p[o]) THEN Failure
                  ELSE IF o \in DOMAIN m THEN MergedValue(o, m[o], p[o])
                  ELSE p[o]
  BY DEF MergedParam
<1>2. /\ \A o \in DOMAIN n : n[o] # Failure
      /\ \A o, other \in DOMAIN n : o # other => Combines(o, other, n[o], n[other])
  BY DEF MergeFails
<1>3. /\ DOMAIN m \subseteq Lookup
      /\ \A o \in DOMAIN m : m[o] \in Values \ {Absent} /\ ConfigOK(o, m[o])
  BY DEF Sound
<1>4. \A o \in DOMAIN p : p[o] \in Values \ {Absent}
  OBVIOUS
<1> HIDE DEF n
<1>5. ASSUME NEW o \in DOMAIN n
      PROVE  /\ n[o] \in Values \ {Absent} /\ ConfigOK(o, n[o])
             /\ o \in DOMAIN m => Stricter(o, n[o], m[o])
             /\ o \in DOMAIN p => ConfigOK(o, p[o]) /\ Stricter(o, n[o], p[o])
  <2>1. \A v : Stricter(o, v, v)
    BY DEF Stricter
  <2>2. CASE o \notin DOMAIN p
    BY <1>1, <1>3, <2>1, <2>2
  <2>3. CASE o \in DOMAIN p /\ o \notin DOMAIN m
    BY <1>1, <1>2, <1>4, <2>1, <2>3
  <2>4. CASE o \in DOMAIN p /\ o \in DOMAIN m
    <3>1. ConfigOK(o, p[o]) /\ n[o] = MergedValue(o, m[o], p[o])
      BY <1>1, <1>2, <2>4
    <3>2. MergedValue(o, m[o], p[o]) # Failure /\ o \in Lookup
      BY <1>1, <1>2, <1>3, <3>1
    <3> QED
      BY <1>3, <1>4, <2>4, <3>1, <3>2, MergedValueFacts
  <2> QED
    BY <2>2, <2>3, <2>4
<1>6. Sound(n)
  BY <1>1, <1>2, <1>3, <1>5 DEF Sound
<1> QED
  BY <1>1, <1>5, <1>6 DEF n
----------------------------------------------------------------------------
(* One operator after the other: what each leaves when it does not fail.   *)

LEMMA FailureStays == \A m, o : Step(m, o, Failure) = Failure
BY DEF Step

LEMMA StepAbsent == ASSUME NEW m, NEW o, NEW v, o \notin DOMAIN m PROVE Step(m, o, v) = v
BY DEF Step

LEMMA StepPresent ==
    ASSUME NEW m, Sound(m), NEW o \in DOMAIN m, NEW v \in Values
    PROVE  /\ o \in {"value", "add", "default"} => Step(m, o, v) = Modified(o, v, m[o])
           /\ o \in {"one_of", "subset_of", "superset_of", "essential"} =>
                Step(m, o, v) = Checked(o, v, m[o])
           /\ m[o] \in Values \ {Absent} /\ ConfigOK(o, m[o])
<1>1. v # Failure /\ m[o] \in Values \ {Absent} /\ ConfigOK(o, m[o])
  BY ValueRecords DEF Sound
<1>2. Step(m, o, v) = AppliedOperator(o, v, m[o])
  BY <1>1 DEF Step
<1> QED
  BY <1>1, <1>2 DEF AppliedOperator, Standard

LEMMA StepValue ==
    ASSUME NEW m, Sound(m), NEW v \in Values, Step(m, "value", v) # Failure
    PROVE  LET w == Step(m, "value", v)
           IN  /\ w \in Values
               /\ "value" \notin DOMAIN m => w = v
               /\ "value" \in DOMAIN m =>
                    w = IF m["value"] = Null THEN Absent ELSE m["value"]
<1>1. CASE "value" \notin DOMAIN m
  BY <1>1, StepAbsent
<1>2. CASE "value" \in DOMAIN m
  <2>1. /\ Step(m, "value", v) = Modified("value", v, m["value"])
        /\ m["value"] \in Values \ {Absent}
    BY <1>2, StepPresent
  <2>2. Step(m, "value", v) = IF m["value"] = Null THEN Absent ELSE m["value"]
    BY <2>1 DEF Modified
  <2>3. Absent \in Values
    BY DEF Absent, Values, Kinds
  <2> QED
    BY <1>2, <2>1, <2>2, <2>3
<1> QED
  BY <1>1, <1>2

LEMMA StepAdd ==
    ASSUME NEW m, Sound(m), NEW v \in Values, Step(m, "add", v) # Failure
    PROVE  LET w == Step(m, "add", v)
           IN  /\ w \in Values
               /\ "add" \notin DOMAIN m => w = v
               /\ "add" \in DOMAIN m =>
                    /\ w.kind = "array" /\ m["add"].items \subseteq w.items
                    /\ v = Absent \/ v.kind = "array"
                    /\ v.kind = "array" /\ m["add"].items \subseteq v.items => w = v
<1>1. CASE "add" \notin DOMAIN m
  BY <1>1, StepAbsent
<1>2. CASE "add" \in DOMAIN m
  <2> DEFINE a == m["add"]
             w == Step(m, "add", v)
             S == v.items \cup a.items
  <2>1. w = Modified("add", v, a) /\ a \in Values \ {Absent} /\ a.kind = "array"
    BY <1>2, StepPresent, ArrayFacts
  <2>2. CASE v = Absent
    <3>1. w = a
      BY <2>1, <2>2 DEF Modified
    <3> QED
      BY <1>2, <2>1, <2>2, <3>1 DEF Absent
  <2>3. CASE v # Absent
    <3>1. v.kind = "array" /\ w = [v EXCEPT !.items = S]
      BY <2>1, <2>3 DEF Modified, IsComparable
    <3>2. S \in SUBSET Elements
      BY <2>1, ValueRecords DEF Records
    <3>3. /\ w \in Values /\ w.kind = "array" /\ w.items = S
          /\ S = v.items => w = v
      <4> HIDE DEF S, w
      <4> QED
        BY <3>1, <3>2, OtherItems
    <3> HIDE DEF w
    <3> QED
      BY <1>2, <3>1, <3>3 DEF w
  <2> QED
    BY <2>2, <2>3
<1> QED
  BY <1>1, <1>2

LEMMA StepDefault ==
    ASSUME NEW m, Sound(m), NEW v \in Values, Step(m, "default", v) # Failure
    PROVE  LET w == Step(m, "default", v)
           IN  /\ w \in Values
               /\ "default" \notin DOMAIN m \/ v # Absent => w = v
               /\ "default" \in DOMAIN m => w # Absent /\ IsValueOrDefault(w)
<1>1. CASE "default" \notin DOMAIN m
  BY <1>1, StepAbsent
<1>2. CASE "default" \in DOMAIN m
  <2>1. /\ Step(m, "default", v) = Modified("default", v, m["default"])
        /\ m["default"] \in Values \ {Absent} /\ ConfigOK("default", m["default"])
    BY <1>2, StepPresent
  <2>2. IsValueOrDefault(m["default"])
    BY <2>1 DEF ConfigOK
  <2>3. CASE v = Absent
    BY <1>2, <2>1, <2>2, <2>3 DEF Modified
  <2>4. CASE v # Absent
    BY <1>2, <2>1, <2>4 DEF Modified
  <2> QED
    BY <2>3, <2>4
<1> QED
  BY <1>1, <1>2

LEMMA StepOneOf ==
    ASSUME NEW m, Sound(m), NEW v \in Values, Step(m, "one_of", v) # Failure
    PROVE  /\ Step(m, "one_of", v) = v
           /\ "one_of" \in DOMAIN m =>
                \/ v = Absent
                \/ Among(v, m["one_of"])
<1>1. CASE "one_of" \notin DOMAIN m
  BY <1>1, StepAbsent
<1>2. CASE "one_of" \in DOMAIN m
  BY <1>2, StepPresent DEF Checked
<1> QED
  BY <1>1, <1>2

LEMMA StepSubsetOf ==
    ASSUME NEW m, Sound(m), NEW v \in Values, Step(m, "subset_of", v) # Failure
    PROVE  LET w == Step(m, "subset_of", v)
           IN  /\ w \in Values
               /\ "subset_of" \notin DOMAIN m \/ v = Absent => w = v
               /\ "subset_of" \in DOMAIN m /\ v # Absent =>
                    /\ v.kind = "array" /\ w.kind = "array"
                    /\ w.items = v.items \cap m["subset_of"].items
                    /\ v.items \subseteq m["subset_of"].items => w = v
<1>1. CASE "subset_of" \notin DOMAIN m
  BY <1>1, StepAbsent
<1>2. CASE "subset_of" \in DOMAIN m
  <2> DEFINE a == m["subset_of"]
             w == Step(m, "subset_of", v)
             S == v.items \cap a.items
  <2>1. w = Checked("subset_of", v, a) /\ a \in Values \ {Absent} /\ a.kind = "array"
    BY <1>2, StepPresent, ArrayFacts
  <2>2. CASE v = Absent
    BY <2>1, <2>2 DEF Checked
  <2>3. CASE v # Absent
    <3>1. v.kind = "array" /\ w = [v EXCEPT !.items = S]
      BY <2>1, <2>3 DEF Checked, IsComparable
    <3>2. S \in SUBSET Elements
      BY <2>1, ValueRecords DEF Records
    <3>3. /\ w \in Values /\ w.kind = "array" /\ w.items = S
          /\ S = v.items => w = v
      <4> HIDE DEF S, w
      <4> QED
        BY <3>1, <3>2, OtherItems
    <3> HIDE DEF w
    <3> QED
      BY <1>2, <2>3, <3>1, <3>3 DEF w
  <2> QED
    BY <2>2, <2>3
<1> QED
  BY <1>1, <1>2

LEMMA StepSupersetOf ==
    ASSUME NEW m, Sound(m), NEW v \in Values, Step(m, "superset_of", v) # Failure
    PROVE  /\ Step(m, "superset_of", v) = v
           /\ "superset_of" \in DOMAIN m =>
                v = Absent \/ (v.kind = "array" /\ m["superset_of"].items \subseteq v.items)
<1>1. CASE "superset_of" \notin DOMAIN m
  BY <1>1, StepAbsent
<1>2. CASE "superset_of" \in DOMAIN m
  BY <1>2, StepPresent DEF Checked, IsComparable
<1> QED
  BY <1>1, <1>2

LEMMA StepEssential ==
    ASSUME NEW m, Sound(m), NEW v \in Values, Step(m, "essential", v) # Failure
    PROVE  /\ Step(m, "essential", v) = v
           /\ "essential" \in DOMAIN m => v # Null /\ (m["essential"] = True => v # Absent)
<1>1. CASE "essential" \notin DOMAIN m
  BY <1>1, StepAbsent
<1>2. CASE "essential" \in DOMAIN m
  BY <1>2, StepPresent DEF Checked
<1> QED
  BY <1>1, <1>2
----------------------------------------------------------------------------
(* A value that every operator of a policy is content with.                *)
Fits(m, w) ==
    /\ "value" \in DOMAIN m => w = IF m["value"] = Null THEN Absent ELSE m["value"]
    /\ "add" \in DOMAIN m => w.kind = "array" /\ m["add"].items \subseteq w.items
    /\ "default" \in DOMAIN m => w # Absent /\ IsValueOrDefault(w)
    /\ "one_of" \in DOMAIN m =>
         w = Absent \/ Among(w, m["one_of"])
    /\ "subset_of" \in DOMAIN m =>
         w = Absent \/ (w.kind = "array" /\ w.items \subseteq m["subset_of"].items)
    /\ "superset_of" \in DOMAIN m =>
         w = Absent \/ (w.kind = "array" /\ m["superset_of"].items \subseteq w.items)
    /\ "essential" \in DOMAIN m => w # Null /\ (m["essential"] = True => w # Absent)

(* What canCombineWith has ruled out in a policy that sets a value.        *)
LEMMA ValueAmongOthers ==
    ASSUME NEW m, Sound(m), "value" \in DOMAIN m
    PROVE  LET v == m["value"]
           IN  /\ "add" \in DOMAIN m => IsArray(v) /\ m["add"].items \subseteq v.items
               /\ "default" \in DOMAIN m => v # Null
               /\ "subset_of" \in DOMAIN m =>
                    v.kind = "array" /\ v.items \subseteq m["subset_of"].items
               /\ "one_of" \in DOMAIN m => Among(v, m["one_of"])
               /\ "superset_of" \in DOMAIN m => IsArray(v)
               /\ v = Null \/ IsValueOrDefault(v)
<1>1. \A o \in DOMAIN m : o # "value" => ValueCombines(m["value"], o, m[o])
  <2> SUFFICES ASSUME NEW o \in DOMAIN m, o # "value" PROVE ValueCombines(m["value"], o, m[o])
    OBVIOUS
  <2>1. Combines("value", o, m["value"], m[o])
    BY DEF Sound
  <2> QED
    BY <2>1 DEF Combines
<1>2. "add" \in DOMAIN m => IsArray(m["value"]) /\ m["add"].items \subseteq m["value"].items
  BY <1>1 DEF ValueCombines
<1>3. "superset_of" \in DOMAIN m => IsArray(m["value"])
  BY <1>1 DEF ValueCombines
<1>4. "subset_of" \in DOMAIN m =>
        m["value"].kind = "array" /\ m["value"].items \subseteq m["subset_of"].items
  BY <1>1 DEF ValueCombines, IsArray
<1>5. "default" \in DOMAIN m => m["value"] # Null
  BY <1>1 DEF ValueCombines
<1>6. "one_of" \in DOMAIN m => Among(m["value"], m["one_of"])
  BY <1>1 DEF ValueCombines
<1>7. m["value"] = Null \/ IsValueOrDefault(m["value"])
  BY DEF Sound, ConfigOK
<1> QED
  BY <1>2, <1>3, <1>4, <1>5, <1>6, <1>7

(* What is added is within what subset_of leaves, and one_of stands alone. *)
LEMMA AddAmongOthers ==
    ASSUME NEW m, Sound(m), "add" \in DOMAIN m
    PROVE  /\ "subset_of" \in DOMAIN m => m["add"].items \subseteq m["subset_of"].items
           /\ "one_of" \notin DOMAIN m
<1>1. \A o \in DOMAIN m : o # "add" => Combines("add", o, m["add"], m[o])
  BY DEF Sound
<1>2. "subset_of" \in DOMAIN m => m["add"].items \subseteq m["subset_of"].items
  BY <1>1 DEF Combines
<1>3. "one_of" \notin DOMAIN m
  <2> SUFFICES ASSUME "one_of" \in DOMAIN m PROVE FALSE
    OBVIOUS
  <2>1. Combines("add", "one_of", m["add"], m["one_of"])
    BY <1>1
  <2> QED
    BY <2>1 DEF Combines, NeverAllowed
<1> QED
  BY <1>2, <1>3

(* What applyMetadataPolicy returns, every operator is content with: later *)
(* operators do not undo what earlier ones saw to.                         *)
LEMMA ResultFits ==
    ASSUME NEW m, Sound(m), NEW v \in Values, AppliedInOrder(m, v) # Failure
    PROVE  /\ AppliedInOrder(m, v) \in Values /\ Fits(m, AppliedInOrder(m, v))
           /\ "value" \notin DOMAIN m /\ v.kind = "array" =>
                AppliedInOrder(m, v).kind = "array"
<1> DEFINE v1 == Step(m, "value", v)
           v2 == Step(m, "add", v1)
           v3 == Step(m, "default", v2)
           v4 == Step(m, "one_of", v3)
           v5 == Step(m, "subset_of", v4)
           v6 == Step(m, "superset_of", v5)
           v7 == Step(m, "essential", v6)
<1>1. AppliedInOrder(m, v) = v7
  BY DEF AppliedInOrder
<1>2. /\ v7 # Failure /\ v6 # Failure /\ v5 # Failure /\ v4 # Failure
      /\ v3 # Failure /\ v2 # Failure /\ v1 # Failure
  <2>1. v7 # Failure
    BY <1>1
  <2> HIDE DEF v1
  <2>2. v6 # Failure
    <3> HIDE DEF v6
    <3> QED
      BY <2>1, FailureStays
  <2>3. v5 # Failure
    <3> HIDE DEF v5
    <3> QED
      BY <2>2, FailureStays
  <2>4. v4 # Failure
    <3> HIDE DEF v4
    <3> QED
      BY <2>3, FailureStays
  <2>5. v3 # Failure
    <3> HIDE DEF v3
    <3> QED
      BY <2>4, FailureStays
  <2>6. v2 # Failure
    <3> HIDE DEF v2
    <3> QED
      BY <2>5, FailureStays
  <2>7. v1 # Failure
    BY <2>6, FailureStays
  <2> QED
    BY <2>1, <2>2, <2>3, <2>4, <2>5, <2>6, <2>7
<1> HIDE DEF v1, v2, v3, v4, v5, v6, v7
<1>3. /\ v1 \in Values
      /\ "value" \notin DOMAIN m => v1 = v
      /\ "value" \in DOMAIN m => v1 = IF m["value"] = Null THEN Absent ELSE m["value"]
  BY <1>2, StepValue DEF v1
<1>4. /\ v2 \in Values
      /\ "add" \notin DOMAIN m => v2 = v1
      /\ "add" \in DOMAIN m =>
           /\ v2.kind = "array" /\ m["add"].items \subseteq v2.items
           /\ v1.kind = "array" /\ m["add"].items \subseteq v1.items => v2 = v1
           /\ v1 = Absent \/ v1.kind = "array"
  BY <1>2, <1>3, StepAdd DEF v2
<1>5. /\ v3 \in Values
      /\ "default" \notin DOMAIN m \/ v2 # Absent => v3 = v2
      /\ "default" \in DOMAIN m => v3 # Absent /\ IsValueOrDefault(v3)
  BY <1>2, <1>4, StepDefault DEF v3
<1>6. /\ v4 = v3
      /\ "one_of" \in DOMAIN m =>
           \/ v3 = Absent
           \/ Among(v3, m["one_of"])
  BY <1>2, <1>5, StepOneOf DEF v4
<1>7. /\ v5 \in Values
      /\ "subset_of" \notin DOMAIN m \/ v3 = Absent => v5 = v3
      /\ "subset_of" \in DOMAIN m /\ v3 # Absent =>
           /\ v3.kind = "array" /\ v5.kind = "array"
           /\ v5.items = v3.items \cap m["subset_of"].items
           /\ v3.items \subseteq m["subset_of"].items => v5 = v3
  BY <1>2, <1>5, <1>6, StepSubsetOf DEF v5
<1>8. /\ v6 = v5
      /\ "superset_of" \in DOMAIN m =>
           v5 = Absent \/ (v5.kind = "array" /\ m["superset_of"].items \subseteq v5.items)
  BY <1>2, <1>7, StepSupersetOf DEF v6
<1>9. /\ v7 = v5
      /\ "essential" \in DOMAIN m => v5 # Null /\ (m["essential"] = True => v5 # Absent)
  BY <1>2, <1>7, <1>8, StepEssential DEF v7
<1>10. Absent.kind = "absent" /\ Null.kind = "null" /\ Absent.items = {}
  BY DEF Absent, Null
<1>11. "value" \in DOMAIN m => v5 = IF m["value"] = Null THEN Absent ELSE m["value"]
  <2> SUFFICES ASSUME "value" \in DOMAIN m PROVE v5 = v1
    BY <1>3
  <2>1. CASE m["value"] = Null
    <3>1. /\ "add" \notin DOMAIN m /\ "default" \notin DOMAIN m /\ "subset_of" \notin DOMAIN m
      BY <1>10, <2>1, ValueAmongOthers DEF IsArray
    <3> QED
      BY <1>4, <1>5, <1>7, <3>1
  <2>2. CASE m["value"] # Null
    <3>1. v1 = m["value"] /\ v1 # Absent
      BY <1>3, <2>2 DEF Sound
    <3>2. v2 = v1
      BY <1>4, <3>1, ValueAmongOthers
    <3>3. v3 = v1
      BY <1>5, <3>1, <3>2
    <3>4. "subset_of" \in DOMAIN m => v3.items \subseteq m["subset_of"].items
      BY <3>1, <3>3, ValueAmongOthers
    <3> QED
      BY <1>7, <3>1, <3>3, <3>4
  <2> QED
    BY <2>1, <2>2
<1>12. "add" \in DOMAIN m => v5.kind = "array" /\ m["add"].items \subseteq v5.items
  <2> SUFFICES ASSUME "add" \in DOMAIN m
               PROVE  v5.kind = "array" /\ m["add"].items \subseteq v5.items
    OBVIOUS
  <2>1. v2 # Absent /\ v3 = v2
    BY <1>4, <1>5, <1>10
  <2>2. "subset_of" \in DOMAIN m => m["add"].items \subseteq m["subset_of"].items
    BY AddAmongOthers
  <2> QED
    BY <1>4, <1>7, <2>1, <2>2
<1>13. "default" \in DOMAIN m => v5 # Absent /\ IsValueOrDefault(v5)
  BY <1>5, <1>7, <1>10 DEF IsValueOrDefault, IsArray
<1>14. "one_of" \in DOMAIN m =>
         v5 = Absent \/ Among(v5, m["one_of"])
  BY <1>6, <1>7 DEF Among
<1>15. "subset_of" \in DOMAIN m =>
         v5 = Absent \/ (v5.kind = "array" /\ v5.items \subseteq m["subset_of"].items)
  BY <1>7
<1>16. Fits(m, v5)
  BY <1>8, <1>9, <1>11, <1>12, <1>13, <1>14, <1>15 DEF Fits
<1>17. "value" \notin DOMAIN m /\ v.kind = "array" => v5.kind = "array"
  <2> SUFFICES ASSUME "value" \notin DOMAIN m, v.kind = "array" PROVE v5.kind = "array"
    OBVIOUS
  <2>1. v2.kind = "array"
    BY <1>3, <1>4
  <2>2. v3 = v2 /\ v3 # Absent
    BY <1>5, <1>10, <2>1
  <2> QED
    BY <1>7, <2>1, <2>2
<1> QED
  BY <1>1, <1>7, <1>9, <1>16, <1>17

(* The operators leave such a value as it is.                              *)
LEMMA FitsFixed ==
    ASSUME NEW m, Sound(m), NEW w \in Values, Fits(m, w)
    PROVE  AppliedInOrder(m, w) = w
<1>0. Absent.kind = "absent" /\ Null.kind = "null"
  BY DEF Absent, Null
<1>1. Step(m, "value", w) = w
  <2>1. CASE "value" \notin DOMAIN m
    BY <2>1, StepAbsent
  <2>2. CASE "value" \in DOMAIN m
    <3>1. Step(m, "value", w) = Modified("value", w, m["value"])
      BY <2>2, StepPresent
    <3>2. m["value"] = Null \/ IsValueOrDefault(m["value"])
      BY <2>2, ValueAmongOthers
    <3>3. w = IF m["value"] = Null THEN Absent ELSE m["value"]
      BY <2>2 DEF Fits
    <3> QED
      BY <3>1, <3>2, <3>3 DEF Modified
  <2> QED
    BY <2>1, <2>2
<1>2. Step(m, "add", w) = w
  <2>1. CASE "add" \notin DOMAIN m
    BY <2>1, StepAbsent
  <2>2. CASE "add" \in DOMAIN m
    <3> DEFINE S == w.items \cup m["add"].items
    <3>1. w.kind = "array" /\ m["add"].items \subseteq w.items /\ w # Absent
      BY <1>0, <2>2 DEF Fits
    <3>2. Step(m, "add", w) = [w EXCEPT !.items = S]
      <4>1. Step(m, "add", w) = Modified("add", w, m["add"])
        BY <2>2, StepPresent
      <4> QED
        BY <3>1, <4>1 DEF Modified, IsComparable
    <3>3. S = w.items /\ S \in SUBSET Elements
      BY <3>1, ValueRecords DEF Records
    <3> HIDE DEF S
    <3> QED
      BY <3>1, <3>2, <3>3, OtherItems
  <2> QED
    BY <2>1, <2>2
<1>3. Step(m, "default", w) = w
  <2>1. CASE "default" \notin DOMAIN m
    BY <2>1, StepAbsent
  <2>2. CASE "default" \in DOMAIN m
    <3>1. Step(m, "default", w) = Modified("default", w, m["default"])
      BY <2>2, StepPresent
    <3> QED
      BY <2>2, <3>1 DEF Modified, Fits
  <2> QED
    BY <2>1, <2>2
<1>4. Step(m, "one_of", w) = w
  <2>1. CASE "one_of" \notin DOMAIN m
    BY <2>1, StepAbsent
  <2>2. CASE "one_of" \in DOMAIN m
    <3>1. Step(m, "one_of", w) = Checked("one_of", w, m["one_of"])
      BY <2>2, StepPresent
    <3> QED
      BY <2>2, <3>1 DEF Checked, Fits
  <2> QED
    BY <2>1, <2>2
<1>5. Step(m, "subset_of", w) = w
  <2>1. CASE "subset_of" \notin DOMAIN m
    BY <2>1, StepAbsent
  <2>2. CASE "subset_of" \in DOMAIN m
    <3> DEFINE S == w.items \cap m["subset_of"].items
    <3>1. Step(m, "subset_of", w) = Checked("subset_of", w, m["subset_of"])
      BY <2>2, StepPresent
    <3>2. CASE w = Absent
      BY <3>1, <3>2 DEF Checked
    <3>3. CASE w # Absent
      <4>1. w.kind = "array" /\ w.items \subseteq m["subset_of"].items
        BY <2>2, <3>3 DEF Fits
      <4>2. Step(m, "subset_of", w) = [w EXCEPT !.items = S]
        BY <3>1, <3>3, <4>1 DEF Checked, IsComparable
      <4>3. S = w.items /\ S \in SUBSET Elements
        BY <4>1, ValueRecords DEF Records
      <4> HIDE DEF S
      <4> QED
        BY <4>1, <4>2, <4>3, OtherItems
    <3> QED
      BY <3>2, <3>3
  <2> QED
    BY <2>1, <2>2
<1>6. Step(m, "superset_of", w) = w
  <2>1. CASE "superset_of" \notin DOMAIN m
    BY <2>1, StepAbsent
  <2>2. CASE "superset_of" \in DOMAIN m
    <3>1. Step(m, "superset_of", w) = Checked("superset_of", w, m["superset_of"])
      BY <2>2, StepPresent
    <3> QED
      BY <2>2, <3>1 DEF Checked, Fits, IsComparable
  <2> QED
    BY <2>1, <2>2
<1>7. Step(m, "essential", w) = w
  <2>1. CASE "essential" \notin DOMAIN m
    BY <2>1, StepAbsent
  <2>2. CASE "essential" \in DOMAIN m
    <3>1. Step(m, "essential", w) = Checked("essential", w, m["essential"])
      BY <2>2, StepPresent
    <3> QED
      BY <2>2, <3>1 DEF Checked, Fits
  <2> QED
    BY <2>1, <2>2
<1> QED
  BY <1>1, <1>2, <1>3, <1>4, <1>5, <1>6, <1>7 DEF AppliedInOrder

(* It obeys the policy, and with it every statement the policy is stricter *)
(* than.                                                                   *)
LEMMA FitsObeys ==
    ASSUME NEW m, Sound(m), NEW w \in Values, Fits(m, w), NEW o \in DOMAIN m \cap Standard
    PROVE  Obeys(w, o, m[o])
<1>0. Absent.kind = "absent" /\ Absent.items = {}
  BY DEF Absent
<1>1. CASE o = "value"
  BY <1>1 DEF Fits, Obeys
<1>2. CASE o = "add"
  BY <1>0, <1>2 DEF Fits, Obeys
<1>3. CASE o = "default"
  BY <1>3 DEF Fits, Obeys
<1>4. CASE o = "one_of"
  BY <1>0, <1>4 DEF Fits, Obeys, Among
<1>5. CASE o = "subset_of"
  BY <1>0, <1>5 DEF Fits, Obeys
<1>6. CASE o = "superset_of"
  BY <1>6 DEF Fits, Obeys
<1>7. CASE o = "essential"
  BY <1>7 DEF Fits, Obeys
<1> QED
  BY <1>1, <1>2, <1>3, <1>4, <1>5, <1>6, <1>7 DEF Standard

LEMMA ObeysLooser ==
    ASSUME NEW o \in Standard, NEW v, NEW mv, NEW sv, Stricter(o, mv, sv), Obeys(v, o, mv)
    PROVE  Obeys(v, o, sv)
<1>1. CASE o = "value"
  BY <1>1 DEF Stricter, Obeys
<1>2. CASE o = "add"
  BY <1>2 DEF Stricter, Obeys
<1>3. CASE o = "default"
  BY <1>3 DEF Stricter, Obeys
<1>4. CASE o = "one_of"
  BY <1>4 DEF Stricter, Obeys
<1>5. CASE o = "subset_of"
  BY <1>5 DEF Stricter, Obeys
<1>6. CASE o = "superset_of"
  BY <1>6 DEF Stricter, Obeys
<1>7. CASE o = "essential"
  BY <1>7 DEF Stricter, Obeys
<1> QED
  BY <1>1, <1>2, <1>3, <1>4, <1>5, <1>6, <1>7 DEF Standard
----------------------------------------------------------------------------
(* The scope parameter: an array while the operators run.                  *)

AsArray(v) == [v EXCEPT !.kind = "array"]
AsScope(v) == [v EXCEPT !.kind = "string"]

LEMMA Rewritten ==
    ASSUME NEW v \in Values, v.kind \in {"array", "mixed", "string"}
    PROVE  /\ AsArray(v) \in Values /\ AsArray(v).kind = "array" /\ AsArray(v).items = v.items
           /\ AsScope(v) \in Values /\ AsScope(v).kind = "string" /\ AsScope(v).items = v.items
           /\ AsArray(AsScope(v)) = AsArray(v) /\ AsScope(AsArray(v)) = AsScope(v)
           /\ v.kind = "array" => AsArray(v) = v
           /\ v.kind = "string" => AsScope(v) = v
<1>1. v \in Records
  BY ValueRecords
<1>2. /\ AsArray(v) \in Records /\ AsArray(v).kind = "array" /\ AsArray(v).items = v.items
      /\ v.kind = "array" => AsArray(v) = v
  BY <1>1 DEF AsArray, Records, Kinds
<1>3. /\ AsScope(v) \in Records /\ AsScope(v).kind = "string" /\ AsScope(v).items = v.items
      /\ v.kind = "string" => AsScope(v) = v
  BY <1>1 DEF AsScope, Records, Kinds
<1>4. AsArray(AsScope(v)) = AsArray(v) /\ AsScope(AsArray(v)) = AsScope(v)
  BY <1>1 DEF AsArray, AsScope, Records
<1>5. AsArray(v) \in Values /\ AsScope(v) \in Values
  BY <1>2, <1>3 DEF Values, Records
<1> QED
  BY <1>2, <1>3, <1>4, <1>5

LEMMA AppliedForms ==
    ASSUME NEW m, NEW v, NEW sc
    PROVE  /\ ~(sc /\ v.kind = "string") => Applied(m, v, sc) = AppliedInOrder(m, v)
           /\ sc /\ v.kind = "string" =>
                LET r == AppliedInOrder(m, AsArray(v))
                IN  Applied(m, v, sc) = IF IsArray(r) THEN AsScope(r) ELSE r
BY DEF Applied, AsArray, AsScope

(* The outcome of applyMetadataPolicy is a value that fits, or for a scope *)
(* an array that fits, written as a string again.                          *)
LEMMA AppliedFits ==
    ASSUME NEW m, Sound(m), NEW v \in Values, NEW sc \in BOOLEAN, Applied(m, v, sc) # Failure
    PROVE  \E a \in Values :
             /\ Fits(m, a)
             /\ \/ Applied(m, v, sc) = a
                \/ /\ sc /\ IsArray(a) /\ Applied(m, v, sc) = AsScope(a)
                   /\ "value" \notin DOMAIN m => a.kind = "array"
<1>1. CASE ~(sc /\ v.kind = "string")
  <2>1. Applied(m, v, sc) = AppliedInOrder(m, v)
    BY <1>1, AppliedForms
  <2> QED
    BY <2>1, ResultFits
<1>2. CASE sc /\ v.kind = "string"
  <2> DEFINE r == AppliedInOrder(m, AsArray(v))
  <2>1. AsArray(v) \in Values /\ AsArray(v).kind = "array"
    BY <1>2, Rewritten
  <2>2. Applied(m, v, sc) = IF IsArray(r) THEN AsScope(r) ELSE r
    BY <1>2, AppliedForms
  <2>3. r # Failure
    <3>1. ~IsArray(Failure)
      BY DEF IsArray, Failure
    <3> HIDE DEF r
    <3> QED
      BY <2>2, <3>1
  <2>4. r \in Values /\ Fits(m, r) /\ ("value" \notin DOMAIN m => r.kind = "array")
    BY <2>1, <2>3, ResultFits
  <2> HIDE DEF r
  <2> QED
    BY <1>2, <2>2, <2>4
<1> QED
  BY <1>1, <1>2

LEMMA ValueOverrides ==
    ASSUME NEW m, Sound(m), "value" \in DOMAIN m, NEW v \in Values, NEW w \in Values,
           IsValueOrDefault(v), IsValueOrDefault(w)
    PROVE  AppliedInOrder(m, v) = AppliedInOrder(m, w)
<1>1. /\ Step(m, "value", v) = Modified("value", v, m["value"])
      /\ Step(m, "value", w) = Modified("value", w, m["value"])
  BY StepPresent
<1>2. Step(m, "value", v) = Step(m, "value", w)
  BY <1>1 DEF Modified
<1> QED
  BY <1>2 DEF AppliedInOrder

(* Where one_of does not hold a scope against its elements, the scope may  *)
(* as well be the array it is made when the policy is applied again.       *)
LEMMA AppliedTwice ==
    ASSUME NEW m, Sound(m), NEW v \in Values, NEW sc \in BOOLEAN, Applied(m, v, sc) # Failure,
           sc /\ "one_of" \in DOMAIN m => "value" \in DOMAIN m
    PROVE  Applied(m, Applied(m, v, sc), sc) = Applied(m, v, sc)
<1> DEFINE r == Applied(m, v, sc)
<1>1. PICK a \in Values :
        /\ Fits(m, a)
        /\ \/ r = a
           \/ sc /\ IsArray(a) /\ r = AsScope(a) /\ ("value" \notin DOMAIN m => a.kind = "array")
  BY AppliedFits
<1>2. AppliedInOrder(m, a) = a
  BY <1>1, FitsFixed
<1> HIDE DEF r
<1>4. CASE r = a /\ ~(sc /\ a.kind = "string")
  BY <1>2, <1>4, AppliedForms DEF r
<1>5. CASE r = a /\ sc /\ a.kind = "string"
  <2>1. AsArray(a) \in Values /\ AsArray(a).kind = "array" /\ AsScope(AsArray(a)) = a
    BY <1>5, Rewritten
  <2>2. Applied(m, a, sc) = IF IsArray(AppliedInOrder(m, AsArray(a)))
                            THEN AsScope(AppliedInOrder(m, AsArray(a)))
                            ELSE AppliedInOrder(m, AsArray(a))
    BY <1>5, AppliedForms
  <2>3. CASE "value" \in DOMAIN m
    <3>1. AppliedInOrder(m, AsArray(a)) = a
      BY <1>2, <1>5, <2>1, <2>3, ValueOverrides DEF IsValueOrDefault, IsArray
    <3>2. ~IsArray(a)
      BY <1>5 DEF IsArray
    <3> QED
      BY <1>5, <2>2, <3>1, <3>2 DEF r
  <2>4. CASE "value" \notin DOMAIN m
    <3>1. /\ a # Absent /\ AsArray(a) # Absent /\ AsArray(a) # Null
          /\ "one_of" \notin DOMAIN m
      BY <1>5, <2>1, <2>4 DEF Absent, Null
    <3>2. Fits(m, AsArray(a))
      BY <1>1, <1>5, <2>1, <2>4, <3>1 DEF Fits, IsValueOrDefault, IsArray
    <3>3. AppliedInOrder(m, AsArray(a)) = AsArray(a)
      BY <2>1, <3>2, FitsFixed
    <3>4. IsArray(AsArray(a))
      BY <2>1 DEF IsArray
    <3> QED
      BY <1>5, <2>1, <2>2, <3>3, <3>4 DEF r
  <2> QED
    BY <2>3, <2>4
<1>6. CASE sc /\ IsArray(a) /\ r = AsScope(a) /\ ("value" \notin DOMAIN m => a.kind = "array")
  <2>0. a.kind \in {"array", "mixed"}
    BY <1>6 DEF IsArray
  <2>1. /\ r.kind = "string" /\ AsArray(r) = AsArray(a) /\ AsArray(a) \in Values
        /\ AsArray(a).kind = "array" /\ (a.kind = "array" => AsArray(a) = a)
    BY <1>6, <2>0, Rewritten
  <2>2. Applied(m, r, sc) = IF IsArray(AppliedInOrder(m, AsArray(r)))
                            THEN AsScope(AppliedInOrder(m, AsArray(r)))
                            ELSE AppliedInOrder(m, AsArray(r))
    BY <1>6, <2>1, AppliedForms
  <2>3. AppliedInOrder(m, AsArray(a)) = a
    <3>1. CASE a.kind = "array"
      BY <1>2, <2>1, <3>1
    <3>2. CASE a.kind = "mixed"
      <4>1. "value" \in DOMAIN m
        BY <1>6, <3>2
      <4>2. IsValueOrDefault(a) /\ IsValueOrDefault(AsArray(a))
        BY <2>1, <3>2 DEF IsValueOrDefault, IsArray
      <4> QED
        BY <1>2, <2>1, <4>1, <4>2, ValueOverrides
    <3> QED
      BY <2>0, <3>1, <3>2
  <2> QED
    BY <1>6, <2>1, <2>2, <2>3 DEF r
<1> QED
  BY <1>1, <1>4, <1>5, <1>6 DEF r

LEMMA AppliedObeys ==
    ASSUME NEW m, Sound(m), NEW v \in Values, NEW sc \in BOOLEAN, Applied(m, v, sc) # Failure,
           NEW o \in DOMAIN m \cap Standard
    PROVE  Obeys(Applied(m, v, sc), o, m[o])
<1>1. PICK a \in Values :
        /\ Fits(m, a)
        /\ Applied(m, v, sc) = a \/ (IsArray(a) /\ Applied(m, v, sc) = AsScope(a))
  BY AppliedFits
<1>2. Obeys(a, o, m[o])
  BY <1>1, FitsObeys
<1>3. CASE IsArray(a) /\ Applied(m, v, sc) = AsScope(a)
  <2>1. AsScope(a).items = a.items /\ AsScope(a).kind = "string" /\ a.kind \in {"array", "mixed"}
    BY <1>3, Rewritten DEF IsArray
  <2>2. AsScope(a) # Absent /\ a # Absent
    BY <2>1 DEF Absent
  <2>3. Obeys(AsScope(a), o, m[o])
    BY <1>2, <2>1, <2>2 DEF Obeys
  <2> QED
    BY <1>3, <2>3
<1> QED
  BY <1>1, <1>2, <1>3
----------------------------------------------------------------------------
(* Merging in the other order: what canCombineWith looks at is the same.   *)
Alike(o, x, y) ==
    /\ o \in {"value", "default", "essential"} => x = y
    /\ o \in {"add", "one_of", "subset_of", "superset_of"} => x.items = y.items

LEMMA MergeSymmetric ==
    ASSUME NEW o \in Lookup, NEW a \in Values \ {Absent}, NEW b \in Values \ {Absent},
           ConfigOK(o, a), ConfigOK(o, b)
    PROVE  /\ MergedValue(o, a, b) = Failure <=> MergedValue(o, b, a) = Failure
           /\ Alike(o, MergedValue(o, a, b), MergedValue(o, b, a))
<1>0. a \in Records /\ b \in Records /\ a # Failure /\ b # Failure /\ True # Failure
  BY ValueRecords DEF True, Failure
<1>1. CASE o \in {"value", "default"}
  BY <1>0, <1>1 DEF MergedValue, Alike
<1>2. CASE o \in {"add", "superset_of"}
  <2> DEFINE S == a.items \cup b.items
  <2>1. MergedValue(o, a, b) = [a EXCEPT !.items = S]
    BY <1>2 DEF MergedValue
  <2>2. MergedValue(o, b, a) = [b EXCEPT !.items = S]
    <3>1. MergedValue(o, b, a) = [b EXCEPT !.items = b.items \cup a.items]
      BY <1>2 DEF MergedValue
    <3>2. b.items \cup a.items = S
      OBVIOUS
    <3> QED
      BY <3>1, <3>2
  <2>3. S \in SUBSET Elements /\ a.kind = "array" /\ b.kind = "array"
    BY <1>0, <1>2, ArrayFacts DEF Records
  <2> HIDE DEF S
  <2>4. /\ MergedValue(o, a, b) # Failure /\ MergedValue(o, a, b).items = S
        /\ MergedValue(o, b, a) # Failure /\ MergedValue(o, b, a).items = S
    BY <2>1, <2>2, <2>3, OtherItems, SMTT(30)
  <2> QED
    BY <1>2, <2>4 DEF Alike
<1>3. CASE o \in {"one_of", "subset_of"}
  <2> DEFINE S == a.items \cap b.items
  <2>0. b.items \cap a.items = S
    OBVIOUS
  <2>1. MergedValue(o, a, b) = IF o = "one_of" /\ S = {} THEN Failure ELSE [a EXCEPT !.items = S]
    BY <1>3 DEF MergedValue
  <2>2. MergedValue(o, b, a) = IF o = "one_of" /\ S = {} THEN Failure ELSE [b EXCEPT !.items = S]
    <3>1. MergedValue(o, b, a) = IF o = "one_of" /\ b.items \cap a.items = {} THEN Failure
                                 ELSE [b EXCEPT !.items = b.items \cap a.items]
      BY <1>3 DEF MergedValue
    <3> QED
      BY <2>0, <3>1
  <2>3. S \in SUBSET Elements /\ a.kind = "array" /\ b.kind = "array"
    BY <1>0, <1>3, ArrayFacts DEF Records
  <2> HIDE DEF S
  <2>4. CASE o = "one_of" /\ S = {}
    BY <2>1, <2>2, <2>4 DEF Alike
  <2>5. CASE ~(o = "one_of" /\ S = {})
    <3>1. /\ MergedValue(o, a, b) # Failure /\ MergedValue(o, a, b).items = S
          /\ MergedValue(o, b, a) # Failure /\ MergedValue(o, b, a).items = S
      BY <2>1, <2>2, <2>3, <2>5, OtherItems, SMTT(30)
    <3> QED
      BY <1>3, <3>1 DEF Alike
  <2> QED
    BY <2>4, <2>5
<1>4. CASE o = "essential"
  <2>1. a \in {True, False} /\ b \in {True, False}
    BY <1>4 DEF ConfigOK
  <2>2. /\ MergedValue(o, a, b) = IF a = True THEN True ELSE b
        /\ MergedValue(o, b, a) = IF b = True THEN True ELSE a
    BY <1>4 DEF MergedValue
  <2> QED
    BY <1>0, <1>4, <2>1, <2>2 DEF Alike
<1>5. CASE o \notin Standard
  BY <1>0, <1>5 DEF MergedValue, Standard, Alike
<1> QED
  BY <1>1, <1>2, <1>3, <1>4, <1>5 DEF Standard

LEMMA CombinesAlike ==
    ASSUME NEW o, NEW other, NEW x, NEW y, NEW z, NEW w,
           Alike(o, x, y), Alike(other, z, w)
    PROVE  Combines(o, other, x, z) <=> Combines(o, other, y, w)
<1>0. ASSUME NEW a, NEW b, NEW c, b.items = c.items PROVE Among(a, b) <=> Among(a, c)
  BY <1>0 DEF Among
<1>1. o = "value" => (ValueCombines(x, other, z) <=> ValueCombines(y, other, w))
  <2>1. other = "one_of" => (Among(x, z) <=> Among(x, w))
    BY <1>0 DEF Alike
  <2> QED
    BY <2>1 DEF Alike, ValueCombines
<1>2. other = "value" => (ValueCombines(z, o, x) <=> ValueCombines(w, o, y))
  <2>1. o = "one_of" => (Among(z, x) <=> Among(z, y))
    BY <1>0 DEF Alike
  <2> QED
    BY <2>1 DEF Alike, ValueCombines
<1>3. /\ o \in {"add", "superset_of", "subset_of"} => x.items = y.items
      /\ other \in {"add", "superset_of", "subset_of"} => z.items = w.items
  BY DEF Alike
<1> QED
  BY <1>1, <1>2, <1>3 DEF Combines

LEMMA MergeOrder ==
    ASSUME NEW p \in Statements, NEW q \in Statements,
           \A o \in DOMAIN p \cap Lookup : ConfigOK(o, p[o]),
           \A o \in DOMAIN q \cap Lookup : ConfigOK(o, q[o])
    PROVE  LET pq == MergedParam(MergedParam([o \in {} |-> Absent], p), q)
               qp == MergedParam(MergedParam([o \in {} |-> Absent], q), p)
           IN  /\ MergeFails(pq) <=> MergeFails(qp)
               /\ \A o \in DOMAIN pq \cap Standard : pq[o].items = qp[o].items
<1> DEFINE e == [o \in {} |-> Absent]
           pq == MergedParam(MergedParam(e, p), q)
           qp == MergedParam(MergedParam(e, q), p)
<1>1. ASSUME NEW s \in Statements, \A o \in DOMAIN s \cap Lookup : ConfigOK(o, s[o])
      PROVE  /\ DOMAIN MergedParam(e, s) = DOMAIN s \cap Lookup
             /\ \A o \in DOMAIN s \cap Lookup : MergedParam(e, s)[o] = s[o]
  BY <1>1 DEF MergedParam
<1>2. ASSUME NEW s \in Statements, NEW t \in Statements,
             \A o \in DOMAIN s \cap Lookup : ConfigOK(o, s[o]),
             \A o \in DOMAIN t \cap Lookup : ConfigOK(o, t[o])
      PROVE  LET st == MergedParam(MergedParam(e, s), t)
             IN  /\ DOMAIN st = (DOMAIN s \cap Lookup) \cup (DOMAIN t \cap Lookup)
                 /\ \A o \in DOMAIN st :
                      st[o] = IF o \notin DOMAIN t THEN s[o]
                              ELSE IF o \in DOMAIN s THEN MergedValue(o, s[o], t[o])
                              ELSE t[o]
  <2> DEFINE f == MergedParam(e, s)
             st == MergedParam(f, t)
  <2>1. DOMAIN f = DOMAIN s \cap Lookup /\ \A o \in DOMAIN s \cap Lookup : f[o] = s[o]
    BY <1>1, <1>2
  <2> HIDE DEF f
  <2>2. /\ DOMAIN st = DOMAIN f \cup (DOMAIN t \cap Lookup)
        /\ \A o \in DOMAIN st :
             st[o] = IF o \notin DOMAIN t THEN f[o]
                     ELSE IF ~ConfigOK(o, t[o]) THEN Failure
                     ELSE IF o \in DOMAIN f THEN MergedValue(o, f[o], t[o])
                     ELSE t[o]
    BY DEF MergedParam
  <2> HIDE DEF st
  <2>3. DOMAIN st = (DOMAIN s \cap Lookup) \cup (DOMAIN t \cap Lookup)
    BY <2>1, <2>2
  <2>4. ASSUME NEW o \in DOMAIN st
        PROVE  st[o] = IF o \notin DOMAIN t THEN s[o]
                       ELSE IF o \in DOMAIN s THEN MergedValue(o, s[o], t[o])
                       ELSE t[o]
    <3>1. o \in Lookup /\ (o \in DOMAIN t => ConfigOK(o, t[o]))
      BY <1>2, <2>3
    <3>2. CASE o \in DOMAIN s
      <4>1. o \in DOMAIN f /\ f[o] = s[o]
        BY <2>1, <3>1, <3>2
      <4> QED
        BY <2>2, <3>1, <3>2, <4>1
    <3>3. CASE o \notin DOMAIN s
      <4>1. o \notin DOMAIN f /\ o \in DOMAIN t
        BY <2>1, <2>3, <3>3
      <4> QED
        BY <2>2, <3>1, <3>3, <4>1
    <3> QED
      BY <3>2, <3>3
  <2> QED
    BY <2>3, <2>4 DEF st, f
<1>3. /\ DOMAIN pq = (DOMAIN p \cap Lookup) \cup (DOMAIN q \cap Lookup)
      /\ \A o \in DOMAIN pq :
           pq[o] = IF o \notin DOMAIN q THEN p[o]
                   ELSE IF o \in DOMAIN p THEN MergedValue(o, p[o], q[o]) ELSE q[o]
  BY <1>2
<1>4. /\ DOMAIN qp = (DOMAIN p \cap Lookup) \cup (DOMAIN q \cap Lookup)
      /\ \A o \in DOMAIN qp :
           qp[o] = IF o \notin DOMAIN p THEN q[o]
                   ELSE IF o \in DOMAIN q THEN MergedValue(o, q[o], p[o]) ELSE p[o]
  BY <1>2
<1>5. /\ \A o \in DOMAIN p : p[o] \in Values \ {Absent}
      /\ \A o \in DOMAIN q : q[o] \in Values \ {Absent}
  BY PolicyAssumption
<1> HIDE DEF pq, qp
<1>6. ASSUME NEW o \in DOMAIN pq
      PROVE  /\ Alike(o, pq[o], qp[o]) /\ (pq[o] = Failure <=> qp[o] = Failure)
             /\ o \in DOMAIN qp
  <2>1. o \in DOMAIN qp /\ o \in Lookup /\ \A x : Alike(o, x, x)
    BY <1>3, <1>4 DEF Alike
  <2>2. CASE o \in DOMAIN p /\ o \in DOMAIN q
    <3>1. pq[o] = MergedValue(o, p[o], q[o]) /\ qp[o] = MergedValue(o, q[o], p[o])
      BY <1>3, <1>4, <2>1, <2>2
    <3> QED
      BY <1>5, <2>1, <2>2, <3>1, MergeSymmetric
  <2>3. CASE o \notin DOMAIN p \/ o \notin DOMAIN q
    <3>1. pq[o] = qp[o]
      BY <1>3, <1>4, <2>1, <2>3
    <3> QED
      BY <2>1, <3>1
  <2> QED
    BY <2>2, <2>3
<1>7. DOMAIN pq = DOMAIN qp
  BY <1>3, <1>4
<1>8. ASSUME NEW o \in DOMAIN pq, NEW other \in DOMAIN pq
      PROVE  Combines(o, other, pq[o], pq[other]) <=> Combines(o, other, qp[o], qp[other])
  BY <1>6, CombinesAlike
<1>9. MergeFails(pq) <=> MergeFails(qp)
  BY <1>6, <1>7, <1>8 DEF MergeFails
<1>10. \A o \in DOMAIN pq \cap Standard : pq[o].items = qp[o].items
  BY <1>6 DEF Alike, Standard
<1> QED
  BY <1>9, <1>10 DEF pq, qp
----------------------------------------------------------------------------
LEMMA InitPolicy == PolicyInit => PolicyInv
<1> SUFFICES ASSUME PolicyInit PROVE PolicyInv
  OBVIOUS
<1>1. DOMAIN merged = {} /\ seen = {} /\ phase # "applied" /\ scope \in BOOLEAN
  BY DEF PolicyInit
<1>2. Sound(merged)
  BY <1>1 DEF Sound
<1> QED
  BY <1>1, <1>2 DEF PolicyInv, Merged, AppliedOnce

LEMMA MergePolicy ==
    ASSUME PolicyInv, NEW policy \in Statements, MergeStatement(policy) PROVE PolicyInv'
<1> DEFINE m == MergedParam(merged, policy)
<1>1. CASE MergeFails(m)
  <2>1. phase' = "failed" /\ UNCHANGED <<scope, merged, seen>>
    BY <1>1 DEF MergeStatement
  <2> QED
    BY <2>1 DEF PolicyInv, Merged, AppliedOnce
<1>2. CASE ~MergeFails(m)
  <2>1. phase' = "merging" /\ merged' = m /\ seen' = seen \cup {policy} /\ scope' = scope
    BY <1>2 DEF MergeStatement
  <2>2. /\ Sound(m)
        /\ \A o \in DOMAIN merged : o \in DOMAIN m /\ Stricter(o, m[o], merged[o])
        /\ \A o \in DOMAIN policy \cap Lookup :
             o \in DOMAIN m /\ ConfigOK(o, policy[o]) /\ Stricter(o, m[o], policy[o])
    BY <1>2, MergeSound, PolicyAssumption DEF PolicyInv, Merged
  <2> HIDE DEF m
  <2>3. ASSUME NEW p \in seen, NEW o \in DOMAIN p \cap Lookup
        PROVE  o \in DOMAIN m /\ ConfigOK(o, p[o]) /\ Stricter(o, m[o], p[o])
    <3>1. o \in DOMAIN merged /\ ConfigOK(o, p[o]) /\ Stricter(o, merged[o], p[o])
      BY DEF PolicyInv, Merged
    <3>2. o \in DOMAIN m /\ Stricter(o, m[o], merged[o])
      BY <2>2, <3>1
    <3> QED
      BY <3>1, <3>2, StricterTwice
  <2>4. Merged'
    BY <2>1, <2>2, <2>3 DEF Merged, PolicyInv
  <2> QED
    BY <2>1, <2>4 DEF PolicyInv, AppliedOnce
<1> QED
  BY <1>1, <1>2

LEMMA ApplyPolicy == ASSUME PolicyInv, NEW v \in Inputs, Apply(v) PROVE PolicyInv'
<1>1. /\ UNCHANGED <<scope, merged, seen>> /\ input' = v /\ result' = Applied(merged, v, scope)
      /\ phase' = IF Applied(merged, v, scope) = Failure THEN "failed" ELSE "applied"
      /\ v \in Values
  BY PolicyAssumption DEF Apply
<1>2. Merged'
  BY <1>1 DEF PolicyInv, Merged
<1>3. AppliedOnce'
  BY <1>1 DEF AppliedOnce
<1> QED
  BY <1>1, <1>2, <1>3 DEF PolicyInv

LEMMA NextPolicy == PolicyInv /\ [Next]_policyVars => PolicyInv'
<1> SUFFICES ASSUME PolicyInv, [Next]_policyVars PROVE PolicyInv'
  OBVIOUS
<1>1. CASE UNCHANGED policyVars
  BY <1>1 DEF policyVars, PolicyInv, Merged, AppliedOnce
<1> QED
  BY <1>1, MergePolicy, ApplyPolicy DEF Next

(* The merged policy stays sound and stricter than every statement merged. *)
THEOREM MergeCorrect == Spec => []PolicyInv
  BY InitPolicy, NextPolicy, PTL DEF Spec

(* Metadata that leaves applyMetadataPolicy meets what every superior asks *)
(* by itself, however long the chain and whatever the policies say.        *)
THEOREM SuperiorsAlwaysObeyed == Spec => []SuperiorsObeyed
<1>1. PolicyInv => SuperiorsObeyed
  <2> SUFFICES ASSUME PolicyInv, phase = "applied", NEW p \in seen, NEW o \in DOMAIN p \cap Standard
               PROVE  Obeys(result, o, p[o])
    BY DEF SuperiorsObeyed
  <2>1. o \in DOMAIN merged /\ Stricter(o, merged[o], p[o])
    BY DEF PolicyInv, Merged, Lookup
  <2>2. Obeys(result, o, merged[o])
    BY <2>1, AppliedObeys DEF PolicyInv, Merged, AppliedOnce
  <2> QED
    BY <2>1, <2>2, ObeysLooser
<1> QED
  BY <1>1, MergeCorrect, PTL

(* Applying the merged policy to its own result changes nothing, but for a *)
(* scope that default supplies and one_of holds against its elements.      *)
THEOREM ApplicationIdempotent == Spec => []ApplyIdempotent
<1>1. PolicyInv => ApplyIdempotent
  BY AppliedTwice DEF PolicyInv, Merged, AppliedOnce, ApplyIdempotent
<1> QED
  BY <1>1, MergeCorrect, PTL

(* Two statements of the chain ask the same, or fail, in either order.     *)
THEOREM MergeOrderIrrelevant == Spec => []OrderIrrelevant
<1>1. PolicyInv => OrderIrrelevant
  <2> SUFFICES ASSUME PolicyInv, NEW p \in seen, NEW q \in seen
               PROVE  LET pq == MergedParam(MergedParam([o \in {} |-> Absent], p), q)
                          qp == MergedParam(MergedParam([o \in {} |-> Absent], q), p)
                      IN  /\ MergeFails(pq) <=> MergeFails(qp)
                          /\ \A o \in DOMAIN pq \cap Standard : pq[o].items = qp[o].items
    BY DEF OrderIrrelevant
  <2>1. p \in Statements /\ q \in Statements
    BY DEF PolicyInv, Merged
  <2>2. /\ \A o \in DOMAIN p \cap Lookup : ConfigOK(o, p[o])
        /\ \A o \in DOMAIN q \cap Lookup : ConfigOK(o, q[o])
    BY DEF PolicyInv, Merged
  <2> QED
    BY <2>1, <2>2, MergeOrder
<1> QED
  BY <1>1, MergeCorrect, PTL
----------------------------------------------------------------------------

(* What the checks have established of a chain, without their times.       *)
Shaped(c) == c # <<>> /\ \A i \in DOMAIN c : PositionOK(c, i) /\ ClaimsOK(c, i)
Linked(c, i) == c[i].iss = c[i + 1].sub /\ c[i].key \in c[i + 1].jwks
Anchored(c) == LET last == c[Len(c)] IN last.iss \in Anchors /\ last.key \in AnchorKeys[last.iss]
Proven(c) == Anchored(c) /\ \A i \in 1..(Len(c) - 1) : Linked(c, i)

Vouched(c, m) ==
    LET ta == c[Len(c)]
        owner == ta.markOwners[m.type]
    IN  /\ m.type \in DOMAIN ta.markIssuers /\ m.sub = c[1].iss
        /\ m.key \in IssuerKeys(c, m.iss)
        /\ owner.sub # "none" => m.delegation.key \in owner.keys /\ m.delegation.sub = m.iss

(* What resolving the metadata makes of a chain.                           *)
PublishedFor(c) ==
    [p \in Params |-> IF p[1] \in AllowedTypes(c) THEN Published(c)[p] ELSE Absent]
ValuesOf(c, ctx) == WithContext(PublishedFor(c), AllowedTypes(c), ctx)
TypesOf(c) == AllowedTypes(c) \cup {p[1] : p \in PolicyParams(c)}
OffOf(m, c, ctx) == IF m = "prepare" THEN PutOff(c, ValuesOf(c, ctx), AllowedTypes(c)) ELSE {}
MetaOf(m, c, ctx) == Resolved(c, ValuesOf(c, ctx), OffOf(m, c, ctx))

(* The verdict of validatePublication says nothing of a chain.             *)
PublicationOnly == pc = "accepted" /\ mode = "publication"

Signed ==
    /\ chain \in Chains /\ errors \in BOOLEAN
    /\ pc \in {"leaf", "links", "anchor", "resolve", "marks", "conclude", "prepared", "accepted"} =>
         Shaped(chain)
    /\ pc = "leaf" => next = 1
    /\ pc = "links" =>
         /\ next \in 1..(Len(chain) - 1)
         /\ ~errors => \A i \in 1..(next - 1) : Linked(chain, i)
    /\ pc = "anchor" /\ ~errors => \A i \in 1..(Len(chain) - 1) : Linked(chain, i)
    /\ pc \in {"resolve", "marks", "conclude", "prepared", "accepted"} /\ ~PublicationOnly =>
         Proven(chain)

Resolving ==
    /\ pc \in {"prepared", "accepted"} => ~errors
    /\ pc \in {"marks", "conclude", "prepared", "accepted"} /\ ~errors /\ ~PublicationOnly =>
         /\ \A p \in PolicyParams(chain) : ~MergedPolicy(chain, p).fails
         /\ types = TypesOf(chain) /\ pending = OffOf(mode, chain, context)
         /\ meta = MetaOf(mode, chain, context) /\ \A p \in Params : meta[p] # Failure

Marking ==
    /\ pc = "marks" =>
         /\ next \in 1..Len(chain[1].marks)
         /\ ~errors => \A i \in 1..(next - 1) : Vouched(chain, chain[1].marks[i])
    /\ pc \in {"conclude", "accepted"} /\ ~errors /\ mode \in {"validate", "complete"} =>
         \A i \in DOMAIN chain[1].marks : Vouched(chain, chain[1].marks[i])

(* Preparation and completion are about the same chain.                    *)
Staged ==
    /\ context \in [Params -> Values]
    /\ mode = "prepare" => context = NoValue /\ pc # "accepted"
    /\ pc = "prepared" => mode = "prepare" /\ (wpc # "failed" => prepared.live)
    /\ prepared.live =>
         /\ prepared.types = TypesOf(chain)
         /\ prepared.pending = OffOf("prepare", chain, NoValue)
         /\ prepared.meta = MetaOf("prepare", chain, NoValue)
    /\ mode = "complete" =>
         /\ prepared.live /\ pc # "idle" /\ context = ContextOf(request)
         /\ \A p \in Params : context[p] # Absent => p \in prepared.pending

(* Where the wallet's call is, and where the validation is then.           *)
Flow ==
    /\ wpc # "none" => request \in Requests
    /\ wpc = "preparing" => mode = "prepare" /\ paths \in Seq(Chains) /\ paths # <<>>
    /\ wpc \in {"waiting", "verifying"} => pc = "prepared"
    /\ wpc = "completing" => pc = "rejected" \/ mode = "complete"
    /\ mode = "complete" => wpc \in {"completing", "hooks", "validated", "failed"}
    /\ wpc \in {"hooks", "validated"} =>
         /\ pc = "accepted" /\ mode = "complete"
         /\ effective = Effective /\ effective # Absent
    /\ wpc = "validated" => ExpiresAt(chain) > now

WalletInv == Signed /\ Resolving /\ Marking /\ Staged /\ Flow
----------------------------------------------------------------------------
(* Sequences and least elements.                                           *)

LEMMA LeastOf == ASSUME NEW T, T \subseteq Nat, T # {} PROVE \E m \in T : \A n \in T : m <= n
<1> DEFINE Up(n) == 1..n
           R == StrictSubsetOrdering(Nat)
           U == {Up(n) : n \in T}
<1>1. U \subseteq FiniteSubsetsOf(Nat) /\ U # {}
  <2>1. \A n \in Nat : Up(n) \subseteq Nat /\ IsFiniteSet(Up(n))
    BY FS_Interval
  <2> QED
    BY <2>1 DEF FiniteSubsetsOf
<1>2. IsWellFoundedOn(R, FiniteSubsetsOf(Nat))
  BY FS_StrictSubsetOrderingWellFounded
<1> HIDE DEF R
<1>3. \E x \in U : \A y \in U : ~(<<y, x>> \in R)
  <2> HIDE DEF U
  <2> QED
    BY <1>1, <1>2, WFMin
<1>4. PICK m \in T : \A n \in T : ~(<<Up(n), Up(m)>> \in R)
  BY <1>3
<1>5. ASSUME NEW n \in T PROVE m <= n
  <2>1. ASSUME n < m PROVE FALSE
    <3>1. Up(n) \subseteq Up(m) /\ Up(n) \subseteq Nat /\ Up(m) \subseteq Nat
      BY <2>1
    <3>2. m \in Up(m) /\ m \notin Up(n)
      BY <2>1
    <3> HIDE DEF Up
    <3>3. <<Up(n), Up(m)>> \in R
      BY <3>1, <3>2 DEF R, StrictSubsetOrdering
    <3> QED
      BY <1>4, <3>3
  <2> QED
    BY <2>1
<1> QED
  BY <1>5

(* The greatest of some positions up to n.                                 *)
LEMMA GreatestOf ==
    ASSUME NEW n \in Nat, NEW T \in SUBSET (1..n), T # {}
    PROVE  \E m \in T : \A k \in T : k <= m
<1> DEFINE Rest == {n - k : k \in T}
<1>0. \A k \in T : k \in 1..n
  OBVIOUS
<1>1. Rest \subseteq Nat /\ Rest # {}
  <2>1. \A k \in T : n - k \in Nat
    BY <1>0
  <2> QED
    BY <2>1
<1>2. PICK r \in Rest : \A q \in Rest : r <= q
  <2> HIDE DEF Rest
  <2> QED
    BY <1>1, LeastOf
<1>3. PICK m \in T : r = n - m
  BY <1>2
<1>4. ASSUME NEW k \in T PROVE k <= m
  <2>1. n - m <= n - k
    BY <1>2, <1>3
  <2>2. k \in 1..n /\ m \in 1..n
    BY <1>0
  <2> QED
    BY <2>1, <2>2
<1> QED
  BY <1>4

LEMMA SequenceFacts ==
    ASSUME NEW s, IsSequence(s)
    PROVE  Len(s) \in Nat /\ DOMAIN s = 1..Len(s)
BY DEF IsSequence

LEMMA ChainFacts ==
    ASSUME NEW c \in Chains
    PROVE  /\ Len(c) \in Nat /\ DOMAIN c = 1..Len(c)
           /\ \A i \in DOMAIN c :
                /\ c[i].metadata \in [Params -> Values] /\ DOMAIN c[i].policy \subseteq Params
                /\ \A p \in DOMAIN c[i].policy : \A o \in DOMAIN c[i].policy[p] :
                     c[i].policy[p][o] \in Values \ {Absent}
                /\ Len(c[i].marks) \in Nat /\ DOMAIN c[i].marks = 1..Len(c[i].marks)
<1>1. IsSequence(c) /\ \A i \in DOMAIN c : IsSequence(c[i].marks)
  BY ChainsAssumption
<1>2. Len(c) \in Nat /\ DOMAIN c = 1..Len(c)
  BY <1>1, SequenceFacts
<1>3. \A i \in DOMAIN c : Len(c[i].marks) \in Nat /\ DOMAIN c[i].marks = 1..Len(c[i].marks)
  BY <1>1, SequenceFacts
<1> QED
  BY <1>2, <1>3, ChainsAssumption
----------------------------------------------------------------------------
(* Signatures: from the anchor down, each statement proves the keys of the *)
(* one below it.                                                           *)

LEMMA ProvenAuthentic ==
    ASSUME NEW c \in Chains, c # <<>>, Proven(c)
    PROVE  \A i \in DOMAIN c : c[i].key = KeyOf[c[i].iss]
<1>1. Len(c) \in Nat /\ DOMAIN c = 1..Len(c)
  BY ChainFacts
<1> DEFINE T == {i \in 1..Len(c) : c[i].key # KeyOf[c[i].iss]}
<1> SUFFICES ASSUME T # {} PROVE FALSE
  BY <1>1
<1>2. PICK i \in T : \A k \in T : k <= i
  <2>1. T \in SUBSET (1..Len(c))
    OBVIOUS
  <2> HIDE DEF T
  <2> QED
    BY <1>1, <2>1, GreatestOf
<1>3. CASE i = Len(c)
  BY <1>3, <1>2, TruthAssumption DEF Proven, Anchored
<1>4. CASE i # Len(c)
  <2>1. i \in 1..(Len(c) - 1) /\ i + 1 \in 1..Len(c) /\ ~(i + 1 <= i)
    BY <1>1, <1>4
  <2>2. c[i + 1].key = KeyOf[c[i + 1].iss]
    BY <1>2, <2>1
  <2>3. Linked(c, i)
    BY <2>1 DEF Proven
  <2>4. c[i + 1].jwks \subseteq {KeyOf[c[i + 1].sub]}
    BY <1>1, <2>1, <2>2, TruthAssumption
  <2> QED
    BY <1>2, <2>3, <2>4 DEF Linked
<1> QED
  BY <1>3, <1>4

(* The keys used for a mark's issuer are its own.                          *)
LEMMA IssuerKeysTrue ==
    ASSUME NEW c \in Chains, c # <<>>, Proven(c), NEW iss \in Entities
    PROVE  IssuerKeys(c, iss) \subseteq {KeyOf[iss]}
<1> DEFINE ecs == {i \in DOMAIN c : IsEC(c[i]) /\ c[i].iss = iss}
           last == CHOOSE i \in ecs : \A k \in ecs : k <= i
           anchor == c[Len(c)].iss
<1>1. CASE MarkIssuerKeys[iss] # {}
  BY <1>1, TruthAssumption DEF IssuerKeys
<1>2. CASE MarkIssuerKeys[iss] = {} /\ ecs # {}
  <2>1. IssuerKeys(c, iss) = c[last].jwks
    BY <1>2 DEF IssuerKeys
  <2>2. \E i \in ecs : \A k \in ecs : k <= i
    <3>1. ecs \in SUBSET (1..Len(c)) /\ Len(c) \in Nat
      BY ChainFacts
    <3> HIDE DEF ecs
    <3> QED
      BY <1>2, <3>1, GreatestOf
  <2>3. last \in ecs
    <3> HIDE DEF ecs
    <3> QED
      BY <2>2
  <2>4. last \in DOMAIN c /\ c[last].sub = iss /\ c[last].iss = iss
    BY <2>3 DEF IsEC
  <2> HIDE DEF last
  <2>5. c[last].key = KeyOf[c[last].iss]
    BY <2>4, ProvenAuthentic
  <2> QED
    BY <2>1, <2>4, <2>5, TruthAssumption
<1>3. CASE MarkIssuerKeys[iss] = {} /\ ecs = {} /\ iss = anchor /\ anchor \in Anchors
  <2>1. IssuerKeys(c, iss) = AnchorKeys[iss]
    BY <1>3 DEF IssuerKeys
  <2> QED
    BY <1>3, <2>1, TruthAssumption
<1>4. CASE MarkIssuerKeys[iss] = {} /\ ecs = {} /\ ~(iss = anchor /\ anchor \in Anchors)
  BY <1>4 DEF IssuerKeys
<1> QED
  BY <1>1, <1>2, <1>3, <1>4

LEMMA MarkVouched ==
    ASSUME NEW c, NEW m, NEW at, MarkOK(c, m, at) PROVE Vouched(c, m)
BY DEF MarkOK, DelegationOK, Verifies, Vouched

LEMMA VouchedTrue ==
    ASSUME NEW c \in Chains, c # <<>>, Proven(c), NEW m, m.iss \in Entities, Vouched(c, m)
    PROVE  LET owner == c[Len(c)].markOwners[m.type]
           IN  /\ m.key = KeyOf[m.iss] /\ m.sub = c[1].iss
               /\ owner.sub # "none" =>
                    m.delegation.key = KeyOf[owner.sub] /\ m.delegation.sub = m.iss
<1>1. m.key = KeyOf[m.iss] /\ m.sub = c[1].iss
  <2>1. m.key \in IssuerKeys(c, m.iss) /\ m.sub = c[1].iss
    BY DEF Vouched
  <2> QED
    BY <2>1, IssuerKeysTrue
<1> DEFINE ta == c[Len(c)]
           owner == ta.markOwners[m.type]
<1>2. Len(c) \in DOMAIN c
  <2>1. IsSequence(c)
    BY ChainsAssumption
  <2>2. Len(c) # 0
    BY <2>1 DEF IsSequence
  <2> QED
    BY <2>2, ChainFacts
<1>3. ta.key = KeyOf[ta.iss]
  BY <1>2, ProvenAuthentic
<1>4. m.type \in DOMAIN ta.markOwners
  BY <1>2, ChainsAssumption DEF Vouched
<1>5. owner.sub # "none" => owner.keys \subseteq {KeyOf[owner.sub]}
  BY <1>2, <1>3, <1>4, TruthAssumption
<1>6. owner.sub # "none" => m.delegation.key \in owner.keys /\ m.delegation.sub = m.iss
  BY DEF Vouched
<1> QED
  BY <1>1, <1>5, <1>6
----------------------------------------------------------------------------
(* Policies.  The merge along a chain is a recursive function: it exists,  *)
(* and where it does not fail, what it yields is sound and stricter than   *)
(* the policy of every statement.                                          *)

Above(c, i) == Subordinates(c)[Len(Subordinates(c)) - i + 1]
MergeStep(c, p, i, before) ==
    IF p \in DOMAIN Above(c, i).policy THEN MergedParam(before, Above(c, i).policy[p]) ELSE before
IsMerging(c, p, n, m) ==
    m = [i \in 0..n |-> IF i = 0 THEN <<>> ELSE MergeStep(c, p, i, m[i - 1])]
Merging(c, p) == CHOOSE m : IsMerging(c, p, Len(Subordinates(c)), m)

LEMMA MergedPolicyForm ==
    ASSUME NEW c, NEW p
    PROVE  MergedPolicy(c, p) =
             [fails |-> \E i \in 0..Len(Subordinates(c)) : MergeFails(Merging(c, p)[i]),
              ops |-> Merging(c, p)[Len(Subordinates(c))]]
BY DEF MergedPolicy, Merging, IsMerging, MergeStep, Above

LEMMA MergingExists ==
    ASSUME NEW c, NEW p, NEW n \in Nat
    PROVE  \E m : IsMerging(c, p, n, m)
<1> DEFINE T == {k \in Nat : ~\E m : IsMerging(c, p, k, m)}
<1> SUFFICES ASSUME T # {} PROVE FALSE
  OBVIOUS
<1>1. PICK k \in T : \A j \in T : k <= j
  <2>1. T \subseteq Nat
    OBVIOUS
  <2> HIDE DEF T
  <2> QED
    BY <2>1, LeastOf
<1>2. CASE k = 0
  <2> DEFINE m == [i \in 0..0 |-> <<>>]
  <2>1. IsMerging(c, p, 0, m)
    BY DEF IsMerging
  <2> QED
    BY <1>1, <1>2, <2>1
<1>3. CASE k # 0
  <2>1. k \in Nat /\ k - 1 \in Nat /\ k - 1 \notin T
    BY <1>1, <1>3
  <2>2. PICK m : IsMerging(c, p, k - 1, m)
    BY <2>1
  <2> DEFINE w == [i \in 0..k |-> IF i = k THEN MergeStep(c, p, k, m[k - 1]) ELSE m[i]]
             v == [i \in 0..k |-> IF i = 0 THEN <<>> ELSE MergeStep(c, p, i, w[i - 1])]
  <2>3. ASSUME NEW i \in 0..k PROVE w[i] = v[i]
    <3>1. CASE i = k
      <4>1. w[k - 1] = m[k - 1]
        BY <2>1
      <4> QED
        BY <1>3, <2>1, <3>1, <4>1
    <3>2. CASE i = 0
      <4>1. m[0] = <<>>
        BY <2>1, <2>2 DEF IsMerging
      <4> QED
        BY <1>3, <2>1, <3>2, <4>1
    <3>3. CASE i # 0 /\ i # k
      <4>1. i - 1 \in 0..(k - 1) /\ i \in 0..(k - 1) /\ i - 1 # k /\ i - 1 \in 0..k
        BY <2>1, <3>3
      <4>2. m[i] = MergeStep(c, p, i, m[i - 1])
        BY <2>2, <3>3, <4>1 DEF IsMerging
      <4>3. w[i - 1] = m[i - 1]
        BY <4>1
      <4> QED
        BY <3>3, <4>2, <4>3
    <3> QED
      BY <3>1, <3>2, <3>3
  <2>4. w = v
    BY <2>3
  <2>5. IsMerging(c, p, k, w)
    BY <2>4 DEF IsMerging
  <2> QED
    BY <1>1, <2>5
<1> QED
  BY <1>2, <1>3

LEMMA MergingFacts ==
    ASSUME NEW c, NEW p, Len(Subordinates(c)) \in Nat
    PROVE  /\ Merging(c, p)[0] = <<>>
           /\ \A i \in 1..Len(Subordinates(c)) :
                Merging(c, p)[i] = MergeStep(c, p, i, Merging(c, p)[i - 1])
<1> DEFINE n == Len(Subordinates(c))
           m == Merging(c, p)
<1>1. IsMerging(c, p, n, m)
  <2>1. \E x : IsMerging(c, p, n, x)
    BY MergingExists
  <2> QED
    BY <2>1 DEF Merging
<1> HIDE DEF m
<1>2. ASSUME NEW i \in 0..n
      PROVE  m[i] = IF i = 0 THEN <<>> ELSE MergeStep(c, p, i, m[i - 1])
  BY <1>1 DEF IsMerging
<1> QED
  BY <1>2 DEF m

(* The statements between leaf and anchor, as positions of the chain.      *)
LEMMA SubordinatesFacts ==
    ASSUME NEW c \in Chains, c # <<>>
    PROVE  LET ss == Subordinates(c)
               n == IF Trailing(c) THEN Len(c) - 1 ELSE Len(c)
           IN  /\ Len(c) \in Nat \ {0} /\ Len(ss) \in Nat
               /\ Len(ss) = (IF 2 <= n THEN n - 1 ELSE 0)
               /\ \A j \in 1..Len(ss) : ss[j] = c[j + 1] /\ j + 1 \in 2..Len(c)
<1> DEFINE S == {c[i] : i \in DOMAIN c}
           n == IF Trailing(c) THEN Len(c) - 1 ELSE Len(c)
           ss == SubSeq(c, 2, n)
<1>1. c \in Seq(S) /\ Len(c) \in Nat
  BY ChainFacts, ChainsAssumption DEF IsSequence
<1> HIDE DEF S
<1>2. Len(c) # 0
  BY <1>1
<1>3. n \in Nat /\ n <= Len(c)
  BY <1>1, <1>2
<1>4. ss = Subordinates(c)
  BY DEF Subordinates
<1> HIDE DEF n
<1>5. Len(ss) = IF 2 <= n THEN n - 1 ELSE 0
  BY <1>1, <1>3
<1>6. \A j \in 1..Len(ss) : ss[j] = c[j + 1] /\ j + 1 \in 2..Len(c)
  BY <1>1, <1>3, <1>5
<1> QED
  BY <1>1, <1>2, <1>3, <1>4, <1>5, <1>6 DEF n

(* What one superior asks for parameter p is part of m.                    *)
Holds(m, s, p) ==
    p \in DOMAIN s.policy =>
        \A o \in DOMAIN s.policy[p] \cap Lookup :
            o \in DOMAIN m /\ Stricter(o, m[o], s.policy[p][o])

LEMMA MergedSound ==
    ASSUME NEW c \in Chains, c # <<>>, NEW p, ~MergedPolicy(c, p).fails
    PROVE  LET ops == MergedPolicy(c, p).ops
           IN  /\ Sound(ops)
               /\ \A j \in 1..Len(Subordinates(c)) : Holds(ops, Subordinates(c)[j], p)
<1> DEFINE ss == Subordinates(c)
           n == Len(ss)
           m == Merging(c, p)
           Good(i) == Sound(m[i]) /\ \A j \in 1..i : Holds(m[i], Above(c, j), p)
           T == {i \in 0..n : ~Good(i)}
<1>1. n \in Nat
  BY SubordinatesFacts
<1>2. m[0] = <<>> /\ \A i \in 1..n : m[i] = MergeStep(c, p, i, m[i - 1])
  BY <1>1, MergingFacts
<1>3. \A i \in 0..n : ~MergeFails(m[i])
  BY MergedPolicyForm
<1>4. MergedPolicy(c, p).ops = m[n]
  BY MergedPolicyForm
<1> HIDE DEF m
<1>5. T = {}
  <2> SUFFICES ASSUME T # {} PROVE FALSE
    OBVIOUS
  <2>1. PICK k \in T : \A j \in T : k <= j
    <3>1. T \subseteq Nat
      BY <1>1
    <3> HIDE DEF T
    <3> QED
      BY <3>1, LeastOf
  <2>2. CASE k = 0
    <3>1. Sound(m[0])
      BY <1>2 DEF Sound
    <3> QED
      BY <2>1, <2>2, <3>1
  <2>3. CASE k # 0
    <3>1. k \in 1..n /\ k - 1 \in 0..n /\ k - 1 \notin T
      BY <1>1, <2>1, <2>3
    <3>2. Sound(m[k - 1]) /\ \A j \in 1..(k - 1) : Holds(m[k - 1], Above(c, j), p)
      BY <3>1
    <3>3. m[k] = MergeStep(c, p, k, m[k - 1]) /\ ~MergeFails(m[k])
      BY <1>2, <1>3, <3>1
    <3> DEFINE s == Above(c, k)
    <3>4. \E i \in 2..Len(c) : s = c[i]
      <4>1. n - k + 1 \in 1..n
        BY <1>1, <3>1
      <4> QED
        BY <4>1, SubordinatesFacts DEF Above
    <3>5. p \in DOMAIN s.policy => \A o \in DOMAIN s.policy[p] : s.policy[p][o] \in Values \ {Absent}
      BY <3>4, ChainFacts, SubordinatesFacts
    <3> HIDE DEF s
    <3>6. /\ Sound(m[k]) /\ Holds(m[k], s, p)
          /\ \A o \in DOMAIN m[k - 1] : o \in DOMAIN m[k] /\ Stricter(o, m[k][o], m[k - 1][o])
      <4>1. CASE p \notin DOMAIN s.policy
        <5>1. m[k] = m[k - 1]
          BY <3>3, <4>1 DEF MergeStep, s
        <5>2. \A o, v : Stricter(o, v, v)
          BY DEF Stricter
        <5> QED
          BY <3>2, <4>1, <5>1, <5>2 DEF Holds
      <4>2. CASE p \in DOMAIN s.policy
        <5>1. m[k] = MergedParam(m[k - 1], s.policy[p])
          BY <3>3, <4>2 DEF MergeStep, s
        <5> QED
          BY <3>2, <3>3, <3>5, <4>2, <5>1, MergeSound DEF Holds
      <4> QED
        BY <4>1, <4>2
    <3>7. ASSUME NEW j \in 1..(k - 1) PROVE Holds(m[k], Above(c, j), p)
      BY <3>2, <3>6, StricterTwice DEF Holds
    <3>8. \A j \in 1..k : j = k \/ j \in 1..(k - 1)
      BY <3>1
    <3>9. Good(k)
      BY <3>6, <3>7, <3>8 DEF s
    <3> QED
      BY <2>1, <3>9
  <2> QED
    BY <2>2, <2>3
<1>6. Sound(m[n]) /\ \A j \in 1..n : Holds(m[n], Above(c, j), p)
  BY <1>1, <1>5
<1>7. ASSUME NEW j \in 1..n PROVE Holds(m[n], ss[j], p)
  <2>1. n - j + 1 \in 1..n /\ n - (n - j + 1) + 1 = j
    BY <1>1
  <2>2. Above(c, n - j + 1) = ss[j]
    BY <2>1 DEF Above
  <2> QED
    BY <1>6, <2>1, <2>2
<1> QED
  BY <1>4, <1>6, <1>7

(* What a policy of the chain yields obeys every superior.                 *)
LEMMA SuperiorsSettled ==
    ASSUME NEW c \in Chains, Shaped(c), NEW p \in Params, NEW v \in Values,
           ~MergedPolicy(c, p).fails, Applied(MergedPolicy(c, p).ops, v, IsScope(p)) # Failure,
           NEW i \in 2..Len(c), p \in DOMAIN c[i].policy,
           NEW o \in DOMAIN c[i].policy[p] \cap Standard
    PROVE  Obeys(Applied(MergedPolicy(c, p).ops, v, IsScope(p)), o, c[i].policy[p][o])
<1> DEFINE ops == MergedPolicy(c, p).ops
           ss == Subordinates(c)
<1>1. c # <<>>
  BY DEF Shaped
<1>2. /\ Len(c) \in Nat \ {0} /\ DOMAIN c = 1..Len(c) /\ i \in DOMAIN c
  BY <1>1, SubordinatesFacts, ChainFacts
<1>3. ~IsEC(c[i])
  <2>1. IsEC(c[i]) => c[i].policy = <<>>
    BY <1>2 DEF Shaped, ClaimsOK
  <2> QED
    BY <2>1
<1>4. i - 1 \in 1..Len(ss) /\ ss[i - 1] = c[i]
  <2>1. Trailing(c) => i # Len(c)
    BY <1>3 DEF Trailing
  <2>2. i - 1 \in 1..Len(ss)
    BY <1>1, <1>2, <2>1, SubordinatesFacts
  <2> QED
    BY <1>1, <1>2, <2>2, SubordinatesFacts
<1>5. Sound(ops) /\ Holds(ops, c[i], p)
  BY <1>1, <1>4, MergedSound
<1>6. o \in DOMAIN ops /\ Stricter(o, ops[o], c[i].policy[p][o])
  BY <1>5 DEF Holds, Lookup
<1> HIDE DEF ops
<1>7. Obeys(Applied(ops, v, IsScope(p)), o, ops[o])
  <2>1. IsScope(p) \in BOOLEAN
    BY DEF IsScope
  <2> QED
    BY <1>5, <1>6, <2>1, AppliedObeys DEF ops
<1> QED
  BY <1>6, <1>7, ObeysLooser DEF ops
----------------------------------------------------------------------------
(* The inductive invariant, action by action.                              *)

LEMMA AbsentValue == Absent \in Values /\ NoValue \in [Params -> Values] /\ ~None.live
<1>1. Absent \in Values
  BY DEF Absent, Values, Kinds
<1> QED
  BY <1>1 DEF NoValue, None

LEMMA ValuesTyped ==
    ASSUME NEW c \in Chains, c # <<>>, NEW ctx \in [Params -> Values]
    PROVE  ValuesOf(c, ctx) \in [Params -> Values]
<1>1. /\ 1 \in DOMAIN c /\ c[1].metadata \in [Params -> Values]
      /\ Subordinates(c) # <<>> => Subordinates(c)[1].metadata \in [Params -> Values]
  <2>1. /\ Len(c) \in Nat \ {0} /\ DOMAIN c = 1..Len(c)
        /\ \A i \in DOMAIN c : c[i].metadata \in [Params -> Values]
    BY ChainFacts, SubordinatesFacts
  <2>2. ASSUME Subordinates(c) # <<>>
        PROVE  Subordinates(c)[1].metadata \in [Params -> Values]
    <3> DEFINE S == {c[i] : i \in DOMAIN c}
               n == IF Trailing(c) THEN Len(c) - 1 ELSE Len(c)
    <3>1. c \in Seq(S)
      BY ChainsAssumption DEF IsSequence
    <3> HIDE DEF S
    <3>2. Len(Subordinates(c)) # 0
      <4>1. n \in Nat /\ n <= Len(c)
        BY <2>1
      <4> HIDE DEF n
      <4>2. SubSeq(c, 2, n) \in Seq(S)
        BY <2>1, <3>1, <4>1
      <4>3. Subordinates(c) = SubSeq(c, 2, n)
        BY DEF Subordinates, n
      <4>4. Subordinates(c) \in Seq(S)
        BY <4>2, <4>3
      <4> QED
        BY <2>2, <4>4
    <3>3. 1 \in 1..Len(Subordinates(c))
      BY <3>2, SubordinatesFacts
    <3>4. Subordinates(c)[1] = c[1 + 1] /\ 1 + 1 \in 2..Len(c)
      BY <3>3, SubordinatesFacts
    <3> QED
      BY <2>1, <3>4
  <2> QED
    BY <2>1, <2>2
<1>2. Published(c) \in [Params -> Values]
  BY <1>1 DEF Published
<1>3. PublishedFor(c) \in [Params -> Values]
  BY <1>2, AbsentValue DEF PublishedFor
<1> QED
  BY <1>3 DEF ValuesOf, WithContext

LEMMA InitWallet == ASSUME WalletInit PROVE WalletInv
<1>1. /\ pc = "idle" /\ prepared = None /\ errors = FALSE /\ context = NoValue
      /\ mode \in Modes /\ chain \in Chains
  BY DEF WalletInit, Init
<1>2. mode # "complete" /\ mode \in {"validate", "structure", "publication", "prepare"}
  BY <1>1, ValidationAssumption
<1>3. Flow
  <2>1. CASE mode = "prepare"
    <3>1. paths \in Candidates /\ request \in Requests /\ wpc = "preparing"
      BY <2>1 DEF WalletInit
    <3>2. paths \in Seq(Chains) /\ paths # <<>>
      BY <3>1, WalletAssumption
    <3> QED
      BY <1>2, <2>1, <3>1, <3>2 DEF Flow
  <2>2. CASE mode # "prepare"
    <3>1. wpc = "none"
      BY <2>2 DEF WalletInit
    <3> QED
      BY <1>2, <3>1 DEF Flow
  <2> QED
    BY <2>1, <2>2
<1>4. Signed /\ Resolving /\ Marking
  BY <1>1 DEF Signed, Resolving, Marking
<1>5. Staged
  BY <1>1, <1>2, AbsentValue DEF Staged
<1> QED
  BY <1>3, <1>4, <1>5 DEF WalletInv

(* The wallet's state does not move while the validation is under way.     *)
LEMMA FlowKept ==
    ASSUME WalletInv, UNCHANGED wallet, mode' = mode, pc \notin {"prepared", "accepted", "rejected"}
    PROVE  Flow'
<1>1. UNCHANGED <<paths, request, wpc, effective>>
  BY DEF wallet
<1>2. wpc \notin {"waiting", "verifying", "hooks", "validated"}
  BY DEF WalletInv, Flow
<1>3. wpc = "completing" => mode = "complete"
  BY DEF WalletInv, Flow
<1> QED
  BY <1>1, <1>2, <1>3 DEF WalletInv, Flow

LEMMA StagedKept ==
    ASSUME WalletInv, UNCHANGED wallet, UNCHANGED <<mode, chain, context, prepared>>,
           pc' \notin {"idle", "prepared"}, mode = "prepare" => pc' # "accepted"
    PROVE  Staged'
<1>1. UNCHANGED <<request, wpc>>
  BY DEF wallet
<1>2. ContextOf(request)' = ContextOf(request)
  BY <1>1 DEF ContextOf
<1> QED
  BY <1>1, <1>2 DEF WalletInv, Staged

LEMMA BeginWallet == ASSUME WalletInv, Begin, UNCHANGED wallet PROVE WalletInv'
<1>1. /\ pc = "idle" /\ UNCHANGED <<mode, chain, prepared>> /\ context' = NoValue
      /\ next' = 1 /\ errors' = FALSE
      /\ pc' \in {"leaf", "rejected"}
      /\ pc' = "leaf" => chain # <<>> /\ \A i \in DOMAIN chain : ShapeOK(chain, i, now)
  BY DEF Begin, Enter
<1>2. mode # "complete"
  BY <1>1 DEF WalletInv, Staged
<1>3. Signed'
  BY <1>1 DEF WalletInv, Signed, Shaped, ShapeOK
<1>4. Resolving' /\ Marking'
  BY <1>1 DEF Resolving, Marking
<1>5. Staged'
  BY <1>1, <1>2, AbsentValue DEF WalletInv, Staged
<1>6. Flow'
  BY <1>1, FlowKept
<1> QED
  BY <1>3, <1>4, <1>5, <1>6 DEF WalletInv

LEMMA BeginAbortedWallet == ASSUME WalletInv, BeginAborted, UNCHANGED wallet PROVE WalletInv'
<1>1. /\ pc = "idle" /\ UNCHANGED <<mode, chain, prepared, context, errors>> /\ pc' = "rejected"
  BY DEF BeginAborted, callVars
<1>2. Signed' /\ Resolving' /\ Marking'
  BY <1>1 DEF WalletInv, Signed, Resolving, Marking
<1> QED
  BY <1>1, <1>2, StagedKept, FlowKept DEF WalletInv

LEMMA VerifyLeafWallet == ASSUME WalletInv, VerifyLeaf, UNCHANGED wallet PROVE WalletInv'
<1>1. /\ pc = "leaf" /\ UNCHANGED <<mode, chain, prepared, context, next>> /\ errors' \in BOOLEAN
      /\ mode = "publication" => pc' = IF errors' THEN "rejected" ELSE "accepted"
      /\ mode # "publication" => pc' = IF Len(chain) = 1 THEN "anchor" ELSE "links"
  BY DEF VerifyLeaf
<1>2. Shaped(chain) /\ next = 1 /\ chain \in Chains
  BY <1>1 DEF WalletInv, Signed
<1>3. Len(chain) \in Nat \ {0}
  BY <1>2, SubordinatesFacts DEF Shaped
<1>4. Signed'
  <2>1. CASE mode = "publication"
    BY <1>1, <1>2, <2>1 DEF Signed, PublicationOnly
  <2>2. CASE mode # "publication" /\ Len(chain) = 1
    <3>1. pc' = "anchor" /\ \A i \in 1..(Len(chain) - 1) : FALSE
      BY <1>1, <2>2
    <3> QED
      BY <1>1, <1>2, <3>1 DEF Signed
  <2>3. CASE mode # "publication" /\ Len(chain) # 1
    <3>1. /\ pc' = "links" /\ next' \in 1..(Len(chain) - 1)
          /\ \A i \in 1..(next' - 1) : FALSE
      BY <1>1, <1>2, <1>3, <2>3
    <3> QED
      BY <1>1, <1>2, <3>1 DEF Signed
  <2> QED
    BY <2>1, <2>2, <2>3
<1>5. Resolving'
  BY <1>1 DEF Resolving, PublicationOnly
<1>6. Marking'
  BY <1>1 DEF Marking
<1> QED
  BY <1>1, <1>4, <1>5, <1>6, StagedKept, FlowKept DEF WalletInv

LEMMA VerifyLinkWallet == ASSUME WalletInv, VerifyLink, UNCHANGED wallet PROVE WalletInv'
<1>1. /\ pc = "links" /\ UNCHANGED <<mode, chain, prepared, context>> /\ next' = next + 1
      /\ errors' = (errors \/ chain[next].iss # chain[next + 1].sub
                           \/ ~Verifies(chain[next], chain[next + 1].jwks, now))
      /\ pc' = IF next + 1 = Len(chain) THEN "anchor" ELSE "links"
  BY DEF VerifyLink
<1>2. /\ Shaped(chain) /\ chain \in Chains /\ errors \in BOOLEAN
      /\ next \in 1..(Len(chain) - 1)
      /\ ~errors => \A i \in 1..(next - 1) : Linked(chain, i)
  BY <1>1 DEF WalletInv, Signed
<1>3. Len(chain) \in Nat \ {0}
  BY <1>2, SubordinatesFacts DEF Shaped
<1>4. ASSUME ~errors' PROVE \A i \in 1..next : Linked(chain, i)
  <2>1. ~errors /\ Linked(chain, next)
    BY <1>1, <1>4 DEF Verifies, Linked
  <2>2. \A i \in 1..next : i = next \/ i \in 1..(next - 1)
    BY <1>2
  <2> QED
    BY <1>2, <2>1, <2>2
<1>5. errors' \in BOOLEAN
  BY <1>1
<1>6. CASE next + 1 = Len(chain)
  <2>1. pc' = "anchor" /\ next = Len(chain) - 1
    BY <1>1, <1>2, <1>3, <1>6
  <2> QED
    BY <1>1, <1>2, <1>4, <1>5, <2>1, StagedKept, FlowKept DEF WalletInv, Signed, Resolving, Marking
<1>7. CASE next + 1 # Len(chain)
  <2>1. pc' = "links" /\ next' \in 1..(Len(chain) - 1) /\ next' - 1 = next
    BY <1>1, <1>2, <1>3, <1>7
  <2> QED
    BY <1>1, <1>2, <1>4, <1>5, <2>1, StagedKept, FlowKept DEF WalletInv, Signed, Resolving, Marking
<1> QED
  BY <1>6, <1>7

LEMMA VerifyAnchorWallet == ASSUME WalletInv, VerifyAnchor, UNCHANGED wallet PROVE WalletInv'
<1> DEFINE last == chain[Len(chain)]
<1>1. /\ pc = "anchor" /\ UNCHANGED <<mode, chain, prepared, context>> /\ errors' \in BOOLEAN
      /\ pc' \in {"rejected", "resolve"}
      /\ pc' = "resolve" => /\ ~errors /\ last.iss \in Anchors
                            /\ Verifies(last, AnchorKeys[last.iss], now)
  BY DEF VerifyAnchor
<1>2. /\ Shaped(chain) /\ chain \in Chains
      /\ ~errors => \A i \in 1..(Len(chain) - 1) : Linked(chain, i)
  BY <1>1 DEF WalletInv, Signed
<1>3. pc' = "resolve" => Proven(chain)
  BY <1>1, <1>2 DEF Proven, Anchored, Verifies
<1>4. Signed' /\ Resolving' /\ Marking'
  BY <1>1, <1>2, <1>3 DEF Signed, Resolving, Marking
<1> QED
  BY <1>1, <1>4, StagedKept, FlowKept DEF WalletInv

LEMMA ResolveMetadataWallet == ASSUME WalletInv, ResolveMetadata, UNCHANGED wallet PROVE WalletInv'
<1> DEFINE fails == \E p \in PolicyParams(chain) : MergedPolicy(chain, p).fails
           v == ValuesOf(chain, context)
           off == OffOf(mode, chain, context)
           r == MetaOf(mode, chain, context)
<1>1. /\ pc = "resolve" /\ UNCHANGED <<mode, chain, prepared, context>> /\ next' = 1
      /\ pc' = IF mode = "structure" \/ chain[1].marks = <<>> THEN "conclude" ELSE "marks"
      /\ types' = TypesOf(chain)
      /\ meta' = IF fails THEN v ELSE r
      /\ pending' = IF fails THEN {} ELSE off
      /\ errors' = (~ConstraintsOK(chain) \/ fails \/ \E p \in Params : r[p] = Failure)
  BY DEF ResolveMetadata, TypesOf, ValuesOf, PublishedFor, OffOf, MetaOf
<1>2. Shaped(chain) /\ chain \in Chains /\ Proven(chain)
  BY <1>1 DEF WalletInv, Signed, PublicationOnly
<1>3. errors' \in BOOLEAN
  BY <1>1
<1>4. Signed'
  BY <1>1, <1>2, <1>3 DEF Signed
<1>5. Resolving'
  <2>1. pc' \notin {"prepared", "accepted"}
    BY <1>1
  <2>2. ~errors' => ~fails /\ \A p \in Params : r[p] # Failure
    BY <1>1
  <2> HIDE DEF r, v, off
  <2>3. ~errors' => types' = TypesOf(chain) /\ meta' = r /\ pending' = off
    BY <1>1, <2>2
  <2> QED
    BY <1>1, <2>1, <2>2, <2>3 DEF Resolving, r, off
<1>6. Marking'
  <2>1. /\ Len(chain[1].marks) \in Nat /\ DOMAIN chain[1].marks = 1..Len(chain[1].marks)
        /\ IsSequence(chain[1].marks)
    <3>1. 1 \in DOMAIN chain
      BY <1>2, ChainFacts, SubordinatesFacts DEF Shaped
    <3> QED
      BY <1>2, <3>1, ChainFacts, ChainsAssumption
  <2>2. CASE pc' = "conclude"
    <3>1. mode \in {"validate", "complete"} => DOMAIN chain[1].marks = {}
      BY <1>1, <2>2
    <3> QED
      BY <1>1, <2>2, <3>1 DEF Marking
  <2>3. CASE pc' = "marks"
    <3>1. chain[1].marks # <<>>
      BY <1>1, <2>3
    <3>2. Len(chain[1].marks) # 0
      BY <2>1, <3>1 DEF IsSequence
    <3>3. next' \in 1..Len(chain[1].marks) /\ \A i \in 1..(next' - 1) : FALSE
      BY <1>1, <2>1, <3>2
    <3> QED
      BY <1>1, <2>3, <3>3 DEF Marking
  <2> QED
    BY <1>1, <2>2, <2>3
<1> QED
  BY <1>1, <1>4, <1>5, <1>6, StagedKept, FlowKept DEF WalletInv

LEMMA VerifyMarkWallet == ASSUME WalletInv, VerifyMark, UNCHANGED wallet PROVE WalletInv'
<1>1. /\ pc = "marks" /\ UNCHANGED <<mode, chain, prepared, context, types, meta, pending>>
      /\ next' = next + 1
      /\ errors' = (errors \/ ~MarkOK(chain, chain[1].marks[next], now))
      /\ pc' = IF next = Len(chain[1].marks) THEN "conclude" ELSE "marks"
  BY DEF VerifyMark
<1>2. Shaped(chain) /\ chain \in Chains /\ Proven(chain) /\ errors \in BOOLEAN
  BY <1>1 DEF WalletInv, Signed, PublicationOnly
<1>3. /\ next \in 1..Len(chain[1].marks)
      /\ ~errors => \A i \in 1..(next - 1) : Vouched(chain, chain[1].marks[i])
  BY <1>1 DEF WalletInv, Marking
<1>4. errors' \in BOOLEAN /\ (errors => errors')
  BY <1>1, <1>2
<1>5. Signed'
  BY <1>1, <1>2, <1>4 DEF Signed
<1>6. Resolving'
  BY <1>1, <1>4 DEF WalletInv, Resolving, PublicationOnly
<1>7. Len(chain[1].marks) \in Nat /\ DOMAIN chain[1].marks = 1..Len(chain[1].marks)
  <2>1. 1 \in DOMAIN chain
    BY <1>2, ChainFacts, SubordinatesFacts DEF Shaped
  <2> QED
    BY <1>2, <2>1, ChainFacts
<1>8. ASSUME ~errors' PROVE \A i \in 1..next : Vouched(chain, chain[1].marks[i])
  <2>1. ~errors /\ Vouched(chain, chain[1].marks[next])
    BY <1>1, <1>8, MarkVouched
  <2>2. \A i \in 1..next : i = next \/ i \in 1..(next - 1)
    BY <1>3
  <2> QED
    BY <1>3, <2>1, <2>2
<1>9. Marking'
  <2>1. CASE next = Len(chain[1].marks)
    BY <1>1, <1>7, <1>8, <2>1 DEF Marking
  <2>2. CASE next # Len(chain[1].marks)
    <3>1. pc' = "marks" /\ next' \in 1..Len(chain[1].marks) /\ next' - 1 = next
      BY <1>1, <1>3, <1>7, <2>2
    <3> QED
      BY <1>1, <1>8, <3>1 DEF Marking
  <2> QED
    BY <2>1, <2>2
<1> QED
  BY <1>1, <1>5, <1>6, <1>9, StagedKept, FlowKept DEF WalletInv

LEMMA ConcludeWallet == ASSUME WalletInv, Conclude, UNCHANGED wallet PROVE WalletInv'
<1>1. /\ pc = "conclude"
      /\ UNCHANGED <<mode, chain, context, next, errors, types, meta, pending>>
  BY DEF Conclude, callVars
<1>2. Shaped(chain) /\ chain \in Chains /\ Proven(chain) /\ errors \in BOOLEAN
  BY <1>1 DEF WalletInv, Signed, PublicationOnly
<1>3. Flow'
  BY <1>1, FlowKept
<1>4. CASE pc' = "rejected" /\ UNCHANGED prepared
  <2>1. Signed' /\ Resolving' /\ Marking'
    BY <1>1, <1>2, <1>4 DEF Signed, Resolving, Marking
  <2> QED
    BY <1>1, <1>3, <1>4, <2>1, StagedKept DEF WalletInv
<1>5. CASE /\ ~errors /\ mode = "prepare" /\ pc' = "prepared"
           /\ prepared' = [live |-> TRUE, expiresAt |-> ExpiresAt(chain), types |-> types,
                           meta |-> meta, pending |-> pending]
  <2>1. Signed' /\ Marking'
    BY <1>1, <1>2, <1>5 DEF Signed, Marking
  <2>2. Resolving'
    BY <1>1, <1>5 DEF WalletInv, Resolving, PublicationOnly
  <2>3. /\ types = TypesOf(chain) /\ pending = OffOf(mode, chain, context)
        /\ meta = MetaOf(mode, chain, context)
    BY <1>1, <1>5 DEF WalletInv, Resolving, PublicationOnly
  <2>4. context = NoValue /\ context \in [Params -> Values]
    BY <1>5 DEF WalletInv, Staged
  <2>5. Staged'
    BY <1>1, <1>5, <2>3, <2>4 DEF Staged
  <2> QED
    BY <1>3, <2>1, <2>2, <2>5 DEF WalletInv
<1>6. CASE ~errors /\ mode # "prepare" /\ pc' = "accepted" /\ UNCHANGED prepared
  <2>1. Signed'
    BY <1>1, <1>2, <1>6 DEF Signed
  <2>2. Resolving'
    BY <1>1, <1>6 DEF WalletInv, Resolving, PublicationOnly
  <2>3. Marking'
    BY <1>1, <1>6 DEF WalletInv, Marking
  <2> QED
    BY <1>1, <1>3, <1>6, <2>1, <2>2, <2>3, StagedKept DEF WalletInv
<1> QED
  BY <1>2, <1>4, <1>5, <1>6 DEF Conclude
----------------------------------------------------------------------------
LEMMA NextPathWallet == ASSUME WalletInv, NextPath PROVE WalletInv'
<1>1. /\ wpc = "preparing" /\ pc \in {"rejected", "prepared"} /\ prepared' = None
      /\ UNCHANGED <<mode, next, errors, types, meta, pending, context, request>>
      /\ paths' = Tail(paths)
  BY DEF NextPath
<1>2. mode = "prepare" /\ paths \in Seq(Chains) /\ paths # <<>> /\ request \in Requests
  BY <1>1 DEF WalletInv, Flow
<1>3. context = NoValue /\ context \in [Params -> Values]
  BY <1>2 DEF WalletInv, Staged
<1>4. CASE Tail(paths) = <<>>
  <2>1. wpc' = "failed" /\ UNCHANGED <<pc, chain>>
    BY <1>4 DEF NextPath
  <2>2. Signed' /\ Resolving' /\ Marking'
    BY <1>1, <2>1 DEF WalletInv, Signed, Resolving, Marking, PublicationOnly
  <2>3. Staged'
    BY <1>1, <1>2, <1>3, <2>1, AbsentValue DEF Staged
  <2>4. Flow'
    BY <1>1, <1>2, <2>1 DEF Flow
  <2> QED
    BY <2>2, <2>3, <2>4 DEF WalletInv
<1>5. CASE Tail(paths) # <<>>
  <2>1. UNCHANGED wpc /\ pc' = "idle" /\ chain' = paths[2]
    BY <1>5 DEF NextPath
  <2>2. chain' \in Chains /\ Tail(paths) \in Seq(Chains)
    <3>1. Tail(paths) \in Seq(Chains) /\ Len(paths) \in Nat /\ Len(Tail(paths)) = Len(paths) - 1
      BY <1>2
    <3>2. Len(Tail(paths)) # 0
      BY <1>5, <3>1
    <3>3. 2 \in 1..Len(paths)
      BY <3>1, <3>2
    <3> QED
      BY <1>2, <2>1, <3>1, <3>3
  <2>3. Signed' /\ Resolving' /\ Marking'
    BY <1>1, <2>1, <2>2 DEF WalletInv, Signed, Resolving, Marking
  <2>4. Staged'
    BY <1>1, <1>2, <1>3, <2>1, AbsentValue DEF Staged
  <2>5. Flow'
    BY <1>1, <1>2, <1>5, <2>1, <2>2 DEF Flow
  <2> QED
    BY <2>3, <2>4, <2>5 DEF WalletInv
<1> QED
  BY <1>4, <1>5

(* Steps of the wallet that leave the validation alone.                    *)
LEMMA ValidationKept ==
    ASSUME WalletInv, UNCHANGED <<pc, callVars, prepared, request>>,
           wpc' = "failed" \/ wpc # "failed"
    PROVE  Signed' /\ Resolving' /\ Marking' /\ Staged'
<1>1. UNCHANGED <<mode, chain, started, next, errors, types, meta, pending, context>>
  BY DEF callVars
<1>2. ContextOf(request)' = ContextOf(request)
  BY DEF ContextOf
<1>3. Signed' /\ Resolving' /\ Marking'
  BY <1>1 DEF WalletInv, Signed, Resolving, Marking, PublicationOnly
<1>4. Staged'
  BY <1>1, <1>2 DEF WalletInv, Staged
<1> QED
  BY <1>3, <1>4

LEMMA PrepareRequestWallet ==
    ASSUME WalletInv, NEW found \in BOOLEAN, PrepareRequest(found) PROVE WalletInv'
<1>1. /\ wpc = "preparing" /\ pc = "prepared" /\ wpc' \in {"waiting", "failed"}
      /\ UNCHANGED <<now, pc, callVars, prepared, request>> /\ UNCHANGED mode
  BY DEF PrepareRequest, vars, callVars
<1>2. mode = "prepare" /\ request \in Requests
  BY <1>1 DEF WalletInv, Flow
<1>3. Flow'
  BY <1>1, <1>2 DEF Flow
<1> QED
  BY <1>1, <1>3, ValidationKept DEF WalletInv

LEMMA BeginCompleteWallet == ASSUME WalletInv, BeginComplete PROVE WalletInv'
<1>1. /\ wpc = "waiting" /\ wpc' \in {"verifying", "failed"}
      /\ UNCHANGED <<now, pc, callVars, prepared, request>> /\ UNCHANGED mode
  BY DEF BeginComplete, vars, callVars
<1>2. pc = "prepared" /\ mode = "prepare" /\ request \in Requests
  BY <1>1 DEF WalletInv, Flow, Staged
<1>3. Flow'
  BY <1>1, <1>2 DEF Flow
<1> QED
  BY <1>1, <1>3, ValidationKept DEF WalletInv

LEMMA VerifyRequestWallet ==
    ASSUME WalletInv, NEW authentic \in BOOLEAN, VerifyRequest(authentic) PROVE WalletInv'
<1>1. wpc = "verifying" /\ UNCHANGED <<paths, request, effective>>
  BY DEF VerifyRequest
<1>2. pc = "prepared" /\ mode = "prepare" /\ request \in Requests /\ prepared.live
  BY <1>1 DEF WalletInv, Flow, Staged
<1>3. chain \in Chains /\ Shaped(chain)
  BY <1>2 DEF WalletInv, Signed
<1>4. CASE wpc' = "failed" /\ UNCHANGED vars
  <2>1. UNCHANGED <<now, pc, callVars, prepared, request>> /\ UNCHANGED mode
    BY <1>1, <1>4 DEF vars, callVars
  <2>2. Flow'
    BY <1>2, <1>4, <2>1 DEF Flow
  <2> QED
    BY <1>4, <2>1, <2>2, ValidationKept DEF WalletInv
<1>5. CASE wpc' = "completing" /\ pc' = "rejected" /\ UNCHANGED <<now, aborted, callVars>>
           /\ UNCHANGED prepared
  <2>1. UNCHANGED <<mode, chain, errors, context>>
    BY <1>5 DEF callVars
  <2>2. Signed' /\ Resolving' /\ Marking'
    BY <1>3, <1>5, <2>1 DEF WalletInv, Signed, Resolving, Marking
  <2>3. Staged'
    BY <1>2, <1>5, <2>1 DEF WalletInv, Staged
  <2>4. Flow'
    BY <1>1, <1>2, <1>5, <2>1 DEF Flow
  <2> QED
    BY <2>2, <2>3, <2>4 DEF WalletInv
<1>6. CASE /\ wpc' = "completing" /\ Enter("complete", chain, ContextOf(request))
           /\ \A p \in Params : ContextOf(request)[p] # Absent => p \in prepared.pending
           /\ UNCHANGED prepared
  <2>1. /\ mode' = "complete" /\ UNCHANGED <<chain, prepared>> /\ context' = ContextOf(request)
        /\ next' = 1 /\ errors' = FALSE /\ pc' \in {"leaf", "rejected"}
    BY <1>6 DEF Enter
  <2>2. ContextOf(request) \in [Params -> Values]
    BY <1>2, AbsentValue, WalletAssumption DEF ContextOf
  <2>3. ContextOf(request)' = ContextOf(request)
    BY <1>1, <2>1 DEF ContextOf
  <2>4. Signed' /\ Resolving' /\ Marking'
    BY <1>3, <2>1 DEF Signed, Resolving, Marking
  <2> HIDE DEF ContextOf
  <2>5. Staged'
    BY <1>2, <1>6, <2>1, <2>2, <2>3 DEF WalletInv, Staged
  <2>6. Flow'
    BY <1>1, <1>2, <1>6, <2>1 DEF Flow
  <2> QED
    BY <2>4, <2>5, <2>6 DEF WalletInv
<1> QED
  BY <1>4, <1>5, <1>6 DEF VerifyRequest, Complete

LEMMA CheckRequestWallet == ASSUME WalletInv, CheckRequest PROVE WalletInv'
<1>1. /\ wpc = "completing" /\ UNCHANGED <<vars, paths, request>>
      /\ UNCHANGED <<now, pc, callVars, prepared>> /\ UNCHANGED <<mode, chain, meta>>
  BY DEF CheckRequest, vars, callVars
<1>2. request \in Requests /\ (pc = "rejected" \/ mode = "complete")
  BY <1>1 DEF WalletInv, Flow
<1>3. CASE wpc' = "failed"
  <2>1. Flow'
    BY <1>1, <1>2, <1>3 DEF Flow
  <2> QED
    BY <1>1, <1>3, <2>1, ValidationKept DEF WalletInv
<1>4. CASE wpc' = "hooks" /\ effective' = Effective /\ Effective # Absent /\ pc = "accepted"
  <2>1. Effective' = Effective
    BY <1>1 DEF Effective, SuperiorQueries, IsEC
  <2>2. Flow'
    BY <1>1, <1>2, <1>4, <2>1 DEF Flow
  <2> QED
    BY <1>1, <1>4, <2>2, ValidationKept DEF WalletInv
<1> QED
  BY <1>3, <1>4 DEF CheckRequest

LEMMA HooksWallet == ASSUME WalletInv, NEW accept \in BOOLEAN, Hooks(accept) PROVE WalletInv'
<1>1. /\ wpc = "hooks" /\ UNCHANGED <<paths, request, effective>>
      /\ UNCHANGED <<now, pc, callVars, prepared>> /\ UNCHANGED <<mode, chain, meta>>
      /\ wpc' = "failed" \/ (wpc' = "validated" /\ ExpiresAt(chain) > now)
  BY DEF Hooks, vars, callVars
<1>2. /\ request \in Requests /\ pc = "accepted" /\ mode = "complete"
      /\ effective = Effective /\ effective # Absent
  BY <1>1 DEF WalletInv, Flow
<1>3. Effective' = Effective /\ ExpiresAt(chain)' = ExpiresAt(chain)
  BY <1>1 DEF Effective, SuperiorQueries, IsEC, ExpiresAt
<1>4. Flow'
  BY <1>1, <1>2, <1>3 DEF Flow
<1> QED
  BY <1>1, <1>4, ValidationKept DEF WalletInv

LEMMA EnvironmentWallet == ASSUME WalletInv, Environment PROVE WalletInv'
<1>1. /\ wpc # "validated" /\ UNCHANGED wallet /\ UNCHANGED <<paths, request, wpc, effective>>
      /\ UNCHANGED <<pc, callVars, prepared>> /\ UNCHANGED <<mode, chain, meta>>
  BY DEF Environment, Tick, Abort, wallet, callVars
<1>2. Effective' = Effective
  BY <1>1 DEF Effective, SuperiorQueries, IsEC
<1>3. Flow'
  BY <1>1, <1>2 DEF WalletInv, Flow
<1> QED
  BY <1>1, <1>3, ValidationKept DEF WalletInv

LEMMA StutterWallet == ASSUME WalletInv, UNCHANGED allVars PROVE WalletInv'
<1>1. /\ UNCHANGED <<now, pc, callVars, prepared>> /\ UNCHANGED <<mode, chain, meta>>
      /\ UNCHANGED <<paths, request, wpc, effective>>
  BY DEF allVars, vars, wallet, callVars
<1>2. Effective' = Effective /\ ExpiresAt(chain)' = ExpiresAt(chain)
  BY <1>1 DEF Effective, SuperiorQueries, IsEC, ExpiresAt
<1>3. Flow'
  BY <1>1, <1>2 DEF WalletInv, Flow
<1> QED
  BY <1>1, <1>3, ValidationKept DEF WalletInv

LEMMA NextWallet == WalletInv /\ [WalletNext]_allVars => WalletInv'
<1> SUFFICES ASSUME WalletInv, [WalletNext]_allVars PROVE WalletInv'
  OBVIOUS
<1>1. ASSUME Validation PROVE WalletInv'
  BY <1>1, BeginWallet, BeginAbortedWallet, VerifyLeafWallet, VerifyLinkWallet, VerifyAnchorWallet,
     ResolveMetadataWallet, VerifyMarkWallet, ConcludeWallet DEF Validation, Validate
<1>2. ASSUME WalletStep PROVE WalletInv'
  BY <1>1, <1>2, NextPathWallet, BeginCompleteWallet, CheckRequestWallet, PrepareRequestWallet,
     VerifyRequestWallet, HooksWallet DEF WalletStep
<1> QED
  BY <1>2, EnvironmentWallet, StutterWallet DEF WalletNext, Returned
----------------------------------------------------------------------------
(* What the callers rely on.                                               *)

(* The inductive invariant holds: a verdict stands on checked links, a     *)
(* merged policy and vouched marks of the one chain it is about            *)
(* (validate.ts and wallet/request.ts).                                    *)
THEOREM WalletCorrect == WalletSpec => []WalletInv
BY InitWallet, NextWallet, PTL DEF WalletSpec

(* Whatever the chain's length, a verdict vouches for every signature of   *)
(* it, although the caller knows only the anchor's keys (validate.ts,      *)
(* 986-1064).                                                              *)
THEOREM AuthenticChains == WalletSpec => []ChainAuthentic
<1>1. ASSUME WalletInv PROVE ChainAuthentic
  <2> SUFFICES ASSUME pc \in {"prepared", "accepted"}, mode # "publication"
               PROVE  \A i \in DOMAIN chain : chain[i].key = KeyOf[chain[i].iss]
    BY DEF ChainAuthentic
  <2>1. chain \in Chains /\ chain # <<>> /\ Proven(chain)
    BY <1>1 DEF WalletInv, Signed, Shaped, PublicationOnly
  <2> QED
    BY <2>1, ProvenAuthentic
<1> QED
  BY <1>1, WalletCorrect, PTL

(* Every mark of an accepted leaf comes from the issuer it names, and from *)
(* one its type's owner chose, whatever the number of marks and the awaits *)
(* between them (validateTrustMark, trust-marks/index.ts).                 *)
THEOREM AuthenticMarks == WalletSpec => []MarksAuthentic
<1>1. ASSUME WalletInv PROVE MarksAuthentic
  <2> SUFFICES ASSUME pc = "accepted", mode \in {"validate", "complete"},
                      NEW i \in DOMAIN chain[1].marks
               PROVE  LET mark == chain[1].marks[i]
                          owner == chain[Len(chain)].markOwners[mark.type]
                      IN  /\ mark.key = KeyOf[mark.iss] /\ mark.sub = chain[1].sub
                          /\ owner.sub # "none" => /\ mark.delegation.key = KeyOf[owner.sub]
                                                   /\ mark.delegation.sub = mark.iss
    BY DEF MarksAuthentic
  <2>1. chain \in Chains /\ Shaped(chain) /\ Proven(chain) /\ ~errors
    BY <1>1 DEF WalletInv, Signed, Resolving, PublicationOnly
  <2>2. chain # <<>> /\ 1 \in DOMAIN chain
    <3>1. chain # <<>>
      BY <2>1 DEF Shaped
    <3> QED
      BY <2>1, <3>1, SubordinatesFacts, ChainFacts
  <2>3. chain[1].sub = chain[1].iss
    BY <2>1, <2>2 DEF Shaped, PositionOK, IsEC
  <2> DEFINE mark == chain[1].marks[i]
  <2>4. mark.iss \in Entities
    BY <2>1, <2>2, ChainsAssumption
  <2>5. Vouched(chain, mark)
    BY <1>1, <2>1 DEF WalletInv, Marking
  <2> HIDE DEF mark
  <2>6. LET owner == chain[Len(chain)].markOwners[mark.type]
        IN  /\ mark.key = KeyOf[mark.iss] /\ mark.sub = chain[1].iss
            /\ owner.sub # "none" =>
                 mark.delegation.key = KeyOf[owner.sub] /\ mark.delegation.sub = mark.iss
    BY <2>1, <2>2, <2>4, <2>5, VouchedTrue
  <2> QED
    BY <2>3, <2>6 DEF mark
<1> QED
  BY <1>1, WalletCorrect, PTL

(* An accepted chain obeys every superior: the policy merged along a chain *)
(* of any length forces what each statement of it demands, the deferred    *)
(* parameter included (resolveMetadataPolicy and applyMetadataPolicy).     *)
THEOREM PoliciesAreSettled == WalletSpec => []PoliciesSettled
<1>1. ASSUME WalletInv PROVE PoliciesSettled
  <2> SUFFICES ASSUME pc = "accepted", mode # "publication",
                      NEW i \in 2..Len(chain), NEW p \in DOMAIN chain[i].policy,
                      NEW o \in DOMAIN chain[i].policy[p] \cap Standard
               PROVE  Obeys(meta[p], o, chain[i].policy[p][o])
    BY DEF PoliciesSettled
  <2>1. chain \in Chains /\ Shaped(chain) /\ chain # <<>>
    BY <1>1 DEF WalletInv, Signed, Shaped
  <2>2. i \in DOMAIN chain
    BY <2>1, ChainFacts
  <2>3. p \in Params /\ p \in PolicyParams(chain)
    BY <2>1, <2>2, ChainFacts DEF PolicyParams
  <2>4. /\ ~MergedPolicy(chain, p).fails
        /\ meta = MetaOf(mode, chain, context) /\ meta[p] # Failure
    BY <1>1, <2>3 DEF WalletInv, Resolving, PublicationOnly
  <2>5. mode # "prepare" /\ context \in [Params -> Values]
    BY <1>1 DEF WalletInv, Staged
  <2> DEFINE v == ValuesOf(chain, context)[p]
  <2>6. v \in Values
    BY <2>1, <2>3, <2>5, ValuesTyped
  <2>7. meta[p] = Applied(MergedPolicy(chain, p).ops, v, IsScope(p))
    BY <2>3, <2>4, <2>5 DEF MetaOf, OffOf, Resolved
  <2> HIDE DEF v
  <2> QED
    BY <2>1, <2>3, <2>4, <2>6, <2>7, SuperiorsSettled
<1> QED
  BY <1>1, WalletCorrect, PTL

(* The completion confirms the preparation in all that was not pending,    *)
(* whatever the time, the abort and the client's query in between          *)
(* (completeTrustChainValidation, validate.ts, line 508).                  *)
THEOREM PreparationsStand == WalletSpec => []PreparationStands
<1>1. ASSUME WalletInv PROVE PreparationStands
  <2> SUFFICES ASSUME pc = "accepted", mode = "complete"
               PROVE  /\ types = prepared.types
                      /\ \A p \in Params \ prepared.pending : meta[p] = prepared.meta[p]
    BY DEF PreparationStands
  <2>1. types = TypesOf(chain) /\ meta = MetaOf(mode, chain, context)
    BY <1>1 DEF WalletInv, Resolving, PublicationOnly
  <2>2. /\ prepared.live /\ \A p \in Params : context[p] # Absent => p \in prepared.pending
        /\ prepared.types = TypesOf(chain)
        /\ prepared.pending = OffOf("prepare", chain, NoValue)
        /\ prepared.meta = MetaOf("prepare", chain, NoValue)
    BY <1>1 DEF WalletInv, Staged
  <2>3. ASSUME NEW p \in Params \ prepared.pending PROVE meta[p] = prepared.meta[p]
    <3>1. context[p] = NoValue[p]
      BY <2>2 DEF NoValue
    <3>2. ValuesOf(chain, context)[p] = ValuesOf(chain, NoValue)[p]
      BY <3>1 DEF ValuesOf, WithContext
    <3>3. p \notin OffOf("prepare", chain, NoValue) /\ p \notin OffOf(mode, chain, context)
      BY <2>2 DEF OffOf
    <3> QED
      BY <2>1, <2>2, <3>2, <3>3 DEF MetaOf, Resolved
  <2> QED
    BY <2>1, <2>2, <2>3
<1> QED
  BY <1>1, WalletCorrect, PTL

(* The queries a wallet answers follow the rule of its guide, from a chain *)
(* that has not expired (effectiveQueries, wallet/request.ts): for every   *)
(* chain, policy and request.                                              *)
THEOREM QueriesAreJustified == WalletSpec => []QueriesJustified
<1>1. ASSUME WalletInv PROVE QueriesJustified
  <2> DEFINE allowed == Verifier \in AllowedTypes(chain)
             published == IF allowed THEN Published(chain)[Queries] ELSE Absent
             policed == Queries \in PolicyParams(chain)
             basis == IF allowed /\ policed /\ published = Absent THEN request.clientQuery
                      ELSE published
             value == IF policed THEN Applied(MergedPolicy(chain, Queries).ops, basis, IsScope(Queries))
                      ELSE basis
  <2> SUFFICES ASSUME wpc = "validated"
               PROVE  /\ value # Failure /\ now < ExpiresAt(chain)
                      /\ effective = IF value = Absent THEN request.query ELSE value
    BY DEF QueriesJustified
  <2>1. /\ pc = "accepted" /\ mode = "complete" /\ ExpiresAt(chain) > now
        /\ effective = Effective /\ effective # Absent
    BY <1>1 DEF WalletInv, Flow
  <2>2. /\ meta = MetaOf(mode, chain, context) /\ \A p \in Params : meta[p] # Failure
    BY <1>1, <2>1 DEF WalletInv, Resolving, PublicationOnly
  <2>3. /\ prepared.pending = OffOf("prepare", chain, NoValue) /\ context = ContextOf(request)
    BY <1>1, <2>1 DEF WalletInv, Staged
  <2>4. Queries \in Params /\ Queries \in Deferred /\ Deferred = {Queries}
    BY WalletAssumption, ValidationAssumption
  <2>5. PublishedFor(chain)[Queries] = published
    BY <2>4 DEF PublishedFor, Verifier
  <2>6. allowed /\ published = Absent /\ policed => prepared.pending # {}
    <3>1. allowed /\ published = Absent => ValuesOf(chain, NoValue)[Queries] = Absent
      BY <2>4, <2>5 DEF ValuesOf, WithContext, NoValue
    <3> QED
      BY <2>3, <2>4, <3>1 DEF OffOf, PutOff, Verifier
  <2>7. ~policed => prepared.pending = {}
    BY <2>3, <2>4 DEF OffOf, PutOff
  <2>8. context[Queries] = IF prepared.pending # {} THEN request.clientQuery ELSE Absent
    BY <2>3, <2>4 DEF ContextOf
  <2>9. ValuesOf(chain, context)[Queries] =
          IF published = Absent /\ allowed THEN context[Queries] ELSE published
    BY <2>4, <2>5 DEF ValuesOf, WithContext, Verifier
  <2>10. ValuesOf(chain, context)[Queries] = basis
    <3> HIDE DEF allowed, policed, published
    <3> QED
      BY <2>6, <2>7, <2>8, <2>9
  <2>11. meta[Queries] = value
    BY <2>1, <2>2, <2>4, <2>10 DEF MetaOf, OffOf, Resolved
  <2>12. value # Failure
    BY <2>2, <2>4, <2>11
  <2> HIDE DEF value
  <2>13. effective = IF value = Absent THEN request.query ELSE value
    BY <2>1, <2>11 DEF Effective
  <2> QED
    BY <2>1, <2>12, <2>13
<1> QED
  BY <1>1, WalletCorrect, PTL
=============================================================================
