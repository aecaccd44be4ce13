------------------------- MODULE MCMetadataPolicy -------------------------
(* MetadataPolicy for TLC: two strings and an object; a statement carries  *)
(* at most two operators, one of them possibly unknown.                    *)
EXTENDS MetadataPolicy, TLC

CONSTANTS x, y, obj

(* A scope of several words, or of none. *)
Words(S) == [kind |-> "string", items |-> S, spelling |-> 1]

Arrays == {Arr(S, 1) : S \in SUBSET {x, y}}
Lists == {Arr(S, 1) : S \in {{}, {x}, {x, y}, {x, obj}}}

Entries ==
    {<<"value", v>> : v \in {Null, Scalar(x), Arr({x}, 1), Arr({x, y}, 1), Arr({x, y}, 2), Scalar(obj)}}
    \cup {<<"default", v>> : v \in {Scalar(y), Words({x, y}), Arr({x}, 1), Arr({x, y}, 2), Null}}
    \cup ({"add", "one_of", "superset_of"} \X Lists)
    \cup ({"subset_of"} \X (Arrays \cup {Scalar(x)}))
    \cup {<<"essential", True>>, <<"essential", False>>, <<"unheard_of", Null>>, <<"custom", Scalar(x)>>}

MCStatements ==
    {[o \in {e[1], f[1]} |-> IF o = e[1] THEN e[2] ELSE f[2]] : e, f \in Entries}

MCInputs ==
    {Absent, Null, True, Scalar(x), Scalar(obj), Arr({}, 1), Arr({y}, 1), Arr({x, y}, 1),
     Arr({x, obj}, 1), [kind |-> "mixed", items |-> {x}, spelling |-> 1], Words({}), Words({x, y})}
=============================================================================
