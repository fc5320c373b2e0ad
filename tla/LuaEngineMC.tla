----------------------------- MODULE LuaEngineMC -----------------------------
(***************************************************************************)
(* Documents and heaps for LuaEngine: three tables that may be typed or    *)
(* not, share each other, contain themselves or have holes.                *)
(***************************************************************************)
EXTENDS LuaEngine, TLC

CONSTANTS a, b, odd

Root == <<>>
MCNull == <<0>>
One == <<a>>
Two == <<b>>
MCTables == {Root, One, Two}

MCDocuments ==
    {<<>> :> kind : kind \in {"null", "object", "array", "huge", "overflow"}} \cup
    {(<<>> :> "object") @@ (One :> x) @@ (Two :> "array") @@ (<<b, 1>> :> y) @@ (<<b, 2>> :> "null") :
        x \in {"object", "array", "int64", "overflow"}, y \in {"object", "float64", "string"}}

Values == {Value("table", t) : t \in MCTables \cup {MCNull}} \cup {Value("int", One)}

Empty == <<>>
Shape(keys) == [keys -> Values]

\* The first table holds any two values, the others at most one.
MCHeaps ==
    {[root |-> Value("table", Root),
      entries |-> (Root :> r) @@ (One :> s) @@ (Two :> t),
      meta |-> (Root :> m) @@ (One :> "none") @@ (Two :> "none"),
      length |-> (Root :> n) @@ (One :> Cardinality(DOMAIN s)) @@ (Two :> Cardinality(DOMAIN t))] :
        r \in Shape({a, b}) \cup Shape({1, 2}), s \in {Empty} \cup Shape({1}), t \in {Empty} \cup Shape({a}),
        m \in {"none"}, n \in {2}}

Single(keys, m, n) ==
    [root |-> Value("table", Root), entries |-> (Root :> [k \in keys |-> Value("int", <<k>>)]),
     meta |-> Root :> m, length |-> Root :> n]

Forms == {"object", "array", "null", "none"}
MCShapes ==
    UNION {{Single(keys, m, n) : m \in Forms, n \in Borders(keys)} :
              keys \in {{}, {1}, {2}, {1, 2}, {1, 3}, {1, 2, 4}, {0, 1}, {a}, {a, 1}, {a, odd}}}

MCScalars ==
    {[root |-> Value(type, One), entries |-> <<>>, meta |-> <<>>, length |-> <<>>] :
        type \in {"nil", "string", "nan", "function"}}

MCResults == MCHeaps \cup MCShapes \cup MCScalars
==============================================================================
