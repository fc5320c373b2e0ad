----------------------------- MODULE JsonBridge -----------------------------
(***************************************************************************)
(* internal/luatest/json_bridge.go: how a JSON document becomes Lua tables *)
(* and what a table is in JSON.  A document is a function from paths to    *)
(* kinds of values; a path is the sequence of keys that leads there.  A    *)
(* heap holds tables, which may be shared or contain themselves: their     *)
(* entries, their metatables and what Lua answers for their lengths.       *)
(* Strings, numbers and the like are told apart by an identity.            *)
(***************************************************************************)
EXTENDS Naturals, Sequences, FiniteSets

CONSTANTS
    Names,       \* keys that are strings
    NullTable    \* the table that stands for null

Containers == {"object", "array"}

\* goToLua: an integer that does not fit 64 bits is rounded, and one that does
\* not fit a float is an error.
LuaType == [bool |-> "bool", string |-> "string", int64 |-> "int",
            float64 |-> "float", huge |-> "float"]
Convertible(document) == \A p \in DOMAIN document : document[p] # "overflow"

\* luaToGo.
GoKind == [nil |-> "null", bool |-> "bool", string |-> "string",
           int |-> "int64", float |-> "float64"]

Value(type, id) == [type |-> type, id |-> id]

\* A table's identity is the path it was made for.
ValueAt(document, p) ==
    CASE document[p] \in Containers -> Value("table", p)
      [] document[p] = "null"       -> Value("table", NullTable)
      [] OTHER                      -> Value(LuaType[document[p]], p)

KeysAt(document, p) ==
    {k \in Names \cup (1..Cardinality(DOMAIN document)) :
        Append(p, k) \in DOMAIN document}

\* What encoding/json decodes: a tree in which the elements of an array are
\* numbered and the members of an object have names.
IsJson(document) ==
    /\ DOMAIN document \subseteq Seq(Names \cup Nat) /\ <<>> \in DOMAIN document
    /\ \A p \in DOMAIN document :
          /\ document[p] \in DOMAIN LuaType \cup Containers \cup {"null", "overflow"}
          /\ p # <<>> =>
                LET parent == SubSeq(p, 1, Len(p) - 1) IN
                /\ parent \in DOMAIN document /\ document[parent] \in Containers
                /\ p[Len(p)] \in KeysAt(document, parent)
          /\ document[p] = "object" => KeysAt(document, p) \subseteq Names
          /\ document[p] = "array" =>
                KeysAt(document, p) = 1..Cardinality(KeysAt(document, p))

goToLua(document) ==
    LET tables == {p \in DOMAIN document : document[p] \in Containers}
    IN [root    |-> ValueAt(document, <<>>),
        entries |-> [p \in tables |-> [k \in KeysAt(document, p) |->
                                          ValueAt(document, Append(p, k))]],
        meta    |-> [p \in tables |-> document[p]],
        length  |-> [p \in tables |-> Cardinality(KeysAt(document, p))]]
-----------------------------------------------------------------------------
Keys(heap, t) == DOMAIN heap.entries[t]
Count(heap, t) == Cardinality(Keys(heap, t))

\* External: the lengths Lua may give a table, of which one with holes has
\* several.
Borders(keys) ==
    {n \in {0} \cup (keys \cap Nat) : n + 1 \notin keys}

\* inspectLuaTable.
LooksLikeArray(heap, t) == Keys(heap, t) \subseteq Nat \ {0}

\* Mutated form: the metatable is not looked at.
FormByContents(heap, t) ==
    IF LooksLikeArray(heap, t) /\ Keys(heap, t) # {} THEN "array" ELSE "object"

\* luaTableToGo: what a table is taken for.
Form(heap, t) ==
    IF heap.meta[t] # "none" THEN heap.meta[t]
    ELSE IF LooksLikeArray(heap, t) /\ Keys(heap, t) # {} THEN "array" ELSE "object"

\* Mutated form: an array may have holes.
ContiguousUnchecked(heap, t) == LooksLikeArray(heap, t)

\* luaArrayToGo.
Contiguous(heap, t) == LooksLikeArray(heap, t) /\ heap.length[t] = Count(heap, t)

\* The keys read from a table, and what is found there.
KeysRead(heap, t) == IF Form(heap, t) = "array" THEN 1..Count(heap, t) ELSE Keys(heap, t)
Entry(heap, t, k) ==
    IF k \in Keys(heap, t) THEN heap.entries[t][k] ELSE Value("nil", NullTable)
=============================================================================
