------------------------------ MODULE MergeLists ------------------------------
(***************************************************************************)
(* What the two merges share: the list helpers of the reference model      *)
(* (internal/reference/helpers.go) and of the Lua library that programs    *)
(* are given (internal/luatest/sink_v1.lua), and Lua tables, whose fields  *)
(* may be absent.  Duplicates are told by a key that each side computes of *)
(* an item.  Where both make the same text of the same parts of an item,   *)
(* that text is a field of the item, its own key.                          *)
(***************************************************************************)
EXTENDS Naturals, Sequences, SequencesExt

NoTime == 0

IsList(items) == items \in Seq(ToSet(items))

\* The items at some of the positions, in order.
Chosen(items, positions) ==
  FoldLeftDomain(LAMBDA kept, i : IF i \in positions THEN Append(kept, items[i]) ELSE kept,
                 <<>>, items)

\* The first item of every key.
Firsts(keys) == {i \in DOMAIN keys : \A j \in 1..(i - 1) : keys[j] # keys[i]}
Unique(items, keys) == Chosen(items, Firsts(keys))

OwnKey(item) == item.key
KeysOf(items, Key(_)) == [i \in 1..Len(items) |-> Key(items[i])]
UniqueItems(items, Key(_)) == Unique(items, KeysOf(items, Key))
UniqueStrings(items) == Unique(items, items)

KeepTail(items, limit) ==
  IF Len(items) <= limit THEN items
  ELSE SubSeq(items, Len(items) - limit + 1, Len(items))

Nonempty(items) == Chosen(items, {i \in DOMAIN items : items[i] # ""})

Replaced(current, incoming, zero) == IF incoming # zero THEN incoming ELSE current

\* Additions extend a list that keeps the first of equal items.
Extended(current, incoming, Key(_)) ==
  IF incoming = <<>> THEN current ELSE UniqueItems(current \o incoming, Key)
ExtendedStrings(current, incoming) ==
  IF incoming = <<>> THEN current ELSE UniqueStrings(current \o incoming)

------------------------------------------------------------------------------
(* Lua tables *)

Has(table, field) == field \in DOMAIN table
Get(table, field, default) == IF Has(table, field) THEN table[field] ELSE default
With(table, field, value) ==
  [f \in DOMAIN table \cup {field} |-> IF f = field THEN value ELSE table[f]]
Without(table, field) == [f \in DOMAIN table \ {field} |-> table[f]]
HasItems(table, field) == Has(table, field) /\ Len(table[field]) > 0

replace_nonempty_string(current, incoming, field) ==
  IF Get(incoming, field, "") = "" THEN current
  ELSE With(current, field, incoming[field])

replace_nonempty_array(current, incoming, field) ==
  IF HasItems(incoming, field) THEN With(current, field, incoming[field])
  ELSE current

replace_nonzero(current, incoming, field) ==
  IF Get(incoming, field, 0) # 0 THEN With(current, field, incoming[field])
  ELSE current

replace_present(current, incoming, field) ==
  IF Has(incoming, field) THEN With(current, field, incoming[field]) ELSE current

\* array.union_strings, and append_all followed by deduplicate, which is given
\* a function that computes the keys.
union_strings(current, incoming, field) ==
  IF HasItems(incoming, field)
  THEN With(current, field,
            UniqueStrings(Get(current, field, <<>>) \o incoming[field]))
  ELSE current

deduplicate(current, incoming, field, Key(_)) ==
  IF HasItems(incoming, field)
  THEN With(current, field,
            UniqueItems(Get(current, field, <<>>) \o incoming[field], Key))
  ELSE current

keep_tail(current, field, limit) ==
  IF Has(current, field) /\ Len(current[field]) > limit
  THEN With(current, field, KeepTail(current[field], limit)) ELSE current

\* JSON encoding drops the fields that are empty, unless they are required;
\* decoding restores them.
Encode(document, empty, required) ==
  [f \in required \cup {g \in DOMAIN empty : document[g] # empty[g]} |-> document[f]]
Decode(table, empty) == [f \in DOMAIN empty |-> Get(table, f, empty[f])]

merge_times(current, incoming, at) ==
  LET seen  == With(current, "last_found_at", at)
      first == IF Has(seen, "first_found_at") THEN seen
               ELSE With(seen, "first_found_at", Get(incoming, "first_found_at", at))
  IN replace_present(first, incoming, "evicted_at")
==============================================================================
