----------------------------- MODULE ProductMerge -----------------------------
(***************************************************************************)
(* The product merge of the representative workload, twice: the reference  *)
(* model in Go (internal/reference/product.go) and the Lua program a       *)
(* Worker runs (programs/product_merge.lua).  Fields the code treats alike *)
(* are one field: title for the scalars, prices for the replaced lists,    *)
(* stocks for the two histories whose items are told apart by JSON, which  *)
(* each side renders in its own way, countries for the string sets.  A nil *)
(* list and an empty one are the same, as both sides return them alike;    *)
(* time zero is no time.                                                   *)
(***************************************************************************)
EXTENDS MergeLists

CONSTANTS
  HistoryLimit,   \* the limit of the histories (20)
  OfferLimit,     \* the limit of the offers (50)
  Tostring        \* function from numbers to the text Lua makes of them

Nothing == [uid |-> "", uids |-> <<>>, title |-> "", prices |-> <<>>,
            solds |-> <<>>, stocks |-> <<>>, comment_count |-> 0, offers |-> <<>>,
            countries |-> <<>>, first_found_at |-> NoTime,
            last_found_at |-> NoTime, evicted_at |-> NoTime,
            available |-> FALSE]

\* A document that can be decoded: its lists are lists.
IsDocument(p) ==
  /\ p = [f \in DOMAIN Nothing |-> p[f]]
  /\ \A f \in {"uids", "prices", "solds", "stocks", "offers", "countries"} : IsList(p[f])

------------------------------------------------------------------------------
(* The reference model *)

\* Mutated form: what is already there precedes what comes in.
MergedOffersLast(current, incoming) ==
  KeepTail(Extended(current, incoming, OwnKey), OfferLimit)

\* Incoming offers precede, and so supersede, the current ones.
MergedOffers(current, incoming) ==
  KeepTail(IF incoming = <<>> THEN current
           ELSE UniqueItems(incoming \o current, OwnKey), OfferLimit)

\* Mutated form: what is already there is appended again.
MergedSoldsRepeated(current, incoming) ==
  KeepTail(current \o incoming, HistoryLimit)

MergedSolds(current, incoming) ==
  KeepTail(Extended(current, incoming, OwnKey), HistoryLimit)

\* A stock's variables are a JSON object: a function from the paths below it to
\* nodes, records of a type and of what tells it from others of that type.  The
\* empty object is <<>>.  A digest is the same for the same JSON only.
jsonDigest(value) == [sha1 |-> value]
productStockKey(item) ==
  IF item.variables = <<>> THEN <<item.stock>>
  ELSE <<item.stock, jsonDigest(item.variables)>>

MergedStocks(current, incoming) ==
  KeepTail(Extended(current, incoming, productStockKey), HistoryLimit)

MergeAt(p, incoming, at) ==
  [uid |-> Replaced(p.uid, incoming.uid, ""),
   uids |-> UniqueStrings(Nonempty(p.uids \o <<p.uid, incoming.uid>> \o incoming.uids)),
   title |-> Replaced(p.title, incoming.title, ""),
   prices |-> Replaced(p.prices, incoming.prices, <<>>),
   solds |-> MergedSolds(p.solds, incoming.solds),
   stocks |-> MergedStocks(p.stocks, incoming.stocks),
   comment_count |-> Replaced(p.comment_count, incoming.comment_count, 0),
   offers |-> MergedOffers(p.offers, incoming.offers),
   countries |-> ExtendedStrings(p.countries, incoming.countries),
   first_found_at |-> IF p.first_found_at # NoTime THEN p.first_found_at
                      ELSE Replaced(at, incoming.first_found_at, NoTime),
   last_found_at |-> at,
   evicted_at |-> Replaced(p.evicted_at, incoming.evicted_at, NoTime),
   available |-> incoming.available]

\* A missing document is Missing; the current product is first merged into
\* nothing, so that its own lists are brought into shape.
Missing == <<>>

MergeProduct(current, incoming, at) ==
  LET base == IF current = Missing THEN Nothing ELSE MergeAt(Nothing, current, at)
  IN [MergeAt(base, incoming, at) EXCEPT !.evicted_at = NoTime]

------------------------------------------------------------------------------
(* The Lua program *)

merge_uids(current, incoming) ==
  LET own  == IF Get(current, "uid", "") # "" THEN <<current.uid>> ELSE <<>>
      new  == IF Get(incoming, "uid", "") # "" THEN <<incoming.uid>> ELSE <<>>
      all  == Get(current, "uids", <<>>) \o own \o new \o Get(incoming, "uids", <<>>)
      kept == With(current, "uids", Nonempty(UniqueStrings(all)))
  IN IF new = <<>> THEN kept ELSE With(kept, "uid", incoming.uid)

\* The text made of a JSON value.  A list, an object and null are all tables,
\* so those that are empty have the same text; a number's is Lua's.
canonical(variables) ==
  [path \in DOMAIN variables |->
     LET node == variables[path] IN
     CASE node.type \in {"object", "array", "null"} -> [type |-> "table", id |-> ""]
       [] node.type = "number" -> [type |-> "number", id |-> Tostring[node.id]]
       [] OTHER -> node]

stock_key(item) == <<item.stock, canonical(item.variables)>>

history(current, incoming, field, Key(_), limit) ==
  keep_tail(deduplicate(current, incoming, field, Key), field, limit)

merge_offers(current, incoming) ==
  LET merged == IF ~HasItems(incoming, "offers") THEN current
                ELSE With(current, "offers",
                          UniqueItems(incoming.offers \o Get(current, "offers", <<>>), OwnKey))
  IN keep_tail(merged, "offers", OfferLimit)

merge_one(current, incoming, at) ==
  LET c1 == merge_uids(current, incoming)
      c2 == replace_nonempty_string(c1, incoming, "title")
      c3 == replace_nonempty_array(c2, incoming, "prices")
      c4 == history(c3, incoming, "solds", OwnKey, HistoryLimit)
      c5 == history(c4, incoming, "stocks", stock_key, HistoryLimit)
      c6 == replace_nonzero(c5, incoming, "comment_count")
      c7 == merge_offers(c6, incoming)
      c8 == union_strings(c7, incoming, "countries")
      c9 == merge_times(c8, incoming, at)
  IN With(c9, "available", Get(incoming, "available", FALSE))

Encoded(product) == Encode(product, Nothing, {"uid"})

Program(current, incoming, at) ==
  LET result == IF current = Missing THEN <<>> ELSE merge_one(<<>>, Encoded(current), at)
  IN Decode(Without(merge_one(result, Encoded(incoming), at), "evicted_at"), Nothing)

------------------------------------------------------------------------------
\* A list of limited length is full.
AtLimit(product) ==
  \/ Len(product.solds) >= HistoryLimit \/ Len(product.stocks) >= HistoryLimit
  \/ Len(product.offers) >= OfferLimit

\* Two stocks that are one to the program and two to the reference model.
Confusable(x, y) ==
  stock_key(x) = stock_key(y) /\ productStockKey(x) # productStockKey(y)

\* The same but for the time it was last seen and the order of its aliases.
SameButTime(p, q) ==
  /\ [p EXCEPT !.last_found_at = NoTime, !.uids = <<>>]
       = [q EXCEPT !.last_found_at = NoTime, !.uids = <<>>]
  /\ ToSet(p.uids) = ToSet(q.uids)
==============================================================================
