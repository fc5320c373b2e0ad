----------------------------- MODULE MergeReplayMC -----------------------------
(***************************************************************************)
(* Feeds for MergeReplay: each varies the fields that can affect each      *)
(* other, over every combination of a few values.                          *)
(***************************************************************************)
EXTENDS MergeReplay

UpTo(n, S) == UNION {[1..m -> S] : m \in 0..n}

Item(k, b) == [key |-> k, body |-> b]
Items == {Item("k1", 1), Item("k1", 2), Item("k2", 1), Item("k3", 1),
          Item("k4", 1)}

Products(documents) == [kind |-> "product", documents |-> documents]
Aliases == {[Product!Nothing EXCEPT !.uid = u, !.uids = s] :
              u \in {"", "a", "b"}, s \in UpTo(1, {"", "a", "c"})}
Histories == {[Product!Nothing EXCEPT !.solds = s] : s \in UpTo(2, Items)}

\* Stocks without variables, with a text and with a number.
Node(t, i) == [type |-> t, id |-> i]
Stock(n, variables) == [stock |-> n, variables |-> variables]
Variable(name, node) == [path \in {<<name>>} |-> node]
PlainStocks == {Stock(0, <<>>), Stock(1, <<>>), Stock(1, Variable("size", Node("number", "0.5"))),
                Stock(1, Variable("size", Node("string", "0.5")))}
\* Stocks whose variables are an empty list, an empty object and null, and two
\* numbers that Lua may write alike.
EmptyStocks == {Stock(1, Variable("flags", Node(t, ""))) : t \in {"array", "object", "null"}}
CloseStocks == {Stock(1, Variable("size", Node("number", n))) : n \in {"0.3", "0.30000000000000004"}}
Supplies == {[Product!Nothing EXCEPT !.stocks = s] : s \in UpTo(2, PlainStocks)}
Confusions == {[Product!Nothing EXCEPT !.stocks = s] : s \in UpTo(2, EmptyStocks)}
Roundings == {[Product!Nothing EXCEPT !.stocks = s] : s \in UpTo(2, CloseStocks)}
MCTostring == [n \in {"0.5", "0.3", "0.30000000000000004"} |->
                 IF n = "0.30000000000000004" THEN "0.3" ELSE n]

Sellers == {[Product!Nothing EXCEPT !.offers = s] : s \in UpTo(2, Items)}
Contents == {[Product!Nothing EXCEPT !.title = t, !.prices = p,
                                     !.comment_count = n, !.countries = s] :
               t \in {"", "x"}, p \in UpTo(1, {1}), n \in {0, 1},
               s \in UpTo(1, {"", "u"})}
Times == {[Product!Nothing EXCEPT !.first_found_at = f, !.evicted_at = e,
                                  !.available = a] :
            f \in {0, 7, 8}, e \in {0, 9}, a \in BOOLEAN}

Offers(documents) == [kind |-> "offer", documents |-> documents]
Identities == {[Offer!Nothing EXCEPT !.uid = u, !.uids = s, !.name = n,
                                     !.comment_count = c] :
                 u \in {"", "a"}, s \in UpTo(1, {"", "a"}), n \in {"", "x"},
                 c \in {0, 1}}
Addresses == {[Offer!Nothing EXCEPT !.addresses = s] : s \in UpTo(2, Items)}
Contacts == {[Offer!Nothing EXCEPT !.contacts = s] : s \in UpTo(2, Items)}
Trackings == {[Offer!Nothing EXCEPT !.tracking_ids = t, !.has_paypal = p] :
                t \in UpTo(1, [gtm : UpTo(1, {"", "g"}), script_urls : UpTo(1, {"s", "t"})]),
                p \in BOOLEAN}
Facts == {[Offer!Nothing EXCEPT !.member_since = m, !.sold = n, !.hostnames = h,
                                !.first_found_at = f, !.evicted_at = e] :
            m \in {0, 5}, n \in {0, 1}, h \in UpTo(1, {"h"}),
            f \in {0, 7}, e \in {0, 9}}

MCFeeds ==
  {Products(d) : d \in {Aliases, Histories, Supplies, Confusions, Roundings, Sellers,
                        Contents, Times}}
    \cup {Offers(d) : d \in {Identities, Addresses, Contacts, Trackings, Facts}}
MCConfusedFeeds == {Products(Confusions)}
================================================================================
