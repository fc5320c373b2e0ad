------------------------------ MODULE OfferMerge ------------------------------
(***************************************************************************)
(* The seller merge of the representative workload, twice: the reference   *)
(* model in Go (internal/reference/offer.go) and the Lua program           *)
(* (programs/offer_merge.lua).  Fields the code treats alike are one       *)
(* field: name for the scalars, sold for the counts, hostnames for the     *)
(* replaced list, gtm and script_urls for the thirteen lists of tracking   *)
(* identifiers.  A pointer is an empty sequence or one of length one.      *)
(***************************************************************************)
EXTENDS MergeLists

CONSTANT AddressLimit   \* the limit of the addresses (10)

NoTracking == [gtm |-> <<>>, script_urls |-> <<>>]

Nothing == [uid |-> "", uids |-> <<>>, name |-> "", addresses |-> <<>>,
            contacts |-> <<>>, member_since |-> NoTime, sold |-> 0,
            comment_count |-> 0, first_found_at |-> NoTime,
            last_found_at |-> NoTime, evicted_at |-> NoTime,
            hostnames |-> <<>>, tracking_ids |-> <<>>, has_paypal |-> FALSE]

\* Documents that can be decoded: their lists are lists.
IsTracking(ids) ==
  ids = [f \in DOMAIN NoTracking |-> ids[f]] /\ \A f \in DOMAIN NoTracking : IsList(ids[f])

IsDocument(o) ==
  /\ o = [f \in DOMAIN Nothing |-> o[f]]
  /\ \A f \in {"uids", "addresses", "contacts", "hostnames"} : IsList(o[f])
  /\ \/ o.tracking_ids = <<>>
     \/ o.tracking_ids = <<Head(o.tracking_ids)>> /\ IsTracking(Head(o.tracking_ids))

------------------------------------------------------------------------------
(* The reference model *)

mergeTrackingIDs(current, incoming) ==
  IF incoming = <<>> THEN current
  ELSE LET base == IF current = <<>> THEN NoTracking ELSE Head(current)
       IN <<[f \in DOMAIN NoTracking |-> ExtendedStrings(base[f], Head(incoming)[f])]>>

\* Contacts have no limit, and a seller's comment count is not merged: the
\* result of MergeOffer has none.
MergeAt(o, incoming, at) ==
  [uid |-> Replaced(o.uid, incoming.uid, ""),
   uids |-> ExtendedStrings(o.uids, incoming.uids),
   name |-> Replaced(o.name, incoming.name, ""),
   addresses |-> KeepTail(Extended(o.addresses, incoming.addresses, OwnKey), AddressLimit),
   contacts |-> Extended(o.contacts, incoming.contacts, OwnKey),
   member_since |-> Replaced(o.member_since, incoming.member_since, NoTime),
   sold |-> Replaced(o.sold, incoming.sold, 0),
   comment_count |-> o.comment_count,
   first_found_at |-> IF o.first_found_at # NoTime THEN o.first_found_at
                      ELSE Replaced(at, incoming.first_found_at, NoTime),
   last_found_at |-> at,
   evicted_at |-> Replaced(o.evicted_at, incoming.evicted_at, NoTime),
   hostnames |-> Replaced(o.hostnames, incoming.hostnames, <<>>),
   tracking_ids |-> mergeTrackingIDs(o.tracking_ids, incoming.tracking_ids),
   has_paypal |-> incoming.has_paypal]

Missing == <<>>

MergeOffer(current, incoming, at) ==
  LET base == IF current = Missing THEN Nothing ELSE MergeAt(Nothing, current, at)
  IN [MergeAt(base, incoming, at) EXCEPT !.evicted_at = NoTime]

------------------------------------------------------------------------------
(* The Lua program *)

merge_tracking(current, incoming) ==
  IF ~Has(incoming, "tracking_ids") THEN current
  ELSE LET base  == Get(current, "tracking_ids", <<>>)
           first == union_strings(base, incoming.tracking_ids, "gtm")
       IN With(current, "tracking_ids",
               union_strings(first, incoming.tracking_ids, "script_urls"))

merge_one(current, incoming, at) ==
  LET c1 == replace_nonempty_string(current, incoming, "uid")
      c2 == replace_nonempty_string(c1, incoming, "name")
      c3 == union_strings(c2, incoming, "uids")
      c4 == keep_tail(deduplicate(c3, incoming, "addresses", OwnKey), "addresses", AddressLimit)
      c5 == deduplicate(c4, incoming, "contacts", OwnKey)
      c6 == replace_present(c5, incoming, "member_since")
      c7 == replace_nonzero(c6, incoming, "sold")
      c8 == merge_times(c7, incoming, at)
      c9 == replace_nonempty_array(c8, incoming, "hostnames")
  IN With(merge_tracking(c9, incoming), "has_paypal", Get(incoming, "has_paypal", FALSE))

Encoded(offer) ==
  LET table == Encode(offer, Nothing, {"uid", "name"}) IN
  IF ~Has(table, "tracking_ids") THEN table
  ELSE With(table, "tracking_ids", Encode(Head(table.tracking_ids), NoTracking, {}))

Decoded(table) ==
  LET offer == Decode(table, Nothing) IN
  IF ~Has(table, "tracking_ids") THEN offer
  ELSE [offer EXCEPT !.tracking_ids = <<Decode(@, NoTracking)>>]

Program(current, incoming, at) ==
  LET result == IF current = Missing THEN <<>> ELSE merge_one(<<>>, Encoded(current), at)
  IN Decoded(Without(merge_one(result, Encoded(incoming), at), "evicted_at"))

------------------------------------------------------------------------------
\* A list of limited length is full.
AtLimit(offer) == Len(offer.addresses) >= AddressLimit

\* The same but for the time it was last seen.
SameButTime(p, q) ==
  [p EXCEPT !.last_found_at = NoTime] = [q EXCEPT !.last_found_at = NoTime]
==============================================================================
