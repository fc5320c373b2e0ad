------------------------------ MODULE MergeReplay ------------------------------
(***************************************************************************)
(* A partition's log of products or of sellers, merged into one document   *)
(* by the reference model and by the Lua program side by side, as in the   *)
(* random sequences of contract/random_sequence_test.go.  The log is       *)
(* consumed at least once: after a restart the consumer repeats any suffix *)
(* of what it had applied, in order.                                       *)
(***************************************************************************)
EXTENDS Naturals, Sequences

CONSTANTS
  Feeds,          \* records [kind, documents]: what a log may carry
  HistoryLimit, OfferLimit, AddressLimit, Tostring,
  MaxLog,         \* bound: documents in the log
  MaxRestarts     \* bound: restarts of the consumer

ASSUME ReplayLimits == {HistoryLimit, OfferLimit, AddressLimit} \subseteq Nat \ {0}
ASSUME ReplayBounds == {MaxLog, MaxRestarts} \subseteq Nat

Product == INSTANCE ProductMerge
Offer == INSTANCE OfferMerge

ASSUME ReplayFeeds ==
  \A f \in Feeds :
    \/ f.kind = "product" /\ \A d \in f.documents : Product!IsDocument(d)
    \/ f.kind = "offer" /\ \A d \in f.documents : Offer!IsDocument(d)

VARIABLES
  feed,       \* the documents this log may carry
  log,        \* the documents published
  position,   \* how many of them the consumer has applied
  now,        \* the time of the next merge
  expected,   \* the reference model's document
  actual,     \* the program's document
  settled,    \* the reference document when the log's end was first reached
  capped,     \* a list has been at its limit
  restarts

replayVars == <<feed, log, position, now, expected, actual, settled, capped, restarts>>

Missing == <<>>

Reference(current, incoming, at) ==
  IF feed.kind = "product" THEN Product!MergeProduct(current, incoming, at)
  ELSE Offer!MergeOffer(current, incoming, at)

Program(current, incoming, at) ==
  IF feed.kind = "product" THEN Product!Program(current, incoming, at)
  ELSE Offer!Program(current, incoming, at)

AtLimit(document) ==
  IF feed.kind = "product" THEN Product!AtLimit(document) ELSE Offer!AtLimit(document)

ReplayInit ==
  /\ feed \in Feeds /\ log = <<>> /\ position = 0 /\ now = 1
  /\ expected \in {Missing} \cup feed.documents /\ actual = expected
  /\ settled = Missing /\ capped = FALSE /\ restarts = 0

Publish ==
  /\ Len(log) < MaxLog /\ position = Len(log)
  /\ \E document \in feed.documents : log' = Append(log, document)
  /\ UNCHANGED <<feed, position, now, expected, actual, settled, capped, restarts>>

Consume ==
  /\ position < Len(log)
  /\ position' = position + 1
  /\ now' = now + 1
  /\ expected' = Reference(expected, log[position + 1], now)
  /\ actual' = Program(actual, log[position + 1], now)
  /\ settled' = IF position' = Len(log) /\ restarts = 0 THEN expected' ELSE settled
  /\ capped' = (capped \/ AtLimit(expected'))
  /\ UNCHANGED <<feed, log, restarts>>

\* After the restart only repeats are left to apply.
Restart ==
  /\ position = Len(log) /\ position = MaxLog /\ restarts < MaxRestarts
  /\ restarts' = restarts + 1
  /\ \E committed \in 0..(position - 1) : position' = committed
  /\ UNCHANGED <<feed, log, now, expected, actual, settled, capped>>

ReplayNext == Publish \/ Consume \/ Restart

ReplaySpec == ReplayInit /\ [][ReplayNext]_replayVars

------------------------------------------------------------------------------
\* Some of the stocks that may come in are one to the program and two to the
\* reference model.
Stocks == UNION {Product!ToSet(document.stocks) : document \in feed.documents}
Confused ==
  feed.kind = "product" /\ \E x, y \in Stocks : Product!Confusable(x, y)

\* The program's document is the reference model's, field by field, after every
\* sequence of documents and repeats, from a missing document on.  Their stocks
\* may differ where the program confuses some that come in.
Agree ==
  IF Confused THEN Product!Without(actual, "stocks") = Product!Without(expected, "stocks")
  ELSE actual = expected

\* README.md says that exact agreement is required between the Go reference and
\* the Lua results.  canonical in product_merge.lua makes the same text of an
\* empty list, of an empty object and of null; the reference model's digest
\* tells them apart.
ExactAgreement == actual = expected

\* Repeating a suffix of the log, in order, ends in the document there was
\* before, apart from the time it was last seen and, of products, the order of
\* the aliases, as long as no list has been at its limit.
ReplayConverges ==
  position = Len(log) /\ restarts > 0 /\ ~capped =>
    IF feed.kind = "product" THEN Product!SameButTime(expected, settled)
    ELSE Offer!SameButTime(expected, settled)
================================================================================
