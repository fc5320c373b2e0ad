------------------------- MODULE HistoryWorkloadMC -------------------------
(***************************************************************************)
(* Rounds for HistoryWorkload:  two clients of two calls, the first of     *)
(* any kind; and a round of additions alone, as rounds 0 and 1 are, of     *)
(* three clients of one call, two of them of the same amount.              *)
(***************************************************************************)
EXTENDS HistoryWorkload

Call(kind, n) == [kind |-> kind, input |-> n]
Honest ==
    [clients : {2}, steps : {2}, faults : {{}}, may_fail : {FALSE},
     script : {<<Call(a, 1), Call(b, 2), Call(c, 3), Call(d, 4)>> :
                 a \in Kinds, b \in {"add", "read"}, c \in {"add", "create", "delete"},
                 d \in {"replace"}}]
Faulty ==
    [clients |-> 3, steps |-> 1, faults |-> {"lost", "repeated"}, may_fail |-> TRUE,
     script |-> <<Call("add", 1), Call("add", 1), Call("add", 2)>>]
MCRounds == Honest \cup {Faulty}
MCDocuments == {}
=============================================================================
