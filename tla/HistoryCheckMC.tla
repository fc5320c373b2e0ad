--------------------------- MODULE HistoryCheckMC ---------------------------
(***************************************************************************)
(* Small histories for HistoryCheck: every choice of up to three calls from *)
(* a menu of kinds and results, under every relevant overlap of intervals,  *)
(* and the malformed histories Check must refuse.                           *)
(***************************************************************************)
EXTENDS HistoryCheck, SequencesExt

Menu == {
    <<"read", 0, Observed(Absent)>>,
    <<"read", 0, Observed(Holding(1))>>,
    <<"read", 0, Observed(Holding(2))>>,
    <<"set", 1, Applied(TRUE)>>,
    <<"create", 1, Applied(TRUE)>>,
    <<"create", 1, Applied(FALSE)>>,
    <<"replace", 2, Applied(TRUE)>>,
    <<"replace", 2, Applied(FALSE)>>,
    <<"add", 1, Applied(TRUE)>>,
    <<"add", 1, Conflicted>>,
    <<"delete", 0, Applied(TRUE)>> }

Call(i, time, op) ==
    [id |-> i, start |-> time[1], end |-> time[2],
     kind |-> op[1], input |-> op[2], result |-> op[3]]

\* Intervals by the order of their ends alone: sequential, chained, all
\* overlapping, one spanning the others, and two that only touch.
Times == {
    << <<1, 2>>, <<3, 4>>, <<5, 6>> >>,
    << <<1, 3>>, <<2, 5>>, <<4, 6>> >>,
    << <<1, 4>>, <<2, 5>>, <<3, 6>> >>,
    << <<1, 6>>, <<2, 3>>, <<4, 5>> >>,
    << <<1, 2>>, <<2, 3>>, <<4, 5>> >>,
    << <<3, 4>>, <<1, 2>>, <<3, 5>> >> }

Timed(n) ==
    {[i \in 1..n |-> Call(i, t[i], ops[i])] : t \in Times, ops \in [1..n -> Menu]}

Malformed == {
    <<>>,
    << Call(1, <<2, 2>>, <<"set", 1, Applied(TRUE)>>) >>,
    << Call(1, <<0, 2>>, <<"set", 1, Applied(TRUE)>>) >>,
    << Call(1, <<3, 1>>, <<"set", 1, Applied(TRUE)>>) >>,
    << Call(1, <<1, 2>>, <<"unknown", 1, Applied(TRUE)>>) >>,
    << Call(1, <<1, 2>>, <<"set", 1, Applied(TRUE)>>),
       Call(1, <<3, 4>>, <<"set", 1, Applied(TRUE)>>) >>,
    [i \in 1..(MaxEntries + 1) |->
        Call(i, <<i, MaxEntries + 2>>, <<"set", 1, Applied(TRUE)>>)] }


\* Four calls that all overlap: the memo is what keeps the search short, and
\* a budget of a few positions runs out.
Overlapping ==
    {[i \in 1..4 |-> Call(i, <<i, 9 + i>>, IF i < 4 THEN mutations[i] ELSE read)] :
        mutations \in [1..3 -> {<<"add", 1, Applied(TRUE)>>, <<"set", 1, Applied(TRUE)>>,
                                <<"delete", 0, Applied(TRUE)>>}],
        read \in {<<"read", 0, Observed(Holding(n))>> : n \in 0..4}}

MCHistories == Timed(3) \cup Timed(2) \cup Malformed \cup Overlapping
MCInitials == {Absent, Holding(1), [found |-> FALSE, counter |-> 1]}
MCDocuments == {Absent} \cup {Holding(n) : n \in 0..4}
=============================================================================
