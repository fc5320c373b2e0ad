------------------------------ MODULE LuaEngine ------------------------------
(***************************************************************************)
(* internal/luatest/engine.go: an engine is loaded with one program and    *)
(* merges documents one after another.  A merge gives the program the      *)
(* documents as tables and the time of observation, and converts what it   *)
(* returns by a recursive descent that remembers the tables it is inside.  *)
(* The program is external: it may return any tables, or fail.             *)
(***************************************************************************)
EXTENDS JsonBridge, SequencesExt

CONSTANTS
    Documents,    \* what the engine is asked to merge
    Results,      \* heaps a program may return
    MaxMerges     \* bound on the merges of one engine

IsHeap(heap) ==
    /\ DOMAIN heap.meta = DOMAIN heap.entries /\ DOMAIN heap.length = DOMAIN heap.entries
    /\ NullTable \notin DOMAIN heap.entries
    /\ \A t \in DOMAIN heap.entries : IsFiniteSet(Keys(heap, t))
    /\ \A v \in {heap.root} \cup UNION {{heap.entries[t][k] : k \in Keys(heap, t)} :
                                            t \in DOMAIN heap.entries} :
          v.type = "table" => v.id \in DOMAIN heap.entries \cup {NullTable}

\* A missing document is nil rather than null.
encodeValue(document) ==
    IF document[<<>>] = "null"
    THEN [goToLua(document) EXCEPT !.root = Value("nil", NullTable)]
    ELSE goToLua(document)

ASSUME HeapsAssumption ==
    /\ MaxMerges \in Nat /\ \A heap \in Results : IsHeap(heap)
    /\ \A document \in Documents : IsJson(document)
    /\ \A document \in Documents : Convertible(document) => IsHeap(encodeValue(document))

VARIABLES
    engine,      \* "absent", "ready" or "closed"
    stage,       \* of a merge: "idle", "calling", "returned", "converting"
    observed,    \* the time merge programs see, 0 outside a merge
    given,       \* the document the program was given
    heap,        \* what it returned
    stack,       \* the calls of luaToGo that are inside a table
    active,      \* the tables they are inside
    output,      \* what is converted so far
    verdict,     \* of the latest merge
    merges

conversion == <<stack, active, output>>
vars == <<engine, stage, observed, given, heap, conversion, verdict, merges>>

None == <<>>

Init ==
    /\ engine = "absent" /\ stage = "idle" /\ observed = 0
    /\ given = None /\ heap = None
    /\ stack = <<>> /\ active = {} /\ output = <<>>
    /\ verdict = "none" /\ merges = 0
-----------------------------------------------------------------------------
\* New: the source parses, compiles, runs within its limits and returns one
\* function; otherwise the virtual machine is closed again.
New ==
    /\ engine = "absent" /\ engine' \in {"ready", "closed"}
    /\ UNCHANGED <<stage, observed, given, heap, conversion, verdict, merges>>

Close ==
    /\ engine = "ready" /\ stage = "idle" /\ engine' = "closed"
    /\ UNCHANGED <<stage, observed, given, heap, conversion, verdict, merges>>

\* Every way out of Merge.
Leave(outcome) ==
    /\ verdict' = outcome
    /\ stage' = "idle" /\ observed' = 0

\* Merge, up to the call of the program.
Encode(document) ==
    /\ engine = "ready" /\ stage = "idle" /\ merges < MaxMerges
    /\ merges' = merges + 1
    /\ given' = document /\ output' = <<>>
    /\ IF Convertible(document)
       THEN stage' = "calling" /\ observed' = merges' /\ verdict' = "none"
       ELSE Leave("number")
    /\ UNCHANGED <<engine, heap, stack, active>>

\* The program fails, exceeds a limit or returns more or less than one value.
CallFails ==
    /\ stage = "calling" /\ Leave("program")
    /\ UNCHANGED <<engine, given, heap, conversion, merges>>

\* External: it returns what it was given or tables of its own.
CallReturns ==
    /\ stage = "calling" /\ stage' = "returned"
    /\ heap' \in Results \cup {encodeValue(given)}
    /\ UNCHANGED <<engine, observed, given, conversion, verdict, merges>>
-----------------------------------------------------------------------------
(* luaToGo.  rest is the stack of the callers. *)

\* An error ends all calls, each of which leaves its table.
Refuse(reason) ==
    /\ Leave(reason)
    /\ stack' = <<>> /\ active' = {} /\ UNCHANGED output

\* What is converted with one value more.
Put(path, kind, id) ==
    [p \in DOMAIN output \cup {path} |-> IF p = path THEN [kind |-> kind, id |-> id] ELSE output[p]]

\* A value that has no parts, or null.
Emit(path, kind, id, rest) ==
    /\ output' = Put(path, kind, id)
    /\ stack' = rest
    /\ UNCHANGED active
    /\ IF rest = <<>> THEN Leave("merged")
       ELSE stage' = "converting" /\ UNCHANGED <<observed, verdict>>

Scalar(path, value, rest) ==
    /\ value.type \in DOMAIN GoKind
    /\ Emit(path, GoKind[value.type], value.id, rest)

Null(path, value, rest) ==
    /\ value.type = "table" /\ value.id = NullTable
    /\ Emit(path, "null", NullTable, rest)

IsTable(value) == value.type = "table" /\ value.id # NullTable

\* Why a value cannot be converted.
Reason(value) ==
    IF value.type = "nan" THEN "non-finite"
    ELSE IF ~IsTable(value) THEN "unsupported"
    ELSE IF value.id \in active THEN "cycle"
    ELSE IF Form(heap, value.id) = "null" THEN "null"
    ELSE "holes"

Acceptable(value) ==
    /\ IsTable(value) /\ value.id \notin active
    /\ \/ Form(heap, value.id) = "object"
       \/ Form(heap, value.id) = "array" /\ Contiguous(heap, value.id)

Enter(path, value, rest) ==
    /\ Acceptable(value)
    /\ output' = Put(path, Form(heap, value.id), value.id)
    /\ active' = active \cup {value.id}
    /\ stack' = Append(rest, [table |-> value.id, path |-> path,
                              left |-> KeysRead(heap, value.id)])
    /\ stage' = "converting"
    /\ UNCHANGED <<observed, verdict>>

Unacceptable(value) ==
    /\ value.type \notin DOMAIN GoKind /\ ~(value.type = "table" /\ value.id = NullTable)
    /\ ~Acceptable(value)
    /\ Refuse(Reason(value))

Visit(path, value, rest) ==
    /\ \/ Scalar(path, value, rest) \/ Null(path, value, rest)
       \/ Enter(path, value, rest) \/ Unacceptable(value)
    /\ UNCHANGED <<engine, given, heap, merges>>

Start == stage = "returned" /\ Visit(<<>>, heap.root, <<>>)

Top == stack[Len(stack)]
Callers == SubSeq(stack, 1, Len(stack) - 1)

\* Mutated form: the loop does not advance.
PassedNone(frame, k) == frame

Passed(frame, k) == [frame EXCEPT !.left = @ \ {k}]

\* The next key: in order for an array, in any order for an object.
IsNext(k) ==
    k \in Top.left /\ (Form(heap, Top.table) = "array" => \A j \in Top.left : k <= j)

Descend(k) ==
    /\ stage = "converting" /\ stack # <<>> /\ IsNext(k)
    /\ Form(heap, Top.table) = "array" \/ k \in Names
    /\ Visit(Append(Top.path, k), Entry(heap, Top.table, k),
             Append(Callers, Passed(Top, k)))

BadKey(k) ==
    /\ stage = "converting" /\ stack # <<>> /\ IsNext(k)
    /\ Form(heap, Top.table) = "object" /\ k \notin Names
    /\ Refuse("key")
    /\ UNCHANGED <<engine, given, heap, merges>>

\* Mutated form: a table is remembered after its conversion.
LeftNone(t) == active

Left(t) == active \ {t}

Return ==
    /\ stage = "converting" /\ stack # <<>> /\ Top.left = {}
    /\ active' = Left(Top.table) /\ stack' = Callers
    /\ IF Callers = <<>> THEN Leave("merged") ELSE UNCHANGED <<stage, observed, verdict>>
    /\ UNCHANGED <<engine, given, heap, output, merges>>

Convert == Start \/ Return \/ (stack # <<>> /\ \E k \in Top.left : Descend(k) \/ BadKey(k))

Next ==
    \/ New \/ Close \/ \E document \in Documents : Encode(document)
    \/ CallFails \/ CallReturns \/ Convert

Spec == Init /\ [][Next]_vars

\* A call returns by its time limit, and the conversion is sequential code.
FairSpec == Spec /\ WF_vars(CallFails \/ CallReturns) /\ WF_vars(Convert)
-----------------------------------------------------------------------------
TypeOK ==
    /\ engine \in {"absent", "ready", "closed"}
    /\ stage \in {"idle", "calling", "returned", "converting"}
    /\ observed \in 0..MaxMerges /\ merges \in 0..MaxMerges
    /\ \A i \in 1..Len(stack) : stack[i].table \in DOMAIN heap.entries
    /\ active \subseteq {stack[i].table : i \in 1..Len(stack)}

\* The tables a table leads to, by the keys that are read from it.
Edges(t) == {Entry(heap, t, k).id : k \in {j \in KeysRead(heap, t) : IsTable(Entry(heap, t, j))}}

\* The tables of the result: those in every set that contains its root, if
\* that is a table, and all they lead to.
ClosedSet(S) == (IsTable(heap.root) => heap.root.id \in S) /\ \A t \in S : Edges(t) \subseteq S
Reachable ==
    {t \in DOMAIN heap.entries : \A S \in SUBSET DOMAIN heap.entries : ClosedSet(S) => t \in S}

\* Tables that only ever lead back to tables of the same set: a set in which
\* every table has a successor contains a cycle.
Cyclic == \E S \in SUBSET Reachable : S # {} /\ \A t \in S : Edges(t) \cap S # {}

\* A result that contains itself is never converted, and one that only shares
\* tables is never refused for it.
CyclesAreRefused ==
    /\ verdict = "merged" => ~Cyclic
    /\ verdict = "cycle" => Cyclic

\* The one case in which the length of an array with holes is its count.
Ambiguous ==
    \E t \in Reachable : /\ heap.length[t] = Count(heap, t)
                         /\ LooksLikeArray(heap, t) /\ Keys(heap, t) # 1..Count(heap, t)

KeysIn(p) == {q[Len(q)] : q \in {r \in DOMAIN output : r # <<>> /\ Front(r) = p}}
Holding(p) == IF p = <<>> THEN heap.root
              ELSE Entry(heap, output[Front(p)].id, p[Len(p)])

\* What is converted is what was returned: every path leads where it does
\* among the tables, whatever they share, and none is missing.
Faithful ==
    verdict = "merged" /\ ~Ambiguous =>
        \A p \in DOMAIN output :
            /\ output[p].id = Holding(p).id
            /\ IsTable(Holding(p)) => KeysIn(p) = Keys(heap, output[p].id)

Kept(kind) == IF kind = "huge" THEN "float64" ELSE kind

\* A program that changes nothing returns the document it was given: nulls,
\* empty arrays and empty objects included, but for integers beyond 64 bits.
RoundTrip ==
    verdict = "merged" /\ heap = encodeValue(given) =>
        [p \in DOMAIN output |-> output[p].kind] = [p \in DOMAIN given |-> Kept(given[p])]

\* Every merge ends, whatever the program returns.
Ends == stage # "idle" ~> stage = "idle"
==============================================================================
