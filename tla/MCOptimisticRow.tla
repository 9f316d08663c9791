-------------------------- MODULE MCOptimisticRow --------------------------
(***************************************************************************)
(* Instances of OptimisticRow: a row of two fields, and what happens to it. *)
(***************************************************************************)
EXTENDS OptimisticRow

TheFields == {"a", "b"}

Row(v) == [f \in TheFields |-> v]
I(v) == [act |-> "I", set |-> Row(v)]
U(f, v) == [act |-> "U", set |-> f :> v]
D == [act |-> "D", set |-> Absent]
Undo == [act |-> "undo"]
Redo == [act |-> "redo"]

Case(mine, theirs) ==
    [seed |-> Row(0), loaded |-> TRUE, mine |-> mine, theirs |-> theirs,
     refused |-> {}, strategy |-> "server-wins", losses |-> 0, crashes |-> 0]

\* Updates of two clients, with a batch that fails, a write storage refuses,
\* or a restart; a write without effect; an update against a delete.
Edits == {
    [Case(<<U("a", 1), U("b", 2)>>, <<U("a", 5)>>) EXCEPT !.losses = 1],
    [Case(<<U("a", 1), U("b", 2)>>, <<U("a", 5)>>) EXCEPT !.crashes = 1],
    Case(<<U("a", 1), U("a", 1)>>, <<U("a", 5), U("a", 6)>>),
    Case(<<U("a", 1), U("b", 2)>>, <<D>>)}

\* The same when the client wins.
ClientWins == {
    [Case(<<U("a", 1), U("b", 2)>>, <<U("a", 5), U("a", 6)>>) EXCEPT !.strategy = "client-wins"],
    [Case(<<U("a", 1)>>, <<D>>) EXCEPT !.strategy = "client-wins"]}

\* A write the server refuses, with others of either client under way.
Refusals == {
    [Case(<<U("a", 1)>>, <<U("a", 5), U("b", 6), U("a", 7)>>) EXCEPT !.refused = {1}],
    [Case(<<U("a", 1), U("b", 2)>>, <<U("a", 5)>>) EXCEPT !.refused = {1}],
    [Case(<<U("a", 1)>>, <<U("a", 5), U("a", 6)>>)
        EXCEPT !.refused = {1}, !.strategy = "client-wins"],
    [Case(<<D>>, <<>>) EXCEPT !.refused = {1}]}

\* Rows that come and go; one that was never loaded.
Lives == {
    [Case(<<I(1), U("a", 2), D>>, <<U("a", 5)>>) EXCEPT !.seed = Absent],
    Case(<<U("a", 1), D>>, <<U("a", 5)>>),
    [Case(<<>>, <<U("a", 5), D, I(6), U("b", 7)>>) EXCEPT !.loaded = FALSE]}

\* Undo and redo.
Histories == {
    Case(<<U("a", 1), Undo, Redo>>, <<U("b", 5)>>),
    [Case(<<U("a", 1), Undo, Redo>>, <<>>) EXCEPT !.losses = 1],
    [Case(<<U("a", 1), Undo>>, <<U("b", 5)>>) EXCEPT !.refused = {2}],
    Case(<<U("a", 1), U("a", 2), Undo, Undo>>, <<>>),
    Case(<<D, Undo>>, <<>>)}

All == Edits \cup ClientWins \cup Refusals \cup Lives \cup Histories

=============================================================================
