---------------------------- MODULE MCRowLoading ----------------------------
(***************************************************************************)
(* Instances of RowLoading: three rows of two groups.                      *)
(***************************************************************************)
EXTENDS RowLoading

MCRows == {1, 2, 3}
MCGroups == {"ws", "new"}

Write(tx, row, act) == [tx |-> tx, row |-> row, act |-> act, group |-> "ws", opens |-> FALSE]
Opening(tx, row) == [Write(tx, row, "I") EXCEPT !.group = "new", !.opens = TRUE]
Joining(tx, row) == [Write(tx, row, "I") EXCEPT !.group = "new"]

Present(ks) == [k \in MCRows |-> IF k \in ks THEN "ws" ELSE NoGroup]
ById == [k \in MCRows |-> <<k>>]
\* A composite cursor whose first field is nullable: 2, then 1 and 3.
ByNullable == (1 :> <<Null, 1>>) @@ (2 :> <<1, 2>>) @@ (3 :> <<Null, 3>>)

Base == [seed |-> Present({1, 2, 3}), groups |-> {"ws"}, requests |-> <<>>, failures |-> 0,
         unknown |-> FALSE, lazy |-> FALSE, loads |-> <<>>, cursor |-> ById]

\* Rows come, change and go while the table is streamed.
Streamed == [Base EXCEPT !.seed = Present({1, 3}), !.cursor = ByNullable,
             !.requests = <<<<Write(1, 2, "I"), Write(2, 1, "U")>>, <<Write(3, 3, "D"), Write(4, 1, "D")>>>>]

\* A batch opens a group and writes to it, another writes the row it inserts;
\* a statement fails, or the answer to a COMMIT is lost.
Opened == [Base EXCEPT !.seed = Present({3}), !.failures = 1, !.unknown = TRUE,
           !.requests = <<<<Opening(1, 1), Joining(2, 2)>>, <<Write(3, 3, "U"), Write(4, 3, "D")>>>>]

\* A retry runs beside its original.
Retried == [Base EXCEPT !.seed = Present({1, 2}),
            !.requests = <<<<Write(1, 1, "U"), Write(2, 2, "U")>>, <<Write(1, 1, "U"), Write(2, 2, "U")>>>>]

\* Rows are loaded on demand while others are written.
Loaded == [Base EXCEPT !.lazy = TRUE, !.loads = <<{1}, {1, 2, 3}>>,
           !.requests = <<<<Write(1, 2, "U")>>, <<Write(2, 2, "D")>>>>]

MCScenarios == {Streamed, Opened, Retried, Loaded}

\* A row is updated between the bootstrap and its load.
MCLateLoad == {[Base EXCEPT !.lazy = TRUE, !.loads = <<{1}>>, !.requests = <<<<Write(1, 1, "U")>>>>]}

\* A retry of an insert runs beside its original.
MCRetriedInsert ==
    {[Base EXCEPT !.seed = Present({}), !.requests = <<<<Write(1, 1, "I")>>, <<Write(1, 1, "I")>>>>]}
=============================================================================
