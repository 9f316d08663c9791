------------------------ MODULE OptimisticRowProofs ------------------------
(***************************************************************************)
(* Proofs about OptimisticRow for every script of both clients: its types, *)
(* that what is in storage becomes what the log makes of the row wherever  *)
(* the client stops, and that undo and redo forget what was refused or     *)
(* dropped.                                                                *)
(***************************************************************************)
EXTENDS OptimisticRow, ListsProofs

-----------------------------------------------------------------------------
(* The invariant. *)

Updates == UNION {[fs -> Nat] : fs \in SUBSET Fields}
Sets == Updates \cup {Absent}
Acts == {"I", "U", "D"}
Operation == {op \in [act : Acts, set : Sets] : IsOperation(op)}

\* A change and what takes it back: an insert brings a whole row, an update
\* some fields and what they were, a delete nothing and the whole row.
Sound(c) ==
    \/ c.act = "I" /\ c.set \in [Fields -> Nat] /\ c.original = Absent
    \/ c.act = "U" /\ c.set \in Updates /\ c.original \in Updates /\ DOMAIN c.original = DOMAIN c.set
    \/ c.act = "D" /\ c.set = Absent /\ c.original \in [Fields -> Nat]

States == {"queued", "sent", "awaitingSync", "failed"}
Txs == {tx \in [n : Nat, act : Acts, state : States, needed : Nat, set : Sets, original : Sets] :
          Sound(tx)}
Change == {c \in [act : Acts, set : Sets, original : Sets] : Sound(c)}
Entries == [tx : Nat, redo : Change, undo : Change]
Popped == [from : {"none"}] \cup [from : {"undo", "redo"}, entry : Entries]
History == [undo : Seq(Entries), redo : Seq(Entries), popped : Popped, missed : SUBSET Nat]
Commit == [op : Operation, by : Nat]
Write == [row : Rows, by : Nat]

NoTask == [pc : {"idle"}]
Writer == NoTask \cup [pc : {"enqueues"}, tx : Txs]
Request == NoTask \cup [pc : {"call", "reply"}, txs : Seq(Txs), results : Seq(Nat)]
Refusal == NoTask \cup [pc : {"adopted", "marked"}, tx : Txs]
Packet ==
    NoTask \cup [pc : {"stored", "commits"}, upto : Nat]
    \cup [pc : {"rebases", "stages"}, upto : Nat, seen : Seq(Txs), conflicts : SUBSET Nat,
          dropped : Seq(Txs)]
    \cup [pc : {"confirms"}, upto : Nat, dropped : Seq(Txs), ops : Seq(Write)]
    \cup [pc : {"rereads"}, upto : Nat, dropped : Seq(Txs), ops : Seq(Write), own : SUBSET Nat]
    \cup [pc : {"shows"}, upto : Nat, dropped : Seq(Txs), ops : Seq(Write), own : SUBSET Nat,
          pending : Seq(Txs)]

DataInv ==
    /\ Scenario(scenario)
    /\ log \in Seq(Commit) /\ cursor \in Nat /\ cursor <= Len(log)
    /\ store \in Rows /\ view \in Rows
    /\ outbox \in Seq(Txs) /\ localIds \in SUBSET (1 .. Len(scenario.mine))
    /\ done \in Nat /\ done <= Len(scenario.mine)
    /\ history \in History

\* The application's call is one of the script, and its transaction is numbered
\* by it.
CallInv ==
    /\ writer \in Writer
    /\ Replays => done < Len(scenario.mine)
    /\ writer.pc = "enqueues" =>
         done < Len(scenario.mine) /\ writer.tx.n = Item /\ writer.tx.state = "queued"

\* A packet brings actions above the cursor that the server has committed; what
\* its rebase found to be a conflict is one.
PacketInv ==
    /\ packet \in Packet
    /\ packet.pc # "idle" => cursor < packet.upto /\ packet.upto <= Len(log)
    /\ packet.pc \in {"rebases", "stages"} => packet.conflicts \subseteq ConflictsOf(packet.seen)

Requested == IF Idle(request) THEN {} ELSE ToSet(request.txs)

\* A request's results are those of its first transactions, and the server knows
\* a write it answered with an id; a refusal is that of the request's first.
RequestInv ==
    /\ request \in Request /\ refusal \in Refusal
    /\ request.pc # "idle" =>
         /\ request.txs # <<>> /\ Len(request.results) <= Len(request.txs)
         /\ \A i \in DOMAIN request.results : request.results[i] # 0 => Known(request.txs[i].n)
    /\ request.pc = "reply" => Len(request.results) = Len(request.txs)
    /\ refusal.pc # "idle" => request.pc = "reply" /\ refusal.tx.n = Head(request.txs).n

\* A transaction is made once: what is in the outbox and in a request under one
\* number is one change, and no number is above the calls made.
MadeOnce ==
    \A s, t \in ToSet(outbox) \cup Requested :
        s.n <= done /\ (s.n = t.n => s.act = t.act /\ s.set = t.set)

\* A write that waits for its echo is in the log.
AwaitingIsKnown == \A tx \in ToSet(outbox) : tx.state = "awaitingSync" => Known(tx.n)

\* Once a packet's rows are stored, storing them again would change nothing.
StoredOnce ==
    packet.pc \in {"confirms", "rereads", "shows", "commits"} =>
        ThroughLog(store, cursor + 1, packet.upto) = store

DroppedNow ==
    IF packet.pc \in {"rebases", "stages", "confirms", "rereads", "shows"}
    THEN Ids(packet.dropped) ELSE {}

\* What undo and redo can still reach: a write that is known to the server,
\* waits in the outbox, is about to be forgotten, or was missed.
Reachable(n) ==
    n = 0 \/ Known(n) \/ n \in Ids(outbox) \/ n \in history.missed \/ n \in DroppedNow
HistoryInv ==
    /\ \A e \in ToSet(history.undo) \cup ToSet(history.redo) : Reachable(e.tx)
    /\ Replays => Reachable(history.popped.entry.tx)

RowInv ==
    /\ DataInv /\ CallInv /\ PacketInv /\ RequestInv /\ MadeOnce /\ AwaitingIsKnown
    /\ StoredOnce /\ StoreFollowsLog /\ HistoryInv

-----------------------------------------------------------------------------
(* Rows. *)

\* A row that is there is not an absent one.
LEMMA RowsAreNotAbsent ==
  ASSUME NEW row \in [Fields -> Nat]
  PROVE  row # Absent /\ row \in Rows /\ row \in Updates /\ DOMAIN row = Fields
<1>1. Fields # {} /\ DOMAIN row = Fields
  BY OptimisticRowAssumption
<1>2. DOMAIN Absent = {}
  BY DEF Absent
<1>3. row \in Updates
  BY DEF Updates
<1> QED
  BY <1>1, <1>2, <1>3 DEF Rows

\* Some fields over a row that is there are such a row.
LEMMA OverIsARow ==
  ASSUME NEW row \in [Fields -> Nat], NEW changes \in Updates
  PROVE  Over(changes, row) \in [Fields -> Nat]
<1>1. PICK fs \in SUBSET Fields : changes \in [fs -> Nat]
  BY DEF Updates
<1> QED
  BY <1>1 DEF Over

LEMMA OverIsAnUpdate ==
  ASSUME NEW first \in Updates, NEW second \in Updates
  PROVE  Over(second, first) \in Updates
<1>1. PICK fs \in SUBSET Fields : first \in [fs -> Nat]
  BY DEF Updates
<1>2. PICK gs \in SUBSET Fields : second \in [gs -> Nat]
  BY DEF Updates
<1>3. Over(second, first) \in [fs \cup gs -> Nat] /\ fs \cup gs \in SUBSET Fields
  BY <1>1, <1>2 DEF Over
<1> QED
  BY <1>3 DEF Updates

\* What an operation is.
LEMMA OperationCases ==
  ASSUME NEW op \in Operation
  PROVE  \/ op.act = "I" /\ op.set \in [Fields -> Nat]
         \/ op.act = "U" /\ op.set \in Updates
         \/ op.act = "D" /\ op.set = Absent
BY DEF Operation, IsOperation, Updates

\* What an operation makes of a row is a row.
LEMMA AppliedIsARow ==
  ASSUME NEW row \in Rows, NEW op \in Operation
  PROVE  Applied(row, op) \in Rows
<1>1. CASE op.act = "I"
  BY <1>1, OperationCases DEF Applied, Rows
<1>2. CASE op.act = "U"
  BY <1>2, OperationCases, OverIsARow DEF Applied, Rows
<1>3. CASE op.act = "D"
  BY <1>3, OperationCases DEF Applied, Rows
<1> QED
  BY <1>1, <1>2, <1>3, OperationCases

\* What a transaction shown again, or taken back, makes of a row is a row.
LEMMA ShownIsARow ==
  ASSUME NEW row \in Rows, NEW tx, Sound(tx)
  PROVE  Reapplied(row, tx) \in Rows /\ RolledBack(row, tx) \in Rows
<1>1. CASE tx.act = "I"
  BY <1>1 DEF Sound, Reapplied, RolledBack, Rows
<1>2. CASE tx.act = "U"
  BY <1>2, OverIsARow DEF Sound, Reapplied, RolledBack, Rows
<1>3. CASE tx.act = "D"
  BY <1>3 DEF Sound, Reapplied, RolledBack, Rows
<1> QED
  BY <1>1, <1>2, <1>3 DEF Sound

-----------------------------------------------------------------------------
(* What a part of the log makes of a row. *)

\* The actions from one place to another, one by one.
LEMMA AfterSteps ==
  ASSUME NEW entries \in Seq(Commit), NEW row \in Rows, NEW from \in Nat \ {0},
         NEW upto \in Nat, upto <= Len(entries)
  PROVE  /\ After(entries, row, from, upto) \in Rows
         /\ upto < from => After(entries, row, from, upto) = row
         /\ upto >= from =>
              After(entries, row, from, upto)
                = Applied(After(entries, row, from, upto - 1), entries[upto].op)
<1> DEFINE Solves(f, m) ==
             f = [n \in 0 .. m |->
                    IF n < from THEN row ELSE Applied(f[n - 1], entries[n].op)]
           at(m) == CHOOSE f : Solves(f, m)
<1>1. \A n \in 1 .. Len(entries) : entries[n].op \in Operation
  <2>1. \A n \in 1 .. Len(entries) : entries[n] \in Commit
    OBVIOUS
  <2> QED
    BY <2>1 DEF Commit
<1>2. ASSUME NEW m \in Nat, m <= Len(entries)
      PROVE  Solves(at(m), m) /\ \A n \in 0 .. m : at(m)[n] \in Rows
  <2> DEFINE step == [p \in Rows \X (1 .. m) |->
                        IF p[2] < from THEN row ELSE Applied(p[1], entries[p[2]].op)]
  <2>1. \A a \in Rows : \A n \in 1 .. m :
          /\ step[<<a, n>>] = IF n < from THEN row ELSE Applied(a, entries[n].op)
          /\ step[<<a, n>>] \in Rows
    <3> TAKE a \in Rows
    <3> TAKE n \in 1 .. m
    <3>1. <<a, n>> \in Rows \X (1 .. m) /\ n \in 1 .. Len(entries)
      BY <1>2
    <3>2. step[<<a, n>>] = IF n < from THEN row ELSE Applied(a, entries[n].op)
      BY <3>1
    <3>3. Applied(a, entries[n].op) \in Rows
      BY <1>1, <3>1, AppliedIsARow
    <3> QED
      BY <3>2, <3>3
  <2> HIDE DEF step
  <2>2. PICK g \in [0 .. m -> Rows] : Recurses(g, row, m, step)
    <3>1. step \in [Rows \X (1 .. m) -> Rows]
      BY <2>1, Zenon DEF step
    <3> HIDE DEF Solves, at
    <3> QED
      BY <1>2, <3>1, RecursionExists, Zenon
  <2>3. \A n \in 0 .. m :
          g[n] = IF n < from THEN row ELSE Applied(g[n - 1], entries[n].op)
    <3> TAKE n \in 0 .. m
    <3>1. CASE n = 0
      BY <2>2, <3>1 DEF Recurses
    <3>2. CASE n # 0
      <4>1. n \in 1 .. m /\ n - 1 \in 0 .. m
        BY <1>2, <3>2
      <4>2. g[n - 1] \in Rows
        BY <4>1
      <4> QED
        BY <2>1, <2>2, <4>1, <4>2, Zenon DEF Recurses
    <3> QED
      BY <3>1, <3>2
  <2>4. Solves(g, m)
    BY <2>2, <2>3
  <2>5. Solves(at(m), m)
    <3> HIDE DEF Solves
    <3> QED
      BY <2>4
  <2> HIDE DEF at
  <2>6. at(m)[0] \in Rows
    BY <1>2, <2>5
  <2>7. \A n \in 1 .. m : at(m)[n - 1] \in Rows => at(m)[n] \in Rows
    <3> TAKE n \in 1 .. m
    <3>1. n \in 0 .. m /\ n \in 1 .. Len(entries)
      BY <1>2
    <3>2. at(m)[n] = IF n < from THEN row ELSE Applied(at(m)[n - 1], entries[n].op)
      BY <2>5, <3>1
    <3> QED
      BY <1>1, <3>1, <3>2, AppliedIsARow
  <2>8. \A n \in 0 .. m : at(m)[n] \in Rows
    <3> HIDE DEF Solves
    <3> QED
      BY <1>2, <2>6, <2>7, EveryPlace, Zenon
  <2> QED
    BY <2>5, <2>8
<1>3. ASSUME NEW m \in Nat, m <= Len(entries)
      PROVE  After(entries, row, from, m) = at(m)[m]
  BY Zenon DEF After
<1>4. ASSUME NEW m \in Nat \ {0}, m <= Len(entries)
      PROVE  at(m)[m - 1] = at(m - 1)[m - 1]
  <2>1. m - 1 \in Nat /\ m - 1 <= Len(entries)
    BY <1>4
  <2>2. Solves(at(m), m) /\ Solves(at(m - 1), m - 1)
    <3> HIDE DEF Solves, at
    <3> QED
      BY <1>2, <1>4, <2>1
  <2> HIDE DEF at
  <2> DEFINE k == m - 1
             agree == [n \in 0 .. k |-> IF at(m)[n] = at(m - 1)[n] THEN 1 ELSE 0]
             One == {1}
  <2>3. agree[0] \in One
    BY <1>4, <2>1, <2>2
  <2>4. \A n \in 1 .. k : agree[n - 1] \in One => agree[n] \in One
    <3> TAKE n \in 1 .. k
    <3>1. n \in 0 .. m /\ n \in 0 .. k /\ n - 1 \in 0 .. k
      BY <1>4, <2>1
    <3>2. /\ at(m)[n] = IF n < from THEN row ELSE Applied(at(m)[n - 1], entries[n].op)
          /\ at(m - 1)[n] = IF n < from THEN row ELSE Applied(at(m - 1)[n - 1], entries[n].op)
      BY <2>2, <3>1
    <3> QED
      BY <3>1, <3>2
  <2>5. agree[k] \in One
    <3>1. k \in Nat /\ k \in 0 .. k
      BY <2>1
    <3> HIDE DEF agree, k, One
    <3>2. \A n \in 0 .. k : agree[n] \in One
      BY <2>3, <2>4, <3>1, EveryPlace, Zenon
    <3> QED
      BY <3>1, <3>2
  <2>6. k \in 0 .. k
    BY <2>1
  <2>7. agree[k] = IF at(m)[k] = at(m - 1)[k] THEN 1 ELSE 0
    BY <2>6
  <2> HIDE DEF agree
  <2> QED
    BY <2>5, <2>7
<1> HIDE DEF at
<1>5. upto \in 0 .. upto /\ Solves(at(upto), upto) /\ at(upto)[upto] \in Rows
  <2> HIDE DEF Solves
  <2> QED
    BY <1>2
<1>6. at(upto)[upto] = IF upto < from THEN row ELSE Applied(at(upto)[upto - 1], entries[upto].op)
  BY <1>5
<1>7. ASSUME upto >= from
      PROVE  at(upto)[upto - 1] = After(entries, row, from, upto - 1)
  <2>1. upto \in Nat \ {0} /\ upto - 1 \in Nat /\ upto - 1 <= Len(entries)
    BY <1>7
  <2> HIDE DEF Solves
  <2> QED
    BY <1>3, <1>4, <2>1
<1> HIDE DEF Solves
<1> QED
  BY <1>3, <1>5, <1>6, <1>7

\* Pending writes shown on a row make it a row.
LEMMA WithPendingIsARow ==
  ASSUME NEW row \in Rows, NEW txs \in Seq(Txs)
  PROVE  WithPending(row, txs) \in Rows
<1> DEFINE m == Len(txs)
           Solves(f) == f = [n \in 0 .. m |-> IF n = 0 THEN row ELSE Reapplied(f[n - 1], txs[n])]
           at == CHOOSE f : Solves(f)
           step == [p \in Rows \X (1 .. m) |-> Reapplied(p[1], txs[p[2]])]
<1>1. m \in Nat /\ \A n \in 1 .. m : txs[n] \in Txs
  OBVIOUS
<1>2. \A a \in Rows : \A n \in 1 .. m : Reapplied(a, txs[n]) \in Rows
  BY <1>1, ShownIsARow DEF Txs
<1>3. step \in [Rows \X (1 .. m) -> Rows] /\ \A a \in Rows : \A n \in 1 .. m : step[<<a, n>>] = Reapplied(a, txs[n])
  <2> HIDE DEF m
  <2> QED
    BY <1>2
<1> HIDE DEF step
<1>4. row \in Rows
  OBVIOUS
<1>5. PICK g \in [0 .. m -> Rows] : Recurses(g, row, m, step)
  <2> HIDE DEF m, Solves, at
  <2> QED
    BY <1>1, <1>3, <1>4, RecursionExists, Zenon
<1>6. \A n \in 0 .. m : g[n] = IF n = 0 THEN row ELSE Reapplied(g[n - 1], txs[n])
  <2> HIDE DEF m
  <2> TAKE n \in 0 .. m
  <2>1. CASE n = 0
    BY <1>5, <2>1 DEF Recurses
  <2>2. CASE n # 0
    <3>1. n \in 1 .. m /\ n - 1 \in 0 .. m
      BY <1>1, <2>2
    <3>2. g[n] = step[<<g[n - 1], n>>] /\ g[n - 1] \in Rows
      BY <1>5, <3>1 DEF Recurses
    <3> QED
      BY <1>3, <2>2, <3>1, <3>2
  <2> QED
    BY <2>1, <2>2
<1>7. Solves(g)
  <2> HIDE DEF m
  <2> QED
    BY <1>5, <1>6
<1>8. Solves(at)
  <2> HIDE DEF Solves
  <2> QED
    BY <1>7
<1>9. WithPending(row, txs) = at[m]
  BY Zenon DEF WithPending, Fold
<1> HIDE DEF at
<1>10. \A n \in 0 .. m : at[n] \in Rows
  <2> HIDE DEF m
  <2>1. at[0] \in Rows
    BY <1>1, <1>4, <1>8
  <2>2. \A n \in 1 .. m : at[n - 1] \in Rows => at[n] \in Rows
    BY <1>1, <1>2, <1>8
  <2> HIDE DEF Solves
  <2> QED
    BY <1>1, <2>1, <2>2, EveryPlace, Zenon
<1> HIDE DEF m, Solves
<1> QED
  BY <1>1, <1>9, <1>10

\* Writes taken back from a row leave it a row.
LEMMA RolledBackIsARow ==
  ASSUME NEW row \in Rows, NEW txs \in Seq(Txs)
  PROVE  Fold(RolledBack, row, txs) \in Rows
<1> DEFINE m == Len(txs)
           Solves(f) == f = [n \in 0 .. m |-> IF n = 0 THEN row ELSE RolledBack(f[n - 1], txs[n])]
           at == CHOOSE f : Solves(f)
           step == [p \in Rows \X (1 .. m) |-> RolledBack(p[1], txs[p[2]])]
<1>1. m \in Nat /\ \A n \in 1 .. m : txs[n] \in Txs
  OBVIOUS
<1>2. \A a \in Rows : \A n \in 1 .. m : RolledBack(a, txs[n]) \in Rows
  BY <1>1, ShownIsARow DEF Txs
<1>3. step \in [Rows \X (1 .. m) -> Rows] /\ \A a \in Rows : \A n \in 1 .. m : step[<<a, n>>] = RolledBack(a, txs[n])
  <2> HIDE DEF m
  <2> QED
    BY <1>2
<1> HIDE DEF step
<1>4. row \in Rows
  OBVIOUS
<1>5. PICK g \in [0 .. m -> Rows] : Recurses(g, row, m, step)
  <2> HIDE DEF m, Solves, at
  <2> QED
    BY <1>1, <1>3, <1>4, RecursionExists
<1>6. \A n \in 0 .. m : g[n] = IF n = 0 THEN row ELSE RolledBack(g[n - 1], txs[n])
  <2> HIDE DEF m
  <2> TAKE n \in 0 .. m
  <2>1. CASE n = 0
    BY <1>5, <2>1 DEF Recurses
  <2>2. CASE n # 0
    <3>1. n \in 1 .. m /\ n - 1 \in 0 .. m
      BY <1>1, <2>2
    <3>2. g[n] = step[<<g[n - 1], n>>] /\ g[n - 1] \in Rows
      BY <1>5, <3>1 DEF Recurses
    <3> QED
      BY <1>3, <2>2, <3>1, <3>2
  <2> QED
    BY <2>1, <2>2
<1>7. Solves(g)
  <2> HIDE DEF m
  <2> QED
    BY <1>5, <1>6
<1>8. Solves(at)
  <2> HIDE DEF Solves
  <2> QED
    BY <1>7
<1>9. Fold(RolledBack, row, txs) = at[m]
  BY Zenon DEF Fold
<1> HIDE DEF at
<1>10. \A n \in 0 .. m : at[n] \in Rows
  <2> HIDE DEF m
  <2>1. at[0] \in Rows
    BY <1>1, <1>4, <1>8
  <2>2. \A n \in 1 .. m : at[n - 1] \in Rows => at[n] \in Rows
    BY <1>1, <1>2, <1>8
  <2> HIDE DEF Solves
  <2> QED
    BY <1>1, <2>1, <2>2, EveryPlace
<1> HIDE DEF m, Solves
<1> QED
  BY <1>1, <1>9, <1>10

Acc == [row : Rows, written : BOOLEAN]
Merge(acc, op, own) ==
    IF op.row # Absent /\ op.by \in own /\ ~acc.written /\ acc.row # Absent
    THEN acc ELSE [row |-> op.row, written |-> TRUE]

\* Server rows merged into a row make it a row.
LEMMA MergedIsARow ==
  ASSUME NEW row \in Rows, NEW ops \in Seq(Write), NEW own
  PROVE  Merged(row, ops, own) \in Rows
<1> DEFINE m == Len(ops)
           Solves(f) == f = [n \in 0 .. m |-> IF n = 0 THEN [row |-> row, written |-> FALSE] ELSE Merge(f[n - 1], ops[n], own)]
           at == CHOOSE f : Solves(f)
           step == [p \in Acc \X (1 .. m) |-> Merge(p[1], ops[p[2]], own)]
<1>1. m \in Nat /\ \A n \in 1 .. m : ops[n] \in Write
  OBVIOUS
<1>2. \A a \in Acc : \A n \in 1 .. m : Merge(a, ops[n], own) \in Acc
  BY <1>1 DEF Write, Acc, Merge
<1>3. step \in [Acc \X (1 .. m) -> Acc] /\ \A a \in Acc : \A n \in 1 .. m : step[<<a, n>>] = Merge(a, ops[n], own)
  <2> HIDE DEF m
  <2> QED
    BY <1>2
<1> HIDE DEF step
<1>4. [row |-> row, written |-> FALSE] \in Acc
  BY DEF Acc
<1>5. PICK g \in [0 .. m -> Acc] : Recurses(g, [row |-> row, written |-> FALSE], m, step)
  <2> HIDE DEF m, Solves, at
  <2> QED
    BY <1>1, <1>3, <1>4, RecursionExists, Zenon
<1>6. \A n \in 0 .. m : g[n] = IF n = 0 THEN [row |-> row, written |-> FALSE] ELSE Merge(g[n - 1], ops[n], own)
  <2> HIDE DEF m
  <2> TAKE n \in 0 .. m
  <2>1. CASE n = 0
    BY <1>5, <2>1 DEF Recurses
  <2>2. CASE n # 0
    <3>1. n \in 1 .. m /\ n - 1 \in 0 .. m
      BY <1>1, <2>2
    <3>2. g[n] = step[<<g[n - 1], n>>] /\ g[n - 1] \in Acc
      BY <1>5, <3>1 DEF Recurses
    <3> QED
      BY <1>3, <2>2, <3>1, <3>2
  <2> QED
    BY <2>1, <2>2
<1>7. Solves(g)
  <2> HIDE DEF m
  <2> QED
    BY <1>5, <1>6
<1>8. Solves(at)
  <2> HIDE DEF Solves
  <2> QED
    BY <1>7
<1>9. Merged(row, ops, own) = at[m].row
  BY Zenon DEF Merged, Fold, Merge
<1> HIDE DEF at
<1>10. \A n \in 0 .. m : at[n] \in Acc
  <2> HIDE DEF m
  <2>1. at[0] \in Acc
    BY <1>1, <1>4, <1>8
  <2>2. \A n \in 1 .. m : at[n - 1] \in Acc => at[n] \in Acc
    <3> TAKE n \in 1 .. m
    <3>1. n \in 0 .. m /\ n # 0
      BY <1>1
    <3>2. at[n] = Merge(at[n - 1], ops[n], own)
      BY <1>8, <3>1, Zenon
    <3> QED
      BY <1>2, <3>2
  <2> HIDE DEF Solves
  <2> QED
    BY <1>1, <2>1, <2>2, EveryPlace, Zenon
<1> HIDE DEF m, Solves
<1> QED
  BY <1>1, <1>9, <1>10 DEF Acc

\* A part of the log is its first actions and then the others.
LEMMA AfterSplits ==
  ASSUME NEW entries \in Seq(Commit), NEW row \in Rows, NEW from \in Nat \ {0},
         NEW middle \in Nat, NEW upto \in Nat,
         from <= middle + 1, middle <= upto, upto <= Len(entries)
  PROVE  /\ After(entries, row, from, middle) \in Rows
         /\ After(entries, row, from, upto)
              = After(entries, After(entries, row, from, middle), middle + 1, upto)
<1> DEFINE half == After(entries, row, from, middle)
           first(n) == After(entries, row, from, n)
           second(n) == After(entries, half, middle + 1, n)
           S == {k \in Nat : middle + k <= Len(entries) => first(middle + k) = second(middle + k)}
<1>1. Len(entries) \in Nat /\ middle + 1 \in Nat \ {0} /\ middle <= Len(entries)
  OBVIOUS
<1>2. half \in Rows
  BY <1>1, AfterSteps
<1>3. 0 \in S
  <2>1. middle + 0 = middle /\ middle < middle + 1
    OBVIOUS
  <2>2. second(middle) = half
    <3> HIDE DEF half
    <3> QED
      BY <1>1, <1>2, <2>1, AfterSteps
  <2> QED
    BY <2>1, <2>2
<1>4. ASSUME NEW k \in S
      PROVE  k + 1 \in S
  <2>1. k \in Nat
    OBVIOUS
  <2>2. ASSUME middle + (k + 1) <= Len(entries)
        PROVE  first(middle + (k + 1)) = second(middle + (k + 1))
    <3> DEFINE n == middle + (k + 1)
    <3>1. n \in Nat /\ n <= Len(entries) /\ n >= from /\ n >= middle + 1 /\ n - 1 = middle + k
      BY <1>1, <2>1, <2>2
    <3>2. first(n - 1) = second(n - 1)
      BY <1>1, <2>1, <3>1
    <3> HIDE DEF half, n, S
    <3>3. first(n) = Applied(first(n - 1), entries[n].op)
      BY <3>1, AfterSteps
    <3>4. second(n) = Applied(second(n - 1), entries[n].op)
      BY <1>1, <1>2, <3>1, AfterSteps
    <3> QED
      BY <3>2, <3>3, <3>4 DEF n
  <2> HIDE DEF first, second
  <2> QED
    BY <2>1, <2>2
<1>5. S = Nat
  <2>1. S \in SUBSET Nat
    OBVIOUS
  <2> HIDE DEF S
  <2> QED
    BY <1>3, <1>4, <2>1, Induction, Zenon
<1>6. upto - middle \in S /\ middle + (upto - middle) = upto
  <2>1. upto - middle \in Nat /\ middle + (upto - middle) = upto
    OBVIOUS
  <2> HIDE DEF S
  <2> QED
    BY <1>5, <2>1
<1>7. first(upto) = second(upto)
  <2> HIDE DEF first, second
  <2> QED
    BY <1>6
<1> QED
  BY <1>2, <1>7

\* What a part of a log makes of a row does not change as the log grows.
Grown(entries, longer) ==
    Len(entries) <= Len(longer) /\ \A i \in 1 .. Len(entries) : longer[i] = entries[i]

LEMMA AfterKept ==
  ASSUME NEW entries \in Seq(Commit), NEW longer \in Seq(Commit), NEW row \in Rows,
         NEW from \in Nat \ {0}, NEW upto \in Nat, upto <= Len(entries), Grown(entries, longer)
  PROVE  After(longer, row, from, upto) = After(entries, row, from, upto)
<1> DEFINE S == {n \in Nat : n <= Len(entries) =>
                    After(longer, row, from, n) = After(entries, row, from, n)}
<1>0. /\ Len(entries) \in Nat /\ Len(longer) \in Nat
      /\ \A n \in Nat : n <= Len(entries) => n <= Len(longer)
      /\ \A i \in 1 .. Len(entries) : longer[i] = entries[i]
  BY DEF Grown
<1>1. 0 \in S
  <2>1. 0 \in Nat /\ 0 <= Len(entries) /\ 0 <= Len(longer) /\ 0 < from
    BY <1>0
  <2>2. After(longer, row, from, 0) = row /\ After(entries, row, from, 0) = row
    <3> HIDE DEF S
    <3> QED
      BY <2>1, AfterSteps
  <2> QED
    BY <2>2
<1>2. ASSUME NEW k \in S
      PROVE  k + 1 \in S
  <2>1. k \in Nat /\ k + 1 \in Nat /\ (k + 1) - 1 = k
    OBVIOUS
  <2>2. ASSUME k + 1 <= Len(entries)
        PROVE  After(longer, row, from, k + 1) = After(entries, row, from, k + 1)
    <3>0. k + 1 <= Len(longer) /\ k + 1 \in 1 .. Len(entries)
      BY <1>0, <2>1, <2>2
    <3>1. CASE k + 1 < from
      <4> HIDE DEF S
      <4>1. After(longer, row, from, k + 1) = row /\ After(entries, row, from, k + 1) = row
        BY <2>1, <2>2, <3>0, <3>1, AfterSteps
      <4> QED
        BY <4>1
    <3>2. CASE k + 1 >= from
      <4>1. After(longer, row, from, k) = After(entries, row, from, k)
        BY <1>0, <2>1, <2>2
      <4> DEFINE n == k + 1
      <4>2. /\ n \in Nat /\ n >= from /\ n <= Len(entries) /\ n <= Len(longer)
            /\ n - 1 = k /\ longer[n] = entries[n]
        BY <1>0, <2>1, <2>2, <3>0, <3>2
      <4> HIDE DEF S, n
      <4>3. After(longer, row, from, n) = Applied(After(longer, row, from, n - 1), longer[n].op)
        BY <4>2, AfterSteps, Zenon
      <4>4. After(entries, row, from, n) = Applied(After(entries, row, from, n - 1), entries[n].op)
        BY <4>2, AfterSteps
      <4> QED
        BY <4>1, <4>2, <4>3, <4>4 DEF n
    <3> QED
      BY <2>1, <3>1, <3>2
  <2> QED
    BY <2>1, <2>2
<1>3. S = Nat
  <2>1. S \in SUBSET Nat
    OBVIOUS
  <2> HIDE DEF S
  <2> QED
    BY <1>1, <1>2, <2>1, Induction, Zenon
<1> QED
  BY <1>3

\* A part of the log makes one row of all rows, or puts some fields over each.
Overwrites(entries, from, upto) ==
    \/ \E r \in Rows : \A row \in Rows : After(entries, row, from, upto) = r
    \/ \E u \in Updates : \A row \in Rows :
          After(entries, row, from, upto) = IF row = Absent THEN Absent ELSE Over(u, row)

LEMMA PartsOverwrite ==
  ASSUME NEW entries \in Seq(Commit), NEW from \in Nat \ {0},
         NEW upto \in Nat, from <= upto + 1, upto <= Len(entries)
  PROVE  Overwrites(entries, from, upto)
<1> DEFINE before == from - 1
           S == {k \in Nat : before + k <= Len(entries) => Overwrites(entries, from, before + k)}
<1>1. before \in Nat /\ before < from /\ Len(entries) \in Nat /\ before <= Len(entries)
  OBVIOUS
<1>2. 0 \in S
  <2> DEFINE u == [f \in {} |-> 0]
  <2>1. u \in Updates
    <3>1. u \in [{} -> Nat] /\ {} \in SUBSET Fields
      OBVIOUS
    <3> QED
      BY <3>1, Zenon DEF Updates
  <2>2. ASSUME NEW row \in Rows, row # Absent
        PROVE  Over(u, row) = row
    <3>1. row \in [Fields -> Nat] /\ DOMAIN u = {}
      BY <2>2 DEF Rows
    <3> QED
      BY <3>1 DEF Over
  <2> HIDE DEF u
  <2>3. \A row \in Rows : After(entries, row, from, before) = row
    BY <1>1, AfterSteps
  <2>4. \A row \in Rows :
          After(entries, row, from, before) = IF row = Absent THEN Absent ELSE Over(u, row)
    BY <2>2, <2>3
  <2>5. Overwrites(entries, from, before) /\ before + 0 = before
    BY <1>1, <2>1, <2>4 DEF Overwrites
  <2> QED
    BY <2>5
<1>3. ASSUME NEW k \in S
      PROVE  k + 1 \in S
  <2>1. k \in Nat
    OBVIOUS
  <2>2. ASSUME before + (k + 1) <= Len(entries)
        PROVE  Overwrites(entries, from, before + (k + 1))
    <3> DEFINE n == before + (k + 1)
               op == entries[n].op
    <3>1. n \in Nat /\ n <= Len(entries) /\ n >= from /\ n - 1 = before + k /\ n \in DOMAIN entries
      BY <1>1, <2>1, <2>2
    <3>2. Overwrites(entries, from, n - 1)
      BY <1>1, <2>1, <3>1
    <3>3. op \in Operation
      <4>1. entries[n] \in Commit
        BY <3>1
      <4> QED
        BY <4>1 DEF Commit
    <3> HIDE DEF n, S, op
    <3>4. ASSUME NEW row \in Rows
          PROVE  /\ After(entries, row, from, n) = Applied(After(entries, row, from, n - 1), op)
                 /\ After(entries, row, from, n - 1) \in Rows
      <4>1. n - 1 \in Nat /\ n - 1 <= Len(entries)
        BY <3>1, <2>1, <1>1
      <4> QED
        BY <3>1, <4>1, AfterSteps DEF op
    <3>5. CASE op.act # "U"
      <4> DEFINE r == IF op.act = "I" THEN op.set ELSE Absent
      <4>1. r \in Rows
        BY <3>3, <3>5, OperationCases DEF Rows
      <4>2. \A row \in Rows : After(entries, row, from, n) = r
        BY <3>3, <3>4, <3>5, OperationCases DEF Applied
      <4> HIDE DEF r
      <4> QED
        BY <4>1, <4>2 DEF Overwrites, n
    <3>6. CASE op.act = "U"
      <4>1. op.set \in Updates
        BY <3>3, <3>6, OperationCases
      <4>2. \A r \in Rows : Applied(r, op) = IF r = Absent THEN Absent ELSE Over(op.set, r)
        BY <3>6 DEF Applied
      <4>3. CASE \E r \in Rows : \A row \in Rows : After(entries, row, from, n - 1) = r
        <5>1. PICK r \in Rows : \A row \in Rows : After(entries, row, from, n - 1) = r
          BY <4>3
        <5>2. Applied(r, op) \in Rows
          BY <3>3, AppliedIsARow
        <5>3. \A row \in Rows : After(entries, row, from, n) = Applied(r, op)
          BY <3>4, <5>1
        <5> QED
          BY <5>2, <5>3 DEF Overwrites, n
      <4>4. CASE \E u \in Updates : \A row \in Rows :
                   After(entries, row, from, n - 1) = IF row = Absent THEN Absent ELSE Over(u, row)
        <5>1. PICK u \in Updates : \A row \in Rows :
                   After(entries, row, from, n - 1) = IF row = Absent THEN Absent ELSE Over(u, row)
          BY <4>4
        <5>2. Over(op.set, u) \in Updates
          BY <4>1, <5>1, OverIsAnUpdate
        <5>3. ASSUME NEW row \in Rows
              PROVE  After(entries, row, from, n)
                       = IF row = Absent THEN Absent ELSE Over(Over(op.set, u), row)
          <6>1. CASE row = Absent
            BY <3>4, <4>2, <5>1, <6>1
          <6>2. CASE row # Absent
            <7>1. row \in [Fields -> Nat]
              BY <6>2 DEF Rows
            <7>2. Over(u, row) \in [Fields -> Nat]
              BY <5>1, <7>1, OverIsARow
            <7>3. Over(u, row) # Absent /\ Over(u, row) \in Rows
              BY <7>2, RowsAreNotAbsent
            <7>4. After(entries, row, from, n) = Over(op.set, Over(u, row))
              BY <3>4, <4>2, <5>1, <6>2, <7>3
            <7>5. Over(op.set, Over(u, row)) = Over(Over(op.set, u), row)
              <8>1. PICK fs \in SUBSET Fields : u \in [fs -> Nat]
                BY <5>1 DEF Updates
              <8>2. PICK gs \in SUBSET Fields : op.set \in [gs -> Nat]
                BY <4>1, Zenon DEF Updates
              <8> QED
                BY <7>1, <8>1, <8>2 DEF Over
            <7> QED
              BY <6>2, <7>4, <7>5
          <6> QED
            BY <6>1, <6>2
        <5> QED
          BY <5>2, <5>3 DEF Overwrites, n
      <4> QED
        BY <3>2, <4>3, <4>4 DEF Overwrites
    <3> QED
      BY <3>5, <3>6
  <2> QED
    BY <2>1, <2>2
<1>4. S = Nat
  <2>1. S \in SUBSET Nat
    OBVIOUS
  <2> HIDE DEF S
  <2> QED
    BY <1>2, <1>3, <2>1, Induction, Zenon
<1>5. upto - before \in Nat /\ before + (upto - before) = upto
  OBVIOUS
<1>6. upto - before \in S
  <2> HIDE DEF S, before
  <2> QED
    BY <1>4, <1>5
<1> HIDE DEF before
<1> QED
  BY <1>5, <1>6

\* What a part of the log has made of a row, it makes of that again.
LEMMA AfterIsStable ==
  ASSUME NEW entries \in Seq(Commit), NEW row \in Rows, NEW from \in Nat \ {0},
         NEW upto \in Nat, from <= upto + 1, upto <= Len(entries)
  PROVE  After(entries, After(entries, row, from, upto), from, upto)
           = After(entries, row, from, upto)
<1> DEFINE once == After(entries, row, from, upto)
<1>1. once \in Rows
  BY AfterSteps
<1>2. Overwrites(entries, from, upto)
  BY PartsOverwrite
<1>3. CASE \E r \in Rows : \A x \in Rows : After(entries, x, from, upto) = r
  BY <1>1, <1>3
<1>4. CASE \E u \in Updates : \A x \in Rows :
             After(entries, x, from, upto) = IF x = Absent THEN Absent ELSE Over(u, x)
  <2>1. PICK u \in Updates : \A x \in Rows :
             After(entries, x, from, upto) = IF x = Absent THEN Absent ELSE Over(u, x)
    BY <1>4
  <2>2. CASE row = Absent
    BY <2>1, <2>2
  <2>3. CASE row # Absent
    <3>1. row \in [Fields -> Nat]
      BY <2>3 DEF Rows
    <3>2. Over(u, row) \in [Fields -> Nat]
      BY <2>1, <3>1, OverIsARow
    <3>3. Over(u, row) # Absent /\ Over(u, row) \in Rows
      BY <3>2, RowsAreNotAbsent
    <3>4. PICK fs \in SUBSET Fields : u \in [fs -> Nat]
      BY <2>1 DEF Updates
    <3>5. Over(u, Over(u, row)) = Over(u, row)
      BY <3>1, <3>4 DEF Over
    <3> QED
      BY <2>1, <2>3, <3>3, <3>5
  <2> QED
    BY <2>2, <2>3
<1> QED
  BY <1>2, <1>3, <1>4 DEF Overwrites

-----------------------------------------------------------------------------
(* The script, and the lists of transactions and entries. *)

LEMMA OperationsAreTyped ==
  ASSUME NEW op, IsOperation(op)
  PROVE  op \in Operation
<1>1. CASE op \in [act : {"I"}, set : [Fields -> Nat]]
  <2>1. op.set \in Updates
    BY <1>1 DEF Updates
  <2>2. op \in [act : Acts, set : Sets]
    BY <1>1, <2>1 DEF Acts, Sets
  <2> QED
    BY <2>2 DEF Operation
<1>2. CASE \E fs \in SUBSET Fields : op \in [act : {"U"}, set : [fs -> Nat]]
  <2>1. op.set \in Updates
    BY <1>2 DEF Updates
  <2>2. op \in [act : Acts, set : Sets]
    BY <1>2, <2>1 DEF Acts, Sets
  <2> QED
    BY <2>2 DEF Operation
<1>3. CASE op \in [act : {"D"}, set : {Absent}]
  <2>1. op \in [act : Acts, set : Sets]
    BY <1>3 DEF Acts, Sets
  <2> QED
    BY <2>1 DEF Operation
<1> QED
  BY <1>1, <1>2, <1>3 DEF IsOperation

\* What a scenario consists of.
LEMMA ScriptsAreTyped ==
  ASSUME NEW s, Scenario(s)
  PROVE  /\ s.seed \in Rows /\ s.loaded \in BOOLEAN
         /\ Len(s.mine) \in Nat /\ DOMAIN s.mine = 1 .. Len(s.mine)
         /\ Len(s.theirs) \in Nat /\ DOMAIN s.theirs = 1 .. Len(s.theirs)
         /\ s.refused \in SUBSET Nat /\ s.losses \in Nat /\ s.crashes \in Nat
         /\ \A i \in DOMAIN s.mine :
              s.mine[i].act \in {"undo", "redo"} \/ s.mine[i] \in Operation
         /\ \A i \in DOMAIN s.theirs : s.theirs[i] \in Operation
<1>1. /\ s.seed \in Rows /\ s.loaded \in BOOLEAN
      /\ s.mine \in Seq(ToSet(s.mine)) /\ s.theirs \in Seq(ToSet(s.theirs))
      /\ s.refused \in SUBSET Nat /\ s.losses \in Nat /\ s.crashes \in Nat
  BY DEF Scenario
<1>2. /\ \A op \in ToSet(s.mine) : op.act \in {"undo", "redo"} \/ IsOperation(op)
      /\ \A op \in ToSet(s.theirs) : IsOperation(op)
  BY DEF Scenario
<1>3. /\ Len(s.mine) \in Nat /\ DOMAIN s.mine = 1 .. Len(s.mine)
      /\ Len(s.theirs) \in Nat /\ DOMAIN s.theirs = 1 .. Len(s.theirs)
  BY <1>1
<1>4. /\ \A i \in DOMAIN s.mine : s.mine[i] \in ToSet(s.mine)
      /\ \A i \in DOMAIN s.theirs : s.theirs[i] \in ToSet(s.theirs)
  BY DEF ToSet
<1> QED
  BY <1>1, <1>2, <1>3, <1>4, OperationsAreTyped

\* A scenario with one crash or loss fewer is one.
LEMMA ScenarioKept ==
  ASSUME NEW s, Scenario(s), NEW t,
         \/ s.crashes > 0 /\ t = [s EXCEPT !.crashes = @ - 1]
         \/ s.losses > 0 /\ t = [s EXCEPT !.losses = @ - 1]
  PROVE  /\ Scenario(t) /\ t.mine = s.mine /\ t.theirs = s.theirs /\ t.seed = s.seed
         /\ t.loaded = s.loaded
<1>1. s \in [seed : Rows, loaded : BOOLEAN, mine : Seq(ToSet(s.mine)), theirs : Seq(ToSet(s.theirs)),
             refused : SUBSET Nat, strategy : {"server-wins", "client-wins"},
             losses : Nat, crashes : Nat]
  BY DEF Scenario
<1>2. t.mine = s.mine /\ t.theirs = s.theirs /\ t.seed = s.seed /\ t.loaded = s.loaded
  BY <1>1
<1>3. t \in [seed : Rows, loaded : BOOLEAN, mine : Seq(ToSet(s.mine)), theirs : Seq(ToSet(s.theirs)),
             refused : SUBSET Nat, strategy : {"server-wins", "client-wins"},
             losses : Nat, crashes : Nat]
  <2> DEFINE M == Seq(ToSet(s.mine))
             T == Seq(ToSet(s.theirs))
  <2> HIDE DEF M, T
  <2>1. s.crashes > 0 => s.crashes - 1 \in Nat
    BY <1>1
  <2>2. s.losses > 0 => s.losses - 1 \in Nat
    BY <1>1
  <2>3. s \in [seed : Rows, loaded : BOOLEAN, mine : M, theirs : T,
               refused : SUBSET Nat, strategy : {"server-wins", "client-wins"},
               losses : Nat, crashes : Nat]
    BY <1>1 DEF M, T
  <2>4. t \in [seed : Rows, loaded : BOOLEAN, mine : M, theirs : T,
               refused : SUBSET Nat, strategy : {"server-wins", "client-wins"},
               losses : Nat, crashes : Nat]
    BY <2>1, <2>2, <2>3
  <2> QED
    BY <2>4 DEF M, T
<1> QED
  BY <1>2, <1>3 DEF Scenario

\* A partial update replaces rows by number, and adds and removes none.
LEMMA UpdatesKeepTheOutbox ==
  ASSUME outbox \in Seq(Txs), NEW rows \in SUBSET Txs
  PROVE  /\ Updated(rows) \in Seq(Txs)
         /\ ToSet(Updated(rows)) \subseteq ToSet(outbox) \cup rows
         /\ Ids(Updated(rows)) = Ids(outbox)
<1> DEFINE u(i) == IF \E tx \in rows : tx.n = outbox[i].n
                   THEN CHOOSE tx \in rows : tx.n = outbox[i].n
                   ELSE outbox[i]
<1>1. Len(outbox) \in Nat /\ DOMAIN outbox = 1 .. Len(outbox) /\ \A i \in DOMAIN outbox : outbox[i] \in Txs
  OBVIOUS
<1>2. \A i \in DOMAIN outbox : (u(i) = outbox[i] \/ u(i) \in rows) /\ u(i).n = outbox[i].n /\ u(i) \in Txs
  BY <1>1
<1> HIDE DEF u
<1>3. Updated(rows) = [i \in DOMAIN outbox |-> u(i)]
  BY DEF Updated, u
<1>4. Updated(rows) \in Seq(Txs)
  BY <1>1, <1>2, <1>3
<1>5. ToSet(Updated(rows)) = {u(i) : i \in DOMAIN outbox} /\ ToSet(outbox) = {outbox[i] : i \in DOMAIN outbox}
  BY <1>3 DEF ToSet
<1>6. ToSet(Updated(rows)) \subseteq ToSet(outbox) \cup rows
  BY <1>2, <1>5
<1>7. Ids(Updated(rows)) = {u(i).n : i \in DOMAIN outbox} /\ Ids(outbox) = {outbox[i].n : i \in DOMAIN outbox}
  BY <1>5 DEF Ids
<1> QED
  BY <1>2, <1>4, <1>6, <1>7

\* What is dropped from the outbox, and the parts of it that are read.
LEMMA DroppingKeepsTheRest ==
  ASSUME outbox \in Seq(Txs), NEW ns
  PROVE  /\ Dropping(ns) \in Seq(Txs)
         /\ ToSet(Dropping(ns)) = {tx \in ToSet(outbox) : tx.n \notin ns}
         /\ Ids(Dropping(ns)) = Ids(outbox) \ ns
<1>1. /\ Dropping(ns) \in Seq(Txs)
      /\ ToSet(Dropping(ns)) = ToSet(outbox) \ Stored(ns)
  BY WithoutDropsTheSet DEF Dropping
<1>2. ToSet(Dropping(ns)) = {tx \in ToSet(outbox) : tx.n \notin ns}
  BY <1>1 DEF Stored
<1> QED
  BY <1>1, <1>2 DEF Ids

LEMMA PartsOfTheOutbox ==
  ASSUME NEW txs \in Seq(Txs)
  PROVE  /\ Actives(txs) \in Seq(Txs) /\ ToSet(Actives(txs)) \subseteq ToSet(txs)
         /\ outbox = txs => Queued \in Seq(Txs) /\ ToSet(Queued) \subseteq ToSet(txs)
<1>1. Actives(txs) \in Seq(Txs) /\ ToSet(Actives(txs)) \subseteq ToSet(txs)
  BY WithoutDropsTheSet DEF Actives
<1>2. ASSUME outbox = txs
      PROVE  Queued \in Seq(Txs) /\ ToSet(Queued) \subseteq ToSet(txs)
  BY <1>2, WithoutDropsTheSet DEF Queued
<1> QED
  BY <1>1, <1>2

-----------------------------------------------------------------------------
(* The history. *)

LEMMA HistoryFields ==
  ASSUME NEW h \in History
  PROVE  /\ h.undo \in Seq(Entries) /\ h.redo \in Seq(Entries) /\ h.missed \in SUBSET Nat
         /\ h.popped \in Popped /\ h.popped.from \in {"none", "undo", "redo"}
         /\ h.popped.from # "none" => h.popped.entry \in Entries
         /\ h = [undo |-> h.undo, redo |-> h.redo, popped |-> h.popped, missed |-> h.missed]
<1>1. h.popped \in Popped
  BY DEF History
<1>2. h.popped.from \in {"none", "undo", "redo"} /\ (h.popped.from # "none" => h.popped.entry \in Entries)
  BY <1>1 DEF Popped
<1> QED
  BY <1>1, <1>2 DEF History

\* Forgetting drops the entries of the transactions from both stacks.
LEMMA ForgottenFields ==
  ASSUME history \in History, NEW ns \in SUBSET Nat
  PROVE  /\ Forgotten(history, ns) \in History
         /\ ToSet(Forgotten(history, ns).undo) = {e \in ToSet(history.undo) : e.tx \notin ns}
         /\ ToSet(Forgotten(history, ns).redo) = {e \in ToSet(history.redo) : e.tx \notin ns}
         /\ Forgotten(history, ns).popped = history.popped
         /\ history.missed \subseteq Forgotten(history, ns).missed
         /\ Replays => ns \cap {history.popped.entry.tx} \subseteq Forgotten(history, ns).missed
<1> DEFINE kept(stack) == Without(stack, {e \in ToSet(stack) : e.tx \in ns})
           missed == IF Replays THEN history.missed \cup (ns \cap {history.popped.entry.tx})
                     ELSE history.missed
<1>1. ASSUME NEW stack \in Seq(Entries)
      PROVE  kept(stack) \in Seq(Entries) /\ ToSet(kept(stack)) = {e \in ToSet(stack) : e.tx \notin ns}
  <2>1. /\ kept(stack) \in Seq(Entries)
        /\ ToSet(kept(stack)) = ToSet(stack) \ {e \in ToSet(stack) : e.tx \in ns}
    BY WithoutDropsTheSet
  <2> QED
    BY <2>1
<1>2. history.undo \in Seq(Entries) /\ history.redo \in Seq(Entries) /\ history.missed \in SUBSET Nat
  BY HistoryFields
<1>3. history.popped \in Popped /\ DOMAIN history = {"undo", "redo", "popped", "missed"}
  BY DEF History
<1>4. missed \in SUBSET Nat
  BY <1>2, Zenon
<1>5. Forgotten(history, ns)
        = [undo |-> kept(history.undo), redo |-> kept(history.redo),
           popped |-> history.popped, missed |-> missed]
  <2> HIDE DEF kept, missed
  <2> DEFINE h == Forgotten(history, ns)
  <2>1. h = [history EXCEPT !.undo = kept(@), !.redo = kept(@), !.missed = missed]
    BY Zenon DEF Forgotten, kept, missed
  <2> HIDE DEF h
  <2>2. h = [undo |-> kept(history.undo), redo |-> kept(history.redo),
             popped |-> history.popped, missed |-> missed]
    BY <1>3, <2>1, Zenon
  <2> QED
    BY <2>2 DEF h
<1> HIDE DEF kept
<1>6. Forgotten(history, ns) \in History
  <2> HIDE DEF missed
  <2>1. kept(history.undo) \in Seq(Entries) /\ kept(history.redo) \in Seq(Entries)
    BY <1>1, <1>2
  <2> QED
    BY <1>3, <1>4, <1>5, <2>1 DEF History
<1> QED
  BY <1>1, <1>2, <1>5, <1>6

\* The entry of a transaction has its number, and what it does and undoes.
LEMMA EntryIsTyped ==
  ASSUME NEW tx \in Txs
  PROVE  Entry(tx) \in Entries /\ Entry(tx).tx = tx.n
<1> DEFINE redo == [act |-> tx.act, set |-> tx.set, original |-> tx.original]
           undo == CASE tx.act = "I" -> [act |-> "D", set |-> Absent, original |-> tx.set]
                     [] tx.act = "D" -> [act |-> "I", set |-> tx.original, original |-> Absent]
                     [] tx.act = "U" -> [act |-> "U", set |-> tx.original, original |-> tx.set]
<1>1. tx.n \in Nat /\ tx.act \in Acts /\ tx.set \in Sets /\ tx.original \in Sets /\ Sound(tx)
  BY DEF Txs
<1>2. redo \in Change
  BY <1>1 DEF Change, Sound
<1>3. undo \in Change
  <2>1. CASE tx.act = "I"
    <3>1. undo = [act |-> "D", set |-> Absent, original |-> tx.set]
      BY <2>1
    <3> HIDE DEF undo
    <3> QED
      BY <1>1, <2>1, <3>1 DEF Change, Sound, Acts, Sets
  <2>2. CASE tx.act = "D"
    <3>1. undo = [act |-> "I", set |-> tx.original, original |-> Absent]
      BY <2>2
    <3> HIDE DEF undo
    <3> QED
      BY <1>1, <2>2, <3>1 DEF Change, Sound, Acts, Sets
  <2>3. CASE tx.act = "U"
    <3>1. undo = [act |-> "U", set |-> tx.original, original |-> tx.set]
      BY <2>3
    <3> HIDE DEF undo
    <3> QED
      BY <1>1, <2>3, <3>1 DEF Change, Sound, Acts, Sets
  <2> QED
    BY <1>1, <2>1, <2>2, <2>3 DEF Acts
<1>4. Entry(tx) = [tx |-> tx.n, redo |-> redo, undo |-> undo]
  BY Zenon DEF Entry
<1> HIDE DEF redo, undo
<1> QED
  BY <1>1, <1>2, <1>3, <1>4 DEF Entries

LEMMA RecordedFields ==
  ASSUME history \in History, NEW tx \in Txs
  PROVE  /\ Recorded(tx) \in History /\ Recorded(tx).popped = history.popped
         /\ Recorded(tx).missed = history.missed
         /\ \A e \in ToSet(Recorded(tx).undo) \cup ToSet(Recorded(tx).redo) :
              e \in ToSet(history.undo) \/ e.tx = tx.n
<1>1. /\ history.undo \in Seq(Entries) /\ history.redo \in Seq(Entries) /\ history.missed \in SUBSET Nat
      /\ history.popped \in Popped
  BY HistoryFields
<1>2. DOMAIN history = {"undo", "redo", "popped", "missed"}
  BY DEF History
<1>3. Entry(tx) \in Entries /\ Entry(tx).tx = tx.n
  BY EntryIsTyped
<1>4. /\ Append(history.undo, Entry(tx)) \in Seq(Entries)
      /\ ToSet(Append(history.undo, Entry(tx))) = ToSet(history.undo) \cup {Entry(tx)}
  BY <1>1, <1>3, AppendLists
<1>5. <<>> \in Seq(Entries) /\ ToSet(<<>>) = {}
  BY DEF ToSet
<1>6. Recorded(tx) = [undo |-> Append(history.undo, Entry(tx)), redo |-> <<>>,
                      popped |-> history.popped, missed |-> history.missed]
  <2> DEFINE h == Recorded(tx)
  <2>1. h = [history EXCEPT !.undo = Append(@, Entry(tx)), !.redo = <<>>]
    BY Zenon DEF Recorded
  <2> HIDE DEF h
  <2>2. h = [undo |-> Append(history.undo, Entry(tx)), redo |-> <<>>,
             popped |-> history.popped, missed |-> history.missed]
    BY <1>2, <2>1, Zenon
  <2> QED
    BY <2>2 DEF h
<1>7. Recorded(tx) \in History
  BY <1>1, <1>4, <1>5, <1>6 DEF History
<1> QED
  BY <1>3, <1>4, <1>5, <1>6, <1>7

\* Where the popped entry goes when the undo or redo ends.
LEMMA ReplayEndsFields ==
  ASSUME history \in History, Replays, NEW n \in Nat,
         NEW h \in {Moved(n), PutBack}
  PROVE  /\ h \in History /\ h.popped.from = "none" /\ h.missed = history.missed
         /\ \A e \in ToSet(h.undo) \cup ToSet(h.redo) :
              \/ e \in ToSet(history.undo) \cup ToSet(history.redo)
              \/ e.tx = IF h = Moved(n) THEN n ELSE history.popped.entry.tx
<1> DEFINE p == history.popped
           e0 == [p.entry EXCEPT !.tx = n]
           none == NoHistory.popped
<1>1. /\ history.undo \in Seq(Entries) /\ history.redo \in Seq(Entries) /\ history.missed \in SUBSET Nat
      /\ history = [undo |-> history.undo, redo |-> history.redo, popped |-> history.popped,
                    missed |-> history.missed]
      /\ p.from \in {"undo", "redo"} /\ p.entry \in Entries
  BY HistoryFields DEF Replays
<1>2. none \in Popped /\ none.from = "none"
  BY DEF NoHistory, Popped
<1>3. e0 \in Entries /\ e0.tx = n
  BY <1>1, Zenon DEF Entries
<1> HIDE DEF e0, none
<1>4. ASSUME NEW s \in Seq(Entries), NEW e \in Entries
      PROVE  Append(s, e) \in Seq(Entries) /\ ToSet(Append(s, e)) = ToSet(s) \cup {e}
  BY AppendLists
<1>5. ASSUME NEW e \in Entries, NEW g,
             \/ g = [history EXCEPT !.undo = Append(@, e), !.popped = none]
             \/ g = [history EXCEPT !.redo = Append(@, e), !.popped = none]
      PROVE  /\ g \in History /\ g.popped.from = "none" /\ g.missed = history.missed
             /\ \A f \in ToSet(g.undo) \cup ToSet(g.redo) :
                  f \in ToSet(history.undo) \cup ToSet(history.redo) \/ f = e
  <2>1. CASE g = [history EXCEPT !.undo = Append(@, e), !.popped = none]
    <3>1. g = [undo |-> Append(history.undo, e), redo |-> history.redo,
               popped |-> none, missed |-> history.missed]
      BY <1>1, <2>1, Zenon
    <3>2. g \in History
      BY <1>1, <1>2, <1>4, <1>5, <3>1 DEF History
    <3> QED
      BY <1>1, <1>2, <1>4, <1>5, <3>1, <3>2
  <2>2. CASE g = [history EXCEPT !.redo = Append(@, e), !.popped = none]
    <3>1. g = [undo |-> history.undo, redo |-> Append(history.redo, e),
               popped |-> none, missed |-> history.missed]
      BY <1>1, <2>2, Zenon
    <3>2. g \in History
      BY <1>1, <1>2, <1>4, <1>5, <3>1 DEF History
    <3> QED
      BY <1>1, <1>2, <1>4, <1>5, <3>1, <3>2
  <2> QED
    BY <1>5, <2>1, <2>2
<1>6. CASE h = Moved(n)
  <2>1. \/ h = [history EXCEPT !.undo = Append(@, e0), !.popped = none]
        \/ h = [history EXCEPT !.redo = Append(@, e0), !.popped = none]
    BY <1>6, Zenon DEF Moved, e0, none
  <2> QED
    BY <1>3, <1>5, <1>6, <2>1
<1>7. CASE h = PutBack /\ h # Moved(n)
  <2>1. \/ h = [history EXCEPT !.undo = Append(@, p.entry), !.popped = none]
        \/ h = [history EXCEPT !.redo = Append(@, p.entry), !.popped = none]
    BY <1>7, Zenon DEF PutBack, none
  <2> QED
    BY <1>1, <1>5, <1>7, <2>1
<1> QED
  BY <1>6, <1>7

-----------------------------------------------------------------------------
(* What the log's growth, and a step that leaves a conjunct's variables     *)
(* alone, do to the invariant.                                              *)

LEMMA LogGrows ==
  ASSUME log \in Seq(Commit), NEW e \in Commit, log' = Append(log, e)
  PROVE  /\ log' \in Seq(Commit) /\ Len(log) \in Nat /\ Len(log') = Len(log) + 1
         /\ log'[Len(log) + 1] = e
         /\ \A n : Known(n) => Known(n)'
         /\ \E i \in DOMAIN log' : log'[i].by = e.by
         /\ \A row \in Rows, from \in Nat \ {0}, upto \in Nat :
              upto <= Len(log) => After(log', row, from, upto) = After(log, row, from, upto)
<1>1. /\ log' \in Seq(Commit) /\ Len(log) \in Nat /\ Len(log') = Len(log) + 1
      /\ DOMAIN log = 1 .. Len(log) /\ DOMAIN log' = 1 .. Len(log) + 1
      /\ log'[Len(log) + 1] = e
      /\ \A i \in 1 .. Len(log) : log'[i] = log[i]
  OBVIOUS
<1>2. \A n : Known(n) => Known(n)'
  BY <1>1 DEF Known
<1>3. \E i \in DOMAIN log' : log'[i].by = e.by
  <2>1. Len(log) + 1 \in DOMAIN log'
    BY <1>1
  <2> QED
    BY <1>1, <2>1
<1>4. ASSUME NEW row \in Rows, NEW from \in Nat \ {0}, NEW upto \in Nat, upto <= Len(log)
      PROVE  After(log', row, from, upto) = After(log, row, from, upto)
  <2>1. Grown(log, log')
    BY <1>1 DEF Grown
  <2>2. log \in Seq(Commit) /\ log' \in Seq(Commit)
    BY <1>1
  <2> QED
    BY <1>4, <2>1, <2>2, AfterKept, ZenonT(30)
<1> QED
  BY <1>1, <1>2, <1>3, <1>4

\* What is in storage still becomes what the log makes of the row.
LEMMA StoreFollowsAsLogGrows ==
  ASSUME DataInv, StoredOnce, StoreFollowsLog, PacketInv, NEW e \in Commit, log' = Append(log, e),
         UNCHANGED <<scenario, store, cursor, packet>>
  PROVE  StoreFollowsLog' /\ StoredOnce'
<1>1. /\ log \in Seq(Commit) /\ store \in Rows /\ cursor \in Nat /\ cursor <= Len(log)
      /\ Scenario(scenario)
  BY DEF DataInv
<1>2. Loaded \in Rows
  BY <1>1, ScriptsAreTyped DEF Loaded, Rows
<1>3. /\ log' \in Seq(Commit) /\ Len(log) \in Nat /\ Len(log') = Len(log) + 1
      /\ \A row \in Rows, from \in Nat \ {0}, upto \in Nat :
           upto <= Len(log) => After(log', row, from, upto) = After(log, row, from, upto)
  BY <1>1, LogGrows
<1> DEFINE n == Len(log')
           c == cursor + 1
<1>4. /\ n \in Nat /\ n - 1 = Len(log) /\ c \in Nat \ {0} /\ n >= c /\ n >= 1 /\ n <= Len(log')
      /\ 1 \in Nat \ {0}
  BY <1>1, <1>3
<1>5. After(log, store, c, Len(log)) = After(log, Loaded, 1, Len(log))
  BY DEF StoreFollowsLog, ThroughLog
<1> HIDE DEF n, c
<1>6. After(log', store, c, n) = Applied(After(log', store, c, n - 1), log'[n].op)
  BY <1>1, <1>3, <1>4, AfterSteps, Zenon
<1>7. After(log', Loaded, 1, n) = Applied(After(log', Loaded, 1, n - 1), log'[n].op)
  BY <1>2, <1>3, <1>4, AfterSteps, Zenon
<1>8. /\ After(log', store, c, n - 1) = After(log, store, c, n - 1)
      /\ After(log', Loaded, 1, n - 1) = After(log, Loaded, 1, n - 1)
  <2>1. Len(log) <= Len(log)
    BY <1>3
  <2> QED
    BY <1>1, <1>2, <1>3, <1>4, <2>1
<1>9. After(log', store, c, n) = After(log', Loaded, 1, n)
  BY <1>4, <1>5, <1>6, <1>7, <1>8
<1>10. StoreFollowsLog'
  BY <1>9 DEF StoreFollowsLog, ThroughLog, Loaded, n, c
<1>11. StoredOnce'
  <2> SUFFICES ASSUME packet.pc \in {"confirms", "rereads", "shows", "commits"}
               PROVE  After(log', store, c, packet.upto) = store
    BY DEF StoredOnce, ThroughLog, c
  <2>1. packet.upto \in Nat /\ packet.upto <= Len(log)
    BY DEF PacketInv, Packet, NoTask
  <2>2. After(log, store, c, packet.upto) = store
    BY DEF StoredOnce, ThroughLog, c
  <2> QED
    BY <1>1, <1>3, <1>4, <2>1, <2>2
<1> QED
  BY <1>10, <1>11

LEMMA CallKept ==
  ASSUME CallInv, UNCHANGED <<writer, done>>, history'.popped = history.popped,
         scenario'.mine = scenario.mine
  PROVE  CallInv'
BY DEF CallInv, Replays, Item

LEMMA PacketKept ==
  ASSUME PacketInv, UNCHANGED <<packet, cursor, log>>
  PROVE  PacketInv'
BY DEF PacketInv, ConflictsOf, FirstConflict, Echoed, Brought

\* What the rebase finds does not change as the log grows.
LEMMA PacketKeptAsLogGrows ==
  ASSUME PacketInv, DataInv, UNCHANGED <<packet, cursor>>, NEW e \in Commit, log' = Append(log, e)
  PROVE  PacketInv'
<1> DEFINE candidates(l, b, seen, tx) ==
             {i \in b : l[i].by \notin Ids(seen) /\ Conflicts(tx, l[i].op)}
           echoed(l, b, seen) == {l[i].by : i \in b} \cap Ids(seen)
           first(l, b, seen, tx) ==
             IF tx.n \in echoed(l, b, seen) \/ InFlight(tx) \/ candidates(l, b, seen, tx) = {} THEN 0
             ELSE CHOOSE i \in candidates(l, b, seen, tx) :
                    \A j \in candidates(l, b, seen, tx) : i <= j
<1>1. log \in Seq(Commit) /\ cursor \in Nat /\ cursor <= Len(log)
  BY DEF DataInv
<1>2. /\ Len(log) \in Nat /\ Len(log') = Len(log) + 1
      /\ \A i \in 1 .. Len(log) : log'[i] = log[i]
  BY <1>1
<1>3. packet.pc # "idle" => packet.upto \in Nat /\ cursor < packet.upto /\ packet.upto <= Len(log)
  BY DEF PacketInv, Packet, NoTask
<1>4. ASSUME packet.pc # "idle"
      PROVE  \A i \in Brought : log'[i] = log[i]
  <2>1. Brought \subseteq 1 .. Len(log)
    BY <1>1, <1>2, <1>3, <1>4 DEF Brought
  <2> QED
    BY <1>2, <2>1
<1>5. ASSUME packet.pc # "idle", NEW seen, NEW tx
      PROVE  first(log', Brought, seen, tx) = first(log, Brought, seen, tx)
  <2>1. candidates(log', Brought, seen, tx) = candidates(log, Brought, seen, tx)
    BY <1>4, <1>5, Zenon
  <2>2. echoed(log', Brought, seen) = echoed(log, Brought, seen)
    BY <1>4, <1>5, Zenon
  <2> HIDE DEF candidates, echoed
  <2> QED
    BY <2>1, <2>2
<1>6. /\ ConflictsOf(packet.seen)
           = {i \in DOMAIN packet.seen : first(log, Brought, packet.seen, packet.seen[i]) # 0}
      /\ ConflictsOf(packet.seen)'
           = {i \in DOMAIN packet'.seen : first(log', Brought', packet'.seen, packet'.seen[i]) # 0}
  BY Zenon DEF ConflictsOf, FirstConflict, Echoed
<1>7. Brought' = Brought
  BY DEF Brought
<1> HIDE DEF first
<1>8. packet.pc # "idle" => ConflictsOf(packet.seen)' = ConflictsOf(packet.seen)
  BY <1>5, <1>6, <1>7
<1> DEFINE found == ConflictsOf(packet.seen)
<1> HIDE DEF found
<1>9. packet.pc \in {"rebases", "stages"} => packet.conflicts \subseteq found
  BY DEF PacketInv, found
<1>10. packet.pc # "idle" => found' = found
  BY <1>8 DEF found
<1>11. packet'.pc \in {"rebases", "stages"} => packet'.conflicts \subseteq found'
  BY <1>9, <1>10
<1> QED
  BY <1>2, <1>3, <1>11 DEF PacketInv, found

LEMMA RequestKept ==
  ASSUME RequestInv, UNCHANGED <<request, refusal>>, \A n : Known(n) => Known(n)'
  PROVE  RequestInv'
BY DEF RequestInv

\* Two rows of one transaction.
Same(s, t) == s.n = t.n /\ s.act = t.act /\ s.set = t.set

LEMMA MadeOnceKept ==
  ASSUME MadeOnce, DataInv, RequestInv, done' \in Nat, done <= done',
         \A t \in ToSet(outbox') \cup Requested' :
            \E s \in ToSet(outbox) \cup Requested : Same(s, t)
  PROVE  MadeOnce'
<1>1. \A s \in ToSet(outbox) \cup Requested : s.n \in Nat
  <2>1. outbox \in Seq(Txs) /\ ~Idle(request) => request.txs \in Seq(Txs)
    BY DEF DataInv, RequestInv, Request, NoTask, Idle
  <2>2. ToSet(outbox) \subseteq Txs /\ Requested \subseteq Txs
    BY <2>1, ListsOf DEF Requested, DataInv
  <2> QED
    BY <2>2 DEF Txs
<1>2. done \in Nat
  BY DEF DataInv
<1> SUFFICES ASSUME NEW s \in ToSet(outbox') \cup Requested', NEW t \in ToSet(outbox') \cup Requested'
             PROVE  s.n <= done' /\ (s.n = t.n => s.act = t.act /\ s.set = t.set)
  BY DEF MadeOnce
<1>3. PICK u \in ToSet(outbox) \cup Requested : Same(u, s)
  OBVIOUS
<1>4. PICK v \in ToSet(outbox) \cup Requested : Same(v, t)
  OBVIOUS
<1>5. u.n <= done /\ (u.n = v.n => u.act = v.act /\ u.set = v.set)
  BY <1>3, <1>4 DEF MadeOnce
<1> QED
  BY <1>1, <1>2, <1>3, <1>4, <1>5 DEF Same

LEMMA AwaitingKept ==
  ASSUME AwaitingIsKnown, \A n : Known(n) => Known(n)',
         \A t \in ToSet(outbox') : t.state = "awaitingSync" =>
            Known(t.n)' \/ \E s \in ToSet(outbox) : s.n = t.n /\ s.state = "awaitingSync"
  PROVE  AwaitingIsKnown'
BY DEF AwaitingIsKnown

LEMMA StoreKept ==
  ASSUME UNCHANGED <<store, cursor, log>>, scenario'.seed = scenario.seed,
         scenario'.loaded = scenario.loaded
  PROVE  /\ StoreFollowsLog => StoreFollowsLog'
         /\ StoredOnce /\ (packet' = packet \/ packet'.pc \in {"idle", "stored", "rebases", "stages"}) =>
              StoredOnce'
<1>1. StoreFollowsLog => StoreFollowsLog'
  BY DEF StoreFollowsLog, ThroughLog, Loaded
<1>2. ASSUME StoredOnce, packet' = packet \/ packet'.pc \in {"idle", "stored", "rebases", "stages"}
      PROVE  StoredOnce'
  BY <1>2 DEF StoredOnce, ThroughLog
<1> QED
  BY <1>1, <1>2

LEMMA HistoryKept ==
  ASSUME HistoryInv, \A n : Reachable(n) => Reachable(n)',
         ToSet(history'.undo) \cup ToSet(history'.redo) \subseteq ToSet(history.undo) \cup ToSet(history.redo),
         Replays' => Replays /\ history'.popped = history.popped
  PROVE  HistoryInv'
<1>1. \A e \in ToSet(history'.undo) \cup ToSet(history'.redo) : Reachable(e.tx)
  BY DEF HistoryInv
<1>2. Replays' => Reachable(history'.popped.entry.tx)
  BY DEF HistoryInv
<1> HIDE DEF Reachable
<1> QED
  BY <1>1, <1>2 DEF HistoryInv

-----------------------------------------------------------------------------
(* Transactions. *)

\* A call that may be made is one of the script, or an undo or redo of one.
LEMMA CallsAreInTheScript ==
  ASSUME DataInv, CallInv, Mutates
  PROVE  /\ Item \in Nat /\ Item <= Len(scenario.mine) /\ Item = done + 1
         /\ Len(scenario.mine) \in Nat
<1>1. /\ done \in Nat /\ Len(scenario.mine) \in Nat
      /\ DOMAIN scenario.mine = 1 .. Len(scenario.mine)
  BY ScriptsAreTyped DEF DataInv
<1>2. CASE Replays
  BY <1>1, <1>2 DEF CallInv, Item
<1>3. CASE ~Replays
  BY <1>1, <1>3 DEF Mutates, Calls, Item
<1> QED
  BY <1>2, <1>3

\* What is performed: an operation, with the row or the change it replaces.
LEMMA CallIsTyped ==
  ASSUME DataInv, CallInv, Mutates
  PROVE  /\ \/ Call.act = "I" /\ Call.set \in [Fields -> Nat]
            \/ Call.act = "U" /\ Call.set \in Updates
            \/ Call.act = "D" /\ Call.set = Absent
         /\ Call.from = view \/ Sound([act |-> Call.act, set |-> Call.set, original |-> Call.from])
<1>1. CASE Replays
  <2> DEFINE o == IF history.popped.from = "undo" THEN history.popped.entry.undo
                  ELSE history.popped.entry.redo
  <2>1. history.popped.entry \in Entries
    BY <1>1, HistoryFields DEF DataInv, Replays
  <2>2. o \in Change
    BY <2>1 DEF Entries
  <2>3. Call = [act |-> o.act, set |-> o.set, from |-> o.original]
    BY <1>1 DEF Call
  <2> HIDE DEF o
  <2>4. Sound(o)
    BY <2>2 DEF Change
  <2> QED
    BY <2>3, <2>4 DEF Sound
<1>2. CASE ~Replays
  <2>1. Call = [act |-> scenario.mine[Item].act, set |-> scenario.mine[Item].set, from |-> view]
    BY <1>2 DEF Call
  <2>2. scenario.mine[Item] \in Operation
    <3>1. /\ Item \in DOMAIN scenario.mine /\ scenario.mine[Item].act \in {"I", "U", "D"}
          /\ Scenario(scenario)
      BY <1>2 DEF Mutates, Calls, DataInv
    <3> QED
      BY <3>1, ScriptsAreTyped
  <2> QED
    BY <2>1, <2>2, OperationCases
<1> QED
  BY <1>1, <1>2

\* A transaction with a sound change is one.
LEMMA TxIs ==
  ASSUME NEW t, NEW n \in Nat, NEW act \in Acts, NEW state \in States, NEW needed \in Nat,
         NEW set, NEW original, Sound([act |-> act, set |-> set, original |-> original]),
         t = [n |-> n, act |-> act, state |-> state, needed |-> needed,
              set |-> set, original |-> original]
  PROVE  t \in Txs
<1>1. t.act = act /\ t.set = set /\ t.original = original
  OBVIOUS
<1>2. set \in Sets /\ original \in Sets
  BY DEF Sound, Sets, Updates
<1>3. t \in [n : Nat, act : Acts, state : States, needed : Nat, set : Sets, original : Sets]
  BY <1>2
<1>4. Sound(t)
  BY <1>1 DEF Sound
<1> QED
  BY <1>3, <1>4 DEF Txs

\* The transaction of a call.
LEMMA NewTxIsTyped ==
  ASSUME DataInv, CallInv, Mutates, (Call.act = "I") <=> (view = Absent)
  PROVE  /\ NewTx \in Txs /\ NewTx.n = Item /\ NewTx.state = "queued" /\ NewTx.act = Call.act
         /\ Call.act = "U" => NewTx.set \in Updates
<1> DEFINE call == Call
           effective == Effective
           set == IF call.act = "U" THEN Part(call.set, effective) ELSE call.set
           original == CASE call.act = "U" -> Part(call.from, effective)
                         [] call.act = "D" -> call.from
                         [] call.act = "I" -> Absent
<1>1. NewTx = [n |-> Item, act |-> call.act, state |-> "queued", needed |-> 0,
               set |-> set, original |-> original]
  BY Zenon DEF NewTx
<1>2. /\ \/ call.act = "I" /\ call.set \in [Fields -> Nat]
         \/ call.act = "U" /\ call.set \in Updates
         \/ call.act = "D" /\ call.set = Absent
      /\ call.from = view \/ Sound([act |-> call.act, set |-> call.set, original |-> call.from])
  BY CallIsTyped
<1>3. Item \in Nat /\ view \in Rows
  BY CallsAreInTheScript DEF DataInv
<1>4. effective \subseteq DOMAIN call.set
  BY DEF Effective
<1>5. (call.act = "I") <=> (view = Absent)
  OBVIOUS
<1> HIDE DEF call, effective
<1>6. ASSUME call.act = "I"
      PROVE  /\ Sound([act |-> call.act, set |-> set, original |-> original])
             /\ call.act \in Acts
             /\ call.act = "U" => set \in Updates
  <2>1. set \in [Fields -> Nat] /\ original = Absent
    BY <1>2, <1>6
  <2> HIDE DEF set, original
  <2> QED
    BY <1>6, <2>1 DEF Sound, Acts, Updates
<1>7. ASSUME call.act = "U"
      PROVE  /\ Sound([act |-> call.act, set |-> set, original |-> original])
             /\ call.act \in Acts
             /\ call.act = "U" => set \in Updates
  <2>1. PICK fs \in SUBSET Fields : call.set \in [fs -> Nat]
    BY <1>2, <1>7 DEF Updates
  <2>2. effective \in SUBSET Fields /\ effective \subseteq fs
    BY <1>4, <2>1
  <2>3. \A f \in effective : call.set[f] \in Nat /\ call.from[f] \in Nat
    <3>1. CASE call.from = view
      BY <1>3, <1>5, <1>7, <2>1, <2>2, <3>1 DEF Rows
    <3>2. CASE Sound([act |-> call.act, set |-> call.set, original |-> call.from])
      <4>1. call.from \in Updates /\ DOMAIN call.from = DOMAIN call.set
        BY <1>7, <3>2 DEF Sound
      <4>2. call.from \in [fs -> Nat]
        BY <2>1, <4>1 DEF Updates
      <4> QED
        BY <2>1, <2>2, <4>2
    <3> QED
      BY <1>2, <3>1, <3>2
  <2>4. set = [f \in effective |-> call.set[f]] /\ original = [f \in effective |-> call.from[f]]
    BY <1>7 DEF Part
  <2> HIDE DEF set, original
  <2>5. set \in [effective -> Nat] /\ original \in [effective -> Nat]
    BY <2>3, <2>4
  <2>6. set \in Updates /\ original \in Updates /\ DOMAIN set = DOMAIN original
    BY <2>2, <2>5 DEF Updates
  <2> QED
    BY <1>7, <2>6 DEF Sound, Acts
<1>8. ASSUME call.act = "D"
      PROVE  /\ Sound([act |-> call.act, set |-> set, original |-> original])
             /\ call.act \in Acts
             /\ call.act = "U" => set \in Updates
  <2>1. call.from \in [Fields -> Nat]
    <3>1. CASE call.from = view
      BY <1>3, <1>5, <1>8, <3>1 DEF Rows
    <3>2. CASE Sound([act |-> call.act, set |-> call.set, original |-> call.from])
      BY <1>8, <3>2 DEF Sound
    <3> QED
      BY <1>2, <3>1, <3>2
  <2>2. set = Absent /\ original = call.from
    BY <1>2, <1>8
  <2> HIDE DEF set, original
  <2> QED
    BY <1>8, <2>1, <2>2 DEF Sound, Acts, Updates
<1>9. /\ Sound([act |-> call.act, set |-> set, original |-> original])
      /\ call.act \in Acts
      /\ call.act = "U" => set \in Updates
  BY <1>2, <1>6, <1>7, <1>8
<1> HIDE DEF set, original
<1>10. NewTx \in Txs
  <2>1. 0 \in Nat /\ "queued" \in States
    BY DEF States
  <2> QED
    BY <1>1, <1>3, <1>9, <2>1, TxIs
<1>11. NewTx.n = Item /\ NewTx.state = "queued" /\ NewTx.act = call.act /\ NewTx.set = set
  BY <1>1
<1> QED
  BY <1>9, <1>10, <1>11 DEF call

\* The server performs what a transaction says.
LEMMA OpOfTx ==
  ASSUME NEW tx \in Txs
  PROVE  Op(tx) \in Operation /\ tx.n \in Nat
<1>1. Sound(tx) /\ tx.n \in Nat
  BY DEF Txs
<1>2. CASE tx.act = "I"
  <2>1. Op(tx) \in [act : {"I"}, set : [Fields -> Nat]]
    BY <1>1, <1>2 DEF Sound, Op
  <2> QED
    BY <1>1, <2>1, OperationsAreTyped DEF IsOperation
<1>3. CASE tx.act = "U"
  <2>1. PICK fs \in SUBSET Fields : tx.set \in [fs -> Nat]
    BY <1>1, <1>3 DEF Sound, Updates
  <2>2. Op(tx) \in [act : {"U"}, set : [fs -> Nat]]
    BY <1>3, <2>1 DEF Op
  <2> QED
    BY <1>1, <2>2, OperationsAreTyped DEF IsOperation
<1>4. CASE tx.act = "D"
  <2>1. Op(tx) \in [act : {"D"}, set : {Absent}]
    BY <1>1, <1>4 DEF Sound, Op
  <2> QED
    BY <1>1, <2>1, OperationsAreTyped DEF IsOperation
<1> QED
  BY <1>1, <1>2, <1>3, <1>4 DEF Sound

\* What a transaction becomes that gets another state, id or original.
LEMMA TxChanged ==
  ASSUME NEW tx \in Txs, NEW state \in States, NEW id \in Nat
  PROVE  /\ [tx EXCEPT !.state = state] \in Txs
         /\ [tx EXCEPT !.state = state, !.needed = id] \in Txs
         /\ \A original : Sound([tx EXCEPT !.original = original]) =>
               [tx EXCEPT !.original = original] \in Txs
<1>1. tx \in [n : Nat, act : Acts, state : States, needed : Nat, set : Sets, original : Sets] /\ Sound(tx)
  BY DEF Txs
<1>2. [tx EXCEPT !.state = state] \in Txs
  <2> DEFINE t == [tx EXCEPT !.state = state]
  <2>1. t \in [n : Nat, act : Acts, state : States, needed : Nat, set : Sets, original : Sets]
    BY <1>1
  <2>2. t.act = tx.act /\ t.set = tx.set /\ t.original = tx.original
    BY <1>1
  <2> HIDE DEF t
  <2>3. Sound(t)
    BY <1>1, <2>2 DEF Sound
  <2> QED
    BY <2>1, <2>3 DEF Txs, t
<1>3. [tx EXCEPT !.state = state, !.needed = id] \in Txs
  <2> DEFINE t == [tx EXCEPT !.state = state, !.needed = id]
  <2>1. t \in [n : Nat, act : Acts, state : States, needed : Nat, set : Sets, original : Sets]
    BY <1>1, Zenon
  <2>2. t.act = tx.act /\ t.set = tx.set /\ t.original = tx.original
    BY <1>1
  <2> HIDE DEF t
  <2>3. Sound(t)
    BY <1>1, <2>2 DEF Sound
  <2> QED
    BY <2>1, <2>3 DEF Txs, t
<1>4. ASSUME NEW original, Sound([tx EXCEPT !.original = original])
      PROVE  [tx EXCEPT !.original = original] \in Txs
  <2> DEFINE t == [tx EXCEPT !.original = original]
  <2>1. t.original = original /\ t.act = tx.act /\ t.set = tx.set
    BY <1>1
  <2>2. original \in Sets
    <3>1. Sound(t)
      BY <1>4
    <3> HIDE DEF t
    <3>2. t.original \in Sets
      BY <3>1 DEF Sound, Sets, Updates
    <3> QED
      BY <2>1, <3>2
  <2>3. t \in [n : Nat, act : Acts, state : States, needed : Nat, set : Sets, original : Sets]
    BY <1>1, <2>2
  <2> QED
    BY <1>4, <2>3 DEF Txs
<1> QED
  BY <1>2, <1>3, <1>4

\* A partial update of rows of the outbox keeps the transactions what they are.
LEMMA OutboxUpdated ==
  ASSUME outbox \in Seq(Txs), NEW rows,
         \A r \in rows : r \in Txs /\ \E s \in ToSet(outbox) : Same(s, r),
         outbox' = Updated(rows)
  PROVE  /\ outbox' \in Seq(Txs) /\ Ids(outbox') = Ids(outbox)
         /\ \A t \in ToSet(outbox') : t \in rows \/ t \in ToSet(outbox)
         /\ \A t \in ToSet(outbox') : \E s \in ToSet(outbox) : Same(s, t)
<1>1. rows \in SUBSET Txs
  OBVIOUS
<1>2. /\ outbox' \in Seq(Txs) /\ Ids(outbox') = Ids(outbox)
      /\ ToSet(outbox') \subseteq ToSet(outbox) \cup rows
  BY <1>1, UpdatesKeepTheOutbox
<1>3. \A t \in ToSet(outbox') : t \in rows \/ t \in ToSet(outbox)
  BY <1>2
<1>4. \A t : Same(t, t)
  BY DEF Same
<1> QED
  BY <1>2, <1>3, <1>4

-----------------------------------------------------------------------------
(* Each step keeps the invariant: the calls of the application. *)

LEMMA Frame ==
  ASSUME RowInv
  PROVE  /\ log' = log => /\ \A n : Known(n) => Known(n)'
                          /\ Len(log) \in Nat /\ Len(log') \in Nat /\ Len(log) <= Len(log')
         /\ done \in Nat /\ Len(scenario.mine) \in Nat
         /\ \A t : Same(t, t)
         /\ outbox \in Seq(Txs) /\ ToSet(outbox) \subseteq Txs
<1>1. DataInv
  BY DEF RowInv
<1>2. log \in Seq(Commit) /\ outbox \in Seq(Txs) /\ done \in Nat /\ Scenario(scenario)
  BY <1>1 DEF DataInv
<1>3. Len(log) \in Nat /\ Len(scenario.mine) \in Nat /\ ToSet(outbox) \subseteq Txs
  BY <1>2, ScriptsAreTyped, ListsOf
<1> QED
  BY <1>2, <1>3 DEF Known, Same

LEMMA PopHistoryKeeps ==
  ASSUME RowInv, PopHistory
  PROVE  RowInv'
<1>0. /\ DataInv /\ CallInv /\ PacketInv /\ RequestInv /\ MadeOnce /\ AwaitingIsKnown
      /\ StoredOnce /\ StoreFollowsLog /\ HistoryInv
  BY DEF RowInv
<1>1. UNCHANGED <<scenario, log, store, outbox, cursor, view, localIds, writer, packet, request, refusal>>
  BY DEF PopHistory
<1> DEFINE from == scenario.mine[Item].act
<1>2. ~Replays /\ from \in {"undo", "redo"} /\ Item \in DOMAIN scenario.mine /\ Idle(writer)
  BY DEF PopHistory, Calls
<1>3. Item \in Nat /\ Item <= Len(scenario.mine) /\ Item = done + 1
  BY <1>0, <1>2, Frame, ScriptsAreTyped DEF DataInv, Item
<1>4. /\ history.undo \in Seq(Entries) /\ history.redo \in Seq(Entries)
      /\ history \in History /\ DOMAIN history = {"undo", "redo", "popped", "missed"}
      /\ history.missed \in SUBSET Nat
  BY <1>0, HistoryFields DEF DataInv, History
<1>5. \/ history' = history /\ done' = Item
      \/ /\ done' = done
         /\ \E stack \in {"undo", "redo"} :
              /\ history[stack] # <<>>
              /\ history' = [history EXCEPT ![stack] = Front(@),
                                !.popped = [from |-> stack, entry |-> Last(history[stack])]]
  BY <1>2 DEF PopHistory
<1>6. ASSUME NEW s \in Seq(Entries), s # <<>>
      PROVE  /\ Front(s) \in Seq(Entries) /\ ToSet(Front(s)) \subseteq ToSet(s)
             /\ Last(s) \in Entries /\ Last(s) \in ToSet(s)
  <2>1. Len(s) \in Nat \ {0} /\ Len(s) - 1 \in Nat /\ Len(s) - 1 <= Len(s) /\ DOMAIN s = 1 .. Len(s)
    BY <1>6
  <2>2. 1 \in Nat \ {0}
    OBVIOUS
  <2>3. Front(s) \in Seq(Entries) /\ ToSet(Front(s)) \subseteq ToSet(s)
    BY <2>1, <2>2, SliceOf DEF Front
  <2>4. Last(s) = s[Len(s)] /\ Len(s) \in DOMAIN s
    BY <2>1 DEF Last
  <2>5. s[Len(s)] \in Entries /\ s[Len(s)] \in ToSet(s)
    BY <2>4 DEF ToSet
  <2> QED
    BY <2>3, <2>4, <2>5
<1>7. /\ history' \in History /\ history'.missed = history.missed
      /\ ToSet(history'.undo) \subseteq ToSet(history.undo)
      /\ ToSet(history'.redo) \subseteq ToSet(history.redo)
      /\ Replays' => /\ done' = done
                     /\ history'.popped.entry \in ToSet(history.undo) \cup ToSet(history.redo)
      /\ done' \in {done, Item}
  <2>1. CASE history' = history /\ done' = Item
    BY <1>2, <1>4, <2>1 DEF Replays
  <2>2. ASSUME done' = done, NEW stack \in {"undo", "redo"}, history[stack] # <<>>,
               history' = [history EXCEPT ![stack] = Front(@),
                             !.popped = [from |-> stack, entry |-> Last(history[stack])]]
        PROVE  <1>7!1 /\ <1>7!2 /\ <1>7!3 /\ <1>7!4 /\ <1>7!5
    <3> DEFINE p == [from |-> stack, entry |-> Last(history[stack])]
    <3>1. CASE stack = "undo"
      <4>1. p \in Popped /\ p.entry \in ToSet(history.undo) /\ Front(history.undo) \in Seq(Entries)
            /\ ToSet(Front(history.undo)) \subseteq ToSet(history.undo)
        BY <1>4, <1>6, <2>2, <3>1 DEF Popped
      <4> HIDE DEF p
      <4>2. history' = [undo |-> Front(history.undo), redo |-> history.redo, popped |-> p,
                        missed |-> history.missed]
        BY <1>4, <2>2, <3>1 DEF p
      <4>3. history' \in History
        BY <1>4, <4>1, <4>2 DEF History
      <4>4. /\ history'.undo = Front(history.undo) /\ history'.redo = history.redo
            /\ history'.popped = p /\ history'.missed = history.missed
        BY <4>2
      <4> QED
        BY <2>2, <4>1, <4>3, <4>4
    <3>2. CASE stack = "redo"
      <4>1. p \in Popped /\ p.entry \in ToSet(history.redo) /\ Front(history.redo) \in Seq(Entries)
            /\ ToSet(Front(history.redo)) \subseteq ToSet(history.redo)
        BY <1>4, <1>6, <2>2, <3>2 DEF Popped
      <4> HIDE DEF p
      <4>2. history' = [undo |-> history.undo, redo |-> Front(history.redo), popped |-> p,
                        missed |-> history.missed]
        BY <1>4, <2>2, <3>2 DEF p
      <4>3. history' \in History
        BY <1>4, <4>1, <4>2 DEF History
      <4>4. /\ history'.undo = history.undo /\ history'.redo = Front(history.redo)
            /\ history'.popped = p /\ history'.missed = history.missed
        BY <4>2
      <4> QED
        BY <2>2, <4>1, <4>3, <4>4
    <3> QED
      BY <3>1, <3>2
  <2> QED
    BY <1>5, <2>1, <2>2
<1>8. DataInv'
  BY <1>0, <1>1, <1>3, <1>7, Frame DEF DataInv
<1>9. CallInv'
  BY <1>0, <1>1, <1>2, <1>3, <1>7, Frame DEF CallInv, Writer, Idle
<1>10. MadeOnce'
  <2>1. Requested' = Requested
    BY <1>1 DEF Requested, Idle
  <2> QED
    BY <1>0, <1>1, <1>3, <1>7, <2>1, Frame, MadeOnceKept
<1>11. HistoryInv'
  <2>1. DroppedNow' = DroppedNow
    BY <1>1 DEF DroppedNow
  <2>2. \A n : Reachable(n) => Reachable(n)'
    BY <1>1, <1>7, <2>1, Frame DEF Reachable
  <2>3. \A e \in ToSet(history.undo) \cup ToSet(history.redo) : Reachable(e.tx)
    BY <1>0 DEF HistoryInv
  <2> HIDE DEF Reachable
  <2> QED
    BY <1>7, <2>2, <2>3 DEF HistoryInv
<1>12. PacketInv' /\ RequestInv' /\ AwaitingIsKnown' /\ StoredOnce' /\ StoreFollowsLog'
  BY <1>0, <1>1, Frame, PacketKept, RequestKept, AwaitingKept, StoreKept
<1> QED
  BY <1>8, <1>9, <1>10, <1>11, <1>12 DEF RowInv

\* The history when a call ends without a transaction.
LEMMA CallEnds ==
  ASSUME RowInv, NEW h \in {Moved(0), PutBack}, history' = IF Replays THEN h ELSE history
  PROVE  /\ history' \in History /\ ~Replays' /\ history'.missed = history.missed
         /\ \A e \in ToSet(history'.undo) \cup ToSet(history'.redo) : Reachable(e.tx)
<1>0. history \in History /\ HistoryInv
  BY DEF RowInv, DataInv
<1>1. Reachable(0)
  BY DEF Reachable
<1>2. CASE Replays
  <2>1. history' = h /\ 0 \in Nat
    BY <1>2
  <2>2. /\ h \in History /\ h.popped.from = "none" /\ h.missed = history.missed
        /\ \A e \in ToSet(h.undo) \cup ToSet(h.redo) :
             \/ e \in ToSet(history.undo) \cup ToSet(history.redo)
             \/ e.tx = 0 \/ e.tx = history.popped.entry.tx
    BY <1>0, <1>2, ReplayEndsFields
  <2>3. Reachable(history.popped.entry.tx)
    BY <1>0, <1>2 DEF HistoryInv
  <2>4. \A e \in ToSet(h.undo) \cup ToSet(h.redo) : Reachable(e.tx)
    BY <1>0, <1>1, <2>2, <2>3 DEF HistoryInv
  <2> HIDE DEF Reachable
  <2> QED
    BY <2>1, <2>2, <2>4 DEF Replays
<1>3. CASE ~Replays
  BY <1>0, <1>3 DEF HistoryInv, Replays
<1> QED
  BY <1>2, <1>3

\* A mutation that throws, or has nothing to write.
LEMMA MutationMakesNothingKeeps ==
  ASSUME RowInv, MutationThrows \/ MutationIsEmpty
  PROVE  RowInv'
<1>0. /\ DataInv /\ CallInv /\ PacketInv /\ RequestInv /\ MadeOnce /\ AwaitingIsKnown
      /\ StoredOnce /\ StoreFollowsLog /\ HistoryInv
  BY DEF RowInv
<1>1. UNCHANGED <<scenario, log, store, outbox, cursor, view, localIds, writer, packet, request, refusal>>
  BY DEF MutationThrows, MutationIsEmpty
<1>2. /\ Mutates /\ done' = Item
      /\ \E h \in {Moved(0), PutBack} : history' = IF Replays THEN h ELSE history
  BY DEF MutationThrows, MutationIsEmpty, Throws, Returns
<1>3. Item \in Nat /\ Item <= Len(scenario.mine) /\ Item = done + 1 /\ Idle(writer)
  BY <1>0, <1>2, CallsAreInTheScript DEF Mutates, LockIsFree
<1>4. /\ history' \in History /\ ~Replays' /\ history'.missed = history.missed
      /\ \A e \in ToSet(history'.undo) \cup ToSet(history'.redo) : Reachable(e.tx)
  BY <1>2, CallEnds
<1>5. DataInv'
  BY <1>0, <1>1, <1>2, <1>3, <1>4, Frame DEF DataInv
<1>6. CallInv'
  BY <1>0, <1>1, <1>3, <1>4 DEF CallInv, Idle
<1>7. MadeOnce'
  <2>1. Requested' = Requested
    BY <1>1 DEF Requested, Idle
  <2> QED
    BY <1>0, <1>1, <1>2, <1>3, <2>1, Frame, MadeOnceKept
<1>8. HistoryInv'
  <2>1. DroppedNow' = DroppedNow
    BY <1>1 DEF DroppedNow
  <2>2. \A n : Reachable(n) => Reachable(n)'
    BY <1>1, <1>4, <2>1, Frame DEF Reachable
  <2> HIDE DEF Reachable
  <2> QED
    BY <1>4, <2>2 DEF HistoryInv
<1>9. PacketInv' /\ RequestInv' /\ AwaitingIsKnown' /\ StoredOnce' /\ StoreFollowsLog'
  BY <1>0, <1>1, Frame, PacketKept, RequestKept, AwaitingKept, StoreKept
<1> QED
  BY <1>5, <1>6, <1>7, <1>8, <1>9 DEF RowInv

LEMMA BeginMutationKeeps ==
  ASSUME RowInv, BeginMutation
  PROVE  RowInv'
<1>0. /\ DataInv /\ CallInv /\ PacketInv /\ RequestInv /\ MadeOnce /\ AwaitingIsKnown
      /\ StoredOnce /\ StoreFollowsLog /\ HistoryInv
  BY DEF RowInv
<1>1. UNCHANGED <<scenario, log, store, outbox, cursor, localIds, history, packet, request, refusal, done>>
  BY DEF BeginMutation
<1>2. /\ Mutates /\ ((Call.act = "I") <=> (view = Absent))
      /\ writer' = [pc |-> "enqueues", tx |-> NewTx]
      /\ view' = CASE Call.act = "I" -> Call.set
                   [] Call.act = "U" -> Over(NewTx.set, view)
                   [] Call.act = "D" -> Absent
  BY DEF BeginMutation
<1>3. Item \in Nat /\ Item <= Len(scenario.mine) /\ Item = done + 1
  BY <1>0, <1>2, CallsAreInTheScript
<1>4. /\ NewTx \in Txs /\ NewTx.n = Item /\ NewTx.state = "queued" /\ NewTx.act = Call.act
      /\ Call.act = "U" => NewTx.set \in Updates
  BY <1>0, <1>2, NewTxIsTyped
<1>5. view' \in Rows
  <2>1. \/ Call.act = "I" /\ Call.set \in [Fields -> Nat]
        \/ Call.act = "U"
        \/ Call.act = "D"
    BY <1>0, <1>2, CallIsTyped
  <2>2. view \in Rows
    BY <1>0 DEF DataInv
  <2>3. CASE Call.act = "I"
    BY <1>2, <2>1, <2>3 DEF Rows
  <2>4. CASE Call.act = "U"
    <3>1. view \in [Fields -> Nat]
      BY <1>2, <2>2, <2>4 DEF Rows
    <3>2. Over(NewTx.set, view) \in [Fields -> Nat]
      BY <1>4, <2>4, <3>1, OverIsARow
    <3> QED
      BY <1>2, <2>4, <3>2 DEF Rows
  <2>5. CASE Call.act = "D"
    BY <1>2, <2>5 DEF Rows
  <2> QED
    BY <2>1, <2>3, <2>4, <2>5
<1>6. DataInv'
  BY <1>0, <1>1, <1>5 DEF DataInv
<1>7. CallInv'
  <2>1. writer' \in Writer /\ writer'.tx = NewTx
    BY <1>2, <1>4 DEF Writer
  <2>2. Item' = Item /\ done < Len(scenario.mine) /\ (Replays' <=> Replays)
    BY <1>1, <1>3, Frame DEF Item, Replays
  <2> QED
    BY <1>0, <1>1, <1>4, <2>1, <2>2 DEF CallInv
<1>8. MadeOnce'
  <2>1. Requested' = Requested
    BY <1>1 DEF Requested, Idle
  <2> QED
    BY <1>0, <1>1, <2>1 DEF MadeOnce
<1>9. HistoryInv'
  <2>1. DroppedNow' = DroppedNow
    BY <1>1 DEF DroppedNow
  <2>2. \A n : Reachable(n) => Reachable(n)'
    BY <1>1, <2>1, Frame DEF Reachable
  <2> HIDE DEF Reachable
  <2> QED
    BY <1>0, <1>1, <2>2, HistoryKept DEF Replays
<1>10. PacketInv' /\ RequestInv' /\ AwaitingIsKnown' /\ StoredOnce' /\ StoreFollowsLog'
  BY <1>0, <1>1, Frame, PacketKept, RequestKept, AwaitingKept, StoreKept
<1> QED
  BY <1>6, <1>7, <1>8, <1>9, <1>10 DEF RowInv

LEMMA EndMutationKeeps ==
  ASSUME RowInv, EndMutation
  PROVE  RowInv'
<1>0. /\ DataInv /\ CallInv /\ PacketInv /\ RequestInv /\ MadeOnce /\ AwaitingIsKnown
      /\ StoredOnce /\ StoreFollowsLog /\ HistoryInv
  BY DEF RowInv
<1> DEFINE tx == writer.tx
           n == tx.n
<1>1. UNCHANGED <<scenario, log, store, cursor, view, packet, request, refusal>>
  BY DEF EndMutation
<1>2. /\ writer.pc = "enqueues" /\ writer' = Resting
      /\ outbox' = Append(outbox, tx) /\ localIds' = localIds \cup {n}
      /\ done' = Item
      /\ history' = IF Replays THEN Moved(n) ELSE IF n = 0 THEN history ELSE Recorded(tx)
  BY DEF EndMutation, Returns
<1>3. /\ tx \in Txs /\ n \in Nat /\ n = Item /\ n = done + 1 /\ n # 0 /\ n <= Len(scenario.mine)
      /\ tx.state = "queued"
  <2>1. tx \in Txs
    BY <1>0, <1>2 DEF CallInv, Writer, NoTask
  <2>2. tx.n \in Nat
    BY <2>1 DEF Txs
  <2> QED
    BY <1>0, <1>2, <2>1, <2>2, Frame DEF CallInv, Item
<1>4. outbox' \in Seq(Txs) /\ ToSet(outbox') = ToSet(outbox) \cup {tx}
  BY <1>2, <1>3, Frame, AppendLists
<1>5. Ids(outbox') = Ids(outbox) \cup {n}
  BY <1>4 DEF Ids
<1> HIDE DEF tx, n
<1>6. /\ history' \in History /\ ~Replays' /\ history'.missed = history.missed
      /\ \A e \in ToSet(history'.undo) \cup ToSet(history'.redo) : Reachable(e.tx) \/ e.tx = n
  <2>1. history \in History /\ HistoryInv
    BY <1>0 DEF DataInv
  <2>2. CASE Replays
    <3>1. history' = Moved(n)
      BY <1>2, <2>2
    <3>2. /\ history' \in History /\ history'.popped.from = "none" /\ history'.missed = history.missed
          /\ \A e \in ToSet(history'.undo) \cup ToSet(history'.redo) :
               e \in ToSet(history.undo) \cup ToSet(history.redo) \/ e.tx = n
      BY <1>3, <2>1, <2>2, <3>1, ReplayEndsFields
    <3> QED
      BY <2>1, <3>2 DEF HistoryInv, Replays
  <2>3. CASE ~Replays
    <3>1. history' = Recorded(tx)
      BY <1>2, <1>3, <2>3
    <3>2. /\ history' \in History /\ history'.popped = history.popped
          /\ history'.missed = history.missed
          /\ \A e \in ToSet(history'.undo) \cup ToSet(history'.redo) :
               e \in ToSet(history.undo) \/ e.tx = n
      BY <1>3, <2>1, <3>1, RecordedFields DEF n
    <3> QED
      BY <2>1, <2>3, <3>2 DEF HistoryInv, Replays
  <2> QED
    BY <2>2, <2>3
<1>7. DataInv'
  <2>1. localIds' \in SUBSET (1 .. Len(scenario.mine))
    BY <1>0, <1>2, <1>3, Frame DEF DataInv
  <2> QED
    BY <1>0, <1>1, <1>2, <1>3, <1>4, <1>6, <2>1, Frame DEF DataInv
<1>8. CallInv'
  BY <1>2, <1>6 DEF CallInv, Writer, NoTask, Resting
<1>9. MadeOnce'
  <2>1. Requested' = Requested
    BY <1>1 DEF Requested, Idle
  <2>2. \A s \in ToSet(outbox) \cup Requested : s.n \in Nat /\ s.n <= done
    <3>1. ~Idle(request) => request.txs \in Seq(Txs)
      BY <1>0 DEF RequestInv, Request, NoTask, Idle
    <3>2. Requested \subseteq Txs
      BY <3>1, ListsOf DEF Requested
    <3>3. \A s \in ToSet(outbox) \cup Requested : s.n \in Nat
      BY <3>2, Frame DEF Txs
    <3> QED
      BY <1>0, <3>3 DEF MadeOnce
  <2>3. \A s \in ToSet(outbox) \cup Requested : s.n # n /\ s.n <= done'
    BY <1>2, <1>3, <2>2, Frame
  <2>4. n <= done'
    BY <1>2, <1>3
  <2>5. tx.n = n
    BY DEF n
  <2>6. \A s, t \in ToSet(outbox) \cup Requested \cup {tx} :
           s.n <= done' /\ (s.n = t.n => s.act = t.act /\ s.set = t.set)
    BY <1>0, <2>3, <2>4, <2>5 DEF MadeOnce
  <2> QED
    BY <1>4, <2>1, <2>6 DEF MadeOnce
<1>10. AwaitingIsKnown'
  BY <1>0, <1>1, <1>3, <1>4, Frame, AwaitingKept
<1>11. HistoryInv'
  <2>1. DroppedNow' = DroppedNow
    BY <1>1 DEF DroppedNow
  <2>2. \A k : Reachable(k) \/ k = n => Reachable(k)'
    BY <1>1, <1>5, <1>6, <2>1, Frame DEF Reachable
  <2> HIDE DEF Reachable
  <2> QED
    BY <1>6, <2>2 DEF HistoryInv
<1>12. PacketInv' /\ RequestInv' /\ StoredOnce' /\ StoreFollowsLog'
  BY <1>0, <1>1, Frame, PacketKept, RequestKept, StoreKept
<1> QED
  BY <1>7, <1>8, <1>9, <1>10, <1>11, <1>12 DEF RowInv

LEMMA MutationFailsKeeps ==
  ASSUME RowInv, MutationFails
  PROVE  RowInv'
<1>0. /\ DataInv /\ CallInv /\ PacketInv /\ RequestInv /\ MadeOnce /\ AwaitingIsKnown
      /\ StoredOnce /\ StoreFollowsLog /\ HistoryInv
  BY DEF RowInv
<1>1. /\ UNCHANGED <<log, store, outbox, cursor, localIds, packet, request, refusal>>
      /\ writer.pc = "enqueues" /\ writer' = Resting
      /\ scenario.losses > 0 /\ scenario' = [scenario EXCEPT !.losses = @ - 1]
      /\ view' = RolledBack(view, writer.tx)
      /\ done' = Item
      /\ \E h \in {Moved(0), PutBack} : history' = IF Replays THEN h ELSE history
  BY DEF MutationFails, Throws
<1>2. Item \in Nat /\ Item <= Len(scenario.mine) /\ Item = done + 1
  BY <1>0, <1>1, Frame DEF CallInv, Item
<1>3. /\ Scenario(scenario') /\ scenario'.mine = scenario.mine
      /\ scenario'.seed = scenario.seed /\ scenario'.loaded = scenario.loaded
  BY <1>0, <1>1, ScenarioKept DEF DataInv
<1>4. /\ history' \in History /\ ~Replays' /\ history'.missed = history.missed
      /\ \A e \in ToSet(history'.undo) \cup ToSet(history'.redo) : Reachable(e.tx)
  BY <1>1, CallEnds
<1>5. view' \in Rows
  <2>1. writer.tx \in Txs
    BY <1>0, <1>1 DEF CallInv, Writer, NoTask
  <2>2. Sound(writer.tx) /\ view \in Rows
    BY <1>0, <2>1 DEF Txs, DataInv
  <2> QED
    BY <1>1, <2>2, ShownIsARow
<1>6. DataInv'
  BY <1>0, <1>1, <1>2, <1>3, <1>4, <1>5, Frame DEF DataInv
<1>7. CallInv'
  BY <1>1, <1>4 DEF CallInv, Writer, NoTask, Resting
<1>8. MadeOnce'
  <2>1. Requested' = Requested
    BY <1>1 DEF Requested, Idle
  <2> QED
    BY <1>0, <1>1, <1>2, <2>1, Frame, MadeOnceKept
<1>9. HistoryInv'
  <2>1. DroppedNow' = DroppedNow
    BY <1>1 DEF DroppedNow
  <2>2. \A n : Reachable(n) => Reachable(n)'
    BY <1>1, <1>4, <2>1, Frame DEF Reachable
  <2> HIDE DEF Reachable
  <2> QED
    BY <1>4, <2>2 DEF HistoryInv
<1>10. PacketInv' /\ RequestInv' /\ AwaitingIsKnown' /\ StoredOnce' /\ StoreFollowsLog'
  BY <1>0, <1>1, <1>3, Frame, PacketKept, RequestKept, AwaitingKept, StoreKept
<1> QED
  BY <1>6, <1>7, <1>8, <1>9, <1>10 DEF RowInv

-----------------------------------------------------------------------------
(* The mutate call, the server, and the replies. *)

LEMMA RequestFields ==
  ASSUME RequestInv
  PROVE  /\ request.pc \in {"idle", "call", "reply"}
         /\ request.pc # "idle" => /\ request.txs \in Seq(Txs) /\ request.results \in Seq(Nat)
                                   /\ request.txs # <<>> /\ Requested = ToSet(request.txs)
                                   /\ Requested \subseteq Txs
                                   /\ Len(request.txs) \in Nat /\ Len(request.results) \in Nat
                                   /\ request = [pc |-> request.pc, txs |-> request.txs,
                                                 results |-> request.results]
         /\ request.pc = "idle" => Requested = {}
         /\ refusal.pc \in {"idle", "adopted", "marked"}
         /\ refusal.pc # "idle" => refusal.tx \in Txs
<1>1. request.pc \in {"idle", "call", "reply"}
  BY DEF RequestInv, Request, NoTask
<1>2. ASSUME request.pc # "idle"
      PROVE  /\ request.txs \in Seq(Txs) /\ request.results \in Seq(Nat)
             /\ request.txs # <<>> /\ Requested = ToSet(request.txs)
             /\ Requested \subseteq Txs
             /\ Len(request.txs) \in Nat /\ Len(request.results) \in Nat
             /\ request = [pc |-> request.pc, txs |-> request.txs, results |-> request.results]
  <2>1. request \in [pc : {"call", "reply"}, txs : Seq(Txs), results : Seq(Nat)]
    BY <1>2 DEF RequestInv, Request, NoTask
  <2>2. /\ request.txs \in Seq(Txs) /\ request.results \in Seq(Nat)
        /\ request = [pc |-> request.pc, txs |-> request.txs, results |-> request.results]
    BY <2>1
  <2>3. Requested = ToSet(request.txs) /\ request.txs # <<>>
    BY <1>2 DEF Requested, Idle, RequestInv
  <2>4. ToSet(request.txs) \subseteq Txs
    BY <2>2, ListsOf
  <2> QED
    BY <2>2, <2>3, <2>4
<1>3. request.pc = "idle" => Requested = {}
  BY DEF Requested, Idle
<1>4. refusal.pc \in {"idle", "adopted", "marked"} /\ (refusal.pc # "idle" => refusal.tx \in Txs)
  BY DEF RequestInv, Refusal, NoTask
<1> QED
  BY <1>1, <1>2, <1>3, <1>4

\* The reply's handler goes on to the next result.
LEMMA NextResultKeeps ==
  ASSUME RequestInv, request.pc = "reply", log' = log, request' = NextResult, refusal' = Resting
  PROVE  RequestInv' /\ Requested' \subseteq Requested
<1> DEFINE txs == request.txs
           results == request.results
<1>1. /\ txs \in Seq(Txs) /\ results \in Seq(Nat) /\ txs # <<>> /\ Requested = ToSet(txs)
      /\ Len(txs) \in Nat /\ Len(results) = Len(txs)
      /\ \A i \in DOMAIN results : results[i] # 0 => Known(txs[i].n)
  BY RequestFields DEF RequestInv
<1>5. request = [pc |-> "reply", txs |-> txs, results |-> results]
  BY RequestFields
<1>2. refusal' \in Refusal /\ refusal'.pc = "idle"
  BY DEF Refusal, NoTask, Resting
<1>3. CASE Len(txs) = 1
  <2>1. request' = Resting
    BY <1>3 DEF NextResult
  <2>2. request' \in Request /\ request'.pc = "idle" /\ Requested' = {}
    BY <2>1 DEF Resting, Request, NoTask, Requested, Idle
  <2> QED
    BY <1>2, <2>2 DEF RequestInv
<1>4. CASE Len(txs) # 1
  <2>1. request' = [pc |-> "reply", txs |-> Tail(txs), results |-> Tail(results)]
    BY <1>4, <1>5, Zenon DEF NextResult
  <2> HIDE DEF txs, results
  <2>2. Len(txs) > 1 /\ results # <<>>
    BY <1>1, <1>4
  <2>3. /\ Tail(txs) \in Seq(Txs) /\ Tail(results) \in Seq(Nat)
        /\ Tail(txs) # <<>> /\ ToSet(Tail(txs)) \subseteq ToSet(txs)
    BY <1>1, <2>2, HeadAndTail
  <2>4. /\ Len(Tail(txs)) = Len(txs) - 1 /\ Len(Tail(results)) = Len(txs) - 1
        /\ DOMAIN Tail(results) = 1 .. Len(txs) - 1 /\ DOMAIN results = 1 .. Len(txs)
        /\ \A i \in 1 .. Len(txs) - 1 : Tail(txs)[i] = txs[i + 1] /\ Tail(results)[i] = results[i + 1]
    BY <1>1, <2>2
  <2>5. \A i \in 1 .. Len(txs) - 1 : i + 1 \in 1 .. Len(txs)
    BY <1>1
  <2>6. \A i \in 1 .. Len(txs) - 1 : Tail(results)[i] # 0 => Known(Tail(txs)[i].n)
    BY <1>1, <2>4, <2>5
  <2>7. \A i \in DOMAIN Tail(results) : Tail(results)[i] # 0 =>
           \E j \in DOMAIN log' : log'[j].by = Tail(txs)[i].n
    BY <2>4, <2>6 DEF Known
  <2>8. /\ request'.pc = "reply" /\ request'.txs = Tail(txs) /\ request'.results = Tail(results)
        /\ request' \in Request
    BY <2>1, <2>3 DEF Request
  <2>9. Requested' = ToSet(Tail(txs))
    BY <2>8 DEF Requested, Idle
  <2>10. RequestInv'
    <3>1. Len(Tail(results)) = Len(Tail(txs)) /\ Len(Tail(results)) <= Len(Tail(txs))
      BY <1>1, <2>4
    <3> DEFINE tt == Tail(txs)
               tr == Tail(results)
    <3> HIDE DEF tt, tr
    <3>2. request' \in Request /\ request'.pc = "reply" /\ request'.txs = tt /\ request'.results = tr
      BY <2>8 DEF tt, tr
    <3>3. /\ tt # <<>> /\ Len(tr) = Len(tt) /\ Len(tr) <= Len(tt)
          /\ \A i \in DOMAIN tr : tr[i] # 0 => \E j \in DOMAIN log' : log'[j].by = tt[i].n
      BY <2>3, <2>7, <3>1, Zenon DEF tt, tr
    <3> QED
      BY <1>2, <3>2, <3>3 DEF RequestInv, Known
  <2> QED
    BY <1>1, <2>3, <2>9, <2>10
<1> QED
  BY <1>3, <1>4

\* Rows of the outbox with another state are of type and known to it.
LEMMA MarkedRows ==
  ASSUME RowInv, NEW ns, NEW state \in States
  PROVE  \A r \in {[tx EXCEPT !.state = state] : tx \in Stored(ns)} :
              /\ r \in Txs /\ r.state = state
              /\ \E s \in ToSet(outbox) : Same(s, r)
<1> SUFFICES ASSUME NEW tx \in Stored(ns)
             PROVE  /\ [tx EXCEPT !.state = state] \in Txs
                    /\ [tx EXCEPT !.state = state].state = state
                    /\ \E s \in ToSet(outbox) : Same(s, [tx EXCEPT !.state = state])
  BY Zenon
<1>1. tx \in Txs /\ tx \in ToSet(outbox)
  BY Frame DEF Stored
<1>2. tx \in [n : Nat, act : Acts, state : States, needed : Nat, set : Sets, original : Sets]
  BY <1>1 DEF Txs
<1>3. [tx EXCEPT !.state = state] \in Txs
  <2>1. 0 \in Nat
    OBVIOUS
  <2> QED
    BY <1>1, <2>1, TxChanged
<1>4. Same(tx, [tx EXCEPT !.state = state]) /\ [tx EXCEPT !.state = state].state = state
  BY <1>2 DEF Same
<1> QED
  BY <1>1, <1>3, <1>4

LEMMA AnsweredRow ==
  ASSUME RowInv, NEW tx \in ToSet(outbox), NEW state \in States, NEW id \in Nat
  PROVE  /\ [tx EXCEPT !.state = state, !.needed = id] \in Txs
         /\ [tx EXCEPT !.state = state, !.needed = id].n = tx.n
         /\ Same(tx, [tx EXCEPT !.state = state, !.needed = id])
<1>1. tx \in Txs
  BY Frame
<1>2. tx \in [n : Nat, act : Acts, state : States, needed : Nat, set : Sets, original : Sets]
  BY <1>1 DEF Txs
<1>3. [tx EXCEPT !.state = state, !.needed = id] \in Txs
  BY <1>1, TxChanged
<1> QED
  BY <1>2, <1>3 DEF Same

\* A step that only marks rows of the outbox: with what the invariant says of

\* the request and of waiting rows, it keeps the rest.
LEMMA MarkingKeeps ==
  ASSUME RowInv, NEW rows,
         \A r \in rows : r \in Txs /\ \E s \in ToSet(outbox) : Same(s, r),
         \A r \in rows : r.state = "awaitingSync" => Known(r.n),
         outbox' = Updated(rows),
         Scenario(scenario'), scenario'.mine = scenario.mine, scenario'.seed = scenario.seed,
         scenario'.loaded = scenario.loaded,
         UNCHANGED <<log, store, cursor, view, localIds, history, writer, done>>,
         RequestInv', Requested' \subseteq Requested \cup ToSet(outbox),
         PacketInv', DroppedNow' = DroppedNow, StoredOnce'
  PROVE  RowInv'
<1>0. /\ DataInv /\ CallInv /\ RequestInv /\ MadeOnce /\ AwaitingIsKnown
      /\ StoreFollowsLog /\ HistoryInv
  BY DEF RowInv
<1>1. /\ outbox' \in Seq(Txs) /\ Ids(outbox') = Ids(outbox)
      /\ \A t \in ToSet(outbox') : t \in rows \/ t \in ToSet(outbox)
      /\ \A t \in ToSet(outbox') : \E s \in ToSet(outbox) : Same(s, t)
  BY Frame, OutboxUpdated
<1>2. DataInv'
  BY <1>0, <1>1 DEF DataInv
<1>3. CallInv'
  BY <1>0, CallKept
<1>4. MadeOnce'
  <2>1. \A t \in ToSet(outbox') \cup Requested' : \E s \in ToSet(outbox) \cup Requested : Same(s, t)
    BY <1>1, Frame
  <2>2. done' \in Nat /\ done <= done'
    BY Frame
  <2> QED
    BY <1>0, <2>1, <2>2, MadeOnceKept
<1>5. AwaitingIsKnown'
  <2>1. \A n : Known(n) => Known(n)'
    BY Frame
  <2> HIDE DEF Known
  <2>2. \A t \in ToSet(outbox') : t.state = "awaitingSync" =>
            Known(t.n)' \/ \E s \in ToSet(outbox) : s.n = t.n /\ s.state = "awaitingSync"
    BY <1>1, <2>1
  <2> QED
    BY <1>0, <2>1, <2>2, AwaitingKept
<1>6. HistoryInv'
  <2>1. \A n : Reachable(n) => Reachable(n)'
    BY <1>1, Frame DEF Reachable
  <2> HIDE DEF Reachable
  <2> QED
    BY <1>0, <2>1, HistoryKept DEF Replays
<1>7. StoreFollowsLog'
  BY <1>0, StoreKept
<1> QED
  BY <1>2, <1>3, <1>4, <1>5, <1>6, <1>7 DEF RowInv
LEMMA SendKeeps ==
  ASSUME RowInv, Send
  PROVE  RowInv'
<1>0. DataInv /\ RequestInv /\ PacketInv /\ StoredOnce
  BY DEF RowInv
<1> DEFINE rows == {[tx EXCEPT !.state = "sent"] : tx \in Stored(Ids(Queued))}
<1>1. /\ UNCHANGED <<scenario, log, store, cursor, view, localIds, history, writer, packet, refusal, done>>
      /\ Idle(request) /\ Queued # <<>> /\ outbox' = Updated(rows)
      /\ request' = [pc |-> "call", txs |-> Queued, results |-> <<>>]
  BY DEF Send, Marked
<1>2. "sent" \in States
  BY DEF States
<1>3. \A r \in rows : r \in Txs /\ r.state = "sent" /\ \E s \in ToSet(outbox) : Same(s, r)
  BY <1>2, MarkedRows
<1> HIDE DEF rows
<1>4. Queued \in Seq(Txs) /\ ToSet(Queued) \subseteq ToSet(outbox)
  BY Frame, PartsOfTheOutbox
<1>5. Requested' \subseteq ToSet(outbox)
  BY <1>1, <1>4 DEF Requested, Idle
<1>6. RequestInv'
  <2>1. /\ request'.pc = "call" /\ request'.txs = Queued /\ request'.results = <<>>
        /\ request' \in Request
    BY <1>1, <1>4 DEF Request
  <2>2. refusal' \in Refusal /\ refusal'.pc = "idle"
    BY <1>0, <1>1 DEF RequestInv, Idle
  <2>3. Len(Queued) \in Nat /\ Len(<<>>) = 0 /\ DOMAIN <<>> = {}
    BY <1>4
  <2>4. Len(<<>>) <= Len(Queued)
    BY <2>3
  <2> QED
    BY <1>1, <2>1, <2>2, <2>3, <2>4 DEF RequestInv
<1>7. DroppedNow' = DroppedNow
  BY <1>1 DEF DroppedNow
<1>8. PacketInv' /\ StoredOnce'
  BY <1>0, <1>1, Frame, PacketKept, StoreKept
<1>9. Scenario(scenario')
  BY <1>0, <1>1 DEF DataInv
<1> QED
  BY <1>1, <1>3, <1>5, <1>6, <1>7, <1>8, <1>9, MarkingKeeps

LEMMA CallFailsKeeps ==
  ASSUME RowInv, CallFails
  PROVE  RowInv'
<1>0. DataInv /\ RequestInv /\ PacketInv /\ StoredOnce
  BY DEF RowInv
<1> DEFINE rows == {[tx EXCEPT !.state = "queued"] : tx \in Stored(Ids(request.txs))}
<1>1. /\ UNCHANGED <<log, store, cursor, view, localIds, history, writer, packet, refusal, done>>
      /\ request.pc = "call" /\ outbox' = Updated(rows) /\ request' = Resting
      /\ scenario.losses > 0 /\ scenario' = [scenario EXCEPT !.losses = @ - 1]
  BY DEF CallFails, Marked
<1>2. "queued" \in States
  BY DEF States
<1>3. \A r \in rows : r \in Txs /\ r.state = "queued" /\ \E s \in ToSet(outbox) : Same(s, r)
  BY <1>2, MarkedRows
<1> HIDE DEF rows
<1>4. Requested' = {}
  BY <1>1 DEF Requested, Idle, Resting
<1>5. RequestInv'
  BY <1>0, <1>1 DEF RequestInv, Request, NoTask, Resting
<1>6. DroppedNow' = DroppedNow
  BY <1>1 DEF DroppedNow
<1>7. /\ Scenario(scenario') /\ scenario'.mine = scenario.mine
      /\ scenario'.seed = scenario.seed /\ scenario'.loaded = scenario.loaded
  BY <1>0, <1>1, ScenarioKept DEF DataInv
<1>8. PacketInv' /\ StoredOnce'
  BY <1>0, <1>1, <1>7, Frame, PacketKept, StoreKept
<1> QED
  BY <1>1, <1>3, <1>4, <1>5, <1>6, <1>7, <1>8, MarkingKeeps

\* A step of the request and the refusal alone.
LEMMA RequestStepKeeps ==
  ASSUME RowInv,
         UNCHANGED <<scenario, log, store, outbox, cursor, view, localIds, history, writer, packet, done>>,
         RequestInv', Requested' \subseteq Requested
  PROVE  RowInv'
<1>0. /\ DataInv /\ CallInv /\ PacketInv /\ RequestInv /\ MadeOnce /\ AwaitingIsKnown
      /\ StoredOnce /\ StoreFollowsLog /\ HistoryInv
  BY DEF RowInv
<1>1. DataInv' /\ CallInv'
  BY <1>0, CallKept DEF DataInv
<1>2. MadeOnce'
  BY <1>0 DEF MadeOnce
<1>3. HistoryInv'
  <2>1. \A n : Reachable(n) => Reachable(n)'
    BY Frame DEF Reachable, DroppedNow
  <2> HIDE DEF Reachable
  <2> QED
    BY <1>0, <2>1, HistoryKept DEF Replays
<1>4. PacketInv' /\ AwaitingIsKnown' /\ StoredOnce' /\ StoreFollowsLog'
  BY <1>0, Frame, PacketKept, AwaitingKept, StoreKept
<1> QED
  BY <1>0, <1>1, <1>2, <1>3, <1>4 DEF RowInv

LEMMA ReplyArrivesKeeps ==
  ASSUME RowInv, ReplyArrives
  PROVE  RowInv'
<1>0. RequestInv
  BY DEF RowInv
<1>1. /\ UNCHANGED <<scenario, log, store, outbox, cursor, view, localIds, history, writer, packet, refusal, done>>
      /\ request.pc = "call" /\ Len(request.results) = Len(request.txs)
      /\ request' = [request EXCEPT !.pc = "reply"]
  BY DEF ReplyArrives, client
<1>2. request \in [pc : {"call", "reply"}, txs : Seq(Txs), results : Seq(Nat)]
  BY <1>0, <1>1 DEF RequestInv, Request, NoTask
<1>3. /\ request'.pc = "reply" /\ request'.txs = request.txs /\ request'.results = request.results
      /\ request' \in Request
  BY <1>1, <1>2 DEF Request
<1>4. \A n : Known(n) => Known(n)'
  BY <1>1, Frame
<1>5. RequestInv'
  BY <1>0, <1>1, <1>3 DEF RequestInv, Known
<1>6. Requested' = Requested
  BY <1>1, <1>3 DEF Requested, Idle
<1> QED
  BY <1>1, <1>5, <1>6, RequestStepKeeps

LEMMA AdoptPersistedOriginalKeeps ==
  ASSUME RowInv, AdoptPersistedOriginal
  PROVE  RowInv'
<1>0. RequestInv /\ MadeOnce
  BY DEF RowInv
<1> DEFINE tx == Head(request.txs)
           persisted == IF tx.n \in Ids(outbox) THEN Tx(tx.n).original ELSE tx.original
<1>1. /\ UNCHANGED <<scenario, log, store, outbox, cursor, view, localIds, history, writer, packet, request, done>>
      /\ request.pc = "reply" /\ Idle(refusal)
      /\ refusal' = [pc |-> "adopted", tx |-> [tx EXCEPT !.original = persisted]]
  BY DEF AdoptPersistedOriginal, client
<1>2. tx \in Txs /\ tx \in Requested
  BY <1>0, <1>1, RequestFields, HeadAndTail
<1>3. /\ tx \in [n : Nat, act : Acts, state : States, needed : Nat, set : Sets, original : Sets]
      /\ Sound(tx)
  BY <1>2 DEF Txs
<1>4. Sound([act |-> tx.act, set |-> tx.set, original |-> persisted])
  <2>1. CASE tx.n \in Ids(outbox)
    <3>1. Tx(tx.n) \in ToSet(outbox) /\ Tx(tx.n).n = tx.n
      BY <2>1 DEF Tx, Ids
    <3>2. Tx(tx.n).act = tx.act /\ Tx(tx.n).set = tx.set
      BY <1>0, <1>2, <3>1 DEF MadeOnce
    <3>3. Sound(Tx(tx.n))
      BY <3>1, Frame DEF Txs
    <3>4. persisted = Tx(tx.n).original
      BY <2>1
    <3> HIDE DEF persisted, tx
    <3> QED
      BY <3>2, <3>3, <3>4 DEF Sound
  <2>2. CASE tx.n \notin Ids(outbox)
    <3>1. persisted = tx.original
      BY <2>2
    <3> HIDE DEF persisted, tx
    <3> QED
      BY <1>3, <3>1 DEF Sound
  <2> QED
    BY <2>1, <2>2
<1> HIDE DEF persisted, tx
<1> DEFINE t == [tx EXCEPT !.original = persisted]
<1>5. t.act = tx.act /\ t.set = tx.set /\ t.original = persisted /\ t.n = tx.n
  BY <1>3
<1>6. t \in Txs
  <2>1. Sound(t)
    <3> HIDE DEF t
    <3> QED
      BY <1>4, <1>5 DEF Sound
  <2>2. "queued" \in States /\ 0 \in Nat
    BY DEF States
  <2> QED
    BY <1>2, <2>1, <2>2, TxChanged
<1> HIDE DEF t
<1>7. RequestInv'
  <2>1. refusal' = [pc |-> "adopted", tx |-> t]
    BY <1>1 DEF t
  <2>2. refusal' \in Refusal /\ refusal'.tx.n = tx.n
    BY <1>5, <1>6, <2>1 DEF Refusal
  <2> QED
    BY <1>0, <1>1, <2>2, Frame DEF RequestInv, tx, Known
<1>8. Requested' = Requested
  BY <1>1 DEF Requested, Idle
<1> QED
  BY <1>1, <1>7, <1>8, RequestStepKeeps

LEMMA MarkFailedKeeps ==
  ASSUME RowInv, MarkFailed
  PROVE  RowInv'
<1>0. DataInv /\ RequestInv /\ PacketInv /\ StoredOnce
  BY DEF RowInv
<1> DEFINE rows == {[tx EXCEPT !.state = "failed"] : tx \in Stored({refusal.tx.n})}
<1>1. /\ UNCHANGED <<scenario, log, store, cursor, view, localIds, history, writer, packet, request, done>>
      /\ refusal.pc = "adopted" /\ outbox' = Updated(rows)
      /\ refusal' = [refusal EXCEPT !.pc = "marked"]
  BY DEF MarkFailed, Marked
<1>2. "failed" \in States
  BY DEF States
<1>3. \A r \in rows : r \in Txs /\ r.state = "failed" /\ \E s \in ToSet(outbox) : Same(s, r)
  BY <1>2, MarkedRows
<1> HIDE DEF rows
<1>4. RequestInv'
  <2>1. refusal \in [pc : {"adopted", "marked"}, tx : Txs]
    BY <1>0, <1>1 DEF RequestInv, Refusal, NoTask
  <2>2. refusal' \in Refusal /\ refusal'.tx = refusal.tx
    BY <1>1, <2>1 DEF Refusal
  <2> QED
    BY <1>0, <1>1, <2>2, Frame DEF RequestInv, Known
<1>5. Requested' = Requested
  BY <1>1 DEF Requested, Idle
<1>6. DroppedNow' = DroppedNow
  BY <1>1 DEF DroppedNow
<1>7. PacketInv' /\ StoredOnce'
  BY <1>0, <1>1, Frame, PacketKept, StoreKept
<1>8. Scenario(scenario')
  BY <1>0, <1>1 DEF DataInv
<1> QED
  BY <1>1, <1>3, <1>4, <1>5, <1>6, <1>7, <1>8, MarkingKeeps

LEMMA AcknowledgeKeeps ==
  ASSUME RowInv, Acknowledge
  PROVE  RowInv'
<1>0. DataInv /\ RequestInv /\ PacketInv /\ StoredOnce
  BY DEF RowInv
<1> DEFINE n == Head(request.txs).n
           id == Head(request.results)
           rows == {[tx EXCEPT !.state = "awaitingSync", !.needed = id] : tx \in Stored({n})}
<1>1. /\ UNCHANGED <<scenario, log, store, cursor, view, localIds, history, writer, packet, refusal, done>>
      /\ request.pc = "reply" /\ Idle(refusal) /\ id # 0
      /\ outbox' = Updated(rows)
      /\ request' = NextResult
  BY DEF Acknowledge
<1>2. /\ request.txs # <<>> /\ request.txs \in Seq(Txs) /\ request.results \in Seq(Nat)
      /\ Len(request.results) = Len(request.txs)
      /\ \A i \in DOMAIN request.results : request.results[i] # 0 => Known(request.txs[i].n)
  BY <1>0, <1>1, RequestFields DEF RequestInv
<1>3. id \in Nat /\ Known(n)
  <2> DEFINE txs == request.txs
             results == request.results
  <2> HIDE DEF txs, results
  <2>1. /\ txs # <<>> /\ txs \in Seq(Txs) /\ results \in Seq(Nat) /\ Len(results) = Len(txs)
        /\ \A i \in DOMAIN results : results[i] # 0 => Known(txs[i].n)
    BY <1>2 DEF txs, results
  <2>2. /\ 1 \in DOMAIN results /\ Head(results) = results[1] /\ Head(txs) = txs[1]
        /\ results[1] \in Nat
    BY <2>1
  <2> QED
    BY <1>1, <2>1, <2>2 DEF txs, results
<1>4. "awaitingSync" \in States
  BY DEF States
<1> HIDE DEF id, n
<1>5. \A r \in rows : r \in Txs /\ r.n = n /\ \E s \in ToSet(outbox) : Same(s, r)
  <2> SUFFICES ASSUME NEW tx \in Stored({n})
               PROVE  LET r == [tx EXCEPT !.state = "awaitingSync", !.needed = id]
                      IN r \in Txs /\ r.n = n /\ \E s \in ToSet(outbox) : Same(s, r)
    OBVIOUS
  <2>1. tx \in ToSet(outbox) /\ tx.n = n
    BY DEF Stored
  <2> QED
    BY <1>3, <1>4, <2>1, AnsweredRow
<1> HIDE DEF rows
<1>6. RequestInv' /\ Requested' \subseteq Requested
  <2>1. refusal' = Resting
    BY <1>0, <1>1 DEF RequestInv, Refusal, NoTask, Idle, Resting
  <2> QED
    BY <1>0, <1>1, <2>1, NextResultKeeps
<1>7. \A r \in rows : r.state = "awaitingSync" => Known(r.n)
  BY <1>3, <1>5
<1>8. DroppedNow' = DroppedNow
  BY <1>1 DEF DroppedNow
<1>9. PacketInv' /\ StoredOnce'
  BY <1>0, <1>1, Frame, PacketKept, StoreKept
<1>10. Scenario(scenario')
  BY <1>0, <1>1 DEF DataInv
<1> QED
  BY <1>1, <1>5, <1>6, <1>7, <1>8, <1>9, <1>10, MarkingKeeps

\* A commit of the server's.
LEMMA CommitKeeps ==
  ASSUME RowInv, NEW e \in Commit, log' = Append(log, e),
         UNCHANGED <<scenario, store, outbox, cursor, view, localIds, history, writer, packet, done>>,
         RequestInv', Requested' = Requested
  PROVE  RowInv'
<1>0. /\ DataInv /\ CallInv /\ PacketInv /\ MadeOnce /\ AwaitingIsKnown
      /\ StoredOnce /\ StoreFollowsLog /\ HistoryInv
  BY DEF RowInv
<1>1. log \in Seq(Commit) /\ cursor \in Nat /\ cursor <= Len(log)
  BY <1>0 DEF DataInv
<1>2. /\ log' \in Seq(Commit) /\ Len(log) \in Nat /\ Len(log') = Len(log) + 1
      /\ \A n : Known(n) => Known(n)'
  BY <1>1, LogGrows
<1>3. Len(log') \in Nat /\ Len(log) <= Len(log') /\ cursor <= Len(log')
  BY <1>1, <1>2
<1>4. DataInv'
  BY <1>0, <1>2, <1>3 DEF DataInv
<1>5. CallInv' /\ PacketInv'
  BY <1>0, CallKept, PacketKeptAsLogGrows
<1>6. MadeOnce'
  BY <1>0 DEF MadeOnce
<1>7. AwaitingIsKnown'
  BY <1>0, <1>2, AwaitingKept
<1>8. StoredOnce' /\ StoreFollowsLog'
  BY <1>0, StoreFollowsAsLogGrows
<1>9. HistoryInv'
  <2>1. \A n : Reachable(n) => Reachable(n)'
    BY <1>2 DEF Reachable, DroppedNow
  <2> HIDE DEF Reachable
  <2> QED
    BY <1>0, <2>1, HistoryKept DEF Replays
<1> QED
  BY <1>4, <1>5, <1>6, <1>7, <1>8, <1>9 DEF RowInv

LEMMA TheyCommitKeeps ==
  ASSUME RowInv, TheyCommit
  PROVE  RowInv'
<1>0. DataInv /\ RequestInv
  BY DEF RowInv
<1> DEFINE e == [op |-> scenario.theirs[Theirs + 1], by |-> Foreign]
<1>1. /\ UNCHANGED <<scenario, store, outbox, cursor, view, localIds, history, writer, packet, request, refusal, done>>
      /\ Theirs + 1 \in DOMAIN scenario.theirs /\ log' = Append(log, e)
  BY DEF TheyCommit, client
<1>2. e \in Commit
  <2>1. scenario.theirs[Theirs + 1] \in Operation
    BY <1>0, <1>1, ScriptsAreTyped DEF DataInv
  <2> QED
    BY <2>1 DEF Commit, Foreign
<1> HIDE DEF e
<1>3. \A n : Known(n) => Known(n)'
  BY <1>0, <1>1, <1>2, LogGrows DEF DataInv
<1>4. RequestInv' /\ Requested' = Requested
  BY <1>0, <1>1, <1>3, RequestKept DEF Requested, Idle
<1> QED
  BY <1>1, <1>2, <1>4, CommitKeeps

LEMMA ServerTakesKeeps ==
  ASSUME RowInv, ServerTakes
  PROVE  RowInv'
<1>0. DataInv /\ RequestInv
  BY DEF RowInv
<1> DEFINE txs == request.txs
           results == request.results
           k == Len(results) + 1
           tx == txs[k]
           performs == ~Known(tx.n) /\ tx.n \notin scenario.refused /\ Possible(Op(tx))
           id == IF Known(tx.n) THEN Answer(tx.n) ELSE IF performs THEN Len(log) + 1 ELSE 0
           e == [op |-> Op(tx), by |-> tx.n]
<1>1. /\ UNCHANGED <<scenario, store, outbox, cursor, view, localIds, history, writer, packet, refusal, done>>
      /\ request.pc = "call" /\ Len(results) < Len(txs)
      /\ log' = IF performs THEN Append(log, e) ELSE log
      /\ request' = [request EXCEPT !.results = Append(@, id)]
  BY DEF ServerTakes, client
<1>2. /\ txs \in Seq(Txs) /\ results \in Seq(Nat) /\ txs # <<>> /\ Requested = ToSet(txs)
      /\ Len(txs) \in Nat /\ Len(results) \in Nat
      /\ \A i \in DOMAIN results : results[i] # 0 => Known(txs[i].n)
  BY <1>0, <1>1, RequestFields DEF RequestInv
<1>3. request = [pc |-> "call", txs |-> txs, results |-> results]
  BY <1>0, <1>1, RequestFields
<1>4. refusal.pc = "idle" /\ refusal \in Refusal
  BY <1>0, <1>1 DEF RequestInv
<1>5. request' = [pc |-> "call", txs |-> txs, results |-> Append(results, id)]
  <2> HIDE DEF id
  <2> QED
    BY <1>1, <1>3, Zenon
<1> HIDE DEF txs, results
<1>6. tx \in Txs /\ k \in 1 .. Len(txs)
  BY <1>1, <1>2
<1>7. Op(tx) \in Operation /\ tx.n \in Nat
  BY <1>6, OpOfTx
<1>8. e \in Commit
  BY <1>7 DEF Commit
<1>9. Len(log) \in Nat /\ DOMAIN log = 1 .. Len(log) /\ log \in Seq(Commit)
  BY <1>0 DEF DataInv
<1> HIDE DEF tx
<1>10. /\ \A n : Known(n) => \E i \in DOMAIN log' : log'[i].by = n
       /\ performs => \E i \in DOMAIN log' : log'[i].by = tx.n
  <2>1. CASE performs
    <3>1. log' = Append(log, e) /\ e.by = tx.n
      BY <1>1, <2>1
    <3> HIDE DEF e, performs
    <3>2. (\A n : Known(n) => Known(n)') /\ \E i \in DOMAIN log' : log'[i].by = e.by
      BY <1>8, <1>9, <3>1, LogGrows
    <3> QED
      BY <3>1, <3>2 DEF Known
  <2>2. CASE ~performs
    <3> HIDE DEF performs
    <3> QED
      BY <1>1, <2>2 DEF Known
  <2> QED
    BY <2>1, <2>2
<1>11. id \in Nat /\ (id # 0 => Known(tx.n) \/ performs)
  <2>1. Known(tx.n) => Answer(tx.n) \in DOMAIN log
    BY DEF Known, Answer
  <2>2. CASE Known(tx.n)
    BY <1>9, <2>1, <2>2
  <2>3. CASE ~Known(tx.n)
    BY <1>9, <2>3
  <2> QED
    BY <2>2, <2>3
<1> HIDE DEF id, performs
<1>12. /\ Append(results, id) \in Seq(Nat) /\ Len(Append(results, id)) = k
       /\ DOMAIN Append(results, id) = 1 .. k /\ DOMAIN results = 1 .. Len(results)
       /\ Append(results, id)[k] = id
       /\ \A i \in 1 .. Len(results) : Append(results, id)[i] = results[i]
       /\ \A i \in 1 .. k : i = k \/ i \in 1 .. Len(results)
  BY <1>2, <1>11
<1>13. k <= Len(txs)
  BY <1>1, <1>2
<1> HIDE DEF k
<1>14. ASSUME NEW i \in 1 .. k, Append(results, id)[i] # 0
       PROVE  \E j \in DOMAIN log' : log'[j].by = txs[i].n
  <2>1. CASE i = k
    BY <1>10, <1>11, <1>12, <1>14, <2>1 DEF tx
  <2>2. CASE i # k
    <3>1. Known(txs[i].n)
      BY <1>2, <1>12, <1>14, <2>2
    <3> QED
      BY <1>10, <3>1
  <2> QED
    BY <2>1, <2>2
<1>15. RequestInv' /\ Requested' = Requested
  <2> DEFINE after == Append(results, id)
  <2> HIDE DEF after
  <2>1. /\ request'.pc = "call" /\ request'.txs = txs /\ request'.results = after
        /\ request' \in Request /\ after \in Seq(Nat)
    BY <1>2, <1>5, <1>12 DEF Request, after
  <2>2. /\ Len(after) <= Len(txs)
        /\ \A i \in DOMAIN after : after[i] # 0 => \E j \in DOMAIN log' : log'[j].by = txs[i].n
    BY <1>12, <1>13, <1>14, Zenon DEF after
  <2>3. RequestInv'
    BY <1>1, <1>2, <1>4, <2>1, <2>2, Zenon DEF RequestInv, Known
  <2>4. Requested' = Requested
    BY <1>2, <2>1 DEF Requested, Idle
  <2> QED
    BY <2>3, <2>4
<1>16. CASE performs
  BY <1>1, <1>8, <1>15, <1>16, CommitKeeps
<1>17. CASE ~performs
  BY <1>1, <1>15, <1>17, RequestStepKeeps
<1> QED
  BY <1>16, <1>17

LEMMA HandleRefusalKeeps ==
  ASSUME RowInv, HandleRefusal
  PROVE  RowInv'
<1>0. /\ DataInv /\ CallInv /\ PacketInv /\ RequestInv /\ MadeOnce /\ AwaitingIsKnown
      /\ StoredOnce /\ StoreFollowsLog /\ HistoryInv
  BY DEF RowInv
<1> DEFINE n == refusal.tx.n
<1>1. /\ UNCHANGED <<scenario, log, store, cursor, writer, packet, done>>
      /\ refusal.pc = "marked"
      /\ view' = RolledBack(view, refusal.tx)
      /\ history' = Forgotten(history, {n})
      /\ outbox' = Dropping({n})
      /\ localIds' = localIds \ {n}
      /\ refusal' = Resting /\ request' = NextResult
  BY DEF HandleRefusal
<1>2. refusal.tx \in Txs /\ request.pc = "reply"
  BY <1>0, <1>1, RequestFields DEF RequestInv
<1>3. Sound(refusal.tx) /\ n \in Nat
  BY <1>2 DEF Txs
<1>4. view' \in Rows
  BY <1>0, <1>1, <1>3, ShownIsARow DEF DataInv
<1> HIDE DEF n
<1>5. /\ outbox' \in Seq(Txs)
      /\ ToSet(outbox') = {tx \in ToSet(outbox) : tx.n \notin {n}}
      /\ Ids(outbox') = Ids(outbox) \ {n}
  BY <1>1, Frame, DroppingKeepsTheRest
<1>6. /\ history' \in History
      /\ ToSet(history'.undo) = {e \in ToSet(history.undo) : e.tx \notin {n}}
      /\ ToSet(history'.redo) = {e \in ToSet(history.redo) : e.tx \notin {n}}
      /\ history'.popped = history.popped /\ history.missed \subseteq history'.missed
      /\ Replays => {n} \cap {history.popped.entry.tx} \subseteq history'.missed
  <2>1. history \in History /\ {n} \in SUBSET Nat
    BY <1>0, <1>3 DEF DataInv
  <2> QED
    BY <1>1, <2>1, ForgottenFields
<1>7. DataInv'
  BY <1>0, <1>1, <1>4, <1>5, <1>6, Zenon DEF DataInv
<1>8. RequestInv' /\ Requested' \subseteq Requested
  BY <1>0, <1>1, <1>2, NextResultKeeps
<1>9. MadeOnce'
  <2>1. \A t \in ToSet(outbox') \cup Requested' : \E s \in ToSet(outbox) \cup Requested : Same(s, t)
    BY <1>5, <1>8, Frame
  <2>2. done' \in Nat /\ done <= done'
    BY <1>1, Frame
  <2> QED
    BY <1>0, <2>1, <2>2, MadeOnceKept
<1>10. AwaitingIsKnown'
  BY <1>0, <1>1, <1>5, Frame, AwaitingKept, Zenon
<1>11. HistoryInv'
  <2>1. DroppedNow' = DroppedNow
    BY <1>1 DEF DroppedNow
  <2>2. \A k : Reachable(k) /\ k # n => Reachable(k)'
    BY <1>1, <1>5, <1>6, <2>1, Frame, Zenon DEF Reachable
  <2>3. Replays => Reachable(history.popped.entry.tx)'
    <3>1. ASSUME Replays, history.popped.entry.tx = n
          PROVE  history.popped.entry.tx \in history'.missed
      BY <1>6, <3>1
    <3>2. \A k : k \in history'.missed => Reachable(k)'
      BY DEF Reachable
    <3>3. Replays => Reachable(history.popped.entry.tx)
      BY <1>0 DEF HistoryInv
    <3>4. Replays => history'.popped.entry.tx = history.popped.entry.tx
      BY <1>6
    <3> HIDE DEF Reachable
    <3> QED
      BY <2>2, <3>1, <3>2, <3>3, <3>4
  <2>4. \A e \in ToSet(history'.undo) \cup ToSet(history'.redo) : Reachable(e.tx) /\ e.tx # n
    BY <1>0, <1>6 DEF HistoryInv
  <2> HIDE DEF Reachable
  <2> QED
    BY <1>6, <2>2, <2>3, <2>4 DEF HistoryInv, Replays
<1>12. CallInv' /\ PacketInv' /\ StoredOnce' /\ StoreFollowsLog'
  BY <1>0, <1>1, <1>6, Frame, CallKept, PacketKept, StoreKept
<1> QED
  BY <1>7, <1>8, <1>9, <1>10, <1>11, <1>12 DEF RowInv

-----------------------------------------------------------------------------
(* Delta packets. *)

LEMMA PacketFields ==
  ASSUME PacketInv
  PROVE  /\ packet.pc \in {"idle", "stored", "rebases", "stages", "confirms", "rereads", "shows", "commits"}
         /\ packet.pc # "idle" => packet.upto \in Nat /\ cursor < packet.upto /\ packet.upto <= Len(log)
         /\ packet.pc \in {"rebases", "stages"} =>
              /\ packet \in [pc : {"rebases", "stages"}, upto : Nat, seen : Seq(Txs),
                             conflicts : SUBSET Nat, dropped : Seq(Txs)]
              /\ packet.conflicts \subseteq ConflictsOf(packet.seen)
         /\ packet.pc = "confirms" =>
              packet \in [pc : {"confirms"}, upto : Nat, dropped : Seq(Txs), ops : Seq(Write)]
         /\ packet.pc = "rereads" =>
              packet \in [pc : {"rereads"}, upto : Nat, dropped : Seq(Txs), ops : Seq(Write),
                          own : SUBSET Nat]
         /\ packet.pc = "shows" =>
              packet \in [pc : {"shows"}, upto : Nat, dropped : Seq(Txs), ops : Seq(Write),
                          own : SUBSET Nat, pending : Seq(Txs)]
BY DEF PacketInv, Packet, NoTask

\* What is a conflict depends on the log and the packet's actions.
LEMMA ConflictsKept ==
  ASSUME UNCHANGED <<log, cursor>>, packet'.upto = packet.upto
  PROVE  \A seen : ConflictsOf(seen)' = ConflictsOf(seen)
<1> DEFINE found(l, b, seen) ==
             {i \in DOMAIN seen :
                LET candidates == {k \in b : l[k].by \notin Ids(seen) /\ Conflicts(seen[i], l[k].op)}
                IN (IF \/ seen[i].n \in {l[k].by : k \in b} \cap Ids(seen)
                       \/ InFlight(seen[i]) \/ candidates = {} THEN 0
                    ELSE CHOOSE k \in candidates : \A j \in candidates : k <= j) # 0}
<1> SUFFICES ASSUME NEW seen
             PROVE  ConflictsOf(seen)' = ConflictsOf(seen)
  OBVIOUS
<1>1. ConflictsOf(seen) = found(log, Brought, seen) /\ ConflictsOf(seen)' = found(log', Brought', seen)
  BY Zenon DEF ConflictsOf, FirstConflict, Echoed
<1>2. Brought' = Brought
  BY DEF Brought
<1> HIDE DEF found
<1> QED
  BY <1>1, <1>2

\* An action that is in conflict is one the packet brings.
LEMMA ConflictIsBrought ==
  ASSUME NEW seen, NEW i \in ConflictsOf(seen), Brought \subseteq Nat
  PROVE  FirstConflict(seen, seen[i]) \in Brought
<1> DEFINE candidates == {k \in Brought : log[k].by \notin Ids(seen) /\ Conflicts(seen[i], log[k].op)}
<1>1. /\ candidates # {}
      /\ FirstConflict(seen, seen[i]) = CHOOSE k \in candidates : \A j \in candidates : k <= j
  BY DEF ConflictsOf, FirstConflict
<1>2. candidates \in SUBSET Nat /\ candidates \subseteq Brought
  BY Zenon
<1> HIDE DEF candidates
<1>3. \E k \in candidates : \A j \in candidates : k <= j
  BY <1>1, <1>2, LeastExists
<1> QED
  BY <1>1, <1>2, <1>3, Zenon

\* A step of the packet that changes the outbox, or only the packet.
LEMMA PacketStepKeeps ==
  ASSUME RowInv,
         UNCHANGED <<scenario, log, store, cursor, view, history, writer, request, refusal, done>>,
         outbox' \in Seq(Txs), localIds' \subseteq localIds,
         \A t \in ToSet(outbox') : \E s \in ToSet(outbox) : Same(s, t) /\ s.state = t.state,
         \A n \in Ids(outbox) : n \in Ids(outbox') \/ Known(n) \/ n \in DroppedNow',
         DroppedNow \subseteq DroppedNow',
         PacketInv', StoredOnce'
  PROVE  RowInv'
<1>0. /\ DataInv /\ CallInv /\ RequestInv /\ MadeOnce /\ AwaitingIsKnown
      /\ StoreFollowsLog /\ HistoryInv
  BY DEF RowInv
<1>1. DataInv' /\ CallInv'
  BY <1>0, CallKept DEF DataInv
<1>2. MadeOnce'
  <2>1. Requested' = Requested
    BY DEF Requested, Idle
  <2>2. \A t \in ToSet(outbox') \cup Requested' : \E s \in ToSet(outbox) \cup Requested : Same(s, t)
    BY <2>1, Frame
  <2>3. done' \in Nat /\ done <= done'
    BY Frame
  <2> QED
    BY <1>0, <2>2, <2>3, MadeOnceKept
<1>3. AwaitingIsKnown'
  <2>1. \A t \in ToSet(outbox') : t.state = "awaitingSync" =>
           \E s \in ToSet(outbox) : s.n = t.n /\ s.state = "awaitingSync"
    BY DEF Same
  <2> QED
    BY <1>0, <2>1, Frame, AwaitingKept
<1>4. HistoryInv'
  <2>1. \A n : Reachable(n) => Reachable(n)'
    BY Frame DEF Reachable
  <2> HIDE DEF Reachable
  <2> QED
    BY <1>0, <2>1, HistoryKept DEF Replays
<1>5. RequestInv' /\ StoreFollowsLog'
  BY <1>0, Frame, RequestKept, StoreKept
<1> QED
  BY <1>1, <1>2, <1>3, <1>4, <1>5 DEF RowInv

LEMMA PacketArrivesKeeps ==
  ASSUME RowInv, PacketArrives
  PROVE  RowInv'
<1>0. DataInv /\ PacketInv
  BY DEF RowInv
<1>1. /\ UNCHANGED <<scenario, log, store, outbox, cursor, view, localIds, history, writer, request, refusal, done>>
      /\ Idle(packet)
      /\ \E upto \in cursor + 1 .. Len(log) : packet' = [pc |-> "stored", upto |-> upto]
  BY DEF PacketArrives, client, LockIsFree
<1>2. PICK upto \in cursor + 1 .. Len(log) : packet' = [pc |-> "stored", upto |-> upto]
  BY <1>1
<1>3. upto \in Nat /\ cursor < upto /\ upto <= Len(log)
  BY <1>0, <1>2, Frame DEF DataInv
<1>4. PacketInv'
  BY <1>1, <1>2, <1>3 DEF PacketInv, Packet
<1>5. StoredOnce'
  BY <1>2 DEF StoredOnce
<1>6. DroppedNow = {}
  BY <1>1 DEF DroppedNow, Idle
<1>7. outbox' \in Seq(Txs) /\ \A t \in ToSet(outbox') : \E s \in ToSet(outbox) : Same(s, t) /\ s.state = t.state
  BY <1>1, Frame
<1> QED
  BY <1>1, <1>4, <1>5, <1>6, <1>7, PacketStepKeeps

LEMMA RebaseReadsKeeps ==
  ASSUME RowInv, RebaseReads
  PROVE  RowInv'
<1>0. PacketInv
  BY DEF RowInv
<1>1. /\ UNCHANGED <<scenario, log, store, outbox, cursor, view, localIds, history, writer, request, refusal, done>>
      /\ packet.pc = "stored"
      /\ packet' = [pc |-> "rebases", upto |-> packet.upto, seen |-> Active,
                    conflicts |-> ConflictsOf(Active), dropped |-> <<>>]
  BY DEF RebaseReads, client
<1>2. packet.upto \in Nat /\ cursor < packet.upto /\ packet.upto <= Len(log)
  BY <1>0, <1>1, PacketFields
<1>3. Active \in Seq(Txs)
  BY Frame, PartsOfTheOutbox DEF Active
<1>4. ConflictsOf(Active) \subseteq DOMAIN Active /\ DOMAIN Active \subseteq Nat
  BY <1>3 DEF ConflictsOf
<1>5. PacketInv'
  <2> DEFINE conflicts == ConflictsOf(Active)
             seen == Active
  <2>1. conflicts \in SUBSET Nat /\ conflicts \subseteq DOMAIN seen /\ seen \in Seq(Txs) /\ <<>> \in Seq(Txs)
    BY <1>3, <1>4
  <2>2. packet' = [pc |-> "rebases", upto |-> packet.upto, seen |-> seen,
                   conflicts |-> conflicts, dropped |-> <<>>]
    BY <1>1
  <2> HIDE DEF conflicts, seen
  <2>3. packet' \in Packet
    BY <1>2, <2>1, <2>2 DEF Packet
  <2>4. ConflictsOf(seen) = conflicts
    BY DEF seen, conflicts
  <2>5. packet'.conflicts = conflicts /\ packet'.seen = seen /\ packet'.upto = packet.upto
    BY <2>2
  <2>6. packet'.conflicts \subseteq ConflictsOf(packet.seen)'
    BY <1>1, <2>4, <2>5, ConflictsKept
  <2> QED
    BY <1>1, <1>2, <2>3, <2>5, <2>6 DEF PacketInv
<1>6. packet'.pc = "rebases"
  BY <1>1
<1>7. StoredOnce'
  BY <1>6 DEF StoredOnce
<1>8. DroppedNow = {}
  BY <1>1 DEF DroppedNow
<1>9. outbox' \in Seq(Txs) /\ \A t \in ToSet(outbox') : \E s \in ToSet(outbox) : Same(s, t) /\ s.state = t.state
  BY <1>1, Frame
<1> QED
  BY <1>1, <1>5, <1>7, <1>8, <1>9, PacketStepKeeps

LEMMA ReadPendingKeeps ==
  ASSUME RowInv, ReadPending
  PROVE  RowInv'
<1>0. PacketInv /\ StoredOnce
  BY DEF RowInv
<1>1. /\ UNCHANGED <<scenario, log, store, outbox, cursor, view, localIds, history, writer, request, refusal, done>>
      /\ packet.pc = "rereads"
      /\ packet' = [pc |-> "shows", upto |-> packet.upto, dropped |-> packet.dropped,
                    ops |-> packet.ops, own |-> packet.own, pending |-> Active]
  BY DEF ReadPending, client
<1>2. /\ packet.upto \in Nat /\ cursor < packet.upto /\ packet.upto <= Len(log)
      /\ packet \in [pc : {"rereads"}, upto : Nat, dropped : Seq(Txs), ops : Seq(Write), own : SUBSET Nat]
  BY <1>0, <1>1, PacketFields
<1>3. Active \in Seq(Txs)
  BY Frame, PartsOfTheOutbox DEF Active
<1> DEFINE pending == Active
<1>4. /\ packet'.pc = "shows" /\ packet'.upto = packet.upto /\ packet'.dropped = packet.dropped
      /\ packet' = [pc |-> "shows", upto |-> packet.upto, dropped |-> packet.dropped,
                    ops |-> packet.ops, own |-> packet.own, pending |-> pending]
  BY <1>1
<1> HIDE DEF pending
<1>5. PacketInv'
  <2>1. packet' \in Packet
    BY <1>2, <1>3, <1>4 DEF Packet, pending
  <2> QED
    BY <1>1, <1>2, <1>4, <2>1 DEF PacketInv
<1>6. StoredOnce'
  BY <1>0, <1>1, <1>4 DEF StoredOnce, ThroughLog
<1>7. DroppedNow' = DroppedNow
  BY <1>1, <1>4 DEF DroppedNow
<1>8. outbox' \in Seq(Txs) /\ \A t \in ToSet(outbox') : \E s \in ToSet(outbox) : Same(s, t) /\ s.state = t.state
  BY <1>1, Frame
<1> QED
  BY <1>1, <1>5, <1>6, <1>7, <1>8, PacketStepKeeps

LEMMA FinishOutboxProcessingKeeps ==
  ASSUME RowInv, FinishOutboxProcessing
  PROVE  RowInv'
<1>0. DataInv /\ PacketInv /\ StoredOnce /\ AwaitingIsKnown
  BY DEF RowInv
<1> DEFINE echoed == {log[i].by : i \in Brought}
           settled == {tx.n : tx \in {t \in ToSet(outbox) :
                          \/ t.n \in echoed
                          \/ t.state = "awaitingSync" /\ t.needed <= packet.upto}}
           own == echoed \cap localIds
<1>1. /\ UNCHANGED <<scenario, log, store, cursor, view, history, writer, request, refusal, done>>
      /\ packet.pc = "confirms"
      /\ outbox' = Dropping(settled) /\ localIds' = localIds \ settled
      /\ packet' = [pc |-> "rereads", upto |-> packet.upto, dropped |-> packet.dropped,
                    ops |-> packet.ops, own |-> own]
  BY DEF FinishOutboxProcessing
<1>2. /\ packet.upto \in Nat /\ cursor < packet.upto /\ packet.upto <= Len(log)
      /\ packet \in [pc : {"confirms"}, upto : Nat, dropped : Seq(Txs), ops : Seq(Write)]
  BY <1>0, <1>1, PacketFields
<1>3. \A n \in settled : Known(n)
  <2>1. \A i \in Brought : i \in DOMAIN log
    BY <1>0, <1>2 DEF Brought, DataInv
  <2>2. \A n \in echoed : Known(n)
    BY <2>1 DEF Known
  <2> QED
    BY <1>0, <2>2 DEF AwaitingIsKnown
<1>4. own \in SUBSET Nat
  <2>1. localIds \in SUBSET (1 .. Len(scenario.mine)) /\ Len(scenario.mine) \in Nat
    BY <1>0, Frame DEF DataInv
  <2>2. localIds \subseteq Nat
    BY <2>1
  <2> HIDE DEF echoed
  <2> QED
    BY <2>2, Zenon
<1> HIDE DEF settled, own
<1>5. /\ outbox' \in Seq(Txs)
      /\ ToSet(outbox') = {tx \in ToSet(outbox) : tx.n \notin settled}
      /\ Ids(outbox') = Ids(outbox) \ settled
  BY <1>1, Frame, DroppingKeepsTheRest
<1>6. packet'.pc = "rereads" /\ packet'.upto = packet.upto /\ packet'.dropped = packet.dropped
  BY <1>1
<1>7. PacketInv'
  <2>1. packet' \in Packet
    BY <1>1, <1>2, <1>4 DEF Packet
  <2> QED
    BY <1>1, <1>2, <1>6, <2>1 DEF PacketInv
<1>8. StoredOnce'
  BY <1>0, <1>1, <1>6 DEF StoredOnce, ThroughLog
<1>9. DroppedNow' = DroppedNow
  BY <1>1, <1>6 DEF DroppedNow
<1>10. \A t \in ToSet(outbox') : \E s \in ToSet(outbox) : Same(s, t) /\ s.state = t.state
  BY <1>5, Frame
<1>11. \A n \in Ids(outbox) : n \in Ids(outbox') \/ Known(n)
  BY <1>3, <1>5
<1>12. localIds' \subseteq localIds
  BY <1>1
<1> QED
  BY <1>1, <1>5, <1>7, <1>8, <1>9, <1>10, <1>11, <1>12, PacketStepKeeps

\* A rebase changes what a rollback restores, field by field, and nothing else.
LEMMA OriginalReplaced ==
  ASSUME NEW tx \in Txs, NEW values \in [DOMAIN tx.original -> Nat]
  PROVE  LET r == [tx EXCEPT !.original = values]
         IN r \in Txs /\ Same(tx, r) /\ r.state = tx.state
<1> DEFINE r == [tx EXCEPT !.original = values]
<1>1. tx \in [n : Nat, act : Acts, state : States, needed : Nat, set : Sets, original : Sets] /\ Sound(tx)
  BY DEF Txs
<1>2. /\ r.n = tx.n /\ r.act = tx.act /\ r.set = tx.set /\ r.state = tx.state
      /\ r.original = values
  BY <1>1
<1>3. Sound(r)
  <2> HIDE DEF r
  <2>1. CASE tx.act = "I"
    <3>1. tx.original = Absent /\ tx.set \in [Fields -> Nat]
      BY <1>1, <2>1 DEF Sound
    <3>2. values = Absent
      BY <3>1 DEF Absent
    <3> QED
      BY <1>2, <2>1, <3>1, <3>2 DEF Sound
  <2>2. CASE tx.act = "U"
    <3>1. tx.set \in Updates /\ tx.original \in Updates /\ DOMAIN tx.original = DOMAIN tx.set
      BY <1>1, <2>2 DEF Sound
    <3>2. values \in Updates /\ DOMAIN values = DOMAIN tx.set
      BY <3>1 DEF Updates
    <3> QED
      BY <1>2, <2>2, <3>1, <3>2 DEF Sound
  <2>3. CASE tx.act = "D"
    <3>1. tx.original \in [Fields -> Nat] /\ tx.set = Absent
      BY <1>1, <2>3 DEF Sound
    <3>2. values \in [Fields -> Nat]
      BY <3>1
    <3> QED
      BY <1>2, <2>3, <3>1, <3>2 DEF Sound
  <2> QED
    BY <1>1, <2>1, <2>2, <2>3 DEF Sound
<1>4. r \in Txs
  <2>1. tx.state \in States /\ 0 \in Nat
    BY <1>1
  <2> QED
    BY <1>3, <2>1, TxChanged
<1> QED
  BY <1>2, <1>4 DEF Same

\* An original, and an operation's fields, are numbers.
LEMMA FieldsAreNumbers ==
  ASSUME NEW s \in Sets
  PROVE  \A f \in DOMAIN s : s[f] \in Nat
<1>1. CASE s = Absent
  BY <1>1 DEF Absent
<1>2. CASE s \in Updates
  BY <1>2 DEF Updates
<1> QED
  BY <1>1, <1>2 DEF Sets

LEMMA ChangesAreNumbers ==
  ASSUME RowInv
  PROVE  /\ \A tx \in Txs : \A f \in DOMAIN tx.original : tx.original[f] \in Nat
         /\ \A i \in DOMAIN log : \A f \in DOMAIN log[i].op.set : log[i].op.set[f] \in Nat
         /\ packet.pc # "idle" => Brought \subseteq DOMAIN log /\ IsFiniteSet(Brought)
<1>1. DataInv /\ PacketInv
  BY DEF RowInv
<1>2. log \in Seq(Commit) /\ cursor \in Nat
  BY <1>1 DEF DataInv
<1>3. \A tx \in Txs : tx.original \in Sets
  BY DEF Txs
<1>4. \A i \in DOMAIN log : log[i].op.set \in Sets
  <2>1. \A i \in DOMAIN log : log[i] \in Commit
    BY <1>2
  <2> QED
    BY <2>1 DEF Commit, Operation
<1>5. ASSUME packet.pc # "idle"
      PROVE  Brought \subseteq DOMAIN log /\ IsFiniteSet(Brought)
  <2>1. packet.upto \in Nat /\ packet.upto <= Len(log) /\ DOMAIN log = 1 .. Len(log) /\ Len(log) \in Nat
    BY <1>1, <1>2, <1>5, PacketFields
  <2>2. Brought \subseteq 1 .. Len(log)
    BY <1>2, <2>1 DEF Brought
  <2>3. IsFiniteSet(1 .. Len(log))
    BY <2>1, FS_Interval
  <2> QED
    BY <2>1, <2>2, <2>3, FS_Subset, Zenon
<1> QED
  BY <1>3, <1>4, <1>5, FieldsAreNumbers

\* The server's values folded into an original.
LEMMA FoldedRow ==
  ASSUME RowInv, NEW tx \in ToSet(outbox), NEW op,
         \A f \in DOMAIN op.set : op.set[f] \in Nat
  PROVE  Folded(tx, op) \in Txs /\ Same(tx, Folded(tx, op)) /\ Folded(tx, op).state = tx.state
<1> DEFINE values == [f \in DOMAIN tx.original |-> IF f \in DOMAIN op.set THEN op.set[f] ELSE tx.original[f]]
<1>1. tx \in Txs /\ tx \in [n : Nat, act : Acts, state : States, needed : Nat, set : Sets, original : Sets]
  BY Frame DEF Txs
<1>2. values \in [DOMAIN tx.original -> Nat]
  BY <1>1, ChangesAreNumbers
<1>3. Folded(tx, op) = [tx EXCEPT !.original = values]
  BY <1>1 DEF Folded
<1> HIDE DEF values
<1> QED
  BY <1>1, <1>2, <1>3, OriginalReplaced

\* The newest values the server has given the fields, as an original.
LEMMA RebasedRow ==
  ASSUME RowInv, packet.pc # "idle", NEW tx \in ToSet(outbox)
  PROVE  Rebased(tx) \in Txs /\ Same(tx, Rebased(tx)) /\ Rebased(tx).state = tx.state
<1> DEFINE writes(f) == {i \in Brought : f \in DOMAIN log[i].op.set}
           newest(f) == CHOOSE i \in writes(f) : \A j \in writes(f) : j <= i
           value(f) == IF writes(f) = {} THEN tx.original[f] ELSE log[newest(f)].op.set[f]
           values == [f \in DOMAIN tx.original |-> value(f)]
<1>1. tx \in Txs /\ tx \in [n : Nat, act : Acts, state : States, needed : Nat, set : Sets, original : Sets]
  BY Frame DEF Txs
<1>2. ASSUME NEW f \in DOMAIN tx.original
      PROVE  value(f) \in Nat
  <2>1. CASE writes(f) = {}
    BY <1>1, <2>1, ChangesAreNumbers
  <2>2. CASE writes(f) # {}
    <3>1. Brought \subseteq DOMAIN log /\ IsFiniteSet(Brought) /\ DOMAIN log \subseteq Nat
      BY ChangesAreNumbers DEF RowInv, DataInv
    <3>2. writes(f) \subseteq Brought /\ IsFiniteSet(writes(f))
      <4>1. writes(f) \subseteq Brought
        OBVIOUS
      <4> HIDE DEF writes
      <4> QED
        BY <3>1, <4>1, FS_Subset
    <3>3. \E n \in writes(f) : \A m \in writes(f) : m <= n
      <4>1. \A x \in writes(f) : x \in Nat
        BY <3>1, <3>2
      <4> HIDE DEF writes
      <4> QED
        BY <2>2, <3>2, <4>1, GreatestExists
    <3>4. newest(f) \in writes(f)
      <4> HIDE DEF writes
      <4> QED
        BY <3>3
    <3>5. newest(f) \in DOMAIN log /\ f \in DOMAIN log[newest(f)].op.set
      <4> HIDE DEF newest
      <4> QED
        BY <3>1, <3>4
    <3> HIDE DEF newest, writes
    <3> QED
      BY <2>2, <3>5, ChangesAreNumbers
  <2> QED
    BY <2>1, <2>2
<1>3. Rebased(tx) = [tx EXCEPT !.original = values]
  BY <1>1, Zenon DEF Rebased
<1> HIDE DEF value
<1>4. values \in [DOMAIN tx.original -> Nat]
  BY <1>2
<1> HIDE DEF values
<1> QED
  BY <1>1, <1>3, <1>4, OriginalReplaced

\* A conflict of the rebase is resolved: the write that loses will be rolled

\* back, and forgotten by the history, with the packet's merge.
LEMMA ResolveConflictKeeps ==
  ASSUME RowInv, ResolveConflict
  PROVE  RowInv'
<1>0. DataInv /\ PacketInv
  BY DEF RowInv
<1>1. packet.pc = "rebases" /\ UNCHANGED <<scenario, log, store, cursor, view, history, writer, request, refusal, done>>
  BY DEF ResolveConflict
<1>2. /\ packet.upto \in Nat /\ cursor < packet.upto /\ packet.upto <= Len(log)
      /\ packet \in [pc : {"rebases", "stages"}, upto : Nat, seen : Seq(Txs),
                     conflicts : SUBSET Nat, dropped : Seq(Txs)]
      /\ packet.conflicts \subseteq ConflictsOf(packet.seen)
  BY <1>0, <1>1, PacketFields
<1>3. PICK i \in packet.conflicts :
        LET tx == packet.seen[i]
            op == log[FirstConflict(packet.seen, tx)].op
            rest == [packet EXCEPT !.conflicts = @ \ {i}]
        IN \/ /\ outbox' = Dropping({tx.n}) /\ localIds' = localIds \ {tx.n}
              /\ packet' = [rest EXCEPT !.dropped = Append(@, tx)]
           \/ /\ outbox' = IF Wins(tx) THEN Updated({Folded(t, op) : t \in Stored({tx.n})}) ELSE outbox
              /\ packet' = rest
              /\ UNCHANGED localIds
  BY Zenon DEF ResolveConflict
<1> DEFINE tx == packet.seen[i]
           at == FirstConflict(packet.seen, tx)
           op == log[at].op
           conflicts == packet.conflicts \ {i}
<1>4. /\ tx \in Txs /\ conflicts \in SUBSET Nat /\ conflicts \subseteq ConflictsOf(packet.seen)
      /\ at \in DOMAIN log
  <2>1. i \in DOMAIN packet.seen /\ packet.seen \in Seq(Txs)
    BY <1>2 DEF ConflictsOf
  <2>2. Brought \subseteq DOMAIN log /\ DOMAIN log \subseteq Nat
    BY <1>0, <1>1, ChangesAreNumbers DEF DataInv
  <2>3. at \in Brought
    BY <1>2, <2>2, ConflictIsBrought
  <2> QED
    BY <1>2, <2>1, <2>2, <2>3
<1> HIDE DEF conflicts
<1>5. CASE /\ outbox' = Dropping({tx.n}) /\ localIds' = localIds \ {tx.n}
           /\ packet' = [[packet EXCEPT !.conflicts = packet.conflicts \ {i}]
                            EXCEPT !.dropped = Append(@, tx)]
  <2> DEFINE n == tx.n
             dropped == Append(packet.dropped, tx)
  <2>1. dropped \in Seq(Txs) /\ ToSet(dropped) = ToSet(packet.dropped) \cup {tx}
    BY <1>2, <1>4, AppendLists
  <2>2. Ids(dropped) = Ids(packet.dropped) \cup {n}
    BY <2>1 DEF Ids
  <2> HIDE DEF dropped
  <2>3. /\ packet' \in [pc : {"rebases", "stages"}, upto : Nat, seen : Seq(Txs),
                        conflicts : SUBSET Nat, dropped : Seq(Txs)]
        /\ packet'.pc = "rebases" /\ packet'.upto = packet.upto /\ packet'.seen = packet.seen
        /\ packet'.conflicts = conflicts /\ packet'.dropped = dropped
    <3> HIDE DEF tx
    <3>1. packet' = [[packet EXCEPT !.conflicts = conflicts] EXCEPT !.dropped = dropped]
      BY <1>2, <1>5 DEF conflicts, dropped
    <3> QED
      BY <1>1, <1>2, <1>4, <2>1, <3>1, Zenon
  <2>4. PacketInv'
    <3>1. packet'.conflicts \subseteq ConflictsOf(packet.seen)'
      BY <1>1, <1>4, <2>3, ConflictsKept
    <3> QED
      BY <1>1, <1>2, <2>3, <3>1 DEF PacketInv, Packet
  <2>5. StoredOnce'
    BY <2>3 DEF StoredOnce
  <2>6. DroppedNow' = DroppedNow \cup {n}
    BY <1>1, <2>2, <2>3 DEF DroppedNow
  <2> HIDE DEF n
  <2>7. /\ outbox' \in Seq(Txs) /\ ToSet(outbox') = {t \in ToSet(outbox) : t.n \notin {n}}
        /\ Ids(outbox') = Ids(outbox) \ {n}
    <3>1. outbox' = Dropping({n})
      BY <1>5 DEF n
    <3> QED
      BY <3>1, Frame, DroppingKeepsTheRest
  <2>8. \A t \in ToSet(outbox') : \E s \in ToSet(outbox) : Same(s, t) /\ s.state = t.state
    BY <2>7, Frame
  <2>9. \A k \in Ids(outbox) : k \in Ids(outbox') \/ k \in DroppedNow'
    BY <2>6, <2>7
  <2>10. localIds' \subseteq localIds /\ DroppedNow \subseteq DroppedNow'
    BY <1>5, <2>6
  <2> HIDE DEF tx
  <2> QED
    BY <1>1, <2>4, <2>5, <2>7, <2>8, <2>9, <2>10, PacketStepKeeps
<1>6. CASE /\ outbox' = IF Wins(tx) THEN Updated({Folded(t, op) : t \in Stored({tx.n})}) ELSE outbox
           /\ packet' = [packet EXCEPT !.conflicts = packet.conflicts \ {i}]
           /\ UNCHANGED localIds
  <2> DEFINE rows == {Folded(t, op) : t \in Stored({tx.n})}
  <2>1. /\ packet' \in [pc : {"rebases", "stages"}, upto : Nat, seen : Seq(Txs),
                        conflicts : SUBSET Nat, dropped : Seq(Txs)]
        /\ packet'.pc = "rebases" /\ packet'.upto = packet.upto /\ packet'.seen = packet.seen
        /\ packet'.conflicts = conflicts /\ packet'.dropped = packet.dropped
    <3>1. packet' = [packet EXCEPT !.conflicts = conflicts]
      BY <1>6 DEF conflicts
    <3> QED
      BY <1>1, <1>2, <1>4, <3>1, Zenon
  <2>2. PacketInv'
    <3>1. packet'.conflicts \subseteq ConflictsOf(packet.seen)'
      BY <1>1, <1>4, <2>1, ConflictsKept
    <3> QED
      BY <1>1, <1>2, <2>1, <3>1 DEF PacketInv, Packet
  <2>3. StoredOnce'
    BY <2>1 DEF StoredOnce
  <2>4. DroppedNow' = DroppedNow
    BY <1>1, <2>1 DEF DroppedNow
  <2>5. CASE ~Wins(tx)
    <3>1. outbox' = outbox
      BY <1>6, <2>5
    <3>2. outbox' \in Seq(Txs) /\ \A t \in ToSet(outbox') : \E s \in ToSet(outbox) : Same(s, t) /\ s.state = t.state
      BY <3>1, Frame
    <3> HIDE DEF tx
    <3> QED
      BY <1>1, <1>6, <2>2, <2>3, <2>4, <3>1, <3>2, PacketStepKeeps, Zenon
  <2>6. CASE Wins(tx)
    <3>1. \A f \in DOMAIN op.set : op.set[f] \in Nat
      BY <1>4, ChangesAreNumbers
    <3> HIDE DEF op
    <3>2. \A r \in rows : r \in Txs /\ \E s \in ToSet(outbox) : Same(s, r) /\ s.state = r.state
      <4> SUFFICES ASSUME NEW t \in Stored({tx.n})
                   PROVE  LET r == Folded(t, op)
                          IN r \in Txs /\ \E s \in ToSet(outbox) : Same(s, r) /\ s.state = r.state
        OBVIOUS
      <4>1. t \in ToSet(outbox)
        BY DEF Stored
      <4>2. Folded(t, op) \in Txs /\ Same(t, Folded(t, op)) /\ Folded(t, op).state = t.state
        BY <3>1, <4>1, FoldedRow
      <4> QED
        BY <4>1, <4>2
    <3>3. outbox' = Updated(rows)
      BY <1>6, <2>6
    <3> HIDE DEF rows, tx
    <3>4. /\ outbox' \in Seq(Txs) /\ Ids(outbox') = Ids(outbox)
          /\ \A t \in ToSet(outbox') : t \in rows \/ t \in ToSet(outbox)
      BY <3>2, <3>3, Frame, OutboxUpdated
    <3>5. \A t \in ToSet(outbox') : \E s \in ToSet(outbox) : Same(s, t) /\ s.state = t.state
      BY <3>2, <3>4, Frame
    <3> QED
      BY <1>1, <1>6, <2>2, <2>3, <2>4, <3>4, <3>5, PacketStepKeeps, Zenon
  <2> QED
    BY <2>5, <2>6
<1> QED
  BY <1>3, <1>5, <1>6

\* The updates that stay pending get what the server has by then.
LEMMA RebaseOriginalsKeeps ==
  ASSUME RowInv, RebaseOriginals
  PROVE  RowInv'
<1>0. DataInv /\ PacketInv
  BY DEF RowInv
<1> DEFINE ns == {t.n : t \in {u \in ToSet(packet.seen) : StaysPending(u)}}
           rows == {Rebased(tx) : tx \in Stored(ns)}
<1>1. /\ UNCHANGED <<scenario, log, store, cursor, view, localIds, history, writer, request, refusal, done>>
      /\ packet.pc = "rebases" /\ outbox' = Updated(rows)
      /\ packet' = [packet EXCEPT !.pc = "stages"]
  BY DEF RebaseOriginals
<1>2. /\ packet.upto \in Nat /\ cursor < packet.upto /\ packet.upto <= Len(log)
      /\ packet \in [pc : {"rebases", "stages"}, upto : Nat, seen : Seq(Txs),
                     conflicts : SUBSET Nat, dropped : Seq(Txs)]
      /\ packet.conflicts \subseteq ConflictsOf(packet.seen)
  BY <1>0, <1>1, PacketFields
<1> HIDE DEF ns
<1>3. \A r \in rows : r \in Txs /\ \E s \in ToSet(outbox) : Same(s, r) /\ s.state = r.state
  <2> SUFFICES ASSUME NEW t \in Stored(ns)
               PROVE  LET r == Rebased(t)
                      IN r \in Txs /\ \E s \in ToSet(outbox) : Same(s, r) /\ s.state = r.state
    OBVIOUS
  <2>1. t \in ToSet(outbox)
    BY DEF Stored
  <2>2. Rebased(t) \in Txs /\ Same(t, Rebased(t)) /\ Rebased(t).state = t.state
    BY <1>1, <2>1, RebasedRow
  <2> QED
    BY <2>1, <2>2
<1> HIDE DEF rows
<1>4. /\ outbox' \in Seq(Txs) /\ Ids(outbox') = Ids(outbox)
      /\ \A t \in ToSet(outbox') : t \in rows \/ t \in ToSet(outbox)
  BY <1>1, <1>3, Frame, OutboxUpdated
<1>5. \A t \in ToSet(outbox') : \E s \in ToSet(outbox) : Same(s, t) /\ s.state = t.state
  BY <1>3, <1>4, Frame
<1>6. /\ packet' \in [pc : {"rebases", "stages"}, upto : Nat, seen : Seq(Txs),
                      conflicts : SUBSET Nat, dropped : Seq(Txs)]
      /\ packet'.pc = "stages" /\ packet'.upto = packet.upto /\ packet'.seen = packet.seen
      /\ packet'.conflicts = packet.conflicts /\ packet'.dropped = packet.dropped
  BY <1>1, <1>2, Zenon
<1>7. PacketInv'
  <2>1. packet'.conflicts \subseteq ConflictsOf(packet.seen)'
    BY <1>1, <1>2, <1>6, ConflictsKept
  <2> QED
    BY <1>1, <1>2, <1>6, <2>1, Zenon DEF PacketInv, Packet
<1>8. StoredOnce'
  BY <1>6 DEF StoredOnce
<1>9. DroppedNow' = DroppedNow
  BY <1>1, <1>6 DEF DroppedNow
<1> QED
  BY <1>1, <1>4, <1>5, <1>7, <1>8, <1>9, PacketStepKeeps

\* What is staged for the identity map is a list of rows.
LEMMA StagedIsTyped ==
  ASSUME RowInv, packet.pc = "stages"
  PROVE  Staged \in Seq(Write)
<1> DEFINE moot == {i \in Brought :
                       log[i].op.act = "U" /\ ThroughLog(store, cursor + 1, i - 1) = Absent}
           all == [k \in 1 .. packet.upto - cursor |-> cursor + k]
           ids == Without(all, moot)
           entry(i) == [row |-> ThroughLog(store, cursor + 1, i), by |-> log[i].by]
<1>0. DataInv /\ PacketInv
  BY DEF RowInv
<1>1. /\ packet.upto \in Nat /\ cursor < packet.upto /\ packet.upto <= Len(log)
      /\ cursor \in Nat /\ log \in Seq(Commit) /\ store \in Rows
  BY <1>0, PacketFields DEF DataInv
<1>2. all \in Seq(Brought)
  <2>1. packet.upto - cursor \in Nat
    BY <1>1
  <2>2. \A k \in 1 .. packet.upto - cursor : cursor + k \in Brought
    BY <1>1 DEF Brought
  <2> QED
    BY <2>1, <2>2
<1> HIDE DEF all, moot
<1>3. ids \in Seq(Brought)
  BY <1>2, WithoutDropsTheSet
<1>4. ASSUME NEW i \in Brought
      PROVE  entry(i) \in Write
  <2>1. i \in Nat /\ i <= Len(log) /\ cursor + 1 \in Nat \ {0} /\ i \in 1 .. Len(log)
    BY <1>1 DEF Brought
  <2>2. After(log, store, cursor + 1, i) \in Rows
    BY <1>1, <2>1, AfterSteps
  <2>3. log[i].by \in Nat
    <3>1. log[i] \in Commit
      BY <1>1, <2>1
    <3> QED
      BY <3>1 DEF Commit
  <2> QED
    BY <2>2, <2>3 DEF Write, ThroughLog
<1>5. Staged = [k \in DOMAIN ids |-> entry(ids[k])]
  BY DEF Staged, all, moot
<1> HIDE DEF ids, entry
<1>6. Len(ids) \in Nat /\ DOMAIN ids = 1 .. Len(ids) /\ \A k \in DOMAIN ids : ids[k] \in Brought
  BY <1>3
<1>7. [k \in DOMAIN ids |-> entry(ids[k])] \in Seq(Write)
  BY <1>4, <1>6
<1> QED
  BY <1>5, <1>7

\* The packet's rows are stored: storing them again would change nothing, and

\* the rest of the log makes the same of the row.
LEMMA WriteBatchKeeps ==
  ASSUME RowInv, WriteBatch
  PROVE  RowInv'
<1>0. /\ DataInv /\ CallInv /\ PacketInv /\ RequestInv /\ MadeOnce /\ AwaitingIsKnown
      /\ StoreFollowsLog /\ HistoryInv
  BY DEF RowInv
<1> DEFINE u == packet.upto
           c == cursor + 1
           staged == Staged
<1>1. /\ UNCHANGED <<scenario, log, outbox, cursor, view, localIds, history, writer, request, refusal, done>>
      /\ packet.pc = "stages" /\ store' = After(log, store, c, u)
      /\ packet' = [pc |-> "confirms", upto |-> u, dropped |-> packet.dropped, ops |-> staged]
  BY DEF WriteBatch, ThroughLog
<1>2. /\ u \in Nat /\ cursor < u /\ u <= Len(log)
      /\ packet \in [pc : {"rebases", "stages"}, upto : Nat, seen : Seq(Txs),
                     conflicts : SUBSET Nat, dropped : Seq(Txs)]
  BY <1>0, <1>1, PacketFields
<1>3. staged \in Seq(Write)
  BY <1>1, StagedIsTyped
<1> HIDE DEF staged
<1>4. /\ log \in Seq(Commit) /\ store \in Rows /\ cursor \in Nat /\ Len(log) \in Nat
      /\ c \in Nat \ {0} /\ c <= u + 1 /\ u <= Len(log)
  BY <1>0, <1>2 DEF DataInv
<1> HIDE DEF c, u
<1>5. store' \in Rows /\ After(log, store', c, u) = store'
  BY <1>1, <1>2, <1>4, AfterSteps, AfterIsStable
<1>6. After(log, store', c, Len(log)) = After(log, store, c, Len(log))
  <2>1. After(log, store, c, Len(log)) = After(log, store', u + 1, Len(log))
    BY <1>1, <1>2, <1>4, AfterSplits
  <2>2. After(log, store', c, Len(log)) = After(log, After(log, store', c, u), u + 1, Len(log))
    BY <1>2, <1>4, <1>5, AfterSplits
  <2> QED
    BY <1>5, <2>1, <2>2
<1>7. StoreFollowsLog'
  BY <1>0, <1>1, <1>6 DEF StoreFollowsLog, ThroughLog, Loaded, c
<1>8. packet'.pc = "confirms" /\ packet'.upto = u /\ packet'.dropped = packet.dropped
  BY <1>1
<1>9. StoredOnce'
  BY <1>1, <1>5, <1>8 DEF StoredOnce, ThroughLog, c
<1>10. PacketInv'
  <2>1. packet' \in Packet
    BY <1>1, <1>2, <1>3 DEF Packet
  <2> QED
    BY <1>1, <1>2, <1>8, <2>1 DEF PacketInv
<1>11. DroppedNow' = DroppedNow
  BY <1>1, <1>8 DEF DroppedNow
<1>12. DataInv' /\ CallInv' /\ RequestInv'
  BY <1>0, <1>1, <1>5, Frame, CallKept, RequestKept DEF DataInv
<1>13. MadeOnce' /\ AwaitingIsKnown'
  BY <1>0, <1>1 DEF MadeOnce, AwaitingIsKnown, Requested, Idle, Known
<1>14. HistoryInv'
  <2>1. \A n : Reachable(n) => Reachable(n)'
    BY <1>1, <1>11, Frame DEF Reachable
  <2> HIDE DEF Reachable
  <2> QED
    BY <1>0, <1>1, <2>1, HistoryKept DEF Replays
<1> QED
  BY <1>7, <1>9, <1>10, <1>12, <1>13, <1>14 DEF RowInv

\* The identity-map batch: rows stay whole, and the history forgets what the

\* packet has dropped.
LEMMA ShowPacketKeeps ==
  ASSUME RowInv, ShowPacket
  PROVE  RowInv'
<1>0. /\ DataInv /\ CallInv /\ PacketInv /\ RequestInv /\ MadeOnce /\ AwaitingIsKnown
      /\ StoredOnce /\ StoreFollowsLog /\ HistoryInv
  BY DEF RowInv
<1> DEFINE lost == Ids(packet.dropped)
           back == Fold(RolledBack, view, packet.dropped)
           merged == Merged(back, packet.ops, packet.own \ lost)
<1>1. /\ UNCHANGED <<scenario, log, store, outbox, cursor, localIds, writer, request, refusal, done>>
      /\ packet.pc = "shows" /\ packet' = [pc |-> "commits", upto |-> packet.upto]
      /\ view' = WithPending(merged, packet.pending)
      /\ history' = Forgotten(history, lost)
  BY DEF ShowPacket
<1>2. /\ packet.upto \in Nat /\ cursor < packet.upto /\ packet.upto <= Len(log)
      /\ packet \in [pc : {"shows"}, upto : Nat, dropped : Seq(Txs), ops : Seq(Write),
                     own : SUBSET Nat, pending : Seq(Txs)]
  BY <1>0, <1>1, PacketFields
<1>3. /\ packet.dropped \in Seq(Txs) /\ packet.ops \in Seq(Write) /\ packet.pending \in Seq(Txs)
  BY <1>2
<1>4. lost \in SUBSET Nat
  <2>1. ToSet(packet.dropped) \subseteq Txs
    BY <1>3, ListsOf
  <2> QED
    BY <2>1 DEF Ids, Txs
<1> HIDE DEF lost
<1>5. view' \in Rows
  <2>1. back \in Rows
    BY <1>0, <1>3, RolledBackIsARow DEF DataInv
  <2> HIDE DEF back
  <2>2. merged \in Rows
    BY <1>3, <2>1, MergedIsARow
  <2> HIDE DEF merged
  <2> QED
    BY <1>1, <1>3, <2>2, WithPendingIsARow
<1> HIDE DEF back, merged
<1>6. /\ history' \in History
      /\ ToSet(history'.undo) = {e \in ToSet(history.undo) : e.tx \notin lost}
      /\ ToSet(history'.redo) = {e \in ToSet(history.redo) : e.tx \notin lost}
      /\ history'.popped = history.popped /\ history.missed \subseteq history'.missed
      /\ Replays => lost \cap {history.popped.entry.tx} \subseteq history'.missed
  <2>1. history \in History
    BY <1>0 DEF DataInv
  <2> QED
    BY <1>1, <1>4, <2>1, ForgottenFields
<1>7. DataInv'
  BY <1>0, <1>1, <1>5, <1>6 DEF DataInv
<1>8. packet'.pc = "commits" /\ packet'.upto = packet.upto
  BY <1>1
<1>9. PacketInv'
  <2>1. packet' \in Packet
    BY <1>1, <1>2 DEF Packet
  <2> QED
    BY <1>1, <1>2, <1>8, <2>1 DEF PacketInv
<1>10. StoredOnce'
  BY <1>0, <1>1, <1>8 DEF StoredOnce, ThroughLog
<1>11. HistoryInv'
  <2>1. DroppedNow = lost
    BY <1>1 DEF DroppedNow, lost
  <2>2. \A k : Reachable(k) /\ k \notin lost => Reachable(k)'
    BY <1>1, <1>6, <2>1, Frame DEF Reachable
  <2>3. Replays => Reachable(history.popped.entry.tx)'
    <3>1. ASSUME Replays, history.popped.entry.tx \in lost
          PROVE  history.popped.entry.tx \in history'.missed
      BY <1>6, <3>1
    <3>2. \A k : k \in history'.missed => Reachable(k)'
      BY DEF Reachable
    <3>3. Replays => Reachable(history.popped.entry.tx)
      BY <1>0 DEF HistoryInv
    <3>4. Replays => history'.popped.entry.tx = history.popped.entry.tx
      BY <1>6
    <3> HIDE DEF Reachable
    <3> QED
      BY <2>2, <3>1, <3>2, <3>3, <3>4
  <2>4. \A e \in ToSet(history'.undo) \cup ToSet(history'.redo) : Reachable(e.tx) /\ e.tx \notin lost
    BY <1>0, <1>6 DEF HistoryInv
  <2> HIDE DEF Reachable
  <2> QED
    BY <1>6, <2>2, <2>3, <2>4 DEF HistoryInv, Replays
<1>12. CallInv' /\ RequestInv' /\ StoreFollowsLog'
  BY <1>0, <1>1, <1>6, Frame, CallKept, RequestKept, StoreKept
<1>13. MadeOnce' /\ AwaitingIsKnown'
  BY <1>0, <1>1 DEF MadeOnce, AwaitingIsKnown, Requested, Idle, Known
<1> QED
  BY <1>7, <1>9, <1>10, <1>11, <1>12, <1>13 DEF RowInv

\* The cursor moves to what is stored: the rest of the log is left.
LEMMA CommitPacketKeeps ==
  ASSUME RowInv, CommitPacket
  PROVE  RowInv'
<1>0. /\ DataInv /\ CallInv /\ PacketInv /\ RequestInv /\ MadeOnce /\ AwaitingIsKnown
      /\ StoredOnce /\ StoreFollowsLog /\ HistoryInv
  BY DEF RowInv
<1> DEFINE u == packet.upto
           c == cursor + 1
<1>1. /\ UNCHANGED <<scenario, log, store, outbox, view, localIds, history, writer, request, refusal, done>>
      /\ packet.pc = "commits" /\ cursor' = u /\ packet' = Resting
  BY DEF CommitPacket
<1>2. u \in Nat /\ cursor < u /\ u <= Len(log)
  BY <1>0, <1>1, PacketFields
<1>3. After(log, store, c, u) = store
  BY <1>0, <1>1 DEF StoredOnce, ThroughLog
<1>4. /\ log \in Seq(Commit) /\ store \in Rows /\ Len(log) \in Nat
      /\ c \in Nat \ {0} /\ c <= u + 1 /\ u <= Len(log)
  BY <1>0, <1>2 DEF DataInv
<1> HIDE DEF c, u
<1>5. After(log, store, c, Len(log)) = After(log, store, u + 1, Len(log))
  BY <1>2, <1>3, <1>4, AfterSplits
<1>6. StoreFollowsLog'
  BY <1>0, <1>1, <1>5 DEF StoreFollowsLog, ThroughLog, Loaded, c
<1>7. PacketInv' /\ StoredOnce'
  BY <1>1 DEF PacketInv, Packet, NoTask, Resting, StoredOnce
<1>8. DataInv' /\ CallInv' /\ RequestInv'
  BY <1>0, <1>1, <1>2, Frame, CallKept, RequestKept DEF DataInv
<1>9. MadeOnce' /\ AwaitingIsKnown'
  BY <1>0, <1>1 DEF MadeOnce, AwaitingIsKnown, Requested, Idle, Known
<1>10. HistoryInv'
  <2>1. DroppedNow = {}
    BY <1>1 DEF DroppedNow
  <2>2. \A n : Reachable(n) => Reachable(n)'
    BY <1>1, <2>1, Frame DEF Reachable
  <2> HIDE DEF Reachable
  <2> QED
    BY <1>0, <1>1, <2>2, HistoryKept DEF Replays
<1> QED
  BY <1>6, <1>7, <1>8, <1>9, <1>10 DEF RowInv

\* The next process: what was sent is queued, and the history is gone.
LEMMA RestartKeeps ==
  ASSUME RowInv, Restart
  PROVE  RowInv'
<1>0. DataInv /\ CallInv /\ RequestInv /\ MadeOnce /\ AwaitingIsKnown /\ StoreFollowsLog
  BY DEF RowInv
<1> DEFINE complete == {tx.n : tx \in {t \in ToSet(outbox) :
                           t.state = "awaitingSync" /\ t.needed <= cursor}}
           kept == Dropping(complete)
           again(tx) == IF tx.state = "sent" THEN [tx EXCEPT !.state = "queued"] ELSE tx
<1>1. /\ UNCHANGED <<log, store, cursor>>
      /\ scenario.crashes > 0 /\ scenario' = [scenario EXCEPT !.crashes = @ - 1]
      /\ outbox' = [i \in DOMAIN kept |-> again(kept[i])]
      /\ view' = WithPending(store, Actives(kept))
      /\ done' = IF Idle(writer) /\ ~Replays THEN done ELSE Item
      /\ localIds' = {} /\ history' = NoHistory
      /\ writer' = Resting /\ packet' = Resting /\ request' = Resting /\ refusal' = Resting
  BY Zenon DEF Restart
<1>2. kept \in Seq(Txs) /\ ToSet(kept) = {tx \in ToSet(outbox) : tx.n \notin complete}
  <2> HIDE DEF complete
  <2> QED
    BY Frame, DroppingKeepsTheRest
<1> HIDE DEF kept
<1>3. ASSUME NEW tx \in Txs
      PROVE  /\ again(tx) \in Txs /\ Same(tx, again(tx))
             /\ again(tx).state = "awaitingSync" => tx.state = "awaitingSync"
  <2>1. "queued" \in States /\ 0 \in Nat
    BY DEF States
  <2>2. CASE tx.state = "sent"
    <3>1. [tx EXCEPT !.state = "queued"] \in Txs
      BY <2>1, TxChanged
    <3>2. tx \in [n : Nat, act : Acts, state : States, needed : Nat, set : Sets, original : Sets]
      BY DEF Txs
    <3> QED
      BY <2>2, <3>1, <3>2 DEF Same
  <2>3. CASE tx.state # "sent"
    BY <2>3 DEF Same
  <2> QED
    BY <2>2, <2>3
<1> HIDE DEF again
<1>4. Len(kept) \in Nat /\ DOMAIN kept = 1 .. Len(kept) /\ \A i \in DOMAIN kept : kept[i] \in Txs /\ kept[i] \in ToSet(kept)
  BY <1>2 DEF ToSet
<1>5. outbox' \in Seq(Txs) /\ ToSet(outbox') = {again(kept[i]) : i \in DOMAIN kept}
  <2>1. [i \in DOMAIN kept |-> again(kept[i])] \in Seq(Txs)
    BY <1>3, <1>4
  <2>2. ToSet([i \in DOMAIN kept |-> again(kept[i])]) = {again(kept[i]) : i \in DOMAIN kept}
    BY DEF ToSet
  <2> QED
    BY <1>1, <2>1, <2>2
<1>6. \A t \in ToSet(outbox') : \E s \in ToSet(outbox) :
        Same(s, t) /\ (t.state = "awaitingSync" => s.state = "awaitingSync")
  <2> SUFFICES ASSUME NEW i \in DOMAIN kept
               PROVE  \E s \in ToSet(outbox) :
                        /\ Same(s, again(kept[i]))
                        /\ again(kept[i]).state = "awaitingSync" => s.state = "awaitingSync"
    BY <1>5
  <2>1. kept[i] \in Txs /\ kept[i] \in ToSet(outbox)
    BY <1>2, <1>4
  <2> QED
    BY <1>3, <2>1
<1>7. view' \in Rows
  <2>1. Actives(kept) \in Seq(Txs)
    BY <1>2, PartsOfTheOutbox
  <2> QED
    BY <1>0, <1>1, <2>1, WithPendingIsARow DEF DataInv
<1>8. /\ Scenario(scenario') /\ scenario'.mine = scenario.mine /\ scenario'.seed = scenario.seed
      /\ scenario'.loaded = scenario.loaded
  BY <1>0, <1>1, ScenarioKept DEF DataInv
<1>9. done' \in Nat /\ done <= done' /\ done' <= Len(scenario.mine)
  <2>1. ~Idle(writer) => writer.pc = "enqueues"
    BY <1>0 DEF CallInv, Writer, NoTask, Idle
  <2> QED
    BY <1>0, <1>1, <2>1, Frame DEF DataInv, CallInv, Item
<1>10. NoHistory \in History
  <2>1. <<>> \in Seq(Entries)
    OBVIOUS
  <2>2. [from |-> "none"] \in Popped
    BY DEF Popped
  <2> QED
    BY <2>1, <2>2 DEF NoHistory, History
<1>11. DataInv'
  <2>1. localIds' \in SUBSET (1 .. Len(scenario'.mine))
    BY <1>1
  <2> QED
    BY <1>0, <1>1, <1>5, <1>7, <1>8, <1>9, <1>10, <2>1 DEF DataInv
<1>12. CallInv' /\ PacketInv' /\ RequestInv'
  <2>1. ~Replays'
    BY <1>1 DEF Replays, NoHistory
  <2> QED
    BY <1>1, <2>1 DEF CallInv, PacketInv, RequestInv, Writer, Packet, Request, Refusal, NoTask, Resting
<1>13. MadeOnce'
  <2>1. Requested' = {}
    BY <1>1 DEF Requested, Idle, Resting
  <2>2. \A t \in ToSet(outbox') \cup Requested' : \E s \in ToSet(outbox) \cup Requested : Same(s, t)
    BY <1>6, <2>1
  <2> QED
    BY <1>0, <1>9, <2>2, MadeOnceKept
<1>14. AwaitingIsKnown'
  <2>1. \A t \in ToSet(outbox') : t.state = "awaitingSync" =>
           \E s \in ToSet(outbox) : s.n = t.n /\ s.state = "awaitingSync"
    BY <1>6 DEF Same
  <2> QED
    BY <1>0, <1>1, <2>1, Frame, AwaitingKept
<1>15. StoredOnce' /\ StoreFollowsLog'
  BY <1>0, <1>1, <1>8, StoreKept DEF StoredOnce, Resting
<1>16. HistoryInv'
  <2>1. history'.undo = <<>> /\ history'.redo = <<>> /\ ~Replays'
    BY <1>1 DEF Replays, NoHistory
  <2>2. ToSet(<<>>) = {}
    BY DEF ToSet
  <2> QED
    BY <2>1, <2>2 DEF HistoryInv
<1> QED
  BY <1>11, <1>12, <1>13, <1>14, <1>15, <1>16 DEF RowInv

-----------------------------------------------------------------------------
(* The invariant holds. *)

LEMMA InitKeeps ==
  ASSUME Init
  PROVE  RowInv
<1>1. scenario \in Scenarios /\ Scenario(scenario)
  BY OptimisticRowAssumption DEF Init
<1>2. /\ log = <<>> /\ cursor = 0 /\ done = 0 /\ store = Loaded /\ view = Loaded
      /\ outbox = <<>> /\ localIds = {} /\ history = NoHistory
      /\ writer = Resting /\ packet = Resting /\ request = Resting /\ refusal = Resting
  BY DEF Init
<1>3. Loaded \in Rows
  BY <1>1, ScriptsAreTyped DEF Loaded, Rows
<1>4. NoHistory \in History
  <2>1. <<>> \in Seq(Entries)
    OBVIOUS
  <2>2. [from |-> "none"] \in Popped
    BY DEF Popped
  <2> QED
    BY <2>1, <2>2 DEF NoHistory, History
<1>5. log \in Seq(Commit) /\ outbox \in Seq(Txs) /\ Len(log) = 0
  BY <1>2
<1>6. DataInv
  <2>1. Len(scenario.mine) \in Nat
    BY <1>1, ScriptsAreTyped
  <2>2. localIds \in SUBSET (1 .. Len(scenario.mine)) /\ done <= Len(scenario.mine)
    BY <1>2, <2>1
  <2> QED
    BY <1>1, <1>2, <1>3, <1>4, <1>5, <2>2 DEF DataInv
<1>7. ~Replays /\ history.undo = <<>> /\ history.redo = <<>>
  BY <1>2 DEF Replays, NoHistory
<1>8. ToSet(<<>>) = {}
  BY DEF ToSet
<1>9. CallInv /\ PacketInv /\ RequestInv
  BY <1>2, <1>7 DEF CallInv, PacketInv, RequestInv, Writer, Packet, Request, Refusal, NoTask, Resting
<1>10. MadeOnce /\ AwaitingIsKnown
  <2>1. Requested = {} /\ ToSet(outbox) = {}
    BY <1>2, <1>8 DEF Requested, Idle, Resting
  <2> QED
    BY <2>1 DEF MadeOnce, AwaitingIsKnown
<1>11. StoredOnce
  BY <1>2 DEF StoredOnce, Resting
<1>12. StoreFollowsLog
  BY <1>2, <1>5 DEF StoreFollowsLog
<1>13. HistoryInv
  BY <1>7, <1>8 DEF HistoryInv
<1> QED
  BY <1>6, <1>9, <1>10, <1>11, <1>12, <1>13 DEF RowInv

\* A step that changes nothing.
LEMMA StutterKeeps ==
  ASSUME RowInv, UNCHANGED vars
  PROVE  RowInv'
<1>0. /\ DataInv /\ CallInv /\ PacketInv /\ RequestInv /\ MadeOnce /\ AwaitingIsKnown
      /\ StoredOnce /\ StoreFollowsLog /\ HistoryInv
  BY DEF RowInv
<1>1. UNCHANGED <<scenario, log, store, outbox, cursor, view, localIds, history, writer, packet,
                  request, refusal, done>>
  BY DEF vars, client
<1>2. DataInv' /\ CallInv' /\ PacketInv' /\ RequestInv'
  BY <1>0, <1>1, Frame, CallKept, PacketKept, RequestKept DEF DataInv
<1>3. MadeOnce' /\ AwaitingIsKnown' /\ StoredOnce' /\ StoreFollowsLog'
  BY <1>0, <1>1, StoreKept DEF MadeOnce, AwaitingIsKnown, Requested, Idle, Known
<1>4. HistoryInv'
  <2>1. \A n : Reachable(n) => Reachable(n)'
    BY <1>1, Frame DEF Reachable, DroppedNow
  <2> HIDE DEF Reachable
  <2> QED
    BY <1>0, <1>1, <2>1, HistoryKept DEF Replays
<1> QED
  BY <1>2, <1>3, <1>4 DEF RowInv

LEMMA NextKeeps ==
  ASSUME RowInv, [Next]_vars
  PROVE  RowInv'
<1>1. CASE Application
  BY <1>1, PopHistoryKeeps, MutationMakesNothingKeeps, BeginMutationKeeps DEF Application
<1>2. CASE Enqueues
  BY <1>2, EndMutationKeeps, MutationFailsKeeps DEF Enqueues
<1>3. CASE Sends
  BY <1>3, SendKeeps, ServerTakesKeeps, ReplyArrivesKeeps DEF Sends
<1>4. CASE Settles
  BY <1>4, AcknowledgeKeeps, AdoptPersistedOriginalKeeps, MarkFailedKeeps, HandleRefusalKeeps DEF Settles
<1>5. CASE Applies
  BY <1>5, RebaseReadsKeeps, ResolveConflictKeeps, RebaseOriginalsKeeps, WriteBatchKeeps,
     FinishOutboxProcessingKeeps, ReadPendingKeeps, ShowPacketKeeps, CommitPacketKeeps DEF Applies
<1>6. CASE TheyCommit \/ CallFails \/ PacketArrives \/ Restart
  BY <1>6, TheyCommitKeeps, CallFailsKeeps, PacketArrivesKeeps, RestartKeeps
<1>7. CASE UNCHANGED vars
  BY <1>7, StutterKeeps
<1> QED
  BY <1>1, <1>2, <1>3, <1>4, <1>5, <1>6, <1>7 DEF Next

\* Whatever the application, the other clients and the server do, and wherever
\* the client stops: the invariant of a row and its writes.
THEOREM RowInvariant == Spec => []RowInv
<1>1. Init => RowInv
  BY InitKeeps
<1>2. RowInv /\ [Next]_vars => RowInv'
  BY NextKeeps
<1> QED
  BY <1>1, <1>2, PTL DEF Spec

\* Rows are whole in storage and on the screen, through every rebase, rollback
\* and merge, and the cursor stays at an action of the server's.
THEOREM RowsAreWhole == Spec => []TypeOK
<1>1. ASSUME RowInv
      PROVE  TypeOK
  <2>1. DataInv
    BY <1>1 DEF RowInv
  <2>2. /\ log \in Seq(Commit) /\ cursor \in Nat /\ cursor <= Len(log) /\ outbox \in Seq(Txs)
        /\ store \in Rows /\ view \in Rows /\ localIds \subseteq 1 .. Len(scenario.mine)
    BY <2>1 DEF DataInv
  <2>3. ASSUME NEW tx \in Txs
        PROVE  /\ tx.state \in States
               /\ tx.act = "D" => tx.original \in Rows \ {Absent}
               /\ tx.act = "U" => DOMAIN tx.original = DOMAIN tx.set
    <3>1. Sound(tx) /\ tx.state \in States
      BY DEF Txs
    <3>2. tx.act = "D" => tx.original \in Rows \ {Absent}
      BY <3>1, RowsAreNotAbsent DEF Sound
    <3> QED
      BY <3>1, <3>2 DEF Sound
  <2>4. \A i \in DOMAIN outbox : outbox[i] \in Txs
    BY <2>2
  <2> QED
    BY <2>2, <2>3, <2>4 DEF TypeOK, States
<1> QED
  BY <1>1, RowInvariant, PTL

\* A client that stops anywhere, a packet half stored or its cursor not moved
\* included, has in storage a row from which the rest of the log leads to what
\* the whole log makes of the row it began with.
THEOREM StorageFollowsTheLog == Spec => []StoreFollowsLog
<1>1. RowInv => StoreFollowsLog
  BY DEF RowInv
<1> QED
  BY <1>1, RowInvariant, PTL

\* A write that was refused or dropped can be neither undone nor redone, unless
\* an undo or redo of it was under way then.
THEOREM HistoryForgets == Spec => []ForgottenWithTheWrite
<1>1. ASSUME RowInv
      PROVE  ForgottenWithTheWrite
  <2>1. HistoryInv /\ history \in History
    BY <1>1 DEF RowInv, DataInv
  <2>2. SUFFICES ASSUME Idle(packet),
                        NEW n \in {e.tx : e \in ToSet(history.undo \o history.redo)} \ {0}
                 PROVE  Known(n) \/ n \in Ids(outbox) \/ n \in history.missed
    BY DEF ForgottenWithTheWrite, LockIsFree
  <2>3. history.undo \in Seq(Entries) /\ history.redo \in Seq(Entries)
    BY <2>1, HistoryFields
  <2>4. ToSet(history.undo \o history.redo) = ToSet(history.undo) \cup ToSet(history.redo)
    BY <2>3, ListsOf
  <2>5. Reachable(n) /\ n # 0
    BY <2>1, <2>2, <2>4 DEF HistoryInv
  <2>6. DroppedNow = {}
    BY <2>2 DEF DroppedNow, Idle
  <2> QED
    BY <2>5, <2>6 DEF Reachable
<1> QED
  BY <1>1, RowInvariant, PTL

=============================================================================
