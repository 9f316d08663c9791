--------------------------- MODULE OptimisticRow ---------------------------
(***************************************************************************)
(* One row as one client sees it: what the server holds, what is on disk,  *)
(* and what the identity map shows while writes of this client are on      *)
(* their way.  A write is shown at once, put in the outbox and sent; delta *)
(* packets bring what the server did, rebase the writes that are pending,  *)
(* and are merged beneath them; a refused or dropped write is rolled back; *)
(* undo and redo are writes too.                                           *)
(*                                                                         *)
(* Mutations and packets run under the state lock; replies do not, and so  *)
(* come between any two steps of either.  Outbox models batches, claims    *)
(* and retries; here the outbox is the list of writes not settled yet, and *)
(* a request carries all of them that are queued.                          *)
(*                                                                         *)
(* An archive or unarchive is an update of the field archivedAt, in this   *)
(* code and here; a value is what the field holds on the wire.             *)
(***************************************************************************)
EXTENDS Lists, SequencesExt

CONSTANTS
    Fields,     \* the row's fields
    Scenarios   \* what the application and the server do: see Scenario below

Absent == <<>>
Rows == [Fields -> Nat] \cup {Absent}
IsOperation(op) ==
    \/ op \in [act : {"I"}, set : [Fields -> Nat]]
    \/ \E fs \in SUBSET Fields : op \in [act : {"U"}, set : [fs -> Nat]]
    \/ op \in [act : {"D"}, set : {Absent}]

\* seed: the row at the start, which the client has stored if it is loaded (a
\* row of a partially loaded model may not be).  mine: what the application
\* does, in order; theirs: what other clients commit, in order.  refused: the writes of this
\* client the server's policy refuses.  The counters bound the environment.
Scenario(s) ==
    /\ s \in [seed : Rows, loaded : BOOLEAN, mine : Seq(ToSet(s.mine)), theirs : Seq(ToSet(s.theirs)),
              refused : SUBSET Nat, strategy : {"server-wins", "client-wins"},
              losses : Nat, crashes : Nat]
    /\ \A op \in ToSet(s.mine) : op.act \in {"undo", "redo"} \/ IsOperation(op)
    /\ \A op \in ToSet(s.theirs) : IsOperation(op)

ASSUME OptimisticRowAssumption == Fields # {} /\ \A s \in Scenarios : Scenario(s)

VARIABLES
    scenario,   \* the one this behaviour is about
    log,        \* what the server committed: the operation and who made it
    store,      \* the row in storage
    outbox,     \* the transactions in storage, in the order of their making
    cursor,     \* the last sync id applied, persisted
    view,       \* the row in the identity map
    localIds,   \* OutboxManager's localClientTxIds
    history,    \* HistoryManager's stacks, and the group an undo or redo popped
    writer,     \* the mutation under way, holding the state lock
    packet,     \* the packet being applied, holding the state lock
    request,    \* the mutate call in flight and then its reply
    refusal,    \* the refused transaction the reply's handler is at
    done,       \* how much of the script the application has performed
    crossed     \* whether a packet was being applied while a refusal was handled

client == <<store, outbox, cursor, view, localIds, history>>
vars == <<scenario, log, client, writer, packet, request, refusal, done, crossed>>

Foreign == 0

-----------------------------------------------------------------------------
(* Rows and operations. *)

\* Fields of `changes` over those of `row`.
Over(changes, row) ==
    [f \in DOMAIN changes \cup DOMAIN row |->
        IF f \in DOMAIN changes THEN changes[f] ELSE row[f]]

\* Mutant: the fields of an update of a row that is not there are stored.
AppliedToStubs(row, op) ==
    CASE op.act = "I" -> op.set
      [] op.act = "D" -> Absent
      [] op.act = "U" -> Over(op.set, row)

\* What an action does to a row that is stored, on the server or here: an
\* update of a row that is not there is nothing.
Applied(row, op) ==
    CASE op.act = "I" -> op.set
      [] op.act = "D" -> Absent
      [] op.act = "U" -> IF row = Absent THEN Absent ELSE Over(op.set, row)

\* What the actions from one place of a log to another make of a row.
After(entries, row, from, upto) ==
    LET at[n \in 0 .. upto] == IF n < from THEN row ELSE Applied(at[n - 1], entries[n].op)
    IN at[upto]
ThroughLog(row, from, upto) == After(log, row, from, upto)
ServerAt(n) == ThroughLog(scenario.seed, 1, n)
ServerRow == ServerAt(Len(log))

\* Whether the mutate service can perform the operation.
Possible(op) == (op.act = "I") <=> (ServerRow = Absent)

Ids(txs) == {tx.n : tx \in ToSet(txs)}
Tx(n) == CHOOSE tx \in ToSet(outbox) : tx.n = n
IsActive(tx) == tx.state \in {"queued", "sent", "awaitingSync"}
Actives(txs) == Without(txs, {tx \in ToSet(txs) : ~IsActive(tx)})
Active == Actives(outbox)
InFlight(tx) == tx.state \in {"sent", "awaitingSync"}
Op(tx) == [act |-> tx.act, set |-> tx.set]

\* A partial update of the transactions' rows in storage: those that are not
\* there any more are left alone.
Stored(ns) == {tx \in ToSet(outbox) : tx.n \in ns}
Updated(rows) ==
    [i \in DOMAIN outbox |->
        IF \E tx \in rows : tx.n = outbox[i].n
        THEN CHOOSE tx \in rows : tx.n = outbox[i].n
        ELSE outbox[i]]
Marked(ns, state) == Updated({[tx EXCEPT !.state = state] : tx \in Stored(ns)})
Dropping(ns) == Without(outbox, Stored(ns))

\* A pending transaction shown again on top of server data.
Reapplied(row, tx) ==
    CASE tx.act = "I" -> IF row = Absent THEN tx.set ELSE row
      [] tx.act = "U" -> IF row = Absent THEN Absent ELSE Over(tx.set, row)
      [] tx.act = "D" -> Absent
WithPending(row, txs) == Fold(Reapplied, row, txs)

\* A transaction inverted on the identity map.
RolledBack(row, tx) ==
    CASE tx.act = "I" -> Absent
      [] tx.act = "U" -> IF row = Absent THEN Absent ELSE Over(tx.original, row)
      [] tx.act = "D" -> tx.original

-----------------------------------------------------------------------------
(* History: stacks of entries, each with the operation that undoes a write *)
(* and the one that makes it again, and the transaction it came from.  The *)
(* entry an undo or redo has popped is on neither stack: `missed` are the  *)
(* transactions that were to be forgotten while it was theirs.             *)

Replays == history.popped.from # "none"
NoHistory == [undo |-> <<>>, redo |-> <<>>, popped |-> [from |-> "none"], missed |-> {}]

Entry(tx) ==
    [tx |-> tx.n,
     redo |-> [act |-> tx.act, set |-> tx.set, original |-> tx.original],
     undo |-> CASE tx.act = "I" -> [act |-> "D", set |-> Absent, original |-> tx.set]
                [] tx.act = "D" -> [act |-> "I", set |-> tx.original, original |-> Absent]
                [] tx.act = "U" -> [act |-> "U", set |-> tx.original, original |-> tx.set]]

Recorded(tx) ==
    [history EXCEPT !.undo = Append(@, Entry(tx)), !.redo = <<>>]

\* Mutant: the redo stack keeps its entries.
ForgottenAsDone(h, ns) ==
    [h EXCEPT !.undo = Without(@, {e \in ToSet(@) : e.tx \in ns})]

Forgotten(h, ns) ==
    LET kept(stack) == Without(stack, {e \in ToSet(stack) : e.tx \in ns})
    IN [h EXCEPT !.undo = kept(@), !.redo = kept(@),
                 !.missed = IF Replays THEN @ \cup (ns \cap {h.popped.entry.tx}) ELSE @]

\* An undo or redo ends: the entry moves to the other stack with the new
\* transaction, or back to where it was when the write failed.
Moved(n) ==
    LET p == history.popped
        entry == [p.entry EXCEPT !.tx = n]
    IN IF p.from = "undo"
       THEN [history EXCEPT !.redo = Append(@, entry), !.popped = NoHistory.popped]
       ELSE [history EXCEPT !.undo = Append(@, entry), !.popped = NoHistory.popped]
PutBack ==
    LET p == history.popped
    IN IF p.from = "undo"
       THEN [history EXCEPT !.undo = Append(@, p.entry), !.popped = NoHistory.popped]
       ELSE [history EXCEPT !.redo = Append(@, p.entry), !.popped = NoHistory.popped]

-----------------------------------------------------------------------------
(* Mutations.  The application awaits each call before it makes the next.  *)

Resting == [pc |-> "idle"]
Idle(task) == task.pc = "idle"
LockIsFree == Idle(writer) /\ Idle(packet)

Item == done + 1
Calls(acts) == ~Replays /\ Item \in DOMAIN scenario.mine /\ scenario.mine[Item].act \in acts
Mutates == LockIsFree /\ (Replays \/ Calls({"I", "U", "D"}))

\* What is to be performed, and the row its original is taken from: an undo
\* or redo brings its own.
Call ==
    LET e == history.popped.entry
    IN IF ~Replays
       THEN [act |-> scenario.mine[Item].act, set |-> scenario.mine[Item].set, from |-> view]
       ELSE LET o == IF history.popped.from = "undo" THEN e.undo ELSE e.redo
            IN [act |-> o.act, set |-> o.set, from |-> o.original]

Part(row, fs) == [f \in fs |-> row[f]]
Effective == {f \in DOMAIN Call.set : view[f] # Call.set[f]}

\* The transaction of the call: an update carries the fields that change and
\* what they were, a delete the whole row, an insert nothing.
NewTx ==
    [n |-> Item, act |-> Call.act, state |-> "queued", needed |-> 0,
     set |-> IF Call.act = "U" THEN Part(Call.set, Effective) ELSE Call.set,
     original |-> CASE Call.act = "U" -> Part(Call.from, Effective)
                    [] Call.act = "D" -> Call.from
                    [] Call.act = "I" -> Absent]

\* The call ends, with a transaction n or (0) without one.
Returns(n) ==
    /\ done' = Item
    /\ history' = IF Replays THEN Moved(n) ELSE IF n = 0 THEN history ELSE Recorded(writer.tx)
Throws ==
    /\ done' = Item
    /\ history' = IF Replays THEN PutBack ELSE history

PopHistory ==
    /\ Idle(writer) /\ Calls({"undo", "redo"})
    /\ LET from == scenario.mine[Item].act
       IN IF history[from] = <<>>
          THEN done' = Item /\ UNCHANGED history
          ELSE /\ history' = [history EXCEPT ![from] = Front(@),
                                  !.popped = [from |-> from, entry |-> Last(history[from])]]
               /\ UNCHANGED done
    /\ UNCHANGED <<scenario, log, store, outbox, cursor, view, localIds,
                   writer, packet, request, refusal, crossed>>

\* An update or delete of a row the identity map does not hold.
MutationThrows ==
    /\ Mutates /\ Call.act # "I" /\ view = Absent
    /\ Throws
    /\ UNCHANGED <<scenario, log, store, outbox, cursor, view, localIds,
                   writer, packet, request, refusal, crossed>>

MutationIsEmpty ==
    /\ Mutates /\ Call.act = "U" /\ view # Absent /\ Effective = {}
    /\ Returns(0)
    /\ UNCHANGED <<scenario, log, store, outbox, cursor, view, localIds,
                   writer, packet, request, refusal, crossed>>

\* The write is shown, and then its transaction is being put into storage.
\* The application creates a row only under an id it does not show.
BeginMutation ==
    /\ Mutates
    /\ (Call.act = "I") <=> (view = Absent)
    /\ Call.act = "U" => Effective # {}
    /\ writer' = [pc |-> "enqueues", tx |-> NewTx]
    /\ view' = CASE Call.act = "I" -> Call.set
                 [] Call.act = "U" -> Over(NewTx.set, view)
                 [] Call.act = "D" -> Absent
    /\ UNCHANGED <<scenario, log, store, outbox, cursor, localIds, history,
                   packet, request, refusal, done, crossed>>

EndMutation ==
    /\ writer.pc = "enqueues"
    /\ outbox' = Append(outbox, writer.tx)
    /\ localIds' = localIds \cup {writer.tx.n}
    /\ Returns(writer.tx.n)
    /\ writer' = Resting
    /\ UNCHANGED <<scenario, log, store, cursor, view, packet, request, refusal, crossed>>

\* Storage refuses the transaction: what was shown is taken back.
MutationFails ==
    /\ writer.pc = "enqueues" /\ scenario.losses > 0
    /\ scenario' = [scenario EXCEPT !.losses = @ - 1]
    /\ view' = RolledBack(view, writer.tx)
    /\ Throws
    /\ writer' = Resting
    /\ UNCHANGED <<log, store, outbox, cursor, localIds, packet, request, refusal, crossed>>

-----------------------------------------------------------------------------
(* The server, and the mutate call.                                        *)

Theirs == Cardinality({i \in DOMAIN log : log[i].by = Foreign})

\* Another client's write is committed.
TheyCommit ==
    /\ Theirs + 1 \in DOMAIN scenario.theirs
    /\ Possible(scenario.theirs[Theirs + 1])
    /\ log' = Append(log, [op |-> scenario.theirs[Theirs + 1], by |-> Foreign])
    /\ UNCHANGED <<scenario, client, writer, packet, request, refusal, done, crossed>>

Queued == Without(outbox, {tx \in ToSet(outbox) : tx.state # "queued"})

Send ==
    /\ Idle(request) /\ Queued # <<>>
    /\ request' = [pc |-> "call", txs |-> Queued, results |-> <<>>]
    /\ outbox' = Marked(Ids(Queued), "sent")
    /\ UNCHANGED <<scenario, log, store, cursor, view, localIds, history,
                   writer, packet, refusal, done, crossed>>

Answer(n) == CHOOSE i \in DOMAIN log : log[i].by = n
Known(n) == \E i \in DOMAIN log : log[i].by = n

\* The mutate service takes the next transaction of the call: one it knows is
\* answered with its id, one it cannot or may not perform is refused.
ServerTakes ==
    /\ request.pc = "call" /\ Len(request.results) < Len(request.txs)
    /\ LET tx == request.txs[Len(request.results) + 1]
           performs == ~Known(tx.n) /\ tx.n \notin scenario.refused /\ Possible(Op(tx))
           id == IF Known(tx.n) THEN Answer(tx.n) ELSE IF performs THEN Len(log) + 1 ELSE 0
       IN /\ log' = IF performs THEN Append(log, [op |-> Op(tx), by |-> tx.n]) ELSE log
          /\ request' = [request EXCEPT !.results = Append(@, id)]
    /\ UNCHANGED <<scenario, client, writer, packet, refusal, done, crossed>>

\* The call fails, before or after the server has taken some of it.
CallFails ==
    /\ request.pc = "call" /\ scenario.losses > 0
    /\ scenario' = [scenario EXCEPT !.losses = @ - 1]
    /\ outbox' = Marked(Ids(request.txs), "queued")
    /\ request' = Resting
    /\ UNCHANGED <<log, store, cursor, view, localIds, history,
                   writer, packet, refusal, done, crossed>>

\* The reply arrives; its handler takes one result after another.
ReplyArrives ==
    /\ request.pc = "call" /\ Len(request.results) = Len(request.txs)
    /\ request' = [request EXCEPT !.pc = "reply"]
    /\ UNCHANGED <<scenario, log, client, writer, packet, refusal, done, crossed>>

NextResult ==
    IF Len(request.txs) = 1 THEN Resting
    ELSE [request EXCEPT !.txs = Tail(@), !.results = Tail(@)]

Acknowledge ==
    /\ request.pc = "reply" /\ Idle(refusal) /\ Head(request.results) # 0
    /\ outbox' = Updated({[tx EXCEPT !.state = "awaitingSync", !.needed = Head(request.results)] :
                             tx \in Stored({Head(request.txs).n})})
    /\ request' = NextResult
    /\ UNCHANGED <<scenario, log, store, cursor, view, localIds, history,
                   writer, packet, refusal, done, crossed>>

\* Mutant: the original the batch has held since it was sent.
KeepsOwnOriginal ==
    /\ request.pc = "reply" /\ Idle(refusal) /\ Head(request.results) = 0
    /\ refusal' = [pc |-> "adopted", tx |-> Head(request.txs)]
    /\ crossed' = (crossed \/ ~Idle(packet) \/ Head(request.txs).n \notin Ids(outbox))
    /\ UNCHANGED <<scenario, log, client, writer, packet, request, done>>

\* The original a refused transaction is rolled back to is the one in storage,
\* which packets have rebased.
AdoptPersistedOriginal ==
    /\ request.pc = "reply" /\ Idle(refusal) /\ Head(request.results) = 0
    /\ LET tx == Head(request.txs)
           stored == tx.n \in Ids(outbox)
           persisted == IF stored THEN Tx(tx.n).original ELSE tx.original
       IN /\ refusal' = [pc |-> "adopted", tx |-> [tx EXCEPT !.original = persisted]]
          /\ crossed' = (crossed \/ ~Idle(packet) \/ ~stored)
    /\ UNCHANGED <<scenario, log, client, writer, packet, request, done>>

MarkFailed ==
    /\ refusal.pc = "adopted"
    /\ outbox' = Marked({refusal.tx.n}, "failed")
    /\ refusal' = [refusal EXCEPT !.pc = "marked"]
    /\ UNCHANGED <<scenario, log, store, cursor, view, localIds, history,
                   writer, packet, request, done, crossed>>

\* The write is rolled back, forgotten by the history, and leaves the outbox.
HandleRefusal ==
    /\ refusal.pc = "marked"
    /\ view' = RolledBack(view, refusal.tx)
    /\ history' = Forgotten(history, {refusal.tx.n})
    /\ outbox' = Dropping({refusal.tx.n})
    /\ localIds' = localIds \ {refusal.tx.n}
    /\ refusal' = Resting
    /\ request' = NextResult
    /\ UNCHANGED <<scenario, log, store, cursor, writer, packet, done, crossed>>

-----------------------------------------------------------------------------
(* A delta packet.                                                         *)

\* The actions it brings, by their ids.
Brought == cursor + 1 .. packet.upto
Tracks(tx) == DOMAIN tx.set

\* The server's values for the fields an update tracks, folded into its original.
Folded(tx, op) ==
    [tx EXCEPT !.original =
        [f \in DOMAIN @ |-> IF f \in DOMAIN op.set THEN op.set[f] ELSE @[f]]]

\* An insert or update of the server's may conflict with ours: the same fields,
\* the same id, or a delete on one side.
Conflicts(tx, op) ==
    \/ tx.act = "I" /\ op.act = "I"
    \/ tx.act = "D" /\ op.act = "U"
    \/ tx.act = "U" /\ op.act = "D"
    \/ tx.act = "U" /\ op.act = "U" /\ Tracks(tx) \cap DOMAIN op.set # {}

Echoed(seen) == {log[i].by : i \in Brought} \cap Ids(seen)

\* Of the transactions read, those in flight and those confirmed here are no
\* candidates; the others conflict with the first such action, if any.
FirstConflict(seen, tx) ==
    LET candidates == {i \in Brought : log[i].by \notin Ids(seen) /\ Conflicts(tx, log[i].op)}
    IN IF tx.n \in Echoed(seen) \/ InFlight(tx) \/ candidates = {} THEN 0
       ELSE CHOOSE i \in candidates : \A j \in candidates : i <= j

\* The conflicts, by their places in the list read, and the order in which the
\* rebase finds them.
ConflictsOf(seen) == {i \in DOMAIN seen : FirstConflict(seen, seen[i]) # 0}
FoundFirst(i, conflicts) ==
    LET at(j) == FirstConflict(packet.seen, packet.seen[j])
    IN \A j \in conflicts : at(i) < at(j) \/ (at(i) = at(j) /\ i <= j)

Wins(tx) == scenario.strategy = "client-wins" /\ tx.act = "U"

PacketArrives ==
    /\ LockIsFree
    /\ \E upto \in cursor + 1 .. Len(log) : packet' = [pc |-> "stored", upto |-> upto]
    /\ crossed' = (crossed \/ ~Idle(refusal))
    /\ UNCHANGED <<scenario, log, client, writer, request, refusal, done>>

RebaseReads ==
    /\ packet.pc = "stored"
    /\ packet' = [pc |-> "rebases", upto |-> packet.upto, seen |-> Active,
                  conflicts |-> ConflictsOf(Active), dropped |-> <<>>]
    /\ UNCHANGED <<scenario, log, client, writer, request, refusal, done, crossed>>

\* The next conflict: a local write that loses leaves the outbox, to be rolled
\* back with the packet's merge; one that wins gets the server's value as what
\* a rollback restores.
ResolveConflict ==
    /\ packet.pc = "rebases"
    /\ \E i \in packet.conflicts :
       LET tx == packet.seen[i]
           op == log[FirstConflict(packet.seen, tx)].op
           rest == [packet EXCEPT !.conflicts = @ \ {i}]
       IN /\ FoundFirst(i, packet.conflicts)
          /\ \/ /\ scenario.strategy = "server-wins"
                /\ outbox' = Dropping({tx.n})
                /\ localIds' = localIds \ {tx.n}
                /\ packet' = [rest EXCEPT !.dropped = Append(@, tx)]
             \/ /\ scenario.strategy = "client-wins"
                /\ outbox' = IF Wins(tx) THEN Updated({Folded(t, op) : t \in Stored({tx.n})}) ELSE outbox
                /\ packet' = rest
                /\ UNCHANGED localIds
    /\ UNCHANGED <<scenario, log, store, cursor, view, history,
                   writer, request, refusal, done, crossed>>

\* Mutant: the original stays what it was.
NotRebased(tx) == tx

\* Updates that stay pending are rolled back to what the server has by then:
\* the newest value of each field.
Rebased(tx) ==
    LET writes(f) == {i \in Brought : f \in DOMAIN log[i].op.set}
        newest(f) == CHOOSE i \in writes(f) : \A j \in writes(f) : j <= i
    IN [tx EXCEPT !.original =
           [f \in DOMAIN @ |-> IF writes(f) = {} THEN @[f] ELSE log[newest(f)].op.set[f]]]
StaysPending(tx) ==
    /\ tx.act = "U" /\ tx.n \notin Echoed(packet.seen)
    /\ FirstConflict(packet.seen, tx) # 0 => Wins(tx)

RebaseOriginals ==
    /\ packet.pc = "rebases" /\ packet.conflicts = {}
    /\ outbox' = Updated({Rebased(tx) : tx \in
            Stored({t.n : t \in {u \in ToSet(packet.seen) : StaysPending(u)}})})
    /\ packet' = [packet EXCEPT !.pc = "stages"]
    /\ UNCHANGED <<scenario, log, store, cursor, view, localIds, history,
                   writer, request, refusal, done, crossed>>

\* One entry per action that does something to the row: what the row is then.
Staged ==
    LET moot == {i \in Brought :
                    log[i].op.act = "U" /\ ThroughLog(store, cursor + 1, i - 1) = Absent}
        ids == Without([k \in 1 .. packet.upto - cursor |-> cursor + k], moot)
    IN [k \in DOMAIN ids |->
           [row |-> ThroughLog(store, cursor + 1, ids[k]), by |-> log[ids[k]].by]]

WriteBatch ==
    /\ packet.pc = "stages"
    /\ store' = ThroughLog(store, cursor + 1, packet.upto)
    /\ packet' = [pc |-> "confirms", upto |-> packet.upto, dropped |-> packet.dropped,
                  ops |-> Staged]
    /\ UNCHANGED <<scenario, log, outbox, cursor, view, localIds, history,
                   writer, request, refusal, done, crossed>>

\* The echoes to suppress are taken first; then the packet's own transactions
\* are confirmed, and those that waited for an id it reaches are complete.
FinishOutboxProcessing ==
    /\ packet.pc = "confirms"
    /\ LET echoed == {log[i].by : i \in Brought}
           settled == {tx.n : tx \in {t \in ToSet(outbox) :
                          \/ t.n \in echoed
                          \/ t.state = "awaitingSync" /\ t.needed <= packet.upto}}
       IN /\ outbox' = Dropping(settled)
          /\ localIds' = localIds \ settled
          /\ packet' = [pc |-> "rereads", upto |-> packet.upto, dropped |-> packet.dropped,
                        ops |-> packet.ops, own |-> echoed \cap localIds]
    /\ UNCHANGED <<scenario, log, store, cursor, view, history,
                   writer, request, refusal, done, crossed>>

ReadPending ==
    /\ packet.pc = "rereads"
    /\ packet' = [pc |-> "shows", upto |-> packet.upto, dropped |-> packet.dropped,
                  ops |-> packet.ops, own |-> packet.own, pending |-> Active]
    /\ UNCHANGED <<scenario, log, client, writer, request, refusal, done, crossed>>

\* Mutant: every own echo is skipped.
MergedUnlessOwn(row, ops, own) ==
    LET merge(r, op) == IF op.row # Absent /\ op.by \in own /\ r # Absent THEN r ELSE op.row
    IN Fold(merge, row, ops)

\* The server's rows over what is shown.  An own echo is skipped unless the
\* packet has written the row already: what it brings is shown.
Merged(row, ops, own) ==
    LET merge(acc, op) ==
            LET suppressed == op.row # Absent /\ op.by \in own /\ ~acc.written /\ acc.row # Absent
            IN IF suppressed THEN acc ELSE [row |-> op.row, written |-> TRUE]
    IN Fold(merge, [row |-> row, written |-> FALSE], ops).row

\* The identity-map batch: rollbacks, server rows, pending writes.
ShowPacket ==
    /\ packet.pc = "shows"
    /\ LET lost == Ids(packet.dropped)
           back == Fold(RolledBack, view, packet.dropped)
       IN /\ view' = WithPending(Merged(back, packet.ops, packet.own \ lost), packet.pending)
          /\ history' = Forgotten(history, lost)
    /\ packet' = [pc |-> "commits", upto |-> packet.upto]
    /\ UNCHANGED <<scenario, log, store, outbox, cursor, localIds,
                   writer, request, refusal, done, crossed>>

\* Mutant: the cursor moves to the newest action there is.
CommitNewest ==
    /\ packet.pc = "commits"
    /\ cursor' = Len(log)
    /\ packet' = Resting
    /\ UNCHANGED <<scenario, log, store, outbox, view, localIds, history,
                   writer, request, refusal, done, crossed>>

CommitPacket ==
    /\ packet.pc = "commits"
    /\ cursor' = packet.upto
    /\ packet' = Resting
    /\ UNCHANGED <<scenario, log, store, outbox, view, localIds, history,
                   writer, request, refusal, done, crossed>>

-----------------------------------------------------------------------------

\* The process goes away at any point; the next one hydrates the row from
\* storage, completes what the cursor has passed, shows what is pending again,
\* and its first drain queues what was sent.
Restart ==
    /\ scenario.crashes > 0
    /\ scenario' = [scenario EXCEPT !.crashes = @ - 1]
    /\ LET complete == {tx.n : tx \in {t \in ToSet(outbox) :
                           t.state = "awaitingSync" /\ t.needed <= cursor}}
           kept == Dropping(complete)
       IN /\ outbox' = [i \in DOMAIN kept |->
                           IF kept[i].state = "sent" THEN [kept[i] EXCEPT !.state = "queued"]
                           ELSE kept[i]]
          /\ view' = WithPending(store, Actives(kept))
    /\ done' = IF Idle(writer) /\ ~Replays THEN done ELSE Item
    /\ localIds' = {} /\ history' = NoHistory
    /\ writer' = Resting /\ packet' = Resting /\ request' = Resting /\ refusal' = Resting
    /\ UNCHANGED <<log, store, cursor, crossed>>

Loaded == IF scenario.loaded THEN scenario.seed ELSE Absent

Init ==
    /\ scenario \in Scenarios
    /\ log = <<>> /\ cursor = 0 /\ done = 0
    /\ store = Loaded /\ view = Loaded
    /\ outbox = <<>> /\ localIds = {} /\ history = NoHistory
    /\ writer = Resting /\ packet = Resting /\ request = Resting /\ refusal = Resting
    /\ crossed = FALSE

Application == PopHistory \/ MutationThrows \/ MutationIsEmpty \/ BeginMutation
Enqueues == EndMutation \/ MutationFails
Sends == Send \/ ServerTakes \/ ReplyArrives
Settles == Acknowledge \/ AdoptPersistedOriginal \/ MarkFailed \/ HandleRefusal
Applies ==
    \/ RebaseReads \/ ResolveConflict \/ RebaseOriginals \/ WriteBatch
    \/ FinishOutboxProcessing \/ ReadPending \/ ShowPacket \/ CommitPacket

Next ==
    \/ Application \/ Enqueues \/ Sends \/ Settles \/ Applies
    \/ TheyCommit \/ CallFails \/ PacketArrives \/ Restart

Spec == Init /\ [][Next]_vars

\* Storage, the server and the transport answer in the end.
FairSpec ==
    /\ Spec
    /\ WF_vars(EndMutation) /\ WF_vars(Sends) /\ WF_vars(Settles)
    /\ WF_vars(Applies) /\ WF_vars(PacketArrives)

-----------------------------------------------------------------------------
(* Properties.  A refusal that meets a packet half-way, or comes for a write *)
(* that a packet has dropped, may be rolled back to an original that is out  *)
(* of date (see the README, Observations): `crossed` sets those runs apart.  *)

\* Rows are whole: nothing stores or shows some fields of a row without the
\* rest, and the cursor is at an action the server has committed.
TypeOK ==
    /\ store \in Rows /\ view \in Rows
    /\ cursor \in 0 .. Len(log)
    /\ \A i \in DOMAIN outbox :
           /\ outbox[i].state \in {"queued", "sent", "awaitingSync", "failed"}
           /\ outbox[i].act = "D" => outbox[i].original \in Rows \ {Absent}
           /\ outbox[i].act = "U" => DOMAIN outbox[i].original = DOMAIN outbox[i].set
    /\ localIds \subseteq 1 .. Len(scenario.mine)

\* What is shown is the server's row, as far as the client has come, with the
\* writes that are pending on top, whenever no packet, mutation or refusal is
\* half-way.
ShowsServerAndPending ==
    LockIsFree /\ Idle(refusal) /\ ~crossed => view = WithPending(store, Active)

\* What is in storage becomes what the log makes of the row the client started
\* with when the rest of the log is applied to it, wherever the client stops.
StoreFollowsLog ==
    ThroughLog(store, cursor + 1, Len(log)) = ThroughLog(Loaded, 1, Len(log))

\* What a rollback of the first pending update of a field would restore is a
\* value the server gave it no earlier than the cursor.
OriginalIsServers ==
    LockIsFree /\ ~crossed =>
        \A i \in DOMAIN Active : \A f \in DOMAIN Active[i].original :
            Active[i].act = "U" /\ (\A j \in 1 .. i - 1 : f \notin DOMAIN Active[j].set) =>
                \E n \in cursor .. Len(log) :
                    ServerAt(n) = Absent \/ ServerAt(n)[f] = Active[i].original[f]

\* A write that was refused or dropped can be neither undone nor redone, unless
\* an undo or redo of it was under way then: the entry that one had popped is
\* put back when it fails.
ForgottenWithTheWrite ==
    LockIsFree /\ Idle(refusal) =>
        \A tx \in {e.tx : e \in ToSet(history.undo \o history.redo)} \ {0} :
            Known(tx) \/ tx \in Ids(outbox) \/ tx \in history.missed

\* Every write is settled in the end, and what is shown is the server's row.
EndsAtServer ==
    <>[](crossed \/ (outbox = <<>> /\ view = ThroughLog(Loaded, 1, Len(log))))

=============================================================================
