-------------------------- MODULE OutboxInvariant --------------------------
(***************************************************************************)
(* The inductive invariant of Outbox: what has to hold between any two     *)
(* steps for its senders to be what ClaimsAreExact and OneSender say, for  *)
(* its rows to sort in write order, and for no write to be lost.           *)
(*                                                                         *)
(* The idea is to tell the running job, which may take what failed before  *)
(* (backlog) and what it read from disk (replay), from everything behind   *)
(* it: the running job never touches what is behind it.                    *)
(*                                                                         *)
(* The second invariant, OrderInv, is about the order of what is sent: in  *)
(* every list, and from one list to the next, writes stand in the order    *)
(* they were made, and nothing unsettled is overtaken.                     *)
(*                                                                         *)
(* The third, DropInv, is about conflicts: what they drop is queued, what  *)
(* is queued was never sent, and its sender leaves it out.                 *)
(***************************************************************************)
EXTENDS Outbox

\* The transactions of the jobs on a queue.
JobTxs(q) == UNION {ToSet(q[i].txs) : i \in DOMAIN q}

\* The jobs that have not begun.
NotBegun == IF pc = "idle" THEN queue ELSE Tail(queue)

\* What is behind the running job: batched or dispatched, and not begun.
Behind == ToSet(pending) \cup JobTxs(NotBegun)

\* No two jobs of a queue share a transaction.
JobsAreApart(q) ==
  \A i, j \in DOMAIN q : i < j => ToSet(q[i].txs) \cap ToSet(q[j].txs) = {}

\* Where the running job works off `todo`.
Loops == {"resetting", "marking", "results", "removing", "failing",
          "requeueing", "invalid", "evicting", "restoring"}

\* The lists a job works off are not empty where it takes their head, and a
\* job runs only while it is at the head of the queue.
JobInv ==
  /\ pc \in Loops => todo # <<>>
  /\ pc = "awaiting" => batch # <<>>
  /\ pc # "idle" => queue # <<>>
  /\ pc \in {"idle", "reading", "resetting"} => held = {}
  /\ pc = "idle" => replay = <<>>
  /\ pc # "idle" => ToSet(Head(queue).txs) \subseteq held
  /\ pc \in {"reading", "resetting"} \/ replay # <<>>
       => Head(queue).txs = <<>>
  /\ \A i \in DOMAIN queue : queue[i].kind = "replay" => queue[i].txs = <<>>
  /\ <<>> \notin late

\* Only transactions that were made are anywhere, and the outbox numbers its
\* rows in write order, above which the next one is numbered.
IndexInv ==
  /\ Outstanding \subseteq 1 .. made
  /\ OutboxKeepsWriteOrder
  /\ seeded => \A t \in Outstanding : batchIndex[t] < nextIndex

\* What the running job has, or may take before it is over.
AtFront == held \cup ToSet(backlog) \cup ToSet(replay)

\* A transaction with a claim is behind the running job or held by it; one in
\* the backlog or in the rest of a replay is not behind it.
SenderInv ==
  /\ claimed = Behind \cup held
  /\ AtFront \cap Behind = {}
  /\ AtFront \cup Behind \subseteq 1 .. made
  /\ ToSet(batch) \cup ToSet(missed) \subseteq held
  /\ discarded \subseteq claimed \ ToSet(pending)
  /\ ToSet(pending) \cap JobTxs(queue) = {}
  /\ JobsAreApart(queue)

\* What was applied, or the application was told is dropped or refused.
Settled == ToSet(log) \cup dropped \cup reported

\* The reply the server prepares says "ok" only of what it applied.
VerdictsAreTrue == \A t \in Tx : verdict[t] = "ok" => t \in ToSet(log)

\* No cursor is ahead of the server.
CursorsAreInTheLog == cursor <= Len(log) /\ pktUpTo <= Len(log)

\* A packet removes the rows of settled transactions only.
PacketSettles ==
  pktPc \in {"rebase", "confirm", "complete"}
    => pktTx \in Settled /\ (pktPc = "rebase" \/ pktTodo \subseteq Settled)

\* A refused row is removed after the application was told.
RefusalIsReported == pc \in {"removing", "evicting"} => Head(todo) \in reported

\* No write is lost (handleMutateResult, handleConflict, confirmFromActions and
\* completeUpToSyncId are where a row leaves the outbox).
SettledInv ==
  /\ NothingIsLost
  /\ VerdictsAreTrue
  /\ CursorsAreInTheLog
  /\ PacketSettles
  /\ RefusalIsReported

\* The server knows only of transactions that were made.
KnownAreMade == ToSet(request) \cup ToSet(log) \cup (UNION {ToSet(r) : r \in late}) \subseteq 1 .. made

\* What the persisted cursor has passed has no row any more, nor has what a
\* packet confirms, but for what it is about to remove.
PassedIsGone ==
  /\ \A id \in 1 .. cursor : rows[log[id]] = "none"
  /\ pktPc = "confirm" =>
       \A id \in 1 .. pktUpTo : rows[log[id]] = "none" \/ log[id] \in {pktTx} \cup pktTodo
  /\ pktPc \in {"confirmed", "completeRead", "complete", "commit"} =>
       \A id \in 1 .. pktUpTo : rows[log[id]] = "none"

\* An acknowledged transaction waits for its own sync id.
AwaitsItsId ==
  \A t \in Tx : rows[t] = "awaitingSync" => needed[t] \in DOMAIN log /\ log[needed[t]] = t

\* A packet drops what lost a conflict, and confirms and completes what was applied.
PacketKnows ==
  /\ pktPc = "rebase" => pktTx \in dropped
  /\ pktPc \in {"confirm", "complete"} => {pktTx} \cup pktTodo \subseteq ToSet(log)

\* What is acknowledged or in memory agrees with what the cursor has passed.
PassedInv == KnownAreMade /\ PassedIsGone /\ AwaitsItsId /\ PacketKnows /\ EchoIdsAreOutstanding

\* No list has a transaction twice, and the running job has nothing of what its
\* replay has left; while it works the backlog is empty, as it carries it.
ListsInv ==
  /\ \A list \in {pending, backlog, replay, batch, missed} : IsInjective(list)
  /\ \A i \in DOMAIN queue : IsInjective(queue[i].txs)
  /\ pc \notin {"idle", "reading", "ended"} => backlog = <<>>
  /\ (held \cup ToSet(backlog)) \cap ToSet(replay) = {}

\* What a loop of the running job works off, and the server a request.
TodoInv ==
  /\ pc = "resetting" => ToSet(todo) \subseteq ToSet(replay)
  /\ pc \in {"marking", "failing", "invalid", "evicting", "restoring", "results", "removing"}
       => ToSet(todo) \subseteq ToSet(batch)
  /\ pc = "awaiting" => ToSet(request) \subseteq ToSet(batch)
  /\ pc = "requeueing" => ToSet(todo) \subseteq ToSet(missed)
  /\ pc \in {"results", "removing"} => IsInjective(todo) /\ ToSet(todo) \cap ToSet(missed) = {}

\* What the running send has and no reply has reported on.
Unreported ==
  CASE pc \in {"marking", "awaiting", "failing", "invalid", "restoring"} -> ToSet(batch)
    [] pc = "evicting" -> ToSet(batch) \ {Head(todo)}
    [] pc = "results" -> ToSet(todo) \cup ToSet(missed)
    [] pc = "removing" -> ToSet(Tail(todo)) \cup ToSet(missed)
    [] pc = "requeueing" -> ToSet(missed)
    [] OTHER -> {}

\* A transaction to be sent has a row a replay would send, unless a packet removed it.
Owed(t) ==
  \/ rows[t] \in {"queued", "sent"}
  \/ rows[t] = "none" /\ t \in dropped \cup ToSet(log)

\* Everything any sender has to send.
ToSend == Behind \cup ToSet(backlog) \cup ToSet(replay) \cup Unreported

\* All of it is owed.
AllOwed == \A t \in ToSend : Owed(t)

\* What went to the backlog, or is on its way there, was requeued.
RequeuedFirst ==
  /\ \A t \in ToSet(backlog) : rows[t] # "sent"
  /\ pc = "failing" => \A t \in ToSet(batch) \ ToSet(todo) : rows[t] # "sent"
  /\ pc = "requeueing" => \A t \in ToSet(missed) \ ToSet(todo) : rows[t] # "sent"

\* What a sender has, the disk still owes.
OwedInv == AllOwed /\ RequeuedFirst

\* The inductive invariant of the outbox: every step of outbox-manager.ts and
\* of a packet preserves it, and the safety properties follow from it.
Inv ==
  /\ TypeOK /\ JobInv /\ IndexInv /\ SenderInv /\ SettledInv
  /\ PassedInv /\ ListsInv /\ TodoInv /\ OwedInv

-----------------------------------------------------------------------------
(* The order in which writes are delivered *)

\* Where writes are delivered in order: no packet drops a write under way, the
\* server refuses nothing one at a time, and no drain is cut short between two
\* slices of its replay.
OrderAssumption ==
  /\ MaxConflicts = 0
  /\ "reject" \notin Faults
  /\ NumTx <= MaxBatchSize \/ MaxFailures = 0

\* A transaction that is neither applied nor withdrawn.
Unsettled(t) == t \in 1 .. made /\ t \notin Settled

\* What is behind the running job was made after everything else.
BehindIsLast == \A u \in Behind : \A t \in (1 .. made) \ Behind : t < u

\* Jobs q and, behind them, a list p stand in the order their transactions
\* were made.
LineAscends(p, q) ==
  /\ Ascending(p)
  /\ \A i \in DOMAIN q : Ascending(q[i].txs)
  /\ \A i, j \in DOMAIN q : i < j =>
       \A t \in ToSet(q[i].txs) : \A u \in ToSet(q[j].txs) : t < u
  /\ \A t \in JobTxs(q) : \A u \in ToSet(p) : t < u

\* The jobs that have not begun stand in write order, pendingBatch last.
JobsAscend == LineAscends(pending, NotBegun)

\* What the server has, or is being sent: in its log, or in a request.
Known == ToSet(log) \cup ToSet(request) \cup UNION {ToSet(r) : r \in late}

\* What is behind the running job was never sent.
BehindIsNew == Behind \cap Known = {}

\* The lists of the running job are in write order, and what its replay has left
\* comes after what it and the backlog have; a replay goes on only after success.
FrontAscends ==
  /\ Ascending(backlog) /\ Ascending(batch) /\ Ascending(replay) /\ Ascending(missed)
  /\ \A t \in held \cup ToSet(backlog) : \A u \in ToSet(replay) : t < u
  /\ failed => pc = "ended" /\ replay = <<>>
  /\ pc = "failing" => replay = <<>>
  /\ NumTx <= MaxBatchSize /\ pc # "resetting" => replay = <<>>

\* Until the first drain begins after a restart nothing else is sent.
Starting ==
  drain \in {"rehydrate", "start"} =>
    /\ queue = <<>> /\ pending = <<>> /\ pc = "idle"
    /\ drain = "rehydrate" => pktPc # "idle"

\* The outbox is about to be read.
Fresh ==
  \/ drain \in {"rehydrate", "start"}
  \/ pc \in {"idle", "reading"} /\ queue # <<>> /\ Head(queue).kind = "replay"

\* Where the running job has its batch still to send, or to leave in the backlog.
Sending == {"marking", "awaiting", "failing", "invalid", "evicting", "restoring"}

\* What the running job is still to send or to leave in the backlog.
ToCome ==
  ToSet(replay) \cup (IF pc \in {"idle", "ended"} THEN ToSet(backlog) ELSE {})
                \cup (IF pc \in Sending THEN ToSet(batch) ELSE {})

\* Whatever is unsettled is with the running job or behind it, but when the
\* outbox is about to be read.
Covered == Fresh \/ \A t \in 1 .. made : Unsettled(t) => t \in Behind \cup ToCome

\* Nothing unsettled is overtaken by what is in a request.
Ready(r) ==
  /\ Ascending(r)
  /\ \A t \in ToSet(r) : \A u \in 1 .. t - 1 : Unsettled(t) /\ Unsettled(u) => u \in ToSet(r)

\* The server has what it needs to answer, in order.
RequestsReady ==
  /\ Ready(request) /\ \A r \in late : Ready(r)
  /\ pc = "awaiting" => ToSet(batch) \subseteq ToSet(request) \cup ToSet(log)
  /\ pc \in {"results", "requeueing"} => ToSet(batch) \subseteq ToSet(log)

\* Nothing is dropped, and only a malformed transaction is refused.
OnlyMalformedIsRefused ==
  /\ dropped = {} /\ discarded \subseteq Settled /\ pktPc # "rebase"
  /\ reported \subseteq Malformed /\ ToSet(log) \cap Malformed = {}
  /\ \A t \in Tx : verdict[t] # "refused"
  /\ pc # "removing"
  /\ pc \in {"invalid", "evicting"} => Len(todo) = 1 /\ Head(todo) \in Malformed

\* What has to hold between any two steps, beside Inv, for the outbox to be an
\* ordered delivery: retryBacklog goes ahead of newer writes, a replay is read in
\* write order and taken up again from the outbox, and the send queue is FIFO.
OrderInv ==
  /\ OnlyMalformedIsRefused /\ BehindIsNew /\ BehindIsLast /\ JobsAscend
  /\ FrontAscends /\ Starting /\ Covered /\ RequestsReady

-----------------------------------------------------------------------------
(* What a conflict may drop *)

\* Where a conflict drops only what was never sent: a packet conflicts with one
\* transaction at most, and nothing is sent again - no call fails, no reply is
\* incomplete, and no drain reads the outbox.
DropAssumption ==
  /\ MaxConflicts <= 1 /\ MaxFailures = 0 /\ MaxRestarts = 0
  /\ Faults \cap {"reconnect", "omit"} = {}

\* Every job is a batch dispatched from pendingBatch, and brings nothing else.
SentOnce ==
  /\ drain = "idle" /\ \A i \in DOMAIN queue : queue[i].kind = "send"
  /\ pc \notin {"reading", "resetting", "failing", "requeueing"}
  /\ replay = <<>> /\ backlog = <<>> /\ missed = <<>> /\ late = {}

\* What the running job has not sent, or not to a server that took any of it.
Unsent == Behind \cup (IF pc \in {"marking", "invalid", "evicting", "restoring"} THEN ToSet(batch) ELSE {})

\* A batch the server refuses it refuses whole.
RequestIsUntaken ==
  /\ pc # "awaiting" => request = <<>>
  /\ IsInjective(request) /\ ToSet(request) \cap ToSet(log) = {}
  /\ pc = "awaiting" /\ ToSet(request) \cap Malformed # {} => ToSet(batch) \cap ToSet(log) = {}

\* What the server has, or is being sent, is not queued any more, nor is what
\* the running job has marked, unless it was discarded.
KnownIsMarked ==
  /\ \A t \in Known : rows[t] # "queued"
  /\ pc = "marking" => \A t \in ToSet(batch) \ (ToSet(todo) \cup discarded) : rows[t] # "queued"

\* What was dropped was not sent, and whoever has it yet leaves it out.
DroppedIsLeftOut ==
  /\ dropped \subseteq 1 .. made /\ dropped \cap Known = {}
  /\ dropped \cap claimed \subseteq discarded
  /\ pktPc = "rebase" => pktTodo = {}

\* What has to hold between any two steps, beside Inv, for a conflict to drop
\* only what is never sent (discardedClaims, isInFlight).
DropInv ==
  /\ SentOnce /\ Unsent \cap Known = {} /\ RequestIsUntaken /\ KnownIsMarked /\ DroppedIsLeftOut

=============================================================================
