------------------------------- MODULE Outbox -------------------------------
(***************************************************************************)
(* The client's outbox: OutboxManager (client/src/outbox-manager.ts) with  *)
(* the two things that run beside it.                                      *)
(*                                                                         *)
(*   - the delta pipeline, which under the client's state lock drops       *)
(*     queued transactions that lost a rebase conflict, confirms the ones  *)
(*     the server echoed and completes the ones it acknowledged;           *)
(*   - the server, reached through a transport that loses requests and     *)
(*     replies, delivers requests late, and may apply part of a batch.     *)
(*                                                                         *)
(* Mutations and delta packets exclude one another (the state lock);       *)
(* sends, replays and the batch timer take no lock and interleave with     *)
(* them at every `await`.  A step of this module is the code between two   *)
(* awaits, started by the completion of the storage operation or network   *)
(* call it awaited: a storage operation takes effect in the step that runs *)
(* its continuation.  The storage adapters issue their operations on one   *)
(* database in call order and complete them in that order; `io` keeps it.  *)
(*                                                                         *)
(* Transactions are numbered in the order the application makes them.      *)
(***************************************************************************)
EXTENDS Naturals, FiniteSets, Sequences, SequencesExt, Lists

CONSTANTS
  NumTx,        \* how many transactions the application makes
  MaxBatchSize, \* OutboxManagerOptions.maxBatchSize
  MaxConflicts, \* most pending transactions one packet conflicts with
  MaxFailures,  \* bound: mutate calls the transport fails
  MaxRestarts,  \* bound: times the client process goes away and comes back
  Malformed,    \* transactions for which the server refuses a whole batch
  Faults        \* which of the events below the environment has

ASSUME OutboxAssumption ==
  /\ NumTx \in Nat
  /\ MaxBatchSize \in Nat \ {0}
  /\ MaxConflicts \in Nat
  /\ MaxFailures \in Nat
  /\ MaxRestarts \in Nat
  /\ Malformed \subseteq 1 .. NumTx
  /\ Faults \subseteq {"late",     \* a failed request reaches the server later
                       "reject",   \* the server refuses a transaction
                       "omit",     \* a reply leaves a transaction out
                       "reconnect"}\* the connection comes back, or syncNow

Tx == 1 .. NumTx

RowState == {"none", "queued", "sent", "awaitingSync", "failed"}

VARIABLES
  \* --- IndexedDB, survives a restart ---
  rows,        \* state of each transaction's outbox row, "none" without one
  batchIndex,  \* batchIndex of each row
  needed,      \* syncIdNeededForCompletion of each row
  cursor,      \* the persisted sync cursor
  io,          \* who waits for an outbox operation, in issue order
  \* --- OutboxManager's fields ---
  pending,     \* pendingBatch
  timer,       \* cancelBatchTimer is set
  queue,       \* jobs on sendQueue, the running one first
  backlog,     \* retryBacklog
  claimed,     \* claimedTxIds
  discarded,   \* discardedClaims
  localIds,    \* localClientTxIds
  nextIndex,   \* nextBatchIndex
  seeded,      \* batchIndexSeeded is set
  drain,       \* how far processPendingTransactions, or the start, has got
  \* --- locals of the running job ---
  pc,          \* the await the job is at
  held,        \* transactions it claimed and will release
  batch,       \* the transactions of the send in progress
  todo,        \* what the loop at pc has left
  replay,      \* what replayPersisted has left to send
  missed,      \* transactions the reply does not report on
  failed,      \* the send ended with an error
  \* --- the network and the server ---
  request,     \* what the server has left of the awaited request
  verdict,     \* its answers so far
  late,        \* requests the client gave up on, still on their way
  log,         \* transactions the server applied, in sync id order
  \* --- locals of the delta packet under the state lock ---
  pktPc, pktTx, pktTodo, pktUpTo,
  \* --- history ---
  made,        \* transactions made so far
  dropped,     \* transactions dropped by a rebase conflict
  reported,    \* transactions rolled back because the server refused them
  failures, restarts

storageVars == <<rows, batchIndex, needed, cursor>>
listVars    == <<pending, timer, queue, backlog>>
claimVars   == <<claimed, discarded, localIds>>
indexVars   == <<nextIndex, seeded>>
jobVars     == <<pc, held, batch, todo, replay, missed, failed>>
serverVars  == <<request, verdict, late, log>>
pktVars     == <<pktPc, pktTx, pktTodo, pktUpTo>>
historyVars == <<made, dropped, reported, failures, restarts>>

vars == <<storageVars, io, listVars, claimVars, indexVars, drain, jobVars,
          serverVars, pktVars, historyVars>>

\* The awaits of a job and of a packet that are on an outbox operation.
JobOps == {"reading", "resetting", "marking", "results", "removing", "failing",
           "requeueing", "invalid", "evicting", "restoring"}
PacketOps == {"rebaseRead", "rebase", "confirmRead", "confirm", "completeRead",
              "complete"}

Job == [kind : {"send", "flush", "replay"}, txs : Seq(Tx)]

StorageTypeOK ==
  /\ rows \in [Tx -> RowState]
  /\ batchIndex \in [Tx -> Nat]
  /\ needed \in [Tx -> Nat]
  /\ cursor \in Nat

ListTypeOK ==
  /\ pending \in Seq(Tx)
  /\ timer \in BOOLEAN
  /\ queue \in Seq(Job)
  /\ backlog \in Seq(Tx)

ClaimTypeOK ==
  /\ claimed \subseteq Tx
  /\ discarded \subseteq Tx
  /\ localIds \subseteq Tx

ControlTypeOK ==
  /\ io \in Seq({"job", "packet"})
  /\ nextIndex \in Nat
  /\ seeded \in BOOLEAN
  /\ drain \in {"rehydrate", "start", "idle", "flush", "replay"}
  /\ pc \in JobOps \cup {"idle", "awaiting", "ended"}
  /\ pktPc \in PacketOps \cup {"idle", "applied", "confirmed", "commit"}

JobTypeOK ==
  /\ held \subseteq Tx
  /\ batch \in Seq(Tx)
  /\ todo \in Seq(Tx)
  /\ replay \in Seq(Tx)
  /\ missed \in Seq(Tx)
  /\ failed \in BOOLEAN

ServerTypeOK ==
  /\ request \in Seq(Tx)
  /\ verdict \in [Tx -> {"none", "ok", "refused"}]
  /\ late \subseteq Seq(Tx)
  /\ log \in Seq(Tx)

PacketTypeOK ==
  /\ pktTx \in Tx \cup {0}
  /\ pktTodo \subseteq Tx
  /\ pktUpTo \in Nat

HistoryTypeOK ==
  /\ made \in 0 .. NumTx
  /\ dropped \subseteq Tx
  /\ reported \subseteq Tx
  /\ failures \in Nat
  /\ restarts \in Nat

\* Every variable has the type of the field, row or local it stands for
\* (outbox-manager.ts, and the Transaction and Batch types it works on).
TypeOK ==
  /\ StorageTypeOK /\ ListTypeOK /\ ClaimTypeOK /\ ControlTypeOK
  /\ JobTypeOK /\ ServerTypeOK /\ PacketTypeOK /\ HistoryTypeOK

-----------------------------------------------------------------------------
(* Helpers *)

\* Transactions that have an outbox row.
Outstanding == {t \in Tx : rows[t] # "none"}

\* storage.updateOutboxTransaction: a row that is gone stays gone.
Touch(t, state) ==
  IF rows[t] = "none" THEN rows ELSE [rows EXCEPT ![t] = state]

\* What puts a transaction back for another attempt.
RequeueMarksFailed(t) == Touch(t, "failed") \* MUTANT: gives up
Requeued(t) == Touch(t, "queued")

\* seedBatchIndex: the sequence stays above every persisted index.
SeedSkipped == nextIndex \* MUTANT: a restart numbers from 0 again
SeededIndex ==
  LET above == {nextIndex} \cup {batchIndex[t] + 1 : t \in Outstanding}
  IN  CHOOSE n \in above : \A m \in above : m <= n

\* The id the server gave transaction t.
SyncIdOf(t) == CHOOSE id \in DOMAIN log : log[id] = t

\* What a replay may touch: a claimed transaction belongs to a send behind it.
ClaimsIgnored == Outstanding \* MUTANT: resends what a sender has
Unclaimed == Outstanding \ claimed

\* The rows of S a replay sends, once it has reset the ones left "sent".
ReplaysQueuedOnly(S) == \* MUTANT: skips what it resets
  {t \in S : rows[t] = "queued"}
Replayable(S) == {t \in S : rows[t] \in {"queued", "sent"}}

\* The rows of S in replay order (compareTransactions).
InOutboxOrder(S) == SortedBy(S, batchIndex)

\* The operation a job's (a packet's) step leaves it waiting for.
JobIssues == IF pc' \in JobOps THEN <<"job">> ELSE <<>>
PacketIssues == IF pktPc' \in PacketOps THEN <<"packet">> ELSE <<>>

\* A step that no outbox operation had to complete for ...
JobProceeds == io' = io \o JobIssues
PacketProceeds == io' = io \o PacketIssues

\* ... and one run by the completion of the operation at the head.
JobContinues ==
  io # <<>> /\ Head(io) = "job" /\ io' = Tail(io) \o JobIssues
PacketContinues ==
  io # <<>> /\ Head(io) = "packet" /\ io' = Tail(io) \o PacketIssues

\* The synchronous part of discardTransaction, before it awaits the removal.
DiscardForgetsClaim(t) == \* MUTANT: as if it were always in pendingBatch
  /\ pending' = Without(pending, {t})
  /\ claimed' = claimed \ {t}
  /\ UNCHANGED discarded
DiscardFromMemory(t) ==
  /\ pending' = Without(pending, {t})
  /\ claimed' = IF t \in ToSet(pending) THEN claimed \ {t} ELSE claimed
  /\ discarded' = IF t \notin ToSet(pending) /\ t \in claimed
                  THEN discarded \cup {t} ELSE discarded

\* The rest of discardTransaction, once removeFromOutbox has completed.
RemovalKeepsEchoId(t) == \* MUTANT: the echo-suppression set grows for ever
  /\ rows' = [rows EXCEPT ![t] = "none"]
  /\ UNCHANGED localIds
  /\ backlog' = Without(backlog, {t})
RemoveRow(t) ==
  /\ rows' = [rows EXCEPT ![t] = "none"]
  /\ localIds' = localIds \ {t}
  /\ backlog' = Without(backlog, {t})

\* dispatchBatch and enqueueSend: claim the batch and put a job on the queue.
Dispatch(kind, txs) ==
  /\ queue' = Append(queue, [kind |-> kind, txs |-> txs])
  /\ claimed' = claimed \cup ToSet(txs)

\* takeRetryBacklog: what is still owed goes ahead of what is requested.
BacklogLast(owed, requested) == \* MUTANT: retries after newer writes
  requested \o Without(owed, ToSet(requested))
TakeRetryBacklog(owed, requested) == Without(owed, ToSet(requested)) \o requested

\* What is left of the backlog once a send carries it.
BacklogAfterTake(owed) == <<>>

\* sendBatch and the start of sendClaimedBatch: carry the retry backlog `owed`
\* ahead of `requested` and start marking what was not discarded.  The job
\* releases `free`, keeps holding `kept` and claims all it sends.
SendBatch(requested, owed, free, kept) ==
  LET txs  == TakeRetryBacklog(owed, requested)
      live == Without(txs, discarded \ free)
  IN  /\ batch' = txs
      /\ held' = kept \cup ToSet(txs)
      /\ claimed' = (claimed \ free) \cup ToSet(txs)
      /\ backlog' = BacklogAfterTake(owed)
      /\ todo' = live
      /\ pc' = IF live = <<>> THEN "ended" ELSE "marking"

\* Where the slice `slice(i, i + maxBatchSize)` at the front of a list ends.
SliceEnd(list) == IF Len(list) < MaxBatchSize THEN Len(list) ELSE MaxBatchSize

\* replayPersisted sends the next slice of its list, claimed only now that the
\* slice before it has been released.
SendSlice(list, owed) ==
  /\ SendBatch(SubSeq(list, 1, SliceEnd(list)), owed, held, {})
  /\ replay' = SubSeq(list, SliceEnd(list) + 1, Len(list))

\* The running job is over: it leaves the queue, and a drain that waited for
\* it goes on to its replay, or ends (with an error when the flush failed).
FinishJob ==
  /\ pc' = "idle"
  /\ held' = {} /\ batch' = <<>> /\ todo' = <<>> /\ replay' = <<>>
  /\ failed' = FALSE
  /\ CASE Head(queue).kind = "send" ->
            queue' = Tail(queue) /\ UNCHANGED drain
       [] Head(queue).kind = "flush" /\ ~failed ->
            /\ queue' = Append(Tail(queue), [kind |-> "replay", txs |-> <<>>])
            /\ drain' = "replay"
       [] OTHER -> queue' = Tail(queue) /\ drain' = "idle"

-----------------------------------------------------------------------------
Init ==
  /\ rows = [t \in Tx |-> "none"]
  /\ batchIndex = [t \in Tx |-> 0]
  /\ needed = [t \in Tx |-> 0]
  /\ cursor = 0 /\ io = <<>>
  /\ pending = <<>> /\ timer = FALSE /\ queue = <<>> /\ backlog = <<>>
  /\ claimed = {} /\ discarded = {} /\ localIds = {}
  /\ nextIndex = 0 /\ seeded = FALSE
  /\ drain = "idle"
  /\ pc = "idle" /\ held = {} /\ batch = <<>> /\ todo = <<>>
  /\ replay = <<>> /\ missed = <<>> /\ failed = FALSE
  /\ request = <<>> /\ verdict = [t \in Tx |-> "none"]
  /\ late = {} /\ log = <<>>
  /\ pktPc = "idle" /\ pktTx = 0 /\ pktTodo = {} /\ pktUpTo = 0
  /\ made = 0 /\ dropped = {} /\ reported = {}
  /\ failures = 0 /\ restarts = 0

-----------------------------------------------------------------------------
(* Mutations and batching *)

\* queueTransaction: stamp, persist, claim, and either hand a full batch to
\* the send queue or (re)arm the batch timer.  Runs under the state lock.
QueueTransaction ==
  LET t == made + 1
      index == IF seeded THEN nextIndex ELSE SeededIndex
      full == Len(pending) + 1 >= MaxBatchSize
  IN  /\ pktPc = "idle" /\ drain # "start"
      /\ made < NumTx
      /\ made' = t
      /\ batchIndex' = [batchIndex EXCEPT ![t] = index]
      /\ nextIndex' = index + 1
      /\ seeded' = TRUE
      /\ rows' = [rows EXCEPT ![t] = "queued"]
      /\ localIds' = localIds \cup {t}
      /\ claimed' = claimed \cup {t}
      /\ timer' = ~full
      /\ pending' = IF full THEN <<>> ELSE Append(pending, t)
      /\ queue' = IF full
                  THEN Append(queue, [kind |-> "send",
                                      txs |-> Append(pending, t)])
                  ELSE queue
      /\ UNCHANGED <<io, needed, cursor, backlog, discarded, drain, jobVars,
                     serverVars, pktVars, dropped, reported, failures,
                     restarts>>

\* The batch timer fires: flushBatch sends whatever is still pending.
BatchTimerFires ==
  /\ timer
  /\ timer' = FALSE
  /\ pending' = <<>>
  /\ IF pending = <<>> THEN UNCHANGED <<queue, claimed>>
     ELSE Dispatch("send", pending)
  /\ UNCHANGED <<io, storageVars, backlog, discarded, localIds, indexVars, drain,
                 jobVars, serverVars, pktVars, historyVars>>

\* processPendingTransactions, at start, on reconnect and on syncNow: flush the
\* pending batch and wait for it, or go straight to the replay.
DrainStart ==
  /\ \/ drain = "start"
     \/ drain = "idle" /\ "reconnect" \in Faults
  /\ timer' = FALSE
  /\ pending' = <<>>
  /\ IF pending = <<>>
     THEN Dispatch("replay", <<>>) /\ drain' = "replay"
     ELSE Dispatch("flush", pending) /\ drain' = "flush"
  /\ UNCHANGED <<io, storageVars, backlog, discarded, localIds, indexVars, jobVars,
                 serverVars, pktVars, historyVars>>

-----------------------------------------------------------------------------
(* The send queue: one job at a time *)

\* The head job starts: a batch dispatched from pendingBatch.
StartSendJob ==
  /\ pc = "idle"
  /\ queue # <<>>
  /\ Head(queue).kind \in {"send", "flush"}
  /\ SendBatch(Head(queue).txs, backlog, {}, {})
  /\ JobProceeds
  /\ UNCHANGED <<storageVars, pending, timer, queue, discarded, localIds,
                 indexVars, drain, replay, missed, failed, serverVars,
                 pktVars, historyVars>>

\* The head job starts: a replay, which reads the outbox.
StartReplayJob ==
  /\ pc = "idle"
  /\ queue # <<>>
  /\ Head(queue).kind = "replay"
  /\ pc' = "reading"
  /\ JobProceeds
  /\ UNCHANGED <<storageVars, listVars, claimVars, indexVars, drain, held, batch,
                 todo, replay, missed, failed, serverVars, pktVars,
                 historyVars>>

\* The outbox has been read.  The backlog is forgotten, its rows being
\* persisted as queued; what is unclaimed is to be sent, and what a lost
\* session left "sent" is first reset to "queued".
OutboxRead ==
  LET stale == {t \in Unclaimed : rows[t] = "sent"}
      list  == InOutboxOrder(Replayable(Unclaimed))
  IN  /\ pc = "reading"
      /\ nextIndex' = SeededIndex
      /\ \/ /\ stale # {}
            /\ pc' = "resetting"
            /\ todo' = InOutboxOrder(stale)
            /\ replay' = list
            /\ backlog' = <<>>
            /\ UNCHANGED <<claimed, held, batch>>
         \/ stale = {} /\ list # <<>> /\ SendSlice(list, <<>>)
         \/ /\ list = <<>>
            /\ pc' = "ended"
            /\ backlog' = <<>>
            /\ UNCHANGED <<claimed, held, batch, todo, replay>>
      /\ JobContinues
      /\ UNCHANGED <<storageVars, pending, timer, queue, discarded, localIds,
                     seeded, drain, missed, failed, serverVars, pktVars,
                     historyVars>>

\* One "sent" row is reset; after the last, the first slice is sent.  The
\* list was read before the resets: nothing on it is claimed meanwhile.
ResetSent ==
  /\ pc = "resetting"
  /\ rows' = Requeued(Head(todo))
  /\ IF Len(todo) > 1
     THEN /\ todo' = Tail(todo)
          /\ UNCHANGED <<pc, batch, held, claimed, backlog, replay>>
     ELSE SendSlice(replay, backlog)
  /\ JobContinues
  /\ UNCHANGED <<batchIndex, needed, cursor, pending, timer, queue, discarded,
                 localIds, indexVars, drain, missed, failed, serverVars,
                 pktVars, historyVars>>

\* markTransactionsSent marks one row; after the last, what was discarded
\* meanwhile is dropped once more and the rest goes to transport.mutate.
MarkSent ==
  LET sending == Without(batch, discarded)
  IN  /\ pc = "marking"
      /\ rows' = Touch(Head(todo), "sent")
      /\ todo' = Tail(todo)
      /\ \/ Len(todo) > 1 /\ UNCHANGED <<pc, batch, request, verdict>>
         \/ /\ Len(todo) = 1
            /\ sending = <<>>
            /\ pc' = "ended"
            /\ UNCHANGED <<batch, request, verdict>>
         \/ /\ Len(todo) = 1
            /\ sending # <<>>
            /\ pc' = "awaiting"
            /\ batch' = sending
            /\ request' = sending
            /\ verdict' = [t \in Tx |-> "none"]
      /\ JobContinues
      /\ UNCHANGED <<batchIndex, needed, cursor, listVars, claimVars, indexVars,
                     drain, held, replay, missed, failed, late, log, pktVars,
                     historyVars>>

\* The mutate call fails: lost on the way out, timed out, cut off after part
\* of the batch or after all of it.  What the server has not reached may still
\* be on its way.
TransportFails ==
  /\ pc = "awaiting"
  /\ failures < MaxFailures
  /\ failures' = failures + 1
  /\ pc' = "failing"
  /\ todo' = batch
  /\ request' = <<>>
  /\ late' \in {late} \cup (IF "late" \in Faults /\ request # <<>>
                            THEN {late \cup {request}} ELSE {})
  /\ JobProceeds
  /\ UNCHANGED <<storageVars, listVars, claimVars, indexVars, drain, held, batch,
                 replay, missed, failed, verdict, log, pktVars, made, dropped,
                 reported, restarts>>

\* handleTransportFailure requeues one transaction; after the last, what was
\* not discarded is owed.  For a failed call the error is thrown on, for
\* transactions a reply left out it is not.
Requeue ==
  /\ pc \in {"failing", "requeueing"}
  /\ rows' = Requeued(Head(todo))
  /\ todo' = Tail(todo)
  /\ IF Len(todo) > 1 THEN UNCHANGED <<pc, backlog, failed>>
     ELSE /\ backlog' = backlog \o
               Without(IF pc = "failing" THEN batch ELSE missed, discarded)
          /\ failed' = (pc = "failing")
          /\ pc' = "ended"
  /\ JobContinues
  /\ UNCHANGED <<batchIndex, needed, cursor, pending, timer, queue, claimVars,
                 indexVars, drain, held, batch, replay, missed, serverVars,
                 pktVars, historyVars>>

\* The reply arrives.  It reports on all of the batch but what it omits.
ReplyArrives ==
  /\ pc = "awaiting"
  /\ request = <<>>
  /\ \E omitted \in IF "omit" \in Faults THEN SUBSET ToSet(batch) ELSE {{}} :
        /\ missed' = Without(batch, ToSet(batch) \ omitted)
        /\ IF omitted = ToSet(batch)
           THEN pc' = "requeueing" /\ todo' = batch
           ELSE pc' = "results" /\ todo' = Without(batch, omitted)
  /\ JobProceeds
  /\ UNCHANGED <<storageVars, listVars, claimVars, indexVars, drain, held, batch,
                 replay, failed, serverVars, pktVars, historyVars>>

\* The loop of handleMutateResult moves on to its next result; after the last
\* it requeues what the reply left out.
NextResult ==
  IF Len(todo) > 1 THEN pc' = "results" /\ todo' = Tail(todo)
  ELSE IF missed # <<>> THEN pc' = "requeueing" /\ todo' = missed
  ELSE pc' = "ended" /\ todo' = <<>>

\* A success: the transaction waits for the cursor to reach its sync id.
Acknowledge ==
  LET t == Head(todo)
  IN  /\ pc = "results"
      /\ verdict[t] = "ok"
      /\ rows' = Touch(t, "awaitingSync")
      /\ needed' = [needed EXCEPT ![t] = SyncIdOf(t)]
      /\ NextResult
      /\ JobContinues
      /\ UNCHANGED <<batchIndex, cursor, listVars, claimVars, indexVars, drain,
                     held, batch, replay, missed, failed, serverVars, pktVars,
                     historyVars>>

\* A failure: the row is marked failed, the application is told to roll the
\* write back, and discardTransaction begins.
Refuse ==
  LET t == Head(todo)
  IN  /\ pc \in {"results", "invalid"}
      /\ pc = "results" => verdict[t] = "refused"
      /\ rows' = Touch(t, "failed")
      /\ reported' = reported \cup {t}
      /\ DiscardFromMemory(t)
      /\ pc' = IF pc = "results" THEN "removing" ELSE "evicting"
      /\ JobContinues
      /\ UNCHANGED <<batchIndex, needed, cursor, timer, queue, backlog, localIds,
                     indexVars, drain, held, batch, todo, replay, missed,
                     failed, serverVars, pktVars, made, dropped, failures,
                     restarts>>

\* The row of a refused transaction is gone; the loop goes on.
RefusedRemoved ==
  /\ pc = "removing"
  /\ RemoveRow(Head(todo))
  /\ NextResult
  /\ JobContinues
  /\ UNCHANGED <<batchIndex, needed, cursor, pending, timer, queue, claimed,
                 discarded, indexVars, drain, held, batch, replay, missed,
                 failed, serverVars, pktVars, historyVars>>

\* The server refuses the whole batch because of one transaction in it.
BatchRefused ==
  /\ pc = "awaiting"
  /\ pc' = "invalid"
  /\ \E t \in ToSet(request) \cap Malformed : todo' = <<t>>
  /\ request' = <<>>
  /\ JobProceeds
  /\ UNCHANGED <<storageVars, listVars, claimVars, indexVars, drain, held, batch,
                 replay, missed, failed, verdict, late, log, pktVars,
                 historyVars>>

\* handleInvalidMutationBatch has removed the culprit: the others go back to
\* "queued" one by one.
CulpritRemoved ==
  LET others == Without(batch, {Head(todo)})
  IN  /\ pc = "evicting"
      /\ RemoveRow(Head(todo))
      /\ batch' = others
      /\ todo' = others
      /\ pc' = IF others = <<>> THEN "ended" ELSE "restoring"
      /\ JobContinues
      /\ UNCHANGED <<batchIndex, needed, cursor, pending, timer, queue, claimed,
                     discarded, indexVars, drain, held, replay, missed, failed,
                     serverVars, pktVars, historyVars>>

\* One of the others is back to "queued"; after the last they are sent again.
Restore ==
  /\ pc = "restoring"
  /\ rows' = Requeued(Head(todo))
  /\ IF Len(todo) > 1
     THEN todo' = Tail(todo) /\ UNCHANGED <<pc, batch, held, claimed, backlog>>
     ELSE SendBatch(batch, backlog, {}, held)
  /\ JobContinues
  /\ UNCHANGED <<batchIndex, needed, cursor, pending, timer, queue, discarded,
                 localIds, indexVars, drain, replay, missed, failed, serverVars,
                 pktVars, historyVars>>

\* A send has settled: its claims are released.  A replay whose send did not
\* fail goes on with its next slice; otherwise the job is over.
EndSend ==
  /\ pc = "ended"
  /\ discarded' = discarded \ held
  /\ IF replay # <<>> /\ ~failed
     THEN SendSlice(replay, backlog) /\ UNCHANGED <<queue, drain, failed>>
     ELSE FinishJob /\ claimed' = claimed \ held /\ UNCHANGED backlog
  /\ missed' = <<>>
  /\ verdict' = [t \in Tx |-> "none"]
  /\ JobProceeds
  /\ UNCHANGED <<storageVars, pending, timer, localIds, indexVars, request, late,
                 log, pktVars, historyVars>>

-----------------------------------------------------------------------------
(* The server: mutate-service.ts takes a batch one transaction at a time,  *)
(* each in a database transaction of its own, and answers one it has       *)
(* already applied without applying it again.                              *)

\* The server's outcomes for transaction t: an answer and the log after it.
ServerOutcome(t) ==
  IF t \in ToSet(log) THEN {<<"ok", log>>}
  ELSE {<<"ok", Append(log, t)>>}
       \cup (IF "reject" \in Faults THEN {<<"refused", log>>} ELSE {})

\* The server takes the next transaction of the request the client awaits.
ServerTakesNext ==
  /\ request # <<>>
  /\ ToSet(request) \cap Malformed = {}
  /\ \E outcome \in ServerOutcome(Head(request)) :
        /\ verdict' = [verdict EXCEPT ![Head(request)] = outcome[1]]
        /\ log' = outcome[2]
  /\ request' = Tail(request)
  /\ UNCHANGED <<io, storageVars, listVars, claimVars, indexVars, drain, jobVars,
                 late, pktVars, historyVars>>

\* The server takes the next transaction of a request nobody awaits.
ServerTakesLate ==
  \E r \in late :
    /\ ToSet(r) \cap Malformed = {}
    /\ \E outcome \in ServerOutcome(Head(r)) : log' = outcome[2]
    /\ late' = (late \ {r}) \cup (IF Len(r) > 1 THEN {Tail(r)} ELSE {})
    /\ UNCHANGED <<io, storageVars, listVars, claimVars, indexVars, drain, jobVars,
                   request, verdict, pktVars, historyVars>>

-----------------------------------------------------------------------------
(* Delta packets, applied under the state lock (delta-pipeline.ts)         *)

\* Own transactions echoed by a packet that moves the cursor to upTo.
EchoedOffByOne(upTo) == {log[id] : id \in cursor + 2 .. upTo} \* MUTANT
Echoed(upTo) == {log[id] : id \in cursor + 1 .. upTo}

\* The loops of the packet discard one transaction after another, in no order
\* this module relies on: the discard of t begins ...
BeginDiscard(t, rest) ==
  /\ DiscardFromMemory(t)
  /\ pktTx' = t
  /\ pktTodo' = rest

\* ... and a loop with nothing to discard goes on to the stage `next`.
NothingToDiscard(next) ==
  /\ pktPc' = next
  /\ pktTx' = 0
  /\ pktTodo' = {}
  /\ UNCHANGED <<pending, claimed, discarded>>

\* A packet arrives.  It brings the server's log up to some sync id, or only
\* actions of other clients, which the log of this module leaves out.
PacketArrives ==
  /\ pktPc = "idle"
  /\ pktUpTo' \in cursor .. Len(log)
  /\ pktPc' = "rebaseRead"
  /\ PacketProceeds
  /\ UNCHANGED <<storageVars, listVars, claimVars, indexVars, drain, jobVars,
                 serverVars, pktTx, pktTodo, historyVars>>

\* The outbox has been read: queued transactions the packet does not echo may
\* conflict with another client's actions in it and are dropped.
RebaseRead ==
  /\ pktPc = "rebaseRead"
  /\ \E losers \in SUBSET ({t \in Tx : rows[t] = "queued"} \ Echoed(pktUpTo)) :
        /\ Cardinality(losers) <= MaxConflicts
        /\ \/ losers = {} /\ NothingToDiscard("applied") /\ UNCHANGED dropped
           \/ \E t \in losers : /\ BeginDiscard(t, losers \ {t})
                                /\ dropped' = dropped \cup {t}
                                /\ pktPc' = "rebase"
  /\ PacketContinues
  /\ UNCHANGED <<storageVars, timer, queue, backlog, localIds, indexVars, drain,
                 jobVars, serverVars, pktUpTo, made, reported, failures,
                 restarts>>

\* The row of a dropped transaction is gone; the next conflict is handled.
LoserRemoved ==
  /\ pktPc = "rebase"
  /\ RemoveRow(pktTx)
  /\ \/ pktTodo = {} /\ NothingToDiscard("applied") /\ UNCHANGED dropped
     \/ \E t \in pktTodo : /\ BeginDiscard(t, pktTodo \ {t})
                           /\ dropped' = dropped \cup {t}
                           /\ UNCHANGED pktPc
  /\ PacketContinues
  /\ UNCHANGED <<batchIndex, needed, cursor, timer, queue, indexVars, drain,
                 jobVars, serverVars, pktUpTo, made, reported, failures,
                 restarts>>

\* The packet's actions are applied and written; confirmFromActions and then
\* completeUpToSyncId begin by reading the outbox.
ReadOutbox ==
  /\ \/ pktPc = "applied" /\ pktPc' = "confirmRead"
     \/ pktPc = "confirmed" /\ pktPc' = "completeRead"
  /\ PacketProceeds
  /\ UNCHANGED <<storageVars, listVars, claimVars, indexVars, drain, jobVars,
                 serverVars, pktTx, pktTodo, pktUpTo, historyVars>>

\* confirmFromActions: what the packet echoes is confirmed.
ConfirmRead ==
  /\ pktPc = "confirmRead"
  /\ LET confirmed == Echoed(pktUpTo) \cap Outstanding
     IN  \/ confirmed = {} /\ NothingToDiscard("confirmed")
         \/ \E t \in confirmed : /\ BeginDiscard(t, confirmed \ {t})
                                 /\ pktPc' = "confirm"
  /\ PacketContinues
  /\ UNCHANGED <<storageVars, timer, queue, backlog, localIds, indexVars, drain,
                 jobVars, serverVars, pktUpTo, historyVars>>

\* completeUpToSyncId: what was acknowledged at or below the
\* packet's cursor is complete.
CompleteRead ==
  /\ pktPc = "completeRead"
  /\ LET complete == {t \in Tx : rows[t] = "awaitingSync" /\ needed[t] <= pktUpTo}
     IN  \/ complete = {} /\ NothingToDiscard("commit")
         \/ \E t \in complete : /\ BeginDiscard(t, complete \ {t})
                                /\ pktPc' = "complete"
  /\ PacketContinues
  /\ UNCHANGED <<storageVars, timer, queue, backlog, localIds, indexVars, drain,
                 jobVars, serverVars, pktUpTo, historyVars>>

\* The row of a confirmed or completed transaction is gone.
SettledRemoved ==
  /\ pktPc \in {"confirm", "complete"}
  /\ RemoveRow(pktTx)
  /\ \/ /\ pktTodo = {}
        /\ NothingToDiscard(IF pktPc = "confirm" THEN "confirmed" ELSE "commit")
     \/ \E t \in pktTodo : BeginDiscard(t, pktTodo \ {t}) /\ UNCHANGED pktPc
  /\ PacketContinues
  /\ UNCHANGED <<batchIndex, needed, cursor, timer, queue, indexVars, drain,
                 jobVars, serverVars, pktUpTo, historyVars>>

\* The cursor moves, after everything else the packet does, and the state lock
\* is released.
CommitPacket ==
  /\ pktPc = "commit"
  /\ cursor' = pktUpTo
  /\ pktPc' = "idle"
  /\ pktUpTo' = 0
  /\ drain' = IF drain = "rehydrate" THEN "start" ELSE drain
  /\ UNCHANGED <<io, rows, batchIndex, needed, listVars, claimVars, indexVars,
                 jobVars, serverVars, pktTx, pktTodo, historyVars>>

-----------------------------------------------------------------------------
\* The process dies at any point (a closed tab, a crash, a reload) and a new
\* OutboxManager starts on the rows it left.  An awaited request is lost or
\* stays on its way.  Under the state lock the start first completes what the
\* cursor has passed (rehydrateOutboxWithSyncCursor) - the last stage of a
\* packet that moves no cursor - and drains the outbox before any mutation.
Restart ==
  /\ restarts < MaxRestarts
  /\ restarts' = restarts + 1
  /\ pending' = <<>> /\ timer' = FALSE /\ queue' = <<>> /\ backlog' = <<>>
  /\ claimed' = {} /\ discarded' = {} /\ localIds' = {}
  /\ nextIndex' = 0 /\ seeded' = FALSE
  /\ drain' = "rehydrate"
  /\ pc' = "idle" /\ held' = {} /\ batch' = <<>> /\ todo' = <<>>
  /\ replay' = <<>> /\ missed' = <<>> /\ failed' = FALSE
  /\ request' = <<>> /\ verdict' = [t \in Tx |-> "none"]
  /\ late' \in {late} \cup (IF "late" \in Faults /\ request # <<>>
                            THEN {late \cup {request}} ELSE {})
  /\ io' = <<>>
  /\ pktPc' = "confirmed" /\ pktTx' = 0 /\ pktTodo' = {} /\ pktUpTo' = cursor
  /\ UNCHANGED <<storageVars, log, made, dropped, reported, failures>>

RunJob ==
  \/ StartSendJob \/ StartReplayJob \/ OutboxRead \/ ResetSent \/ MarkSent \/ Requeue
  \/ ReplyArrives \/ Acknowledge \/ Refuse \/ RefusedRemoved
  \/ CulpritRemoved \/ Restore \/ EndSend

ApplyPacket ==
  \/ RebaseRead \/ LoserRemoved \/ ReadOutbox \/ ConfirmRead \/ CompleteRead \/ SettledRemoved
  \/ CommitPacket

Next ==
  \/ QueueTransaction \/ BatchTimerFires \/ DrainStart
  \/ RunJob \/ TransportFails \/ BatchRefused
  \/ ServerTakesNext \/ ServerTakesLate
  \/ PacketArrives \/ ApplyPacket
  \/ Restart

Spec == Init /\ [][Next]_vars

-----------------------------------------------------------------------------
(* Properties *)

\* Everything an in-memory sender has: waiting in pendingBatch, in a queued
\* job, or in the running one.
Owned == ToSet(pending) \cup held
           \cup UNION {ToSet(queue[i].txs) : i \in DOMAIN queue}

\* The claims are exact: what a sender has is claimed (else a replay sends it
\* a second time) and nothing else is (else no replay ever sends it again);
\* discardedClaims only names claimed transactions.  Claims are taken in
\* queueTransaction, dispatchBatch, sendBatch and replayPersisted and given
\* up in release and discardTransaction.
ClaimsAreExact == claimed = Owned /\ discarded \subseteq claimed

\* A transaction is with one sender at most.  Were it with two, it would be
\* sent twice and the release of one would leave the other unclaimed.
OneSender ==
  /\ held \cap ToSet(pending) = {}
  /\ \A i \in DOMAIN queue : ToSet(queue[i].txs) \cap ToSet(pending) = {}
  /\ \A i, j \in DOMAIN queue :
       i < j => ToSet(queue[i].txs) \cap ToSet(queue[j].txs) = {}
  /\ \A i \in DOMAIN queue : i > 1 => held \cap ToSet(queue[i].txs) = {}

\* No write is lost: until the server has applied a transaction, or the
\* application was told it is dropped or refused, its row is in the outbox in
\* a state a replay picks up - across failures, races and restarts.
NothingIsLost ==
  \A t \in 1 .. made :
    \/ t \in ToSet(log)
    \/ t \in dropped \cup reported
    \/ rows[t] \in {"queued", "sent"}

\* An acknowledged transaction never goes back to "queued" or "sent"
\* (outbox-manager.ts: "the second send regresses an acked transaction").
AckedNeverRegresses ==
  [][\A t \in Tx : rows[t] = "awaitingSync"
                     => rows'[t] \in {"awaitingSync", "none"}]_vars

\* A transaction waits only for a cursor that is still to come: were its sync
\* id at or below the cursor with no packet under way, nothing would ever
\* complete it.
AwaitsOnlyTheFuture ==
  \A t \in Tx : rows[t] = "awaitingSync" /\ pktPc = "idle" => needed[t] > cursor

\* The outbox sorts in the order the application wrote, also after a restart
\* began numbering anew (nextBatchIndex, seedBatchIndex, compareTransactions).
OutboxKeepsWriteOrder ==
  \A t, u \in Outstanding : t < u => batchIndex[t] < batchIndex[u]

\* All of this together: to the application and the server the outbox is an
\* ordered delivery of writes (retryBacklog, batchIndex, discardedClaims).
Delivery == INSTANCE OrderedDelivery WITH withdrawn <- dropped \cup reported
DeliversInOrder == Delivery!Spec

\* "A transaction reported as dropped must never reach the server afterwards"
\* (discardedClaims): no request that is sent carries a dropped transaction.
DroppedIsNeverSent ==
  [][request' # request /\ pc' = "awaiting" /\ pc # "awaiting"
       => ToSet(request') \cap dropped = {}]_vars

\* A transaction dropped by a rebase conflict is never applied: dropping one
\* the server holds would "report as rejected a write the server is about to
\* commit" (rebase.ts, isInFlight).
DroppedIsNeverApplied == dropped \cap ToSet(log) = {}

\* Between jobs the backlog holds what is still owed and nothing that is in a
\* sender's hands or acknowledged: it is unclaimed and queued on disk, unless
\* a packet removed the row of a transaction a replay had just read.
BacklogIsOwed ==
  pc = "idle" =>
    \A t \in ToSet(backlog) :
      /\ t \notin claimed
      /\ \/ rows[t] = "queued"
         \/ rows[t] = "none" /\ t \in dropped \cup ToSet(log)

\* The echo-suppression set stays bounded: it names only outstanding rows.
EchoIdsAreOutstanding == localIds \subseteq Outstanding

\* What the manager keeps in memory beside the outbox agrees with it, whatever
\* becomes of a transaction: its backlog and its own ids (retryBacklog,
\* localClientTxIds).
MemoryAgreesWithOutbox == BacklogIsOwed /\ EchoIdsAreOutstanding

\* Every write is settled in the end: applied and confirmed, refused or
\* dropped.  Its row leaves the outbox, or stays marked failed if the process
\* dies between handleMutateResult marking it and removing it.
EveryWriteSettles ==
  \A t \in Tx : rows[t] # "none" ~> rows[t] \in {"none", "failed"}

\* Fairness.  Timers fire, queued jobs run, storage operations complete, the
\* server works off a request and its answer arrives unless the transport
\* fails (MaxFailures times at most), and drains recur (a reconnect, syncNow or
\* the next start).  The stream delivers the log in order, so a packet that
\* moves the cursor follows after finitely many that do not.
FairSpec ==
  /\ Spec
  /\ WF_vars(BatchTimerFires) /\ WF_vars(DrainStart)
  /\ WF_vars(RunJob) /\ WF_vars(BatchRefused) /\ WF_vars(ServerTakesNext)
  /\ WF_vars(ApplyPacket) /\ SF_vars(PacketArrives /\ pktUpTo' > cursor)

=============================================================================
