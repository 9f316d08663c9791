---------------------------- MODULE OutboxProofs ----------------------------
(***************************************************************************)
(* Proofs about Outbox for every number of transactions, batch size, fault *)
(* and bound: its types, its senders, the order of its rows, and that no   *)
(* write is lost.  They all follow from the invariant of OutboxInvariant,  *)
(* preserved part by part.  Then the outbox is proved to be an ordered     *)
(* delivery of writes (OrderedDelivery), and last, that what a conflict    *)
(* drops is never sent and never applied.                                  *)
(***************************************************************************)
EXTENDS OutboxInvariant, ListsProofs

-----------------------------------------------------------------------------
(* The helpers *)

\* Appending a job adds its transactions to the queue's.
LEMMA JobTxsAppend ==
  ASSUME NEW q \in Seq(Job), NEW j \in Job
  PROVE  /\ Append(q, j) \in Seq(Job)
         /\ JobTxs(Append(q, j)) = JobTxs(q) \cup ToSet(j.txs)
<1>1. Len(q) \in Nat /\ DOMAIN q = 1 .. Len(q) /\ DOMAIN Append(q, j) = 1 .. Len(q) + 1
  OBVIOUS
<1>2. \A i \in 1 .. Len(q) : Append(q, j)[i] = q[i]
  OBVIOUS
<1>3. Append(q, j)[Len(q) + 1] = j
  OBVIOUS
<1>4. ASSUME NEW t \in JobTxs(Append(q, j))
      PROVE  t \in JobTxs(q) \cup ToSet(j.txs)
  <2>1. PICK i \in 1 .. Len(q) + 1 : t \in ToSet(Append(q, j)[i].txs)
    BY <1>1, <1>4 DEF JobTxs
  <2>2. CASE i = Len(q) + 1
    BY <1>3, <2>1, <2>2
  <2>3. CASE i # Len(q) + 1
    <3>1. i \in 1 .. Len(q) /\ t \in ToSet(q[i].txs)
      BY <1>1, <1>2, <2>1, <2>3
    <3> QED
      BY <1>1, <3>1 DEF JobTxs
  <2> QED
    BY <2>2, <2>3
<1>5. ASSUME NEW t \in JobTxs(q)
      PROVE  t \in JobTxs(Append(q, j))
  <2>1. PICK i \in 1 .. Len(q) : t \in ToSet(q[i].txs)
    BY <1>1, <1>5 DEF JobTxs
  <2>2. i \in DOMAIN Append(q, j) /\ t \in ToSet(Append(q, j)[i].txs)
    BY <1>1, <1>2, <2>1
  <2> QED
    BY <2>2 DEF JobTxs
<1>6. ToSet(j.txs) \subseteq JobTxs(Append(q, j))
  <2>1. Len(q) + 1 \in DOMAIN Append(q, j)
    BY <1>1
  <2> QED
    BY <1>3, <2>1 DEF JobTxs
<1> QED
  BY <1>4, <1>5, <1>6

\* A queue's transactions are those of its first job and of the others.
LEMMA JobTxsTail ==
  ASSUME NEW q \in Seq(Job), q # <<>>
  PROVE  /\ Head(q) \in Job /\ Tail(q) \in Seq(Job)
         /\ JobTxs(q) = ToSet(Head(q).txs) \cup JobTxs(Tail(q))
<1>1. /\ Len(q) \in Nat /\ Len(q) > 0 /\ DOMAIN q = 1 .. Len(q)
      /\ Head(q) = q[1] /\ Head(q) \in Job /\ Tail(q) \in Seq(Job)
      /\ DOMAIN Tail(q) = 1 .. Len(q) - 1
  OBVIOUS
<1>2. \A i \in 1 .. Len(q) - 1 : Tail(q)[i] = q[i + 1]
  OBVIOUS
<1>3. ASSUME NEW t \in JobTxs(q)
      PROVE  t \in ToSet(Head(q).txs) \cup JobTxs(Tail(q))
  <2>1. PICK i \in 1 .. Len(q) : t \in ToSet(q[i].txs)
    BY <1>1, <1>3 DEF JobTxs
  <2>2. CASE i = 1
    BY <1>1, <2>1, <2>2
  <2>3. CASE i # 1
    <3>1. i - 1 \in DOMAIN Tail(q) /\ Tail(q)[i - 1] = q[i]
      BY <1>1, <1>2, <2>1, <2>3
    <3> QED
      BY <2>1, <3>1 DEF JobTxs
  <2> QED
    BY <2>2, <2>3
<1>4. ASSUME NEW t \in JobTxs(Tail(q))
      PROVE  t \in JobTxs(q)
  <2>1. PICK i \in 1 .. Len(q) - 1 : t \in ToSet(Tail(q)[i].txs)
    BY <1>1, <1>4 DEF JobTxs
  <2>2. i + 1 \in DOMAIN q /\ t \in ToSet(q[i + 1].txs)
    BY <1>1, <1>2, <2>1
  <2> QED
    BY <2>2 DEF JobTxs
<1>5. ToSet(Head(q).txs) \subseteq JobTxs(q)
  BY <1>1 DEF JobTxs
<1> QED
  BY <1>1, <1>3, <1>4, <1>5

\* The first job of a queue whose jobs share nothing shares nothing with the
\* others, which share nothing among them.
LEMMA JobsApart ==
  ASSUME NEW q \in Seq(Job), q # <<>>,
         \A i, j \in DOMAIN q : i < j => ToSet(q[i].txs) \cap ToSet(q[j].txs) = {}
  PROVE  /\ ToSet(Head(q).txs) \cap JobTxs(Tail(q)) = {}
         /\ \A i, j \in DOMAIN Tail(q) :
              i < j => ToSet(Tail(q)[i].txs) \cap ToSet(Tail(q)[j].txs) = {}
<1>1. /\ Len(q) \in Nat /\ Len(q) > 0 /\ DOMAIN q = 1 .. Len(q)
      /\ Head(q) = q[1] /\ DOMAIN Tail(q) = 1 .. Len(q) - 1
  OBVIOUS
<1>2. \A i \in 1 .. Len(q) - 1 : Tail(q)[i] = q[i + 1]
  OBVIOUS
<1>3. \A i \in DOMAIN Tail(q) : ToSet(q[1].txs) \cap ToSet(Tail(q)[i].txs) = {}
  <2> TAKE i \in DOMAIN Tail(q)
  <2>1. 1 \in DOMAIN q /\ i + 1 \in DOMAIN q /\ 1 < i + 1 /\ Tail(q)[i] = q[i + 1]
    BY <1>1, <1>2
  <2> QED
    BY <2>1
<1>4. ASSUME NEW i \in DOMAIN Tail(q), NEW j \in DOMAIN Tail(q), i < j
      PROVE  ToSet(Tail(q)[i].txs) \cap ToSet(Tail(q)[j].txs) = {}
  <2>1. /\ i + 1 \in DOMAIN q /\ j + 1 \in DOMAIN q /\ i + 1 < j + 1
        /\ Tail(q)[i] = q[i + 1] /\ Tail(q)[j] = q[j + 1]
    BY <1>1, <1>2, <1>4
  <2> QED
    BY <2>1
<1>5. ASSUME NEW t \in JobTxs(Tail(q))
      PROVE  t \notin ToSet(Head(q).txs)
  <2>1. PICK i \in DOMAIN Tail(q) : t \in ToSet(Tail(q)[i].txs)
    BY <1>5 DEF JobTxs
  <2> QED
    BY <1>1, <1>3, <2>1
<1> QED
  BY <1>4, <1>5

\* A job that shares nothing with a queue whose jobs share nothing can join it.
LEMMA JobsApartAppend ==
  ASSUME NEW q \in Seq(Job), NEW k \in Job,
         \A i, j \in DOMAIN q : i < j => ToSet(q[i].txs) \cap ToSet(q[j].txs) = {},
         ToSet(k.txs) \cap JobTxs(q) = {}
  PROVE  \A i, j \in DOMAIN Append(q, k) :
           i < j => ToSet(Append(q, k)[i].txs) \cap ToSet(Append(q, k)[j].txs) = {}
<1>1. /\ Len(q) \in Nat /\ DOMAIN q = 1 .. Len(q)
      /\ DOMAIN Append(q, k) = 1 .. Len(q) + 1
      /\ Append(q, k)[Len(q) + 1] = k
  OBVIOUS
<1>2. \A i \in 1 .. Len(q) : Append(q, k)[i] = q[i]
  OBVIOUS
<1>3. \A i \in 1 .. Len(q) : ToSet(q[i].txs) \cap ToSet(k.txs) = {}
  BY <1>1 DEF JobTxs
<1> TAKE i, j \in DOMAIN Append(q, k)
<1> HAVE i < j
<1>4. i \in 1 .. Len(q) /\ (j \in 1 .. Len(q) \/ j = Len(q) + 1)
  BY <1>1
<1> QED
  BY <1>1, <1>2, <1>3, <1>4

\* The rows are finitely many.
LEMMA FiniteRows == ASSUME NEW S \in SUBSET Outstanding PROVE IsFiniteSet(S)
<1>1. IsFiniteSet(Tx)
  BY OutboxAssumption, FS_Interval DEF Tx
<1> QED
  BY <1>1, FS_Subset DEF Outstanding

\* seedBatchIndex returns an index above every persisted one.
LEMMA SeededIndexIsAbove ==
  ASSUME nextIndex \in Nat, batchIndex \in [Tx -> Nat]
  PROVE  /\ SeededIndex \in Nat
         /\ nextIndex <= SeededIndex
         /\ \A t \in Outstanding : batchIndex[t] < SeededIndex
<1> DEFINE rowIndexes == {batchIndex[t] + 1 : t \in Outstanding}
           above == {nextIndex} \cup rowIndexes
<1>1. IsFiniteSet(rowIndexes)
  <2> DEFINE f == [t \in Outstanding |-> batchIndex[t] + 1]
  <2>1. f \in Surjection(Outstanding, rowIndexes)
    BY DEF Surjection
  <2>2. IsFiniteSet(Outstanding)
    BY FiniteRows
  <2> HIDE DEF f, rowIndexes
  <2> QED
    BY <2>1, <2>2, FS_Surjection
<1>2. IsFiniteSet(above)
  BY <1>1, FS_Singleton, FS_Union
<1>3. \A x \in above : x \in Nat
  BY DEF Outstanding
<1>4. \E n \in above : \A m \in above : m <= n
  BY <1>2, <1>3, GreatestExists
<1>5. SeededIndex \in above /\ \A m \in above : m <= SeededIndex
  BY <1>4 DEF SeededIndex
<1>6. SeededIndex \in Nat /\ nextIndex <= SeededIndex
  BY <1>3, <1>5
<1>7. ASSUME NEW t \in Outstanding
      PROVE  batchIndex[t] < SeededIndex
  <2>1. batchIndex[t] \in Nat /\ batchIndex[t] + 1 \in above
    BY DEF Outstanding
  <2>2. batchIndex[t] + 1 <= SeededIndex
    BY <1>5, <2>1
  <2> HIDE DEF above
  <2> QED
    BY <1>6, <2>1, <2>2
<1> QED
  BY <1>6, <1>7

\* The replay order lists the rows it is given.
LEMMA InOutboxOrderLists ==
  ASSUME batchIndex \in [Tx -> Nat], OutboxKeepsWriteOrder,
         NEW S \in SUBSET Outstanding
  PROVE  /\ InOutboxOrder(S) \in Seq(Tx)
         /\ ToSet(InOutboxOrder(S)) = S
         /\ S # {} => InOutboxOrder(S) # <<>>
<1>1. IsFiniteSet(S)
  BY FiniteRows
<1>2. S \subseteq Tx /\ \A x \in S : batchIndex[x] \in Nat
  BY DEF Outstanding
<1>3. \A x, y \in S : x # y => batchIndex[x] # batchIndex[y]
  <2> TAKE x, y \in S
  <2> HAVE x # y
  <2>1. x < y \/ y < x
    BY <1>2, OutboxAssumption DEF Tx
  <2>2. x \in Outstanding /\ y \in Outstanding
    OBVIOUS
  <2> QED
    BY <1>2, <2>1, <2>2 DEF OutboxKeepsWriteOrder
<1>4. SortedBy(S, batchIndex) \in Seq(S) /\ ToSet(SortedBy(S, batchIndex)) = S
  BY <1>1, <1>2, <1>3, SortedByListsTheSet
<1>5. InOutboxOrder(S) \in Seq(S) /\ ToSet(InOutboxOrder(S)) = S
  BY <1>4 DEF InOutboxOrder
<1>6. InOutboxOrder(S) \in Seq(Tx)
  BY <1>2, <1>5, SeqMonotonic
<1>7. ToSet(<<>>) = {}
  BY DEF ToSet
<1> QED
  BY <1>5, <1>6, <1>7, Zenon

\* An outbox operation is issued or completes: `io` stays a list of waiters.
LEMMA WaitersStayAList ==
  ASSUME io \in Seq({"job", "packet"}),
         JobProceeds \/ JobContinues \/ PacketProceeds \/ PacketContinues
  PROVE  io' \in Seq({"job", "packet"})
<1> DEFINE W == Seq({"job", "packet"})
<1>1. <<"job">> \in W /\ <<"packet">> \in W /\ <<>> \in W
  OBVIOUS
<1>2. io # <<>> => Tail(io) \in W
  OBVIOUS
<1>3. \A v, w \in W : v \o w \in W
  OBVIOUS
<1> HIDE DEF W
<1>4. JobIssues \in W /\ PacketIssues \in W
  BY <1>1, Zenon DEF JobIssues, PacketIssues
<1>5. io \in W
  BY DEF W
<1>6. io' \in W
  BY <1>2, <1>3, <1>4, <1>5, Zenon
     DEF JobProceeds, JobContinues, PacketProceeds, PacketContinues
<1> QED
  BY <1>6 DEF W

\* A send carries the backlog and what is requested, and only that.
LEMMA SendBatchEffect ==
  ASSUME discarded \subseteq Tx, claimed \subseteq Tx,
         NEW requested \in Seq(Tx), NEW owed \in Seq(Tx),
         NEW free \in SUBSET Tx, NEW kept \in SUBSET Tx,
         SendBatch(requested, owed, free, kept)
  PROVE  /\ batch' \in Seq(Tx)
         /\ ToSet(batch') = ToSet(owed) \cup ToSet(requested)
         /\ held' = kept \cup ToSet(owed) \cup ToSet(requested)
         /\ claimed' = (claimed \ free) \cup ToSet(owed) \cup ToSet(requested)
         /\ held' \subseteq Tx /\ claimed' \subseteq Tx
         /\ backlog' = <<>>
         /\ todo' \in Seq(Tx)
         /\ pc' \in {"ended", "marking"}
         /\ pc' = "marking" => todo' # <<>>
<1> DEFINE ahead == Without(owed, ToSet(requested))
           txs   == TakeRetryBacklog(owed, requested)
<1>1. ahead \in Seq(Tx) /\ ToSet(ahead) = ToSet(owed) \ ToSet(requested)
  BY WithoutDropsTheSet
<1>2. txs \in Seq(Tx) /\ ToSet(txs) = ToSet(owed) \cup ToSet(requested)
  <2>1. txs = ahead \o requested
    BY DEF TakeRetryBacklog
  <2> HIDE DEF txs, ahead
  <2>2. ahead \o requested \in Seq(Tx)
    BY <1>1
  <2>3. ToSet(ahead \o requested) = ToSet(ahead) \cup ToSet(requested)
    BY <1>1, ListsOf
  <2> QED
    BY <1>1, <2>1, <2>2, <2>3
<1>3. Without(txs, discarded \ free) \in Seq(Tx)
  BY <1>2, WithoutDropsTheSet
<1>4. ToSet(owed) \subseteq Tx /\ ToSet(requested) \subseteq Tx
  BY DEF ToSet
<1> HIDE DEF txs, ahead
<1>5. /\ batch' = txs /\ held' = kept \cup ToSet(txs)
      /\ claimed' = (claimed \ free) \cup ToSet(txs)
      /\ backlog' = <<>>
      /\ todo' = Without(txs, discarded \ free)
      /\ pc' = IF Without(txs, discarded \ free) = <<>> THEN "ended" ELSE "marking"
  BY DEF SendBatch, BacklogAfterTake, txs
<1> QED
  BY <1>2, <1>3, <1>4, <1>5, Zenon

\* A slice of a replay carries the backlog and a part of its list.
LEMMA SendSliceEffect ==
  ASSUME discarded \subseteq Tx, claimed \subseteq Tx, held \subseteq Tx,
         NEW list \in Seq(Tx), NEW owed \in Seq(Tx), SendSlice(list, owed)
  PROVE  /\ batch' \in Seq(Tx)
         /\ replay' \in Seq(Tx)
         /\ ToSet(replay') \subseteq ToSet(list)
         /\ held' = ToSet(batch')
         /\ held' \subseteq ToSet(owed) \cup ToSet(list)
         /\ claimed' = (claimed \ held) \cup held'
         /\ held' \subseteq Tx /\ claimed' \subseteq Tx
         /\ backlog' = <<>>
         /\ todo' \in Seq(Tx)
         /\ pc' \in {"ended", "marking"}
         /\ pc' = "marking" => todo' # <<>>
<1> DEFINE slice == SubSeq(list, 1, SliceEnd(list))
<1>1. SliceEnd(list) \in Nat /\ SliceEnd(list) <= Len(list) /\ Len(list) \in Nat
  BY OutboxAssumption DEF SliceEnd
<1>2. slice \in Seq(Tx) /\ ToSet(slice) \subseteq ToSet(list)
  BY <1>1, SliceOf
<1>3. /\ SubSeq(list, SliceEnd(list) + 1, Len(list)) \in Seq(Tx)
      /\ ToSet(SubSeq(list, SliceEnd(list) + 1, Len(list))) \subseteq ToSet(list)
  <2>1. SliceEnd(list) + 1 \in Nat \ {0}
    BY <1>1
  <2> QED
    BY <1>1, <2>1, SliceOf
<1>4. /\ SendBatch(slice, owed, held, {})
      /\ replay' = SubSeq(list, SliceEnd(list) + 1, Len(list))
  BY DEF SendSlice
<1> HIDE DEF slice
<1>5. /\ batch' \in Seq(Tx)
      /\ ToSet(batch') = ToSet(owed) \cup ToSet(slice)
      /\ held' = {} \cup ToSet(owed) \cup ToSet(slice)
      /\ claimed' = (claimed \ held) \cup ToSet(owed) \cup ToSet(slice)
      /\ held' \subseteq Tx /\ claimed' \subseteq Tx
      /\ backlog' = <<>>
      /\ todo' \in Seq(Tx)
      /\ pc' \in {"ended", "marking"}
      /\ pc' = "marking" => todo' # <<>>
  <2>1. held \in SUBSET Tx /\ {} \in SUBSET Tx
    OBVIOUS
  <2> QED
    BY <1>2, <1>4, <2>1, SendBatchEffect
<1> QED
  BY <1>2, <1>3, <1>4, <1>5, Zenon

\* The synchronous part of a discard.
LEMMA DiscardEffect ==
  ASSUME pending \in Seq(Tx), claimed \subseteq Tx, discarded \subseteq Tx,
         NEW t \in Tx, DiscardFromMemory(t)
  PROVE  /\ pending' \in Seq(Tx)
         /\ ToSet(pending') = ToSet(pending) \ {t}
         /\ t \in ToSet(pending) => claimed' = claimed \ {t} /\ discarded' = discarded
         /\ t \notin ToSet(pending) =>
              /\ claimed' = claimed
              /\ discarded' = discarded \cup ({t} \cap claimed)
         /\ claimed' \subseteq Tx /\ discarded' \subseteq Tx
<1>1. /\ Without(pending, {t}) \in Seq(Tx)
      /\ ToSet(Without(pending, {t})) = ToSet(pending) \ {t}
  BY WithoutDropsTheSet
<1> QED
  BY <1>1 DEF DiscardFromMemory

\* The rest of a discard.
LEMMA RemoveRowEffect ==
  ASSUME rows \in [Tx -> RowState], backlog \in Seq(Tx), localIds \subseteq Tx,
         NEW t, RemoveRow(t)
  PROVE  /\ rows' \in [Tx -> RowState]
         /\ \A u \in Tx : rows'[u] = IF u = t THEN "none" ELSE rows[u]
         /\ backlog' \in Seq(Tx)
         /\ ToSet(backlog') = ToSet(backlog) \ {t}
         /\ localIds' \subseteq Tx
<1>1. backlog' \in Seq(Tx) /\ ToSet(backlog') = ToSet(backlog) \ {t}
  BY WithoutDropsTheSet DEF RemoveRow
<1> QED
  BY <1>1 DEF RemoveRow, RowState

\* An update changes a row that is there.
LEMMA TouchEffect ==
  ASSUME rows \in [Tx -> RowState], NEW t \in Tx, NEW state \in RowState \ {"none"}
  PROVE  /\ Touch(t, state) \in [Tx -> RowState]
         /\ \A u \in Tx : Touch(t, state)[u] =
              IF u = t /\ rows[t] # "none" THEN state ELSE rows[u]
         /\ \A u \in Tx : Touch(t, state)[u] = "none" <=> rows[u] = "none"
BY DEF Touch, RowState

\* The loop over a reply's results goes on.
LEMMA NextResultEffect ==
  ASSUME todo \in Seq(Tx), todo # <<>>, missed \in Seq(Tx), NextResult
  PROVE  /\ todo' \in Seq(Tx)
         /\ pc' \in {"results", "requeueing", "ended"}
         /\ pc' \in {"results", "requeueing"} => todo' # <<>>
<1>1. Tail(todo) \in Seq(Tx) /\ (Len(todo) > 1 => Tail(todo) # <<>>)
  BY HeadAndTail
<1> QED
  BY <1>1, Zenon DEF NextResult

\* The running job ends.
LEMMA FinishJobEffect ==
  ASSUME queue \in Seq(Job), queue # <<>>, FinishJob
  PROVE  /\ pc' = "idle" /\ held' = {} /\ batch' = <<>> /\ todo' = <<>>
         /\ replay' = <<>> /\ failed' = FALSE
         /\ \/ queue' = Tail(queue)
            \/ queue' = Append(Tail(queue), [kind |-> "replay", txs |-> <<>>])
         /\ queue' \in Seq(Job)
         /\ drain' \in {drain, "replay", "idle"}
<1>1. Tail(queue) \in Seq(Job)
  BY JobTxsTail
<1>2. [kind |-> "replay", txs |-> <<>>] \in Job
  BY DEF Job
<1>3. Append(Tail(queue), [kind |-> "replay", txs |-> <<>>]) \in Seq(Job)
  BY <1>1, <1>2, JobTxsAppend
<1>4. CASE Head(queue).kind = "send"
  BY <1>1, <1>4 DEF FinishJob
<1>5. CASE Head(queue).kind # "send" /\ Head(queue).kind = "flush" /\ ~failed
  BY <1>3, <1>5 DEF FinishJob
<1>6. CASE Head(queue).kind # "send" /\ ~(Head(queue).kind = "flush" /\ ~failed)
  BY <1>1, <1>6 DEF FinishJob
<1> QED
  BY <1>4, <1>5, <1>6

\* What the server makes of a transaction: an "ok" says that it is in the log,
\* which only grows.
LEMMA ServerOutcomeEffect ==
  ASSUME log \in Seq(Tx), NEW t \in Tx, NEW outcome \in ServerOutcome(t)
  PROVE  /\ outcome[1] \in {"ok", "refused"}
         /\ outcome[2] \in Seq(Tx)
         /\ ToSet(log) \subseteq ToSet(outcome[2])
         /\ Len(log) <= Len(outcome[2])
         /\ outcome[1] = "ok" => t \in ToSet(outcome[2])
<1>1. /\ Append(log, t) \in Seq(Tx)
      /\ ToSet(Append(log, t)) = ToSet(log) \cup {t}
  BY AppendLists
<1>2. Len(Append(log, t)) = Len(log) + 1 /\ Len(log) \in Nat
  OBVIOUS
<1>3. CASE t \in ToSet(log) /\ outcome = <<"ok", log>>
  BY <1>2, <1>3
<1>4. CASE outcome = <<"ok", Append(log, t)>>
  BY <1>1, <1>2, <1>4
<1>5. CASE outcome = <<"refused", log>>
  BY <1>2, <1>5
<1>6. \/ t \in ToSet(log) /\ outcome = <<"ok", log>>
      \/ outcome = <<"ok", Append(log, t)>>
      \/ outcome = <<"refused", log>>
  BY DEF ServerOutcome
<1> QED
  BY <1>3, <1>4, <1>5, <1>6

\* Init establishes the types.
LEMMA TypeInit == Init => TypeOK
<1> SUFFICES ASSUME Init PROVE TypeOK
  OBVIOUS
<1>1. StorageTypeOK /\ ClaimTypeOK /\ PacketTypeOK
  BY DEF Init, StorageTypeOK, ClaimTypeOK, PacketTypeOK, RowState
<1>2. <<>> \in Seq(Tx) /\ <<>> \in Seq(Job) /\ <<>> \in Seq({"job", "packet"})
  BY EmptySeq
<1>3. ListTypeOK /\ JobTypeOK
  BY <1>2 DEF Init, ListTypeOK, JobTypeOK
<1>4. ServerTypeOK
  BY <1>2 DEF Init, ServerTypeOK
<1>5. ControlTypeOK
  BY <1>2 DEF Init, ControlTypeOK
<1>6. HistoryTypeOK
  <2>1. 0 \in 0 .. NumTx
    BY OutboxAssumption
  <2> QED
    BY <2>1 DEF Init, HistoryTypeOK
<1> QED
  BY <1>1, <1>3, <1>4, <1>5, <1>6 DEF TypeOK

-----------------------------------------------------------------------------
(* Types *)

\* Every step preserves the types.
LEMMA TypeStep ==
  ASSUME TypeOK, JobInv, IndexInv, SettledInv, [Next]_vars
  PROVE  TypeOK'
<1> USE DEF TypeOK, vars, storageVars, listVars, claimVars, indexVars, jobVars,
            serverVars, pktVars, historyVars
<1>1. CASE QueueTransaction
  <2>1. made + 1 \in Tx
    BY <1>1, OutboxAssumption DEF QueueTransaction, Tx, HistoryTypeOK
  <2>2. (IF seeded THEN nextIndex ELSE SeededIndex) \in Nat
    BY SeededIndexIsAbove DEF StorageTypeOK, ControlTypeOK
  <2>3. Append(pending, made + 1) \in Seq(Tx) /\ <<>> \in Seq(Tx)
    BY <2>1 DEF ListTypeOK
  <2>4. [kind |-> "send", txs |-> Append(pending, made + 1)] \in Job
    BY <2>3 DEF Job
  <2>5. Append(queue, [kind |-> "send", txs |-> Append(pending, made + 1)]) \in Seq(Job)
    BY <2>4 DEF ListTypeOK
  <2>6. StorageTypeOK'
    BY <1>1, <2>1, <2>2
      DEF QueueTransaction, StorageTypeOK, RowState
  <2>7. ListTypeOK'
    BY <1>1, <2>3, <2>5
      DEF QueueTransaction, ListTypeOK
  <2>8. ClaimTypeOK'
    BY <1>1, <2>1
      DEF QueueTransaction, ClaimTypeOK
  <2>9. ControlTypeOK'
    BY <1>1, <2>2
      DEF QueueTransaction, ControlTypeOK
  <2>10. HistoryTypeOK'
    BY <1>1, <2>1, OutboxAssumption
      DEF QueueTransaction, HistoryTypeOK, Tx
  <2>11. JobTypeOK' /\ ServerTypeOK' /\ PacketTypeOK'
    BY <1>1 DEF QueueTransaction,
         JobTypeOK, ServerTypeOK, PacketTypeOK
  <2> QED
    BY <2>6, <2>7, <2>8, <2>9, <2>10, <2>11
<1>2. CASE BatchTimerFires
  <2>1. [kind |-> "send", txs |-> pending] \in Job /\ ToSet(pending) \subseteq Tx
    BY DEF Job, ListTypeOK, ToSet
  <2>2. /\ Append(queue, [kind |-> "send", txs |-> pending]) \in Seq(Job)
        /\ <<>> \in Seq(Tx)
    BY <2>1 DEF ListTypeOK
  <2>3. ListTypeOK'
    BY <1>2, <2>2
      DEF BatchTimerFires, ListTypeOK, Dispatch
  <2>4. ClaimTypeOK'
    BY <1>2, <2>1
      DEF BatchTimerFires, ClaimTypeOK, Dispatch
  <2>5. /\ StorageTypeOK' /\ ControlTypeOK' /\ JobTypeOK' /\ ServerTypeOK'
        /\ PacketTypeOK' /\ HistoryTypeOK'
    BY Zenon, <1>2 DEF BatchTimerFires,
         StorageTypeOK, ControlTypeOK, JobTypeOK, ServerTypeOK, PacketTypeOK,
         HistoryTypeOK
  <2> QED
    BY <2>3, <2>4, <2>5
<1>3. CASE DrainStart
  <2>1. /\ [kind |-> "flush", txs |-> pending] \in Job
        /\ [kind |-> "replay", txs |-> <<>>] \in Job
        /\ ToSet(pending) \subseteq Tx /\ ToSet(<<>>) \subseteq Tx
    BY DEF Job, ListTypeOK, ToSet
  <2>2. /\ Append(queue, [kind |-> "flush", txs |-> pending]) \in Seq(Job)
        /\ Append(queue, [kind |-> "replay", txs |-> <<>>]) \in Seq(Job)
        /\ <<>> \in Seq(Tx)
    BY <2>1 DEF ListTypeOK
  <2>3. ListTypeOK'
    BY <1>3, <2>2
      DEF DrainStart, ListTypeOK, Dispatch
  <2>4. ClaimTypeOK'
    BY <1>3, <2>1
      DEF DrainStart, ClaimTypeOK, Dispatch
  <2>5. ControlTypeOK'
    BY <1>3
      DEF DrainStart, ControlTypeOK, Dispatch
  <2>6. StorageTypeOK' /\ JobTypeOK' /\ ServerTypeOK' /\ PacketTypeOK' /\ HistoryTypeOK'
    BY <1>3 DEF DrainStart,
         StorageTypeOK, JobTypeOK, ServerTypeOK, PacketTypeOK, HistoryTypeOK
  <2> QED
    BY <2>3, <2>4, <2>5, <2>6
<1>4. CASE StartSendJob
  <2>1. Head(queue).txs \in Seq(Tx) /\ {} \in SUBSET Tx
    BY <1>4, JobTxsTail DEF StartSendJob, ListTypeOK, Job
  <2>2. /\ batch' \in Seq(Tx) /\ held' \subseteq Tx /\ claimed' \subseteq Tx
        /\ backlog' = <<>> /\ todo' \in Seq(Tx) /\ pc' \in {"ended", "marking"}
    BY <1>4, <2>1, SendBatchEffect DEF StartSendJob, ListTypeOK, ClaimTypeOK
  <2>3. ListTypeOK' /\ ClaimTypeOK' /\ JobTypeOK'
    BY <1>4, <2>2
      DEF StartSendJob, ListTypeOK, ClaimTypeOK, JobTypeOK
  <2>4. ControlTypeOK'
    BY <1>4, <2>2, WaitersStayAList
      DEF StartSendJob, ControlTypeOK, JobOps, PacketOps
  <2>5. StorageTypeOK' /\ ServerTypeOK' /\ PacketTypeOK' /\ HistoryTypeOK'
    BY <1>4 DEF StartSendJob,
         StorageTypeOK, ServerTypeOK, PacketTypeOK, HistoryTypeOK
  <2> QED
    BY <2>3, <2>4, <2>5
<1>5. CASE StartReplayJob
  <2>1. ControlTypeOK'
    BY <1>5, WaitersStayAList
      DEF StartReplayJob, ControlTypeOK, JobOps, PacketOps
  <2>2. /\ StorageTypeOK' /\ ListTypeOK' /\ ClaimTypeOK' /\ JobTypeOK'
        /\ ServerTypeOK' /\ PacketTypeOK' /\ HistoryTypeOK'
    BY <1>5 DEF StartReplayJob,
         StorageTypeOK, ListTypeOK, ClaimTypeOK, JobTypeOK, ServerTypeOK,
         PacketTypeOK, HistoryTypeOK
  <2> QED
    BY <2>1, <2>2
<1>6. CASE OutboxRead
  <2>1. SeededIndex \in Nat /\ <<>> \in Seq(Tx)
        /\ InOutboxOrder({t \in Unclaimed : rows[t] = "sent"}) \in Seq(Tx)
        /\ InOutboxOrder(Replayable(Unclaimed)) \in Seq(Tx)
    BY SeededIndexIsAbove, InOutboxOrderLists
      DEF StorageTypeOK, ControlTypeOK, IndexInv, Unclaimed, Replayable
  <2>2. SendSlice(InOutboxOrder(Replayable(Unclaimed)), <<>>)
         => /\ batch' \in Seq(Tx) /\ held' \subseteq Tx /\ claimed' \subseteq Tx
            /\ backlog' = <<>> /\ todo' \in Seq(Tx) /\ replay' \in Seq(Tx)
            /\ pc' \in {"ended", "marking"}
    BY <2>1, SendSliceEffect DEF ClaimTypeOK, JobTypeOK
  <2>3. ListTypeOK' /\ ClaimTypeOK' /\ JobTypeOK'
    BY <1>6, <2>1, <2>2
      DEF OutboxRead, ListTypeOK, ClaimTypeOK, JobTypeOK
  <2>4. ControlTypeOK'
    BY <1>6, <2>1, <2>2, WaitersStayAList
      DEF OutboxRead, ControlTypeOK, JobOps, PacketOps
  <2>5. StorageTypeOK' /\ ServerTypeOK' /\ PacketTypeOK' /\ HistoryTypeOK'
    BY <1>6 DEF OutboxRead,
         StorageTypeOK, ServerTypeOK, PacketTypeOK, HistoryTypeOK
  <2> QED
    BY <2>3, <2>4, <2>5
<1>7. CASE ResetSent
  <2>1. todo # <<>> /\ Head(todo) \in Tx /\ Tail(todo) \in Seq(Tx)
    BY <1>7, HeadAndTail DEF ResetSent, JobInv, Loops, JobTypeOK
  <2>2. Requeued(Head(todo)) \in [Tx -> RowState]
    BY <2>1, TouchEffect DEF StorageTypeOK, RowState, Requeued
  <2>3. SendSlice(replay, backlog)
         => /\ batch' \in Seq(Tx) /\ held' \subseteq Tx /\ claimed' \subseteq Tx
            /\ backlog' = <<>> /\ todo' \in Seq(Tx) /\ replay' \in Seq(Tx)
            /\ pc' \in {"ended", "marking"}
    BY SendSliceEffect DEF ListTypeOK, ClaimTypeOK, JobTypeOK
  <2>4. StorageTypeOK'
    BY <1>7, <2>2
      DEF ResetSent, StorageTypeOK
  <2>5. ListTypeOK' /\ ClaimTypeOK' /\ JobTypeOK'
    <3>1. CASE Len(todo) > 1
      BY <1>7, <2>1, <3>1 DEF ResetSent, ListTypeOK, ClaimTypeOK, JobTypeOK
    <3>2. CASE ~(Len(todo) > 1)
      BY <1>7, <2>3, <3>2 DEF ResetSent, ListTypeOK, ClaimTypeOK, JobTypeOK
    <3> QED
      BY <3>1, <3>2
  <2>6. ControlTypeOK'
    BY <1>7, <2>3, WaitersStayAList
      DEF ResetSent, ControlTypeOK, JobOps, PacketOps
  <2>7. ServerTypeOK' /\ PacketTypeOK' /\ HistoryTypeOK'
    BY <1>7 DEF ResetSent,
         ServerTypeOK, PacketTypeOK, HistoryTypeOK
  <2> QED
    BY <2>4, <2>5, <2>6, <2>7
<1>8. CASE MarkSent
  <2>1. todo # <<>> /\ Head(todo) \in Tx /\ Tail(todo) \in Seq(Tx)
    BY <1>8, HeadAndTail DEF MarkSent, JobInv, Loops, JobTypeOK
  <2>2. Touch(Head(todo), "sent") \in [Tx -> RowState]
    BY <2>1, TouchEffect DEF StorageTypeOK, RowState
  <2>3. Without(batch, discarded) \in Seq(Tx)
    BY WithoutDropsTheSet DEF JobTypeOK
  <2>4. StorageTypeOK'
    BY <1>8, <2>2
      DEF MarkSent, StorageTypeOK
  <2>5. JobTypeOK' /\ ServerTypeOK'
    BY <1>8, <2>1, <2>3
      DEF MarkSent, JobTypeOK, ServerTypeOK
  <2>6. ControlTypeOK'
    BY <1>8, WaitersStayAList
      DEF MarkSent, ControlTypeOK, JobOps, PacketOps
  <2>7. ListTypeOK' /\ ClaimTypeOK' /\ PacketTypeOK' /\ HistoryTypeOK'
    BY <1>8 DEF MarkSent,
         ListTypeOK, ClaimTypeOK, PacketTypeOK, HistoryTypeOK
  <2> QED
    BY <2>4, <2>5, <2>6, <2>7
<1>9. CASE TransportFails
  <2>1. late' \subseteq Seq(Tx)
    BY <1>9 DEF TransportFails, ServerTypeOK
  <2>2. JobTypeOK'
    BY <1>9
      DEF TransportFails, JobTypeOK
  <2>3. ServerTypeOK'
    BY <1>9, <2>1
      DEF TransportFails, ServerTypeOK
  <2>4. ControlTypeOK'
    BY <1>9, WaitersStayAList
      DEF TransportFails, ControlTypeOK, JobOps, PacketOps
  <2>5. HistoryTypeOK'
    BY <1>9
      DEF TransportFails, HistoryTypeOK
  <2>6. StorageTypeOK' /\ ListTypeOK' /\ ClaimTypeOK' /\ PacketTypeOK'
    BY <1>9 DEF TransportFails,
         StorageTypeOK, ListTypeOK, ClaimTypeOK, PacketTypeOK
  <2> QED
    BY <2>2, <2>3, <2>4, <2>5, <2>6
<1>10. CASE Requeue
  <2>1. todo # <<>> /\ Head(todo) \in Tx /\ Tail(todo) \in Seq(Tx)
    BY <1>10, HeadAndTail DEF Requeue, JobInv, Loops, JobTypeOK
  <2>2. Requeued(Head(todo)) \in [Tx -> RowState]
    BY <2>1, TouchEffect DEF StorageTypeOK, RowState, Requeued
  <2>3. /\ Without(batch, discarded) \in Seq(Tx) /\ Without(missed, discarded) \in Seq(Tx)
        /\ backlog \o Without(batch, discarded) \in Seq(Tx)
        /\ backlog \o Without(missed, discarded) \in Seq(Tx)
    BY WithoutDropsTheSet, ListsOf DEF JobTypeOK, ListTypeOK
  <2>4. StorageTypeOK'
    BY <1>10, <2>2
      DEF Requeue, StorageTypeOK
  <2>5. ListTypeOK'
    BY <1>10, <2>3
      DEF Requeue, ListTypeOK
  <2>6. JobTypeOK'
    BY <1>10, <2>1
      DEF Requeue, JobTypeOK
  <2>7. ControlTypeOK'
    BY <1>10, WaitersStayAList
      DEF Requeue, ControlTypeOK, JobOps, PacketOps
  <2>8. ClaimTypeOK' /\ ServerTypeOK' /\ PacketTypeOK' /\ HistoryTypeOK'
    BY <1>10 DEF Requeue,
         ClaimTypeOK, ServerTypeOK, PacketTypeOK, HistoryTypeOK
  <2> QED
    BY <2>4, <2>5, <2>6, <2>7, <2>8
<1>11. CASE ReplyArrives
  <2>1. \A S : Without(batch, S) \in Seq(Tx)
    BY WithoutDropsTheSet DEF JobTypeOK
  <2>2. JobTypeOK'
    BY <1>11, <2>1
      DEF ReplyArrives, JobTypeOK
  <2>3. ControlTypeOK'
    BY <1>11, WaitersStayAList
      DEF ReplyArrives, ControlTypeOK, JobOps, PacketOps
  <2>4. /\ StorageTypeOK' /\ ListTypeOK' /\ ClaimTypeOK' /\ ServerTypeOK'
        /\ PacketTypeOK' /\ HistoryTypeOK'
    BY <1>11 DEF ReplyArrives,
         StorageTypeOK, ListTypeOK, ClaimTypeOK, ServerTypeOK, PacketTypeOK,
         HistoryTypeOK
  <2> QED
    BY <2>2, <2>3, <2>4
<1>12. CASE Acknowledge
  <2>1. todo # <<>> /\ Head(todo) \in Tx /\ Tail(todo) \in Seq(Tx)
    BY <1>12, HeadAndTail DEF Acknowledge, JobInv, Loops, JobTypeOK
  <2>2. Touch(Head(todo), "awaitingSync") \in [Tx -> RowState]
    BY <2>1, TouchEffect DEF StorageTypeOK, RowState
  <2>3. SyncIdOf(Head(todo)) \in Nat
    <3>1. Head(todo) \in ToSet(log)
      BY <1>12, <2>1 DEF Acknowledge, SettledInv, VerdictsAreTrue
    <3>2. \E id \in DOMAIN log : log[id] = Head(todo)
      BY <3>1 DEF ToSet
    <3>3. SyncIdOf(Head(todo)) \in DOMAIN log
      BY <3>2 DEF SyncIdOf
    <3> QED
      BY <3>3 DEF ServerTypeOK
  <2>4. todo' \in Seq(Tx) /\ pc' \in {"results", "requeueing", "ended"}
    BY <1>12, <2>1, NextResultEffect DEF Acknowledge, JobTypeOK
  <2>5. StorageTypeOK'
    BY <1>12, <2>1, <2>2, <2>3
      DEF Acknowledge, StorageTypeOK
  <2>6. JobTypeOK'
    BY <1>12, <2>4
      DEF Acknowledge, JobTypeOK
  <2>7. ControlTypeOK'
    BY <1>12, <2>4, WaitersStayAList
      DEF Acknowledge, ControlTypeOK, JobOps, PacketOps
  <2>8. ListTypeOK' /\ ClaimTypeOK' /\ ServerTypeOK' /\ PacketTypeOK' /\ HistoryTypeOK'
    BY <1>12 DEF Acknowledge,
         ListTypeOK, ClaimTypeOK, ServerTypeOK, PacketTypeOK, HistoryTypeOK
  <2> QED
    BY <2>5, <2>6, <2>7, <2>8
<1>13. CASE Refuse
  <2>1. todo # <<>> /\ Head(todo) \in Tx /\ Tail(todo) \in Seq(Tx)
    BY <1>13, HeadAndTail DEF Refuse, JobInv, Loops, JobTypeOK
  <2>2. Touch(Head(todo), "failed") \in [Tx -> RowState]
    BY <2>1, TouchEffect DEF StorageTypeOK, RowState
  <2>3. pending' \in Seq(Tx) /\ claimed' \subseteq Tx /\ discarded' \subseteq Tx
    BY <1>13, <2>1, DiscardEffect DEF Refuse, ListTypeOK, ClaimTypeOK
  <2>4. StorageTypeOK'
    BY <1>13, <2>2
      DEF Refuse, StorageTypeOK
  <2>5. ListTypeOK' /\ ClaimTypeOK'
    BY <1>13, <2>3
      DEF Refuse, ListTypeOK, ClaimTypeOK
  <2>6. ControlTypeOK'
    BY <1>13, WaitersStayAList
      DEF Refuse, ControlTypeOK, JobOps, PacketOps
  <2>7. HistoryTypeOK'
    BY <1>13, <2>1
      DEF Refuse, HistoryTypeOK
  <2>8. JobTypeOK' /\ ServerTypeOK' /\ PacketTypeOK'
    BY <1>13 DEF Refuse,
         JobTypeOK, ServerTypeOK, PacketTypeOK
  <2> QED
    BY <2>4, <2>5, <2>6, <2>7, <2>8
<1>14. CASE RefusedRemoved
  <2>1. todo # <<>> /\ Head(todo) \in Tx /\ Tail(todo) \in Seq(Tx)
    BY <1>14, HeadAndTail DEF RefusedRemoved, JobInv, Loops, JobTypeOK
  <2>2. rows' \in [Tx -> RowState] /\ backlog' \in Seq(Tx) /\ localIds' \subseteq Tx
    BY <1>14, RemoveRowEffect DEF RefusedRemoved, StorageTypeOK, ListTypeOK, ClaimTypeOK
  <2>3. todo' \in Seq(Tx) /\ pc' \in {"results", "requeueing", "ended"}
    BY <1>14, <2>1, NextResultEffect DEF RefusedRemoved, JobTypeOK
  <2>4. StorageTypeOK' /\ ListTypeOK' /\ ClaimTypeOK'
    BY <1>14, <2>2
      DEF RefusedRemoved, StorageTypeOK, ListTypeOK, ClaimTypeOK
  <2>5. JobTypeOK'
    BY <1>14, <2>3
      DEF RefusedRemoved, JobTypeOK
  <2>6. ControlTypeOK'
    BY <1>14, <2>3, WaitersStayAList
      DEF RefusedRemoved, ControlTypeOK, JobOps, PacketOps
  <2>7. ServerTypeOK' /\ PacketTypeOK' /\ HistoryTypeOK'
    BY <1>14 DEF RefusedRemoved,
         ServerTypeOK, PacketTypeOK, HistoryTypeOK
  <2> QED
    BY <2>4, <2>5, <2>6, <2>7
<1>15. CASE BatchRefused
  <2>1. todo' \in Seq(Tx) /\ <<>> \in Seq(Tx)
    BY <1>15 DEF BatchRefused, ServerTypeOK, ToSet
  <2>2. JobTypeOK' /\ ServerTypeOK'
    BY <1>15, <2>1
      DEF BatchRefused, JobTypeOK, ServerTypeOK
  <2>3. ControlTypeOK'
    BY <1>15, WaitersStayAList
      DEF BatchRefused, ControlTypeOK, JobOps, PacketOps
  <2>4. StorageTypeOK' /\ ListTypeOK' /\ ClaimTypeOK' /\ PacketTypeOK' /\ HistoryTypeOK'
    BY <1>15 DEF BatchRefused,
         StorageTypeOK, ListTypeOK, ClaimTypeOK, PacketTypeOK, HistoryTypeOK
  <2> QED
    BY <2>2, <2>3, <2>4
<1>16. CASE CulpritRemoved
  <2>1. todo # <<>> /\ Head(todo) \in Tx /\ Tail(todo) \in Seq(Tx)
    BY <1>16, HeadAndTail DEF CulpritRemoved, JobInv, Loops, JobTypeOK
  <2>2. rows' \in [Tx -> RowState] /\ backlog' \in Seq(Tx) /\ localIds' \subseteq Tx
    BY <1>16, RemoveRowEffect DEF CulpritRemoved, StorageTypeOK, ListTypeOK, ClaimTypeOK
  <2>3. Without(batch, {Head(todo)}) \in Seq(Tx)
    BY WithoutDropsTheSet DEF JobTypeOK
  <2>4. StorageTypeOK' /\ ListTypeOK' /\ ClaimTypeOK'
    BY <1>16, <2>2
      DEF CulpritRemoved, StorageTypeOK, ListTypeOK, ClaimTypeOK
  <2>5. JobTypeOK'
    BY <1>16, <2>3
      DEF CulpritRemoved, JobTypeOK
  <2>6. ControlTypeOK'
    BY <1>16, WaitersStayAList
      DEF CulpritRemoved, ControlTypeOK, JobOps, PacketOps
  <2>7. ServerTypeOK' /\ PacketTypeOK' /\ HistoryTypeOK'
    BY <1>16 DEF CulpritRemoved,
         ServerTypeOK, PacketTypeOK, HistoryTypeOK
  <2> QED
    BY <2>4, <2>5, <2>6, <2>7
<1>17. CASE Restore
  <2>1. todo # <<>> /\ Head(todo) \in Tx /\ Tail(todo) \in Seq(Tx)
    BY <1>17, HeadAndTail DEF Restore, JobInv, Loops, JobTypeOK
  <2>2. Requeued(Head(todo)) \in [Tx -> RowState]
    BY <2>1, TouchEffect DEF StorageTypeOK, RowState, Requeued
  <2>3. SendBatch(batch, backlog, {}, held)
         => /\ batch' \in Seq(Tx) /\ held' \subseteq Tx /\ claimed' \subseteq Tx
            /\ backlog' = <<>> /\ todo' \in Seq(Tx) /\ pc' \in {"ended", "marking"}
    <3>1. {} \in SUBSET Tx /\ held \in SUBSET Tx
      BY DEF JobTypeOK
    <3> QED
      BY <3>1, SendBatchEffect DEF ListTypeOK, ClaimTypeOK, JobTypeOK
  <2>4. StorageTypeOK'
    BY <1>17, <2>2
      DEF Restore, StorageTypeOK
  <2>5. ListTypeOK' /\ ClaimTypeOK' /\ JobTypeOK'
    <3>1. CASE Len(todo) > 1
      BY <1>17, <2>1, <3>1 DEF Restore, ListTypeOK, ClaimTypeOK, JobTypeOK
    <3>2. CASE ~(Len(todo) > 1)
      BY <1>17, <2>3, <3>2 DEF Restore, ListTypeOK, ClaimTypeOK, JobTypeOK
    <3> QED
      BY <3>1, <3>2
  <2>6. ControlTypeOK'
    BY <1>17, <2>3, WaitersStayAList
      DEF Restore, ControlTypeOK, JobOps, PacketOps
  <2>7. ServerTypeOK' /\ PacketTypeOK' /\ HistoryTypeOK'
    BY <1>17 DEF Restore,
         ServerTypeOK, PacketTypeOK, HistoryTypeOK
  <2> QED
    BY <2>4, <2>5, <2>6, <2>7
<1>18. CASE EndSend
  <2>1. SendSlice(replay, backlog)
         => /\ batch' \in Seq(Tx) /\ held' \subseteq Tx /\ claimed' \subseteq Tx
            /\ backlog' = <<>> /\ todo' \in Seq(Tx) /\ replay' \in Seq(Tx)
            /\ pc' \in {"ended", "marking"}
    BY SendSliceEffect DEF ListTypeOK, ClaimTypeOK, JobTypeOK
  <2>2. FinishJob
         => /\ queue' \in Seq(Job) /\ drain' \in {drain, "replay", "idle"}
            /\ pc' = "idle" /\ held' = {} /\ batch' = <<>> /\ todo' = <<>>
            /\ replay' = <<>> /\ failed' = FALSE
    BY <1>18, FinishJobEffect DEF EndSend, ListTypeOK, JobInv
  <2>3. ListTypeOK' /\ ClaimTypeOK' /\ JobTypeOK'
    <3>1. <<>> \in Seq(Tx)
      BY EmptySeq
    <3>2. CASE replay # <<>> /\ ~failed
      BY <1>18, <2>1, <3>1, <3>2 DEF EndSend, ListTypeOK, ClaimTypeOK, JobTypeOK
    <3>3. CASE ~(replay # <<>> /\ ~failed)
      BY <1>18, <2>2, <3>1, <3>3 DEF EndSend, ListTypeOK, ClaimTypeOK, JobTypeOK
    <3> QED
      BY <3>2, <3>3
  <2>4. ControlTypeOK'
    BY <1>18, <2>1, <2>2, WaitersStayAList
      DEF EndSend, ControlTypeOK, JobOps, PacketOps
  <2>5. ServerTypeOK'
    BY <1>18
      DEF EndSend, ServerTypeOK
  <2>6. StorageTypeOK' /\ PacketTypeOK' /\ HistoryTypeOK'
    BY <1>18 DEF EndSend,
         StorageTypeOK, PacketTypeOK, HistoryTypeOK
  <2> QED
    BY <2>3, <2>4, <2>5, <2>6
<1>19. CASE ServerTakesNext
  <2>1. Head(request) \in Tx /\ Tail(request) \in Seq(Tx)
    BY <1>19, HeadAndTail DEF ServerTakesNext, ServerTypeOK
  <2>2. \A outcome \in ServerOutcome(Head(request)) :
          outcome[1] \in {"ok", "refused"} /\ outcome[2] \in Seq(Tx)
    BY <2>1, ServerOutcomeEffect DEF ServerTypeOK
  <2>3. ServerTypeOK'
    BY <1>19, <2>1, <2>2
      DEF ServerTakesNext, ServerTypeOK
  <2>4. /\ StorageTypeOK' /\ ListTypeOK' /\ ClaimTypeOK' /\ ControlTypeOK'
        /\ JobTypeOK' /\ PacketTypeOK' /\ HistoryTypeOK'
    <3>1. UNCHANGED <<io, storageVars, listVars, claimVars, indexVars, drain, jobVars, pktVars, historyVars>>
      BY <1>19 DEF ServerTakesNext
    <3>2. StorageTypeOK' /\ ListTypeOK' /\ ClaimTypeOK' /\ ControlTypeOK'
      BY <3>1 DEF StorageTypeOK, ListTypeOK, ClaimTypeOK, ControlTypeOK
    <3>3. JobTypeOK' /\ PacketTypeOK' /\ HistoryTypeOK'
      BY <3>1 DEF JobTypeOK, PacketTypeOK, HistoryTypeOK
    <3> QED
      BY <3>2, <3>3
  <2> QED
    BY <2>3, <2>4
<1>20. CASE ServerTakesLate
  <2>1. \A r \in late : r # <<>> /\ Head(r) \in Tx /\ Tail(r) \in Seq(Tx)
    BY HeadAndTail DEF ServerTypeOK, JobInv
  <2>2. \A r \in late : \A outcome \in ServerOutcome(Head(r)) : outcome[2] \in Seq(Tx)
    BY <2>1, ServerOutcomeEffect DEF ServerTypeOK
  <2>3. ServerTypeOK'
    BY ZenonT(30), <1>20, <2>1, <2>2
      DEF ServerTakesLate, ServerTypeOK
  <2>4. /\ StorageTypeOK' /\ ListTypeOK' /\ ClaimTypeOK' /\ ControlTypeOK'
        /\ JobTypeOK' /\ PacketTypeOK' /\ HistoryTypeOK'
    BY <1>20 DEF ServerTakesLate,
         StorageTypeOK, ListTypeOK, ClaimTypeOK, ControlTypeOK, JobTypeOK,
         PacketTypeOK, HistoryTypeOK
  <2> QED
    BY <2>3, <2>4
<1>21. CASE PacketArrives
  <2>1. pktUpTo' \in Nat
    BY <1>21 DEF PacketArrives, StorageTypeOK, ServerTypeOK
  <2>2. ControlTypeOK'
    BY <1>21, WaitersStayAList
      DEF PacketArrives, ControlTypeOK, JobOps, PacketOps
  <2>3. PacketTypeOK'
    BY <1>21, <2>1
      DEF PacketArrives, PacketTypeOK
  <2>4. /\ StorageTypeOK' /\ ListTypeOK' /\ ClaimTypeOK' /\ JobTypeOK'
        /\ ServerTypeOK' /\ HistoryTypeOK'
    BY <1>21 DEF PacketArrives,
         StorageTypeOK, ListTypeOK, ClaimTypeOK, JobTypeOK, ServerTypeOK, HistoryTypeOK
  <2> QED
    BY <2>2, <2>3, <2>4
<1>22. CASE RebaseRead
  <2>1. \A t \in Tx : DiscardFromMemory(t)
         => pending' \in Seq(Tx) /\ claimed' \subseteq Tx /\ discarded' \subseteq Tx
    BY DiscardEffect DEF ListTypeOK, ClaimTypeOK
  <2>2. ListTypeOK' /\ ClaimTypeOK' /\ PacketTypeOK' /\ HistoryTypeOK'
    BY <1>22, <2>1
      DEF RebaseRead, ListTypeOK, ClaimTypeOK, PacketTypeOK, HistoryTypeOK,
      BeginDiscard, NothingToDiscard
  <2>3. ControlTypeOK'
    BY <1>22, WaitersStayAList
      DEF RebaseRead, ControlTypeOK, JobOps, PacketOps, NothingToDiscard
  <2>4. StorageTypeOK' /\ JobTypeOK' /\ ServerTypeOK'
    BY <1>22 DEF RebaseRead,
         StorageTypeOK, JobTypeOK, ServerTypeOK
  <2> QED
    BY <2>2, <2>3, <2>4
<1>23. CASE LoserRemoved
  <2>1. \A t \in Tx : DiscardFromMemory(t)
         => pending' \in Seq(Tx) /\ claimed' \subseteq Tx /\ discarded' \subseteq Tx
    BY DiscardEffect DEF ListTypeOK, ClaimTypeOK
  <2>2. rows' \in [Tx -> RowState] /\ backlog' \in Seq(Tx) /\ localIds' \subseteq Tx
    BY <1>23, RemoveRowEffect DEF LoserRemoved, StorageTypeOK, ListTypeOK, ClaimTypeOK
  <2>3. StorageTypeOK'
    BY <1>23, <2>2
      DEF LoserRemoved, StorageTypeOK
  <2>4. ListTypeOK' /\ ClaimTypeOK'
    BY <1>23, <2>1, <2>2
      DEF LoserRemoved, ListTypeOK, ClaimTypeOK, BeginDiscard, NothingToDiscard,
      PacketTypeOK
  <2>5. PacketTypeOK' /\ HistoryTypeOK'
    BY <1>23
      DEF LoserRemoved, PacketTypeOK, HistoryTypeOK, BeginDiscard, NothingToDiscard
  <2>6. ControlTypeOK'
    BY <1>23, WaitersStayAList
      DEF LoserRemoved, ControlTypeOK, JobOps, PacketOps, NothingToDiscard
  <2>7. JobTypeOK' /\ ServerTypeOK'
    BY <1>23 DEF LoserRemoved,
         JobTypeOK, ServerTypeOK
  <2> QED
    BY <2>3, <2>4, <2>5, <2>6, <2>7
<1>24. CASE ReadOutbox
  <2>1. ControlTypeOK'
    BY <1>24, WaitersStayAList
      DEF ReadOutbox, ControlTypeOK, JobOps, PacketOps
  <2>2. /\ StorageTypeOK' /\ ListTypeOK' /\ ClaimTypeOK' /\ JobTypeOK'
        /\ ServerTypeOK' /\ PacketTypeOK' /\ HistoryTypeOK'
    BY <1>24 DEF ReadOutbox,
         StorageTypeOK, ListTypeOK, ClaimTypeOK, JobTypeOK, ServerTypeOK,
         PacketTypeOK, HistoryTypeOK
  <2> QED
    BY <2>1, <2>2
<1>25. CASE ConfirmRead
  <2>1. \A t \in Tx : DiscardFromMemory(t)
         => pending' \in Seq(Tx) /\ claimed' \subseteq Tx /\ discarded' \subseteq Tx
    BY DiscardEffect DEF ListTypeOK, ClaimTypeOK
  <2>2. ListTypeOK' /\ ClaimTypeOK' /\ PacketTypeOK'
    BY <1>25, <2>1
      DEF ConfirmRead, ListTypeOK, ClaimTypeOK, PacketTypeOK, BeginDiscard,
      NothingToDiscard, Outstanding
  <2>3. ControlTypeOK'
    BY <1>25, WaitersStayAList
      DEF ConfirmRead, ControlTypeOK, JobOps, PacketOps, NothingToDiscard
  <2>4. StorageTypeOK' /\ JobTypeOK' /\ ServerTypeOK' /\ HistoryTypeOK'
    BY <1>25 DEF ConfirmRead,
         StorageTypeOK, JobTypeOK, ServerTypeOK, HistoryTypeOK
  <2> QED
    BY <2>2, <2>3, <2>4
<1>26. CASE CompleteRead
  <2>1. \A t \in Tx : DiscardFromMemory(t)
         => pending' \in Seq(Tx) /\ claimed' \subseteq Tx /\ discarded' \subseteq Tx
    BY DiscardEffect DEF ListTypeOK, ClaimTypeOK
  <2>2. ListTypeOK' /\ ClaimTypeOK' /\ PacketTypeOK'
    BY <1>26, <2>1
      DEF CompleteRead, ListTypeOK, ClaimTypeOK, PacketTypeOK, BeginDiscard,
      NothingToDiscard, Outstanding
  <2>3. ControlTypeOK'
    BY <1>26, WaitersStayAList
      DEF CompleteRead, ControlTypeOK, JobOps, PacketOps, NothingToDiscard
  <2>4. StorageTypeOK' /\ JobTypeOK' /\ ServerTypeOK' /\ HistoryTypeOK'
    BY <1>26 DEF CompleteRead,
         StorageTypeOK, JobTypeOK, ServerTypeOK, HistoryTypeOK
  <2> QED
    BY <2>2, <2>3, <2>4
<1>27. CASE SettledRemoved
  <2>1. \A t \in Tx : DiscardFromMemory(t)
         => pending' \in Seq(Tx) /\ claimed' \subseteq Tx /\ discarded' \subseteq Tx
    BY DiscardEffect DEF ListTypeOK, ClaimTypeOK
  <2>2. rows' \in [Tx -> RowState] /\ backlog' \in Seq(Tx) /\ localIds' \subseteq Tx
    BY <1>27, RemoveRowEffect DEF SettledRemoved, StorageTypeOK, ListTypeOK, ClaimTypeOK
  <2>3. StorageTypeOK'
    BY <1>27, <2>2
      DEF SettledRemoved, StorageTypeOK
  <2>4. ListTypeOK' /\ ClaimTypeOK'
    BY <1>27, <2>1, <2>2
      DEF SettledRemoved, ListTypeOK, ClaimTypeOK, BeginDiscard, NothingToDiscard,
      PacketTypeOK
  <2>5. PacketTypeOK'
    BY <1>27
      DEF SettledRemoved, PacketTypeOK, BeginDiscard, NothingToDiscard
  <2>6. ControlTypeOK'
    BY <1>27, WaitersStayAList
      DEF SettledRemoved, ControlTypeOK, JobOps, PacketOps, NothingToDiscard
  <2>7. JobTypeOK' /\ ServerTypeOK' /\ HistoryTypeOK'
    BY <1>27 DEF SettledRemoved,
         JobTypeOK, ServerTypeOK, HistoryTypeOK
  <2> QED
    BY <2>3, <2>4, <2>5, <2>6, <2>7
<1>28. CASE CommitPacket
  <2>1. StorageTypeOK'
    BY <1>28
      DEF CommitPacket, StorageTypeOK, PacketTypeOK
  <2>2. PacketTypeOK'
    BY <1>28
      DEF CommitPacket, PacketTypeOK
  <2>3. ControlTypeOK'
    BY <1>28
      DEF CommitPacket, ControlTypeOK, PacketOps
  <2>4. ListTypeOK' /\ ClaimTypeOK' /\ JobTypeOK' /\ ServerTypeOK' /\ HistoryTypeOK'
    BY <1>28 DEF CommitPacket,
         ListTypeOK, ClaimTypeOK, JobTypeOK, ServerTypeOK, HistoryTypeOK
  <2> QED
    BY <2>1, <2>2, <2>3, <2>4
<1>29. CASE Restart
  <2>1. late' \subseteq Seq(Tx)
    BY <1>29 DEF Restart, ServerTypeOK
  <2>2. ListTypeOK' /\ ClaimTypeOK' /\ JobTypeOK'
    <3>1. <<>> \in Seq(Tx) /\ <<>> \in Seq(Job)
      BY EmptySeq
    <3> QED
      BY <1>29, <3>1 DEF Restart, ListTypeOK, ClaimTypeOK, JobTypeOK
  <2>3. ControlTypeOK'
    <3>1. <<>> \in Seq({"job", "packet"})
      BY EmptySeq
    <3> QED
      BY <1>29, <3>1 DEF Restart, ControlTypeOK, PacketOps
  <2>4. ServerTypeOK'
    BY <1>29, <2>1
      DEF Restart, ServerTypeOK
  <2>5. PacketTypeOK'
    BY <1>29
      DEF Restart, PacketTypeOK, StorageTypeOK
  <2>6. HistoryTypeOK'
    BY <1>29
      DEF Restart, HistoryTypeOK
  <2>7. StorageTypeOK'
    BY <1>29 DEF Restart,
         StorageTypeOK
  <2> QED
    BY <2>2, <2>3, <2>4, <2>5, <2>6, <2>7
<1>30. CASE UNCHANGED vars
  <2>1. /\ StorageTypeOK' /\ ListTypeOK' /\ ClaimTypeOK' /\ ControlTypeOK'
    BY <1>30 DEF StorageTypeOK, ListTypeOK, ClaimTypeOK, ControlTypeOK
  <2>2. JobTypeOK' /\ ServerTypeOK' /\ PacketTypeOK' /\ HistoryTypeOK'
    BY <1>30 DEF JobTypeOK, ServerTypeOK, PacketTypeOK, HistoryTypeOK
  <2> QED
    BY <2>1, <2>2
<1> QED
  BY <1>1, <1>2, <1>3, <1>4, <1>5, <1>6, <1>7, <1>8, <1>9, <1>10, <1>11, <1>12,
     <1>13, <1>14, <1>15, <1>16, <1>17, <1>18, <1>19, <1>20, <1>21, <1>22, <1>23,
     <1>24, <1>25, <1>26, <1>27, <1>28, <1>29, <1>30
     DEF Next, RunJob, ApplyPacket

-----------------------------------------------------------------------------
(* IndexInv: the rows are numbered in write order *)

\* A step that adds no row and numbers none anew keeps the order of the rows.
LEMMA IndexKept ==
  ASSUME TypeOK, IndexInv,
         rows' \in [Tx -> RowState], \A t \in Tx : rows[t] = "none" => rows'[t] = "none",
         batchIndex' = batchIndex, made' = made,
         seeded' => seeded, nextIndex' \in Nat, seeded' => nextIndex <= nextIndex'
  PROVE  IndexInv'
<1>1. Outstanding' \subseteq Outstanding
  BY DEF Outstanding
<1>2. (Outstanding \subseteq 1 .. made)' /\ OutboxKeepsWriteOrder'
  BY <1>1 DEF IndexInv, OutboxKeepsWriteOrder
<1>3. ASSUME seeded', NEW t \in Outstanding'
      PROVE  batchIndex'[t] < nextIndex'
  <2>1. batchIndex[t] < nextIndex /\ t \in Tx
    BY <1>1, <1>3 DEF IndexInv, Outstanding
  <2>2. batchIndex[t] \in Nat /\ nextIndex \in Nat
    BY <2>1 DEF TypeOK, StorageTypeOK, ControlTypeOK
  <2> QED
    BY <1>3, <2>1, <2>2
<1> QED
  BY <1>2, <1>3 DEF IndexInv

\* A new row is numbered above all the others.
LEMMA IndexOfNewRow ==
  ASSUME TypeOK, IndexInv, QueueTransaction
  PROVE  IndexInv'
<1> DEFINE t == made + 1
           index == IF seeded THEN nextIndex ELSE SeededIndex
<1>1. made \in Nat /\ made + 1 \in Tx
  BY OutboxAssumption DEF TypeOK, HistoryTypeOK, QueueTransaction, Tx
<1>2. index \in Nat /\ \A u \in Outstanding : batchIndex[u] < index
  BY SeededIndexIsAbove DEF IndexInv, TypeOK, StorageTypeOK, ControlTypeOK
<1>3. Outstanding' = Outstanding \cup {t}
  BY <1>1 DEF QueueTransaction, Outstanding, TypeOK, StorageTypeOK
<1>4. /\ batchIndex' = [batchIndex EXCEPT ![t] = index]
      /\ nextIndex' = index + 1 /\ made' = t
  BY DEF QueueTransaction
<1>5. Outstanding \subseteq 1 .. made /\ \A u \in Outstanding : u \in Nat /\ u < t
  BY <1>1 DEF IndexInv
<1>6. /\ batchIndex'[t] = index
      /\ \A u \in Outstanding : batchIndex'[u] = batchIndex[u] /\ batchIndex[u] \in Nat
  BY <1>1, <1>4, <1>5 DEF TypeOK, StorageTypeOK, Outstanding
<1> HIDE DEF index
<1>7. (Outstanding \subseteq 1 .. made)'
  BY <1>1, <1>3, <1>4, <1>5
<1>8. OutboxKeepsWriteOrder'
  <2> SUFFICES ASSUME NEW u \in Outstanding', NEW v \in Outstanding', u < v
               PROVE  batchIndex'[u] < batchIndex'[v]
    BY DEF OutboxKeepsWriteOrder
  <2>1. u \in Outstanding
    BY <1>1, <1>3, <1>5
  <2>2. CASE v = t
    BY <1>2, <1>6, <2>1, <2>2
  <2>3. CASE v \in Outstanding
    BY <1>6, <2>1, <2>3 DEF IndexInv, OutboxKeepsWriteOrder
  <2> QED
    BY <1>3, <2>2, <2>3
<1>9. \A u \in Outstanding' : batchIndex'[u] < nextIndex'
  <2> TAKE u \in Outstanding'
  <2>1. CASE u = t
    BY <1>2, <1>4, <1>6, <2>1
  <2>2. CASE u \in Outstanding
    BY <1>2, <1>4, <1>6, <2>2
  <2> QED
    BY <1>3, <2>1, <2>2
<1> QED
  BY <1>7, <1>8, <1>9 DEF IndexInv

\* Every step preserves the numbering.
LEMMA IndexStep ==
  ASSUME TypeOK, TypeOK', JobInv, IndexInv, [Next]_vars
  PROVE  IndexInv'
<1> USE DEF vars, storageVars, listVars, claimVars, indexVars, historyVars, pktVars
<1>1. CASE QueueTransaction
  BY <1>1, IndexOfNewRow
<1>2. nextIndex \in Nat /\ nextIndex' \in Nat /\ rows \in [Tx -> RowState]
      /\ rows' \in [Tx -> RowState]
  BY DEF TypeOK, ControlTypeOK, StorageTypeOK
<1>3. CASE ResetSent \/ MarkSent \/ Requeue \/ Acknowledge \/ Refuse
             \/ Restore
  <2>1. /\ batchIndex' = batchIndex /\ made' = made
        /\ seeded' = seeded /\ nextIndex' = nextIndex
    BY <1>3 DEF ResetSent, MarkSent, Requeue, Acknowledge, Refuse, Restore
  <2>2. \E state \in RowState \ {"none"} : rows' = Touch(Head(todo), state)
    BY <1>3 DEF ResetSent, MarkSent, Requeue, Acknowledge, Refuse, Restore,
                Requeued, RowState
  <2>3. \A t \in Tx : rows[t] = "none" => rows'[t] = "none"
    BY <1>2, <2>2 DEF Touch
  <2> QED
    BY <1>2, <2>1, <2>3, IndexKept
<1>4. CASE RefusedRemoved \/ CulpritRemoved \/ LoserRemoved
             \/ SettledRemoved
  <2>1. /\ batchIndex' = batchIndex /\ made' = made
        /\ seeded' = seeded /\ nextIndex' = nextIndex
    BY <1>4 DEF RefusedRemoved, CulpritRemoved, LoserRemoved, SettledRemoved
  <2>2. \E t : rows' = [rows EXCEPT ![t] = "none"]
    BY <1>4 DEF RefusedRemoved, CulpritRemoved, LoserRemoved, SettledRemoved, RemoveRow
  <2>3. \A t \in Tx : rows[t] = "none" => rows'[t] = "none"
    BY <1>2, <2>2
  <2> QED
    BY <1>2, <2>1, <2>3, IndexKept
<1>5. CASE OutboxRead
  <2>1. nextIndex <= nextIndex'
    BY <1>5, SeededIndexIsAbove DEF OutboxRead, TypeOK, ControlTypeOK, StorageTypeOK
  <2>2. rows' = rows /\ batchIndex' = batchIndex /\ made' = made /\ seeded' = seeded
    BY <1>5 DEF OutboxRead
  <2> QED
    BY <1>2, <2>1, <2>2, IndexKept
<1>6. CASE Restart
  <2>1. rows' = rows /\ batchIndex' = batchIndex /\ made' = made /\ seeded' = FALSE
    BY <1>6 DEF Restart
  <2> QED
    BY <1>2, <2>1, IndexKept
<1>7. CASE BatchTimerFires \/ DrainStart \/ StartSendJob \/ StartReplayJob
             \/ TransportFails \/ ReplyArrives \/ BatchRefused \/ EndSend
             \/ ServerTakesNext \/ ServerTakesLate \/ PacketArrives
             \/ RebaseRead \/ ReadOutbox \/ ConfirmRead \/ CompleteRead
             \/ CommitPacket \/ UNCHANGED vars
  <2>1. /\ rows' = rows /\ batchIndex' = batchIndex /\ made' = made
        /\ seeded' = seeded /\ nextIndex' = nextIndex
    BY <1>7 DEF BatchTimerFires, DrainStart, StartSendJob, StartReplayJob,
       TransportFails, ReplyArrives, BatchRefused, EndSend, ServerTakesNext,
       ServerTakesLate, PacketArrives, RebaseRead, ReadOutbox, ConfirmRead,
       CompleteRead, CommitPacket
  <2> QED
    BY <1>2, <2>1, IndexKept
<1> QED
  BY <1>1, <1>3, <1>4, <1>5, <1>6, <1>7 DEF Next, RunJob, ApplyPacket

-----------------------------------------------------------------------------
(* JobInv: a job runs at the head of the queue *)

\* A job appended to a queue does not change what is ahead of it.
LEMMA HeadOfAppend ==
  ASSUME NEW q \in Seq(Job), NEW j \in Job
  PROVE  /\ Append(q, j) \in Seq(Job) /\ Append(q, j) # <<>>
         /\ q # <<>> => Head(Append(q, j)) = Head(q) /\ Tail(Append(q, j)) = Append(Tail(q), j)
         /\ \A i \in DOMAIN Append(q, j) :
              Append(q, j)[i] = j \/ (i \in DOMAIN q /\ Append(q, j)[i] = q[i])
<1>1. /\ Len(q) \in Nat /\ DOMAIN q = 1 .. Len(q)
      /\ DOMAIN Append(q, j) = 1 .. Len(q) + 1
  OBVIOUS
<1>2. /\ Append(q, j) \in Seq(Job) /\ Append(q, j) # <<>>
      /\ Append(q, j)[Len(q) + 1] = j
      /\ \A i \in 1 .. Len(q) : Append(q, j)[i] = q[i]
  BY AppendProperties
<1>3. q # <<>> => Head(Append(q, j)) = Head(q) /\ Tail(Append(q, j)) = Append(Tail(q), j)
  BY HeadTailAppend
<1> QED
  BY <1>1, <1>2, <1>3

\* What JobInv says of the queue.
JobsReady(q) == \A i \in DOMAIN q : q[i].kind = "replay" => q[i].txs = <<>>

\* The rest of a queue is as ready as the queue, and so is its head.
LEMMA JobsReadyTail ==
  ASSUME NEW q \in Seq(Job), q # <<>>, JobsReady(q)
  PROVE  /\ JobsReady(Tail(q))
         /\ Head(q).kind = "replay" => Head(q).txs = <<>>
<1>1. /\ Len(q) \in Nat /\ DOMAIN q = 1 .. Len(q) /\ DOMAIN Tail(q) = 1 .. Len(q) - 1
      /\ \A i \in 1 .. Len(q) - 1 : Tail(q)[i] = q[i + 1]
      /\ Len(q) > 0 /\ Head(q) = q[1]
  OBVIOUS
<1> QED
  BY <1>1 DEF JobsReady

\* A job joins the queue behind the running one.
LEMMA JobJoins ==
  ASSUME TypeOK, JobInv,
         UNCHANGED <<pc, todo, batch, held, replay, late>>,
         NEW j \in Job, j.kind = "replay" => j.txs = <<>>,
         queue' = queue \/ queue' = Append(queue, j)
  PROVE  JobInv'
<1>1. CASE queue' = queue
  BY <1>1 DEF JobInv
<1>2. CASE queue' = Append(queue, j)
  <2>1. queue \in Seq(Job)
    BY DEF TypeOK, ListTypeOK
  <2>2. /\ queue' # <<>>
        /\ queue # <<>> => Head(queue') = Head(queue)
        /\ \A i \in DOMAIN queue' :
             queue'[i] = j \/ (i \in DOMAIN queue /\ queue'[i] = queue[i])
    BY <1>2, <2>1, HeadOfAppend
  <2>3. \A i \in DOMAIN queue' : queue'[i].kind = "replay" => queue'[i].txs = <<>>
    BY <2>2 DEF JobInv
  <2>4. pc = "idle" => replay = <<>>
    BY DEF JobInv
  <2> QED
    BY <2>2, <2>3, <2>4 DEF JobInv
<1> QED
  BY <1>1, <1>2

\* The running job goes on: it keeps what it holds.
LEMMA JobGoesOn ==
  ASSUME JobInv, pc # "idle", UNCHANGED <<queue, held, replay>>, <<>> \notin late',
         pc' \in Loops \ {"resetting"} => todo' # <<>>,
         pc' = "resetting" => pc = "resetting" /\ todo' # <<>>,
         pc' = "awaiting" => batch' # <<>>,
         pc' # "idle", pc' # "reading"
  PROVE  JobInv'
BY DEF JobInv, Loops

\* Every step preserves it.
LEMMA JobStep ==
  ASSUME TypeOK, TypeOK', JobInv, IndexInv, [Next]_vars
  PROVE  JobInv'
<1> USE DEF vars, storageVars, listVars, claimVars, indexVars, jobVars,
            serverVars, pktVars, historyVars
<1>1. CASE QueueTransaction
  <2> DEFINE j == [kind |-> "send", txs |-> Append(pending, made + 1)]
  <2>1. made + 1 \in Tx
    BY <1>1, OutboxAssumption DEF QueueTransaction, Tx, TypeOK, HistoryTypeOK
  <2>2. j \in Job /\ j.kind # "replay"
    BY <2>1 DEF Job, TypeOK, ListTypeOK
  <2>3. queue' = queue \/ queue' = Append(queue, j)
    BY <1>1 DEF QueueTransaction
  <2>4. UNCHANGED <<pc, todo, batch, held, replay, late>>
    BY <1>1 DEF QueueTransaction
  <2> HIDE DEF j
  <2> QED
    BY <2>2, <2>3, <2>4, JobJoins
<1>2. CASE BatchTimerFires
  <2> DEFINE j == [kind |-> "send", txs |-> pending]
  <2>1. j \in Job /\ j.kind # "replay"
    BY DEF Job, TypeOK, ListTypeOK
  <2>2. queue' = queue \/ queue' = Append(queue, j)
    BY <1>2 DEF BatchTimerFires, Dispatch
  <2>3. UNCHANGED <<pc, todo, batch, held, replay, late>>
    BY <1>2 DEF BatchTimerFires
  <2> HIDE DEF j
  <2> QED
    BY <2>1, <2>2, <2>3, JobJoins
<1>3. CASE DrainStart
  <2> DEFINE j == [kind |-> IF pending = <<>> THEN "replay" ELSE "flush", txs |-> pending]
  <2>1. j \in Job /\ (j.kind = "replay" => j.txs = <<>>)
    BY DEF Job, TypeOK, ListTypeOK
  <2>2. queue' = Append(queue, j)
    BY <1>3 DEF DrainStart, Dispatch
  <2>3. UNCHANGED <<pc, todo, batch, held, replay, late>>
    BY <1>3 DEF DrainStart
  <2> HIDE DEF j
  <2> QED
    BY <2>1, <2>2, <2>3, JobJoins
<1>4. CASE StartSendJob
  <2>1. discarded \subseteq Tx /\ claimed \subseteq Tx /\ backlog \in Seq(Tx)
    BY DEF TypeOK, ClaimTypeOK, ListTypeOK
  <2>2. queue \in Seq(Job) /\ queue # <<>> /\ Head(queue) \in Job /\ pc = "idle"
        /\ UNCHANGED <<queue, replay, late>>
    BY <1>4, JobTxsTail DEF StartSendJob, TypeOK, ListTypeOK
  <2>3. Head(queue).txs \in Seq(Tx) /\ {} \in SUBSET Tx
    BY <2>2 DEF Job
  <2>4. SendBatch(Head(queue).txs, backlog, {}, {})
    BY <1>4 DEF StartSendJob
  <2>5. /\ held' = {} \cup ToSet(backlog) \cup ToSet(Head(queue).txs)
        /\ pc' \in {"ended", "marking"} /\ (pc' = "marking" => todo' # <<>>)
    BY ZenonT(30), <2>1, <2>3, <2>4, SendBatchEffect
  <2> QED
    BY <2>2, <2>5 DEF JobInv, Loops
<1>5. CASE StartReplayJob
  <2>1. JobsReady(queue) /\ queue \in Seq(Job)
    BY DEF JobInv, JobsReady, TypeOK, ListTypeOK
  <2>2. queue # <<>> /\ Head(queue).kind = "replay"
    BY <1>5 DEF StartReplayJob
  <2>3. Head(queue).txs = <<>>
    BY <2>1, <2>2, JobsReadyTail
  <2>4. ToSet(<<>>) = {}
    BY DEF ToSet
  <2>5. pc = "idle" /\ pc' = "reading" /\ UNCHANGED <<queue, held, replay, late>>
    BY <1>5 DEF StartReplayJob
  <2> QED
    BY <2>2, <2>3, <2>4, <2>5 DEF JobInv, Loops
<1>6. CASE OutboxRead
  <2> DEFINE stale == {t \in Unclaimed : rows[t] = "sent"}
             list  == InOutboxOrder(Replayable(Unclaimed))
  <2>1. pc = "reading" /\ UNCHANGED <<queue, late>>
    BY <1>6 DEF OutboxRead
  <2>2. Head(queue).txs = <<>> /\ queue # <<>> /\ ToSet(<<>>) = {}
    BY <2>1 DEF JobInv, ToSet
  <2>3. stale # {} => InOutboxOrder(stale) # <<>>
    <3>1. stale \in SUBSET Outstanding
      BY DEF Unclaimed
    <3> HIDE DEF stale
    <3> QED
      BY <3>1, InOutboxOrderLists DEF IndexInv, TypeOK, StorageTypeOK
  <2>4. list \in Seq(Tx)
    <3>1. Replayable(Unclaimed) \in SUBSET Outstanding
      BY DEF Unclaimed, Replayable
    <3> QED
      BY <3>1, InOutboxOrderLists DEF IndexInv, TypeOK, StorageTypeOK
  <2> HIDE DEF stale, list
  <2>5. /\ \/ stale # {} /\ pc' = "resetting" /\ todo' = InOutboxOrder(stale)
        /\ held' = held
        \/ SendSlice(list, <<>>)
        \/ pc' = "ended"
    BY <1>6 DEF OutboxRead, stale, list
  <2>6. SendSlice(list, <<>>)
          => pc' \in {"ended", "marking"} /\ (pc' = "marking" => todo' # <<>>)
    BY <2>4, EmptySeq, SendSliceEffect DEF TypeOK, ClaimTypeOK, JobTypeOK
  <2> QED
    BY <2>1, <2>2, <2>3, <2>5, <2>6 DEF JobInv, Loops
<1>7. CASE ResetSent
  <2>1. pc = "resetting" /\ UNCHANGED <<queue, late>>
    BY <1>7 DEF ResetSent
  <2>2. Head(queue).txs = <<>> /\ queue # <<>> /\ ToSet(<<>>) = {} /\ todo # <<>>
    BY <2>1 DEF JobInv, Loops, ToSet
  <2>3. CASE Len(todo) > 1
    <3>1. Tail(todo) # <<>>
      BY <2>2, <2>3, HeadAndTail DEF TypeOK, JobTypeOK
    <3> QED
      BY <1>7, <2>1, <2>2, <2>3, <3>1 DEF ResetSent, JobInv, Loops
  <2>4. CASE ~(Len(todo) > 1)
    <3>1. SendSlice(replay, backlog)
      BY <1>7, <2>4 DEF ResetSent
    <3>2. pc' \in {"ended", "marking"} /\ (pc' = "marking" => todo' # <<>>)
      BY <3>1, SendSliceEffect DEF TypeOK, ListTypeOK, ClaimTypeOK, JobTypeOK
    <3> QED
      BY <2>1, <2>2, <3>2 DEF JobInv, Loops
  <2> QED
    BY <2>3, <2>4
<1>8. CASE MarkSent \/ Requeue
  <2>1. /\ pc \in {"marking", "failing", "requeueing"} /\ todo' = Tail(todo)
        /\ UNCHANGED <<queue, held, replay, late>>
    BY <1>8 DEF MarkSent, Requeue
  <2>2. todo # <<>> /\ <<>> \notin late
    BY <2>1 DEF JobInv, Loops
  <2>3. Len(todo) > 1 => Tail(todo) # <<>>
    BY <2>2, HeadAndTail DEF TypeOK, JobTypeOK
  <2>4. \/ Len(todo) > 1 /\ pc' = pc
        \/ pc' = "ended"
        \/ pc' = "awaiting" /\ batch' # <<>>
    BY <1>8 DEF MarkSent, Requeue
  <2> QED
    BY <2>1, <2>2, <2>3, <2>4, JobGoesOn DEF Loops
<1>9. CASE TransportFails
  <2>1. /\ pc = "awaiting" /\ pc' = "failing" /\ todo' = batch
        /\ UNCHANGED <<queue, held, replay>>
    BY <1>9 DEF TransportFails
  <2>2. <<>> \notin late'
    BY <1>9 DEF TransportFails, JobInv
  <2>3. batch # <<>>
    BY <2>1 DEF JobInv
  <2> QED
    BY <2>1, <2>2, <2>3, JobGoesOn DEF Loops
<1>10. CASE ReplyArrives
  <2>1. pc = "awaiting" /\ UNCHANGED <<queue, held, replay, late>>
    BY <1>10 DEF ReplyArrives
  <2>2. batch # <<>> /\ batch \in Seq(Tx) /\ <<>> \notin late
    BY <2>1 DEF JobInv, TypeOK, JobTypeOK
  <2>3. PICK omitted \in SUBSET ToSet(batch) :
          IF omitted = ToSet(batch) THEN pc' = "requeueing" /\ todo' = batch
          ELSE pc' = "results" /\ todo' = Without(batch, omitted)
    BY <1>10 DEF ReplyArrives
  <2>4. omitted # ToSet(batch) => Without(batch, omitted) # <<>>
    <3>1. ToSet(Without(batch, omitted)) = ToSet(batch) \ omitted /\ ToSet(<<>>) = {}
      BY <2>2, WithoutDropsTheSet DEF ToSet
    <3> QED
      BY <3>1, Zenon
  <2>5. pc' \in {"requeueing", "results"} /\ todo' # <<>>
    BY <2>2, <2>3, <2>4
  <2> QED
    BY <2>1, <2>2, <2>5, JobGoesOn DEF Loops
<1>11. CASE Acknowledge \/ RefusedRemoved
  <2>1. /\ pc \in {"results", "removing"} /\ NextResult
        /\ UNCHANGED <<queue, held, replay, late>>
    BY <1>11 DEF Acknowledge, RefusedRemoved
  <2>2. todo # <<>> /\ <<>> \notin late
    BY <2>1 DEF JobInv, Loops
  <2>3. /\ pc' \in {"results", "requeueing", "ended"}
        /\ pc' \in {"results", "requeueing"} => todo' # <<>>
    BY <2>1, <2>2, NextResultEffect DEF TypeOK, JobTypeOK
  <2> QED
    BY <2>1, <2>2, <2>3, JobGoesOn DEF Loops
<1>12. CASE Refuse
  <2>1. /\ pc \in {"results", "invalid"} /\ pc' \in {"removing", "evicting"}
        /\ UNCHANGED <<queue, held, replay, late, todo>>
    BY <1>12 DEF Refuse
  <2>2. todo # <<>> /\ <<>> \notin late
    BY <2>1 DEF JobInv, Loops
  <2> QED
    BY <2>1, <2>2, JobGoesOn DEF Loops
<1>13. CASE BatchRefused
  <2>1. pc = "awaiting" /\ pc' = "invalid" /\ UNCHANGED <<queue, held, replay, late>>
    BY <1>13 DEF BatchRefused
  <2>2. todo' # <<>>
    BY <1>13 DEF BatchRefused
  <2>3. <<>> \notin late
    BY DEF JobInv
  <2> QED
    BY <2>1, <2>2, <2>3, JobGoesOn DEF Loops
<1>14. CASE CulpritRemoved
  <2>1. /\ pc = "evicting" /\ UNCHANGED <<queue, held, replay, late>>
        /\ pc' = "ended" \/ (pc' = "restoring" /\ todo' # <<>>)
    BY <1>14 DEF CulpritRemoved
  <2>2. <<>> \notin late
    BY DEF JobInv
  <2> QED
    BY <2>1, <2>2, JobGoesOn DEF Loops
<1>15. CASE Restore
  <2>1. pc = "restoring" /\ UNCHANGED <<queue, replay, late>>
    BY <1>15 DEF Restore
  <2>2. todo # <<>> /\ <<>> \notin late
    BY <2>1 DEF JobInv, Loops
  <2>3. CASE Len(todo) > 1
    <3>1. Tail(todo) # <<>>
      BY <2>2, <2>3, HeadAndTail DEF TypeOK, JobTypeOK
    <3>2. todo' = Tail(todo) /\ UNCHANGED <<pc, held>>
      BY <1>15, <2>3 DEF Restore
    <3> QED
      BY <2>1, <2>2, <3>1, <3>2, JobGoesOn DEF Loops
  <2>4. CASE ~(Len(todo) > 1)
    <3>1. SendBatch(batch, backlog, {}, held)
      BY <1>15, <2>4 DEF Restore
    <3>2. /\ {} \in SUBSET Tx /\ held \in SUBSET Tx /\ batch \in Seq(Tx)
          /\ backlog \in Seq(Tx)
      BY DEF TypeOK, JobTypeOK, ListTypeOK
    <3>3. /\ held' = held \cup ToSet(backlog) \cup ToSet(batch)
          /\ pc' \in {"ended", "marking"} /\ (pc' = "marking" => todo' # <<>>)
      BY <3>1, <3>2, SendBatchEffect DEF TypeOK, ClaimTypeOK
    <3> QED
      BY <2>1, <2>2, <3>3 DEF JobInv, Loops
  <2> QED
    BY <2>3, <2>4
<1>16. CASE EndSend
  <2>1. pc = "ended" /\ UNCHANGED late /\ <<>> \notin late
    BY <1>16 DEF EndSend, JobInv
  <2>2. CASE replay # <<>> /\ ~failed
    <3>1. SendSlice(replay, backlog) /\ UNCHANGED queue
      BY <1>16, <2>2 DEF EndSend
    <3>2. pc' \in {"ended", "marking"} /\ (pc' = "marking" => todo' # <<>>)
      BY <3>1, SendSliceEffect DEF TypeOK, ListTypeOK, ClaimTypeOK, JobTypeOK
    <3>3. Head(queue).txs = <<>> /\ ToSet(<<>>) = {}
      BY <2>2 DEF JobInv, ToSet
    <3> QED
      BY <2>1, <3>1, <3>2, <3>3 DEF JobInv, Loops
  <2>3. CASE ~(replay # <<>> /\ ~failed)
    <3> DEFINE j == [kind |-> "replay", txs |-> <<>>]
    <3>1. queue \in Seq(Job) /\ queue # <<>> /\ JobsReady(queue) /\ FinishJob
      BY <1>16, <2>1, <2>3 DEF EndSend, JobInv, JobsReady, TypeOK, ListTypeOK
    <3>2. /\ pc' = "idle" /\ held' = {} /\ replay' = <<>>
          /\ queue' = Tail(queue) \/ queue' = Append(Tail(queue), j)
      BY <3>1, FinishJobEffect
    <3>3. Tail(queue) \in Seq(Job) /\ JobsReady(Tail(queue))
      BY <3>1, JobTxsTail, JobsReadyTail
    <3>4. j \in Job
      BY EmptySeq DEF Job
    <3>5. \A i \in DOMAIN Append(Tail(queue), j) :
            \/ Append(Tail(queue), j)[i] = j
            \/ i \in DOMAIN Tail(queue) /\ Append(Tail(queue), j)[i] = Tail(queue)[i]
      BY <3>3, <3>4, HeadOfAppend
    <3>6. JobsReady(Append(Tail(queue), j))
      BY <3>3, <3>5 DEF JobsReady
    <3> QED
      BY <2>1, <3>2, <3>3, <3>6 DEF JobInv, JobsReady, Loops
  <2> QED
    BY <2>2, <2>3
<1>17. CASE ServerTakesLate
  <2>1. <<>> \notin late'
    <3>1. \A r \in late : Len(r) > 1 => Tail(r) # <<>>
      BY HeadAndTail DEF TypeOK, ServerTypeOK, JobInv
    <3> QED
      BY <1>17, <3>1 DEF ServerTakesLate, JobInv
  <2>2. UNCHANGED <<pc, todo, batch, held, replay, queue>>
    BY <1>17 DEF ServerTakesLate
  <2> QED
    BY <2>1, <2>2 DEF JobInv
<1>18. CASE Restart
  <2>1. /\ pc' = "idle" /\ held' = {} /\ replay' = <<>> /\ queue' = <<>>
        /\ <<>> \notin late'
    BY <1>18 DEF Restart, JobInv
  <2> QED
    BY <2>1 DEF JobInv, Loops
<1>19. CASE \/ ServerTakesNext \/ PacketArrives \/ ApplyPacket \/ UNCHANGED vars
  <2>1. UNCHANGED <<pc, todo, batch, held, replay, queue, late>>
    BY <1>19 DEF ServerTakesNext, PacketArrives, ApplyPacket, RebaseRead, LoserRemoved,
         ReadOutbox, ConfirmRead, CompleteRead, SettledRemoved, CommitPacket
  <2> QED
    BY <2>1 DEF JobInv
<1> QED
  BY <1>1, <1>2, <1>3, <1>4, <1>5, <1>6, <1>7, <1>8, <1>9, <1>10, <1>11, <1>12,
     <1>13, <1>14, <1>15, <1>16, <1>17, <1>18, <1>19 DEF Next, RunJob

-----------------------------------------------------------------------------
(* SettledInv: no write is lost *)

\* A row that is not settled may change to "queued" or "sent" only.
LEMMA NothingIsLostKept ==
  ASSUME TypeOK, NothingIsLost, made' = made, Settled \subseteq Settled',
         \A t \in Tx : \/ t \in Settled'
                       \/ rows'[t] = rows[t]
                       \/ rows'[t] \in {"queued", "sent"}
  PROVE  NothingIsLost'
<1> SUFFICES ASSUME NEW t \in 1 .. made, t \notin Settled'
             PROVE  rows'[t] \in {"queued", "sent"}
  BY DEF NothingIsLost, Settled
<1>1. t \in Tx
  BY OutboxAssumption DEF Tx, TypeOK, HistoryTypeOK
<1>2. rows[t] \in {"queued", "sent"}
  BY DEF NothingIsLost, Settled
<1> QED
  BY <1>1, <1>2

\* A step that keeps what was settled settled keeps the packet's obligations.
LEMMA SettledGrows ==
  ASSUME PacketSettles, RefusalIsReported, UNCHANGED <<pktPc, pktTx, pktTodo>>,
         Settled \subseteq Settled'
  PROVE  PacketSettles'
BY DEF PacketSettles

\* A step of the running job that changes neither the server nor the packet.
LEMMA JobSettles ==
  ASSUME TypeOK, SettledInv,
         UNCHANGED <<cursor, log, made, dropped, pktVars>>,
         reported \subseteq reported',
         \A t \in Tx : \/ t \in Settled'
                       \/ rows'[t] = rows[t]
                       \/ rows'[t] \in {"queued", "sent"},
         verdict' = verdict \/ verdict' = [t \in Tx |-> "none"],
         RefusalIsReported'
  PROVE  SettledInv'
<1> USE DEF pktVars
<1>1. Settled \subseteq Settled'
  BY DEF Settled
<1>2. NothingIsLost'
  BY <1>1, NothingIsLostKept DEF SettledInv
<1>3. VerdictsAreTrue' /\ CursorsAreInTheLog'
  BY DEF SettledInv, VerdictsAreTrue, CursorsAreInTheLog
<1>4. PacketSettles'
  BY <1>1, SettledGrows DEF SettledInv
<1> QED
  BY <1>2, <1>3, <1>4 DEF SettledInv

\* A step of a packet: it may drop, and remove the row of what it settled.
LEMMA PacketStepSettles ==
  ASSUME TypeOK, SettledInv,
         UNCHANGED <<log, made, reported, verdict, pc, todo>>,
         dropped \subseteq dropped',
         \A t \in Tx : rows'[t] = rows[t] \/ t \in Settled,
         CursorsAreInTheLog', PacketSettles'
  PROVE  SettledInv'
<1>1. Settled \subseteq Settled'
  BY DEF Settled
<1>2. NothingIsLost'
  BY <1>1, NothingIsLostKept DEF SettledInv
<1>3. VerdictsAreTrue' /\ RefusalIsReported'
  BY DEF SettledInv, VerdictsAreTrue, RefusalIsReported
<1> QED
  BY <1>2, <1>3 DEF SettledInv

\* What a packet echoes is in the log.
LEMMA EchoedIsApplied ==
  ASSUME TypeOK, CursorsAreInTheLog
  PROVE  Echoed(pktUpTo) \subseteq ToSet(log)
<1>1. /\ log \in Seq(Tx) /\ Len(log) \in Nat /\ DOMAIN log = 1 .. Len(log)
      /\ cursor \in Nat /\ pktUpTo \in Nat /\ pktUpTo <= Len(log)
  BY DEF TypeOK, ServerTypeOK, StorageTypeOK, PacketTypeOK, CursorsAreInTheLog
<1>2. \A id \in cursor + 1 .. pktUpTo : id \in DOMAIN log
  BY <1>1
<1> QED
  BY <1>2 DEF Echoed, ToSet

\* Every step preserves it.
LEMMA SettledStep ==
  ASSUME TypeOK, TypeOK', JobInv, IndexInv, SettledInv, [Next]_vars
  PROVE  SettledInv'
<1> USE DEF vars, storageVars, listVars, claimVars, indexVars, jobVars,
            serverVars, pktVars, historyVars
<1>1. CASE QueueTransaction
  <2>1. made \in Nat /\ made + 1 \in Tx /\ rows \in [Tx -> RowState]
    BY <1>1, OutboxAssumption DEF QueueTransaction, Tx, TypeOK, HistoryTypeOK,
       StorageTypeOK
  <2>2. /\ made' = made + 1 /\ rows' = [rows EXCEPT ![made + 1] = "queued"]
        /\ UNCHANGED <<log, dropped, reported, verdict, cursor, pktVars, pc, todo>>
    BY <1>1 DEF QueueTransaction
  <2>3. NothingIsLost'
    <3> SUFFICES ASSUME NEW t \in 1 .. made + 1
                 PROVE  \/ t \in ToSet(log) \/ t \in dropped \cup reported
                        \/ rows'[t] \in {"queued", "sent"}
      BY <2>2 DEF NothingIsLost
    <3>1. CASE t = made + 1
      BY <2>1, <2>2, <3>1
    <3>2. CASE t # made + 1
      <4>1. t \in 1 .. made
        BY <2>1, <3>2
      <4>2. rows'[t] = rows[t]
        BY <2>1, <2>2, <3>2
      <4> QED
        BY <4>1, <4>2 DEF SettledInv, NothingIsLost
    <3> QED
      BY <3>1, <3>2
  <2> QED
    BY <2>2, <2>3 DEF SettledInv, VerdictsAreTrue, CursorsAreInTheLog, PacketSettles,
                      Settled, RefusalIsReported
<1>2. CASE \/ BatchTimerFires \/ DrainStart
  <2>1. UNCHANGED <<rows, log, made, dropped, reported, verdict, cursor, pktVars, pc, todo>>
    BY <1>2 DEF BatchTimerFires, DrainStart
  <2> QED
    BY <2>1 DEF SettledInv, NothingIsLost, VerdictsAreTrue, CursorsAreInTheLog,
                PacketSettles, Settled, RefusalIsReported
<1>3. CASE StartSendJob \/ StartReplayJob \/ OutboxRead \/ TransportFails
           \/ ReplyArrives \/ BatchRefused \/ EndSend
  <2>1. UNCHANGED <<rows, cursor, log, made, dropped, reported, pktVars>>
    BY <1>3 DEF StartSendJob, StartReplayJob, OutboxRead, TransportFails, ReplyArrives,
                BatchRefused, EndSend
  <2>2. verdict' = verdict \/ verdict' = [t \in Tx |-> "none"]
    BY <1>3 DEF StartSendJob, StartReplayJob, OutboxRead, TransportFails, ReplyArrives,
                BatchRefused, EndSend
  <2>3. pc' \notin {"removing", "evicting"}
    BY <1>3 DEF StartSendJob, StartReplayJob, OutboxRead, TransportFails, ReplyArrives,
                BatchRefused, EndSend, SendBatch, SendSlice, FinishJob
  <2> QED
    BY <2>1, <2>2, <2>3, JobSettles DEF RefusalIsReported
<1>4. CASE ResetSent \/ MarkSent \/ Requeue \/ Restore
  <2>1. todo # <<>>
    BY <1>4 DEF ResetSent, MarkSent, Requeue, Restore, JobInv, Loops
  <2>2. Head(todo) \in Tx
    BY <2>1, HeadAndTail DEF TypeOK, JobTypeOK
  <2>3. rows' = Touch(Head(todo), "queued") \/ rows' = Touch(Head(todo), "sent")
    BY <1>4 DEF ResetSent, MarkSent, Requeue, Restore, Requeued
  <2>4. \A t \in Tx : rows'[t] = rows[t] \/ rows'[t] \in {"queued", "sent"}
    BY <2>2, <2>3, TouchEffect DEF TypeOK, StorageTypeOK, RowState
  <2>5. UNCHANGED <<cursor, log, made, dropped, reported, pktVars>>
    BY <1>4 DEF ResetSent, MarkSent, Requeue, Restore
  <2>6. verdict' = verdict \/ verdict' = [t \in Tx |-> "none"]
    BY <1>4 DEF ResetSent, MarkSent, Requeue, Restore
  <2>7. pc' \notin {"removing", "evicting"}
    BY <1>4 DEF ResetSent, MarkSent, Requeue, Restore, SendBatch, SendSlice
  <2> QED
    BY <2>4, <2>5, <2>6, <2>7, JobSettles DEF RefusalIsReported
<1>5. CASE Acknowledge
  <2>1. todo # <<>>
    BY <1>5 DEF Acknowledge, JobInv, Loops
  <2>2. Head(todo) \in Tx
    BY <2>1, HeadAndTail DEF TypeOK, JobTypeOK
  <2>3. Head(todo) \in ToSet(log)
    BY <1>5, <2>2 DEF Acknowledge, SettledInv, VerdictsAreTrue
  <2>4. \A t \in Tx : rows'[t] = rows[t] \/ t = Head(todo)
    BY <1>5, <2>2, TouchEffect DEF Acknowledge, TypeOK, StorageTypeOK, RowState
  <2>5. UNCHANGED <<cursor, log, made, dropped, reported, verdict, pktVars>>
    BY <1>5 DEF Acknowledge
  <2>6. pc' \notin {"removing", "evicting"}
    BY <1>5 DEF Acknowledge, NextResult
  <2>7. Head(todo) \in Settled'
    BY <2>3, <2>5 DEF Settled
  <2> QED
    BY <2>4, <2>5, <2>6, <2>7, JobSettles DEF RefusalIsReported
<1>6. CASE Refuse
  <2>1. todo # <<>>
    BY <1>6 DEF Refuse, JobInv, Loops
  <2>2. Head(todo) \in Tx
    BY <2>1, HeadAndTail DEF TypeOK, JobTypeOK
  <2>3. \A t \in Tx : rows'[t] = rows[t] \/ t = Head(todo)
    BY <1>6, <2>2, TouchEffect DEF Refuse, TypeOK, StorageTypeOK, RowState
  <2>4. /\ UNCHANGED <<cursor, log, made, dropped, verdict, pktVars, todo>>
        /\ reported' = reported \cup {Head(todo)}
    BY <1>6 DEF Refuse
  <2>5. Head(todo) \in Settled' /\ RefusalIsReported'
    BY <2>4 DEF Settled, RefusalIsReported
  <2> QED
    BY <2>3, <2>4, <2>5, JobSettles
<1>7. CASE RefusedRemoved \/ CulpritRemoved
  <2>1. Head(todo) \in reported
    BY <1>7 DEF RefusedRemoved, CulpritRemoved, SettledInv, RefusalIsReported
  <2>2. rows' = [rows EXCEPT ![Head(todo)] = "none"]
    BY <1>7 DEF RefusedRemoved, CulpritRemoved, RemoveRow
  <2>3. \A t \in Tx : rows'[t] = rows[t] \/ t = Head(todo)
    BY <2>2 DEF TypeOK, StorageTypeOK
  <2>4. UNCHANGED <<cursor, log, made, dropped, reported, verdict, pktVars>>
    BY <1>7 DEF RefusedRemoved, CulpritRemoved
  <2>5. pc' \notin {"removing", "evicting"}
    BY <1>7 DEF RefusedRemoved, CulpritRemoved, NextResult
  <2>6. Head(todo) \in Settled'
    BY <2>1, <2>4 DEF Settled
  <2> QED
    BY <2>3, <2>4, <2>5, <2>6, JobSettles DEF RefusalIsReported
<1>8. CASE ServerTakesNext \/ ServerTakesLate
  <2>1. /\ log \in Seq(Tx)
        /\ request # <<>> => Head(request) \in Tx
        /\ \A r \in late : Head(r) \in Tx
    BY HeadAndTail DEF TypeOK, ServerTypeOK, JobInv
  <2>2. /\ ToSet(log) \subseteq ToSet(log') /\ Len(log) <= Len(log')
        /\ \A t \in Tx : verdict'[t] = "ok" => verdict[t] = "ok" \/ t \in ToSet(log')
    <3>1. CASE ServerTakesNext
      <4>1. PICK outcome \in ServerOutcome(Head(request)) :
              /\ verdict' = [verdict EXCEPT ![Head(request)] = outcome[1]]
              /\ log' = outcome[2]
        BY <3>1 DEF ServerTakesNext
      <4>2. Head(request) \in Tx
        BY <2>1, <3>1 DEF ServerTakesNext
      <4>3. /\ ToSet(log) \subseteq ToSet(outcome[2]) /\ Len(log) <= Len(outcome[2])
            /\ outcome[1] = "ok" => Head(request) \in ToSet(outcome[2])
        BY <2>1, <4>2, ServerOutcomeEffect
      <4> QED
        BY <4>1, <4>2, <4>3 DEF TypeOK, ServerTypeOK
    <3>2. CASE ServerTakesLate
      <4>1. PICK r \in late : \E outcome \in ServerOutcome(Head(r)) : log' = outcome[2]
        BY <3>2 DEF ServerTakesLate
      <4>2. PICK outcome \in ServerOutcome(Head(r)) : log' = outcome[2]
        BY <4>1
      <4>3. ToSet(log) \subseteq ToSet(outcome[2]) /\ Len(log) <= Len(outcome[2])
        BY <2>1, ServerOutcomeEffect
      <4> QED
        BY <3>2, <4>2, <4>3 DEF ServerTakesLate
    <3> QED
      BY <1>8, <3>1, <3>2
  <2>3. UNCHANGED <<rows, cursor, made, dropped, reported, pktVars, pc, todo>>
    BY <1>8 DEF ServerTakesNext, ServerTakesLate
  <2>4. Settled \subseteq Settled'
    BY <2>2, <2>3 DEF Settled
  <2>5. NothingIsLost'
    BY <2>3, <2>4, NothingIsLostKept DEF SettledInv
  <2>6. VerdictsAreTrue'
    BY <2>2 DEF SettledInv, VerdictsAreTrue
  <2>7. CursorsAreInTheLog'
    <3>1. Len(log) \in Nat /\ cursor \in Nat /\ pktUpTo \in Nat
      BY DEF TypeOK, ServerTypeOK, StorageTypeOK, PacketTypeOK
    <3>2. Len(log') \in Nat
      <4>1. log' \in Seq(Tx)
        BY DEF TypeOK, ServerTypeOK
      <4> QED
        BY <4>1
    <3> QED
      BY <3>2, <2>2, <2>3, <3>1 DEF SettledInv, CursorsAreInTheLog
  <2>8. PacketSettles' /\ RefusalIsReported'
    BY <2>3, <2>4, SettledGrows DEF SettledInv, RefusalIsReported
  <2> QED
    BY <2>5, <2>6, <2>7, <2>8 DEF SettledInv
<1>9. CASE PacketArrives \/ ReadOutbox \/ CommitPacket
  <2>1. UNCHANGED <<rows, log, made, dropped, reported, verdict, pc, todo>>
    BY <1>9 DEF PacketArrives, ReadOutbox, CommitPacket
  <2>2. pktPc' \notin {"rebase", "confirm", "complete"}
    BY <1>9 DEF PacketArrives, ReadOutbox, CommitPacket
  <2>3. CursorsAreInTheLog'
    <3>1. Len(log) \in Nat /\ cursor \in Nat
      BY DEF TypeOK, ServerTypeOK, StorageTypeOK
    <3> QED
      BY <1>9, <2>1, <3>1
         DEF PacketArrives, ReadOutbox, CommitPacket, SettledInv, CursorsAreInTheLog
  <2> QED
    BY <2>1, <2>2, <2>3, PacketStepSettles DEF PacketSettles
<1>10. CASE RebaseRead
  <2>1. UNCHANGED <<rows, log, made, reported, verdict, pc, todo, cursor, pktUpTo>>
    BY <1>10 DEF RebaseRead
  <2>2. \/ pktPc' = "applied" /\ dropped' = dropped
        \/ pktPc' = "rebase" /\ dropped' = dropped \cup {pktTx'}
    BY <1>10 DEF RebaseRead, NothingToDiscard, BeginDiscard
  <2>3. PacketSettles' /\ CursorsAreInTheLog'
    BY <2>1, <2>2 DEF PacketSettles, Settled, SettledInv, CursorsAreInTheLog
  <2> QED
    BY <2>1, <2>2, <2>3, PacketStepSettles
<1>11. CASE LoserRemoved
  <2>1. UNCHANGED <<log, made, reported, verdict, pc, todo, cursor, pktUpTo>>
    BY <1>11 DEF LoserRemoved
  <2>2. \/ pktPc' = "applied" /\ dropped' = dropped
        \/ pktPc' = "rebase" /\ dropped' = dropped \cup {pktTx'}
    BY <1>11 DEF LoserRemoved, NothingToDiscard, BeginDiscard
  <2>3. PacketSettles' /\ CursorsAreInTheLog'
    BY <2>1, <2>2 DEF PacketSettles, Settled, SettledInv, CursorsAreInTheLog
  <2>4. pktTx \in Settled
    BY <1>11 DEF LoserRemoved, SettledInv, PacketSettles
  <2>5. \A t \in Tx : rows'[t] = rows[t] \/ t = pktTx
    BY <1>11 DEF LoserRemoved, RemoveRow, TypeOK, StorageTypeOK
  <2> QED
    BY <2>1, <2>2, <2>3, <2>4, <2>5, PacketStepSettles
<1>12. CASE ConfirmRead \/ CompleteRead
  <2>1. /\ UNCHANGED <<rows, log, made, dropped, reported, verdict, pc, todo>>
        /\ UNCHANGED <<cursor, pktUpTo>>
    BY <1>12 DEF ConfirmRead, CompleteRead
  <2>2. Settled' = Settled /\ CursorsAreInTheLog'
    BY <2>1 DEF Settled, SettledInv, CursorsAreInTheLog
  <2>3. \A t \in Tx : rows[t] = "awaitingSync" => t \in Settled
    BY DEF SettledInv, NothingIsLost, Settled, IndexInv, Outstanding
  <2>4. Echoed(pktUpTo) \subseteq Settled
    BY EchoedIsApplied DEF SettledInv, Settled
  <2>5. CASE ConfirmRead
    <3>1. PacketSettles'
      BY <2>2, <2>4, <2>5
         DEF ConfirmRead, PacketSettles, BeginDiscard, NothingToDiscard
    <3> QED
      BY <2>1, <2>2, <3>1, PacketStepSettles
  <2>6. CASE CompleteRead
    <3>1. PacketSettles'
      BY <2>2, <2>3, <2>6
         DEF CompleteRead, PacketSettles, BeginDiscard, NothingToDiscard
    <3> QED
      BY <2>1, <2>2, <3>1, PacketStepSettles
  <2> QED
    BY <1>12, <2>5, <2>6
<1>13. CASE SettledRemoved
  <2>1. /\ UNCHANGED <<log, made, dropped, reported, verdict, pc, todo>>
        /\ UNCHANGED <<cursor, pktUpTo>>
    BY <1>13 DEF SettledRemoved
  <2>2. Settled' = Settled /\ CursorsAreInTheLog'
    BY <2>1 DEF Settled, SettledInv, CursorsAreInTheLog
  <2>3. pktTx \in Settled /\ pktTodo \subseteq Settled
    BY <1>13 DEF SettledRemoved, SettledInv, PacketSettles
  <2>4. \A t \in Tx : rows'[t] = rows[t] \/ t = pktTx
    BY <1>13 DEF SettledRemoved, RemoveRow, TypeOK, StorageTypeOK
  <2>5. PacketSettles'
    BY <1>13, <2>2, <2>3 DEF SettledRemoved, PacketSettles, BeginDiscard,
       NothingToDiscard
  <2> QED
    BY <2>1, <2>2, <2>3, <2>4, <2>5, PacketStepSettles
<1>14. CASE Restart
  <2>1. /\ UNCHANGED <<rows, log, made, dropped, reported, cursor>>
        /\ pc' = "idle" /\ pktPc' = "confirmed" /\ pktUpTo' = cursor
        /\ verdict' = [t \in Tx |-> "none"]
    BY <1>14 DEF Restart
  <2> QED
    BY <2>1 DEF SettledInv, NothingIsLost, VerdictsAreTrue, CursorsAreInTheLog,
                PacketSettles, RefusalIsReported
<1>15. CASE UNCHANGED vars
  BY <1>15 DEF SettledInv, NothingIsLost, VerdictsAreTrue, CursorsAreInTheLog,
               PacketSettles, Settled, RefusalIsReported
<1> QED
  BY <1>1, <1>2, <1>3, <1>4, <1>5, <1>6, <1>7, <1>8, <1>9, <1>10, <1>11, <1>12,
     <1>13, <1>14, <1>15 DEF Next, RunJob, ApplyPacket

-----------------------------------------------------------------------------
(* SenderInv: a transaction is with one sender at most *)

\* The empty queue has no transactions.
LEMMA NoJobsNoTxs == JobTxs(<<>>) = {} /\ JobsAreApart(<<>>) /\ ToSet(<<>>) = {}
BY DEF JobTxs, JobsAreApart, ToSet

\* What is behind the running job is part of the queue and of pendingBatch.
LEMMA BehindIsQueued ==
  ASSUME TypeOK, JobInv
  PROVE  /\ NotBegun \in Seq(Job)
         /\ JobTxs(NotBegun) \subseteq JobTxs(queue)
<1>1. queue \in Seq(Job)
  BY DEF TypeOK, ListTypeOK
<1>2. CASE pc = "idle"
  BY <1>1, <1>2 DEF NotBegun
<1>3. CASE pc # "idle"
  <2>1. queue # <<>>
    BY <1>3 DEF JobInv
  <2> QED
    BY <1>1, <1>3, <2>1, JobTxsTail DEF NotBegun
<1> QED
  BY <1>2, <1>3

\* The running job goes on: what it takes was not behind it, and it claims
\* exactly what it holds.
LEMMA FrontGoesOn ==
  ASSUME SenderInv, UNCHANGED <<pending, queue, made>>,
         pc = "idle" <=> pc' = "idle",
         claimed' = Behind \cup held',
         AtFront' \subseteq (1 .. made) \ Behind,
         ToSet(batch') \cup ToSet(missed') \subseteq held',
         discarded' \subseteq claimed' \ ToSet(pending)
  PROVE  SenderInv'
<1>1. Behind' = Behind
  BY DEF Behind, NotBegun
<1> QED
  BY <1>1 DEF SenderInv

\* A send that releases nothing takes the backlog and what it requests.
LEMMA SendTakesTheFront ==
  ASSUME TypeOK, SenderInv, UNCHANGED <<pending, queue, made, discarded, replay,
  missed>>,
         pc # "idle", pc' # "idle",
         NEW requested \in Seq(Tx), ToSet(requested) \subseteq held,
         SendBatch(requested, backlog, {}, held)
  PROVE  SenderInv'
<1>1. {} \in SUBSET Tx /\ held \in SUBSET Tx /\ backlog \in Seq(Tx)
  BY DEF TypeOK, JobTypeOK, ListTypeOK
<1>2. /\ ToSet(batch') = ToSet(backlog) \cup ToSet(requested)
      /\ held' = held \cup ToSet(backlog) \cup ToSet(requested)
      /\ claimed' = (claimed \ {}) \cup ToSet(backlog) \cup ToSet(requested)
      /\ backlog' = <<>>
  BY <1>1, SendBatchEffect DEF TypeOK, ClaimTypeOK
<1>3. ToSet(<<>>) = {}
  BY NoJobsNoTxs
<1> HIDE DEF SendBatch
<1>4. AtFront' \subseteq AtFront
  BY <1>2, <1>3 DEF AtFront
<1>5. claimed' = Behind \cup held'
  BY <1>2 DEF SenderInv
<1>6. AtFront' \subseteq (1 .. made) \ Behind
  BY <1>4 DEF SenderInv
<1>7. ToSet(batch') \cup ToSet(missed') \subseteq held'
  BY <1>2 DEF SenderInv
<1>8. discarded' \subseteq claimed' \ ToSet(pending)
  BY <1>2 DEF SenderInv
<1> QED
  BY <1>5, <1>6, <1>7, <1>8, FrontGoesOn

\* A slice releases what the job held and takes a part of `list`.
LEMMA SliceTakesTheList ==
  ASSUME TypeOK, SenderInv, UNCHANGED <<pending, queue, made>>,
         pc # "idle", pc' # "idle",
         NEW list \in Seq(Tx), NEW owed \in Seq(Tx),
         ToSet(list) \cup ToSet(owed) \subseteq (1 .. made) \ Behind,
         SendSlice(list, owed),
         discarded' \subseteq discarded \ held, ToSet(missed') = {}
  PROVE  SenderInv'
<1>1. /\ ToSet(replay') \subseteq ToSet(list) /\ held' = ToSet(batch')
      /\ held' \subseteq ToSet(owed) \cup ToSet(list)
      /\ claimed' = (claimed \ held) \cup held'
      /\ backlog' = <<>>
  BY SendSliceEffect DEF TypeOK, ClaimTypeOK, JobTypeOK
<1>2. ToSet(<<>>) = {}
  BY NoJobsNoTxs
<1>3. AtFront' \subseteq (1 .. made) \ Behind
  BY <1>1, <1>2 DEF AtFront
<1>4. claimed' = Behind \cup held'
  BY <1>1 DEF SenderInv, AtFront
<1>5. discarded' \subseteq claimed' \ ToSet(pending)
  BY <1>1 DEF SenderInv
<1>6. ToSet(batch') \cup ToSet(missed') \subseteq held'
  BY <1>1
<1> QED
  BY <1>3, <1>4, <1>5, <1>6, FrontGoesOn

\* A discard takes a transaction out of pendingBatch with its claim, or leaves
\* its sender, if there is one, to drop it.
LEMMA DiscardKeepsSenders ==
  ASSUME TypeOK, JobInv, SenderInv, NEW t \in Tx, DiscardFromMemory(t),
         UNCHANGED <<queue, made, held, batch, replay, missed>>,
         ToSet(backlog') \subseteq ToSet(backlog),
         pc = "idle" <=> pc' = "idle"
  PROVE  SenderInv'
<1>1. /\ ToSet(pending') = ToSet(pending) \ {t}
      /\ t \in ToSet(pending) => claimed' = claimed \ {t} /\ discarded' = discarded
      /\ t \notin ToSet(pending) =>
           /\ claimed' = claimed
           /\ discarded' = discarded \cup ({t} \cap claimed)
  BY DiscardEffect DEF TypeOK, ListTypeOK, ClaimTypeOK
<1>2. NotBegun' = NotBegun
  BY DEF NotBegun
<1>3. JobTxs(NotBegun) \subseteq JobTxs(queue)
  BY BehindIsQueued
<1>4. Behind' = ToSet(pending') \cup JobTxs(NotBegun)
  BY <1>2 DEF Behind
<1>5. Behind' \subseteq Behind /\ AtFront' \subseteq AtFront
  BY <1>1, <1>4 DEF Behind, AtFront
<1>6. claimed' = Behind' \cup held
  <2>1. CASE t \in ToSet(pending)
    <3>1. t \notin JobTxs(NotBegun) /\ t \notin held
      BY <1>3, <2>1 DEF SenderInv, Behind, AtFront
    <3> QED
      BY <1>1, <1>4, <2>1, <3>1 DEF SenderInv, Behind
  <2>2. CASE t \notin ToSet(pending)
    BY <1>1, <1>4, <2>2 DEF SenderInv, Behind
  <2> QED
    BY <2>1, <2>2
<1>7. discarded' \subseteq claimed' \ ToSet(pending')
  BY <1>1 DEF SenderInv
<1>8. ToSet(pending') \cap JobTxs(queue) = {}
  BY <1>1 DEF SenderInv
<1>9. AtFront' \cap Behind' = {} /\ AtFront' \cup Behind' \subseteq 1 .. made
  BY <1>5 DEF SenderInv
<1> QED
  BY <1>6, <1>7, <1>8, <1>9 DEF SenderInv

\* A job joins the queue with what leaves pendingBatch.
LEMMA PendingIsDispatched ==
  ASSUME TypeOK, JobInv, SenderInv, NEW j \in Job,
         queue' = Append(queue, j), pending' = <<>>,
         NEW new \in SUBSET Tx, ToSet(j.txs) = ToSet(pending) \cup new,
         new \cap (AtFront \cup Behind \cup JobTxs(queue)) = {},
         claimed' = claimed \cup ToSet(j.txs),
         new \subseteq 1 .. made', made \in Nat, made' \in Nat, made <= made',
         UNCHANGED <<pc, held, batch, replay, missed, backlog, discarded>>
  PROVE  SenderInv'
<1>1. queue \in Seq(Job)
  BY DEF TypeOK, ListTypeOK
<1>2. JobTxs(queue') = JobTxs(queue) \cup ToSet(j.txs)
  BY <1>1, JobTxsAppend
<1>3. JobTxs(NotBegun') = JobTxs(NotBegun) \cup ToSet(j.txs)
  <2>1. CASE pc = "idle"
    BY <1>2, <2>1 DEF NotBegun
  <2>2. CASE pc # "idle"
    <3>1. queue # <<>>
      BY <2>2 DEF JobInv
    <3>2. Tail(queue') = Append(Tail(queue), j) /\ Tail(queue) \in Seq(Job)
      BY <1>1, <3>1, HeadOfAppend, JobTxsTail
    <3> QED
      BY <2>2, <3>2, JobTxsAppend DEF NotBegun
  <2> QED
    BY <2>1, <2>2
<1>4. ToSet(pending') = {}
  BY NoJobsNoTxs
<1>5. Behind' = Behind \cup new
  BY <1>3, <1>4 DEF Behind
<1>6. JobsAreApart(queue')
  <2>1. ToSet(j.txs) \cap JobTxs(queue) = {}
    BY DEF SenderInv
  <2> QED
    BY <1>1, <2>1, JobsApartAppend DEF SenderInv, JobsAreApart
<1>7. AtFront' = AtFront
  BY DEF AtFront
<1>8. 1 .. made \subseteq 1 .. made'
  OBVIOUS
<1>9. claimed' = Behind' \cup held'
  BY <1>5 DEF SenderInv, Behind
<1>10. AtFront' \cap Behind' = {} /\ AtFront' \cup Behind' \subseteq 1 .. made'
  BY <1>5, <1>7, <1>8 DEF SenderInv
<1>11. discarded' \subseteq claimed' \ ToSet(pending')
  BY <1>4 DEF SenderInv
<1> QED
  BY <1>4, <1>6, <1>9, <1>10, <1>11 DEF SenderInv

\* A new transaction is with no sender.
LEMMA NewIsNowhere ==
  ASSUME TypeOK, JobInv, SenderInv
  PROVE  /\ made \in Nat
         /\ made + 1 \notin AtFront \cup Behind \cup JobTxs(queue)
<1>1. made \in Nat
  BY OutboxAssumption DEF TypeOK, HistoryTypeOK
<1>2. JobTxs(queue) \subseteq held \cup Behind
  <2>1. CASE pc = "idle"
    BY <2>1 DEF Behind, NotBegun
  <2>2. CASE pc # "idle"
    <3>1. queue \in Seq(Job) /\ queue # <<>> /\ ToSet(Head(queue).txs) \subseteq held
      BY <2>2 DEF JobInv, TypeOK, ListTypeOK
    <3> QED
      BY <2>2, <3>1, JobTxsTail DEF Behind, NotBegun
  <2> QED
    BY <2>1, <2>2
<1>3. made + 1 \notin 1 .. made
  BY <1>1
<1> QED
  BY <1>1, <1>2, <1>3 DEF SenderInv, AtFront

\* Every step preserves it.
LEMMA SenderStep ==
  ASSUME TypeOK, TypeOK', JobInv, IndexInv, SenderInv, [Next]_vars
  PROVE  SenderInv'
<1> USE DEF vars, storageVars, listVars, claimVars, indexVars, jobVars,
            serverVars, pktVars, historyVars
<1>1. /\ queue \in Seq(Job) /\ pending \in Seq(Tx) /\ backlog \in Seq(Tx)
      /\ batch \in Seq(Tx) /\ missed \in Seq(Tx) /\ replay \in Seq(Tx)
  BY DEF TypeOK, ListTypeOK, JobTypeOK
<1>2. /\ claimed = Behind \cup held /\ AtFront \subseteq (1 .. made) \ Behind
      /\ ToSet(batch) \subseteq held /\ ToSet(missed) \subseteq held
      /\ discarded \subseteq claimed \ ToSet(pending)
  BY DEF SenderInv
<1>3. ToSet(<<>>) = {}
  BY NoJobsNoTxs
<1>4. CASE QueueTransaction
  <2> DEFINE t == made + 1
             j == [kind |-> "send", txs |-> Append(pending, t)]
  <2>1. t \in Tx /\ made \in Nat /\ t \notin AtFront \cup Behind \cup JobTxs(queue)
    BY <1>4, NewIsNowhere, OutboxAssumption DEF QueueTransaction, Tx, TypeOK,
       HistoryTypeOK
  <2>2. /\ made' = t /\ claimed' = claimed \cup {t}
        /\ UNCHANGED <<pc, held, batch, replay, missed, backlog, discarded>>
    BY <1>4 DEF QueueTransaction
  <2>3. Append(pending, t) \in Seq(Tx) /\ ToSet(Append(pending, t)) = ToSet(pending) \cup {t}
    BY <1>1, <2>1, AppendLists
  <2>4. CASE Len(pending) + 1 >= MaxBatchSize
    <3>1. pending' = <<>> /\ queue' = Append(queue, j)
      BY <1>4, <2>4 DEF QueueTransaction
    <3>2. j \in Job /\ ToSet(j.txs) = ToSet(pending) \cup {t}
      BY <2>3 DEF Job
    <3>3. ToSet(pending) \subseteq claimed
      BY <1>2 DEF Behind
    <3>4. claimed' = claimed \cup ToSet(j.txs)
      BY <2>2, <3>2, <3>3
    <3>5. {t} \in SUBSET Tx /\ {t} \cap (AtFront \cup Behind \cup JobTxs(queue)) = {}
      BY <2>1
    <3>6. {t} \subseteq 1 .. made' /\ made' \in Nat /\ made <= made'
      BY <2>1, <2>2
    <3> HIDE DEF j, t
    <3> QED
      BY <2>1, <2>2, <3>1, <3>2, <3>4, <3>5, <3>6, PendingIsDispatched
  <2>5. CASE ~(Len(pending) + 1 >= MaxBatchSize)
    <3>1. pending' = Append(pending, t) /\ queue' = queue
      BY <1>4, <2>5 DEF QueueTransaction
    <3>2. ToSet(pending') = ToSet(pending) \cup {t}
      BY <2>3, <3>1
    <3>3. Behind' = Behind \cup {t} /\ AtFront' = AtFront
      BY <2>2, <3>1, <3>2 DEF Behind, NotBegun, AtFront
    <3>4. 1 .. made' = (1 .. made) \cup {t}
      BY <2>1, <2>2
    <3>5. discarded \subseteq Behind \cup held /\ t \notin discarded
      BY <1>2, <2>1 DEF AtFront
    <3> HIDE DEF t
    <3>6. claimed' = Behind' \cup held'
      BY <1>2, <2>2, <3>3
    <3>7. AtFront' \cap Behind' = {} /\ AtFront' \cup Behind' \subseteq 1 .. made'
      BY <2>1, <3>3, <3>4 DEF SenderInv
    <3>8. discarded' \subseteq claimed' \ ToSet(pending')
      BY <1>2, <2>2, <3>2, <3>5
    <3>9. ToSet(pending') \cap JobTxs(queue') = {}
      BY <2>1, <3>1, <3>2 DEF SenderInv
    <3> QED
      BY <2>2, <3>1, <3>6, <3>7, <3>8, <3>9 DEF SenderInv
  <2> QED
    BY <2>4, <2>5
<1>5. CASE BatchTimerFires \/ DrainStart
  <2>1. /\ pending' = <<>> /\ made \in Nat
        /\ UNCHANGED <<pc, held, batch, replay, missed, backlog, discarded, made>>
    BY <1>5, NewIsNowhere DEF BatchTimerFires, DrainStart
  <2>2. \/ pending = <<>> /\ UNCHANGED <<queue, claimed>>
        \/ \E kind \in {"send", "flush", "replay"} : Dispatch(kind, pending)
    BY <1>5 DEF BatchTimerFires, DrainStart
  <2>3. CASE pending = <<>> /\ UNCHANGED <<queue, claimed>>
    BY <2>1, <2>3 DEF SenderInv, Behind, NotBegun, AtFront
  <2>4. CASE \E kind \in {"send", "flush", "replay"} : Dispatch(kind, pending)
    <3>1. PICK kind \in {"send", "flush", "replay"} : Dispatch(kind, pending)
      BY <2>4
    <3> DEFINE j == [kind |-> kind, txs |-> pending]
    <3>2. j \in Job /\ j.txs = pending
      BY <1>1 DEF Job
    <3>3. queue' = Append(queue, j) /\ claimed' = claimed \cup ToSet(pending)
      BY <3>1 DEF Dispatch
    <3> HIDE DEF j
    <3>4. {} \in SUBSET Tx /\ made' \in Nat /\ made <= made'
      BY <2>1
    <3> QED
      BY <2>1, <3>2, <3>3, <3>4, PendingIsDispatched
  <2> QED
    BY <2>2, <2>3, <2>4
<1>6. CASE StartSendJob
  <2>1. /\ pc = "idle" /\ queue # <<>> /\ SendBatch(Head(queue).txs, backlog, {}, {})
        /\ UNCHANGED <<pending, queue, made, discarded, replay, missed>>
    BY <1>6 DEF StartSendJob
  <2>2. /\ Head(queue).txs \in Seq(Tx)
        /\ JobTxs(queue) = ToSet(Head(queue).txs) \cup JobTxs(Tail(queue))
    BY <1>1, <2>1, JobTxsTail DEF Job
  <2>3. /\ ToSet(batch') = ToSet(backlog) \cup ToSet(Head(queue).txs)
        /\ held' = {} \cup ToSet(backlog) \cup ToSet(Head(queue).txs)
        /\ claimed' = (claimed \ {}) \cup ToSet(backlog) \cup ToSet(Head(queue).txs)
        /\ backlog' = <<>> /\ pc' # "idle"
    <3>1. {} \in SUBSET Tx
      OBVIOUS
    <3> QED
      BY <1>1, <2>1, <2>2, <3>1, SendBatchEffect DEF TypeOK, ClaimTypeOK
  <2>4. ToSet(Head(queue).txs) \cap JobTxs(Tail(queue)) = {}
    BY <1>1, <2>1, JobsApart DEF SenderInv, JobsAreApart
  <2>5. held = {} /\ replay = <<>>
    BY <2>1 DEF JobInv
  <2>6. /\ Behind = ToSet(pending) \cup ToSet(Head(queue).txs) \cup JobTxs(Tail(queue))
        /\ Behind' = ToSet(pending) \cup JobTxs(Tail(queue))
    BY <2>1, <2>2, <2>3 DEF Behind, NotBegun
  <2>7. ToSet(pending) \cap JobTxs(queue) = {}
    BY DEF SenderInv
  <2>8. /\ AtFront' = ToSet(backlog) \cup ToSet(Head(queue).txs)
        /\ AtFront = ToSet(backlog)
    BY <1>3, <2>1, <2>3, <2>5 DEF AtFront
  <2>9. claimed' = Behind' \cup held'
    BY <1>2, <2>3, <2>5, <2>6
  <2>10. AtFront' \cap Behind' = {} /\ AtFront' \cup Behind' \subseteq 1 .. made'
    BY <2>1, <2>2, <2>4, <2>6, <2>7, <2>8 DEF SenderInv
  <2>11. discarded' \subseteq claimed' \ ToSet(pending')
    BY <1>2, <2>1, <2>3
  <2>12. ToSet(batch') \cup ToSet(missed') \subseteq held'
    BY <1>2, <2>1, <2>3, <2>5
  <2> QED
    BY <2>1, <2>9, <2>10, <2>11, <2>12 DEF SenderInv
<1>7. CASE StartReplayJob
  <2>1. /\ pc = "idle" /\ pc' = "reading" /\ queue # <<>> /\ Head(queue).kind = "replay"
        /\ UNCHANGED <<pending, queue, made, claimed, discarded, backlog, held, batch,
                       replay, missed>>
    BY <1>7 DEF StartReplayJob
  <2>2. Head(queue).txs = <<>>
    <3>1. JobsReady(queue)
      BY DEF JobInv, JobsReady
    <3> QED
      BY <1>1, <2>1, <3>1, JobsReadyTail
  <2>3. JobTxs(queue) = JobTxs(Tail(queue))
    BY <1>1, <1>3, <2>1, <2>2, JobTxsTail
  <2>4. Behind' = Behind /\ AtFront' = AtFront
    BY <2>1, <2>3 DEF Behind, NotBegun, AtFront
  <2> QED
    BY <2>1, <2>4 DEF SenderInv
<1>8. CASE OutboxRead
  <2> DEFINE stale == {t \in Unclaimed : rows[t] = "sent"}
             list  == InOutboxOrder(Replayable(Unclaimed))
  <2>1. /\ pc = "reading" /\ UNCHANGED <<pending, queue, made, discarded, missed>>
    BY <1>8 DEF OutboxRead
  <2>2. held = {} /\ ToSet(missed) = {}
    BY <1>2, <2>1 DEF JobInv
  <2>3. Unclaimed \subseteq (1 .. made) \ Behind
    BY <1>2 DEF Unclaimed, IndexInv
  <2>4. list \in Seq(Tx) /\ ToSet(list) \subseteq (1 .. made) \ Behind
    <3>1. /\ Replayable(Unclaimed) \in SUBSET Outstanding
          /\ Replayable(Unclaimed) \subseteq Unclaimed
      BY DEF Unclaimed, Replayable
    <3>2. list \in Seq(Tx) /\ ToSet(list) = Replayable(Unclaimed)
      BY <3>1, InOutboxOrderLists DEF IndexInv, TypeOK, StorageTypeOK
    <3> QED
      BY <2>3, <3>1, <3>2
  <2>5. \/ /\ pc' = "resetting" /\ replay' = list /\ backlog' = <<>>
           /\ UNCHANGED <<claimed, held, batch>>
        \/ SendSlice(list, <<>>)
        \/ /\ pc' = "ended" /\ backlog' = <<>>
           /\ UNCHANGED <<claimed, held, batch, replay>>
    BY <1>8 DEF OutboxRead
  <2> HIDE DEF list, stale
  <2>6. CASE /\ pc' = "resetting" /\ replay' = list /\ backlog' = <<>>
             /\ UNCHANGED <<claimed, held, batch>>
    <3>1. AtFront' \subseteq (1 .. made) \ Behind
      BY <1>3, <2>2, <2>4, <2>6 DEF AtFront
    <3> QED
      BY <1>2, <2>1, <2>6, <3>1, FrontGoesOn
  <2>7. CASE SendSlice(list, <<>>)
    <3>1. pc' # "idle" /\ <<>> \in Seq(Tx) /\ discarded' \subseteq discarded \ held
      BY <2>1, <2>2, <2>7, EmptySeq DEF SendSlice, SendBatch
    <3> QED
      BY <1>3, <2>1, <2>2, <2>4, <2>7, <3>1, SliceTakesTheList
  <2>8. CASE /\ pc' = "ended" /\ backlog' = <<>>
             /\ UNCHANGED <<claimed, held, batch, replay>>
    <3>1. AtFront' \subseteq (1 .. made) \ Behind
      BY <1>2, <1>3, <2>8 DEF AtFront
    <3> QED
      BY <1>2, <2>1, <2>8, <3>1, FrontGoesOn
  <2> QED
    BY <2>5, <2>6, <2>7, <2>8
<1>9. CASE ResetSent
  <2>1. pc = "resetting" /\ UNCHANGED <<pending, queue, made, discarded, missed>>
    BY <1>9 DEF ResetSent
  <2>2. held = {} /\ ToSet(missed) = {}
    BY <1>2, <2>1 DEF JobInv
  <2>3. CASE Len(todo) > 1
    BY <1>9, <2>1, <2>3 DEF ResetSent, SenderInv, Behind, NotBegun, AtFront
  <2>4. CASE ~(Len(todo) > 1)
    <3>1. SendSlice(replay, backlog)
      BY <1>9, <2>4 DEF ResetSent
    <3>2. pc' # "idle" /\ discarded' \subseteq discarded \ held
      BY <2>1, <2>2, <3>1 DEF SendSlice, SendBatch
    <3>3. ToSet(replay) \cup ToSet(backlog) \subseteq (1 .. made) \ Behind
      BY <1>2 DEF AtFront
    <3> QED
      BY <1>1, <2>1, <2>2, <3>1, <3>2, <3>3, SliceTakesTheList
  <2> QED
    BY <2>3, <2>4
<1>10. CASE MarkSent
  <2>1. /\ pc = "marking" /\ pc' # "idle"
        /\ UNCHANGED <<pending, queue, made, claimed, discarded, backlog, held, replay, missed>>
        /\ batch' = batch \/ batch' = Without(batch, discarded)
    BY <1>10 DEF MarkSent
  <2>2. ToSet(batch') \subseteq ToSet(batch)
    BY <1>1, <2>1, WithoutDropsTheSet
  <2>3. Behind' = Behind /\ AtFront' = AtFront
    BY <2>1 DEF Behind, NotBegun, AtFront
  <2> QED
    BY <2>1, <2>2, <2>3 DEF SenderInv
<1>11. CASE Requeue
  <2>1. /\ pc # "idle" /\ pc' # "idle"
        /\ UNCHANGED <<pending, queue, made, claimed, discarded, held, batch, replay, missed>>
        /\ \/ backlog' = backlog
           \/ backlog' = backlog \o Without(batch, discarded)
           \/ backlog' = backlog \o Without(missed, discarded)
    BY <1>11 DEF Requeue
  <2>2. /\ Without(batch, discarded) \in Seq(Tx)
        /\ Without(missed, discarded) \in Seq(Tx)
        /\ ToSet(Without(batch, discarded)) \subseteq held
        /\ ToSet(Without(missed, discarded)) \subseteq held
    BY <1>1, <1>2, WithoutDropsTheSet
  <2>3. \A more \in Seq(Tx) : ToSet(backlog \o more) = ToSet(backlog) \cup ToSet(more)
    BY <1>1, ListsOf
  <2>4. ToSet(backlog') \subseteq ToSet(backlog) \cup held
    BY <2>1, <2>2, <2>3
  <2>5. AtFront' \subseteq (1 .. made) \ Behind
    BY <1>2, <2>1, <2>4 DEF AtFront
  <2> QED
    BY <1>2, <2>1, <2>5, FrontGoesOn
<1>12. CASE ReplyArrives
  <2>1. /\ pc # "idle" /\ pc' # "idle"
        /\ UNCHANGED <<pending, queue, made, claimed, discarded, backlog, held, batch, replay>>
        /\ \E omitted : missed' = Without(batch, ToSet(batch) \ omitted)
    BY <1>12 DEF ReplyArrives
  <2>2. ToSet(missed') \subseteq ToSet(batch)
    BY <1>1, <2>1, WithoutDropsTheSet
  <2>3. Behind' = Behind /\ AtFront' = AtFront
    BY <2>1 DEF Behind, NotBegun, AtFront
  <2> QED
    BY <1>2, <2>1, <2>2, <2>3 DEF SenderInv
<1>13. CASE Refuse
  <2>1. /\ pc \in {"results", "invalid"} /\ pc' # "idle" /\ DiscardFromMemory(Head(todo))
        /\ UNCHANGED <<queue, made, held, batch, replay, missed, backlog>>
    BY <1>13 DEF Refuse
  <2>2. Head(todo) \in Tx
    BY <2>1, HeadAndTail DEF JobInv, Loops, TypeOK, JobTypeOK
  <2> QED
    BY <2>1, <2>2, DiscardKeepsSenders
<1>14. CASE RefusedRemoved \/ CulpritRemoved
  <2>1. /\ pc # "idle" /\ RemoveRow(Head(todo))
        /\ UNCHANGED <<pending, queue, made, claimed, discarded, held, replay, missed>>
        /\ batch' = batch \/ batch' = Without(batch, {Head(todo)})
    BY <1>14 DEF RefusedRemoved, CulpritRemoved
  <2>2. pc' # "idle"
    BY <1>14 DEF RefusedRemoved, CulpritRemoved, NextResult
  <2>3. ToSet(batch') \subseteq ToSet(batch)
    BY <1>1, <2>1, WithoutDropsTheSet
  <2>4. ToSet(backlog') \subseteq ToSet(backlog)
    BY <2>1, RemoveRowEffect DEF TypeOK, StorageTypeOK, ListTypeOK, ClaimTypeOK
  <2>5. AtFront' \subseteq (1 .. made) \ Behind
    BY <1>2, <2>1, <2>4 DEF AtFront
  <2> QED
    BY <1>2, <2>1, <2>2, <2>3, <2>5, FrontGoesOn
<1>15. CASE Restore
  <2>1. /\ pc = "restoring"
        /\ UNCHANGED <<pending, queue, made, discarded, replay, missed>>
    BY <1>15 DEF Restore
  <2>2. CASE Len(todo) > 1
    BY <1>15, <2>1, <2>2 DEF Restore, SenderInv, Behind, NotBegun, AtFront
  <2>3. CASE ~(Len(todo) > 1)
    <3>1. SendBatch(batch, backlog, {}, held)
      BY <1>15, <2>3 DEF Restore
    <3>2. pc' # "idle"
      BY <3>1 DEF SendBatch
    <3> QED
      BY <1>1, <1>2, <2>1, <3>1, <3>2, SendTakesTheFront
  <2> QED
    BY <2>2, <2>3
<1>16. CASE EndSend
  <2>1. /\ pc = "ended" /\ discarded' = discarded \ held /\ missed' = <<>>
        /\ UNCHANGED <<pending, made>>
    BY <1>16 DEF EndSend
  <2>2. CASE replay # <<>> /\ ~failed
    <3>1. SendSlice(replay, backlog) /\ UNCHANGED queue
      BY <1>16, <2>2 DEF EndSend
    <3>2. pc' # "idle"
      BY <3>1 DEF SendSlice, SendBatch
    <3>3. ToSet(replay) \cup ToSet(backlog) \subseteq (1 .. made) \ Behind
      BY <1>2 DEF AtFront
    <3> QED
      BY <1>1, <1>3, <2>1, <3>1, <3>2, <3>3, SliceTakesTheList
  <2>3. CASE ~(replay # <<>> /\ ~failed)
    <3> DEFINE j == [kind |-> "replay", txs |-> <<>>]
    <3>1. FinishJob /\ claimed' = claimed \ held /\ UNCHANGED backlog
      BY <1>16, <2>3 DEF EndSend
    <3>2. queue # <<>> /\ j \in Job
      BY <2>1, EmptySeq DEF JobInv, Job
    <3>3. /\ pc' = "idle" /\ held' = {} /\ batch' = <<>> /\ replay' = <<>>
          /\ queue' = Tail(queue) \/ queue' = Append(Tail(queue), j)
      BY <1>1, <3>1, <3>2, FinishJobEffect
    <3>4. /\ Tail(queue) \in Seq(Job)
          /\ JobTxs(queue) = ToSet(Head(queue).txs) \cup JobTxs(Tail(queue))
      BY <1>1, <3>2, JobTxsTail
    <3>5. JobsAreApart(Tail(queue))
      BY <1>1, <3>2, JobsApart DEF SenderInv, JobsAreApart
    <3>6. JobTxs(queue') = JobTxs(Tail(queue))
      <4>1. ToSet(j.txs) = {}
        BY <1>3
      <4>2. JobTxs(Append(Tail(queue), j)) = JobTxs(Tail(queue)) \cup ToSet(j.txs)
        BY <3>2, <3>4, JobTxsAppend
      <4> QED
        BY <3>3, <4>1, <4>2
    <3>7. JobsAreApart(queue')
      <4>1. ToSet(j.txs) \cap JobTxs(Tail(queue)) = {}
        BY <1>3
      <4>2. JobsAreApart(Append(Tail(queue), j))
        BY <3>2, <3>4, <3>5, <4>1, JobsApartAppend DEF JobsAreApart
      <4> QED
        BY <3>3, <3>5, <4>2
    <3> HIDE DEF j
    <3>8. Behind' = Behind /\ AtFront' \subseteq AtFront
      BY <1>3, <2>1, <3>1, <3>3, <3>6 DEF Behind, NotBegun, AtFront
    <3>9. claimed' = Behind' \cup held'
      BY <1>2, <3>1, <3>3, <3>8 DEF AtFront
    <3>10. ToSet(pending') \cap JobTxs(queue') = {}
      BY <2>1, <3>4, <3>6 DEF SenderInv
    <3>11. discarded' \subseteq claimed' \ ToSet(pending')
      BY <1>2, <2>1, <3>1
    <3>12. AtFront' \cap Behind' = {} /\ AtFront' \cup Behind' \subseteq 1 .. made'
      BY <2>1, <3>8 DEF SenderInv
    <3>13. ToSet(batch') \cup ToSet(missed') \subseteq held'
      BY <1>3, <2>1, <3>3
    <3> QED
      BY <3>7, <3>9, <3>10, <3>11, <3>12, <3>13 DEF SenderInv
  <2> QED
    BY <2>2, <2>3
<1>17. CASE RebaseRead \/ ConfirmRead \/ CompleteRead
  <2>1. UNCHANGED <<pc, queue, made, held, batch, replay, missed, backlog>>
    BY <1>17 DEF RebaseRead, ConfirmRead, CompleteRead
  <2>2. \/ UNCHANGED <<pending, claimed, discarded>>
        \/ \E t \in Tx : DiscardFromMemory(t)
    BY <1>17 DEF RebaseRead, ConfirmRead, CompleteRead, BeginDiscard, NothingToDiscard,
                 Outstanding
  <2>3. CASE UNCHANGED <<pending, claimed, discarded>>
    BY <2>1, <2>3 DEF SenderInv, Behind, NotBegun, AtFront
  <2>4. CASE \E t \in Tx : DiscardFromMemory(t)
    BY <2>1, <2>4, DiscardKeepsSenders
  <2> QED
    BY <2>2, <2>3, <2>4
<1>18. CASE LoserRemoved \/ SettledRemoved
  <2>1. UNCHANGED <<pc, queue, made, held, batch, replay, missed>> /\ RemoveRow(pktTx)
    BY <1>18 DEF LoserRemoved, SettledRemoved
  <2>2. \/ UNCHANGED <<pending, claimed, discarded>>
        \/ \E t \in Tx : DiscardFromMemory(t)
    BY <1>18 DEF LoserRemoved, SettledRemoved, BeginDiscard, NothingToDiscard,
                 TypeOK, PacketTypeOK
  <2>3. ToSet(backlog') \subseteq ToSet(backlog)
    BY <2>1, RemoveRowEffect DEF TypeOK, StorageTypeOK, ListTypeOK, ClaimTypeOK
  <2>4. CASE UNCHANGED <<pending, claimed, discarded>>
    <3>1. AtFront' \subseteq AtFront /\ Behind' = Behind
      BY <2>1, <2>3, <2>4 DEF Behind, NotBegun, AtFront
    <3> QED
      BY <2>1, <2>4, <3>1 DEF SenderInv
  <2>5. CASE \E t \in Tx : DiscardFromMemory(t)
    BY <2>1, <2>3, <2>5, DiscardKeepsSenders
  <2> QED
    BY <2>2, <2>4, <2>5
<1>19. CASE Restart
  <2>1. /\ pending' = <<>> /\ queue' = <<>> /\ backlog' = <<>> /\ claimed' = {}
        /\ discarded' = {} /\ held' = {} /\ batch' = <<>> /\ replay' = <<>>
        /\ missed' = <<>> /\ pc' = "idle"
    BY <1>19 DEF Restart
  <2>2. Behind' = {} /\ AtFront' = {} /\ JobsAreApart(queue')
    BY <1>3, <2>1, NoJobsNoTxs DEF Behind, NotBegun, AtFront
  <2> QED
    BY <1>3, <2>1, <2>2 DEF SenderInv
<1>20. CASE \/ TransportFails \/ Acknowledge \/ BatchRefused
            \/ ServerTakesNext \/ ServerTakesLate \/ PacketArrives
            \/ ReadOutbox \/ CommitPacket \/ UNCHANGED vars
  <2>1. UNCHANGED <<pending, queue, made, claimed, discarded, backlog, held, batch,
                    replay, missed>>
    BY <1>20 DEF TransportFails, Acknowledge, BatchRefused, ServerTakesNext,
         ServerTakesLate, PacketArrives, ReadOutbox, CommitPacket
  <2>2. pc = "idle" <=> pc' = "idle"
    BY <1>20 DEF TransportFails, Acknowledge, BatchRefused, ServerTakesNext,
         ServerTakesLate, PacketArrives, ReadOutbox, CommitPacket, NextResult
  <2>3. Behind' = Behind /\ AtFront' = AtFront
    BY <2>1, <2>2 DEF Behind, NotBegun, AtFront
  <2> QED
    BY <2>1, <2>3 DEF SenderInv
<1> QED
  BY <1>4, <1>5, <1>6, <1>7, <1>8, <1>9, <1>10, <1>11, <1>12, <1>13, <1>14, <1>15,
     <1>16, <1>17, <1>18, <1>19, <1>20 DEF Next, RunJob, ApplyPacket

-----------------------------------------------------------------------------
(* PassedInv: what the cursor has passed is confirmed *)

\* A log that grows keeps what it has where it is.
Extends(longer) == Len(log) <= Len(longer) /\ \A id \in 1 .. Len(log) : longer[id] = log[id]

\* The server only ever appends to its log.
LEMMA ServerExtends ==
  ASSUME log \in Seq(Tx), NEW t \in Tx, NEW outcome \in ServerOutcome(t)
  PROVE  Extends(outcome[2]) /\ ToSet(outcome[2]) \subseteq ToSet(log) \cup {t}
<1>1. Extends(log)
  BY DEF Extends
<1>2. Extends(Append(log, t))
  BY AppendProperties DEF Extends
<1>3. ToSet(Append(log, t)) = ToSet(log) \cup {t}
  BY AppendLists
<1>4. outcome[2] = log \/ outcome[2] = Append(log, t)
  <2>1. \/ outcome = <<"ok", log>>
        \/ outcome = <<"ok", Append(log, t)>>
        \/ outcome = <<"refused", log>>
    BY DEF ServerOutcome
  <2> QED
    BY <2>1
<1> QED
  BY <1>1, <1>2, <1>3, <1>4

\* A row that is gone stays gone.
LEMMA PassedStaysGone ==
  ASSUME TypeOK, PassedIsGone, CursorsAreInTheLog, UNCHANGED <<cursor, pktVars>>,
         \A t \in Tx : rows[t] = "none" => rows'[t] = "none",
         Extends(log')
  PROVE  PassedIsGone'
<1>1. /\ cursor \in Nat /\ pktUpTo \in Nat /\ log \in Seq(Tx)
      /\ cursor <= Len(log) /\ pktUpTo <= Len(log)
  BY DEF TypeOK, StorageTypeOK, PacketTypeOK, ServerTypeOK, CursorsAreInTheLog
<1>2. \A id \in 1 .. Len(log) : log[id] \in Tx /\ log'[id] = log[id]
  BY <1>1 DEF Extends
<1>3. \A id \in 1 .. cursor : id \in 1 .. Len(log)
  BY <1>1
<1>4. \A id \in 1 .. pktUpTo : id \in 1 .. Len(log)
  BY <1>1
<1> QED
  BY <1>2, <1>3, <1>4 DEF PassedIsGone, pktVars

\* So does the id of an acknowledged transaction.
LEMMA AwaitsTheSame ==
  ASSUME TypeOK, AwaitsItsId,
         \A t \in Tx : rows'[t] = "awaitingSync" => rows[t] = "awaitingSync" /\ needed'[t] = needed[t],
         log' \in Seq(Tx), Extends(log')
  PROVE  AwaitsItsId'
<1>1. log \in Seq(Tx) /\ DOMAIN log = 1 .. Len(log) /\ DOMAIN log' = 1 .. Len(log') /\ Len(log) \in Nat
      /\ Len(log') \in Nat
  BY DEF TypeOK, ServerTypeOK
<1>2. \A id \in DOMAIN log : id \in DOMAIN log' /\ log'[id] = log[id]
  BY <1>1 DEF Extends
<1> QED
  BY <1>2 DEF AwaitsItsId

\* A step of the running job, or of a send, that changes rows that are there.
LEMMA PassedByJob ==
  ASSUME TypeOK, PassedInv, CursorsAreInTheLog,
         UNCHANGED <<cursor, pktVars, log, made, dropped, localIds>>,
         \A t \in Tx : rows[t] = "none" <=> rows'[t] = "none",
         \A t \in Tx : rows'[t] = "awaitingSync" => rows[t] = "awaitingSync" /\ needed'[t] = needed[t],
         ToSet(request') \subseteq 1 .. made,
         (UNION {ToSet(r) : r \in late'}) \subseteq 1 .. made
  PROVE  PassedInv'
<1>1. Extends(log') /\ log' \in Seq(Tx)
  BY DEF Extends, TypeOK, ServerTypeOK
<1>2. KnownAreMade'
  BY DEF KnownAreMade, PassedInv
<1>3. PassedIsGone'
  BY <1>1, PassedStaysGone DEF PassedInv
<1>4. AwaitsItsId'
  BY <1>1, AwaitsTheSame DEF PassedInv
<1>5. PacketKnows'
  BY DEF PacketKnows, PassedInv, pktVars
<1>6. EchoIdsAreOutstanding'
  BY DEF PassedInv, EchoIdsAreOutstanding, Outstanding
<1> QED
  BY <1>2, <1>3, <1>4, <1>5, <1>6 DEF PassedInv

\* A row is removed, by the job or the packet.
LEMMA RemovalPasses ==
  ASSUME TypeOK, PassedInv, NEW t \in Tx, RemoveRow(t),
         UNCHANGED <<needed, log>>
  PROVE  /\ AwaitsItsId' /\ EchoIdsAreOutstanding'
         /\ \A u \in Tx : rows'[u] = IF u = t THEN "none" ELSE rows[u]
<1>1. \A u \in Tx : rows'[u] = IF u = t THEN "none" ELSE rows[u]
  BY RemoveRowEffect DEF TypeOK, StorageTypeOK, ListTypeOK, ClaimTypeOK
<1>2. EchoIdsAreOutstanding'
  BY <1>1 DEF PassedInv, EchoIdsAreOutstanding, Outstanding, RemoveRow
<1>3. Extends(log') /\ log' \in Seq(Tx)
  BY DEF Extends, TypeOK, ServerTypeOK
<1>4. AwaitsItsId'
  BY <1>1, <1>3, AwaitsTheSame DEF PassedInv
<1> QED
  BY <1>1, <1>2, <1>4

\* What late requests carry.
LEMMA LateAreMade ==
  ASSUME KnownAreMade, late' \subseteq late \cup {request}
  PROVE  (UNION {ToSet(r) : r \in late'}) \subseteq 1 .. made
BY DEF KnownAreMade

\* Every step preserves it.
LEMMA PassedStep ==
  ASSUME TypeOK, TypeOK', JobInv, IndexInv, SenderInv, SettledInv, PassedInv, [Next]_vars
  PROVE  PassedInv'
<1> USE DEF vars, storageVars, listVars, claimVars, indexVars, jobVars,
            serverVars, pktVars, historyVars
<1>1. /\ rows \in [Tx -> RowState] /\ log \in Seq(Tx) /\ log' \in Seq(Tx) /\ made \in Nat
      /\ cursor \in Nat /\ pktUpTo \in Nat /\ todo \in Seq(Tx) /\ batch \in Seq(Tx)
      /\ needed \in [Tx -> Nat]
  <2>1. made \in Nat
    BY NewIsNowhere
  <2> QED
    BY <2>1 DEF TypeOK, StorageTypeOK, ServerTypeOK, PacketTypeOK, JobTypeOK
<1>2. CursorsAreInTheLog /\ cursor <= Len(log) /\ pktUpTo <= Len(log)
  BY DEF SettledInv, CursorsAreInTheLog
<1>3. /\ KnownAreMade /\ PassedIsGone /\ AwaitsItsId /\ PacketKnows /\ EchoIdsAreOutstanding
      /\ (UNION {ToSet(r) : r \in late}) \subseteq 1 .. made /\ ToSet(request) \subseteq 1 .. made
      /\ ToSet(log) \subseteq 1 .. made
  BY DEF PassedInv, KnownAreMade
<1>4. ToSet(<<>>) = {}
  BY NoJobsNoTxs
<1>5. pc \in Loops => Head(todo) \in Tx
  BY <1>1, HeadAndTail DEF JobInv
<1>6. CASE QueueTransaction
  <2>1. made + 1 \in Tx
    BY <1>1, <1>6, OutboxAssumption DEF QueueTransaction, Tx
  <2>2. /\ made' = made + 1 /\ rows' = [rows EXCEPT ![made + 1] = "queued"]
        /\ localIds' = localIds \cup {made + 1}
        /\ UNCHANGED <<log, request, late, dropped, cursor, pktVars, needed>>
    BY <1>6 DEF QueueTransaction
  <2>3. rows[made + 1] = "none" /\ made + 1 \notin ToSet(log)
    BY <1>1, <1>3, <2>1 DEF IndexInv, Outstanding
  <2>4. \A t \in Tx : rows'[t] = IF t = made + 1 THEN "queued" ELSE rows[t]
    BY <1>1, <2>1, <2>2
  <2>5. KnownAreMade'
    <3>1. 1 .. made \subseteq 1 .. made'
      BY <1>1, <2>2
    <3> QED
      BY <2>2, <3>1, <1>3 DEF KnownAreMade
  <2>6. PassedIsGone'
    <3>1. \A id \in 1 .. cursor : log[id] \in Tx /\ log[id] # made + 1
      BY <1>1, <1>2, <2>3 DEF ToSet
    <3>2. \A id \in 1 .. pktUpTo : log[id] \in Tx /\ log[id] # made + 1
      BY <1>1, <1>2, <2>3 DEF ToSet
    <3> QED
      BY <1>3, <2>2, <2>4, <3>1, <3>2 DEF PassedIsGone
  <2>7. AwaitsItsId'
    BY <1>3, <2>2, <2>4 DEF AwaitsItsId
  <2>8. EchoIdsAreOutstanding'
    BY <1>3, <2>1, <2>2, <2>4 DEF EchoIdsAreOutstanding, Outstanding
  <2>9. PacketKnows'
    BY <1>3, <2>2 DEF PacketKnows
  <2> QED
    BY <2>5, <2>6, <2>7, <2>8, <2>9 DEF PassedInv
<1>7. CASE ResetSent \/ MarkSent \/ Requeue \/ Restore \/ Refuse
  <2>1. /\ pc \in Loops /\ UNCHANGED <<cursor, pktVars, log, made, dropped, localIds, needed, late>>
        /\ request' = request \/ request' = Without(batch, discarded)
    BY <1>7 DEF ResetSent, MarkSent, Requeue, Restore, Refuse, Loops
  <2>2. \E state \in {"queued", "sent", "failed"} : rows' = Touch(Head(todo), state)
    BY <1>7 DEF ResetSent, MarkSent, Requeue, Restore, Refuse, Requeued
  <2>3. /\ \A t \in Tx : rows[t] = "none" <=> rows'[t] = "none"
        /\ \A t \in Tx : rows'[t] = "awaitingSync" => rows[t] = "awaitingSync"
    BY <1>1, <1>5, <2>1, <2>2, TouchEffect DEF RowState
  <2>4. ToSet(request') \subseteq 1 .. made
    <3>1. ToSet(Without(batch, discarded)) \subseteq ToSet(batch)
      BY <1>1, WithoutDropsTheSet
    <3> QED
      BY <1>3, <2>1, <3>1 DEF SenderInv, AtFront
  <2> QED
    BY <1>2, <1>3, <2>1, <2>3, <2>4, PassedByJob
<1>8. CASE BatchTimerFires \/ DrainStart \/ StartSendJob \/ StartReplayJob \/ OutboxRead
             \/ TransportFails \/ ReplyArrives \/ BatchRefused \/ EndSend
  <2>1. /\ UNCHANGED <<cursor, pktVars, log, made, dropped, localIds, needed, rows>>
        /\ request' = request \/ request' = <<>>
        /\ late' \subseteq late \cup {request}
    BY <1>8 DEF BatchTimerFires, DrainStart, StartSendJob, StartReplayJob, OutboxRead,
                TransportFails, ReplyArrives, BatchRefused, EndSend
  <2>2. (UNION {ToSet(r) : r \in late'}) \subseteq 1 .. made
    BY <1>3, <2>1, LateAreMade
  <2> QED
    BY <1>2, <1>3, <1>4, <2>1, <2>2, PassedByJob
<1>9. CASE Acknowledge
  <2> DEFINE t == Head(todo)
  <2>1. /\ pc = "results" /\ t \in Tx /\ verdict[t] = "ok"
        /\ rows' = Touch(t, "awaitingSync")
        /\ needed' = [needed EXCEPT ![t] = SyncIdOf(t)]
        /\ UNCHANGED <<cursor, pktVars, log, made, dropped, localIds, request, late>>
    BY <1>5, <1>9 DEF Acknowledge, Loops
  <2>2. t \in ToSet(log)
    BY <2>1 DEF SettledInv, VerdictsAreTrue
  <2>3. SyncIdOf(t) \in DOMAIN log /\ log[SyncIdOf(t)] = t
    <3>1. \E id \in DOMAIN log : log[id] = t
      BY <2>2 DEF ToSet
    <3> HIDE DEF t
    <3> QED
      BY <3>1 DEF SyncIdOf
  <2> HIDE DEF t
  <2>4. /\ \A u \in Tx : rows[u] = "none" <=> rows'[u] = "none"
        /\ \A u \in Tx : u # t => rows'[u] = rows[u]
    BY <1>1, <2>1, TouchEffect DEF RowState
  <2>5. KnownAreMade' /\ PacketKnows'
    BY <1>3, <2>1 DEF KnownAreMade, PacketKnows
  <2>6. PassedIsGone'
    BY <1>2, <1>3, <2>1, <2>4, PassedStaysGone DEF Extends
  <2>7. AwaitsItsId'
    <3>1. \A u \in Tx : needed'[u] = IF u = t THEN SyncIdOf(t) ELSE needed[u]
      BY <1>1, <2>1
    <3> QED
      BY <1>3, <2>1, <2>3, <2>4, <3>1 DEF AwaitsItsId
  <2>8. EchoIdsAreOutstanding'
    BY <1>3, <2>1, <2>4 DEF EchoIdsAreOutstanding, Outstanding
  <2> QED
    BY <2>5, <2>6, <2>7, <2>8 DEF PassedInv
<1>10. CASE RefusedRemoved \/ CulpritRemoved
  <2>1. /\ pc \in Loops /\ RemoveRow(Head(todo))
        /\ UNCHANGED <<cursor, pktVars, log, made, dropped, request, late, needed>>
    BY <1>10 DEF RefusedRemoved, CulpritRemoved, Loops
  <2>2. /\ AwaitsItsId' /\ EchoIdsAreOutstanding'
        /\ \A u \in Tx : rows'[u] = IF u = Head(todo) THEN "none" ELSE rows[u]
    BY <1>5, <2>1, RemovalPasses
  <2>3. PassedIsGone'
    BY <1>2, <1>3, <2>1, <2>2, PassedStaysGone DEF Extends
  <2>4. KnownAreMade' /\ PacketKnows'
    BY <1>3, <2>1 DEF KnownAreMade, PacketKnows
  <2> QED
    BY <2>2, <2>3, <2>4 DEF PassedInv
<1>11. CASE ServerTakesNext \/ ServerTakesLate
  <2>1. UNCHANGED <<cursor, pktVars, made, dropped, localIds, needed, rows>>
    BY <1>11 DEF ServerTakesNext, ServerTakesLate
  <2>2. /\ Extends(log') /\ ToSet(log') \subseteq 1 .. made
        /\ ToSet(request') \subseteq 1 .. made
        /\ (UNION {ToSet(r) : r \in late'}) \subseteq 1 .. made
    <3>1. CASE ServerTakesNext
      <4>1. request \in Seq(Tx) /\ request # <<>>
        BY <3>1 DEF ServerTakesNext, TypeOK, ServerTypeOK
      <4>2. Head(request) \in Tx /\ ToSet(request) = {Head(request)} \cup ToSet(Tail(request))
        BY <4>1, HeadAndTail
      <4>3. PICK outcome \in ServerOutcome(Head(request)) : log' = outcome[2]
        BY <3>1 DEF ServerTakesNext
      <4>4. Extends(log') /\ ToSet(log') \subseteq ToSet(log) \cup {Head(request)}
        BY <1>1, <4>2, <4>3, ServerExtends
      <4>5. request' = Tail(request) /\ late' = late
        BY <3>1 DEF ServerTakesNext
      <4> QED
        BY <1>3, <4>2, <4>4, <4>5
    <3>2. CASE ServerTakesLate
      <4>1. PICK r \in late : /\ \E outcome \in ServerOutcome(Head(r)) : log' = outcome[2]
                              /\ late' = (late \ {r}) \cup (IF Len(r) > 1 THEN {Tail(r)} ELSE {})
                              /\ request' = request
        BY <3>2 DEF ServerTakesLate
      <4>2. r \in Seq(Tx) /\ r # <<>>
        BY <4>1 DEF TypeOK, ServerTypeOK, JobInv
      <4>3. Head(r) \in Tx /\ ToSet(r) = {Head(r)} \cup ToSet(Tail(r))
        BY <4>2, HeadAndTail
      <4>4. PICK outcome \in ServerOutcome(Head(r)) : log' = outcome[2]
        BY <4>1
      <4>5. Extends(log') /\ ToSet(log') \subseteq ToSet(log) \cup {Head(r)}
        BY <1>1, <4>3, <4>4, ServerExtends
      <4>6. ToSet(r) \subseteq 1 .. made
        BY <1>3, <4>1
      <4>7. late' \subseteq late \cup {Tail(r)}
        BY <4>1
      <4>8. (UNION {ToSet(q) : q \in late'}) \subseteq 1 .. made
        BY <1>3, <4>3, <4>6, <4>7
      <4> QED
        BY <1>3, <4>1, <4>3, <4>5, <4>6, <4>8
    <3> QED
      BY <1>11, <3>1, <3>2
  <2>3. KnownAreMade'
    BY <2>1, <2>2 DEF KnownAreMade
  <2>4. PassedIsGone'
    BY <1>2, <1>3, <2>1, <2>2, PassedStaysGone
  <2>5. AwaitsItsId'
    BY <1>1, <1>3, <2>1, <2>2, AwaitsTheSame
  <2>6. PacketKnows'
    <3>1. \A id \in DOMAIN log : id \in DOMAIN log' /\ log'[id] = log[id]
      <4>1. /\ DOMAIN log = 1 .. Len(log) /\ DOMAIN log' = 1 .. Len(log')
            /\ Len(log) \in Nat /\ Len(log') \in Nat
        BY <1>1
      <4> QED
        BY <2>2, <4>1 DEF Extends
    <3>2. ToSet(log) \subseteq ToSet(log')
      BY <3>1 DEF ToSet
    <3> QED
      BY <1>3, <2>1, <3>2 DEF PacketKnows
  <2>7. EchoIdsAreOutstanding'
    BY <1>3, <2>1 DEF EchoIdsAreOutstanding, Outstanding
  <2> QED
    BY <2>3, <2>4, <2>5, <2>6, <2>7 DEF PassedInv
<1>12. CASE PacketArrives \/ RebaseRead \/ ReadOutbox \/ ConfirmRead \/ CompleteRead
  <2>1. UNCHANGED <<cursor, log, made, localIds, needed, rows, request, late>>
    BY <1>12 DEF PacketArrives, RebaseRead, ReadOutbox, ConfirmRead, CompleteRead
  <2>2. KnownAreMade' /\ AwaitsItsId' /\ EchoIdsAreOutstanding'
    BY <1>3, <2>1 DEF KnownAreMade, AwaitsItsId, EchoIdsAreOutstanding, Outstanding
  <2>3. PassedIsGone' /\ PacketKnows'
    <3>1. CASE PacketArrives
      BY <1>3, <2>1, <3>1 DEF PacketArrives, PassedIsGone, PacketKnows
    <3>2. CASE RebaseRead
      BY <1>3, <2>1, <3>2 DEF RebaseRead, PassedIsGone, PacketKnows, BeginDiscard, NothingToDiscard
    <3>3. CASE ReadOutbox
      BY <1>3, <2>1, <3>3 DEF ReadOutbox, PassedIsGone, PacketKnows
    <3>4. CASE ConfirmRead
      <4> DEFINE confirmed == Echoed(pktUpTo) \cap Outstanding
      <4>1. \A id \in 1 .. pktUpTo : rows[log[id]] = "none" \/ log[id] \in confirmed
        <5> TAKE id \in 1 .. pktUpTo
        <5>1. log[id] \in Tx
          BY <1>1, <1>2
        <5>2. CASE id <= cursor
          BY <1>1, <1>3, <5>2 DEF PassedIsGone
        <5>3. CASE ~(id <= cursor)
          BY <1>1, <5>1, <5>3 DEF Echoed, Outstanding
        <5> QED
          BY <5>2, <5>3
      <4>2. confirmed \subseteq ToSet(log)
        BY <1>2, EchoedIsApplied
      <4>3. UNCHANGED pktUpTo
        BY <3>4 DEF ConfirmRead
      <4>4. \/ confirmed = {} /\ pktPc' = "confirmed"
            \/ pktPc' = "confirm" /\ \E t \in confirmed : pktTx' = t /\ pktTodo' = confirmed \ {t}
        BY <3>4 DEF ConfirmRead, BeginDiscard, NothingToDiscard
      <4> HIDE DEF confirmed
      <4>5. CASE confirmed = {} /\ pktPc' = "confirmed"
        BY <1>3, <2>1, <4>1, <4>3, <4>5 DEF PassedIsGone, PacketKnows
      <4>6. CASE pktPc' = "confirm" /\ \E t \in confirmed : pktTx' = t /\ pktTodo' = confirmed \ {t}
        <5>1. {pktTx'} \cup pktTodo' = confirmed
          BY <4>6
        <5> QED
          BY <1>3, <2>1, <4>1, <4>2, <4>3, <4>6, <5>1 DEF PassedIsGone, PacketKnows
      <4> QED
        BY <4>4, <4>5, <4>6
    <3>5. CASE CompleteRead
      <4> DEFINE done == {t \in Tx : rows[t] = "awaitingSync" /\ needed[t] <= pktUpTo}
      <4>1. pktPc = "completeRead" /\ UNCHANGED pktUpTo
        BY <3>5 DEF CompleteRead
      <4>2. done \subseteq ToSet(log)
        BY <1>3 DEF AwaitsItsId, ToSet
      <4>3. \/ pktPc' = "commit"
            \/ pktPc' = "complete" /\ \E t \in done : pktTx' = t /\ pktTodo' = done \ {t}
        BY <3>5 DEF CompleteRead, BeginDiscard, NothingToDiscard
      <4> HIDE DEF done
      <4>4. PassedIsGone'
        BY <1>3, <2>1, <4>1, <4>3 DEF PassedIsGone
      <4>5. PacketKnows'
        BY <2>1, <4>2, <4>3 DEF PacketKnows
      <4> QED
        BY <4>4, <4>5
    <3> QED
      BY <1>12, <3>1, <3>2, <3>3, <3>4, <3>5
  <2> QED
    BY <2>2, <2>3 DEF PassedInv
<1>13. CASE LoserRemoved \/ SettledRemoved
  <2>1. /\ UNCHANGED <<cursor, log, made, needed, request, late, pktUpTo>>
        /\ RemoveRow(pktTx)
    BY <1>13 DEF LoserRemoved, SettledRemoved
  <2>2. pktTx \in Tx
    BY <1>3, <1>13, OutboxAssumption
       DEF PacketKnows, LoserRemoved, SettledRemoved, ToSet, TypeOK, HistoryTypeOK, ServerTypeOK
  <2>3. /\ AwaitsItsId' /\ EchoIdsAreOutstanding'
        /\ \A u \in Tx : rows'[u] = IF u = pktTx THEN "none" ELSE rows[u]
    BY <2>1, <2>2, RemovalPasses
  <2>4. KnownAreMade'
    BY <1>3, <2>1 DEF KnownAreMade
  <2>5. /\ \A id \in 1 .. cursor : log[id] \in Tx
        /\ \A id \in 1 .. pktUpTo : log[id] \in Tx
    BY <1>1, <1>2
  <2>6. PassedIsGone' /\ PacketKnows'
    <3>1. CASE LoserRemoved
      <4>1. \/ pktPc' = "applied"
            \/ pktPc' = "rebase" /\ dropped' = dropped \cup {pktTx'}
        BY <3>1 DEF LoserRemoved, BeginDiscard, NothingToDiscard
      <4> QED
        BY <1>3, <2>1, <2>3, <2>5, <4>1 DEF PassedIsGone, PacketKnows
    <3>2. CASE SettledRemoved
      <4>1. /\ pktPc \in {"confirm", "complete"}
            /\ \/ pktTodo = {} /\ pktPc' = IF pktPc = "confirm" THEN "confirmed" ELSE "commit"
               \/ pktPc' = pktPc /\ \E t \in pktTodo : pktTx' = t /\ pktTodo' = pktTodo \ {t}
        BY <3>2 DEF SettledRemoved, BeginDiscard, NothingToDiscard
      <4>2. CASE pktTodo = {} /\ pktPc' = IF pktPc = "confirm" THEN "confirmed" ELSE "commit"
        BY <1>3, <2>1, <2>3, <2>5, <4>1, <4>2 DEF PassedIsGone, PacketKnows
      <4>3. CASE pktPc' = pktPc /\ \E t \in pktTodo : pktTx' = t /\ pktTodo' = pktTodo \ {t}
        <5>1. {pktTx'} \cup pktTodo' = pktTodo
          BY <4>3
        <5> QED
          BY <1>3, <2>1, <2>3, <2>5, <4>1, <4>3, <5>1 DEF PassedIsGone, PacketKnows
      <4> QED
        BY <4>1, <4>2, <4>3
    <3> QED
      BY <1>13, <3>1, <3>2
  <2> QED
    BY <2>3, <2>4, <2>6 DEF PassedInv
<1>14. CASE CommitPacket \/ Restart
  <2>1. UNCHANGED <<log, made, needed, rows, dropped>> /\ localIds' \subseteq localIds
    BY <1>14 DEF CommitPacket, Restart
  <2>2. KnownAreMade'
    <3>1. late' \subseteq late \cup {request} /\ (request' = request \/ request' = <<>>)
      BY <1>14 DEF CommitPacket, Restart
    <3> QED
      BY <1>3, <1>4, <2>1, <3>1, LateAreMade DEF KnownAreMade
  <2>3. AwaitsItsId' /\ EchoIdsAreOutstanding'
    BY <1>3, <2>1 DEF AwaitsItsId, EchoIdsAreOutstanding, Outstanding
  <2>4. PassedIsGone' /\ PacketKnows'
    BY <1>3, <1>14, <2>1 DEF CommitPacket, Restart, PassedIsGone, PacketKnows
  <2> QED
    BY <2>2, <2>3, <2>4 DEF PassedInv
<1>15. CASE UNCHANGED vars
  BY <1>3, <1>15 DEF PassedInv, KnownAreMade, PassedIsGone, AwaitsItsId, PacketKnows,
     EchoIdsAreOutstanding, Outstanding
<1> QED
  BY <1>6, <1>7, <1>8, <1>9, <1>10, <1>11, <1>12, <1>13, <1>14, <1>15 DEF Next, RunJob, ApplyPacket

-----------------------------------------------------------------------------
(* ListsInv and TodoInv: no list repeats a transaction *)

\* An outbox in replay order has a row once.
LEMMA InOutboxOrderRepeatsNothing ==
  ASSUME batchIndex \in [Tx -> Nat], OutboxKeepsWriteOrder,
         NEW S \in SUBSET Outstanding
  PROVE  IsInjective(InOutboxOrder(S))
<1>1. IsFiniteSet(S)
  BY FiniteRows
<1>2. S \subseteq Tx /\ \A x \in S : batchIndex[x] \in Nat
  BY DEF Outstanding
<1>3. \A x, y \in S : x # y => batchIndex[x] # batchIndex[y]
  <2> TAKE x, y \in S
  <2> HAVE x # y
  <2>1. x < y \/ y < x
    BY <1>2, OutboxAssumption DEF Tx
  <2>2. x \in Outstanding /\ y \in Outstanding
    OBVIOUS
  <2> QED
    BY <1>2, <2>1, <2>2 DEF OutboxKeepsWriteOrder
<1>4. IsInjective(SortedBy(S, batchIndex))
  BY <1>1, <1>2, <1>3, SortedByRepeatsNothing
<1> QED
  BY <1>4 DEF InOutboxOrder

\* A send takes a transaction once, though it may be owed and requested.
LEMMA SendBatchLists ==
  ASSUME NEW requested \in Seq(Tx), NEW owed \in Seq(Tx), NEW free, NEW kept,
         IsInjective(requested), IsInjective(owed),
         SendBatch(requested, owed, free, kept)
  PROVE  IsInjective(batch') /\ ToSet(todo') \subseteq ToSet(batch')
<1> DEFINE ahead == Without(owed, ToSet(requested))
           txs   == TakeRetryBacklog(owed, requested)
<1>1. ahead \in Seq(Tx) /\ ToSet(ahead) = ToSet(owed) \ ToSet(requested) /\ IsInjective(ahead)
  BY WithoutDropsTheSet, WithoutRepeatsNothing
<1>2. txs = ahead \o requested
  BY DEF TakeRetryBacklog
<1> HIDE DEF ahead, txs
<1>3. IsInjective(ahead \o requested) /\ ahead \o requested \in Seq(Tx)
  <2>1. ToSet(ahead) \cap ToSet(requested) = {}
    BY <1>1
  <2> QED
    BY <1>1, <2>1, ListsRepeatNothing, ListsOf
<1>4. ToSet(Without(txs, discarded \ free)) \subseteq ToSet(txs)
  <2>1. txs \in Seq(Tx)
    BY <1>2, <1>3
  <2> QED
    BY <2>1, WithoutDropsTheSet
<1>5. batch' = txs /\ todo' = Without(txs, discarded \ free)
  BY DEF SendBatch, txs
<1> QED
  BY <1>2, <1>3, <1>4, <1>5

\* The slices of a replay have nothing in common.
LEMMA SendSliceLists ==
  ASSUME discarded \subseteq Tx, claimed \subseteq Tx, held \subseteq Tx,
         NEW list \in Seq(Tx), NEW owed \in Seq(Tx), IsInjective(list), IsInjective(owed),
         ToSet(list) \cap ToSet(owed) = {}, SendSlice(list, owed)
  PROVE  /\ IsInjective(batch') /\ IsInjective(replay')
         /\ ToSet(todo') \subseteq ToSet(batch')
         /\ held' \cap ToSet(replay') = {}
<1> DEFINE slice == SubSeq(list, 1, SliceEnd(list))
           rest  == SubSeq(list, SliceEnd(list) + 1, Len(list))
<1>1. SliceEnd(list) \in Nat /\ SliceEnd(list) <= Len(list)
  BY OutboxAssumption DEF SliceEnd
<1>2. /\ slice \in Seq(Tx) /\ rest \in Seq(Tx)
      /\ ToSet(list) = ToSet(slice) \cup ToSet(rest)
  BY <1>1, SplitLists
<1>3. IsInjective(slice) /\ IsInjective(rest) /\ ToSet(slice) \cap ToSet(rest) = {}
  BY <1>1, SplitRepeatsNothing
<1>4. SendBatch(slice, owed, held, {}) /\ replay' = rest
  BY DEF SendSlice
<1> HIDE DEF slice, rest
<1>5. IsInjective(batch') /\ ToSet(todo') \subseteq ToSet(batch')
  BY <1>2, <1>3, <1>4, SendBatchLists
<1>6. held' = {} \cup ToSet(owed) \cup ToSet(slice)
  <2>1. held \in SUBSET Tx /\ {} \in SUBSET Tx
    OBVIOUS
  <2> QED
    BY <1>2, <1>4, <2>1, SendBatchEffect
<1>7. held' \cap ToSet(rest) = {}
  BY <1>2, <1>3, <1>6
<1> QED
  BY <1>3, <1>4, <1>5, <1>7

\* A list without its members is shorter; the empty one stays empty.
LEMMA NothingWithout ==
  ASSUME NEW S
  PROVE  Without(<<>>, S) = <<>>
<1> DEFINE none == <<>>
<1>1. none \in Seq(Tx) /\ ToSet(none) = {}
  BY NoJobsNoTxs, EmptySeq
<1> HIDE DEF none
<1>2. Without(none, S) \in Seq(Tx) /\ ToSet(Without(none, S)) = ToSet(none) \ S
  BY <1>1, WithoutDropsTheSet
<1>3. Without(none, S) = <<>>
  BY <1>1, <1>2, ListsOf
<1> QED
  BY <1>3 DEF none

\* The running job's lists change, but not what waits.
LEMMA JobKeepsLists ==
  ASSUME ListsInv, UNCHANGED <<pending, queue>>,
         IsInjective(backlog'), IsInjective(replay'), IsInjective(batch'), IsInjective(missed'),
         pc' \notin {"idle", "reading", "ended"} => backlog' = <<>>,
         (held' \cup ToSet(backlog')) \cap ToSet(replay') = {}
  PROVE  ListsInv'
BY DEF ListsInv

\* A job joins the queue.
LEMMA QueueRepeatsNothing ==
  ASSUME NEW q \in Seq(Job), NEW j \in Job, IsInjective(j.txs),
         \A i \in DOMAIN q : IsInjective(q[i].txs)
  PROVE  \A i \in DOMAIN Append(q, j) : IsInjective(Append(q, j)[i].txs)
<1>1. \A i \in DOMAIN Append(q, j) :
        Append(q, j)[i] = j \/ (i \in DOMAIN q /\ Append(q, j)[i] = q[i])
  BY HeadOfAppend
<1> QED
  BY <1>1

\* Every step preserves it.
LEMMA ListsStep ==
  ASSUME TypeOK, TypeOK', JobInv, IndexInv, SenderInv, ListsInv, [Next]_vars
  PROVE  ListsInv'
<1> USE DEF vars, storageVars, listVars, claimVars, indexVars, jobVars,
            serverVars, pktVars, historyVars
<1>1. /\ queue \in Seq(Job) /\ pending \in Seq(Tx) /\ backlog \in Seq(Tx)
      /\ batch \in Seq(Tx) /\ missed \in Seq(Tx) /\ replay \in Seq(Tx)
      /\ held \subseteq Tx /\ claimed \subseteq Tx /\ discarded \subseteq Tx
  BY DEF TypeOK, ListTypeOK, JobTypeOK, ClaimTypeOK
<1>2. /\ IsInjective(pending) /\ IsInjective(backlog) /\ IsInjective(replay)
      /\ IsInjective(batch) /\ IsInjective(missed)
      /\ \A i \in DOMAIN queue : IsInjective(queue[i].txs)
      /\ pc \notin {"idle", "reading", "ended"} => backlog = <<>>
      /\ (held \cup ToSet(backlog)) \cap ToSet(replay) = {}
  BY DEF ListsInv
<1>3. ToSet(<<>>) = {} /\ IsInjective(<<>>) /\ <<>> \in Seq(Tx)
  BY <1>1, <1>2, NoJobsNoTxs, EmptySeq, ListsRepeatNothing
<1>4. ToSet(batch) \subseteq held /\ ToSet(missed) \subseteq held
  BY DEF SenderInv
<1>5. CASE QueueTransaction
  <2> DEFINE t == made + 1
             j == [kind |-> "send", txs |-> Append(pending, t)]
  <2>1. t \in Tx \ ToSet(pending)
    BY <1>5, NewIsNowhere, OutboxAssumption DEF QueueTransaction, Tx, Behind
  <2>2. Append(pending, t) \in Seq(Tx) /\ IsInjective(Append(pending, t))
    BY <1>1, <1>2, <2>1, AppendLists, ListsRepeatNothing
  <2>3. j \in Job /\ IsInjective(j.txs)
    BY <2>2 DEF Job
  <2>4. /\ pending' = <<>> \/ pending' = Append(pending, t)
        /\ queue' = queue \/ queue' = Append(queue, j)
        /\ UNCHANGED <<backlog, jobVars>>
    BY <1>5 DEF QueueTransaction
  <2> HIDE DEF j, t
  <2>5. \A i \in DOMAIN queue' : IsInjective(queue'[i].txs)
    BY <1>1, <1>2, <2>3, <2>4, QueueRepeatsNothing
  <2> QED
    BY <1>2, <1>3, <2>2, <2>4, <2>5 DEF ListsInv
<1>6. CASE BatchTimerFires \/ DrainStart
  <2>1. pending' = <<>> /\ UNCHANGED <<backlog, jobVars>>
    BY <1>6 DEF BatchTimerFires, DrainStart
  <2>2. queue' = queue \/ \E kind \in {"send", "flush", "replay"} : Dispatch(kind, pending)
    BY <1>6 DEF BatchTimerFires, DrainStart
  <2>3. \A i \in DOMAIN queue' : IsInjective(queue'[i].txs)
    <3>1. CASE queue' = queue
      BY <1>2, <3>1
    <3>2. CASE \E kind \in {"send", "flush", "replay"} : Dispatch(kind, pending)
      <4>1. PICK kind \in {"send", "flush", "replay"} : Dispatch(kind, pending)
        BY <3>2
      <4> DEFINE j == [kind |-> kind, txs |-> pending]
      <4>2. j \in Job /\ IsInjective(j.txs) /\ queue' = Append(queue, j)
        BY <1>1, <1>2, <4>1 DEF Job, Dispatch
      <4> HIDE DEF j
      <4> QED
        BY <1>1, <1>2, <4>2, QueueRepeatsNothing
    <3> QED
      BY <2>2, <3>1, <3>2
  <2> QED
    BY <1>2, <1>3, <2>1, <2>3 DEF ListsInv
<1>7. CASE StartSendJob
  <2>1. /\ pc = "idle" /\ queue # <<>> /\ SendBatch(Head(queue).txs, backlog, {}, {})
        /\ UNCHANGED <<pending, queue, replay, missed>>
    BY <1>7 DEF StartSendJob
  <2>2. Head(queue).txs \in Seq(Tx) /\ IsInjective(Head(queue).txs)
    <3>1. Head(queue) = queue[1] /\ 1 \in DOMAIN queue /\ queue[1] \in Job
      BY <1>1, <2>1
    <3> QED
      BY <1>2, <3>1 DEF Job
  <2>3. IsInjective(batch')
    BY <1>1, <1>2, <2>1, <2>2, SendBatchLists
  <2>4. backlog' = <<>>
    BY <2>1 DEF SendBatch, BacklogAfterTake
  <2>5. replay = <<>>
    BY <2>1 DEF JobInv
  <2> QED
    BY <1>2, <1>3, <2>1, <2>3, <2>4, <2>5, JobKeepsLists
<1>8. CASE OutboxRead
  <2> DEFINE list == InOutboxOrder(Replayable(Unclaimed))
  <2>1. pc = "reading" /\ UNCHANGED <<pending, queue, missed>>
    BY <1>8 DEF OutboxRead
  <2>2. held = {}
    BY <2>1 DEF JobInv
  <2>3. list \in Seq(Tx) /\ IsInjective(list)
    <3>1. Replayable(Unclaimed) \in SUBSET Outstanding
      BY DEF Unclaimed, Replayable
    <3> QED
      BY <3>1, InOutboxOrderLists, InOutboxOrderRepeatsNothing
         DEF IndexInv, TypeOK, StorageTypeOK
  <2>4. \/ replay' = list /\ backlog' = <<>> /\ UNCHANGED <<held, batch>>
        \/ SendSlice(list, <<>>)
        \/ backlog' = <<>> /\ UNCHANGED <<held, batch, replay>>
    BY <1>8 DEF OutboxRead
  <2> HIDE DEF list
  <2>5. CASE SendSlice(list, <<>>)
    <3>1. IsInjective(batch') /\ IsInjective(replay') /\ held' \cap ToSet(replay') = {}
      <4>1. ToSet(list) \cap ToSet(<<>>) = {}
        BY <1>3
      <4> QED
        BY <1>1, <1>3, <2>3, <2>5, <4>1, SendSliceLists
    <3>2. backlog' = <<>>
      BY <2>5 DEF SendSlice, SendBatch, BacklogAfterTake
    <3> QED
      BY <1>2, <1>3, <2>1, <3>1, <3>2, JobKeepsLists
  <2> QED
    BY <1>2, <1>3, <2>1, <2>2, <2>3, <2>4, <2>5, JobKeepsLists
<1>9. CASE ResetSent \/ (EndSend /\ replay # <<>> /\ ~failed)
  <2>1. /\ UNCHANGED <<pending, queue>> /\ IsInjective(missed')
        /\ \/ UNCHANGED <<pc, backlog, replay, batch, held>>
           \/ SendSlice(replay, backlog)
    BY <1>2, <1>3, <1>9 DEF ResetSent, EndSend
  <2>2. CASE SendSlice(replay, backlog)
    <3>1. IsInjective(batch') /\ IsInjective(replay') /\ held' \cap ToSet(replay') = {}
      <4>1. ToSet(replay) \cap ToSet(backlog) = {}
        BY <1>2
      <4> QED
        BY <1>1, <1>2, <2>2, <4>1, SendSliceLists
    <3>2. backlog' = <<>>
      BY <2>2 DEF SendSlice, SendBatch, BacklogAfterTake
    <3> QED
      BY <1>3, <2>1, <3>1, <3>2, JobKeepsLists
  <2> QED
    BY <1>2, <2>1, <2>2, JobKeepsLists
<1>10. CASE MarkSent
  <2>1. /\ pc = "marking" /\ UNCHANGED <<pending, queue, backlog, held, replay, missed>>
        /\ batch' = batch \/ batch' = Without(batch, discarded)
    BY <1>10 DEF MarkSent
  <2>2. IsInjective(batch')
    BY <1>1, <1>2, <2>1, WithoutRepeatsNothing
  <2> QED
    BY <1>2, <2>1, <2>2, JobKeepsLists
<1>11. CASE Requeue
  <2> DEFINE from == IF pc = "failing" THEN batch ELSE missed
             back == Without(from, discarded)
  <2>1. /\ pc \in {"failing", "requeueing"}
        /\ UNCHANGED <<pending, queue, held, batch, replay, missed>>
        /\ \/ UNCHANGED <<pc, backlog>>
           \/ pc' = "ended" /\ backlog' = backlog \o back
    BY <1>11 DEF Requeue
  <2>2. from \in Seq(Tx) /\ IsInjective(from) /\ ToSet(from) \subseteq held
    BY <1>1, <1>2, <1>4
  <2> HIDE DEF from
  <2>3. back \in Seq(Tx) /\ IsInjective(back) /\ ToSet(back) \subseteq held
    BY <2>2, WithoutDropsTheSet, WithoutRepeatsNothing
  <2> HIDE DEF back
  <2>4. backlog = <<>>
    BY <1>2, <2>1
  <2>5. IsInjective(backlog \o back) /\ ToSet(backlog \o back) = ToSet(backlog) \cup ToSet(back)
    <3>1. ToSet(backlog) \cap ToSet(back) = {}
      BY <1>3, <2>4
    <3> QED
      BY <1>1, <1>2, <2>3, <3>1, ListsOf, ListsRepeatNothing
  <2>6. /\ IsInjective(backlog')
        /\ ToSet(backlog') \subseteq held
        /\ pc' \notin {"idle", "reading", "ended"} => backlog' = <<>>
    BY <1>3, <2>1, <2>3, <2>4, <2>5
  <2> QED
    BY <1>2, <2>1, <2>6, JobKeepsLists
<1>12. CASE ReplyArrives
  <2>1. /\ pc = "awaiting" /\ UNCHANGED <<pending, queue, backlog, held, batch, replay>>
        /\ \E S : missed' = Without(batch, S)
    BY <1>12 DEF ReplyArrives
  <2>2. IsInjective(missed')
    BY <1>1, <1>2, <2>1, WithoutRepeatsNothing
  <2> QED
    BY <1>2, <2>1, <2>2, JobKeepsLists
<1>13. CASE RefusedRemoved \/ CulpritRemoved
  <2>1. /\ pc \in {"removing", "evicting"} /\ UNCHANGED <<pending, queue, held, replay, missed>>
        /\ backlog' = Without(backlog, {Head(todo)})
        /\ batch' = batch \/ batch' = Without(batch, {Head(todo)})
    BY <1>13 DEF RefusedRemoved, CulpritRemoved, RemoveRow
  <2>2. backlog' = <<>>
    BY <1>2, <2>1, NothingWithout
  <2>3. IsInjective(batch')
    BY <1>1, <1>2, <2>1, WithoutRepeatsNothing
  <2> QED
    BY <1>2, <1>3, <2>1, <2>2, <2>3, JobKeepsLists
<1>14. CASE Restore
  <2>1. /\ pc = "restoring" /\ UNCHANGED <<pending, queue, replay, missed>>
        /\ \/ UNCHANGED <<pc, backlog, batch, held>>
           \/ SendBatch(batch, backlog, {}, held)
    BY <1>14 DEF Restore
  <2>2. CASE SendBatch(batch, backlog, {}, held)
    <3>1. IsInjective(batch')
      BY <1>1, <1>2, <2>2, SendBatchLists
    <3>2. held' = held \cup ToSet(backlog) \cup ToSet(batch) /\ backlog' = <<>>
      <4>1. {} \in SUBSET Tx /\ held \in SUBSET Tx
        BY <1>1
      <4> QED
        BY <1>1, <2>2, <4>1, SendBatchEffect
    <3>3. held' = held
      BY <1>2, <1>3, <1>4, <2>1, <3>2
    <3> QED
      BY <1>2, <1>3, <2>1, <3>1, <3>2, <3>3, JobKeepsLists
  <2> QED
    BY <1>2, <2>1, <2>2, JobKeepsLists
<1>15. CASE EndSend /\ ~(replay # <<>> /\ ~failed)
  <2> DEFINE j == [kind |-> "replay", txs |-> <<>>]
  <2>1. /\ pc = "ended" /\ FinishJob /\ missed' = <<>> /\ UNCHANGED <<pending, backlog>>
    BY <1>15 DEF EndSend
  <2>2. queue # <<>> /\ j \in Job /\ IsInjective(j.txs)
    BY <1>3, <2>1 DEF JobInv, Job
  <2>3. /\ pc' = "idle" /\ batch' = <<>> /\ replay' = <<>>
        /\ queue' = Tail(queue) \/ queue' = Append(Tail(queue), j)
    BY <1>1, <2>1, <2>2, FinishJobEffect
  <2>4. Tail(queue) \in Seq(Job) /\ \A i \in DOMAIN Tail(queue) : IsInjective(Tail(queue)[i].txs)
    <3>1. /\ Len(queue) \in Nat /\ DOMAIN queue = 1 .. Len(queue)
          /\ DOMAIN Tail(queue) = 1 .. Len(queue) - 1
          /\ \A i \in 1 .. Len(queue) - 1 : Tail(queue)[i] = queue[i + 1]
          /\ Tail(queue) \in Seq(Job)
      BY <1>1, <2>2
    <3> QED
      BY <1>2, <3>1
  <2> HIDE DEF j
  <2>5. \A i \in DOMAIN queue' : IsInjective(queue'[i].txs)
    BY <2>2, <2>3, <2>4, QueueRepeatsNothing
  <2> QED
    BY <1>2, <1>3, <2>1, <2>3, <2>5 DEF ListsInv
<1>16. CASE Refuse \/ RebaseRead \/ ConfirmRead \/ CompleteRead \/ LoserRemoved \/ SettledRemoved
  <2>1. /\ UNCHANGED <<queue, held, batch, replay, missed>>
        /\ pending' = pending \/ \E t : pending' = Without(pending, {t})
        /\ backlog' = backlog \/ \E t : backlog' = Without(backlog, {t})
    BY <1>16 DEF Refuse, RebaseRead, ConfirmRead, CompleteRead, LoserRemoved, SettledRemoved,
                 BeginDiscard, NothingToDiscard, DiscardFromMemory, RemoveRow
  <2>2. pc' \in {"idle", "reading", "ended"} => pc \in {"idle", "reading", "ended"}
    BY <1>16 DEF Refuse, RebaseRead, ConfirmRead, CompleteRead, LoserRemoved, SettledRemoved
  <2>3. pc \in {"idle", "reading", "ended"} => pc' \in {"idle", "reading", "ended"}
    BY <1>16 DEF Refuse, RebaseRead, ConfirmRead, CompleteRead, LoserRemoved, SettledRemoved
  <2>4. IsInjective(pending')
    BY <1>1, <1>2, <2>1, WithoutRepeatsNothing
  <2>5. IsInjective(backlog') /\ ToSet(backlog') \subseteq ToSet(backlog)
    <3>1. \A t : /\ IsInjective(Without(backlog, {t}))
                /\ ToSet(Without(backlog, {t})) \subseteq ToSet(backlog)
      BY <1>1, <1>2, WithoutRepeatsNothing, WithoutDropsTheSet
    <3> QED
      BY <1>2, <2>1, <3>1
  <2>6. pc' \notin {"idle", "reading", "ended"} => backlog' = <<>>
    BY <1>2, <2>1, <2>3, NothingWithout
  <2> QED
    BY <1>2, <2>1, <2>4, <2>5, <2>6 DEF ListsInv
<1>17. CASE Restart
  <2>1. /\ pending' = <<>> /\ queue' = <<>> /\ backlog' = <<>> /\ held' = {}
        /\ batch' = <<>> /\ replay' = <<>> /\ missed' = <<>> /\ pc' = "idle"
    BY <1>17 DEF Restart
  <2> QED
    BY <1>3, <2>1 DEF ListsInv
<1>18. CASE \/ StartReplayJob \/ TransportFails \/ Acknowledge \/ BatchRefused
            \/ ServerTakesNext \/ ServerTakesLate \/ PacketArrives
            \/ ReadOutbox \/ CommitPacket \/ UNCHANGED vars
  <2>1. UNCHANGED <<pending, queue, backlog, held, batch, replay, missed>>
    BY <1>18 DEF StartReplayJob, TransportFails, Acknowledge, BatchRefused, ServerTakesNext,
         ServerTakesLate, PacketArrives, ReadOutbox, CommitPacket
  <2>2. pc' = pc \/ pc' = "reading" \/ pc \in {"awaiting", "results"}
    BY <1>18 DEF StartReplayJob, TransportFails, Acknowledge, BatchRefused, ServerTakesNext,
         ServerTakesLate, PacketArrives, ReadOutbox, CommitPacket
  <2> QED
    BY <1>2, <2>1, <2>2 DEF ListsInv
<1>19. CASE EndSend
  BY <1>9, <1>15, <1>19
<1> QED
  BY <1>5, <1>6, <1>7, <1>8, <1>9, <1>10, <1>11, <1>12, <1>13, <1>14, <1>16, <1>17,
     <1>18, <1>19 DEF Next, RunJob, ApplyPacket

\* What a job's loop works off is part of what it sends, in every step.
LEMMA TodoStep ==
  ASSUME TypeOK, JobInv, IndexInv, ListsInv, TodoInv, [Next]_vars
  PROVE  TodoInv'
<1> USE DEF vars, storageVars, listVars, claimVars, indexVars, jobVars,
            serverVars, pktVars, historyVars
<1>1. /\ backlog \in Seq(Tx) /\ batch \in Seq(Tx) /\ missed \in Seq(Tx) /\ replay \in Seq(Tx)
      /\ todo \in Seq(Tx) /\ queue \in Seq(Job)
      /\ held \subseteq Tx /\ claimed \subseteq Tx /\ discarded \subseteq Tx
  BY DEF TypeOK, ListTypeOK, JobTypeOK, ClaimTypeOK
<1>2. /\ IsInjective(backlog) /\ IsInjective(replay) /\ IsInjective(batch)
      /\ IsInjective(missed) /\ \A i \in DOMAIN queue : IsInjective(queue[i].txs)
      /\ ToSet(replay) \cap ToSet(backlog) = {}
  BY DEF ListsInv
<1>3. ToSet(<<>>) = {} /\ IsInjective(<<>>) /\ <<>> \in Seq(Tx)
  BY <1>1, <1>2, NoJobsNoTxs, EmptySeq, ListsRepeatNothing
<1>4. ASSUME pc \in Loops
      PROVE  /\ ToSet(Tail(todo)) \subseteq ToSet(todo)
             /\ IsInjective(todo) => IsInjective(Tail(todo))
  <2>1. todo # <<>>
    BY <1>4 DEF JobInv
  <2> QED
    BY <1>1, <2>1, HeadAndTail, ListsRepeatNothing
<1>5. ASSUME pc' \in {"ended", "marking"}, ToSet(todo') \subseteq ToSet(batch')
      PROVE  TodoInv'
  BY <1>5 DEF TodoInv
<1>6. ASSUME pc' \in {"idle", "reading", "ended"}
      PROVE  TodoInv'
  BY <1>6 DEF TodoInv
<1>7. CASE StartSendJob
  <2>1. queue # <<>> /\ SendBatch(Head(queue).txs, backlog, {}, {})
    BY <1>7 DEF StartSendJob
  <2>2. Head(queue).txs \in Seq(Tx) /\ IsInjective(Head(queue).txs)
    <3>1. Head(queue) = queue[1] /\ 1 \in DOMAIN queue /\ queue[1] \in Job
      BY <1>1, <2>1
    <3> QED
      BY <1>2, <3>1 DEF Job
  <2>3. ToSet(todo') \subseteq ToSet(batch')
    BY <1>1, <1>2, <2>1, <2>2, SendBatchLists
  <2>4. pc' \in {"ended", "marking"}
    BY <2>1 DEF SendBatch
  <2> QED
    BY <1>5, <2>3, <2>4
<1>8. CASE OutboxRead
  <2> DEFINE stale == {t \in Unclaimed : rows[t] = "sent"}
             rest  == Replayable(Unclaimed)
             list  == InOutboxOrder(rest)
  <2>1. /\ list \in Seq(Tx) /\ IsInjective(list) /\ ToSet(list) = rest
        /\ ToSet(InOutboxOrder(stale)) = stale
    <3>1. rest \in SUBSET Outstanding /\ stale \in SUBSET Outstanding
      BY DEF Unclaimed, Replayable
    <3> HIDE DEF rest, stale
    <3> QED
      BY <3>1, InOutboxOrderLists, InOutboxOrderRepeatsNothing
         DEF IndexInv, TypeOK, StorageTypeOK
  <2>2. stale \subseteq rest
    BY DEF Replayable
  <2>3. \/ pc' = "resetting" /\ todo' = InOutboxOrder(stale) /\ replay' = list
        \/ SendSlice(list, <<>>)
        \/ pc' = "ended"
    BY <1>8 DEF OutboxRead
  <2> HIDE DEF list, stale, rest
  <2>4. CASE SendSlice(list, <<>>)
    <3>1. ToSet(list) \cap ToSet(<<>>) = {}
      BY <1>3
    <3>2. ToSet(todo') \subseteq ToSet(batch')
      BY <1>1, <1>3, <2>1, <2>4, <3>1, SendSliceLists
    <3>3. pc' \in {"ended", "marking"}
      BY <2>4 DEF SendSlice, SendBatch
    <3> QED
      BY <1>5, <3>2, <3>3
  <2>5. CASE pc' = "resetting" /\ todo' = InOutboxOrder(stale) /\ replay' = list
    BY <2>1, <2>2, <2>5 DEF TodoInv
  <2> QED
    BY <1>6, <2>3, <2>4, <2>5
<1>9. CASE ResetSent
  <2>1. /\ pc = "resetting"
        /\ \/ pc' = pc /\ todo' = Tail(todo) /\ replay' = replay
           \/ SendSlice(replay, backlog)
    BY <1>9 DEF ResetSent
  <2>2. CASE SendSlice(replay, backlog)
    <3>1. ToSet(todo') \subseteq ToSet(batch')
      BY <1>1, <1>2, <2>2, SendSliceLists
    <3>2. pc' \in {"ended", "marking"}
      BY <2>2 DEF SendSlice, SendBatch
    <3> QED
      BY <1>5, <3>1, <3>2
  <2>3. CASE pc' = pc /\ todo' = Tail(todo) /\ replay' = replay
    BY <1>4, <2>1, <2>3 DEF TodoInv, Loops
  <2> QED
    BY <2>1, <2>2, <2>3
<1>10. CASE EndSend
  <2>1. SendSlice(replay, backlog) \/ FinishJob
    BY <1>10 DEF EndSend
  <2>2. CASE SendSlice(replay, backlog)
    <3>1. ToSet(todo') \subseteq ToSet(batch')
      BY <1>1, <1>2, <2>2, SendSliceLists
    <3>2. pc' \in {"ended", "marking"}
      BY <2>2 DEF SendSlice, SendBatch
    <3> QED
      BY <1>5, <3>1, <3>2
  <2>3. CASE FinishJob
    BY <1>6, <2>3 DEF FinishJob
  <2> QED
    BY <2>1, <2>2, <2>3
<1>11. CASE MarkSent
  <2>1. pc = "marking" /\ todo' = Tail(todo)
    BY <1>11 DEF MarkSent
  <2>2. \/ pc' = pc /\ batch' = batch
        \/ pc' = "ended"
        \/ pc' = "awaiting" /\ request' = batch'
    BY <1>11 DEF MarkSent
  <2> QED
    BY <1>4, <2>1, <2>2 DEF TodoInv, Loops
<1>12. CASE TransportFails
  <2>1. pc' = "failing" /\ todo' = batch /\ batch' = batch
    BY <1>12 DEF TransportFails
  <2> QED
    BY <2>1 DEF TodoInv
<1>13. CASE Requeue
  <2>1. /\ pc \in {"failing", "requeueing"} /\ todo' = Tail(todo)
        /\ UNCHANGED <<batch, missed>>
        /\ pc' = pc \/ pc' = "ended"
    BY <1>13 DEF Requeue
  <2> QED
    BY <1>4, <2>1 DEF TodoInv, Loops
<1>14. CASE ReplyArrives
  <2>1. PICK omitted :
          /\ omitted \subseteq ToSet(batch) /\ batch' = batch
          /\ missed' = Without(batch, ToSet(batch) \ omitted)
          /\ IF omitted = ToSet(batch) THEN pc' = "requeueing" /\ todo' = batch
             ELSE pc' = "results" /\ todo' = Without(batch, omitted)
    BY <1>14 DEF ReplyArrives
  <2>2. /\ ToSet(missed') = ToSet(batch) \ (ToSet(batch) \ omitted)
        /\ ToSet(Without(batch, omitted)) = ToSet(batch) \ omitted
        /\ IsInjective(Without(batch, omitted))
    BY <1>1, <1>2, <2>1, WithoutDropsTheSet, WithoutRepeatsNothing
  <2> QED
    BY <2>1, <2>2 DEF TodoInv
<1>15. CASE Acknowledge \/ RefusedRemoved
  <2>1. /\ pc \in {"results", "removing"} /\ UNCHANGED <<batch, missed>>
        /\ \/ pc' = "results" /\ todo' = Tail(todo)
           \/ pc' = "requeueing" /\ todo' = missed
           \/ pc' = "ended" /\ todo' = <<>>
    BY <1>15 DEF Acknowledge, RefusedRemoved, NextResult
  <2> QED
    BY <1>4, <2>1 DEF TodoInv, Loops
<1>16. CASE Refuse
  <2>1. /\ UNCHANGED <<todo, batch, missed>>
        /\ \/ pc = "results" /\ pc' = "removing"
           \/ pc = "invalid" /\ pc' = "evicting"
    BY <1>16 DEF Refuse
  <2> QED
    BY <2>1 DEF TodoInv
<1>17. CASE BatchRefused
  <2>1. pc = "awaiting" /\ pc' = "invalid" /\ batch' = batch
    BY <1>17 DEF BatchRefused
  <2>2. PICK t \in ToSet(request) : todo' = <<t>>
    BY <1>17 DEF BatchRefused
  <2>3. ToSet(<<t>>) = {t}
    BY DEF ToSet
  <2> QED
    BY <2>1, <2>2, <2>3 DEF TodoInv
<1>18. CASE CulpritRemoved
  <2>1. batch' = todo' /\ pc' \in {"ended", "restoring"}
    BY <1>18 DEF CulpritRemoved
  <2> QED
    BY <2>1 DEF TodoInv
<1>19. CASE Restore
  <2>1. /\ pc = "restoring"
        /\ \/ pc' = pc /\ todo' = Tail(todo) /\ batch' = batch
           \/ SendBatch(batch, backlog, {}, held)
    BY <1>19 DEF Restore
  <2>2. CASE SendBatch(batch, backlog, {}, held)
    <3>1. ToSet(todo') \subseteq ToSet(batch')
      BY <1>1, <1>2, <2>2, SendBatchLists
    <3>2. pc' \in {"ended", "marking"}
      BY <2>2 DEF SendBatch
    <3> QED
      BY <1>5, <3>1, <3>2
  <2>3. CASE pc' = pc /\ todo' = Tail(todo) /\ batch' = batch
    BY <1>4, <2>1, <2>3 DEF TodoInv, Loops
  <2> QED
    BY <2>1, <2>2, <2>3
<1>20. CASE ServerTakesNext
  <2>1. request # <<>> /\ request' = Tail(request) /\ UNCHANGED <<pc, todo, batch, replay, missed>>
    BY <1>20 DEF ServerTakesNext
  <2>2. ToSet(Tail(request)) \subseteq ToSet(request)
    BY <2>1, HeadAndTail DEF TypeOK, ServerTypeOK
  <2> QED
    BY <2>1, <2>2 DEF TodoInv
<1>21. CASE StartReplayJob \/ Restart
  BY <1>6, <1>21 DEF StartReplayJob, Restart
<1>22. CASE \/ QueueTransaction \/ BatchTimerFires \/ DrainStart \/ ServerTakesLate
            \/ PacketArrives \/ ApplyPacket \/ UNCHANGED vars
  <2>1. UNCHANGED <<pc, todo, batch, replay, missed, request>>
    BY <1>22 DEF QueueTransaction, BatchTimerFires, DrainStart, ServerTakesLate, PacketArrives,
       ApplyPacket, RebaseRead, LoserRemoved, ReadOutbox, ConfirmRead, CompleteRead,
       SettledRemoved, CommitPacket
  <2> QED
    BY <2>1 DEF TodoInv
<1> QED
  BY <1>7, <1>8, <1>9, <1>10, <1>11, <1>12, <1>13, <1>14, <1>15, <1>16, <1>17, <1>18, <1>19,
     <1>20, <1>21, <1>22 DEF Next, RunJob

-----------------------------------------------------------------------------
(* OwedInv: what a sender has, the disk still owes *)

\* What the four lists a sender may have leave to be sent.
LEMMA LeftToSend ==
  ASSUME SenderInv', NEW S, claimed' \ held' \subseteq S,
         ToSet(backlog') \cup ToSet(replay') \subseteq S, Unreported' \subseteq S
  PROVE  ToSend' \subseteq S
<1>1. Behind' = claimed' \ held'
  BY DEF SenderInv, AtFront
<1> QED
  BY <1>1 DEF ToSend

\* Of what a step leaves to be sent, it keeps the rows or requeues them.
LEMMA OwedGoesOn ==
  ASSUME AllOwed, dropped \subseteq dropped', ToSet(log) \subseteq ToSet(log'),
         \A t \in ToSend' : \/ t \in ToSend /\ rows'[t] = rows[t]
                            \/ rows'[t] \in {"queued", "sent"}
                            \/ t \in ToSend /\ rows'[t] = "none" /\ t \in dropped' \cup ToSet(log')
  PROVE  AllOwed'
<1> SUFFICES ASSUME NEW t \in ToSend' PROVE Owed(t)'
  BY DEF AllOwed
<1>1. t \in ToSend => Owed(t)
  BY DEF AllOwed
<1> QED
  BY <1>1 DEF Owed

\* The transaction a reply is being read for is not to be sent any more.
LEMMA HeadIsReported ==
  ASSUME TypeOK, JobInv, SenderInv, ListsInv, TodoInv, pc \in {"results", "removing"}
  PROVE  /\ Head(todo) \in Tx
         /\ Head(todo) \notin Behind \cup ToSet(backlog) \cup ToSet(replay)
         /\ Head(todo) \notin ToSet(Tail(todo)) \cup ToSet(missed)
<1>1. todo \in Seq(Tx) /\ todo # <<>>
  BY DEF TypeOK, JobTypeOK, JobInv, Loops
<1>2. /\ Head(todo) \in Tx /\ Head(todo) \in ToSet(todo)
      /\ IsInjective(todo) => Head(todo) \notin ToSet(Tail(todo))
  BY <1>1, HeadAndTail, ListsRepeatNothing
<1>3. /\ IsInjective(todo) /\ ToSet(todo) \cap ToSet(missed) = {}
      /\ ToSet(todo) \subseteq held
  BY DEF TodoInv, SenderInv
<1>4. ToSet(backlog) = {}
  BY NoJobsNoTxs DEF ListsInv
<1>5. held \cap Behind = {} /\ held \cap ToSet(replay) = {}
  BY DEF SenderInv, AtFront, ListsInv
<1> QED
  BY <1>2, <1>3, <1>4, <1>5

\* Every step preserves AllOwed.
LEMMA OwedStep ==
  ASSUME TypeOK, JobInv, IndexInv, SenderInv, SenderInv', PassedInv, ListsInv, TodoInv,
         AllOwed, [Next]_vars
  PROVE  AllOwed'
<1> USE DEF vars, storageVars, listVars, claimVars, indexVars, jobVars,
            serverVars, pktVars, historyVars
<1>1. /\ backlog \in Seq(Tx) /\ batch \in Seq(Tx) /\ missed \in Seq(Tx) /\ replay \in Seq(Tx)
      /\ todo \in Seq(Tx) /\ queue \in Seq(Job) /\ pending \in Seq(Tx)
      /\ held \subseteq Tx /\ claimed \subseteq Tx /\ discarded \subseteq Tx
      /\ rows \in [Tx -> RowState] /\ localIds \subseteq Tx
  BY DEF TypeOK, ListTypeOK, JobTypeOK, ClaimTypeOK, StorageTypeOK
<1>2. /\ Behind = claimed \ held
      /\ Behind \cup ToSet(backlog) \cup ToSet(replay) \cup Unreported = ToSend
      /\ ToSet(batch) \cup ToSet(missed) \subseteq held
  BY DEF SenderInv, AtFront, ToSend
<1>3. ToSet(<<>>) = {}
  BY NoJobsNoTxs
<1>4. ToSend \subseteq Tx
  <2>1. ToSet(Tail(todo)) \subseteq Tx \/ pc # "removing"
    BY <1>1, HeadAndTail, ListsOf DEF JobInv, Loops
  <2>2. /\ ToSet(backlog) \subseteq Tx /\ ToSet(replay) \subseteq Tx /\ ToSet(batch) \subseteq Tx
        /\ ToSet(missed) \subseteq Tx /\ ToSet(todo) \subseteq Tx
    BY <1>1, ListsOf
  <2>3. Unreported \subseteq Tx
    BY <2>1, <2>2 DEF Unreported
  <2> QED
    BY <1>1, <1>2, <2>2, <2>3
<1>5. CASE QueueTransaction
  <2> DEFINE t == made + 1
  <2>1. t \in Tx
    BY <1>5, NewIsNowhere, OutboxAssumption DEF QueueTransaction, Tx
  <2>2. /\ rows' = [rows EXCEPT ![t] = "queued"] /\ claimed' = claimed \cup {t}
        /\ UNCHANGED <<dropped, log, backlog, jobVars>>
    BY <1>5 DEF QueueTransaction
  <2> HIDE DEF t
  <2>3. Unreported' = Unreported
    BY <2>2 DEF Unreported
  <2>4. ToSend' \subseteq ToSend \cup {t}
    BY <1>2, <2>2, <2>3, LeftToSend
  <2>5. \A u \in Tx : rows'[u] = IF u = t THEN "queued" ELSE rows[u]
    BY <1>1, <2>1, <2>2
  <2> QED
    BY <1>4, <2>1, <2>2, <2>4, <2>5, OwedGoesOn
<1>6. CASE BatchTimerFires \/ DrainStart
  <2>1. UNCHANGED <<rows, dropped, log, backlog, jobVars>>
    BY <1>6 DEF BatchTimerFires, DrainStart
  <2>2. claimed' = claimed \/ claimed' = claimed \cup ToSet(pending)
    BY <1>6 DEF BatchTimerFires, DrainStart, Dispatch
  <2>3. claimed' = claimed
    <3>1. ToSet(pending) \subseteq claimed
      BY DEF SenderInv, Behind
    <3> QED
      BY <2>2, <3>1
  <2>4. Unreported' = Unreported
    BY <2>1 DEF Unreported
  <2>5. ToSend' \subseteq ToSend
    BY <1>2, <2>1, <2>3, <2>4, LeftToSend
  <2> QED
    BY <2>1, <2>5, OwedGoesOn
<1>7. CASE StartSendJob
  <2>1. /\ pc = "idle" /\ queue # <<>> /\ SendBatch(Head(queue).txs, backlog, {}, {})
        /\ UNCHANGED <<rows, dropped, log, replay, missed>>
    BY <1>7 DEF StartSendJob
  <2>2. Head(queue).txs \in Seq(Tx) /\ ToSet(Head(queue).txs) \subseteq Behind /\ held = {}
    <3>1. Head(queue) \in Job /\ ToSet(Head(queue).txs) \subseteq JobTxs(queue)
      BY <1>1, <2>1, JobTxsTail
    <3> QED
      BY <2>1, <3>1 DEF Job, Behind, NotBegun, JobInv
  <2>3. /\ ToSet(batch') = ToSet(backlog) \cup ToSet(Head(queue).txs)
        /\ held' = {} \cup ToSet(backlog) \cup ToSet(Head(queue).txs)
        /\ claimed' = (claimed \ {}) \cup ToSet(backlog) \cup ToSet(Head(queue).txs)
        /\ backlog' = <<>> /\ pc' \in {"ended", "marking"}
    <3>1. {} \in SUBSET Tx
      OBVIOUS
    <3> QED
      BY <1>1, <2>1, <2>2, <3>1, SendBatchEffect
  <2>4. Unreported' \subseteq ToSend
    BY <1>2, <2>2, <2>3 DEF Unreported
  <2>5. ToSend' \subseteq ToSend
    BY <1>2, <1>3, <2>1, <2>2, <2>3, <2>4, LeftToSend
  <2> QED
    BY <2>1, <2>5, OwedGoesOn
<1>8. CASE OutboxRead
  <2> DEFINE rest == Replayable(Unclaimed)
             list == InOutboxOrder(rest)
  <2>1. list \in Seq(Tx) /\ ToSet(list) = rest
    <3>1. rest \in SUBSET Outstanding
      BY DEF Unclaimed, Replayable
    <3> HIDE DEF rest
    <3> QED
      BY <3>1, InOutboxOrderLists DEF IndexInv, TypeOK, StorageTypeOK
  <2>2. \A t \in rest : rows[t] \in {"queued", "sent"}
    BY DEF Replayable
  <2>3. /\ pc = "reading" /\ UNCHANGED <<rows, dropped, log>>
        /\ \/ /\ pc' = "resetting" /\ replay' = list /\ backlog' = <<>>
              /\ UNCHANGED <<claimed, held>>
           \/ SendSlice(list, <<>>)
           \/ pc' = "ended" /\ backlog' = <<>> /\ UNCHANGED <<claimed, held, replay>>
    BY <1>8 DEF OutboxRead
  <2> HIDE DEF rest, list
  <2>4. ToSend' \subseteq ToSend \cup rest
    <3>1. CASE /\ pc' = "resetting" /\ replay' = list /\ backlog' = <<>>
               /\ UNCHANGED <<claimed, held>>
      <4>1. Unreported' = {}
        BY <3>1 DEF Unreported
      <4> QED
        BY ZenonT(30), <1>2, <1>3, <2>1, <3>1, <4>1, LeftToSend
    <3>2. CASE SendSlice(list, <<>>)
      <4>1. /\ ToSet(replay') \subseteq ToSet(list) /\ held' = ToSet(batch')
            /\ held' \subseteq ToSet(<<>>) \cup ToSet(list)
            /\ claimed' = (claimed \ held) \cup held'
            /\ backlog' = <<>> /\ pc' \in {"ended", "marking"}
        BY <1>1, <2>1, <3>2, EmptySeq, SendSliceEffect
      <4>2. Unreported' \subseteq ToSet(batch')
        BY <4>1 DEF Unreported
      <4> QED
        <5>1. /\ claimed' \ held' \subseteq ToSend \cup rest
               /\ ToSet(backlog') \cup ToSet(replay') \subseteq ToSend \cup rest
               /\ Unreported' \subseteq ToSend \cup rest
          BY <1>2, <1>3, <2>1, <4>1, <4>2
        <5> QED
          BY <5>1, LeftToSend
    <3>3. CASE pc' = "ended" /\ backlog' = <<>> /\ UNCHANGED <<claimed, held, replay>>
      <4>1. Unreported' = {}
        BY <3>3 DEF Unreported
      <4> QED
        BY <1>2, <1>3, <3>3, <4>1, LeftToSend
    <3> QED
      BY <2>3, <3>1, <3>2, <3>3
  <2> QED
    BY <2>2, <2>3, <2>4, OwedGoesOn
<1>9. ASSUME pc \in Loops, NEW state \in {"queued", "sent"}, rows' = Touch(Head(todo), state)
      PROVE  \A u \in Tx : rows'[u] = rows[u] \/ rows'[u] = state
  <2>1. Head(todo) \in Tx
    BY <1>1, <1>9, HeadAndTail DEF JobInv
  <2> QED
    BY <1>1, <1>9, <2>1, TouchEffect DEF RowState
<1>10. ASSUME SendSlice(replay, backlog)
       PROVE  ToSend' \subseteq ToSend
  <2>1. /\ ToSet(replay') \subseteq ToSet(replay) /\ held' = ToSet(batch')
        /\ held' \subseteq ToSet(backlog) \cup ToSet(replay)
        /\ claimed' = (claimed \ held) \cup held'
        /\ backlog' = <<>> /\ pc' \in {"ended", "marking"}
    BY <1>1, <1>10, SendSliceEffect
  <2>2. Unreported' \subseteq ToSet(batch')
    BY <2>1 DEF Unreported
  <2> QED
    BY <1>2, <1>3, <2>1, <2>2, LeftToSend
<1>11. CASE ResetSent
  <2>1. /\ pc \in Loops /\ rows' = Touch(Head(todo), "queued") /\ UNCHANGED <<dropped, log>>
        /\ \/ pc = "resetting" /\ UNCHANGED <<pc, held, claimed, backlog, replay>>
           \/ SendSlice(replay, backlog)
    BY <1>11 DEF ResetSent, Requeued, Loops
  <2>2. ToSend' \subseteq ToSend
    <3>1. CASE pc = "resetting" /\ UNCHANGED <<pc, held, claimed, backlog, replay>>
      <4>1. Unreported' = {}
        BY <3>1 DEF Unreported
      <4> QED
        BY <1>2, <3>1, <4>1, LeftToSend
    <3> QED
      BY <1>10, <2>1, <3>1
  <2> QED
    BY <1>4, <1>9, <2>1, <2>2, OwedGoesOn
<1>12. CASE MarkSent
  <2>1. /\ pc = "marking" /\ rows' = Touch(Head(todo), "sent")
        /\ UNCHANGED <<dropped, log, held, claimed, backlog, replay>>
        /\ pc' \in {"marking", "awaiting", "ended"}
        /\ batch' = batch \/ batch' = Without(batch, discarded)
    BY <1>12 DEF MarkSent
  <2>2. ToSet(batch') \subseteq ToSet(batch)
    BY <1>1, <2>1, WithoutDropsTheSet
  <2>3. Unreported' \subseteq Unreported
    BY <2>1, <2>2 DEF Unreported
  <2>4. ToSend' \subseteq ToSend
    BY <1>2, <2>1, <2>3, LeftToSend
  <2>5. pc \in Loops
    BY <2>1 DEF Loops
  <2> QED
    BY <1>4, <1>9, <2>1, <2>4, <2>5, OwedGoesOn
<1>13. CASE Requeue
  <2> DEFINE from == IF pc = "failing" THEN batch ELSE missed
             back == Without(from, discarded)
  <2>1. /\ pc \in {"failing", "requeueing"} /\ rows' = Touch(Head(todo), "queued")
        /\ UNCHANGED <<dropped, log, held, claimed, replay, batch, missed>>
        /\ \/ UNCHANGED <<pc, backlog>>
           \/ pc' = "ended" /\ backlog' = backlog \o back
    BY <1>13 DEF Requeue, Requeued
  <2>2. from \in Seq(Tx) /\ ToSet(from) = Unreported
    BY <1>1, <2>1 DEF Unreported
  <2> HIDE DEF from
  <2>3. back \in Seq(Tx) /\ ToSet(back) \subseteq Unreported
    BY <2>2, WithoutDropsTheSet
  <2> HIDE DEF back
  <2>4. ToSet(backlog \o back) = ToSet(backlog) \cup ToSet(back)
    BY <1>1, <2>3, ListsOf
  <2>5. Unreported' \subseteq Unreported
    BY <2>1 DEF Unreported
  <2>6. ToSend' \subseteq ToSend
    BY ZenonT(30), <1>2, <2>1, <2>3, <2>4, <2>5, LeftToSend
  <2>7. pc \in Loops
    BY <2>1 DEF Loops
  <2> QED
    BY <1>4, <1>9, <2>1, <2>6, <2>7, OwedGoesOn
<1>14. CASE TransportFails \/ BatchRefused
  <2>1. /\ pc = "awaiting" /\ pc' \in {"failing", "invalid"}
        /\ UNCHANGED <<rows, dropped, log, held, claimed, backlog, replay, batch>>
    BY <1>14 DEF TransportFails, BatchRefused
  <2>2. Unreported' = Unreported
    BY <2>1 DEF Unreported
  <2>3. ToSend' \subseteq ToSend
    BY <1>2, <2>1, <2>2, LeftToSend
  <2> QED
    BY <2>1, <2>3, OwedGoesOn
<1>15. CASE ReplyArrives
  <2>1. /\ pc = "awaiting"
        /\ UNCHANGED <<rows, dropped, log, held, claimed, backlog, replay, batch>>
        /\ \E S : missed' = Without(batch, S)
        /\ \/ pc' = "requeueing"
           \/ pc' = "results" /\ \E S : todo' = Without(batch, S)
    BY <1>15 DEF ReplyArrives
  <2>2. \A S : ToSet(Without(batch, S)) \subseteq ToSet(batch)
    BY <1>1, WithoutDropsTheSet
  <2>3. Unreported' \subseteq Unreported
    BY <2>1, <2>2 DEF Unreported
  <2>4. ToSend' \subseteq ToSend
    BY <1>2, <2>1, <2>3, LeftToSend
  <2> QED
    BY <2>1, <2>4, OwedGoesOn
<1>16. ASSUME pc \in {"results", "removing"}, NextResult, UNCHANGED missed
       PROVE  Unreported' \subseteq ToSet(Tail(todo)) \cup ToSet(missed)
  BY <1>16 DEF NextResult, Unreported
<1>17. ASSUME pc = "results"
       PROVE  ToSet(Tail(todo)) \cup ToSet(missed) \subseteq Unreported
  <2>1. todo # <<>>
    BY <1>17 DEF JobInv, Loops
  <2> QED
    BY <1>1, <1>17, <2>1, HeadAndTail DEF Unreported
<1>18. ASSUME pc = "removing"
       PROVE  ToSet(Tail(todo)) \cup ToSet(missed) = Unreported
  BY <1>18 DEF Unreported
<1>19. CASE Acknowledge \/ RefusedRemoved
  <2> DEFINE t == Head(todo)
  <2>1. /\ pc \in {"results", "removing"} /\ NextResult
        /\ UNCHANGED <<dropped, log, held, claimed, replay, batch, missed>>
        /\ \/ rows' = Touch(t, "awaitingSync") /\ backlog' = backlog
           \/ rows' = [rows EXCEPT ![t] = "none"] /\ backlog' = Without(backlog, {t})
    BY <1>19 DEF Acknowledge, RefusedRemoved, RemoveRow
  <2>2. /\ t \in Tx /\ t \notin Behind \cup ToSet(backlog) \cup ToSet(replay)
        /\ t \notin ToSet(Tail(todo)) \cup ToSet(missed)
    BY <2>1, HeadIsReported
  <2> HIDE DEF t
  <2>3. \A u \in Tx : u # t => rows'[u] = rows[u]
    BY <1>1, <2>1, <2>2, TouchEffect DEF RowState
  <2>4. ToSet(backlog') \subseteq ToSet(backlog)
    BY <1>1, <2>1, WithoutDropsTheSet
  <2>5. ToSend' \subseteq ToSend \ {t}
    <3>1. Unreported' \subseteq Unreported \ {t}
      BY <1>16, <1>17, <1>18, <2>1, <2>2
    <3> QED
      <4>1. /\ claimed' \ held' \subseteq ToSend \ {t}
             /\ ToSet(backlog') \cup ToSet(replay') \subseteq ToSend \ {t}
             /\ Unreported' \subseteq ToSend \ {t}
        BY <1>2, <2>1, <2>2, <2>4, <3>1
      <4> QED
        BY <4>1, LeftToSend
  <2> QED
    BY <1>4, <2>1, <2>3, <2>5, OwedGoesOn
<1>20. CASE Refuse
  <2> DEFINE t == Head(todo)
  <2>1. /\ pc \in {"results", "invalid"} /\ rows' = Touch(t, "failed")
        /\ pc' = IF pc = "results" THEN "removing" ELSE "evicting"
        /\ DiscardFromMemory(t)
        /\ UNCHANGED <<dropped, log, held, backlog, replay, batch, missed, todo>>
    BY <1>20 DEF Refuse
  <2>2. t \in Tx /\ t \in ToSet(batch)
    <3>1. todo # <<>> /\ ToSet(todo) \subseteq ToSet(batch)
      BY <2>1 DEF JobInv, Loops, TodoInv
    <3> QED
      BY <1>1, <3>1, HeadAndTail
  <2>3. claimed' \subseteq claimed
    BY <2>1 DEF DiscardFromMemory
  <2>4. t \notin Behind /\ t \notin ToSet(replay) /\ t \notin ToSet(backlog)
    <3>1. backlog = <<>> /\ held \cap ToSet(replay) = {}
      BY <2>1 DEF ListsInv
    <3> QED
      BY <1>2, <1>3, <2>2, <3>1
  <2>5. Unreported' \subseteq Unreported \ {t}
    <3>1. CASE pc = "results"
      <4>1. t \notin ToSet(Tail(todo)) \cup ToSet(missed)
        BY <3>1, HeadIsReported
      <4>2. Unreported' = ToSet(Tail(todo)) \cup ToSet(missed)
        BY <2>1, <3>1 DEF Unreported
      <4> QED
        BY <1>17, <3>1, <4>1, <4>2
    <3>2. CASE pc = "invalid"
      <4>1. Unreported' = ToSet(batch) \ {t} /\ Unreported = ToSet(batch)
        BY <2>1, <3>2 DEF Unreported
      <4> QED
        BY <4>1
    <3> QED
      BY <2>1, <3>1, <3>2
  <2> HIDE DEF t
  <2>6. \A u \in Tx : u # t => rows'[u] = rows[u]
    BY <1>1, <2>1, <2>2, TouchEffect DEF RowState
  <2>7. ToSend' \subseteq ToSend \ {t}
    <3>1. /\ claimed' \ held' \subseteq ToSend \ {t}
           /\ ToSet(backlog') \cup ToSet(replay') \subseteq ToSend \ {t}
           /\ Unreported' \subseteq ToSend \ {t}
      BY <1>2, <2>1, <2>3, <2>4, <2>5
    <3> QED
      BY <3>1, LeftToSend
  <2> QED
    BY <1>4, <2>1, <2>6, <2>7, OwedGoesOn
<1>21. CASE CulpritRemoved
  <2> DEFINE t == Head(todo)
  <2>1. /\ pc = "evicting" /\ pc' \in {"ended", "restoring"}
        /\ rows' = [rows EXCEPT ![t] = "none"] /\ backlog' = Without(backlog, {t})
        /\ batch' = Without(batch, {t})
        /\ UNCHANGED <<dropped, log, held, claimed, replay>>
    BY <1>21 DEF CulpritRemoved, RemoveRow
  <2>2. t \in ToSet(batch) /\ t \in Tx
    <3>1. todo # <<>> /\ ToSet(todo) \subseteq ToSet(batch)
      BY <2>1 DEF JobInv, Loops, TodoInv
    <3> QED
      BY <1>1, <3>1, HeadAndTail
  <2>3. t \notin Behind /\ t \notin ToSet(replay) /\ t \notin ToSet(backlog)
    <3>1. backlog = <<>> /\ held \cap ToSet(replay) = {}
      BY <2>1 DEF ListsInv
    <3> QED
      BY <1>2, <1>3, <2>2, <3>1
  <2>4. Unreported = ToSet(batch) \ {t}
    BY <2>1 DEF Unreported
  <2> HIDE DEF t
  <2>5. ToSet(backlog') \subseteq ToSet(backlog) /\ ToSet(batch') = ToSet(batch) \ {t}
    BY <1>1, <2>1, WithoutDropsTheSet
  <2>6. Unreported' \subseteq Unreported
    BY <2>1, <2>4, <2>5 DEF Unreported
  <2>7. ToSend' \subseteq ToSend \ {t}
    BY <1>2, <2>1, <2>3, <2>4, <2>5, <2>6, LeftToSend
  <2>8. \A u \in Tx : u # t => rows'[u] = rows[u]
    BY <1>1, <2>1
  <2> QED
    BY <1>4, <2>1, <2>7, <2>8, OwedGoesOn
<1>22. CASE Restore
  <2>1. /\ pc = "restoring" /\ rows' = Touch(Head(todo), "queued")
        /\ UNCHANGED <<dropped, log, replay>>
        /\ \/ UNCHANGED <<pc, batch, held, claimed, backlog>>
           \/ SendBatch(batch, backlog, {}, held)
    BY <1>22 DEF Restore, Requeued
  <2>2. Unreported = ToSet(batch)
    BY <2>1 DEF Unreported
  <2>3. ToSend' \subseteq ToSend
    <3>1. CASE UNCHANGED <<pc, batch, held, claimed, backlog>>
      <4>1. Unreported' = ToSet(batch)
        BY <2>1, <3>1 DEF Unreported
      <4> QED
        BY <1>2, <2>1, <2>2, <3>1, <4>1, LeftToSend
    <3>2. CASE SendBatch(batch, backlog, {}, held)
      <4>1. /\ ToSet(batch') = ToSet(backlog) \cup ToSet(batch)
            /\ held' = held \cup ToSet(backlog) \cup ToSet(batch)
            /\ claimed' = (claimed \ {}) \cup ToSet(backlog) \cup ToSet(batch)
            /\ backlog' = <<>> /\ pc' \in {"ended", "marking"}
        <5>1. {} \in SUBSET Tx /\ held \in SUBSET Tx
          BY <1>1
        <5> QED
          BY <1>1, <3>2, <5>1, SendBatchEffect
      <4>2. Unreported' \subseteq ToSet(batch')
        BY <4>1 DEF Unreported
      <4> QED
        BY <1>2, <1>3, <2>1, <2>2, <4>1, <4>2, LeftToSend
    <3> QED
      BY <2>1, <3>1, <3>2
  <2>4. pc \in Loops
    BY <2>1 DEF Loops
  <2> QED
    BY <1>4, <1>9, <2>1, <2>3, <2>4, OwedGoesOn
<1>23. CASE EndSend
  <2>1. /\ UNCHANGED <<rows, dropped, log>>
        /\ \/ SendSlice(replay, backlog)
           \/ FinishJob /\ claimed' = claimed \ held /\ UNCHANGED backlog
    BY <1>23 DEF EndSend
  <2>2. ToSend' \subseteq ToSend
    <3>1. CASE FinishJob /\ claimed' = claimed \ held /\ UNCHANGED backlog
      <4>1. pc' = "idle" /\ held' = {} /\ replay' = <<>>
        BY <3>1 DEF FinishJob
      <4>2. Unreported' = {}
        BY <4>1 DEF Unreported
      <4> QED
        BY <1>2, <1>3, <3>1, <4>1, <4>2, LeftToSend
    <3> QED
      BY <1>10, <2>1, <3>1
  <2> QED
    BY <2>1, <2>2, OwedGoesOn
<1>24. CASE ServerTakesNext \/ ServerTakesLate
  <2>1. UNCHANGED <<rows, dropped, held, claimed, backlog, replay, batch, missed, pc, todo>>
    BY <1>24 DEF ServerTakesNext, ServerTakesLate
  <2>2. ToSet(log) \subseteq ToSet(log')
    <3>1. ASSUME NEW t \in Tx, NEW outcome \in ServerOutcome(t), log' = outcome[2]
          PROVE  ToSet(log) \subseteq ToSet(log')
      <4>1. log \in Seq(Tx) /\ ToSet(Append(log, t)) = ToSet(log) \cup {t}
        BY AppendLists DEF TypeOK, ServerTypeOK
      <4>2. \/ outcome = <<"ok", log>>
            \/ outcome = <<"ok", Append(log, t)>>
            \/ outcome = <<"refused", log>>
        BY DEF ServerOutcome
      <4>3. outcome[2] = log \/ outcome[2] = Append(log, t)
        BY <4>2
      <4> QED
        BY <3>1, <4>1, <4>3
    <3>2. CASE ServerTakesNext
      <4>1. request \in Seq(Tx) /\ request # <<>>
        BY <3>2 DEF ServerTakesNext, TypeOK, ServerTypeOK
      <4>2. Head(request) \in Tx
        BY <4>1, HeadAndTail
      <4> QED
        BY <3>1, <3>2, <4>2 DEF ServerTakesNext
    <3>3. CASE ServerTakesLate
      <4>1. PICK r \in late : \E outcome \in ServerOutcome(Head(r)) : log' = outcome[2]
        BY <3>3 DEF ServerTakesLate
      <4>2. r \in Seq(Tx) /\ r # <<>>
        BY <4>1 DEF TypeOK, ServerTypeOK, JobInv
      <4>3. Head(r) \in Tx
        BY <4>2, HeadAndTail
      <4> QED
        BY <3>1, <4>1, <4>3
    <3> QED
      BY <1>24, <3>2, <3>3
  <2>3. Unreported' = Unreported
    BY <2>1 DEF Unreported
  <2>4. ToSend' \subseteq ToSend
    BY <1>2, <2>1, <2>3, LeftToSend
  <2> QED
    BY <2>1, <2>2, <2>4, OwedGoesOn
<1>25. CASE RebaseRead \/ ConfirmRead \/ CompleteRead
  <2>1. /\ UNCHANGED <<rows, log, held, backlog, replay, batch, missed, pc, todo>>
        /\ dropped \subseteq dropped' /\ claimed' \subseteq claimed
    BY <1>25 DEF RebaseRead, ConfirmRead, CompleteRead, BeginDiscard, NothingToDiscard,
                 DiscardFromMemory
  <2>2. Unreported' = Unreported
    BY <2>1 DEF Unreported
  <2>3. ToSend' \subseteq ToSend
    BY <1>2, <2>1, <2>2, LeftToSend
  <2> QED
    BY <2>1, <2>3, OwedGoesOn
<1>26. CASE LoserRemoved \/ SettledRemoved
  <2>1. /\ UNCHANGED <<log, held, replay, batch, missed, pc, todo>> /\ RemoveRow(pktTx)
        /\ dropped \subseteq dropped' /\ claimed' \subseteq claimed
    BY <1>26 DEF LoserRemoved, SettledRemoved, BeginDiscard, NothingToDiscard,
                 DiscardFromMemory
  <2>2. /\ \A u \in Tx : rows'[u] = IF u = pktTx THEN "none" ELSE rows[u]
        /\ ToSet(backlog') = ToSet(backlog) \ {pktTx}
    BY <1>1, <2>1, RemoveRowEffect
  <2>3. pktTx \in dropped \cup ToSet(log)
    BY <1>26 DEF PassedInv, PacketKnows, LoserRemoved, SettledRemoved
  <2>4. Unreported' = Unreported
    BY <2>1 DEF Unreported
  <2>5. ToSend' \subseteq ToSend
    BY <1>2, <2>1, <2>2, <2>4, LeftToSend
  <2> QED
    BY <1>4, <2>1, <2>2, <2>3, <2>5, OwedGoesOn
<1>27. CASE Restart
  <2>1. /\ claimed' = {} /\ held' = {} /\ backlog' = <<>> /\ replay' = <<>> /\ pc' = "idle"
    BY <1>27 DEF Restart
  <2>2. Unreported' = {}
    BY <2>1 DEF Unreported
  <2>3. ToSend' \subseteq {}
    BY <1>3, <2>1, <2>2, LeftToSend
  <2> QED
    BY <2>3 DEF AllOwed
<1>28. CASE StartReplayJob \/ PacketArrives \/ ReadOutbox \/ CommitPacket \/ UNCHANGED vars
  <2>1. /\ UNCHANGED <<rows, dropped, log, held, claimed, backlog, replay, batch, missed, todo>>
        /\ pc' = pc \/ pc' = "reading"
    BY <1>28 DEF StartReplayJob, PacketArrives, ReadOutbox, CommitPacket
  <2>2. Unreported' \subseteq Unreported
    BY <2>1 DEF Unreported
  <2>3. ToSend' \subseteq ToSend
    BY <1>2, <2>1, <2>2, LeftToSend
  <2> QED
    BY <2>1, <2>3, OwedGoesOn
<1> QED
  BY <1>5, <1>6, <1>7, <1>8, <1>11, <1>12, <1>13, <1>14, <1>15, <1>19, <1>20, <1>21, <1>22,
     <1>23, <1>24, <1>25, <1>26, <1>27, <1>28 DEF Next, RunJob, ApplyPacket

\* A step that marks nothing "sent" keeps what is requeued queued.
LEMMA RequeuedGoesOn ==
  ASSUME TypeOK, RequeuedFirst,
         \A t \in Tx : rows'[t] = "sent" => rows[t] = "sent",
         ToSet(backlog') \subseteq ToSet(backlog),
         pc' = "failing" => \/ ToSet(batch') \subseteq ToSet(todo')
                            \/ UNCHANGED <<pc, batch, todo>>,
         pc' = "requeueing" => \/ ToSet(missed') \subseteq ToSet(todo')
                               \/ UNCHANGED <<pc, missed, todo>>
  PROVE  RequeuedFirst'
<1>1. ToSet(backlog) \subseteq Tx /\ ToSet(batch) \subseteq Tx /\ ToSet(missed) \subseteq Tx
  BY ListsOf DEF TypeOK, ListTypeOK, JobTypeOK
<1> QED
  BY <1>1 DEF RequeuedFirst

\* Every step preserves RequeuedFirst.
LEMMA RequeuedStep ==
  ASSUME TypeOK, JobInv, SenderInv, ListsInv, RequeuedFirst, [Next]_vars
  PROVE  RequeuedFirst'
<1> USE DEF vars, storageVars, listVars, claimVars, indexVars, jobVars,
            serverVars, pktVars, historyVars
<1>1. /\ backlog \in Seq(Tx) /\ batch \in Seq(Tx) /\ missed \in Seq(Tx) /\ todo \in Seq(Tx)
      /\ rows \in [Tx -> RowState]
  BY DEF TypeOK, ListTypeOK, JobTypeOK, StorageTypeOK
<1>2. ToSet(<<>>) = {}
  BY NoJobsNoTxs
<1>3. /\ \A S : ToSet(Without(backlog, S)) \subseteq ToSet(backlog)
      /\ \A S : ToSet(Without(batch, S)) = ToSet(batch) \ S
  BY <1>1, WithoutDropsTheSet
<1>4. pc \in Loops => Head(todo) \in Tx
  BY <1>1, HeadAndTail DEF JobInv
<1>5. CASE QueueTransaction
  <2>1. made + 1 \in Tx
    BY <1>5, NewIsNowhere, OutboxAssumption DEF QueueTransaction, Tx
  <2>2. rows' = [rows EXCEPT ![made + 1] = "queued"] /\ UNCHANGED <<backlog, jobVars>>
    BY <1>5 DEF QueueTransaction
  <2>3. \A t \in Tx : rows'[t] = "sent" => rows[t] = "sent"
    BY <1>1, <2>1, <2>2
  <2> QED
    BY <2>2, <2>3, RequeuedGoesOn
<1>6. CASE MarkSent
  <2>1. pc = "marking" /\ pc' \notin {"failing", "requeueing"} /\ backlog' = backlog
    BY <1>6 DEF MarkSent
  <2>2. backlog = <<>>
    BY <2>1 DEF ListsInv
  <2> QED
    BY <1>2, <2>1, <2>2 DEF RequeuedFirst
<1>7. CASE Requeue
  <2> DEFINE from == IF pc = "failing" THEN batch ELSE missed
             back == Without(from, discarded)
  <2>1. /\ pc \in {"failing", "requeueing"} /\ rows' = Touch(Head(todo), "queued")
        /\ todo' = Tail(todo) /\ UNCHANGED <<batch, missed>>
        /\ \/ Len(todo) > 1 /\ UNCHANGED <<pc, backlog>>
           \/ ~(Len(todo) > 1) /\ pc' = "ended" /\ backlog' = backlog \o back
    BY <1>7 DEF Requeue, Requeued
  <2>2. todo # <<>> /\ Head(todo) \in Tx
    BY <1>4, <2>1 DEF JobInv, Loops
  <2>3. ToSet(todo) = {Head(todo)} \cup ToSet(Tail(todo))
    BY <1>1, <2>2, HeadAndTail
  <2>4. /\ \A u \in Tx : rows'[u] = "sent" => rows[u] = "sent"
        /\ rows'[Head(todo)] # "sent"
    BY SMTT(20), <1>1, <2>1, <2>2, TouchEffect DEF RowState
  <2>5. from \in Seq(Tx) /\ \A t \in ToSet(from) \ ToSet(todo) : rows[t] # "sent"
    BY <1>1, <2>1 DEF RequeuedFirst
  <2>6. ToSet(from) \subseteq Tx /\ ToSet(backlog) \subseteq Tx
    BY <1>1, <2>5, ListsOf
  <2>7. \A t \in ToSet(from) \ ToSet(todo') : rows'[t] # "sent"
    BY <2>1, <2>3, <2>4, <2>5, <2>6
  <2>8. CASE Len(todo) > 1 /\ UNCHANGED <<pc, backlog>>
    BY <2>1, <2>4, <2>6, <2>7, <2>8 DEF RequeuedFirst
  <2>9. CASE ~(Len(todo) > 1) /\ pc' = "ended" /\ backlog' = backlog \o back
    <3>1. ToSet(todo') = {}
      <4>1. Tail(todo) = <<>>
        BY <1>1, <2>2, <2>9
      <4> QED
        BY <1>2, <2>1, <4>1
    <3> HIDE DEF from
    <3>2. back \in Seq(Tx) /\ ToSet(back) \subseteq ToSet(from)
      BY <2>5, WithoutDropsTheSet
    <3> HIDE DEF back
    <3>3. ToSet(backlog') = ToSet(backlog) \cup ToSet(back)
      BY <1>1, <2>9, <3>2, ListsOf
    <3> QED
      BY <2>4, <2>6, <2>7, <2>9, <3>1, <3>2, <3>3 DEF RequeuedFirst
  <2> QED
    BY <2>1, <2>8, <2>9
<1>8. CASE ResetSent \/ Restore \/ Acknowledge \/ Refuse
  <2>1. /\ pc \in Loops /\ backlog' \in {backlog, <<>>}
        /\ \E state \in {"queued", "awaitingSync", "failed"} : rows' = Touch(Head(todo), state)
        /\ pc' # "failing"
        /\ pc' = "requeueing" => todo' = missed /\ missed' = missed
    BY <1>8 DEF ResetSent, Restore, Acknowledge, Refuse, Requeued, NextResult, Loops,
                SendSlice, SendBatch, BacklogAfterTake
  <2>2. \A t \in Tx : rows'[t] = "sent" => rows[t] = "sent"
    BY <1>1, <1>4, <2>1, TouchEffect DEF RowState
  <2> QED
    BY <1>2, <2>1, <2>2, RequeuedGoesOn
<1>9. CASE RefusedRemoved \/ CulpritRemoved
  <2>1. /\ \E S : backlog' = Without(backlog, S)
        /\ rows' = [rows EXCEPT ![Head(todo)] = "none"]
        /\ pc' # "failing"
        /\ pc' = "requeueing" => todo' = missed /\ missed' = missed
    BY <1>9 DEF RefusedRemoved, CulpritRemoved, RemoveRow, NextResult
  <2>2. \A t \in Tx : rows'[t] = "sent" => rows[t] = "sent"
    BY <1>1, <2>1
  <2> QED
    BY <1>3, <2>1, <2>2, RequeuedGoesOn
<1>10. CASE TransportFails \/ ReplyArrives
  <2>1. /\ UNCHANGED <<rows, backlog, batch>>
        /\ pc' = "failing" => todo' = batch
    BY <1>10 DEF TransportFails, ReplyArrives
  <2>2. pc' = "requeueing" => todo' = batch /\ \E S : missed' = Without(batch, S)
    BY <1>10 DEF TransportFails, ReplyArrives
  <2> QED
    BY <1>3, <2>1, <2>2, RequeuedGoesOn
<1>11. CASE StartSendJob \/ OutboxRead \/ EndSend \/ BatchRefused \/ StartReplayJob \/ Restart
  <2>1. /\ rows' = rows /\ backlog' \in {backlog, <<>>}
        /\ pc' \notin {"failing", "requeueing"}
    BY <1>11 DEF StartSendJob, OutboxRead, EndSend, BatchRefused, StartReplayJob, Restart,
                 SendSlice, SendBatch, BacklogAfterTake, FinishJob
  <2> QED
    BY <1>2, <2>1, RequeuedGoesOn
<1>12. CASE LoserRemoved \/ SettledRemoved
  <2>1. /\ \E S : backlog' = Without(backlog, S)
        /\ rows' = [rows EXCEPT ![pktTx] = "none"]
        /\ UNCHANGED <<pc, batch, missed, todo>>
    BY <1>12 DEF LoserRemoved, SettledRemoved, RemoveRow
  <2>2. \A t \in Tx : rows'[t] = "sent" => rows[t] = "sent"
    BY <1>1, <2>1
  <2> QED
    BY <1>3, <2>1, <2>2, RequeuedGoesOn
<1>13. CASE \/ BatchTimerFires \/ DrainStart \/ ServerTakesNext \/ ServerTakesLate \/ PacketArrives
            \/ RebaseRead \/ ReadOutbox \/ ConfirmRead \/ CompleteRead \/ CommitPacket
            \/ UNCHANGED vars
  <2>1. UNCHANGED <<rows, backlog, pc, batch, missed, todo>>
    BY <1>13 DEF BatchTimerFires, DrainStart, ServerTakesNext, ServerTakesLate, PacketArrives,
                 RebaseRead, ReadOutbox, ConfirmRead, CompleteRead, CommitPacket
  <2> QED
    BY <2>1, RequeuedGoesOn
<1> QED
  BY <1>5, <1>6, <1>7, <1>8, <1>9, <1>10, <1>11, <1>12, <1>13 DEF Next, RunJob, ApplyPacket

-----------------------------------------------------------------------------
(* What follows *)

\* What a row is written for is still owed, unless it is an acknowledgment.
LEMMA OnlyTheOwedIsTouched ==
  ASSUME TypeOK, JobInv, TodoInv, OwedInv, pc \in Loops \ {"removing", "evicting"}
  PROVE  Head(todo) \in Tx /\ Owed(Head(todo))
<1>1. /\ todo \in Seq(Tx) /\ todo # <<>>
      /\ Head(todo) \in Tx /\ Head(todo) \in ToSet(todo)
  <2>1. todo \in Seq(Tx) /\ todo # <<>>
    BY DEF TypeOK, JobTypeOK, JobInv
  <2> QED
    BY <2>1, HeadAndTail
<1>2. ToSet(todo) \subseteq ToSend
  <2>1. CASE pc = "resetting"
    BY <2>1 DEF TodoInv, ToSend
  <2>2. CASE pc \in {"marking", "failing", "invalid", "restoring"}
    BY <2>2 DEF TodoInv, ToSend, Unreported
  <2>3. CASE pc = "results"
    BY <2>3 DEF ToSend, Unreported
  <2>4. CASE pc = "requeueing"
    BY <2>4 DEF TodoInv, ToSend, Unreported
  <2> QED
    BY <2>1, <2>2, <2>3, <2>4 DEF Loops
<1> QED
  BY <1>1, <1>2 DEF OwedInv, AllOwed

\* No step takes an acknowledged transaction back.
LEMMA AckedStays ==
  ASSUME Inv, [Next]_vars, NEW t \in Tx, rows[t] = "awaitingSync"
  PROVE  rows'[t] \in {"awaitingSync", "none"}
<1> USE DEF vars, storageVars
<1>1. /\ TypeOK /\ JobInv /\ TodoInv /\ OwedInv /\ IndexInv /\ SenderInv
      /\ rows \in [Tx -> RowState]
  BY DEF Inv, TypeOK, StorageTypeOK
<1>2. CASE QueueTransaction
  <2>1. made + 1 \in Tx /\ made \in Nat
    BY <1>1, <1>2, NewIsNowhere, OutboxAssumption DEF QueueTransaction, Tx
  <2>2. made + 1 \notin Outstanding
    BY <1>1, <2>1 DEF IndexInv
  <2>3. rows' = [rows EXCEPT ![made + 1] = "queued"]
    BY <1>2 DEF QueueTransaction
  <2> QED
    BY <1>1, <2>1, <2>2, <2>3 DEF Outstanding
<1>3. CASE ResetSent \/ MarkSent \/ Requeue \/ Restore \/ Refuse
  <2>1. /\ pc \in Loops \ {"removing", "evicting"}
        /\ \E state \in {"queued", "sent", "failed"} : rows' = Touch(Head(todo), state)
    BY <1>3 DEF ResetSent, MarkSent, Requeue, Restore, Refuse, Requeued, Loops
  <2>2. Head(todo) \in Tx /\ Owed(Head(todo))
    BY <1>1, <2>1, OnlyTheOwedIsTouched
  <2>3. Head(todo) # t
    BY <2>2 DEF Owed
  <2> QED
    BY <1>1, <2>1, <2>2, <2>3, TouchEffect DEF RowState
<1>4. CASE Acknowledge
  <2>1. pc \in Loops \ {"removing", "evicting"} /\ rows' = Touch(Head(todo), "awaitingSync")
    BY <1>4 DEF Acknowledge, Loops
  <2>2. Head(todo) \in Tx
    BY <1>1, <2>1, OnlyTheOwedIsTouched
  <2> QED
    BY <1>1, <2>1, <2>2, TouchEffect DEF RowState
<1>5. CASE RefusedRemoved \/ CulpritRemoved \/ LoserRemoved \/ SettledRemoved
  <2>1. \E u : rows' = [rows EXCEPT ![u] = "none"]
    BY <1>5 DEF RefusedRemoved, CulpritRemoved, LoserRemoved, SettledRemoved, RemoveRow
  <2> QED
    BY <1>1, <2>1
<1>6. CASE \/ BatchTimerFires \/ DrainStart \/ StartSendJob \/ StartReplayJob \/ OutboxRead
           \/ TransportFails \/ ReplyArrives \/ BatchRefused \/ EndSend
           \/ ServerTakesNext \/ ServerTakesLate \/ PacketArrives
           \/ RebaseRead \/ ReadOutbox \/ ConfirmRead \/ CompleteRead \/ CommitPacket
           \/ Restart \/ UNCHANGED vars
  <2>1. rows' = rows
    BY <1>6 DEF BatchTimerFires, DrainStart, StartSendJob, StartReplayJob, OutboxRead,
                TransportFails, ReplyArrives, BatchRefused, EndSend,
                ServerTakesNext, ServerTakesLate, PacketArrives,
                RebaseRead, ReadOutbox, ConfirmRead, CompleteRead, CommitPacket, Restart
  <2> QED
    BY <2>1
<1> QED
  BY <1>2, <1>3, <1>4, <1>5, <1>6 DEF Next, RunJob, ApplyPacket

-----------------------------------------------------------------------------
(* The theorems *)

\* The initial state satisfies the invariant.
LEMMA InvInit == Init => Inv
<1> SUFFICES ASSUME Init PROVE Inv
  OBVIOUS
<1>1. TypeOK
  BY TypeInit
<1>2. /\ queue = <<>> /\ pending = <<>> /\ backlog = <<>> /\ replay = <<>>
      /\ batch = <<>> /\ missed = <<>> /\ late = {} /\ log = <<>>
      /\ claimed = {} /\ held = {} /\ discarded = {}
      /\ pc = "idle" /\ pktPc = "idle" /\ seeded = FALSE
      /\ cursor = 0 /\ pktUpTo = 0 /\ made = 0
      /\ rows = [t \in Tx |-> "none"] /\ verdict = [t \in Tx |-> "none"]
      /\ request = <<>> /\ localIds = {}
  BY DEF Init
<1>3. JobInv
  BY <1>2 DEF JobInv, Loops
<1>4. IndexInv
  <2>1. Outstanding = {}
    BY <1>2 DEF Outstanding
  <2> QED
    BY <1>2, <2>1 DEF IndexInv, OutboxKeepsWriteOrder
<1>5. SenderInv
  <2>1. Behind = {} /\ AtFront = {}
    BY <1>2, NoJobsNoTxs DEF Behind, NotBegun, AtFront
  <2> QED
    BY <1>2, <2>1, NoJobsNoTxs DEF SenderInv
<1>6. SettledInv
  BY <1>2 DEF SettledInv, NothingIsLost, VerdictsAreTrue, CursorsAreInTheLog,
              PacketSettles, RefusalIsReported
<1>7. PassedInv
  <2>1. KnownAreMade
    BY <1>2, NoJobsNoTxs DEF KnownAreMade
  <2>2. PassedIsGone /\ AwaitsItsId /\ PacketKnows /\ EchoIdsAreOutstanding
    BY <1>2 DEF PassedIsGone, AwaitsItsId, PacketKnows, EchoIdsAreOutstanding
  <2> QED
    BY <2>1, <2>2 DEF PassedInv
<1>8. ListsInv /\ TodoInv
  <2>1. IsInjective(<<>>)
    BY DEF IsInjective
  <2> QED
    BY <1>2, <2>1, NoJobsNoTxs DEF ListsInv, TodoInv
<1>9. OwedInv
  <2>1. ToSend = {}
    BY <1>2, NoJobsNoTxs DEF ToSend, Unreported, Behind, NotBegun
  <2> QED
    BY <1>2, <2>1, NoJobsNoTxs DEF OwedInv, AllOwed, RequeuedFirst
<1> QED
  BY <1>1, <1>3, <1>4, <1>5, <1>6, <1>7, <1>8, <1>9 DEF Inv

\* The invariant is inductive.
LEMMA InvStep == Inv /\ [Next]_vars => Inv'
<1> SUFFICES ASSUME Inv, [Next]_vars PROVE Inv'
  OBVIOUS
<1>1. /\ TypeOK /\ JobInv /\ IndexInv /\ SenderInv /\ SettledInv
      /\ PassedInv /\ ListsInv /\ TodoInv /\ OwedInv
  BY DEF Inv
<1>2. TypeOK'
  BY <1>1, TypeStep
<1>3. JobInv' /\ IndexInv' /\ SenderInv' /\ SettledInv'
  BY <1>1, <1>2, JobStep, IndexStep, SenderStep, SettledStep
<1>4. PassedInv' /\ ListsInv' /\ TodoInv'
  BY <1>1, <1>2, PassedStep, ListsStep, TodoStep
<1>5. OwedInv'
  BY <1>1, <1>3, OwedStep, RequeuedStep DEF OwedInv
<1> QED
  BY <1>2, <1>3, <1>4, <1>5 DEF Inv

\* Inv is an invariant of the outbox, inductive as it stands.
THEOREM InvAlways == Spec => []Inv
BY InvInit, InvStep, PTL DEF Spec

\* Every variable keeps its type.
THEOREM TypesAlways == Spec => []TypeOK
<1>1. Inv => TypeOK
  BY DEF Inv
<1> QED
  BY <1>1, InvAlways, PTL

\* The claims are exact: queueTransaction, dispatchBatch, sendBatch,
\* replayPersisted, release and discardTransaction together neither forget a
\* claim (the transaction would be sent twice) nor leak one (no replay would
\* ever send it).
THEOREM ClaimsAlwaysExact == Spec => []ClaimsAreExact
<1>1. Inv => ClaimsAreExact
  <2> SUFFICES ASSUME Inv PROVE ClaimsAreExact
    OBVIOUS
  <2>1. TypeOK /\ JobInv /\ SenderInv
    BY DEF Inv
  <2>2. Owned = Behind \cup held
    <3>1. CASE pc = "idle"
      BY <3>1 DEF Owned, Behind, NotBegun, JobTxs
    <3>2. CASE pc # "idle"
      <4>1. queue \in Seq(Job) /\ queue # <<>> /\ ToSet(Head(queue).txs) \subseteq held
        BY <2>1, <3>2 DEF JobInv, TypeOK, ListTypeOK
      <4>2. JobTxs(queue) = ToSet(Head(queue).txs) \cup JobTxs(Tail(queue))
        BY <4>1, JobTxsTail
      <4>3. Owned = ToSet(pending) \cup held \cup JobTxs(queue)
        BY DEF Owned, JobTxs
      <4> QED
        BY <3>2, <4>1, <4>2, <4>3 DEF Behind, NotBegun
    <3> QED
      BY <3>1, <3>2
  <2> QED
    BY <2>1, <2>2 DEF SenderInv, ClaimsAreExact
<1> QED
  BY <1>1, InvAlways, PTL

\* A transaction is with one sender at most: in pendingBatch, in one job of
\* the send queue, or held by the running one.
THEOREM AlwaysOneSender == Spec => []OneSender
<1>1. Inv => OneSender
  <2> SUFFICES ASSUME Inv PROVE OneSender
    OBVIOUS
  <2>1. TypeOK /\ JobInv /\ SenderInv
    BY DEF Inv
  <2>2. held \cap ToSet(pending) = {}
    BY <2>1 DEF SenderInv, AtFront, Behind
  <2>3. \A i \in DOMAIN queue : ToSet(queue[i].txs) \cap ToSet(pending) = {}
    BY <2>1 DEF SenderInv, JobTxs
  <2>4. \A i, j \in DOMAIN queue :
          i < j => ToSet(queue[i].txs) \cap ToSet(queue[j].txs) = {}
    BY <2>1 DEF SenderInv, JobsAreApart
  <2>5. ASSUME NEW i \in DOMAIN queue, i > 1
        PROVE  held \cap ToSet(queue[i].txs) = {}
    <3>1. queue \in Seq(Job)
      BY <2>1 DEF TypeOK, ListTypeOK
    <3>2. CASE pc = "idle"
      BY <2>1, <3>2 DEF JobInv
    <3>3. CASE pc # "idle"
      <4>1. i - 1 \in DOMAIN Tail(queue) /\ Tail(queue)[i - 1] = queue[i]
        BY <2>5, <3>1
      <4>2. ToSet(queue[i].txs) \subseteq Behind
        BY <3>3, <4>1 DEF Behind, NotBegun, JobTxs
      <4> QED
        BY <2>1, <4>2 DEF SenderInv, AtFront
    <3> QED
      BY <3>2, <3>3
  <2> QED
    BY <2>2, <2>3, <2>4, <2>5 DEF OneSender
<1> QED
  BY <1>1, InvAlways, PTL

\* The outbox sorts in the order the application wrote, across restarts that
\* number anew (nextBatchIndex, seedBatchIndex, compareTransactions).
THEOREM OutboxAlwaysInWriteOrder == Spec => []OutboxKeepsWriteOrder
<1>1. Inv => OutboxKeepsWriteOrder
  BY DEF Inv, IndexInv
<1> QED
  BY <1>1, InvAlways, PTL

\* No write is lost: through every failure, race and restart a transaction
\* that was neither applied nor reported keeps a row a replay picks up.
THEOREM NothingIsEverLost == Spec => []NothingIsLost
<1>1. Inv => NothingIsLost
  BY DEF Inv, SettledInv
<1> QED
  BY <1>1, InvAlways, PTL

\* An acknowledged transaction waits for a cursor that is still to come: what
\* the persisted cursor has passed was confirmed or completed before the cursor
\* moved (confirmFromActions and completeUpToSyncId run before setMeta), and an
\* answer that comes late finds no row to mark.
THEOREM AwaitsAlwaysTheFuture == Spec => []AwaitsOnlyTheFuture
<1>1. Inv => AwaitsOnlyTheFuture
  <2> SUFFICES ASSUME Inv, NEW t \in Tx, rows[t] = "awaitingSync"
               PROVE  needed[t] > cursor
    BY DEF AwaitsOnlyTheFuture
  <2>1. cursor \in Nat /\ log \in Seq(Tx) /\ Len(log) \in Nat /\ DOMAIN log = 1 .. Len(log)
    BY DEF Inv, TypeOK, StorageTypeOK, ServerTypeOK
  <2>2. needed[t] \in DOMAIN log /\ log[needed[t]] = t
    BY DEF Inv, PassedInv, AwaitsItsId
  <2>3. \A id \in 1 .. cursor : rows[log[id]] = "none"
    BY DEF Inv, PassedInv, PassedIsGone
  <2>4. needed[t] \notin 1 .. cursor
    BY <2>2, <2>3
  <2> QED
    BY <2>1, <2>2, <2>4
<1> QED
  BY <1>1, InvAlways, PTL

\* What the manager keeps in memory agrees with the outbox: between jobs what
\* retryBacklog holds is unclaimed and queued on disk, or was removed by a
\* packet, and localClientTxIds names outstanding rows only.
THEOREM MemoryAlwaysAgrees == Spec => []MemoryAgreesWithOutbox
<1>1. Inv => MemoryAgreesWithOutbox
  <2> SUFFICES ASSUME Inv PROVE MemoryAgreesWithOutbox
    OBVIOUS
  <2>1. EchoIdsAreOutstanding
    BY DEF Inv, PassedInv
  <2>2. ASSUME pc = "idle", NEW t \in ToSet(backlog)
        PROVE  t \notin claimed /\ (rows[t] = "queued" \/ (rows[t] = "none" /\ t \in dropped \cup ToSet(log)))
    <3>1. t \notin claimed
      BY <2>2 DEF Inv, JobInv, SenderInv, AtFront
    <3>2. Owed(t) /\ rows[t] # "sent"
      BY <2>2 DEF Inv, OwedInv, AllOwed, RequeuedFirst, ToSend
    <3> QED
      BY <3>1, <3>2 DEF Owed
  <2> QED
    BY <2>1, <2>2 DEF MemoryAgreesWithOutbox, BacklogIsOwed
<1> QED
  BY <1>1, InvAlways, PTL

\* An acknowledged transaction never goes back to "queued" or "sent": whatever
\* a loop of the running job writes, it writes for a transaction still owed, so
\* "the second send regresses an acked transaction" cannot come about.
THEOREM AckedNeverGoesBack == Spec => AckedNeverRegresses
<1> DEFINE A == \A t \in Tx : rows[t] = "awaitingSync" => rows'[t] \in {"awaitingSync", "none"}
<1>1. Inv /\ [Next]_vars => [A]_vars
  BY AckedStays
<1> QED
  BY <1>1, InvAlways, PTL DEF Spec, AckedNeverRegresses

-----------------------------------------------------------------------------
(* What a discard names is settled, and not behind the running job *)

\* Without conflicts a discard names what is applied, or refused, and what is
\* pending keeps its claim.
LEMMA DiscardsAreSettled ==
  ASSUME Inv, OrderAssumption, OnlyMalformedIsRefused, BehindIsNew,
         \/ RebaseRead \/ LoserRemoved \/ ConfirmRead \/ CompleteRead
         \/ SettledRemoved \/ Refuse
  PROVE  /\ UNCHANGED <<pending, claimed, dropped>>
         /\ discarded' \subseteq discarded \cup ToSet(log) \cup reported'
<1> USE DEF vars, storageVars, listVars, claimVars, indexVars, jobVars,
            serverVars, pktVars, historyVars
<1>1. /\ pending \in Seq(Tx) /\ claimed \subseteq Tx /\ discarded \subseteq Tx
      /\ ToSet(pending) \subseteq Behind
  BY DEF Inv, TypeOK, ListTypeOK, ClaimTypeOK, Behind
<1>2. ASSUME NEW t \in Tx, t \notin Behind, DiscardFromMemory(t)
      PROVE  /\ UNCHANGED <<pending, claimed>>
             /\ discarded' \subseteq discarded \cup {t}
  <2>1. t \notin ToSet(pending)
    BY <1>1, <1>2
  <2>2. Without(pending, {t}) = pending
    BY <1>1, <2>1, WithoutKeepsTheRest
  <2> QED
    BY <2>1, <2>2, <1>2 DEF DiscardFromMemory
<1>3. ASSUME NEW t \in ToSet(log), DiscardFromMemory(t)
      PROVE  /\ UNCHANGED <<pending, claimed>>
             /\ discarded' \subseteq discarded \cup ToSet(log)
  <2>1. t \in Tx /\ t \notin Behind
    BY DEF BehindIsNew, Known, Inv, TypeOK, ServerTypeOK, ToSet
  <2> QED
    BY <1>2, <1>3, <2>1
<1>4. \A t, rest : BeginDiscard(t, rest) => DiscardFromMemory(t)
  BY DEF BeginDiscard
<1>5. \A next : NothingToDiscard(next) => UNCHANGED <<pending, claimed, discarded>>
  BY DEF NothingToDiscard
<1>6. CASE RebaseRead
  <2>1. PICK losers \in SUBSET ({t \in Tx : rows[t] = "queued"} \ Echoed(pktUpTo)) :
          /\ Cardinality(losers) <= MaxConflicts
          /\ \/ losers = {} /\ NothingToDiscard("applied") /\ UNCHANGED dropped
             \/ \E t \in losers : TRUE
    BY <1>6 DEF RebaseRead
  <2>2. IsFiniteSet(losers)
    <3>1. IsFiniteSet(Tx)
      BY FS_Interval, OutboxAssumption DEF Tx
    <3> QED
      BY <3>1, FS_Subset
  <2>3. Cardinality(losers) \in Nat
    BY <2>2, FS_CardinalityType
  <2>4. losers = {}
    <3>1. Cardinality(losers) = 0
      BY <2>1, <2>3 DEF OrderAssumption
    <3> QED
      BY <2>2, <3>1, FS_EmptySet
  <2> QED
    BY <1>5, <2>1, <2>4
<1>7. CASE LoserRemoved
  BY <1>7 DEF LoserRemoved, OnlyMalformedIsRefused
<1>8. CASE ConfirmRead
  <2>1. \/ NothingToDiscard("confirmed")
        \/ \E t \in Echoed(pktUpTo) : DiscardFromMemory(t)
    BY <1>8, <1>4 DEF ConfirmRead
  <2>2. Echoed(pktUpTo) \subseteq ToSet(log)
    BY EchoedIsApplied DEF Inv, SettledInv, CursorsAreInTheLog, TypeOK, StorageTypeOK, ServerTypeOK, PacketTypeOK
  <2>3. dropped' = dropped
    BY <1>8 DEF ConfirmRead
  <2> QED
    BY <1>3, <1>5, <2>1, <2>2, <2>3
<1>9. CASE CompleteRead
  <2>1. \/ NothingToDiscard("commit")
        \/ \E t \in Tx : rows[t] = "awaitingSync" /\ DiscardFromMemory(t)
    BY <1>9, <1>4 DEF CompleteRead
  <2>2. \A t \in Tx : rows[t] = "awaitingSync" => t \in ToSet(log)
    BY DEF Inv, PassedInv, AwaitsItsId, ToSet
  <2>3. dropped' = dropped
    BY <1>9 DEF CompleteRead
  <2> QED
    BY <1>3, <1>5, <2>1, <2>2, <2>3
<1>10. CASE SettledRemoved
  <2>1. \/ \E next : NothingToDiscard(next)
        \/ \E t \in pktTodo : DiscardFromMemory(t)
    BY <1>10, <1>4 DEF SettledRemoved
  <2>2. pktTodo \subseteq ToSet(log)
    BY <1>10 DEF SettledRemoved, Inv, PassedInv, PacketKnows
  <2>3. dropped' = dropped
    BY <1>10 DEF SettledRemoved
  <2> QED
    BY <1>3, <1>5, <2>1, <2>2, <2>3
<1>11. CASE Refuse
  <2>1. /\ pc \in {"results", "invalid"} /\ DiscardFromMemory(Head(todo)) /\ dropped' = dropped
        /\ reported' = reported \cup {Head(todo)}
    BY <1>11 DEF Refuse
  <2>2. todo \in Seq(Tx) /\ todo # <<>>
    BY <2>1 DEF Inv, JobInv, Loops, TypeOK, JobTypeOK
  <2>3. Head(todo) \in Tx /\ Head(todo) \in ToSet(batch)
    BY <2>1, <2>2, HeadAndTail DEF Inv, TodoInv
  <2>4. Head(todo) \notin Behind
    BY <2>3 DEF Inv, SenderInv, AtFront
  <2> QED
    BY <1>2, <2>1, <2>3, <2>4
<1> QED
  BY <1>6, <1>7, <1>8, <1>9, <1>10, <1>11

-----------------------------------------------------------------------------
(* OnlyMalformedIsRefused: a server that rejects nothing, and packets without *)
(* conflicts, leave only the refusal of a malformed batch                     *)

\* The server answers every transaction "ok", having applied it.
LEMMA ServerAppliesEach ==
  ASSUME log \in Seq(Tx), OrderAssumption, NEW t \in Tx, NEW outcome \in ServerOutcome(t)
  PROVE  /\ outcome[1] = "ok"
         /\ t \in ToSet(log) => outcome[2] = log
         /\ t \notin ToSet(log) => outcome[2] = Append(log, t)
         /\ outcome[2] \in Seq(Tx)
         /\ ToSet(outcome[2]) = ToSet(log) \cup {t}
<1>1. Append(log, t) \in Seq(Tx) /\ ToSet(Append(log, t)) = ToSet(log) \cup {t}
  BY AppendLists
<1>2. CASE t \in ToSet(log)
  <2>1. outcome = <<"ok", log>>
    BY <1>2 DEF ServerOutcome
  <2> QED
    BY <1>2, <2>1
<1>3. CASE t \notin ToSet(log)
  <2>1. outcome = <<"ok", Append(log, t)>>
    BY <1>3 DEF ServerOutcome, OrderAssumption
  <2> QED
    BY <1>1, <1>3, <2>1
<1> QED
  BY <1>2, <1>3

\* Nothing settled is forgotten.
LEMMA SettledStays ==
  ASSUME Inv, OrderAssumption, [Next]_vars
  PROVE  /\ ToSet(log) \subseteq ToSet(log') /\ dropped \subseteq dropped'
         /\ reported \subseteq reported' /\ Settled \subseteq Settled'
<1> USE DEF vars, storageVars, listVars, claimVars, indexVars, jobVars,
            serverVars, pktVars, historyVars
<1>1. CASE ServerTakesNext
  <2>1. /\ request # <<>>
        /\ \E outcome \in ServerOutcome(Head(request)) : log' = outcome[2]
        /\ UNCHANGED <<dropped, reported>>
    BY <1>1 DEF ServerTakesNext
  <2>2. request \in Seq(Tx) /\ log \in Seq(Tx)
    BY DEF Inv, TypeOK, ServerTypeOK
  <2> QED
    BY <2>1, <2>2, HeadAndTail, ServerAppliesEach DEF Settled
<1>2. CASE ServerTakesLate
  <2>1. PICK r \in late :
          /\ \E outcome \in ServerOutcome(Head(r)) : log' = outcome[2]
          /\ UNCHANGED <<dropped, reported>>
    BY <1>2 DEF ServerTakesLate
  <2>2. r \in Seq(Tx) /\ log \in Seq(Tx) /\ r # <<>>
    BY DEF Inv, TypeOK, ServerTypeOK, JobInv
  <2> QED
    BY <2>1, <2>2, HeadAndTail, ServerAppliesEach DEF Settled
<1>3. CASE ~ServerTakesNext /\ ~ServerTakesLate
  <2>1. log' = log /\ dropped \subseteq dropped' /\ reported \subseteq reported'
    BY <1>3 DEF Next, RunJob, ApplyPacket, QueueTransaction, BatchTimerFires, DrainStart,
       StartSendJob, StartReplayJob, OutboxRead, ResetSent, MarkSent, Requeue, ReplyArrives,
       Acknowledge, Refuse, RefusedRemoved, CulpritRemoved, Restore, EndSend,
       TransportFails, BatchRefused, PacketArrives, RebaseRead, LoserRemoved, ReadOutbox,
       ConfirmRead, CompleteRead, SettledRemoved, CommitPacket, Restart
  <2> QED
    BY <2>1 DEF Settled
<1> QED
  BY <1>1, <1>2, <1>3

\* Every step preserves it.
LEMMA RefusalStep ==
  ASSUME Inv, Inv', OrderAssumption, OnlyMalformedIsRefused, BehindIsNew, [Next]_vars
  PROVE  OnlyMalformedIsRefused'
<1> USE DEF vars, storageVars, listVars, claimVars, indexVars, jobVars,
            serverVars, pktVars, historyVars
<1>1. /\ request \in Seq(Tx) /\ log \in Seq(Tx) /\ todo \in Seq(Tx) /\ verdict \in [Tx -> {"none", "ok", "refused"}]
      /\ late \subseteq Seq(Tx) /\ <<>> \notin late
  BY DEF Inv, TypeOK, ServerTypeOK, JobTypeOK, JobInv
<1>2. ToSet(log) \subseteq ToSet(log') /\ reported \subseteq reported' /\ Settled \subseteq Settled'
  BY SettledStays
<1>3. ASSUME UNCHANGED <<dropped, discarded, reported, log, verdict>>,
             pktPc' = "rebase" => pktPc = "rebase",
             pc' \notin {"removing", "invalid", "evicting"}
      PROVE  OnlyMalformedIsRefused'
  BY <1>2, <1>3 DEF OnlyMalformedIsRefused
<1>4. ASSUME UNCHANGED <<dropped, reported, log, verdict, pc, todo>>,
             discarded' \subseteq Settled', pktPc' # "rebase"
      PROVE  OnlyMalformedIsRefused'
  BY <1>4 DEF OnlyMalformedIsRefused
<1>5. CASE \/ StartSendJob \/ StartReplayJob \/ OutboxRead \/ ResetSent
           \/ Requeue \/ ReplyArrives \/ Acknowledge
           \/ CulpritRemoved \/ TransportFails \/ Restore
  <2>1. UNCHANGED <<dropped, discarded, reported, log, verdict, pktPc>>
    BY <1>5 DEF StartSendJob, StartReplayJob, OutboxRead, ResetSent, Requeue, ReplyArrives,
       Acknowledge, CulpritRemoved, TransportFails, Restore
  <2>2. pc' \notin {"removing", "invalid", "evicting"}
    BY <1>5 DEF StartSendJob, StartReplayJob, OutboxRead, ResetSent, Requeue, ReplyArrives,
       Acknowledge, CulpritRemoved, TransportFails, Restore, SendSlice, SendBatch, NextResult
  <2> QED
    BY <1>3, <2>1, <2>2
<1>6. CASE QueueTransaction \/ BatchTimerFires \/ DrainStart \/ PacketArrives
           \/ ReadOutbox \/ CommitPacket \/ UNCHANGED vars
  <2>1. UNCHANGED <<dropped, discarded, reported, log, verdict, pc, todo>>
    BY <1>6 DEF QueueTransaction, BatchTimerFires, DrainStart, PacketArrives, ReadOutbox,
       CommitPacket
  <2>2. pktPc' # "rebase"
    BY <1>6 DEF QueueTransaction, BatchTimerFires, DrainStart, PacketArrives, ReadOutbox,
       CommitPacket, OnlyMalformedIsRefused
  <2>3. discarded' \subseteq Settled'
    BY <1>2, <2>1 DEF OnlyMalformedIsRefused
  <2> QED
    BY <1>4, <2>1, <2>2, <2>3
<1>7. CASE \/ RebaseRead \/ LoserRemoved \/ ConfirmRead \/ CompleteRead \/ SettledRemoved
  <2>1. UNCHANGED <<reported, log, verdict, pc, todo>>
    BY <1>7 DEF RebaseRead, LoserRemoved, ConfirmRead, CompleteRead, SettledRemoved
  <2>2. dropped' = dropped /\ discarded' \subseteq discarded \cup ToSet(log) \cup reported'
    BY <1>7, DiscardsAreSettled
  <2>3. discarded' \subseteq Settled'
    BY <1>2, <2>1, <2>2 DEF OnlyMalformedIsRefused, Settled
  <2>4. pktPc' # "rebase"
    <3>1. CASE RebaseRead
      <4>1. PacketKnows'
        BY DEF Inv, PassedInv
      <4> QED
        BY <2>2, <4>1 DEF PacketKnows, OnlyMalformedIsRefused
    <3>2. CASE ~RebaseRead
      BY <1>7, <3>2 DEF LoserRemoved, ConfirmRead, CompleteRead, SettledRemoved, NothingToDiscard,
         OnlyMalformedIsRefused
    <3> QED
      BY <3>1, <3>2
  <2> QED
    BY <1>4, <2>1, <2>2, <2>3, <2>4
<1>8. CASE MarkSent
  <2>1. UNCHANGED <<dropped, discarded, reported, log, pktPc>>
    BY <1>8 DEF MarkSent
  <2>2. pc' \notin {"removing", "invalid", "evicting"}
    BY <1>8 DEF MarkSent
  <2>3. \A t \in Tx : verdict'[t] # "refused"
    BY <1>8 DEF MarkSent, OnlyMalformedIsRefused
  <2> QED
    BY <1>2, <2>1, <2>2, <2>3 DEF OnlyMalformedIsRefused
<1>9. CASE EndSend
  <2>1. /\ discarded' = discarded \ held /\ verdict' = [t \in Tx |-> "none"]
        /\ UNCHANGED <<dropped, reported, log, pktPc>>
    BY <1>9 DEF EndSend
  <2>2. pc' \notin {"removing", "invalid", "evicting"}
    BY <1>9 DEF EndSend, FinishJob, SendSlice, SendBatch
  <2>3. \A t \in Tx : verdict'[t] # "refused"
    BY <2>1
  <2> QED
    BY <1>2, <2>1, <2>2, <2>3 DEF OnlyMalformedIsRefused
<1>10. CASE Refuse
  <2>1. /\ pc \in {"results", "invalid"}
        /\ pc = "results" => verdict[Head(todo)] = "refused"
        /\ pc' = IF pc = "results" THEN "removing" ELSE "evicting"
        /\ reported' = reported \cup {Head(todo)}
        /\ UNCHANGED <<todo, log, verdict, pktPc>>
    BY <1>10 DEF Refuse
  <2>2. todo # <<>> /\ Head(todo) \in Tx
    BY <1>1, <2>1, HeadAndTail DEF Inv, JobInv, Loops
  <2>3. pc = "invalid" /\ pc' = "evicting"
    BY <2>1, <2>2 DEF OnlyMalformedIsRefused
  <2>4. Len(todo) = 1 /\ Head(todo) \in Malformed
    BY <2>3 DEF OnlyMalformedIsRefused
  <2>5. dropped' = dropped /\ discarded' \subseteq discarded \cup ToSet(log) \cup reported'
    BY <1>10, DiscardsAreSettled
  <2>6. discarded' \subseteq Settled'
    BY <1>2, <2>1, <2>5 DEF OnlyMalformedIsRefused, Settled
  <2> QED
    BY <2>1, <2>3, <2>4, <2>5, <2>6 DEF OnlyMalformedIsRefused
<1>11. CASE RefusedRemoved
  BY <1>11 DEF RefusedRemoved, OnlyMalformedIsRefused
<1>12. CASE BatchRefused
  <2>1. /\ \E t \in ToSet(request) \cap Malformed : todo' = <<t>>
        /\ pc' = "invalid"
        /\ UNCHANGED <<dropped, discarded, reported, log, verdict, pktPc>>
    BY <1>12 DEF BatchRefused
  <2>2. Len(todo') = 1 /\ Head(todo') \in Malformed
    BY <2>1
  <2> QED
    BY <1>2, <2>1, <2>2 DEF OnlyMalformedIsRefused
<1>13. CASE ServerTakesNext
  <2>1. PICK outcome \in ServerOutcome(Head(request)) :
          /\ request # <<>> /\ ToSet(request) \cap Malformed = {}
          /\ verdict' = [verdict EXCEPT ![Head(request)] = outcome[1]]
          /\ log' = outcome[2]
          /\ UNCHANGED <<dropped, discarded, reported, pc, todo, pktPc>>
    BY <1>13 DEF ServerTakesNext
  <2>2. Head(request) \in Tx /\ Head(request) \in ToSet(request)
    BY <1>1, <2>1, HeadAndTail
  <2>3. outcome[1] = "ok" /\ ToSet(log') = ToSet(log) \cup {Head(request)}
    BY <1>1, <2>1, <2>2, ServerAppliesEach
  <2>4. \A t \in Tx : verdict'[t] # "refused"
    BY <1>1, <2>1, <2>2, <2>3 DEF OnlyMalformedIsRefused
  <2>5. ToSet(log') \cap Malformed = {}
    BY <2>1, <2>2, <2>3 DEF OnlyMalformedIsRefused
  <2>6. discarded' \subseteq Settled'
    BY <1>2, <2>1 DEF OnlyMalformedIsRefused
  <2> QED
    BY <2>1, <2>4, <2>5, <2>6 DEF OnlyMalformedIsRefused
<1>14. CASE ServerTakesLate
  <2>1. PICK r \in late :
          /\ ToSet(r) \cap Malformed = {}
          /\ \E outcome \in ServerOutcome(Head(r)) : log' = outcome[2]
          /\ UNCHANGED <<dropped, discarded, reported, pc, todo, pktPc, verdict>>
    BY <1>14 DEF ServerTakesLate
  <2>2. Head(r) \in Tx /\ Head(r) \in ToSet(r)
    BY <1>1, <2>1, HeadAndTail
  <2>3. ToSet(log') = ToSet(log) \cup {Head(r)}
    BY <1>1, <2>1, <2>2, ServerAppliesEach
  <2>4. ToSet(log') \cap Malformed = {}
    BY <2>1, <2>2, <2>3 DEF OnlyMalformedIsRefused
  <2>5. discarded' \subseteq Settled'
    BY <1>2, <2>1 DEF OnlyMalformedIsRefused
  <2> QED
    BY <2>1, <2>4, <2>5 DEF OnlyMalformedIsRefused
<1>15. CASE Restart
  <2>1. /\ discarded' = {} /\ pc' = "idle" /\ pktPc' = "confirmed"
        /\ UNCHANGED <<dropped, reported, log>>
    BY <1>15 DEF Restart
  <2>2. \A t \in Tx : verdict'[t] # "refused"
    BY <1>15 DEF Restart
  <2>3. discarded' \subseteq Settled'
    BY <2>1
  <2> QED
    BY <2>1, <2>2, <2>3 DEF OnlyMalformedIsRefused
<1> QED
  BY <1>5, <1>6, <1>7, <1>8, <1>9, <1>10, <1>11, <1>12, <1>13, <1>14, <1>15
     DEF Next, RunJob, ApplyPacket

-----------------------------------------------------------------------------
(* What is behind the running job: it grows at its end with each new         *)
(* transaction and shrinks from its front when a job begins                  *)

\* A job joins the queue, and so what is behind the running job.
LEMMA JobJoinsBehind ==
  ASSUME TypeOK, JobInv, NEW j \in Job, queue' = Append(queue, j), pc' = pc
  PROVE  NotBegun' = Append(NotBegun, j)
<1>1. queue \in Seq(Job)
  BY DEF TypeOK, ListTypeOK
<1>2. CASE pc = "idle"
  BY <1>2 DEF NotBegun
<1>3. CASE pc # "idle"
  <2>1. queue # <<>>
    BY <1>3 DEF JobInv
  <2> QED
    BY <1>1, <1>3, <2>1, HeadOfAppend DEF NotBegun
<1> QED
  BY <1>2, <1>3

\* All the ways in which it changes.
LEMMA BehindMoves ==
  ASSUME Inv, Inv', OrderAssumption, OnlyMalformedIsRefused, BehindIsNew, [Next]_vars
  PROVE  \/ /\ made' = made
            /\ \/ pending' = <<>> /\ NotBegun' = <<>>
               \/ pending' = pending /\ NotBegun' = NotBegun
               \/ pending' = pending /\ NotBegun # <<>> /\ NotBegun' = Tail(NotBegun)
               \/ /\ pending' = pending
                  /\ \E j \in Job : j.txs = <<>> /\ NotBegun' = Append(NotBegun, j)
               \/ /\ pending' = <<>>
                  /\ \E j \in Job : j.txs = pending /\ NotBegun' = Append(NotBegun, j)
         \/ /\ made' = made + 1 /\ made + 1 \in Tx
            /\ \/ pending' = Append(pending, made + 1) /\ NotBegun' = NotBegun
               \/ /\ pending' = <<>>
                  /\ \E j \in Job : j.txs = Append(pending, made + 1) /\ NotBegun' = Append(NotBegun, j)
<1> USE DEF vars, storageVars, listVars, claimVars, indexVars, jobVars,
            serverVars, pktVars, historyVars
<1>1. TypeOK /\ JobInv /\ queue \in Seq(Job) /\ pending \in Seq(Tx)
  BY DEF Inv, TypeOK, ListTypeOK
<1>2. ASSUME UNCHANGED <<made, pending, queue>>, pc = "idle" <=> pc' = "idle"
      PROVE  made' = made /\ pending' = pending /\ NotBegun' = NotBegun
  BY <1>2 DEF NotBegun
<1>3. CASE QueueTransaction
  <2> DEFINE t == made + 1
             j == [kind |-> "send", txs |-> Append(pending, t)]
  <2>1. made' = t /\ t \in Tx /\ pc' = pc
    BY <1>3, OutboxAssumption DEF QueueTransaction, Inv, TypeOK, HistoryTypeOK, Tx
  <2>2. Append(pending, t) \in Seq(Tx)
    BY <1>1, <2>1, AppendLists
  <2>3. CASE Len(pending) + 1 >= MaxBatchSize
    <3>1. pending' = <<>> /\ queue' = Append(queue, j)
      BY <1>3, <2>3 DEF QueueTransaction
    <3>2. j \in Job /\ j.txs = Append(pending, t)
      BY <2>2 DEF Job
    <3> HIDE DEF j
    <3>3. NotBegun' = Append(NotBegun, j)
      BY <1>1, <2>1, <3>1, <3>2, JobJoinsBehind
    <3> QED
      BY <2>1, <3>1, <3>2, <3>3
  <2>4. CASE ~(Len(pending) + 1 >= MaxBatchSize)
    <3>1. pending' = Append(pending, t) /\ queue' = queue
      BY <1>3, <2>4 DEF QueueTransaction
    <3> QED
      BY <2>1, <3>1 DEF NotBegun
  <2> QED
    BY <2>3, <2>4
<1>4. CASE BatchTimerFires \/ DrainStart
  <2>1. pending' = <<>> /\ UNCHANGED <<pc, made>>
    BY <1>4 DEF BatchTimerFires, DrainStart
  <2>2. \/ pending = <<>> /\ UNCHANGED <<queue, claimed>>
        \/ \E kind \in {"send", "flush", "replay"} : Dispatch(kind, pending)
    BY <1>4 DEF BatchTimerFires, DrainStart
  <2>3. CASE pending = <<>> /\ UNCHANGED <<queue, claimed>>
    BY <1>2, <2>1, <2>3
  <2>4. CASE \E kind \in {"send", "flush", "replay"} : Dispatch(kind, pending)
    <3>1. PICK kind \in {"send", "flush", "replay"} : Dispatch(kind, pending)
      BY <2>4
    <3> DEFINE j == [kind |-> kind, txs |-> pending]
    <3>2. j \in Job /\ j.txs = pending /\ queue' = Append(queue, j)
      BY <1>1, <3>1 DEF Job, Dispatch
    <3> HIDE DEF j
    <3>3. NotBegun' = Append(NotBegun, j)
      BY <1>1, <2>1, <3>2, JobJoinsBehind
    <3> QED
      BY <2>1, <3>2, <3>3
  <2> QED
    BY <2>2, <2>3, <2>4
<1>5. CASE StartSendJob \/ StartReplayJob
  <2>1. pc = "idle" /\ queue # <<>> /\ UNCHANGED <<pending, queue, made>> /\ pc' # "idle"
    BY <1>5 DEF StartSendJob, StartReplayJob, SendBatch
  <2> QED
    BY <2>1 DEF NotBegun
<1>6. CASE EndSend
  <2>1. pc = "ended" /\ UNCHANGED <<pending, made>>
    BY <1>6 DEF EndSend
  <2>2. CASE replay # <<>> /\ ~failed
    <3>1. SendSlice(replay, backlog) /\ UNCHANGED queue
      BY <1>6, <2>2 DEF EndSend
    <3>2. pc' # "idle"
      BY <3>1 DEF SendSlice, SendBatch
    <3> QED
      BY <1>2, <2>1, <3>1, <3>2
  <2>3. CASE ~(replay # <<>> /\ ~failed)
    <3> DEFINE j == [kind |-> "replay", txs |-> <<>>]
    <3>1. FinishJob /\ queue # <<>> /\ j \in Job /\ j.txs = <<>>
      BY <1>1, <1>6, <2>1, <2>3, EmptySeq DEF EndSend, JobInv, Job
    <3>2. pc' = "idle" /\ (queue' = Tail(queue) \/ queue' = Append(Tail(queue), j))
      BY <1>1, <3>1, FinishJobEffect
    <3> HIDE DEF j
    <3>3. NotBegun' = NotBegun \/ NotBegun' = Append(NotBegun, j)
      BY <2>1, <3>2 DEF NotBegun
    <3> QED
      BY <2>1, <3>1, <3>3
  <2> QED
    BY <2>2, <2>3
<1>7. CASE Restart
  <2>1. pending' = <<>> /\ queue' = <<>> /\ pc' = "idle" /\ made' = made
    BY <1>7 DEF Restart
  <2> QED
    BY <2>1 DEF NotBegun
<1>8. CASE \/ RebaseRead \/ LoserRemoved \/ ConfirmRead \/ CompleteRead
           \/ SettledRemoved \/ Refuse
  <2>1. pending' = pending
    BY <1>8, DiscardsAreSettled
  <2>2. UNCHANGED <<queue, made>> /\ (pc = "idle" <=> pc' = "idle")
    BY <1>8 DEF RebaseRead, LoserRemoved, ConfirmRead, CompleteRead, SettledRemoved, Refuse
  <2> QED
    BY <1>2, <2>1, <2>2
<1>9. CASE \/ OutboxRead \/ ResetSent \/ MarkSent \/ Requeue \/ ReplyArrives \/ Acknowledge
           \/ RefusedRemoved \/ CulpritRemoved \/ Restore \/ TransportFails \/ BatchRefused
  <2>1. UNCHANGED <<queue, pending, made>> /\ pc # "idle" /\ pc' # "idle"
    BY <1>9 DEF OutboxRead, ResetSent, MarkSent, Requeue, ReplyArrives, Acknowledge, RefusedRemoved,
       CulpritRemoved, Restore, TransportFails, BatchRefused, SendSlice, SendBatch, NextResult
  <2> QED
    BY <1>2, <2>1
<1>10. CASE ServerTakesNext \/ ServerTakesLate \/ PacketArrives \/ ReadOutbox \/ CommitPacket
            \/ UNCHANGED vars
  <2>1. UNCHANGED <<queue, pending, made, pc>>
    BY <1>10 DEF ServerTakesNext, ServerTakesLate, PacketArrives, ReadOutbox, CommitPacket
  <2> QED
    BY <1>2, <2>1
<1> QED
  BY <1>3, <1>4, <1>5, <1>6, <1>7, <1>8, <1>9, <1>10 DEF Next, RunJob, ApplyPacket

-----------------------------------------------------------------------------
(* BehindIsLast and JobsAscend *)

\* A job begins.
LEMMA LineTail ==
  ASSUME NEW p \in Seq(Tx), NEW q \in Seq(Job), q # <<>>, LineAscends(p, q)
  PROVE  /\ LineAscends(p, Tail(q)) /\ Ascending(Head(q).txs)
         /\ \A t \in ToSet(Head(q).txs) : \A u \in JobTxs(Tail(q)) \cup ToSet(p) : t < u
<1>1. /\ Len(q) \in Nat /\ Len(q) > 0 /\ DOMAIN q = 1 .. Len(q) /\ Head(q) = q[1]
      /\ DOMAIN Tail(q) = 1 .. Len(q) - 1
      /\ \A i \in 1 .. Len(q) - 1 : Tail(q)[i] = q[i + 1]
  OBVIOUS
<1>2. /\ \A i \in 1 .. Len(q) - 1 : i + 1 \in 1 .. Len(q) /\ 1 < i + 1
      /\ \A i, j \in 1 .. Len(q) - 1 : i < j => i + 1 < j + 1
      /\ 1 \in 1 .. Len(q)
  BY <1>1
<1>3. JobTxs(q) = ToSet(Head(q).txs) \cup JobTxs(Tail(q))
  BY JobTxsTail
<1>4. \A i \in 1 .. Len(q) - 1 : Ascending(Tail(q)[i].txs)
  BY <1>1, <1>2 DEF LineAscends
<1>5. \A i, j \in 1 .. Len(q) - 1 : i < j =>
        \A t \in ToSet(Tail(q)[i].txs) : \A u \in ToSet(Tail(q)[j].txs) : t < u
  BY <1>1, <1>2 DEF LineAscends
<1>6. LineAscends(p, Tail(q))
  BY <1>1, <1>3, <1>4, <1>5 DEF LineAscends
<1>7. Ascending(Head(q).txs)
  BY <1>1, <1>2 DEF LineAscends
<1>8. \A i \in 1 .. Len(q) - 1 : \A t \in ToSet(Head(q).txs) : \A u \in ToSet(Tail(q)[i].txs) : t < u
  BY <1>1, <1>2 DEF LineAscends
<1>9. \A t \in ToSet(Head(q).txs) : \A u \in JobTxs(Tail(q)) : t < u
  BY <1>1, <1>8 DEF JobTxs
<1> QED
  BY <1>3, <1>6, <1>7, <1>9 DEF LineAscends

\* A job joins at the end.
LEMMA LineAppend ==
  ASSUME NEW p \in Seq(Tx), NEW q \in Seq(Job), NEW j \in Job, NEW rest \in Seq(Tx),
         LineAscends(p, q), Ascending(j.txs), Ascending(rest),
         \A t \in JobTxs(q) : \A u \in ToSet(j.txs) \cup ToSet(rest) : t < u,
         \A t \in ToSet(j.txs) : \A u \in ToSet(rest) : t < u
  PROVE  LineAscends(rest, Append(q, j))
<1>1. /\ Len(q) \in Nat /\ DOMAIN q = 1 .. Len(q)
      /\ DOMAIN Append(q, j) = 1 .. Len(q) + 1
      /\ Append(q, j)[Len(q) + 1] = j
      /\ \A i \in 1 .. Len(q) : Append(q, j)[i] = q[i]
  BY AppendProperties
<1>2. \A i \in 1 .. Len(q) + 1 : Ascending(Append(q, j)[i].txs)
  <2> TAKE i \in 1 .. Len(q) + 1
  <2>1. i \in 1 .. Len(q) \/ i = Len(q) + 1
    BY <1>1
  <2> QED
    BY <1>1, <2>1 DEF LineAscends
<1>3. \A i \in 1 .. Len(q) : ToSet(q[i].txs) \subseteq JobTxs(q)
  BY <1>1 DEF JobTxs
<1>4. ASSUME NEW i \in 1 .. Len(q) + 1, NEW k \in 1 .. Len(q) + 1, i < k
      PROVE  \A t \in ToSet(Append(q, j)[i].txs) : \A u \in ToSet(Append(q, j)[k].txs) : t < u
  <2>1. i \in 1 .. Len(q) /\ (k \in 1 .. Len(q) \/ k = Len(q) + 1)
    BY <1>1, <1>4
  <2>2. CASE k \in 1 .. Len(q)
    BY <1>1, <1>4, <2>1, <2>2 DEF LineAscends
  <2>3. CASE k = Len(q) + 1
    <3>1. Append(q, j)[i] = q[i] /\ Append(q, j)[k] = j
      BY <1>1, <2>1, <2>3
    <3> QED
      BY <1>3, <2>1, <3>1
  <2> QED
    BY <2>1, <2>2, <2>3
<1>5. JobTxs(Append(q, j)) = JobTxs(q) \cup ToSet(j.txs)
  BY JobTxsAppend
<1> QED
  BY <1>1, <1>2, <1>4, <1>5 DEF LineAscends

\* Every step preserves both.
LEMMA BehindStep ==
  ASSUME Inv, Inv', OrderAssumption, OnlyMalformedIsRefused, BehindIsNew,
         BehindIsLast, JobsAscend, [Next]_vars
  PROVE  BehindIsLast' /\ JobsAscend'
<1>1. /\ pending \in Seq(Tx) /\ NotBegun \in Seq(Job) /\ made \in Nat
      /\ Behind \subseteq 1 .. made /\ Tx \subseteq Nat /\ JobTxs(NotBegun) \subseteq Behind
      /\ ToSet(pending) \subseteq Behind
  <2>1. TypeOK /\ JobInv /\ SenderInv
    BY DEF Inv
  <2> QED
    BY <2>1, BehindIsQueued, OutboxAssumption
       DEF TypeOK, ListTypeOK, HistoryTypeOK, SenderInv, Tx, Behind
<1>2. LineAscends(pending, NotBegun) /\ Ascending(pending)
  BY DEF JobsAscend, LineAscends
<1>3. JobTxs(<<>>) = {} /\ ToSet(<<>>) = {} /\ Ascending(<<>>) /\ <<>> \in Seq(Tx)
  BY <1>1, <1>2, NoJobsNoTxs, ListsAscend, EmptySeq
<1>4. Behind' = ToSet(pending') \cup JobTxs(NotBegun')
  BY DEF Behind
<1>5. LineAscends(pending', NotBegun') => JobsAscend'
  BY DEF JobsAscend
<1>6. CASE made' = made /\ pending' = <<>> /\ NotBegun' = <<>>
  <2>1. LineAscends(<<>>, <<>>)
    BY <1>3 DEF LineAscends
  <2> QED
    BY <1>3, <1>4, <1>5, <1>6, <2>1 DEF BehindIsLast
<1>7. CASE made' = made /\ pending' = pending /\ NotBegun' = NotBegun
  <2>1. Behind' = Behind
    BY <1>4, <1>7 DEF Behind
  <2> QED
    BY <1>2, <1>5, <1>7, <2>1 DEF BehindIsLast
<1>8. CASE made' = made /\ pending' = pending /\ NotBegun # <<>> /\ NotBegun' = Tail(NotBegun)
  <2>1. /\ LineAscends(pending, Tail(NotBegun))
        /\ \A t \in ToSet(Head(NotBegun).txs) : \A u \in JobTxs(Tail(NotBegun)) \cup ToSet(pending) : t < u
    BY <1>1, <1>2, <1>8, LineTail
  <2>2. Behind = ToSet(Head(NotBegun).txs) \cup Behind'
    BY <1>1, <1>4, <1>8, JobTxsTail DEF Behind
  <2>3. BehindIsLast'
    BY <1>4, <1>8, <2>1, <2>2 DEF BehindIsLast
  <2> QED
    BY <1>5, <1>8, <2>1, <2>3
<1>9. CASE made' = made /\ pending' = pending /\ \E j \in Job : j.txs = <<>> /\ NotBegun' = Append(NotBegun, j)
  <2>1. PICK j \in Job : j.txs = <<>> /\ NotBegun' = Append(NotBegun, j)
    BY <1>9
  <2>2. JobTxs(NotBegun') = JobTxs(NotBegun)
    BY <1>1, <1>3, <2>1, JobTxsAppend
  <2>3. Behind' = Behind
    BY <1>4, <1>9, <2>2 DEF Behind
  <2>4. LineAscends(pending, Append(NotBegun, j))
    <3>1. \A t \in JobTxs(NotBegun) : \A u \in ToSet(j.txs) \cup ToSet(pending) : t < u
      BY <1>2, <1>3, <2>1 DEF LineAscends
    <3> QED
      BY <1>1, <1>2, <1>3, <2>1, <3>1, LineAppend
  <2> QED
    BY <1>5, <1>9, <2>1, <2>3, <2>4 DEF BehindIsLast
<1>10. CASE made' = made /\ pending' = <<>> /\ \E j \in Job : j.txs = pending /\ NotBegun' = Append(NotBegun, j)
  <2>1. PICK j \in Job : j.txs = pending /\ NotBegun' = Append(NotBegun, j)
    BY <1>10
  <2>2. JobTxs(NotBegun') = JobTxs(NotBegun) \cup ToSet(pending)
    BY <1>1, <2>1, JobTxsAppend
  <2>3. Behind' = Behind
    BY <1>3, <1>4, <1>10, <2>2 DEF Behind
  <2>4. LineAscends(<<>>, Append(NotBegun, j))
    <3>1. \A t \in JobTxs(NotBegun) : \A u \in ToSet(j.txs) \cup ToSet(<<>>) : t < u
      BY <1>2, <1>3, <2>1 DEF LineAscends
    <3> QED
      BY <1>1, <1>2, <1>3, <2>1, <3>1, LineAppend
  <2> QED
    BY <1>5, <1>10, <2>1, <2>3, <2>4 DEF BehindIsLast
<1>11. CASE made' = made + 1 /\ made + 1 \in Tx
  <2>1. /\ Append(pending, made + 1) \in Seq(Tx)
        /\ ToSet(Append(pending, made + 1)) = ToSet(pending) \cup {made + 1}
    BY <1>1, <1>11, AppendLists
  <2>2. \A t \in Behind : t < made + 1
    BY <1>1
  <2>3. Ascending(Append(pending, made + 1))
    BY <1>1, <1>2, <1>11, <2>2, ListsAscend
  <2>4. ASSUME Behind' = Behind \cup {made + 1}
        PROVE  BehindIsLast'
    <3>1. (1 .. made') \ Behind' \subseteq (1 .. made) \ Behind
      BY <1>1, <1>11, <2>4
    <3>2. \A t \in (1 .. made) \ Behind : t < made + 1
      BY <1>1
    <3> QED
      BY <2>4, <3>1, <3>2 DEF BehindIsLast
  <2>5. CASE pending' = Append(pending, made + 1) /\ NotBegun' = NotBegun
    <3>1. Behind' = Behind \cup {made + 1}
      BY <1>4, <2>1, <2>5 DEF Behind
    <3>2. \A t \in JobTxs(NotBegun) : \A u \in ToSet(Append(pending, made + 1)) : t < u
      BY <1>1, <1>2, <2>1, <2>2 DEF LineAscends
    <3>3. LineAscends(Append(pending, made + 1), NotBegun)
      BY <1>2, <2>3, <3>2 DEF LineAscends
    <3> QED
      BY <1>5, <2>4, <2>5, <3>1, <3>3
  <2>6. CASE /\ pending' = <<>>
             /\ \E j \in Job : j.txs = Append(pending, made + 1) /\ NotBegun' = Append(NotBegun, j)
    <3>1. PICK j \in Job : j.txs = Append(pending, made + 1) /\ NotBegun' = Append(NotBegun, j)
      BY <2>6
    <3>2. JobTxs(NotBegun') = JobTxs(NotBegun) \cup ToSet(pending) \cup {made + 1}
      BY ZenonT(30), <1>1, <2>1, <3>1, JobTxsAppend
    <3>3. Behind' = Behind \cup {made + 1}
      BY <1>3, <1>4, <2>6, <3>2 DEF Behind
    <3>4. LineAscends(<<>>, Append(NotBegun, j))
      <4>1. \A t \in JobTxs(NotBegun) : \A u \in ToSet(j.txs) \cup ToSet(<<>>) : t < u
        BY <1>1, <1>2, <1>3, <2>1, <2>2, <3>1 DEF LineAscends
      <4> QED
        BY <1>1, <1>2, <1>3, <2>3, <3>1, <4>1, LineAppend
    <3> QED
      BY <1>5, <2>4, <2>6, <3>1, <3>3, <3>4
  <2> QED
    BY <1>11, <2>5, <2>6, BehindMoves, <1>1
<1> QED
  BY <1>6, <1>7, <1>8, <1>9, <1>10, <1>11, BehindMoves

-----------------------------------------------------------------------------
(* BehindIsNew *)

\* Only a new transaction comes to stand behind the running job.
LEMMA BehindGrows ==
  ASSUME Inv, Inv', OrderAssumption, OnlyMalformedIsRefused, BehindIsNew, [Next]_vars
  PROVE  /\ made \in Nat
         /\ \/ made' = made /\ Behind' \subseteq Behind
            \/ made' = made + 1 /\ Behind' = Behind \cup {made + 1}
<1>1. /\ pending \in Seq(Tx) /\ NotBegun \in Seq(Job) /\ made \in Nat
  <2>1. TypeOK /\ JobInv
    BY DEF Inv
  <2> QED
    BY <2>1, BehindIsQueued, OutboxAssumption DEF TypeOK, ListTypeOK, HistoryTypeOK
<1>2. JobTxs(<<>>) = {} /\ ToSet(<<>>) = {}
  BY NoJobsNoTxs
<1>3. /\ Behind' = ToSet(pending') \cup JobTxs(NotBegun')
      /\ Behind = ToSet(pending) \cup JobTxs(NotBegun)
  BY DEF Behind
<1>4. CASE made' = made
  <2>1. \/ pending' = <<>> /\ NotBegun' = <<>>
        \/ pending' = pending /\ NotBegun' = NotBegun
        \/ pending' = pending /\ NotBegun # <<>> /\ NotBegun' = Tail(NotBegun)
        \/ pending' = pending /\ \E j \in Job : j.txs = <<>> /\ NotBegun' = Append(NotBegun, j)
        \/ pending' = <<>> /\ \E j \in Job : j.txs = pending /\ NotBegun' = Append(NotBegun, j)
    BY <1>1, <1>4, BehindMoves
  <2>2. \A j \in Job : JobTxs(Append(NotBegun, j)) = JobTxs(NotBegun) \cup ToSet(j.txs)
    BY <1>1, JobTxsAppend
  <2>3. NotBegun # <<>> => JobTxs(Tail(NotBegun)) \subseteq JobTxs(NotBegun)
    BY <1>1, JobTxsTail
  <2> QED
    BY <1>1, <1>2, <1>3, <1>4, <2>1, <2>2, <2>3
<1>5. CASE made' # made
  <2>1. /\ made' = made + 1 /\ made + 1 \in Tx
        /\ \/ pending' = Append(pending, made + 1) /\ NotBegun' = NotBegun
           \/ /\ pending' = <<>>
              /\ \E j \in Job : j.txs = Append(pending, made + 1) /\ NotBegun' = Append(NotBegun, j)
    BY <1>5, BehindMoves
  <2>2. ToSet(Append(pending, made + 1)) = ToSet(pending) \cup {made + 1}
    BY <1>1, <2>1, AppendLists
  <2>3. \A j \in Job : JobTxs(Append(NotBegun, j)) = JobTxs(NotBegun) \cup ToSet(j.txs)
    BY <1>1, JobTxsAppend
  <2> QED
    BY <1>1, <1>2, <1>3, <2>1, <2>2, <2>3
<1> QED
  BY <1>4, <1>5

\* Only a job that has begun sends.
LEMMA KnownGrows ==
  ASSUME Inv, OrderAssumption, [Next]_vars
  PROVE  /\ Known' \subseteq Known \cup held
         /\ made' = made + 1 => Known' = Known
<1> USE DEF vars, storageVars, listVars, claimVars, indexVars, jobVars,
            serverVars, pktVars, historyVars
<1>1. /\ request \in Seq(Tx) /\ log \in Seq(Tx) /\ batch \in Seq(Tx) /\ made \in Nat
      /\ late \subseteq Seq(Tx) /\ <<>> \notin late /\ ToSet(batch) \subseteq held
  BY OutboxAssumption DEF Inv, TypeOK, ServerTypeOK, JobTypeOK, HistoryTypeOK, JobInv, SenderInv
<1>2. ToSet(<<>>) = {}
  BY NoJobsNoTxs
<1>3. made # made + 1
  BY <1>1
<1>4. CASE ServerTakesNext
  <2>1. /\ request # <<>> /\ request' = Tail(request) /\ late' = late /\ made' = made
        /\ \E outcome \in ServerOutcome(Head(request)) : log' = outcome[2]
    BY <1>4 DEF ServerTakesNext
  <2>2. Head(request) \in Tx /\ ToSet(request) = {Head(request)} \cup ToSet(Tail(request))
    BY <1>1, <2>1, HeadAndTail
  <2>3. ToSet(log') = ToSet(log) \cup {Head(request)}
    BY <1>1, <2>1, <2>2, ServerAppliesEach
  <2> QED
    BY <1>3, <2>1, <2>2, <2>3 DEF Known
<1>5. CASE ServerTakesLate
  <2>1. PICK r \in late :
          /\ \E outcome \in ServerOutcome(Head(r)) : log' = outcome[2]
          /\ late' = (late \ {r}) \cup (IF Len(r) > 1 THEN {Tail(r)} ELSE {})
          /\ UNCHANGED <<request, made>>
    BY <1>5 DEF ServerTakesLate
  <2>2. r \in Seq(Tx) /\ Head(r) \in Tx /\ ToSet(r) = {Head(r)} \cup ToSet(Tail(r))
    BY <1>1, <2>1, HeadAndTail
  <2>3. ToSet(log') = ToSet(log) \cup {Head(r)}
    BY <1>1, <2>1, <2>2, ServerAppliesEach
  <2>4. ToSet(r) \subseteq Known
    BY DEF Known
  <2>5. late' \subseteq late \cup {Tail(r)}
    BY <2>1
  <2>6. \A q \in late' : ToSet(q) \subseteq Known
    BY <2>2, <2>4, <2>5 DEF Known
  <2>7. ToSet(log') \subseteq Known /\ ToSet(request') \subseteq Known
    BY <2>1, <2>2, <2>3, <2>4 DEF Known
  <2>8. Known' \subseteq Known
    BY <2>6, <2>7 DEF Known
  <2> QED
    BY <1>3, <2>1, <2>8
<1>6. CASE MarkSent
  <2>1. /\ UNCHANGED <<log, late, made>>
        /\ request' = request \/ request' = Without(batch, discarded)
    BY <1>6 DEF MarkSent
  <2>2. ToSet(Without(batch, discarded)) \subseteq held
    BY <1>1, WithoutDropsTheSet
  <2> QED
    BY <1>3, <2>1, <2>2 DEF Known
<1>7. CASE BatchRefused \/ TransportFails \/ Restart
  <2>1. /\ UNCHANGED <<log, made>> /\ request' = <<>>
        /\ late' \subseteq late \cup {request}
    BY <1>7 DEF BatchRefused, TransportFails, Restart
  <2> QED
    BY <1>2, <1>3, <2>1 DEF Known
<1>8. CASE ~(ServerTakesNext \/ ServerTakesLate \/ MarkSent \/ BatchRefused \/ TransportFails \/ Restart)
  <2>1. UNCHANGED <<log, request, late>>
    BY <1>8 DEF Next, RunJob, ApplyPacket, QueueTransaction, BatchTimerFires, DrainStart,
       StartSendJob, StartReplayJob, OutboxRead, ResetSent, Requeue, ReplyArrives,
       Acknowledge, Refuse, RefusedRemoved, CulpritRemoved, Restore, EndSend,
       PacketArrives, RebaseRead, LoserRemoved, ReadOutbox,
       ConfirmRead, CompleteRead, SettledRemoved, CommitPacket
  <2> QED
    BY <2>1 DEF Known
<1> QED
  BY <1>4, <1>5, <1>6, <1>7, <1>8

\* Every step preserves it.
LEMMA NewStep ==
  ASSUME Inv, Inv', OrderAssumption, OnlyMalformedIsRefused, BehindIsNew, [Next]_vars
  PROVE  BehindIsNew'
<1>1. held \cap Behind = {}
  BY DEF Inv, SenderInv, AtFront
<1>2. Known \subseteq 1 .. made
  BY DEF Inv, PassedInv, KnownAreMade, Known
<1>3. CASE made' = made /\ Behind' \subseteq Behind
  BY <1>1, <1>3, KnownGrows DEF BehindIsNew
<1>4. CASE made' = made + 1 /\ Behind' = Behind \cup {made + 1}
  <2>1. made + 1 \notin 1 .. made
    BY BehindGrows
  <2> QED
    BY <1>2, <1>4, <2>1, KnownGrows DEF BehindIsNew
<1> QED
  BY <1>3, <1>4, BehindGrows

-----------------------------------------------------------------------------
(* Starting *)

\* Nothing is sent before the first drain: every step preserves it.
LEMMA StartingStep ==
  ASSUME Inv, OrderAssumption, OnlyMalformedIsRefused, BehindIsNew, Starting, [Next]_vars
  PROVE  Starting'
<1> USE DEF vars, storageVars, listVars, claimVars, indexVars, jobVars,
            serverVars, pktVars, historyVars
<1>1. ASSUME UNCHANGED <<drain, queue, pending, pc>>, pktPc' # "idle" \/ pktPc' = pktPc
      PROVE  Starting'
  BY <1>1 DEF Starting
<1>2. ASSUME queue # <<>>
      PROVE  drain \notin {"rehydrate", "start"}
  BY <1>2 DEF Starting
<1>3. CASE QueueTransaction
  <2>1. pktPc = "idle" /\ drain # "start" /\ drain' = drain
    BY <1>3 DEF QueueTransaction
  <2> QED
    BY <2>1 DEF Starting
<1>4. CASE BatchTimerFires
  <2>1. /\ UNCHANGED <<drain, pc, pktPc>> /\ pending' = <<>>
        /\ pending = <<>> => queue' = queue
    BY <1>4 DEF BatchTimerFires
  <2> QED
    BY <2>1 DEF Starting
<1>5. CASE DrainStart
  <2>1. drain' \in {"replay", "flush"}
    BY <1>5 DEF DrainStart
  <2> QED
    BY <2>1 DEF Starting
<1>6. CASE EndSend
  <2>1. queue \in Seq(Job) /\ queue # <<>>
    BY <1>6 DEF EndSend, Inv, JobInv, TypeOK, ListTypeOK
  <2>2. drain' \in {drain, "replay", "idle"}
    <3>1. (FinishJob) => drain' \in {drain, "replay", "idle"}
      BY <2>1, FinishJobEffect
    <3> QED
      BY <1>6, <3>1 DEF EndSend
  <2> QED
    BY <1>2, <2>1, <2>2 DEF Starting
<1>7. CASE \/ StartSendJob \/ StartReplayJob \/ OutboxRead \/ ResetSent \/ MarkSent \/ Requeue
           \/ ReplyArrives \/ Acknowledge \/ Refuse \/ RefusedRemoved
           \/ CulpritRemoved \/ Restore \/ TransportFails \/ BatchRefused
  <2>1. drain' = drain /\ (queue # <<>> \/ pc # "idle")
    BY <1>7 DEF StartSendJob, StartReplayJob, OutboxRead, ResetSent, MarkSent, Requeue, ReplyArrives,
       Acknowledge, Refuse, RefusedRemoved, CulpritRemoved, Restore, TransportFails, BatchRefused
  <2>2. queue # <<>>
    BY <2>1 DEF Inv, JobInv
  <2> QED
    BY <1>2, <2>1, <2>2 DEF Starting
<1>8. CASE \/ RebaseRead \/ LoserRemoved \/ ConfirmRead \/ CompleteRead \/ SettledRemoved
  <2>1. pending' = pending
    BY <1>8, DiscardsAreSettled
  <2>2. UNCHANGED <<drain, queue, pc>> /\ pktPc' # "idle"
    BY <1>8 DEF RebaseRead, LoserRemoved, ConfirmRead, CompleteRead, SettledRemoved, NothingToDiscard
  <2> QED
    BY <1>1, <2>1, <2>2
<1>9. CASE PacketArrives \/ ReadOutbox \/ ServerTakesNext \/ ServerTakesLate \/ UNCHANGED vars
  <2>1. UNCHANGED <<drain, queue, pending, pc>> /\ (pktPc' # "idle" \/ pktPc' = pktPc)
    BY <1>9 DEF PacketArrives, ReadOutbox, ServerTakesNext, ServerTakesLate
  <2> QED
    BY <1>1, <2>1
<1>10. CASE CommitPacket
  <2>1. /\ UNCHANGED <<queue, pending, pc>>
        /\ drain' = IF drain = "rehydrate" THEN "start" ELSE drain
    BY <1>10 DEF CommitPacket
  <2> QED
    BY <2>1 DEF Starting
<1>11. CASE Restart
  BY <1>11 DEF Restart, Starting
<1> QED
  BY <1>3, <1>4, <1>5, <1>6, <1>7, <1>8, <1>9, <1>10, <1>11 DEF Next, RunJob, ApplyPacket

-----------------------------------------------------------------------------
(* FrontAscends *)

\* A list that ascends is no longer than there are transactions.
LEMMA AscendingIsShort ==
  ASSUME NEW s \in Seq(Tx), Ascending(s)
  PROVE  Len(s) <= NumTx
<1>1. /\ Len(s) \in Nat /\ s \in [1 .. Len(s) -> Tx] /\ NumTx \in Nat /\ Tx \subseteq Nat
      /\ DOMAIN s = 1 .. Len(s)
  BY OutboxAssumption DEF Tx
<1>2. /\ IsFiniteSet(1 .. Len(s)) /\ Cardinality(1 .. Len(s)) = Len(s)
      /\ IsFiniteSet(Tx) /\ Cardinality(Tx) = NumTx
  <2>1. IsFiniteSet(1 .. Len(s)) /\ Cardinality(1 .. Len(s)) = Len(s)
    <3>1. ASSUME NEW n \in Nat
          PROVE  IsFiniteSet(1 .. n) /\ Cardinality(1 .. n) = n
      BY FS_Interval
    <3> QED
      BY <1>1, <3>1
  <2>2. IsFiniteSet(1 .. NumTx) /\ Cardinality(1 .. NumTx) = NumTx
    BY SMTT(20), <1>1, FS_Interval
  <2> QED
    BY <2>1, <2>2 DEF Tx
<1>3. ASSUME NumTx < Len(s)
      PROVE  FALSE
  <2>1. PICK i, j \in 1 .. Len(s) : i # j /\ s[i] = s[j]
    BY <1>1, <1>2, <1>3, FS_PigeonHole
  <2>2. i < j \/ j < i
    BY <1>1, <2>1
  <2>3. s[i] < s[j] \/ s[j] < s[i]
    BY <1>1, <2>2 DEF Ascending
  <2>4. s[i] \in Nat
    BY <1>1
  <2> QED
    BY <2>1, <2>3, <2>4
<1> QED
  BY <1>1, <1>3

\* The outbox is read in the order its transactions were made.
LEMMA InOutboxOrderAscends ==
  ASSUME batchIndex \in [Tx -> Nat], OutboxKeepsWriteOrder,
         NEW S \in SUBSET Outstanding
  PROVE  Ascending(InOutboxOrder(S))
<1>1. IsFiniteSet(S)
  BY FiniteRows
<1>2. S \subseteq Tx /\ \A x \in S : batchIndex[x] \in Nat
  BY DEF Outstanding
<1>3. \A x, y \in S : x < y => batchIndex[x] < batchIndex[y]
  BY <1>2 DEF OutboxKeepsWriteOrder
<1>4. \A x, y \in S : x # y => batchIndex[x] # batchIndex[y]
  <2> TAKE x, y \in S
  <2> HAVE x # y
  <2>1. x < y \/ y < x
    BY <1>2, OutboxAssumption DEF Tx
  <2> QED
    BY <1>2, <1>3, <2>1
<1> DEFINE list == SortedBy(S, batchIndex)
<1>5. /\ list \in Seq(S)
      /\ \A i, j \in DOMAIN list : i < j => batchIndex[list[i]] < batchIndex[list[j]]
  BY <1>1, <1>2, <1>4, SortedByListsTheSet, SortedByFollowsKeys
<1> HIDE DEF list
<1>6. ASSUME NEW i \in DOMAIN list, NEW j \in DOMAIN list, i < j
      PROVE  list[i] < list[j]
  <2>1. list[i] \in S /\ list[j] \in S /\ batchIndex[list[i]] < batchIndex[list[j]]
    BY <1>5, <1>6
  <2>2. \A x, y \in S : x < y \/ y < x \/ x = y
    BY <1>2, OutboxAssumption DEF Tx
  <2>3. list[i] # list[j]
    BY <1>2, <2>1
  <2>4. ~(list[j] < list[i])
    <3>1. batchIndex[list[i]] \in Nat /\ batchIndex[list[j]] \in Nat
      BY <1>2, <2>1
    <3> QED
      BY <1>3, <2>1, <3>1
  <2> QED
    BY <2>1, <2>2, <2>3, <2>4
<1> QED
  BY <1>6 DEF InOutboxOrder, list, Ascending

\* A send keeps the order of what it carries, if what is owed goes before
\* what is requested.
LEMMA SendBatchAscends ==
  ASSUME NEW requested \in Seq(Tx), NEW owed \in Seq(Tx), NEW free, NEW kept,
         Ascending(requested), Ascending(owed),
         \A t \in ToSet(owed) : \A u \in ToSet(requested) : t < u,
         SendBatch(requested, owed, free, kept)
  PROVE  Ascending(batch')
<1> DEFINE ahead == Without(owed, ToSet(requested))
<1>1. Tx \in SUBSET Nat
  BY OutboxAssumption DEF Tx
<1>2. ahead \in Seq(Tx) /\ ToSet(ahead) \subseteq ToSet(owed) /\ Ascending(ahead)
  BY <1>1, WithoutDropsTheSet, WithoutAscends
<1>3. batch' = ahead \o requested
  BY DEF SendBatch, TakeRetryBacklog
<1> HIDE DEF ahead
<1>4. Ascending(ahead \o requested)
  BY <1>1, <1>2, ListsAscend
<1> QED
  BY <1>3, <1>4

\* A slice of a replay goes before what the replay has left.
LEMMA SendSliceAscends ==
  ASSUME discarded \subseteq Tx, claimed \subseteq Tx, held \subseteq Tx,
         NEW list \in Seq(Tx), NEW owed \in Seq(Tx), Ascending(list), Ascending(owed),
         \A t \in ToSet(owed) : \A u \in ToSet(list) : t < u,
         SendSlice(list, owed)
  PROVE  /\ Ascending(batch') /\ Ascending(replay')
         /\ \A t \in held' : \A u \in ToSet(replay') : t < u
         /\ ToSet(batch') \cup ToSet(replay') = ToSet(owed) \cup ToSet(list)
         /\ NumTx <= MaxBatchSize => replay' = <<>>
<1> DEFINE slice == SubSeq(list, 1, SliceEnd(list))
           rest  == SubSeq(list, SliceEnd(list) + 1, Len(list))
<1>1. Tx \in SUBSET Nat /\ Len(list) \in Nat /\ NumTx \in Nat /\ MaxBatchSize \in Nat
  BY OutboxAssumption DEF Tx
<1>2. SliceEnd(list) \in Nat /\ SliceEnd(list) <= Len(list)
  BY <1>1 DEF SliceEnd
<1>3. /\ slice \in Seq(Tx) /\ rest \in Seq(Tx)
      /\ ToSet(list) = ToSet(slice) \cup ToSet(rest)
  BY <1>2, SplitLists
<1>4. /\ Ascending(slice) /\ Ascending(rest)
      /\ \A t \in ToSet(slice) : \A u \in ToSet(rest) : t < u
  BY <1>1, <1>2, SplitAscends
<1>5. NumTx <= MaxBatchSize => rest = <<>>
  <2>1. ASSUME NumTx <= MaxBatchSize
        PROVE  SliceEnd(list) = Len(list)
    BY <1>1, <2>1, AscendingIsShort DEF SliceEnd
  <2>2. SliceEnd(list) = Len(list) => Len(rest) = 0
    BY <1>1
  <2> HIDE DEF rest
  <2>3. Len(rest) = 0 => rest = <<>>
    BY <1>3
  <2> QED
    BY <2>1, <2>2, <2>3
<1>6. SendBatch(slice, owed, held, {}) /\ replay' = rest
  BY DEF SendSlice
<1> HIDE DEF slice, rest
<1>7. Ascending(batch')
  BY <1>3, <1>4, <1>6, SendBatchAscends
<1>8. /\ held' = {} \cup ToSet(owed) \cup ToSet(slice)
      /\ ToSet(batch') = ToSet(owed) \cup ToSet(slice)
  <2>1. held \in SUBSET Tx /\ {} \in SUBSET Tx
    OBVIOUS
  <2> QED
    BY <1>3, <1>6, <2>1, SendBatchEffect
<1>9. \A t \in held' : \A u \in ToSet(replay') : t < u
  BY <1>3, <1>4, <1>6, <1>8
<1> QED
  BY <1>3, <1>4, <1>5, <1>6, <1>7, <1>8, <1>9

\* The running job goes on with the replay it has.
LEMMA FrontKept ==
  ASSUME FrontAscends, UNCHANGED replay,
         Ascending(backlog'), Ascending(batch'), Ascending(missed'),
         replay = <<>> \/ held' \cup ToSet(backlog') \subseteq held \cup ToSet(backlog),
         failed' => pc' = "ended" /\ replay = <<>>,
         pc' = "failing" => replay = <<>>,
         pc = "resetting" => pc' = "resetting"
  PROVE  FrontAscends'
<1>1. ToSet(<<>>) = {}
  BY NoJobsNoTxs
<1>2. \A t \in held' \cup ToSet(backlog') : \A u \in ToSet(replay) : t < u
  BY <1>1 DEF FrontAscends
<1> QED
  BY <1>2 DEF FrontAscends

\* It sends a slice of a replay.
LEMMA SliceAtFront ==
  ASSUME TypeOK, NEW list \in Seq(Tx), NEW owed \in Seq(Tx), Ascending(list), Ascending(owed),
         \A t \in ToSet(owed) : \A u \in ToSet(list) : t < u,
         SendSlice(list, owed), Ascending(missed'), ~failed'
  PROVE  FrontAscends'
<1>1. discarded \subseteq Tx /\ claimed \subseteq Tx /\ held \subseteq Tx
  BY DEF TypeOK, ClaimTypeOK, JobTypeOK
<1>2. /\ Ascending(batch') /\ Ascending(replay')
      /\ \A t \in held' : \A u \in ToSet(replay') : t < u
      /\ NumTx <= MaxBatchSize => replay' = <<>>
  BY <1>1, SendSliceAscends
<1>3. backlog' = <<>> /\ pc' \in {"ended", "marking"}
  BY <1>1, SendSliceEffect
<1>4. Ascending(<<>>) /\ ToSet(<<>>) = {}
  BY NoJobsNoTxs DEF Ascending
<1> HIDE DEF SendSlice
<1> QED
  BY <1>2, <1>3, <1>4 DEF FrontAscends

\* Every step preserves it.
LEMMA FrontStep ==
  ASSUME Inv, Inv', OrderAssumption, OnlyMalformedIsRefused, BehindIsLast, JobsAscend,
         FrontAscends, [Next]_vars
  PROVE  FrontAscends'
<1> USE DEF vars, storageVars, listVars, claimVars, indexVars, jobVars,
            serverVars, pktVars, historyVars
<1>1. /\ backlog \in Seq(Tx) /\ batch \in Seq(Tx) /\ replay \in Seq(Tx) /\ missed \in Seq(Tx)
      /\ queue \in Seq(Job) /\ pending \in Seq(Tx) /\ held \in SUBSET Tx
      /\ Tx \in SUBSET Nat
  BY OutboxAssumption DEF Inv, TypeOK, ListTypeOK, JobTypeOK, Tx
<1>2. Ascending(<<>>) /\ ToSet(<<>>) = {}
  BY NoJobsNoTxs DEF Ascending
<1>3. Ascending(backlog) /\ Ascending(batch) /\ Ascending(replay) /\ Ascending(missed)
  BY DEF FrontAscends
<1>4. \A S : /\ Ascending(Without(batch, S)) /\ Ascending(Without(missed, S))
             /\ Ascending(Without(backlog, S))
  BY <1>1, <1>3, WithoutAscends
<1>5. ASSUME UNCHANGED <<backlog, batch, replay, missed, held, failed>>,
             pc' = pc \/ (pc # "resetting" /\ pc # "ended" /\ pc' \notin {"failing", "resetting"})
      PROVE  FrontAscends'
  <2>1. failed' => pc' = "ended" /\ replay = <<>>
    BY <1>5 DEF FrontAscends
  <2>2. pc' = "failing" => replay = <<>>
    BY <1>5 DEF FrontAscends
  <2> QED
    BY <1>3, <1>5, <2>1, <2>2, FrontKept
<1>6. CASE \/ QueueTransaction \/ BatchTimerFires \/ DrainStart \/ StartReplayJob
           \/ Acknowledge \/ BatchRefused \/ ServerTakesNext
           \/ ServerTakesLate \/ PacketArrives \/ RebaseRead \/ ReadOutbox \/ ConfirmRead
           \/ CompleteRead \/ CommitPacket \/ UNCHANGED vars
  <2>1. UNCHANGED <<backlog, batch, replay, missed, held, failed>>
    BY <1>6 DEF QueueTransaction, BatchTimerFires, DrainStart, StartReplayJob, Acknowledge,
       BatchRefused, ServerTakesNext, ServerTakesLate, PacketArrives, RebaseRead, ReadOutbox,
       ConfirmRead, CompleteRead, CommitPacket
  <2>2. pc' = pc \/ (pc # "resetting" /\ pc # "ended" /\ pc' \notin {"failing", "resetting"})
    BY <1>6 DEF QueueTransaction, BatchTimerFires, DrainStart, StartReplayJob, Acknowledge,
       BatchRefused, ServerTakesNext, ServerTakesLate, PacketArrives, RebaseRead, ReadOutbox,
       ConfirmRead, CompleteRead, CommitPacket, NextResult
  <2> QED
    BY <1>5, <2>1, <2>2
<1>7. CASE Refuse
  <2>1. /\ UNCHANGED <<backlog, batch, replay, missed, held, failed>>
        /\ pc \in {"results", "invalid"} /\ pc' \in {"removing", "evicting"}
    BY <1>7 DEF Refuse
  <2> QED
    BY <1>5, <2>1
<1>8. CASE RefusedRemoved
  BY <1>8 DEF RefusedRemoved, OnlyMalformedIsRefused
<1>9. CASE MarkSent \/ ReplyArrives
  <2>1. /\ UNCHANGED <<backlog, replay, held, failed>>
        /\ pc \in {"marking", "awaiting"} /\ pc' \notin {"failing", "resetting"}
    BY <1>9 DEF MarkSent, ReplyArrives
  <2>2. Ascending(batch') /\ Ascending(missed')
    BY <1>3, <1>4, <1>9 DEF MarkSent, ReplyArrives
  <2>3. ~failed'
    BY <2>1 DEF FrontAscends
  <2> QED
    BY <1>3, <2>1, <2>2, <2>3, FrontKept
<1>10. CASE CulpritRemoved \/ LoserRemoved \/ SettledRemoved
  <2>1. /\ UNCHANGED <<replay, held, failed, missed>>
        /\ pc' = pc \/ (pc = "evicting" /\ pc' \notin {"failing", "resetting"})
        /\ batch' = batch \/ \E S : batch' = Without(batch, S)
        /\ \E t : backlog' = Without(backlog, {t})
    BY <1>10 DEF CulpritRemoved, LoserRemoved, SettledRemoved, RemoveRow
  <2>2. ToSet(backlog') \subseteq ToSet(backlog) /\ Ascending(backlog') /\ Ascending(batch')
    BY <1>1, <1>3, <1>4, <2>1, WithoutDropsTheSet
  <2>3. failed' => pc' = "ended" /\ replay = <<>>
    BY <2>1 DEF FrontAscends
  <2>4. pc' = "failing" => replay = <<>>
    BY <2>1 DEF FrontAscends
  <2>5. Ascending(missed') /\ held' \cup ToSet(backlog') \subseteq held \cup ToSet(backlog)
    BY <1>3, <2>1, <2>2
  <2>6. pc = "resetting" => pc' = "resetting"
    BY <2>1
  <2>7. replay' = replay
    BY <2>1
  <2> QED
    BY <2>2, <2>3, <2>4, <2>5, <2>6, <2>7, FrontKept
<1>11. CASE Requeue
  <2>1. /\ pc \in {"failing", "requeueing"}
        /\ UNCHANGED <<replay, held, batch, missed>>
        /\ \/ UNCHANGED <<pc, backlog, failed>>
           \/ /\ backlog' = backlog \o Without(IF pc = "failing" THEN batch ELSE missed, discarded)
              /\ failed' = (pc = "failing") /\ pc' = "ended"
    BY <1>11 DEF Requeue
  <2>2. backlog = <<>>
    BY <2>1 DEF Inv, ListsInv
  <2> DEFINE more == Without(IF pc = "failing" THEN batch ELSE missed, discarded)
  <2>3. more \in Seq(Tx) /\ Ascending(more) /\ ToSet(more) \subseteq held
    <3>1. more = Without(batch, discarded) \/ more = Without(missed, discarded)
      OBVIOUS
    <3>2. /\ Without(batch, discarded) \in Seq(Tx) /\ Without(missed, discarded) \in Seq(Tx)
          /\ ToSet(Without(batch, discarded)) \subseteq held
          /\ ToSet(Without(missed, discarded)) \subseteq held
      BY <1>1, WithoutDropsTheSet DEF Inv, SenderInv
    <3> HIDE DEF more
    <3> QED
      BY <1>4, <3>1, <3>2
  <2>4. CASE UNCHANGED <<pc, backlog, failed>>
    BY <1>5, <2>1, <2>4
  <2>5. CASE backlog' = backlog \o more /\ failed' = (pc = "failing") /\ pc' = "ended"
    <3> HIDE DEF more
    <3>1. backlog' = more
      BY <2>2, <2>3, <2>5
    <3>2. failed' => pc' = "ended" /\ replay = <<>>
      BY <2>5 DEF FrontAscends
    <3> QED
      BY <1>3, <2>1, <2>3, <2>5, <3>1, <3>2, FrontKept
  <2> QED
    BY <2>1, <2>4, <2>5
<1>12. CASE TransportFails
  <2>1. /\ UNCHANGED <<backlog, batch, replay, missed, held, failed>>
        /\ pc = "awaiting" /\ pc' = "failing" /\ failures < MaxFailures
    BY <1>12 DEF TransportFails
  <2>2. replay = <<>>
    <3>1. MaxFailures # 0
      BY <2>1 DEF Inv, TypeOK, HistoryTypeOK
    <3> QED
      BY <2>1, <3>1 DEF OrderAssumption, FrontAscends
  <2>3. ~failed'
    BY <2>1 DEF FrontAscends
  <2> QED
    BY <1>3, <2>1, <2>2, <2>3, FrontKept
<1>13. CASE StartSendJob
  <2>1. /\ pc = "idle" /\ queue # <<>> /\ SendBatch(Head(queue).txs, backlog, {}, {})
        /\ UNCHANGED <<replay, missed, failed>>
    BY <1>13 DEF StartSendJob
  <2>2. replay = <<>> /\ ~failed
    BY <2>1 DEF Inv, JobInv, FrontAscends
  <2>3. NotBegun = queue /\ LineAscends(pending, queue)
    BY <2>1 DEF NotBegun, JobsAscend
  <2>4. Head(queue).txs \in Seq(Tx) /\ Ascending(Head(queue).txs)
    BY <1>1, <2>1, <2>3, LineTail, JobTxsTail DEF Job
  <2>5. ToSet(Head(queue).txs) \subseteq Behind
    BY <1>1, <2>1, <2>3, JobTxsTail DEF Behind
  <2>6. ToSet(backlog) \subseteq (1 .. made) \ Behind
    BY DEF Inv, SenderInv, AtFront
  <2>7. \A t \in ToSet(backlog) : \A u \in ToSet(Head(queue).txs) : t < u
    BY <2>5, <2>6 DEF BehindIsLast
  <2>8. Ascending(batch')
    BY <1>1, <1>3, <2>1, <2>4, <2>7, SendBatchAscends
  <2>9. backlog' = <<>> /\ pc' \in {"ended", "marking"}
    <3>1. SendBatch(Head(queue).txs, backlog, {}, {}) => backlog' = <<>> /\ pc' \in {"ended", "marking"}
      BY DEF SendBatch, BacklogAfterTake
    <3> QED
      BY <2>1, <3>1
  <2> QED
    BY <1>2, <1>3, <2>1, <2>2, <2>8, <2>9, FrontKept
<1>14. CASE OutboxRead
  <2> DEFINE list == InOutboxOrder(Replayable(Unclaimed))
  <2>1. pc = "reading" /\ UNCHANGED <<missed, failed>>
    BY <1>14 DEF OutboxRead
  <2>2. held = {} /\ ~failed
    BY <2>1 DEF Inv, JobInv, FrontAscends
  <2>3. list \in Seq(Tx) /\ Ascending(list)
    <3>1. Replayable(Unclaimed) \in SUBSET Outstanding
      BY DEF Unclaimed, Replayable
    <3> QED
      BY <3>1, InOutboxOrderLists, InOutboxOrderAscends DEF Inv, IndexInv, TypeOK, StorageTypeOK
  <2>4. \/ /\ pc' = "resetting" /\ replay' = list /\ backlog' = <<>>
           /\ UNCHANGED <<held, batch>>
        \/ SendSlice(list, <<>>)
        \/ /\ pc' = "ended" /\ backlog' = <<>>
           /\ UNCHANGED <<held, batch, replay>>
    BY <1>14 DEF OutboxRead
  <2> HIDE DEF list
  <2>5. CASE /\ pc' = "resetting" /\ replay' = list /\ backlog' = <<>>
             /\ UNCHANGED <<held, batch>>
    BY <1>2, <1>3, <2>1, <2>2, <2>3, <2>5 DEF FrontAscends
  <2>6. CASE SendSlice(list, <<>>)
    <3>1. <<>> \in Seq(Tx) /\ Ascending(missed') /\ ~failed' /\ TypeOK
      BY <1>3, <2>1, <2>2, EmptySeq DEF Inv
    <3> QED
      BY <1>2, <2>3, <2>6, <3>1, SliceAtFront
  <2>7. CASE /\ pc' = "ended" /\ backlog' = <<>>
             /\ UNCHANGED <<held, batch, replay>>
    BY <1>2, <1>3, <2>1, <2>2, <2>7, FrontKept
  <2> QED
    BY <2>4, <2>5, <2>6, <2>7
<1>15. CASE ResetSent
  <2>1. pc = "resetting" /\ UNCHANGED <<missed, failed>>
    BY <1>15 DEF ResetSent
  <2>2. CASE Len(todo) > 1
    BY <1>5, <1>15, <2>1, <2>2 DEF ResetSent
  <2>3. CASE ~(Len(todo) > 1)
    <3>1. SendSlice(replay, backlog)
      BY <1>15, <2>3 DEF ResetSent
    <3>2. \A t \in ToSet(backlog) : \A u \in ToSet(replay) : t < u
      BY DEF FrontAscends
    <3>3. Ascending(missed') /\ ~failed' /\ TypeOK
      BY <1>3, <2>1 DEF FrontAscends, Inv
    <3> QED
      BY <1>1, <1>3, <3>1, <3>2, <3>3, SliceAtFront
  <2> QED
    BY <2>2, <2>3
<1>16. CASE Restore
  <2>1. pc = "restoring" /\ UNCHANGED <<replay, missed, failed>>
    BY <1>16 DEF Restore
  <2>2. CASE Len(todo) > 1
    BY <1>5, <1>16, <2>1, <2>2 DEF Restore
  <2>3. CASE ~(Len(todo) > 1)
    <3>1. SendBatch(batch, backlog, {}, held)
      BY <1>16, <2>3 DEF Restore
    <3>2. backlog = <<>> /\ ToSet(batch) \subseteq held
      BY <2>1 DEF Inv, ListsInv, SenderInv
    <3>3. Ascending(batch')
      <4>1. \A t \in ToSet(backlog) : \A u \in ToSet(batch) : t < u
        BY <1>2, <3>2
      <4> QED
        BY <1>1, <1>3, <3>1, <4>1, SendBatchAscends
    <3>4. held' = held \cup ToSet(backlog) \cup ToSet(batch) /\ backlog' = <<>>
          /\ pc' \in {"ended", "marking"}
      <4>1. {} \in SUBSET Tx /\ discarded \subseteq Tx /\ claimed \subseteq Tx
        BY DEF Inv, TypeOK, ClaimTypeOK
      <4> QED
        BY <1>1, <3>1, <4>1, SendBatchEffect
    <3>5. held' \cup ToSet(backlog') \subseteq held \cup ToSet(backlog)
      BY <1>2, <3>2, <3>4
    <3>6. ~failed'
      BY <2>1 DEF FrontAscends
    <3> QED
      BY <1>2, <1>3, <2>1, <3>3, <3>4, <3>5, <3>6, FrontKept
  <2> QED
    BY <2>2, <2>3
<1>17. CASE EndSend
  <2>1. missed' = <<>>
    BY <1>17 DEF EndSend
  <2>2. CASE replay # <<>> /\ ~failed
    <3>1. SendSlice(replay, backlog) /\ ~failed'
      BY <1>17, <2>2 DEF EndSend
    <3>2. \A t \in ToSet(backlog) : \A u \in ToSet(replay) : t < u
      BY DEF FrontAscends
    <3>3. TypeOK /\ Ascending(missed')
      BY <1>2, <2>1 DEF Inv
    <3> QED
      BY <1>1, <1>3, <3>1, <3>2, <3>3, SliceAtFront
  <2>3. CASE ~(replay # <<>> /\ ~failed)
    <3>1. FinishJob /\ queue # <<>> /\ backlog' = backlog
      BY <1>17, <2>3 DEF EndSend, Inv, JobInv
    <3>2. /\ pc' = "idle" /\ held' = {} /\ batch' = <<>>
          /\ replay' = <<>> /\ failed' = FALSE
      BY <1>1, <3>1, FinishJobEffect
    <3> QED
      BY <1>2, <1>3, <2>1, <3>1, <3>2 DEF FrontAscends
  <2> QED
    BY <2>2, <2>3
<1>18. CASE Restart
  <2>1. /\ pc' = "idle" /\ held' = {} /\ batch' = <<>> /\ backlog' = <<>> /\ missed' = <<>>
        /\ replay' = <<>> /\ failed' = FALSE
    BY <1>18 DEF Restart
  <2> QED
    BY <1>2, <2>1 DEF FrontAscends
<1> QED
  BY <1>6, <1>7, <1>8, <1>9, <1>10, <1>11, <1>12, <1>13, <1>14, <1>15, <1>16, <1>17, <1>18
     DEF Next, RunJob, ApplyPacket

-----------------------------------------------------------------------------
(* Covered *)

\* A step that lets go of nothing unsettled.
LEMMA CoveredKept ==
  ASSUME Covered, Fresh => Fresh', Settled \subseteq Settled', made' = made,
         Behind \cup ToCome \subseteq Behind' \cup ToCome' \cup Settled'
  PROVE  Covered'
BY DEF Covered, Unsettled

\* While a job runs that does not read the outbox everything is covered.
LEMMA RunningIsNotFresh ==
  ASSUME Inv, Starting, pc \notin {"idle", "reading"}
  PROVE  ~Fresh
BY DEF Fresh, Starting

\* A send has what is owed and requested to come, or all of it is discarded.
LEMMA SendBatchCovers ==
  ASSUME NEW requested \in Seq(Tx), NEW owed \in Seq(Tx), NEW free \in SUBSET Tx, NEW kept \in SUBSET Tx,
         discarded \subseteq Tx, claimed \subseteq Tx, SendBatch(requested, owed, free, kept)
  PROVE  ToSet(owed) \cup ToSet(requested) \subseteq ToCome' \cup discarded
<1>1. /\ batch' \in Seq(Tx) /\ ToSet(batch') = ToSet(owed) \cup ToSet(requested)
      /\ pc' \in {"ended", "marking"}
  BY SendBatchEffect
<1>2. /\ todo' = Without(batch', discarded \ free)
      /\ pc' = IF todo' = <<>> THEN "ended" ELSE "marking"
  BY DEF SendBatch
<1>3. CASE todo' = <<>>
  <2>1. ToSet(batch') \ (discarded \ free) = {}
    <3>1. \A s \in Seq(Tx) : ToSet(Without(s, discarded \ free)) = ToSet(s) \ (discarded \ free)
      BY WithoutDropsTheSet
    <3> QED
      BY <1>1, <1>2, <1>3, <3>1, NoJobsNoTxs
  <2> QED
    BY <1>1, <2>1
<1>4. CASE todo' # <<>>
  <2>1. pc' = "marking"
    BY <1>2, <1>4
  <2>2. ToSet(batch') \subseteq ToCome'
    BY <2>1 DEF ToCome, Sending
  <2> QED
    BY <1>1, <2>2
<1> QED
  BY <1>3, <1>4

\* So has a slice of a replay.
LEMMA SendSliceCovers ==
  ASSUME discarded \subseteq Tx, claimed \subseteq Tx, held \subseteq Tx,
         NEW list \in Seq(Tx), NEW owed \in Seq(Tx), SendSlice(list, owed)
  PROVE  ToSet(owed) \cup ToSet(list) \subseteq ToCome' \cup discarded
<1> DEFINE slice == SubSeq(list, 1, SliceEnd(list))
           rest  == SubSeq(list, SliceEnd(list) + 1, Len(list))
<1>1. SliceEnd(list) \in Nat /\ SliceEnd(list) <= Len(list)
  BY OutboxAssumption DEF SliceEnd
<1>2. /\ slice \in Seq(Tx) /\ rest \in Seq(Tx)
      /\ ToSet(list) = ToSet(slice) \cup ToSet(rest)
  BY <1>1, SplitLists
<1>3. SendBatch(slice, owed, held, {}) /\ replay' = rest
  BY DEF SendSlice
<1> HIDE DEF slice, rest
<1>4. held \in SUBSET Tx /\ {} \in SUBSET Tx
  OBVIOUS
<1>5. ToSet(owed) \cup ToSet(slice) \subseteq ToCome' \cup discarded
  BY <1>2, <1>3, <1>4, SendBatchCovers
<1>6. ToSet(rest) \subseteq ToCome'
  BY <1>3 DEF ToCome
<1> QED
  BY <1>2, <1>5, <1>6

\* The batch timer and a drain move what is pending to the queue.
LEMMA DispatchKeepsBehind ==
  ASSUME TypeOK, JobInv, BatchTimerFires \/ DrainStart
  PROVE  Behind' = Behind /\ UNCHANGED <<pc, made, backlog, batch, replay>>
<1> USE DEF vars, storageVars, listVars, claimVars, indexVars, jobVars,
            serverVars, pktVars, historyVars
<1>1. queue \in Seq(Job) /\ pending \in Seq(Tx) /\ NotBegun \in Seq(Job)
  BY BehindIsQueued DEF TypeOK, ListTypeOK
<1>2. pending' = <<>> /\ UNCHANGED <<pc, made, backlog, batch, replay>>
  BY DEF BatchTimerFires, DrainStart
<1>3. \/ pending = <<>> /\ UNCHANGED <<queue, claimed>>
      \/ \E kind \in {"send", "flush", "replay"} : Dispatch(kind, pending)
  BY DEF BatchTimerFires, DrainStart
<1>4. CASE pending = <<>> /\ UNCHANGED <<queue, claimed>>
  BY <1>2, <1>4 DEF Behind, NotBegun
<1>5. CASE \E kind \in {"send", "flush", "replay"} : Dispatch(kind, pending)
  <2>1. PICK kind \in {"send", "flush", "replay"} : Dispatch(kind, pending)
    BY <1>5
  <2> DEFINE j == [kind |-> kind, txs |-> pending]
  <2>2. j \in Job /\ j.txs = pending /\ queue' = Append(queue, j)
    BY <1>1, <2>1 DEF Job, Dispatch
  <2> HIDE DEF j
  <2>3. NotBegun' = Append(NotBegun, j)
    BY <1>2, <2>2, JobJoinsBehind
  <2>4. JobTxs(NotBegun') = JobTxs(NotBegun) \cup ToSet(pending)
    BY <1>1, <2>2, <2>3, JobTxsAppend
  <2> QED
    BY <1>2, <2>4, NoJobsNoTxs DEF Behind
<1> QED
  BY <1>2, <1>3, <1>4, <1>5

\* A replay at the head of the queue stays there when a job joins it.
LEMMA FreshStays ==
  ASSUME TypeOK, Fresh, drain' = drain \/ drain \notin {"rehydrate", "start"}, pc' = pc,
         queue' = queue \/ \E j \in Job : queue' = Append(queue, j)
  PROVE  Fresh'
<1>1. CASE drain \in {"rehydrate", "start"}
  BY <1>1 DEF Fresh
<1>2. CASE drain \notin {"rehydrate", "start"}
  <2>1. pc \in {"idle", "reading"} /\ queue # <<>> /\ Head(queue).kind = "replay"
    BY <1>2 DEF Fresh
  <2>2. queue \in Seq(Job)
    BY DEF TypeOK, ListTypeOK
  <2>3. queue' # <<>> /\ Head(queue') = Head(queue)
    BY <2>1, <2>2, HeadOfAppend
  <2> QED
    BY <2>1, <2>3 DEF Fresh
<1> QED
  BY <1>1, <1>2

\* Every step preserves it.
LEMMA CoveredStep ==
  ASSUME Inv, Inv', OrderAssumption, OnlyMalformedIsRefused, BehindIsNew, FrontAscends, Starting,
         RequestsReady, Covered, [Next]_vars
  PROVE  Covered'
<1> USE DEF vars, storageVars, listVars, claimVars, indexVars, jobVars,
            serverVars, pktVars, historyVars
<1>1. /\ backlog \in Seq(Tx) /\ batch \in Seq(Tx) /\ replay \in Seq(Tx) /\ missed \in Seq(Tx)
      /\ queue \in Seq(Job) /\ pending \in Seq(Tx) /\ todo \in Seq(Tx)
      /\ TypeOK /\ JobInv
      /\ discarded \subseteq Tx /\ claimed \subseteq Tx /\ held \subseteq Tx
  BY DEF Inv, TypeOK, ListTypeOK, JobTypeOK, ClaimTypeOK
<1>2. ToSet(<<>>) = {}
  BY NoJobsNoTxs
<1>3. Settled \subseteq Settled' /\ discarded \subseteq Settled
  BY SettledStays DEF OnlyMalformedIsRefused
<1>4. pc \notin {"idle", "reading"} => ~Fresh
  BY RunningIsNotFresh
<1>5. ASSUME UNCHANGED <<pending, queue>>, pc # "idle", pc' # "idle"
      PROVE  Behind' = Behind
  BY <1>5 DEF Behind, NotBegun
<1>6. ASSUME UNCHANGED <<pending, queue, pc>>
      PROVE  Behind' = Behind
  BY <1>6 DEF Behind, NotBegun
<1>7. CASE QueueTransaction
  <2>1. /\ made' = made + 1 /\ UNCHANGED <<drain, pc, backlog, batch, replay, log, dropped, reported>>
    BY <1>7 DEF QueueTransaction
  <2>2. made \in Nat /\ Behind' = Behind \cup {made + 1}
    BY <2>1, BehindGrows
  <2>3. ToCome' = ToCome /\ Settled' = Settled
    BY <2>1 DEF ToCome, Settled
  <2>4. Fresh => Fresh'
    <3>1. queue' = queue \/ \E j \in Job : queue' = Append(queue, j)
      <4>1. Append(pending, made + 1) \in Seq(Tx)
        <5>1. made + 1 \in Tx
          BY <1>7, <2>2, OutboxAssumption DEF QueueTransaction, Tx
        <5> QED
          BY <1>1, <5>1
      <4>2. [kind |-> "send", txs |-> Append(pending, made + 1)] \in Job
        BY <4>1 DEF Job
      <4> QED
        BY <1>7, <4>2 DEF QueueTransaction
    <3> QED
      BY <1>1, <2>1, <3>1, FreshStays
  <2>5. \A t \in 1 .. made' : t \in 1 .. made \/ t = made + 1
    BY <2>1, <2>2
  <2> QED
    BY <2>2, <2>3, <2>4, <2>5 DEF Covered, Unsettled
<1>8. CASE BatchTimerFires \/ DrainStart
  <2>1. Behind' = Behind /\ UNCHANGED <<pc, made, backlog, batch, replay>>
    BY <1>1, <1>8, DispatchKeepsBehind
  <2>2. ToCome' = ToCome
    BY <2>1 DEF ToCome
  <2>3. \/ UNCHANGED queue
        \/ \E kind \in {"send", "flush", "replay"} : queue' = Append(queue, [kind |-> kind, txs |-> pending])
    BY <1>8 DEF BatchTimerFires, DrainStart, Dispatch
  <2>4. \A kind \in {"send", "flush", "replay"} : [kind |-> kind, txs |-> pending] \in Job
    BY <1>1 DEF Job
  <2>5. Fresh => Fresh'
    <3>1. CASE drain' = drain \/ drain \notin {"rehydrate", "start"}
      BY <1>1, <2>1, <2>3, <2>4, <3>1, FreshStays
    <3>2. CASE DrainStart /\ drain \in {"rehydrate", "start"}
      <4>1. queue = <<>> /\ pending = <<>> /\ pc = "idle"
        BY <3>2 DEF Starting
      <4> DEFINE j == [kind |-> "replay", txs |-> <<>>]
      <4>2. queue' = Append(queue, j)
        BY <3>2, <4>1 DEF DrainStart, Dispatch
      <4>3. queue' = <<j>>
        BY <4>1, <4>2
      <4>4. queue' # <<>> /\ Head(queue').kind = "replay"
        BY <4>3
      <4> QED
        BY <2>1, <4>1, <4>4 DEF Fresh
    <3> QED
      BY <1>8, <3>1, <3>2 DEF BatchTimerFires
  <2> QED
    BY <1>3, <2>1, <2>2, <2>5, CoveredKept
<1>9. CASE StartSendJob
  <2>1. /\ pc = "idle" /\ queue # <<>> /\ Head(queue).kind \in {"send", "flush"}
        /\ SendBatch(Head(queue).txs, backlog, {}, {})
        /\ UNCHANGED <<pending, queue, made, replay>>
    BY <1>9 DEF StartSendJob
  <2>2. ~Fresh
    BY <2>1 DEF Fresh, Starting
  <2>3. Head(queue).txs \in Seq(Tx) /\ JobTxs(queue) = ToSet(Head(queue).txs) \cup JobTxs(Tail(queue))
    BY <1>1, <2>1, JobTxsTail DEF Job
  <2>4. ToSet(backlog) \cup ToSet(Head(queue).txs) \subseteq ToCome' \cup discarded
    <3>1. {} \in SUBSET Tx
      OBVIOUS
    <3> QED
      BY <1>1, <2>1, <2>3, <3>1, SendBatchCovers
  <2>5. pc' # "idle"
    BY <2>1 DEF SendBatch
  <2>6. Behind \subseteq Behind' \cup ToSet(Head(queue).txs)
    BY <2>1, <2>3, <2>5 DEF Behind, NotBegun
  <2>7. ToCome = ToSet(backlog) \cup ToSet(replay) /\ ToSet(replay) \subseteq ToCome'
    BY <2>1 DEF ToCome, Sending
  <2>8. made' = made
    BY <2>1
  <2> QED
    BY <1>3, <2>2, <2>4, <2>6, <2>7, <2>8, CoveredKept
<1>10. CASE StartReplayJob
  <2>1. pc' = "reading" /\ queue' # <<>> /\ Head(queue').kind = "replay"
    BY <1>10 DEF StartReplayJob
  <2> QED
    BY <2>1 DEF Covered, Fresh
<1>11. CASE OutboxRead
  <2> DEFINE list == InOutboxOrder(Replayable(Unclaimed))
  <2>1. pc = "reading" /\ UNCHANGED <<made, pending, queue, log, dropped, reported>>
    BY <1>11 DEF OutboxRead
  <2>2. held = {} /\ claimed = Behind
    BY <2>1 DEF Inv, JobInv, SenderInv
  <2>3. \A t \in 1 .. made : Unsettled(t) => t \in Replayable(Unclaimed) \cup Behind
    <3>1. \A t \in 1 .. made : Unsettled(t) => rows[t] \in {"queued", "sent"} /\ t \in Tx
      BY OutboxAssumption DEF Inv, SettledInv, NothingIsLost, Unsettled, Settled, Tx, TypeOK, HistoryTypeOK
    <3> QED
      BY <2>2, <3>1 DEF Replayable, Unclaimed, Outstanding
  <2>4. list \in Seq(Tx) /\ ToSet(list) = Replayable(Unclaimed)
    <3>1. Replayable(Unclaimed) \in SUBSET Outstanding
      BY DEF Unclaimed, Replayable
    <3> QED
      BY <3>1, InOutboxOrderLists DEF Inv, IndexInv, TypeOK, StorageTypeOK
  <2>5. \/ pc' = "resetting" /\ replay' = list
        \/ SendSlice(list, <<>>)
        \/ list = <<>> /\ pc' = "ended"
    BY <1>11 DEF OutboxRead
  <2> HIDE DEF list
  <2>6. Behind' = Behind
    <3>1. SendSlice(list, <<>>) => pc' # "idle"
      BY DEF SendSlice, SendBatch
    <3> QED
      BY <1>5, <2>1, <2>5, <3>1
  <2>7. ToSet(list) \subseteq ToCome' \cup Settled
    <3>1. SendSlice(list, <<>>) => ToSet(list) \subseteq ToCome' \cup discarded
      <4>1. <<>> \in Seq(Tx)
        BY EmptySeq
      <4> QED
        BY <1>1, <2>4, <4>1, SendSliceCovers
    <3>2. pc' = "resetting" /\ replay' = list => ToSet(list) \subseteq ToCome'
      BY DEF ToCome
    <3> QED
      BY <1>2, <1>3, <2>5, <3>1, <3>2
  <2> QED
    BY <2>1, <2>3, <2>4, <2>6, <2>7 DEF Covered, Unsettled, Settled
<1>12. CASE ResetSent
  <2>1. pc = "resetting" /\ UNCHANGED <<made, pending, queue>>
    BY <1>12 DEF ResetSent
  <2>2. ToCome = ToSet(replay)
    BY <2>1 DEF ToCome, Sending
  <2>3. Behind' = Behind /\ ToSet(replay) \subseteq ToCome' \cup discarded
    <3>1. CASE Len(todo) > 1
      BY <1>5, <1>12, <2>1, <3>1 DEF ResetSent, ToCome
    <3>2. CASE ~(Len(todo) > 1)
      <4>1. SendSlice(replay, backlog)
        BY <1>12, <3>2 DEF ResetSent
      <4>2. pc' # "idle"
        BY <4>1 DEF SendSlice, SendBatch
      <4> QED
        BY <1>1, <1>5, <2>1, <4>1, <4>2, SendSliceCovers
    <3> QED
      BY <3>1, <3>2
  <2> QED
    BY <1>3, <1>4, <2>1, <2>2, <2>3, CoveredKept
<1>13. CASE MarkSent
  <2>1. /\ pc = "marking" /\ pc' # "idle" /\ UNCHANGED <<made, pending, queue, replay, discarded>>
        /\ \/ UNCHANGED <<pc, batch>>
           \/ Without(batch, discarded) = <<>>
           \/ pc' = "awaiting" /\ batch' = Without(batch, discarded)
    BY <1>13 DEF MarkSent
  <2>2. ToSet(Without(batch, discarded)) = ToSet(batch) \ discarded
    BY <1>1, WithoutDropsTheSet
  <2>3. ToCome = ToSet(replay) \cup ToSet(batch) /\ ToSet(replay) \subseteq ToCome'
    BY <2>1 DEF ToCome, Sending
  <2>4. ToSet(batch) \subseteq ToCome' \cup discarded
    BY <1>2, <2>1, <2>2 DEF ToCome, Sending
  <2>5. Behind' = Behind
    BY <1>5, <2>1
  <2>6. made' = made /\ ~Fresh
    BY <1>4, <2>1
  <2> QED
    BY <1>3, <2>3, <2>4, <2>5, <2>6, CoveredKept
<1>14. CASE Requeue
  <2>1. /\ pc \in {"failing", "requeueing"} /\ pc' # "idle"
        /\ UNCHANGED <<made, pending, queue, replay, batch, discarded>>
        /\ \/ UNCHANGED <<pc, backlog>>
           \/ /\ pc' = "ended"
              /\ backlog' = backlog \o Without(IF pc = "failing" THEN batch ELSE missed, discarded)
    BY <1>14 DEF Requeue
  <2>2. Without(batch, discarded) \in Seq(Tx) /\ ToSet(Without(batch, discarded)) = ToSet(batch) \ discarded
    BY <1>1, WithoutDropsTheSet
  <2>3. ToSet(backlog \o Without(batch, discarded)) = ToSet(backlog) \cup (ToSet(batch) \ discarded)
    BY <1>1, <2>2, ListsOf
  <2>4. ToCome = ToSet(replay) \cup (IF pc = "failing" THEN ToSet(batch) ELSE {}) /\ ToSet(replay) \subseteq ToCome'
    BY <2>1 DEF ToCome, Sending
  <2>5. pc = "failing" => ToSet(batch) \subseteq ToCome' \cup discarded
    BY <2>1, <2>3 DEF ToCome, Sending
  <2>6. Behind' = Behind
    BY <1>5, <2>1
  <2>7. made' = made /\ ~Fresh
    BY <1>4, <2>1
  <2> QED
    BY <1>3, <2>4, <2>5, <2>6, <2>7, CoveredKept
<1>15. CASE ReplyArrives
  <2>1. /\ pc = "awaiting" /\ pc' \in {"requeueing", "results"} /\ request = <<>>
        /\ UNCHANGED <<made, pending, queue, replay>>
    BY <1>15 DEF ReplyArrives
  <2>2. ToSet(batch) \subseteq Settled
    BY <1>2, <2>1 DEF RequestsReady, Settled
  <2>3. ToCome = ToSet(replay) \cup ToSet(batch) /\ ToSet(replay) \subseteq ToCome'
    BY <2>1 DEF ToCome, Sending
  <2>4. Behind' = Behind
    BY <1>5, <2>1
  <2>5. made' = made /\ ~Fresh
    BY <1>4, <2>1
  <2> QED
    BY <1>3, <2>2, <2>3, <2>4, <2>5, CoveredKept
<1>16. CASE Acknowledge
  <2>1. /\ pc = "results" /\ pc' # "idle" /\ UNCHANGED <<made, pending, queue, replay>>
    BY <1>16 DEF Acknowledge, NextResult
  <2>2. ToCome = ToSet(replay) /\ ToSet(replay) \subseteq ToCome'
    BY <2>1 DEF ToCome, Sending
  <2>3. Behind' = Behind
    BY <1>5, <2>1
  <2>4. made' = made /\ ~Fresh
    BY <1>4, <2>1
  <2> QED
    BY <1>3, <2>2, <2>3, <2>4, CoveredKept
<1>17. CASE Refuse
  <2>1. /\ pc \in {"results", "invalid"} /\ UNCHANGED <<made, queue, replay, batch>>
        /\ pc' = IF pc = "results" THEN "removing" ELSE "evicting"
    BY <1>17 DEF Refuse
  <2>2. pending' = pending
    BY <1>17, DiscardsAreSettled
  <2>3. ToCome' = ToCome
    BY <2>1 DEF ToCome, Sending
  <2>4. Behind' = Behind
    BY <1>5, <2>1, <2>2
  <2>5. made' = made /\ ~Fresh
    BY <1>4, <2>1
  <2> QED
    BY <1>3, <2>3, <2>4, <2>5, CoveredKept
<1>18. CASE RefusedRemoved
  BY <1>18 DEF RefusedRemoved, OnlyMalformedIsRefused
<1>19. CASE CulpritRemoved
  <2>1. /\ pc = "evicting" /\ pc' \in {"ended", "restoring"}
        /\ batch' = Without(batch, {Head(todo)})
        /\ pc' = "ended" => batch' = <<>>
        /\ UNCHANGED <<made, pending, queue, replay>>
    BY <1>19 DEF CulpritRemoved
  <2>2. Head(todo) \in Settled
    BY <2>1 DEF Inv, SettledInv, RefusalIsReported, Settled
  <2>3. ToSet(batch') = ToSet(batch) \ {Head(todo)}
    BY <1>1, <2>1, WithoutDropsTheSet
  <2>4. ToCome = ToSet(replay) \cup ToSet(batch) /\ ToSet(replay) \cup ToSet(batch') \subseteq ToCome'
    BY <1>2, <2>1 DEF ToCome, Sending
  <2>5. Behind' = Behind
    BY <1>5, <2>1
  <2>6. made' = made /\ ~Fresh
    BY <1>4, <2>1
  <2> QED
    BY <1>3, <2>2, <2>3, <2>4, <2>5, <2>6, CoveredKept
<1>20. CASE Restore
  <2>1. pc = "restoring" /\ UNCHANGED <<made, pending, queue, replay>>
    BY <1>20 DEF Restore
  <2>2. ToCome = ToSet(replay) \cup ToSet(batch) /\ ToSet(replay) \subseteq ToCome'
    BY <2>1 DEF ToCome, Sending
  <2>3. Behind' = Behind /\ ToSet(batch) \subseteq ToCome' \cup discarded
    <3>1. CASE Len(todo) > 1
      <4>1. UNCHANGED <<pc, batch>>
        BY <1>20, <3>1 DEF Restore
      <4> QED
        BY <1>6, <2>1, <2>2, <4>1 DEF ToCome, Sending
    <3>2. CASE ~(Len(todo) > 1)
      <4>1. SendBatch(batch, backlog, {}, held)
        BY <1>20, <3>2 DEF Restore
      <4>2. pc' # "idle"
        BY <4>1 DEF SendBatch
      <4>3. {} \in SUBSET Tx /\ held \in SUBSET Tx
        BY <1>1
      <4> QED
        BY <1>1, <1>5, <2>1, <4>1, <4>2, <4>3, SendBatchCovers
    <3> QED
      BY <3>1, <3>2
  <2>4. made' = made /\ ~Fresh
    BY <1>4, <2>1
  <2> QED
    BY <1>3, <2>2, <2>3, <2>4, CoveredKept
<1>21. CASE EndSend
  <2>1. pc = "ended" /\ UNCHANGED <<made, pending>>
    BY <1>21 DEF EndSend
  <2>2. ToCome = ToSet(replay) \cup ToSet(backlog)
    BY <2>1 DEF ToCome, Sending
  <2>3. made' = made /\ ~Fresh
    BY <1>4, <2>1
  <2>4. CASE replay # <<>> /\ ~failed
    <3>1. SendSlice(replay, backlog) /\ UNCHANGED queue
      BY <1>21, <2>4 DEF EndSend
    <3>2. pc' # "idle"
      BY <3>1 DEF SendSlice, SendBatch
    <3>3. Behind' = Behind
      BY <1>5, <2>1, <3>1, <3>2
    <3>4. ToSet(backlog) \cup ToSet(replay) \subseteq ToCome' \cup discarded
      BY <1>1, <3>1, SendSliceCovers
    <3> QED
      BY <1>3, <2>2, <2>3, <3>3, <3>4, CoveredKept
  <2>5. CASE ~(replay # <<>> /\ ~failed)
    <3> DEFINE j == [kind |-> "replay", txs |-> <<>>]
    <3>1. FinishJob /\ UNCHANGED backlog /\ queue # <<>> /\ j \in Job
      BY <1>1, <1>21, <2>5, EmptySeq DEF EndSend, JobInv, Job
    <3>2. pc' = "idle" /\ (queue' = Tail(queue) \/ queue' = Append(Tail(queue), j))
      BY <1>1, <3>1, FinishJobEffect
    <3>3. JobTxs(queue') = JobTxs(Tail(queue))
      <4>1. Tail(queue) \in Seq(Job) /\ ToSet(j.txs) = {}
        BY <1>1, <1>2, <3>1, JobTxsTail
      <4>2. JobTxs(Append(Tail(queue), j)) = JobTxs(Tail(queue)) \cup ToSet(j.txs)
        BY <3>1, <4>1, JobTxsAppend
      <4> QED
        BY <3>2, <4>1, <4>2
    <3> HIDE DEF j
    <3>4. Behind' = Behind
      BY <2>1, <3>2, <3>3 DEF Behind, NotBegun
    <3>5. replay = <<>>
      BY <2>5 DEF FrontAscends
    <3>6. ToSet(backlog) \subseteq ToCome'
      BY <3>1, <3>2 DEF ToCome
    <3> QED
      BY <1>2, <1>3, <2>2, <2>3, <3>4, <3>5, <3>6, CoveredKept
  <2> QED
    BY <2>4, <2>5
<1>22. CASE TransportFails \/ BatchRefused
  <2>1. /\ pc = "awaiting" /\ pc' \in {"failing", "invalid"}
        /\ UNCHANGED <<made, pending, queue, replay, batch>>
    BY <1>22 DEF TransportFails, BatchRefused
  <2>2. ToCome' = ToCome
    BY <2>1 DEF ToCome, Sending
  <2>3. Behind' = Behind
    BY <1>5, <2>1
  <2>4. made' = made /\ ~Fresh
    BY <1>4, <2>1
  <2> QED
    BY <1>3, <2>2, <2>3, <2>4, CoveredKept
<1>23. CASE \/ ServerTakesNext \/ ServerTakesLate \/ PacketArrives \/ ReadOutbox \/ CommitPacket
            \/ RebaseRead \/ ConfirmRead \/ CompleteRead \/ UNCHANGED vars
  <2>1. /\ UNCHANGED <<made, queue, replay, batch, backlog, pc>>
        /\ drain' = drain \/ (drain = "rehydrate" /\ drain' = "start")
    BY <1>23 DEF ServerTakesNext, ServerTakesLate, PacketArrives, ReadOutbox, CommitPacket,
       RebaseRead, ConfirmRead, CompleteRead
  <2>2. pending' = pending
    <3>1. RebaseRead \/ ConfirmRead \/ CompleteRead => pending' = pending
      BY DiscardsAreSettled
    <3> QED
      BY <1>23, <3>1 DEF ServerTakesNext, ServerTakesLate, PacketArrives, ReadOutbox, CommitPacket
  <2>3. ToCome' = ToCome /\ Behind' = Behind
    BY <1>6, <2>1, <2>2 DEF ToCome
  <2>4. Fresh => Fresh'
    BY <2>1 DEF Fresh
  <2> QED
    BY <1>3, <2>1, <2>3, <2>4, CoveredKept
<1>24. CASE LoserRemoved \/ SettledRemoved
  <2>1. UNCHANGED <<made, queue, replay, batch, pc, drain>> /\ RemoveRow(pktTx)
    BY <1>24 DEF LoserRemoved, SettledRemoved
  <2>2. pending' = pending
    BY <1>24, DiscardsAreSettled
  <2>3. pktTx \in Settled
    BY <1>24 DEF LoserRemoved, SettledRemoved, Inv, SettledInv, PacketSettles
  <2>4. ToSet(backlog') = ToSet(backlog) \ {pktTx}
    BY <1>1, <2>1, WithoutDropsTheSet DEF RemoveRow
  <2>5. ToCome \subseteq ToCome' \cup {pktTx} /\ Behind' = Behind
    BY <1>6, <2>1, <2>2, <2>4 DEF ToCome
  <2>6. Fresh => Fresh'
    BY <2>1 DEF Fresh
  <2> QED
    BY <1>3, <2>1, <2>3, <2>5, <2>6, CoveredKept
<1>25. CASE Restart
  <2>1. drain' = "rehydrate"
    BY <1>25 DEF Restart
  <2> QED
    BY <2>1 DEF Covered, Fresh
<1> QED
  BY <1>7, <1>8, <1>9, <1>10, <1>11, <1>12, <1>13, <1>14, <1>15, <1>16, <1>17, <1>18, <1>19,
     <1>20, <1>21, <1>22, <1>23, <1>24, <1>25 DEF Next, RunJob, ApplyPacket

-----------------------------------------------------------------------------
(* RequestsReady *)

\* A request stays in order as transactions are made and settled, and so does
\* what is left of it when its head is settled.
LEMMA StillReady ==
  ASSUME NEW r \in Seq(Tx), Ready(r), ToSet(r) \subseteq 1 .. made,
         made \in Nat, made' = made \/ made' = made + 1, Settled \subseteq Settled'
  PROVE  /\ Ready(r)'
         /\ r # <<>> /\ Head(r) \in Settled' => Ready(Tail(r))'
<1>1. \A t \in ToSet(r) : \A u \in 1 .. t - 1 :
        t \in 1 .. made /\ u \in 1 .. made
  BY OutboxAssumption
<1>2. \A t \in ToSet(r) : \A u \in 1 .. t - 1 :
        t \notin Settled' /\ u \notin Settled' => u \in ToSet(r)
  BY <1>1 DEF Ready, Unsettled
<1>3. Ascending(r)
  BY DEF Ready
<1>4. Ready(r)'
  BY <1>2, <1>3 DEF Ready, Unsettled
<1>5. ASSUME r # <<>>, Head(r) \in Settled'
      PROVE  Ready(Tail(r))'
  <2>1. Tx \in SUBSET Nat
    BY OutboxAssumption DEF Tx
  <2>2. ToSet(r) = {Head(r)} \cup ToSet(Tail(r)) /\ Ascending(Tail(r))
    BY <1>3, <1>5, <2>1, HeadAndTail, ListsAscend
  <2>3. \A t \in ToSet(Tail(r)) : \A u \in 1 .. t - 1 :
          t \notin Settled' /\ u \notin Settled' => u \in ToSet(Tail(r))
    BY <1>2, <1>5, <2>2
  <2> QED
    BY <2>2, <2>3 DEF Ready, Unsettled
<1> QED
  BY <1>4, <1>5

\* An empty request is in order.
LEMMA NothingIsReady == Ready(<<>>) /\ Ready(<<>>)'
<1>1. Ascending(<<>>) /\ ToSet(<<>>) = {}
  BY NoJobsNoTxs DEF Ascending
<1> QED
  BY <1>1 DEF Ready

\* What the running job sends is in order.
LEMMA BatchIsReady ==
  ASSUME Inv, OrderAssumption, OnlyMalformedIsRefused, BehindIsLast, FrontAscends, Starting, Covered,
         pc = "marking"
  PROVE  Ready(Without(batch, discarded))
<1> DEFINE sending == Without(batch, discarded)
<1>1. /\ batch \in Seq(Tx) /\ Tx \in SUBSET Nat /\ made \in Nat /\ ToSet(batch) \subseteq held
      /\ held \subseteq 1 .. made /\ held \cap Behind = {}
  BY OutboxAssumption DEF Inv, TypeOK, JobTypeOK, HistoryTypeOK, Tx, SenderInv, AtFront
<1>2. /\ ToSet(sending) = ToSet(batch) \ discarded /\ Ascending(sending)
  BY <1>1, WithoutDropsTheSet, WithoutAscends DEF FrontAscends
<1> HIDE DEF sending
<1>3. ASSUME NEW t \in ToSet(sending), NEW u \in 1 .. t - 1, Unsettled(u)
      PROVE  u \in ToSet(sending)
  <2>1. t \in held /\ t \in 1 .. made /\ t \notin Behind
    BY <1>1, <1>2
  <2>2. u \in 1 .. made /\ u < t
    BY <1>1, <2>1
  <2>3. u \in Behind \cup ToCome
    BY <1>3, <2>2, RunningIsNotFresh DEF Covered
  <2>4. u \notin Behind
    BY <1>1, <2>1, <2>2 DEF BehindIsLast
  <2>5. u \notin ToSet(replay)
    BY <1>1, <2>1, <2>2 DEF FrontAscends
  <2>6. u \in ToSet(batch)
    BY <2>3, <2>4, <2>5 DEF ToCome, Sending
  <2>7. u \notin discarded
    BY <1>3 DEF Unsettled, OnlyMalformedIsRefused
  <2> QED
    BY <1>2, <2>6, <2>7
<1>4. Ready(sending)
  BY <1>2, <1>3 DEF Ready
<1> QED
  BY <1>4 DEF sending

\* Every step preserves it.
LEMMA RequestsStep ==
  ASSUME Inv, Inv', OrderAssumption, OnlyMalformedIsRefused, BehindIsNew, BehindIsLast,
         FrontAscends, Starting, Covered, RequestsReady, [Next]_vars
  PROVE  RequestsReady'
<1> USE DEF vars, storageVars, listVars, claimVars, indexVars, jobVars,
            serverVars, pktVars, historyVars
<1>1. /\ request \in Seq(Tx) /\ log \in Seq(Tx) /\ batch \in Seq(Tx) /\ made \in Nat
      /\ late \subseteq Seq(Tx) /\ <<>> \notin late
  BY OutboxAssumption DEF Inv, TypeOK, ServerTypeOK, JobTypeOK, HistoryTypeOK, JobInv
<1>2. ToSet(request) \subseteq 1 .. made /\ \A r \in late : ToSet(r) \subseteq 1 .. made
  BY DEF Inv, PassedInv, KnownAreMade
<1>3. Settled \subseteq Settled' /\ ToSet(log) \subseteq ToSet(log') /\ ToSet(log') \subseteq Settled'
  BY SettledStays DEF Settled
<1>4. made' = made \/ made' = made + 1
  BY BehindGrows
<1>5. \A r \in Seq(Tx) : Ready(r) /\ ToSet(r) \subseteq 1 .. made =>
        /\ Ready(r)'
        /\ r # <<>> /\ Head(r) \in Settled' => Ready(Tail(r))'
  BY <1>1, <1>3, <1>4, StillReady
<1>6. \A r \in late : Ready(r)' /\ (Head(r) \in Settled' => Ready(Tail(r))')
  BY <1>1, <1>2, <1>5 DEF RequestsReady
<1>7. request' = request => Ready(request)'
  <2>1. /\ Ascending(request)
        /\ \A t \in ToSet(request) : \A u \in 1 .. t - 1 :
             Unsettled(t)' /\ Unsettled(u)' => u \in ToSet(request)
    BY <1>1, <1>2, <1>5 DEF RequestsReady, Ready
  <2> QED
    BY <2>1 DEF Ready
<1>8. request' = <<>> => Ready(request)'
  BY NothingIsReady DEF Ready
<1>9. ASSUME UNCHANGED <<request, late, log>>,
             \/ UNCHANGED <<pc, batch>>
             \/ pc' \notin {"awaiting", "results", "requeueing"}
             \/ pc' \in {"results", "requeueing"} /\ ToSet(batch') \subseteq ToSet(log)
      PROVE  RequestsReady'
  <2>1. \A r \in late' : Ready(r)'
    BY <1>6, <1>9
  <2>2. /\ pc' = "awaiting" => ToSet(batch') \subseteq ToSet(request') \cup ToSet(log')
        /\ pc' \in {"results", "requeueing"} => ToSet(batch') \subseteq ToSet(log')
    BY <1>9 DEF RequestsReady
  <2> QED
    BY <1>7, <1>9, <2>1, <2>2 DEF RequestsReady
<1>10. CASE \/ StartSendJob \/ StartReplayJob \/ OutboxRead \/ ResetSent
           \/ CulpritRemoved \/ Restore \/ EndSend \/ Refuse
  <2>1. UNCHANGED <<request, late, log>>
    BY <1>10 DEF StartSendJob, StartReplayJob, OutboxRead, ResetSent, CulpritRemoved, Restore, EndSend, Refuse
  <2>2. UNCHANGED <<pc, batch>> \/ pc' \notin {"awaiting", "results", "requeueing"}
    BY <1>10 DEF StartSendJob, StartReplayJob, OutboxRead, ResetSent, CulpritRemoved, Restore, EndSend,
       Refuse, SendBatch, SendSlice, FinishJob
  <2> QED
    BY <1>9, <2>1, <2>2
<1>11. CASE \/ QueueTransaction \/ BatchTimerFires \/ DrainStart \/ PacketArrives
            \/ ReadOutbox \/ CommitPacket \/ RebaseRead \/ LoserRemoved \/ ConfirmRead
            \/ CompleteRead \/ SettledRemoved \/ UNCHANGED vars
  <2>1. UNCHANGED <<request, late, log, pc, batch>>
    BY <1>11 DEF QueueTransaction, BatchTimerFires, DrainStart, PacketArrives, ReadOutbox,
       CommitPacket, RebaseRead, LoserRemoved, ConfirmRead, CompleteRead, SettledRemoved
  <2> QED
    BY <1>9, <2>1
<1>12. CASE ReplyArrives
  <2>1. /\ pc = "awaiting" /\ request = <<>> /\ UNCHANGED <<request, late, log, batch>>
        /\ pc' \in {"results", "requeueing"}
    BY <1>12 DEF ReplyArrives
  <2>2. ToSet(batch) \subseteq ToSet(log)
    BY <2>1, NoJobsNoTxs DEF RequestsReady
  <2> QED
    BY <1>9, <2>1, <2>2
<1>13. CASE Acknowledge \/ Requeue
  <2>1. /\ UNCHANGED <<request, late, log, batch>>
        /\ pc = "results" \/ UNCHANGED pc \/ pc' = "ended"
        /\ pc' # "awaiting"
    BY <1>13 DEF Acknowledge, Requeue, NextResult
  <2>2. pc = "results" => ToSet(batch) \subseteq ToSet(log)
    BY DEF RequestsReady
  <2> QED
    BY <1>9, <2>1, <2>2
<1>14. CASE RefusedRemoved
  BY <1>14 DEF RefusedRemoved, OnlyMalformedIsRefused
<1>15. CASE TransportFails \/ BatchRefused \/ Restart
  <2>1. /\ request' = <<>> /\ late' \subseteq late \cup {request}
        /\ pc' \notin {"awaiting", "results", "requeueing"}
    BY <1>15 DEF TransportFails, BatchRefused, Restart
  <2>2. Ready(request) /\ ToSet(request) \subseteq 1 .. made
    BY <1>2 DEF RequestsReady
  <2>3. \A r \in late \cup {request} : r \in Seq(Tx) /\ Ready(r) /\ ToSet(r) \subseteq 1 .. made
    BY <1>1, <1>2, <2>2 DEF RequestsReady
  <2>4. \A r \in late' : Ready(r)'
    BY <1>5, <2>1, <2>3
  <2> QED
    BY <1>8, <2>1, <2>4 DEF RequestsReady
<1>16. CASE MarkSent
  <2> DEFINE sending == Without(batch, discarded)
  <2>1. pc = "marking" /\ UNCHANGED <<late, log, made>>
    BY <1>16 DEF MarkSent
  <2>2. CASE pc' = "awaiting"
    <3>1. batch' = sending /\ request' = sending
      BY <1>16, <2>1, <2>2 DEF MarkSent
    <3>2. /\ Ready(sending) /\ sending \in Seq(Tx) /\ ToSet(sending) \subseteq 1 .. made
      <4>1. Ready(sending)
        BY <2>1, BatchIsReady
      <4>2. sending \in Seq(Tx) /\ ToSet(sending) \subseteq ToSet(batch)
        BY <1>1, WithoutDropsTheSet
      <4>3. ToSet(batch) \subseteq 1 .. made
        BY DEF Inv, SenderInv, AtFront
      <4> QED
        BY <4>1, <4>2, <4>3
    <3> HIDE DEF sending
    <3>3. /\ Ascending(sending)
          /\ \A t \in ToSet(sending) : \A u \in 1 .. t - 1 :
               Unsettled(t)' /\ Unsettled(u)' => u \in ToSet(sending)
      BY <1>5, <3>2 DEF Ready
    <3>4. Ready(request)'
      BY <3>1, <3>3 DEF Ready
    <3>5. \A r \in late' : Ready(r)'
      BY <1>6, <2>1
    <3> QED
      BY <2>2, <3>1, <3>4, <3>5 DEF RequestsReady
  <2>3. CASE pc' # "awaiting"
    <3>1. UNCHANGED <<request, late, log>> /\ (UNCHANGED <<pc, batch>> \/ pc' = "ended")
      BY <1>16, <2>3 DEF MarkSent
    <3> QED
      BY <1>9, <3>1
  <2> QED
    BY <2>2, <2>3
<1>17. CASE ServerTakesNext
  <2>1. /\ request # <<>> /\ request' = Tail(request) /\ UNCHANGED <<late, pc, batch>>
        /\ \E outcome \in ServerOutcome(Head(request)) : log' = outcome[2]
    BY <1>17 DEF ServerTakesNext
  <2>2. Head(request) \in Tx /\ ToSet(request) = {Head(request)} \cup ToSet(Tail(request))
    BY <1>1, <2>1, HeadAndTail
  <2>3. Head(request) \in ToSet(log')
    BY <1>1, <2>1, <2>2, ServerAppliesEach
  <2>4. Ready(request)'
    <3> DEFINE rest == Tail(request)
    <3>1. /\ Ascending(rest)
          /\ \A t \in ToSet(rest) : \A u \in 1 .. t - 1 :
               Unsettled(t)' /\ Unsettled(u)' => u \in ToSet(rest)
      BY <1>1, <1>3, <1>4, <1>2, <2>1, <2>3, StillReady DEF RequestsReady, Ready
    <3> HIDE DEF rest
    <3>2. request' = rest
      BY <2>1 DEF rest
    <3> QED
      BY <3>1, <3>2 DEF Ready
  <2>5. \A r \in late' : Ready(r)'
    BY <1>6, <2>1
  <2>6. /\ pc' = "awaiting" => ToSet(batch') \subseteq ToSet(request') \cup ToSet(log')
        /\ pc' \in {"results", "requeueing"} => ToSet(batch') \subseteq ToSet(log')
    BY <1>3, <2>1, <2>2, <2>3 DEF RequestsReady
  <2> QED
    BY <2>4, <2>5, <2>6 DEF RequestsReady
<1>18. CASE ServerTakesLate
  <2>1. PICK r \in late :
          /\ \E outcome \in ServerOutcome(Head(r)) : log' = outcome[2]
          /\ late' \subseteq late \cup {Tail(r)}
          /\ UNCHANGED <<request, pc, batch>>
    BY <1>18 DEF ServerTakesLate
  <2>2. r \in Seq(Tx) /\ r # <<>> /\ Head(r) \in Tx
    BY <1>1, HeadAndTail
  <2>3. Head(r) \in ToSet(log')
    BY <1>1, <2>1, <2>2, ServerAppliesEach
  <2>4. \A s \in late' : Ready(s)'
    BY <1>3, <1>6, <2>1, <2>3
  <2>5. /\ pc' = "awaiting" => ToSet(batch') \subseteq ToSet(request') \cup ToSet(log')
        /\ pc' \in {"results", "requeueing"} => ToSet(batch') \subseteq ToSet(log')
    BY <1>3, <2>1 DEF RequestsReady
  <2> QED
    BY <1>7, <2>1, <2>4, <2>5 DEF RequestsReady
<1> QED
  BY <1>10, <1>11, <1>12, <1>13, <1>14, <1>15, <1>16, <1>17, <1>18 DEF Next, RunJob, ApplyPacket


-----------------------------------------------------------------------------
(* The refinement *)

\* At first everything is in order, there being nothing.
LEMMA OrderInit == Init => OrderInv
<1> SUFFICES ASSUME Init PROVE OrderInv
  OBVIOUS
<1>1. /\ queue = <<>> /\ pending = <<>> /\ backlog = <<>> /\ replay = <<>>
      /\ batch = <<>> /\ missed = <<>> /\ late = {} /\ log = <<>> /\ request = <<>>
      /\ held = {} /\ discarded = {} /\ dropped = {} /\ reported = {}
      /\ pc = "idle" /\ pktPc = "idle" /\ drain = "idle" /\ made = 0 /\ failed = FALSE
      /\ verdict = [t \in Tx |-> "none"]
  BY DEF Init
<1>2. ToSet(<<>>) = {} /\ JobTxs(<<>>) = {} /\ Ascending(<<>>) /\ DOMAIN <<>> = {}
  BY NoJobsNoTxs DEF Ascending
<1>3. Behind = {}
  BY <1>1, <1>2 DEF Behind, NotBegun
<1>4. OnlyMalformedIsRefused
  BY <1>1, <1>2 DEF OnlyMalformedIsRefused
<1>5. BehindIsNew /\ BehindIsLast
  BY <1>3 DEF BehindIsNew, BehindIsLast
<1>6. JobsAscend
  BY <1>1, <1>2 DEF JobsAscend, LineAscends, NotBegun
<1>7. FrontAscends
  BY <1>1, <1>2 DEF FrontAscends
<1>8. Starting
  BY <1>1 DEF Starting
<1>9. Covered
  BY <1>1 DEF Covered
<1>10. RequestsReady
  BY <1>1, NothingIsReady DEF RequestsReady
<1> QED
  BY <1>4, <1>5, <1>6, <1>7, <1>8, <1>9, <1>10 DEF OrderInv

\* Every step keeps everything in order.
LEMMA OrderStep ==
  ASSUME Inv, Inv', OrderAssumption, OrderInv, [Next]_vars
  PROVE  OrderInv'
<1>1. /\ OnlyMalformedIsRefused /\ BehindIsNew /\ BehindIsLast /\ JobsAscend
      /\ FrontAscends /\ Starting /\ Covered /\ RequestsReady
  BY DEF OrderInv
<1>2. OnlyMalformedIsRefused' /\ BehindIsNew' /\ BehindIsLast' /\ JobsAscend'
  BY <1>1, RefusalStep, NewStep, BehindStep
<1>3. FrontAscends' /\ Starting'
  BY <1>1, FrontStep, StartingStep
<1>4. Covered' /\ RequestsReady'
  BY <1>1, CoveredStep, RequestsStep
<1> QED
  BY <1>2, <1>3, <1>4 DEF OrderInv

\* What the server takes from a request in order it has applied, or applies
\* before anything made later.
LEMMA TakingIsApplying ==
  ASSUME Inv, OrderAssumption, OnlyMalformedIsRefused, NEW r \in Seq(Tx), r # <<>>, Ready(r),
         ToSet(r) \subseteq 1 .. made, ToSet(r) \cap Malformed = {},
         UNCHANGED <<made, dropped, reported>>,
         NEW outcome \in ServerOutcome(Head(r)), log' = outcome[2]
  PROVE  [Delivery!Next]_(Delivery!vars)
<1> DEFINE h == Head(r)
<1>1. /\ log \in Seq(Tx) /\ made \in Nat /\ Tx \in SUBSET Nat
  BY OutboxAssumption DEF Inv, TypeOK, ServerTypeOK, HistoryTypeOK, Tx
<1>2. h \in Tx /\ h \in ToSet(r) /\ h \in 1 .. made
  BY HeadAndTail
<1>3. \A t \in ToSet(r) : h <= t
  BY <1>1, HeadIsLeast DEF Ready
<1>4. ToSet(r) \subseteq Nat
  BY <1>1, ListsOf
<1> HIDE DEF h
<1>5. \A s : Delivery!ToSet(s) = ToSet(s)
  BY DEF Delivery!ToSet, ToSet
<1>6. CASE h \in ToSet(log)
  <2>1. log' = log
    BY <1>1, <1>2, <1>6, ServerAppliesEach DEF h
  <2> QED
    BY <2>1 DEF Delivery!vars
<1>7. CASE h \notin ToSet(log)
  <2>1. log' = Append(log, h)
    BY <1>1, <1>2, <1>7, ServerAppliesEach DEF h
  <2>2. h \notin dropped \cup reported
    BY <1>2 DEF OnlyMalformedIsRefused
  <2>3. Unsettled(h)
    BY <1>2, <1>7, <2>2 DEF Unsettled, Settled
  <2>4. ASSUME NEW u \in 1 .. h - 1
        PROVE  ~Unsettled(u)
    <3>1. u < h /\ u \in Nat /\ h \in Nat
      BY <1>1, <1>2
    <3>2. Unsettled(u) => u \in ToSet(r)
      BY <1>2, <2>3 DEF Ready
    <3> QED
      BY <1>3, <3>1, <3>2
  <2>5. \A u : Delivery!Alive(u) <=> Unsettled(u)
    BY <1>5 DEF Delivery!Alive, Unsettled, Settled
  <2>6. Delivery!Apply
    BY <1>2, <2>1, <2>3, <2>4, <2>5 DEF Delivery!Apply
  <2> QED
    BY <2>6 DEF Delivery!Next
<1> QED
  BY <1>6, <1>7

\* Every step of the outbox makes a write, withdraws one, applies one in order,
\* or changes nothing the application or the server sees.
LEMMA StepDelivers ==
  ASSUME Inv, Inv', OrderAssumption, OrderInv, [Next]_vars
  PROVE  [Delivery!Next]_(Delivery!vars)
<1> USE DEF vars, storageVars, listVars, claimVars, indexVars, jobVars,
            serverVars, pktVars, historyVars
<1>1. /\ request \in Seq(Tx) /\ log \in Seq(Tx) /\ todo \in Seq(Tx) /\ late \subseteq Seq(Tx)
      /\ <<>> \notin late
  BY DEF Inv, TypeOK, ServerTypeOK, JobTypeOK, JobInv
<1>2. ToSet(request) \subseteq 1 .. made /\ \A r \in late : ToSet(r) \subseteq 1 .. made
  BY DEF Inv, PassedInv, KnownAreMade
<1>3. /\ OnlyMalformedIsRefused /\ RequestsReady /\ BehindIsNew
      /\ Ready(request) /\ \A r \in late : Ready(r)
  BY DEF OrderInv, RequestsReady
<1>4. \A s : Delivery!ToSet(s) = ToSet(s)
  BY DEF Delivery!ToSet, ToSet
<1>5. CASE ServerTakesNext
  <2>1. /\ request # <<>> /\ ToSet(request) \cap Malformed = {}
        /\ UNCHANGED <<made, dropped, reported>>
        /\ \E outcome \in ServerOutcome(Head(request)) : log' = outcome[2]
    BY <1>5 DEF ServerTakesNext
  <2> QED
    BY <1>1, <1>2, <1>3, <2>1, TakingIsApplying
<1>6. CASE ServerTakesLate
  <2>1. PICK r \in late :
          /\ ToSet(r) \cap Malformed = {}
          /\ UNCHANGED <<made, dropped, reported>>
          /\ \E outcome \in ServerOutcome(Head(r)) : log' = outcome[2]
    BY <1>6 DEF ServerTakesLate
  <2> QED
    BY <1>1, <1>2, <1>3, <2>1, TakingIsApplying
<1>7. CASE Refuse
  <2> DEFINE t == Head(todo)
  <2>1. /\ pc \in {"results", "invalid"} /\ (pc = "results" => verdict[t] = "refused")
        /\ reported' = reported \cup {t} /\ UNCHANGED <<made, log, dropped>>
    BY <1>7 DEF Refuse
  <2>2. todo # <<>> /\ t \in Tx
    <3>1. todo # <<>>
      BY <2>1 DEF Inv, JobInv, Loops
    <3> QED
      BY <1>1, <3>1, HeadAndTail
  <2>3. t \in Malformed /\ t \notin ToSet(log)
    BY <1>3, <2>1, <2>2 DEF OnlyMalformedIsRefused
  <2>4. t \in 1 .. made
    <3>1. t \in ToSet(todo) /\ ToSet(todo) \subseteq ToSet(batch)
      BY <1>1, <2>1, <2>2, HeadAndTail DEF Inv, TodoInv
    <3> QED
      BY <3>1 DEF Inv, SenderInv, AtFront
  <2> HIDE DEF t
  <2>5. CASE t \in reported
    <3>1. reported' = reported
      BY <2>1, <2>5
    <3> QED
      BY <2>1, <3>1 DEF Delivery!vars
  <2>6. CASE t \notin reported
    <3>1. Delivery!Alive(t)
      BY <1>3, <1>4, <2>3, <2>4, <2>6 DEF Delivery!Alive, OnlyMalformedIsRefused
    <3>2. (dropped \cup reported)' = (dropped \cup reported) \cup {t}
      BY <2>1
    <3> QED
      BY <2>1, <2>4, <3>1, <3>2 DEF Delivery!Withdraw, Delivery!Next
  <2> QED
    BY <2>5, <2>6
<1>8. CASE QueueTransaction
  <2>1. made < NumTx /\ made' = made + 1 /\ UNCHANGED <<log, dropped, reported>>
    BY <1>8 DEF QueueTransaction
  <2> QED
    BY <2>1 DEF Delivery!Write, Delivery!Next
<1>9. CASE \/ RebaseRead \/ LoserRemoved \/ ConfirmRead \/ CompleteRead \/ SettledRemoved
  <2>1. UNCHANGED <<made, log, reported>>
    BY <1>9 DEF RebaseRead, LoserRemoved, ConfirmRead, CompleteRead, SettledRemoved
  <2>2. UNCHANGED dropped
    BY <1>3, <1>9, DiscardsAreSettled
  <2> QED
    BY <2>1, <2>2 DEF Delivery!vars
<1>10. CASE \/ BatchTimerFires \/ DrainStart \/ StartSendJob \/ StartReplayJob \/ OutboxRead
            \/ ResetSent \/ MarkSent \/ Requeue \/ ReplyArrives \/ Acknowledge \/ RefusedRemoved
            \/ CulpritRemoved \/ Restore \/ EndSend \/ TransportFails \/ BatchRefused
            \/ PacketArrives \/ ReadOutbox \/ CommitPacket \/ Restart \/ UNCHANGED vars
  <2>1. UNCHANGED <<made, log, dropped, reported>>
    BY <1>10 DEF BatchTimerFires, DrainStart, StartSendJob, StartReplayJob, OutboxRead,
       ResetSent, MarkSent, Requeue, ReplyArrives, Acknowledge, RefusedRemoved,
       CulpritRemoved, Restore, EndSend, TransportFails, BatchRefused,
       PacketArrives, ReadOutbox, CommitPacket, Restart
  <2> QED
    BY <2>1 DEF Delivery!vars
<1> QED
  BY <1>5, <1>6, <1>7, <1>8, <1>9, <1>10 DEF Next, RunJob, ApplyPacket

\* Writes reach the server in the order they were made.
THEOREM WritesAreDeliveredInOrder == ASSUME OrderAssumption PROVE Spec => DeliversInOrder
<1>1. Init => Inv /\ OrderInv /\ Delivery!Init
  <2>1. Init => Delivery!Init
    BY DEF Init, Delivery!Init
  <2> QED
    BY <2>1, InvInit, OrderInit
<1>2. Inv /\ OrderInv /\ [Next]_vars => (Inv /\ OrderInv)'
  BY InvStep, OrderStep
<1>3. Inv /\ Inv' /\ OrderInv /\ [Next]_vars => [Delivery!Next]_(Delivery!vars)
  BY StepDelivers
<1> QED
  BY <1>1, <1>2, <1>3, PTL DEF Spec, DeliversInOrder, Delivery!Spec

-----------------------------------------------------------------------------
(* DropInv: what a conflict drops was never sent *)

\* What happens when nothing fails and nothing drains the outbox.
LEMMA OnceSteps ==
  ASSUME Inv, DropAssumption, SentOnce, [Next]_vars
  PROVE  \/ QueueTransaction \/ BatchTimerFires \/ StartSendJob \/ MarkSent \/ ReplyArrives
         \/ Acknowledge \/ Refuse \/ RefusedRemoved \/ CulpritRemoved \/ Restore \/ EndSend
         \/ BatchRefused \/ ServerTakesNext \/ PacketArrives \/ RebaseRead \/ LoserRemoved
         \/ ReadOutbox \/ ConfirmRead \/ CompleteRead \/ SettledRemoved \/ CommitPacket
         \/ UNCHANGED vars
<1>1. failures \in Nat /\ restarts \in Nat /\ queue \in Seq(Job)
  BY DEF Inv, TypeOK, HistoryTypeOK, ListTypeOK
<1>2. ~DrainStart
  BY DEF DrainStart, SentOnce, DropAssumption
<1>3. ~StartReplayJob
  <2>1. queue # <<>> => Head(queue).kind = "send"
    BY <1>1 DEF SentOnce
  <2> QED
    BY <2>1 DEF StartReplayJob
<1>4. ~OutboxRead /\ ~ResetSent /\ ~Requeue
  BY DEF OutboxRead, ResetSent, Requeue, SentOnce
<1>5. ~TransportFails /\ ~Restart
  BY <1>1 DEF TransportFails, Restart, DropAssumption
<1>6. ~ServerTakesLate
  BY DEF ServerTakesLate, SentOnce
<1> QED
  BY <1>2, <1>3, <1>4, <1>5, <1>6 DEF Next, RunJob, ApplyPacket

\* A job ends, and the next one is again a batch from pendingBatch.
LEMMA OnceStep ==
  ASSUME Inv, DropAssumption, SentOnce, [Next]_vars
  PROVE  SentOnce'
<1> USE DEF vars, storageVars, listVars, claimVars, indexVars, jobVars,
            serverVars, pktVars, historyVars
<1>1. /\ queue \in Seq(Job) /\ pending \in Seq(Tx) /\ batch \in Seq(Tx) /\ backlog \in Seq(Tx)
      /\ todo \in Seq(Tx) /\ held \subseteq Tx /\ discarded \subseteq Tx /\ claimed \subseteq Tx
  BY DEF Inv, TypeOK, ListTypeOK, JobTypeOK, ClaimTypeOK
<1>2. Without(<<>>, {}) \in Seq(Tx) /\ \A t : Without(<<>>, {t}) = <<>>
  <2>1. <<>> \in Seq(Tx) /\ ToSet(<<>>) = {}
    BY EmptySeq, NoJobsNoTxs
  <2> QED
    BY <2>1, WithoutDropsTheSet, WithoutKeepsTheRest
<1>3. ASSUME UNCHANGED <<drain, queue, pc, replay, backlog, missed, late>>
      PROVE  SentOnce'
  BY <1>3 DEF SentOnce
<1>4. ASSUME UNCHANGED <<drain, queue, replay, missed, late>>, backlog' = <<>>,
             pc' \notin {"reading", "resetting", "failing", "requeueing"}
      PROVE  SentOnce'
  BY <1>4 DEF SentOnce
<1>5. ASSUME UNCHANGED <<drain, pc, replay, backlog, missed, late>>,
             NEW j \in Job, j.kind = "send", queue' = Append(queue, j)
      PROVE  SentOnce'
  <2>1. \A i \in DOMAIN queue' : queue'[i] = j \/ (i \in DOMAIN queue /\ queue'[i] = queue[i])
    BY <1>1, <1>5, HeadOfAppend
  <2> QED
    BY <1>5, <2>1 DEF SentOnce
<1>6. CASE QueueTransaction
  <2> DEFINE j == [kind |-> "send", txs |-> Append(pending, made + 1)]
  <2>1. UNCHANGED <<drain, pc, replay, backlog, missed, late>> /\ (queue' = queue \/ queue' = Append(queue, j))
    BY <1>6 DEF QueueTransaction
  <2>2. j \in Job /\ j.kind = "send"
    <3>1. made + 1 \in Tx
      BY <1>6, OutboxAssumption DEF QueueTransaction, Tx, Inv, TypeOK, HistoryTypeOK
    <3>2. Append(pending, made + 1) \in Seq(Tx)
      BY <1>1, <3>1
    <3> QED
      BY <3>2 DEF Job
  <2> HIDE DEF j
  <2> QED
    BY <1>3, <1>5, <2>1, <2>2
<1>7. CASE BatchTimerFires
  <2> DEFINE j == [kind |-> "send", txs |-> pending]
  <2>1. UNCHANGED <<drain, pc, replay, backlog, missed, late>> /\ (queue' = queue \/ queue' = Append(queue, j))
    BY <1>7 DEF BatchTimerFires, Dispatch
  <2>2. j \in Job /\ j.kind = "send"
    BY <1>1 DEF Job
  <2> HIDE DEF j
  <2> QED
    BY <1>3, <1>5, <2>1, <2>2
<1>8. CASE StartSendJob \/ Restore
  <2>1. UNCHANGED <<drain, queue, replay, missed, late>>
    BY <1>8 DEF StartSendJob, Restore
  <2>2. \/ UNCHANGED <<pc, backlog>>
        \/ backlog' = <<>> /\ pc' \in {"ended", "marking"}
    BY <1>8 DEF StartSendJob, Restore, SendBatch, BacklogAfterTake
  <2> QED
    BY <1>3, <1>4, <2>1, <2>2
<1>9. CASE MarkSent \/ Refuse \/ BatchRefused
  <2>1. UNCHANGED <<drain, queue, replay, missed, late, backlog>>
    BY <1>9 DEF MarkSent, Refuse, BatchRefused
  <2>2. pc' \in {pc, "ended", "awaiting", "removing", "evicting", "invalid"}
    BY <1>9 DEF MarkSent, Refuse, BatchRefused
  <2> QED
    BY <1>4, <2>1, <2>2 DEF SentOnce
<1>10. CASE ReplyArrives
  <2>1. /\ UNCHANGED <<drain, queue, replay, late, backlog>> /\ pc = "awaiting"
        /\ missed' = Without(batch, ToSet(batch) \ {})
        /\ {} # ToSet(batch) => pc' = "results"
    BY <1>10 DEF ReplyArrives, DropAssumption
  <2>2. Without(batch, ToSet(batch)) \in Seq(Tx) /\ ToSet(Without(batch, ToSet(batch))) = {}
    BY <1>1, WithoutDropsTheSet
  <2>3. missed' = <<>>
    BY <2>1, <2>2, ListsOf
  <2>4. ToSet(batch) # {}
    BY <1>1, <2>1, HeadAndTail DEF Inv, JobInv
  <2> QED
    BY <2>1, <2>3, <2>4 DEF SentOnce
<1>11. CASE Acknowledge \/ RefusedRemoved \/ CulpritRemoved
  <2>1. UNCHANGED <<drain, queue, replay, missed, late>>
    BY <1>11 DEF Acknowledge, RefusedRemoved, CulpritRemoved
  <2>2. backlog' = <<>>
    BY <1>2, <1>11 DEF Acknowledge, RefusedRemoved, CulpritRemoved, RemoveRow, SentOnce
  <2>3. pc' \in {"results", "ended", "restoring"}
    BY <1>11 DEF Acknowledge, RefusedRemoved, CulpritRemoved, NextResult, SentOnce
  <2> QED
    BY <1>4, <2>1, <2>2, <2>3
<1>12. CASE EndSend
  <2>1. FinishJob /\ UNCHANGED <<backlog, late>> /\ missed' = <<>> /\ pc = "ended"
    BY <1>12 DEF EndSend, SentOnce
  <2>2. queue # <<>> /\ Head(queue) = queue[1] /\ Head(queue).kind = "send"
    <3>1. queue # <<>>
      BY <2>1 DEF Inv, JobInv
    <3>2. 1 \in DOMAIN queue /\ Head(queue) = queue[1]
      BY <1>1, <3>1
    <3> QED
      BY <3>1, <3>2 DEF SentOnce
  <2>3. queue' = Tail(queue) /\ UNCHANGED drain /\ replay' = <<>> /\ pc' = "idle"
    BY <2>1, <2>2 DEF FinishJob
  <2>4. \A i \in DOMAIN Tail(queue) : i + 1 \in DOMAIN queue /\ Tail(queue)[i] = queue[i + 1]
    BY <1>1, <2>2
  <2> QED
    BY <2>1, <2>3, <2>4 DEF SentOnce
<1>13. CASE \/ ServerTakesNext \/ PacketArrives \/ RebaseRead \/ LoserRemoved \/ ReadOutbox
            \/ ConfirmRead \/ CompleteRead \/ SettledRemoved \/ CommitPacket \/ UNCHANGED vars
  <2>1. UNCHANGED <<drain, queue, pc, replay, missed, late>>
    BY <1>13 DEF ServerTakesNext, PacketArrives, RebaseRead, LoserRemoved, ReadOutbox,
       ConfirmRead, CompleteRead, SettledRemoved, CommitPacket, SentOnce
  <2>2. backlog' = <<>>
    BY <1>2, <1>13 DEF ServerTakesNext, PacketArrives, RebaseRead, LoserRemoved, ReadOutbox,
       ConfirmRead, CompleteRead, SettledRemoved, CommitPacket, RemoveRow, SentOnce
  <2> QED
    BY <1>4, <2>1, <2>2 DEF SentOnce
<1> QED
  BY <1>6, <1>7, <1>8, <1>9, <1>10, <1>11, <1>12, <1>13, OnceSteps

\* A claim is taken for a new transaction only, what a job takes was behind it,
\* and a discard is remembered as long as the claim.
LEMMA ClaimsMove ==
  ASSUME Inv, DropAssumption, SentOnce, [Next]_vars
  PROVE  /\ \/ made' = made /\ claimed' \subseteq claimed /\ claimed' \ held' \subseteq claimed \ held
            \/ /\ QueueTransaction /\ claimed' = claimed \cup {made + 1} /\ UNCHANGED held
         /\ discarded \cap claimed' \subseteq discarded'
<1> USE DEF vars, storageVars, listVars, claimVars, indexVars, jobVars,
            serverVars, pktVars, historyVars
<1>1. /\ queue \in Seq(Job) /\ pending \in Seq(Tx) /\ batch \in Seq(Tx) /\ backlog \in Seq(Tx)
      /\ held \subseteq Tx /\ discarded \subseteq Tx /\ claimed \subseteq Tx
      /\ claimed = Behind \cup held /\ ToSet(batch) \subseteq held /\ ToSet(pending) \subseteq Behind
  BY DEF Inv, TypeOK, ListTypeOK, JobTypeOK, ClaimTypeOK, SenderInv, Behind
<1>2. CASE QueueTransaction
  BY <1>2 DEF QueueTransaction
<1>3. CASE BatchTimerFires
  BY <1>1, <1>3 DEF BatchTimerFires, Dispatch
<1>4. CASE StartSendJob
  <2>1. /\ pc = "idle" /\ queue # <<>> /\ SendBatch(Head(queue).txs, backlog, {}, {})
        /\ UNCHANGED <<made, discarded>>
    BY <1>4 DEF StartSendJob
  <2>2. Head(queue).txs \in Seq(Tx) /\ ToSet(Head(queue).txs) \subseteq Behind
    BY <1>1, <2>1, JobTxsTail DEF Job, Behind, NotBegun
  <2>3. {} \in SUBSET Tx /\ ToSet(backlog) = {}
    BY NoJobsNoTxs DEF SentOnce
  <2>4. held' = ToSet(Head(queue).txs) /\ claimed' = claimed \cup ToSet(Head(queue).txs)
    <3>1. /\ held' = {} \cup ToSet(backlog) \cup ToSet(Head(queue).txs)
          /\ claimed' = (claimed \ {}) \cup ToSet(backlog) \cup ToSet(Head(queue).txs)
      BY <1>1, <2>1, <2>2, <2>3, SendBatchEffect
    <3> QED
      BY <2>3, <3>1
  <2>5. held = {}
    BY <2>1 DEF Inv, JobInv
  <2> QED
    BY <1>1, <2>1, <2>2, <2>4, <2>5
<1>5. CASE Restore
  <2>1. UNCHANGED <<made, discarded>> /\ (UNCHANGED <<held, claimed>> \/ SendBatch(batch, backlog, {}, held))
    BY <1>5 DEF Restore
  <2>2. {} \in SUBSET Tx /\ held \in SUBSET Tx /\ ToSet(backlog) = {}
    BY <1>1, NoJobsNoTxs DEF SentOnce
  <2>3. SendBatch(batch, backlog, {}, held) => held' = held \cup ToSet(batch) /\ claimed' = claimed \cup ToSet(batch)
    <3>1. SendBatch(batch, backlog, {}, held) =>
            /\ held' = held \cup ToSet(backlog) \cup ToSet(batch)
            /\ claimed' = (claimed \ {}) \cup ToSet(backlog) \cup ToSet(batch)
      BY <1>1, <2>2, SendBatchEffect
    <3> QED
      BY <2>2, <3>1
  <2> QED
    BY <1>1, <2>1, <2>3
<1>6. CASE EndSend
  BY <1>6 DEF EndSend, FinishJob, SentOnce
<1>7. CASE Refuse \/ RebaseRead \/ LoserRemoved \/ ConfirmRead \/ CompleteRead \/ SettledRemoved
  <2>1. UNCHANGED <<made, held>>
    BY <1>7 DEF Refuse, RebaseRead, LoserRemoved, ConfirmRead, CompleteRead, SettledRemoved
  <2>2. \/ UNCHANGED <<claimed, discarded>>
        \/ \E t : DiscardFromMemory(t)
    BY <1>7 DEF Refuse, RebaseRead, LoserRemoved, ConfirmRead, CompleteRead, SettledRemoved,
       BeginDiscard, NothingToDiscard
  <2>3. \A t : DiscardFromMemory(t) => claimed' \subseteq claimed /\ discarded \subseteq discarded'
    BY DEF DiscardFromMemory
  <2> QED
    BY <2>1, <2>2, <2>3
<1>8. CASE \/ MarkSent \/ ReplyArrives \/ Acknowledge \/ RefusedRemoved \/ CulpritRemoved
           \/ BatchRefused \/ ServerTakesNext \/ PacketArrives \/ ReadOutbox \/ CommitPacket
           \/ UNCHANGED vars
  BY <1>8 DEF MarkSent, ReplyArrives, Acknowledge, RefusedRemoved, CulpritRemoved,
     BatchRefused, ServerTakesNext, PacketArrives, ReadOutbox, CommitPacket
<1> QED
  BY <1>2, <1>3, <1>4, <1>5, <1>6, <1>7, <1>8, OnceSteps


\* What is behind the running job is what is claimed and not held.
LEMMA BehindIsClaimed == ASSUME SenderInv PROVE Behind = claimed \ held
BY DEF SenderInv, AtFront

-----------------------------------------------------------------------------
(* RequestIsUntaken *)

\* The server takes the head of a request, and nothing twice.
LEMMA TakenIsKnown ==
  ASSUME log \in Seq(Tx), NEW t \in Tx, NEW outcome \in ServerOutcome(t)
  PROVE  ToSet(outcome[2]) \subseteq ToSet(log) \cup {t}
<1>1. ToSet(Append(log, t)) = ToSet(log) \cup {t}
  BY AppendLists
<1>2. outcome[2] = log \/ outcome[2] = Append(log, t)
  BY DEF ServerOutcome
<1> QED
  BY <1>1, <1>2

\* What the server has and what it is being sent.
LEMMA KnownOnce ==
  ASSUME SentOnce
  PROVE  Known = ToSet(log) \cup ToSet(request)
BY DEF Known, SentOnce

\* A batch is refused before the server takes any of it, in every step.
LEMMA UntakenStep ==
  ASSUME Inv, DropAssumption, SentOnce, Unsent \cap Known = {}, RequestIsUntaken, [Next]_vars
  PROVE  RequestIsUntaken'
<1> USE DEF vars, storageVars, listVars, claimVars, indexVars, jobVars,
            serverVars, pktVars, historyVars
<1>1. /\ batch \in Seq(Tx) /\ request \in Seq(Tx) /\ log \in Seq(Tx) /\ IsInjective(batch)
  BY DEF Inv, TypeOK, JobTypeOK, ServerTypeOK, ListsInv
<1>2. IsInjective(<<>>) /\ ToSet(<<>>) = {}
  BY NoJobsNoTxs DEF IsInjective
<1>3. ASSUME UNCHANGED <<request, log>>,
             (UNCHANGED <<pc, batch>>) \/ (pc # "awaiting" /\ pc' # "awaiting") \/ (request = <<>> /\ pc' # "awaiting")
      PROVE  RequestIsUntaken'
  BY <1>3 DEF RequestIsUntaken
<1>4. CASE MarkSent
  <2> DEFINE sending == Without(batch, discarded)
  <2>1. CASE pc' = "awaiting"
    <3>1. pc = "marking" /\ batch' = sending /\ request' = sending /\ log' = log
      BY <1>4, <2>1 DEF MarkSent
    <3>2. IsInjective(sending) /\ ToSet(sending) \subseteq ToSet(batch)
      BY <1>1, WithoutRepeatsNothing, WithoutDropsTheSet
    <3> HIDE DEF sending
    <3>3. ToSet(batch) \cap ToSet(log) = {}
      BY <3>1, KnownOnce DEF Unsent
    <3> QED
      BY <2>1, <3>1, <3>2, <3>3 DEF RequestIsUntaken
  <2>2. CASE pc' # "awaiting"
    BY <1>3, <1>4, <2>2 DEF MarkSent
  <2> QED
    BY <2>1, <2>2
<1>5. CASE BatchRefused
  <2>1. pc' # "awaiting" /\ request' = <<>> /\ log' = log
    BY <1>5 DEF BatchRefused
  <2> QED
    BY <1>2, <2>1 DEF RequestIsUntaken
<1>6. CASE ServerTakesNext
  <2>1. /\ request # <<>> /\ ToSet(request) \cap Malformed = {} /\ request' = Tail(request)
        /\ \E outcome \in ServerOutcome(Head(request)) : log' = outcome[2]
        /\ UNCHANGED <<pc, batch>>
    BY <1>6 DEF ServerTakesNext
  <2>2. Head(request) \in Tx /\ ToSet(request) = {Head(request)} \cup ToSet(Tail(request))
    BY <1>1, <2>1, HeadAndTail
  <2>3. IsInjective(Tail(request)) /\ Head(request) \notin ToSet(Tail(request))
    BY <1>1, <2>1, ListsRepeatNothing DEF RequestIsUntaken
  <2>4. ToSet(log') \subseteq ToSet(log) \cup {Head(request)}
    BY <1>1, <2>1, <2>2, TakenIsKnown
  <2>5. pc' = "awaiting"
    BY <2>1 DEF RequestIsUntaken
  <2> QED
    BY <2>1, <2>2, <2>3, <2>4, <2>5 DEF RequestIsUntaken
<1>7. CASE ReplyArrives
  BY <1>3, <1>7 DEF ReplyArrives
<1>8. CASE \/ StartSendJob \/ Acknowledge \/ Refuse \/ RefusedRemoved \/ CulpritRemoved
           \/ Restore \/ EndSend
  <2>1. UNCHANGED <<request, log>> /\ pc # "awaiting"
    BY <1>8 DEF StartSendJob, Acknowledge, Refuse, RefusedRemoved, CulpritRemoved, Restore, EndSend
  <2>2. pc' # "awaiting"
    BY <1>8 DEF StartSendJob, Acknowledge, Refuse, RefusedRemoved, CulpritRemoved, Restore, EndSend,
       SendBatch, SendSlice, FinishJob, NextResult
  <2> QED
    BY <1>3, <2>1, <2>2
<1>9. CASE \/ QueueTransaction \/ BatchTimerFires \/ PacketArrives \/ RebaseRead \/ LoserRemoved
           \/ ReadOutbox \/ ConfirmRead \/ CompleteRead \/ SettledRemoved \/ CommitPacket
           \/ UNCHANGED vars
  <2>1. UNCHANGED <<request, log, pc, batch>>
    BY <1>9 DEF QueueTransaction, BatchTimerFires, PacketArrives, RebaseRead, LoserRemoved,
       ReadOutbox, ConfirmRead, CompleteRead, SettledRemoved, CommitPacket
  <2> QED
    BY <1>3, <2>1
<1> QED
  BY <1>4, <1>5, <1>6, <1>7, <1>8, <1>9, OnceSteps

-----------------------------------------------------------------------------
(* What is not sent yet *)

\* The server comes to know of a batch when it is sent.
LEMMA KnownMoves ==
  ASSUME Inv, DropAssumption, SentOnce, SentOnce', [Next]_vars
  PROVE  \/ Known' \subseteq Known
         \/ /\ MarkSent /\ pc' = "awaiting" /\ request' = Without(batch, discarded)
            /\ Known' \subseteq Known \cup (ToSet(batch) \ discarded)
<1> USE DEF vars, storageVars, listVars, claimVars, indexVars, jobVars,
            serverVars, pktVars, historyVars
<1>1. batch \in Seq(Tx) /\ request \in Seq(Tx) /\ log \in Seq(Tx) /\ ToSet(<<>>) = {}
  BY NoJobsNoTxs DEF Inv, TypeOK, JobTypeOK, ServerTypeOK
<1>2. Known = ToSet(log) \cup ToSet(request) /\ Known' = ToSet(log') \cup ToSet(request')
  BY DEF Known, SentOnce
<1>3. CASE ServerTakesNext
  <2>1. /\ request # <<>> /\ request' = Tail(request)
        /\ \E outcome \in ServerOutcome(Head(request)) : log' = outcome[2]
    BY <1>3 DEF ServerTakesNext
  <2>2. Head(request) \in Tx /\ ToSet(request) = {Head(request)} \cup ToSet(Tail(request))
    BY <1>1, <2>1, HeadAndTail
  <2>3. ToSet(log') \subseteq ToSet(log) \cup {Head(request)}
    BY <1>1, <2>1, <2>2, TakenIsKnown
  <2> QED
    BY <1>2, <2>1, <2>2, <2>3
<1>4. CASE MarkSent
  <2>1. /\ log' = log
        /\ \/ UNCHANGED request
           \/ pc' = "awaiting" /\ request' = Without(batch, discarded)
    BY <1>4 DEF MarkSent
  <2>2. ToSet(Without(batch, discarded)) = ToSet(batch) \ discarded
    BY <1>1, WithoutDropsTheSet
  <2> QED
    BY <1>2, <1>4, <2>1, <2>2
<1>5. CASE BatchRefused
  <2>1. log' = log /\ request' = <<>>
    BY <1>5 DEF BatchRefused
  <2> QED
    BY <1>1, <1>2, <2>1
<1>6. CASE ~ServerTakesNext /\ ~MarkSent /\ ~BatchRefused
  <2>1. UNCHANGED <<request, log>>
    BY <1>6, OnceSteps DEF QueueTransaction, BatchTimerFires, StartSendJob, ReplyArrives, Acknowledge,
       Refuse, RefusedRemoved, CulpritRemoved, Restore, EndSend, PacketArrives, RebaseRead,
       LoserRemoved, ReadOutbox, ConfirmRead, CompleteRead, SettledRemoved, CommitPacket
  <2> QED
    BY <1>2, <2>1
<1> QED
  BY <1>3, <1>4, <1>5, <1>6

\* No step makes the server know of what the running job has not sent.
LEMMA UnsentStep ==
  ASSUME Inv, Inv', DropAssumption, SentOnce, SentOnce', Unsent \cap Known = {}, RequestIsUntaken,
         [Next]_vars
  PROVE  (Unsent \cap Known = {})'
<1> USE DEF vars, storageVars, listVars, claimVars, indexVars, jobVars,
            serverVars, pktVars, historyVars
<1> DEFINE hasBatch == pc \in {"marking", "invalid", "evicting", "restoring"}
<1>1. /\ Behind = claimed \ held /\ Behind' = claimed' \ held' /\ held \cap Behind = {}
      /\ ToSet(batch) \subseteq held /\ made \in Nat
  <2>1. SenderInv /\ SenderInv'
    BY DEF Inv
  <2> QED
    BY <2>1, BehindIsClaimed, OutboxAssumption DEF SenderInv, AtFront, Inv, TypeOK, HistoryTypeOK
<1>2. Known \subseteq 1 .. made
  BY DEF Inv, PassedInv, KnownAreMade, Known
<1>3. Behind' \cap Known' = {}
  <2>1. CASE Behind' \subseteq Behind
    BY <1>1, <2>1, KnownMoves DEF Unsent
  <2>2. CASE QueueTransaction /\ Behind' = Behind \cup {made + 1}
    <3>1. Known' \subseteq Known
      BY <2>2, KnownMoves DEF QueueTransaction, MarkSent
    <3>2. made + 1 \notin Known
      BY <1>1, <1>2
    <3> QED
      BY <2>2, <3>1, <3>2 DEF Unsent
  <2> QED
    BY <1>1, <2>1, <2>2, ClaimsMove
<1>4. ASSUME pc' \in {"marking", "invalid", "evicting", "restoring"}
      PROVE  ToSet(batch') \cap Known' = {}
  <2>1. ASSUME hasBatch, ToSet(batch') \subseteq ToSet(batch), ~(MarkSent /\ pc' = "awaiting")
        PROVE  ToSet(batch') \cap Known' = {}
    BY <2>1, KnownMoves DEF Unsent
  <2>2. CASE StartSendJob
    <3>1. /\ pc = "idle" /\ queue # <<>> /\ SendBatch(Head(queue).txs, backlog, {}, {})
          /\ queue \in Seq(Job)
      BY <2>2 DEF StartSendJob, Inv, TypeOK, ListTypeOK
    <3>2. Head(queue).txs \in Seq(Tx) /\ ToSet(Head(queue).txs) \subseteq Behind
      BY <3>1, JobTxsTail DEF Job, Behind, NotBegun
    <3>3. /\ {} \in SUBSET Tx /\ ToSet(backlog) = {} /\ backlog \in Seq(Tx)
          /\ discarded \subseteq Tx /\ claimed \subseteq Tx
      BY NoJobsNoTxs DEF SentOnce, Inv, TypeOK, ListTypeOK, ClaimTypeOK
    <3>4. ToSet(batch') = ToSet(backlog) \cup ToSet(Head(queue).txs)
      BY <3>1, <3>2, <3>3, SendBatchEffect
    <3>5. Known' \subseteq Known
      BY <1>4, KnownMoves
    <3> QED
      BY <3>2, <3>3, <3>4, <3>5 DEF Unsent
  <2>3. CASE MarkSent
    BY <1>4, <2>1, <2>3 DEF MarkSent
  <2>4. CASE Refuse
    BY <1>4, <2>1, <2>4 DEF Refuse, MarkSent
  <2>5. CASE BatchRefused
    <3>1. pc = "awaiting" /\ batch' = batch /\ log' = log /\ request' = <<>> /\ ToSet(request) \cap Malformed # {}
      BY <2>5 DEF BatchRefused
    <3>2. Known' = ToSet(log)
      BY <3>1, NoJobsNoTxs DEF Known, SentOnce
    <3> QED
      BY <3>1, <3>2 DEF RequestIsUntaken
  <2>6. CASE CulpritRemoved
    <3>1. pc = "evicting" /\ batch' = Without(batch, {Head(todo)}) /\ batch \in Seq(Tx)
      BY <2>6 DEF CulpritRemoved, Inv, TypeOK, JobTypeOK
    <3>2. ToSet(batch') \subseteq ToSet(batch)
      BY <3>1, WithoutDropsTheSet
    <3> QED
      BY <1>4, <2>1, <3>1, <3>2
  <2>7. CASE Restore
    <3>1. pc = "restoring" /\ (UNCHANGED batch \/ SendBatch(batch, backlog, {}, held))
      BY <2>7 DEF Restore
    <3>2. /\ {} \in SUBSET Tx /\ held \in SUBSET Tx /\ ToSet(backlog) = {} /\ backlog \in Seq(Tx)
          /\ discarded \subseteq Tx /\ claimed \subseteq Tx /\ batch \in Seq(Tx)
      BY NoJobsNoTxs DEF SentOnce, Inv, TypeOK, ListTypeOK, ClaimTypeOK, JobTypeOK
    <3>3. SendBatch(batch, backlog, {}, held) => ToSet(batch') = ToSet(backlog) \cup ToSet(batch)
      BY <3>2, SendBatchEffect
    <3>4. ToSet(batch') = ToSet(batch)
      BY <3>1, <3>2, <3>3
    <3> QED
      BY <1>4, <2>1, <3>1, <3>4
  <2>8. CASE ReplyArrives \/ Acknowledge \/ RefusedRemoved \/ EndSend
    BY <1>4, <2>8 DEF ReplyArrives, Acknowledge, RefusedRemoved, EndSend, NextResult, FinishJob, SentOnce
  <2>9. CASE ServerTakesNext
    <3>1. request # <<>> /\ pc' = pc
      BY <2>9 DEF ServerTakesNext
    <3> QED
      BY <1>4, <3>1 DEF RequestIsUntaken
  <2>10. CASE \/ QueueTransaction \/ BatchTimerFires \/ PacketArrives \/ RebaseRead \/ LoserRemoved
              \/ ReadOutbox \/ ConfirmRead \/ CompleteRead \/ SettledRemoved \/ CommitPacket
              \/ UNCHANGED vars
    <3>1. UNCHANGED <<pc, batch>>
      BY <2>10 DEF QueueTransaction, BatchTimerFires, PacketArrives, RebaseRead, LoserRemoved,
         ReadOutbox, ConfirmRead, CompleteRead, SettledRemoved, CommitPacket
    <3> QED
      BY <1>4, <2>1, <3>1
  <2> QED
    BY <2>2, <2>3, <2>4, <2>5, <2>6, <2>7, <2>8, <2>9, <2>10, OnceSteps
<1> QED
  BY <1>3, <1>4 DEF Unsent

-----------------------------------------------------------------------------
(* KnownIsMarked *)

\* A row that becomes "queued" is new, or of a batch the server took nothing of.
LEMMA RowsRequeued ==
  ASSUME Inv, Inv', DropAssumption, SentOnce, [Next]_vars
  PROVE  \A t \in Tx : rows'[t] = "queued" =>
           \/ rows[t] = "queued"
           \/ QueueTransaction /\ t = made + 1
           \/ Restore /\ t \in ToSet(batch)
<1> USE DEF vars, storageVars, listVars, claimVars, indexVars, jobVars,
            serverVars, pktVars, historyVars
<1>1. rows \in [Tx -> RowState] /\ todo \in Seq(Tx) /\ backlog \in Seq(Tx) /\ localIds \subseteq Tx
  BY DEF Inv, TypeOK, StorageTypeOK, JobTypeOK, ListTypeOK, ClaimTypeOK
<1>2. pc \in Loops => Head(todo) \in Tx /\ Head(todo) \in ToSet(todo)
  BY <1>1, HeadAndTail DEF Inv, JobInv
<1>3. \A t \in Tx : \A state \in RowState \ {"none"} : \A u \in Tx :
        Touch(t, state)[u] = IF u = t /\ rows[t] # "none" THEN state ELSE rows[u]
  BY <1>1, TouchEffect
<1>4. \A t : RemoveRow(t) => \A u \in Tx : rows'[u] = IF u = t THEN "none" ELSE rows[u]
  BY <1>1, RemoveRowEffect
<1>5. CASE QueueTransaction
  BY <1>1, <1>5 DEF QueueTransaction
<1>6. CASE Restore
  <2>1. pc = "restoring" /\ rows' = Touch(Head(todo), "queued")
    BY <1>6 DEF Restore, Requeued
  <2>2. Head(todo) \in Tx /\ Head(todo) \in ToSet(batch)
    BY <1>2, <2>1 DEF Loops, Inv, TodoInv
  <2>3. \A u \in Tx : rows'[u] = IF u = Head(todo) /\ rows[Head(todo)] # "none" THEN "queued" ELSE rows[u]
    BY <1>3, <2>1, <2>2 DEF RowState
  <2> QED
    BY <1>6, <2>2, <2>3
<1>7. CASE MarkSent \/ Acknowledge \/ Refuse
  <2>1. /\ pc \in {"marking", "results", "invalid"}
        /\ \E state \in {"sent", "awaitingSync", "failed"} : rows' = Touch(Head(todo), state)
    BY <1>7 DEF MarkSent, Acknowledge, Refuse
  <2>2. Head(todo) \in Tx
    BY <1>2, <2>1 DEF Loops
  <2> QED
    BY <1>3, <2>1, <2>2 DEF RowState
<1>8. CASE RefusedRemoved \/ CulpritRemoved \/ LoserRemoved \/ SettledRemoved
  <2>1. \E t : RemoveRow(t)
    BY <1>8 DEF RefusedRemoved, CulpritRemoved, LoserRemoved, SettledRemoved
  <2> QED
    BY <1>4, <2>1
<1>9. CASE \/ BatchTimerFires \/ StartSendJob \/ ReplyArrives \/ EndSend \/ BatchRefused
           \/ ServerTakesNext \/ PacketArrives \/ RebaseRead \/ ReadOutbox \/ ConfirmRead
           \/ CompleteRead \/ CommitPacket \/ UNCHANGED vars
  <2>1. rows' = rows
    BY <1>9 DEF BatchTimerFires, StartSendJob, ReplyArrives, EndSend, BatchRefused,
       ServerTakesNext, PacketArrives, RebaseRead, ReadOutbox, ConfirmRead, CompleteRead, CommitPacket
  <2> QED
    BY <2>1
<1> QED
  BY <1>5, <1>6, <1>7, <1>8, <1>9, OnceSteps

\* No step leaves queued what the server comes to know of.
LEMMA MarkedStep ==
  ASSUME Inv, Inv', DropAssumption, SentOnce, SentOnce', Unsent \cap Known = {}, KnownIsMarked,
         [Next]_vars
  PROVE  KnownIsMarked'
<1> USE DEF vars, storageVars, listVars, claimVars, indexVars, jobVars,
            serverVars, pktVars, historyVars
<1>1. /\ Known \subseteq 1 .. made /\ made \in Nat /\ rows \in [Tx -> RowState] /\ 1 .. made \subseteq Tx
      /\ todo \in Seq(Tx) /\ batch \in Seq(Tx) /\ ToSet(batch) \subseteq 1 .. made
      /\ pc \in Loops => todo # <<>>
  <2>1. Known \subseteq 1 .. made /\ ToSet(batch) \subseteq 1 .. made
    BY DEF Inv, PassedInv, KnownAreMade, Known, SenderInv, AtFront
  <2>2. made \in 0 .. NumTx /\ NumTx \in Nat
    BY OutboxAssumption DEF Inv, TypeOK, HistoryTypeOK
  <2>3. made \in Nat /\ 1 .. made \subseteq Tx
    BY <2>2 DEF Tx
  <2> QED
    BY <2>1, <2>3 DEF Inv, TypeOK, StorageTypeOK, JobTypeOK, JobInv
<1>2. \A t \in Known : rows'[t] # "queued"
  <2> SUFFICES ASSUME NEW t \in Known, rows'[t] = "queued" PROVE FALSE
    OBVIOUS
  <2>1. t \in Tx /\ rows[t] # "queued" /\ t # made + 1
    BY <1>1 DEF KnownIsMarked
  <2>2. Restore /\ t \in ToSet(batch)
    BY <2>1, RowsRequeued
  <2> QED
    BY <2>2 DEF Restore, Unsent
<1>3. CASE MarkSent
  <2>1. /\ pc = "marking" /\ rows' = Touch(Head(todo), "sent") /\ todo' = Tail(todo) /\ discarded' = discarded
        /\ todo # <<>> /\ Head(todo) \in Tx
        /\ \/ Len(todo) > 1 /\ UNCHANGED <<pc, batch>>
           \/ Len(todo) = 1 /\ pc' # "marking"
    BY <1>1, <1>3, HeadAndTail DEF MarkSent, Loops
  <2>2. ToSet(todo) = {Head(todo)} \cup ToSet(Tail(todo))
    BY <1>1, <2>1, HeadAndTail
  <2>3. \A u \in Tx : rows'[u] = IF u = Head(todo) /\ rows[Head(todo)] # "none" THEN "sent" ELSE rows[u]
    BY <1>1, <2>1, TouchEffect DEF RowState
  <2>4. \A t \in ToSet(batch) \ (ToSet(Tail(todo)) \cup discarded) : rows'[t] # "queued"
    BY <1>1, <2>1, <2>2, <2>3 DEF KnownIsMarked
  <2>5. Len(todo) = 1 => ToSet(Tail(todo)) = {}
    <3>1. \A s \in Seq(Tx) : Len(s) = 0 => s = <<>>
      OBVIOUS
    <3>2. Tail(todo) \in Seq(Tx) /\ (Len(todo) = 1 => Len(Tail(todo)) = 0)
      BY <1>1, <2>1
    <3> QED
      BY <3>1, <3>2, NoJobsNoTxs
  <2>6. pc' = "awaiting" => \A t \in ToSet(batch) \ discarded : rows'[t] # "queued"
    BY <2>1, <2>4, <2>5
  <2>7. \A t \in Known' : rows'[t] # "queued"
    BY <1>2, <2>6, KnownMoves
  <2> QED
    BY <2>1, <2>4, <2>7 DEF KnownIsMarked
<1>4. CASE ~MarkSent
  <2>1. \A t \in Known' : rows'[t] # "queued"
    BY <1>2, <1>4, KnownMoves
  <2>2. ASSUME pc' = "marking", NEW t \in ToSet(batch') \ (ToSet(todo') \cup discarded')
        PROVE  rows'[t] # "queued"
    <3>1. CASE StartSendJob \/ Restore
      <4>1. UNCHANGED discarded
        BY <3>1 DEF StartSendJob, Restore
      <4>2. pc # "marking"
        BY <3>1 DEF StartSendJob, Restore
      <4>3. \E requested, kept, owed : SendBatch(requested, owed, {}, kept)
        BY <2>2, <3>1, <4>2 DEF StartSendJob, Restore
      <4>4. todo' = Without(batch', discarded \ {})
        BY <4>3 DEF SendBatch
      <4>5. batch' \in Seq(Tx)
        BY DEF Inv, TypeOK, JobTypeOK
      <4>6. \A s \in Seq(Tx) : ToSet(Without(s, discarded \ {})) = ToSet(s) \ (discarded \ {})
        BY WithoutDropsTheSet
      <4>7. ToSet(todo') = ToSet(batch') \ (discarded \ {})
        BY <4>4, <4>5, <4>6
      <4> QED
        BY <2>2, <4>1, <4>7
    <3>2. CASE UNCHANGED <<pc, batch, todo>> /\ discarded \subseteq discarded'
      <4>1. t \in ToSet(batch) \ (ToSet(todo) \cup discarded)
        BY <2>2, <3>2
      <4>2. rows[t] # "queued" /\ t \in Tx /\ t # made + 1 /\ ~Restore
        BY <1>1, <2>2, <3>2, <4>1 DEF KnownIsMarked, Restore
      <4> QED
        BY <4>2, RowsRequeued
    <3>3. CASE \/ QueueTransaction \/ BatchTimerFires \/ PacketArrives \/ ReadOutbox \/ CommitPacket
               \/ ServerTakesNext \/ UNCHANGED vars
      <4>1. UNCHANGED <<pc, batch, todo, discarded>>
        BY <3>3 DEF QueueTransaction, BatchTimerFires, PacketArrives, ReadOutbox, CommitPacket, ServerTakesNext
      <4> QED
        BY <3>2, <4>1
    <3>4. CASE RebaseRead \/ LoserRemoved \/ ConfirmRead \/ CompleteRead \/ SettledRemoved
      <4>1. UNCHANGED <<pc, batch, todo>>
        BY <3>4 DEF RebaseRead, LoserRemoved, ConfirmRead, CompleteRead, SettledRemoved
      <4>2. UNCHANGED discarded \/ \E u : DiscardFromMemory(u)
        BY <3>4 DEF RebaseRead, LoserRemoved, ConfirmRead, CompleteRead, SettledRemoved,
           BeginDiscard, NothingToDiscard
      <4>3. discarded \subseteq discarded'
        BY <4>2 DEF DiscardFromMemory
      <4> QED
        BY <3>2, <4>1, <4>3
    <3>5. CASE \/ ReplyArrives \/ Acknowledge \/ Refuse \/ RefusedRemoved \/ CulpritRemoved
               \/ BatchRefused \/ EndSend
      BY <2>2, <3>5 DEF ReplyArrives, Acknowledge, Refuse, RefusedRemoved, CulpritRemoved,
         BatchRefused, EndSend, NextResult, FinishJob, SentOnce
    <3> QED
      BY <1>4, <3>1, <3>3, <3>4, <3>5, OnceSteps
  <2> QED
    BY <2>1, <2>2 DEF KnownIsMarked
<1> QED
  BY <1>3, <1>4


-----------------------------------------------------------------------------
(* DroppedIsLeftOut *)

\* A transaction is dropped while it is queued, and its sender, if it has one,
\* is told.
LEMMA DropsOne ==
  ASSUME Inv, DropAssumption, DroppedIsLeftOut, [Next]_vars
  PROVE  /\ \/ dropped' = dropped
            \/ /\ RebaseRead
               /\ \E t \in Tx : /\ dropped' = dropped \cup {t} /\ rows[t] = "queued"
                                /\ DiscardFromMemory(t)
         /\ pktPc' = "rebase" => pktTodo' = {}
<1> USE DEF vars, storageVars, listVars, claimVars, indexVars, jobVars,
            serverVars, pktVars, historyVars
<1>1. CASE RebaseRead
  <2>1. PICK losers \in SUBSET ({t \in Tx : rows[t] = "queued"} \ Echoed(pktUpTo)) :
          /\ Cardinality(losers) <= MaxConflicts
          /\ \/ losers = {} /\ NothingToDiscard("applied") /\ UNCHANGED dropped
             \/ \E t \in losers : /\ BeginDiscard(t, losers \ {t})
                                  /\ dropped' = dropped \cup {t}
                                  /\ pktPc' = "rebase"
    BY <1>1 DEF RebaseRead
  <2>2. ASSUME NEW t \in losers
        PROVE  losers \ {t} = {}
    <3>1. IsFiniteSet(losers)
      <4>1. IsFiniteSet(Tx)
        BY FS_Interval, OutboxAssumption DEF Tx
      <4> QED
        BY <4>1, FS_Subset
    <3>2. Cardinality(losers) \in Nat /\ Cardinality(losers) <= 1
      <4>1. Cardinality(losers) \in Nat /\ MaxConflicts \in Nat /\ MaxConflicts <= 1
        BY <3>1, FS_CardinalityType, OutboxAssumption DEF DropAssumption
      <4> QED
        BY <2>1, <4>1
    <3>3. IsFiniteSet(losers \ {t}) /\ Cardinality(losers \ {t}) = Cardinality(losers) - 1
      BY <3>1, FS_RemoveElement
    <3>4. Cardinality(losers \ {t}) = 0
      BY <3>2, <3>3, FS_CardinalityType
    <3> QED
      BY <3>3, <3>4, FS_EmptySet
  <2>3. CASE losers = {} /\ NothingToDiscard("applied") /\ UNCHANGED dropped
    BY <2>3 DEF NothingToDiscard
  <2>4. CASE \E t \in losers : /\ BeginDiscard(t, losers \ {t})
                               /\ dropped' = dropped \cup {t}
                               /\ pktPc' = "rebase"
    <3>1. PICK t \in losers : BeginDiscard(t, losers \ {t}) /\ dropped' = dropped \cup {t}
      BY <2>4
    <3>2. t \in Tx /\ rows[t] = "queued" /\ DiscardFromMemory(t) /\ pktTodo' = {}
      BY <2>2, <3>1 DEF BeginDiscard
    <3> QED
      BY <1>1, <3>1, <3>2
  <2> QED
    BY <2>1, <2>3, <2>4
<1>2. CASE LoserRemoved
  <2>1. pktTodo = {} /\ dropped' = dropped /\ pktPc' = "applied"
    BY <1>2 DEF LoserRemoved, DroppedIsLeftOut, NothingToDiscard
  <2> QED
    BY <2>1
<1>3. CASE PacketArrives \/ ReadOutbox \/ ConfirmRead \/ CompleteRead \/ SettledRemoved \/ CommitPacket \/ Restart
  <2>1. dropped' = dropped /\ pktPc' # "rebase"
    BY <1>3 DEF PacketArrives, ReadOutbox, ConfirmRead, CompleteRead, SettledRemoved, CommitPacket,
       Restart, NothingToDiscard
  <2> QED
    BY <2>1
<1>4. CASE \/ QueueTransaction \/ BatchTimerFires \/ DrainStart \/ RunJob \/ TransportFails
           \/ BatchRefused \/ ServerTakesNext \/ ServerTakesLate \/ UNCHANGED vars
  <2>1. UNCHANGED <<dropped, pktPc, pktTodo>>
    BY <1>4 DEF QueueTransaction, BatchTimerFires, DrainStart, RunJob, StartSendJob, StartReplayJob,
       OutboxRead, ResetSent, MarkSent, Requeue, ReplyArrives, Acknowledge, Refuse, RefusedRemoved,
       CulpritRemoved, Restore, EndSend, TransportFails, BatchRefused, ServerTakesNext, ServerTakesLate
  <2> QED
    BY <2>1 DEF DroppedIsLeftOut
<1> QED
  BY <1>1, <1>2, <1>3, <1>4 DEF Next, ApplyPacket

\* No step drops what the server knows of, or sends what was dropped.
LEMMA LeftOutStep ==
  ASSUME Inv, Inv', DropAssumption, SentOnce, SentOnce', KnownIsMarked, DroppedIsLeftOut, [Next]_vars
  PROVE  DroppedIsLeftOut'
<1> USE DEF vars, storageVars, listVars, claimVars, indexVars, jobVars,
            serverVars, pktVars, historyVars
<1>1. /\ made \in Nat /\ Outstanding \subseteq 1 .. made
      /\ ToSet(batch) \subseteq claimed
      /\ pending \in Seq(Tx) /\ claimed \subseteq Tx /\ discarded \subseteq Tx
  BY OutboxAssumption DEF Inv, TypeOK, HistoryTypeOK, ListTypeOK, ClaimTypeOK, IndexInv, SenderInv
<1>2. /\ \/ made' = made /\ claimed' \subseteq claimed
         \/ made' = made + 1 /\ claimed' = claimed \cup {made + 1}
      /\ discarded \cap claimed' \subseteq discarded'
  BY ClaimsMove DEF QueueTransaction
<1>3. Known' \subseteq Known \cup (ToSet(batch) \ discarded)
  BY KnownMoves
<1>4. CASE dropped' = dropped
  <2>1. dropped' \subseteq 1 .. made'
    BY <1>1, <1>2, <1>4 DEF DroppedIsLeftOut
  <2>2. dropped' \cap Known' = {}
    BY <1>1, <1>3, <1>4 DEF DroppedIsLeftOut
  <2>3. dropped' \cap claimed' \subseteq discarded'
    <3>1. made + 1 \notin dropped
      BY <1>1 DEF DroppedIsLeftOut
    <3> QED
      BY <1>2, <1>4, <3>1 DEF DroppedIsLeftOut
  <2> QED
    BY <2>1, <2>2, <2>3, DropsOne DEF DroppedIsLeftOut
<1>5. CASE RebaseRead /\ \E t \in Tx : /\ dropped' = dropped \cup {t} /\ rows[t] = "queued"
                                       /\ DiscardFromMemory(t)
  <2>1. PICK t \in Tx : dropped' = dropped \cup {t} /\ rows[t] = "queued" /\ DiscardFromMemory(t)
    BY <1>5
  <2>2. made' = made /\ UNCHANGED <<log, request, late>>
    BY <1>5 DEF RebaseRead
  <2>3. Known' = Known
    BY <2>2 DEF Known
  <2>4. t \in 1 .. made /\ t \notin Known
    BY <1>1, <2>1 DEF Outstanding, KnownIsMarked
  <2>5. t \in claimed' => t \in discarded'
    BY <1>1, <2>1, DiscardEffect
  <2>6. dropped' \cap claimed' \subseteq discarded'
    BY <1>2, <2>1, <2>2, <2>5 DEF DroppedIsLeftOut, DiscardFromMemory
  <2>7. pktPc' = "rebase" => pktTodo' = {}
    BY DropsOne
  <2> QED
    BY <2>1, <2>2, <2>3, <2>4, <2>6, <2>7 DEF DroppedIsLeftOut
<1> QED
  BY <1>4, <1>5, DropsOne

-----------------------------------------------------------------------------
(* The theorems about what is dropped *)

\* At first nothing is sent, and nothing dropped.
LEMMA DropInit == Init => DropInv
<1> SUFFICES ASSUME Init PROVE DropInv
  OBVIOUS
<1>1. /\ queue = <<>> /\ pending = <<>> /\ backlog = <<>> /\ replay = <<>>
      /\ batch = <<>> /\ missed = <<>> /\ late = {} /\ log = <<>> /\ request = <<>>
      /\ claimed = {} /\ discarded = {} /\ dropped = {}
      /\ pc = "idle" /\ pktPc = "idle" /\ drain = "idle"
  BY DEF Init
<1>2. ToSet(<<>>) = {} /\ JobTxs(<<>>) = {} /\ DOMAIN <<>> = {} /\ IsInjective(<<>>)
  BY NoJobsNoTxs DEF IsInjective
<1>3. SentOnce
  BY <1>1, <1>2 DEF SentOnce
<1>4. Known = {} /\ Unsent = {}
  BY <1>1, <1>2 DEF Known, Unsent, Behind, NotBegun
<1>5. RequestIsUntaken
  BY <1>1, <1>2 DEF RequestIsUntaken
<1>6. KnownIsMarked /\ DroppedIsLeftOut
  BY <1>1, <1>4 DEF KnownIsMarked, DroppedIsLeftOut
<1> QED
  BY <1>3, <1>4, <1>5, <1>6 DEF DropInv

\* Every step preserves DropInv.
LEMMA DropStep ==
  ASSUME Inv, Inv', DropAssumption, DropInv, [Next]_vars
  PROVE  DropInv'
<1>1. SentOnce /\ Unsent \cap Known = {} /\ RequestIsUntaken /\ KnownIsMarked /\ DroppedIsLeftOut
  BY DEF DropInv
<1>2. SentOnce' /\ RequestIsUntaken'
  BY <1>1, OnceStep, UntakenStep
<1>3. (Unsent \cap Known = {})'
  BY <1>1, <1>2, UnsentStep
<1>4. KnownIsMarked' /\ DroppedIsLeftOut'
  BY <1>1, <1>2, MarkedStep, LeftOutStep
<1> QED
  BY <1>2, <1>3, <1>4 DEF DropInv

\* A transaction that a conflict dropped is not in the server's log, then or
\* ever after: a rebase conflict drops no write the server holds (isInFlight).
THEOREM DroppedNeverApplied == ASSUME DropAssumption PROVE Spec => []DroppedIsNeverApplied
<1>1. Inv /\ DropInv /\ [Next]_vars => (Inv /\ DropInv)'
  BY InvStep, DropStep
<1>2. DropInv => DroppedIsNeverApplied
  BY DEF DropInv, DroppedIsLeftOut, Known, DroppedIsNeverApplied
<1> QED
  BY <1>1, <1>2, InvInit, DropInit, PTL DEF Spec

\* No request that is sent carries a transaction that a conflict dropped
\* (discardedClaims).
THEOREM DroppedNeverSent == ASSUME DropAssumption PROVE Spec => DroppedIsNeverSent
<1>1. Inv /\ DropInv /\ [Next]_vars => (Inv /\ DropInv)'
  BY InvStep, DropStep
<1>2. Inv /\ DropInv /\ Inv' /\ DropInv' /\ [Next]_vars
        => [request' # request /\ pc' = "awaiting" /\ pc # "awaiting"
              => ToSet(request') \cap dropped = {}]_vars
  <2> SUFFICES ASSUME Inv, DropInv, DropInv', [Next]_vars
               PROVE  ToSet(request') \cap dropped = {}
    OBVIOUS
  <2>1. ToSet(request') \subseteq Known' /\ dropped' \cap Known' = {}
    BY DEF DropInv, DroppedIsLeftOut, Known
  <2>2. dropped \subseteq dropped'
    BY DropsOne DEF DropInv
  <2> QED
    BY <2>1, <2>2
<1> QED
  BY <1>1, <1>2, InvInit, DropInit, PTL DEF Spec, DroppedIsNeverSent

=============================================================================
