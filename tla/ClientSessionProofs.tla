-------------------------- MODULE ClientSessionProofs --------------------------
(***************************************************************************)
(* What holds of the server's end of a sync socket for every log, page     *)
(* size, buffer size, retention and authorization: its frames are the      *)
(* committed log without a gap (it implements LogReader), its scanned      *)
(* cursor never runs ahead of what was sent, and the handover from replay  *)
(* to live loses nothing this process was told of.                         *)
(***************************************************************************)
EXTENDS ClientSession, ListsProofs, FiniteSetTheorems

(* Where a page is in use: being checked, or handed out row by row.  Once   *)
(* the notification that opened the gap is claimed the page is done with.   *)
Sending == {"authorize", "guard", "refreshes"}
Fetching == {"read", "check", "next"} \cup Sending
Paging == step \in {"check", "next"} \/ (step \in Sending /\ job.sending # job.target)

(* Ids that tasks remember are of the log, which has n entries. *)
JobOf(j, n) ==
    /\ j \in Job
    /\ j.pending \subseteq 1 .. n /\ j.page \subseteq 1 .. n
    /\ {j.through, j.target, j.cursor, j.last, j.sending} \subseteq 0 .. n

TaskOf(t, n) ==
    /\ t \in Task
    /\ t.kind = "subscribe" => t.after <= n
    /\ t.kind = "delta" => t.id <= n

QueueOf(q, n) == q \in Seq(Task) /\ \A k \in 1 .. Len(q) : TaskOf(q[k], n)

TypesInv == TypeOK /\ JobOf(job, Len(log)) /\ QueueOf(queue, Len(log))

(* Which task a step belongs to, and what it has in hand there. *)
StepsInv ==
    /\ queue = <<>> => step = "start"
    /\ step \in {"start", "authenticate", "floor", "list", "acknowledge"} => job = NoJob
    /\ step = "deliver" => job.target = 0
    /\ step \in {"authenticate", "floor", "acknowledge"} => Head(queue).kind = "subscribe"
    /\ step = "list" => Head(queue).kind = "catchUp"
    /\ step \in Fetching /\ job.target = 0 => Head(queue).kind = "subscribe"
    /\ step \in Sending <=> job.sending # 0

(* Which phase a step finds, unless the session was closed under it. *)
PhaseInv ==
    phase # "closed" =>
        /\ step = "authenticate" => phase = "idle"
        /\ step \in {"authenticate", "floor"} => ~subscribed
        /\ step \in Fetching \cup {"deliver"} /\ Head(queue).kind = "subscribe"
              => phase = "replaying" /\ subscribed
        /\ step = "floor" => phase = "replaying"
        /\ step = "start" /\ subscribed => phase = "live"
        /\ step \in Fetching \cup {"deliver"} /\ Head(queue).kind # "subscribe"
              => phase = "live"
        /\ step \in {"list", "acknowledge"} => phase = "live"
        /\ phase = "live" => subscribed /\ bufferedActions = {}
        /\ phase = "idle" => step \in {"start", "authenticate"} /\ ~subscribed

(* The frames of a subscription, in their order, and its cursors. *)
FramesInv ==
    /\ start <= scannedThrough /\ afterSyncId <= scannedThrough
    /\ \A f \in Sent : start < f /\ f <= scannedThrough
    /\ \A m, n \in 1 .. Len(frames) : m < n => frames[m] < frames[n]

CursorsInv ==
    /\ step = "floor" => afterSyncId = scannedThrough
    /\ step \in Sending =>
          /\ job.sending = scannedThrough /\ start < scannedThrough
          /\ \A f \in Sent : f < job.sending
    /\ step = "read" \/ Paging => start <= job.cursor
    /\ step \in {"read", "check"} => job.cursor = scannedThrough
    /\ (step = "read" \/ Paging) /\ job.target # 0 => scannedThrough < job.target
    /\ step \in Fetching /\ job.target = 0 => job.pending = {}
    /\ step = "authorize" => log[job.sending].to # Everyone
    /\ step \in {"guard", "refreshes"} => Overlaps(groups, job.sending)

(* What a page leaves out below its rows, or below the gap's end when it is *)
(* the last one, retention had taken; the check of the floor excludes that, *)
(* but for a client that starts from nothing.                               *)
Gone(i) ==
    /\ i <= pruned /\ \A p \in job.page : i < p
    /\ step # "check" => start = 0 /\ \A f \in Sent : i < f
    /\ step \notin Sending

PageInv ==
    Paging =>
        /\ \A p \in job.page : scannedThrough < p /\ (job.target # 0 => p < job.target)
        /\ job.full => /\ scannedThrough <= job.last /\ job.cursor < job.last
                       /\ job.last \in job.page \/ job.last = scannedThrough
                       /\ \A p \in job.page : p <= job.last
        /\ \A i \in scannedThrough + 1 .. Len(log) :
              /\ Overlaps(groups, i)
              /\ \/ \E p \in job.page : i < p
                 \/ ~job.full /\ i < job.target
              => i \in job.page \/ Gone(i)

(* What this process was told of and the session has not come to: it is     *)
(* remembered by a task or the buffer, or the replay will still read it.    *)
Remembered(i) ==
    \/ i \in bufferedActions
    \/ \E n \in 1 .. Len(queue) : /\ n > 1 \/ step = "start"
                                  /\ queue[n].kind = "delta" /\ queue[n].id = i
    \/ /\ step # "start" /\ Head(queue).kind # "catchUp"
       /\ i \in job.pending \/ i = job.target

ToRead(i) ==
    /\ step \in Fetching /\ job.target = 0
    /\ \/ step = "read" \/ i \in job.page
       \/ job.full /\ job.last < i
       \/ step = "check" /\ i <= pruned

ToldInv ==
    subscribed =>
        \A i \in scannedThrough + 1 .. Len(log) :
            i \notin unpublished /\ Overlaps(groups, i)
                => Remembered(i) \/ ToRead(i) \/ (start = 0 /\ i <= pruned)

ShapeInv == TypesInv /\ StepsInv /\ PhaseInv

CoreInv == FramesInv /\ CursorsInv /\ NothingSkipped /\ PageInv /\ ToldInv

SessionInv == ShapeInv /\ (Delivering => CoreInv)

-----------------------------------------------------------------------------
(* The least and the greatest id, and the first ids, of a set. *)

LEMMA LeastIsLeast ==
  ASSUME NEW m \in Nat, NEW S \in SUBSET (1 .. m), S # {}
  PROVE  Least(S) \in S /\ \A j \in S : Least(S) <= j
<1> DEFINE T == {m - i : i \in S}
<1>0. \A i \in S : i \in Nat /\ m - i \in Nat /\ m - i <= m
  OBVIOUS
<1>1. T # {} /\ T \in SUBSET Nat /\ \A u \in T : u <= m
  BY <1>0
<1>2. PICK g \in T : \A u \in T : u <= g
  <2> HIDE DEF T
  <2>1. IsFiniteSet(T)
    BY <1>1, FS_BoundedSetOfNaturals
  <2> QED
    BY <1>1, <2>1, GreatestExists
<1>3. PICK i \in S : g = m - i
  BY <1>2
<1>4. \A j \in S : m - j \in T
  OBVIOUS
<1>5. \A j \in S : i <= j
  BY <1>2, <1>3, <1>4
<1> QED
  BY <1>3, <1>5 DEF Least

LEMMA GreatestIsGreatest ==
  ASSUME NEW m \in Nat, NEW S \in SUBSET (1 .. m), S # {}
  PROVE  Greatest(S) \in S /\ \A j \in S : j <= Greatest(S)
<1>1. S \in SUBSET Nat /\ \A u \in S : u \in Nat /\ u <= m
  OBVIOUS
<1>0. IsFiniteSet(S)
  BY <1>1, FS_BoundedSetOfNaturals
<1>2. \E g \in S : \A u \in S : u <= g
  BY <1>0, <1>1, GreatestExists
<1> QED
  BY <1>2 DEF Greatest

\* FirstOf(S, n) takes what comes first, and all of it unless it is full.
LEMMA FirstOfTakesFirst ==
  ASSUME NEW m \in Nat, NEW S \in SUBSET (1 .. m), NEW n \in Nat
  PROVE  /\ FirstOf(S, n) \subseteq S
         /\ \A i \in FirstOf(S, n), j \in S : j <= i => j \in FirstOf(S, n)
         /\ Cardinality(FirstOf(S, n)) # n => FirstOf(S, n) = S
         /\ Cardinality(FirstOf(S, n)) = n /\ n > 0 => FirstOf(S, n) # {}
<1> DEFINE F == FirstOf(S, n)
           Upto(i) == {j \in S : j <= i}
<1>1. F = {i \in S : Cardinality(Upto(i)) <= n}
  BY DEF FirstOf
<1>6. F = FirstOf(S, n)
  OBVIOUS
<1> HIDE DEF F
<1>0. F \subseteq S /\ \A k \in S : k \in Int
  BY <1>1
<1>2. IsFiniteSet(S) /\ IsFiniteSet(F) /\ \A i : IsFiniteSet(Upto(i))
  <2>1. IsFiniteSet(S)
    <3>1. S \in SUBSET Nat /\ \A u \in S : u <= m
      OBVIOUS
    <3> QED
      BY <3>1, FS_BoundedSetOfNaturals
  <2> QED
    BY <2>1, <1>1, FS_Subset
<1>3. ASSUME NEW i \in F, NEW j \in S, j <= i
      PROVE  j \in F
  <2>0. \A k \in S : k <= j => k <= i
    BY <1>0, <1>3
  <2>1. Upto(j) \subseteq Upto(i)
    BY <2>0
  <2>2. Cardinality(Upto(j)) <= Cardinality(Upto(i))
    BY <2>1, <1>2, FS_Subset
  <2>3. Cardinality(Upto(j)) \in Nat /\ Cardinality(Upto(i)) \in Nat
    BY <1>2, FS_CardinalityType
  <2> QED
    BY <1>1, <1>3, <2>2, <2>3
<1>4. ASSUME F # S
      PROVE  Cardinality(F) = n
  <2>1. S \ F # {} /\ S \ F \subseteq 1 .. m
    BY <1>1, <1>4
  <2>2. PICK i \in S \ F : \A j \in S \ F : i <= j
    BY <2>1, LeastIsLeast
  <2>10. \A j \in F : j <= i
    <3> SUFFICES ASSUME NEW j \in F, ~(j <= i)
                 PROVE  FALSE
      OBVIOUS
    <3> QED
      BY <1>0, <1>3, <2>2
  <2>11. \A j \in Upto(i) : j \in F \cup {i}
    BY <1>0, <2>2
  <2>3. Upto(i) = F \cup {i} /\ i \notin F
    BY <1>0, <2>2, <2>10, <2>11
  <2>4. Cardinality(Upto(i)) = Cardinality(F) + 1
    BY <2>3, <1>2, FS_AddElement, Zenon
  <2>5. ~(Cardinality(Upto(i)) <= n)
    BY <1>1, <2>2
  <2>6. Cardinality(F) \in Nat
    BY <1>2, FS_CardinalityType
  <2>7. CASE F = {}
    BY <2>4, <2>5, <2>6, <2>7, FS_EmptySet
  <2>8. CASE F # {}
    <3>1. PICK g \in F : \A j \in F : j <= g
      <4>1. F \subseteq 1 .. m
        BY <1>1
      <4> HIDE DEF F
      <4> QED
        BY <4>1, <2>8, GreatestIsGreatest
    <3>2. F \subseteq Upto(g)
      BY <1>1, <3>1
    <3>3. Cardinality(F) <= Cardinality(Upto(g)) /\ Cardinality(Upto(g)) <= n
      BY <3>1, <3>2, <1>1, <1>2, FS_Subset
    <3>4. Cardinality(Upto(g)) \in Nat
      BY <1>2, FS_CardinalityType
    <3> QED
      BY <2>4, <2>5, <2>6, <3>3, <3>4
  <2> QED
    BY <2>7, <2>8
<1>5. Cardinality(F) = n /\ n > 0 => F # {}
  BY FS_EmptySet
<1> QED
  BY <1>0, <1>3, <1>4, <1>5, <1>6

-----------------------------------------------------------------------------
(* Tasks and what they remember. *)

LEMMA TaskTypes ==
  /\ \A a \in Cursors, g \in SUBSET Groups :
        LET t == [kind |-> "subscribe", after |-> a, groups |-> g]
        IN  t \in Task /\ t.kind = "subscribe" /\ t.after = a
  /\ \A i \in Ids : LET t == [kind |-> "delta", id |-> i]
                    IN  t \in Task /\ t.kind = "delta" /\ t.id = i
  /\ LET t == [kind |-> "catchUp"] IN t \in Task /\ t.kind = "catchUp"
  /\ \A t \in Task :
        /\ t.kind \in {"subscribe", "delta", "catchUp"}
        /\ t.kind = "subscribe" => t.after \in Cursors /\ t.groups \in SUBSET Groups
        /\ t.kind = "delta" => t.id \in Ids
<1> QED
  BY DEF Task

LEMMA QueueAppends ==
  ASSUME NEW n \in Nat, NEW q, QueueOf(q, n), NEW t, TaskOf(t, n)
  PROVE  /\ QueueOf(Append(q, t), n)
         /\ Append(q, t) # <<>> /\ (q # <<>> => Head(Append(q, t)) = Head(q))
         /\ Len(Append(q, t)) = Len(q) + 1 /\ Append(q, t)[Len(q) + 1] = t
         /\ \A k \in 1 .. Len(q) : Append(q, t)[k] = q[k]
<1>1. q \in Seq(Task) /\ t \in Task /\ Len(q) \in Nat
  BY DEF QueueOf, TaskOf
<1>2. /\ Append(q, t) \in Seq(Task) /\ Len(Append(q, t)) = Len(q) + 1
      /\ Append(q, t)[Len(q) + 1] = t
      /\ \A k \in 1 .. Len(q) : Append(q, t)[k] = q[k]
  BY <1>1
<1>3. Append(q, t) # <<>> /\ Head(Append(q, t)) = Append(q, t)[1]
  BY <1>1, <1>2
<1>4. q # <<>> => Head(q) = q[1] /\ 1 \in 1 .. Len(q)
  BY <1>1
<1> QED
  BY <1>1, <1>2, <1>3, <1>4 DEF QueueOf

LEMMA QueueAdvances ==
  ASSUME NEW n \in Nat, NEW q, QueueOf(q, n), q # <<>>
  PROVE  /\ QueueOf(Tail(q), n) /\ TaskOf(Head(q), n) /\ Head(q) = q[1]
         /\ Len(q) \in Nat \ {0} /\ Len(Tail(q)) = Len(q) - 1
         /\ \A k \in 1 .. Len(q) - 1 : Tail(q)[k] = q[k + 1]
<1>1. q \in Seq(Task) /\ Len(q) \in Nat /\ Len(q) > 0
  BY DEF QueueOf
<1>2. /\ Head(q) = q[1] /\ Tail(q) \in Seq(Task) /\ Len(Tail(q)) = Len(q) - 1
      /\ \A k \in 1 .. Len(q) - 1 : Tail(q)[k] = q[k + 1]
  BY <1>1
<1> QED
  BY <1>1, <1>2 DEF QueueOf

LEMMA QueueGrows ==
  ASSUME NEW n \in Nat, NEW q, QueueOf(q, n)
  PROVE  QueueOf(q, n + 1)
<1>1. ASSUME NEW t, TaskOf(t, n)
      PROVE  TaskOf(t, n + 1)
  BY <1>1 DEF TaskOf, Task, Cursors, Ids
<1> QED
  BY <1>1 DEF QueueOf

LEMMA JobGrows ==
  ASSUME NEW n \in Nat, NEW j, JobOf(j, n)
  PROVE  JobOf(j, n + 1)
<1> QED
  BY DEF JobOf

LEMMA NoJobIsOf ==
  ASSUME NEW n \in Nat
  PROVE  /\ JobOf(NoJob, n)
         /\ NoJob.pending = {} /\ NoJob.through = 0 /\ NoJob.target = 0 /\ NoJob.cursor = 0
         /\ NoJob.page = {} /\ NoJob.last = 0 /\ NoJob.full = FALSE /\ NoJob.sending = 0
<1>1. NoJob \in Job
  BY BoundsAssumption DEF NoJob, Job, Cursors
<1>2. /\ NoJob.pending = {} /\ NoJob.through = 0 /\ NoJob.target = 0 /\ NoJob.cursor = 0
      /\ NoJob.page = {} /\ NoJob.last = 0 /\ NoJob.full = FALSE /\ NoJob.sending = 0
  BY DEF NoJob
<1> QED
  BY <1>1, <1>2 DEF JobOf

\* A job that lists the notifications S.
LEMMA Lists ==
  ASSUME NEW n \in 0 .. MaxId, NEW S \in SUBSET (1 .. n)
  PROVE  LET k == [NoJob EXCEPT !.pending = S]
         IN  JobOf(k, n) /\ k.pending = S /\ k.target = 0 /\ k.sending = 0
<1> DEFINE k == [NoJob EXCEPT !.pending = S]
<1>0. n \in Nat /\ S \in SUBSET Ids
  BY BoundsAssumption DEF Ids
<1>1. n \in Nat /\ S \in SUBSET Ids /\ NoJob \in Job
  BY <1>0, NoJobIsOf DEF JobOf
<1>2. k \in Job
  BY <1>1 DEF Job
<1>3. /\ k.pending = S /\ k.target = 0 /\ k.sending = 0 /\ k.through = 0
      /\ k.page = {} /\ k.cursor = 0 /\ k.last = 0
  BY DEF NoJob
<1>4. JobOf(k, n)
  <2> HIDE DEF k
  <2> QED
    BY <1>1, <1>2, <1>3 DEF JobOf
<1> QED
  BY <1>3, <1>4

\* The same, up to a cursor.
Through(S, through) == [NoJob EXCEPT !.pending = S, !.through = through]

LEMMA ListsThrough ==
  ASSUME NEW n \in 0 .. MaxId, NEW S \in SUBSET (1 .. n), NEW through \in 0 .. n
  PROVE  LET k == Through(S, through)
         IN  /\ JobOf(k, n) /\ k.pending = S /\ k.target = 0 /\ k.sending = 0 /\ k.through = through
<1> DEFINE k == [NoJob EXCEPT !.pending = S, !.through = through]
<1>0. n \in Nat /\ S \in SUBSET Ids /\ through \in Cursors
  BY BoundsAssumption DEF Ids, Cursors
<1>1. n \in Nat /\ S \in SUBSET Ids /\ through \in Cursors /\ NoJob \in Job
  BY <1>0, NoJobIsOf DEF JobOf
<1>2. k \in Job
  BY <1>1 DEF Job
<1>3. /\ k.pending = S /\ k.target = 0 /\ k.sending = 0 /\ k.through = through
      /\ k.page = {} /\ k.cursor = 0 /\ k.last = 0
  BY DEF NoJob
<1>5. JobOf(k, n)
  <2> HIDE DEF k
  <2> QED
    BY <1>1, <1>2, <1>3 DEF JobOf
<1> QED
  BY <1>3, <1>5 DEF Through

LEMMA ThroughEitherWay ==
  ASSUME NEW S, NEW through
  PROVE  [NoJob EXCEPT !.through = through, !.pending = S] = Through(S, through)
<1> QED
  BY DEF NoJob, Through

\* A job whose next page starts at c.
LEMMA MovingCursor ==
  ASSUME NEW n \in 0 .. MaxId, NEW j, JobOf(j, n), NEW c \in 0 .. n
  PROVE  LET k == [j EXCEPT !.cursor = c]
         IN  /\ JobOf(k, n)
             /\ k.cursor = c /\ k.pending = j.pending /\ k.through = j.through /\ k.target = j.target
             /\ k.page = j.page /\ k.last = j.last /\ k.full = j.full /\ k.pages = j.pages
             /\ k.sending = j.sending
<1> DEFINE k == [j EXCEPT !.cursor = c]
<1>1. n \in Nat /\ j \in Job /\ 1 .. n \subseteq Ids /\ 0 .. n \subseteq Cursors
  BY BoundsAssumption DEF JobOf, Ids, Cursors
<1>2. k \in Job
  BY <1>1 DEF Job, JobOf
<1>3. /\ k.cursor = c /\ k.pending = j.pending /\ k.through = j.through /\ k.target = j.target
      /\ k.page = j.page /\ k.last = j.last /\ k.full = j.full /\ k.pages = j.pages
      /\ k.sending = j.sending
  BY <1>1 DEF Job
<1>4. JobOf(k, n)
  <2> HIDE DEF k
  <2> QED
    BY <1>1, <1>2, <1>3 DEF JobOf
<1> QED
  BY <1>3, <1>4

\* A job that is done with a row of its page.
LEMMA Dropping ==
  ASSUME NEW n \in 0 .. MaxId, NEW j, JobOf(j, n), NEW i \in 1 .. n
  PROVE  LET k == [j EXCEPT !.page = @ \ {i}]
         IN  /\ JobOf(k, n)
             /\ k.page = j.page \ {i} /\ k.pending = j.pending /\ k.through = j.through /\ k.target = j.target
             /\ k.cursor = j.cursor /\ k.last = j.last /\ k.full = j.full /\ k.pages = j.pages
             /\ k.sending = j.sending
<1> DEFINE k == [j EXCEPT !.page = @ \ {i}]
<1>1. n \in Nat /\ j \in Job /\ 1 .. n \subseteq Ids /\ 0 .. n \subseteq Cursors
  BY BoundsAssumption DEF JobOf, Ids, Cursors
<1>2. k \in Job
  BY <1>1 DEF Job, JobOf
<1>3. /\ k.page = j.page \ {i} /\ k.pending = j.pending /\ k.through = j.through /\ k.target = j.target
      /\ k.cursor = j.cursor /\ k.last = j.last /\ k.full = j.full /\ k.pages = j.pages
      /\ k.sending = j.sending
  BY <1>1 DEF Job
<1>4. JobOf(k, n)
  <2> HIDE DEF k
  <2> QED
    BY <1>1, <1>2, <1>3 DEF JobOf
<1> QED
  BY <1>3, <1>4

\* A job that sends i.
LEMMA ToSend ==
  ASSUME NEW n \in 0 .. MaxId, NEW j, JobOf(j, n), NEW i \in 0 .. n
  PROVE  LET k == [j EXCEPT !.sending = i]
         IN  /\ JobOf(k, n)
             /\ k.sending = i /\ k.pending = j.pending /\ k.through = j.through /\ k.target = j.target
             /\ k.cursor = j.cursor /\ k.page = j.page /\ k.last = j.last /\ k.full = j.full
             /\ k.pages = j.pages
<1> DEFINE k == [j EXCEPT !.sending = i]
<1>1. n \in Nat /\ j \in Job /\ 1 .. n \subseteq Ids /\ 0 .. n \subseteq Cursors
  BY BoundsAssumption DEF JobOf, Ids, Cursors
<1>2. k \in Job
  BY <1>1 DEF Job, JobOf
<1>3. /\ k.sending = i /\ k.pending = j.pending /\ k.through = j.through /\ k.target = j.target
      /\ k.cursor = j.cursor /\ k.page = j.page /\ k.last = j.last /\ k.full = j.full
      /\ k.pages = j.pages
  BY <1>1 DEF Job
<1>4. JobOf(k, n)
  <2> HIDE DEF k
  <2> QED
    BY <1>1, <1>2, <1>3 DEF JobOf
<1> QED
  BY <1>3, <1>4

\* A job that is done with a notification.
LEMMA Hearing ==
  ASSUME NEW n \in 0 .. MaxId, NEW j, JobOf(j, n), NEW i \in 1 .. n
  PROVE  LET k == [j EXCEPT !.pending = @ \ {i}]
         IN  /\ JobOf(k, n)
             /\ k.pending = j.pending \ {i} /\ k.through = j.through /\ k.target = j.target /\ k.cursor = j.cursor
             /\ k.page = j.page /\ k.last = j.last /\ k.full = j.full /\ k.pages = j.pages
             /\ k.sending = j.sending
<1> DEFINE k == [j EXCEPT !.pending = @ \ {i}]
<1>1. n \in Nat /\ j \in Job /\ 1 .. n \subseteq Ids /\ 0 .. n \subseteq Cursors
  BY BoundsAssumption DEF JobOf, Ids, Cursors
<1>2. k \in Job
  BY <1>1 DEF Job, JobOf
<1>3. /\ k.pending = j.pending \ {i} /\ k.through = j.through /\ k.target = j.target /\ k.cursor = j.cursor
      /\ k.page = j.page /\ k.last = j.last /\ k.full = j.full /\ k.pages = j.pages
      /\ k.sending = j.sending
  BY <1>1 DEF Job
<1>4. JobOf(k, n)
  <2> HIDE DEF k
  <2> QED
    BY <1>1, <1>2, <1>3 DEF JobOf
<1> QED
  BY <1>3, <1>4

\* A job that fills the gap below i.
GapJob(j, i, c) == [j EXCEPT !.target = i, !.cursor = c, !.pages = 0]

LEMMA OpeningGap ==
  ASSUME NEW n \in 0 .. MaxId, NEW j, JobOf(j, n), NEW i \in 0 .. n, NEW c \in 0 .. n
  PROVE  LET k == GapJob(j, i, c)
         IN  /\ JobOf(k, n)
             /\ k.target = i /\ k.cursor = c /\ k.pages = 0 /\ k.pending = j.pending
             /\ k.through = j.through /\ k.page = j.page /\ k.last = j.last /\ k.full = j.full
             /\ k.sending = j.sending
<1> DEFINE k == [j EXCEPT !.target = i, !.cursor = c, !.pages = 0]
<1>1. n \in Nat /\ j \in Job /\ 1 .. n \subseteq Ids /\ 0 .. n \subseteq Cursors
  BY BoundsAssumption DEF JobOf, Ids, Cursors
<1>5. i \in Cursors /\ c \in Cursors /\ 0 \in Nat
  BY <1>1
<1>2. k \in Job
  BY <1>1, <1>5 DEF Job
<1>3. /\ k.target = i /\ k.cursor = c /\ k.pages = 0 /\ k.pending = j.pending
      /\ k.through = j.through /\ k.page = j.page /\ k.last = j.last /\ k.full = j.full
      /\ k.sending = j.sending
  BY <1>1 DEF Job
<1>4. JobOf(k, n)
  <2> HIDE DEF k
  <2> QED
    BY <1>1, <1>2, <1>3 DEF JobOf
<1> QED
  BY <1>3, <1>4 DEF GapJob

\* A job about the notification i.
LEMMA ToTarget ==
  ASSUME NEW n \in 0 .. MaxId, NEW j, JobOf(j, n), NEW i \in 0 .. n
  PROVE  LET k == [j EXCEPT !.target = i]
         IN  /\ JobOf(k, n)
             /\ k.target = i /\ k.pending = j.pending /\ k.through = j.through /\ k.cursor = j.cursor
             /\ k.page = j.page /\ k.last = j.last /\ k.full = j.full /\ k.pages = j.pages
             /\ k.sending = j.sending
<1> DEFINE k == [j EXCEPT !.target = i]
<1>1. n \in Nat /\ j \in Job /\ 1 .. n \subseteq Ids /\ 0 .. n \subseteq Cursors
  BY BoundsAssumption DEF JobOf, Ids, Cursors
<1>2. k \in Job
  BY <1>1 DEF Job, JobOf
<1>3. /\ k.target = i /\ k.pending = j.pending /\ k.through = j.through /\ k.cursor = j.cursor
      /\ k.page = j.page /\ k.last = j.last /\ k.full = j.full /\ k.pages = j.pages
      /\ k.sending = j.sending
  BY <1>1 DEF Job
<1>4. JobOf(k, n)
  <2> HIDE DEF k
  <2> QED
    BY <1>1, <1>2, <1>3 DEF JobOf
<1> QED
  BY <1>3, <1>4

-----------------------------------------------------------------------------
(* What the reads of sync_actions return. *)

LEMMA LogTypes ==
  ASSUME TypesInv
  PROVE  /\ Len(log) \in Nat /\ Len(log) \in 0 .. MaxId /\ pruned \in 0 .. Len(log)
         /\ Retained \subseteq 1 .. Len(log) /\ \A i \in Retained : pruned < i
         /\ \A i \in 1 .. Len(log) : log[i] \in Entry
         /\ \A held \in SUBSET Groups : \A i \in 1 .. Len(log) :
               Overlaps(held, i) /\ pruned < i => i \in Retained
<1>1. log \in Seq(Entries) /\ Len(log) <= MaxId /\ pruned \in 0 .. Len(log) /\ Entries \subseteq Entry
  BY EntriesAssumption DEF TypesInv, TypeOK
<1>2. Len(log) \in Nat /\ \A i \in 1 .. Len(log) : log[i] \in Entry
  BY <1>1
<1>3. ASSUME NEW held \in SUBSET Groups, NEW i \in 1 .. Len(log), Overlaps(held, i)
      PROVE  log[i].to # Nobody
  BY <1>3, GroupsAssumption DEF Overlaps, Everyone, Nobody
<1> QED
  BY <1>1, <1>2, <1>3, BoundsAssumption DEF Retained

(* rows are the first ids above a, up to b, that held may see; n fill a page. *)
IsPage(rows, a, b, held, n) ==
    /\ rows \subseteq 1 .. Len(log)
    /\ \A p \in rows : a < p /\ p <= b /\ pruned < p
    /\ Cardinality(rows) = n => rows # {}
    /\ \A i \in 1 .. Len(log) :
          /\ Overlaps(held, i) /\ a < i /\ i <= b
          /\ Cardinality(rows) # n \/ \E p \in rows : i <= p
          => i \in rows \/ i <= pruned

\* A page of visible actions holds the first ones above the cursor that the
\* groups may see, and all of them unless it is full.
LEMMA PageHolds ==
  ASSUME TypesInv, NEW a \in 0 .. Len(log), NEW b \in 0 .. Len(log),
         NEW held \in SUBSET Groups, NEW n \in Nat \ {0}
  PROVE  IsPage(VisibleActions(a, b, held, n), a, b, held, n)
<1> DEFINE rows == VisibleActions(a, b, held, n)
<1> DEFINE S == {i \in Retained : a < i /\ i <= b /\ Overlaps(held, i)}
<1>1. rows = FirstOf(S, n)
  BY DEF VisibleActions
<1>2. S \in SUBSET (1 .. Len(log)) /\ Len(log) \in Nat /\ n \in Nat /\ n > 0
  BY LogTypes
<1>3. \A i \in S : a < i /\ i <= b /\ pruned < i
  BY LogTypes
<1>4. \A i \in 1 .. Len(log) : Overlaps(held, i) /\ a < i /\ i <= b /\ pruned < i => i \in S
  BY LogTypes
<1>8. rows = VisibleActions(a, b, held, n)
  OBVIOUS
<1> HIDE DEF S, rows
<1>5. /\ rows \subseteq S
      /\ \A i \in rows, j \in S : j <= i => j \in rows
      /\ Cardinality(rows) # n => rows = S
      /\ Cardinality(rows) = n => rows # {}
  <2> DEFINE F == FirstOf(S, n)
  <2>1. /\ F \subseteq S
        /\ \A i \in F, j \in S : j <= i => j \in F
        /\ Cardinality(F) # n => F = S
        /\ Cardinality(F) = n /\ n > 0 => F # {}
    BY <1>2, FirstOfTakesFirst
  <2>2. rows = F
    BY <1>1
  <2> HIDE DEF F
  <2> QED
    BY <1>2, <2>1, <2>2
<1>6. pruned \in Nat
  BY LogTypes
<1>7. ASSUME NEW i \in 1 .. Len(log), Overlaps(held, i), a < i, i <= b, ~(i <= pruned),
             Cardinality(rows) # n \/ \E p \in rows : i <= p
      PROVE  i \in rows
  <2>1. i \in S
    BY <1>4, <1>6, <1>7
  <2> QED
    BY <1>5, <1>7, <2>1
<1>9. IsPage(rows, a, b, held, n)
  BY <1>2, <1>3, <1>5, <1>7 DEF IsPage
<1> QED
  BY <1>8, <1>9

LEMMA PagesAreOfLog ==
  ASSUME TypesInv, NEW a, NEW b, NEW held, NEW n
  PROVE  VisibleActions(a, b, held, n) \in SUBSET (1 .. Len(log))
<1> QED
  BY LogTypes DEF VisibleActions, FirstOf

\* A cursor the floor is not past has nothing pruned above it.
LEMMA FloorHolds ==
  ASSUME TypesInv, NEW a \in 1 .. Len(log), ~IsSyncCursorStale(a, EarliestSyncId)
  PROVE  pruned <= a
<1>1. Len(log) \in Nat /\ pruned \in 0 .. Len(log) /\ a \in Nat /\ a > 0 /\ log # <<>>
  BY LogTypes DEF TypesInv, TypeOK
<1>2. CASE Retained # {}
  <2>1. Least(Retained) \in Retained
    BY <1>1, <1>2, LogTypes, LeastIsLeast
  <2>2. pruned < Least(Retained) /\ Least(Retained) \in 1 .. Len(log)
    BY <2>1, LogTypes
  <2>3. EarliestSyncId = Least(Retained)
    BY <1>2 DEF EarliestSyncId
  <2> QED
    BY <1>1, <2>2, <2>3 DEF IsSyncCursorStale
<1>3. CASE Retained = {}
  <2>1. EarliestSyncId = Len(log) + 1
    BY <1>1, <1>3 DEF EarliestSyncId
  <2> QED
    BY <1>1, <2>1 DEF IsSyncCursorStale
<1> QED
  BY <1>2, <1>3

LEMMA LastSyncIdIsOfLog ==
  ASSUME TypesInv, NEW held
  PROVE  LastSyncIdForGroups(held) \in 0 .. Len(log)
<1> DEFINE seen == {i \in Retained : Overlaps(held, i)}
<1>1. seen \in SUBSET (1 .. Len(log)) /\ Len(log) \in Nat
  BY LogTypes
<1>2. CASE seen = {}
  BY <1>1, <1>2 DEF LastSyncIdForGroups
<1>3. CASE seen # {}
  <2>1. LastSyncIdForGroups(held) = Greatest(seen)
    BY <1>3 DEF LastSyncIdForGroups
  <2> HIDE DEF seen
  <2>2. Greatest(seen) \in seen
    BY <1>1, <1>3, GreatestIsGreatest
  <2>3. Greatest(seen) \in 1 .. Len(log)
    BY <1>1, <2>2
  <2> QED
    BY <1>1, <2>1, <2>3
<1> QED
  BY <1>2, <1>3

LEMMA ListedAreOfLog ==
  ASSUME TypesInv, NEW a, NEW b
  PROVE  SyncGroupActions(a, b) \in SUBSET (1 .. Len(log))
<1> QED
  BY LogTypes DEF SyncGroupActions

-----------------------------------------------------------------------------
(* Types, steps and phases: the ways a task goes on or ends. *)

LEMMA SocketTypes ==
  ASSUME TypeOK, EndSocket \/ UNCHANGED socket
  PROVE  socket' \in {"open", "closing", "closed"}
<1> QED
  BY DEF TypeOK, EndSocket

LEMMA Finishes ==
  ASSUME TypesInv, queue # <<>>, Finish, UNCHANGED log
  PROVE  /\ queue' \in Seq(Task) /\ step' \in Steps /\ job' \in Job
         /\ JobOf(job', Len(log')) /\ QueueOf(queue', Len(log')) /\ StepsInv'
<1>1. Len(log) \in Nat /\ queue' = Tail(queue) /\ step' = "start" /\ job' = NoJob /\ log' = log
  BY LogTypes DEF Finish
<1>2. JobOf(NoJob, Len(log)) /\ QueueOf(Tail(queue), Len(log)) /\ NoJob.sending = 0
  BY <1>1, NoJobIsOf, QueueAdvances DEF TypesInv
<1>3. StepsInv'
  BY <1>1, <1>2 DEF StepsInv, Sending, Fetching
<1> QED
  BY <1>1, <1>2, <1>3 DEF JobOf, QueueOf, Steps

\* A task ends and the session stays what it was.
LEMMA FinishesQuietly ==
  ASSUME ShapeInv, queue # <<>>, Finish, UNCHANGED <<world, session, subscribes, history>>,
         EndSocket \/ UNCHANGED socket, reply' \in {"none", "subscribed", "bootstrap", "error"},
         phase # "closed" /\ subscribed => phase = "live"
  PROVE  ShapeInv'
<1>1. TypesInv'
  BY Finishes, SocketTypes DEF ShapeInv, TypesInv, TypeOK, world, session, history
<1>2. PhaseInv'
  BY DEF ShapeInv, PhaseInv, session, Finish, Fetching, Sending
<1> QED
  BY <1>1, <1>2, Finishes DEF ShapeInv, world

\* The session ends with its task.
LEMMA EndsSession ==
  ASSUME ShapeInv, queue # <<>>, Finish, NEW held \in SUBSET Groups, EndSession(held),
         UNCHANGED <<world, subscribes, history>>,
         reply' \in {"none", "subscribed", "bootstrap", "error"}
  PROVE  ShapeInv' /\ phase' = "closed"
<1>1. TypesInv'
  BY Finishes, SocketTypes DEF ShapeInv, TypesInv, TypeOK, world, history, EndSession, Phases
<1>2. phase' = "closed"
  BY DEF EndSession
<1> QED
  BY <1>1, <1>2, Finishes DEF ShapeInv, world, PhaseInv

\* The session is reset as its task ends.
LEMMA ResetsSession ==
  ASSUME ShapeInv, queue # <<>>, Finish, Reset, EndSocket \/ UNCHANGED socket,
         UNCHANGED <<world, subscribes, history>>,
         reply' \in {"none", "subscribed", "bootstrap", "error"}
  PROVE  ShapeInv' /\ phase' = "idle"
<1>0. 0 \in 0 .. Len(log)
  BY LogTypes DEF ShapeInv
<1>1. TypesInv'
  BY <1>0, Finishes, SocketTypes DEF ShapeInv, TypesInv, TypeOK, world, history, Reset, Phases
<1>2. phase' = "idle"
  BY DEF Reset
<1>3. PhaseInv'
  BY <1>2 DEF Reset, Finish, PhaseInv, Fetching, Sending
<1> QED
  BY <1>1, <1>2, <1>3, Finishes DEF ShapeInv, world

\* A task goes on to its next step with the job j.
LEMMA GoesOn ==
  ASSUME ShapeInv, queue # <<>>, UNCHANGED <<world, queue, subscribes, history>>,
         EndSocket \/ UNCHANGED socket, reply' \in {"none", "subscribed", "bootstrap", "error"},
         step' \in Steps, JobOf(job', Len(log)),
         phase' \in Phases, groups' \subseteq Groups,
         {afterSyncId, scannedThrough, groupRefreshCursor}' \subseteq 0 .. Len(log),
         bufferedActions' \subseteq 1 .. Len(log), subscribed' \in BOOLEAN,
         StepsInv', PhaseInv'
  PROVE  ShapeInv'
<1> QED
  BY SocketTypes DEF ShapeInv, TypesInv, TypeOK, world, history, JobOf

LEMMA Shapes ==
  ASSUME ShapeInv
  PROVE  /\ TypesInv /\ TypeOK /\ StepsInv /\ PhaseInv
         /\ Len(log) \in 0 .. MaxId /\ Len(log) \in Nat /\ 0 \in 0 .. Len(log)
         /\ job \in Job /\ JobOf(job, Len(log)) /\ QueueOf(queue, Len(log))
         /\ phase \in Phases /\ groups \subseteq Groups /\ subscribed \in BOOLEAN
         /\ bufferedActions \subseteq 1 .. Len(log)
         /\ afterSyncId \in 0 .. Len(log) /\ scannedThrough \in 0 .. Len(log)
         /\ groupRefreshCursor \in 0 .. Len(log) /\ start \in 0 .. Len(log)
         /\ reply \in {"none", "subscribed", "bootstrap", "error"}
         /\ queue # <<>> => TaskOf(Head(queue), Len(log)) /\ Head(queue) \in Task
                            /\ Head(queue).kind \in {"subscribe", "delta", "catchUp"}
<1>1. /\ TypesInv /\ TypeOK /\ StepsInv /\ PhaseInv
      /\ Len(log) \in 0 .. MaxId /\ Len(log) \in Nat
  BY LogTypes DEF ShapeInv, TypesInv
<1>2. queue # <<>> => TaskOf(Head(queue), Len(log))
  BY <1>1, QueueAdvances DEF TypesInv
<1>3. queue # <<>> => Head(queue) \in Task /\ Head(queue).kind \in {"subscribe", "delta", "catchUp"}
  BY <1>2, TaskTypes DEF TaskOf
<1>4. /\ phase \in Phases /\ groups \subseteq Groups /\ subscribed \in BOOLEAN
      /\ bufferedActions \subseteq 1 .. Len(log)
      /\ afterSyncId \in 0 .. Len(log) /\ scannedThrough \in 0 .. Len(log)
      /\ groupRefreshCursor \in 0 .. Len(log) /\ start \in 0 .. Len(log)
      /\ reply \in {"none", "subscribed", "bootstrap", "error"}
  BY <1>1 DEF TypeOK
<1>5. job \in Job /\ JobOf(job, Len(log)) /\ QueueOf(queue, Len(log)) /\ 0 \in 0 .. Len(log)
  BY <1>1 DEF TypesInv, JobOf
<1> QED
  BY <1>1, <1>2, <1>3, <1>4, <1>5

LEMMA AbandonShape ==
  ASSUME ShapeInv, Abandon
  PROVE  ShapeInv'
<1> QED
  BY FinishesQuietly, Shapes DEF Abandon

LEMMA BeginSubscribeShape ==
  ASSUME ShapeInv, BeginSubscribe
  PROVE  ShapeInv' /\ phase' = "idle"
<1> USE Shapes
<1>1. /\ queue # <<>> /\ step = "start" /\ Head(queue).kind = "subscribe" /\ Reset /\ reply' = "none"
      /\ step' = "authenticate" /\ job' = job
      /\ UNCHANGED <<world, queue, socket, subscribes, history>>
  BY DEF BeginSubscribe, Waiting, Continue
<1>2. StepsInv'
  BY <1>1 DEF StepsInv, Fetching, Sending
<1>3. PhaseInv' /\ phase' = "idle"
  BY <1>1 DEF PhaseInv, Fetching, Sending, Reset
<1> QED
  BY <1>1, <1>2, <1>3, GoesOn DEF Reset, Steps, Phases

LEMMA RejectSubscribeShape ==
  ASSUME ShapeInv, RejectSubscribe
  PROVE  ShapeInv' /\ phase' = "idle"
<1> USE Shapes
<1>1. /\ queue # <<>> /\ step = "authenticate" /\ phase # "closed" /\ reply' = "error" /\ Finish
      /\ EndSocket \/ UNCHANGED socket
      /\ UNCHANGED <<world, session, subscribes, history>>
  BY DEF RejectSubscribe, At
<1>2. phase = "idle" /\ ~subscribed
  BY <1>1 DEF PhaseInv
<1> QED
  BY <1>1, <1>2, FinishesQuietly DEF session

LEMMA BeginReplayShape ==
  ASSUME ShapeInv, NEW answer \in Access, BeginReplay(answer)
  PROVE  ShapeInv'
<1> USE Shapes
<1>1. /\ queue # <<>> /\ step = "authenticate" /\ phase # "closed"
      /\ UNCHANGED <<world, socket, subscribes>>
  BY DEF BeginReplay, At
<1>2. phase = "idle" /\ ~subscribed /\ Head(queue).kind = "subscribe" /\ job = NoJob
  BY <1>1 DEF PhaseInv, StepsInv
<1> DEFINE held == Head(queue).groups \cap answer
<1>3. held \subseteq Groups /\ Head(queue).after \in 0 .. Len(log)
  BY <1>1, <1>2, TaskTypes DEF TaskOf, Cursors
<1>4. CASE reply' = "bootstrap" /\ Finish /\ UNCHANGED <<session, history>>
  BY <1>1, <1>2, <1>4, FinishesQuietly
<1>5. CASE /\ phase' = "replaying" /\ groups' = held /\ afterSyncId' = Head(queue).after
           /\ scannedThrough' = Head(queue).after /\ groupRefreshCursor' = Head(queue).after
           /\ bufferedActions' = {} /\ start' = Head(queue).after /\ frames' = <<>>
           /\ step' = "floor" /\ job' = job /\ UNCHANGED queue /\ UNCHANGED <<subscribed, reply>>
  <2>1. StepsInv'
    BY <1>1, <1>2, <1>5 DEF StepsInv, Fetching, Sending
  <2>2. PhaseInv'
    BY <1>1, <1>2, <1>5 DEF PhaseInv, Fetching, Sending
  <2>3. frames' \in Seq(1 .. Len(log'))
    BY <1>5
  <2>4. TypesInv'
    BY <1>1, <1>3, <1>5, <2>3 DEF TypesInv, TypeOK, world, Phases, Steps
  <2> QED
    BY <2>1, <2>2, <2>4 DEF ShapeInv
<1> QED
  BY <1>4, <1>5 DEF BeginReplay, Continue

\* What a running task finds, by its step: a session that was not closed.
LEMMA Finds ==
  ASSUME ShapeInv, NEW s, At(s)
  PROVE  /\ queue # <<>> /\ step = s /\ phase # "closed"
         /\ s = "floor" => phase = "replaying" /\ ~subscribed /\ job = NoJob
                           /\ Head(queue).kind = "subscribe"
         /\ s \in Fetching \cup {"deliver"} =>
               /\ subscribed
               /\ Head(queue).kind = "subscribe" => phase = "replaying"
               /\ Head(queue).kind # "subscribe" => phase = "live"
         /\ s \in Fetching /\ job.target = 0 => Head(queue).kind = "subscribe"
         /\ s \in {"list", "acknowledge"} => phase = "live" /\ subscribed /\ job = NoJob
         /\ s = "acknowledge" => Head(queue).kind = "subscribe"
         /\ s = "list" => Head(queue).kind = "catchUp"
         /\ s = "deliver" => job.target = 0
         /\ s \in Sending => job.sending # 0
         /\ s \notin Sending => job.sending = 0
<1> QED
  BY DEF At, ShapeInv, StepsInv, PhaseInv, Fetching, Sending

LEMMA InstallSubscriptionShape ==
  ASSUME ShapeInv, InstallSubscription
  PROVE  ShapeInv'
<1> USE Shapes
<1>1. /\ queue # <<>> /\ step = "floor" /\ phase = "replaying" /\ job = NoJob
      /\ Head(queue).kind = "subscribe"
      /\ UNCHANGED <<world, socket, subscribes, history>>
  BY Finds DEF InstallSubscription
<1>2. CASE Reset /\ reply' = "bootstrap" /\ Finish
  BY <1>1, <1>2, ResetsSession
<1>3. CASE /\ subscribed' = TRUE /\ step' = "read" /\ job' = [job EXCEPT !.cursor = afterSyncId]
           /\ UNCHANGED queue
           /\ UNCHANGED <<phase, groups, afterSyncId, scannedThrough, groupRefreshCursor,
                          bufferedActions, reply>>
  <2>1. JobOf(job', Len(log)) /\ job'.target = job.target /\ job'.sending = job.sending
    BY <1>3, MovingCursor
  <2>2. job.target = 0 /\ job.sending = 0
    BY <1>1, NoJobIsOf
  <2>3. StepsInv'
    BY <1>1, <1>3, <2>1, <2>2 DEF StepsInv, Fetching, Sending
  <2>4. PhaseInv'
    BY <1>1, <1>3 DEF PhaseInv, Fetching, Sending
  <2> QED
    BY <1>1, <1>3, <2>1, <2>3, <2>4, GoesOn DEF Steps
<1> QED
  BY <1>1, <1>2, <1>3 DEF InstallSubscription, Continue

\* A task that fetches or delivers goes on, and the session is what it was but
\* for its cursors and its groups.
LEMMA FetchesOn ==
  ASSUME ShapeInv, NEW s, At(s), s \in Fetching \cup {"deliver"},
         UNCHANGED <<world, queue, subscribes, socket, phase, subscribed, reply>>,
         step' \in Fetching \cup {"deliver"}, JobOf(job', Len(log)),
         step' = "deliver" => job'.target = 0,
         step' \in Sending <=> job'.sending # 0,
         step' \in Fetching /\ job'.target = 0 => Head(queue).kind = "subscribe",
         groups' \subseteq Groups,
         {afterSyncId, scannedThrough, groupRefreshCursor}' \subseteq 0 .. Len(log),
         bufferedActions' \subseteq bufferedActions,
         start' = start, frames' \in Seq(1 .. Len(log))
  PROVE  ShapeInv'
<1> USE Shapes
<1>1. StepsInv'
  BY Finds DEF StepsInv, Fetching, Sending
<1>2. PhaseInv'
  BY Finds DEF PhaseInv, Fetching, Sending
<1>3. TypesInv'
  BY DEF TypesInv, TypeOK, world, JobOf, Fetching, Sending, Steps
<1> QED
  BY <1>1, <1>2, <1>3 DEF ShapeInv

LEMMA BootstrapShape ==
  ASSUME ShapeInv, queue # <<>>, RequireBootstrap
  PROVE  ShapeInv' /\ phase' = "closed"
<1> QED
  BY EndsSession DEF RequireBootstrap

LEMMA PageTaken ==
  ASSUME ShapeInv, NEW rows \in SUBSET (1 .. Len(log)), NEW limit, TakePage(rows, limit)
  PROVE  /\ step' = "check" /\ queue' = queue /\ JobOf(job', Len(log))
         /\ job'.page = rows /\ job'.full = (Cardinality(rows) = limit)
         /\ rows # {} => job'.last \in rows /\ \A p \in rows : p <= job'.last
         /\ job'.target = job.target /\ job'.sending = job.sending /\ job'.cursor = job.cursor
         /\ job'.pending = job.pending
<1> DEFINE last == IF rows = {} THEN job.last ELSE Greatest(rows)
           full == Cardinality(rows) = limit
           pages == IF job.target = 0 THEN 0 ELSE job.pages + 1
<1>1. job \in Job /\ JobOf(job, Len(log)) /\ Len(log) \in 0 .. MaxId /\ Len(log) \in Nat
  BY Shapes
<1>2. rows # {} => Greatest(rows) \in rows /\ \A p \in rows : p <= Greatest(rows)
  BY <1>1, GreatestIsGreatest
<1>7. job.last \in 0 .. Len(log) /\ job.pages \in Nat
  BY <1>1 DEF JobOf, Job
<1>9. rows # {} => Greatest(rows) \in 1 .. Len(log)
  BY <1>2
<1>8. rows # {} => Greatest(rows) \in 0 .. Len(log)
  BY <1>9
<1>3. last \in 0 .. Len(log) /\ full \in BOOLEAN /\ pages \in Nat
  BY <1>7, <1>8
<1>4. job' = [job EXCEPT !.page = rows, !.last = last, !.full = full, !.pages = pages]
  BY <1>1 DEF TakePage, Continue, Job
<1>5. rows # {} => last = Greatest(rows)
  OBVIOUS
<1> HIDE DEF last, full, pages
<1>6. /\ JobOf(job', Len(log)) /\ job'.page = rows /\ job'.full = full /\ job'.last = last
      /\ job'.target = job.target /\ job'.sending = job.sending /\ job'.cursor = job.cursor
      /\ job'.pending = job.pending
  <2> DEFINE k == [job EXCEPT !.page = rows, !.last = last, !.full = full, !.pages = pages]
  <2>1. /\ JobOf(k, Len(log)) /\ k.page = rows /\ k.full = full /\ k.last = last
        /\ k.target = job.target /\ k.sending = job.sending /\ k.cursor = job.cursor
        /\ k.pending = job.pending
    <3>1. rows \in SUBSET Ids /\ last \in Cursors
      BY <1>1, <1>3, BoundsAssumption DEF Ids, Cursors
    <3>2. k \in Job
      BY <1>1, <1>3, <3>1 DEF Job
    <3>3. /\ k.page = rows /\ k.full = full /\ k.last = last
          /\ k.target = job.target /\ k.sending = job.sending /\ k.cursor = job.cursor
          /\ k.pending = job.pending /\ k.through = job.through
      BY <1>1 DEF Job
    <3> HIDE DEF k
    <3> QED
      BY <1>1, <1>3, <3>2, <3>3 DEF JobOf
  <2> QED
    BY <1>4, <2>1
<1> QED
  BY <1>2, <1>5, <1>6 DEF TakePage, Continue, full

LEMMA ReadReplayPageShape ==
  ASSUME ShapeInv, ReadReplayPage
  PROVE  ShapeInv'
<1> USE Shapes
<1>1. /\ At("read") /\ job.target = 0 /\ queue # <<>> /\ step = "read"
      /\ UNCHANGED <<world, socket, session, subscribes, reply, history>>
  BY DEF ReadReplayPage, At
<1>2. Head(queue).kind = "subscribe" /\ job.sending = 0 /\ frames \in Seq(1 .. Len(log))
  BY <1>1, Finds DEF Fetching, Sending, TypeOK
<1>3. CASE Continue("deliver", NoJob)
  <2>1. /\ step' = "deliver" /\ job' = NoJob /\ queue' = queue
        /\ JobOf(NoJob, Len(log)) /\ NoJob.target = 0 /\ NoJob.sending = 0
    BY <1>3, NoJobIsOf DEF Continue
  <2> QED
    BY <1>1, <1>2, <2>1, FetchesOn DEF Fetching, Sending, session, history
<1>4. CASE TakePage(VisibleActions(job.cursor, Len(log), groups, ReplayPageSize), ReplayPageSize)
  <2> DEFINE rows == VisibleActions(job.cursor, Len(log), groups, ReplayPageSize)
  <2>1. rows \in SUBSET (1 .. Len(log))
    BY PagesAreOfLog
  <2> HIDE DEF rows
  <2>2. /\ step' = "check" /\ queue' = queue /\ JobOf(job', Len(log))
        /\ job'.target = 0 /\ job'.sending = 0
    BY <1>1, <1>2, <1>4, <2>1, PageTaken DEF rows
  <2> QED
    BY <1>1, <1>2, <2>2, FetchesOn DEF Fetching, Sending, session, history
<1> QED
  BY <1>3, <1>4 DEF ReadReplayPage

LEMMA ReadGapPageShape ==
  ASSUME ShapeInv, ReadGapPage
  PROVE  ShapeInv'
<1> USE Shapes
<1>1. At("read") /\ job.cursor < job.target - 1 /\ queue # <<>> /\ step = "read"
  BY DEF ReadGapPage, At
<1>5. job.cursor \in 0 .. Len(log) /\ job.target \in 0 .. Len(log)
  BY DEF JobOf
<1>6. job.target # 0
  BY <1>1, <1>5
<1>2. job.sending = 0 /\ frames \in Seq(1 .. Len(log)) /\ job.target # 0
  BY <1>1, <1>6, Finds DEF Fetching, Sending, TypeOK
<1>3. CASE RequireBootstrap
  BY <1>1, <1>3, BootstrapShape
<1>4. CASE /\ TakePage(VisibleActions(job.cursor, job.target - 1, groups, GapFillPageSize),
                       GapFillPageSize)
           /\ UNCHANGED <<world, socket, session, subscribes, reply, history>>
  <2> DEFINE rows == VisibleActions(job.cursor, job.target - 1, groups, GapFillPageSize)
  <2>0. job.target - 1 \in 0 .. Len(log) /\ job.cursor \in 0 .. Len(log)
    BY <1>5, <1>6
  <2>1. rows \in SUBSET (1 .. Len(log))
    BY PagesAreOfLog
  <2> HIDE DEF rows
  <2>2. /\ step' = "check" /\ queue' = queue /\ JobOf(job', Len(log))
        /\ job'.target = job.target /\ job'.sending = 0
    BY <1>1, <1>2, <1>4, <2>1, PageTaken DEF rows
  <2> QED
    BY <1>1, <1>2, <1>4, <2>2, FetchesOn DEF Fetching, Sending, session, history
<1> QED
  BY <1>3, <1>4 DEF ReadGapPage

LEMMA CheckPageShape ==
  ASSUME ShapeInv, CheckPage
  PROVE  ShapeInv'
<1> USE Shapes
<1>1. At("check") /\ queue # <<>> /\ step = "check"
  BY DEF CheckPage, At
<1>2. job.sending = 0 /\ frames \in Seq(1 .. Len(log))
  BY <1>1, Finds DEF Fetching, Sending, TypeOK
<1>3. CASE RequireBootstrap
  BY <1>1, <1>3, BootstrapShape
<1>4. CASE Reset /\ reply' = "bootstrap" /\ Finish /\ UNCHANGED <<world, socket, subscribes, history>>
  BY <1>1, <1>4, ResetsSession
<1>5. CASE Continue("next", job) /\ UNCHANGED <<world, socket, session, subscribes, reply, history>>
  <2>1. step' = "next" /\ job' = job /\ queue' = queue
    BY <1>5 DEF Continue
  <2>2. job.target = 0 => Head(queue).kind = "subscribe"
    BY <1>1, Finds DEF Fetching
  <2> QED
    BY <1>1, <1>2, <1>5, <2>1, <2>2, FetchesOn DEF Fetching, Sending, session, history
<1> QED
  BY <1>3, <1>4, <1>5 DEF CheckPage

LEMMA Claims ==
  ASSUME ShapeInv, NEW s, At(s), s \in Fetching \cup {"deliver"}, NEW i \in 1 .. Len(log),
         NEW j, JobOf([j EXCEPT !.sending = i], Len(log)), [j EXCEPT !.sending = i].sending = i,
         [j EXCEPT !.sending = i].target = 0 => Head(queue).kind = "subscribe",
         Claim(i, j)
  PROVE  ShapeInv'
<1> USE Shapes
<1> DEFINE k == [j EXCEPT !.sending = i]
<1>1. /\ scannedThrough' = i /\ step' \in Sending /\ job' = k /\ queue' = queue
      /\ UNCHANGED <<world, socket, phase, groups, afterSyncId, groupRefreshCursor,
                     bufferedActions, subscribed, subscribes, reply, history>>
  BY DEF Claim, Continue, Sending
<1>2. JobOf(k, Len(log)) /\ k.sending = i /\ (k.target = 0 => Head(queue).kind = "subscribe")
  OBVIOUS
<1> HIDE DEF k
<1>3. i # 0 /\ i \in 0 .. Len(log) /\ frames \in Seq(1 .. Len(log))
  BY DEF TypeOK
<1> QED
  BY <1>1, <1>2, <1>3, FetchesOn DEF Fetching, Sending, history

LEMMA SendFromPageShape ==
  ASSUME ShapeInv, SendFromPage
  PROVE  ShapeInv'
<1> USE Shapes
<1> DEFINE i == Least(job.page)
           rest == [job EXCEPT !.page = @ \ {i}]
<1>1. At("next") /\ step = "next" /\ job.page # {}
  BY DEF SendFromPage, At
<1>2. i \in 1 .. Len(log) /\ i \in job.page
  BY <1>1, LeastIsLeast DEF JobOf
<1>3. job.sending = 0 /\ frames \in Seq(1 .. Len(log))
      /\ (job.target = 0 => Head(queue).kind = "subscribe")
  BY <1>1, Finds DEF Fetching, Sending, TypeOK
<1>4. \/ Claim(i, rest)
      \/ Continue("next", rest) /\ UNCHANGED <<world, socket, session, subscribes, reply, history>>
  BY DEF SendFromPage
<1> HIDE DEF i
<1>5. CASE Claim(i, rest)
  <2> DEFINE k == [rest EXCEPT !.sending = i]
  <2>1. JobOf(k, Len(log)) /\ k.sending = i /\ k.target = job.target
    <3>1. JobOf(rest, Len(log)) /\ rest.target = job.target
      BY <1>2, Dropping
    <3> HIDE DEF rest
    <3> QED
      BY <1>2, <3>1, ToSend
  <2> HIDE DEF rest
  <2> QED
    BY <1>1, <1>2, <1>3, <1>5, <2>1, Claims DEF Fetching
<1>6. CASE Continue("next", rest) /\ UNCHANGED <<world, socket, session, subscribes, reply, history>>
  <2>1. JobOf(rest, Len(log)) /\ rest.sending = job.sending /\ rest.target = job.target
    BY <1>2, Dropping
  <2> HIDE DEF rest
  <2>2. step' = "next" /\ job' = rest /\ queue' = queue
    BY <1>6 DEF Continue
  <2> QED
    BY <1>1, <1>3, <1>6, <2>1, <2>2, FetchesOn DEF Fetching, Sending, session, history
<1> QED
  BY <1>4, <1>5, <1>6

LEMMA NextPageShape ==
  ASSUME ShapeInv, NextPage
  PROVE  ShapeInv'
<1> USE Shapes
<1>1. /\ At("next") /\ step = "next" /\ step' = "read" /\ queue' = queue
      /\ job' = [job EXCEPT !.cursor = job.last]
      /\ UNCHANGED <<world, socket, session, subscribes, reply, history>>
  BY DEF NextPage, At, Continue, ReadOn
<1>2. job.sending = 0 /\ frames \in Seq(1 .. Len(log)) /\ job.last \in 0 .. Len(log)
      /\ (job.target = 0 => Head(queue).kind = "subscribe")
  BY <1>1, Finds DEF Fetching, Sending, TypeOK, JobOf
<1>3. JobOf(job', Len(log)) /\ job'.sending = 0 /\ job'.target = job.target
  BY <1>1, <1>2, MovingCursor
<1> QED
  BY <1>1, <1>2, <1>3, FetchesOn DEF Fetching, Sending, session, history

LEMMA EndReplayShape ==
  ASSUME ShapeInv, EndReplay
  PROVE  ShapeInv'
<1> USE Shapes
<1>1. /\ At("next") /\ step = "next" /\ step' = "deliver" /\ queue' = queue /\ job' = NoJob
      /\ UNCHANGED <<world, socket, session, subscribes, reply, history>>
  BY DEF EndReplay, At, Continue
<1>2. /\ frames \in Seq(1 .. Len(log)) /\ JobOf(NoJob, Len(log))
      /\ NoJob.target = 0 /\ NoJob.sending = 0
  BY <1>1, NoJobIsOf DEF TypeOK
<1> QED
  BY <1>1, <1>2, FetchesOn DEF Fetching, Sending, session, history

LEMMA EndGapShape ==
  ASSUME ShapeInv, EndGap
  PROVE  ShapeInv'
<1> USE Shapes
<1>1. PICK s \in {"next", "read"} : At(s)
  BY DEF EndGap
<1>2. job.target # 0 /\ job.target \in 1 .. Len(log) /\ Claim(job.target, job)
  BY DEF EndGap, JobOf
<1> DEFINE i == job.target
           k == [job EXCEPT !.sending = i]
<1>3. JobOf(k, Len(log)) /\ k.sending = i /\ k.target = job.target
  BY <1>2, ToSend
<1> HIDE DEF i
<1>4. i \in 1 .. Len(log) /\ Claim(i, job) /\ i # 0 /\ i = job.target
  BY <1>2 DEF i
<1> QED
  BY <1>1, <1>3, <1>4, Claims DEF Fetching

LEMMA DenyDeliveryShape ==
  ASSUME ShapeInv, DenyDelivery
  PROVE  ShapeInv' /\ phase' = "closed"
<1> QED
  BY EndsSession DEF DenyDelivery, At

LEMMA Returns ==
  ASSUME ShapeInv, NEW s, At(s), s \in Sending, Return
  PROVE  /\ queue' = queue /\ step' \in {"deliver", "next"}
         /\ JobOf(job', Len(log)) /\ job'.sending = 0 /\ job'.pending = job.pending
         /\ job.sending = job.target => step' = "deliver" /\ job'.target = 0
         /\ job.sending # job.target =>
               /\ step' = "next" /\ job'.target = job.target /\ job'.cursor = job.cursor
               /\ job'.page = job.page /\ job'.last = job.last /\ job'.full = job.full
<1> USE Shapes
<1>1. CASE job.sending = job.target
  <2> DEFINE k == Through(job.pending, job.through)
  <2>1. step' = "deliver" /\ job' = k /\ queue' = queue
    BY <1>1 DEF Return, Continue, Through
  <2>2. job.pending \in SUBSET (1 .. Len(log)) /\ job.through \in 0 .. Len(log)
    BY DEF JobOf
  <2>3. JobOf(k, Len(log)) /\ k.sending = 0 /\ k.pending = job.pending /\ k.target = 0
    BY <2>2, ListsThrough
  <2> HIDE DEF k
  <2> QED
    BY <1>1, <2>1, <2>3
<1>2. CASE job.sending # job.target
  <2> DEFINE k == [job EXCEPT !.sending = 0]
  <2>1. step' = "next" /\ job' = k /\ queue' = queue
    BY <1>2 DEF Return, Continue
  <2>3. /\ JobOf(k, Len(log)) /\ k.sending = 0 /\ k.pending = job.pending /\ k.target = job.target
        /\ k.cursor = job.cursor /\ k.page = job.page /\ k.last = job.last /\ k.full = job.full
    BY ToSend
  <2> HIDE DEF k
  <2> QED
    BY <1>2, <2>1, <2>3
<1> QED
  BY <1>1, <1>2

LEMMA AuthorizeDeliveryShape ==
  ASSUME ShapeInv, AuthorizeDelivery
  PROVE  ShapeInv'
<1> USE Shapes
<1>1. /\ At("authorize") /\ step = "authorize" /\ groups' \subseteq groups
      /\ UNCHANGED <<world, socket, phase, afterSyncId, scannedThrough, groupRefreshCursor,
                     bufferedActions, subscribed, subscribes, reply, history>>
  BY DEF AuthorizeDelivery, At
<1>2. job.sending # 0 /\ (job.target = 0 => Head(queue).kind = "subscribe")
      /\ frames \in Seq(1 .. Len(log))
  BY <1>1, Finds DEF Fetching, Sending, TypeOK
<1>3. CASE Return
  <2>1. /\ queue' = queue /\ step' \in {"deliver", "next"} /\ JobOf(job', Len(log))
        /\ job'.sending = 0 /\ (step' = "deliver" => job'.target = 0)
        /\ (step' = "next" => job'.target = job.target)
    BY <1>1, <1>3, Returns DEF Sending
  <2> QED
    BY <1>1, <1>2, <2>1, FetchesOn DEF Fetching, Sending, history
<1>4. CASE Continue("guard", job)
  <2>1. step' = "guard" /\ job' = job /\ queue' = queue
    BY <1>4 DEF Continue
  <2> QED
    BY <1>1, <1>2, <2>1, FetchesOn DEF Fetching, Sending, history
<1> QED
  BY <1>3, <1>4 DEF AuthorizeDelivery

LEMMA Emits ==
  ASSUME ShapeInv, NEW s, At(s), s \in Sending, NEW c \in 0 .. Len(log), Emit(c)
  PROVE  ShapeInv'
<1> USE Shapes
<1>1. /\ groups' \subseteq groups /\ Return /\ step = s /\ job.sending \in 1 .. Len(log)
      /\ UNCHANGED <<world, socket, phase, scannedThrough, bufferedActions, subscribed,
                     subscribes, reply, start>>
  BY Finds DEF Emit, At, JobOf
<1>2. job.target = 0 => Head(queue).kind = "subscribe"
  BY Finds DEF Fetching
<1>3. /\ queue' = queue /\ step' \in {"deliver", "next"} /\ JobOf(job', Len(log))
      /\ job'.sending = 0 /\ (step' = "deliver" => job'.target = 0)
      /\ (step' = "next" => job'.target = job.target)
  BY <1>1, Returns
<1>4. afterSyncId' \in 0 .. Len(log) /\ groupRefreshCursor' \in 0 .. Len(log)
  BY <1>1 DEF Emit, Larger
<1>5. frames' \in Seq(1 .. Len(log))
  <2>1. frames \in Seq(1 .. Len(log))
    BY DEF TypeOK
  <2>2. frames' = Append(frames, job.sending) \/ frames' = frames
    BY DEF Emit
  <2>3. job.sending \in 1 .. Len(log)
    BY <1>1
  <2>4. \A S, x : frames \in Seq(S) /\ x \in S => Append(frames, x) \in Seq(S)
    OBVIOUS
  <2> QED
    BY <2>1, <2>2, <2>3, <2>4
<1> QED
  BY <1>1, <1>2, <1>3, <1>4, <1>5, FetchesOn DEF Fetching, Sending

LEMMA SendFrameShape ==
  ASSUME ShapeInv, SendFrame
  PROVE  ShapeInv'
<1> QED
  BY Shapes, Emits DEF SendFrame, Sending

LEMMA GuardFloorShape ==
  ASSUME ShapeInv, GuardFloor
  PROVE  ShapeInv'
<1> USE Shapes
<1>1. At("guard") /\ step = "guard" /\ queue # <<>>
  BY DEF GuardFloor, At
<1>2. CASE RequireBootstrap
  BY <1>1, <1>2, BootstrapShape
<1>3. CASE Continue("refreshes", job) /\ UNCHANGED <<world, socket, session, subscribes, reply, history>>
  <2>1. /\ step' = "refreshes" /\ job' = job /\ queue' = queue /\ frames \in Seq(1 .. Len(log))
        /\ job.sending # 0 /\ (job.target = 0 => Head(queue).kind = "subscribe")
    BY <1>1, <1>3, Finds DEF Continue, Fetching, Sending, TypeOK
  <2> QED
    BY <1>1, <1>3, <2>1, FetchesOn DEF Fetching, Sending, history, session
<1> QED
  BY <1>2, <1>3 DEF GuardFloor

LEMMA GuardRefreshesShape ==
  ASSUME ShapeInv, GuardRefreshes
  PROVE  ShapeInv'
<1> USE Shapes
<1>1. At("refreshes") /\ queue # <<>> /\ job.sending \in 0 .. Len(log)
  BY DEF GuardRefreshes, At, JobOf
<1>2. CASE RequireBootstrap
  BY <1>1, <1>2, BootstrapShape
<1>3. CASE Emit(job.sending)
  <2> DEFINE c == job.sending
  <2>1. c \in 0 .. Len(log) /\ Emit(c)
    BY <1>1, <1>3
  <2> HIDE DEF c
  <2> QED
    BY <1>1, <2>1, Emits DEF Sending
<1> QED
  BY <1>2, <1>3 DEF GuardRefreshes

LEMMA TakeDeltaShape ==
  ASSUME ShapeInv, TakeDelta
  PROVE  ShapeInv'
<1> USE Shapes
<1>1. /\ queue # <<>> /\ step = "start" /\ Head(queue).kind = "delta"
      /\ UNCHANGED <<world, socket, session, subscribes, reply, history>>
  BY DEF TakeDelta, Waiting
<1>2. CASE phase # "live"
  <2>1. Finish
    BY <1>2 DEF TakeDelta
  <2> QED
    BY <1>1, <1>2, <2>1, FinishesQuietly DEF PhaseInv
<1>3. CASE phase = "live"
  <2> DEFINE S == {Head(queue).id}
             k == [NoJob EXCEPT !.pending = S]
  <2>1. Continue("deliver", k)
    BY <1>3 DEF TakeDelta
  <2>2. S \in SUBSET (1 .. Len(log))
    BY <1>1, TaskTypes DEF TaskOf, Ids
  <2>3. JobOf(k, Len(log)) /\ k.target = 0 /\ k.sending = 0
    <3> HIDE DEF S
    <3> QED
      BY <2>2, Lists
  <2> HIDE DEF k
  <2>4. StepsInv'
    BY <1>1, <2>1, <2>3 DEF StepsInv, Continue, Fetching, Sending
  <2>5. PhaseInv'
    BY <1>1, <1>3, <2>1 DEF PhaseInv, Continue, Fetching, Sending, session
  <2> QED
    BY <1>1, <2>1, <2>3, <2>4, <2>5, GoesOn DEF Continue, session, Steps
<1> QED
  BY <1>2, <1>3

LEMMA EndDeltaShape ==
  ASSUME ShapeInv, EndDelta
  PROVE  ShapeInv'
<1>1. /\ At("deliver") /\ Finish /\ Head(queue).kind = "delta"
      /\ UNCHANGED <<world, socket, session, subscribes, reply, history>>
  BY DEF EndDelta
<1>2. queue # <<>> /\ phase = "live"
  BY <1>1, Finds DEF Fetching
<1> QED
  BY <1>1, <1>2, Shapes, FinishesQuietly

\* DeliverNext, as its alternatives, of the notification i.
DeliverBranches(i) ==
    LET rest == [job EXCEPT !.pending = @ \ {i}]
        listed == Head(queue).kind = "catchUp"
    IN  \/ listed /\ i <= afterSyncId /\ RequireBootstrap
        \/ /\ i <= scannedThrough
           /\ Continue("deliver", rest)
           /\ UNCHANGED <<world, socket, session, subscribes, reply, history>>
        \/ /\ ~listed /\ ~Overlaps(groups, i)
           /\ scannedThrough' = IF i = scannedThrough + 1 THEN i ELSE scannedThrough
           /\ Continue("deliver", rest)
           /\ UNCHANGED <<world, socket, phase, groups, afterSyncId, groupRefreshCursor,
                          bufferedActions, subscribed, subscribes, reply, history>>
        \/ /\ i > scannedThrough + 1
           /\ Continue("read", GapJob(rest, i, scannedThrough))
           /\ UNCHANGED <<world, socket, session, subscribes, reply, history>>
        \/ /\ i > scannedThrough /\ i <= scannedThrough + 1
           /\ Claim(i, [rest EXCEPT !.target = i])

LEMMA DeliverNextBranches ==
  ASSUME ShapeInv, DeliverNext
  PROVE  /\ At("deliver") /\ queue # <<>> /\ step = "deliver" /\ phase # "closed"
         /\ job.target = 0 /\ job.sending = 0
         /\ \E i \in job.pending :
               /\ \A j \in job.pending : i <= j
               /\ DeliverBranches(i)
<1> USE Shapes
<1> DEFINE i == Least(job.pending)
<1>1. At("deliver") /\ job.pending # {}
  BY DEF DeliverNext
<1>2. i \in job.pending /\ \A j \in job.pending : i <= j
  BY <1>1, LeastIsLeast DEF JobOf
<1>3. i \in Int /\ scannedThrough \in Int
  BY <1>2 DEF JobOf
<1>4. DeliverBranches(i)
  BY <1>3 DEF DeliverNext, DeliverBranches, IsNews, HasGapBelow, GapJob
<1>5. /\ queue # <<>> /\ step = "deliver" /\ phase # "closed"
      /\ job.target = 0 /\ job.sending = 0
  BY <1>1, Finds DEF Fetching, Sending
<1> HIDE DEF i
<1> QED
  BY <1>1, <1>2, <1>4, <1>5

LEMMA DeliverNextShape ==
  ASSUME ShapeInv, DeliverNext
  PROVE  ShapeInv'
<1> USE Shapes
<1>1. /\ At("deliver") /\ queue # <<>> /\ step = "deliver" /\ job.target = 0 /\ job.sending = 0
      /\ frames \in Seq(1 .. Len(log))
  BY DeliverNextBranches DEF TypeOK
<1>2. PICK i \in job.pending : DeliverBranches(i)
  BY DeliverNextBranches
<1>3. i \in 1 .. Len(log) /\ i \in 0 .. Len(log) /\ i # 0
  BY DEF JobOf
<1> DEFINE rest == [job EXCEPT !.pending = @ \ {i}]
<1>4. JobOf(rest, Len(log)) /\ rest.target = 0 /\ rest.sending = 0
  <2> DEFINE n == Len(log)
  <2>1. n \in 0 .. MaxId /\ JobOf(job, n) /\ i \in 1 .. n
    BY <1>3
  <2> HIDE DEF n
  <2>2. JobOf(rest, n) /\ rest.target = job.target /\ rest.sending = job.sending
    BY <2>1, Hearing
  <2> QED
    BY <1>1, <2>2 DEF n
<1>5. CASE RequireBootstrap
  BY <1>1, <1>5, BootstrapShape
<1>6. CASE /\ Continue("deliver", rest)
           /\ UNCHANGED <<world, socket, session, subscribes, reply, history>>
  <2> HIDE DEF rest
  <2>1. step' = "deliver" /\ job' = rest /\ queue' = queue
    BY <1>6 DEF Continue
  <2> QED
    BY <1>1, <1>4, <1>6, <2>1, FetchesOn DEF Fetching, Sending, session, history
<1>7. CASE /\ scannedThrough' = IF i = scannedThrough + 1 THEN i ELSE scannedThrough
           /\ Continue("deliver", rest)
           /\ UNCHANGED <<world, socket, phase, groups, afterSyncId, groupRefreshCursor,
                          bufferedActions, subscribed, subscribes, reply, history>>
  <2> HIDE DEF rest
  <2>1. step' = "deliver" /\ job' = rest /\ queue' = queue /\ scannedThrough' \in 0 .. Len(log)
    BY <1>3, <1>7 DEF Continue
  <2> QED
    BY <1>1, <1>4, <1>7, <2>1, FetchesOn DEF Fetching, Sending, history
<1>8. CASE /\ Continue("read", GapJob(rest, i, scannedThrough))
           /\ UNCHANGED <<world, socket, session, subscribes, reply, history>>
  <2> HIDE DEF rest
  <2> DEFINE k == GapJob(rest, i, scannedThrough)
  <2>1. JobOf(k, Len(log)) /\ k.target = i /\ k.sending = 0
    <3>1. /\ Len(log) \in 0 .. MaxId /\ JobOf(rest, Len(log)) /\ i \in 0 .. Len(log)
          /\ scannedThrough \in 0 .. Len(log)
      BY <1>3, <1>4
    <3>2. /\ JobOf(k, Len(log)) /\ k.target = i /\ k.sending = rest.sending
      BY <3>1, OpeningGap
    <3> QED
      BY <1>4, <3>2
  <2>2. step' = "read" /\ job' = k /\ queue' = queue
    BY <1>8 DEF Continue
  <2> HIDE DEF k
  <2> QED
    BY <1>1, <1>3, <1>8, <2>1, <2>2, FetchesOn DEF Fetching, Sending, session, history
<1>9. CASE Claim(i, [rest EXCEPT !.target = i])
  <2> HIDE DEF rest
  <2> DEFINE t == [rest EXCEPT !.target = i]
  <2>1. JobOf(t, Len(log)) /\ t.target = i
    BY <1>3, <1>4, ToTarget
  <2>2. Claim(i, t)
    BY <1>9
  <2> HIDE DEF t
  <2> DEFINE k == [t EXCEPT !.sending = i]
  <2>3. JobOf(k, Len(log)) /\ k.sending = i /\ k.target = i
    BY <1>3, <2>1, ToSend
  <2> QED
    BY <1>1, <1>3, <2>2, <2>3, Claims
<1> QED
  BY <1>2, <1>5, <1>6, <1>7, <1>8, <1>9 DEF DeliverBranches

LEMMA TakeBufferShape ==
  ASSUME ShapeInv, TakeBuffer
  PROVE  ShapeInv'
<1> USE Shapes
<1>1. /\ At("deliver") /\ queue # <<>> /\ step = "deliver" /\ Head(queue).kind = "subscribe"
      /\ phase = "replaying" /\ subscribed
      /\ UNCHANGED <<world, socket, groups, afterSyncId, scannedThrough, groupRefreshCursor,
                     subscribed, subscribes, reply, history>>
  BY Finds DEF TakeBuffer, At, Fetching
<1>2. CASE Continue("deliver", [NoJob EXCEPT !.pending = bufferedActions])
           /\ bufferedActions' = {} /\ UNCHANGED phase
  <2> DEFINE k == [NoJob EXCEPT !.pending = bufferedActions]
  <2>1. JobOf(k, Len(log)) /\ k.target = 0 /\ k.sending = 0
    BY Lists
  <2>2. step' = "deliver" /\ job' = k /\ queue' = queue /\ frames \in Seq(1 .. Len(log))
    BY <1>2 DEF Continue, TypeOK
  <2> HIDE DEF k
  <2> QED
    BY <1>1, <1>2, <2>1, <2>2, FetchesOn DEF Fetching, Sending, history
<1>3. CASE /\ Continue("acknowledge", NoJob)
           /\ phase' = "live" /\ UNCHANGED bufferedActions /\ bufferedActions = {}
  <2>1. JobOf(NoJob, Len(log)) /\ NoJob.target = 0 /\ NoJob.sending = 0
    BY NoJobIsOf
  <2>2. StepsInv'
    BY <1>1, <1>3, <2>1 DEF StepsInv, Continue, Fetching, Sending
  <2>3. PhaseInv'
    BY <1>1, <1>3 DEF PhaseInv, Continue, Fetching, Sending
  <2> QED
    BY <1>1, <1>3, <2>1, <2>2, <2>3, GoesOn DEF Continue, Steps, Phases
<1> QED
  BY <1>2, <1>3 DEF TakeBuffer, BufferHasMore

LEMMA AcknowledgeShape ==
  ASSUME ShapeInv, Acknowledge
  PROVE  ShapeInv'
<1> USE Shapes
<1>1. /\ At("acknowledge") /\ queue # <<>> /\ phase = "live" /\ subscribed
      /\ UNCHANGED <<world, subscribes, history>>
  BY Finds DEF Acknowledge, At
<1>2. CASE EndSession({}) /\ reply' = "error" /\ Finish
  BY <1>1, <1>2, EndsSession
<1>3. CASE /\ groups' = IF config.reauthorizes /\ socket = "open" THEN groups \cap granted
                        ELSE groups
           /\ reply' = IF socket = "open" THEN "subscribed" ELSE reply
           /\ Finish
           /\ UNCHANGED <<socket, phase, afterSyncId, scannedThrough, groupRefreshCursor,
                          bufferedActions, subscribed>>
  <2>1. groups' \subseteq Groups /\ reply' \in {"none", "subscribed", "bootstrap", "error"}
    BY <1>3
  <2>2. TypesInv'
    BY <1>1, <1>3, <2>1, Finishes DEF TypesInv, TypeOK, world, history
  <2>3. PhaseInv'
    BY <1>1, <1>3 DEF PhaseInv, Finish, Fetching, Sending
  <2> QED
    BY <1>1, <1>3, <2>2, <2>3, Finishes DEF ShapeInv, world
<1> QED
  BY <1>2, <1>3 DEF Acknowledge

LEMMA BeginCatchUpShape ==
  ASSUME ShapeInv, BeginCatchUp
  PROVE  ShapeInv'
<1> USE Shapes
<1>1. queue # <<>> /\ step = "start" /\ Head(queue).kind = "catchUp" /\ job = NoJob
  BY DEF BeginCatchUp, Waiting, StepsInv
<1>2. CASE RequireBootstrap
  BY <1>1, <1>2, BootstrapShape
<1>3. CASE /\ phase # "live" /\ Finish
           /\ UNCHANGED <<world, socket, session, subscribes, reply, history>>
  BY <1>1, <1>3, FinishesQuietly DEF PhaseInv
<1>4. CASE /\ phase = "live" /\ Continue("list", job)
           /\ UNCHANGED <<world, socket, session, subscribes, reply, history>>
  <2>1. NoJob.sending = 0
    BY NoJobIsOf
  <2>2. StepsInv'
    BY <1>1, <1>4, <2>1 DEF StepsInv, Continue, Fetching, Sending
  <2>3. PhaseInv'
    BY <1>1, <1>4 DEF PhaseInv, Continue, Fetching, Sending, session
  <2> QED
    BY <1>1, <1>4, <2>2, <2>3, GoesOn DEF Continue, Steps, session
<1> QED
  BY <1>2, <1>3, <1>4 DEF BeginCatchUp

LEMMA ListRefreshesShape ==
  ASSUME ShapeInv, ListRefreshes
  PROVE  ShapeInv'
<1> USE Shapes
<1>1. /\ At("list") /\ queue # <<>> /\ step = "list" /\ phase = "live" /\ subscribed
      /\ Head(queue).kind = "catchUp"
      /\ UNCHANGED <<world, socket, session, subscribes, reply, history>>
  BY Finds DEF ListRefreshes, At
<1> DEFINE through == LastSyncIdForGroups({Own})
           S == SyncGroupActions(groupRefreshCursor, through)
<1>2. through \in 0 .. Len(log) /\ S \in SUBSET (1 .. Len(log))
  BY LastSyncIdIsOfLog, ListedAreOfLog
<1>3. Finish \/ Continue("deliver", Through(S, through))
  BY ThroughEitherWay DEF ListRefreshes
<1> HIDE DEF through, S
<1>4. CASE Finish
  BY <1>1, <1>4, FinishesQuietly
<1>5. CASE Continue("deliver", Through(S, through))
  <2>1. JobOf(Through(S, through), Len(log)) /\ Through(S, through).target = 0
        /\ Through(S, through).sending = 0
    BY <1>2, ListsThrough
  <2>2. StepsInv'
    BY <1>1, <1>5, <2>1 DEF StepsInv, Continue, Fetching, Sending
  <2>3. PhaseInv'
    BY <1>1, <1>5 DEF PhaseInv, Continue, Fetching, Sending, session
  <2> QED
    BY <1>1, <1>5, <2>1, <2>2, <2>3, GoesOn DEF Continue, Steps, session
<1> QED
  BY <1>3, <1>4, <1>5

LEMMA EndCatchUpShape ==
  ASSUME ShapeInv, EndCatchUp
  PROVE  ShapeInv'
<1> USE Shapes
<1>1. /\ At("deliver") /\ queue # <<>> /\ phase = "live" /\ subscribed /\ Finish
      /\ Head(queue).kind = "catchUp" /\ groupRefreshCursor' = job.through
      /\ UNCHANGED <<world, socket, phase, groups, afterSyncId, scannedThrough, bufferedActions,
                     subscribed, subscribes, reply, history>>
  BY Finds DEF EndCatchUp, At, Fetching
<1>2. groupRefreshCursor' \in 0 .. Len(log)
  BY <1>1 DEF JobOf
<1>3. TypesInv'
  BY <1>1, <1>2, Finishes DEF TypesInv, TypeOK, world, history
<1>4. PhaseInv'
  BY <1>1 DEF PhaseInv, Finish, Fetching, Sending
<1> QED
  BY <1>1, <1>3, <1>4, Finishes DEF ShapeInv, world

\* ReadFails, as its alternatives: the session ends, is reset, or stays.
LEMMA ReadFailsBranches ==
  ASSUME ShapeInv, ReadFails
  PROVE  /\ queue # <<>> /\ Finish /\ UNCHANGED <<world, subscribes, history>>
         /\ reply' \in {"none", "subscribed", "bootstrap", "error"}
         /\ \/ EndSession({})
            \/ EndSession(groups)
            \/ Reset /\ EndSocket
            \/ /\ UNCHANGED <<socket, session>>
               /\ phase # "closed" => \/ step = "floor" /\ ~subscribed /\ phase = "replaying"
                                      \/ phase = "live" /\ Head(queue).kind = "catchUp"
<1> USE Shapes
<1>1. queue # <<>> /\ UNCHANGED <<world, subscribes, history>>
  BY DEF ReadFails
<1>2. CASE EndSession({}) /\ reply' = "bootstrap" /\ Finish
  BY <1>1, <1>2
<1>3. CASE Reset /\ EndSocket /\ reply' = "error" /\ Finish
  BY <1>1, <1>3
<1>4. CASE EndSession(groups) /\ Finish /\ UNCHANGED reply
  BY <1>1, <1>4
<1>5. CASE /\ \/ At("floor")
              \/ At("list")
              \/ Waiting("catchUp") /\ phase = "live"
              \/ Reading /\ Head(queue).kind = "catchUp"
           /\ Finish /\ UNCHANGED <<socket, session, reply>>
  <2>1. ASSUME phase # "closed"
        PROVE  \/ step = "floor" /\ ~subscribed /\ phase = "replaying"
               \/ phase = "live" /\ Head(queue).kind = "catchUp"
    <3>1. CASE At("floor")
      BY <3>1, Finds
    <3>2. CASE At("list")
      BY <3>2, Finds
    <3>3. CASE Waiting("catchUp") /\ phase = "live"
      BY <3>3 DEF Waiting
    <3>4. CASE Reading /\ Head(queue).kind = "catchUp"
      <4>1. At("read") \/ At("check")
        BY <1>1, <2>1, <3>4 DEF Reading, At
      <4> QED
        BY <3>4, <4>1, Finds DEF Fetching
    <3> QED
      BY <1>5, <3>1, <3>2, <3>3, <3>4
  <2> QED
    BY <1>1, <1>5, <2>1
<1> QED
  BY <1>2, <1>3, <1>4, <1>5 DEF ReadFails

LEMMA ReadFailsShape ==
  ASSUME ShapeInv, ReadFails
  PROVE  ShapeInv'
<1> USE Shapes, ReadFailsBranches
<1>1. CASE EndSession({})
  BY <1>1, EndsSession
<1>2. CASE EndSession(groups)
  BY <1>2, EndsSession
<1>3. CASE Reset /\ EndSocket
  BY <1>3, ResetsSession
<1>4. CASE /\ UNCHANGED <<socket, session>>
           /\ phase # "closed" => \/ step = "floor" /\ ~subscribed /\ phase = "replaying"
                                  \/ phase = "live" /\ Head(queue).kind = "catchUp"
  BY <1>4, FinishesQuietly
<1> QED
  BY <1>1, <1>2, <1>3, <1>4

-----------------------------------------------------------------------------
(* Types, steps and phases: the world. *)

LEMMA CommitShape ==
  ASSUME ShapeInv, NEW e \in Entries, Commit(e)
  PROVE  /\ ShapeInv' /\ Len(log') = Len(log) + 1
         /\ \A i \in 1 .. Len(log) : log'[i] = log[i]
<1> USE Shapes
<1>1. /\ log' = Append(log, e) /\ Len(log) < MaxId
      /\ unpublished' \in {unpublished, unpublished \cup {Len(log) + 1}}
      /\ UNCHANGED <<config, pruned, granted, socket, session, queue, step, job, subscribes,
                     reply, history>>
  BY DEF Commit
<1>2. log \in Seq(Entries)
  BY DEF TypeOK
<1>3. /\ log' \in Seq(Entries) /\ Len(log') = Len(log) + 1 /\ Len(log') <= MaxId
      /\ \A i \in 1 .. Len(log) : log'[i] = log[i]
  BY <1>1, <1>2, BoundsAssumption
<1>4. JobOf(job', Len(log')) /\ QueueOf(queue', Len(log'))
  BY <1>1, <1>3, JobGrows, QueueGrows
<1>5. frames' \in Seq(1 .. Len(log'))
  <2>1. frames \in Seq(1 .. Len(log)) /\ 1 .. Len(log) \subseteq 1 .. Len(log')
    BY <1>3 DEF TypeOK
  <2>2. Len(frames) \in Nat /\ \A n \in 1 .. Len(frames) : frames[n] \in 1 .. Len(log')
    BY <2>1
  <2>3. frames \in Seq(1 .. Len(log'))
    BY <2>1, <2>2
  <2> QED
    BY <1>1, <2>3 DEF history
<1>6. 0 .. Len(log) \subseteq 0 .. Len(log') /\ 1 .. Len(log) \subseteq 1 .. Len(log')
  BY <1>3
<1>7. /\ pruned' \in 0 .. Len(log') /\ unpublished' \subseteq 1 .. Len(log')
      /\ {afterSyncId, scannedThrough, groupRefreshCursor, start}' \subseteq 0 .. Len(log')
      /\ bufferedActions' \subseteq 1 .. Len(log')
  BY <1>1, <1>3, <1>6 DEF TypeOK, session, history
<1>8. TypesInv'
  BY <1>1, <1>3, <1>4, <1>5, <1>7 DEF TypesInv, TypeOK, session, history
<1>9. StepsInv' /\ PhaseInv'
  BY <1>1 DEF StepsInv, PhaseInv, Sending, Fetching, session
<1> QED
  BY <1>3, <1>8, <1>9 DEF ShapeInv

LEMMA PruneShape ==
  ASSUME ShapeInv, NEW n \in pruned + 1 .. Len(log), Prune(n)
  PROVE  ShapeInv'
<1> USE Shapes
<1>1. n \in 0 .. Len(log)
  BY DEF TypeOK
<1>2. TypesInv'
  BY <1>1 DEF Prune, TypesInv, TypeOK, session, history
<1>3. StepsInv' /\ PhaseInv'
  BY DEF Prune, StepsInv, PhaseInv, Sending, Fetching, session
<1> QED
  BY <1>2, <1>3 DEF ShapeInv

LEMMA ChangeAccessShape ==
  ASSUME ShapeInv, NEW a \in Access, ChangeAccess(a)
  PROVE  ShapeInv'
<1> USE Shapes
<1>2. TypesInv'
  BY DEF ChangeAccess, TypesInv, TypeOK, session, history
<1>3. StepsInv' /\ PhaseInv'
  BY DEF ChangeAccess, StepsInv, PhaseInv, Sending, Fetching, session
<1> QED
  BY <1>2, <1>3 DEF ShapeInv

\* A task queues up; the one that runs, if any, is none the wiser.
LEMMA QueuesUp ==
  ASSUME ShapeInv, NEW t, TaskOf(t, Len(log)), queue' = Append(queue, t),
         subscribes' \in 0 .. config.maxSubscribes,
         UNCHANGED <<world, socket, session, step, job, reply, history>>
  PROVE  ShapeInv'
<1> USE Shapes
<1>1. /\ QueueOf(queue', Len(log)) /\ queue' # <<>> /\ (queue # <<>> => Head(queue') = Head(queue))
  BY QueueAppends
<1>2. TypesInv'
  BY <1>1 DEF TypesInv, TypeOK, world, session, history, QueueOf
<1>3. StepsInv'
  BY <1>1 DEF StepsInv, Sending, Fetching
<1>4. PhaseInv'
  BY <1>1 DEF PhaseInv, StepsInv, Sending, Fetching, session
<1> QED
  BY <1>1, <1>2, <1>3, <1>4 DEF ShapeInv

LEMMA ReceiveSubscribeShape ==
  ASSUME ShapeInv, NEW after \in 0 .. Len(log), NEW r \in Requests, ReceiveSubscribe(after, r)
  PROVE  ShapeInv'
<1> USE Shapes
<1> DEFINE t == [kind |-> "subscribe", after |-> after, groups |-> r]
<1>1. after \in Cursors /\ r \in SUBSET Groups /\ after <= Len(log)
  BY GroupsAssumption, BoundsAssumption DEF Cursors
<1>2. TaskOf(t, Len(log))
  BY <1>1, TaskTypes DEF TaskOf
<1>3. config.maxSubscribes \in Nat /\ subscribes \in 0 .. config.maxSubscribes
  BY BoundsAssumption DEF TypeOK
<1>4. subscribes' \in 0 .. config.maxSubscribes
  BY <1>3 DEF ReceiveSubscribe
<1>5. queue' = Append(queue, t) /\ UNCHANGED <<world, socket, session, step, job, reply, history>>
  BY DEF ReceiveSubscribe
<1> HIDE DEF t
<1> QED
  BY <1>2, <1>4, <1>5, QueuesUp

LEMMA TickShape ==
  ASSUME ShapeInv, Tick
  PROVE  ShapeInv'
<1> USE Shapes
<1> DEFINE t == [kind |-> "catchUp"]
<1>1. TaskOf(t, Len(log))
  BY TaskTypes DEF TaskOf
<1>2. queue' = Append(queue, t) /\ subscribes' \in 0 .. config.maxSubscribes
      /\ UNCHANGED <<world, socket, session, step, job, reply, history>>
  BY DEF Tick, TypeOK
<1> HIDE DEF t
<1> QED
  BY <1>1, <1>2, QueuesUp

LEMMA SocketClosesShape ==
  ASSUME ShapeInv, SocketCloses
  PROVE  ShapeInv' /\ phase' = "closed"
<1> USE Shapes
<1>1. TypesInv'
  BY DEF SocketCloses, TypesInv, TypeOK, world, history, Phases
<1>2. StepsInv' /\ PhaseInv' /\ phase' = "closed"
  BY DEF SocketCloses, StepsInv, PhaseInv, Sending, Fetching
<1> QED
  BY <1>1, <1>2 DEF ShapeInv

\* Publish, as its alternatives.
LEMMA PublishBranches ==
  ASSUME ShapeInv, NEW i \in unpublished, Publish(i)
  PROVE  /\ i \in 1 .. Len(log) /\ unpublished' = unpublished \ {i}
         /\ UNCHANGED <<config, log, pruned, granted, step, job, subscribes, reply, history>>
         /\ \/ /\ \/ ~subscribed \/ phase = "closed" \/ i <= afterSyncId
                  \/ phase = "replaying" /\ ~Overlaps(groups, i)
               /\ UNCHANGED <<session, socket, queue>>
            \/ subscribed /\ EndSession(groups) /\ UNCHANGED queue
            \/ /\ subscribed /\ phase = "replaying"
               /\ bufferedActions' = bufferedActions \cup {i}
               /\ UNCHANGED <<phase, groups, afterSyncId, scannedThrough, groupRefreshCursor,
                              subscribed, socket, queue>>
            \/ /\ subscribed /\ phase \in {"idle", "live"}
               /\ queue' = Append(queue, [kind |-> "delta", id |-> i])
               /\ UNCHANGED <<session, socket>>
<1> QED
  BY DEF Publish, OnLiveDelta, Buffering, ShapeInv, TypesInv, TypeOK

LEMMA PublishShape ==
  ASSUME ShapeInv, NEW i \in unpublished, Publish(i)
  PROVE  ShapeInv'
<1> USE Shapes
<1>1. /\ i \in 1 .. Len(log) /\ unpublished' = unpublished \ {i}
      /\ UNCHANGED <<config, log, pruned, granted, step, job, subscribes, reply, history>>
  BY PublishBranches
<1>2. CASE UNCHANGED <<session, socket, queue>>
  <2>1. TypesInv'
    BY <1>1, <1>2 DEF TypesInv, TypeOK, session, history
  <2>2. StepsInv' /\ PhaseInv'
    BY <1>1, <1>2 DEF StepsInv, PhaseInv, Sending, Fetching, session
  <2> QED
    BY <2>1, <2>2 DEF ShapeInv
<1>3. CASE EndSession(groups) /\ UNCHANGED queue
  <2>1. TypesInv'
    BY <1>1, <1>3, SocketTypes DEF TypesInv, TypeOK, history, EndSession, Phases
  <2>2. StepsInv' /\ PhaseInv'
    BY <1>1, <1>3 DEF StepsInv, PhaseInv, Sending, Fetching, EndSession
  <2> QED
    BY <2>1, <2>2 DEF ShapeInv
<1>4. CASE /\ subscribed /\ phase = "replaying"
           /\ bufferedActions' = bufferedActions \cup {i}
           /\ UNCHANGED <<phase, groups, afterSyncId, scannedThrough, groupRefreshCursor,
                          subscribed, socket, queue>>
  <2>1. TypesInv'
    BY <1>1, <1>4 DEF TypesInv, TypeOK, history
  <2>2. StepsInv' /\ PhaseInv'
    BY <1>1, <1>4 DEF StepsInv, PhaseInv, Sending, Fetching
  <2> QED
    BY <2>1, <2>2 DEF ShapeInv
<1>5. CASE /\ queue' = Append(queue, [kind |-> "delta", id |-> i])
           /\ UNCHANGED <<session, socket>>
  <2> DEFINE t == [kind |-> "delta", id |-> i]
  <2>1. TaskOf(t, Len(log))
    BY <1>1, BoundsAssumption, TaskTypes DEF TaskOf, Ids
  <2> HIDE DEF t
  <2>2. /\ QueueOf(queue', Len(log)) /\ queue' # <<>>
        /\ (queue # <<>> => Head(queue') = Head(queue))
    BY <1>5, <2>1, QueueAppends DEF t
  <2>3. TypesInv'
    BY <1>1, <1>5, <2>2 DEF TypesInv, TypeOK, session, history, QueueOf
  <2>4. StepsInv'
    BY <1>1, <2>2 DEF StepsInv, Sending, Fetching
  <2>5. PhaseInv'
    BY <1>1, <1>5, <2>2 DEF PhaseInv, StepsInv, Sending, Fetching, session
  <2> QED
    BY <2>3, <2>4, <2>5 DEF ShapeInv
<1> QED
  BY <1>2, <1>3, <1>4, <1>5, PublishBranches

LEMMA ShapeStarts == Init => ShapeInv
<1> SUFFICES ASSUME Init
             PROVE  ShapeInv
  OBVIOUS
<1>1. Len(log) = 0 /\ log \in Seq(Entries) /\ frames \in Seq(1 .. Len(log)) /\ queue \in Seq(Task)
  BY DEF Init
<1>2. config.maxSubscribes \in Nat /\ MaxId \in Nat
  BY BoundsAssumption DEF Init
<1>3. JobOf(job, Len(log)) /\ job.sending = 0
  BY <1>1, NoJobIsOf DEF Init
<1>4. job \in Job /\ groups \subseteq Groups /\ granted \in Access /\ config \in Configs
  BY <1>3 DEF JobOf, Init
<1>8. 0 \in 0 .. Len(log) /\ 0 <= MaxId /\ 0 \in 0 .. config.maxSubscribes
  BY <1>1, <1>2
<1>5. TypeOK
  BY <1>1, <1>4, <1>8 DEF Init, TypeOK, Phases, Steps
<1>6. QueueOf(queue, Len(log))
  BY <1>1 DEF QueueOf, Init
<1>7. StepsInv /\ PhaseInv
  BY <1>3 DEF Init, StepsInv, PhaseInv, Sending, Fetching
<1> QED
  BY <1>3, <1>5, <1>6, <1>7 DEF ShapeInv, TypesInv

-----------------------------------------------------------------------------
(* The cursors and the frames: what leaves them alone keeps them in order. *)

\* Whatever happens around a session, its cursors keep their meaning, as long as
\* what it is told of is remembered.
LEMMA WorldKeeps ==
  ASSUME SessionInv, ShapeInv', Delivering,
         UNCHANGED <<start, frames, scannedThrough, afterSyncId, groups, step, job, subscribed>>,
         Len(log) <= Len(log'), \A i \in 1 .. Len(log) : log'[i] = log[i], pruned <= pruned',
         \A i \in 1 .. Len(log) : Remembered(i) => Remembered(i)',
         \A i \in 1 .. Len(log') :
            i \notin unpublished' /\ Overlaps(groups, i)' /\ subscribed /\ scannedThrough < i
                => (i <= Len(log) /\ i \notin unpublished) \/ Remembered(i)'
  PROVE  CoreInv'
<1>0. ShapeInv
  BY DEF SessionInv
<1> USE <1>0, Shapes
<1>1. FramesInv /\ CursorsInv /\ NothingSkipped /\ PageInv /\ ToldInv
  BY DEF SessionInv, CoreInv
<1>2. Len(log') \in Nat /\ pruned \in Nat /\ pruned' \in Nat
  BY DEF ShapeInv, TypesInv, TypeOK
<1>3. /\ job.page \subseteq 1 .. Len(log) /\ job.target \in 0 .. Len(log)
      /\ job.sending \in 0 .. Len(log)
  BY DEF JobOf
<1>4. \A i \in 1 .. Len(log) : Overlaps(groups, i)' => Overlaps(groups, i)
  BY DEF Overlaps
<1>9. FramesInv'
  BY <1>1 DEF FramesInv, Sent
<1>5. CursorsInv'
  <2>1. step \in Sending => job.sending \in 1 .. Len(log)
    BY <1>3 DEF StepsInv
  <2> QED
    BY <1>1, <2>1 DEF CursorsInv, Sent, Paging, Overlaps, Sending, Fetching
<1>6. NothingSkipped'
  <2> SUFFICES ASSUME NEW i \in start + 1 .. scannedThrough, Overlaps(groups, i)'
               PROVE  i \in Sent \cup {job.sending} \/ Excused(i)'
    BY DEF NothingSkipped, Sent
  <2>1. i \in 1 .. Len(log)
    OBVIOUS
  <2>2. i \in Sent \cup {job.sending} \/ Excused(i)
    BY <1>1, <1>4, <2>1 DEF NothingSkipped, SessionInv
  <2> QED
    BY <1>2, <2>1, <2>2 DEF Excused, Sent
<1>7. PageInv'
  <2>1. \A i \in 1 .. Len(log) : Gone(i) => Gone(i)'
    BY <1>2 DEF Gone, Sent
  <2> SUFFICES ASSUME Paging
               PROVE  PageInv'
    BY DEF PageInv, Paging
  <2>2. ASSUME NEW i \in scannedThrough + 1 .. Len(log'), Overlaps(groups, i)',
               \/ \E p \in job.page : i < p
               \/ ~job.full /\ i < job.target
        PROVE  i \in job.page \/ Gone(i)'
    <3>1. i \in scannedThrough + 1 .. Len(log) /\ i \in 1 .. Len(log)
      BY <1>2, <1>3, <2>2
    <3>2. Overlaps(groups, i)
      BY <1>4, <2>2, <3>1
    <3>3. i \in job.page \/ Gone(i)
      BY <1>1, <2>2, <3>1, <3>2 DEF PageInv
    <3> QED
      BY <2>1, <3>1, <3>3
  <2> QED
    BY <1>1, <2>2 DEF PageInv, Paging
<1>8. ToldInv'
  <2> SUFFICES ASSUME subscribed, NEW i \in scannedThrough + 1 .. Len(log'),
                      i \notin unpublished', Overlaps(groups, i)'
               PROVE  Remembered(i)' \/ ToRead(i)' \/ (start = 0 /\ i <= pruned')
    BY DEF ToldInv
  <2>1. i \in 1 .. Len(log') /\ scannedThrough < i
    BY <1>2
  <2>2. CASE Remembered(i)'
    BY <2>2
  <2>3. CASE i <= Len(log) /\ i \notin unpublished
    <3>1. i \in scannedThrough + 1 .. Len(log) /\ i \in 1 .. Len(log)
      BY <2>1, <2>3
    <3>2. Remembered(i) \/ ToRead(i) \/ (start = 0 /\ i <= pruned)
      BY <1>1, <1>4, <2>3, <3>1 DEF ToldInv
    <3>3. ToRead(i) => ToRead(i)'
      BY <1>2, <3>1 DEF ToRead
    <3> QED
      BY <1>2, <3>1, <3>2, <3>3
  <2> QED
    BY <2>1, <2>2, <2>3
<1> QED
  BY <1>5, <1>6, <1>7, <1>8, <1>9 DEF CoreInv

\* Remembered tasks survive another that queues up.
LEMMA RememberedInQueue ==
  ASSUME ShapeInv, NEW t, TaskOf(t, Len(log)), queue' = Append(queue, t),
         UNCHANGED <<bufferedActions, step, job>>, NEW i \in 1 .. Len(log)
  PROVE  /\ Remembered(i) => Remembered(i)'
         /\ t.kind = "delta" /\ t.id = i => Remembered(i)'
<1> USE Shapes
<1>1. /\ queue # <<>> => Head(queue') = Head(queue)
      /\ Len(queue') = Len(queue) + 1 /\ queue'[Len(queue) + 1] = t
      /\ \A k \in 1 .. Len(queue) : queue'[k] = queue[k]
  BY QueueAppends
<1>2. Len(queue) \in Nat
  BY DEF QueueOf
<1>3. step # "start" => queue # <<>>
  BY DEF StepsInv
<1>4. queue = <<>> => Len(queue) = 0
  OBVIOUS
<1>5. ASSUME Remembered(i)
      PROVE  Remembered(i)'
  BY <1>1, <1>2, <1>3, <1>5 DEF Remembered
<1>6. ASSUME t.kind = "delta", t.id = i
      PROVE  Remembered(i)'
  <2>1. Len(queue) + 1 > 1 \/ step' = "start"
    <3>1. queue # <<>> => Len(queue) > 0
      BY <1>2 DEF QueueOf
    <3> QED
      BY <1>2, <1>3, <3>1
  <2>2. Len(queue) + 1 \in 1 .. Len(queue')
    BY <1>1, <1>2
  <2> QED
    BY <1>1, <1>6, <2>1, <2>2 DEF Remembered
<1> QED
  BY <1>5, <1>6

LEMMA CommitCore ==
  ASSUME SessionInv, NEW e \in Entries, Commit(e), Delivering'
  PROVE  CoreInv'
<1>0. ShapeInv
  BY DEF SessionInv
<1> USE <1>0, Shapes
<1>1. /\ ShapeInv' /\ Len(log') = Len(log) + 1 /\ \A i \in 1 .. Len(log) : log'[i] = log[i]
  BY CommitShape
<1>2. Delivering /\ pruned' = pruned /\ pruned \in Nat
      /\ UNCHANGED <<start, frames, scannedThrough, afterSyncId, groups, step, job, subscribed,
                     bufferedActions, queue>>
  BY DEF Delivering, Commit, session, history, TypeOK
<1>3. \A i \in 1 .. Len(log) : Remembered(i) => Remembered(i)'
  BY <1>2 DEF Remembered
<1>4. ASSUME NEW i \in 1 .. Len(log'), i \notin unpublished', Overlaps(groups, i)'
      PROVE  i <= Len(log) /\ i \notin unpublished
  <2>1. CASE i \in 1 .. Len(log)
    BY <1>4, <2>1 DEF Commit
  <2>2. CASE i = Len(log) + 1
    <3>1. log'[i] = e
      BY <2>2 DEF Commit, TypeOK
    <3>2. e.to = Nobody
      BY <1>4, <2>2 DEF Commit
    <3> QED
      BY <1>2, <1>4, <3>1, <3>2, GroupsAssumption DEF Overlaps, Everyone, Nobody
  <2> QED
    BY <1>1, <2>1, <2>2
<1> QED
  BY <1>1, <1>2, <1>3, <1>4, WorldKeeps

LEMMA PruneCore ==
  ASSUME SessionInv, NEW n \in pruned + 1 .. Len(log), Prune(n), Delivering'
  PROVE  CoreInv'
<1>0. ShapeInv
  BY DEF SessionInv
<1> USE <1>0, Shapes
<1>1. ShapeInv'
  BY PruneShape
<1>2. Delivering /\ pruned' = n /\ pruned <= n
      /\ UNCHANGED <<start, frames, scannedThrough, afterSyncId, groups, step, job, subscribed,
                     bufferedActions, queue, log, unpublished>>
  BY DEF Delivering, Prune, session, history, TypeOK
<1>3. \A i \in 1 .. Len(log) : Remembered(i) => Remembered(i)'
  BY <1>2 DEF Remembered
<1> QED
  BY <1>1, <1>2, <1>3, WorldKeeps

LEMMA QuietWorldCore ==
  ASSUME SessionInv, ShapeInv', Delivering',
         UNCHANGED <<log, pruned, unpublished, socket, session, queue, step, job, history>>
  PROVE  CoreInv'
<1>0. ShapeInv
  BY DEF SessionInv
<1> USE <1>0, Shapes
<1>2. Delivering /\ pruned \in Nat
      /\ UNCHANGED <<start, frames, scannedThrough, afterSyncId, groups, step, job, subscribed,
                     bufferedActions, queue, log, unpublished, pruned>>
  BY DEF Delivering, session, history, TypeOK
<1>3. \A i \in 1 .. Len(log) : Remembered(i) => Remembered(i)'
  BY <1>2 DEF Remembered
<1> QED
  BY <1>2, <1>3, WorldKeeps

LEMMA QueuesUpCore ==
  ASSUME SessionInv, NEW t, TaskOf(t, Len(log)), queue' = Append(queue, t), ShapeInv', Delivering',
         UNCHANGED <<log, pruned, unpublished, socket, session, step, job, history>>
  PROVE  CoreInv'
<1>0. ShapeInv
  BY DEF SessionInv
<1> USE <1>0, Shapes
<1>2. Delivering /\ pruned \in Nat
      /\ UNCHANGED <<start, frames, scannedThrough, afterSyncId, groups, step, job, subscribed,
                     bufferedActions, log, unpublished, pruned>>
  BY DEF Delivering, session, history, TypeOK
<1>3. \A i \in 1 .. Len(log) : Remembered(i) => Remembered(i)'
  BY <1>2, RememberedInQueue
<1> QED
  BY <1>2, <1>3, WorldKeeps

LEMMA PublishCore ==
  ASSUME SessionInv, NEW i \in unpublished, Publish(i), Delivering'
  PROVE  CoreInv'
<1>0. ShapeInv
  BY DEF SessionInv
<1> USE <1>0, Shapes
<1>1. /\ i \in 1 .. Len(log) /\ unpublished' = unpublished \ {i} /\ ShapeInv'
      /\ UNCHANGED <<config, log, pruned, granted, step, job, subscribes, reply, history>>
  BY PublishBranches, PublishShape
<1>2. pruned \in Nat /\ pruned' = pruned /\ start' = start /\ frames' = frames
  BY <1>1 DEF TypeOK, history
<1>3. CASE /\ \/ ~subscribed \/ phase = "closed" \/ i <= afterSyncId
              \/ phase = "replaying" /\ ~Overlaps(groups, i)
           /\ UNCHANGED <<session, socket, queue>>
  <2>1. Delivering /\ UNCHANGED <<scannedThrough, afterSyncId, groups, subscribed, bufferedActions>>
    BY <1>3 DEF Delivering, session
  <2>2. \A k \in 1 .. Len(log) : Remembered(k) => Remembered(k)'
    BY <1>1, <1>3, <2>1 DEF Remembered
  <2>3. afterSyncId <= scannedThrough
    BY <2>1 DEF SessionInv, CoreInv, FramesInv
  <2>4. ~(i \notin unpublished' /\ Overlaps(groups, i)' /\ subscribed /\ scannedThrough < i)
    BY <1>1, <1>3, <2>1, <2>3 DEF Overlaps, Delivering
  <2> QED
    BY <1>1, <1>2, <1>3, <2>1, <2>2, <2>4, WorldKeeps
<1>4. CASE subscribed /\ EndSession(groups)
  BY <1>4 DEF EndSession, Delivering
<1>5. CASE /\ subscribed /\ phase = "replaying"
           /\ bufferedActions' = bufferedActions \cup {i}
           /\ UNCHANGED <<phase, groups, afterSyncId, scannedThrough, groupRefreshCursor,
                          subscribed, socket, queue>>
  <2>1. Delivering
    BY <1>5 DEF Delivering
  <2>2. \A k \in 1 .. Len(log) : Remembered(k) \/ k = i => Remembered(k)'
    BY <1>1, <1>5 DEF Remembered
  <2> QED
    BY <1>1, <1>2, <1>5, <2>1, <2>2, WorldKeeps
<1>6. CASE /\ subscribed /\ phase \in {"idle", "live"}
           /\ queue' = Append(queue, [kind |-> "delta", id |-> i])
           /\ UNCHANGED <<session, socket>>
  <2> DEFINE t == [kind |-> "delta", id |-> i]
  <2>1. TaskOf(t, Len(log)) /\ t.kind = "delta" /\ t.id = i
    BY <1>1, BoundsAssumption, TaskTypes DEF TaskOf, Ids
  <2> HIDE DEF t
  <2>2. Delivering /\ UNCHANGED <<scannedThrough, afterSyncId, groups, subscribed, bufferedActions>>
    BY <1>6 DEF Delivering, session
  <2>3. \A k \in 1 .. Len(log) : Remembered(k) \/ k = i => Remembered(k)'
    BY <1>1, <1>6, <2>1, <2>2, RememberedInQueue DEF t
  <2> QED
    BY <1>1, <1>2, <2>2, <2>3, WorldKeeps
<1> QED
  BY <1>3, <1>4, <1>5, <1>6, PublishBranches

LEMMA WorldStep ==
  ASSUME SessionInv, World
  PROVE  SessionInv'
<1>0. ShapeInv
  BY DEF SessionInv
<1> USE <1>0
<1>1. ASSUME NEW e \in Entries, Commit(e)
      PROVE  SessionInv'
  BY <1>1, CommitShape, CommitCore DEF SessionInv
<1>2. ASSUME NEW n \in pruned + 1 .. Len(log), Prune(n)
      PROVE  SessionInv'
  BY <1>2, PruneShape, PruneCore DEF SessionInv
<1>3. ASSUME NEW a \in Access, ChangeAccess(a)
      PROVE  SessionInv'
  BY <1>3, ChangeAccessShape, QuietWorldCore DEF SessionInv, ChangeAccess
<1>4. ASSUME NEW after \in 0 .. Len(log), NEW r \in Requests, ReceiveSubscribe(after, r)
      PROVE  SessionInv'
  <2> DEFINE t == [kind |-> "subscribe", after |-> after, groups |-> r]
  <2>1. TaskOf(t, Len(log))
    <3>1. after \in Cursors /\ r \in SUBSET Groups /\ after <= Len(log)
      BY Shapes, GroupsAssumption, BoundsAssumption DEF Cursors
    <3> QED
      BY <3>1, TaskTypes DEF TaskOf
  <2>2. queue' = Append(queue, t) /\ UNCHANGED <<log, pruned, unpublished, socket, session, step, job, history>>
    BY <1>4 DEF ReceiveSubscribe, world
  <2> HIDE DEF t
  <2> QED
    BY <1>4, <2>1, <2>2, ReceiveSubscribeShape, QueuesUpCore DEF SessionInv
<1>5. ASSUME Tick
      PROVE  SessionInv'
  <2> DEFINE t == [kind |-> "catchUp"]
  <2>1. TaskOf(t, Len(log))
    BY TaskTypes DEF TaskOf
  <2>2. queue' = Append(queue, t) /\ UNCHANGED <<log, pruned, unpublished, socket, session, step, job, history>>
    BY <1>5 DEF Tick, world
  <2> HIDE DEF t
  <2> QED
    BY <1>5, <2>1, <2>2, TickShape, QueuesUpCore DEF SessionInv
<1>6. ASSUME SocketCloses
      PROVE  SessionInv'
  BY <1>6, SocketClosesShape DEF SessionInv, Delivering
<1>7. ASSUME NEW i \in unpublished, Publish(i)
      PROVE  SessionInv'
  BY <1>7, PublishShape, PublishCore DEF SessionInv
<1> QED
  BY <1>1, <1>2, <1>3, <1>4, <1>5, <1>6, <1>7 DEF World

-----------------------------------------------------------------------------
(* The cursors and the frames: the running task. *)

\* What every step of a live or replaying session starts from.
LEMMA Delivers ==
  ASSUME SessionInv, Delivering
  PROVE  /\ ShapeInv /\ FramesInv /\ CursorsInv /\ NothingSkipped /\ PageInv /\ ToldInv
         /\ socket = "open" /\ phase \in {"replaying", "live"}
         /\ pruned \in Nat /\ Len(log) \in Nat /\ scannedThrough \in Nat /\ start \in Nat
         /\ \A i \in start + 1 .. scannedThrough :
               Overlaps(groups, i) => i \in Sent \cup {job.sending} \/ Excused(i)
<1>1. ShapeInv
  BY DEF SessionInv
<1> QED
  BY <1>1, Shapes DEF SessionInv, CoreInv, Delivering, TypeOK, NothingSkipped

LEMMA SentAreOfLog ==
  ASSUME TypeOK
  PROVE  Sent \subseteq 1 .. Len(log)
<1> QED
  BY DEF Sent, TypeOK

\* Steps that leave the cursors and the frames alone, and may narrow the groups.
LEMMA QuietWork ==
  ASSUME SessionInv, Delivering,
         UNCHANGED <<log, pruned, unpublished, start, frames, scannedThrough, afterSyncId>>,
         groups' \subseteq groups,
         \/ job.sending = 0 \/ job'.sending = job.sending
         \/ log[job.sending].to \notin groups' \cup {Everyone}
  PROVE  FramesInv' /\ NothingSkipped'
<1> USE Delivers, Shapes
<1>1. FramesInv'
  BY DEF FramesInv, Sent
<1>2. NothingSkipped'
  <2> SUFFICES ASSUME NEW i \in start + 1 .. scannedThrough, Overlaps(groups, i)'
               PROVE  i \in Sent \cup {job'.sending} \/ Excused(i)
    BY DEF NothingSkipped, Sent, Excused
  <2>1. Overlaps(groups, i)
    BY DEF Overlaps
  <2>2. i \in Sent \cup {job.sending} \/ Excused(i)
    BY <2>1
  <2>3. i = job.sending => job'.sending = job.sending
    BY DEF Overlaps
  <2> QED
    BY <2>2, <2>3
<1> QED
  BY <1>1, <1>2

\* What was told stays told when it stays remembered, or is yet to be read.
LEMMA StillTold ==
  ASSUME SessionInv, Delivering, UNCHANGED <<log, unpublished, start, pruned, subscribed>>,
         groups' \subseteq groups, NEW c \in Nat, scannedThrough' = c, scannedThrough <= c,
         \A i \in 1 .. Len(log) :
            c < i /\ (Remembered(i) \/ ToRead(i)) /\ Overlaps(groups, i)
               => Remembered(i)' \/ ToRead(i)' \/ (start = 0 /\ i <= pruned)
  PROVE  ToldInv'
<1> USE Delivers
<1> SUFFICES ASSUME subscribed, NEW i \in c + 1 .. Len(log),
                    i \notin unpublished, Overlaps(groups, i)'
             PROVE  Remembered(i)' \/ ToRead(i)' \/ (start = 0 /\ i <= pruned)
  BY DEF ToldInv
<1>1. Overlaps(groups, i)
  BY DEF Overlaps
<1>2. scannedThrough \in Nat /\ Len(log) \in Nat
  OBVIOUS
<1>3. i \in 1 .. Len(log) /\ c < i /\ i \in scannedThrough + 1 .. Len(log)
  BY <1>2
<1>4. Remembered(i) \/ ToRead(i) \/ (start = 0 /\ i <= pruned)
  BY <1>1, <1>3 DEF ToldInv
<1> QED
  BY <1>1, <1>3, <1>4

\* A step after which no page is in use and nothing is being sent.
LEMMA AtRest ==
  ASSUME step' \notin Fetching \cup {"floor"}
  PROVE  CursorsInv' /\ PageInv'
<1> QED
  BY DEF CursorsInv, PageInv, Paging, Fetching, Sending

\* When a task ends, what the others remember stays remembered.
LEMMA RememberedByOthers ==
  ASSUME ShapeInv, queue # <<>>, Finish, bufferedActions' = bufferedActions,
         NEW i \in 1 .. Len(log), Remembered(i),
         \/ step = "start" /\ Head(queue).kind # "delta"
         \/ step # "start" /\ Head(queue).kind = "catchUp"
         \/ step # "start" /\ i \notin job.pending /\ job.target = 0
  PROVE  Remembered(i)'
<1> USE Shapes
<1>1. /\ queue' = Tail(queue) /\ step' = "start" /\ Head(queue) = queue[1]
      /\ Len(queue) \in Nat \ {0} /\ Len(queue') = Len(queue) - 1
      /\ \A k \in 1 .. Len(queue) - 1 : queue'[k] = queue[k + 1]
  BY QueueAdvances DEF Finish
<1>2. CASE i \in bufferedActions
  BY <1>2 DEF Remembered
<1>3. CASE i \notin bufferedActions
  <2>1. PICK n \in 1 .. Len(queue) : /\ n > 1 \/ step = "start"
                                     /\ queue[n].kind = "delta" /\ queue[n].id = i
    BY <1>3 DEF Remembered
  <2>2. n > 1
    BY <1>1, <2>1
  <2>3. n - 1 \in 1 .. Len(queue) - 1 /\ queue'[n - 1] = queue[n]
    BY <1>1, <2>1, <2>2
  <2> QED
    BY <1>1, <2>1, <2>3 DEF Remembered
<1> QED
  BY <1>2, <1>3

LEMMA BeginReplayCore ==
  ASSUME SessionInv, NEW answer \in Access, BeginReplay(answer), Delivering'
  PROVE  CoreInv'
<1>0. ShapeInv
  BY DEF SessionInv
<1> USE <1>0, Shapes
<1>1. phase = "idle" /\ ~subscribed /\ queue # <<>> /\ Head(queue).kind = "subscribe"
  BY DEF BeginReplay, At, PhaseInv, StepsInv
<1>2. /\ afterSyncId' = Head(queue).after /\ scannedThrough' = Head(queue).after
      /\ start' = Head(queue).after /\ frames' = <<>> /\ step' = "floor" /\ subscribed' = subscribed
  BY <1>1 DEF BeginReplay, Continue, Delivering, session
<1>3. Head(queue).after \in Nat
  BY <1>1, TaskTypes, BoundsAssumption DEF Cursors
<1>4. FramesInv'
  BY <1>2, <1>3 DEF FramesInv, Sent
<1>5. NothingSkipped'
  BY <1>2, <1>3 DEF NothingSkipped
<1>6. ToldInv'
  BY <1>1, <1>2 DEF ToldInv
<1>7. CursorsInv' /\ PageInv'
  BY <1>2 DEF CursorsInv, PageInv, Paging, Fetching, Sending
<1> QED
  BY <1>4, <1>5, <1>6, <1>7 DEF CoreInv

LEMMA InstallSubscriptionCore ==
  ASSUME SessionInv, InstallSubscription, Delivering'
  PROVE  CoreInv'
<1>1. At("floor") /\ UNCHANGED <<world, socket, subscribes, history>>
  BY DEF InstallSubscription
<1>2. /\ subscribed' = TRUE /\ Continue("read", [job EXCEPT !.cursor = afterSyncId])
      /\ UNCHANGED <<phase, groups, afterSyncId, scannedThrough, groupRefreshCursor,
                     bufferedActions, reply>>
  BY DEF InstallSubscription, Reset, Delivering
<1>3. Delivering
  BY <1>1, <1>2 DEF Delivering
<1> USE <1>3, Delivers, Shapes
<1>4. job = NoJob /\ ~subscribed
  BY <1>1, Finds
<1>10. job.target = 0 /\ job.sending = 0 /\ job.pending = {}
  BY <1>4, NoJobIsOf
<1>11. LET k == [job EXCEPT !.cursor = afterSyncId]
       IN  /\ k.cursor = afterSyncId /\ k.target = job.target /\ k.sending = job.sending
           /\ k.pending = job.pending
  BY MovingCursor
<1>5. /\ step' = "read" /\ job'.cursor = afterSyncId /\ job'.target = 0 /\ job'.sending = 0
      /\ job'.pending = {}
  BY <1>2, <1>10, <1>11 DEF Continue
<1>7. FramesInv' /\ NothingSkipped'
  BY <1>1, <1>2, <1>10, QuietWork DEF world, history
<1>8. PageInv'
  BY <1>5 DEF PageInv, Paging, Sending
<1>9. ToldInv'
  BY <1>5 DEF ToldInv, ToRead, Fetching
<1>12. CursorsInv'
  <2>1. afterSyncId = scannedThrough /\ start <= scannedThrough
    BY <1>1 DEF CursorsInv, FramesInv, At
  <2>2. UNCHANGED <<start, scannedThrough>>
    BY <1>1, <1>2 DEF history
  <2> QED
    BY <1>5, <2>1, <2>2 DEF CursorsInv, Paging, Sending
<1> QED
  BY <1>7, <1>8, <1>9, <1>12 DEF CoreInv

\* Steps of a task in a session that stays what it is.
LEMMA QuietSession ==
  ASSUME SessionInv, UNCHANGED <<world, socket, session, subscribes, reply, history>>, Delivering',
         job.sending = 0 \/ job'.sending = job.sending
  PROVE  /\ Delivering /\ FramesInv' /\ NothingSkipped'
         /\ UNCHANGED <<log, pruned, unpublished, start, frames, scannedThrough, afterSyncId, groups,
                        bufferedActions, subscribed, phase>>
<1>1. /\ Delivering
      /\ UNCHANGED <<log, pruned, unpublished, start, frames, scannedThrough, afterSyncId, groups,
                     bufferedActions, subscribed, phase>>
  BY DEF world, session, history, Delivering
<1> QED
  BY <1>1, QuietWork

\* A page that was read holds what the session may see above its cursor, up to b.
LEMMA PageIsRead ==
  ASSUME SessionInv, Delivering, step = "read", queue # <<>>, job.cursor = scannedThrough,
         NEW b \in 0 .. Len(log), job.target # 0 => b = job.target - 1, job.target = 0 => b = Len(log),
         NEW n \in Nat \ {0}, TakePage(VisibleActions(job.cursor, b, groups, n), n),
         UNCHANGED <<world, socket, session, subscribes, reply, history>>
  PROVE  PageInv' /\ ToldInv'
<1> DEFINE rows == VisibleActions(job.cursor, b, groups, n)
<1>0. ShapeInv
  BY DEF SessionInv
<1>1. rows \in SUBSET (1 .. Len(log))
  BY <1>0, Shapes, PagesAreOfLog
<1>3. IsPage(rows, job.cursor, b, groups, n)
  <2>1. job.cursor \in 0 .. Len(log) /\ groups \in SUBSET Groups /\ TypesInv
    BY <1>0, Shapes DEF JobOf
  <2> QED
    BY <2>1, PageHolds
<1>12. TakePage(rows, n)
  OBVIOUS
<1> HIDE DEF rows
<1>4. /\ step' = "check" /\ queue' = queue
      /\ job'.page = rows /\ job'.full = (Cardinality(rows) = n)
      /\ rows # {} => job'.last \in rows /\ \A p \in rows : p <= job'.last
      /\ job'.target = job.target /\ job'.cursor = job.cursor /\ job'.pending = job.pending
  BY <1>0, <1>1, <1>12, PageTaken
<1> USE Delivers, Shapes
<1>2. /\ rows \subseteq 1 .. Len(log)
      /\ \A p \in rows : job.cursor < p /\ p <= b /\ pruned < p
      /\ Cardinality(rows) = n => rows # {}
      /\ \A i \in 1 .. Len(log) :
            /\ Overlaps(groups, i) /\ job.cursor < i /\ i <= b
            /\ Cardinality(rows) # n \/ \E p \in rows : i <= p
            => i \in rows \/ i <= pruned
  BY <1>3 DEF IsPage
<1>5. /\ UNCHANGED <<log, pruned, unpublished, start, frames, scannedThrough, afterSyncId, groups,
                     bufferedActions, subscribed, phase>>
  BY DEF world, session, history
<1>6. job.target \in 0 .. Len(log) /\ scannedThrough \in 0 .. Len(log)
  BY DEF JobOf
<1>7. \A p \in rows : scannedThrough < p /\ (job.target # 0 => p < job.target)
  BY <1>2, <1>6
<1>8. Cardinality(rows) = n =>
         /\ scannedThrough <= job'.last /\ job.cursor < job'.last
         /\ job'.last \in rows /\ \A p \in rows : p <= job'.last
  <2> SUFFICES ASSUME Cardinality(rows) = n
               PROVE  scannedThrough < job'.last /\ job'.last \in 1 .. Len(log)
    BY <1>2, <1>4, <1>6
  <2>1. job'.last \in rows
    BY <1>2, <1>4
  <2> QED
    BY <1>2, <2>1
<1>9. ASSUME NEW i \in scannedThrough + 1 .. Len(log), Overlaps(groups, i),
             \/ \E p \in rows : i < p
             \/ Cardinality(rows) # n /\ i < job.target
      PROVE  i \in rows \/ (i <= pruned /\ \A p \in rows : i < p)
  <2>1. i \in 1 .. Len(log) /\ job.cursor < i
    BY <1>6
  <2>2. i <= b
    BY <1>2, <1>6, <1>9, <2>1
  <2>3. Cardinality(rows) # n \/ \E p \in rows : i <= p
    BY <1>2, <1>9, <2>1
  <2>4. i \in rows \/ i <= pruned
    BY <1>2, <1>9, <2>1, <2>2, <2>3
  <2> QED
    BY <1>2, <2>1, <2>4
<1>10. PageInv'
  BY <1>4, <1>5, <1>7, <1>8, <1>9 DEF PageInv, Gone, Sending, Overlaps
<1>11. ToldInv'
  <2>1. ASSUME NEW i \in 1 .. Len(log), scannedThrough < i, Remembered(i) \/ ToRead(i), Overlaps(groups, i)
        PROVE  Remembered(i)' \/ ToRead(i)' \/ (start = 0 /\ i <= pruned)
    <3>1. CASE job.target # 0
      <4>1. Remembered(i)
        BY <2>1, <3>1 DEF ToRead
      <4> QED
        BY <1>4, <1>5, <4>1 DEF Remembered
    <3>2. CASE job.target = 0
      <4>1. i <= b /\ job.cursor < i
        BY <1>6, <2>1, <3>2
      <4>2. CASE Cardinality(rows) # n
        BY <1>2, <1>4, <1>5, <2>1, <3>2, <4>1, <4>2 DEF ToRead, Fetching
      <4>3. CASE Cardinality(rows) = n
        <5>1. job'.last \in 1 .. Len(log)
          BY <1>1, <1>8, <4>3
        <5>2. CASE job'.last < i
          BY <1>4, <3>2, <4>3, <5>2 DEF ToRead, Fetching
        <5>3. CASE i <= job'.last
          BY <1>2, <1>4, <1>5, <1>8, <2>1, <3>2, <4>1, <4>3, <5>3 DEF ToRead, Fetching
        <5> QED
          BY <5>1, <5>2, <5>3
      <4> QED
        BY <4>2, <4>3
    <3> QED
      BY <3>1, <3>2
  <2> QED
    BY <1>5, <2>1, StillTold
<1> QED
  BY <1>10, <1>11

LEMMA ReadReplayPageCore ==
  ASSUME SessionInv, ReadReplayPage, Delivering'
  PROVE  CoreInv'
<1>0. ShapeInv
  BY DEF SessionInv
<1>1. /\ At("read") /\ job.target = 0 /\ queue # <<>> /\ step = "read" /\ job.sending = 0
      /\ UNCHANGED <<world, socket, session, subscribes, reply, history>>
  BY <1>0, Finds DEF ReadReplayPage, At, Sending
<1>2. /\ Delivering /\ FramesInv' /\ NothingSkipped'
      /\ UNCHANGED <<start, scannedThrough, frames>>
  BY <1>1, QuietSession
<1> USE Delivers, Shapes
<1>3. TakePage(VisibleActions(job.cursor, Len(log), groups, ReplayPageSize), ReplayPageSize)
  BY <1>2 DEF ReadReplayPage
<1>4. job.cursor = scannedThrough /\ start <= job.cursor /\ job.pending = {}
  BY <1>1, <1>2 DEF CursorsInv, Fetching
<1>5. PageInv' /\ ToldInv'
  BY <1>1, <1>2, <1>3, <1>4, PageIsRead, BoundsAssumption
<1>6. step' = "check" /\ job'.cursor = job.cursor /\ job'.target = job.target /\ job'.pending = job.pending
  BY <1>2, <1>3, PagesAreOfLog, PageTaken
<1>7. CursorsInv'
  BY <1>1, <1>2, <1>4, <1>6 DEF CursorsInv, Paging, Sending
<1> QED
  BY <1>2, <1>5, <1>7 DEF CoreInv

LEMMA ReadGapPageCore ==
  ASSUME SessionInv, ReadGapPage, Delivering'
  PROVE  CoreInv'
<1>0. ShapeInv
  BY DEF SessionInv
<1>1. At("read") /\ job.cursor < job.target - 1 /\ queue # <<>> /\ step = "read" /\ job.sending = 0
  BY <1>0, Finds DEF ReadGapPage, At, Sending
<1>2. /\ TakePage(VisibleActions(job.cursor, job.target - 1, groups, GapFillPageSize), GapFillPageSize)
      /\ UNCHANGED <<world, socket, session, subscribes, reply, history>>
  BY DEF ReadGapPage, RequireBootstrap, EndSession, Delivering
<1>3. /\ Delivering /\ FramesInv' /\ NothingSkipped'
      /\ UNCHANGED <<start, scannedThrough, frames>>
  BY <1>1, <1>2, QuietSession
<1> USE Delivers, Shapes
<1>4. /\ job.cursor = scannedThrough /\ start <= job.cursor
      /\ job.target # 0 => scannedThrough < job.target
  BY <1>1, <1>3 DEF CursorsInv
<1>5. job.cursor \in 0 .. Len(log) /\ job.target \in 0 .. Len(log)
  BY <1>3 DEF JobOf
<1>6. job.target # 0 /\ job.target - 1 \in 0 .. Len(log)
  BY <1>1, <1>5
<1>7. PageInv' /\ ToldInv'
  BY <1>1, <1>2, <1>3, <1>4, <1>6, PageIsRead, BoundsAssumption
<1>8. step' = "check" /\ job'.cursor = job.cursor /\ job'.target = job.target /\ job'.pending = job.pending
  BY <1>2, <1>3, PagesAreOfLog, PageTaken
<1>9. CursorsInv'
  BY <1>3, <1>4, <1>6, <1>8 DEF CursorsInv, Paging, Sending
<1> QED
  BY <1>3, <1>7, <1>9 DEF CoreInv

\* Above the cursor nothing was pruned, or the client starts from nothing.
LEMMA FloorIsBelow ==
  ASSUME SessionInv, Delivering, step = "check", ~IsPageBehindRetention(job.cursor)
  PROVE  \A i \in 1 .. Len(log) :
            scannedThrough < i /\ i <= pruned => start = 0 /\ Sent = {}
<1> USE Delivers, Shapes
<1>1. job.cursor = scannedThrough /\ start <= job.cursor /\ job.cursor \in 0 .. Len(log)
  BY DEF CursorsInv, Paging, JobOf
<1>2. CASE job.cursor = 0
  <2>1. Sent \subseteq 1 .. Len(log)
    BY SentAreOfLog
  <2>2. start = 0 /\ scannedThrough = 0
    BY <1>1, <1>2
  <2> QED
    BY <2>1, <2>2 DEF FramesInv
<1>3. CASE job.cursor # 0
  <2>1. job.cursor \in 1 .. Len(log) /\ job.cursor > 0
    BY <1>1, <1>3
  <2>2. ~IsSyncCursorStale(job.cursor, EarliestSyncId)
    BY <2>1 DEF IsPageBehindRetention
  <2>3. pruned <= job.cursor
    BY <2>1, <2>2, FloorHolds
  <2> QED
    BY <1>1, <2>3
<1> QED
  BY <1>2, <1>3

LEMMA CheckPageCore ==
  ASSUME SessionInv, CheckPage, Delivering'
  PROVE  CoreInv'
<1>0. ShapeInv
  BY DEF SessionInv
<1>1. /\ At("check") /\ queue # <<>> /\ step = "check" /\ ~IsPageBehindRetention(job.cursor)
      /\ Continue("next", job)
      /\ UNCHANGED <<world, socket, session, subscribes, reply, history>>
  BY DEF CheckPage, At, RequireBootstrap, EndSession, Reset, Delivering
<1>2. step' = "next" /\ job' = job /\ queue' = queue
  BY <1>1 DEF Continue
<1>3. /\ Delivering /\ FramesInv' /\ NothingSkipped'
      /\ UNCHANGED <<log, pruned, unpublished, start, frames, scannedThrough, afterSyncId, groups,
                     bufferedActions, subscribed, phase>>
  BY <1>1, <1>2, QuietSession
<1>4. \A i \in 1 .. Len(log) : scannedThrough < i /\ i <= pruned => start = 0 /\ Sent = {}
  BY <1>1, <1>3, FloorIsBelow
<1> USE Delivers, Shapes
<1>5. CursorsInv'
  BY <1>1, <1>2, <1>3 DEF CursorsInv, Paging, Fetching, Sending
<1>6. PageInv'
  <2>1. Paging
    BY <1>1 DEF Paging
  <2>2. ASSUME NEW i \in scannedThrough + 1 .. Len(log), Gone(i)
        PROVE  Gone(i)'
    <3>1. i \in 1 .. Len(log) /\ scannedThrough < i /\ i <= pruned
      BY <1>3, <2>2 DEF Gone
    <3>2. start = 0 /\ Sent = {}
      BY <1>4, <3>1
    <3> QED
      BY <1>2, <1>3, <2>2, <3>2 DEF Gone, Sent, Sending
  <2> QED
    BY <1>2, <1>3, <2>1, <2>2 DEF PageInv, Overlaps
<1>7. ToldInv'
  <2>1. ASSUME NEW i \in 1 .. Len(log), scannedThrough < i, Remembered(i) \/ ToRead(i)
        PROVE  Remembered(i)' \/ ToRead(i)' \/ (start = 0 /\ i <= pruned)
    BY <1>1, <1>2, <1>3, <1>4, <2>1 DEF Remembered, ToRead, Fetching
  <2> QED
    BY <1>3, <2>1, StillTold
<1> QED
  BY <1>3, <1>5, <1>6, <1>7 DEF CoreInv

LEMMA NextPageCore ==
  ASSUME SessionInv, NextPage, Delivering'
  PROVE  CoreInv'
<1>0. ShapeInv
  BY DEF SessionInv
<1>1. /\ step = "next" /\ step' = "read" /\ queue' = queue /\ queue # <<>> /\ job.page = {} /\ job.full
      /\ job' = [job EXCEPT !.cursor = job.last]
      /\ UNCHANGED <<world, socket, session, subscribes, reply, history>>
  BY DEF NextPage, At, Continue, ReadOn
<1>2. /\ job'.cursor = job.last /\ job'.target = job.target /\ job'.sending = job.sending
      /\ job'.pending = job.pending
  <2>1. job.last \in 0 .. Len(log)
    BY <1>0, Shapes DEF JobOf
  <2> QED
    BY <1>0, <1>1, <2>1, Shapes, MovingCursor
<1>3. /\ Delivering /\ FramesInv' /\ NothingSkipped'
      /\ UNCHANGED <<log, pruned, unpublished, start, frames, scannedThrough, afterSyncId, groups,
                     bufferedActions, subscribed, phase>>
  BY <1>1, <1>2, QuietSession
<1> USE Delivers, Shapes
<1>4. job.last = scannedThrough /\ start <= scannedThrough
  BY <1>1, <1>3 DEF PageInv, Paging, FramesInv
<1>5. CursorsInv' /\ PageInv'
  BY <1>1, <1>2, <1>3, <1>4 DEF CursorsInv, PageInv, Paging, Fetching, Sending
<1>7. ToldInv'
  <2>1. ASSUME NEW i \in 1 .. Len(log), scannedThrough < i, Remembered(i) \/ ToRead(i)
        PROVE  Remembered(i)' \/ ToRead(i)'
    BY <1>1, <1>2, <1>3, <2>1 DEF Remembered, ToRead, Fetching
  <2> QED
    BY <1>3, <2>1, StillTold
<1> QED
  BY <1>3, <1>5, <1>7 DEF CoreInv

LEMMA EndReplayCore ==
  ASSUME SessionInv, EndReplay, Delivering'
  PROVE  CoreInv'
<1>0. ShapeInv
  BY DEF SessionInv
<1>1. /\ step = "next" /\ step' = "deliver" /\ queue' = queue /\ queue # <<>> /\ job.page = {}
      /\ ~job.full /\ job.target = 0 /\ job' = NoJob
      /\ UNCHANGED <<world, socket, session, subscribes, reply, history>>
  BY DEF EndReplay, At, Continue
<1>2. job.sending = 0
  BY <1>0, <1>1, Shapes DEF StepsInv, Sending
<1>3. /\ Delivering /\ FramesInv' /\ NothingSkipped'
      /\ UNCHANGED <<log, pruned, unpublished, start, frames, scannedThrough, afterSyncId, groups,
                     bufferedActions, subscribed, phase>>
  BY <1>1, <1>2, QuietSession
<1> USE Delivers, Shapes
<1>5. CursorsInv' /\ PageInv'
  BY <1>1, AtRest DEF Fetching, Sending
<1>7. ToldInv'
  <2>1. job.pending = {}
    BY <1>1, <1>3 DEF CursorsInv, Fetching
  <2>2. ASSUME NEW i \in 1 .. Len(log), scannedThrough < i, Remembered(i) \/ ToRead(i)
        PROVE  Remembered(i)'
    BY <1>1, <1>3, <2>1, <2>2 DEF Remembered, ToRead, Fetching
  <2> QED
    BY <1>3, <2>2, StillTold
<1> QED
  BY <1>3, <1>5, <1>7 DEF CoreInv

\* What is claimed comes next: below it is only what was sent or is excused.
LEMMA ClaimKeeps ==
  ASSUME SessionInv, Delivering, job.sending = 0,
         UNCHANGED <<log, pruned, start, frames, afterSyncId, groups>>,
         NEW i \in 1 .. Len(log), scannedThrough < i, scannedThrough' = i, job'.sending = i,
         step' = IF log[i].to = Everyone THEN "guard" ELSE "authorize",
         \A x \in 1 .. Len(log) :
            scannedThrough < x /\ x < i /\ Overlaps(groups, x) => Excused(x),
         job'.target = 0 => job'.pending = {}, 
         i # job'.target => start <= job'.cursor /\ (job'.target # 0 => i < job'.target)
  PROVE  FramesInv' /\ NothingSkipped' /\ CursorsInv'
<1> USE Delivers, Shapes
<1>1. Sent' = Sent /\ Sent \subseteq 1 .. Len(log)
  <2>1. Sent' = Sent
    BY DEF Sent
  <2>2. Sent \subseteq 1 .. Len(log)
    BY SentAreOfLog
  <2> QED
    BY <2>1, <2>2
<1>2. start <= scannedThrough /\ afterSyncId <= scannedThrough /\ \A f \in Sent : f <= scannedThrough
  BY DEF FramesInv
<1>3. \A f \in Sent : f < i
  BY <1>1, <1>2
<1>4. start < i /\ afterSyncId <= i
  BY <1>2
<1>5. FramesInv'
  <2>1. \A f \in Sent : start < f
    BY DEF FramesInv
  <2>2. \A f \in Sent : f <= i
    BY <1>1, <1>3
  <2>3. \A m, n \in 1 .. Len(frames) : m < n => frames[m] < frames[n]
    BY DEF FramesInv
  <2> QED
    BY <1>1, <1>4, <2>1, <2>2, <2>3 DEF FramesInv
<1>6. NothingSkipped'
  <2> SUFFICES ASSUME NEW x \in start + 1 .. i, Overlaps(groups, x)'
               PROVE  x \in Sent \cup {i} \/ Excused(x)
    BY <1>1 DEF NothingSkipped, Excused
  <2>1. x \in 1 .. Len(log) /\ Overlaps(groups, x)
    BY DEF Overlaps
  <2>2. CASE x <= scannedThrough
    <3>1. x \in start + 1 .. scannedThrough
      BY <2>2
    <3>2. x \in Sent \cup {job.sending} \/ Excused(x)
      BY <2>1, <3>1
    <3> QED
      BY <2>1, <3>2
  <2>3. CASE scannedThrough < x
    BY <2>1, <2>3
  <2> QED
    BY <2>1, <2>2, <2>3
<1>7. CursorsInv'
  <2>1. step' \in {"guard", "authorize"}
    OBVIOUS
  <2>2. (step' = "authorize" => log[i].to # Everyone) /\ (step' = "guard" => log[i].to = Everyone)
    OBVIOUS
  <2> QED
    BY <1>1, <1>3, <1>4, <2>1, <2>2 DEF CursorsInv, Paging, Fetching, Sending, Overlaps
<1> QED
  BY <1>5, <1>6, <1>7

LEMMA SendFromPageCore ==
  ASSUME SessionInv, SendFromPage, Delivering'
  PROVE  CoreInv'
<1>0. ShapeInv
  BY DEF SessionInv
<1>1. step = "next" /\ job.page # {} /\ queue # <<>>
  BY DEF SendFromPage, At
<1>2. PICK i \in job.page : i = Least(job.page) /\ \A p \in job.page : i <= p
  BY <1>0, <1>1, Shapes, LeastIsLeast DEF JobOf
<1> DEFINE rest == [job EXCEPT !.page = @ \ {i}]
<1>3. Delivering
  BY DEF SendFromPage, Claim, session, Delivering
<1>4. i \in 1 .. Len(log) /\ scannedThrough < i /\ (job.target # 0 => i < job.target)
      /\ i # job.target
  <2>1. Paging /\ PageInv
    BY <1>1, <1>3, Delivers DEF Paging
  <2>2. i \in 1 .. Len(log) /\ job.target \in 0 .. Len(log)
    BY <1>0, Shapes DEF JobOf
  <2> QED
    BY <2>1, <2>2 DEF PageInv
<1>5. Claim(i, rest)
  BY <1>2, <1>4 DEF SendFromPage, IsNews
<1>6. /\ rest.page = job.page \ {i} /\ rest.pending = job.pending /\ rest.target = job.target
      /\ rest.cursor = job.cursor /\ rest.last = job.last /\ rest.full = job.full
      /\ JobOf(rest, Len(log))
  BY <1>0, <1>4, Shapes, Dropping
<1> HIDE DEF rest
<1>7. /\ scannedThrough' = i /\ queue' = queue
      /\ step' = IF log[i].to = Everyone THEN "guard" ELSE "authorize"
      /\ job' = [rest EXCEPT !.sending = i]
      /\ UNCHANGED <<log, pruned, unpublished, start, frames, afterSyncId, groups,
                     bufferedActions, subscribed>>
  BY <1>5 DEF Claim, Continue, world, history
<1>8. /\ job'.page = job.page \ {i} /\ job'.pending = job.pending /\ job'.target = job.target
      /\ job'.cursor = job.cursor /\ job'.last = job.last /\ job'.full = job.full
      /\ job'.sending = i
  BY <1>0, <1>4, <1>6, <1>7, Shapes, ToSend
<1> USE Delivers, Shapes
<1>9. /\ job.sending = 0 /\ Paging /\ start <= job.cursor /\ (job.target = 0 => job.pending = {})
      /\ step' \in Sending /\ step' \in {"guard", "authorize"}
  BY <1>1, <1>3, <1>7 DEF StepsInv, CursorsInv, Paging, Sending, Fetching
<1>10. \A p \in job.page : scannedThrough < p /\ (job.target # 0 => p < job.target)
  BY <1>3, <1>9 DEF PageInv
<1>11. \A x \in 1 .. Len(log) :
          /\ scannedThrough < x /\ Overlaps(groups, x)
          /\ (\E p \in job.page : x < p) \/ (~job.full /\ x < job.target)
          => x \in job.page \/ Gone(x)
  BY <1>3, <1>9 DEF PageInv
<1>12. FramesInv' /\ NothingSkipped' /\ CursorsInv'
  <2>1. ASSUME NEW x \in 1 .. Len(log), scannedThrough < x, x < i, Overlaps(groups, x)
        PROVE  Excused(x)
    <3>1. x \notin job.page
      BY <1>2, <1>4, <2>1
    <3>2. Gone(x)
      BY <1>11, <2>1, <3>1
    <3> QED
      BY <1>1, <3>2 DEF Gone, Excused
  <2> QED
    BY <1>3, <1>4, <1>7, <1>8, <1>9, <2>1, ClaimKeeps
<1>13. PageInv'
  <2>0. job.page \subseteq 1 .. Len(log) /\ job.last \in 0 .. Len(log) /\ job.target \in 0 .. Len(log)
    BY <1>0 DEF JobOf
  <2>1. \A p \in job'.page : i < p /\ (job.target # 0 => p < job.target)
    BY <1>2, <1>4, <1>8, <1>10, <2>0
  <2>2. job.full => /\ i <= job.last /\ job.cursor < job.last
                    /\ job.last \in job'.page \/ job.last = i
                    /\ \A p \in job'.page : p <= job.last
    <3>1. job.full => /\ scannedThrough <= job.last /\ job.cursor < job.last
                      /\ job.last \in job.page \/ job.last = scannedThrough
                      /\ \A p \in job.page : p <= job.last
      BY <1>3, <1>9 DEF PageInv
    <3>2. job.full => i <= job.last /\ job.last # scannedThrough
      BY <1>2, <1>4, <3>1, <2>0
    <3> QED
      BY <1>8, <3>1, <3>2
  <2>3. ASSUME NEW x \in i + 1 .. Len(log), Overlaps(groups, x),
               (\E p \in job'.page : x < p) \/ (~job.full /\ x < job.target)
        PROVE  x \in job'.page
    <3>1. x \in 1 .. Len(log) /\ scannedThrough < x /\ i < x
      BY <1>3, <1>4
    <3>2. x \in job.page \/ Gone(x)
      BY <1>8, <1>11, <2>3, <3>1
    <3>3. ~Gone(x)
      BY <1>4, <3>1 DEF Gone
    <3> QED
      BY <1>8, <3>1, <3>2, <3>3
  <2> QED
    BY <1>7, <1>8, <2>1, <2>2, <2>3 DEF PageInv, Overlaps
<1>14. ToldInv'
  <2>1. ASSUME NEW x \in 1 .. Len(log), i < x, Remembered(x) \/ ToRead(x)
        PROVE  Remembered(x)' \/ ToRead(x)'
    <3>1. Remembered(x) => Remembered(x)'
      BY <1>1, <1>7, <1>8, <1>9 DEF Remembered
    <3>2. ToRead(x) => ToRead(x)'
      BY <1>1, <1>4, <1>8, <1>9, <2>1 DEF ToRead, Fetching
    <3> QED
      BY <2>1, <3>1, <3>2
  <2>2. i \in Nat /\ scannedThrough <= i
    BY <1>3, <1>4
  <2> QED
    BY <1>3, <1>7, <2>1, <2>2, StillTold
<1> QED
  BY <1>12, <1>13, <1>14 DEF CoreInv

LEMMA EndGapCore ==
  ASSUME SessionInv, EndGap, Delivering'
  PROVE  CoreInv'
<1>0. ShapeInv
  BY DEF SessionInv
<1>1. /\ queue # <<>> /\ job.target # 0
      /\ \/ step = "next" /\ job.page = {} /\ ~job.full
         \/ step = "read" /\ job.cursor >= job.target - 1
  BY DEF EndGap, At
<1>2. Delivering
  BY DEF EndGap, Claim, session, Delivering
<1>3. PICK i \in 1 .. Len(log) : i = job.target /\ Claim(i, job)
  BY <1>0, <1>1, Shapes DEF JobOf, EndGap
<1>4. /\ scannedThrough' = i /\ queue' = queue
      /\ step' = IF log[i].to = Everyone THEN "guard" ELSE "authorize"
      /\ job' = [job EXCEPT !.sending = i]
      /\ UNCHANGED <<log, pruned, unpublished, start, frames, afterSyncId, groups,
                     bufferedActions, subscribed>>
  BY <1>3 DEF Claim, Continue, world, history
<1>5. job'.pending = job.pending /\ job'.target = i /\ job'.sending = i
  BY <1>0, <1>3, <1>4, Shapes, ToSend
<1> USE Delivers, Shapes
<1>6. /\ job.sending = 0 /\ scannedThrough < i /\ step' \in {"guard", "authorize"}
  BY <1>1, <1>2, <1>3, <1>4 DEF StepsInv, CursorsInv, Paging, Sending, Fetching
<1>7. ASSUME NEW x \in 1 .. Len(log), scannedThrough < x, x < i, Overlaps(groups, x)
      PROVE  Excused(x)
  <2>1. CASE step = "next"
    <3>1. x \in scannedThrough + 1 .. Len(log) /\ x < job.target
      BY <1>2, <1>3, <1>7
    <3>2. Gone(x)
      BY <1>1, <1>2, <1>7, <2>1, <3>1 DEF PageInv, Paging
    <3> QED
      BY <2>1, <3>2 DEF Gone, Excused
  <2>2. CASE step = "read"
    BY <1>1, <1>2, <1>3, <1>7, <2>2 DEF CursorsInv
  <2> QED
    BY <1>1, <2>1, <2>2
<1>8. FramesInv' /\ NothingSkipped' /\ CursorsInv'
  BY <1>2, <1>4, <1>5, <1>6, <1>7, ClaimKeeps
<1>9. PageInv'
  BY <1>4, <1>5, <1>6 DEF PageInv, Paging, Sending
<1>10. ToldInv'
  <2>1. ASSUME NEW x \in 1 .. Len(log), i < x, Remembered(x) \/ ToRead(x)
        PROVE  Remembered(x)'
    BY <1>1, <1>3, <1>4, <1>5, <1>6, <2>1 DEF Remembered, ToRead
  <2>2. i \in Nat /\ scannedThrough <= i
    BY <1>2, <1>6
  <2> QED
    BY <1>2, <1>4, <2>1, <2>2, StillTold
<1> QED
  BY <1>8, <1>9, <1>10 DEF CoreInv

\* What was claimed is dealt with, and the page goes on or the notification is done.
LEMMA ReturnKeeps ==
  ASSUME SessionInv, Delivering, step \in Sending, queue # <<>>, Return, groups' \subseteq groups,
         UNCHANGED <<log, pruned, unpublished, start, scannedThrough, bufferedActions, subscribed>>
  PROVE  CursorsInv' /\ PageInv' /\ ToldInv'
<1>0. ShapeInv
  BY DEF SessionInv
<1>1. At(step)
  BY DEF At, Delivering
<1>2. /\ queue' = queue /\ step' \in {"deliver", "next"} /\ job'.sending = 0
      /\ job'.pending = job.pending
      /\ job.sending = job.target => step' = "deliver" /\ job'.target = 0
      /\ job.sending # job.target =>
            /\ step' = "next" /\ job'.target = job.target /\ job'.cursor = job.cursor
            /\ job'.page = job.page /\ job'.last = job.last /\ job'.full = job.full
  <2>1. PICK s \in Sending : s = step
    OBVIOUS
  <2>2. At(s)
    BY <1>1, <2>1
  <2> QED
    BY <1>0, <2>1, <2>2, Returns
<1> USE Delivers, Shapes
<1>3. job.sending = scannedThrough /\ job.sending # 0 /\ step # "start"
  BY DEF CursorsInv, StepsInv, Sending
<1>4. CASE job.sending = job.target
  <2>1. step' = "deliver"
    BY <1>2, <1>4
  <2>2. CursorsInv' /\ PageInv'
    BY <2>1, AtRest DEF Fetching, Sending
  <2>3. ASSUME NEW i \in 1 .. Len(log), scannedThrough < i, Remembered(i) \/ ToRead(i)
        PROVE  Remembered(i)'
    <3>1. i # job.target /\ job.target # 0
      BY <1>3, <1>4, <2>3
    <3> QED
      BY <1>2, <1>3, <2>1, <2>3, <3>1 DEF Remembered, ToRead
  <2>4. ToldInv'
    BY <2>3, StillTold
  <2> QED
    BY <2>2, <2>4
<1>5. CASE job.sending # job.target
  <2>1. /\ step' = "next" /\ job'.target = job.target /\ job'.cursor = job.cursor
        /\ job'.page = job.page /\ job'.last = job.last /\ job'.full = job.full
    BY <1>2, <1>5
  <2>2. Paging
    BY <1>5 DEF Paging
  <2>3. CursorsInv'
    BY <1>2, <2>1, <2>2 DEF CursorsInv, Paging, Fetching, Sending
  <2>4. PageInv'
    <3>1. job.page \subseteq 1 .. Len(log)
      BY DEF JobOf
    <3>2. ASSUME NEW i \in scannedThrough + 1 .. Len(log), Overlaps(groups, i)',
                 \/ \E p \in job.page : i < p
                 \/ ~job.full /\ i < job.target
          PROVE  i \in job.page
      <4>1. Overlaps(groups, i)
        BY <3>2 DEF Overlaps
      <4>2. i \in job.page \/ Gone(i)
        BY <2>2, <3>2, <4>1 DEF PageInv
      <4> QED
        BY <4>2 DEF Gone
    <3> QED
      BY <2>1, <2>2, <3>2 DEF PageInv
  <2>5. ASSUME NEW i \in 1 .. Len(log), scannedThrough < i, Remembered(i) \/ ToRead(i)
        PROVE  Remembered(i)' \/ ToRead(i)'
    BY <1>2, <1>3, <2>1, <2>5 DEF Remembered, ToRead, Fetching, Sending
  <2>6. ToldInv'
    BY <2>5, StillTold
  <2> QED
    BY <2>3, <2>4, <2>6
<1> QED
  BY <1>4, <1>5

\* The next check of a frame that is on its way.
LEMMA SendingGoesOn ==
  ASSUME SessionInv, Delivering, step \in Sending, step' \in {"guard", "refreshes"},
         queue # <<>>, UNCHANGED <<queue, job>>, groups' \subseteq groups, Overlaps(groups, job.sending)',
         UNCHANGED <<log, pruned, unpublished, start, frames, scannedThrough, afterSyncId,
                     bufferedActions, subscribed>>
  PROVE  CoreInv'
<1> USE Delivers, Shapes
<1>1. FramesInv' /\ NothingSkipped'
  BY QuietWork
<1>2. CursorsInv'
  BY DEF CursorsInv, Paging, Fetching, Sending, Sent
<1>3. PageInv'
  <2>1. ASSUME NEW i \in scannedThrough + 1 .. Len(log), Overlaps(groups, i)', Paging,
               \/ \E p \in job.page : i < p
               \/ ~job.full /\ i < job.target
        PROVE  i \in job.page
    <3>1. Overlaps(groups, i)
      BY <2>1 DEF Overlaps
    <3>2. i \in job.page \/ Gone(i)
      BY <2>1, <3>1 DEF PageInv
    <3> QED
      BY <3>2 DEF Gone
  <2>2. Paging' => Paging
    BY DEF Paging, Sending
  <2> QED
    BY <2>1, <2>2 DEF PageInv
<1>4. ToldInv'
  <2>1. ASSUME NEW i \in 1 .. Len(log), scannedThrough < i, Remembered(i) \/ ToRead(i)
        PROVE  Remembered(i)' \/ ToRead(i)'
    BY <2>1 DEF Remembered, ToRead, Fetching, Sending
  <2> QED
    BY <2>1, StillTold
<1> QED
  BY <1>1, <1>2, <1>3, <1>4 DEF CoreInv

LEMMA AuthorizeDeliveryCore ==
  ASSUME SessionInv, AuthorizeDelivery, Delivering'
  PROVE  CoreInv'
<1>1. /\ step = "authorize" /\ queue # <<>> /\ groups' \subseteq groups
      /\ \/ log[job.sending].to \notin groups' /\ Return
         \/ log[job.sending].to \in groups' /\ Continue("guard", job)
      /\ UNCHANGED <<world, socket, phase, afterSyncId, scannedThrough, bufferedActions,
                     subscribed, history>>
  BY DEF AuthorizeDelivery, At, Delivering
<1>2. /\ Delivering /\ step \in Sending
      /\ UNCHANGED <<log, pruned, unpublished, start, frames, scannedThrough, afterSyncId,
                     bufferedActions, subscribed>>
  BY <1>1 DEF Delivering, world, history, Sending
<1>3. CASE log[job.sending].to \notin groups' /\ Return
  <2>1. log[job.sending].to \notin groups' \cup {Everyone}
    BY <1>1, <1>2, <1>3, Delivers DEF CursorsInv
  <2>2. FramesInv' /\ NothingSkipped'
    BY <1>1, <1>2, <2>1, QuietWork
  <2>3. CursorsInv' /\ PageInv' /\ ToldInv'
    BY <1>1, <1>2, <1>3, ReturnKeeps
  <2> QED
    BY <2>2, <2>3 DEF CoreInv
<1>4. CASE log[job.sending].to \in groups' /\ Continue("guard", job)
  <2>1. step' = "guard" /\ job' = job /\ queue' = queue
    BY <1>4 DEF Continue
  <2>2. Overlaps(groups, job.sending)'
    BY <1>2, <1>4, <2>1 DEF Overlaps
  <2> QED
    BY <1>1, <1>2, <2>1, <2>2, SendingGoesOn
<1> QED
  BY <1>1, <1>3, <1>4

LEMMA GuardFloorCore ==
  ASSUME SessionInv, GuardFloor, Delivering'
  PROVE  CoreInv'
<1>1. /\ step = "guard" /\ queue # <<>> /\ Continue("refreshes", job)
      /\ UNCHANGED <<world, socket, session, subscribes, reply, history>>
  BY DEF GuardFloor, At, RequireBootstrap, EndSession, Delivering
<1>2. /\ Delivering /\ step \in Sending /\ step' = "refreshes" /\ UNCHANGED <<queue, job>>
      /\ UNCHANGED <<log, pruned, unpublished, start, frames, scannedThrough, afterSyncId,
                     bufferedActions, subscribed, groups>>
  BY <1>1 DEF Delivering, world, history, Sending, session, Continue
<1>3. Overlaps(groups, job.sending)
  BY <1>1, <1>2, Delivers DEF CursorsInv
<1>4. Overlaps(groups, job.sending)'
  BY <1>2, <1>3 DEF Overlaps
<1> QED
  BY <1>1, <1>2, <1>4, SendingGoesOn

\* A frame that goes out is the next of the log.
LEMMA EmitCore ==
  ASSUME SessionInv, NEW c, Emit(c), step \in Sending, queue # <<>>, Delivering'
  PROVE  CoreInv'
<1>0. ShapeInv
  BY DEF SessionInv
<1>1. /\ Delivering /\ groups' \subseteq groups /\ Return
      /\ frames' = Append(frames, job.sending) /\ afterSyncId' = Larger(afterSyncId, job.sending)
      /\ UNCHANGED <<log, pruned, unpublished, start, scannedThrough, bufferedActions, subscribed>>
  BY DEF Emit, Delivering, world
<1>2. CursorsInv' /\ PageInv' /\ ToldInv'
  BY <1>1, ReturnKeeps
<1> USE Delivers, Shapes
<1>3. /\ job.sending = scannedThrough /\ start < scannedThrough
      /\ \A f \in Sent : f < scannedThrough
  BY <1>1 DEF CursorsInv
<1>4. /\ frames \in Seq(1 .. Len(log)) /\ scannedThrough \in 1 .. Len(log)
      /\ Len(frames) \in Nat
  <2>1. frames \in Seq(1 .. Len(log))
    BY <1>0 DEF TypeOK
  <2> QED
    BY <1>0, <1>1, <1>3, <2>1
<1>5. /\ Len(frames') = Len(frames) + 1 /\ frames'[Len(frames) + 1] = scannedThrough
      /\ \A n \in 1 .. Len(frames) : frames'[n] = frames[n]
  BY <1>1, <1>3, <1>4
<1>6. Sent' = Sent \cup {scannedThrough}
  <2>1. ASSUME NEW f \in Sent'
        PROVE  f \in Sent \cup {scannedThrough}
    <3>1. PICK n \in 1 .. Len(frames') : f = frames'[n]
      BY <2>1 DEF Sent
    <3>2. n \in 1 .. Len(frames) \/ n = Len(frames) + 1
      BY <1>4, <1>5
    <3> QED
      BY <1>5, <3>1, <3>2 DEF Sent
  <2>2. scannedThrough \in Sent'
    <3>1. Len(frames) + 1 \in 1 .. Len(frames')
      BY <1>4, <1>5
    <3> QED
      BY <1>5, <3>1 DEF Sent
  <2>3. ASSUME NEW f \in Sent
        PROVE  f \in Sent'
    <3>1. PICK n \in 1 .. Len(frames) : f = frames[n]
      BY <2>3 DEF Sent
    <3>2. n \in 1 .. Len(frames') /\ frames'[n] = f
      BY <1>4, <1>5, <3>1
    <3> QED
      BY <3>2 DEF Sent
  <2> QED
    BY <2>1, <2>2, <2>3
<1>7. FramesInv'
  <2>1. start <= scannedThrough /\ afterSyncId' <= scannedThrough
    BY <1>0, <1>1, <1>3 DEF FramesInv, Larger
  <2>2. \A f \in Sent' : start < f /\ f <= scannedThrough
    BY <1>1, <1>3, <1>4, <1>6 DEF FramesInv
  <2>3. ASSUME NEW m \in 1 .. Len(frames'), NEW n \in 1 .. Len(frames'), m < n
        PROVE  frames'[m] < frames'[n]
    <3>1. m \in 1 .. Len(frames) /\ frames'[m] = frames[m] /\ frames[m] \in Sent
      <4>1. m \in 1 .. Len(frames)
        BY <1>4, <1>5, <2>3
      <4> QED
        BY <1>5, <4>1 DEF Sent
    <3>2. CASE n \in 1 .. Len(frames)
      BY <1>1, <1>5, <2>3, <3>1, <3>2 DEF FramesInv
    <3>3. CASE n = Len(frames) + 1
      BY <1>3, <1>5, <3>1, <3>3
    <3> QED
      BY <1>4, <1>5, <3>2, <3>3
  <2> QED
    BY <1>1, <2>1, <2>2, <2>3 DEF FramesInv
<1>8. NothingSkipped'
  <2> SUFFICES ASSUME NEW i \in start + 1 .. scannedThrough, Overlaps(groups, i)'
               PROVE  i \in Sent' \/ Excused(i)'
    BY <1>1 DEF NothingSkipped
  <2>1. Overlaps(groups, i) /\ i \in Nat
    BY <1>1, <1>4 DEF Overlaps
  <2>2. i \in Sent \cup {scannedThrough} \/ Excused(i)
    BY <1>1, <1>3, <2>1
  <2>3. i < scannedThrough \/ i = scannedThrough
    BY <1>4
  <2>4. CASE Excused(i) /\ i < scannedThrough
    BY <1>1, <1>6, <2>4 DEF Excused
  <2> QED
    BY <1>6, <2>2, <2>3, <2>4
<1> QED
  BY <1>2, <1>7, <1>8 DEF CoreInv

LEMMA SendFrameCore ==
  ASSUME SessionInv, SendFrame, Delivering'
  PROVE  CoreInv'
<1>1. step \in Sending /\ queue # <<>> /\ Emit(groupRefreshCursor)
  BY DEF SendFrame, At, Sending
<1> QED
  BY <1>1, EmitCore

LEMMA GuardRefreshesCore ==
  ASSUME SessionInv, GuardRefreshes, Delivering'
  PROVE  CoreInv'
<1>1. step \in Sending /\ queue # <<>> /\ Emit(job.sending)
  BY DEF GuardRefreshes, At, Sending, RequireBootstrap, EndSession, Delivering
<1> QED
  BY <1>1, EmitCore

\* A step between deliveries: what was told is remembered by another.
LEMMA HandsOver ==
  ASSUME SessionInv, Delivering, step \notin Sending, step' \notin Fetching \cup {"floor"},
         UNCHANGED <<log, pruned, unpublished, start, frames, scannedThrough, afterSyncId, subscribed>>,
         groups' \subseteq groups,
         \A i \in 1 .. Len(log) :
            subscribed /\ scannedThrough < i /\ (Remembered(i) \/ ToRead(i)) => Remembered(i)'
  PROVE  CoreInv'
<1> USE Delivers, Shapes
<1>1. job.sending = 0
  BY DEF StepsInv
<1>2. FramesInv' /\ NothingSkipped'
  BY <1>1, QuietWork
<1>3. CursorsInv' /\ PageInv'
  BY AtRest
<1>4. CASE subscribed
  <2>1. ToldInv'
    BY <1>4, StillTold
  <2> QED
    BY <1>2, <1>3, <2>1 DEF CoreInv
<1>5. CASE ~subscribed
  BY <1>2, <1>3, <1>5 DEF CoreInv, ToldInv
<1> QED
  BY <1>4, <1>5

\* The task at the head ends, with nothing left of what it was told.
LEMMA TaskEnds ==
  ASSUME SessionInv, Delivering, Finish, queue # <<>>, step \notin Sending,
         UNCHANGED <<log, pruned, unpublished, start, frames, scannedThrough, afterSyncId,
                     bufferedActions, subscribed>>,
         groups' \subseteq groups,
         subscribed => /\ step \notin Fetching \/ job.target # 0
                       /\ \/ step = "start" /\ Head(queue).kind # "delta"
                          \/ step # "start" /\ Head(queue).kind = "catchUp"
                          \/ step # "start" /\ job.pending = {} /\ job.target = 0
  PROVE  CoreInv'
<1> USE Delivers, Shapes
<1>1. step' = "start"
  BY DEF Finish
<1>2. ASSUME NEW i \in 1 .. Len(log), subscribed, scannedThrough < i, Remembered(i) \/ ToRead(i)
      PROVE  Remembered(i)'
  <2>1. Remembered(i)
    BY <1>2 DEF ToRead
  <2> QED
    BY <1>2, <2>1, RememberedByOthers
<1> QED
  BY <1>1, <1>2, HandsOver DEF Fetching, Sending

LEMMA TakeDeltaCore ==
  ASSUME SessionInv, TakeDelta, Delivering'
  PROVE  CoreInv'
<1>0. ShapeInv
  BY DEF SessionInv
<1>1. /\ queue # <<>> /\ step = "start" /\ Head(queue).kind = "delta" /\ Delivering
      /\ UNCHANGED <<log, pruned, unpublished, start, frames, scannedThrough, afterSyncId, groups,
                     bufferedActions, subscribed>>
  BY DEF TakeDelta, Waiting, Delivering, world, session, history
<1> USE <1>0, Shapes
<1>2. CASE phase # "live"
  <2>1. Finish
    BY <1>2 DEF TakeDelta
  <2>2. ~subscribed
    BY <1>1, <1>2 DEF PhaseInv, Delivering
  <2> QED
    BY <1>1, <2>1, <2>2, TaskEnds DEF Sending
<1>3. CASE phase = "live"
  <2> DEFINE S == {Head(queue).id}
             k == [NoJob EXCEPT !.pending = S]
  <2>1. Continue("deliver", k)
    BY <1>3 DEF TakeDelta
  <2>2. S \in SUBSET (1 .. Len(log))
    BY <1>1, TaskTypes DEF TaskOf, Ids
  <2>3. k.pending = S
    BY <2>2, Lists
  <2> HIDE DEF k
  <2>4. step' = "deliver" /\ job'.pending = S /\ queue' = queue
    BY <2>1, <2>3 DEF Continue
  <2>5. Head(queue) = queue[1] /\ Len(queue) \in Nat
    BY <1>1, QueueAdvances
  <2>6. ASSUME NEW i \in 1 .. Len(log), Remembered(i) \/ ToRead(i)
        PROVE  Remembered(i)'
    <3>1. CASE i \in bufferedActions
      BY <1>1, <3>1 DEF Remembered
    <3>2. CASE i \notin bufferedActions
      <4>1. PICK n \in 1 .. Len(queue) : queue[n].kind = "delta" /\ queue[n].id = i
        BY <1>1, <2>6, <3>2 DEF Remembered, ToRead, Fetching, Sending
      <4>2. CASE n = 1
        BY <1>1, <2>4, <2>5, <4>1, <4>2 DEF Remembered
      <4>3. CASE n # 1
        <5>1. n > 1
          BY <2>5, <4>3
        <5> QED
          BY <2>4, <4>1, <5>1 DEF Remembered
      <4> QED
        BY <4>2, <4>3
    <3> QED
      BY <3>1, <3>2
  <2> QED
    BY <1>1, <2>4, <2>6, HandsOver DEF Fetching, Sending
<1> QED
  BY <1>2, <1>3

LEMMA EndDeltaCore ==
  ASSUME SessionInv, EndDelta, Delivering'
  PROVE  CoreInv'
<1>0. ShapeInv
  BY DEF SessionInv
<1>1. /\ queue # <<>> /\ step = "deliver" /\ job.pending = {} /\ Finish /\ Delivering
      /\ UNCHANGED <<log, pruned, unpublished, start, frames, scannedThrough, afterSyncId, groups,
                     bufferedActions, subscribed>>
  BY DEF EndDelta, At, Delivering, world, session, history
<1>2. job.target = 0
  BY <1>0, <1>1, Shapes DEF StepsInv
<1> QED
  BY <1>1, <1>2, TaskEnds DEF Fetching, Sending

LEMMA TakeBufferCore ==
  ASSUME SessionInv, TakeBuffer, Delivering'
  PROVE  CoreInv'
<1>0. ShapeInv
  BY DEF SessionInv
<1>1. /\ At("deliver") /\ step = "deliver" /\ queue # <<>> /\ Head(queue).kind = "subscribe"
      /\ job.pending = {}
      /\ UNCHANGED <<log, pruned, unpublished, start, frames, scannedThrough, afterSyncId, groups,
                     subscribed>>
  BY DEF TakeBuffer, At, world, history
<1>2. Delivering /\ job.target = 0
  BY <1>0, <1>1, Finds, Shapes DEF StepsInv, TakeBuffer, Fetching, Delivering
<1> USE <1>0, Shapes
<1>3. /\ step' \in {"deliver", "acknowledge"} /\ queue' = queue
      /\ bufferedActions \subseteq job'.pending
  <2>1. CASE bufferedActions # {}
    <3> DEFINE k == [NoJob EXCEPT !.pending = bufferedActions]
    <3>1. Continue("deliver", k)
      BY <2>1 DEF TakeBuffer, BufferHasMore
    <3>2. k.pending = bufferedActions
      BY Lists
    <3> HIDE DEF k
    <3> QED
      BY <3>1, <3>2 DEF Continue
  <2>2. CASE bufferedActions = {}
    BY <2>2 DEF TakeBuffer, BufferHasMore, Continue
  <2> QED
    BY <2>1, <2>2
<1>4. ASSUME NEW i \in 1 .. Len(log), scannedThrough < i, Remembered(i) \/ ToRead(i)
      PROVE  Remembered(i)'
  <2>1. i \in bufferedActions \/ \E n \in 1 .. Len(queue) : n > 1 /\ queue[n].kind = "delta" /\ queue[n].id = i
    BY <1>1, <1>2, <1>4 DEF Remembered, ToRead, Fetching, Sending
  <2> QED
    BY <1>1, <1>3, <2>1 DEF Remembered
<1> QED
  BY <1>1, <1>2, <1>3, <1>4, HandsOver DEF Fetching, Sending

LEMMA AcknowledgeCore ==
  ASSUME SessionInv, Acknowledge, Delivering'
  PROVE  CoreInv'
<1>0. ShapeInv
  BY DEF SessionInv
<1>1. /\ queue # <<>> /\ step = "acknowledge" /\ Finish /\ Delivering /\ groups' \subseteq groups
      /\ UNCHANGED <<log, pruned, unpublished, start, frames, scannedThrough, afterSyncId,
                     bufferedActions, subscribed>>
  BY DEF Acknowledge, At, EndSession, Delivering, world, history
<1>2. job.target = 0 /\ job.pending = {}
  BY <1>0, <1>1, NoJobIsOf, Shapes DEF StepsInv
<1> QED
  BY <1>1, <1>2, TaskEnds DEF Fetching, Sending

LEMMA BeginCatchUpCore ==
  ASSUME SessionInv, BeginCatchUp, Delivering'
  PROVE  CoreInv'
<1>1. /\ queue # <<>> /\ step = "start" /\ Head(queue).kind = "catchUp"
      /\ Finish \/ Continue("list", job)
      /\ UNCHANGED <<world, socket, session, subscribes, reply, history>>
  BY DEF BeginCatchUp, Waiting, RequireBootstrap, EndSession, Delivering
<1>2. /\ Delivering
      /\ UNCHANGED <<log, pruned, unpublished, start, frames, scannedThrough, afterSyncId, groups,
                     bufferedActions, subscribed>>
  BY <1>1 DEF Delivering, world, session, history
<1>3. CASE Finish
  BY <1>1, <1>2, <1>3, TaskEnds DEF Fetching, Sending
<1>4. CASE Continue("list", job)
  <2>1. step' = "list" /\ queue' = queue
    BY <1>4 DEF Continue
  <2>2. Head(queue) = queue[1] /\ Len(queue) \in Nat
    BY <1>1, <1>2, Delivers, Shapes, QueueAdvances
  <2>3. ASSUME NEW i \in 1 .. Len(log), Remembered(i) \/ ToRead(i)
        PROVE  Remembered(i)'
    <3>1. CASE i \in bufferedActions
      BY <1>2, <3>1 DEF Remembered
    <3>2. CASE i \notin bufferedActions
      <4>1. PICK n \in 1 .. Len(queue) : queue[n].kind = "delta" /\ queue[n].id = i
        BY <1>1, <2>3, <3>2 DEF Remembered, ToRead, Fetching, Sending
      <4>2. n > 1
        BY <1>1, <2>2, <4>1
      <4> QED
        BY <2>1, <4>1, <4>2 DEF Remembered
    <3> QED
      BY <3>1, <3>2
  <2> QED
    BY <1>1, <1>2, <2>1, <2>3, HandsOver DEF Fetching, Sending
<1> QED
  BY <1>1, <1>3, <1>4

LEMMA ListRefreshesCore ==
  ASSUME SessionInv, ListRefreshes, Delivering'
  PROVE  CoreInv'
<1>0. ShapeInv
  BY DEF SessionInv
<1>1. /\ queue # <<>> /\ step = "list"
      /\ Finish \/ (step' = "deliver" /\ queue' = queue)
      /\ UNCHANGED <<world, socket, session, subscribes, reply, history>>
  BY DEF ListRefreshes, At, Continue
<1>2. /\ Delivering /\ Head(queue).kind = "catchUp"
      /\ UNCHANGED <<log, pruned, unpublished, start, frames, scannedThrough, afterSyncId, groups,
                     bufferedActions, subscribed>>
  BY <1>0, <1>1, Shapes DEF Delivering, world, session, history, StepsInv
<1>3. CASE Finish
  BY <1>1, <1>2, <1>3, TaskEnds DEF Fetching, Sending
<1>4. CASE step' = "deliver" /\ queue' = queue
  <2>1. ASSUME NEW i \in 1 .. Len(log), Remembered(i) \/ ToRead(i)
        PROVE  Remembered(i)'
    BY <1>1, <1>2, <1>4, <2>1 DEF Remembered, ToRead, Fetching, Sending
  <2> QED
    BY <1>1, <1>2, <1>4, <2>1, HandsOver DEF Fetching, Sending
<1> QED
  BY <1>1, <1>3, <1>4

LEMMA EndCatchUpCore ==
  ASSUME SessionInv, EndCatchUp, Delivering'
  PROVE  CoreInv'
<1>1. /\ queue # <<>> /\ step = "deliver" /\ Head(queue).kind = "catchUp" /\ Finish /\ Delivering
      /\ UNCHANGED <<log, pruned, unpublished, start, frames, scannedThrough, afterSyncId, groups,
                     bufferedActions, subscribed>>
  BY DEF EndCatchUp, At, Delivering, world, history
<1> QED
  BY <1>1, TaskEnds DEF Fetching, Sending

LEMMA ReadFailsCore ==
  ASSUME SessionInv, ReadFails, Delivering'
  PROVE  CoreInv'
<1>0. ShapeInv
  BY DEF SessionInv
<1>1. /\ queue # <<>>
      /\ \/ At("floor")
         \/ At("list")
         \/ Waiting("catchUp") /\ phase = "live"
         \/ Reading /\ Head(queue).kind = "catchUp"
      /\ Finish /\ UNCHANGED <<world, history, socket, session, reply>>
  BY DEF ReadFails, EndSession, Reset, Delivering
<1>2. /\ Delivering
      /\ UNCHANGED <<log, pruned, unpublished, start, frames, scannedThrough, afterSyncId, groups,
                     bufferedActions, subscribed>>
  BY <1>1 DEF Delivering, world, session, history
<1> USE Delivers, Shapes
<1>3. CASE At("floor")
  BY <1>0, <1>1, <1>2, <1>3, Finds, TaskEnds DEF At, Fetching, Sending
<1>4. CASE At("list")
  <2>1. step = "list" /\ Head(queue).kind = "catchUp"
    BY <1>2, <1>4 DEF At, StepsInv
  <2> QED
    BY <1>1, <1>2, <2>1, TaskEnds DEF Fetching, Sending
<1>5. CASE Waiting("catchUp")
  BY <1>1, <1>2, <1>5, TaskEnds DEF Waiting, Fetching, Sending
<1>6. CASE Reading /\ Head(queue).kind = "catchUp"
  <2>1. step \in {"read", "check"}
    BY <1>6 DEF Reading
  <2>2. job.target # 0
    BY <1>2, <1>6, <2>1 DEF StepsInv, Fetching
  <2> QED
    BY <1>1, <1>2, <1>6, <2>1, <2>2, TaskEnds DEF Sending
<1> QED
  BY <1>1, <1>3, <1>4, <1>5, <1>6

LEMMA DeliverNextCore ==
  ASSUME SessionInv, DeliverNext, Delivering'
  PROVE  CoreInv'
<1>0. ShapeInv
  BY DEF SessionInv
<1>1. /\ queue # <<>> /\ step = "deliver" /\ job.target = 0 /\ job.sending = 0
  BY <1>0, DeliverNextBranches
<1>2. PICK i \in job.pending : (\A j \in job.pending : i <= j) /\ DeliverBranches(i)
  BY <1>0, DeliverNextBranches
<1>3. i \in 1 .. Len(log) /\ i \in 0 .. Len(log) /\ i # 0
  BY <1>0, Shapes DEF JobOf
<1> DEFINE rest == [job EXCEPT !.pending = @ \ {i}]
<1>4. /\ JobOf(rest, Len(log)) /\ rest.target = 0 /\ rest.sending = 0
      /\ rest.pending = job.pending \ {i}
  BY <1>0, <1>1, <1>3, Shapes, Hearing
<1>5. ~RequireBootstrap
  BY DEF RequireBootstrap, EndSession, Delivering
<1>6. CASE /\ i <= scannedThrough
           /\ Continue("deliver", rest)
           /\ UNCHANGED <<world, socket, session, subscribes, reply, history>>
  <2> HIDE DEF rest
  <2>1. /\ step' = "deliver" /\ job' = rest /\ queue' = queue /\ Delivering
        /\ UNCHANGED <<log, pruned, unpublished, start, frames, scannedThrough, afterSyncId, groups,
                       bufferedActions, subscribed>>
    BY <1>6 DEF Continue, Delivering, world, session, history
  <2>2. scannedThrough \in Nat
    BY <1>0, Shapes
  <2>3. ASSUME NEW x \in 1 .. Len(log), scannedThrough < x, Remembered(x) \/ ToRead(x)
        PROVE  Remembered(x)'
    <3>1. x # i /\ x # 0
      BY <1>3, <1>6, <2>2, <2>3
    <3> QED
      BY <1>1, <1>4, <2>1, <2>3, <3>1 DEF Remembered, ToRead, Fetching, Sending
  <2> QED
    BY <1>1, <2>1, <2>3, HandsOver DEF Fetching, Sending
<1>7. CASE /\ ~Overlaps(groups, i)
           /\ scannedThrough' = IF i = scannedThrough + 1 THEN i ELSE scannedThrough
           /\ Continue("deliver", rest)
           /\ UNCHANGED <<world, socket, phase, groups, afterSyncId, groupRefreshCursor,
                          bufferedActions, subscribed, subscribes, reply, history>>
  <2> HIDE DEF rest
  <2>1. /\ step' = "deliver" /\ job' = rest /\ queue' = queue /\ Delivering
        /\ UNCHANGED <<log, pruned, unpublished, start, frames, afterSyncId, groups,
                       bufferedActions, subscribed>>
    BY <1>7 DEF Continue, Delivering, world, history
  <2> USE Delivers, Shapes
  <2>2. PICK c \in Nat : /\ scannedThrough' = c /\ scannedThrough <= c
                         /\ c = scannedThrough \/ (c = scannedThrough + 1 /\ c = i)
    <3>1. scannedThrough \in Nat
      BY <2>1
    <3>2. CASE i = scannedThrough + 1
      BY <1>3, <1>7, <3>1, <3>2
    <3>3. CASE i # scannedThrough + 1
      BY <1>7, <3>1, <3>3
    <3> QED
      BY <3>2, <3>3
  <2>3. FramesInv'
    <3>1. start <= scannedThrough /\ afterSyncId <= scannedThrough
          /\ \A f \in Sent : start < f /\ f <= scannedThrough
      BY <2>1 DEF FramesInv
    <3>2. Sent \subseteq 1 .. Len(log) /\ Sent' = Sent
      BY <1>0, <2>1, SentAreOfLog DEF Sent
    <3>3. start <= c /\ afterSyncId <= c
      BY <1>0, <2>1, <2>2, <3>1
    <3>4. \A f \in Sent : start < f /\ f <= c
      BY <2>1, <2>2, <3>1, <3>2
    <3> QED
      BY <2>1, <2>2, <3>2, <3>3, <3>4 DEF FramesInv
  <2>4. NothingSkipped'
    <3>0. Sent' = Sent /\ scannedThrough' = c /\ start' = start /\ \A x : Excused(x)' = Excused(x)
      BY <2>1, <2>2 DEF Sent, Excused
    <3> SUFFICES ASSUME NEW x \in start + 1 .. c, Overlaps(groups, x)'
                 PROVE  x \in Sent \/ Excused(x)
      BY <3>0 DEF NothingSkipped
    <3>1. Overlaps(groups, x) /\ x # i
      BY <1>7, <2>1 DEF Overlaps
    <3>2. x \in start + 1 .. scannedThrough
      BY <2>1, <2>2, <3>1
    <3>3. x # 0
      BY <2>1
    <3> QED
      BY <1>1, <2>1, <3>1, <3>2, <3>3
  <2>5. CursorsInv' /\ PageInv'
    BY <2>1, AtRest DEF Fetching, Sending
  <2>6. ASSUME NEW x \in 1 .. Len(log), c < x, Remembered(x) \/ ToRead(x), Overlaps(groups, x)
        PROVE  Remembered(x)'
    <3>1. x # i /\ x # 0
      BY <1>7, <2>6
    <3> QED
      BY <1>1, <1>4, <2>1, <2>6, <3>1 DEF Remembered, ToRead, Fetching, Sending
  <2>7. ToldInv'
    BY <2>1, <2>2, <2>6, StillTold
  <2> QED
    BY <2>3, <2>4, <2>5, <2>7 DEF CoreInv
<1>8. CASE /\ i > scannedThrough + 1
           /\ Continue("read", GapJob(rest, i, scannedThrough))
           /\ UNCHANGED <<world, socket, session, subscribes, reply, history>>
  <2> HIDE DEF rest
  <2> DEFINE k == GapJob(rest, i, scannedThrough)
  <2>1. k.target = i /\ k.sending = 0 /\ k.cursor = scannedThrough /\ k.pending = job.pending \ {i}
    <3>1. /\ Len(log) \in 0 .. MaxId /\ JobOf(rest, Len(log)) /\ i \in 0 .. Len(log)
          /\ scannedThrough \in 0 .. Len(log)
      BY <1>0, <1>3, <1>4, Shapes
    <3> DEFINE n == Len(log)
    <3> HIDE DEF n, k
    <3>2. n \in 0 .. MaxId /\ JobOf(rest, n) /\ i \in 0 .. n /\ scannedThrough \in 0 .. n
          /\ k = GapJob(rest, i, scannedThrough)
      BY <3>1 DEF n, k
    <3>3. k.target = i /\ k.sending = rest.sending /\ k.cursor = scannedThrough /\ k.pending = rest.pending
      BY <3>2, OpeningGap
    <3> QED
      BY <1>4, <3>3
  <2>8. Continue("read", k)
    BY <1>8
  <2> HIDE DEF k
  <2>2. /\ step' = "read" /\ queue' = queue /\ job'.target = i /\ job'.sending = 0
        /\ job'.cursor = scannedThrough /\ job'.pending = job.pending \ {i}
    BY <2>1, <2>8 DEF Continue
  <2>3. /\ Delivering /\ FramesInv' /\ NothingSkipped'
        /\ UNCHANGED <<log, pruned, unpublished, start, frames, scannedThrough, afterSyncId, groups,
                       bufferedActions, subscribed, phase>>
    BY <1>1, <1>8, QuietSession
  <2> USE Delivers, Shapes
  <2>4. scannedThrough < i
    BY <1>3, <1>8, <2>3
  <2>5. CursorsInv' /\ PageInv'
    <3>1. start <= scannedThrough
      BY <2>3 DEF FramesInv
    <3> QED
      BY <1>3, <2>2, <2>3, <2>4, <3>1 DEF CursorsInv, PageInv, Paging, Sending, Fetching
  <2>6. ASSUME NEW x \in 1 .. Len(log), Remembered(x) \/ ToRead(x)
        PROVE  Remembered(x)'
    BY <1>1, <2>2, <2>3, <2>6 DEF Remembered, ToRead, Fetching, Sending
  <2>7. ToldInv'
    BY <2>3, <2>6, StillTold
  <2> QED
    BY <2>3, <2>5, <2>7 DEF CoreInv
<1>9. CASE /\ i > scannedThrough /\ i <= scannedThrough + 1
           /\ Claim(i, [rest EXCEPT !.target = i])
  <2> HIDE DEF rest
  <2> DEFINE t == [rest EXCEPT !.target = i]
  <2>1. JobOf(t, Len(log)) /\ t.target = i /\ t.pending = job.pending \ {i}
    BY <1>0, <1>3, <1>4, Shapes, ToTarget
  <2>2. Claim(i, t)
    BY <1>9
  <2> HIDE DEF t
  <2>3. /\ scannedThrough' = i /\ queue' = queue /\ Delivering
        /\ step' = IF log[i].to = Everyone THEN "guard" ELSE "authorize"
        /\ job' = [t EXCEPT !.sending = i]
        /\ UNCHANGED <<log, pruned, unpublished, start, frames, afterSyncId, groups,
                       bufferedActions, subscribed>>
    BY <2>2 DEF Claim, Continue, world, history, Delivering
  <2>4. job'.pending = job.pending \ {i} /\ job'.target = i /\ job'.sending = i
    BY <1>0, <1>3, <2>1, <2>3, Shapes, ToSend
  <2> USE Delivers, Shapes
  <2>5. scannedThrough \in Nat /\ step' \in {"guard", "authorize"}
    BY <2>3
  <2>6. FramesInv' /\ NothingSkipped' /\ CursorsInv'
    <3>1. ASSUME NEW x \in 1 .. Len(log), scannedThrough < x, x < i
          PROVE  FALSE
      BY <1>3, <1>9, <2>5, <3>1
    <3>2. scannedThrough < i
      BY <1>3, <1>9, <2>5
    <3> QED
      BY <1>1, <1>3, <2>3, <2>4, <3>1, <3>2, ClaimKeeps
  <2>7. PageInv'
    BY <2>4, <2>5 DEF PageInv, Paging, Sending
  <2>8. ToldInv'
    <3>1. ASSUME NEW x \in 1 .. Len(log), i < x, Remembered(x) \/ ToRead(x)
          PROVE  Remembered(x)'
      BY <1>1, <1>3, <2>3, <2>4, <2>5, <3>1 DEF Remembered, ToRead, Fetching, Sending
    <3>2. i \in Nat /\ scannedThrough <= i
      BY <1>3, <1>9, <2>5
    <3> QED
      BY <2>3, <3>1, <3>2, StillTold
  <2> QED
    BY <2>6, <2>7, <2>8 DEF CoreInv
<1> QED
  BY <1>2, <1>5, <1>6, <1>7, <1>8, <1>9 DEF DeliverBranches

\* The session does not deliver after any other step of a task.
LEMMA EndsDelivery ==
  ASSUME ShapeInv, \/ Abandon \/ BeginSubscribe \/ RejectSubscribe \/ DenyDelivery
  PROVE  ~Delivering'
<1> USE Shapes
<1>1. CASE Abandon
  BY <1>1 DEF Abandon, session, Delivering
<1>2. CASE BeginSubscribe
  BY <1>2 DEF BeginSubscribe, Reset, Delivering
<1>3. CASE RejectSubscribe
  <2>1. phase = "idle" /\ phase' = phase
    BY <1>3 DEF RejectSubscribe, At, PhaseInv, session
  <2> QED
    BY <2>1 DEF Delivering
<1>4. CASE DenyDelivery
  BY <1>4 DEF DenyDelivery, EndSession, Delivering
<1> QED
  BY <1>1, <1>2, <1>3, <1>4

-----------------------------------------------------------------------------
(* Every step keeps the invariant. *)

LEMMA WorkStep ==
  ASSUME SessionInv, Work
  PROVE  SessionInv'
<1>0. ShapeInv
  BY DEF SessionInv
<1>1. CASE Abandon \/ BeginSubscribe \/ RejectSubscribe \/ DenyDelivery
  <2>1. ShapeInv'
    BY <1>0, <1>1, AbandonShape, BeginSubscribeShape, RejectSubscribeShape, DenyDeliveryShape
  <2>2. ~Delivering'
    BY <1>0, <1>1, EndsDelivery
  <2> QED
    BY <2>1, <2>2 DEF SessionInv
<1>2. ASSUME NEW answer \in Access, BeginReplay(answer)
      PROVE  SessionInv'
  BY <1>0, <1>2, BeginReplayShape, BeginReplayCore DEF SessionInv
<1>3. CASE InstallSubscription
  BY <1>0, <1>3, InstallSubscriptionShape, InstallSubscriptionCore DEF SessionInv
<1>4. CASE ReadReplayPage
  BY <1>0, <1>4, ReadReplayPageShape, ReadReplayPageCore DEF SessionInv
<1>5. CASE ReadGapPage
  BY <1>0, <1>5, ReadGapPageShape, ReadGapPageCore DEF SessionInv
<1>6. CASE CheckPage
  BY <1>0, <1>6, CheckPageShape, CheckPageCore DEF SessionInv
<1>7. CASE SendFromPage
  BY <1>0, <1>7, SendFromPageShape, SendFromPageCore DEF SessionInv
<1>8. CASE NextPage
  BY <1>0, <1>8, NextPageShape, NextPageCore DEF SessionInv
<1>9. CASE EndReplay
  BY <1>0, <1>9, EndReplayShape, EndReplayCore DEF SessionInv
<1>10. CASE EndGap
  BY <1>0, <1>10, EndGapShape, EndGapCore DEF SessionInv
<1>11. CASE AuthorizeDelivery
  BY <1>0, <1>11, AuthorizeDeliveryShape, AuthorizeDeliveryCore DEF SessionInv
<1>12. CASE SendFrame
  BY <1>0, <1>12, SendFrameShape, SendFrameCore DEF SessionInv
<1>13. CASE GuardFloor
  BY <1>0, <1>13, GuardFloorShape, GuardFloorCore DEF SessionInv
<1>14. CASE GuardRefreshes
  BY <1>0, <1>14, GuardRefreshesShape, GuardRefreshesCore DEF SessionInv
<1>15. CASE TakeDelta
  BY <1>0, <1>15, TakeDeltaShape, TakeDeltaCore DEF SessionInv
<1>16. CASE DeliverNext
  BY <1>0, <1>16, DeliverNextShape, DeliverNextCore DEF SessionInv
<1>17. CASE EndDelta
  BY <1>0, <1>17, EndDeltaShape, EndDeltaCore DEF SessionInv
<1>18. CASE TakeBuffer
  BY <1>0, <1>18, TakeBufferShape, TakeBufferCore DEF SessionInv
<1>19. CASE Acknowledge
  BY <1>0, <1>19, AcknowledgeShape, AcknowledgeCore DEF SessionInv
<1>20. CASE BeginCatchUp
  BY <1>0, <1>20, BeginCatchUpShape, BeginCatchUpCore DEF SessionInv
<1>21. CASE ListRefreshes
  BY <1>0, <1>21, ListRefreshesShape, ListRefreshesCore DEF SessionInv
<1>22. CASE EndCatchUp
  BY <1>0, <1>22, EndCatchUpShape, EndCatchUpCore DEF SessionInv
<1>23. CASE ReadFails
  BY <1>0, <1>23, ReadFailsShape, ReadFailsCore DEF SessionInv
<1> QED
  BY <1>1, <1>2, <1>3, <1>4, <1>5, <1>6, <1>7, <1>8, <1>9, <1>10, <1>11, <1>12, <1>13,
     <1>14, <1>15, <1>16, <1>17, <1>18, <1>19, <1>20, <1>21, <1>22, <1>23 DEF Work

LEMMA QuietStep ==
  ASSUME SessionInv, UNCHANGED vars
  PROVE  SessionInv'
<1>1. /\ UNCHANGED <<config, log, pruned, unpublished, granted, socket, phase, groups>>
      /\ UNCHANGED <<afterSyncId, scannedThrough, groupRefreshCursor, bufferedActions, subscribed>>
      /\ UNCHANGED <<queue, step, job, subscribes, reply, start, frames>>
  BY DEF vars, world, session, history
<1>2. ShapeInv'
  BY <1>1 DEF SessionInv, ShapeInv, TypesInv, TypeOK, StepsInv, PhaseInv
<1>3. ASSUME Delivering'
      PROVE  CoreInv'
  BY <1>1, <1>2, <1>3, QuietWorldCore DEF session, history
<1> QED
  BY <1>2, <1>3 DEF SessionInv

\* The inductive invariant of client-session.ts: in whatever order the replay, the
\* buffer, the gap fill, retention, access and notifications come, the cursors, the
\* page in hand and what the tasks remember agree on what was sent and what is owed.
THEOREM SessionInvAlways == Spec => []SessionInv
<1>1. Init => SessionInv
  BY ShapeStarts DEF SessionInv, Init, Delivering
<1>2. SessionInv /\ [Next]_vars => SessionInv'
  BY WorldStep, WorkStep, QuietStep DEF Next
<1> QED
  BY <1>1, <1>2, PTL DEF Spec

\* Every variable of a session keeps its type.
THEOREM SessionTypesAlways == Spec => []TypeOK
<1>1. SessionInv => TypeOK
  BY Shapes DEF SessionInv
<1> QED
  BY <1>1, SessionInvAlways, PTL

\* scannedThrough of client-session.ts keeps its promise: every committed id at or
\* below it that the session may see was sent, or is the one being sent.
THEOREM NothingIsSkipped == Spec => []NothingSkipped
<1>1. SessionInv => NothingSkipped
  BY DEF SessionInv, CoreInv, NothingSkipped
<1> QED
  BY <1>1, SessionInvAlways, PTL

\* The handover from replay to live loses nothing this process was told of.
THEOREM NothingPublishedIsEverMissed == Spec => []NothingPublishedIsMissed
<1>1. SessionInv => NothingPublishedIsMissed
  <2> SUFFICES ASSUME SessionInv, Delivering, phase = "live", queue = <<>>,
                      NEW i \in (start + 1 .. Len(log)) \ unpublished, Overlaps(groups, i)
               PROVE  i <= scannedThrough \/ (start = 0 /\ i <= pruned)
    BY DEF NothingPublishedIsMissed
  <2> USE Delivers, Shapes
  <2>1. step = "start" /\ subscribed /\ bufferedActions = {}
    BY DEF StepsInv, PhaseInv
  <2>2. ~Remembered(i) /\ ~ToRead(i)
    <3>1. Len(queue) = 0
      OBVIOUS
    <3> QED
      BY <2>1, <3>1 DEF Remembered, ToRead, Fetching, Sending
  <2>3. CASE scannedThrough < i
    <3>1. i \in scannedThrough + 1 .. Len(log)
      BY <2>3
    <3> QED
      BY <2>1, <2>2, <3>1 DEF ToldInv
  <2> QED
    BY <2>3
<1> QED
  BY <1>1, SessionInvAlways, PTL

-----------------------------------------------------------------------------
(* The session implements LogReader. *)

\* A step that touches neither the log nor the frames narrows the groups at most.
LEMMA ReaderNarrows ==
  ASSUME UNCHANGED <<log, pruned, start, frames>>, groups' \subseteq groups
  PROVE  Reader!Next
<1> QED
  BY DEF Reader!Next, Reader!Narrow

LEMMA EmitDelivers ==
  ASSUME SessionInv, NEW c, Emit(c), At(step), step \in {"guard", "refreshes"}
  PROVE  [Reader!Next]_(Reader!vars)
<1>0. ShapeInv
  BY DEF SessionInv
<1>1. UNCHANGED <<log, pruned, start>> /\ groups' \subseteq groups
  BY DEF Emit, world
<1>2. CASE socket # "open"
  <2>1. UNCHANGED frames
    BY <1>2 DEF Emit
  <2> QED
    BY <1>1, <2>1, ReaderNarrows
<1>3. CASE socket = "open"
  <2>1. Delivering
    BY <1>0, <1>3, Shapes DEF Delivering, PhaseInv, At, Fetching, Sending
  <2>2. frames' = Append(frames, job.sending)
    BY <1>3 DEF Emit
  <2> USE <2>1, Delivers, Shapes
  <2>3. /\ job.sending = scannedThrough /\ start < scannedThrough
        /\ \A f \in Sent : f < scannedThrough
        /\ Overlaps(groups, job.sending)
    BY DEF CursorsInv, Sending
  <2>4. /\ frames \in Seq(1 .. Len(log)) /\ Len(frames) \in Nat
        /\ scannedThrough \in 1 .. Len(log)
    <3>1. frames \in Seq(1 .. Len(log))
      BY <1>0 DEF TypeOK
    <3> QED
      BY <1>0, <2>3, <3>1
  <2> DEFINE p == IF frames = <<>> THEN start ELSE frames[Len(frames)]
  <2>5. /\ p \in 0 .. Len(log) /\ start <= p /\ p < scannedThrough
        /\ \A f \in Sent : f <= p
        /\ frames # <<>> => p \in Sent
    <3>1. CASE frames = <<>>
      BY <1>0, <2>3, <3>1 DEF Sent
    <3>2. CASE frames # <<>>
      <4>1. Len(frames) \in 1 .. Len(frames)
        BY <2>4, <3>2
      <4>2. p \in Sent /\ p \in 1 .. Len(log)
        BY <2>4, <3>2, <4>1 DEF Sent
      <4>3. ASSUME NEW f \in Sent
            PROVE  f <= p
        <5>1. PICK n \in 1 .. Len(frames) : f = frames[n]
          BY <4>3 DEF Sent
        <5>2. frames[n] \in 1 .. Len(log)
          BY <2>4
        <5>3. n < Len(frames) \/ n = Len(frames)
          BY <2>4
        <5>4. n < Len(frames) => frames[n] < frames[Len(frames)]
          BY <4>1 DEF FramesInv
        <5> QED
          BY <3>2, <4>2, <5>1, <5>2, <5>3, <5>4
      <4> QED
        BY <2>3, <3>2, <4>2, <4>3 DEF FramesInv
    <3> QED
      BY <3>1, <3>2
  <2> HIDE DEF p
  <2>6. PICK i \in p + 1 .. Len(log) : i = scannedThrough
    BY <2>4, <2>5
  <2>7. ASSUME NEW j \in p + 1 .. i - 1, Overlaps(groups, j)
        PROVE  start = 0 /\ frames = <<>> /\ j <= pruned
    <3>1. j \in start + 1 .. scannedThrough /\ p < j /\ j # scannedThrough
      BY <2>5, <2>6
    <3>2. j \in Sent \cup {job.sending} \/ Excused(j)
      BY <2>7, <3>1
    <3>3. j \notin Sent
      BY <2>5, <3>1
    <3>4. Excused(j)
      BY <2>3, <3>1, <3>2, <3>3
    <3>5. p \notin Sent
      BY <2>5, <3>1, <3>4 DEF Excused
    <3> QED
      BY <2>5, <3>4, <3>5 DEF Excused
  <2>8. Reader!Position = p
    BY DEF Reader!Position, p
  <2>9. Reader!Deliver(i)
    <3>1. Reader!Wanted(i)
      BY <2>3, <2>6 DEF Reader!Wanted, Overlaps
    <3>2. \A j \in Reader!Position + 1 .. i - 1 : Reader!Wanted(j) => ~Reader!Missing(j)
      BY <2>7, <2>8 DEF Reader!Wanted, Reader!Missing, Overlaps
    <3> QED
      BY <1>1, <2>2, <2>3, <2>6, <3>1, <3>2 DEF Reader!Deliver
  <2> QED
    BY <2>6, <2>8, <2>9 DEF Reader!Next
<1> QED
  BY <1>2, <1>3

LEMMA WorldReads ==
  ASSUME SessionInv, World
  PROVE  [Reader!Next]_(Reader!vars)
<1>1. ASSUME NEW e \in Entries, Commit(e)
      PROVE  Reader!Next
  BY <1>1 DEF Commit, session, history, Reader!Next, Reader!Commit
<1>2. ASSUME NEW n \in pruned + 1 .. Len(log), Prune(n)
      PROVE  Reader!Next
  BY <1>2 DEF Prune, session, history, Reader!Next, Reader!Prune
<1>3. CASE /\ \/ \E a \in Access : ChangeAccess(a)
              \/ \E after \in 0 .. Len(log), r \in Requests : ReceiveSubscribe(after, r)
              \/ Tick \/ SocketCloses \/ \E i \in unpublished : Publish(i)
  <2>1. UNCHANGED <<log, pruned, start, frames, groups>>
    BY <1>3 DEF ChangeAccess, ReceiveSubscribe, Tick, SocketCloses, Publish, OnLiveDelta,
                EndSession, world, session, history
  <2> QED
    BY <2>1, ReaderNarrows
<1> QED
  BY <1>1, <1>2, <1>3 DEF World

LEMMA WorkReads ==
  ASSUME SessionInv, Work
  PROVE  [Reader!Next]_(Reader!vars)
<1>0. ShapeInv
  BY DEF SessionInv
<1>1. ASSUME NEW answer \in Access, BeginReplay(answer)
      PROVE  [Reader!Next]_(Reader!vars)
  <2>1. UNCHANGED <<log, pruned>> /\ At("authenticate")
    BY <1>1 DEF BeginReplay, world
  <2>2. CASE UNCHANGED <<session, history>>
    BY <2>1, <2>2, ReaderNarrows DEF session, history
  <2>3. CASE ~UNCHANGED <<session, history>>
    <3>1. /\ groups' = Head(queue).groups \cap answer /\ start' = Head(queue).after /\ frames' = <<>>
      BY <1>1, <2>3 DEF BeginReplay
    <3>2. Head(queue).kind = "subscribe" /\ TaskOf(Head(queue), Len(log)) /\ Head(queue) \in Task
      BY <1>0, <2>1, Shapes DEF StepsInv, At
    <3>3. Head(queue).after \in 0 .. Len(log)
      BY <1>0, <3>2, Shapes, TaskTypes DEF TaskOf, Cursors
    <3>4. groups' \in SUBSET Groups
      BY <3>1, <3>2, TaskTypes
    <3> QED
      BY <2>1, <3>1, <3>3, <3>4 DEF Reader!Next, Reader!Subscribe
  <2> QED
    BY <2>2, <2>3
<1>2. CASE Abandon \/ BeginSubscribe \/ RejectSubscribe \/ InstallSubscription
  <2>1. UNCHANGED <<log, pruned, start, frames>> /\ groups' \subseteq groups
    BY <1>2 DEF Abandon, BeginSubscribe, RejectSubscribe, InstallSubscription, Reset,
                world, session, history
  <2> QED
    BY <2>1, ReaderNarrows
<1>3. CASE ReadReplayPage \/ ReadGapPage \/ CheckPage \/ NextPage \/ EndReplay
  <2>1. UNCHANGED <<log, pruned, start, frames>> /\ groups' \subseteq groups
    BY <1>3 DEF ReadReplayPage, ReadGapPage, CheckPage, NextPage, EndReplay, RequireBootstrap,
                EndSession, Reset, world, session, history
  <2> QED
    BY <2>1, ReaderNarrows
<1>4. CASE SendFromPage \/ EndGap \/ DenyDelivery \/ AuthorizeDelivery \/ GuardFloor
  <2>1. UNCHANGED <<log, pruned, start, frames>> /\ groups' \subseteq groups
    BY <1>4 DEF SendFromPage, EndGap, Claim, DenyDelivery, AuthorizeDelivery, GuardFloor,
                RequireBootstrap, EndSession, world, session, history
  <2> QED
    BY <2>1, ReaderNarrows
<1>5. CASE SendFrame
  BY <1>5, EmitDelivers DEF SendFrame, At
<1>6. CASE GuardRefreshes
  <2>1. CASE RequireBootstrap
    BY <2>1, ReaderNarrows DEF RequireBootstrap, EndSession, world, history
  <2>2. CASE Emit(job.sending)
    BY <1>6, <2>2, EmitDelivers DEF GuardRefreshes, At
  <2> QED
    BY <1>6, <2>1, <2>2 DEF GuardRefreshes
<1>7. CASE TakeDelta \/ DeliverNext \/ EndDelta \/ TakeBuffer \/ Acknowledge
  <2>1. UNCHANGED <<log, pruned, start, frames>> /\ groups' \subseteq groups
    BY <1>7 DEF TakeDelta, DeliverNext, EndDelta, TakeBuffer, Acknowledge, Claim,
                RequireBootstrap, EndSession, world, session, history
  <2> QED
    BY <2>1, ReaderNarrows
<1>8. CASE BeginCatchUp \/ ListRefreshes \/ EndCatchUp \/ ReadFails
  <2>1. UNCHANGED <<log, pruned, start, frames>> /\ groups' \subseteq groups
    BY <1>8 DEF BeginCatchUp, ListRefreshes, EndCatchUp, ReadFails,
                RequireBootstrap, EndSession, Reset, world, session, history
  <2> QED
    BY <2>1, ReaderNarrows
<1> QED
  BY <1>1, <1>2, <1>3, <1>4, <1>5, <1>6, <1>7, <1>8 DEF Work

\* The session implements LogReader: however it replays, buffers, fills gaps, narrows
\* and starts again, its frames are the committed log without a gap, from where the
\* client subscribed.
THEOREM FramesReadTheLog == Spec => ReadsTheLog
<1>1. Init => Reader!Init
  BY DEF Init, Reader!Init
<1>2. SessionInv /\ [Next]_vars => [Reader!Next]_(Reader!vars)
  <2>1. ASSUME UNCHANGED vars
        PROVE  UNCHANGED Reader!vars
    BY <2>1 DEF vars, world, session, history, Reader!vars
  <2> QED
    BY <2>1, WorldReads, WorkReads DEF Next
<1> QED
  BY <1>1, <1>2, SessionInvAlways, PTL DEF Spec, ReadsTheLog, Reader!Spec

================================================================================
