--------------------------- MODULE MutateService ---------------------------
(***************************************************************************)
(* The server's mutate route over Postgres.  Requests run concurrently,    *)
(* each the transactions of its batch one after another, each transaction  *)
(* in a database transaction at READ COMMITTED: load the target row and    *)
(* check its group, write the row, append a sync action under an advisory  *)
(* lock held to the commit.  A write that is already in the log is         *)
(* answered with its id: found before the transaction begins, or told by   *)
(* the log's unique index when two requests carry the same write.          *)
(*                                                                         *)
(* The database is modelled by what its locks let happen: a written row is *)
(* locked until its transaction ends, a statement sees what is committed   *)
(* when it runs, and a sequence gives out ids that a rollback does not     *)
(* take back.  Rows carry their sync group and the write that made them.   *)
(***************************************************************************)
EXTENDS Naturals, Sequences, FiniteSets, SequencesExt

CONSTANTS
    Rows,       \* the ids of one model's rows
    Groups,     \* sync groups
    Scenarios   \* what is in the table and what the clients send

Absent == <<>>
NoGroup == "none"

\* A write of a client: its (clientId, clientTxId), the row, the action, the
\* group in the payload of an insert, and whether the row's model opens a group
\* with an insert (insertCreatesGroup).
ClientWrites ==
    [tx : Nat \ {0}, row : Rows, act : {"I", "U", "D"}, group : Groups, opens : BOOLEAN]

\* seed: the group of each row there is at the start, or NoGroup.  groups: what the user is
\* a member of.  requests: the batches sent, in no order; a batch sent twice is
\* a retry and its original.  failures, unknown: how many statements fail, and
\* whether the answer to a COMMIT may get lost.
IsTraffic(s) ==
    /\ s.seed \in [Rows -> Groups \cup {NoGroup}] /\ s.groups \subseteq Groups
    /\ \A r \in DOMAIN s.requests : s.requests[r] \in Seq(ClientWrites) \ {<<>>}
    /\ s.failures \in Nat /\ s.unknown \in BOOLEAN

VARIABLES
    scenario,
    table,      \* the committed rows
    log,        \* sync_actions, as committed
    sequence,   \* the last id given out
    members,    \* sync_group_memberships of the user
    work,       \* each request's place in processTransaction, and its locals
    answers,    \* the results of each request so far
    failures    \* statements that failed so far

database == <<table, log, members>>
mutateVars == <<scenario, table, log, sequence, members, work, answers, failures>>

Requests == DOMAIN scenario.requests

-----------------------------------------------------------------------------
(* The database. *)

Entries == ToSet(log)
Logged(tx) == \E e \in Entries : e.tx = tx
IdOf(tx) == (CHOOSE e \in Entries : e.tx = tx).id
LastId == IF log = <<>> THEN 0 ELSE Last(log).id

\* What an action makes of a row; its data is the write it came from, and an
\* update carries the changed fields only.
Written(row, act, group, tx) ==
    CASE act = "I" -> [group |-> group, by |-> tx]
      [] act = "U" -> IF row = Absent THEN Absent ELSE [row EXCEPT !.by = tx]
      [] act = "D" -> Absent

Seeded == [k \in Rows |-> IF scenario.seed[k] = NoGroup THEN Absent
                          ELSE [group |-> scenario.seed[k], by |-> 0]]

-----------------------------------------------------------------------------
(* A request. *)

Stage(at, n, groups) ==
    [at |-> at, n |-> n, groups |-> groups, group |-> NoGroup, granted |-> NoGroup,
     row |-> Absent, id |-> 0]
Doing(r) == scenario.requests[r][work[r].n]
At(r, place) == r \in Requests /\ work[r].at = place
Goes(r, place) == work' = [work EXCEPT ![r].at = place]

\* A transaction that has written its row holds it, and one that has appended
\* to the log holds the advisory lock, until it commits or rolls back.
HoldsRow(r, k) == work[r].at \in {"written", "appended"} /\ Doing(r).row = k
RowIsFree(r) == \A q \in Requests \ {r} : ~HoldsRow(q, Doing(r).row)
\* Mutant: no advisory lock, as many appends at a time as there are requests.
OrderNotLocked(r) == TRUE
OrderIsFree(r) == \A q \in Requests \ {r} : work[q].at # "appended"

\* The result of a transaction; the batch goes on with the next whatever it is.
Answers(r, ok, id, unknown) ==
    answers' = [answers EXCEPT ![r] =
                    Append(@, [tx |-> Doing(r).tx, ok |-> ok, id |-> id, unknown |-> unknown])]
GoesOn(r, groups) ==
    LET n == work[r].n IN
    work' = [work EXCEPT ![r] = IF n = Len(scenario.requests[r]) THEN Stage("answered", n, groups)
                                ELSE Stage("find", n + 1, groups)]
Result(r, ok, id, unknown) == Answers(r, ok, id, unknown) /\ GoesOn(r, work[r].groups)
Refuse(r) == Result(r, FALSE, 0, FALSE)

\* The batch works on a copy of the groups the request was authorized with.
Receive(r) ==
    /\ At(r, "sent")
    /\ work' = [work EXCEPT ![r].at = "find", ![r].groups = members]
    /\ UNCHANGED <<scenario, database, sequence, answers, failures>>

FindDuplicate(r) ==
    /\ At(r, "find")
    /\ IF Logged(Doing(r).tx) THEN Result(r, TRUE, IdOf(Doing(r).tx), FALSE)
       ELSE Goes(r, "begun") /\ UNCHANGED answers
    /\ UNCHANGED <<scenario, database, sequence, failures>>

\* The row an update or delete targets must be there.  Its group, or the
\* payload's for an insert, must be one the batch may write to; an insert that
\* opens its group is given the membership instead.
TargetIsThere(t) == t.act = "I" \/ table[t.row] # Absent
GroupOf(t) == IF t.act = "I" THEN t.group ELSE table[t.row].group
OpensGroup(r, t) == t.act = "I" /\ t.opens /\ t.group \notin work[r].groups
\* Mutant: the groups are widened when the membership is written.
LoadTargetWidens(r) ==
    /\ At(r, "begun")
    /\ LET t == Doing(r) IN
       IF TargetIsThere(t) /\ (OpensGroup(r, t) \/ GroupOf(t) \in work[r].groups)
       THEN /\ work' = [work EXCEPT ![r].at = "loaded", ![r].group = GroupOf(t),
                                    ![r].groups = @ \cup {GroupOf(t)},
                                    ![r].granted = IF OpensGroup(r, t) THEN t.group ELSE NoGroup]
            /\ UNCHANGED answers
       ELSE Refuse(r)
    /\ UNCHANGED <<scenario, database, sequence, failures>>

LoadTarget(r) ==
    /\ At(r, "begun")
    /\ LET t == Doing(r) IN
       IF TargetIsThere(t) /\ (OpensGroup(r, t) \/ GroupOf(t) \in work[r].groups)
       THEN /\ work' = [work EXCEPT ![r].at = "loaded", ![r].group = GroupOf(t),
                                    ![r].granted = IF OpensGroup(r, t) THEN t.group ELSE NoGroup]
            /\ UNCHANGED answers
       ELSE Refuse(r)
    /\ UNCHANGED <<scenario, database, sequence, failures>>

\* The write waits for the row's lock and then finds what is committed: an
\* insert a primary key that is taken, an update or delete no row to affect.
CanWrite(t) == (t.act = "I") <=> (table[t.row] = Absent)
ApplyMutation(r) ==
    /\ At(r, "loaded") /\ RowIsFree(r)
    /\ LET t == Doing(r) IN
       IF CanWrite(t)
       THEN /\ work' = [work EXCEPT ![r].at = "written",
                                    ![r].row = Written(table[t.row], t.act, work[r].group, t.tx)]
            /\ UNCHANGED answers
       ELSE Refuse(r)
    /\ UNCHANGED <<scenario, database, sequence, failures>>

\* Mutant: the log has no unique index.
CreateSyncActionTwice(r) ==
    /\ At(r, "written") /\ OrderIsFree(r)
    /\ sequence' = sequence + 1
    /\ work' = [work EXCEPT ![r].at = "appended", ![r].id = sequence + 1]
    /\ UNCHANGED <<scenario, database, answers, failures>>

\* The id is taken under the advisory lock.  A write that is in the log by now
\* violates the unique index: the transaction is rolled back.
CreateSyncAction(r) ==
    /\ At(r, "written") /\ OrderIsFree(r)
    /\ sequence' = sequence + 1
    /\ IF Logged(Doing(r).tx) THEN Goes(r, "lost")
       ELSE work' = [work EXCEPT ![r].at = "appended", ![r].id = sequence + 1]
    /\ UNCHANGED <<scenario, database, answers, failures>>

Commits(r) ==
    LET t == Doing(r) IN
    /\ At(r, "appended")
    /\ table' = [table EXCEPT ![t.row] = work[r].row]
    /\ log' = Append(log, [id |-> work[r].id, tx |-> t.tx, act |-> t.act,
                           row |-> t.row, group |-> work[r].group])
    /\ members' = members \cup ({work[r].granted} \ {NoGroup})
    /\ UNCHANGED <<scenario, sequence>>
Commit(r) == Commits(r) /\ Goes(r, "committed") /\ UNCHANGED <<answers, failures>>

\* The action is published and the batch's groups widened when the commit is
\* known to have happened, before anything else is awaited.
Acknowledge(r) ==
    /\ At(r, "committed")
    /\ Answers(r, TRUE, work[r].id, FALSE)
    /\ GoesOn(r, work[r].groups \cup ({work[r].granted} \ {NoGroup}))
    /\ UNCHANGED <<scenario, database, sequence, failures>>

\* Mutant: the driver's error is not recognised as the unique index's.
FindNoWinner(r) ==
    /\ At(r, "lost") /\ Refuse(r)
    /\ UNCHANGED <<scenario, database, sequence, failures>>

FindWinner(r) ==
    /\ At(r, "lost")
    /\ IF Logged(Doing(r).tx) THEN Result(r, TRUE, IdOf(Doing(r).tx), FALSE) ELSE Refuse(r)
    /\ UNCHANGED <<scenario, database, sequence, failures>>

\* A statement fails, for whatever reason: rolled back, and answered as refused.
StatementFails(r) ==
    /\ r \in Requests /\ work[r].at \in {"find", "begun", "loaded", "written", "appended", "lost"}
    /\ failures < scenario.failures /\ failures' = failures + 1
    /\ Refuse(r)
    /\ UNCHANGED <<scenario, database, sequence>>

\* The transaction commits but its connection is lost before it says so.
CommitIsUnknown(r) ==
    /\ scenario.unknown /\ failures < scenario.failures /\ failures' = failures + 1
    /\ Commits(r) /\ Result(r, FALSE, 0, TRUE)

AllAnswered == \A r \in Requests : work[r].at = "answered"

MutateInit ==
    /\ scenario \in Scenarios /\ table = Seeded /\ log = <<>> /\ sequence = 0
    /\ members = scenario.groups /\ work = [r \in Requests |-> Stage("sent", 1, {})]
    /\ answers = [r \in Requests |-> <<>>] /\ failures = 0

Handles(r) ==
    \/ Receive(r) \/ FindDuplicate(r) \/ LoadTarget(r) \/ ApplyMutation(r)
    \/ CreateSyncAction(r) \/ Commit(r) \/ Acknowledge(r) \/ FindWinner(r)
    \/ StatementFails(r) \/ CommitIsUnknown(r)
-----------------------------------------------------------------------------
(* What the service promises. *)

\* However often a write is sent, and by however many requests at a time, it is
\* applied once.
AppliedOnce == \A i, j \in DOMAIN log : i # j => log[i].tx # log[j].tx

\* A write reported as done is in the log under the id reported; one reported
\* as refused was not applied, by this request or another that carries it,
\* unless the answer to its COMMIT was lost.
DoneIsLogged ==
    \A r \in Requests : \A i \in DOMAIN answers[r] :
        LET a == answers[r][i] IN a.ok => \E e \in Entries : e.tx = a.tx /\ e.id = a.id
RefusedIsNotApplied ==
    \A r \in Requests : \A i \in DOMAIN answers[r] :
        LET a == answers[r][i] IN ~a.ok => a.unknown \/ ~Logged(a.tx)
AnswersAreTrue == DoneIsLogged /\ RefusedIsNotApplied

\* "A rolled-back insert widens nothing": the groups a batch may write to are
\* memberships that have been committed.
GrantsAreCommitted == \A r \in Requests : work[r].groups \subseteq members
=============================================================================
