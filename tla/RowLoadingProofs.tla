-------------------------- MODULE RowLoadingProofs --------------------------
(***************************************************************************)
(* Proofs about MutateService and RowLoading for every table, every batch, *)
(* every number of requests and every size of page and buffer: a write is  *)
(* applied once, ids become visible in order, what is reported as done is  *)
(* done, a rolled back insert widens nothing, and the rows of a model that *)
(* is bootstrapped are those of the client's cursor.                       *)
(***************************************************************************)
EXTENDS RowLoading, ListsProofs

-----------------------------------------------------------------------------
(* The invariant of the service. *)

Group == Groups \cup {NoGroup}
Row == [group : Group, by : Nat]
Entry == [id : Nat, tx : Nat \ {0}, act : {"I", "U", "D"}, row : Rows, group : Group]
Answer == [tx : Nat \ {0}, ok : BOOLEAN, id : Nat, unknown : BOOLEAN]
Places == {"sent", "find", "begun", "loaded", "written", "appended", "committed", "lost", "answered"}
Work ==
    [at : Places,
     n : Nat, groups : SUBSET Groups, group : Group, granted : Group,
     row : Row \cup {Absent}, id : Nat]

ServiceTypeOK ==
    /\ scenario \in Scenarios
    /\ table \in [Rows -> Row \cup {Absent}]
    /\ log \in Seq(Entry) /\ sequence \in Nat /\ failures \in Nat
    /\ members \in SUBSET Groups
    /\ work \in [Requests -> Work] /\ \A r \in Requests : work[r].n \in DOMAIN scenario.requests[r]
    /\ answers \in [Requests -> Seq(Answer)]

\* The ids in the log increase, and none is above the sequence.
IdsInOrder ==
    /\ \A i, j \in DOMAIN log : i < j => log[i].id < log[j].id
    /\ \A i \in DOMAIN log : log[i].id <= sequence

\* An append that is not committed is the only one, of a write that is not in the
\* log, under an id above all there are: what the advisory lock and the index are for.
AppendIsNext ==
    \A r \in Requests : work[r].at = "appended" =>
        /\ OrderIsFree(r)
        /\ ~Logged(Doing(r).tx)
        /\ \A i \in DOMAIN log : log[i].id < work[r].id
        /\ work[r].id \in 1 .. sequence

\* What was committed and is not answered yet.
CommittedIsLogged ==
    \A r \in Requests : work[r].at = "committed" =>
        /\ \E e \in Entries : e.tx = Doing(r).tx /\ e.id = work[r].id
        /\ {work[r].granted} \ {NoGroup} \subseteq members

ServiceInv ==
    /\ ServiceTypeOK /\ IdsInOrder /\ AppendIsNext /\ CommittedIsLogged
    /\ AppliedOnce /\ DoneIsLogged /\ GrantsAreCommitted

-----------------------------------------------------------------------------
(* The invariant of the rows. *)

Line == [row : Rows, by : Nat]
StreamType ==
    [at : {"page", "rows", "ended"}, kind : {"bootstrap", "load"}, wanted : SUBSET Rows, since : Nat,
     last : Seq(Nat), rest : Seq(Line), short : BOOLEAN]

ReadTypeOK ==
    /\ stream \in StreamType \cup {NoStream} /\ wire \in Seq(Line)
    /\ store \in [Rows -> [by : Nat] \cup {Absent}]
    /\ cursor \in Nat /\ firstId \in Nat /\ booted \in BOOLEAN /\ asked \in 0 .. Len(scenario.loads)

\* A transaction that has written its row has it to itself, and the row is as it found it.
RowsAreLocked ==
    \A r \in Requests : work[r].at \in {"written", "appended"} =>
        /\ RowIsFree(r)
        /\ CanWrite(Doing(r))
        /\ work[r].row = Written(table[Doing(r).row], Doing(r).act, work[r].group, Doing(r).tx)

\* The table is what the log made of it.
TableIsOfLog ==
    \A k \in Rows : WritersAt(k, sequence) = IF table[k] = Absent THEN {} ELSE {table[k].by}

\* An id a reader has come to: what is committed later is above it.
Seen(id) == id = 0 \/ \E i \in DOMAIN log : log[i].id = id
Untouched(k, id) == \A i \in DOMAIN log : log[i].row = k => log[i].id <= id

\* Which stream runs when, and from which id it filters.
WindowInv ==
    /\ Seen(cursor) /\ Seen(firstId) /\ firstId <= cursor
    /\ ~booted /\ stream = NoStream => wire = <<>>
    /\ ~booted => asked = 0
    /\ booted /\ stream = NoStream => wire = <<>>
    /\ booted /\ ~scenario.lazy => stream = NoStream
    /\ stream # NoStream =>
        /\ Seen(stream.since)
        /\ stream.kind = "bootstrap" <=> ~booted
        /\ booted => stream.since = firstId
        /\ ~booted => stream.wanted = IF scenario.lazy THEN {} ELSE Rows

\* What was read is the row as of the window's start, unless it was touched
\* since; and what was sent is, whatever happened to the row after that.
LinesInv ==
    stream # NoStream =>
        /\ \A line \in ToSet(stream.rest) :
              Untouched(line.row, stream.since) => line.by \in WritersAt(line.row, stream.since)
        /\ \A line \in ToSet(wire) : line.by \in WritersAt(line.row, stream.since)

\* What is stored is as of the cursor, or of the window's start if nobody
\* touched the row since.
StoreInv ==
    /\ RowsAreOfTheCursor
    /\ booted => \A k \in Rows :
        store[k] # Absent /\ Untouched(k, firstId) => store[k].by \in WritersAt(k, firstId)

\* A row that is there and untouched is still to come or has arrived.
Arrived(k) == (\E line \in ToSet(wire) : line.row = k) \/ (booted /\ store[k] # Absent)
Unread(k) == stream.last = NoCursor \/ After(k, stream.last)
Coming(k) ==
    \/ stream.at = "page" /\ Unread(k)
    \/ stream.at = "rows" /\ \E line \in ToSet(stream.rest) : line.row = k
    \/ stream.at = "rows" /\ ~stream.short /\ Unread(k)
ArrivalInv ==
    /\ stream # NoStream => \A k \in stream.wanted :
          Untouched(k, stream.since) /\ WritersAt(k, stream.since) # {} => Coming(k) \/ Arrived(k)
    /\ booted => \A k \in AskedFor :
          /\ Untouched(k, firstId) /\ WritersAt(k, firstId) # {}
          /\ ~(stream # NoStream /\ k \in stream.wanted)
          => Arrived(k)

RowsInv == /\ ReadTypeOK /\ RowsAreLocked /\ TableIsOfLog
           /\ WindowInv /\ LinesInv /\ StoreInv /\ ArrivalInv

-----------------------------------------------------------------------------
(* Lemmas about the model's operators. *)

\* What a request works at is a write of its batch.
LEMMA DoingType ==
  ASSUME ServiceTypeOK, NEW r \in Requests
  PROVE  Doing(r) \in ClientWrites
<1>1. scenario.requests[r] \in Seq(ClientWrites) \ {<<>>}
  BY ScenariosAssumption DEF ServiceTypeOK, IsTraffic, Requests
<1> QED
  BY <1>1, ElementOfSeq DEF ServiceTypeOK, Doing

LEMMA EntryIds ==
  ASSUME ServiceTypeOK
  PROVE  \A i \in DOMAIN log : log[i] \in Entry /\ log[i].id \in Nat
<1>1. \A i \in DOMAIN log : log[i] \in Entry
  BY DEF ServiceTypeOK
<1> QED
  BY <1>1 DEF Entry

\* What an action makes of a row.
LEMMA WrittenType ==
  ASSUME NEW row \in Row \cup {Absent}, NEW act \in {"I", "U", "D"}, NEW group \in Group, NEW tx \in Nat
  PROVE  Written(row, act, group, tx) \in Row \cup {Absent}
BY DEF Written, Row

\* A batch goes on with its next write, or is answered.
LEMMA GoingOn ==
  ASSUME ServiceTypeOK, NEW r \in Requests, NEW groups \in SUBSET Groups, GoesOn(r, groups),
         scenario' = scenario
  PROVE  /\ work' \in [Requests -> Work]
         /\ \A q \in Requests : work'[q].n \in DOMAIN scenario.requests[q]
         /\ \A q \in Requests \ {r} : work'[q] = work[q]
         /\ work'[r].at \in {"find", "answered"} /\ work'[r].groups = groups
<1>1. scenario.requests[r] \in Seq(ClientWrites) \ {<<>>}
  BY ScenariosAssumption DEF ServiceTypeOK, IsTraffic, Requests
<1>2. work \in [Requests -> Work] /\ work[r].n \in DOMAIN scenario.requests[r]
  BY DEF ServiceTypeOK
<1>3. /\ DOMAIN scenario.requests[r] = 1 .. Len(scenario.requests[r])
      /\ Len(scenario.requests[r]) \in Nat /\ work[r].n \in Nat
  BY <1>1, <1>2 DEF Work
<1> DEFINE n == work[r].n
           next == IF n = Len(scenario.requests[r]) THEN Stage("answered", n, groups)
                   ELSE Stage("find", n + 1, groups)
<1>4. work' = [work EXCEPT ![r] = next]
  BY DEF GoesOn
<1>5. ASSUME NEW m \in DOMAIN scenario.requests[r], NEW at \in {"find", "answered"}
      PROVE  Stage(at, m, groups) \in Work
  BY <1>3 DEF Stage, Work, Group, Places
<1>6. /\ next \in Work /\ next.n \in DOMAIN scenario.requests[r]
      /\ next.at \in {"find", "answered"} /\ next.groups = groups
  <2>1. CASE n = Len(scenario.requests[r])
    BY <1>2, <1>5, <2>1 DEF Stage
  <2>2. CASE n # Len(scenario.requests[r])
    <3>1. n + 1 \in DOMAIN scenario.requests[r]
      BY <1>2, <1>3, <2>2
    <3> QED
      BY <1>5, <2>2, <3>1 DEF Stage
  <2> QED
    BY <2>1, <2>2
<1> HIDE DEF next
<1> QED
  BY <1>2, <1>4, <1>6 DEF ServiceTypeOK

\* The result of a write is appended to those of the batch.
LEMMA Answering ==
  ASSUME ServiceTypeOK, NEW r \in Requests, NEW ok \in BOOLEAN, NEW id \in Nat,
         NEW unknown \in BOOLEAN, Answers(r, ok, id, unknown)
  PROVE  /\ answers' \in [Requests -> Seq(Answer)]
         /\ \A q \in Requests : \A i \in DOMAIN answers'[q] :
               \/ i \in DOMAIN answers[q] /\ answers'[q][i] = answers[q][i]
               \/ q = r /\ answers'[q][i] = [tx |-> Doing(r).tx, ok |-> ok, id |-> id, unknown |-> unknown]
<1> DEFINE answer == [tx |-> Doing(r).tx, ok |-> ok, id |-> id, unknown |-> unknown]
<1>1. answer \in Answer
  BY DoingType DEF ClientWrites, Answer
<1>2. answers' = [answers EXCEPT ![r] = Append(@, answer)]
  BY DEF Answers
<1> HIDE DEF answer
<1>3. answers \in [Requests -> Seq(Answer)]
  BY DEF ServiceTypeOK
<1>4. answers' \in [Requests -> Seq(Answer)]
  BY <1>1, <1>2, <1>3
<1>5. ASSUME NEW i \in DOMAIN answers'[r]
      PROVE  \/ i \in DOMAIN answers[r] /\ answers'[r][i] = answers[r][i]
             \/ answers'[r][i] = answer
  BY <1>1, <1>2, <1>3, <1>5
<1> QED
  BY <1>2, <1>3, <1>4, <1>5 DEF answer

-----------------------------------------------------------------------------
(* Types. *)

\* The id a duplicate is answered with is that of an entry of the log.
LEMMA IdOfLogged ==
  ASSUME ServiceTypeOK, NEW tx, Logged(tx)
  PROVE  IdOf(tx) \in Nat /\ \E e \in Entries : e.tx = tx /\ e.id = IdOf(tx)
<1>1. \A e \in Entries : e \in Entry
  BY DEF ServiceTypeOK, Entries, ToSet
<1>2. \E e \in Entries : e.tx = tx
  BY DEF Logged
<1>3. (CHOOSE e \in Entries : e.tx = tx) \in Entries /\ (CHOOSE e \in Entries : e.tx = tx).tx = tx
  BY <1>2
<1> QED
  BY <1>1, <1>3 DEF IdOf, Entry

\* A request goes on with the same write.
LEMMA WorkChanges ==
  ASSUME ServiceTypeOK, NEW r \in Requests, NEW w \in Work, w.n = work[r].n,
         work' = [work EXCEPT ![r] = w]
  PROVE  /\ work' \in [Requests -> Work]
         /\ \A q \in Requests : work'[q].n = work[q].n
<1>1. work \in [Requests -> Work]
  BY DEF ServiceTypeOK
<1> QED
  BY <1>1

\* A request moves on with its write.
LEMMA Moving ==
  ASSUME ServiceTypeOK, NEW r \in Requests, NEW place \in Places, Goes(r, place)
  PROVE  /\ work' \in [Requests -> Work]
         /\ \A q \in Requests : work'[q].n = work[q].n
<1> DEFINE w == [work[r] EXCEPT !.at = place]
<1>1. work[r] \in Work
  BY DEF ServiceTypeOK
<1>2. w \in Work /\ w.n = work[r].n
  BY <1>1 DEF Work
<1>3. work' = [work EXCEPT ![r] = w]
  BY DEF Goes
<1> QED
  BY <1>2, <1>3, WorkChanges

\* A result is a step that keeps everything but the request's place and answers.
LEMMA ResultTypes ==
  ASSUME ServiceTypeOK, NEW r \in Requests, NEW ok \in BOOLEAN, NEW id \in Nat, NEW unknown \in BOOLEAN,
         Result(r, ok, id, unknown), UNCHANGED scenario
  PROVE  /\ work' \in [Requests -> Work]
         /\ \A q \in Requests : work'[q].n \in DOMAIN scenario.requests[q]
         /\ answers' \in [Requests -> Seq(Answer)]
<1>1. work[r].groups \in SUBSET Groups
  BY DEF ServiceTypeOK, Work
<1> QED
  BY <1>1, GoingOn, Answering DEF Result

LEMMA CommitsTypes ==
  ASSUME ServiceTypeOK, NEW r \in Requests, Commits(r)
  PROVE  /\ table' \in [Rows -> Row \cup {Absent}]
         /\ log' \in Seq(Entry)
         /\ sequence' \in Nat /\ members' \in SUBSET Groups /\ scenario' = scenario
<1> DEFINE t == Doing(r)
           e == [id |-> work[r].id, tx |-> t.tx, act |-> t.act, row |-> t.row, group |-> work[r].group]
<1>1. t \in ClientWrites /\ work[r] \in Work
  BY DoingType DEF ServiceTypeOK
<1>2. e \in Entry
  BY <1>1 DEF ClientWrites, Work, Entry
<1>3. /\ table' = [table EXCEPT ![t.row] = work[r].row] /\ log' = Append(log, e)
      /\ members' = members \cup ({work[r].granted} \ {NoGroup})
      /\ scenario' = scenario /\ sequence' = sequence
  BY DEF Commits
<1>4. work[r].row \in Row \cup {Absent} /\ work[r].granted \in Group
  BY <1>1 DEF Work
<1> HIDE DEF t, e
<1>5. table' \in [Rows -> Row \cup {Absent}] /\ log' \in Seq(Entry)
  <2>1. table \in [Rows -> Row \cup {Absent}] /\ log \in Seq(Entry)
    BY DEF ServiceTypeOK
  <2>2. log' \in Seq(Entry)
    BY <1>2, <1>3, <2>1
  <2> QED
    BY <1>3, <1>4, <2>1, <2>2
<1> QED
  BY <1>3, <1>4, <1>5 DEF ServiceTypeOK, Group

LEMMA ServiceTypes ==
  ASSUME ServiceTypeOK, NEW r \in Requests, Handles(r)
  PROVE  ServiceTypeOK'
<1> USE DEF database
<1>0. /\ scenario \in Scenarios /\ table \in [Rows -> Row \cup {Absent}] /\ log \in Seq(Entry)
      /\ sequence \in Nat /\ failures \in Nat /\ members \in SUBSET Groups
      /\ work \in [Requests -> Work] /\ answers \in [Requests -> Seq(Answer)]
      /\ \A q \in Requests : work[q].n \in DOMAIN scenario.requests[q]
  BY DEF ServiceTypeOK
<1>1. Doing(r) \in ClientWrites
  BY DoingType
<1>2. ASSUME UNCHANGED <<scenario, database>>, sequence' \in Nat, failures' \in Nat,
             work' \in [Requests -> Work], answers' \in [Requests -> Seq(Answer)],
             \A q \in Requests : work'[q].n \in DOMAIN scenario.requests[q]
      PROVE  ServiceTypeOK'
  BY <1>0, <1>2 DEF ServiceTypeOK, Requests
<1>3. CASE Receive(r)
  <2> DEFINE w == [work[r] EXCEPT !.at = "find", !.groups = members]
  <2>0. work[r] \in Work /\ members \in SUBSET Groups /\ work' = [work EXCEPT ![r] = w]
    BY <1>0, <1>3 DEF Receive
  <2>2. w \in Work /\ w.n = work[r].n
    BY <2>0 DEF Work, Places
  <2>1. work' \in [Requests -> Work] /\ \A q \in Requests : work'[q].n = work[q].n
    BY <2>0, <2>2, WorkChanges
  <2> QED
    BY <1>0, <1>2, <1>3, <2>1 DEF Receive
<1>4. CASE FindDuplicate(r)
  <2>1. CASE Logged(Doing(r).tx)
    BY <1>0, <1>2, <1>4, <2>1, ResultTypes, IdOfLogged DEF FindDuplicate
  <2>2. CASE ~Logged(Doing(r).tx)
    <3>1. work' \in [Requests -> Work] /\ \A q \in Requests : work'[q].n = work[q].n
      BY <1>4, <2>2, Moving DEF FindDuplicate, Places
    <3> QED
      BY <1>0, <1>2, <1>4, <2>2, <3>1 DEF FindDuplicate
  <2> QED
    BY <2>1, <2>2
<1>5. CASE LoadTarget(r)
  <2>1. CASE Refuse(r)
    BY <1>0, <1>2, <1>5, <2>1, ResultTypes DEF LoadTarget, Refuse
  <2>2. CASE ~Refuse(r)
    <3>1. GroupOf(Doing(r)) \in Group
      BY <1>0, <1>1, <1>5, <2>2 DEF LoadTarget, TargetIsThere, GroupOf, ClientWrites, Row, Group
    <3>2. Doing(r).group \in Group
      BY <1>1 DEF ClientWrites, Group
    <3>3. \E granted \in Group :
             work' = [work EXCEPT ![r].at = "loaded", ![r].group = GroupOf(Doing(r)), ![r].granted = granted]
      BY <1>5, <2>2, <3>2 DEF LoadTarget, Group
    <3>4. work \in [Requests -> Work]
      BY <1>0
    <3>5. work' \in [Requests -> Work] /\ \A q \in Requests : work'[q].n = work[q].n
      <4> DEFINE group == GroupOf(Doing(r))
      <4> HIDE DEF group
      <4>1. PICK granted \in Group :
                work' = [work EXCEPT ![r].at = "loaded", ![r].group = group, ![r].granted = granted]
        BY <3>3 DEF group
      <4> DEFINE w == [work[r] EXCEPT !.at = "loaded", !.group = group, !.granted = granted]
      <4>2. work[r] \in Work /\ group \in Group /\ work' = [work EXCEPT ![r] = w]
        BY <3>1, <3>4, <4>1 DEF group
      <4>3. w \in Work /\ w.n = work[r].n
        BY <4>2 DEF Work, Places
      <4> QED
        BY <4>2, <4>3, WorkChanges
    <3> QED
      BY <1>0, <1>2, <1>5, <2>2, <3>5 DEF LoadTarget
  <2> QED
    BY <2>1, <2>2
<1>6. CASE ApplyMutation(r)
  <2>1. CASE Refuse(r)
    BY <1>0, <1>2, <1>6, <2>1, ResultTypes DEF ApplyMutation, Refuse
  <2>2. CASE ~Refuse(r)
    <3> DEFINE row == Written(table[Doing(r).row], Doing(r).act, work[r].group, Doing(r).tx)
    <3>1. row \in Row \cup {Absent}
      BY <1>0, <1>1, WrittenType DEF Work, ClientWrites
    <3>2. work' = [work EXCEPT ![r].at = "written", ![r].row = row] /\ answers' = answers
      BY <1>6, <2>2 DEF ApplyMutation
    <3> HIDE DEF row
    <3> DEFINE w == [work[r] EXCEPT !.at = "written", !.row = row]
    <3>4. work[r] \in Work /\ work' = [work EXCEPT ![r] = w]
      BY <1>0, <3>2
    <3>5. w \in Work /\ w.n = work[r].n
      BY <3>1, <3>4 DEF Work, Places
    <3>3. work' \in [Requests -> Work] /\ \A q \in Requests : work'[q].n = work[q].n
      BY <3>4, <3>5, WorkChanges
    <3> QED
      BY <1>0, <1>2, <1>6, <3>2, <3>3 DEF ApplyMutation
  <2> QED
    BY <2>1, <2>2
<1>7. CASE CreateSyncAction(r)
  <2>1. \/ Goes(r, "lost")
        \/ work' = [work EXCEPT ![r].at = "appended", ![r].id = sequence + 1]
    BY <1>7 DEF CreateSyncAction
  <2>2. ASSUME NEW id \in Nat, work' = [work EXCEPT ![r].at = "appended", ![r].id = id]
        PROVE  work' \in [Requests -> Work] /\ \A q \in Requests : work'[q].n = work[q].n
    <3> DEFINE w == [work[r] EXCEPT !.at = "appended", !.id = id]
    <3>1. work[r] \in Work /\ work' = [work EXCEPT ![r] = w]
      BY <1>0, <2>2
    <3>2. w \in Work /\ w.n = work[r].n
      BY <2>2, <3>1 DEF Work, Places
    <3> QED
      BY <3>1, <3>2, WorkChanges
  <2>3. work' \in [Requests -> Work] /\ \A q \in Requests : work'[q].n = work[q].n
    <3>1. sequence + 1 \in Nat
      BY <1>0
    <3> QED
      BY <2>1, <2>2, <3>1, Moving DEF Places
  <2> QED
    BY <1>0, <1>2, <1>7, <2>3 DEF CreateSyncAction
<1>8. CASE Commit(r)
  <2>1. work' \in [Requests -> Work] /\ \A q \in Requests : work'[q].n = work[q].n
    BY <1>8, Moving DEF Commit, Places
  <2> QED
    BY <1>0, <1>8, <2>1, CommitsTypes DEF Commit, ServiceTypeOK, Requests
<1>9. CASE Acknowledge(r)
  <2>1. work[r].groups \cup ({work[r].granted} \ {NoGroup}) \in SUBSET Groups /\ work[r].id \in Nat
    BY <1>0 DEF Work, Group
  <2> QED
    BY <1>0, <1>2, <1>9, <2>1, GoingOn, Answering DEF Acknowledge
<1>10. CASE FindWinner(r)
  BY <1>0, <1>2, <1>10, ResultTypes, IdOfLogged DEF FindWinner, Refuse
<1>11. CASE StatementFails(r)
  <2>1. failures' \in Nat /\ Refuse(r) /\ UNCHANGED <<scenario, database>> /\ sequence' \in Nat
    BY <1>0, <1>11 DEF StatementFails
  <2> QED
    BY <1>0, <1>2, <2>1, ResultTypes DEF Refuse
<1>12. CASE CommitIsUnknown(r)
  <2>1. Commits(r) /\ Result(r, FALSE, 0, TRUE) /\ failures' = failures + 1
    BY <1>12 DEF CommitIsUnknown
  <2>2. failures' \in Nat
    BY <1>0, <2>1
  <2> QED
    BY <1>0, <2>1, <2>2, CommitsTypes, ResultTypes DEF ServiceTypeOK, Requests
<1> QED
  BY <1>3, <1>4, <1>5, <1>6, <1>7, <1>8, <1>9, <1>10, <1>11, <1>12 DEF Handles

-----------------------------------------------------------------------------
(* The log, the answers and the grants. *)

\* What is reported stays true: entries are never removed.
LEMMA DoneStays ==
  ASSUME ServiceTypeOK, DoneIsLogged, NEW r \in Requests, scenario' = scenario,
         NEW ok \in BOOLEAN, NEW id \in Nat, NEW unknown \in BOOLEAN, Answers(r, ok, id, unknown),
         Entries \subseteq Entries', ok => \E e \in Entries' : e.tx = Doing(r).tx /\ e.id = id
  PROVE  DoneIsLogged'
<1> SUFFICES ASSUME NEW q \in Requests, NEW i \in DOMAIN answers'[q], answers'[q][i].ok
             PROVE  \E e \in Entries' : e.tx = answers'[q][i].tx /\ e.id = answers'[q][i].id
  BY DEF DoneIsLogged, Requests
<1>1. CASE i \in DOMAIN answers[q] /\ answers'[q][i] = answers[q][i]
  BY <1>1 DEF DoneIsLogged
<1>2. CASE answers'[q][i] = [tx |-> Doing(r).tx, ok |-> ok, id |-> id, unknown |-> unknown]
  BY <1>2
<1> QED
  BY <1>1, <1>2, Answering

\* A step that neither appends nor commits.
LEMMA QuietStep ==
  ASSUME ServiceInv, ServiceTypeOK', NEW r \in Requests,
         UNCHANGED <<scenario, log, members>>, sequence <= sequence',
         \A q \in Requests \ {r} : work'[q] = work[q],
         work'[r].at \notin {"appended", "committed"}, work'[r].groups \subseteq members,
         DoneIsLogged'
  PROVE  ServiceInv'
<1>1. Requests' = Requests /\ Entries' = Entries /\ \A q \in Requests \ {r} : Doing(q)' = Doing(q)
  BY DEF Requests, Entries, Doing
<1>2. IdsInOrder'
  <2>1. \A i \in DOMAIN log : log[i].id \in Nat
    BY EntryIds DEF ServiceInv
  <2> QED
    BY <2>1 DEF ServiceInv, IdsInOrder, ServiceTypeOK
<1>3. AppendIsNext'
  <2> SUFFICES ASSUME NEW q \in Requests, work'[q].at = "appended"
               PROVE  (/\ OrderIsFree(q)
                       /\ ~Logged(Doing(q).tx)
                       /\ \A i \in DOMAIN log : log[i].id < work[q].id
                       /\ work[q].id \in 1 .. sequence)'
    BY <1>1 DEF AppendIsNext
  <2>1. q # r /\ work'[q] = work[q] /\ Doing(q)' = Doing(q)
    BY <1>1
  <2>2. OrderIsFree(q) /\ ~Logged(Doing(q).tx) /\ work[q].id \in 1 .. sequence
        /\ \A i \in DOMAIN log : log[i].id < work[q].id
    BY <2>1 DEF ServiceInv, AppendIsNext
  <2>3. OrderIsFree(q)'
    BY <1>1, <2>2 DEF OrderIsFree
  <2>4. ~Logged(Doing(q).tx)'
    BY <1>1, <2>1, <2>2 DEF Logged
  <2>5. work[q].id \in Nat /\ sequence \in Nat /\ sequence' \in Nat
    BY DEF ServiceInv, ServiceTypeOK, Work
  <2> QED
    BY <2>1, <2>2, <2>3, <2>4, <2>5
<1>4. CommittedIsLogged'
  <2> SUFFICES ASSUME NEW q \in Requests, work'[q].at = "committed"
               PROVE  (/\ \E e \in Entries : e.tx = Doing(q).tx /\ e.id = work[q].id
                       /\ {work[q].granted} \ {NoGroup} \subseteq members)'
    BY <1>1 DEF CommittedIsLogged
  <2>1. q # r /\ work'[q] = work[q] /\ Doing(q)' = Doing(q)
    BY <1>1
  <2> QED
    BY <1>1, <2>1 DEF ServiceInv, CommittedIsLogged
<1>5. AppliedOnce'
  BY DEF ServiceInv, AppliedOnce
<1>6. GrantsAreCommitted'
  BY <1>1 DEF ServiceInv, GrantsAreCommitted
<1> QED
  BY <1>2, <1>3, <1>4, <1>5, <1>6 DEF ServiceInv

\* The append: the sequence is above the log, and the lock is free.
LEMMA AppendStep ==
  ASSUME ServiceInv, ServiceTypeOK', NEW r \in Requests, CreateSyncAction(r)
  PROVE  ServiceInv'
<1>1. /\ work \in [Requests -> Work] /\ sequence \in Nat /\ log \in Seq(Entry)
      /\ OrderIsFree(r) /\ UNCHANGED <<scenario, log, members, answers>> /\ sequence' = sequence + 1
  BY DEF ServiceInv, ServiceTypeOK, CreateSyncAction, database
<1>2. DoneIsLogged'
  BY <1>1 DEF ServiceInv, DoneIsLogged, Requests, Entries
<1>3. CASE Logged(Doing(r).tx)
  <2>1. Goes(r, "lost")
    BY <1>3 DEF CreateSyncAction
  <2>2. /\ work'[r].at = "lost" /\ work'[r].groups = work[r].groups
        /\ \A q \in Requests \ {r} : work'[q] = work[q]
    BY <1>1, <2>1 DEF Goes, Work
  <2> QED
    BY <1>1, <1>2, <2>2, QuietStep DEF ServiceInv, GrantsAreCommitted
<1>4. CASE ~Logged(Doing(r).tx)
  <2>1. work' = [work EXCEPT ![r].at = "appended", ![r].id = sequence + 1]
    BY <1>4 DEF CreateSyncAction
  <2>2. /\ work'[r].at = "appended" /\ work'[r].id = sequence + 1 /\ work'[r].n = work[r].n
        /\ work'[r].groups = work[r].groups
        /\ \A q \in Requests \ {r} : work'[q] = work[q]
    BY <1>1, <2>1 DEF Work
  <2>3. /\ Requests' = Requests /\ Entries' = Entries
        /\ \A q \in Requests : Doing(q)' = Doing(q)
    BY <1>1, <2>2 DEF Requests, Entries, Doing
  <2>4. \A i \in DOMAIN log : log[i].id \in Nat /\ log[i].id <= sequence
    BY EntryIds DEF ServiceInv, IdsInOrder
  <2>5. IdsInOrder'
    BY <1>1, <2>4 DEF ServiceInv, IdsInOrder
  <2>6. \A q \in Requests \ {r} : work'[q].at # "appended"
    BY <1>1, <2>2 DEF OrderIsFree
  <2>7. AppendIsNext'
    <3>1. OrderIsFree(r)' /\ ~Logged(Doing(r).tx)'
      BY <1>4, <2>3, <2>6 DEF OrderIsFree, Logged
    <3>2. \A i \in DOMAIN log' : log'[i].id < work'[r].id
      BY <1>1, <2>2, <2>4
    <3>3. work'[r].id \in 1 .. sequence'
      BY <1>1, <2>2
    <3> QED
      BY <2>3, <2>6, <3>1, <3>2, <3>3 DEF AppendIsNext
  <2>8. CommittedIsLogged'
    <3> SUFFICES ASSUME NEW q \in Requests, work'[q].at = "committed"
                 PROVE  (/\ \E e \in Entries : e.tx = Doing(q).tx /\ e.id = work[q].id
                         /\ {work[q].granted} \ {NoGroup} \subseteq members)'
      BY <2>3 DEF CommittedIsLogged
    <3>1. q # r /\ work'[q] = work[q]
      BY <2>2
    <3> QED
      BY <1>1, <2>3, <3>1 DEF ServiceInv, CommittedIsLogged
  <2>9. AppliedOnce' /\ GrantsAreCommitted'
    BY <1>1, <2>2, <2>3 DEF ServiceInv, AppliedOnce, GrantsAreCommitted
  <2> QED
    BY <1>2, <2>5, <2>7, <2>8, <2>9 DEF ServiceInv
<1> QED
  BY <1>3, <1>4

LEMMA EntriesGrow ==
  ASSUME ServiceTypeOK, NEW r \in Requests, Commits(r)
  PROVE  Entries \subseteq Entries'
<1>1. log \in Seq(Entry) /\ log' \in Seq(Entry) /\ \E e : log' = Append(log, e)
  BY CommitsTypes DEF ServiceTypeOK, Commits
<1>2. DOMAIN log \subseteq DOMAIN log' /\ \A i \in DOMAIN log : log'[i] = log[i]
  BY <1>1
<1> QED
  BY <1>2 DEF Entries, ToSet

\* The commit: the log grows by the one write that was appended.
LEMMA CommitStep ==
  ASSUME ServiceInv, ServiceTypeOK', NEW r \in Requests, Commits(r),
         \A q \in Requests \ {r} : work'[q] = work[q], work'[r].at # "appended",
         work'[r].groups = work[r].groups, DoneIsLogged',
         work'[r].at = "committed" => work' = [work EXCEPT ![r].at = "committed"]
  PROVE  ServiceInv'
<1> DEFINE e == [id |-> work[r].id, tx |-> Doing(r).tx, act |-> Doing(r).act,
                 row |-> Doing(r).row, group |-> work[r].group]
<1>1. /\ work \in [Requests -> Work] /\ sequence \in Nat /\ log \in Seq(Entry) /\ work[r].id \in Nat
      /\ work[r].at = "appended"
  BY DEF ServiceInv, ServiceTypeOK, Commits, At, Work
<1>2. /\ log' = Append(log, e) /\ members' = members \cup ({work[r].granted} \ {NoGroup})
      /\ scenario' = scenario /\ sequence' = sequence
  BY DEF Commits
<1>3. /\ OrderIsFree(r) /\ ~Logged(Doing(r).tx) /\ work[r].id \in 1 .. sequence
      /\ \A i \in DOMAIN log : log[i].id < work[r].id
  BY <1>1 DEF ServiceInv, AppendIsNext
<1>4. e.id = work[r].id /\ e.tx = Doing(r).tx /\ e \in Entry
  BY DoingType, <1>1 DEF ServiceInv, ServiceTypeOK, ClientWrites, Entry, Work
<1> HIDE DEF e
<1>5. /\ Len(log) \in Nat /\ DOMAIN log = 1 .. Len(log) /\ DOMAIN log' = 1 .. Len(log) + 1
      /\ \A i \in DOMAIN log : log'[i] = log[i] /\ log'[Len(log) + 1] = e
  BY <1>1, <1>2, <1>4
<1>6. Requests' = Requests /\ Entries \subseteq Entries' /\ e \in Entries'
  BY <1>2, <1>5 DEF Requests, Entries, ToSet
<1>7. \A i \in DOMAIN log : log[i].id \in Nat
  BY EntryIds DEF ServiceInv
<1>8. IdsInOrder'
  <2>1. ASSUME NEW i \in DOMAIN log', NEW j \in DOMAIN log', i < j
        PROVE  log'[i].id < log'[j].id
    <3>1. i \in DOMAIN log
      BY <1>5, <2>1
    <3>2. CASE j \in DOMAIN log
      BY <1>5, <2>1, <3>1, <3>2 DEF ServiceInv, IdsInOrder
    <3>3. CASE j = Len(log) + 1
      BY <1>3, <1>4, <1>5, <3>1, <3>3
    <3> QED
      BY <1>5, <3>2, <3>3
  <2>2. ASSUME NEW i \in DOMAIN log'
        PROVE  log'[i].id <= sequence'
    <3>1. CASE i \in DOMAIN log
      BY <1>2, <1>5, <3>1 DEF ServiceInv, IdsInOrder
    <3>2. CASE i = Len(log) + 1
      BY <1>2, <1>3, <1>4, <1>5, <3>2
    <3> QED
      BY <1>5, <3>1, <3>2
  <2> QED
    BY <2>1, <2>2 DEF IdsInOrder
<1>9. AppendIsNext'
  BY <1>3, <1>6 DEF AppendIsNext, OrderIsFree
<1>10. CommittedIsLogged'
  <2> SUFFICES ASSUME NEW q \in Requests, work'[q].at = "committed"
               PROVE  (/\ \E f \in Entries : f.tx = Doing(q).tx /\ f.id = work[q].id
                       /\ {work[q].granted} \ {NoGroup} \subseteq members)'
    BY <1>6 DEF CommittedIsLogged
  <2>1. CASE q = r
    <3>1. work' = [work EXCEPT ![r].at = "committed"]
      BY <2>1
    <3>2. work'[r].id = work[r].id /\ work'[r].n = work[r].n /\ work'[r].granted = work[r].granted
      BY <1>1, <3>1 DEF Work
    <3> QED
      BY <1>2, <1>4, <1>6, <2>1, <3>2 DEF Doing
  <2>2. CASE q # r
    <3>1. work'[q] = work[q] /\ Doing(q)' = Doing(q)
      BY <1>2, <2>2 DEF Doing
    <3>2. /\ \E f \in Entries : f.tx = Doing(q).tx /\ f.id = work[q].id
          /\ {work[q].granted} \ {NoGroup} \subseteq members
      BY <3>1 DEF ServiceInv, CommittedIsLogged
    <3> QED
      BY <1>2, <1>6, <3>1, <3>2
  <2> QED
    BY <2>1, <2>2
<1>11. AppliedOnce'
  <2>1. \A i \in DOMAIN log : log[i].tx # e.tx
    BY <1>3, <1>4 DEF Logged, Entries, ToSet
  <2> SUFFICES ASSUME NEW i \in DOMAIN log', NEW j \in DOMAIN log', i # j
               PROVE  log'[i].tx # log'[j].tx
    BY DEF AppliedOnce
  <2>2. CASE i \in DOMAIN log /\ j \in DOMAIN log
    BY <1>5, <2>2 DEF ServiceInv, AppliedOnce
  <2>3. CASE i = Len(log) + 1 \/ j = Len(log) + 1
    BY <1>5, <2>1, <2>3
  <2> QED
    BY <1>5, <2>2, <2>3
<1>12. GrantsAreCommitted'
  BY <1>2, <1>6 DEF ServiceInv, GrantsAreCommitted
<1> QED
  BY <1>8, <1>9, <1>10, <1>11, <1>12 DEF ServiceInv

\* Every step of a request keeps the invariant.
LEMMA ServiceStep ==
  ASSUME ServiceInv, NEW r \in Requests, Handles(r)
  PROVE  ServiceInv'
<1>1. ServiceTypeOK /\ ServiceTypeOK' /\ work \in [Requests -> Work]
      /\ sequence \in Nat /\ work[r].groups \in SUBSET Groups
      /\ work[r].groups \subseteq members /\ DoneIsLogged
  BY ServiceTypes DEF ServiceInv, ServiceTypeOK, GrantsAreCommitted, Work
<1>2. ASSUME UNCHANGED <<scenario, log, members, answers, sequence>>,
             NEW place \in Places \ {"appended", "committed"}, Goes(r, place)
      PROVE  ServiceInv'
  <2>1. /\ work'[r].at = place /\ work'[r].groups = work[r].groups
        /\ \A q \in Requests \ {r} : work'[q] = work[q]
    BY <1>1, <1>2 DEF Goes, Work
  <2>2. DoneIsLogged'
    BY <1>1, <1>2 DEF DoneIsLogged, Requests, Entries
  <2> QED
    BY <1>1, <1>2, <2>1, <2>2, QuietStep
<1>3. ASSUME UNCHANGED <<scenario, log, members, sequence>>, NEW groups \in SUBSET members,
             NEW ok \in BOOLEAN, NEW id \in Nat, NEW unknown \in BOOLEAN,
             Answers(r, ok, id, unknown), GoesOn(r, groups),
             ok => \E e \in Entries : e.tx = Doing(r).tx /\ e.id = id
      PROVE  ServiceInv'
  <2>1. groups \in SUBSET Groups
    BY <1>1, <1>3 DEF ServiceTypeOK
  <2>2. /\ work'[r].at \in {"find", "answered"} /\ work'[r].groups = groups
        /\ \A q \in Requests \ {r} : work'[q] = work[q]
    BY <1>1, <1>3, <2>1, GoingOn
  <2>3. DoneIsLogged'
    BY <1>1, <1>3, DoneStays DEF Entries
  <2> QED
    BY <1>1, <1>3, <2>2, <2>3, QuietStep
<1>4. ASSUME UNCHANGED <<scenario, log, members, sequence>>, Refuse(r)
      PROVE  ServiceInv'
  BY <1>1, <1>3, <1>4 DEF Refuse, Result
<1>5. CASE Receive(r)
  <2>1. UNCHANGED <<scenario, log, members, sequence, answers>>
        /\ work' = [work EXCEPT ![r].at = "find", ![r].groups = members]
    BY <1>5 DEF Receive, database
  <2>2. /\ work'[r].at = "find" /\ work'[r].groups = members
        /\ \A q \in Requests \ {r} : work'[q] = work[q]
    BY <1>1, <2>1 DEF Work
  <2>3. DoneIsLogged'
    BY <1>1, <2>1 DEF DoneIsLogged, Requests, Entries
  <2> QED
    BY <1>1, <2>1, <2>2, <2>3, QuietStep
<1>6. CASE FindDuplicate(r)
  <2>1. CASE Logged(Doing(r).tx)
    <3> DEFINE id == IdOf(Doing(r).tx)
    <3>1. id \in Nat /\ \E e \in Entries : e.tx = Doing(r).tx /\ e.id = id
      BY <1>1, <2>1, IdOfLogged
    <3>2. /\ Answers(r, TRUE, id, FALSE) /\ GoesOn(r, work[r].groups)
          /\ UNCHANGED <<scenario, log, members, sequence>>
      BY <1>6, <2>1 DEF FindDuplicate, Result, database
    <3>3. work[r].groups \in SUBSET members
      BY <1>1
    <3> HIDE DEF id
    <3> QED
      BY <1>3, <3>1, <3>2, <3>3
  <2>2. CASE ~Logged(Doing(r).tx)
    BY <1>2, <1>6, <2>2 DEF FindDuplicate, Places, database
  <2> QED
    BY <2>1, <2>2
<1>7. CASE LoadTarget(r)
  <2>1. CASE Refuse(r)
    BY <1>4, <1>7, <2>1 DEF LoadTarget, database
  <2>2. CASE ~Refuse(r)
    <3>1. UNCHANGED <<scenario, log, members, sequence, answers>>
          /\ \E group, granted :
                work' = [work EXCEPT ![r].at = "loaded", ![r].group = group, ![r].granted = granted]
      BY <1>7, <2>2 DEF LoadTarget, database
    <3>2. /\ work'[r].at = "loaded" /\ work'[r].groups = work[r].groups
          /\ \A q \in Requests \ {r} : work'[q] = work[q]
      BY <1>1, <3>1 DEF Work
    <3>3. DoneIsLogged'
      BY <1>1, <3>1 DEF DoneIsLogged, Requests, Entries
    <3> QED
      BY <1>1, <3>1, <3>2, <3>3, QuietStep
  <2> QED
    BY <2>1, <2>2
<1>8. CASE ApplyMutation(r)
  <2>1. CASE Refuse(r)
    BY <1>4, <1>8, <2>1 DEF ApplyMutation, database
  <2>2. CASE ~Refuse(r)
    <3>1. UNCHANGED <<scenario, log, members, sequence, answers>>
          /\ \E row : work' = [work EXCEPT ![r].at = "written", ![r].row = row]
      BY <1>8, <2>2 DEF ApplyMutation, database
    <3>2. /\ work'[r].at = "written" /\ work'[r].groups = work[r].groups
          /\ \A q \in Requests \ {r} : work'[q] = work[q]
      BY <1>1, <3>1 DEF Work
    <3>3. DoneIsLogged'
      BY <1>1, <3>1 DEF DoneIsLogged, Requests, Entries
    <3> QED
      BY <1>1, <3>1, <3>2, <3>3, QuietStep
  <2> QED
    BY <2>1, <2>2
<1>9. CASE CreateSyncAction(r)
  BY <1>1, <1>9, AppendStep
<1>10. CASE Commit(r)
  <2>1. Commits(r) /\ UNCHANGED answers /\ work' = [work EXCEPT ![r].at = "committed"]
    BY <1>10 DEF Commit, Goes
  <2>2. /\ work'[r].at = "committed" /\ work'[r].groups = work[r].groups
        /\ \A q \in Requests \ {r} : work'[q] = work[q]
    BY <1>1, <2>1 DEF Work
  <2>3. DoneIsLogged'
    <3>1. Requests' = Requests /\ answers' = answers /\ Entries \subseteq Entries'
      BY <1>1, <2>1, EntriesGrow DEF Requests, Commits
    <3> QED
      BY <1>1, <3>1 DEF DoneIsLogged
  <2> QED
    BY <1>1, <2>1, <2>2, <2>3, CommitStep
<1>11. CASE Acknowledge(r)
  <2>1. /\ \E e \in Entries : e.tx = Doing(r).tx /\ e.id = work[r].id
        /\ {work[r].granted} \ {NoGroup} \subseteq members /\ work[r].id \in Nat
    BY <1>1, <1>11 DEF Acknowledge, At, ServiceInv, CommittedIsLogged, Work
  <2>2. work[r].groups \cup ({work[r].granted} \ {NoGroup}) \in SUBSET members
    BY <1>1, <2>1
  <2> QED
    BY <1>3, <1>11, <2>1, <2>2 DEF Acknowledge, database
<1>12. CASE FindWinner(r)
  <2>1. CASE Logged(Doing(r).tx)
    <3> DEFINE id == IdOf(Doing(r).tx)
    <3>1. id \in Nat /\ \E e \in Entries : e.tx = Doing(r).tx /\ e.id = id
      BY <1>1, <2>1, IdOfLogged
    <3>2. /\ Answers(r, TRUE, id, FALSE) /\ GoesOn(r, work[r].groups)
          /\ UNCHANGED <<scenario, log, members, sequence>>
      BY <1>12, <2>1 DEF FindWinner, Result, database
    <3>3. work[r].groups \in SUBSET members
      BY <1>1
    <3> HIDE DEF id
    <3> QED
      BY <1>3, <3>1, <3>2, <3>3
  <2>2. CASE ~Logged(Doing(r).tx)
    BY <1>4, <1>12, <2>2 DEF FindWinner, database
  <2> QED
    BY <2>1, <2>2
<1>13. CASE StatementFails(r)
  BY <1>4, <1>13 DEF StatementFails, database
<1>14. CASE CommitIsUnknown(r)
  <2>1. Commits(r) /\ Answers(r, FALSE, 0, TRUE) /\ GoesOn(r, work[r].groups)
    BY <1>14 DEF CommitIsUnknown, Result
  <2>2. /\ work'[r].at \in {"find", "answered"} /\ work'[r].groups = work[r].groups
        /\ \A q \in Requests \ {r} : work'[q] = work[q]
    BY <1>1, <2>1, GoingOn DEF Commits
  <2>3. DoneIsLogged'
    BY <1>1, <2>1, DoneStays, EntriesGrow DEF Commits
  <2> QED
    BY <1>1, <2>1, <2>2, <2>3, CommitStep
<1> QED
  BY <1>5, <1>6, <1>7, <1>8, <1>9, <1>10, <1>11, <1>12, <1>13, <1>14 DEF Handles

LEMMA ServiceStarts == Init => ServiceInv
<1> SUFFICES ASSUME Init
             PROVE  ServiceInv
  OBVIOUS
<1>1. /\ scenario \in Scenarios /\ table = Seeded /\ log = <<>> /\ sequence = 0 /\ failures = 0
      /\ members = scenario.groups /\ answers = [r \in Requests |-> <<>>]
      /\ work = [r \in Requests |-> Stage("sent", 1, {})]
  BY DEF Init, MutateInit
<1>2. IsTraffic(scenario)
  BY <1>1, ScenariosAssumption
<1>3. table \in [Rows -> Row \cup {Absent}]
  BY <1>1, <1>2 DEF IsTraffic, Seeded, Row, Group
<1>4. Stage("sent", 1, {}) \in Work
  BY DEF Stage, Work, Places, Group
<1>5. \A r \in Requests : work[r].n \in DOMAIN scenario.requests[r]
  <2> SUFFICES ASSUME NEW r \in Requests
               PROVE  1 \in DOMAIN scenario.requests[r]
    BY <1>1 DEF Stage
  <2>1. scenario.requests[r] \in Seq(ClientWrites) \ {<<>>}
    BY <1>2 DEF IsTraffic, Requests
  <2> QED
    BY <2>1
<1>6. ServiceTypeOK
  BY <1>1, <1>2, <1>3, <1>4, <1>5 DEF ServiceTypeOK, IsTraffic
<1>7. Entries = {} /\ DOMAIN log = {}
  BY <1>1 DEF Entries, ToSet
<1>8. \A r \in Requests : /\ work[r].at = "sent" /\ work[r].groups = {} /\ DOMAIN answers[r] = {}
  BY <1>1 DEF Stage
<1> QED
  BY <1>6, <1>7, <1>8 DEF ServiceInv, IdsInOrder, AppendIsNext, CommittedIsLogged,
                          AppliedOnce, DoneIsLogged, GrantsAreCommitted

\* The client and the server's reads leave the service alone.
LEMMA ServiceNext ==
  ASSUME ServiceInv, [Next]_vars
  PROVE  ServiceInv'
<1>1. CASE Writes
  BY <1>1, ServiceStep DEF Writes
<1>2. CASE UNCHANGED mutateVars
  BY <1>2 DEF mutateVars, database, ServiceInv, ServiceTypeOK, IdsInOrder, AppendIsNext, CommittedIsLogged,
              AppliedOnce, DoneIsLogged, GrantsAreCommitted, Requests, Doing, OrderIsFree, Logged, Entries
<1>3. Next \/ UNCHANGED vars => Writes \/ UNCHANGED mutateVars
  BY DEF Next, vars, Bootstrap, ReadPage, SendRows, CommitSnapshot, ApplyDelta, Load, StoreRow, LoadEnds, Rests
<1> QED
  BY <1>1, <1>2, <1>3

-----------------------------------------------------------------------------
(* The theorems about the service. *)

\* The invariant of the service holds of every reachable state.
THEOREM ServiceInvAlways == Spec => []ServiceInv
BY ServiceStarts, ServiceNext, PTL DEF Spec

\* However often a write is sent, and by however many requests at a time, the
\* log has it once (sync_actions' unique index, and deduplication before it).
THEOREM WritesAreAppliedOnce == Spec => []AppliedOnce
<1>1. ServiceInv => AppliedOnce
  BY DEF ServiceInv
<1> QED
  BY <1>1, ServiceInvAlways, PTL

\* A write that processTransaction reported as done, the duplicate of another
\* included, is in the log under the id reported.
THEOREM DoneIsAlwaysLogged == Spec => []DoneIsLogged
<1>1. ServiceInv => DoneIsLogged
  BY DEF ServiceInv
<1> QED
  BY <1>1, ServiceInvAlways, PTL

\* "A rolled-back insert widens nothing": the groups a batch may write to are
\* committed memberships at every step of it.
THEOREM GrantsAreAlwaysCommitted == Spec => []GrantsAreCommitted
<1>1. ServiceInv => GrantsAreCommitted
  BY DEF ServiceInv
<1> QED
  BY <1>1, ServiceInvAlways, PTL

\* Ids become visible in order: no step commits an id below one that a reader
\* may have seen, which the advisory lock of createSyncAction is for.
THEOREM IdsBecomeVisibleInOrder ==
  Spec => [][\A e \in Entries' : e \in Entries \/ \A f \in Entries : f.id < e.id]_vars
<1>1. ASSUME ServiceInv', Entries \subseteq Entries', log \in Seq(Entry), log' \in Seq(Entry),
             DOMAIN log \subseteq DOMAIN log', \A i \in DOMAIN log : log'[i] = log[i]
      PROVE  \A e \in Entries' : e \in Entries \/ \A f \in Entries : f.id < e.id
  <2> SUFFICES ASSUME NEW j \in DOMAIN log', log'[j] \notin Entries, NEW i \in DOMAIN log
               PROVE  log[i].id < log'[j].id
    BY DEF Entries, ToSet
  <2>1. j \notin DOMAIN log
    BY <1>1 DEF Entries, ToSet
  <2>2. i < j
    BY <1>1, <2>1
  <2> QED
    BY <1>1, <2>2 DEF ServiceInv, IdsInOrder
<1>2. ASSUME ServiceInv, ServiceInv', Next
      PROVE  \A e \in Entries' : e \in Entries \/ \A f \in Entries : f.id < e.id
  <2>1. UNCHANGED log \/ \E r \in Requests : Commits(r)
    BY <1>2 DEF Next, Writes, Handles, Bootstrap, ReadPage, SendRows, CommitSnapshot, ApplyDelta, Load,
                StoreRow, LoadEnds, Rests, vars, mutateVars, database, Receive, FindDuplicate, LoadTarget,
                ApplyMutation, CreateSyncAction, Commit, Acknowledge, FindWinner, StatementFails,
                CommitIsUnknown
  <2>2. CASE UNCHANGED log
    BY <2>2 DEF Entries
  <2>3. CASE \E r \in Requests : Commits(r)
    <3>1. log \in Seq(Entry) /\ log' \in Seq(Entry) /\ \E e : log' = Append(log, e)
      BY <1>2, <2>3 DEF ServiceInv, ServiceTypeOK, Commits
    <3>2. DOMAIN log \subseteq DOMAIN log' /\ \A i \in DOMAIN log : log'[i] = log[i]
      BY <3>1
    <3>3. Entries \subseteq Entries'
      BY <3>2 DEF Entries, ToSet
    <3> QED
      BY <1>1, <1>2, <3>1, <3>2, <3>3
  <2> QED
    BY <2>1, <2>2, <2>3
<1> QED
  BY <1>2, ServiceInvAlways, PTL DEF Spec

-----------------------------------------------------------------------------
(* What the log says of a row. *)

\* As of two ids with the same actions on a row up to them, the row is the same.
LEMMA SameUntil ==
  ASSUME NEW k, NEW a, NEW b, Until(k, a) = Until(k, b)
  PROVE  WritersAt(k, a) = WritersAt(k, b)
BY DEF WritersAt

\* All ids are up to the sequence, however far it goes.
LEMMA SameBeyondSequence ==
  ASSUME ServiceInv, NEW k, NEW id \in Nat, sequence <= id
  PROVE  WritersAt(k, id) = WritersAt(k, sequence)
<1>1. \A i \in DOMAIN log : log[i].id \in Nat /\ log[i].id <= sequence
  BY EntryIds DEF ServiceInv, IdsInOrder
<1>2. sequence \in Nat
  BY DEF ServiceInv, ServiceTypeOK
<1>3. Until(k, id) = Until(k, sequence)
  BY <1>1, <1>2 DEF Until
<1> QED
  BY <1>3, SameUntil

\* A row that was not touched since an id is as it was then.
LEMMA SameIfUntouched ==
  ASSUME ServiceInv, NEW k, NEW id \in Nat, Untouched(k, id), NEW later \in Nat, id <= later
  PROVE  WritersAt(k, later) = WritersAt(k, id)
<1>1. \A i \in DOMAIN log : log[i].id \in Nat
  BY EntryIds DEF ServiceInv
<1>2. Until(k, later) = Until(k, id)
  BY <1>1 DEF Until, Untouched
<1> QED
  BY <1>2, SameUntil

\* An entry that is appended adds itself to the actions up to its id.
LEMMA AppendedUntil ==
  ASSUME log \in Seq(Entry), NEW e \in Entry, log' = Append(log, e), NEW k, NEW id
  PROVE  /\ Until(k, id)' = Until(k, id) \cup (IF e.row = k /\ e.id <= id THEN {Len(log) + 1} ELSE {})
         /\ \A i \in Until(k, id) : log'[i] = log[i] /\ i \in 1 .. Len(log)
         /\ log'[Len(log) + 1] = e
<1>1. /\ Len(log) \in Nat /\ DOMAIN log = 1 .. Len(log) /\ DOMAIN log' = 1 .. Len(log) + 1
      /\ \A i \in DOMAIN log : log'[i] = log[i] /\ log'[Len(log) + 1] = e
  OBVIOUS
<1> QED
  BY <1>1 DEF Until

LEMMA WritersIfOther ==
  ASSUME log \in Seq(Entry), NEW e \in Entry, log' = Append(log, e), scenario' = scenario,
         NEW k, NEW id, ~(e.row = k /\ e.id <= id)
  PROVE  WritersAt(k, id)' = WritersAt(k, id)
<1>1. Until(k, id)' = Until(k, id) /\ \A i \in Until(k, id) : log'[i] = log[i]
  <2>1. /\ Until(k, id)' = Until(k, id) \cup (IF e.row = k /\ e.id <= id THEN {Len(log) + 1} ELSE {})
        /\ \A i \in Until(k, id) : log'[i] = log[i]
    BY AppendedUntil
  <2>2. Until(k, id)' = Until(k, id) \cup {}
    BY <2>1
  <2> QED
    BY <2>1, <2>2
<1> QED
  BY <1>1 DEF WritersAt

LEMMA WritersIfTouched ==
  ASSUME log \in Seq(Entry), NEW e \in Entry, log' = Append(log, e), scenario' = scenario,
         NEW k, NEW id, e.row = k, e.id <= id
  PROVE  WritersAt(k, id)' = IF e.act = "D" THEN {} ELSE {e.tx}
<1> DEFINE n == Len(log) + 1
<1>1. /\ Until(k, id)' = Until(k, id) \cup {n} /\ log'[n] = e
      /\ \A i \in Until(k, id) : i \in Nat /\ i < n
      /\ n \in Nat
  BY AppendedUntil
<1> HIDE DEF n
<1>2. ASSUME NEW i \in Until(k, id)'
      PROVE  (\A j \in Until(k, id)' : j <= i) <=> i = n
  <2>1. n \in Until(k, id)' /\ \A j \in Until(k, id)' : j \in Nat /\ j <= n
    BY <1>1
  <2>2. CASE i = n
    BY <2>1, <2>2
  <2>3. CASE i < n
    BY <1>1, <2>1, <2>3
  <2> QED
    BY <1>1, <1>2, <2>1, <2>2, <2>3
<1>3. Until(k, id)' # {}
  BY <1>1
<1> QED
  BY <1>1, <1>2, <1>3 DEF WritersAt

\* A step of a request that is no commit leaves the log and the table alone.
LEMMA QuietHandles ==
  ASSUME ServiceInv, NEW r \in Requests, Handles(r), ~Commits(r)
  PROVE  UNCHANGED <<scenario, log, table>> /\ sequence <= sequence'
<1>1. sequence \in Nat
  BY DEF ServiceInv, ServiceTypeOK
<1>2. ~Commit(r) /\ ~CommitIsUnknown(r)
  BY DEF Commit, CommitIsUnknown
<1>3. Receive(r) \/ FindDuplicate(r) \/ LoadTarget(r) \/ ApplyMutation(r)
      => UNCHANGED <<scenario, log, table, sequence>>
  BY DEF Receive, FindDuplicate, LoadTarget, ApplyMutation, database
<1>4. Acknowledge(r) \/ FindWinner(r) \/ StatementFails(r)
      => UNCHANGED <<scenario, log, table, sequence>>
  BY DEF Acknowledge, FindWinner, StatementFails, database
<1>5. CreateSyncAction(r) => UNCHANGED <<scenario, log, table>> /\ sequence' = sequence + 1
  BY DEF CreateSyncAction, database
<1>6. \/ UNCHANGED <<scenario, log, table, sequence>>
      \/ UNCHANGED <<scenario, log, table>> /\ sequence' = sequence + 1
  BY <1>2, <1>3, <1>4, <1>5 DEF Handles
<1> QED
  BY <1>1, <1>6

\* What is appended is above every id a reader has come to.
LEMMA SeenStays ==
  ASSUME ServiceInv, NEW r \in Requests, Commits(r), NEW id \in Nat, Seen(id)
  PROVE  /\ Seen(id)'
         /\ \A k \in Rows : WritersAt(k, id)' = WritersAt(k, id) /\ (Untouched(k, id)' => Untouched(k, id))
<1> DEFINE e == [id |-> work[r].id, tx |-> Doing(r).tx, act |-> Doing(r).act,
                 row |-> Doing(r).row, group |-> work[r].group]
<1>1. log \in Seq(Entry) /\ work[r] \in Work /\ Doing(r) \in ClientWrites /\ log' = Append(log, e)
      /\ scenario' = scenario
  BY DoingType DEF ServiceInv, ServiceTypeOK, Commits
<1>2. e \in Entry /\ e.id = work[r].id
  BY <1>1 DEF ClientWrites, Entry, Work
<1>3. work[r].id \in Nat /\ id < work[r].id
  BY DEF ServiceInv, AppendIsNext, Commits, At, Seen
<1> HIDE DEF e
<1>4. /\ DOMAIN log \subseteq DOMAIN log' /\ \A i \in DOMAIN log : log'[i] = log[i]
  BY <1>1, <1>2
<1>5. Seen(id)'
  BY <1>4 DEF Seen
<1>6. ASSUME NEW k \in Rows
      PROVE  WritersAt(k, id)' = WritersAt(k, id) /\ (Untouched(k, id)' => Untouched(k, id))
  <2>1. ~(e.id <= id)
    BY <1>2, <1>3
  <2> QED
    BY <1>1, <1>2, <1>4, <2>1, WritersIfOther DEF Untouched
<1> QED
  BY <1>5, <1>6

-----------------------------------------------------------------------------
(* The service's steps keep the invariant of the rows. *)

\* A step of a request moves no other; one that leaves it holding its row has just
\* written it, having found it free, or has appended for it.
LEMMA OnlyMoves ==
  ASSUME ServiceInv, NEW r \in Requests, Handles(r)
  PROVE  /\ scenario' = scenario
         /\ \A q \in Requests \ {r} : work'[q] = work[q]
         /\ work'[r].at \in {"written", "appended"} =>
              /\ table' = table /\ work'[r].n = work[r].n /\ work'[r].group = work[r].group
              /\ \/ /\ RowIsFree(r) /\ CanWrite(Doing(r))
                    /\ work'[r].row = Written(table[Doing(r).row], Doing(r).act, work[r].group, Doing(r).tx)
                 \/ work[r].at = "written" /\ work'[r].row = work[r].row
<1>1. ServiceTypeOK /\ work \in [Requests -> Work] /\ work[r].groups \in SUBSET Groups
      /\ members \in SUBSET Groups /\ {work[r].granted} \ {NoGroup} \in SUBSET Groups
  BY DEF ServiceInv, ServiceTypeOK, Work, Group
<1> DEFINE Held == /\ scenario' = scenario
                   /\ \A q \in Requests \ {r} : work'[q] = work[q]
                   /\ work'[r].at \notin {"written", "appended"}
<1>2. ASSUME NEW groups \in SUBSET Groups, GoesOn(r, groups), scenario' = scenario
      PROVE  Held
  BY <1>1, <1>2, GoingOn
<1>3. ASSUME NEW place, Goes(r, place), place \notin {"written", "appended"}, scenario' = scenario
      PROVE  Held
  BY <1>1, <1>3 DEF Goes, Work
<1>4. CASE Receive(r)
  BY <1>1, <1>4 DEF Receive, Work
<1>5. CASE FindDuplicate(r) \/ FindWinner(r) \/ StatementFails(r)
  BY <1>1, <1>2, <1>3, <1>5 DEF FindDuplicate, FindWinner, StatementFails, Result, Refuse
<1>6. CASE LoadTarget(r)
  <2>1. CASE Refuse(r)
    BY <1>1, <1>2, <1>6, <2>1 DEF LoadTarget, Result, Refuse
  <2>2. CASE ~Refuse(r)
    BY <1>1, <1>6, <2>2 DEF LoadTarget, Work
  <2> QED
    BY <2>1, <2>2
<1>7. CASE ApplyMutation(r)
  <2>1. CASE Refuse(r)
    BY <1>1, <1>2, <1>7, <2>1 DEF ApplyMutation, Result, Refuse
  <2>2. CASE ~Refuse(r)
    <3> DEFINE row == Written(table[Doing(r).row], Doing(r).act, work[r].group, Doing(r).tx)
    <3>1. /\ RowIsFree(r) /\ CanWrite(Doing(r)) /\ scenario' = scenario /\ table' = table
          /\ work' = [work EXCEPT ![r].at = "written", ![r].row = row]
      BY <1>7, <2>2 DEF ApplyMutation, database
    <3> HIDE DEF row
    <3>2. /\ work'[r].row = row /\ work'[r].n = work[r].n /\ work'[r].group = work[r].group
          /\ \A q \in Requests \ {r} : work'[q] = work[q]
      BY <1>1, <3>1 DEF Work
    <3> QED
      BY <3>1, <3>2 DEF row
  <2> QED
    BY <2>1, <2>2
<1>8. CASE CreateSyncAction(r)
  <2>1. scenario' = scenario /\ table' = table /\ work[r].at = "written"
    BY <1>8 DEF CreateSyncAction, database, At
  <2>2. CASE Goes(r, "lost")
    BY <1>3, <2>1, <2>2
  <2>3. CASE ~Goes(r, "lost")
    <3>1. \E id : work' = [work EXCEPT ![r].at = "appended", ![r].id = id]
      BY <1>8, <2>3 DEF CreateSyncAction
    <3> QED
      BY <1>1, <2>1, <3>1 DEF Work
  <2> QED
    BY <2>2, <2>3
<1>9. CASE Commit(r)
  BY <1>1, <1>3, <1>9 DEF Commit, Commits
<1>10. CASE Acknowledge(r)
  <2>1. GoesOn(r, work[r].groups \cup ({work[r].granted} \ {NoGroup})) /\ scenario' = scenario
    BY <1>10 DEF Acknowledge
  <2> QED
    BY <1>1, <1>2, <2>1
<1>11. CASE CommitIsUnknown(r)
  BY <1>1, <1>2, <1>11 DEF CommitIsUnknown, Commits, Result
<1> QED
  BY <1>4, <1>5, <1>6, <1>7, <1>8, <1>9, <1>10, <1>11 DEF Handles

\* A commit writes the row it has locked, so another transaction's row is as it found it.
LEMMA LocksStep ==
  ASSUME ServiceInv, RowsInv, NEW r \in Requests, Handles(r)
  PROVE  RowsAreLocked'
<1>1. scenario' = scenario /\ Requests' = Requests
  BY OnlyMoves DEF Requests
<1>2. \A q \in Requests \ {r} : work'[q] = work[q] /\ Doing(q)' = Doing(q)
  BY <1>1, OnlyMoves DEF Doing
<1>3. RowsAreLocked
  BY DEF RowsInv
<1>4. ASSUME work'[r].at \in {"written", "appended"}
      PROVE  /\ Doing(r)' = Doing(r) /\ table' = table /\ work'[r].group = work[r].group
             /\ RowIsFree(r) /\ CanWrite(Doing(r))
             /\ work'[r].row = Written(table[Doing(r).row], Doing(r).act, work[r].group, Doing(r).tx)
  <2>1. Doing(r)' = Doing(r) /\ table' = table /\ work'[r].group = work[r].group
    BY <1>1, <1>4, OnlyMoves DEF Doing
  <2>2. CASE work[r].at = "written" /\ work'[r].row = work[r].row
    BY <1>3, <2>1, <2>2 DEF RowsAreLocked
  <2> QED
    BY <1>4, <2>1, <2>2, OnlyMoves
<1> SUFFICES ASSUME NEW q \in Requests, work'[q].at \in {"written", "appended"}
             PROVE  (/\ RowIsFree(q) /\ CanWrite(Doing(q))
                     /\ work[q].row = Written(table[Doing(q).row], Doing(q).act, work[q].group, Doing(q).tx))'
  BY <1>1 DEF RowsAreLocked
<1>5. CASE q = r
  <2>1. \A p \in Requests \ {r} : HoldsRow(p, Doing(r).row)' <=> HoldsRow(p, Doing(r).row)
    BY <1>2, <1>4, <1>5 DEF HoldsRow
  <2>2. RowIsFree(r)'
    BY <1>1, <1>4, <1>5, <2>1 DEF RowIsFree
  <2>3. CanWrite(Doing(r))'
    BY <1>4, <1>5 DEF CanWrite
  <2> QED
    BY <1>4, <1>5, <2>2, <2>3
<1>6. CASE q # r
  <2>1. /\ work'[q] = work[q] /\ Doing(q)' = Doing(q) /\ RowIsFree(q) /\ CanWrite(Doing(q))
        /\ work[q].row = Written(table[Doing(q).row], Doing(q).act, work[q].group, Doing(q).tx)
        /\ HoldsRow(q, Doing(q).row)
    BY <1>2, <1>3, <1>6 DEF RowsAreLocked, HoldsRow
  <2>2. ASSUME NEW p \in Requests, p # q, HoldsRow(p, Doing(q).row)'
        PROVE  FALSE
    <3>1. CASE p = r
      BY <1>4, <1>6, <2>1, <2>2, <3>1 DEF HoldsRow, RowIsFree
    <3>2. CASE p # r
      BY <1>2, <2>1, <2>2, <3>2 DEF HoldsRow, RowIsFree
    <3> QED
      BY <3>1, <3>2
  <2>3. RowIsFree(q)'
    BY <1>1, <2>2 DEF RowIsFree
  <2>4. table'[Doing(q).row] = table[Doing(q).row]
    <3>1. CASE Commits(r)
      <4>1. HoldsRow(r, Doing(r).row) /\ table' = [table EXCEPT ![Doing(r).row] = work[r].row]
        BY <3>1 DEF Commits, At, HoldsRow
      <4>2. Doing(q).row # Doing(r).row
        BY <1>6, <2>1, <4>1 DEF RowIsFree
      <4> QED
        BY <4>1, <4>2
    <3>2. CASE ~Commits(r)
      BY <3>2, QuietHandles
    <3> QED
      BY <3>1, <3>2
  <2>5. CanWrite(Doing(q))'
    BY <2>1, <2>4 DEF CanWrite
  <2> QED
    BY <2>1, <2>3, <2>4, <2>5
<1> QED
  BY <1>5, <1>6

LEMMA TableStep ==
  ASSUME ServiceInv, ServiceInv', RowsInv, NEW r \in Requests, Handles(r)
  PROVE  TableIsOfLog'
<1>1. log \in Seq(Entry) /\ work[r] \in Work /\ Doing(r) \in ClientWrites
      /\ table \in [Rows -> Row \cup {Absent}]
      /\ sequence \in Nat /\ sequence' \in Nat
  BY DoingType DEF ServiceInv, ServiceTypeOK
<1>2. CASE Commits(r)
  <2> DEFINE t == Doing(r)
             e == [id |-> work[r].id, tx |-> t.tx, act |-> t.act, row |-> t.row, group |-> work[r].group]
  <2>1. /\ log' = Append(log, e) /\ scenario' = scenario /\ sequence' = sequence
        /\ table' = [table EXCEPT ![t.row] = work[r].row] /\ work[r].at = "appended"
    BY <1>2 DEF Commits, At
  <2>2. e \in Entry /\ e.id = work[r].id /\ e.tx = t.tx /\ e.row = t.row /\ e.act = t.act
    BY <1>1 DEF ClientWrites, Entry, Work
  <2>3. e.id <= sequence
    BY <2>1, <2>2 DEF ServiceInv, AppendIsNext
  <2>4. work[r].row = Written(table[t.row], t.act, work[r].group, t.tx) /\ CanWrite(t)
    BY <2>1 DEF RowsInv, RowsAreLocked
  <2> HIDE DEF e
  <2>5. ASSUME NEW k \in Rows, NEW id, id = sequence
        PROVE  WritersAt(k, id)' = IF table'[k] = Absent THEN {} ELSE {table'[k].by}
    <3>1. CASE k # t.row
      <4>1. WritersAt(k, id)' = WritersAt(k, id)
        BY <1>1, <2>1, <2>2, <3>1, WritersIfOther
      <4>2. WritersAt(k, id) = IF table[k] = Absent THEN {} ELSE {table[k].by}
        BY <2>5 DEF RowsInv, TableIsOfLog
      <4> QED
        BY <1>1, <2>1, <3>1, <4>1, <4>2
    <3>2. CASE k = t.row
      <4>1. WritersAt(k, id)' = IF e.act = "D" THEN {} ELSE {e.tx}
        BY <1>1, <2>1, <2>2, <2>3, <2>5, <3>2, WritersIfTouched
      <4>2. table'[k] = work[r].row /\ table[k] \in Row \cup {Absent} /\ t.act \in {"I", "U", "D"}
        BY <1>1, <2>1, <3>2 DEF ClientWrites
      <4>3. t.act = "D" => work[r].row = Absent
        BY <2>4 DEF Written
      <4>4. t.act # "D" => work[r].row # Absent /\ work[r].row.by = t.tx
        BY <2>4, <3>2, <4>2 DEF Written, CanWrite, Absent, Row
      <4> QED
        BY <2>2, <4>1, <4>2, <4>3, <4>4
    <3> QED
      BY <3>1, <3>2
  <2>6. \A k \in Rows : WritersAt(k, sequence)' = IF table'[k] = Absent THEN {} ELSE {table'[k].by}
    <3> SUFFICES ASSUME NEW k \in Rows
                 PROVE  WritersAt(k, sequence)' = IF table'[k] = Absent THEN {} ELSE {table'[k].by}
      OBVIOUS
    <3>1. PICK id : id = sequence
      OBVIOUS
    <3>2. WritersAt(k, sequence)' = WritersAt(k, id)'
      BY <2>1, <3>1 DEF WritersAt, Until
    <3> QED
      BY <2>5, <3>1, <3>2
  <2> QED
    BY <2>6 DEF TableIsOfLog
<1>3. CASE ~Commits(r)
  <2>1. UNCHANGED <<scenario, log, table>> /\ sequence <= sequence'
    BY <1>1, <1>3, QuietHandles
  <2>2. ASSUME NEW k \in Rows
        PROVE  WritersAt(k, sequence)' = IF table'[k] = Absent THEN {} ELSE {table'[k].by}
    <3>1. WritersAt(k, sequence') = WritersAt(k, sequence)
      BY <1>1, <2>1, SameBeyondSequence
    <3>2. WritersAt(k, sequence)' = WritersAt(k, sequence')
      BY <2>1 DEF WritersAt, Until
    <3> QED
      BY <2>1, <3>1, <3>2 DEF RowsInv, TableIsOfLog
  <2> QED
    BY <2>2 DEF TableIsOfLog
<1> QED
  BY <1>2, <1>3

\* What is asked for are rows of the table.
LEMMA AskedForRows ==
  ASSUME scenario \in Scenarios, asked \in 0 .. Len(scenario.loads)
  PROVE  AskedFor \subseteq Rows
<1>1. scenario.loads \in Seq(SUBSET Rows)
  BY ScenariosAssumption DEF IsLoading
<1>2. \A i \in 1 .. asked : scenario.loads[i] \subseteq Rows
  BY <1>1, ElementOfSeq
<1> QED
  BY <1>2 DEF AskedFor

\* What the client and the stream know stays true while the service works.
LEMMA ClientStays ==
  ASSUME ServiceInv, RowsInv, NEW r \in Requests, Handles(r), UNCHANGED <<stream, wire, client>>
  PROVE  ReadTypeOK' /\ WindowInv' /\ LinesInv' /\ StoreInv' /\ ArrivalInv'
<1>1. scenario' = scenario /\ UNCHANGED <<stream, wire, store, cursor, firstId, booted, asked>>
  BY QuietHandles DEF client, Commits
<1>2. ASSUME NEW id \in Nat, Seen(id)
      PROVE  /\ Seen(id)'
             /\ \A k \in Rows : /\ WritersAt(k, id)' = WritersAt(k, id)
                                /\ Untouched(k, id)' => Untouched(k, id)
  <2>1. CASE Commits(r)
    BY <1>2, <2>1, SeenStays
  <2>2. CASE ~Commits(r)
    BY <1>2, <2>2, QuietHandles DEF Seen, WritersAt, Until, Untouched
  <2> QED
    BY <2>1, <2>2
<1>3. cursor \in Nat /\ firstId \in Nat /\ Seen(cursor) /\ Seen(firstId)
  BY DEF RowsInv, ReadTypeOK, WindowInv
<1>4. stream # NoStream => stream.since \in Nat /\ Seen(stream.since) /\ stream.wanted \subseteq Rows
  BY DEF RowsInv, ReadTypeOK, WindowInv, StreamType
<1>5. ReadTypeOK'
  BY <1>1 DEF RowsInv, ReadTypeOK
<1>6. WindowInv'
  BY <1>1, <1>2, <1>3, <1>4 DEF RowsInv, WindowInv
<1>7. LinesInv'
  <2>1. ASSUME stream # NoStream, NEW line \in ToSet(stream.rest) \cup ToSet(wire)
        PROVE  line.row \in Rows
    <3>1. stream.rest \in Seq(Line) /\ wire \in Seq(Line)
      BY <2>1 DEF RowsInv, ReadTypeOK, StreamType
    <3>2. line \in Line
      BY <2>1, <3>1, ListsOf
    <3> QED
      BY <3>2 DEF Line
  <2> QED
    BY <1>1, <1>2, <1>4, <2>1 DEF RowsInv, LinesInv
<1>8. StoreInv'
  BY <1>1, <1>2, <1>3 DEF RowsInv, StoreInv, RowsAreOfTheCursor, IsRow
<1>9. ArrivalInv'
  <2>1. \A k : Coming(k)' = Coming(k) /\ Arrived(k)' = Arrived(k)
    BY <1>1 DEF Coming, Arrived, Unread, After
  <2>2. AskedFor' = AskedFor
    BY <1>1 DEF AskedFor
  <2>3. AskedFor \subseteq Rows
    BY AskedForRows DEF ServiceInv, ServiceTypeOK, RowsInv, ReadTypeOK
  <2> QED
    BY <1>1, <1>2, <1>3, <1>4, <2>1, <2>2, <2>3 DEF RowsInv, ArrivalInv
<1> QED
  BY <1>5, <1>6, <1>7, <1>8, <1>9

-----------------------------------------------------------------------------
(* The reads, and the client's steps, keep it. *)

\* While nothing is written, the rows and the log are what they were.
LEMMA ServiceIsStill ==
  ASSUME RowsInv, UNCHANGED mutateVars
  PROVE  /\ RowsAreLocked' /\ TableIsOfLog'
         /\ Seen(cursor)' = Seen(cursor') /\ Seen(firstId)' = Seen(firstId')
         /\ Seen(stream.since)' = Seen(stream'.since)
         /\ \A k : /\ WritersAt(k, cursor)' = WritersAt(k, cursor')
                   /\ WritersAt(k, firstId)' = WritersAt(k, firstId')
                   /\ WritersAt(k, stream.since)' = WritersAt(k, stream'.since)
                   /\ Untouched(k, firstId)' = Untouched(k, firstId')
                   /\ Untouched(k, stream.since)' = Untouched(k, stream'.since)
<1>1. scenario' = scenario /\ log' = log /\ table' = table /\ work' = work /\ sequence' = sequence
  BY DEF mutateVars
<1>2. RowsAreLocked'
  <2>1. RowsAreLocked
    BY DEF RowsInv
  <2> QED
    BY <1>1, <2>1 DEF RowsAreLocked, Requests, RowIsFree, HoldsRow, Doing, CanWrite
<1>3. TableIsOfLog'
  BY <1>1 DEF RowsInv, TableIsOfLog, WritersAt, Until
<1>4. /\ Seen(cursor)' = Seen(cursor') /\ Seen(firstId)' = Seen(firstId')
      /\ Seen(stream.since)' = Seen(stream'.since)
  BY <1>1 DEF Seen
<1>5. ASSUME NEW k
      PROVE  /\ WritersAt(k, cursor)' = WritersAt(k, cursor')
             /\ WritersAt(k, firstId)' = WritersAt(k, firstId')
             /\ WritersAt(k, stream.since)' = WritersAt(k, stream'.since)
  BY <1>1 DEF WritersAt, Until
<1>6. ASSUME NEW k
      PROVE  /\ Untouched(k, firstId)' = Untouched(k, firstId')
             /\ Untouched(k, stream.since)' = Untouched(k, stream'.since)
  BY <1>1 DEF Untouched
<1> QED
  BY <1>2, <1>3, <1>4, <1>5, <1>6

\* A row that was not touched since is in the table as it was.
LEMMA UntouchedIsInTable ==
  ASSUME ServiceInv, RowsInv, NEW k \in Rows, NEW id \in Nat, Seen(id), Untouched(k, id)
  PROVE  WritersAt(k, id) = IF table[k] = Absent THEN {} ELSE {table[k].by}
<1>1. sequence \in Nat /\ id <= sequence
  BY DEF ServiceInv, ServiceTypeOK, Seen, IdsInOrder
<1>2. WritersAt(k, sequence) = WritersAt(k, id)
  BY <1>1, SameIfUntouched
<1> QED
  BY <1>2 DEF RowsInv, TableIsOfLog

LEMMA TouchedIsNot ==
  ASSUME ServiceInv, NEW ks, NEW k \in ks, NEW id \in Nat
  PROVE  k \in Touched(ks, id) <=> ~Untouched(k, id)
<1>1. \A i \in DOMAIN log : log[i].id \in Nat
  BY EntryIds DEF ServiceInv
<1> QED
  BY <1>1 DEF Touched, Untouched, Entries, ToSet

\* The last id is one a reader comes to.
LEMMA LastIsSeen ==
  ASSUME ServiceInv
  PROVE  LastId \in Nat /\ Seen(LastId)
<1>1. log \in Seq(Entry) /\ \A i \in DOMAIN log : log[i].id \in Nat
  BY EntryIds DEF ServiceInv, ServiceTypeOK
<1>2. CASE log = <<>>
  BY <1>2 DEF LastId, Seen
<1>3. CASE log # <<>>
  <2>1. Len(log) \in DOMAIN log /\ Last(log) = log[Len(log)]
    BY <1>1, <1>3 DEF Last
  <2> QED
    BY <1>1, <1>3, <2>1 DEF LastId, Seen
<1> QED
  BY <1>2, <1>3

\* Two cursors differ at a first field.
LEMMA FirstDifference ==
  ASSUME NEW a \in Seq(Nat), NEW b \in Seq(Nat), Len(a) = Len(b), a # b
  PROVE  \E i \in DOMAIN a : a[i] # b[i] /\ \A h \in 1 .. i - 1 : a[h] = b[h]
<1> DEFINE n == Len(a)
           S == {m \in 1 .. n : a[n + 1 - m] # b[n + 1 - m]}
<1>1. n \in Nat /\ DOMAIN a = 1 .. n /\ DOMAIN b = 1 .. n
  OBVIOUS
<1>2. PICK i \in 1 .. n : a[i] # b[i]
  BY <1>1
<1>3. n + 1 - i \in S
  <2>1. n + 1 - (n + 1 - i) = i /\ n + 1 - i \in 1 .. n
    BY <1>1
  <2> QED
    BY <1>2, <2>1
<1>4. IsFiniteSet(S) /\ \A m \in S : m \in Nat
  <2>1. IsFiniteSet(1 .. n) /\ S \in SUBSET (1 .. n)
    BY <1>1, FS_Interval
  <2> HIDE DEF S
  <2>2. IsFiniteSet(S)
    BY <2>1, FS_Subset
  <2> QED
    BY <2>1, <2>2
<1>5. PICK m \in S : \A l \in S : l <= m
  <2> HIDE DEF S
  <2> QED
    BY <1>3, <1>4, GreatestExists
<1>6. n + 1 - m \in 1 .. n /\ a[n + 1 - m] # b[n + 1 - m]
  BY <1>1, <1>5
<1>7. ASSUME NEW h \in 1 .. (n + 1 - m) - 1
      PROVE  a[h] = b[h]
  <2>1. n + 1 - (n + 1 - h) = h /\ n + 1 - h \in 1 .. n /\ ~(n + 1 - h <= m)
    <3> HIDE DEF n, S
    <3>1. m \in Nat /\ h \in 1 .. (n + 1 - m) - 1
      BY <1>4
    <3> QED
      BY <1>1, <3>1
  <2>2. n + 1 - h \notin S
    <3> HIDE DEF n, S
    <3> QED
      BY <1>5, <2>1
  <2> QED
    BY <2>1, <2>2
<1> QED
  BY <1>1, <1>6, <1>7

\* The order of the rows is total.
LEMMA OneComesFirst ==
  ASSUME scenario \in Scenarios, NEW j \in Rows, NEW k \in Rows, j # k
  PROVE  Precedes(j, k) \/ Precedes(k, j)
<1> DEFINE a == scenario.cursor[j]
           b == scenario.cursor[k]
<1>1. a \in Seq(Nat) /\ b \in Seq(Nat) /\ a # b /\ Len(a) = Len(b)
  BY ScenariosAssumption DEF IsLoading
<1>2. PICK i \in DOMAIN a : a[i] # b[i] /\ \A h \in 1 .. i - 1 : a[h] = b[h]
  BY <1>1, FirstDifference
<1>3. i \in DOMAIN b /\ a[i] \in Nat /\ b[i] \in Nat
  <2>1. i \in DOMAIN b
    <3> HIDE DEF a, b
    <3> QED
      BY <1>1, <1>2
  <2> QED
    <3> HIDE DEF a, b
    <3> QED
      BY <1>1, <1>2, <2>1, ElementOfSeq
<1>4. Follows(a[i], b[i]) \/ Follows(b[i], a[i])
  BY <1>2, <1>3 DEF Follows, Null
<1> QED
  BY <1>2, <1>3, <1>4 DEF Precedes

\* What a page leaves of what was found is after the page's last row, and there
\* is such only if the page is a whole batch.
LEMMA PageLeavesTheRest ==
  ASSUME scenario \in Scenarios, NEW found \in SUBSET Rows, NEW page \in Pages(found)
  PROVE  /\ page \in Seq(found)
         /\ page = <<>> => found = {}
         /\ page # <<>> => Last(page) \in Rows
         /\ page # <<>> => \A k \in found \ ToSet(page) :
                ~(Len(page) < BatchSize) /\ After(k, scenario.cursor[Last(page)])
<1>1. PICK n \in 0 .. BatchSize : page \in [1 .. n -> found]
  BY DEF Pages
<1>2. BatchSize \in Nat \ {0}
  BY RowLoadingAssumption
<1>3. page \in Seq(found) /\ Len(page) = n /\ n \in Nat /\ DOMAIN page = 1 .. n
  BY <1>1, <1>2
<1>4. IsPage(page, found)
  BY DEF Pages
<1>5. page = <<>> => found = {}
  BY <1>2, <1>3, <1>4 DEF IsPage, ToSet
<1>6. ASSUME page # <<>>
      PROVE  /\ n \in DOMAIN page /\ Last(page) = page[n] /\ Last(page) \in found
             /\ Last(page) \in ToSet(page)
  <2>1. n \in 1 .. n
    BY <1>3, <1>6
  <2> QED
    BY <1>3, <2>1 DEF Last, ToSet
<1>7. ASSUME page # <<>>, NEW k \in found \ ToSet(page)
      PROVE  ~(Len(page) < BatchSize) /\ After(k, scenario.cursor[Last(page)])
  <2>1. ~(Len(page) < BatchSize) /\ ~Precedes(k, Last(page)) /\ k # Last(page)
    BY <1>4, <1>6, <1>7 DEF IsPage
  <2>2. Precedes(Last(page), k)
    BY <1>6, <1>7, <2>1, OneComesFirst
  <2>3. PICK i \in DOMAIN scenario.cursor[Last(page)] :
            /\ Follows(scenario.cursor[k][i], scenario.cursor[Last(page)][i])
            /\ \A h \in 1 .. i - 1 : scenario.cursor[Last(page)][h] = scenario.cursor[k][h]
    BY <2>2 DEF Precedes
  <2> QED
    BY <2>1, <2>3 DEF After
<1> QED
  BY <1>3, <1>5, <1>6, <1>7

LEMMA RowsStart == Init => RowsInv
<1> SUFFICES ASSUME Init
             PROVE  RowsInv
  OBVIOUS
<1>1. /\ scenario \in Scenarios /\ table = Seeded /\ log = <<>> /\ sequence = 0
      /\ work = [r \in Requests |-> Stage("sent", 1, {})]
      /\ stream = NoStream /\ wire = <<>> /\ store = [k \in Rows |-> Absent]
      /\ cursor = 0 /\ firstId = 0 /\ booted = FALSE /\ asked = 0
  BY DEF Init, MutateInit
<1>2. scenario.loads \in Seq(SUBSET Rows)
  BY <1>1, ScenariosAssumption DEF IsLoading
<1>3. ReadTypeOK
  <2>1. 0 \in 0 .. Len(scenario.loads) /\ <<>> \in Seq(Line)
    BY <1>2
  <2>2. [k \in Rows |-> Absent] \in [Rows -> [by : Nat] \cup {Absent}]
    OBVIOUS
  <2> QED
    BY <1>1, <2>1, <2>2 DEF ReadTypeOK
<1>4. RowsAreLocked
  BY <1>1 DEF RowsAreLocked, Stage
<1>5. TableIsOfLog
  <2> SUFFICES ASSUME NEW k \in Rows
               PROVE  WritersAt(k, sequence) = IF table[k] = Absent THEN {} ELSE {table[k].by}
    BY DEF TableIsOfLog
  <2>1. Until(k, sequence) = {}
    BY <1>1 DEF Until
  <2>2. WritersAt(k, sequence) = IF scenario.seed[k] # NoGroup THEN {0} ELSE {}
    BY <2>1 DEF WritersAt
  <2>3. table[k] = IF scenario.seed[k] = NoGroup THEN Absent ELSE [group |-> scenario.seed[k], by |-> 0]
    BY <1>1 DEF Seeded
  <2>4. CASE scenario.seed[k] = NoGroup
    BY <2>2, <2>3, <2>4
  <2>5. CASE scenario.seed[k] # NoGroup
    <3>1. DOMAIN table[k] # DOMAIN Absent /\ table[k].by = 0
      BY <2>3, <2>5 DEF Absent
    <3> QED
      BY <2>2, <2>5, <3>1
  <2> QED
    BY <2>4, <2>5
<1>6. WindowInv /\ LinesInv /\ StoreInv /\ ArrivalInv
  BY <1>1 DEF WindowInv, Seen, LinesInv, StoreInv, RowsAreOfTheCursor, ArrivalInv
<1> QED
  BY <1>3, <1>4, <1>5, <1>6 DEF RowsInv

\* A full bootstrap starts from the last id there is.
LEMMA BootstrapStep ==
  ASSUME ServiceInv, RowsInv, Bootstrap
  PROVE  RowsInv'
<1> DEFINE wanted == IF scenario.lazy THEN {} ELSE Rows
<1>1. /\ ~booted /\ stream = NoStream /\ stream' = Open("bootstrap", wanted, LastId)
      /\ UNCHANGED mutateVars /\ UNCHANGED <<wire, store, cursor, firstId, booted, asked>>
  BY DEF Bootstrap, client
<1>2. scenario' = scenario /\ wanted \in SUBSET Rows
  BY <1>1 DEF mutateVars
<1>3. LastId \in Nat /\ Seen(LastId)
  BY LastIsSeen
<1> HIDE DEF wanted
<1>4. /\ stream' \in StreamType /\ stream'.at = "page" /\ stream'.kind = "bootstrap"
      /\ stream'.wanted = wanted /\ stream'.since = LastId
      /\ stream'.last = NoCursor /\ stream'.rest = <<>> /\ stream' # NoStream
  BY <1>1, <1>2, <1>3 DEF Open, StreamType, NoCursor, NoStream
<1>5. wire = <<>> /\ asked = 0 /\ ~booted
  BY <1>1 DEF RowsInv, WindowInv
<1>6. ReadTypeOK'
  BY <1>1, <1>2, <1>4 DEF RowsInv, ReadTypeOK
<1>7. WindowInv'
  <2>1. Seen(cursor) /\ Seen(firstId) /\ firstId <= cursor
    BY DEF RowsInv, WindowInv
  <2> QED
    BY <1>1, <1>2, <1>3, <1>4, <1>5, <2>1, ServiceIsStill DEF WindowInv, wanted
<1>8. LinesInv'
  BY <1>1, <1>4, <1>5, ListsOf DEF LinesInv, ToSet
<1>9. StoreInv'
  BY <1>1, <1>5 DEF StoreInv, RowsAreOfTheCursor
<1>10. ArrivalInv'
  BY <1>1, <1>4, <1>5 DEF ArrivalInv, Coming, Unread
<1> QED
  BY <1>1, <1>6, <1>7, <1>8, <1>9, <1>10, ServiceIsStill DEF RowsInv

\* A page is read as it is committed: a row that was not touched since the window
\* began is as it was then, and one that was found and not read comes later.
LEMMA ReadStep ==
  ASSUME ServiceInv, RowsInv, ReadPage
  PROVE  RowsInv'
<1>1. /\ stream.at = "page"
      /\ UNCHANGED mutateVars /\ UNCHANGED <<wire, store, cursor, firstId, booted, asked>>
  BY DEF ReadPage, client
<1>2. scenario' = scenario /\ scenario \in Scenarios /\ table \in [Rows -> Row \cup {Absent}]
  BY <1>1 DEF mutateVars, ServiceInv, ServiceTypeOK
<1>3. stream \in StreamType /\ stream # NoStream
  BY <1>1 DEF RowsInv, ReadTypeOK, NoStream
<1>4. stream.wanted \in SUBSET Rows /\ stream.since \in Nat /\ Seen(stream.since)
  BY <1>3 DEF StreamType, RowsInv, WindowInv
<1> DEFINE found == Matching(stream.wanted, stream.last)
<1>5. found \in SUBSET Rows /\ \A k \in found : table[k] # Absent
  BY <1>4 DEF Matching
<1>6. ASSUME NEW k \in stream.wanted, Untouched(k, stream.since), WritersAt(k, stream.since) # {},
             ~Arrived(k)
      PROVE  k \in found
  <2>1. Coming(k)
    BY <1>3, <1>6 DEF RowsInv, ArrivalInv
  <2>2. Unread(k)
    BY <1>1, <2>1 DEF Coming
  <2>3. table[k] # Absent
    BY <1>4, <1>6, UntouchedIsInTable
  <2> QED
    BY <1>6, <2>2, <2>3 DEF Unread, Matching
<1>7. PICK page \in Pages(found) :
        stream' = IF page = <<>> THEN [stream EXCEPT !.at = "ended"]
                  ELSE [stream EXCEPT !.at = "rows",
                                      !.rest = [i \in DOMAIN page |-> [row |-> page[i], by |-> table[page[i]].by]],
                                      !.short = Len(page) < BatchSize,
                                      !.last = scenario.cursor[Last(page)]]
  BY DEF ReadPage
<1> DEFINE lines == [i \in DOMAIN page |-> [row |-> page[i], by |-> table[page[i]].by]]
<1>8. /\ page \in Seq(found)
      /\ page = <<>> => found = {}
      /\ page # <<>> => Last(page) \in Rows
      /\ page # <<>> => \A k \in found \ ToSet(page) :
             ~(Len(page) < BatchSize) /\ After(k, scenario.cursor[Last(page)])
  BY <1>2, <1>5, PageLeavesTheRest
<1>9. /\ lines \in Seq(Line)
      /\ \A line \in ToSet(lines) : line.row \in found /\ line.by = table[line.row].by
      /\ \A k \in ToSet(page) : \E line \in ToSet(lines) : line.row = k
  <2>1. DOMAIN page = 1 .. Len(page) /\ Len(page) \in Nat /\ \A i \in DOMAIN page : page[i] \in found
    BY <1>8
  <2>2. ASSUME NEW i \in DOMAIN page
        PROVE  lines[i] \in Line /\ lines[i].row = page[i] /\ lines[i].by = table[page[i]].by
    <3>1. page[i] \in Rows /\ table[page[i]] \in Row
      BY <1>2, <1>5, <2>1
    <3> QED
      BY <3>1 DEF Line, Row
  <2>3. DOMAIN lines = DOMAIN page
    OBVIOUS
  <2> HIDE DEF lines
  <2>4. \A i \in 1 .. Len(page) : lines[i] \in Line
    BY <2>1, <2>2
  <2>5. lines \in Seq(Line)
    <3>1. lines = [i \in 1 .. Len(page) |-> lines[i]]
      BY <2>1 DEF lines
    <3> QED
      BY <2>1, <2>4, <3>1
  <2> QED
    BY <2>1, <2>2, <2>3, <2>5 DEF ToSet
<1> HIDE DEF found, lines
<1>10. CASE page = <<>>
  <2>1. stream' = [stream EXCEPT !.at = "ended"]
    BY <1>7, <1>10
  <2>2. /\ stream' \in StreamType /\ stream' # NoStream /\ stream'.at = "ended"
        /\ stream'.kind = stream.kind /\ stream'.wanted = stream.wanted
        /\ stream'.since = stream.since /\ stream'.rest = stream.rest
    BY <1>3, <2>1 DEF StreamType, NoStream
  <2>3. ReadTypeOK'
    BY <1>1, <1>2, <2>2 DEF RowsInv, ReadTypeOK
  <2>4. WindowInv'
    BY <1>1, <1>2, <1>3, <2>2, ServiceIsStill DEF RowsInv, WindowInv
  <2>5. LinesInv'
    BY <1>1, <1>3, <2>2, ServiceIsStill DEF RowsInv, LinesInv
  <2>6. StoreInv'
    BY <1>1, <1>2, ServiceIsStill DEF RowsInv, StoreInv, RowsAreOfTheCursor, IsRow
  <2>7. ArrivalInv'
    <3>1. \A k : Arrived(k)' <=> Arrived(k)
      BY <1>1 DEF Arrived
    <3>2. AskedFor' = AskedFor
      BY <1>1, <1>2 DEF AskedFor
    <3>3. found = {}
      BY <1>8, <1>10
    <3> QED
      BY <1>1, <1>3, <1>6, <2>2, <3>1, <3>2, <3>3, ServiceIsStill DEF RowsInv, ArrivalInv
  <2> QED
    BY <1>1, <2>3, <2>4, <2>5, <2>6, <2>7, ServiceIsStill DEF RowsInv
<1>11. CASE page # <<>>
  <2> DEFINE short == Len(page) < BatchSize
             last == scenario.cursor[Last(page)]
  <2>1. stream' = [stream EXCEPT !.at = "rows", !.rest = lines, !.short = short, !.last = last]
    BY <1>7, <1>11 DEF lines
  <2>2. last \in Seq(Nat) /\ short \in BOOLEAN
    BY <1>2, <1>8, <1>11, ScenariosAssumption DEF IsLoading
  <2> HIDE DEF short, last
  <2>3. /\ stream'.at = "rows" /\ stream'.rest = lines /\ stream'.short = short /\ stream'.last = last
        /\ stream'.kind = stream.kind /\ stream'.wanted = stream.wanted /\ stream'.since = stream.since
    BY <1>3, <2>1 DEF StreamType
  <2>4. stream' \in StreamType /\ stream' # NoStream
    BY <1>3, <1>9, <2>1, <2>2, <2>3 DEF StreamType, NoStream
  <2>5. ReadTypeOK'
    BY <1>1, <1>2, <2>4 DEF RowsInv, ReadTypeOK
  <2>6. WindowInv'
    BY <1>1, <1>2, <1>3, <2>3, <2>4, ServiceIsStill DEF RowsInv, WindowInv
  <2>7. LinesInv'
    <3>1. ASSUME NEW line \in ToSet(lines), Untouched(line.row, stream.since)
          PROVE  line.by \in WritersAt(line.row, stream.since)
      <4>1. line.row \in Rows /\ table[line.row] # Absent /\ line.by = table[line.row].by
        BY <1>5, <1>9
      <4> QED
        BY <1>4, <3>1, <4>1, UntouchedIsInTable
    <3>2. \A line \in ToSet(wire) : line.by \in WritersAt(line.row, stream.since)
      BY <1>3 DEF RowsInv, LinesInv
    <3> QED
      BY <1>1, <2>3, <2>4, <3>1, <3>2, ServiceIsStill DEF LinesInv
  <2>8. StoreInv'
    BY <1>1, <1>2, ServiceIsStill DEF RowsInv, StoreInv, RowsAreOfTheCursor, IsRow
  <2>9. ArrivalInv'
    <3>1. \A k : Arrived(k)' <=> Arrived(k)
      BY <1>1 DEF Arrived
    <3>2. AskedFor' = AskedFor
      BY <1>1, <1>2 DEF AskedFor
    <3>3. ASSUME NEW k \in found
          PROVE  Coming(k)'
      <4>1. CASE k \in ToSet(page)
        BY <1>9, <2>3, <4>1 DEF Coming
      <4>2. CASE k \notin ToSet(page)
        <5>1. ~short /\ After(k, last)
          BY <1>8, <1>11, <3>3, <4>2 DEF short, last
        <5>2. After(k, stream.last)'
          BY <1>2, <2>3, <5>1 DEF After
        <5> QED
          BY <2>3, <5>1, <5>2 DEF Coming, Unread
      <4> QED
        BY <4>1, <4>2
    <3> QED
      BY <1>1, <1>6, <2>3, <2>4, <3>1, <3>2, <3>3, ServiceIsStill DEF RowsInv, ArrivalInv
  <2> QED
    BY <1>1, <2>5, <2>6, <2>7, <2>8, <2>9, ServiceIsStill DEF RowsInv
<1> QED
  BY <1>10, <1>11

\* A line is sent if its row was not touched up to now.
LEMMA SendStep ==
  ASSUME ServiceInv, RowsInv, SendRows
  PROVE  RowsInv'
<1>1. /\ stream.at = "rows"
      /\ UNCHANGED mutateVars /\ UNCHANGED <<store, cursor, firstId, booted, asked>>
  BY DEF SendRows, client
<1>2. scenario' = scenario /\ stream \in StreamType /\ stream # NoStream /\ wire \in Seq(Line)
  BY <1>1 DEF mutateVars, RowsInv, ReadTypeOK, NoStream
<1>3. stream.rest \in Seq(Line) /\ stream.since \in Nat /\ stream.wanted \in SUBSET Rows
      /\ stream.short \in BOOLEAN
  BY <1>2 DEF StreamType
<1> DEFINE n == IF Len(stream.rest) < BufferSize THEN Len(stream.rest) ELSE BufferSize
           buffer == SubSeq(stream.rest, 1, n)
           rest == SubSeq(stream.rest, n + 1, Len(stream.rest))
           touched == Touched({buffer[i].row : i \in DOMAIN buffer}, stream.since)
           kept == Without(buffer, {line \in ToSet(buffer) : line.row \in touched})
           at == IF rest # <<>> THEN "rows" ELSE IF stream.short THEN "ended" ELSE "page"
<1>4. wire' = wire \o kept /\ stream' = [stream EXCEPT !.rest = rest, !.at = at]
  BY DEF SendRows
<1>5. n \in Nat /\ n <= Len(stream.rest)
  BY <1>3, RowLoadingAssumption
<1> HIDE DEF n
<1>6. /\ buffer \in Seq(Line) /\ rest \in Seq(Line)
      /\ ToSet(stream.rest) = ToSet(buffer) \cup ToSet(rest)
  BY <1>3, <1>5, SplitLists
<1> HIDE DEF buffer, rest
<1>7. ASSUME NEW line \in ToSet(buffer)
      PROVE  line \in Line /\ (line.row \in touched <=> ~Untouched(line.row, stream.since))
  <2>1. line \in Line /\ line.row \in {buffer[i].row : i \in DOMAIN buffer}
    BY <1>6, <1>7, ListsOf DEF ToSet
  <2> QED
    BY <1>3, <2>1, TouchedIsNot
<1> HIDE DEF touched
<1>8. kept \in Seq(Line)
      /\ ToSet(kept) = {line \in ToSet(buffer) : Untouched(line.row, stream.since)}
  <2>1. kept \in Seq(Line)
        /\ ToSet(kept) = ToSet(buffer) \ {line \in ToSet(buffer) : line.row \in touched}
    BY <1>6, WithoutDropsTheSet
  <2> QED
    BY <1>7, <2>1
<1> HIDE DEF kept
<1>9. wire' \in Seq(Line) /\ ToSet(wire') = ToSet(wire) \cup ToSet(kept)
  BY <1>2, <1>4, <1>8, ListsOf
<1>10. at \in {"page", "rows", "ended"} /\ (ToSet(rest) # {} => at = "rows")
       /\ (~stream.short => at \in {"rows", "page"})
  BY <1>6, ListsOf
<1> HIDE DEF at
<1>11. /\ stream'.at = at /\ stream'.rest = rest /\ stream'.short = stream.short
       /\ stream'.last = stream.last /\ stream'.kind = stream.kind
       /\ stream'.wanted = stream.wanted /\ stream'.since = stream.since
  BY <1>2, <1>4 DEF StreamType
<1>12. stream' \in StreamType /\ stream' # NoStream
  BY <1>2, <1>4, <1>6, <1>10, <1>11 DEF StreamType, NoStream
<1>13. ReadTypeOK'
  BY <1>1, <1>2, <1>9, <1>12 DEF RowsInv, ReadTypeOK
<1>14. WindowInv'
  BY <1>1, <1>2, <1>11, <1>12, ServiceIsStill DEF RowsInv, WindowInv
<1>15. LinesInv'
  <2>1. \A line \in ToSet(rest) :
            Untouched(line.row, stream.since) => line.by \in WritersAt(line.row, stream.since)
    BY <1>2, <1>6 DEF RowsInv, LinesInv
  <2>2. \A line \in ToSet(wire') : line.by \in WritersAt(line.row, stream.since)
    BY <1>2, <1>6, <1>8, <1>9 DEF RowsInv, LinesInv
  <2> QED
    BY <1>1, <1>11, <1>12, <2>1, <2>2, ServiceIsStill DEF LinesInv
<1>16. StoreInv'
  BY <1>1, <1>2, ServiceIsStill DEF RowsInv, StoreInv, RowsAreOfTheCursor, IsRow
<1>17. ArrivalInv'
  <2>1. \A k : Arrived(k) => Arrived(k)'
    BY <1>1, <1>9 DEF Arrived
  <2>2. AskedFor' = AskedFor
    BY <1>1, <1>2 DEF AskedFor
  <2>3. ASSUME NEW k, Coming(k), Untouched(k, stream.since)
        PROVE  Coming(k)' \/ Arrived(k)'
    <3>1. CASE \E line \in ToSet(stream.rest) : line.row = k
      <4>1. PICK line \in ToSet(buffer) \cup ToSet(rest) : line.row = k
        BY <1>6, <3>1
      <4>2. CASE line \in ToSet(buffer)
        BY <1>8, <1>9, <2>3, <4>1, <4>2 DEF Arrived
      <4>3. CASE line \in ToSet(rest)
        BY <1>10, <1>11, <4>1, <4>3 DEF Coming
      <4> QED
        BY <4>2, <4>3
    <3>2. CASE ~stream.short /\ Unread(k)
      <4>1. Unread(k)'
        BY <1>2, <1>11, <3>2 DEF Unread, After
      <4> QED
        BY <1>10, <1>11, <3>2, <4>1 DEF Coming
    <3> QED
      BY <1>1, <2>3, <3>1, <3>2 DEF Coming
  <2>4. ASSUME NEW k \in stream.wanted, Untouched(k, stream.since), WritersAt(k, stream.since) # {}
        PROVE  Coming(k)' \/ Arrived(k)'
    BY <1>2, <2>1, <2>3, <2>4 DEF RowsInv, ArrivalInv
  <2>5. booted => \A k \in AskedFor :
            Untouched(k, firstId) /\ WritersAt(k, firstId) # {} /\ ~(k \in stream.wanted) => Arrived(k)
    BY <1>2 DEF RowsInv, ArrivalInv
  <2> QED
    BY <1>1, <1>11, <1>12, <2>1, <2>2, <2>4, <2>5, ServiceIsStill DEF ArrivalInv
<1> QED
  BY <1>1, <1>13, <1>14, <1>15, <1>16, <1>17, ServiceIsStill DEF RowsInv

\* What was staged replaces the storage, with the id it is of.
LEMMA SnapshotStep ==
  ASSUME ServiceInv, RowsInv, CommitSnapshot
  PROVE  RowsInv'
<1>1. /\ stream.at = "ended" /\ stream.kind = "bootstrap"
      /\ store' = Stored(wire) /\ cursor' = stream.since /\ firstId' = stream.since
      /\ booted' = TRUE /\ stream' = NoStream /\ wire' = <<>>
      /\ UNCHANGED mutateVars /\ asked' = asked
  BY DEF CommitSnapshot
<1>2. scenario' = scenario /\ stream \in StreamType /\ stream # NoStream /\ wire \in Seq(Line)
  BY <1>1 DEF mutateVars, RowsInv, ReadTypeOK, NoStream
<1>3. /\ stream.since \in Nat /\ Seen(stream.since) /\ ~booted /\ asked = 0
      /\ stream.wanted = IF scenario.lazy THEN {} ELSE Rows
  BY <1>1, <1>2 DEF StreamType, RowsInv, WindowInv
<1>4. ASSUME NEW k \in Rows
      PROVE  /\ store'[k] \in [by : Nat] \cup {Absent}
             /\ store'[k] # Absent => store'[k].by \in WritersAt(k, stream.since)
             /\ (\E line \in ToSet(wire) : line.row = k) => store'[k] # Absent
  <2>1. \A i \in DOMAIN wire : wire[i] \in Line
    BY <1>2
  <2>2. CASE \E i \in DOMAIN wire : wire[i].row = k
    <3> DEFINE i == CHOOSE i \in DOMAIN wire : wire[i].row = k
    <3>1. i \in DOMAIN wire /\ wire[i].row = k
      BY <2>2
    <3>2. store'[k] = [by |-> wire[i].by]
      BY <1>1, <2>2 DEF Stored
    <3> HIDE DEF i
    <3>3. wire[i].by \in Nat /\ wire[i] \in ToSet(wire)
      BY <2>1, <3>1 DEF Line, ToSet
    <3>4. wire[i].by \in WritersAt(k, stream.since)
      BY <1>2, <3>1, <3>3 DEF RowsInv, LinesInv
    <3>5. store'[k] # Absent
      <4>1. DOMAIN store'[k] # DOMAIN Absent
        BY <3>2 DEF Absent
      <4> QED
        BY <4>1
    <3> QED
      BY <3>2, <3>3, <3>4, <3>5
  <2>3. CASE ~\E i \in DOMAIN wire : wire[i].row = k
    <3>1. store'[k] = Absent
      BY <1>1, <2>3 DEF Stored
    <3> QED
      BY <2>3, <3>1 DEF ToSet
  <2> QED
    BY <2>2, <2>3
<1>5. ReadTypeOK'
  <2>1. store' \in [Rows -> [by : Nat] \cup {Absent}]
    <3>1. store' = [k \in Rows |-> store'[k]]
      BY <1>1 DEF Stored
    <3> QED
      BY <1>4, <3>1
  <2>2. asked \in 0 .. Len(scenario.loads) /\ <<>> \in Seq(Line)
    BY DEF RowsInv, ReadTypeOK
  <2> QED
    BY <1>1, <1>2, <1>3, <2>1, <2>2 DEF ReadTypeOK
<1>6. WindowInv'
  <2>1. Seen(cursor)' /\ Seen(firstId)' /\ firstId' <= cursor'
    <3>1. Seen(cursor') /\ Seen(firstId')
      BY <1>1, <1>3
    <3>2. Seen(cursor)' = Seen(cursor') /\ Seen(firstId)' = Seen(firstId')
      BY <1>1, ServiceIsStill
    <3> QED
      BY <1>1, <1>3, <3>1, <3>2
  <2> QED
    BY <1>1, <2>1 DEF WindowInv
<1>7. LinesInv'
  BY <1>1 DEF LinesInv
<1>8. StoreInv'
  BY <1>1, <1>4, ServiceIsStill DEF StoreInv, RowsAreOfTheCursor, IsRow
<1>9. ArrivalInv'
  <2>1. AskedFor' = IF scenario.lazy THEN {} ELSE Rows
    <3>1. 1 .. asked' = {}
      BY <1>1, <1>3
    <3> QED
      BY <1>2, <3>1 DEF AskedFor
  <2>2. ASSUME NEW k \in AskedFor', Untouched(k, stream.since), WritersAt(k, stream.since) # {}
        PROVE  Arrived(k)'
    <3>1. k \in stream.wanted /\ k \in Rows
      BY <1>3, <2>1, <2>2
    <3>2. ~Coming(k)
      BY <1>1 DEF Coming
    <3>3. Arrived(k)
      BY <1>2, <2>2, <3>1, <3>2 DEF RowsInv, ArrivalInv
    <3> QED
      BY <1>1, <1>3, <1>4, <3>1, <3>3 DEF Arrived
  <2> QED
    BY <1>1, <2>2, ServiceIsStill DEF ArrivalInv
<1> QED
  BY <1>1, <1>5, <1>6, <1>7, <1>8, <1>9, ServiceIsStill DEF RowsInv

\* The next action in the log is the one change to the rows between its id and
\* the last one before it.
LEMMA NextAction ==
  ASSUME ServiceInv, NEW id \in Nat, NEW i \in DOMAIN log, log[i].id > id,
         \A j \in 1 .. i - 1 : log[j].id <= id, NEW k
  PROVE  WritersAt(k, log[i].id) = IF log[i].row # k THEN WritersAt(k, id)
                                   ELSE IF log[i].act = "D" THEN {} ELSE {log[i].tx}
<1> DEFINE a == log[i].id
<1>1. /\ \A j \in DOMAIN log : log[j].id \in Nat
      /\ \A j, l \in DOMAIN log : j < l => log[j].id < log[l].id
  BY EntryIds DEF ServiceInv, IdsInOrder
<1>2. DOMAIN log = 1 .. Len(log) /\ Len(log) \in Nat
  BY DEF ServiceInv, ServiceTypeOK
<1>3. a \in Nat /\ a > id
  BY <1>1
<1>4. \A j \in DOMAIN log : log[j].id <= a <=> j = i \/ log[j].id <= id
  <2> SUFFICES ASSUME NEW j \in DOMAIN log
               PROVE  log[j].id <= a <=> j = i \/ log[j].id <= id
    OBVIOUS
  <2>1. CASE j < i
    <3>1. log[j].id <= id /\ log[j].id \in Nat
      BY <1>1, <1>2, <2>1
    <3> QED
      BY <1>3, <3>1
  <2>2. CASE j = i
    BY <1>1, <2>2
  <2>3. CASE j > i
    <3>1. a < log[j].id /\ log[j].id \in Nat
      BY <1>1, <2>3
    <3> QED
      BY <1>3, <2>3, <3>1
  <2> QED
    BY <1>2, <2>1, <2>2, <2>3
<1> HIDE DEF a
<1>5. CASE log[i].row # k
  <2>1. Until(k, a) = Until(k, id)
    BY <1>4, <1>5 DEF Until
  <2> QED
    BY <1>5, <2>1, SameUntil DEF a
<1>6. CASE log[i].row = k
  <2>1. i \in Until(k, a)
    BY <1>4, <1>6 DEF Until
  <2>2. \A j \in Until(k, a) : j \in Nat /\ j <= i
    <3> SUFFICES ASSUME NEW j \in DOMAIN log, log[j].id <= a, i < j
                 PROVE  FALSE
      BY <1>2 DEF Until
    <3>1. log[i].id < log[j].id
      BY <1>1
    <3> QED
      BY <1>1, <1>3, <3>1 DEF a
  <2>3. \A j \in Until(k, a) : (\A l \in Until(k, a) : l <= j) <=> j = i
    <3> SUFFICES ASSUME NEW j \in Until(k, a)
                 PROVE  (\A l \in Until(k, a) : l <= j) <=> j = i
      OBVIOUS
    <3>1. j \in Nat /\ i \in Nat /\ j <= i
      BY <2>1, <2>2
    <3>2. CASE j = i
      BY <2>2, <3>2
    <3>3. CASE j # i
      BY <2>1, <3>1, <3>3
    <3> QED
      BY <3>2, <3>3
  <2>4. Until(k, a) # {}
    BY <2>1
  <2>5. WritersAt(k, a) = {log[j].tx : j \in {j \in Until(k, a) : log[j].act # "D" /\ j = i}}
    BY <2>3, <2>4 DEF WritersAt
  <2>6. WritersAt(k, a) = IF log[i].act = "D" THEN {} ELSE {log[i].tx}
    BY <2>1, <2>5
  <2> QED
    BY <1>6, <2>6 DEF a
<1> QED
  BY <1>5, <1>6

\* A delta makes a stored row that of its action, and changes no other.
LEMMA DeltaStep ==
  ASSUME ServiceInv, RowsInv, ApplyDelta
  PROVE  RowsInv'
<1>1. booted /\ UNCHANGED mutateVars /\ UNCHANGED <<stream, wire, firstId, booted, asked>>
  BY DEF ApplyDelta
<1>2. PICK i \in DOMAIN log :
        /\ log[i].id > cursor /\ \A j \in 1 .. i - 1 : log[j].id <= cursor
        /\ store' = [store EXCEPT ![log[i].row] = Applied(@, log[i])]
        /\ cursor' = log[i].id
  BY DEF ApplyDelta
<1>3. /\ scenario' = scenario /\ log[i] \in Entry
      /\ store \in [Rows -> [by : Nat] \cup {Absent}] /\ cursor \in Nat /\ firstId \in Nat
  BY <1>1, EntryIds DEF mutateVars, ServiceInv, RowsInv, ReadTypeOK
<1> DEFINE e == log[i]
           k0 == e.row
<1>4. e.id \in Nat /\ k0 \in Rows /\ e.tx \in Nat /\ e.act \in {"I", "U", "D"}
  BY <1>3 DEF Entry
<1>5. /\ store'[k0] \in [by : Nat] \cup {Absent}
      /\ store'[k0] # Absent => store'[k0].by = e.tx /\ e.act # "D"
      /\ \A k \in Rows \ {k0} : store'[k] = store[k]
      /\ store' = [store EXCEPT ![k0] = store'[k0]]
  <2>1. /\ store'[k0] = Applied(store[k0], e)
        /\ \A k \in Rows \ {k0} : store'[k] = store[k]
        /\ store' = [store EXCEPT ![k0] = store'[k0]]
    BY <1>2, <1>3, <1>4
  <2>2. Applied(store[k0], e) \in {Absent, [by |-> e.tx]}
        /\ (e.act = "D" => Applied(store[k0], e) = Absent)
    BY <1>4 DEF Applied
  <2>3. /\ store'[k0] = Absent \/ store'[k0] = [by |-> e.tx]
        /\ e.act = "D" => store'[k0] = Absent
    BY <2>1, <2>2
  <2>4. store'[k0] \in [by : Nat] \cup {Absent}
    BY <1>4, <2>3
  <2>5. store'[k0] # Absent => store'[k0].by = e.tx /\ e.act # "D"
    BY <2>3
  <2> HIDE DEF e, k0
  <2> QED
    BY <2>1, <2>4, <2>5
<1>6. store' \in [Rows -> [by : Nat] \cup {Absent}]
  BY <1>3, <1>4, <1>5
<1>7. Seen(cursor') /\ cursor' \in Nat /\ firstId <= cursor' /\ ~Untouched(k0, firstId)
  <2>1. firstId <= cursor /\ cursor < e.id
    BY <1>2, <1>3, <1>4 DEF RowsInv, WindowInv
  <2>2. firstId < e.id
    BY <1>3, <1>4, <2>1
  <2>3. ~(e.id <= firstId)
    BY <1>3, <1>4, <2>2
  <2> QED
    BY <1>2, <1>3, <1>4, <2>2, <2>3 DEF Seen, Untouched
<1>8. \A k : WritersAt(k, cursor') = IF k0 # k THEN WritersAt(k, cursor)
                                     ELSE IF e.act = "D" THEN {} ELSE {e.tx}
  BY <1>2, <1>3, NextAction
<1> HIDE DEF e, k0
<1>9. ReadTypeOK'
  BY <1>1, <1>3, <1>6, <1>7 DEF RowsInv, ReadTypeOK
<1>10. WindowInv'
  <2>1. Seen(cursor)' /\ firstId' <= cursor'
    <3>1. Seen(cursor)' = Seen(cursor')
      BY <1>1, ServiceIsStill
    <3> QED
      BY <1>1, <1>7, <3>1
  <2> QED
    BY <1>1, <1>3, <2>1, ServiceIsStill DEF RowsInv, WindowInv
<1>11. LinesInv'
  BY <1>1, ServiceIsStill DEF RowsInv, LinesInv
<1>12. StoreInv'
  <2>1. ASSUME ~scenario.lazy, NEW k \in Rows, store'[k] # Absent
        PROVE  store'[k].by \in WritersAt(k, cursor')
    <3>1. CASE k = k0
      BY <1>5, <1>8, <2>1, <3>1
    <3>2. CASE k # k0
      <4>1. store'[k] = store[k] /\ store[k].by \in WritersAt(k, cursor)
        BY <1>1, <1>5, <2>1, <3>2 DEF RowsInv, StoreInv, RowsAreOfTheCursor, IsRow
      <4> QED
        BY <1>8, <3>2, <4>1
    <3> QED
      BY <3>1, <3>2
  <2>2. ASSUME NEW k \in Rows, store'[k] # Absent, Untouched(k, firstId)
        PROVE  store'[k].by \in WritersAt(k, firstId)
    <3>1. store'[k] = store[k]
      BY <1>5, <1>7, <2>2
    <3> QED
      BY <1>1, <2>2, <3>1 DEF RowsInv, StoreInv
  <2> QED
    BY <1>1, <1>3, <2>1, <2>2, ServiceIsStill DEF StoreInv, RowsAreOfTheCursor, IsRow
<1>13. ArrivalInv'
  <2>1. \A k : Coming(k)' <=> Coming(k)
    BY <1>1, <1>3 DEF Coming, Unread, After
  <2>2. \A k \in Rows \ {k0} : Arrived(k)' <=> Arrived(k)
    BY <1>1, <1>5 DEF Arrived
  <2>3. AskedFor' = AskedFor /\ AskedFor \subseteq Rows
    BY <1>1, <1>3, AskedForRows DEF AskedFor, ServiceInv, ServiceTypeOK, RowsInv, ReadTypeOK
  <2>4. stream # NoStream => stream.since = firstId /\ stream.wanted \subseteq Rows
    BY <1>1 DEF RowsInv, ReadTypeOK, StreamType, WindowInv
  <2> QED
    BY <1>1, <1>7, <2>1, <2>2, <2>3, <2>4, ServiceIsStill DEF RowsInv, ArrivalInv
<1> QED
  BY <1>1, <1>9, <1>10, <1>11, <1>12, <1>13, ServiceIsStill DEF RowsInv

\* A load asks for rows, from the start of the window, or finds its one row stored.
LEMMA LoadStep ==
  ASSUME ServiceInv, RowsInv, Load
  PROVE  RowsInv'
<1>1. /\ booted /\ stream = NoStream /\ asked < Len(scenario.loads) /\ asked' = asked + 1
      /\ stream' = IF Cardinality(Wanted) = 1 /\ \A k \in Wanted : store[k] # Absent THEN NoStream
                   ELSE Open("load", Wanted, firstId)
      /\ UNCHANGED mutateVars /\ UNCHANGED <<wire, store, cursor, firstId, booted>>
  BY DEF Load
<1>2. scenario' = scenario /\ scenario \in Scenarios /\ asked \in Nat /\ firstId \in Nat
  BY <1>1 DEF mutateVars, ServiceInv, ServiceTypeOK, RowsInv, ReadTypeOK
<1>3. scenario.lazy /\ scenario.loads \in Seq(SUBSET Rows) /\ asked + 1 \in DOMAIN scenario.loads
  <2>1. scenario.loads \in Seq(SUBSET Rows) /\ (scenario.lazy \/ scenario.loads = <<>>)
    BY <1>2, ScenariosAssumption DEF IsLoading
  <2>2. asked + 1 \in DOMAIN scenario.loads
    BY <1>1, <1>2, <2>1
  <2> QED
    BY <2>1, <2>2
<1>4. Wanted \in SUBSET Rows
  BY <1>3, ElementOfSeq DEF Wanted
<1>5. AskedFor' = AskedFor \cup Wanted /\ AskedFor \subseteq Rows
  <2>1. 1 .. asked' = (1 .. asked) \cup {asked + 1}
    BY <1>1, <1>2
  <2>2. AskedFor = UNION {scenario.loads[i] : i \in 1 .. asked}
        /\ AskedFor' = UNION {scenario.loads[i] : i \in 1 .. asked'}
    BY <1>2, <1>3 DEF AskedFor
  <2> QED
    BY <2>1, <2>2, AskedForRows DEF Wanted, ServiceInv, ServiceTypeOK, RowsInv, ReadTypeOK
<1> HIDE DEF Wanted
<1>6. wire = <<>> /\ Seen(firstId)
  BY <1>1 DEF RowsInv, WindowInv
<1>7. StoreInv'
  BY <1>1, <1>2, ServiceIsStill DEF RowsInv, StoreInv, RowsAreOfTheCursor, IsRow
<1>8. \A k : Arrived(k)' <=> Arrived(k)
  BY <1>1 DEF Arrived
<1>9. ASSUME NEW k \in AskedFor, Untouched(k, firstId), WritersAt(k, firstId) # {}
      PROVE  Arrived(k)
  BY <1>1, <1>9 DEF RowsInv, ArrivalInv
<1>10. asked' \in 0 .. Len(scenario.loads)
  BY <1>1, <1>2, <1>3
<1>11. CASE stream' = NoStream
  <2>1. \A k \in Wanted : store[k] # Absent
    BY <1>1, <1>11 DEF Open, NoStream
  <2>2. ReadTypeOK'
    BY <1>1, <1>2, <1>10, <1>11 DEF RowsInv, ReadTypeOK
  <2>3. WindowInv'
    BY <1>1, <1>2, <1>6, <1>11, ServiceIsStill DEF RowsInv, WindowInv
  <2>4. LinesInv'
    BY <1>11 DEF LinesInv
  <2>5. ArrivalInv'
    BY <1>1, <1>5, <1>8, <1>9, <1>11, <2>1, ServiceIsStill DEF ArrivalInv, Arrived
  <2> QED
    BY <1>1, <1>7, <2>2, <2>3, <2>4, <2>5, ServiceIsStill DEF RowsInv
<1>12. CASE stream' # NoStream
  <2>1. stream' = Open("load", Wanted, firstId)
    BY <1>1, <1>12
  <2>2. /\ stream' \in StreamType /\ stream'.at = "page" /\ stream'.kind = "load"
        /\ stream'.wanted = Wanted /\ stream'.since = firstId
        /\ stream'.last = NoCursor /\ stream'.rest = <<>>
    BY <1>2, <1>4, <2>1 DEF Open, StreamType, NoCursor
  <2>3. ReadTypeOK'
    BY <1>1, <1>2, <1>10, <2>2 DEF RowsInv, ReadTypeOK
  <2>4. WindowInv'
    BY <1>1, <1>2, <1>3, <1>6, <2>2, ServiceIsStill DEF RowsInv, WindowInv
  <2>5. LinesInv'
    BY <1>1, <1>6, <2>2, ListsOf DEF LinesInv, ToSet
  <2>6. \A k : Coming(k)'
    BY <2>2 DEF Coming, Unread
  <2>7. ArrivalInv'
    BY <1>1, <1>5, <1>8, <1>9, <1>12, <2>2, <2>6, ServiceIsStill DEF ArrivalInv
  <2> QED
    BY <1>1, <1>7, <2>3, <2>4, <2>5, <2>7, ServiceIsStill DEF RowsInv
<1> QED
  BY <1>11, <1>12

\* A row that arrived is stored, whatever is there.
LEMMA StoreStep ==
  ASSUME ServiceInv, RowsInv, StoreRow
  PROVE  RowsInv'
<1>1. /\ booted /\ wire # <<>> /\ wire' = Tail(wire)
      /\ store' = [store EXCEPT ![Head(wire).row] = [by |-> Head(wire).by]]
      /\ UNCHANGED mutateVars /\ UNCHANGED <<stream, cursor, firstId, booted, asked>>
  BY DEF StoreRow
<1> DEFINE line == Head(wire)
<1>2. /\ scenario' = scenario /\ scenario.lazy /\ stream # NoStream /\ stream.since = firstId
      /\ wire \in Seq(Line) /\ store \in [Rows -> [by : Nat] \cup {Absent}]
  BY <1>1 DEF mutateVars, RowsInv, ReadTypeOK, WindowInv
<1>3. line \in Line /\ line \in ToSet(wire) /\ wire' \in Seq(Line)
      /\ ToSet(wire) = {line} \cup ToSet(wire')
  BY <1>1, <1>2, HeadAndTail
<1> HIDE DEF line
<1>4. line.row \in Rows /\ line.by \in Nat /\ line.by \in WritersAt(line.row, firstId)
  BY <1>2, <1>3 DEF Line, RowsInv, LinesInv
<1>5. /\ store' \in [Rows -> [by : Nat] \cup {Absent}]
      /\ store'[line.row] = [by |-> line.by] /\ store'[line.row] # Absent
      /\ \A k \in Rows \ {line.row} : store'[k] = store[k]
  <2>1. store' = [store EXCEPT ![line.row] = [by |-> line.by]]
    BY <1>1 DEF line
  <2>2. store'[line.row] = [by |-> line.by] /\ \A k \in Rows \ {line.row} : store'[k] = store[k]
    BY <1>2, <1>4, <2>1
  <2>3. DOMAIN store'[line.row] # DOMAIN Absent
    BY <2>2 DEF Absent
  <2>4. [by |-> line.by] \in [by : Nat] \cup {Absent}
    BY <1>4
  <2>5. store' \in [Rows -> [by : Nat] \cup {Absent}]
    BY <1>2, <2>1, <2>4
  <2> QED
    BY <2>2, <2>3, <2>5
<1>6. ReadTypeOK'
  BY <1>1, <1>2, <1>3, <1>5 DEF RowsInv, ReadTypeOK
<1>7. WindowInv'
  BY <1>1, <1>2, ServiceIsStill DEF RowsInv, WindowInv
<1>8. LinesInv'
  BY <1>1, <1>3, ServiceIsStill DEF RowsInv, LinesInv
<1>9. StoreInv'
  <2>1. ASSUME NEW k \in Rows, store'[k] # Absent, Untouched(k, firstId)
        PROVE  store'[k].by \in WritersAt(k, firstId)
    BY <1>1, <1>4, <1>5, <2>1 DEF RowsInv, StoreInv
  <2> QED
    BY <1>1, <1>2, <2>1, ServiceIsStill DEF StoreInv, RowsAreOfTheCursor
<1>10. ArrivalInv'
  <2>1. \A k : Coming(k)' <=> Coming(k)
    BY <1>1, <1>2 DEF Coming, Unread, After
  <2>2. \A k \in Rows : Arrived(k) => Arrived(k)'
    BY <1>1, <1>3, <1>4, <1>5 DEF Arrived
  <2>3. AskedFor' = AskedFor /\ AskedFor \subseteq Rows
    BY <1>1, <1>2, AskedForRows DEF AskedFor, ServiceInv, ServiceTypeOK, RowsInv, ReadTypeOK
  <2>4. stream.wanted \subseteq Rows
    BY <1>2 DEF RowsInv, ReadTypeOK, StreamType
  <2> QED
    BY <1>1, <1>2, <2>1, <2>2, <2>3, <2>4, ServiceIsStill DEF RowsInv, ArrivalInv
<1> QED
  BY <1>1, <1>6, <1>7, <1>8, <1>9, <1>10, ServiceIsStill DEF RowsInv

LEMMA LoadEndsStep ==
  ASSUME ServiceInv, RowsInv, LoadEnds
  PROVE  RowsInv'
<1>1. /\ stream.at = "ended" /\ stream.kind = "load" /\ wire = <<>> /\ stream' = NoStream
      /\ UNCHANGED mutateVars /\ UNCHANGED <<wire, store, cursor, firstId, booted, asked>>
  BY DEF LoadEnds, client
<1>2. scenario' = scenario /\ stream # NoStream
  BY <1>1 DEF mutateVars, NoStream
<1>3. booted /\ stream.since = firstId
  BY <1>1, <1>2 DEF RowsInv, WindowInv
<1>4. ReadTypeOK'
  BY <1>1, <1>2 DEF RowsInv, ReadTypeOK
<1>5. WindowInv'
  BY <1>1, <1>2, <1>3, ServiceIsStill DEF RowsInv, WindowInv
<1>6. LinesInv'
  BY <1>1 DEF LinesInv
<1>7. StoreInv'
  BY <1>1, <1>2, ServiceIsStill DEF RowsInv, StoreInv, RowsAreOfTheCursor, IsRow
<1>8. ArrivalInv'
  <2>1. \A k : ~Coming(k) /\ (Arrived(k)' <=> Arrived(k))
    BY <1>1 DEF Coming, Arrived
  <2>2. AskedFor' = AskedFor
    BY <1>1, <1>2 DEF AskedFor
  <2> QED
    BY <1>1, <1>2, <1>3, <2>1, <2>2, ServiceIsStill DEF RowsInv, ArrivalInv
<1> QED
  BY <1>1, <1>4, <1>5, <1>6, <1>7, <1>8, ServiceIsStill DEF RowsInv

LEMMA RowsNext ==
  ASSUME ServiceInv, RowsInv, [Next]_vars
  PROVE  RowsInv'
<1>1. ServiceInv'
  BY ServiceNext
<1>2. CASE Writes
  <2>1. PICK r \in Requests : Handles(r)
    BY <1>2 DEF Writes
  <2>2. UNCHANGED <<stream, wire, client>>
    BY <1>2 DEF Writes
  <2> QED
    BY <1>1, <2>1, <2>2, LocksStep, TableStep, ClientStays DEF RowsInv
<1>3. CASE UNCHANGED vars
  <2>1. UNCHANGED mutateVars /\ UNCHANGED <<stream, wire, store, cursor, firstId, booted, asked>>
        /\ scenario' = scenario
    BY <1>3 DEF vars, mutateVars
  <2>2. ReadTypeOK' /\ WindowInv'
    BY <2>1, ServiceIsStill DEF RowsInv, ReadTypeOK, WindowInv
  <2>3. LinesInv' /\ StoreInv'
    BY <2>1, ServiceIsStill DEF RowsInv, LinesInv, StoreInv, RowsAreOfTheCursor, IsRow
  <2>4. \A k : (Coming(k)' <=> Coming(k)) /\ (Arrived(k)' <=> Arrived(k))
    BY <2>1 DEF Coming, Unread, After, Arrived
  <2>5. AskedFor' = AskedFor
    BY <2>1 DEF AskedFor
  <2>6. ArrivalInv'
    BY <2>1, <2>4, <2>5, ServiceIsStill DEF RowsInv, ArrivalInv
  <2> QED
    BY <2>1, <2>2, <2>3, <2>6, ServiceIsStill DEF RowsInv
<1> QED
  BY <1>2, <1>3, BootstrapStep, ReadStep, SendStep, SnapshotStep, DeltaStep, LoadStep, StoreStep,
     LoadEndsStep DEF Next, Rests

-----------------------------------------------------------------------------
(* The theorems about the rows. *)

\* The invariant of the rows holds of every reachable state.
THEOREM RowsInvAlways == Spec => [](ServiceInv /\ RowsInv)
<1>1. Init => ServiceInv /\ RowsInv
  BY ServiceStarts, RowsStart
<1>2. ServiceInv /\ RowsInv /\ [Next]_vars => (ServiceInv /\ RowsInv)'
  BY ServiceNext, RowsNext
<1> QED
  BY <1>1, <1>2, PTL DEF Spec

\* The rows of a model the bootstrap loads are those of the client's cursor,
\* whatever is written, and in whatever order, while the table is read.
THEOREM RowsAreAlwaysOfTheCursor == Spec => []RowsAreOfTheCursor
<1>1. RowsInv => RowsAreOfTheCursor
  BY DEF RowsInv, StoreInv
<1> QED
  BY <1>1, RowsInvAlways, PTL

\* No page is skipped and no row dropped that nobody wrote: a row that was there
\* when the window began and is untouched since is in storage.
THEOREM UntouchedRowsAlwaysArrive == Spec => []UntouchedRowsArrive
<1>1. ASSUME ServiceInv, RowsInv
      PROVE  UntouchedRowsArrive
  <2> SUFFICES ASSUME booted, stream = NoStream, wire = <<>>,
                      NEW k \in AskedFor \ Touched(Rows, firstId), WritersAt(k, firstId) # {}
               PROVE  IsRow(k, firstId)
    BY DEF UntouchedRowsArrive
  <2>1. k \in Rows /\ firstId \in Nat
    <3>1. scenario \in Scenarios /\ asked \in 0 .. Len(scenario.loads) /\ firstId \in Nat
      BY <1>1 DEF ServiceInv, ServiceTypeOK, RowsInv, ReadTypeOK
    <3>2. AskedFor \subseteq Rows
      BY <3>1, AskedForRows
    <3> QED
      BY <3>1, <3>2
  <2>2. Untouched(k, firstId)
    BY <1>1, <2>1, TouchedIsNot
  <2>3. Arrived(k)
    BY <1>1, <2>2 DEF RowsInv, ArrivalInv
  <2>4. store[k] # Absent
    BY <2>3 DEF Arrived, ToSet
  <2> QED
    BY <1>1, <2>1, <2>2, <2>4 DEF IsRow, RowsInv, StoreInv
<1> QED
  BY <1>1, RowsInvAlways, PTL

\* The table is what the log made of it: at every step, each row is of the last
\* committed action on it, so that a snapshot and the log after it agree.
THEOREM TableIsAlwaysOfLog == Spec => []TableIsOfLog
<1>1. RowsInv => TableIsOfLog
  BY DEF RowsInv
<1> QED
  BY <1>1, RowsInvAlways, PTL

-----------------------------------------------------------------------------
(* Answers, and what the log has of them.                                    *)

Sent(r, n) == scenario.requests[r][n].tx

\* No other request, and no other place of its batch, carries this write.
Alone(r, n) ==
    \A q \in Requests : \A m \in DOMAIN scenario.requests[q] : Sent(q, m) = Sent(r, n) => q = r /\ m = n

\* What a request that has come to w has committed, if it was to be.
PastCommit(w, m) == m < w.n \/ (m = w.n /\ w.at \in {"committed", "answered"})

\* Whatever is in the log, a request that carries it has committed it.
EntriesAreSent ==
    \A e \in Entries : \E q \in Requests : \E m \in DOMAIN scenario.requests[q] :
        Sent(q, m) = e.tx /\ PastCommit(work[q], m)

\* A batch is answered in its order, one result for each write it is done with.
AnswersInPlace ==
    \A r \in Requests :
        /\ Len(answers[r]) = IF work[r].at = "answered" THEN work[r].n ELSE work[r].n - 1
        /\ \A i \in DOMAIN answers[r] : i \in DOMAIN scenario.requests[r] /\ answers[r][i].tx = Sent(r, i)

\* RefusedIsNotApplied, of the writes that are sent once.
RefusedAlone ==
    \A r \in Requests : \A i \in DOMAIN answers[r] :
        Alone(r, i) /\ ~answers[r][i].ok => answers[r][i].unknown \/ ~Logged(answers[r][i].tx)

AnswersInv == EntriesAreSent /\ AnswersInPlace /\ RefusedAlone

\* The numbers of a request's writes.
LEMMA Numbers ==
  ASSUME ServiceTypeOK, NEW r \in Requests
  PROVE  /\ Len(scenario.requests[r]) \in Nat
         /\ DOMAIN scenario.requests[r] = 1 .. Len(scenario.requests[r])
         /\ work[r].n \in 1 .. Len(scenario.requests[r])
         /\ answers[r] \in Seq(Answer) /\ Len(answers[r]) \in Nat
         /\ DOMAIN answers[r] = 1 .. Len(answers[r])
<1>1. scenario.requests[r] \in Seq(ClientWrites) \ {<<>>}
  BY ScenariosAssumption DEF ServiceTypeOK, IsTraffic, Requests
<1>2. work[r].n \in DOMAIN scenario.requests[r] /\ answers[r] \in Seq(Answer)
  BY DEF ServiceTypeOK
<1> QED
  BY <1>1, <1>2

\* A request that goes on is past the write it was at.
LEMMA GoneOn ==
  ASSUME ServiceTypeOK, NEW r \in Requests, NEW groups, GoesOn(r, groups)
  PROVE  /\ \A q \in Requests \ {r} : work'[q] = work[q]
         /\ \A m \in DOMAIN scenario.requests[r] : PastCommit(work[r], m) => PastCommit(work'[r], m)
         /\ PastCommit(work'[r], work[r].n)
         /\ work[r].n = IF work'[r].at = "answered" THEN work'[r].n ELSE work'[r].n - 1
<1> DEFINE n == work[r].n
           next == IF n = Len(scenario.requests[r]) THEN Stage("answered", n, groups)
                   ELSE Stage("find", n + 1, groups)
<1>1. work \in [Requests -> Work] /\ work' = [work EXCEPT ![r] = next]
  BY DEF ServiceTypeOK, GoesOn
<1>2. Len(scenario.requests[r]) \in Nat /\ n \in Nat
      /\ DOMAIN scenario.requests[r] = 1 .. Len(scenario.requests[r])
  BY Numbers
<1>3. \/ next.at = "answered" /\ next.n = n
      \/ next.at = "find" /\ next.n = n + 1
  BY DEF Stage
<1>4. work'[r] = next /\ \A q \in Requests \ {r} : work'[q] = work[q]
  BY <1>1
<1> HIDE DEF next
<1> QED
  BY <1>2, <1>3, <1>4 DEF PastCommit

\* The steps of a request, by what they do to the log and the answers.
Keeps(r) ==
    /\ UNCHANGED <<scenario, log, answers>>
    /\ work[r].at \notin {"committed", "answered"} /\ work'[r].at # "answered"
    /\ work'[r].n = work[r].n /\ \A q \in Requests \ {r} : work'[q] = work[q]
Replies(r, ok, id, unknown, groups) ==
    /\ Answers(r, ok, id, unknown) /\ GoesOn(r, groups)
    /\ ok \in BOOLEAN /\ id \in Nat /\ unknown \in BOOLEAN /\ UNCHANGED scenario
    /\ work[r].at # "answered"
Reports(r) ==
    /\ UNCHANGED log
    /\ \E ok, id, unknown, groups :
          Replies(r, ok, id, unknown, groups) /\ (~ok => work[r].at # "committed")

LEMMA KindsOfSteps ==
  ASSUME ServiceInv, NEW r \in Requests, Handles(r)
  PROVE  \/ Keeps(r)
         \/ Reports(r)
         \/ Commit(r)
         \/ Commits(r) /\ Replies(r, FALSE, 0, TRUE, work[r].groups)
<1>1. ServiceTypeOK /\ work \in [Requests -> Work] /\ work[r] \in Work
  BY DEF ServiceInv, ServiceTypeOK
<1>2. ASSUME NEW place \in Places \ {"answered"}, Goes(r, place)
      PROVE  /\ work'[r].at = place /\ work'[r].n = work[r].n
             /\ \A q \in Requests \ {r} : work'[q] = work[q]
  BY <1>1, <1>2 DEF Goes, Work
<1>3. ASSUME Refuse(r), UNCHANGED <<scenario, log>>, work[r].at \notin {"committed", "answered"}
      PROVE  Reports(r)
  BY <1>3 DEF Refuse, Result, Reports, Replies
<1>4. CASE Receive(r)
  <2>1. work' = [work EXCEPT ![r].at = "find", ![r].groups = members]
    BY <1>4 DEF Receive
  <2>2. work'[r].at = "find" /\ work'[r].n = work[r].n /\ \A q \in Requests \ {r} : work'[q] = work[q]
    BY <1>1, <2>1 DEF Work
  <2> QED
    BY <1>4, <2>2 DEF Receive, At, Keeps, database
<1>5. CASE FindDuplicate(r)
  <2>1. CASE Logged(Doing(r).tx)
    <3>1. Result(r, TRUE, IdOf(Doing(r).tx), FALSE) /\ UNCHANGED <<scenario, log>> /\ work[r].at = "find"
      BY <1>5, <2>1 DEF FindDuplicate, At, database
    <3>2. IdOf(Doing(r).tx) \in Nat
      BY <1>1, <2>1, IdOfLogged
    <3> QED
      BY <3>1, <3>2 DEF Result, Reports, Replies
  <2>2. CASE ~Logged(Doing(r).tx)
    <3>1. Goes(r, "begun") /\ UNCHANGED <<scenario, log, answers>> /\ work[r].at = "find"
      BY <1>5, <2>2 DEF FindDuplicate, At, database
    <3>2. "begun" \in Places \ {"answered"}
      BY DEF Places
    <3> QED
      BY <1>2, <3>1, <3>2 DEF Keeps
  <2> QED
    BY <2>1, <2>2
<1>6. CASE LoadTarget(r)
  <2>1. CASE Refuse(r)
    BY <1>3, <1>6, <2>1 DEF LoadTarget, At, database
  <2>2. CASE ~Refuse(r)
    <3>1. \E group, granted :
                work' = [work EXCEPT ![r].at = "loaded", ![r].group = group, ![r].granted = granted]
      BY <1>6, <2>2 DEF LoadTarget
    <3>2. /\ work'[r].at = "loaded" /\ work'[r].n = work[r].n
          /\ \A q \in Requests \ {r} : work'[q] = work[q]
      BY <1>1, <3>1 DEF Work
    <3> QED
      BY <1>6, <2>2, <3>2 DEF LoadTarget, At, Keeps, database
  <2> QED
    BY <2>1, <2>2
<1>7. CASE ApplyMutation(r)
  <2>1. CASE Refuse(r)
    BY <1>3, <1>7, <2>1 DEF ApplyMutation, At, database
  <2>2. CASE ~Refuse(r)
    <3>1. \E row : work' = [work EXCEPT ![r].at = "written", ![r].row = row]
      BY <1>7, <2>2 DEF ApplyMutation
    <3>2. /\ work'[r].at = "written" /\ work'[r].n = work[r].n
          /\ \A q \in Requests \ {r} : work'[q] = work[q]
      BY <1>1, <3>1 DEF Work
    <3> QED
      BY <1>7, <2>2, <3>2 DEF ApplyMutation, At, Keeps, database
  <2> QED
    BY <2>1, <2>2
<1>8. CASE CreateSyncAction(r)
  <2>1. \/ Goes(r, "lost")
        \/ work' = [work EXCEPT ![r].at = "appended", ![r].id = sequence + 1]
    BY <1>8 DEF CreateSyncAction
  <2>2. /\ work'[r].at \in {"lost", "appended"} /\ work'[r].n = work[r].n
        /\ \A q \in Requests \ {r} : work'[q] = work[q]
    BY <1>1, <2>1 DEF Goes, Work
  <2> QED
    BY <1>8, <2>2 DEF CreateSyncAction, At, Keeps, database
<1>9. CASE Acknowledge(r)
  BY <1>1, <1>9 DEF Acknowledge, At, Reports, Replies, Work, database
<1>10. CASE FindWinner(r)
  <2>1. CASE Logged(Doing(r).tx)
    <3>1. Result(r, TRUE, IdOf(Doing(r).tx), FALSE) /\ UNCHANGED <<scenario, log>> /\ work[r].at = "lost"
      BY <1>10, <2>1 DEF FindWinner, At, database
    <3>2. IdOf(Doing(r).tx) \in Nat
      BY <1>1, <2>1, IdOfLogged
    <3> QED
      BY <3>1, <3>2 DEF Result, Reports, Replies
  <2>2. CASE ~Logged(Doing(r).tx)
    BY <1>3, <1>10, <2>2 DEF FindWinner, At, database
  <2> QED
    BY <2>1, <2>2
<1>11. CASE StatementFails(r)
  BY <1>3, <1>11 DEF StatementFails, database
<1>12. CASE CommitIsUnknown(r)
  BY <1>12 DEF CommitIsUnknown, Commits, At, Result, Replies
<1> QED
  BY <1>4, <1>5, <1>6, <1>7, <1>8, <1>9, <1>10, <1>11, <1>12 DEF Handles


\* A result takes the place of its write in the batch.
LEMMA ReplyInPlace ==
  ASSUME ServiceTypeOK, AnswersInPlace, NEW r \in Requests, NEW ok, NEW id, NEW unknown, NEW groups,
         Replies(r, ok, id, unknown, groups)
  PROVE  /\ AnswersInPlace'
         /\ \A q \in Requests : \A i \in DOMAIN answers'[q] :
               \/ i \in DOMAIN answers[q] /\ answers'[q][i] = answers[q][i]
               \/ /\ q = r /\ i = work[r].n
                  /\ answers'[q][i] = [tx |-> Doing(r).tx, ok |-> ok, id |-> id, unknown |-> unknown]
<1> DEFINE answer == [tx |-> Doing(r).tx, ok |-> ok, id |-> id, unknown |-> unknown]
<1>1. /\ ok \in BOOLEAN /\ id \in Nat /\ unknown \in BOOLEAN /\ scenario' = scenario /\ Requests' = Requests
      /\ GoesOn(r, groups) /\ work[r].at # "answered"
  BY DEF Replies, Requests
<1>2. answer \in Answer /\ answer.tx = Sent(r, work[r].n)
  BY <1>1, DoingType DEF ClientWrites, Answer, Sent, Doing
<1>3. answers' = [answers EXCEPT ![r] = Append(@, answer)]
  BY DEF Replies, Answers
<1> HIDE DEF answer
<1>4. answers \in [Requests -> Seq(Answer)] /\ Len(answers[r]) = work[r].n - 1
  BY <1>1 DEF ServiceTypeOK, AnswersInPlace
<1>5. /\ Len(answers[r]) \in Nat /\ DOMAIN answers[r] = 1 .. Len(answers[r])
      /\ DOMAIN scenario.requests[r] = 1 .. Len(scenario.requests[r]) /\ work[r].n \in DOMAIN scenario.requests[r]
      /\ Len(scenario.requests[r]) \in Nat
  BY Numbers
<1>6. answers'[r] = Append(answers[r], answer) /\ \A q \in Requests \ {r} : answers'[q] = answers[q]
  BY <1>3, <1>4
<1>7. /\ Len(answers'[r]) = work[r].n /\ DOMAIN answers'[r] = 1 .. work[r].n
      /\ answers'[r][work[r].n] = answer
      /\ \A i \in DOMAIN answers[r] : answers'[r][i] = answers[r][i]
  BY <1>2, <1>4, <1>5, <1>6
<1>8. ASSUME NEW q \in Requests, NEW i \in DOMAIN answers'[q]
      PROVE  \/ i \in DOMAIN answers[q] /\ answers'[q][i] = answers[q][i]
             \/ q = r /\ i = work[r].n /\ answers'[q][i] = answer
  <2>1. CASE q = r
    <3>1. CASE i = work[r].n
      BY <1>7, <2>1, <3>1
    <3>2. CASE i # work[r].n
      <4>1. i \in DOMAIN answers[r]
        BY <1>4, <1>5, <1>7, <1>8, <2>1, <3>2
      <4> QED
        BY <1>7, <2>1, <4>1
    <3> QED
      BY <3>1, <3>2
  <2>2. CASE q # r
    BY <1>6, <1>8, <2>2
  <2> QED
    BY <2>1, <2>2
<1>9. /\ \A q \in Requests \ {r} : work'[q] = work[q]
      /\ work[r].n = IF work'[r].at = "answered" THEN work'[r].n ELSE work'[r].n - 1
  BY <1>1, GoneOn
<1>10. ASSUME NEW q \in Requests
       PROVE  Len(answers'[q]) = IF work'[q].at = "answered" THEN work'[q].n ELSE work'[q].n - 1
  BY <1>6, <1>7, <1>9 DEF AnswersInPlace
<1>11. ASSUME NEW q \in Requests, NEW i \in DOMAIN answers'[q]
       PROVE  i \in DOMAIN scenario.requests[q] /\ answers'[q][i].tx = Sent(q, i)
  BY <1>2, <1>5, <1>8, <1>11 DEF AnswersInPlace
<1>12. AnswersInPlace'
  BY <1>1, <1>10, <1>11 DEF AnswersInPlace, Sent
<1> QED
  BY <1>8, <1>12 DEF answer

\* That of a commit whose answer is lost.
LEMMA LostInPlace ==
  ASSUME ServiceTypeOK, AnswersInPlace, NEW r \in Requests, NEW groups, Replies(r, FALSE, 0, TRUE, groups)
  PROVE  /\ AnswersInPlace'
         /\ \A q \in Requests : \A i \in DOMAIN answers'[q] :
               \/ i \in DOMAIN answers[q] /\ answers'[q][i] = answers[q][i]
               \/ answers'[q][i].unknown
<1>1. PICK ok, id, unknown : Replies(r, ok, id, unknown, groups) /\ (~unknown => FALSE)
  OBVIOUS
<1>2. scenario' = scenario /\ Requests' = Requests
  BY DEF Replies, Requests
<1>3. AnswersInPlace'
  BY <1>1, <1>2, ReplyInPlace
<1>4. ASSUME NEW q \in Requests, NEW i \in DOMAIN answers'[q]
      PROVE  \/ i \in DOMAIN answers[q] /\ answers'[q][i] = answers[q][i]
             \/ answers'[q][i].unknown
  <2>1. CASE i \in DOMAIN answers[q] /\ answers'[q][i] = answers[q][i]
    BY <2>1
  <2>2. CASE /\ q = r /\ i = work[r].n
             /\ answers'[q][i] = [tx |-> Doing(r).tx, ok |-> ok, id |-> id, unknown |-> unknown]
    BY <1>1, <2>2
  <2> QED
    BY <1>1, <1>2, <2>1, <2>2, ReplyInPlace
<1> QED
  BY <1>3, <1>4

\* A commit's entry is the write the request is at.
LEMMA EntryOfCommit ==
  ASSUME ServiceTypeOK, NEW r \in Requests, Commits(r)
  PROVE  /\ scenario' = scenario /\ work[r].at = "appended" /\ Entries \subseteq Entries'
         /\ \A f \in Entries' : f \in Entries \/ f.tx = Sent(r, work[r].n)
<1> DEFINE e == [id |-> work[r].id, tx |-> Doing(r).tx, act |-> Doing(r).act,
                 row |-> Doing(r).row, group |-> work[r].group]
<1>1. log' = Append(log, e) /\ scenario' = scenario /\ work[r].at = "appended"
  BY DEF Commits, At
<1>2. e.tx = Sent(r, work[r].n)
  BY DEF Sent, Doing
<1> HIDE DEF e
<1>3. log \in Seq(Entry) /\ log' \in Seq(Entry)
  BY CommitsTypes DEF ServiceTypeOK
<1>4. \A i \in DOMAIN log' : (i \in DOMAIN log /\ log'[i] = log[i]) \/ log'[i] = e
  BY <1>1, <1>3
<1>5. \A f \in Entries' : f \in Entries \/ f = e
  BY <1>4 DEF Entries, ToSet
<1> QED
  BY <1>1, <1>2, <1>5, EntriesGrow

\* What has been committed stays so, and a commit makes its write one of them.
LEMMA EntriesStaySent ==
  ASSUME EntriesAreSent, scenario' = scenario,
         \A q \in Requests : \A m \in DOMAIN scenario.requests[q] :
            PastCommit(work[q], m) => PastCommit(work'[q], m),
         \A f \in Entries' : f \in Entries \/
            \E q \in Requests : \E m \in DOMAIN scenario.requests[q] : Sent(q, m) = f.tx /\ PastCommit(work'[q], m)
  PROVE  EntriesAreSent'
<1>1. ASSUME NEW f \in Entries
      PROVE  \E q \in Requests : \E m \in DOMAIN scenario.requests[q] : Sent(q, m) = f.tx /\ PastCommit(work'[q], m)
  BY DEF EntriesAreSent
<1>2. Requests' = Requests /\ \A q, m : Sent(q, m)' = Sent(q, m)
  BY DEF Requests, Sent
<1> QED
  BY <1>1, <1>2 DEF EntriesAreSent, PastCommit

\* A write that is sent once stays out of the log when it is refused: another's
\* entry is of another write, and its own request has answered it.
LEMMA RefusedStays ==
  ASSUME AnswersInv, ServiceTypeOK, NEW r \in Requests, Commits(r), NEW q \in Requests,
         NEW i \in DOMAIN answers[q], Alone(q, i), ~answers[q][i].ok
  PROVE  answers[q][i].unknown \/ ~(\E e \in Entries' : e.tx = answers[q][i].tx)
<1> SUFFICES ASSUME ~answers[q][i].unknown, NEW e \in Entries', e.tx = answers[q][i].tx
             PROVE  FALSE
  OBVIOUS
<1>1. ~Logged(answers[q][i].tx) /\ answers[q][i].tx = Sent(q, i)
  BY DEF AnswersInv, RefusedAlone, AnswersInPlace
<1>2. e.tx = Sent(r, work[r].n)
  BY <1>1, EntryOfCommit DEF Logged
<1>3. work[r].n \in DOMAIN scenario.requests[r]
  BY DEF ServiceTypeOK
<1>4. q = r /\ i = work[r].n
  BY <1>1, <1>2, <1>3 DEF Alone
<1>5. Len(answers[r]) = work[r].n - 1
  BY EntryOfCommit DEF AnswersInv, AnswersInPlace
<1> QED
  BY <1>3, <1>4, <1>5, Numbers

LEMMA AnswersStart == Init => AnswersInv
<1> SUFFICES ASSUME Init
             PROVE  AnswersInv
  OBVIOUS
<1>1. /\ log = <<>> /\ answers = [r \in Requests |-> <<>>]
      /\ work = [r \in Requests |-> Stage("sent", 1, {})]
  BY DEF Init, MutateInit
<1>2. Entries = {}
  BY <1>1 DEF Entries, ToSet
<1>3. \A r \in Requests : /\ Len(answers[r]) = 0 /\ DOMAIN answers[r] = {}
                          /\ work[r].n = 1 /\ work[r].at = "sent"
  BY <1>1 DEF Stage
<1> QED
  BY <1>2, <1>3 DEF AnswersInv, EntriesAreSent, AnswersInPlace, RefusedAlone

LEMMA AnswersKeep ==
  ASSUME ServiceInv, AnswersInv, NEW r \in Requests, Keeps(r)
  PROVE  AnswersInv'
<1>1. scenario' = scenario /\ Entries' = Entries /\ answers' = answers /\ Requests' = Requests
  BY DEF Keeps, Entries, Requests
<1>2. \A q \in Requests : work'[q].n = work[q].n /\ (work[q].at = "answered" <=> work'[q].at = "answered")
  BY DEF Keeps
<1>3. \A q \in Requests : \A m \in DOMAIN scenario.requests[q] :
         PastCommit(work[q], m) => PastCommit(work'[q], m)
  BY DEF Keeps, PastCommit
<1>4. EntriesAreSent'
  BY <1>1, <1>3, EntriesStaySent DEF AnswersInv
<1> QED
  BY <1>1, <1>2, <1>4 DEF AnswersInv, AnswersInPlace, RefusedAlone, Alone, Sent, Logged

LEMMA AnswersReport ==
  ASSUME ServiceInv, AnswersInv, NEW r \in Requests, Reports(r)
  PROVE  AnswersInv'
<1>1. PICK ok, id, unknown, groups :
         Replies(r, ok, id, unknown, groups) /\ (~ok => work[r].at # "committed")
  BY DEF Reports
<1>2. /\ scenario' = scenario /\ Entries' = Entries /\ Requests' = Requests /\ GoesOn(r, groups)
      /\ ServiceTypeOK /\ AnswersInPlace /\ work[r].at # "answered"
      /\ work[r].n \in DOMAIN scenario.requests[r]
  BY <1>1 DEF Reports, Replies, Entries, Requests, AnswersInv, ServiceInv, ServiceTypeOK
<1>3. \A q \in Requests : \A m \in DOMAIN scenario.requests[q] :
         PastCommit(work[q], m) => PastCommit(work'[q], m)
  BY <1>2, GoneOn
<1>4. EntriesAreSent'
  BY <1>2, <1>3, EntriesStaySent DEF AnswersInv
<1>5. AnswersInPlace'
  BY <1>1, <1>2, ReplyInPlace
<1>6. ASSUME NEW q \in Requests, NEW i \in DOMAIN answers'[q], Alone(q, i), ~answers'[q][i].ok
      PROVE  answers'[q][i].unknown \/ ~Logged(answers'[q][i].tx)
  <2>1. CASE i \in DOMAIN answers[q] /\ answers'[q][i] = answers[q][i]
    BY <1>6, <2>1 DEF AnswersInv, RefusedAlone
  <2>2. CASE /\ q = r /\ i = work[r].n
             /\ answers'[q][i] = [tx |-> Doing(r).tx, ok |-> ok, id |-> id, unknown |-> unknown]
    <3> SUFFICES ASSUME NEW e \in Entries, e.tx = Sent(r, work[r].n)
                 PROVE  FALSE
      BY <2>2 DEF Logged, Sent, Doing
    <3>1. PICK p \in Requests : \E m \in DOMAIN scenario.requests[p] : Sent(p, m) = e.tx /\ PastCommit(work[p], m)
      BY DEF AnswersInv, EntriesAreSent
    <3>2. PastCommit(work[r], work[r].n)
      BY <1>6, <2>2, <3>1 DEF Alone
    <3>3. ~ok /\ work[r].n \in Nat
      BY <1>2, <1>6, <2>2, Numbers
    <3> QED
      BY <1>1, <1>2, <3>2, <3>3 DEF PastCommit
  <2> QED
    BY <1>1, <1>2, <2>1, <2>2, ReplyInPlace
<1>7. RefusedAlone'
  BY <1>2, <1>6 DEF RefusedAlone, Alone, Sent, Logged
<1> QED
  BY <1>4, <1>5, <1>7 DEF AnswersInv

LEMMA AnswersCommit ==
  ASSUME ServiceInv, AnswersInv, NEW r \in Requests, Commits(r),
         \/ Goes(r, "committed") /\ UNCHANGED answers
         \/ Replies(r, FALSE, 0, TRUE, work[r].groups)
  PROVE  AnswersInv'
<1>1. /\ ServiceTypeOK /\ AnswersInPlace /\ work \in [Requests -> Work] /\ work[r].n \in DOMAIN scenario.requests[r]
      /\ scenario' = scenario /\ Requests' = Requests /\ work[r].at = "appended"
      /\ \A f \in Entries' : f \in Entries \/ f.tx = Sent(r, work[r].n)
  BY EntryOfCommit DEF ServiceInv, ServiceTypeOK, AnswersInv, Requests
<1>2. ASSUME Goes(r, "committed"), UNCHANGED answers
      PROVE  /\ work'[r].at = "committed" /\ work'[r].n = work[r].n
             /\ \A q \in Requests \ {r} : work'[q] = work[q]
  BY <1>1, <1>2 DEF Goes, Work
<1>3. /\ PastCommit(work'[r], work[r].n)
      /\ \A q \in Requests : \A m \in DOMAIN scenario.requests[q] :
            PastCommit(work[q], m) => PastCommit(work'[q], m)
  <2>1. CASE Goes(r, "committed") /\ UNCHANGED answers
    BY <1>1, <1>2, <2>1 DEF PastCommit
  <2>2. CASE Replies(r, FALSE, 0, TRUE, work[r].groups)
    BY <1>1, <2>2, GoneOn DEF Replies
  <2> QED
    BY <2>1, <2>2
<1>4. EntriesAreSent'
  BY <1>1, <1>3, EntriesStaySent DEF AnswersInv
<1>5. /\ AnswersInPlace'
      /\ \A q \in Requests : \A i \in DOMAIN answers'[q] :
            \/ i \in DOMAIN answers[q] /\ answers'[q][i] = answers[q][i]
            \/ answers'[q][i].unknown
  <2>1. CASE Goes(r, "committed") /\ UNCHANGED answers
    <3>1. \A q \in Requests : work'[q].n = work[q].n /\ (work[q].at = "answered" <=> work'[q].at = "answered")
      BY <1>1, <1>2, <2>1
    <3> QED
      BY <1>1, <2>1, <3>1 DEF AnswersInPlace, Sent
  <2>2. CASE Replies(r, FALSE, 0, TRUE, work[r].groups)
    <3>1. ServiceTypeOK /\ AnswersInPlace
      BY <1>1
    <3> QED
      BY <2>2, <3>1, LostInPlace
  <2> QED
    BY <2>1, <2>2
<1>6. ASSUME NEW q \in Requests, NEW i \in DOMAIN answers'[q], Alone(q, i), ~answers'[q][i].ok
      PROVE  answers'[q][i].unknown \/ ~(\E e \in Entries' : e.tx = answers'[q][i].tx)
  BY <1>1, <1>5, <1>6, RefusedStays
<1>7. RefusedAlone'
  BY <1>1, <1>6 DEF RefusedAlone, Alone, Sent, Logged
<1> QED
  BY <1>4, <1>5, <1>7 DEF AnswersInv

LEMMA AnswersNext ==
  ASSUME ServiceInv, AnswersInv, [Next]_vars
  PROVE  AnswersInv'
<1>1. CASE Writes
  <2>1. PICK r \in Requests : Handles(r)
    BY <1>1 DEF Writes
  <2>2. CASE Keeps(r)
    BY <2>2, AnswersKeep
  <2>3. CASE Reports(r)
    BY <2>3, AnswersReport
  <2>4. CASE Commit(r)
    BY <2>4, AnswersCommit DEF Commit
  <2>5. CASE Commits(r) /\ Replies(r, FALSE, 0, TRUE, work[r].groups)
    BY <2>5, AnswersCommit
  <2> QED
    BY <2>1, <2>2, <2>3, <2>4, <2>5, KindsOfSteps
<1>2. CASE UNCHANGED mutateVars
  BY <1>2 DEF mutateVars, AnswersInv, EntriesAreSent, AnswersInPlace, RefusedAlone, Alone, Sent, Logged,
              Entries, Requests, PastCommit
<1>3. Next \/ UNCHANGED vars => Writes \/ UNCHANGED mutateVars
  BY DEF Next, vars, Bootstrap, ReadPage, SendRows, CommitSnapshot, ApplyDelta, Load, StoreRow, LoadEnds, Rests
<1> QED
  BY <1>1, <1>2, <1>3

\* A write that one request carries, once, and that processTransaction reported
\* as refused is not in the log, whatever the other requests do, unless it is the
\* answer to its COMMIT that was lost.  With a retry beside its original it is
\* not so in general: one is refused for a statement that failed, and the other
\* applies the write.
THEOREM RefusedOnceIsNotApplied == Spec => []RefusedAlone
<1>1. Init => ServiceInv /\ AnswersInv
  BY ServiceStarts, AnswersStart
<1>2. ServiceInv /\ AnswersInv /\ [Next]_vars => (ServiceInv /\ AnswersInv)'
  BY ServiceNext, AnswersNext
<1>3. AnswersInv => RefusedAlone
  BY DEF AnswersInv
<1> QED
  BY <1>1, <1>2, <1>3, PTL DEF Spec

\* Where no write is sent twice, every answer of the service is true: what is
\* reported as done is in the log under its id, what is reported as refused is
\* not in it unless the answer to its COMMIT was lost.
THEOREM AnswersAreTrueOfWhatIsSentOnce ==
  Spec => []((\A r \in Requests : \A n \in DOMAIN scenario.requests[r] : Alone(r, n)) => AnswersAreTrue)
<1>1. Init => ServiceInv /\ AnswersInv
  BY ServiceStarts, AnswersStart
<1>2. ServiceInv /\ AnswersInv /\ [Next]_vars => (ServiceInv /\ AnswersInv)'
  BY ServiceNext, AnswersNext
<1>3. ServiceInv /\ AnswersInv =>
         ((\A r \in Requests : \A n \in DOMAIN scenario.requests[r] : Alone(r, n)) => AnswersAreTrue)
  BY DEF AnswersInv, RefusedAlone, AnswersInPlace, ServiceInv, AnswersAreTrue, RefusedIsNotApplied
<1> QED
  BY <1>1, <1>2, <1>3, PTL DEF Spec

=============================================================================
