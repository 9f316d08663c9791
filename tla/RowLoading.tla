----------------------------- MODULE RowLoading -----------------------------
(***************************************************************************)
(* How the rows of one model get into a client's storage while others      *)
(* write them.  BootstrapService streams the table in keyset pages, drops  *)
(* from each buffer the rows that an action touched since the snapshot     *)
(* (the deltas are to bring those), and ends with a marker; the client     *)
(* then replaces its rows and reads the log from the snapshot on.  A model *)
(* that is not part of the bootstrap is loaded when it is asked for, by    *)
(* the same stream over the rows asked for, and each row is stored as it   *)
(* arrives.  MutateService is what writes the table and the log.           *)
(***************************************************************************)
EXTENDS MutateService, Lists

CONSTANTS
    BatchSize,  \* rows of one keyset page
    BufferSize  \* rows that are looked up in the log together

ASSUME RowLoadingAssumption ==
    /\ BatchSize \in Nat \ {0} /\ BufferSize \in Nat \ {0}
    /\ BatchSize % BufferSize = 0

Null == 0

\* lazy: the model is loaded on demand and not by the bootstrap; others are
\* never asked for.  loads: the sets of rows asked for, each a row or an index.  cursor: the
\* values of each row's cursor fields, Null where the column is; the last is its id.
IsLoading(s) ==
    /\ s.lazy \in BOOLEAN /\ s.loads \in Seq(SUBSET Rows)
    /\ s.lazy \/ s.loads = <<>>
    /\ \A k \in Rows : s.cursor[k] \in Seq(Nat)
    /\ \A j, k \in Rows : j # k => s.cursor[j] # s.cursor[k] /\ Len(s.cursor[j]) = Len(s.cursor[k])

ASSUME ScenariosAssumption == \A s \in Scenarios : IsTraffic(s) /\ IsLoading(s)

VARIABLES
    stream,     \* the server's stream of rows, of a bootstrap or a batch load
    wire,       \* the rows it has sent
    store,      \* the model's rows in the client's storage
    cursor,     \* the client's lastSyncId
    firstId,    \* its firstSyncId
    booted,     \* the bootstrap is committed
    asked       \* how many loads the application has asked for

vars == <<mutateVars, stream, wire, store, cursor, firstId, booted, asked>>
client == <<store, cursor, firstId, booted, asked>>

-----------------------------------------------------------------------------
(* Keyset pages: createCursorStrategy and streamModel. *)

\* `value` sorts after `than` under ASC NULLS LAST.
Follows(value, than) == than # Null /\ (value = Null \/ value > than)

\* The order of the query.
Precedes(j, k) ==
    LET a == scenario.cursor[j]
        b == scenario.cursor[k]
    IN  \E i \in DOMAIN a : a[i] # b[i] /\ Follows(b[i], a[i]) /\ \A h \in 1 .. i - 1 : a[h] = b[h]

\* Mutant: SQL's > and =, which are not true of a Null.
AfterPlain(k, last) ==
    LET c == scenario.cursor[k]
        known(i) == c[i] # Null /\ last[i] # Null
    IN  \E i \in DOMAIN last :
            known(i) /\ c[i] > last[i] /\ \A h \in 1 .. i - 1 : known(h) /\ c[h] = last[h]

\* The condition of the next page, for a row against the last row's fields: a
\* disjunct for each field, of it being after and the ones before it the same.
\* Nothing is after a Null.
After(k, last) ==
    LET c == scenario.cursor[k]
    IN  \E i \in DOMAIN last : Follows(c[i], last[i]) /\ \A h \in 1 .. i - 1 : c[h] = last[h]

NoCursor == <<>>
Matching(wanted, last) ==
    {k \in wanted : table[k] # Absent /\ (last = NoCursor \/ After(k, last))}

\* ORDER BY and LIMIT: rows in order, none left out that is before one of them,
\* and a whole batch or all that was found.
IsPage(page, found) ==
    /\ \A i, j \in DOMAIN page : i < j => page[i] # page[j] /\ ~Precedes(page[j], page[i])
    /\ \A k \in found \ ToSet(page) : \A i \in DOMAIN page : ~Precedes(k, page[i])
    /\ Len(page) < BatchSize => found \subseteq ToSet(page)
Pages(found) == {page \in UNION {[1 .. n -> found] : n \in 0 .. BatchSize} : IsPage(page, found)}

-----------------------------------------------------------------------------
(* The server's stream. *)

NoStream == [at |-> "none"]
Open(kind, wanted, since) ==
    [at |-> "page", kind |-> kind, wanted |-> wanted, since |-> since,
     last |-> NoCursor, rest |-> <<>>, short |-> FALSE]

\* A page shorter than a batch is the last one.
ReadPage ==
    /\ stream.at = "page"
    /\ \E page \in Pages(Matching(stream.wanted, stream.last)) :
        LET lines == [i \in DOMAIN page |-> [row |-> page[i], by |-> table[page[i]].by]] IN
        stream' = IF page = <<>> THEN [stream EXCEPT !.at = "ended"]
                  ELSE [stream EXCEPT !.at = "rows", !.rest = lines,
                                      !.short = Len(page) < BatchSize,
                                      !.last = scenario.cursor[Last(page)]]
    /\ UNCHANGED <<mutateVars, wire, client>>

\* getTouchedModelIdsAfter: the rows of a buffer that a later action is about.
Touched(ks, since) == {k \in ks : \E e \in Entries : e.row = k /\ e.id > since}
SendRows ==
    /\ stream.at = "rows"
    /\ LET n == IF Len(stream.rest) < BufferSize THEN Len(stream.rest) ELSE BufferSize
           buffer == SubSeq(stream.rest, 1, n)
           rest == SubSeq(stream.rest, n + 1, Len(stream.rest))
           touched == Touched({buffer[i].row : i \in DOMAIN buffer}, stream.since)
       IN  /\ wire' = wire \o Without(buffer, {line \in ToSet(buffer) : line.row \in touched})
           /\ stream' = [stream EXCEPT !.rest = rest,
                                       !.at = IF rest # <<>> THEN "rows"
                                              ELSE IF stream.short THEN "ended" ELSE "page"]
    /\ UNCHANGED <<mutateVars, client>>

-----------------------------------------------------------------------------
(* The client. *)

\* A full bootstrap: the stream filters by the id its metadata reports.
Bootstrap ==
    /\ ~booted /\ stream = NoStream
    /\ stream' = Open("bootstrap", IF scenario.lazy THEN {} ELSE Rows, LastId)
    /\ UNCHANGED <<mutateVars, wire, client>>

\* The rows are staged until the end marker, then replace the local ones.
Stored(lines) ==
    [k \in Rows |-> IF \E i \in DOMAIN lines : lines[i].row = k
                    THEN [by |-> lines[CHOOSE i \in DOMAIN lines : lines[i].row = k].by]
                    ELSE Absent]
CommitSnapshot ==
    /\ stream.at = "ended" /\ stream.kind = "bootstrap"
    /\ store' = Stored(wire) /\ cursor' = stream.since /\ firstId' = stream.since
    /\ booted' = TRUE /\ stream' = NoStream /\ wire' = <<>>
    /\ UNCHANGED <<mutateVars, asked>>

\* A delta is applied to a row that is stored; an insert carries the row.
Applied(row, e) ==
    CASE e.act = "I" -> [by |-> e.tx]
      [] e.act = "U" -> IF row = Absent THEN Absent ELSE [by |-> e.tx]
      [] e.act = "D" -> Absent
ApplyDelta ==
    /\ booted
    /\ \E i \in DOMAIN log :
        /\ log[i].id > cursor /\ \A j \in 1 .. i - 1 : log[j].id <= cursor
        /\ store' = [store EXCEPT ![log[i].row] = Applied(@, log[i])]
        /\ cursor' = log[i].id
    /\ UNCHANGED <<mutateVars, stream, wire, firstId, booted, asked>>

\* A load of a row that is stored is answered from storage.  Others go to the
\* server, with the start of the bootstrap's window.
Wanted == scenario.loads[asked + 1]
Load ==
    /\ booted /\ stream = NoStream /\ asked < Len(scenario.loads)
    /\ asked' = asked + 1
    /\ stream' = IF Cardinality(Wanted) = 1 /\ \A k \in Wanted : store[k] # Absent THEN NoStream
                 ELSE Open("load", Wanted, firstId)
    /\ UNCHANGED <<mutateVars, wire, store, cursor, firstId, booted>>

\* processBatchLoadRow: stored whatever is there, between two packets.
StoreRow ==
    /\ booted /\ wire # <<>>
    /\ store' = [store EXCEPT ![Head(wire).row] = [by |-> Head(wire).by]]
    /\ wire' = Tail(wire)
    /\ UNCHANGED <<mutateVars, stream, cursor, firstId, booted, asked>>
LoadEnds ==
    /\ stream.at = "ended" /\ stream.kind = "load" /\ wire = <<>>
    /\ stream' = NoStream
    /\ UNCHANGED <<mutateVars, wire, client>>

-----------------------------------------------------------------------------

Init ==
    /\ MutateInit
    /\ stream = NoStream /\ wire = <<>> /\ store = [k \in Rows |-> Absent]
    /\ cursor = 0 /\ firstId = 0 /\ booted = FALSE /\ asked = 0

Writes ==
    /\ \E r \in Requests : Handles(r)
    /\ UNCHANGED <<stream, wire, client>>

\* Everything is answered, loaded and applied: the one state to stop in.
Settled ==
    /\ AllAnswered /\ booted /\ stream = NoStream
    /\ asked = Len(scenario.loads) /\ cursor = LastId
Rests == Settled /\ UNCHANGED vars

Next ==
    \/ Writes
    \/ Bootstrap \/ ReadPage \/ SendRows \/ CommitSnapshot
    \/ ApplyDelta \/ Load \/ StoreRow \/ LoadEnds
    \/ Rests

Spec == Init /\ [][Next]_vars
-----------------------------------------------------------------------------
(* What a client ends up with. *)

\* The write that row k was of as of an id, if the row was there: that of the last
\* action on it, unless it is a delete, and 0 for a row nobody has written yet.
Until(k, id) == {i \in DOMAIN log : log[i].row = k /\ log[i].id <= id}
WritersAt(k, id) ==
    {log[i].tx : i \in {i \in Until(k, id) : log[i].act # "D" /\ \A j \in Until(k, id) : j <= i}}
    \cup (IF Until(k, id) = {} /\ scenario.seed[k] # NoGroup THEN {0} ELSE {})
IsRow(k, id) == store[k] # Absent /\ store[k].by \in WritersAt(k, id)

\* A row of a model the bootstrap loads is the row as of the client's cursor,
\* whatever was written while the table was read: never older, and never a row
\* that is deleted.  It takes the rows' locks, the insert-order lock ("a keyset
\* reader can never skip a lower ID that commits after a higher one"), and the
\* filter of touched rows.
RowsAreOfTheCursor ==
    booted /\ ~scenario.lazy =>
        \A k \in Rows : store[k] # Absent => IsRow(k, cursor)

\* A row that was there when the client's window began and that nobody has
\* written since is in storage: its page was not skipped, and nothing dropped it.
AskedFor == IF scenario.lazy THEN UNION {scenario.loads[i] : i \in 1 .. asked} ELSE Rows
UntouchedRowsArrive ==
    booted /\ stream = NoStream /\ wire = <<>> =>
        \A k \in AskedFor \ Touched(Rows, firstId) :
            WritersAt(k, firstId) # {} => IsRow(k, firstId)

\* "Deltas apply only to loaded instances; a later load fetches the full row"
\* (createStagingDeltaTarget): when everything is applied, a row that was
\* loaded is in storage if the server has it.
LoadFetchesTheRow ==
    Settled => \A k \in AskedFor : table[k] # Absent => store[k] # Absent
=============================================================================
