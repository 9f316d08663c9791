------------------------------ MODULE Documents ------------------------------
(***************************************************************************)
(* One collaborative document at several clients: YjsDocumentManager and   *)
(* YjsPresenceManager over the connection's relay, and the application's   *)
(* server behind the session's hooks, which is known from how they use it. *)
(*                                                                         *)
(* A Yjs document is the set of updates applied to it: merging is union,   *)
(* and a state vector is what a client has.  The managers never wait; what *)
(* is between two steps is messages, timers and the events of a socket.    *)
(***************************************************************************)
EXTENDS Naturals, Sequences

CONSTANTS
    Clients,
    MaxRetries,  \* liveEditingRetry.maxRetries
    Scenarios    \* what the users do, and how often the environment may act

Commands == {"open", "seed", "close", "focus", "blur", "edit", "clear", "reload"}

ASSUME DocumentsAssumption ==
    /\ MaxRetries \in Nat
    /\ Scenarios \subseteq [script : [Clients -> Seq(Commands)],
                           drops : Nat, errors : Nat, refusals : Nat, losses : Nat]

VARIABLES
    docs,       \* each client's DocumentState
    persisted,  \* its document in localStorage
    presence,   \* its PresenceState
    link,       \* its socket: subscribed or not, and the two directions
    server,     \* the updates it has numbered, and who views the document
    lost,       \* updates that were sent and never came to be numbered
    left        \* what is left of the scenario

vars == <<docs, persisted, presence, link, server, lost, left>>

-----------------------------------------------------------------------------

Message(kind, ops, seq, flag) == [kind |-> kind, ops |-> ops, seq |-> seq, flag |-> flag]
DocView(on) == <<Message("doc_view", {}, 0, on)>>
DocFocus(on) == <<Message("doc_focus", {}, 0, on)>>
Update(ops) == <<Message("yjs_update", ops, 0, FALSE)>>
Error(retryable) == <<Message("live_editing_error", {}, 0, retryable)>>

DocumentState(ops) ==
    [state |-> "disconnected", ops |-> ops, lastSeq |-> 0, refCount |-> 0, pending |-> {},
     initial |-> FALSE, attempts |-> 0, timer |-> FALSE, crossed |-> FALSE]
PresenceState ==
    [viewing |-> FALSE, editing |-> FALSE, views |-> 0, edits |-> 0, attempts |-> 0, timer |-> FALSE]
NoLink == [open |-> FALSE, up |-> <<>>, down |-> <<>>]

Init ==
    /\ docs = [c \in Clients |-> DocumentState({})] /\ persisted = [c \in Clients |-> {}]
    /\ presence = [c \in Clients |-> PresenceState] /\ link = [c \in Clients |-> NoLink] /\ lost = {} /\ left \in Scenarios
    /\ server = [updates |-> <<>>, viewers |-> [c \in Clients |-> "none"]]

\* What the managers get to send on the connection.
Online(c) == link[c].open
Sending(c, messages) ==
    link' = [link EXCEPT ![c].up = @ \o IF Online(c) THEN messages ELSE <<>>]

IsActive(d) == d.refCount > 0
ResetRetry(s) == [s EXCEPT !.attempts = 0, !.timer = FALSE]

\* A request for what the server has, answered by a yjs_sync_step2.
Requested(d, online) ==
    [d EXCEPT !.state = IF ~IsActive(d) THEN "disconnected"
                        ELSE IF online THEN "syncing" ELSE "connecting"]
SyncStep1(d) == IF IsActive(d) THEN <<Message("yjs_sync_step1", d.ops, 0, FALSE)>> ELSE <<>>

-----------------------------------------------------------------------------
(* What the users do. *)

Does(c, command) == left.script[c] # <<>> /\ Head(left.script[c]) = command
Done(c) == left' = [left EXCEPT !.script[c] = Tail(@)]

\* What the server is told, again, of a document that is viewed.
Replay(p) ==
    (IF p.viewing THEN DocView(TRUE) ELSE <<>>) \o (IF p.editing THEN DocFocus(TRUE) ELSE <<>>)

StartedViewing(p) ==
    IF p.viewing THEN [p EXCEPT !.views = @ + 1]
    ELSE [ResetRetry(p) EXCEPT !.viewing = TRUE, !.views = @ + 1]
Starts(p) == IF p.viewing THEN <<>> ELSE DocView(TRUE)

\* Mutant: what the document held before is not owed.
ConnectedBare(d, seeding, online) ==
    IF IsActive(d) /\ d.state # "disconnected" THEN [d EXCEPT !.refCount = @ + 1]
    ELSE Requested([ResetRetry(d) EXCEPT !.refCount = IF IsActive(d) THEN @ ELSE @ + 1,
                                         !.initial = seeding], online)

\* The first connect owes the server all that is in the document; one more
\* counts a user, or tries again for one that gave up.
Connected(d, seeding, online) ==
    IF IsActive(d) /\ d.state # "disconnected" THEN [d EXCEPT !.refCount = @ + 1]
    ELSE Requested([ResetRetry(d) EXCEPT !.refCount = IF IsActive(d) THEN @ ELSE @ + 1,
                                         !.pending = IF IsActive(d) THEN @ ELSE @ \cup d.ops,
                                         !.initial = seeding], online)
Connects(d) == ~IsActive(d) \/ d.state = "disconnected"

Open(c) ==
    \E command \in {"open", "seed"} :
        LET d == docs[c] IN
        /\ Does(c, command) /\ Done(c)
        /\ presence' = [presence EXCEPT ![c] = StartedViewing(@)]
        /\ docs' = [docs EXCEPT ![c] = Connected(@, command = "seed", Online(c))]
        /\ persisted' = IF IsActive(d) \/ d.ops = {} THEN persisted ELSE [persisted EXCEPT ![c] = d.ops]
        /\ Sending(c, Starts(presence[c]) \o
                      IF Connects(d) THEN SyncStep1(docs'[c]) ELSE <<>>)
        /\ UNCHANGED <<server, lost>>

StoppedViewing(p) == IF p.views > 1 THEN [p EXCEPT !.views = @ - 1] ELSE PresenceState
Stops(p) ==
    IF ~p.viewing \/ p.views > 1 THEN <<>>
    ELSE (IF p.editing THEN DocFocus(FALSE) ELSE <<>>) \o DocView(FALSE)

Disconnected(d) ==
    IF d.refCount = 1
    THEN [ResetRetry(d) EXCEPT !.refCount = 0, !.state = "disconnected", !.initial = FALSE]
    ELSE [d EXCEPT !.refCount = IF @ = 0 THEN 0 ELSE @ - 1]

Close(c) ==
    /\ Does(c, "close") /\ Done(c)
    /\ presence' = [presence EXCEPT ![c] = StoppedViewing(@)]
    /\ docs' = [docs EXCEPT ![c] = Disconnected(@)]
    /\ Sending(c, Stops(presence[c]))
    /\ UNCHANGED <<persisted, server, lost>>

Focus(c) ==
    LET p == IF presence[c].viewing THEN presence[c] ELSE StartedViewing(presence[c]) IN
    /\ Does(c, "focus") /\ Done(c)
    /\ presence' = [presence EXCEPT ![c] = [p EXCEPT !.edits = @ + 1, !.editing = TRUE]]
    /\ Sending(c, Starts(presence[c]) \o IF p.editing THEN <<>> ELSE DocFocus(TRUE))
    /\ UNCHANGED <<docs, persisted, server, lost>>

Blur(c) ==
    LET p == presence[c] IN
    /\ Does(c, "blur") /\ Done(c)
    /\ presence' = IF ~p.editing THEN presence
                   ELSE [presence EXCEPT ![c].edits = @ - 1, ![c].editing = p.edits > 1]
    /\ Sending(c, IF p.editing /\ p.edits = 1 THEN DocFocus(FALSE) ELSE <<>>)
    /\ UNCHANGED <<docs, persisted, server, lost>>

\* The document's own update event: sent when in sync, and kept back otherwise.
\* Nothing listens to a document that is not connected.
Edit(c) ==
    LET d == docs[c]
        op == <<c, Len(left.script[c])>>
        sent == d.state = "connected" /\ Online(c)
    IN
    /\ Does(c, "edit") /\ Done(c)
    /\ docs' = [docs EXCEPT ![c].ops = @ \cup {op},
                            ![c].pending = IF ~IsActive(d) \/ sent THEN @ ELSE @ \cup {op}]
    /\ persisted' = IF IsActive(d) THEN [persisted EXCEPT ![c] = d.ops \cup {op}] ELSE persisted
    /\ Sending(c, IF IsActive(d) /\ sent THEN Update({op}) ELSE <<>>)
    /\ UNCHANGED <<presence, server, lost>>

\* Whether an answer to the document that is being destroyed is still to come.
AwaitsAnswer(c) ==
    \/ \E i \in DOMAIN link[c].up : link[c].up[i].kind = "yjs_sync_step1"
    \/ \E i \in DOMAIN link[c].down : link[c].down[i].kind = "yjs_sync_step2"

\* clearAll() of the client destroys the documents and what is stored of them,
\* beside a connection that stays.
Clear(c) ==
    /\ Does(c, "clear") /\ Done(c)
    /\ docs' = [docs EXCEPT ![c] =
           [DocumentState({}) EXCEPT !.crossed = docs[c].crossed \/ AwaitsAnswer(c)]]
    /\ persisted' = [persisted EXCEPT ![c] = {}]
    /\ UNCHANGED <<presence, link, server, lost>>

-----------------------------------------------------------------------------
(* The connection. *)

LinkOpens(c) ==
    /\ ~link[c].open
    /\ link' = [link EXCEPT ![c] =
           [open |-> TRUE, up |-> Replay(presence[c]) \o SyncStep1(docs[c]), down |-> <<>>]]
    /\ presence' = [presence EXCEPT ![c] = ResetRetry(@)]
    /\ docs' = [docs EXCEPT ![c] = Requested(@, TRUE)]
    /\ UNCHANGED <<persisted, server, lost, left>>

Carried(messages) == UNION {messages[i].ops : i \in {j \in DOMAIN messages : messages[j].kind = "yjs_update"}}

\* What was on its way is gone, and the server forgets who was at the socket.
Hangs(c) ==
    /\ link' = [link EXCEPT ![c] = NoLink]
    /\ server' = [server EXCEPT !.viewers[c] = "none"]
    /\ lost' = lost \cup Carried(link[c].up)

LinkDrops(c) ==
    /\ left.drops > 0 /\ left' = [left EXCEPT !.drops = @ - 1]
    /\ link[c].open /\ Hangs(c)
    /\ docs' = [docs EXCEPT ![c] = IF IsActive(@) THEN [@ EXCEPT !.state = "connecting"] ELSE @]
    /\ UNCHANGED <<persisted, presence>>

Reload(c) ==
    /\ Does(c, "reload") /\ Done(c) /\ Hangs(c)
    /\ docs' = [docs EXCEPT ![c] = DocumentState(persisted[c])]
    /\ presence' = [presence EXCEPT ![c] = PresenceState]
    /\ UNCHANGED persisted

-----------------------------------------------------------------------------
(* The application's server works off each socket's messages in order, numbers *)
(* updates, sends them to those who view the document, and refuses the others. *)

Answering(c, messages) == link' = [link EXCEPT ![c].up = Tail(@), ![c].down = @ \o messages]
Views(c) == server.viewers[c] # "none"
Has == UNION {server.updates[i] : i \in DOMAIN server.updates}

ServesPresence(c, m) ==
    /\ m.kind \in {"doc_view", "doc_focus"}
    /\ server' = [server EXCEPT !.viewers[c] =
           IF m.kind = "doc_view" /\ ~m.flag THEN "none"
           ELSE IF m.kind = "doc_focus" /\ m.flag THEN "editing" ELSE "viewing"]
    /\ Answering(c, <<Message("session_state", {}, 0, FALSE)>>)
    /\ UNCHANGED lost

ServesSyncStep1(c, m) ==
    /\ m.kind = "yjs_sync_step1" /\ Views(c)
    /\ Answering(c, <<Message("yjs_sync_step2", Has \ m.ops, Len(server.updates), FALSE)>>)
    /\ UNCHANGED <<server, lost>>

Relays(c, m, told) ==
    LET seq == Len(server.updates) + 1 IN
    /\ m.kind = "yjs_update" /\ Views(c)
    /\ server' = [server EXCEPT !.updates = Append(@, m.ops)]
    /\ link' = [b \in Clients |->
           [link[b] EXCEPT
               !.up = IF b = c THEN Tail(@) ELSE @,
               !.down = IF b \in told THEN Append(@, Message("yjs_update", m.ops, seq, b = c)) ELSE @]]
    /\ UNCHANGED lost

Viewers == {b \in Clients : Views(b)}

Rejects(c, m, retryable) ==
    /\ Answering(c, Error(retryable))
    /\ lost' = lost \cup Carried(<<m>>)
    /\ UNCHANGED server

Serves(c) ==
    /\ link[c].up # <<>>
    /\ LET m == Head(link[c].up) IN
       \/ ServesPresence(c, m) \/ ServesSyncStep1(c, m) \/ Relays(c, m, Viewers)
       \/ /\ m.kind \in {"yjs_sync_step1", "yjs_update"} /\ ~Views(c)
          /\ Rejects(c, m, TRUE)
    /\ UNCHANGED <<docs, persisted, presence, left>>

ServerFails(c) ==
    /\ link[c].up # <<>>
    /\ \/ /\ left.errors > 0 /\ left' = [left EXCEPT !.errors = @ - 1]
          /\ Rejects(c, Head(link[c].up), TRUE)
       \/ /\ left.refusals > 0 /\ left' = [left EXCEPT !.refusals = @ - 1]
          /\ Rejects(c, Head(link[c].up), FALSE)
    /\ UNCHANGED <<docs, persisted, presence>>

\* A relay between the server's processes may lose an update: the numbers tell.
RelayLoses(c) ==
    /\ left.losses > 0 /\ left' = [left EXCEPT !.losses = @ - 1]
    /\ link[c].up # <<>>
    /\ \E b \in Viewers \ {c} : Relays(c, Head(link[c].up), Viewers \ {b})
    /\ UNCHANGED <<docs, persisted, presence>>

-----------------------------------------------------------------------------
(* Messages to a client. *)

Arrives(c, kind) == link[c].down # <<>> /\ Head(link[c].down).kind = kind
Handling(c, messages) == link' = [link EXCEPT ![c].down = Tail(@), ![c].up = @ \o messages]

\* An answer older than what was seen is ignored, and so is one of the same age
\* unless it was waited for.
Outdated(d, m) == m.seq < d.lastSeq \/ (m.seq = d.lastSeq /\ d.state = "connected")

\* The content to begin with goes into a document without any, and with all
\* that was kept back to the server.
HandleSyncStep2(c) ==
    LET m == Head(link[c].down)
        d == docs[c]
        seeds == IF d.initial /\ d.ops \cup m.ops = {} THEN {<<c, 0>>} ELSE {}
        owed == d.pending \cup seeds
        ops == d.ops \cup m.ops \cup seeds
    IN
    /\ Arrives(c, "yjs_sync_step2")
    /\ IF ~(Online(c) /\ IsActive(d)) \/ Outdated(d, m)
       THEN Handling(c, <<>>) /\ UNCHANGED <<docs, persisted>>
       ELSE /\ docs' = [docs EXCEPT ![c] = [ResetRetry(d) EXCEPT
                  !.ops = ops, !.initial = FALSE, !.lastSeq = m.seq, !.pending = {}, !.state = "connected"]]
            /\ persisted' = [persisted EXCEPT ![c] = ops]
            /\ Handling(c, IF owed = {} THEN <<>> ELSE Update(owed))
    /\ UNCHANGED <<presence, server, lost, left>>

\* Mutant: an update is applied whatever was missed before it.
NeverGaps(d, m) == FALSE

\* The number before was not seen: it was another client's, or an own update,
\* whose echo is not counted.
HasGap(d, m) == m.seq > d.lastSeq + 1

HandleUpdate(c) ==
    LET m == Head(link[c].down)
        d == docs[c]
    IN
    /\ Arrives(c, "yjs_update")
    /\ IF m.flag \/ ~(Online(c) /\ IsActive(d)) \/ d.state # "connected" \/ m.seq <= d.lastSeq
       THEN Handling(c, <<>>) /\ UNCHANGED <<docs, persisted>>
       ELSE IF HasGap(d, m)
       THEN /\ docs' = [docs EXCEPT ![c] = Requested(d, TRUE)]
            /\ Handling(c, SyncStep1(d)) /\ UNCHANGED persisted
       ELSE /\ docs' = [docs EXCEPT ![c] = [d EXCEPT !.ops = @ \cup m.ops, !.lastSeq = m.seq]]
            /\ persisted' = [persisted EXCEPT ![c] = d.ops \cup m.ops]
            /\ Handling(c, <<>>)
    /\ UNCHANGED <<presence, server, lost, left>>

\* Mutant: a retry is counted, and no timer runs for it.
RetryForgotten(d) ==
    IF ~IsActive(d) THEN [d EXCEPT !.state = "disconnected"]
    ELSE [d EXCEPT !.attempts = @ + 1, !.state = "connecting"]

RetryScheduled(d) ==
    IF ~IsActive(d) THEN [d EXCEPT !.state = "disconnected"]
    ELSE IF d.timer THEN d
    ELSE IF d.attempts >= MaxRetries THEN [ResetRetry(d) EXCEPT !.state = "disconnected"]
    ELSE [d EXCEPT !.attempts = @ + 1, !.timer = TRUE, !.state = "connecting"]

ReplayScheduled(p) ==
    IF ~p.viewing \/ p.timer THEN p
    ELSE IF p.attempts >= MaxRetries THEN ResetRetry(p)
    ELSE [p EXCEPT !.attempts = @ + 1, !.timer = TRUE]

\* Both managers take an error for their own, whichever of them it answers.
HandleError(c) ==
    LET retryable == Head(link[c].down).flag IN
    /\ Arrives(c, "live_editing_error")
    /\ docs' = [docs EXCEPT ![c] =
           IF retryable THEN RetryScheduled(@) ELSE [ResetRetry(@) EXCEPT !.state = "disconnected"]]
    /\ presence' = [presence EXCEPT ![c] = IF retryable THEN ReplayScheduled(@) ELSE ResetRetry(@)]
    /\ Handling(c, <<>>)
    /\ UNCHANGED <<persisted, server, lost, left>>

HandleSessionState(c) ==
    /\ Arrives(c, "session_state")
    /\ presence' = [presence EXCEPT ![c] = ResetRetry(@)]
    /\ Handling(c, <<>>)
    /\ UNCHANGED <<docs, persisted, server, lost, left>>

RetryTimerFires(c) ==
    /\ docs[c].timer
    /\ docs' = [docs EXCEPT ![c] = Requested([@ EXCEPT !.timer = FALSE], Online(c))]
    /\ Sending(c, SyncStep1(docs[c]))
    /\ UNCHANGED <<persisted, presence, server, lost, left>>

ReplayTimerFires(c) ==
    /\ presence[c].timer
    /\ presence' = [presence EXCEPT ![c].timer = FALSE]
    /\ Sending(c, Replay(presence[c]))
    /\ UNCHANGED <<docs, persisted, server, lost, left>>

-----------------------------------------------------------------------------

Handles(c) == HandleSyncStep2(c) \/ HandleUpdate(c) \/ HandleError(c) \/ HandleSessionState(c)

Next == \E c \in Clients :
    \/ Open(c) \/ Close(c) \/ Focus(c) \/ Blur(c) \/ Edit(c) \/ Clear(c)
    \/ LinkOpens(c) \/ LinkDrops(c) \/ Reload(c)
    \/ Serves(c) \/ ServerFails(c) \/ RelayLoses(c) \/ Handles(c)
    \/ RetryTimerFires(c) \/ ReplayTimerFires(c)

Spec == Init /\ [][Next]_vars

\* Sockets come back, messages arrive and are answered, timers fire.
FairSpec ==
    /\ Spec
    /\ \A c \in Clients :
        /\ WF_vars(LinkOpens(c)) /\ WF_vars(Serves(c)) /\ WF_vars(Handles(c))
        /\ WF_vars(RetryTimerFires(c)) /\ WF_vars(ReplayTimerFires(c))

-----------------------------------------------------------------------------
(* Properties. *)

\* A client that is in sync has every update up to the number it has come to,
\* those it ignored while it was not in sync included.  (Excepted is a document
\* that was cleared under a request and takes the answer for its own.)
ConnectedHasSeen ==
    \A c \in Clients : docs[c].state = "connected" /\ ~docs[c].crossed =>
        \A i \in 1 .. docs[c].lastSeq : server.updates[i] \subseteq docs[c].ops

\* What is in a document that is in use and not yet with the server is kept
\* back for it or on its way, or was lost on its way: no state the connection
\* goes through makes the manager forget an edit, and a reload finds it.
EditsAreOwed ==
    \A c \in Clients : IsActive(docs[c]) =>
        /\ docs[c].ops \subseteq Has \cup lost \cup docs[c].pending \cup Carried(link[c].up)
        /\ docs[c].ops \subseteq persisted[c]

\* Without errors or lost updates, every document in use ends up in sync, with what the server
\* has, which has all that was not lost; with errors it may end up disconnected,
\* never waiting for an answer nobody asked for.  Unless its last word is
\* refused, the server ends up with who views and who edits.
Told(c) == server.viewers[c] = IF presence[c].editing THEN "editing"
                               ELSE IF presence[c].viewing THEN "viewing" ELSE "none"
InSync(c) ==
    IsActive(docs[c]) /\ ~docs[c].crossed =>
        /\ docs[c].state = "connected"
        /\ Has \subseteq docs[c].ops /\ docs[c].ops \subseteq Has \cup lost
Rests(c) == IsActive(docs[c]) => docs[c].state \in {"connected", "disconnected"}
DocumentsSettle ==
    \A c \in Clients :
        /\ <>[]Rests(c)
        /\ (left.errors = 0 /\ left.refusals = 0 /\ left.losses = 0) => <>[]InSync(c)
        /\ (left.errors <= MaxRetries /\ left.refusals = 0) => <>[]Told(c)

=============================================================================
