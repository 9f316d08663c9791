------------------------------ MODULE DeltaSocket ------------------------------
(***************************************************************************)
(* The client's end of the delta stream: WebSocketManager, which keeps one *)
(* subscription alive over sockets that open, fail and are replaced.       *)
(*                                                                         *)
(* Every await is a gap between two actions: the token a connect attempt   *)
(* or a sendSubscribe waits for, the events of a socket, two timers.  What  *)
(* continues after one may find that close() was called, that the socket   *)
(* was replaced, or that another subscription has taken the place of its   *)
(* own.  The server's end is what one connection of ClientSession amounts  *)
(* to: it works off a connection's messages in order, replays from the     *)
(* cursor it is given, acknowledges, and goes on live.                     *)
(***************************************************************************)
EXTENDS Integers, Sequences, SequencesExt

CONSTANTS
    MaxRetries,  \* retryConfig.maxRetries
    MaxHead,     \* ids the server commits (bound)
    Scenarios    \* how often each of Chances may happen: functions

(* What the environment and the application may do beside subscribing.     *)
Chances == {"drops",     \* a socket fails
            "rejects",   \* a connect attempt's token is refused
            "tokenless", \* a sendSubscribe gets no token
            "unsent",    \* a sendSubscribe's token is refused
            "errors",    \* the server answers with an error
            "stale",     \* the server asks for a bootstrap
            "closes",    \* close()
            "returns",   \* the application leaves its stream
            "reopens",   \* it subscribes again
            "raws"}      \* sendRaw()

ASSUME DeltaSocketAssumption ==
    /\ MaxRetries \in Nat /\ MaxHead \in Nat
    /\ Scenarios \subseteq [Chances -> Nat]

VARIABLES
    manager,  \* the fields of WebSocketManager and of its one subscription
    sends,    \* sendSubscribe calls that wait for a token
    link,     \* the current socket's two directions, and the server's session
    head,     \* the last committed id
    budget,   \* what is left of the scenario
    scenario

vars == <<manager, sends, link, head, budget, scenario>>

(* A message carries an id: a subscribe's cursor, or a delta's sync id.     *)
Message(kind, id) == [kind |-> kind, id |-> id]
Raw == Message("raw", 0)
NoLink == [up |-> <<>>, down |-> <<>>, session |-> "none", at |-> 0]
NoSubscription == [phase |-> "none", after |-> 0, last |-> 0, got |-> {}, shared |-> FALSE]

Init ==
    /\ manager = [socket |-> 0, readyState |-> "none", attempts |-> {}, generation |-> 0,
                  shouldReconnect |-> TRUE, connectionState |-> "disconnected",
                  subscribedReady |-> FALSE, timers |-> 0, reconnectTimer |-> FALSE,
                  reconnectAttempts |-> 0, subscribeRetryTimer |-> FALSE,
                  subscribeRetryAttempts |-> 0, pendingMessages |-> 0,
                  subscription |-> NoSubscription]
    /\ sends = <<>> /\ link = NoLink /\ head = 0
    /\ scenario \in Scenarios /\ budget = scenario

May(chance) == budget[chance] > 0 /\ budget' = [budget EXCEPT ![chance] = @ - 1]

-------------------------------------------------------------------------------
(* What the manager's methods do to its fields between two awaits.         *)

Active(m) == m.subscription.phase = "active"
IsOpen(m) == m.readyState = "open"

Failing(m) ==
    IF Active(m) THEN [m EXCEPT !.connectionState = "error", !.subscription.phase = "failed"]
                 ELSE [m EXCEPT !.connectionState = "error"]

(* connect(): joins the attempt that is under way, if there is one.        *)
Connecting(m) ==
    IF m.readyState # "none" \/ m.generation \in m.attempts THEN m
    ELSE [m EXCEPT !.attempts = @ \cup {m.generation}, !.shouldReconnect = TRUE,
                   !.connectionState = IF m.reconnectAttempts > 0 THEN "reconnecting" ELSE "connecting"]

(* A second timer takes the place of the first, which stays set.           *)
SchedulingReconnect(m) ==
    IF m.reconnectAttempts >= MaxRetries THEN Failing(m)
    ELSE [m EXCEPT !.reconnectAttempts = @ + 1, !.timers = @ + 1, !.reconnectTimer = TRUE]

RetryingForEver(m) == \* MUTANT: no limit
    IF m.subscribeRetryTimer \/ ~m.shouldReconnect \/ ~Active(m) THEN m
    ELSE [m EXCEPT !.subscribeRetryAttempts = @ + 1, !.subscribeRetryTimer = TRUE]
SchedulingSubscribeRetry(m) ==
    IF m.subscribeRetryTimer \/ ~m.shouldReconnect \/ ~Active(m) THEN m
    ELSE IF m.subscribeRetryAttempts >= MaxRetries THEN Failing(m)
    ELSE [m EXCEPT !.subscribeRetryAttempts = @ + 1, !.subscribeRetryTimer = TRUE]

(* flushSubscriptions and subscribe() on an open socket: sendSubscribe      *)
(* notes the socket and the cursor, and asks for a token.                  *)
Flushing(m) ==
    IF Active(m) /\ IsOpen(m)
    THEN Append(sends, [socket |-> m.socket, after |-> m.subscription.last])
    ELSE sends

-------------------------------------------------------------------------------
(* The application.                                                        *)

IsCurrent(s) == s.socket = manager.socket /\ IsOpen(manager)

(* A stream before this one has left something under way on the socket.     *)
Shared ==
    \/ link.session # "none" \/ link.up # <<>> \/ link.down # <<>>
    \/ \E i \in DOMAIN sends : IsCurrent(sends[i])

Subscribe ==
    /\ ~Active(manager)
    /\ IF manager.subscription.phase = "none" THEN UNCHANGED budget ELSE May("reopens")
    /\ \E after \in manager.subscription.after .. head :
           manager' = Connecting([manager EXCEPT !.subscription =
                          [phase |-> "active", after |-> after, last |-> after, got |-> {},
                           shared |-> Shared]])
    /\ sends' = Flushing(manager')
    /\ UNCHANGED <<link, head, scenario>>

(* return(), throw() and unsubscribe().                                    *)
Return ==
    /\ Active(manager) /\ May("returns")
    /\ manager' = [manager EXCEPT !.subscription.phase = "closed"]
    /\ UNCHANGED <<sends, link, head, scenario>>

SendRaw ==
    /\ May("raws")
    /\ IF IsOpen(manager) /\ manager.subscribedReady
       THEN link' = [link EXCEPT !.up = Append(@, Raw)] /\ UNCHANGED manager
       ELSE /\ manager' = Connecting([manager EXCEPT !.pendingMessages = @ + 1])
            /\ UNCHANGED link
    /\ UNCHANGED <<sends, head, scenario>>

Closed(m) ==
    [m EXCEPT !.shouldReconnect = FALSE, !.generation = @ + 1,
              !.timers = IF m.reconnectTimer THEN @ - 1 ELSE @, !.reconnectTimer = FALSE,
              !.subscribeRetryTimer = FALSE, !.subscribeRetryAttempts = 0,
              !.pendingMessages = 0, !.readyState = "none", !.subscribedReady = FALSE,
              !.connectionState = "disconnected",
              !.subscription.phase = IF Active(m) THEN "closed" ELSE @]

Close ==
    /\ May("closes")
    /\ manager' = Closed(manager)
    /\ link' = NoLink
    /\ UNCHANGED <<sends, head, scenario>>

-------------------------------------------------------------------------------
(* A connect attempt: the token, then the socket.                          *)

NeverOrphaned(m, g) == FALSE \* MUTANT: close() does not orphan an attempt
IsOrphaned(m, g) == ~m.shouldReconnect \/ g # m.generation

(* No socket means no close event to drive the retry.                      *)
NotRetried(m) == m \* MUTANT: an attempt that fails is the last one
Retried(m) ==
    IF m.shouldReconnect /\ Active(m) /\ ~m.reconnectTimer THEN SchedulingReconnect(m) ELSE m

AttemptOpensSocket(g) ==
    LET ended == [manager EXCEPT !.attempts = @ \ {g}] IN
    /\ g \in manager.attempts
    /\ IF IsOrphaned(manager, g) THEN manager' = ended /\ UNCHANGED link
       ELSE /\ manager' = [ended EXCEPT !.socket = @ + 1, !.readyState = "connecting"]
            /\ link' = NoLink
    /\ UNCHANGED <<sends, head, budget, scenario>>

AttemptFails(g) ==
    LET ended == [manager EXCEPT !.attempts = @ \ {g}] IN
    /\ g \in manager.attempts /\ May("rejects")
    /\ manager' = IF g # manager.generation THEN ended
                  ELSE Retried([ended EXCEPT !.subscribedReady = FALSE, !.connectionState = "error"])
    /\ UNCHANGED <<sends, link, head, scenario>>

ReconnectTimerFires ==
    /\ manager.timers > 0
    /\ manager' = Connecting([manager EXCEPT !.timers = @ - 1, !.reconnectTimer = FALSE])
    /\ UNCHANGED <<sends, link, head, budget, scenario>>

SubscribeRetryTimerFires ==
    LET fired == [manager EXCEPT !.subscribeRetryTimer = FALSE] IN
    /\ manager.subscribeRetryTimer
    /\ manager' = IF fired.shouldReconnect /\ Active(fired) THEN Connecting(fired) ELSE fired
    /\ sends' = IF fired.shouldReconnect THEN Flushing(fired) ELSE sends
    /\ UNCHANGED <<link, head, budget, scenario>>

-------------------------------------------------------------------------------
(* The events of the current socket.                                       *)

SocketOpens ==
    /\ manager.readyState = "connecting"
    /\ manager' = [manager EXCEPT !.readyState = "open", !.reconnectAttempts = 0,
                                  !.subscribeRetryTimer = FALSE, !.subscribedReady = FALSE,
                                  !.connectionState = "connected"]
    /\ sends' = Flushing(manager')
    /\ UNCHANGED <<link, head, budget, scenario>>

(* The connection ends, with or without an error event; no message passes  *)
(* any more, and the close event is still to come.                         *)
SocketFails ==
    /\ manager.readyState \in {"connecting", "open"} /\ May("drops")
    /\ \/ manager' = [manager EXCEPT !.readyState = "closed"]
       \/ manager' = [manager EXCEPT !.readyState = "closed", !.subscribedReady = FALSE,
                                     !.connectionState = "error"]
    /\ link' = NoLink
    /\ UNCHANGED <<sends, head, scenario>>

SocketCloses ==
    LET gone == [manager EXCEPT !.readyState = "none", !.subscribedReady = FALSE,
                                !.connectionState = "disconnected"] IN
    /\ manager.readyState = "closed"
    /\ manager' = IF gone.shouldReconnect /\ Active(gone) THEN SchedulingReconnect(gone) ELSE gone
    /\ UNCHANGED <<sends, link, head, budget, scenario>>

-------------------------------------------------------------------------------
(* sendSubscribe after its await.  Only the socket is looked at again.     *)

CursorOfNext(s) == s.after + 1 \* MUTANT: the first id wanted, not the last one seen
CursorOf(s) == s.after

SubscribeIsSent(i) ==
    /\ i \in DOMAIN sends
    /\ IF IsCurrent(sends[i])
       THEN /\ manager' = [manager EXCEPT !.subscribedReady = FALSE]
            /\ link' = [link EXCEPT !.up = Append(@, Message("subscribe", CursorOf(sends[i])))]
       ELSE UNCHANGED <<manager, link>>
    /\ sends' = RemoveAt(sends, i)
    /\ UNCHANGED <<head, budget, scenario>>

SubscribeHasNoToken(i) ==
    /\ i \in DOMAIN sends /\ May("tokenless")
    /\ manager' = SchedulingSubscribeRetry(manager)
    /\ sends' = RemoveAt(sends, i)
    /\ UNCHANGED <<link, head, scenario>>

(* Its rejection is swallowed: "reconnect will handle it".                  *)
SubscribeIsUnsent(i) ==
    /\ i \in DOMAIN sends /\ May("unsent")
    /\ sends' = RemoveAt(sends, i)
    /\ UNCHANGED <<manager, link, head, scenario>>

-------------------------------------------------------------------------------
(* handleMessage.                                                          *)

Acknowledged(m) ==
    [m EXCEPT !.subscribeRetryTimer = FALSE, !.subscribeRetryAttempts = 0,
              !.connectionState = "connected", !.subscribedReady = TRUE, !.pendingMessages = 0]

Refused(m) == [m EXCEPT !.subscribedReady = FALSE, !.connectionState = "error"]

Received(m, id) ==
    IF Active(m) THEN [m EXCEPT !.subscription.last = IF id > @ THEN id ELSE @,
                                !.subscription.got = @ \cup {id}]
    ELSE m

HandleMessage ==
    LET message == Head(link.down)
        read == [link EXCEPT !.down = Tail(@)] IN
    /\ IsOpen(manager) /\ link.down # <<>>
    /\ \/ /\ message.kind = "subscribed"
          /\ manager' = Acknowledged(manager)
          /\ link' = [read EXCEPT !.up = @ \o [n \in 1 .. manager.pendingMessages |-> Raw]]
       \/ /\ message.kind = "error"
          /\ manager' = SchedulingSubscribeRetry(Refused(manager)) /\ link' = read
       \/ /\ message.kind = "stale"
          /\ manager' = Failing(Refused(manager)) /\ link' = read
       \/ /\ message.kind = "end"
          /\ manager' = [manager EXCEPT !.readyState = "closed"] /\ link' = NoLink
       \/ /\ message.kind = "delta"
          /\ manager' = Received(manager, message.id) /\ link' = read
    /\ UNCHANGED <<sends, head, budget, scenario>>

-------------------------------------------------------------------------------
(* The server's end of the current connection.                             *)

Commits ==
    /\ head < MaxHead /\ head' = head + 1
    /\ UNCHANGED <<manager, sends, link, budget, scenario>>

(* One subscribe at a time: the next waits until this one is acknowledged. *)
Reads == link.up # <<>> /\ link.session # "replaying"

ServerReplays ==
    /\ Reads
    /\ link' = IF Head(link.up) = Raw THEN [link EXCEPT !.up = Tail(@)]
               ELSE [link EXCEPT !.up = Tail(@), !.session = "replaying", !.at = Head(link.up).id]
    /\ UNCHANGED <<manager, sends, head, budget, scenario>>

ServerRefuses ==
    /\ Reads /\ Head(link.up) # Raw /\ May("errors")
    /\ link' = [link EXCEPT !.up = Tail(@), !.session = "none", !.down = Append(@, Message("error", 0))]
    /\ UNCHANGED <<manager, sends, head, scenario>>

(* A replay that fails ends the connection behind its error.                *)
ServerFails ==
    /\ link.session = "replaying" /\ May("errors")
    /\ link' = [link EXCEPT !.session = "none", !.up = <<>>,
                            !.down = @ \o <<Message("error", 0), Message("end", 0)>>]
    /\ UNCHANGED <<manager, sends, head, scenario>>

(* A subscribe below retention, or a change of access while live.          *)
ServerAsksForBootstrap ==
    /\ link.session # "none" /\ May("stale")
    /\ link' = [link EXCEPT !.session = "none", !.down = Append(@, Message("stale", 0))]
    /\ UNCHANGED <<manager, sends, head, scenario>>

ServerSends ==
    /\ link.session # "none" /\ link.at < head
    /\ link' = [link EXCEPT !.at = @ + 1, !.down = Append(@, Message("delta", link.at + 1))]
    /\ UNCHANGED <<manager, sends, head, budget, scenario>>

ServerAcknowledges ==
    /\ link.session = "replaying" /\ link.at = head
    /\ link' = [link EXCEPT !.session = "live", !.down = Append(@, Message("subscribed", 0))]
    /\ UNCHANGED <<manager, sends, head, budget, scenario>>

-------------------------------------------------------------------------------
AttemptEnds == \E g \in manager.attempts : AttemptOpensSocket(g) \/ AttemptFails(g)
SendEnds ==
    \E i \in DOMAIN sends : SubscribeIsSent(i) \/ SubscribeHasNoToken(i) \/ SubscribeIsUnsent(i)
Serves == ServerReplays \/ ServerRefuses \/ ServerFails \/ ServerSends \/ ServerAcknowledges

Next ==
    \/ Subscribe \/ Return \/ SendRaw \/ Close
    \/ AttemptEnds \/ ReconnectTimerFires \/ SubscribeRetryTimerFires
    \/ SocketOpens \/ SocketFails \/ SocketCloses
    \/ SendEnds \/ HandleMessage
    \/ Commits \/ Serves \/ ServerAsksForBootstrap

Spec == Init /\ [][Next]_vars

\* Tokens, timers, events and messages arrive, and the server answers.
FairSpec ==
    /\ Spec
    /\ WF_vars(AttemptEnds) /\ WF_vars(SendEnds) /\ WF_vars(HandleMessage) /\ WF_vars(Serves)
    /\ WF_vars(ReconnectTimerFires) /\ WF_vars(SubscribeRetryTimerFires)
    /\ WF_vars(SocketOpens) /\ WF_vars(SocketCloses)

-------------------------------------------------------------------------------
(* Properties.                                                             *)

\* The fields keep their types; a cursor is an id the server has committed,
\* and no more retries are counted than are allowed.
TypeOK ==
    /\ manager.readyState \in {"none", "connecting", "open", "closed"}
    /\ manager.attempts \subseteq 0 .. manager.generation
    /\ manager.reconnectAttempts \in 0 .. MaxRetries
    /\ manager.subscribeRetryAttempts \in 0 .. MaxRetries
    /\ manager.timers \in Nat /\ (manager.reconnectTimer => manager.timers > 0)
    /\ manager.subscription.phase \in {"none", "active", "closed", "failed"}
    /\ manager.subscription.last \in manager.subscription.after .. head
    /\ manager.subscription.got \subseteq 1 .. head
    /\ \A i \in DOMAIN sends : sends[i].after \in 0 .. head

\* A stream delivers every action after its cursor before those that follow
\* (TransportAdapter.subscribe).
DeliversAfterCursor ==
    manager.subscription.after + 1 .. manager.subscription.last \subseteq manager.subscription.got

\* It does so across sockets, retries, reconnects and close(), unless it was
\* opened on a socket where a subscribe of an earlier stream is still under way
\* or served: what that one is sent reaches this one.
StreamHasNoGap == ~manager.subscription.shared => DeliversAfterCursor

\* close() is final until the application asks for the stream again: nothing
\* that was under way when it was called opens a socket later, and only a
\* subscribe or a raw message connects -- unless a second reconnect timer had
\* taken the place of a first, which is not cleared.
ClosedStaysClosed ==
    [][/\ ~manager'.shouldReconnect => manager'.readyState = "none" /\ ~manager'.subscribedReady
       /\ ~manager.shouldReconnect /\ manager'.shouldReconnect /\ manager.timers = 0
              => Subscribe \/ SendRaw]_vars

\* A subscription is served or fails in the end: it is never left without a
\* socket, an attempt or a timer (connect), unless a sendSubscribe's token is
\* refused on a socket that stays open, or the acknowledgement of a stream that
\* was left cancels the retry of the stream opened after it.
SubscriptionSettles ==
    scenario["unsent"] = 0 =>
        (Active(manager) ~> \/ ~Active(manager) \/ manager.subscription.last = head
                            \/ manager.subscription.shared /\ scenario["tokenless"] > 0)

===============================================================================
