-------------------------- MODULE DeltaSocketProofs --------------------------
(***************************************************************************)
(* Proofs about DeltaSocket for every retry limit, every log and every     *)
(* number of failures, refusals, closes and streams: the fields keep their *)
(* types, close() is final, and a stream has no gap.                       *)
(***************************************************************************)
EXTENDS DeltaSocket, ListsProofs

-----------------------------------------------------------------------------
(* The invariant. *)

ConnectionState == {"disconnected", "connecting", "reconnecting", "connected", "error"}
Subscription ==
    [phase : {"none", "active", "closed", "failed"}, after : Nat, last : Nat, got : SUBSET Nat,
     shared : BOOLEAN]
Manager ==
    [socket : Nat, readyState : {"none", "connecting", "open", "closed"}, attempts : SUBSET Nat,
     generation : Nat, shouldReconnect : BOOLEAN, connectionState : ConnectionState,
     subscribedReady : BOOLEAN, timers : Nat, reconnectTimer : BOOLEAN,
     reconnectAttempts : 0 .. MaxRetries, subscribeRetryTimer : BOOLEAN,
     subscribeRetryAttempts : 0 .. MaxRetries, pendingMessages : Nat,
     subscription : Subscription]
Send == [socket : Nat, after : Nat]
Messages == [kind : {"subscribe", "raw", "subscribed", "error", "stale", "end", "delta"}, id : Nat]
Link == [up : Seq(Messages), down : Seq(Messages), session : {"none", "replaying", "live"}, at : Nat]

\* The fields of a manager fit together, as of a last committed id.
Sound(m, h) ==
    /\ m \in Manager
    /\ m.attempts \subseteq 0 .. m.generation
    /\ m.reconnectTimer => m.timers > 0
    /\ m.subscription.after <= m.subscription.last /\ m.subscription.last <= h
    /\ m.subscription.got \subseteq 1 .. h

TypesOK ==
    /\ head \in Nat /\ budget \in [Chances -> Nat]
    /\ Sound(manager, head)
    /\ sends \in Seq(Send) /\ link \in Link

\* What is under way is about committed ids.
IdsInv ==
    /\ \A s \in ToSet(sends) : s.after <= head
    /\ \A message \in ToSet(link.up) \cup ToSet(link.down) : message.id <= head
    /\ \A message \in ToSet(link.down) : message.kind = "delta" => message.id > 0
    /\ link.at <= head

\* A manager that was closed has no socket and waits for none.
ClosedInv ==
    ~manager.shouldReconnect => manager.readyState = "none" /\ ~manager.subscribedReady

\* A sendSubscribe was for a socket that was open by then.
SendsInv ==
    \A s \in ToSet(sends) :
        s.socket <= manager.socket /\ (s.socket = manager.socket => manager.readyState # "connecting")

\* The ids that a stream must have had before id n + 1 is no gap; those of the
\* deltas before the i-th message on the way.
Upto(m, n) == m.subscription.after + 1 .. n
Ahead(down, i) == {down[j].id : j \in {j \in DOMAIN down : j < i /\ down[j].kind = "delta"}}

\* What comes down continues what the stream has, or will have when it comes: the
\* place the server's session is at, and each delta on the way.
Continues(m, l) ==
    /\ l.session # "none" =>
          Upto(m, l.at) \subseteq m.subscription.got \cup Ahead(l.down, Len(l.down) + 1)
    /\ \A i \in DOMAIN l.down : l.down[i].kind = "delta" =>
          Upto(m, l.down[i].id - 1) \subseteq m.subscription.got \cup Ahead(l.down, i)

\* So does the cursor of a subscribe that is on its way up, or waits for a token.
StreamInv ==
    Active(manager) /\ ~manager.subscription.shared =>
        /\ \A s \in ToSet(sends) :
              IsCurrent(s) => Upto(manager, s.after) \subseteq manager.subscription.got
        /\ \A message \in ToSet(link.up) : message # Raw =>
              Upto(manager, message.id) \subseteq manager.subscription.got
        /\ Continues(manager, link)

SocketInv ==
    /\ TypesOK /\ IdsInv /\ ClosedInv /\ SendsInv /\ StreamInv /\ StreamHasNoGap

-----------------------------------------------------------------------------
(* What the manager's methods do to its fields. *)

\* A manager after a method that neither ends a socket nor moves a stream.
Keeps(m, n) ==
    /\ n.socket = m.socket /\ n.readyState = m.readyState
    /\ n.shouldReconnect \in {m.shouldReconnect, TRUE} /\ n.subscribedReady = m.subscribedReady
    /\ n.subscription.after = m.subscription.after /\ n.subscription.last = m.subscription.last
    /\ n.subscription.got = m.subscription.got /\ n.subscription.shared = m.subscription.shared
    /\ Active(n) => Active(m)

LEMMA FailingKeeps ==
  ASSUME NEW h \in Nat, NEW m, Sound(m, h)
  PROVE  Sound(Failing(m), h) /\ Keeps(m, Failing(m)) /\ Failing(m).shouldReconnect = m.shouldReconnect
<1>1. m \in Manager /\ m.subscription \in Subscription
  BY DEF Sound, Manager
<1>2. CASE Active(m)
  <2> DEFINE s == [m.subscription EXCEPT !.phase = "failed"]
             n == [[m EXCEPT !.connectionState = "error"] EXCEPT !.subscription = s]
  <2>1. Failing(m) = n
    BY <1>1, <1>2 DEF Failing, Manager
  <2>2. /\ s \in Subscription /\ s.after = m.subscription.after /\ s.last = m.subscription.last
        /\ s.got = m.subscription.got /\ s.shared = m.subscription.shared /\ s.phase = "failed"
    BY <1>1 DEF Subscription
  <2> HIDE DEF s
  <2>3. n \in Manager /\ n.subscription = s
    BY <1>1, <2>2 DEF Manager, ConnectionState
  <2>4. /\ n.socket = m.socket /\ n.readyState = m.readyState
        /\ n.shouldReconnect = m.shouldReconnect /\ n.subscribedReady = m.subscribedReady
        /\ n.attempts = m.attempts /\ n.generation = m.generation
        /\ n.reconnectTimer = m.reconnectTimer /\ n.timers = m.timers
    BY <1>1 DEF Manager
  <2> HIDE DEF n
  <2> QED
    BY <1>2, <2>1, <2>2, <2>3, <2>4 DEF Sound, Keeps, Active
<1>3. CASE ~Active(m)
  <2> DEFINE n == [m EXCEPT !.connectionState = "error"]
  <2>1. n \in Manager
    BY <1>1 DEF Manager, ConnectionState
  <2>2. /\ n.socket = m.socket /\ n.readyState = m.readyState
        /\ n.shouldReconnect = m.shouldReconnect /\ n.subscribedReady = m.subscribedReady
        /\ n.attempts = m.attempts /\ n.generation = m.generation
        /\ n.reconnectTimer = m.reconnectTimer /\ n.timers = m.timers
        /\ n.subscription = m.subscription
    BY <1>1 DEF Manager
  <2> HIDE DEF n
  <2> QED
    BY <1>3, <2>1, <2>2 DEF Sound, Keeps, Active, Failing, n
<1> QED
  BY <1>2, <1>3

LEMMA ConnectingKeeps ==
  ASSUME NEW h \in Nat, NEW m, Sound(m, h)
  PROVE  Sound(Connecting(m), h) /\ Keeps(m, Connecting(m))
<1>1. m \in Manager
  BY DEF Sound
<1>2. CASE m.readyState # "none" \/ m.generation \in m.attempts
  BY <1>1, <1>2 DEF Connecting, Keeps, Manager
<1>3. CASE ~(m.readyState # "none" \/ m.generation \in m.attempts)
  <2> DEFINE c == IF m.reconnectAttempts > 0 THEN "reconnecting" ELSE "connecting"
             n == [m EXCEPT !.attempts = m.attempts \cup {m.generation}, !.shouldReconnect = TRUE,
                            !.connectionState = c]
  <2>1. Connecting(m) = n
    BY <1>3 DEF Connecting
  <2>2. c \in ConnectionState /\ m.attempts \cup {m.generation} \in SUBSET Nat
    BY <1>1 DEF ConnectionState, Manager
  <2> HIDE DEF c
  <2>3. n \in Manager
    BY <1>1, <2>2 DEF Manager
  <2>4. /\ n.socket = m.socket /\ n.readyState = m.readyState
        /\ n.shouldReconnect = TRUE /\ n.subscribedReady = m.subscribedReady
        /\ n.attempts = m.attempts \cup {m.generation} /\ n.generation = m.generation
        /\ n.reconnectTimer = m.reconnectTimer /\ n.timers = m.timers
        /\ n.subscription = m.subscription
    BY <1>1 DEF Manager
  <2>5. m.attempts \cup {m.generation} \subseteq 0 .. m.generation
    BY <1>1 DEF Sound, Manager
  <2> HIDE DEF n
  <2> QED
    BY <2>1, <2>3, <2>4, <2>5 DEF Sound, Keeps, Active
<1> QED
  BY <1>2, <1>3

LEMMA SchedulingReconnectKeeps ==
  ASSUME NEW h \in Nat, NEW m, Sound(m, h)
  PROVE  /\ Sound(SchedulingReconnect(m), h) /\ Keeps(m, SchedulingReconnect(m))
         /\ SchedulingReconnect(m).shouldReconnect = m.shouldReconnect
<1>1. m \in Manager /\ m.timers \in Nat /\ m.reconnectAttempts \in 0 .. MaxRetries
  BY DEF Sound, Manager
<1>2. CASE m.reconnectAttempts >= MaxRetries
  BY <1>2, FailingKeeps DEF SchedulingReconnect
<1>3. CASE ~(m.reconnectAttempts >= MaxRetries)
  <2> DEFINE n == [m EXCEPT !.reconnectAttempts = m.reconnectAttempts + 1, !.timers = m.timers + 1,
                            !.reconnectTimer = TRUE]
  <2>1. SchedulingReconnect(m) = n
    BY <1>1, <1>3 DEF SchedulingReconnect
  <2>2. m.reconnectAttempts + 1 \in 0 .. MaxRetries /\ m.timers + 1 \in Nat /\ m.timers + 1 > 0
    BY <1>1, <1>3, DeltaSocketAssumption
  <2>3. n \in Manager
    BY <1>1, <2>2 DEF Manager
  <2>4. /\ n.socket = m.socket /\ n.readyState = m.readyState
        /\ n.shouldReconnect = m.shouldReconnect /\ n.subscribedReady = m.subscribedReady
        /\ n.attempts = m.attempts /\ n.generation = m.generation
        /\ n.timers = m.timers + 1 /\ n.subscription = m.subscription
    BY <1>1 DEF Manager
  <2> HIDE DEF n
  <2> QED
    BY <2>1, <2>2, <2>3, <2>4 DEF Sound, Keeps, Active
<1> QED
  BY <1>2, <1>3

LEMMA SchedulingSubscribeRetryKeeps ==
  ASSUME NEW h \in Nat, NEW m, Sound(m, h)
  PROVE  /\ Sound(SchedulingSubscribeRetry(m), h) /\ Keeps(m, SchedulingSubscribeRetry(m))
         /\ SchedulingSubscribeRetry(m).shouldReconnect = m.shouldReconnect
<1>1. m \in Manager /\ m.subscribeRetryAttempts \in 0 .. MaxRetries
  BY DEF Sound, Manager
<1>2. CASE m.subscribeRetryTimer \/ ~m.shouldReconnect \/ ~Active(m)
  BY <1>1, <1>2 DEF SchedulingSubscribeRetry, Keeps
<1>3. CASE ~(m.subscribeRetryTimer \/ ~m.shouldReconnect \/ ~Active(m))
           /\ m.subscribeRetryAttempts >= MaxRetries
  BY <1>3, FailingKeeps DEF SchedulingSubscribeRetry
<1>4. CASE ~(m.subscribeRetryTimer \/ ~m.shouldReconnect \/ ~Active(m))
           /\ ~(m.subscribeRetryAttempts >= MaxRetries)
  <2> DEFINE n == [m EXCEPT !.subscribeRetryAttempts = m.subscribeRetryAttempts + 1,
                            !.subscribeRetryTimer = TRUE]
  <2>1. SchedulingSubscribeRetry(m) = n
    BY <1>1, <1>4 DEF SchedulingSubscribeRetry
  <2>2. m.subscribeRetryAttempts + 1 \in 0 .. MaxRetries
    BY <1>1, <1>4, DeltaSocketAssumption
  <2>3. n \in Manager
    BY <1>1, <2>2 DEF Manager
  <2>4. /\ n.socket = m.socket /\ n.readyState = m.readyState
        /\ n.shouldReconnect = m.shouldReconnect /\ n.subscribedReady = m.subscribedReady
        /\ n.attempts = m.attempts /\ n.generation = m.generation
        /\ n.reconnectTimer = m.reconnectTimer /\ n.timers = m.timers
        /\ n.subscription = m.subscription
    BY <1>1 DEF Manager
  <2> HIDE DEF n
  <2> QED
    BY <2>1, <2>3, <2>4 DEF Sound, Keeps, Active
<1> QED
  BY <1>2, <1>3, <1>4

\* The messages before one that is appended, and after one that is read.
LEMMA AheadOfAppended ==
  ASSUME NEW down \in Seq(Messages), NEW message \in Messages
  PROVE  /\ \A i \in 1 .. Len(down) + 1 : Ahead(Append(down, message), i) = Ahead(down, i)
         /\ Ahead(Append(down, message), Len(down) + 2) =
                Ahead(down, Len(down) + 1) \cup (IF message.kind = "delta" THEN {message.id} ELSE {})
<1> DEFINE n == Len(down)
           longer == Append(down, message)
<1>1. /\ n \in Nat /\ DOMAIN down = 1 .. n /\ DOMAIN longer = 1 .. n + 1
      /\ longer[n + 1] = message /\ \A j \in 1 .. n : longer[j] = down[j]
  OBVIOUS
<1> HIDE DEF n, longer
<1>2. ASSUME NEW i \in 1 .. n + 1
      PROVE  {j \in DOMAIN longer : j < i /\ longer[j].kind = "delta"}
             = {j \in DOMAIN down : j < i /\ down[j].kind = "delta"}
  BY <1>1
<1>3. {j \in DOMAIN longer : j < n + 2 /\ longer[j].kind = "delta"}
      = {j \in DOMAIN down : j < n + 1 /\ down[j].kind = "delta"}
        \cup (IF message.kind = "delta" THEN {n + 1} ELSE {})
  BY <1>1
<1>4. ASSUME NEW i \in 1 .. n + 1
      PROVE  Ahead(longer, i) = Ahead(down, i)
  BY <1>1, <1>2 DEF Ahead
<1>5. Ahead(longer, n + 2) = Ahead(down, n + 1) \cup (IF message.kind = "delta" THEN {message.id} ELSE {})
  BY <1>1, <1>3 DEF Ahead
<1> QED
  BY <1>4, <1>5 DEF n, longer

LEMMA AheadOfTail ==
  ASSUME NEW down \in Seq(Messages), down # <<>>
  PROVE  /\ DOMAIN Tail(down) = 1 .. Len(down) - 1 /\ Len(Tail(down)) + 1 = Len(down)
         /\ \A i \in DOMAIN Tail(down) : Tail(down)[i] = down[i + 1] /\ i + 1 \in DOMAIN down
         /\ \A i \in 1 .. Len(down) :
                Ahead(down, i + 1) = Ahead(Tail(down), i)
                    \cup (IF Head(down).kind = "delta" THEN {Head(down).id} ELSE {})
<1> DEFINE n == Len(down)
           rest == Tail(down)
<1>1. /\ n \in Nat /\ n > 0 /\ DOMAIN down = 1 .. n /\ Head(down) = down[1]
      /\ Len(rest) = n - 1 /\ DOMAIN rest = 1 .. n - 1
      /\ \A i \in 1 .. n - 1 : rest[i] = down[i + 1]
  BY HeadTailProperties
<1> HIDE DEF n, rest
<1>2. ASSUME NEW i \in 1 .. n
      PROVE  Ahead(down, i + 1) = Ahead(rest, i)
                    \cup (IF Head(down).kind = "delta" THEN {Head(down).id} ELSE {})
  <2>1. ASSUME NEW j \in DOMAIN down, j < i + 1, down[j].kind = "delta"
        PROVE  down[j].id \in Ahead(rest, i)
                    \cup (IF Head(down).kind = "delta" THEN {Head(down).id} ELSE {})
    <3>1. CASE j = 1
      BY <1>1, <2>1, <3>1
    <3>2. CASE j # 1
      <4>1. j - 1 \in DOMAIN rest /\ j - 1 < i /\ rest[j - 1] = down[j]
        BY <1>1, <2>1, <3>2
      <4> QED
        BY <2>1, <4>1 DEF Ahead
    <3> QED
      BY <3>1, <3>2
  <2>2. ASSUME NEW j \in DOMAIN rest, j < i, rest[j].kind = "delta"
        PROVE  rest[j].id \in Ahead(down, i + 1)
    <3>1. j + 1 \in DOMAIN down /\ j + 1 < i + 1 /\ rest[j] = down[j + 1]
      BY <1>1, <2>2
    <3> QED
      BY <2>2, <3>1 DEF Ahead
  <2>3. Head(down).kind = "delta" => Head(down).id \in Ahead(down, i + 1)
    BY <1>1 DEF Ahead
  <2> QED
    BY <2>1, <2>2, <2>3 DEF Ahead
<1>3. Len(rest) + 1 = n /\ \A i \in DOMAIN rest : rest[i] = down[i + 1] /\ i + 1 \in DOMAIN down
  BY <1>1
<1>4. DOMAIN rest = 1 .. n - 1
  BY <1>1
<1> QED
  BY <1>2, <1>3, <1>4 DEF n, rest

-----------------------------------------------------------------------------
(* Steps that start nothing new for a stream. *)

\* Nothing to begin with: no stream, no socket.
LEMMA SocketStarts == Init => SocketInv
<1> SUFFICES ASSUME Init
             PROVE  SocketInv
  OBVIOUS
<1> DEFINE m == [socket |-> 0, readyState |-> "none", attempts |-> {}, generation |-> 0,
                 shouldReconnect |-> TRUE, connectionState |-> "disconnected",
                 subscribedReady |-> FALSE, timers |-> 0, reconnectTimer |-> FALSE,
                 reconnectAttempts |-> 0, subscribeRetryTimer |-> FALSE,
                 subscribeRetryAttempts |-> 0, pendingMessages |-> 0,
                 subscription |-> NoSubscription]
<1>1. manager = m /\ sends = <<>> /\ link = NoLink /\ head = 0 /\ scenario \in Scenarios /\ budget = scenario
  BY DEF Init
<1>2. NoSubscription \in Subscription
  BY DEF NoSubscription, Subscription
<1>3. 0 \in 0 .. MaxRetries
  BY DeltaSocketAssumption
<1>4. m \in Manager
  BY <1>2, <1>3 DEF Manager, ConnectionState
<1>5. /\ m.attempts = {} /\ m.reconnectTimer = FALSE /\ m.subscription = NoSubscription
      /\ m.shouldReconnect = TRUE
  OBVIOUS
<1> HIDE DEF m
<1>6. Sound(manager, head)
  BY <1>1, <1>4, <1>5 DEF Sound, NoSubscription
<1>7. NoLink \in Link /\ ToSet(<<>>) = {}
  BY ListsOf DEF NoLink, Link, ToSet
<1>8. TypesOK
  BY <1>1, <1>6, <1>7, DeltaSocketAssumption DEF TypesOK
<1>9. IdsInv /\ SendsInv
  BY <1>1, <1>7 DEF IdsInv, SendsInv, NoLink
<1>10. ClosedInv
  BY <1>1, <1>5 DEF ClosedInv
<1>11. StreamInv
  BY <1>1, <1>5 DEF StreamInv, Active, NoSubscription
<1>12. StreamHasNoGap
  BY <1>1, <1>5 DEF StreamHasNoGap, DeliversAfterCursor, NoSubscription
<1> QED
  BY <1>8, <1>9, <1>10, <1>11, <1>12 DEF SocketInv

\* A stream stays without a gap when it receives nothing, what is on the way stays or
\* is gone, and what is asked for again is what comes after its last id.
LEMMA StreamStays ==
  ASSUME SocketInv,
         manager'.subscription.after = manager.subscription.after,
         manager'.subscription.last = manager.subscription.last,
         manager'.subscription.got = manager.subscription.got,
         manager'.subscription.shared = manager.subscription.shared,
         Active(manager)' => Active(manager),
         link' \in {link, NoLink},
         \A s \in ToSet(sends') : IsCurrent(s)' =>
             (s \in ToSet(sends) /\ IsCurrent(s)) \/ s.after = manager.subscription.last
  PROVE  StreamInv' /\ StreamHasNoGap'
<1>1. StreamHasNoGap'
  BY DEF SocketInv, StreamHasNoGap, DeliversAfterCursor
<1>2. ASSUME Active(manager)', ~manager'.subscription.shared
      PROVE  /\ \A s \in ToSet(sends') :
                   IsCurrent(s)' => Upto(manager', s.after) \subseteq manager'.subscription.got
             /\ \A message \in ToSet(link'.up) : message # Raw =>
                   Upto(manager', message.id) \subseteq manager'.subscription.got
             /\ Continues(manager', link')
  <2>1. Active(manager) /\ ~manager.subscription.shared
        /\ manager'.subscription.got = manager.subscription.got
    BY <1>2
  <2>2. \A n : Upto(manager', n) = Upto(manager, n)
    BY DEF Upto
  <2>3. \A s \in ToSet(sends') : IsCurrent(s)' => Upto(manager', s.after) \subseteq manager'.subscription.got
    <3>1. \A s \in ToSet(sends) : IsCurrent(s) => Upto(manager, s.after) \subseteq manager.subscription.got
      BY <2>1 DEF SocketInv, StreamInv
    <3>2. Upto(manager, manager.subscription.last) \subseteq manager.subscription.got
      BY <2>1 DEF SocketInv, StreamHasNoGap, DeliversAfterCursor, Upto
    <3> QED
      BY <2>1, <2>2, <3>1, <3>2
  <2>4. CASE link' = link
    <3>1. /\ \A message \in ToSet(link.up) : message # Raw =>
                Upto(manager, message.id) \subseteq manager.subscription.got
          /\ Continues(manager, link)
      BY <2>1 DEF SocketInv, StreamInv
    <3>2. Continues(manager', link)
      BY <2>1, <2>2, <3>1 DEF Continues
    <3> QED
      BY <2>1, <2>2, <2>3, <2>4, <3>1, <3>2
  <2>5. CASE link' = NoLink
    <3>1. link'.up = <<>> /\ link'.down = <<>> /\ link'.session = "none" /\ ToSet(<<>>) = {}
      BY <2>5 DEF NoLink, ToSet
    <3> QED
      BY <2>3, <3>1 DEF Continues
  <2> QED
    BY <2>4, <2>5
<1> QED
  BY <1>1, <1>2 DEF StreamInv

LEMMA FlushingAsks ==
  ASSUME NEW m, m \in Manager, sends \in Seq(Send)
  PROVE  /\ Flushing(m) \in Seq(Send)
         /\ \A s \in ToSet(Flushing(m)) : s \in ToSet(sends)
                \/ (IsOpen(m) /\ s.socket = m.socket /\ s.after = m.subscription.last)
<1> DEFINE s == [socket |-> m.socket, after |-> m.subscription.last]
<1>1. s \in Send /\ s.socket = m.socket /\ s.after = m.subscription.last
  BY DEF Manager, Subscription, Send
<1>2. CASE Active(m) /\ IsOpen(m)
  <2>1. Flushing(m) = Append(sends, s)
    BY <1>2 DEF Flushing
  <2> HIDE DEF s
  <2>2. Append(sends, s) \in Seq(Send) /\ ToSet(Append(sends, s)) = ToSet(sends) \cup {s}
    BY <1>1, AppendLists
  <2> QED
    BY <1>1, <1>2, <2>1, <2>2
<1>3. CASE ~(Active(m) /\ IsOpen(m))
  BY <1>3 DEF Flushing
<1> QED
  BY <1>2, <1>3

LEMMA RemovedIsGone ==
  ASSUME NEW T, NEW s \in Seq(T), NEW i \in DOMAIN s
  PROVE  RemoveAt(s, i) \in Seq(T) /\ ToSet(RemoveAt(s, i)) \subseteq ToSet(s)
<1> DEFINE a == SubSeq(s, 1, i - 1)
           b == SubSeq(s, i + 1, Len(s))
<1>1. Len(s) \in Nat /\ i \in 1 .. Len(s)
  OBVIOUS
<1>2. i - 1 \in Nat /\ i - 1 <= Len(s) /\ i + 1 \in Nat \ {0}
  BY <1>1
<1>3. a \in Seq(T) /\ ToSet(a) \subseteq ToSet(s)
  BY <1>1, <1>2, SliceOf
<1>4. b \in Seq(T) /\ ToSet(b) \subseteq ToSet(s)
  BY <1>1, <1>2, SliceOf
<1> HIDE DEF a, b
<1>5. a \o b \in Seq(T) /\ ToSet(a \o b) = ToSet(a) \cup ToSet(b)
  BY <1>3, <1>4, ListsOf
<1> QED
  BY <1>3, <1>4, <1>5 DEF RemoveAt, a, b

\* Of a chance there is one less.
LEMMA Chanced ==
  ASSUME TypesOK, NEW chance \in Chances, May(chance)
  PROVE  budget' \in [Chances -> Nat]
<1>1. budget \in [Chances -> Nat] /\ budget[chance] > 0 /\ budget' = [budget EXCEPT ![chance] = @ - 1]
  BY DEF May, TypesOK
<1> QED
  BY <1>1

\* The rest of the invariant, for steps that touch no link.
LEMMA QuietSocket ==
  ASSUME SocketInv, Sound(manager', head), head' = head, budget' \in [Chances -> Nat],
         link' \in {link, NoLink},
         manager'.subscription.after = manager.subscription.after,
         manager'.subscription.last = manager.subscription.last,
         manager'.subscription.got = manager.subscription.got,
         manager'.subscription.shared = manager.subscription.shared,
         Active(manager)' => Active(manager),
         manager'.socket >= manager.socket,
         manager'.socket = manager.socket /\ manager'.readyState = "connecting" =>
             manager.readyState = "connecting",
         manager'.socket = manager.socket /\ manager'.readyState = "open" =>
             manager.readyState \in {"connecting", "open"},
         ~manager'.shouldReconnect => manager'.readyState = "none" /\ ~manager'.subscribedReady,
         sends' \in Seq(Send),
         \A s \in ToSet(sends') : s \in ToSet(sends)
             \/ (IsOpen(manager') /\ s.socket = manager'.socket /\ s.after = manager.subscription.last)
  PROVE  SocketInv'
<1>1. /\ TypesOK /\ IdsInv /\ SendsInv /\ sends \in Seq(Send)
      /\ manager \in Manager /\ manager' \in Manager
      /\ manager.subscription.last <= head
  BY DEF SocketInv, TypesOK, Sound
<1>2. manager.socket \in Nat /\ manager'.socket \in Nat /\ \A s \in ToSet(sends) : s.socket \in Nat
  <2>1. \A s \in ToSet(sends) : s \in Send
    BY <1>1, ListsOf
  <2> QED
    BY <1>1, <2>1 DEF Manager, Send
<1>3. TypesOK'
  <2>1. link' \in Link
    <3>1. NoLink \in Link
      <4>1. <<>> \in Seq(Messages)
        OBVIOUS
      <4> QED
        BY <4>1 DEF NoLink, Link
    <3> QED
      BY <1>1, <3>1 DEF TypesOK
  <2> QED
    BY <1>1, <2>1 DEF TypesOK
<1>4. IdsInv'
  <2>1. \A s \in ToSet(sends') : s.after <= head
    BY <1>1 DEF IdsInv
  <2>2. CASE link' = link
    BY <1>1, <2>1, <2>2 DEF IdsInv
  <2>3. CASE link' = NoLink
    <3>1. link'.up = <<>> /\ link'.down = <<>> /\ link'.at = 0 /\ ToSet(<<>>) = {} /\ 0 <= head
      BY <1>1, <2>3 DEF NoLink, ToSet, TypesOK
    <3> QED
      BY <2>1, <3>1 DEF IdsInv
  <2> QED
    BY <2>2, <2>3
<1>5. ClosedInv'
  BY DEF ClosedInv
<1>6. SendsInv'
  <2> SUFFICES ASSUME NEW s \in ToSet(sends')
               PROVE  s.socket <= manager'.socket
                      /\ (s.socket = manager'.socket => manager'.readyState # "connecting")
    BY DEF SendsInv
  <2>1. CASE s \in ToSet(sends)
    <3>1. s.socket <= manager.socket /\ (s.socket = manager.socket => manager.readyState # "connecting")
          /\ s.socket \in Nat
      BY <1>1, <1>2, <2>1 DEF SendsInv
    <3>2. s.socket <= manager'.socket /\ (s.socket = manager'.socket => manager'.socket = manager.socket)
      BY <1>2, <3>1
    <3> QED
      BY <3>1, <3>2
  <2>2. CASE s \notin ToSet(sends)
    BY <1>2, <2>2 DEF IsOpen
  <2> QED
    BY <2>1, <2>2
<1>7. ASSUME NEW s \in ToSet(sends'), IsCurrent(s)'
      PROVE  (s \in ToSet(sends) /\ IsCurrent(s)) \/ s.after = manager.subscription.last
  <2>1. CASE s \in ToSet(sends)
    <3>1. s.socket <= manager.socket /\ (s.socket = manager.socket => manager.readyState # "connecting")
          /\ s.socket \in Nat
      BY <1>1, <1>2, <2>1 DEF SendsInv
    <3>2. s.socket = manager'.socket /\ manager'.readyState = "open"
      BY <1>7 DEF IsCurrent, IsOpen
    <3>3. manager'.socket = manager.socket
      BY <1>2, <3>1, <3>2
    <3> QED
      BY <2>1, <3>1, <3>2, <3>3 DEF IsCurrent, IsOpen
  <2>2. CASE s \notin ToSet(sends)
    BY <2>2
  <2> QED
    BY <2>1, <2>2
<1>8. StreamInv' /\ StreamHasNoGap'
  BY <1>7, StreamStays
<1> QED
  BY <1>3, <1>4, <1>5, <1>6, <1>8 DEF SocketInv

\* Leaving a stream, a raw message that waits, and close().
LEMMA ReturnKeeps == SocketInv /\ Return => SocketInv'
<1> SUFFICES ASSUME SocketInv, Return
             PROVE  SocketInv'
  OBVIOUS
<1> DEFINE s == [manager.subscription EXCEPT !.phase = "closed"]
           n == [manager EXCEPT !.subscription = s]
<1>1. TypesOK /\ ClosedInv /\ Sound(manager, head) /\ manager \in Manager /\ manager.subscription \in Subscription
  BY DEF SocketInv, TypesOK, Sound, Manager
<1>2. manager' = n
  BY <1>1 DEF Return, Manager
<1>3. /\ s \in Subscription /\ s.after = manager.subscription.after /\ s.last = manager.subscription.last
      /\ s.got = manager.subscription.got /\ s.shared = manager.subscription.shared /\ s.phase = "closed"
  BY <1>1 DEF Subscription
<1> HIDE DEF s
<1>4. n \in Manager /\ n.subscription = s
  BY <1>1, <1>3 DEF Manager
<1>5. /\ n.socket = manager.socket /\ n.readyState = manager.readyState
      /\ n.shouldReconnect = manager.shouldReconnect /\ n.subscribedReady = manager.subscribedReady
      /\ n.attempts = manager.attempts /\ n.generation = manager.generation
      /\ n.reconnectTimer = manager.reconnectTimer /\ n.timers = manager.timers
  BY <1>1 DEF Manager
<1> HIDE DEF n
<1>6. Sound(manager', head)
  BY <1>1, <1>2, <1>3, <1>4, <1>5 DEF Sound
<1>7. UNCHANGED <<sends, link, head>> /\ budget' \in [Chances -> Nat] /\ sends \in Seq(Send)
  BY <1>1, Chanced DEF Return, TypesOK, Chances
<1>8. manager.socket \in Nat /\ ~Active(manager)'
  BY <1>1, <1>2, <1>3, <1>4 DEF Manager, Active
<1> QED
  BY <1>1, <1>2, <1>3, <1>4, <1>5, <1>6, <1>7, <1>8, QuietSocket DEF ClosedInv

\* A step that keeps the manager's socket and stream.
LEMMA KeptSocket ==
  ASSUME SocketInv, Sound(manager', head), Keeps(manager, manager'), head' = head,
         budget' \in [Chances -> Nat], link' = link, sends' \in Seq(Send),
         \A s \in ToSet(sends') : s \in ToSet(sends)
             \/ (IsOpen(manager') /\ s.socket = manager'.socket /\ s.after = manager.subscription.last)
  PROVE  SocketInv'
<1>1. ClosedInv /\ manager.socket \in Nat /\ manager.shouldReconnect \in BOOLEAN
  BY DEF SocketInv, TypesOK, Sound, Manager
<1>2. Active(manager)' => Active(manager)
  BY DEF Keeps, Active
<1>3. ~manager'.shouldReconnect => manager'.readyState = "none" /\ ~manager'.subscribedReady
  BY <1>1 DEF Keeps, ClosedInv
<1>4. manager'.socket >= manager.socket
  BY <1>1 DEF Keeps
<1> QED
  BY <1>2, <1>3, <1>4, QuietSocket DEF Keeps

LEMMA RawWaitsKeeps ==
  ASSUME SocketInv, SendRaw, ~(IsOpen(manager) /\ manager.subscribedReady)
  PROVE  SocketInv'
<1> DEFINE n == [manager EXCEPT !.pendingMessages = manager.pendingMessages + 1]
<1>1. TypesOK /\ Sound(manager, head) /\ manager \in Manager /\ manager.pendingMessages + 1 \in Nat
  BY DEF SocketInv, TypesOK, Sound, Manager
<1>2. manager' = Connecting(n)
  BY DEF SendRaw
<1>3. n \in Manager
  BY <1>1 DEF Manager
<1>4. /\ n.socket = manager.socket /\ n.readyState = manager.readyState
      /\ n.shouldReconnect = manager.shouldReconnect /\ n.subscribedReady = manager.subscribedReady
      /\ n.attempts = manager.attempts /\ n.generation = manager.generation
      /\ n.reconnectTimer = manager.reconnectTimer /\ n.timers = manager.timers
      /\ n.subscription = manager.subscription
  BY <1>1 DEF Manager
<1> HIDE DEF n
<1>5. Sound(n, head) /\ head \in Nat
  BY <1>1, <1>3, <1>4 DEF Sound, TypesOK
<1>6. Sound(manager', head) /\ Keeps(n, manager')
  BY <1>2, <1>5, ConnectingKeeps
<1>7. Keeps(manager, manager')
  BY <1>4, <1>6 DEF Keeps, Active
<1>8. UNCHANGED <<sends, link, head>> /\ budget' \in [Chances -> Nat] /\ sends \in Seq(Send)
  BY <1>1, Chanced DEF SendRaw, TypesOK, Chances
<1> QED
  BY <1>6, <1>7, <1>8, KeptSocket

LEMMA CloseKeeps == SocketInv /\ Close => SocketInv'
<1> SUFFICES ASSUME SocketInv, Close
             PROVE  SocketInv'
  OBVIOUS
<1> DEFINE phase == IF Active(manager) THEN "closed" ELSE manager.subscription.phase
           s == [manager.subscription EXCEPT !.phase = phase]
           timers == IF manager.reconnectTimer THEN manager.timers - 1 ELSE manager.timers
           generation == manager.generation + 1
           n == [manager EXCEPT !.shouldReconnect = FALSE, !.generation = generation,
                     !.timers = timers, !.reconnectTimer = FALSE,
                     !.subscribeRetryTimer = FALSE, !.subscribeRetryAttempts = 0,
                     !.pendingMessages = 0, !.readyState = "none", !.subscribedReady = FALSE,
                     !.connectionState = "disconnected", !.subscription = s]
<1>1. TypesOK /\ Sound(manager, head) /\ manager \in Manager /\ manager.subscription \in Subscription
  BY DEF SocketInv, TypesOK, Sound, Manager
<1>2. manager' = n
  BY <1>1 DEF Close, Closed, Manager
<1>3. /\ s \in Subscription /\ s.after = manager.subscription.after /\ s.last = manager.subscription.last
      /\ s.got = manager.subscription.got /\ s.shared = manager.subscription.shared /\ s.phase # "active"
  BY <1>1 DEF Subscription, Active
<1>4. timers \in Nat /\ generation \in Nat /\ 0 .. manager.generation \subseteq 0 .. generation
  BY <1>1 DEF Manager, Sound
<1>5. 0 \in 0 .. MaxRetries
  BY DeltaSocketAssumption
<1> HIDE DEF s, timers, generation
<1>6. n \in Manager
  BY <1>1, <1>3, <1>4, <1>5 DEF Manager, ConnectionState
<1>7. /\ n.socket = manager.socket /\ n.readyState = "none" /\ n.subscribedReady = FALSE
      /\ n.attempts = manager.attempts /\ n.generation = generation
      /\ n.reconnectTimer = FALSE /\ n.subscription = s
  BY <1>1 DEF Manager
<1> HIDE DEF n
<1>8. Sound(manager', head)
  BY <1>1, <1>2, <1>3, <1>4, <1>6, <1>7 DEF Sound
<1>9. /\ UNCHANGED <<sends, head>> /\ link' = NoLink
      /\ budget' \in [Chances -> Nat] /\ sends \in Seq(Send)
  BY <1>1, Chanced DEF Close, TypesOK, Chances
<1>10. manager.socket \in Nat /\ ~Active(manager)'
  BY <1>1, <1>2, <1>3, <1>7 DEF Manager, Active
<1> QED
  BY <1>2, <1>3, <1>7, <1>8, <1>9, <1>10, QuietSocket

\* Connect attempts and timers.
LEMMA AttemptOpensSocketKeeps ==
  ASSUME SocketInv, NEW g, AttemptOpensSocket(g)
  PROVE  SocketInv'
<1> DEFINE attempts == manager.attempts \ {g}
           ended == [manager EXCEPT !.attempts = attempts]
           socket == manager.socket + 1
           n == [manager EXCEPT !.attempts = attempts, !.socket = socket, !.readyState = "connecting"]
<1>1. /\ TypesOK /\ ClosedInv /\ Sound(manager, head) /\ manager \in Manager /\ sends \in Seq(Send)
      /\ attempts \in SUBSET Nat /\ socket \in Nat /\ attempts \subseteq manager.attempts
      /\ socket > manager.socket
  <2>1. /\ TypesOK /\ ClosedInv /\ Sound(manager, head) /\ manager \in Manager /\ sends \in Seq(Send)
    BY DEF SocketInv, TypesOK, Sound
  <2>2. manager.attempts \in SUBSET Nat /\ manager.socket \in Nat
    BY <2>1 DEF Manager
  <2> QED
    BY <2>1, <2>2
<1>2. UNCHANGED <<sends, head>> /\ budget' \in [Chances -> Nat]
  BY <1>1 DEF AttemptOpensSocket, TypesOK
<1>3. CASE IsOrphaned(manager, g)
  <2>1. manager' = ended /\ link' = link
    BY <1>3 DEF AttemptOpensSocket
  <2> HIDE DEF attempts
  <2>2. ended \in Manager
    BY <1>1 DEF Manager
  <2>3. /\ ended.socket = manager.socket /\ ended.readyState = manager.readyState
        /\ ended.shouldReconnect = manager.shouldReconnect
        /\ ended.subscribedReady = manager.subscribedReady
        /\ ended.attempts = attempts /\ ended.generation = manager.generation
        /\ ended.reconnectTimer = manager.reconnectTimer /\ ended.timers = manager.timers
        /\ ended.subscription = manager.subscription
    BY <1>1 DEF Manager
  <2> HIDE DEF ended
  <2>4. Sound(manager', head) /\ Keeps(manager, manager')
    BY <1>1, <2>1, <2>2, <2>3 DEF Sound, Keeps, Active
  <2> QED
    BY <1>1, <1>2, <2>1, <2>4, KeptSocket
<1>4. CASE ~IsOrphaned(manager, g)
  <2>1. manager' = n /\ link' = NoLink /\ manager.shouldReconnect
    BY <1>1, <1>4 DEF AttemptOpensSocket, IsOrphaned, Manager
  <2> HIDE DEF attempts, socket
  <2>2. n \in Manager
    BY <1>1 DEF Manager
  <2>3. /\ n.socket = socket /\ n.readyState = "connecting"
        /\ n.shouldReconnect = manager.shouldReconnect
        /\ n.attempts = attempts /\ n.generation = manager.generation
        /\ n.reconnectTimer = manager.reconnectTimer /\ n.timers = manager.timers
        /\ n.subscription = manager.subscription
    BY <1>1 DEF Manager
  <2> HIDE DEF n
  <2>4. Sound(manager', head) /\ (Active(manager)' => Active(manager))
    BY <1>1, <2>1, <2>2, <2>3 DEF Sound, Active
  <2>5. manager'.socket > manager.socket /\ manager.socket \in Nat /\ manager'.socket \in Nat
    BY <1>1, <2>1, <2>2, <2>3 DEF Manager
  <2>6. manager'.socket >= manager.socket /\ manager'.socket # manager.socket
    BY <2>5
  <2> QED
    BY <1>1, <1>2, <2>1, <2>3, <2>4, <2>6, QuietSocket
<1> QED
  BY <1>3, <1>4

LEMMA AttemptFailsKeeps ==
  ASSUME SocketInv, NEW g, AttemptFails(g)
  PROVE  SocketInv'
<1> DEFINE attempts == manager.attempts \ {g}
           ended == [manager EXCEPT !.attempts = attempts]
           n == [ended EXCEPT !.subscribedReady = FALSE, !.connectionState = "error"]
<1>1. /\ TypesOK /\ ClosedInv /\ Sound(manager, head) /\ manager \in Manager /\ sends \in Seq(Send)
      /\ attempts \in SUBSET Nat /\ attempts \subseteq manager.attempts /\ head \in Nat
  BY DEF SocketInv, TypesOK, Sound, Manager
<1>2. UNCHANGED <<sends, link, head>> /\ budget' \in [Chances -> Nat]
  BY <1>1, Chanced DEF AttemptFails, Chances
<1> HIDE DEF attempts
<1>3. ended \in Manager
  BY <1>1 DEF Manager
<1>4. /\ ended.socket = manager.socket /\ ended.readyState = manager.readyState
      /\ ended.shouldReconnect = manager.shouldReconnect
      /\ ended.subscribedReady = manager.subscribedReady
      /\ ended.attempts = attempts /\ ended.generation = manager.generation
      /\ ended.reconnectTimer = manager.reconnectTimer /\ ended.timers = manager.timers
      /\ ended.subscription = manager.subscription
  BY <1>1 DEF Manager
<1>5. CASE g # manager.generation
  <2>1. manager' = ended
    BY <1>5 DEF AttemptFails, attempts
  <2> HIDE DEF ended
  <2>4. Sound(manager', head) /\ Keeps(manager, manager')
    BY <1>1, <1>3, <1>4, <2>1 DEF Sound, Keeps, Active
  <2> QED
    BY <1>1, <1>2, <2>1, <2>4, KeptSocket
<1>6. CASE g = manager.generation
  <2>1. manager' = Retried(n)
    BY <1>6 DEF AttemptFails, attempts
  <2> HIDE DEF ended
  <2>2. n \in Manager
    BY <1>3 DEF Manager, ConnectionState
  <2>3. /\ n.socket = manager.socket /\ n.readyState = manager.readyState
        /\ n.shouldReconnect = manager.shouldReconnect
        /\ n.subscribedReady = FALSE
        /\ n.attempts = attempts /\ n.generation = manager.generation
        /\ n.reconnectTimer = manager.reconnectTimer /\ n.timers = manager.timers
        /\ n.subscription = manager.subscription
    BY <1>3, <1>4 DEF Manager
  <2> HIDE DEF n
  <2>4. Sound(n, head)
    BY <1>1, <2>2, <2>3 DEF Sound
  <2>5. Sound(manager', head) /\ Keeps(n, manager') /\ manager'.shouldReconnect = n.shouldReconnect
    <3>1. CASE manager' = n
      BY <2>2, <2>4, <3>1 DEF Keeps
    <3>2. CASE manager' = SchedulingReconnect(n)
      BY <1>1, <2>4, <3>2, SchedulingReconnectKeeps
    <3> QED
      BY <2>1, <3>1, <3>2 DEF Retried
  <2>6. Active(manager)' => Active(manager)
    BY <2>3, <2>5 DEF Keeps, Active
  <2>7. ~manager'.shouldReconnect => manager'.readyState = "none" /\ ~manager'.subscribedReady
    BY <1>1, <2>3, <2>5 DEF Keeps, ClosedInv
  <2>8. manager'.socket >= manager.socket
    BY <1>1, <2>3, <2>5 DEF Keeps, Manager
  <2> QED
    BY <1>1, <1>2, <2>3, <2>5, <2>6, <2>7, <2>8, QuietSocket DEF Keeps
<1> QED
  BY <1>5, <1>6

LEMMA ReconnectTimerFiresKeeps == SocketInv /\ ReconnectTimerFires => SocketInv'
<1> SUFFICES ASSUME SocketInv, ReconnectTimerFires
             PROVE  SocketInv'
  OBVIOUS
<1> DEFINE timers == manager.timers - 1
           n == [manager EXCEPT !.timers = timers, !.reconnectTimer = FALSE]
<1>1. /\ TypesOK /\ Sound(manager, head) /\ manager \in Manager /\ sends \in Seq(Send)
      /\ timers \in Nat /\ head \in Nat
  <2>1. /\ TypesOK /\ Sound(manager, head) /\ manager \in Manager /\ sends \in Seq(Send) /\ head \in Nat
    BY DEF SocketInv, TypesOK, Sound
  <2>2. manager.timers \in Nat
    BY <2>1 DEF Manager
  <2>3. manager.timers > 0
    BY DEF ReconnectTimerFires
  <2> QED
    BY <2>1, <2>2, <2>3
<1>2. manager' = Connecting(n) /\ UNCHANGED <<sends, link, head>> /\ budget' \in [Chances -> Nat]
  BY <1>1 DEF ReconnectTimerFires, TypesOK
<1> HIDE DEF timers
<1>3. n \in Manager
  BY <1>1 DEF Manager
<1>4. /\ n.socket = manager.socket /\ n.readyState = manager.readyState
      /\ n.shouldReconnect = manager.shouldReconnect /\ n.subscribedReady = manager.subscribedReady
      /\ n.attempts = manager.attempts /\ n.generation = manager.generation
      /\ n.reconnectTimer = FALSE /\ n.subscription = manager.subscription
  BY <1>1 DEF Manager
<1> HIDE DEF n
<1>5. Sound(n, head)
  BY <1>1, <1>3, <1>4 DEF Sound
<1>6. Sound(manager', head) /\ Keeps(n, manager')
  BY <1>1, <1>2, <1>5, ConnectingKeeps
<1>7. Keeps(manager, manager')
  BY <1>4, <1>6 DEF Keeps, Active
<1> QED
  BY <1>1, <1>2, <1>6, <1>7, KeptSocket

LEMMA SubscribeRetryTimerFiresKeeps == SocketInv /\ SubscribeRetryTimerFires => SocketInv'
<1> SUFFICES ASSUME SocketInv, SubscribeRetryTimerFires
             PROVE  SocketInv'
  OBVIOUS
<1> DEFINE n == [manager EXCEPT !.subscribeRetryTimer = FALSE]
<1>1. /\ TypesOK /\ Sound(manager, head) /\ manager \in Manager /\ sends \in Seq(Send) /\ head \in Nat
  BY DEF SocketInv, TypesOK, Sound
<1>2. /\ manager' = n \/ manager' = Connecting(n)
      /\ sends' = sends \/ sends' = Flushing(n)
      /\ UNCHANGED <<link, head>> /\ budget' \in [Chances -> Nat]
  BY <1>1 DEF SubscribeRetryTimerFires, TypesOK
<1>3. n \in Manager
  BY <1>1 DEF Manager
<1>4. /\ n.socket = manager.socket /\ n.readyState = manager.readyState
      /\ n.shouldReconnect = manager.shouldReconnect /\ n.subscribedReady = manager.subscribedReady
      /\ n.attempts = manager.attempts /\ n.generation = manager.generation
      /\ n.reconnectTimer = manager.reconnectTimer /\ n.timers = manager.timers
      /\ n.subscription = manager.subscription
  BY <1>1 DEF Manager
<1> HIDE DEF n
<1>5. Sound(n, head)
  BY <1>1, <1>3, <1>4 DEF Sound
<1>6. Sound(manager', head) /\ Keeps(n, manager')
  BY <1>1, <1>2, <1>3, <1>5, ConnectingKeeps DEF Keeps
<1>7. Keeps(manager, manager')
  BY <1>4, <1>6 DEF Keeps, Active
<1>8. sends' \in Seq(Send) /\ \A s \in ToSet(sends') : s \in ToSet(sends)
          \/ (IsOpen(manager') /\ s.socket = manager'.socket /\ s.after = manager.subscription.last)
  <2>1. CASE sends' = sends
    BY <1>1, <2>1
  <2>2. CASE sends' = Flushing(n)
    BY <1>1, <1>3, <1>4, <1>6, <2>2, FlushingAsks DEF Keeps, IsOpen
  <2> QED
    BY <1>2, <2>1, <2>2
<1> QED
  BY <1>2, <1>6, <1>7, <1>8, KeptSocket

\* The events of a socket, and a sendSubscribe that comes to nothing.
LEMMA SocketOpensKeeps == SocketInv /\ SocketOpens => SocketInv'
<1> SUFFICES ASSUME SocketInv, SocketOpens
             PROVE  SocketInv'
  OBVIOUS
<1> DEFINE n == [manager EXCEPT !.readyState = "open", !.reconnectAttempts = 0,
                                !.subscribeRetryTimer = FALSE, !.subscribedReady = FALSE,
                                !.connectionState = "connected"]
<1>1. /\ TypesOK /\ ClosedInv /\ Sound(manager, head) /\ manager \in Manager /\ sends \in Seq(Send)
      /\ 0 \in 0 .. MaxRetries
  BY DeltaSocketAssumption DEF SocketInv, TypesOK, Sound
<1>2. /\ manager' = n /\ sends' = Flushing(n) /\ manager.readyState = "connecting"
      /\ UNCHANGED <<link, head>> /\ budget' \in [Chances -> Nat]
  BY <1>1 DEF SocketOpens, TypesOK
<1>3. n \in Manager
  BY <1>1 DEF Manager, ConnectionState
<1>4. /\ n.socket = manager.socket /\ n.readyState = "open"
      /\ n.shouldReconnect = manager.shouldReconnect /\ n.subscribedReady = FALSE
      /\ n.attempts = manager.attempts /\ n.generation = manager.generation
      /\ n.reconnectTimer = manager.reconnectTimer /\ n.timers = manager.timers
      /\ n.subscription = manager.subscription
  BY <1>1 DEF Manager
<1> HIDE DEF n
<1>5. Sound(manager', head) /\ (Active(manager)' => Active(manager))
  BY <1>1, <1>2, <1>3, <1>4 DEF Sound, Active
<1>6. sends' \in Seq(Send) /\ \A s \in ToSet(sends') : s \in ToSet(sends)
          \/ (IsOpen(manager') /\ s.socket = manager'.socket /\ s.after = manager.subscription.last)
  BY <1>1, <1>2, <1>3, <1>4, FlushingAsks DEF IsOpen
<1>7. ~manager'.shouldReconnect => manager'.readyState = "none" /\ ~manager'.subscribedReady
  BY <1>1, <1>2, <1>4 DEF ClosedInv
<1>8. manager'.socket >= manager.socket
  BY <1>1, <1>2, <1>4 DEF Manager
<1> QED
  BY <1>2, <1>4, <1>5, <1>6, <1>7, <1>8, QuietSocket

LEMMA SocketFailsKeeps == SocketInv /\ SocketFails => SocketInv'
<1> SUFFICES ASSUME SocketInv, SocketFails
             PROVE  SocketInv'
  OBVIOUS
<1>1. /\ TypesOK /\ ClosedInv /\ Sound(manager, head) /\ manager \in Manager /\ sends \in Seq(Send)
      /\ manager.socket \in Nat
  BY DEF SocketInv, TypesOK, Sound, Manager
<1>2. /\ UNCHANGED <<sends, head>> /\ link' = NoLink /\ budget' \in [Chances -> Nat]
      /\ manager.readyState \in {"connecting", "open"}
  BY <1>1, Chanced DEF SocketFails, Chances
<1>3. /\ manager' \in Manager
      /\ manager'.socket = manager.socket /\ manager'.readyState = "closed"
      /\ manager'.shouldReconnect = manager.shouldReconnect
      /\ manager'.attempts = manager.attempts /\ manager'.generation = manager.generation
      /\ manager'.reconnectTimer = manager.reconnectTimer /\ manager'.timers = manager.timers
      /\ manager'.subscription = manager.subscription
  <2>1. CASE manager' = [manager EXCEPT !.readyState = "closed"]
    BY <1>1, <2>1 DEF Manager
  <2>2. CASE manager' = [manager EXCEPT !.readyState = "closed", !.subscribedReady = FALSE,
                                        !.connectionState = "error"]
    BY <1>1, <2>2 DEF Manager, ConnectionState
  <2> QED
    BY <2>1, <2>2 DEF SocketFails
<1>4. Sound(manager', head) /\ (Active(manager)' => Active(manager))
  BY <1>1, <1>3 DEF Sound, Active
<1>5. manager'.shouldReconnect
  BY <1>1, <1>2, <1>3 DEF ClosedInv
<1>6. manager'.socket >= manager.socket
  BY <1>1, <1>3
<1> QED
  BY <1>1, <1>2, <1>3, <1>4, <1>5, <1>6, QuietSocket

LEMMA SocketClosesKeeps == SocketInv /\ SocketCloses => SocketInv'
<1> SUFFICES ASSUME SocketInv, SocketCloses
             PROVE  SocketInv'
  OBVIOUS
<1> DEFINE n == [manager EXCEPT !.readyState = "none", !.subscribedReady = FALSE,
                                !.connectionState = "disconnected"]
<1>1. /\ TypesOK /\ Sound(manager, head) /\ manager \in Manager /\ sends \in Seq(Send) /\ head \in Nat
  BY DEF SocketInv, TypesOK, Sound
<1>2. /\ manager' = n \/ manager' = SchedulingReconnect(n)
      /\ UNCHANGED <<sends, link, head>> /\ budget' \in [Chances -> Nat]
  BY <1>1 DEF SocketCloses, TypesOK
<1>3. n \in Manager
  BY <1>1 DEF Manager, ConnectionState
<1>4. /\ n.socket = manager.socket /\ n.readyState = "none"
      /\ n.shouldReconnect = manager.shouldReconnect /\ n.subscribedReady = FALSE
      /\ n.attempts = manager.attempts /\ n.generation = manager.generation
      /\ n.reconnectTimer = manager.reconnectTimer /\ n.timers = manager.timers
      /\ n.subscription = manager.subscription
  BY <1>1 DEF Manager
<1> HIDE DEF n
<1>5. Sound(n, head)
  BY <1>1, <1>3, <1>4 DEF Sound
<1>6. Sound(manager', head) /\ Keeps(n, manager')
  BY <1>1, <1>2, <1>3, <1>5, SchedulingReconnectKeeps DEF Keeps
<1>7. Active(manager)' => Active(manager)
  BY <1>4, <1>6 DEF Keeps, Active
<1>8. manager'.readyState = "none" /\ ~manager'.subscribedReady
  BY <1>4, <1>6 DEF Keeps
<1>9. manager'.socket >= manager.socket
  BY <1>1, <1>4, <1>6 DEF Keeps, Manager
<1> QED
  BY <1>1, <1>2, <1>4, <1>6, <1>7, <1>8, <1>9, QuietSocket DEF Keeps

LEMMA SubscribeHasNoTokenKeeps ==
  ASSUME SocketInv, NEW i, SubscribeHasNoToken(i)
  PROVE  SocketInv'
<1>1. TypesOK /\ Sound(manager, head) /\ sends \in Seq(Send) /\ head \in Nat
  BY DEF SocketInv, TypesOK
<1>2. Sound(manager', head) /\ Keeps(manager, manager')
  BY <1>1, SchedulingSubscribeRetryKeeps DEF SubscribeHasNoToken
<1>3. sends' \in Seq(Send) /\ ToSet(sends') \subseteq ToSet(sends)
  BY <1>1, RemovedIsGone DEF SubscribeHasNoToken
<1>4. link' = link /\ head' = head /\ budget' \in [Chances -> Nat]
  BY <1>1, Chanced DEF SubscribeHasNoToken, Chances
<1> QED
  BY <1>2, <1>3, <1>4, KeptSocket

LEMMA SubscribeIsUnsentKeeps ==
  ASSUME SocketInv, NEW i, SubscribeIsUnsent(i)
  PROVE  SocketInv'
<1>1. TypesOK /\ Sound(manager, head) /\ sends \in Seq(Send) /\ manager \in Manager
  BY DEF SocketInv, TypesOK, Sound
<1>2. UNCHANGED <<manager, link, head>> /\ budget' \in [Chances -> Nat]
  BY <1>1, Chanced DEF SubscribeIsUnsent, Chances
<1>3. Sound(manager', head) /\ Keeps(manager, manager')
  BY <1>1, <1>2 DEF Keeps
<1>4. sends' \in Seq(Send) /\ ToSet(sends') \subseteq ToSet(sends)
  BY <1>1, RemovedIsGone DEF SubscribeIsUnsent
<1> QED
  BY <1>2, <1>3, <1>4, KeptSocket

LEMMA CommitsKeeps == SocketInv /\ Commits => SocketInv'
<1> SUFFICES ASSUME SocketInv, Commits
             PROVE  SocketInv'
  OBVIOUS
<1>1. head \in Nat /\ head' = head + 1 /\ UNCHANGED <<manager, sends, link, budget>>
  BY DEF SocketInv, TypesOK, Commits
<1>2. TypesOK'
  <2>1. Sound(manager, head')
    <3>1. Sound(manager, head) /\ manager.subscription.last \in Nat
      BY DEF SocketInv, TypesOK, Sound, Manager, Subscription
    <3>2. 1 .. head \subseteq 1 .. head'
      BY <1>1
    <3> QED
      BY <1>1, <3>1, <3>2 DEF Sound
  <2> QED
    BY <1>1, <2>1 DEF SocketInv, TypesOK
<1>3. IdsInv'
  <2>1. /\ \A s \in ToSet(sends) : s.after \in Nat
        /\ \A message \in ToSet(link.up) \cup ToSet(link.down) : message.id \in Nat
        /\ link.at \in Nat
    <3>1. /\ \A s \in ToSet(sends) : s \in Send
          /\ \A message \in ToSet(link.up) \cup ToSet(link.down) : message \in Messages
          /\ link.at \in Nat
      BY ListsOf DEF SocketInv, TypesOK, Link
    <3> QED
      BY <3>1 DEF Send, Messages
  <2> QED
    BY <1>1, <2>1 DEF SocketInv, IdsInv
<1>4. ClosedInv' /\ SendsInv'
  BY <1>1 DEF SocketInv, ClosedInv, SendsInv
<1>5. StreamInv' /\ StreamHasNoGap'
  <2>1. \A s : IsCurrent(s)' = IsCurrent(s)
    BY <1>1 DEF IsCurrent
  <2> QED
    BY <1>1, <2>1 DEF SocketInv, StreamInv, StreamHasNoGap, DeliversAfterCursor
<1> QED
  BY <1>2, <1>3, <1>4, <1>5 DEF SocketInv

-----------------------------------------------------------------------------
(* Steps that put messages on the link, or take them off. *)

\* A message that is appended to what comes down: a delta is the next of the
\* session that sends it.
LEMMA AppendedContinues ==
  ASSUME NEW m \in Manager, NEW l \in Link, NEW k \in Link, Continues(m, l), NEW message \in Messages,
         k.down = Append(l.down, message),
         k.session # "none" \/ message.kind = "delta" => l.session # "none",
         message.kind = "delta" => message.id = l.at + 1 /\ k.at = l.at + 1,
         message.kind # "delta" => k.at = l.at
  PROVE  Continues(m, k)
<1> DEFINE n == Len(l.down)
           got == m.subscription.got
<1>1. l.down \in Seq(Messages) /\ l.at \in Nat /\ m.subscription.after \in Nat
  BY DEF Link, Manager, Subscription
<1>2. /\ n \in Nat /\ DOMAIN l.down = 1 .. n /\ DOMAIN k.down = 1 .. n + 1 /\ Len(k.down) = n + 1
      /\ k.down[n + 1] = message /\ \A j \in 1 .. n : k.down[j] = l.down[j]
  BY <1>1
<1>3. /\ \A i \in 1 .. n + 1 : Ahead(k.down, i) = Ahead(l.down, i)
      /\ Ahead(k.down, n + 2) =
             Ahead(l.down, n + 1) \cup (IF message.kind = "delta" THEN {message.id} ELSE {})
  BY <1>1, AheadOfAppended
<1>4. l.session # "none" => Upto(m, l.at) \subseteq got \cup Ahead(l.down, n + 1)
  BY DEF Continues
<1>5. \A i \in 1 .. n : l.down[i].kind = "delta" =>
          Upto(m, l.down[i].id - 1) \subseteq got \cup Ahead(l.down, i)
  BY <1>2 DEF Continues
<1>6. Upto(m, l.at + 1) \subseteq Upto(m, l.at) \cup {l.at + 1}
  BY <1>1 DEF Upto
<1>7. n + 1 + 1 = n + 2 /\ n + 1 \in 1 .. n + 1 /\ l.at + 1 - 1 = l.at
  BY <1>1, <1>2
<1> HIDE DEF n, got
<1>8. k.session # "none" => Upto(m, k.at) \subseteq got \cup Ahead(k.down, n + 2)
  <2>1. CASE message.kind = "delta"
    BY <1>3, <1>4, <1>6, <2>1
  <2>2. CASE message.kind # "delta"
    BY <1>3, <1>4, <2>2
  <2> QED
    BY <2>1, <2>2
<1>9. ASSUME NEW i \in 1 .. n + 1, k.down[i].kind = "delta"
      PROVE  Upto(m, k.down[i].id - 1) \subseteq got \cup Ahead(k.down, i)
  <2>1. CASE i = n + 1
    <3>1. k.down[i] = message /\ message.kind = "delta" /\ l.session # "none"
      BY <1>2, <1>9, <2>1
    <3>2. k.down[i].id - 1 = l.at
      <4>1. message.id = l.at + 1
        BY <3>1
      <4>2. k.down[i].id = l.at + 1
        BY <3>1, <4>1
      <4>3. l.at \in Nat
        BY <1>1
      <4>4. \A a, b : a \in Nat /\ b = a + 1 => b - 1 = a
        OBVIOUS
      <4> QED
        BY <4>2, <4>3, <4>4
    <3> QED
      BY <1>3, <1>4, <1>7, <2>1, <3>1, <3>2
  <2>2. CASE i # n + 1
    <3>1. i \in 1 .. n
      BY <1>2, <2>2
    <3> QED
      BY <1>2, <1>3, <1>5, <1>9, <3>1
  <2> QED
    BY <2>1, <2>2
<1> QED
  BY <1>2, <1>7, <1>8, <1>9 DEF Continues, got

\* The message that is read: a delta's id is one that the stream has after it.
LEMMA ReadContinues ==
  ASSUME NEW m \in Manager, NEW n \in Manager, NEW l \in Link, NEW k, Continues(m, l),
         l.down # <<>>, k.down = Tail(l.down), k.session = l.session, k.at = l.at,
         n.subscription.after = m.subscription.after,
         m.subscription.got \subseteq n.subscription.got,
         Head(l.down).kind = "delta" => Head(l.down).id \in n.subscription.got
  PROVE  Continues(n, k)
<1> DEFINE new == IF Head(l.down).kind = "delta" THEN {Head(l.down).id} ELSE {}
           length == Len(l.down)
<1>1. l.down \in Seq(Messages) /\ length \in Nat /\ length > 0 /\ DOMAIN l.down = 1 .. length
  BY DEF Link
<1>2. /\ DOMAIN k.down = 1 .. length - 1 /\ Len(k.down) + 1 = length
      /\ \A i \in DOMAIN k.down : k.down[i] = l.down[i + 1] /\ i + 1 \in DOMAIN l.down
      /\ \A i \in 1 .. length : Ahead(l.down, i + 1) = Ahead(k.down, i) \cup new
  BY <1>1, AheadOfTail
<1>3. new \subseteq n.subscription.got
  OBVIOUS
<1>4. \A id : Upto(n, id) = Upto(m, id)
  BY DEF Upto
<1> HIDE DEF new, length
<1>5. k.session # "none" => Upto(n, k.at) \subseteq n.subscription.got \cup Ahead(k.down, length)
  <2>1. l.session # "none" => Upto(m, l.at) \subseteq m.subscription.got \cup Ahead(l.down, length + 1)
    BY DEF Continues, length
  <2>2. length \in 1 .. length
    BY <1>1
  <2> QED
    BY <1>2, <1>3, <1>4, <2>1, <2>2
<1>6. ASSUME NEW i \in DOMAIN k.down, k.down[i].kind = "delta"
      PROVE  Upto(n, k.down[i].id - 1) \subseteq n.subscription.got \cup Ahead(k.down, i)
  <2>1. i \in 1 .. length /\ i + 1 \in DOMAIN l.down /\ l.down[i + 1] = k.down[i]
    BY <1>1, <1>2
  <2>2. Upto(m, l.down[i + 1].id - 1) \subseteq m.subscription.got \cup Ahead(l.down, i + 1)
    BY <1>6, <2>1 DEF Continues
  <2> QED
    BY <1>2, <1>3, <1>4, <2>1, <2>2
<1> QED
  BY <1>2, <1>5, <1>6 DEF Continues

\* The rest of the invariant, for steps that end no socket and put no new subscribe
\* among those that wait.
LEMMA LinkedSocket ==
  ASSUME SocketInv, Sound(manager', head), head' = head, budget' \in [Chances -> Nat], link' \in Link,
         sends' \in Seq(Send), ToSet(sends') \subseteq ToSet(sends),
         manager'.socket = manager.socket, manager'.readyState = manager.readyState,
         ~manager'.shouldReconnect => manager'.readyState = "none" /\ ~manager'.subscribedReady,
         Active(manager)' => Active(manager),
         manager'.subscription.after = manager.subscription.after,
         manager'.subscription.shared = manager.subscription.shared,
         manager.subscription.got \subseteq manager'.subscription.got,
         link'.at <= head,
         \A message \in ToSet(link'.up) : message \in ToSet(link.up)
             \/ (message.id <= head
                 /\ (message # Raw /\ Active(manager) /\ ~manager.subscription.shared =>
                         Upto(manager, message.id) \subseteq manager.subscription.got)),
         \A message \in ToSet(link'.down) : message \in ToSet(link.down)
             \/ (message.id <= head /\ (message.kind = "delta" => message.id > 0)),
         Active(manager) /\ ~manager.subscription.shared /\ Continues(manager, link) =>
             Continues(manager', link'),
         StreamHasNoGap'
  PROVE  SocketInv'
<1>1. TypesOK /\ IdsInv /\ SendsInv /\ StreamInv
  BY DEF SocketInv
<1>2. TypesOK' /\ SendsInv' /\ ClosedInv'
  BY <1>1 DEF TypesOK, SendsInv, ClosedInv
<1>3. IdsInv'
  BY <1>1 DEF IdsInv
<1>4. ASSUME Active(manager)', ~manager'.subscription.shared
      PROVE  /\ \A s \in ToSet(sends') :
                   IsCurrent(s)' => Upto(manager', s.after) \subseteq manager'.subscription.got
             /\ \A message \in ToSet(link'.up) : message # Raw =>
                   Upto(manager', message.id) \subseteq manager'.subscription.got
             /\ Continues(manager', link')
  <2>1. Active(manager) /\ ~manager.subscription.shared
    BY <1>4
  <2>2. /\ \A s \in ToSet(sends) : IsCurrent(s) => Upto(manager, s.after) \subseteq manager.subscription.got
        /\ \A message \in ToSet(link.up) : message # Raw =>
              Upto(manager, message.id) \subseteq manager.subscription.got
        /\ Continues(manager, link)
    BY <1>1, <2>1 DEF StreamInv
  <2>3. \A n : Upto(manager', n) = Upto(manager, n)
    BY DEF Upto
  <2>4. \A s : IsCurrent(s)' = IsCurrent(s)
    BY DEF IsCurrent, IsOpen
  <2>5. \A s \in ToSet(sends') :
            IsCurrent(s)' => Upto(manager', s.after) \subseteq manager'.subscription.got
    BY <2>2, <2>3, <2>4
  <2>6. \A message \in ToSet(link'.up) : message # Raw =>
            Upto(manager', message.id) \subseteq manager'.subscription.got
    BY <2>1, <2>2, <2>3
  <2> QED
    BY <2>1, <2>2, <2>5, <2>6
<1>5. StreamInv'
  BY <1>4 DEF StreamInv
<1> QED
  BY <1>2, <1>3, <1>5 DEF SocketInv

\* A step of the server's end.
LEMMA ServedSocket ==
  ASSUME SocketInv, UNCHANGED <<manager, sends, head>>, budget' \in [Chances -> Nat], link' \in Link,
         link'.at <= head, ToSet(link'.up) \subseteq ToSet(link.up),
         \A message \in ToSet(link'.down) : message \in ToSet(link.down)
             \/ (message.id <= head /\ (message.kind = "delta" => message.id > 0)),
         Active(manager) /\ ~manager.subscription.shared /\ Continues(manager, link) =>
             Continues(manager, link')
  PROVE  SocketInv'
<1>1. Sound(manager, head) /\ sends \in Seq(Send) /\ ClosedInv /\ StreamHasNoGap
  BY DEF SocketInv, TypesOK
<1>2. ~manager.shouldReconnect => manager.readyState = "none" /\ ~manager.subscribedReady
  BY <1>1 DEF ClosedInv
<1>3. StreamHasNoGap'
  BY <1>1 DEF StreamHasNoGap, DeliversAfterCursor
<1> QED
  BY <1>1, <1>2, <1>3, LinkedSocket

LEMMA ServerReplaysKeeps == SocketInv /\ ServerReplays => SocketInv'
<1> SUFFICES ASSUME SocketInv, ServerReplays
             PROVE  SocketInv'
  OBVIOUS
<1>1. /\ TypesOK /\ IdsInv /\ link \in Link /\ link.up \in Seq(Messages) /\ link.up # <<>>
      /\ budget \in [Chances -> Nat]
  BY DEF SocketInv, TypesOK, Link, ServerReplays, Reads
<1>2. UNCHANGED <<manager, sends, head, budget>>
  BY DEF ServerReplays
<1> DEFINE first == Head(link.up)
           rest == Tail(link.up)
<1>3. /\ first \in Messages /\ first \in ToSet(link.up)
      /\ rest \in Seq(Messages) /\ ToSet(rest) \subseteq ToSet(link.up)
  BY <1>1, HeadAndTail
<1>4. first.id \in Nat /\ first.id <= head
  BY <1>1, <1>3 DEF Messages, IdsInv
<1> HIDE DEF first, rest
<1>5. CASE first = Raw
  <2>1. link' = [link EXCEPT !.up = rest]
    BY <1>5 DEF ServerReplays, first, rest
  <2>2. /\ link' \in Link /\ link'.up = rest /\ link'.down = link.down /\ link'.at = link.at
        /\ link'.session = link.session
    BY <1>1, <1>3, <2>1 DEF Link
  <2>3. Continues(manager, link) => Continues(manager, link')
    BY <2>2 DEF Continues
  <2> QED
    BY <1>1, <1>2, <1>3, <2>2, <2>3, ServedSocket DEF IdsInv
<1>6. CASE first # Raw
  <2>1. link' = [link EXCEPT !.up = rest, !.session = "replaying", !.at = first.id]
    BY <1>6 DEF ServerReplays, first, rest
  <2>2. /\ link' \in Link /\ link'.up = rest /\ link'.down = link.down /\ link'.at = first.id
        /\ link'.session = "replaying"
    BY <1>1, <1>3, <1>4, <2>1 DEF Link
  <2>3. ASSUME Active(manager), ~manager.subscription.shared, Continues(manager, link)
        PROVE  Continues(manager, link')
    <3>1. Upto(manager, first.id) \subseteq manager.subscription.got
      BY <1>3, <1>6, <2>3 DEF SocketInv, StreamInv
    <3> QED
      BY <2>2, <2>3, <3>1 DEF Continues
  <2> QED
    BY <1>1, <1>2, <1>3, <1>4, <2>2, <2>3, ServedSocket
<1> QED
  BY <1>5, <1>6

\* What the server's end is when a message is appended to what comes down.
LEMMA AnsweredSocket ==
  ASSUME SocketInv, UNCHANGED <<manager, sends, head>>, budget' \in [Chances -> Nat],
         NEW message \in Messages, NEW up \in Seq(Messages), ToSet(up) \subseteq ToSet(link.up),
         NEW session \in {"none", "replaying", "live"}, NEW at \in Nat, at <= head,
         link' = [link EXCEPT !.up = up, !.session = session, !.at = at,
                              !.down = Append(link.down, message)],
         message.id <= head, message.kind = "delta" => message.id > 0,
         session # "none" \/ message.kind = "delta" => link.session # "none",
         message.kind = "delta" => message.id = link.at + 1 /\ at = link.at + 1,
         message.kind # "delta" => at = link.at
  PROVE  SocketInv'
<1> DEFINE longer == Append(link.down, message)
<1>1. link \in Link /\ link.down \in Seq(Messages) /\ manager \in Manager
  BY DEF SocketInv, TypesOK, Sound, Link
<1>2. longer \in Seq(Messages) /\ ToSet(longer) = ToSet(link.down) \cup {message}
  BY <1>1, AppendLists
<1>3. link' = [link EXCEPT !.up = up, !.session = session, !.at = at, !.down = longer]
  OBVIOUS
<1> HIDE DEF longer
<1>4. link' \in Link /\ link'.up = up /\ link'.session = session /\ link'.at = at /\ link'.down = longer
  BY <1>1, <1>2, <1>3 DEF Link
<1>5. link'.down = Append(link.down, message)
  BY <1>4 DEF longer
<1>6. Continues(manager, link) => Continues(manager, link')
  BY <1>1, <1>4, <1>5, AppendedContinues
<1> QED
  BY <1>2, <1>4, <1>6, ServedSocket

LEMMA ServerRefusesKeeps == SocketInv /\ ServerRefuses => SocketInv'
<1> SUFFICES ASSUME SocketInv, ServerRefuses
             PROVE  SocketInv'
  OBVIOUS
<1> DEFINE rest == Tail(link.up)
           error == Message("error", 0)
           session == "none"
<1>1. /\ TypesOK /\ IdsInv /\ link \in Link /\ link.up \in Seq(Messages) /\ link.up # <<>>
      /\ link.at \in Nat /\ link.at <= head /\ 0 <= head
  BY DEF SocketInv, TypesOK, IdsInv, Link, ServerRefuses, Reads
<1>2. rest \in Seq(Messages) /\ ToSet(rest) \subseteq ToSet(link.up)
  BY <1>1, HeadAndTail
<1>3. UNCHANGED <<manager, sends, head>> /\ budget' \in [Chances -> Nat]
  BY <1>1, Chanced DEF ServerRefuses, Chances
<1>4. error \in Messages /\ error.id = 0 /\ error.kind = "error"
  BY DEF Message, Messages
<1>5. link' = [link EXCEPT !.up = rest, !.session = session, !.at = link.at,
                           !.down = Append(link.down, error)]
  BY <1>1 DEF ServerRefuses, Link
<1> HIDE DEF rest, error
<1> QED
  BY <1>1, <1>2, <1>3, <1>4, <1>5, AnsweredSocket

LEMMA ServerAsksForBootstrapKeeps == SocketInv /\ ServerAsksForBootstrap => SocketInv'
<1> SUFFICES ASSUME SocketInv, ServerAsksForBootstrap
             PROVE  SocketInv'
  OBVIOUS
<1> DEFINE stale == Message("stale", 0)
           session == "none"
<1>1. /\ TypesOK /\ link \in Link /\ link.up \in Seq(Messages)
      /\ link.at \in Nat /\ link.at <= head /\ 0 <= head
  BY DEF SocketInv, TypesOK, IdsInv, Link
<1>2. UNCHANGED <<manager, sends, head>> /\ budget' \in [Chances -> Nat]
  BY <1>1, Chanced DEF ServerAsksForBootstrap, Chances
<1>3. stale \in Messages /\ stale.id = 0 /\ stale.kind = "stale"
  BY DEF Message, Messages
<1>4. link' = [link EXCEPT !.up = link.up, !.session = session, !.at = link.at,
                           !.down = Append(link.down, stale)]
  BY <1>1 DEF ServerAsksForBootstrap, Link
<1> HIDE DEF stale
<1> QED
  BY <1>1, <1>2, <1>3, <1>4, AnsweredSocket

LEMMA ServerSendsKeeps == SocketInv /\ ServerSends => SocketInv'
<1> SUFFICES ASSUME SocketInv, ServerSends
             PROVE  SocketInv'
  OBVIOUS
<1> DEFINE at == link.at + 1
           delta == Message("delta", at)
<1>1. /\ TypesOK /\ link \in Link /\ link.up \in Seq(Messages) /\ link.session \in {"none", "replaying", "live"}
      /\ link.at \in Nat /\ head \in Nat
  BY DEF SocketInv, TypesOK, IdsInv, Link
<1>2. UNCHANGED <<manager, sends, head, budget>> /\ budget \in [Chances -> Nat]
  BY <1>1 DEF ServerSends, TypesOK
<1>3. at \in Nat /\ at <= head /\ at > 0
  BY <1>1 DEF ServerSends
<1>4. delta \in Messages /\ delta.id = at /\ delta.kind = "delta"
  BY <1>3 DEF Message, Messages
<1>5. link' = [link EXCEPT !.up = link.up, !.session = link.session, !.at = at,
                           !.down = Append(link.down, delta)]
  BY <1>1 DEF ServerSends, Link
<1>6. link.session # "none" /\ at = link.at + 1
  BY DEF ServerSends
<1> HIDE DEF delta, at
<1> QED
  BY <1>1, <1>2, <1>3, <1>4, <1>5, <1>6, AnsweredSocket

LEMMA ServerAcknowledgesKeeps == SocketInv /\ ServerAcknowledges => SocketInv'
<1> SUFFICES ASSUME SocketInv, ServerAcknowledges
             PROVE  SocketInv'
  OBVIOUS
<1> DEFINE subscribed == Message("subscribed", 0)
           session == "live"
<1>1. /\ TypesOK /\ link \in Link /\ link.up \in Seq(Messages)
      /\ link.at \in Nat /\ link.at <= head /\ 0 <= head
  BY DEF SocketInv, TypesOK, IdsInv, Link
<1>2. UNCHANGED <<manager, sends, head, budget>> /\ budget \in [Chances -> Nat]
  BY <1>1 DEF ServerAcknowledges, TypesOK
<1>3. subscribed \in Messages /\ subscribed.id = 0 /\ subscribed.kind = "subscribed"
  BY DEF Message, Messages
<1>4. link' = [link EXCEPT !.up = link.up, !.session = session, !.at = link.at,
                           !.down = Append(link.down, subscribed)]
  BY <1>1 DEF ServerAcknowledges, Link
<1>5. link.session # "none"
  BY DEF ServerAcknowledges
<1> HIDE DEF subscribed
<1> QED
  BY <1>1, <1>2, <1>3, <1>4, <1>5, AnsweredSocket

LEMMA ServerFailsKeeps == SocketInv /\ ServerFails => SocketInv'
<1> SUFFICES ASSUME SocketInv, ServerFails
             PROVE  SocketInv'
  OBVIOUS
<1> DEFINE error == Message("error", 0)
           end == Message("end", 0)
           first == Append(link.down, error)
           both == Append(first, end)
           between == [link EXCEPT !.session = "none", !.up = <<>>, !.down = first]
<1>1. /\ TypesOK /\ link \in Link /\ link.down \in Seq(Messages) /\ manager \in Manager
      /\ link.at \in Nat /\ link.at <= head /\ 0 <= head
  BY DEF SocketInv, TypesOK, IdsInv, Link, Sound
<1>2. UNCHANGED <<manager, sends, head>> /\ budget' \in [Chances -> Nat]
  BY <1>1, Chanced DEF ServerFails, Chances
<1>3. /\ error \in Messages /\ error.id = 0 /\ error.kind = "error"
      /\ end \in Messages /\ end.id = 0 /\ end.kind = "end"
  BY DEF Message, Messages
<1>4. link' = [link EXCEPT !.session = "none", !.up = <<>>, !.down = link.down \o <<error, end>>]
  BY <1>1 DEF ServerFails, Link
<1> HIDE DEF error, end
<1>5. first \in Seq(Messages) /\ ToSet(first) = ToSet(link.down) \cup {error}
  BY <1>1, <1>3, AppendLists
<1>6. link.down \o <<error, end>> = both
  BY <1>1, <1>3
<1>7. both \in Seq(Messages) /\ ToSet(both) = ToSet(link.down) \cup {error, end}
  <2> HIDE DEF first
  <2>1. both \in Seq(Messages) /\ ToSet(both) = ToSet(first) \cup {end}
    BY <1>3, <1>5, AppendLists
  <2> QED
    BY <1>5, <2>1
<1>8. <<>> \in Seq(Messages) /\ ToSet(<<>>) = {}
  BY DEF ToSet
<1> HIDE DEF first, both
<1>9. /\ between \in Link /\ between.down = first /\ between.at = link.at /\ between.session = "none"
      /\ link' \in Link /\ link'.down = both /\ link'.at = link.at /\ link'.session = "none"
      /\ link'.up = <<>>
  BY <1>1, <1>4, <1>5, <1>6, <1>7, <1>8 DEF Link
<1> HIDE DEF between
<1>10. ASSUME Continues(manager, link)
       PROVE  Continues(manager, link')
  <2>1. Continues(manager, between)
    BY <1>1, <1>3, <1>9, <1>10, AppendedContinues DEF first
  <2> QED
    BY <1>1, <1>3, <1>9, <2>1, AppendedContinues DEF both
<1> QED
  BY <1>1, <1>2, <1>3, <1>7, <1>8, <1>9, <1>10, ServedSocket

\* A subscribe is sent with the cursor it was asked for with.
LEMMA SubscribeIsSentKeeps ==
  ASSUME SocketInv, NEW i, SubscribeIsSent(i)
  PROVE  SocketInv'
<1> DEFINE s == sends[i]
           n == [manager EXCEPT !.subscribedReady = FALSE]
           subscribe == Message("subscribe", s.after)
           longer == Append(link.up, subscribe)
<1>1. /\ TypesOK /\ IdsInv /\ ClosedInv /\ StreamInv /\ StreamHasNoGap
      /\ Sound(manager, head) /\ manager \in Manager /\ sends \in Seq(Send)
      /\ link \in Link /\ link.up \in Seq(Messages) /\ link.at <= head /\ i \in DOMAIN sends
  BY DEF SocketInv, TypesOK, Sound, IdsInv, Link, SubscribeIsSent
<1>2. /\ head' = head /\ budget' = budget /\ budget \in [Chances -> Nat]
      /\ sends' = RemoveAt(sends, i)
  BY <1>1 DEF SubscribeIsSent, TypesOK
<1>3. sends' \in Seq(Send) /\ ToSet(sends') \subseteq ToSet(sends)
  BY <1>1, <1>2, RemovedIsGone
<1>4. s \in ToSet(sends) /\ s \in Send /\ s.after \in Nat /\ s.after <= head
  <2>1. s \in ToSet(sends) /\ s \in Send
    BY <1>1 DEF ToSet
  <2> HIDE DEF s
  <2> QED
    BY <1>1, <2>1 DEF IdsInv, Send
<1>5. CASE IsCurrent(s)
  <2>1. /\ manager' = n /\ link' = [link EXCEPT !.up = longer]
    BY <1>1, <1>5 DEF SubscribeIsSent, CursorOf, Link
  <2>2. subscribe \in Messages /\ subscribe.id = s.after
    BY <1>4 DEF Message, Messages
  <2> HIDE DEF s, subscribe
  <2>3. longer \in Seq(Messages) /\ ToSet(longer) = ToSet(link.up) \cup {subscribe}
    BY <1>1, <2>2, AppendLists
  <2> HIDE DEF longer
  <2>4. /\ link' \in Link /\ link'.up = longer /\ link'.down = link.down /\ link'.at = link.at
        /\ link'.session = link.session
    BY <1>1, <2>1, <2>3 DEF Link
  <2>5. /\ n \in Manager
        /\ n.socket = manager.socket /\ n.readyState = manager.readyState
        /\ n.shouldReconnect = manager.shouldReconnect /\ n.subscribedReady = FALSE
        /\ n.attempts = manager.attempts /\ n.generation = manager.generation
        /\ n.reconnectTimer = manager.reconnectTimer /\ n.timers = manager.timers
        /\ n.subscription = manager.subscription
    BY <1>1 DEF Manager
  <2> HIDE DEF n
  <2>6. Sound(manager', head)
    BY <1>1, <2>1, <2>5 DEF Sound
  <2>7. Active(manager) /\ ~manager.subscription.shared =>
            Upto(manager, subscribe.id) \subseteq manager.subscription.got
    BY <1>1, <1>4, <1>5, <2>2 DEF StreamInv
  <2>8. Continues(manager, link) => Continues(manager', link')
    BY <2>1, <2>4, <2>5 DEF Continues, Upto
  <2>9. StreamHasNoGap'
    BY <1>1, <2>1, <2>5 DEF StreamHasNoGap, DeliversAfterCursor
  <2>10. /\ ~manager'.shouldReconnect => manager'.readyState = "none" /\ ~manager'.subscribedReady
         /\ Active(manager)' => Active(manager)
    BY <1>1, <2>1, <2>5 DEF ClosedInv, Active
  <2>11. /\ manager'.socket = manager.socket /\ manager'.readyState = manager.readyState
         /\ manager'.subscription.after = manager.subscription.after
         /\ manager'.subscription.shared = manager.subscription.shared
         /\ manager.subscription.got \subseteq manager'.subscription.got
         /\ link'.at <= head /\ subscribe.id <= head
    BY <1>1, <1>4, <2>1, <2>2, <2>4, <2>5
  <2>12. \A message \in ToSet(link'.up) : message \in ToSet(link.up)
             \/ (message.id <= head
                 /\ (message # Raw /\ Active(manager) /\ ~manager.subscription.shared =>
                         Upto(manager, message.id) \subseteq manager.subscription.got))
    BY <2>3, <2>4, <2>7, <2>11
  <2> QED
    BY <1>2, <1>3, <2>4, <2>6, <2>8, <2>9, <2>10, <2>11, <2>12, LinkedSocket
<1>6. CASE ~IsCurrent(s)
  <2>1. UNCHANGED <<manager, link>>
    BY <1>6 DEF SubscribeIsSent
  <2>2. Keeps(manager, manager') /\ Sound(manager', head)
    BY <1>1, <2>1 DEF Keeps
  <2> QED
    BY <1>2, <1>3, <2>1, <2>2, KeptSocket
<1> QED
  BY <1>5, <1>6

\* A raw message that is sent at once.
LEMMA RawIsSentKeeps ==
  ASSUME SocketInv, SendRaw, IsOpen(manager) /\ manager.subscribedReady
  PROVE  SocketInv'
<1> DEFINE longer == Append(link.up, Raw)
<1>1. /\ TypesOK /\ IdsInv /\ ClosedInv /\ StreamInv /\ StreamHasNoGap
      /\ Sound(manager, head) /\ manager \in Manager /\ sends \in Seq(Send)
      /\ link \in Link /\ link.up \in Seq(Messages) /\ link.at <= head /\ 0 <= head
  BY DEF SocketInv, TypesOK, Sound, IdsInv, Link
<1>2. UNCHANGED <<manager, sends, head>> /\ budget' \in [Chances -> Nat]
  BY <1>1, Chanced DEF SendRaw, Chances
<1>3. link' = [link EXCEPT !.up = longer]
  BY <1>1 DEF SendRaw, Link
<1>4. Raw \in Messages /\ Raw.id = 0
  BY DEF Raw, Message, Messages
<1>5. longer \in Seq(Messages) /\ ToSet(longer) = ToSet(link.up) \cup {Raw}
  BY <1>1, <1>4, AppendLists
<1> HIDE DEF longer
<1>6. /\ link' \in Link /\ link'.up = longer /\ link'.down = link.down /\ link'.at = link.at
      /\ link'.session = link.session
  BY <1>1, <1>3, <1>5 DEF Link
<1>7. Continues(manager, link) => Continues(manager', link')
  BY <1>2, <1>6 DEF Continues, Upto
<1>8. StreamHasNoGap'
  BY <1>1, <1>2 DEF StreamHasNoGap, DeliversAfterCursor
<1>9. /\ ~manager'.shouldReconnect => manager'.readyState = "none" /\ ~manager'.subscribedReady
      /\ Active(manager)' => Active(manager)
  BY <1>1, <1>2 DEF ClosedInv
<1>10. \A message \in ToSet(link'.up) : message \in ToSet(link.up)
           \/ (message.id <= head
               /\ (message # Raw /\ Active(manager) /\ ~manager.subscription.shared =>
                       Upto(manager, message.id) \subseteq manager.subscription.got))
  BY <1>1, <1>4, <1>5, <1>6
<1> QED
  BY <1>1, <1>2, <1>6, <1>7, <1>8, <1>9, <1>10, LinkedSocket

\* A stream that is opened on a socket that nothing is under way on.
LEMMA SubscribeKeeps == SocketInv /\ Subscribe => SocketInv'
<1> SUFFICES ASSUME SocketInv, Subscribe
             PROVE  SocketInv'
  OBVIOUS
<1>1. /\ TypesOK /\ IdsInv /\ ClosedInv /\ SendsInv
      /\ Sound(manager, head) /\ manager \in Manager /\ manager.subscription \in Subscription
      /\ sends \in Seq(Send) /\ head \in Nat /\ link \in Link
  BY DEF SocketInv, TypesOK, Sound, Manager
<1>2. UNCHANGED <<link, head>> /\ budget' \in [Chances -> Nat]
  BY <1>1, Chanced DEF Subscribe, Chances, TypesOK
<1>3. PICK after \in manager.subscription.after .. head :
          manager' = Connecting([manager EXCEPT !.subscription =
                         [phase |-> "active", after |-> after, last |-> after, got |-> {},
                          shared |-> Shared]])
  BY DEF Subscribe
<1> DEFINE s == [phase |-> "active", after |-> after, last |-> after, got |-> {}, shared |-> Shared]
           n == [manager EXCEPT !.subscription = s]
<1>4. after \in Nat /\ after <= head
  BY <1>1, <1>3 DEF Subscription
<1>5. /\ s \in Subscription /\ s.after = after /\ s.last = after /\ s.got = {} /\ s.shared = Shared
  BY <1>4 DEF Subscription, Shared
<1> HIDE DEF s
<1>6. /\ n \in Manager /\ n.subscription = s
      /\ n.socket = manager.socket /\ n.readyState = manager.readyState
      /\ n.shouldReconnect = manager.shouldReconnect /\ n.subscribedReady = manager.subscribedReady
      /\ n.attempts = manager.attempts /\ n.generation = manager.generation
      /\ n.reconnectTimer = manager.reconnectTimer /\ n.timers = manager.timers
  BY <1>1, <1>5 DEF Manager
<1>7. manager' = Connecting(n)
  BY <1>3 DEF s
<1> HIDE DEF n
<1>8. Sound(n, head)
  BY <1>1, <1>4, <1>5, <1>6 DEF Sound
<1>9. Sound(manager', head) /\ Keeps(n, manager') /\ manager' \in Manager
  BY <1>1, <1>7, <1>8, ConnectingKeeps DEF Sound
<1>10. /\ manager'.socket = manager.socket /\ manager'.readyState = manager.readyState
       /\ manager'.subscription.after = after /\ manager'.subscription.last = after
       /\ manager'.subscription.got = {} /\ manager'.subscription.shared = Shared
  BY <1>5, <1>6, <1>9 DEF Keeps
<1>11. /\ sends' \in Seq(Send)
       /\ \A t \in ToSet(sends') : t \in ToSet(sends)
              \/ (IsOpen(manager') /\ t.socket = manager'.socket /\ t.after = after)
  BY <1>1, <1>9, <1>10, FlushingAsks DEF Subscribe
<1>12. TypesOK'
  BY <1>1, <1>2, <1>9, <1>11 DEF TypesOK
<1>13. IdsInv'
  BY <1>1, <1>2, <1>4, <1>11 DEF IdsInv
<1>14. ClosedInv'
  BY <1>1, <1>6, <1>9 DEF ClosedInv, Keeps
<1>15. SendsInv'
  BY <1>1, <1>10, <1>11 DEF SendsInv, IsOpen, Manager
<1>16. StreamHasNoGap'
  <2>1. after + 1 .. after = {}
    BY <1>4
  <2> QED
    BY <1>10, <2>1 DEF StreamHasNoGap, DeliversAfterCursor
<1>17. StreamInv'
  <2> SUFFICES ASSUME ~Shared
               PROVE  /\ \A t \in ToSet(sends') :
                            IsCurrent(t)' => Upto(manager', t.after) \subseteq manager'.subscription.got
                      /\ \A message \in ToSet(link'.up) : message # Raw =>
                            Upto(manager', message.id) \subseteq manager'.subscription.got
                      /\ Continues(manager', link')
    BY <1>10 DEF StreamInv
  <2>1. link.session = "none" /\ link.up = <<>> /\ link.down = <<>>
        /\ \A i \in DOMAIN sends : ~IsCurrent(sends[i])
    BY DEF Shared
  <2>2. \A t : IsCurrent(t)' = IsCurrent(t)
    BY <1>10 DEF IsCurrent, IsOpen
  <2>3. \A t \in ToSet(sends) : ~IsCurrent(t)
    BY <2>1 DEF ToSet
  <2>4. Upto(manager', after) = {}
    BY <1>4, <1>10 DEF Upto
  <2>5. \A t \in ToSet(sends') : IsCurrent(t)' => Upto(manager', t.after) \subseteq manager'.subscription.got
    BY <1>11, <2>2, <2>3, <2>4
  <2>6. ToSet(link'.up) = {} /\ Continues(manager', link')
    BY <1>2, <2>1 DEF ToSet, Continues
  <2> QED
    BY <2>5, <2>6
<1> QED
  BY <1>12, <1>13, <1>14, <1>15, <1>16, <1>17 DEF SocketInv

\* The link after the first message that came down was read.
LEMMA ReadLink ==
  ASSUME link \in Link, link.down # <<>>, NEW up \in Seq(Messages), NEW read,
         read = [link EXCEPT !.down = Tail(link.down), !.up = up]
  PROVE  /\ read \in Link /\ read.up = up /\ read.down = Tail(link.down)
         /\ read.session = link.session /\ read.at = link.at
         /\ ToSet(read.down) \subseteq ToSet(link.down)
         /\ Head(link.down) \in Messages /\ Head(link.down) \in ToSet(link.down)
<1> DEFINE rest == Tail(link.down)
<1>1. link.down \in Seq(Messages)
  BY DEF Link
<1>2. rest \in Seq(Messages) /\ ToSet(rest) \subseteq ToSet(link.down)
      /\ Head(link.down) \in Messages /\ Head(link.down) \in ToSet(link.down)
  BY <1>1, HeadAndTail
<1>3. read = [link EXCEPT !.down = rest, !.up = up]
  OBVIOUS
<1> HIDE DEF rest
<1>4. /\ read \in Link /\ read.up = up /\ read.down = rest
      /\ read.session = link.session /\ read.at = link.at
  BY <1>2, <1>3 DEF Link
<1> QED
  BY <1>2, <1>4 DEF rest

\* A message that is not a delta is read: the manager takes no step on its stream.
LEMMA QuietlyRead ==
  ASSUME SocketInv, link.down # <<>>, Head(link.down).kind # "delta", NEW up \in Seq(Messages),
         ToSet(up) \subseteq ToSet(link.up) \cup {Raw},
         link' = [link EXCEPT !.down = Tail(link.down), !.up = up],
         UNCHANGED <<sends, head, budget>>, Sound(manager', head),
         manager'.socket = manager.socket, manager'.readyState = manager.readyState,
         manager'.shouldReconnect = manager.shouldReconnect, manager.shouldReconnect,
         manager'.subscription.after = manager.subscription.after,
         manager'.subscription.last = manager.subscription.last,
         manager'.subscription.got = manager.subscription.got,
         manager'.subscription.shared = manager.subscription.shared,
         Active(manager)' => Active(manager)
  PROVE  SocketInv'
<1>1. /\ TypesOK /\ StreamHasNoGap /\ link \in Link /\ sends \in Seq(Send)
      /\ link.at <= head /\ 0 <= head /\ budget' \in [Chances -> Nat]
      /\ manager \in Manager /\ manager' \in Manager
  BY DEF SocketInv, TypesOK, IdsInv, Sound
<1>2. /\ link' \in Link /\ link'.up = up /\ link'.down = Tail(link.down)
      /\ link'.session = link.session /\ link'.at = link.at
      /\ ToSet(link'.down) \subseteq ToSet(link.down)
  BY <1>1, ReadLink
<1>3. Continues(manager, link) => Continues(manager', link')
  BY <1>1, <1>2, ReadContinues
<1>4. StreamHasNoGap'
  BY <1>1 DEF StreamHasNoGap, DeliversAfterCursor
<1>5. \A message \in ToSet(link'.up) : message \in ToSet(link.up)
             \/ (message.id <= head
                 /\ (message # Raw /\ Active(manager) /\ ~manager.subscription.shared =>
                         Upto(manager, message.id) \subseteq manager.subscription.got))
  BY <1>1, <1>2 DEF Raw, Message
<1> QED
  BY <1>1, <1>2, <1>3, <1>4, <1>5, LinkedSocket

\* The five kinds of message.
LEMMA AcknowledgementKeeps ==
  ASSUME SocketInv, link.down # <<>>, IsOpen(manager), UNCHANGED <<sends, head, budget>>,
         Head(link.down).kind = "subscribed", manager' = Acknowledged(manager),
         link' = [[link EXCEPT !.down = Tail(@)] EXCEPT
                      !.up = @ \o [n \in 1 .. manager.pendingMessages |-> Raw]]
  PROVE  SocketInv'
<1> DEFINE n == Acknowledged(manager)
           raws == [i \in 1 .. manager.pendingMessages |-> Raw]
           up == link.up \o raws
<1>1. /\ TypesOK /\ ClosedInv /\ Sound(manager, head) /\ manager \in Manager
      /\ link \in Link /\ link.up \in Seq(Messages) /\ manager.pendingMessages \in Nat
      /\ 0 \in 0 .. MaxRetries
  <2>1. TypesOK /\ ClosedInv /\ Sound(manager, head) /\ manager \in Manager /\ link \in Link
    BY DEF SocketInv, TypesOK, Sound
  <2>2. link.up \in Seq(Messages)
    BY <2>1 DEF Link
  <2>3. manager.pendingMessages \in Nat
    BY <2>1 DEF Manager
  <2>4. 0 \in 0 .. MaxRetries
    BY DeltaSocketAssumption
  <2> QED
    BY <2>1, <2>2, <2>3, <2>4
<1>2. raws \in Seq(Messages) /\ ToSet(raws) \subseteq {Raw}
  <2>1. Raw \in Messages
    BY DEF Raw, Message, Messages
  <2>2. raws \in Seq(Messages)
    BY <1>1, <2>1
  <2>3. ToSet(raws) \subseteq {Raw}
    BY DEF ToSet
  <2> QED
    BY <2>2, <2>3
<1> HIDE DEF raws
<1>3. up \in Seq(Messages) /\ ToSet(up) \subseteq ToSet(link.up) \cup {Raw}
  BY <1>1, <1>2, ListsOf
<1>4. link' = [link EXCEPT !.down = Tail(link.down), !.up = up]
  BY <1>1 DEF Link, raws
<1>5. /\ n \in Manager
      /\ n.socket = manager.socket /\ n.readyState = manager.readyState
      /\ n.shouldReconnect = manager.shouldReconnect
      /\ n.attempts = manager.attempts /\ n.generation = manager.generation
      /\ n.reconnectTimer = manager.reconnectTimer /\ n.timers = manager.timers
      /\ n.subscription = manager.subscription
  BY <1>1 DEF Manager, ConnectionState, Acknowledged
<1> HIDE DEF n, up
<1>6. Sound(manager', head) /\ manager' = n
  BY <1>1, <1>5 DEF Sound, n
<1>7. manager.shouldReconnect
  BY <1>1 DEF ClosedInv, IsOpen
<1>8. Active(manager)' => Active(manager)
  BY <1>5, <1>6 DEF Active
<1> QED
  BY <1>3, <1>4, <1>5, <1>6, <1>7, <1>8, QuietlyRead

LEMMA RefusalKeeps ==
  ASSUME SocketInv, link.down # <<>>, IsOpen(manager), UNCHANGED <<sends, head, budget>>,
         Head(link.down).kind \in {"error", "stale"},
         manager' \in {SchedulingSubscribeRetry(Refused(manager)), Failing(Refused(manager))},
         link' = [link EXCEPT !.down = Tail(@)]
  PROVE  SocketInv'
<1> DEFINE n == Refused(manager)
<1>1. /\ TypesOK /\ ClosedInv /\ Sound(manager, head) /\ manager \in Manager /\ head \in Nat
      /\ link \in Link /\ link.up \in Seq(Messages)
  BY DEF SocketInv, TypesOK, Sound, Link
<1>2. link' = [link EXCEPT !.down = Tail(link.down), !.up = link.up]
  BY <1>1 DEF Link
<1>3. /\ n \in Manager
      /\ n.socket = manager.socket /\ n.readyState = manager.readyState
      /\ n.shouldReconnect = manager.shouldReconnect
      /\ n.attempts = manager.attempts /\ n.generation = manager.generation
      /\ n.reconnectTimer = manager.reconnectTimer /\ n.timers = manager.timers
      /\ n.subscription = manager.subscription
  BY <1>1 DEF Manager, ConnectionState, Refused
<1> HIDE DEF n
<1>4. Sound(n, head)
  BY <1>1, <1>3 DEF Sound
<1>5. Sound(manager', head) /\ Keeps(n, manager') /\ manager'.shouldReconnect = n.shouldReconnect
  <2>1. CASE manager' = SchedulingSubscribeRetry(n)
    BY <1>1, <1>4, <2>1, SchedulingSubscribeRetryKeeps
  <2>2. CASE manager' = Failing(n)
    BY <1>1, <1>4, <2>2, FailingKeeps
  <2> QED
    BY <2>1, <2>2 DEF n
<1>6. manager.shouldReconnect
  BY <1>1 DEF ClosedInv, IsOpen
<1>7. Active(manager)' => Active(manager)
  BY <1>3, <1>5 DEF Keeps, Active
<1> QED
  BY <1>1, <1>2, <1>3, <1>5, <1>6, <1>7, QuietlyRead DEF Keeps

LEMMA EndKeeps ==
  ASSUME SocketInv, IsOpen(manager), UNCHANGED <<sends, head, budget>>,
         manager' = [manager EXCEPT !.readyState = "closed"], link' = NoLink
  PROVE  SocketInv'
<1>1. /\ TypesOK /\ ClosedInv /\ Sound(manager, head) /\ manager \in Manager /\ sends \in Seq(Send)
      /\ manager.socket \in Nat /\ budget' \in [Chances -> Nat]
  BY DEF SocketInv, TypesOK, Sound, Manager
<1>2. /\ manager' \in Manager
      /\ manager'.socket = manager.socket /\ manager'.readyState = "closed"
      /\ manager'.shouldReconnect = manager.shouldReconnect
      /\ manager'.attempts = manager.attempts /\ manager'.generation = manager.generation
      /\ manager'.reconnectTimer = manager.reconnectTimer /\ manager'.timers = manager.timers
      /\ manager'.subscription = manager.subscription
  BY <1>1 DEF Manager
<1>3. Sound(manager', head) /\ (Active(manager)' => Active(manager))
  BY <1>1, <1>2 DEF Sound, Active
<1>4. manager'.shouldReconnect
  BY <1>1, <1>2 DEF ClosedInv, IsOpen
<1>5. manager'.socket >= manager.socket
  BY <1>1, <1>2
<1> QED
  BY <1>1, <1>2, <1>3, <1>4, <1>5, QuietSocket

LEMMA DeltaKeeps ==
  ASSUME SocketInv, link.down # <<>>, IsOpen(manager), UNCHANGED <<sends, head, budget>>,
         Head(link.down).kind = "delta", manager' = Received(manager, Head(link.down).id),
         link' = [link EXCEPT !.down = Tail(@)]
  PROVE  SocketInv'
<1> DEFINE id == Head(link.down).id
           old == manager.subscription
           last == IF id > old.last THEN id ELSE old.last
           got == old.got \cup {id}
           s == [old EXCEPT !.last = last, !.got = got]
           n == [manager EXCEPT !.subscription = s]
<1>1. /\ TypesOK /\ IdsInv /\ ClosedInv /\ StreamInv /\ StreamHasNoGap
      /\ Sound(manager, head) /\ manager \in Manager /\ old \in Subscription
      /\ head \in Nat /\ sends \in Seq(Send) /\ link.at <= head /\ budget' \in [Chances -> Nat]
      /\ link \in Link /\ link.up \in Seq(Messages)
  BY DEF SocketInv, TypesOK, IdsInv, Sound, Manager, Link
<1>2. link' = [link EXCEPT !.down = Tail(link.down), !.up = link.up]
  BY <1>1 DEF Link
<1>3. /\ link' \in Link /\ link'.up = link.up /\ link'.down = Tail(link.down)
      /\ link'.session = link.session /\ link'.at = link.at
      /\ ToSet(link'.down) \subseteq ToSet(link.down)
      /\ Head(link.down) \in Messages /\ Head(link.down) \in ToSet(link.down)
  BY <1>1, <1>2, ReadLink
<1>4. id \in Nat /\ id > 0 /\ id <= head
  BY <1>1, <1>3 DEF Messages, IdsInv
<1>5. CASE ~Active(manager)
  <2>1. manager' = manager
    BY <1>5 DEF Received
  <2>2. StreamHasNoGap'
    BY <1>1, <2>1 DEF StreamHasNoGap, DeliversAfterCursor
  <2>3. ~manager'.shouldReconnect => manager'.readyState = "none" /\ ~manager'.subscribedReady
    BY <1>1, <2>1 DEF ClosedInv
  <2>4. Active(manager)' => Active(manager)
    BY <2>1
  <2> QED
    BY <1>1, <1>3, <1>5, <2>1, <2>2, <2>3, <2>4, LinkedSocket
<1>6. CASE Active(manager)
  <2>1. manager' = n
    BY <1>1, <1>6 DEF Received, Manager, Subscription
  <2>2. /\ last \in Nat /\ last >= old.last /\ last <= head
        /\ got \in SUBSET Nat /\ got \subseteq 1 .. head
    <3>1. old.last \in Nat /\ old.last <= head /\ old.got \subseteq 1 .. head
      BY <1>1 DEF Subscription, Sound
    <3>2. id \in 1 .. head
      BY <1>1, <1>4
    <3> HIDE DEF id
    <3> QED
      BY <1>1, <1>4, <3>1, <3>2
  <2>3. Upto(manager, last) \subseteq Upto(manager, old.last) \cup Upto(manager, id - 1) \cup {id}
    <3>1. old.last \in Nat /\ old.after \in Nat
      BY <1>1 DEF Subscription
    <3> HIDE DEF id
    <3> QED
      BY <1>4, <3>1 DEF Upto
  <2> HIDE DEF last, got
  <2>4. /\ s \in Subscription /\ s.after = old.after /\ s.last = last
        /\ s.got = got /\ s.shared = old.shared /\ s.phase = old.phase
    BY <1>1, <2>2 DEF Subscription
  <2> HIDE DEF s
  <2>5. /\ n \in Manager /\ n.subscription = s
        /\ n.socket = manager.socket /\ n.readyState = manager.readyState
        /\ n.shouldReconnect = manager.shouldReconnect /\ n.subscribedReady = manager.subscribedReady
        /\ n.attempts = manager.attempts /\ n.generation = manager.generation
        /\ n.reconnectTimer = manager.reconnectTimer /\ n.timers = manager.timers
    BY <1>1, <2>4 DEF Manager
  <2> HIDE DEF n
  <2>6. Sound(manager', head)
    <3>1. old.after <= last
      BY <1>1, <2>2 DEF Sound, Subscription
    <3> QED
      BY <1>1, <2>1, <2>2, <2>4, <2>5, <3>1 DEF Sound
  <2>7. got = old.got \cup {id}
    BY DEF got
  <2>8. Continues(manager, link) => Continues(manager', link')
    BY <1>1, <1>3, <2>1, <2>4, <2>5, <2>7, ReadContinues
  <2>9. StreamHasNoGap'
    <3> SUFFICES ASSUME ~old.shared
                 PROVE  Upto(manager, last) \subseteq got
      BY <2>1, <2>4, <2>5 DEF StreamHasNoGap, DeliversAfterCursor, Upto
    <3>1. Upto(manager, old.last) \subseteq old.got
      BY <1>1 DEF StreamHasNoGap, DeliversAfterCursor, Upto
    <3>2. 1 \in DOMAIN link.down /\ link.down[1] = Head(link.down) /\ Ahead(link.down, 1) = {}
      <4>1. link.down \in Seq(Messages)
        BY <1>1 DEF Link
      <4>2. 1 \in DOMAIN link.down /\ link.down[1] = Head(link.down)
        BY <4>1
      <4>3. \A j \in DOMAIN link.down : ~(j < 1)
        BY <4>1
      <4> QED
        BY <4>2, <4>3 DEF Ahead
    <3>3. Continues(manager, link)
      BY <1>1, <1>6 DEF StreamInv
    <3>4. Upto(manager, id - 1) \subseteq old.got
      BY <3>2, <3>3 DEF Continues
    <3> QED
      BY <2>3, <2>7, <3>1, <3>4
  <2>10. ~manager'.shouldReconnect => manager'.readyState = "none" /\ ~manager'.subscribedReady
    BY <1>1, <2>1, <2>5 DEF ClosedInv
  <2>11. /\ Active(manager)' => Active(manager)
         /\ manager'.subscription.after = old.after /\ manager'.subscription.shared = old.shared
         /\ old.got \subseteq manager'.subscription.got
    BY <1>6, <2>1, <2>4, <2>5, <2>7
  <2> QED
    BY <1>1, <1>3, <2>1, <2>5, <2>6, <2>8, <2>9, <2>10, <2>11, LinkedSocket
<1> QED
  BY <1>5, <1>6

LEMMA HandleMessageKeeps == SocketInv /\ HandleMessage => SocketInv'
<1> SUFFICES ASSUME SocketInv, HandleMessage
             PROVE  SocketInv'
  OBVIOUS
<1>1. link.down # <<>> /\ IsOpen(manager) /\ UNCHANGED <<sends, head, budget>>
  BY DEF HandleMessage
<1>2. CASE Head(link.down).kind = "subscribed"
  <2>1. /\ manager' = Acknowledged(manager)
        /\ link' = [[link EXCEPT !.down = Tail(@)] EXCEPT
                        !.up = @ \o [n \in 1 .. manager.pendingMessages |-> Raw]]
    BY <1>2 DEF HandleMessage
  <2> QED
    BY <1>1, <1>2, <2>1, AcknowledgementKeeps
<1>3. CASE Head(link.down).kind \in {"error", "stale"}
  <2>1. /\ manager' \in {SchedulingSubscribeRetry(Refused(manager)), Failing(Refused(manager))}
        /\ link' = [link EXCEPT !.down = Tail(@)]
    BY <1>3 DEF HandleMessage
  <2> QED
    BY <1>1, <1>3, <2>1, RefusalKeeps
<1>4. CASE Head(link.down).kind = "end"
  <2>1. manager' = [manager EXCEPT !.readyState = "closed"] /\ link' = NoLink
    BY <1>4 DEF HandleMessage
  <2> QED
    BY <1>1, <2>1, EndKeeps
<1>5. CASE Head(link.down).kind = "delta"
  <2>1. manager' = Received(manager, Head(link.down).id) /\ link' = [link EXCEPT !.down = Tail(@)]
    BY <1>5 DEF HandleMessage
  <2> QED
    BY <1>1, <1>5, <2>1, DeltaKeeps
<1> QED
  BY <1>2, <1>3, <1>4, <1>5 DEF HandleMessage

-----------------------------------------------------------------------------
(* The theorems. *)

LEMMA SocketNext == SocketInv /\ [Next]_vars => SocketInv'
<1> SUFFICES ASSUME SocketInv, [Next]_vars
             PROVE  SocketInv'
  OBVIOUS
<1>1. CASE UNCHANGED vars
  <2>1. /\ TypesOK' /\ IdsInv' /\ ClosedInv' /\ SendsInv' /\ StreamHasNoGap'
    BY <1>1 DEF vars, SocketInv, TypesOK, IdsInv, ClosedInv, SendsInv, StreamHasNoGap,
                DeliversAfterCursor
  <2>2. StreamInv'
    BY <1>1 DEF vars, SocketInv, StreamInv, IsCurrent, IsOpen, Active
  <2> QED
    BY <2>1, <2>2 DEF SocketInv
<1>2. CASE Subscribe \/ Return \/ SendRaw \/ Close
  BY <1>2, SubscribeKeeps, ReturnKeeps, RawIsSentKeeps, RawWaitsKeeps, CloseKeeps
<1>3. CASE AttemptEnds \/ ReconnectTimerFires \/ SubscribeRetryTimerFires
  BY <1>3, AttemptOpensSocketKeeps, AttemptFailsKeeps, ReconnectTimerFiresKeeps,
     SubscribeRetryTimerFiresKeeps DEF AttemptEnds
<1>4. CASE SocketOpens \/ SocketFails \/ SocketCloses
  BY <1>4, SocketOpensKeeps, SocketFailsKeeps, SocketClosesKeeps
<1>5. CASE SendEnds \/ HandleMessage
  BY <1>5, SubscribeIsSentKeeps, SubscribeHasNoTokenKeeps, SubscribeIsUnsentKeeps,
     HandleMessageKeeps DEF SendEnds
<1>6. CASE Commits \/ Serves \/ ServerAsksForBootstrap
  BY <1>6, CommitsKeeps, ServerReplaysKeeps, ServerRefusesKeeps, ServerFailsKeeps,
     ServerSendsKeeps, ServerAcknowledgesKeeps, ServerAsksForBootstrapKeeps DEF Serves
<1> QED
  BY <1>1, <1>2, <1>3, <1>4, <1>5, <1>6 DEF Next

\* The inductive invariant holds in every reachable state.
THEOREM SocketInvAlways == Spec => []SocketInv
<1> QED
  BY SocketStarts, SocketNext, PTL DEF Spec

\* The fields keep their types, and no more retries are counted than retryConfig
\* allows.
THEOREM SocketTypesAlways == Spec => []TypeOK
<1>1. SocketInv => TypeOK
  <2> SUFFICES ASSUME SocketInv
               PROVE  TypeOK
    OBVIOUS
  <2>1. /\ manager \in Manager /\ manager.subscription \in Subscription /\ Sound(manager, head)
        /\ head \in Nat /\ sends \in Seq(Send) /\ \A s \in ToSet(sends) : s.after <= head
    BY DEF SocketInv, TypesOK, IdsInv, Sound, Manager
  <2>2. ASSUME NEW i \in DOMAIN sends
        PROVE  sends[i].after \in 0 .. head
    <3>1. sends[i] \in Send /\ sends[i] \in ToSet(sends)
      BY <2>1 DEF ToSet
    <3>2. sends[i].after \in Nat /\ sends[i].after <= head
      BY <2>1, <3>1 DEF Send
    <3> QED
      BY <2>1, <3>2
  <2>3. manager.subscription.last \in manager.subscription.after .. head
    BY <2>1 DEF Sound, Subscription
  <2> QED
    BY <2>1, <2>2, <2>3 DEF TypeOK, Manager, Subscription, Sound
<1> QED
  BY <1>1, SocketInvAlways, PTL

\* subscribe() delivers every action after its cursor before those that follow, over
\* however many sockets, retries and closes, unless the stream was opened on a socket
\* an earlier one had left something under way on.
THEOREM StreamsHaveNoGap == Spec => []StreamHasNoGap
<1> QED
  BY SocketInvAlways, PTL DEF SocketInv

\* After close() nothing that was under way opens a socket, and only the application
\* connects again, unless a reconnect timer is left that another had replaced.
THEOREM CloseIsFinal == Spec => ClosedStaysClosed
<1>1. ASSUME SocketInv, Next, ~manager.shouldReconnect, manager'.shouldReconnect, manager.timers = 0
      PROVE  Subscribe \/ SendRaw
  <2>1. /\ manager \in Manager /\ manager.readyState = "none"
    BY <1>1 DEF SocketInv, TypesOK, Sound, ClosedInv
  <2>2. ~Return /\ ~Close
    <3>1. Return => manager'.shouldReconnect = manager.shouldReconnect
      BY <2>1 DEF Return, Manager
    <3>2. Close => manager'.shouldReconnect = FALSE
      BY <2>1 DEF Close, Closed, Manager
    <3> QED
      BY <1>1, <3>1, <3>2
  <2>3. ~AttemptEnds
    <3>1. ASSUME NEW g, AttemptOpensSocket(g)
          PROVE  FALSE
      BY <1>1, <2>1, <3>1 DEF AttemptOpensSocket, IsOrphaned, Manager
    <3>2. ASSUME NEW g, AttemptFails(g)
          PROVE  FALSE
      <4> DEFINE ended == [manager EXCEPT !.attempts = @ \ {g}]
                 n == [ended EXCEPT !.subscribedReady = FALSE, !.connectionState = "error"]
      <4>1. ended.shouldReconnect = FALSE /\ n.shouldReconnect = FALSE
        BY <1>1, <2>1 DEF Manager
      <4>2. manager' = ended \/ manager' = Retried(n)
        BY <3>2 DEF AttemptFails
      <4> HIDE DEF ended, n
      <4> QED
        BY <1>1, <4>1, <4>2 DEF Retried
    <3> QED
      BY <3>1, <3>2 DEF AttemptEnds
  <2>4. ~ReconnectTimerFires
    BY <1>1 DEF ReconnectTimerFires
  <2>5. ~SubscribeRetryTimerFires
    <3> DEFINE n == [manager EXCEPT !.subscribeRetryTimer = FALSE]
    <3>1. n.shouldReconnect = FALSE
      BY <1>1, <2>1 DEF Manager
    <3>2. SubscribeRetryTimerFires => manager' = n
      BY <3>1 DEF SubscribeRetryTimerFires
    <3> HIDE DEF n
    <3> QED
      BY <1>1, <3>1, <3>2
  <2>6. ~SocketOpens /\ ~SocketFails /\ ~SocketCloses /\ ~HandleMessage
    BY <2>1 DEF SocketOpens, SocketFails, SocketCloses, HandleMessage, IsOpen
  <2>7. ~SendEnds
    <3>1. ASSUME NEW i, SubscribeIsSent(i)
          PROVE  FALSE
      BY <1>1, <2>1, <3>1 DEF SubscribeIsSent, IsCurrent, IsOpen
    <3>2. ASSUME NEW i, SubscribeHasNoToken(i)
          PROVE  FALSE
      BY <1>1, <3>2 DEF SubscribeHasNoToken, SchedulingSubscribeRetry
    <3>3. ASSUME NEW i, SubscribeIsUnsent(i)
          PROVE  FALSE
      BY <1>1, <3>3 DEF SubscribeIsUnsent
    <3> QED
      BY <3>1, <3>2, <3>3 DEF SendEnds
  <2>8. ~Commits /\ ~Serves /\ ~ServerAsksForBootstrap
    BY <1>1 DEF Commits, Serves, ServerReplays, ServerRefuses, ServerFails, ServerSends,
                ServerAcknowledges, ServerAsksForBootstrap
  <2> QED
    BY <1>1, <2>2, <2>3, <2>4, <2>5, <2>6, <2>7, <2>8 DEF Next
<1>2. ASSUME SocketInv, SocketInv', [Next]_vars
      PROVE  [/\ ~manager'.shouldReconnect => manager'.readyState = "none" /\ ~manager'.subscribedReady
              /\ ~manager.shouldReconnect /\ manager'.shouldReconnect /\ manager.timers = 0
                     => Subscribe \/ SendRaw]_vars
  BY <1>1, <1>2 DEF SocketInv, ClosedInv
<1> QED
  BY <1>2, SocketInvAlways, PTL DEF Spec, ClosedStaysClosed

=============================================================================
