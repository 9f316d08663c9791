---------------------------- MODULE DocumentsProofs ----------------------------
(***************************************************************************)
(* Proofs about Documents for any number of clients, any scripts of their   *)
(* users and any number of failures: a client in sync has every update up   *)
(* to the number it has come to, and no edit is forgotten.                  *)
(***************************************************************************)
EXTENDS Documents, ListsProofs

-----------------------------------------------------------------------------
(* The invariant. *)

Op == Clients \X Nat
Messages ==
    [kind : {"doc_view", "doc_focus", "session_state", "yjs_sync_step1", "yjs_sync_step2", "yjs_update",
             "live_editing_error"},
     ops : SUBSET Op, seq : Nat, flag : BOOLEAN]
Document ==
    [state : {"disconnected", "connecting", "syncing", "connected"}, ops : SUBSET Op, lastSeq : Nat,
     refCount : Nat, pending : SUBSET Op, initial : BOOLEAN, attempts : Nat, timer : BOOLEAN,
     crossed : BOOLEAN]
Link == [open : BOOLEAN, up : Seq(Messages), down : Seq(Messages)]
Scenario ==
    [script : [Clients -> Seq(Commands)], drops : Nat, errors : Nat, refusals : Nat, losses : Nat]

Server == [updates : Seq(SUBSET Op), viewers : [Clients -> {"none", "viewing", "editing"}]]

\* What a document has seen, when the server has numbered these updates.
Seen(d, updates) ==
    /\ d.lastSeq <= Len(updates)
    /\ ~d.crossed => \A i \in 1 .. d.lastSeq : updates[i] \subseteq d.ops

\* A request is of a document that can only have grown since.  What comes down is of
\* the server: an update is the one of its number, and an answer completes the
\* document that it was asked for up to its number.
Asked(d, m) == m.kind = "yjs_sync_step1" /\ ~d.crossed => m.ops \subseteq d.ops
Answered(d, m, updates) ==
    /\ m.kind = "yjs_update" => m.seq \in 1 .. Len(updates) /\ m.ops = updates[m.seq]
    /\ m.kind = "yjs_sync_step2" =>
          /\ m.seq <= Len(updates) /\ m.ops \subseteq (UNION ToSet(updates))
          /\ ~d.crossed => \A i \in 1 .. m.seq : updates[i] \subseteq d.ops \cup m.ops

\* What is in a document in use, given what the server has and what was lost.
Owed(d, stored, up, updates, gone) ==
    IsActive(d) =>
        /\ d.ops \subseteq (UNION ToSet(updates)) \cup gone \cup d.pending \cup Carried(up)
        /\ d.ops \subseteq stored

ClientOK(d, stored, l, updates, gone) ==
    /\ ~l.open => l.up = <<>> /\ l.down = <<>>
    /\ Seen(d, updates)
    /\ \A m \in ToSet(l.up) : Asked(d, m)
    /\ \A m \in ToSet(l.down) : Answered(d, m, updates)
    /\ Owed(d, stored, l.up, updates, gone)

TypesOK ==
    /\ docs \in [Clients -> Document] /\ persisted \in [Clients -> SUBSET Op]
    /\ link \in [Clients -> Link] /\ server \in Server /\ left \in Scenario

\* Only who has a socket is at the document.
ViewsInv == \A c \in Clients : Views(c) => link[c].open

DocsInv ==
    /\ TypesOK /\ ViewsInv
    /\ \A c \in Clients : ClientOK(docs[c], persisted[c], link[c], server.updates, lost)

-----------------------------------------------------------------------------
(* What messages carry. *)

LEMMA CarriedBy ==
  ASSUME NEW s
  PROVE  Carried(s) = UNION {m.ops : m \in {m \in ToSet(s) : m.kind = "yjs_update"}}
<1>1. ASSUME NEW o, o \in Carried(s)
      PROVE  o \in UNION {m.ops : m \in {m \in ToSet(s) : m.kind = "yjs_update"}}
  <2>1. PICK i \in DOMAIN s : s[i].kind = "yjs_update" /\ o \in s[i].ops
    BY <1>1 DEF Carried
  <2>2. s[i] \in ToSet(s)
    BY DEF ToSet
  <2> QED
    BY <2>1, <2>2
<1>2. ASSUME NEW o, o \in UNION {m.ops : m \in {m \in ToSet(s) : m.kind = "yjs_update"}}
      PROVE  o \in Carried(s)
  <2>1. PICK m \in ToSet(s) : m.kind = "yjs_update" /\ o \in m.ops
    BY <1>2
  <2>2. PICK i \in DOMAIN s : s[i] = m
    BY DEF ToSet
  <2> QED
    BY <2>1, <2>2 DEF Carried
<1> QED
  BY <1>1, <1>2

\* Messages that carry no update, and requests, which are of the document.
Plain(d, messages) ==
    /\ messages \in Seq(Messages)
    /\ \A m \in ToSet(messages) : m.kind # "yjs_update" /\ Asked(d, m)

LEMMA PlainMessages ==
  ASSUME NEW d \in Document, NEW n \in Document
  PROVE  /\ Plain(n, <<>>) /\ Plain(n, DocView(TRUE)) /\ Plain(n, DocView(FALSE))
         /\ Plain(n, DocFocus(TRUE)) /\ Plain(n, DocFocus(FALSE))
         /\ d.ops \subseteq n.ops => Plain(n, SyncStep1(d))
         /\ \A a, b : Plain(n, a) /\ Plain(n, b) => Plain(n, a \o b)
<1>1. ASSUME NEW m \in Messages, m.kind # "yjs_update", Asked(n, m)
      PROVE  Plain(n, <<m>>)
  <2>1. <<m>> \in Seq(Messages) /\ ToSet(<<m>>) = {m}
    BY DEF ToSet
  <2> QED
    BY <1>1, <2>1 DEF Plain
<1>2. Plain(n, <<>>)
  <2>1. <<>> \in Seq(Messages) /\ ToSet(<<>>) = {}
    BY DEF ToSet
  <2> QED
    BY <2>1 DEF Plain
<1>3. ASSUME NEW on \in BOOLEAN
      PROVE  Plain(n, DocView(on)) /\ Plain(n, DocFocus(on))
  <2> DEFINE v == Message("doc_view", {}, 0, on)
             f == Message("doc_focus", {}, 0, on)
  <2>1. v \in Messages /\ v.kind = "doc_view" /\ f \in Messages /\ f.kind = "doc_focus"
    BY DEF Message, Messages
  <2> HIDE DEF v, f
  <2>2. Plain(n, <<v>>) /\ Plain(n, <<f>>)
    BY <1>1, <2>1 DEF Asked
  <2> QED
    BY <2>2 DEF DocView, DocFocus, v, f
<1>4. ASSUME d.ops \subseteq n.ops
      PROVE  Plain(n, SyncStep1(d))
  <2> DEFINE m == Message("yjs_sync_step1", d.ops, 0, FALSE)
  <2>1. m \in Messages /\ m.kind = "yjs_sync_step1" /\ m.ops = d.ops
    BY DEF Message, Messages, Document
  <2> HIDE DEF m
  <2>2. Plain(n, <<m>>)
    BY <1>1, <1>4, <2>1 DEF Asked
  <2> QED
    BY <1>2, <2>2 DEF SyncStep1, m
<1>5. ASSUME NEW a, NEW b, Plain(n, a), Plain(n, b)
      PROVE  Plain(n, a \o b)
  <2>1. a \in Seq(Messages) /\ b \in Seq(Messages)
    BY <1>5 DEF Plain
  <2>2. a \o b \in Seq(Messages) /\ ToSet(a \o b) = ToSet(a) \cup ToSet(b)
    BY <2>1, ListsOf
  <2> QED
    BY <1>5, <2>2 DEF Plain
<1> QED
  BY <1>2, <1>3, <1>4, <1>5

\* What is said of a document that is viewed.
LEMMA PlainWords ==
  ASSUME NEW n \in Document, NEW p
  PROVE  Plain(n, Replay(p)) /\ Plain(n, Starts(p)) /\ Plain(n, Stops(p))
  BY PlainMessages DEF Replay, Starts, Stops

-----------------------------------------------------------------------------
(* What the managers do to a document beside its content. *)

\* The same document in another state, which may keep more back.
Same(d, n) ==
    /\ n \in Document /\ n.ops = d.ops /\ n.lastSeq = d.lastSeq /\ n.crossed = d.crossed
    /\ d.pending \subseteq n.pending
    /\ IsActive(n) => IsActive(d) \/ n.ops \subseteq n.pending

\* Nor is it in use when it was not.
Stays(d, n) == Same(d, n) /\ (IsActive(n) => IsActive(d))

LEMMA ResettingIsSame ==
  ASSUME NEW d \in Document
  PROVE  Same(d, ResetRetry(d)) /\ ResetRetry(d).refCount = d.refCount /\ ResetRetry(d).pending = d.pending
<1> DEFINE n == ResetRetry(d)
<1>1. /\ n \in Document /\ n.ops = d.ops /\ n.lastSeq = d.lastSeq /\ n.crossed = d.crossed
      /\ n.pending = d.pending /\ n.refCount = d.refCount
  BY DEF ResetRetry, Document
<1> HIDE DEF n
<1>2. Same(d, n)
  BY <1>1 DEF Same, IsActive
<1> QED
  BY <1>1, <1>2 DEF n

LEMMA RequestingIsSame ==
  ASSUME NEW d \in Document, NEW online
  PROVE  Stays(d, Requested(d, online))
<1> DEFINE state == IF ~IsActive(d) THEN "disconnected" ELSE IF online THEN "syncing" ELSE "connecting"
           n == [d EXCEPT !.state = state]
<1>1. Requested(d, online) = n
  BY DEF Requested
<1>2. state \in {"disconnected", "connecting", "syncing", "connected"}
  OBVIOUS
<1> HIDE DEF state
<1>3. /\ n \in Document /\ n.ops = d.ops /\ n.lastSeq = d.lastSeq /\ n.crossed = d.crossed
      /\ n.pending = d.pending /\ n.refCount = d.refCount
  BY <1>2 DEF Document
<1> HIDE DEF n
<1> QED
  BY <1>1, <1>3 DEF Stays, Same, IsActive

LEMMA ConnectingIsSame ==
  ASSUME NEW d \in Document, NEW seeding \in BOOLEAN, NEW online
  PROVE  Same(d, Connected(d, seeding, online))
<1>1. CASE IsActive(d) /\ d.state # "disconnected"
  <2> DEFINE count == d.refCount + 1
             n == [d EXCEPT !.refCount = count]
  <2>1. Connected(d, seeding, online) = n
    BY <1>1 DEF Connected, Document
  <2>2. count \in Nat
    BY DEF Document
  <2> HIDE DEF count
  <2>3. /\ n \in Document /\ n.ops = d.ops /\ n.lastSeq = d.lastSeq /\ n.crossed = d.crossed
        /\ n.pending = d.pending
    BY <2>2 DEF Document
  <2> HIDE DEF n
  <2> QED
    BY <1>1, <2>1, <2>3 DEF Same
<1>2. CASE ~(IsActive(d) /\ d.state # "disconnected")
  <2> DEFINE r == ResetRetry(d)
             count == IF IsActive(d) THEN r.refCount ELSE r.refCount + 1
             pending == IF IsActive(d) THEN r.pending ELSE r.pending \cup d.ops
             n == [r EXCEPT !.refCount = count, !.pending = pending, !.initial = seeding]
  <2>1. Same(d, r) /\ r \in Document /\ r.refCount = d.refCount /\ r.pending = d.pending
    BY ResettingIsSame DEF Same
  <2>2. Connected(d, seeding, online) = Requested(n, online)
    BY <1>2, <2>1 DEF Connected, Document
  <2> HIDE DEF r
  <2>3. /\ count \in Nat /\ pending \in SUBSET Op /\ d.pending \subseteq pending
        /\ IsActive(d) \/ d.ops \subseteq pending
    BY <2>1 DEF Document
  <2> HIDE DEF count, pending
  <2>4. /\ n \in Document /\ n.ops = r.ops /\ n.lastSeq = r.lastSeq /\ n.crossed = r.crossed
        /\ n.pending = pending
    BY <2>1, <2>3 DEF Document
  <2> HIDE DEF n
  <2>5. Same(n, Requested(n, online)) /\ n.ops = d.ops
    BY <2>1, <2>4, RequestingIsSame DEF Stays, Same
  <2> QED
    BY <2>1, <2>2, <2>3, <2>4, <2>5 DEF Same
<1> QED
  BY <1>1, <1>2

LEMMA DisconnectingIsSame ==
  ASSUME NEW d \in Document
  PROVE  Stays(d, Disconnected(d))
<1>1. CASE d.refCount = 1
  <2> DEFINE r == ResetRetry(d)
             n == [r EXCEPT !.refCount = 0, !.state = "disconnected", !.initial = FALSE]
  <2>1. Same(d, r) /\ r \in Document
    BY ResettingIsSame DEF Same
  <2>2. Disconnected(d) = n
    BY <1>1 DEF Disconnected
  <2> HIDE DEF r
  <2>3. /\ n \in Document /\ n.ops = r.ops /\ n.lastSeq = r.lastSeq /\ n.crossed = r.crossed
        /\ n.pending = r.pending /\ n.refCount = 0
    BY <2>1 DEF Document
  <2> HIDE DEF n
  <2> QED
    BY <2>1, <2>2, <2>3 DEF Stays, Same, IsActive
<1>2. CASE d.refCount # 1
  <2> DEFINE count == IF d.refCount = 0 THEN 0 ELSE d.refCount - 1
             n == [d EXCEPT !.refCount = count]
  <2>1. Disconnected(d) = n
    BY <1>2 DEF Disconnected, Document
  <2>2. count \in Nat /\ (count > 0 => d.refCount > 0)
    BY DEF Document
  <2> HIDE DEF count
  <2>3. /\ n \in Document /\ n.ops = d.ops /\ n.lastSeq = d.lastSeq /\ n.crossed = d.crossed
        /\ n.pending = d.pending /\ n.refCount = count
    BY <2>2 DEF Document
  <2> HIDE DEF n
  <2> QED
    BY <2>1, <2>2, <2>3 DEF Stays, Same, IsActive
<1> QED
  BY <1>1, <1>2

LEMMA StatesAreSame ==
  ASSUME NEW d \in Document, NEW state \in {"disconnected", "connecting", "syncing", "connected"}
  PROVE  /\ Stays(d, [d EXCEPT !.state = state]) /\ Stays(d, [ResetRetry(d) EXCEPT !.state = state])
         /\ Stays(d, [d EXCEPT !.timer = FALSE])
<1>1. ASSUME NEW r \in Document, Stays(d, r)
      PROVE  Stays(d, [r EXCEPT !.state = state]) /\ Stays(d, [r EXCEPT !.timer = FALSE])
  <2> DEFINE n == [r EXCEPT !.state = state]
             k == [r EXCEPT !.timer = FALSE]
  <2>1. /\ n \in Document /\ n.ops = r.ops /\ n.lastSeq = r.lastSeq /\ n.crossed = r.crossed
        /\ n.pending = r.pending /\ n.refCount = r.refCount
    BY DEF Document
  <2>2. /\ k \in Document /\ k.ops = r.ops /\ k.lastSeq = r.lastSeq /\ k.crossed = r.crossed
        /\ k.pending = r.pending /\ k.refCount = r.refCount
    BY DEF Document
  <2> HIDE DEF n, k
  <2>3. Stays(d, n)
    BY <1>1, <2>1 DEF Stays, Same, IsActive
  <2>4. Stays(d, k)
    BY <1>1, <2>2 DEF Stays, Same, IsActive
  <2> QED
    BY <2>3, <2>4 DEF n, k
<1>2. Stays(d, d)
  BY DEF Stays, Same
<1>3. ResetRetry(d) \in Document /\ Stays(d, ResetRetry(d))
  BY ResettingIsSame DEF Stays, Same, IsActive
<1> QED
  BY <1>1, <1>2, <1>3

LEMMA RetryingIsSame ==
  ASSUME NEW d \in Document
  PROVE  Stays(d, RetryScheduled(d))
<1>1. CASE ~IsActive(d) \/ d.timer \/ d.attempts >= MaxRetries
  BY <1>1, StatesAreSame DEF RetryScheduled, Stays, Same
<1>2. CASE ~(~IsActive(d) \/ d.timer \/ d.attempts >= MaxRetries)
  <2> DEFINE attempts == d.attempts + 1
             n == [d EXCEPT !.attempts = attempts, !.timer = TRUE, !.state = "connecting"]
  <2>1. RetryScheduled(d) = n
    BY <1>2 DEF RetryScheduled, Document
  <2>2. attempts \in Nat
    BY DEF Document
  <2> HIDE DEF attempts
  <2>3. /\ n \in Document /\ n.ops = d.ops /\ n.lastSeq = d.lastSeq /\ n.crossed = d.crossed
        /\ n.pending = d.pending /\ n.refCount = d.refCount
    BY <2>2 DEF Document
  <2> HIDE DEF n
  <2> QED
    BY <2>1, <2>3 DEF Stays, Same, IsActive
<1> QED
  BY <1>1, <1>2

-----------------------------------------------------------------------------
(* Steps of one client. *)

LEMMA CarriedGrows ==
  ASSUME NEW s, NEW t, ToSet(s) \subseteq ToSet(t)
  PROVE  Carried(s) \subseteq Carried(t)
BY CarriedBy

\* A step after which nobody else is at the document who was not before.
Seats(c, open) == \A b \in Clients : Views(b)' => IF b = c THEN open ELSE Views(b)

\* What a step of one client leaves of the others.
LEMMA OneClient ==
  ASSUME DocsInv, NEW c \in Clients, NEW n \in Document, NEW t \in SUBSET Op, NEW k \in Link,
         docs' = [docs EXCEPT ![c] = n], persisted' = [persisted EXCEPT ![c] = t],
         link' = [link EXCEPT ![c] = k], server' \in Server, server'.updates = server.updates,
         left' \in Scenario, lost \subseteq lost', Seats(c, k.open),
         ClientOK(n, t, k, server.updates, lost')
  PROVE  DocsInv'
<1>1. TypesOK /\ TypesOK'
  BY DEF DocsInv, TypesOK
<1>2. ASSUME NEW b \in Clients
      PROVE  ClientOK(docs'[b], persisted'[b], link'[b], server'.updates, lost')
  <2>1. CASE b = c
    <3>1. docs'[b] = n /\ persisted'[b] = t /\ link'[b] = k
      BY <1>1, <2>1 DEF TypesOK
    <3> QED
      BY <3>1
  <2>2. CASE b # c
    <3>1. docs'[b] = docs[b] /\ persisted'[b] = persisted[b] /\ link'[b] = link[b]
      BY <1>1, <2>2 DEF TypesOK
    <3>2. ClientOK(docs[b], persisted[b], link[b], server.updates, lost)
      BY DEF DocsInv
    <3>3. ClientOK(docs[b], persisted[b], link[b], server.updates, lost')
      BY <3>2 DEF ClientOK, Owed
    <3> QED
      BY <3>1, <3>3
  <2> QED
    BY <2>1, <2>2
<1>3. ViewsInv'
  <2> SUFFICES ASSUME NEW b \in Clients, Views(b)'
               PROVE  link'[b].open
    BY DEF ViewsInv
  <2>1. CASE b = c
    BY <1>1, <2>1 DEF TypesOK, Seats
  <2>2. CASE b # c
    <3>1. link'[b] = link[b] /\ Views(b)
      BY <1>1, <2>2 DEF TypesOK, Seats
    <3> QED
      BY <3>1 DEF DocsInv, ViewsInv
  <2> QED
    BY <2>1, <2>2
<1> QED
  BY <1>1, <1>2, <1>3 DEF DocsInv

\* A step that leaves what has been seen: nothing new comes down, and nothing that was
\* kept back, or is on its way, is forgotten.
LEMMA SameStep ==
  ASSUME DocsInv, NEW c \in Clients, NEW n, Same(docs[c], n), NEW t \in SUBSET Op, NEW k \in Link,
         docs' = [docs EXCEPT ![c] = n], persisted' = [persisted EXCEPT ![c] = t],
         link' = [link EXCEPT ![c] = k], server' \in Server, server'.updates = server.updates,
         left' \in Scenario, lost \subseteq lost',
         (t = persisted[c] /\ (IsActive(n) => IsActive(docs[c]))) \/ n.ops \subseteq t,
         ~k.open => k.up = <<>> /\ k.down = <<>>, Seats(c, k.open),
         ToSet(k.down) \subseteq ToSet(link[c].down),
         \A m \in ToSet(k.up) : m \in ToSet(link[c].up) \/ Asked(n, m),
         Carried(link[c].up) \subseteq Carried(k.up) \cup lost'
  PROVE  DocsInv'
<1> DEFINE d == docs[c]
           l == link[c]
<1>1. ClientOK(d, persisted[c], l, server.updates, lost)
  BY DEF DocsInv
<1>2. n \in Document /\ n.ops = d.ops /\ n.lastSeq = d.lastSeq /\ n.crossed = d.crossed
      /\ d.pending \subseteq n.pending /\ (IsActive(n) => IsActive(d) \/ n.ops \subseteq n.pending)
  BY DEF Same
<1> HIDE DEF d, l
<1>3. Seen(n, server.updates)
  BY <1>1, <1>2 DEF ClientOK, Seen
<1>4. \A m \in ToSet(k.up) : Asked(n, m)
  BY <1>1, <1>2 DEF ClientOK, Asked, l
<1>5. \A m \in ToSet(k.down) : Answered(n, m, server.updates)
  BY <1>1, <1>2 DEF ClientOK, Answered, l
<1>6. Owed(n, t, k.up, server.updates, lost')
  <2> SUFFICES ASSUME IsActive(n)
               PROVE  /\ n.ops \subseteq (UNION ToSet(server.updates)) \cup lost' \cup n.pending \cup Carried(k.up)
                      /\ n.ops \subseteq t
    BY DEF Owed
  <2>1. CASE IsActive(d)
    <3>1. /\ d.ops \subseteq (UNION ToSet(server.updates)) \cup lost \cup d.pending \cup Carried(l.up)
          /\ d.ops \subseteq persisted[c]
      BY <1>1, <2>1 DEF ClientOK, Owed
    <3> QED
      BY <1>2, <3>1 DEF l
  <2>2. CASE ~IsActive(d)
    <3>1. n.ops \subseteq n.pending
      BY <1>2, <2>2
    <3>2. n.ops \subseteq t
      BY <2>2 DEF d
    <3> QED
      BY <3>1, <3>2
  <2> QED
    BY <2>1, <2>2
<1>7. ClientOK(n, t, k, server.updates, lost')
  BY <1>3, <1>4, <1>5, <1>6 DEF ClientOK
<1> QED
  BY <1>2, <1>7, OneClient

\* The links that a client's managers write to.
LEMMA SendingLinks ==
  ASSUME DocsInv, NEW c \in Clients, NEW messages \in Seq(Messages), Sending(c, messages)
  PROVE  \E k \in Link :
            /\ link' = [link EXCEPT ![c] = k] /\ k.open = link[c].open /\ k.down = link[c].down
            /\ ~k.open => k.up = <<>> /\ k.down = <<>>
            /\ ToSet(k.up) \subseteq ToSet(link[c].up) \cup ToSet(messages)
            /\ Carried(link[c].up) \subseteq Carried(k.up)
            /\ Online(c) => Carried(messages) \subseteq Carried(k.up)
<1> DEFINE l == link[c]
           sent == IF Online(c) THEN messages ELSE <<>>
           up == l.up \o sent
           k == [l EXCEPT !.up = up]
<1>1. /\ TypesOK /\ l \in Link /\ l.up \in Seq(Messages)
      /\ ~l.open => l.up = <<>> /\ l.down = <<>>
  BY DEF DocsInv, TypesOK, Link, ClientOK
<1>2. link' = [link EXCEPT ![c] = k]
  BY <1>1 DEF Sending, TypesOK, Link
<1>3. sent \in Seq(Messages) /\ (~l.open => sent = <<>>) /\ (Online(c) => sent = messages)
      /\ ToSet(sent) \subseteq ToSet(messages)
  BY DEF Online, ToSet
<1> HIDE DEF l, sent
<1>4. up \in Seq(Messages) /\ ToSet(up) = ToSet(l.up) \cup ToSet(sent)
  BY <1>1, <1>3, ListsOf
<1>5. ~l.open => up = <<>>
  BY <1>1, <1>3
<1>6. Carried(l.up) \subseteq Carried(up) /\ Carried(sent) \subseteq Carried(up)
  BY <1>4, CarriedGrows
<1> HIDE DEF up
<1>7. k \in Link /\ k.open = l.open /\ k.down = l.down /\ k.up = up
  BY <1>1, <1>4 DEF Link
<1> HIDE DEF k
<1> QED
  BY <1>1, <1>2, <1>3, <1>4, <1>5, <1>6, <1>7 DEF l

LEMMA HandlingLinks ==
  ASSUME DocsInv, NEW c \in Clients, NEW messages \in Seq(Messages), link[c].down # <<>>,
         Handling(c, messages)
  PROVE  /\ Head(link[c].down) \in Messages /\ Head(link[c].down) \in ToSet(link[c].down)
         /\ \E k \in Link :
               /\ link' = [link EXCEPT ![c] = k] /\ k.open
               /\ ToSet(k.down) \subseteq ToSet(link[c].down)
               /\ ToSet(k.up) \subseteq ToSet(link[c].up) \cup ToSet(messages)
               /\ Carried(link[c].up) \cup Carried(messages) \subseteq Carried(k.up)
<1> DEFINE l == link[c]
           up == l.up \o messages
           down == Tail(l.down)
           k == [l EXCEPT !.up = up, !.down = down]
<1>1. /\ TypesOK /\ l \in Link /\ l.up \in Seq(Messages) /\ l.down \in Seq(Messages) /\ l.open
  BY DEF DocsInv, TypesOK, Link, ClientOK
<1>2. link' = [link EXCEPT ![c] = k]
  BY <1>1 DEF Handling, TypesOK, Link
<1>3. /\ down \in Seq(Messages) /\ ToSet(down) \subseteq ToSet(l.down)
      /\ Head(l.down) \in Messages /\ Head(l.down) \in ToSet(l.down)
  BY <1>1, HeadAndTail
<1>4. up \in Seq(Messages) /\ ToSet(up) = ToSet(l.up) \cup ToSet(messages)
  BY <1>1, ListsOf
<1>5. Carried(l.up) \subseteq Carried(up) /\ Carried(messages) \subseteq Carried(up)
  BY <1>4, CarriedGrows
<1> HIDE DEF l, up, down
<1>6. k \in Link /\ k.open = l.open /\ k.down = down /\ k.up = up
  BY <1>1, <1>3, <1>4 DEF Link
<1> HIDE DEF k
<1> QED
  BY <1>1, <1>2, <1>3, <1>4, <1>5, <1>6 DEF l

\* The links that the server's end answers on.
LEMMA AnsweringLinks ==
  ASSUME DocsInv, NEW c \in Clients, NEW messages \in Seq(Messages), link[c].up # <<>>,
         Answering(c, messages)
  PROVE  /\ Head(link[c].up) \in Messages /\ Head(link[c].up) \in ToSet(link[c].up)
         /\ \E k \in Link :
               /\ link' = [link EXCEPT ![c] = k] /\ k.open
               /\ ToSet(k.up) \subseteq ToSet(link[c].up)
               /\ ToSet(k.down) = ToSet(link[c].down) \cup ToSet(messages)
               /\ Carried(link[c].up) \subseteq Carried(k.up) \cup Carried(<<Head(link[c].up)>>)
<1> DEFINE l == link[c]
           up == Tail(l.up)
           first == Head(l.up)
           down == l.down \o messages
           k == [l EXCEPT !.up = up, !.down = down]
<1>1. /\ TypesOK /\ l \in Link /\ l.up \in Seq(Messages) /\ l.down \in Seq(Messages) /\ l.open
  BY DEF DocsInv, TypesOK, Link, ClientOK
<1>2. link' = [link EXCEPT ![c] = k]
  BY <1>1 DEF Answering, TypesOK, Link
<1>3. /\ up \in Seq(Messages) /\ ToSet(l.up) = {first} \cup ToSet(up)
      /\ first \in Messages /\ first \in ToSet(l.up)
  BY <1>1, HeadAndTail
<1>4. down \in Seq(Messages) /\ ToSet(down) = ToSet(l.down) \cup ToSet(messages)
  BY <1>1, ListsOf
<1>5. Carried(l.up) \subseteq Carried(up) \cup Carried(<<first>>)
  <2>1. ToSet(<<first>>) = {first}
    BY DEF ToSet
  <2> HIDE DEF first, up, l
  <2> QED
    BY <1>3, <2>1, CarriedBy
<1> HIDE DEF l, up, down, first
<1>6. k \in Link /\ k.open = l.open /\ k.down = down /\ k.up = up
  BY <1>1, <1>3, <1>4 DEF Link
<1> HIDE DEF k
<1> QED
  BY <1>1, <1>2, <1>3, <1>4, <1>5, <1>6 DEF l, first

-----------------------------------------------------------------------------
(* The steps. *)

LEMMA StaysHere ==
  ASSUME NEW S, NEW f \in [Clients -> S], NEW c \in Clients
  PROVE  f = [f EXCEPT ![c] = f[c]] /\ f[c] \in S
OBVIOUS

LEMMA DoneIsAScenario ==
  ASSUME TypesOK, NEW c \in Clients, NEW command, Does(c, command), Done(c)
  PROVE  left' \in Scenario
<1> DEFINE rest == [left.script EXCEPT ![c] = Tail(left.script[c])]
<1>1. left \in Scenario /\ left.script \in [Clients -> Seq(Commands)]
  BY DEF TypesOK, Scenario
<1>2. left.script[c] \in Seq(Commands) /\ left.script[c] # <<>>
  BY <1>1 DEF Does
<1>3. rest \in [Clients -> Seq(Commands)]
  BY <1>1, <1>2
<1>4. left' = [left EXCEPT !.script = rest]
  BY <1>1 DEF Done, Scenario
<1> HIDE DEF rest
<1> QED
  BY <1>1, <1>3, <1>4 DEF Scenario

\* A step whose only effect on the documents is a state, and what it sends.
LEMMA SentStep ==
  ASSUME DocsInv, NEW c \in Clients, NEW n, Same(docs[c], n), NEW t \in SUBSET Op,
         docs' = [docs EXCEPT ![c] = n], persisted' = [persisted EXCEPT ![c] = t],
         (t = persisted[c] /\ (IsActive(n) => IsActive(docs[c]))) \/ n.ops \subseteq t,
         NEW messages, Plain(n, messages), Sending(c, messages),
         UNCHANGED <<server, lost>>, left' \in Scenario
  PROVE  DocsInv'
<1>1. messages \in Seq(Messages) /\ \A m \in ToSet(messages) : Asked(n, m)
  BY DEF Plain
<1>2. PICK k \in Link :
            /\ link' = [link EXCEPT ![c] = k] /\ k.open = link[c].open /\ k.down = link[c].down
            /\ ~k.open => k.up = <<>> /\ k.down = <<>>
            /\ ToSet(k.up) \subseteq ToSet(link[c].up) \cup ToSet(messages)
            /\ Carried(link[c].up) \subseteq Carried(k.up)
  BY <1>1, SendingLinks
<1>3. server' \in Server /\ server'.updates = server.updates /\ lost \subseteq lost'
  BY DEF DocsInv, TypesOK
<1>4. \A m \in ToSet(k.up) : m \in ToSet(link[c].up) \/ Asked(n, m)
  BY <1>1, <1>2
<1>5. Seats(c, k.open)
  BY <1>2 DEF Seats, Views, DocsInv, ViewsInv
<1> QED
  BY <1>2, <1>3, <1>4, <1>5, SameStep

\* The same of a message that is handled.
LEMMA HandledStep ==
  ASSUME DocsInv, NEW c \in Clients, link[c].down # <<>>, NEW n, Same(docs[c], n),
         IsActive(n) => IsActive(docs[c]),
         docs' = [docs EXCEPT ![c] = n], NEW messages, Plain(n, messages), Handling(c, messages),
         UNCHANGED <<persisted, server, lost, left>>
  PROVE  DocsInv'
<1>1. messages \in Seq(Messages) /\ \A m \in ToSet(messages) : Asked(n, m)
  BY DEF Plain
<1>2. PICK k \in Link :
               /\ link' = [link EXCEPT ![c] = k] /\ k.open
               /\ ToSet(k.down) \subseteq ToSet(link[c].down)
               /\ ToSet(k.up) \subseteq ToSet(link[c].up) \cup ToSet(messages)
               /\ Carried(link[c].up) \cup Carried(messages) \subseteq Carried(k.up)
  BY <1>1, HandlingLinks
<1>3. /\ server' \in Server /\ server'.updates = server.updates /\ lost \subseteq lost'
      /\ left' \in Scenario
      /\ persisted[c] \in SUBSET Op /\ persisted' = [persisted EXCEPT ![c] = persisted[c]]
  BY StaysHere DEF DocsInv, TypesOK
<1>4. \A m \in ToSet(k.up) : m \in ToSet(link[c].up) \/ Asked(n, m)
  BY <1>1, <1>2
<1>5. Seats(c, k.open)
  BY <1>2 DEF Seats, Views, DocsInv, ViewsInv
<1> QED
  BY <1>2, <1>3, <1>4, <1>5, SameStep

LEMMA OpenKeeps ==
  ASSUME DocsInv, NEW c \in Clients, Open(c)
  PROVE  DocsInv'
<1>1. /\ TypesOK /\ docs[c] \in Document /\ persisted[c] \in SUBSET Op
      /\ persisted = [persisted EXCEPT ![c] = persisted[c]]
      /\ ClientOK(docs[c], persisted[c], link[c], server.updates, lost)
  BY StaysHere DEF DocsInv, TypesOK
<1>2. PICK command \in {"open", "seed"} :
        /\ Does(c, command) /\ Done(c)
        /\ docs' = [docs EXCEPT ![c] = Connected(docs[c], command = "seed", Online(c))]
        /\ persisted' = IF IsActive(docs[c]) \/ docs[c].ops = {} THEN persisted
                        ELSE [persisted EXCEPT ![c] = docs[c].ops]
        /\ Sending(c, Starts(presence[c]) \o
                      IF Connects(docs[c]) THEN SyncStep1(docs'[c]) ELSE <<>>)
        /\ UNCHANGED <<server, lost>>
  BY <1>1 DEF Open, TypesOK
<1> DEFINE n == Connected(docs[c], command = "seed", Online(c))
           messages == Starts(presence[c]) \o IF Connects(docs[c]) THEN SyncStep1(n) ELSE <<>>
           t == IF IsActive(docs[c]) \/ docs[c].ops = {} THEN persisted[c] ELSE docs[c].ops
<1>3. (command = "seed") \in BOOLEAN
  OBVIOUS
<1>4. Same(docs[c], n) /\ n \in Document
  BY <1>1, <1>3, ConnectingIsSame DEF Same
<1>5. docs' = [docs EXCEPT ![c] = n] /\ docs'[c] = n
  BY <1>1, <1>2 DEF TypesOK
<1>6. Sending(c, messages)
  BY <1>2, <1>5
<1> HIDE DEF n
<1>7. Plain(n, messages)
  BY <1>4, PlainMessages, PlainWords
<1> HIDE DEF messages
<1>8. persisted' = [persisted EXCEPT ![c] = t] /\ t \in SUBSET Op
  BY <1>1, <1>2 DEF Document
<1>9. (t = persisted[c] /\ (IsActive(n) => IsActive(docs[c]))) \/ n.ops \subseteq t
  <2>1. n.ops = docs[c].ops
    BY <1>4 DEF Same
  <2>2. CASE docs[c].ops = {}
    BY <2>1, <2>2
  <2>3. CASE IsActive(docs[c])
    BY <2>3
  <2>4. CASE ~(IsActive(docs[c]) \/ docs[c].ops = {})
    BY <2>1, <2>4
  <2> QED
    BY <2>2, <2>3, <2>4
<1> HIDE DEF t
<1>10. left' \in Scenario
  BY <1>1, <1>2, DoneIsAScenario
<1> QED
  BY <1>2, <1>4, <1>5, <1>6, <1>7, <1>8, <1>9, <1>10, SentStep

LEMMA CloseKeeps ==
  ASSUME DocsInv, NEW c \in Clients, Close(c)
  PROVE  DocsInv'
<1>1. /\ TypesOK /\ docs[c] \in Document /\ persisted[c] \in SUBSET Op
      /\ persisted = [persisted EXCEPT ![c] = persisted[c]]
  BY StaysHere DEF DocsInv, TypesOK
<1> DEFINE n == Disconnected(docs[c])
<1>2. /\ Does(c, "close") /\ Done(c) /\ docs' = [docs EXCEPT ![c] = n]
      /\ Sending(c, Stops(presence[c])) /\ UNCHANGED <<persisted, server, lost>>
  BY DEF Close
<1>3. Same(docs[c], n) /\ n \in Document /\ (IsActive(n) => IsActive(docs[c]))
  BY <1>1, DisconnectingIsSame DEF Stays, Same
<1> HIDE DEF n
<1>4. Plain(n, Stops(presence[c]))
  BY <1>3, PlainWords
<1>5. left' \in Scenario
  BY <1>1, <1>2, DoneIsAScenario
<1> QED
  BY <1>1, <1>2, <1>3, <1>4, <1>5, SentStep

LEMMA FocusAndBlurKeep ==
  ASSUME DocsInv, NEW c \in Clients, Focus(c) \/ Blur(c)
  PROVE  DocsInv'
<1>1. /\ TypesOK /\ docs[c] \in Document /\ docs = [docs EXCEPT ![c] = docs[c]]
      /\ persisted[c] \in SUBSET Op /\ persisted = [persisted EXCEPT ![c] = persisted[c]]
  BY StaysHere DEF DocsInv, TypesOK
<1>2. Same(docs[c], docs[c])
  BY <1>1 DEF Same
<1>3. UNCHANGED <<docs, persisted, server, lost>> /\ left' \in Scenario
  BY <1>1, DoneIsAScenario DEF Focus, Blur
<1>4. CASE Focus(c)
  <2> DEFINE p == IF presence[c].viewing THEN presence[c] ELSE StartedViewing(presence[c])
             messages == Starts(presence[c]) \o IF p.editing THEN <<>> ELSE DocFocus(TRUE)
  <2>1. Sending(c, messages)
    BY <1>4 DEF Focus
  <2> HIDE DEF p
  <2>2. Plain(docs[c], messages)
    BY <1>1, PlainMessages, PlainWords
  <2> HIDE DEF messages
  <2> QED
    BY <1>1, <1>2, <1>3, <2>1, <2>2, SentStep
<1>5. CASE Blur(c)
  <2> DEFINE p == presence[c]
             messages == IF p.editing /\ p.edits = 1 THEN DocFocus(FALSE) ELSE <<>>
  <2>1. Sending(c, messages)
    BY <1>5 DEF Blur
  <2>2. Plain(docs[c], messages)
    BY <1>1, PlainMessages
  <2> HIDE DEF messages
  <2> QED
    BY <1>1, <1>2, <1>3, <2>1, <2>2, SentStep
<1> QED
  BY <1>4, <1>5

LEMMA TimersKeep ==
  ASSUME DocsInv, NEW c \in Clients, RetryTimerFires(c) \/ ReplayTimerFires(c)
  PROVE  DocsInv'
<1>1. /\ TypesOK /\ docs[c] \in Document /\ docs = [docs EXCEPT ![c] = docs[c]]
      /\ persisted[c] \in SUBSET Op /\ persisted = [persisted EXCEPT ![c] = persisted[c]]
      /\ left \in Scenario
  BY StaysHere DEF DocsInv, TypesOK
<1>2. UNCHANGED <<persisted, server, lost, left>>
  BY DEF RetryTimerFires, ReplayTimerFires
<1>3. CASE RetryTimerFires(c)
  <2> DEFINE fired == [docs[c] EXCEPT !.timer = FALSE]
             n == Requested(fired, Online(c))
  <2>1. docs' = [docs EXCEPT ![c] = n] /\ Sending(c, SyncStep1(docs[c]))
    BY <1>1, <1>3 DEF RetryTimerFires
  <2>2. Stays(docs[c], fired) /\ fired \in Document
    BY <1>1, StatesAreSame DEF Stays, Same
  <2> HIDE DEF fired
  <2>3. Same(docs[c], n) /\ n \in Document /\ (IsActive(n) => IsActive(docs[c])) /\ docs[c].ops \subseteq n.ops
    BY <2>2, RequestingIsSame DEF Stays, Same
  <2> HIDE DEF n
  <2>4. Plain(n, SyncStep1(docs[c]))
    BY <1>1, <2>3, PlainMessages
  <2> QED
    BY <1>1, <1>2, <2>1, <2>3, <2>4, SentStep
<1>4. CASE ReplayTimerFires(c)
  <2>1. UNCHANGED docs /\ Sending(c, Replay(presence[c]))
    BY <1>4 DEF ReplayTimerFires
  <2>2. Same(docs[c], docs[c]) /\ Plain(docs[c], Replay(presence[c]))
    BY <1>1, PlainWords DEF Same
  <2> QED
    BY <1>1, <1>2, <2>1, <2>2, SentStep
<1> QED
  BY <1>3, <1>4

LEMMA LinkOpensKeeps ==
  ASSUME DocsInv, NEW c \in Clients, LinkOpens(c)
  PROVE  DocsInv'
<1> DEFINE n == Requested(docs[c], TRUE)
           up == Replay(presence[c]) \o SyncStep1(docs[c])
           k == [open |-> TRUE, up |-> up, down |-> <<>>]
<1>1. /\ TypesOK /\ docs[c] \in Document
      /\ persisted[c] \in SUBSET Op /\ persisted = [persisted EXCEPT ![c] = persisted[c]]
      /\ left \in Scenario /\ server \in Server
      /\ ClientOK(docs[c], persisted[c], link[c], server.updates, lost)
  BY StaysHere DEF DocsInv, TypesOK
<1>2. /\ docs' = [docs EXCEPT ![c] = n] /\ link' = [link EXCEPT ![c] = k] /\ ~link[c].open
      /\ UNCHANGED <<persisted, server, lost, left>>
  BY DEF LinkOpens
<1>3. Same(docs[c], n) /\ n \in Document /\ (IsActive(n) => IsActive(docs[c])) /\ docs[c].ops \subseteq n.ops
  BY <1>1, RequestingIsSame DEF Stays, Same
<1> HIDE DEF n
<1>4. Plain(n, up)
  BY <1>1, <1>3, PlainMessages, PlainWords
<1>5. up \in Seq(Messages) /\ \A m \in ToSet(up) : Asked(n, m)
  BY <1>4 DEF Plain
<1> HIDE DEF up
<1>6. /\ k \in Link /\ k.open /\ k.up = up /\ k.down = <<>> /\ ToSet(<<>>) = {}
  BY <1>5 DEF Link, ToSet
<1> HIDE DEF k
<1>7. link[c].up = <<>> /\ Carried(<<>>) = {}
  BY <1>1, <1>2 DEF ClientOK, Carried
<1>8. Seats(c, k.open)
  BY <1>2, <1>6 DEF Seats, Views
<1> QED
  BY <1>1, <1>2, <1>3, <1>5, <1>6, <1>7, <1>8, SameStep

LEMMA LinkDropsKeeps ==
  ASSUME DocsInv, NEW c \in Clients, LinkDrops(c)
  PROVE  DocsInv'
<1> DEFINE n == IF IsActive(docs[c]) THEN [docs[c] EXCEPT !.state = "connecting"] ELSE docs[c]
<1>1. /\ TypesOK /\ docs[c] \in Document
      /\ persisted[c] \in SUBSET Op /\ persisted = [persisted EXCEPT ![c] = persisted[c]]
  BY StaysHere DEF DocsInv, TypesOK
<1>2. /\ docs' = [docs EXCEPT ![c] = n] /\ link' = [link EXCEPT ![c] = NoLink] /\ UNCHANGED persisted
      /\ lost' = lost \cup Carried(link[c].up)
      /\ server' = [server EXCEPT !.viewers[c] = "none"]
      /\ left.drops > 0 /\ left' = [left EXCEPT !.drops = @ - 1]
  BY <1>1 DEF LinkDrops, Hangs, TypesOK
<1>3. Same(docs[c], n) /\ (IsActive(n) => IsActive(docs[c]))
  BY <1>1, StatesAreSame DEF Stays, Same
<1> HIDE DEF n
<1>4. /\ NoLink \in Link /\ NoLink.up = <<>> /\ NoLink.down = <<>> /\ ToSet(<<>>) = {}
  <2>1. <<>> \in Seq(Messages)
    OBVIOUS
  <2> QED
    BY <2>1 DEF NoLink, Link, ToSet
<1>5. server' \in Server /\ server'.updates = server.updates
  BY <1>1, <1>2 DEF TypesOK, Server
<1>6. left' \in Scenario
  <2> DEFINE drops == left.drops - 1
  <2>1. left \in Scenario /\ drops \in Nat /\ left' = [left EXCEPT !.drops = drops]
    BY <1>1, <1>2 DEF TypesOK, Scenario
  <2> HIDE DEF drops
  <2> QED
    BY <2>1 DEF Scenario
<1>7. Seats(c, NoLink.open)
  BY <1>1, <1>2 DEF Seats, Views, TypesOK, Server
<1> QED
  BY <1>1, <1>2, <1>3, <1>4, <1>5, <1>6, <1>7, SameStep

\* A message of a client that is answered, and whose edits are not lost unnoticed.
LEMMA AnsweredStep ==
  ASSUME DocsInv, NEW c \in Clients, link[c].up # <<>>, UNCHANGED <<docs, persisted>>,
         NEW messages \in Seq(Messages), Answering(c, messages),
         \A m \in ToSet(messages) : Answered(docs[c], m, server.updates),
         server' \in Server, server'.updates = server.updates, left' \in Scenario,
         lost \subseteq lost', Carried(<<Head(link[c].up)>>) \subseteq lost', Seats(c, TRUE)
  PROVE  DocsInv'
<1>1. PICK k \in Link :
               /\ link' = [link EXCEPT ![c] = k] /\ k.open
               /\ ToSet(k.up) \subseteq ToSet(link[c].up)
               /\ ToSet(k.down) = ToSet(link[c].down) \cup ToSet(messages)
               /\ Carried(link[c].up) \subseteq Carried(k.up) \cup Carried(<<Head(link[c].up)>>)
  BY AnsweringLinks
<1>2. /\ docs[c] \in Document /\ docs' = [docs EXCEPT ![c] = docs[c]]
      /\ persisted[c] \in SUBSET Op /\ persisted' = [persisted EXCEPT ![c] = persisted[c]]
      /\ ClientOK(docs[c], persisted[c], link[c], server.updates, lost)
  BY StaysHere DEF DocsInv, TypesOK
<1>3. Owed(docs[c], persisted[c], k.up, server.updates, lost')
  BY <1>1, <1>2 DEF ClientOK, Owed
<1>4. ClientOK(docs[c], persisted[c], k, server.updates, lost')
  BY <1>1, <1>2, <1>3 DEF ClientOK
<1>5. Seats(c, k.open)
  BY <1>1 DEF Seats
<1> QED
  BY <1>1, <1>2, <1>4, <1>5, OneClient

\* What an update or another message carries.
LEMMA CarriedOne ==
  ASSUME NEW m
  PROVE  Carried(<<m>>) = IF m.kind = "yjs_update" THEN m.ops ELSE {}
<1>1. ToSet(<<m>>) = {m}
  BY DEF ToSet
<1>2. Carried(<<m>>) = UNION {x.ops : x \in {x \in {m} : x.kind = "yjs_update"}}
  BY <1>1, CarriedBy
<1> QED
  BY <1>2

LEMMA PresenceServed ==
  ASSUME DocsInv, NEW c \in Clients, link[c].up # <<>>, ServesPresence(c, Head(link[c].up)),
         UNCHANGED <<docs, persisted, left>>
  PROVE  DocsInv'
<1> DEFINE answer == Message("session_state", {}, 0, FALSE)
           m == Head(link[c].up)
           view == IF m.kind = "doc_view" /\ ~m.flag THEN "none"
                   ELSE IF m.kind = "doc_focus" /\ m.flag THEN "editing" ELSE "viewing"
<1>1. answer \in Messages /\ answer.kind = "session_state"
  BY DEF Message, Messages
<1>2. /\ m.kind \in {"doc_view", "doc_focus"} /\ UNCHANGED lost
      /\ server' = [server EXCEPT !.viewers[c] = view] /\ Answering(c, <<answer>>)
  BY DEF ServesPresence
<1>3. view \in {"none", "viewing", "editing"}
  OBVIOUS
<1> HIDE DEF view, m, answer
<1>4. server' \in Server /\ server'.updates = server.updates /\ left' \in Scenario
  BY <1>2, <1>3 DEF DocsInv, TypesOK, Server
<1>5. <<answer>> \in Seq(Messages) /\ ToSet(<<answer>>) = {answer}
  BY <1>1 DEF ToSet
<1>6. \A x \in ToSet(<<answer>>) : Answered(docs[c], x, server.updates)
  BY <1>1, <1>5 DEF Answered
<1>7. Carried(<<Head(link[c].up)>>) \subseteq lost'
  BY <1>2, CarriedOne DEF m
<1>8. Seats(c, TRUE)
  BY <1>2 DEF Seats, Views, DocsInv, TypesOK, Server
<1> QED
  BY <1>2, <1>4, <1>5, <1>6, <1>7, <1>8, AnsweredStep

LEMMA HasOf ==
  ASSUME server.updates \in Seq(SUBSET Op)
  PROVE  Has = UNION ToSet(server.updates) /\ Has \in SUBSET Op
BY DEF Has, ToSet

LEMMA SyncServed ==
  ASSUME DocsInv, NEW c \in Clients, link[c].up # <<>>, ServesSyncStep1(c, Head(link[c].up)),
         UNCHANGED <<docs, persisted, left>>
  PROVE  DocsInv'
<1> DEFINE m == Head(link[c].up)
           answer == Message("yjs_sync_step2", Has \ m.ops, Len(server.updates), FALSE)
<1>1. /\ TypesOK /\ server \in Server /\ server.updates \in Seq(SUBSET Op) /\ left \in Scenario
      /\ ClientOK(docs[c], persisted[c], link[c], server.updates, lost)
      /\ link[c].up \in Seq(Messages)
  BY DEF DocsInv, TypesOK, Server, Link
<1>2. m \in ToSet(link[c].up) /\ m.kind = "yjs_sync_step1"
  BY <1>1, HeadAndTail DEF ServesSyncStep1
<1>3. Has = UNION ToSet(server.updates) /\ Has \in SUBSET Op /\ Len(server.updates) \in Nat
  BY <1>1, HasOf
<1>4. answer \in Messages /\ answer.kind = "yjs_sync_step2" /\ answer.ops = Has \ m.ops
      /\ answer.seq = Len(server.updates)
  BY <1>3 DEF Message, Messages
<1>5. Answering(c, <<answer>>) /\ UNCHANGED <<server, lost>>
  BY DEF ServesSyncStep1
<1> HIDE DEF answer
<1>6. <<answer>> \in Seq(Messages) /\ ToSet(<<answer>>) = {answer}
  BY <1>4 DEF ToSet
<1>7. Answered(docs[c], answer, server.updates)
  <2>1. ASSUME ~docs[c].crossed, NEW i \in 1 .. Len(server.updates)
        PROVE  server.updates[i] \subseteq docs[c].ops \cup answer.ops
    <3>1. server.updates[i] \subseteq Has
      BY DEF Has
    <3>2. m.ops \subseteq docs[c].ops
      BY <1>1, <1>2, <2>1 DEF ClientOK, Asked
    <3> QED
      BY <1>4, <3>1, <3>2
  <2> QED
    BY <1>3, <1>4, <2>1 DEF Answered
<1>8. Carried(<<Head(link[c].up)>>) \subseteq lost'
  BY <1>2, CarriedOne
<1>9. Seats(c, TRUE)
  BY <1>5 DEF Seats, Views
<1> QED
  BY <1>1, <1>5, <1>6, <1>7, <1>8, <1>9, AnsweredStep

LEMMA Rejected ==
  ASSUME DocsInv, NEW c \in Clients, link[c].up # <<>>, NEW retryable \in BOOLEAN,
         Rejects(c, Head(link[c].up), retryable), UNCHANGED <<docs, persisted>>, left' \in Scenario
  PROVE  DocsInv'
<1> DEFINE answer == Message("live_editing_error", {}, 0, retryable)
<1>1. answer \in Messages /\ answer.kind = "live_editing_error"
  BY DEF Message, Messages
<1>2. /\ Answering(c, <<answer>>) /\ UNCHANGED server
      /\ lost' = lost \cup Carried(<<Head(link[c].up)>>)
  BY DEF Rejects, Error
<1> HIDE DEF answer
<1>3. <<answer>> \in Seq(Messages) /\ ToSet(<<answer>>) = {answer}
  BY <1>1 DEF ToSet
<1>4. \A x \in ToSet(<<answer>>) : Answered(docs[c], x, server.updates)
  BY <1>1, <1>3 DEF Answered
<1>5. server' \in Server /\ server'.updates = server.updates
  BY <1>2 DEF DocsInv, TypesOK
<1>6. Seats(c, TRUE)
  BY <1>2 DEF Seats, Views
<1> QED
  BY <1>2, <1>3, <1>4, <1>5, <1>6, AnsweredStep

\* One more update makes nothing false of what was seen before it.
LEMMA UpdatesGrow ==
  ASSUME NEW d \in Document, NEW t, NEW l \in Link, NEW u \in Seq(SUBSET Op), NEW g, NEW o \in SUBSET Op,
         ClientOK(d, t, l, u, g)
  PROVE  ClientOK(d, t, l, Append(u, o), g)
<1> DEFINE v == Append(u, o)
<1>1. /\ Len(u) \in Nat /\ Len(v) = Len(u) + 1 /\ \A i \in 1 .. Len(u) : v[i] = u[i]
      /\ ToSet(v) = ToSet(u) \cup {o}
  BY AppendLists
<1> HIDE DEF v
<1>2. Seen(d, v)
  BY <1>1 DEF ClientOK, Seen, Document
<1>3. ASSUME NEW m \in ToSet(l.down)
      PROVE  Answered(d, m, v)
  <2>1. m \in Messages /\ Answered(d, m, u)
    BY ListsOf DEF Link, ClientOK
  <2>2. m.seq \in Nat
    BY <2>1 DEF Messages
  <2> QED
    BY <1>1, <2>1, <2>2 DEF Answered
<1>4. Owed(d, t, l.up, v, g)
  BY <1>1 DEF ClientOK, Owed
<1> QED
  BY <1>2, <1>3, <1>4 DEF ClientOK, v

LEMMA Relayed ==
  ASSUME DocsInv, NEW c \in Clients, link[c].up # <<>>, NEW told, told \subseteq Viewers,
         Relays(c, Head(link[c].up), told), UNCHANGED <<docs, persisted>>, left' \in Scenario
  PROVE  DocsInv'
<1> DEFINE m == Head(link[c].up)
           u == server.updates
           v == Append(u, m.ops)
<1>1. /\ TypesOK /\ server \in Server /\ u \in Seq(SUBSET Op) /\ link[c].up \in Seq(Messages)
      /\ \A b \in Clients : docs[b] \in Document /\ link[b] \in Link
  BY DEF DocsInv, TypesOK, Server, Link
<1>2. m \in Messages /\ m \in ToSet(link[c].up) /\ m.ops \in SUBSET Op
  <2>1. m \in Messages /\ m \in ToSet(link[c].up)
    BY <1>1, HeadAndTail
  <2> HIDE DEF m
  <2> QED
    BY <2>1 DEF Messages
<1>3. /\ m.kind = "yjs_update" /\ UNCHANGED lost
      /\ server' = [server EXCEPT !.updates = v]
      /\ link' = [b \in Clients |->
             [link[b] EXCEPT
                 !.up = IF b = c THEN Tail(@) ELSE @,
                 !.down = IF b \in told THEN Append(@, Message("yjs_update", m.ops, Len(u) + 1, b = c)) ELSE @]]
  BY <1>1 DEF Relays, Server
<1>4. /\ v \in Seq(SUBSET Op) /\ Len(u) + 1 \in Nat /\ Len(u) + 1 \in 1 .. Len(v)
      /\ v[Len(u) + 1] = m.ops /\ ToSet(v) = ToSet(u) \cup {m.ops}
  <2> HIDE DEF m
  <2> QED
    BY <1>1, <1>2, AppendLists
<1> HIDE DEF m, u, v
<1>5. server' \in Server /\ server'.updates = v
  BY <1>1, <1>3, <1>4 DEF Server
<1>6. ASSUME NEW b \in Clients
      PROVE  link'[b] \in Link /\ ClientOK(docs[b], persisted[b], link'[b], v, lost)
  <2> DEFINE l == link[b]
             word == Message("yjs_update", m.ops, Len(u) + 1, b = c)
             up == IF b = c THEN Tail(l.up) ELSE l.up
             down == IF b \in told THEN Append(l.down, word) ELSE l.down
             k == [l EXCEPT !.up = up, !.down = down]
  <2>1. /\ l \in Link /\ l.up \in Seq(Messages) /\ l.down \in Seq(Messages)
        /\ ClientOK(docs[b], persisted[b], l, u, lost)
    BY <1>1 DEF DocsInv, Link, u
  <2>2. ClientOK(docs[b], persisted[b], l, v, lost)
    <3>1. docs[b] \in Document /\ l \in Link
      BY <1>1
    <3> HIDE DEF l
    <3> QED
      BY <1>1, <1>2, <2>1, <3>1, UpdatesGrow DEF v
  <2>3. word \in Messages /\ word.kind = "yjs_update" /\ word.seq = Len(u) + 1 /\ word.ops = m.ops
    BY <1>2, <1>4 DEF Message, Messages
  <2>4. link'[b] = k
    BY <1>3
  <2> HIDE DEF word
  <2>5. b = c => /\ ToSet(l.up) = {m} \cup ToSet(up) /\ up \in Seq(Messages)
    BY <1>1, <2>1, HeadAndTail DEF m
  <2>6. /\ up \in Seq(Messages) /\ ToSet(up) \subseteq ToSet(l.up)
        /\ \A x \in ToSet(l.up) : x \in ToSet(up) \/ x = m
    BY <2>1, <2>5
  <2>7. down \in Seq(Messages) /\ ToSet(down) \subseteq ToSet(l.down) \cup {word}
    BY <2>1, <2>3, AppendLists
  <2> HIDE DEF l, up, down
  <2>8. k \in Link /\ k.up = up /\ k.down = down /\ k.open = l.open
    BY <2>1, <2>6, <2>7 DEF Link
  <2> HIDE DEF k
  <2>9. Answered(docs[b], word, v)
    BY <1>4, <2>3 DEF Answered
  <2>10. Carried(l.up) \subseteq Carried(up) \cup m.ops
    BY <2>6, CarriedBy
  <2>11. Owed(docs[b], persisted[b], up, v, lost)
    BY <1>4, <2>2, <2>10 DEF ClientOK, Owed
  <2>12. ASSUME ~l.open
         PROVE  up = <<>> /\ down = <<>>
    <3>1. b \notin told /\ l.up = <<>> /\ l.down = <<>>
      BY <2>2, <2>12 DEF ClientOK, l, Viewers, DocsInv, ViewsInv
    <3>2. b # c
      BY <3>1 DEF l
    <3> QED
      BY <3>1, <3>2 DEF up, down
  <2>13. ClientOK(docs[b], persisted[b], k, v, lost)
    BY <2>2, <2>6, <2>7, <2>8, <2>9, <2>11, <2>12 DEF ClientOK
  <2> QED
    BY <2>4, <2>8, <2>13
<1>7. link' \in [Clients -> Link]
  BY <1>3, <1>6
<1>8. ViewsInv'
  <2> SUFFICES ASSUME NEW b \in Clients, Views(b)'
               PROVE  link'[b].open
    BY DEF ViewsInv
  <2>1. Views(b)
    BY <1>1, <1>3 DEF Views, Server
  <2>2. link'[b].open = link[b].open
    BY <1>1, <1>3 DEF Link
  <2> QED
    BY <2>1, <2>2 DEF DocsInv, ViewsInv
<1> QED
  BY <1>1, <1>3, <1>5, <1>6, <1>7, <1>8 DEF DocsInv, TypesOK

\* What a client sends of edits.
LEMMA UpdateSent ==
  ASSUME NEW ops \in SUBSET Op, NEW d
  PROVE  /\ Update(ops) \in Seq(Messages) /\ Carried(Update(ops)) = ops
         /\ \A m \in ToSet(Update(ops)) : Asked(d, m)
<1> DEFINE m == Message("yjs_update", ops, 0, FALSE)
<1>1. m \in Messages /\ m.kind = "yjs_update" /\ m.ops = ops
  BY DEF Message, Messages
<1> HIDE DEF m
<1>2. <<m>> \in Seq(Messages) /\ ToSet(<<m>>) = {m} /\ Carried(<<m>>) = ops
  BY <1>1, CarriedOne DEF ToSet
<1>3. Asked(d, m)
  BY <1>1 DEF Asked
<1> QED
  BY <1>2, <1>3 DEF Update, m

\* A document that has grown has not seen less.
LEMMA GrownDocument ==
  ASSUME NEW d \in Document, NEW n \in Document, NEW t, NEW l \in Link, NEW u \in Seq(SUBSET Op), NEW g,
         ClientOK(d, t, l, u, g), d.ops \subseteq n.ops, n.crossed = d.crossed
  PROVE  /\ n.lastSeq = d.lastSeq => Seen(n, u)
         /\ \A m \in ToSet(l.up) : Asked(n, m)
         /\ \A m \in ToSet(l.down) : Answered(n, m, u)
<1>1. n.lastSeq = d.lastSeq => Seen(n, u)
  BY DEF ClientOK, Seen
<1>2. \A m \in ToSet(l.up) : Asked(n, m)
  BY DEF ClientOK, Asked
<1>3. \A m \in ToSet(l.down) : Answered(n, m, u)
  BY DEF ClientOK, Answered
<1> QED
  BY <1>1, <1>2, <1>3

LEMMA EditKeeps ==
  ASSUME DocsInv, NEW c \in Clients, Edit(c)
  PROVE  DocsInv'
<1> DEFINE d == docs[c]
           op == <<c, Len(left.script[c])>>
           sent == d.state = "connected" /\ Online(c)
           ops == d.ops \cup {op}
           pending == IF ~IsActive(d) \/ sent THEN d.pending ELSE d.pending \cup {op}
           n == [d EXCEPT !.ops = ops, !.pending = pending]
           t == IF IsActive(d) THEN ops ELSE persisted[c]
           messages == IF IsActive(d) /\ sent THEN Update({op}) ELSE <<>>
<1>1. /\ TypesOK /\ docs \in [Clients -> Document] /\ d \in Document /\ persisted[c] \in SUBSET Op
      /\ persisted = [persisted EXCEPT ![c] = persisted[c]] /\ server \in Server
      /\ server.updates \in Seq(SUBSET Op) /\ link[c] \in Link
      /\ ClientOK(d, persisted[c], link[c], server.updates, lost)
  BY StaysHere DEF DocsInv, TypesOK, Server
<1>2. /\ Does(c, "edit") /\ Done(c)
      /\ docs' = [docs EXCEPT ![c] = n]
      /\ persisted' = [persisted EXCEPT ![c] = t]
      /\ Sending(c, messages) /\ UNCHANGED <<server, lost>>
  BY <1>1 DEF Edit, Document
<1>3. op \in Op
  BY <1>1 DEF Op, TypesOK, Scenario
<1>4. left' \in Scenario
  BY <1>1, <1>2, DoneIsAScenario
<1> HIDE DEF op
<1>5. ops \in SUBSET Op /\ pending \in SUBSET Op /\ d.pending \subseteq pending
  BY <1>1, <1>3 DEF Document
<1>6. /\ messages \in Seq(Messages) /\ \A m \in ToSet(messages) : Asked(n, m)
      /\ IsActive(d) /\ sent => Carried(messages) = {op}
  <2>1. Update({op}) \in Seq(Messages) /\ Carried(Update({op})) = {op}
        /\ \A m \in ToSet(Update({op})) : Asked(n, m)
    BY <1>3, UpdateSent
  <2>2. <<>> \in Seq(Messages) /\ ToSet(<<>>) = {}
    BY DEF ToSet
  <2> HIDE DEF n
  <2>3. CASE IsActive(d) /\ sent
    <3>1. messages = Update({op})
      BY <2>3
    <3> QED
      BY <2>1, <3>1
  <2>4. CASE ~(IsActive(d) /\ sent)
    <3>1. messages = <<>>
      BY <2>4
    <3> QED
      BY <2>2, <2>4, <3>1
  <2> QED
    BY <2>3, <2>4
<1>7. IsActive(d) => op \in pending \/ sent
  OBVIOUS
<1>8. sent => Online(c)
  OBVIOUS
<1> HIDE DEF messages, sent, pending
<1>9. ops = d.ops \cup {op} /\ (t = persisted[c] \/ t = ops) /\ (IsActive(d) => t = ops)
  OBVIOUS
<1> HIDE DEF ops, t
<1>10. /\ n \in Document /\ n.ops = ops /\ n.pending = pending /\ n.lastSeq = d.lastSeq
       /\ n.crossed = d.crossed /\ n.refCount = d.refCount
  BY <1>1, <1>5 DEF Document
<1> HIDE DEF n, d
<1>11. PICK k \in Link :
            /\ link' = [link EXCEPT ![c] = k] /\ k.open = link[c].open /\ k.down = link[c].down
            /\ ~k.open => k.up = <<>> /\ k.down = <<>>
            /\ ToSet(k.up) \subseteq ToSet(link[c].up) \cup ToSet(messages)
            /\ Carried(link[c].up) \subseteq Carried(k.up)
            /\ Online(c) => Carried(messages) \subseteq Carried(k.up)
  BY <1>2, <1>6, SendingLinks
<1>12. /\ Seen(n, server.updates) /\ \A m \in ToSet(link[c].up) : Asked(n, m)
       /\ \A m \in ToSet(link[c].down) : Answered(n, m, server.updates)
  BY <1>1, <1>9, <1>10, GrownDocument
<1>13. Owed(n, t, k.up, server.updates, lost)
  <2> SUFFICES ASSUME IsActive(n)
               PROVE  /\ n.ops \subseteq (UNION ToSet(server.updates)) \cup lost \cup n.pending \cup Carried(k.up)
                      /\ n.ops \subseteq t
    BY DEF Owed
  <2>1. IsActive(d)
    BY <1>10 DEF IsActive
  <2>2. d.ops \subseteq (UNION ToSet(server.updates)) \cup lost \cup d.pending \cup Carried(link[c].up)
    BY <1>1, <2>1 DEF ClientOK, Owed
  <2>3. op \in pending \cup Carried(k.up)
    BY <1>6, <1>7, <1>8, <1>11, <2>1
  <2> QED
    BY <1>5, <1>9, <1>10, <1>11, <2>1, <2>2, <2>3
<1>14. ClientOK(n, t, k, server.updates, lost')
  BY <1>2, <1>6, <1>11, <1>12, <1>13 DEF ClientOK
<1>15. Seats(c, k.open)
  BY <1>2, <1>11 DEF Seats, Views, DocsInv, ViewsInv
<1>16. t \in SUBSET Op /\ server' \in Server /\ server'.updates = server.updates /\ lost \subseteq lost'
  BY <1>1, <1>2, <1>5, <1>9
<1> QED
  BY <1>2, <1>4, <1>10, <1>11, <1>14, <1>15, <1>16, OneClient

\* A document begun anew is not in use, and has seen nothing.
LEMMA AnewDocument ==
  ASSUME NEW ops \in SUBSET Op, NEW crossed \in BOOLEAN
  PROVE  LET n == [DocumentState(ops) EXCEPT !.crossed = crossed] IN
         /\ n \in Document /\ ~IsActive(n) /\ n.lastSeq = 0 /\ n.crossed = crossed
         /\ DocumentState(ops) \in Document /\ ~IsActive(DocumentState(ops))
         /\ DocumentState(ops).lastSeq = 0
<1> DEFINE d == DocumentState(ops)
           n == [d EXCEPT !.crossed = crossed]
<1>1. /\ d \in Document /\ d.refCount = 0 /\ d.lastSeq = 0
  BY DEF DocumentState, Document
<1> HIDE DEF d
<1>2. /\ n \in Document /\ n.refCount = 0 /\ n.lastSeq = 0 /\ n.crossed = crossed
  BY <1>1 DEF Document
<1> HIDE DEF n
<1>3. ~IsActive(d) /\ ~IsActive(n)
  BY <1>1, <1>2 DEF IsActive
<1> QED
  BY <1>1, <1>2, <1>3 DEF d, n

LEMMA ClearKeeps ==
  ASSUME DocsInv, NEW c \in Clients, Clear(c)
  PROVE  DocsInv'
<1> DEFINE crossed == docs[c].crossed \/ AwaitsAnswer(c)
           n == [DocumentState({}) EXCEPT !.crossed = crossed]
           t == {}
<1>1. /\ TypesOK /\ docs[c] \in Document /\ link[c] \in Link /\ link' = [link EXCEPT ![c] = link[c]]
      /\ ClientOK(docs[c], persisted[c], link[c], server.updates, lost)
  BY StaysHere DEF DocsInv, TypesOK, Clear
<1>2. /\ Does(c, "clear") /\ Done(c) /\ docs' = [docs EXCEPT ![c] = n]
      /\ persisted' = [persisted EXCEPT ![c] = t] /\ UNCHANGED <<link, server, lost>>
  BY DEF Clear
<1>3. left' \in Scenario
  BY <1>1, <1>2, DoneIsAScenario
<1>4. crossed \in BOOLEAN
  BY <1>1 DEF Document, AwaitsAnswer
<1>5. ~crossed => /\ \A m \in ToSet(link[c].up) : m.kind # "yjs_sync_step1"
                  /\ \A m \in ToSet(link[c].down) : m.kind # "yjs_sync_step2"
  BY DEF AwaitsAnswer, ToSet
<1> HIDE DEF crossed
<1>6. n \in Document /\ ~IsActive(n) /\ n.lastSeq = 0 /\ n.crossed = crossed
  BY <1>4, AnewDocument
<1> HIDE DEF n
<1>7. Seen(n, server.updates)
  BY <1>1, <1>6 DEF Seen, TypesOK, Server
<1>8. ClientOK(n, t, link[c], server.updates, lost')
  BY <1>1, <1>2, <1>5, <1>6, <1>7 DEF ClientOK, Asked, Answered, Owed
<1>9. Seats(c, link[c].open)
  BY <1>2 DEF Seats, Views, DocsInv, ViewsInv
<1>10. t \in SUBSET Op /\ server' \in Server /\ server'.updates = server.updates /\ lost \subseteq lost'
  BY <1>1, <1>2 DEF TypesOK
<1> QED
  BY <1>1, <1>2, <1>3, <1>6, <1>8, <1>9, <1>10, OneClient

LEMMA ReloadKeeps ==
  ASSUME DocsInv, NEW c \in Clients, Reload(c)
  PROVE  DocsInv'
<1> DEFINE n == DocumentState(persisted[c])
<1>1. /\ TypesOK /\ persisted[c] \in SUBSET Op /\ persisted = [persisted EXCEPT ![c] = persisted[c]]
      /\ FALSE \in BOOLEAN
  BY StaysHere DEF DocsInv, TypesOK
<1>2. /\ Does(c, "reload") /\ Done(c) /\ docs' = [docs EXCEPT ![c] = n]
      /\ link' = [link EXCEPT ![c] = NoLink] /\ UNCHANGED persisted
      /\ server' = [server EXCEPT !.viewers[c] = "none"]
      /\ lost' = lost \cup Carried(link[c].up)
  BY DEF Reload, Hangs
<1>3. left' \in Scenario
  BY <1>1, <1>2, DoneIsAScenario
<1>4. n \in Document /\ ~IsActive(n) /\ n.lastSeq = 0
  BY <1>1, AnewDocument
<1> HIDE DEF n
<1>5. /\ NoLink \in Link /\ NoLink.up = <<>> /\ NoLink.down = <<>> /\ ToSet(<<>>) = {}
  <2>1. <<>> \in Seq(Messages)
    OBVIOUS
  <2> QED
    BY <2>1 DEF NoLink, Link, ToSet
<1>6. server' \in Server /\ server'.updates = server.updates
  BY <1>1, <1>2 DEF TypesOK, Server
<1>7. Seats(c, NoLink.open)
  BY <1>1, <1>2 DEF Seats, Views, TypesOK, Server
<1>8. ClientOK(n, persisted[c], NoLink, server.updates, lost')
  <2>1. Seen(n, server.updates)
    BY <1>1, <1>4 DEF Seen, TypesOK, Server
  <2> QED
    BY <1>4, <1>5, <2>1 DEF ClientOK, Owed
<1> QED
  BY <1>1, <1>2, <1>3, <1>4, <1>5, <1>6, <1>7, <1>8, OneClient

\* The message that a client reads first is of the server.
LEMMA ReadFirst ==
  ASSUME DocsInv, NEW c \in Clients, link[c].down # <<>>
  PROVE  LET m == Head(link[c].down) IN
         /\ m \in Messages /\ m.ops \in SUBSET Op /\ m.seq \in Nat
         /\ Answered(docs[c], m, server.updates)
<1> DEFINE m == Head(link[c].down)
<1>1. link[c].down \in Seq(Messages)
      /\ ClientOK(docs[c], persisted[c], link[c], server.updates, lost)
  BY DEF DocsInv, TypesOK, Link
<1>2. m \in Messages /\ m \in ToSet(link[c].down)
  BY <1>1, HeadAndTail
<1> HIDE DEF m
<1>3. m.ops \in SUBSET Op /\ m.seq \in Nat
  BY <1>2 DEF Messages
<1>4. Answered(docs[c], m, server.updates)
  BY <1>1, <1>2 DEF ClientOK
<1> QED
  BY <1>2, <1>3, <1>4 DEF m

\* A message that changes the document's content.
LEMMA ContentStep ==
  ASSUME DocsInv, NEW c \in Clients, link[c].down # <<>>, IsActive(docs[c]),
         NEW n \in Document, n.crossed = docs[c].crossed, NEW new \in SUBSET Op,
         n.ops = docs[c].ops \cup new,
         NEW messages \in Seq(Messages), Handling(c, messages), \A m \in ToSet(messages) : Asked(n, m),
         Seen(n, server.updates),
         docs[c].pending \subseteq n.pending \cup Carried(messages),
         new \subseteq (UNION ToSet(server.updates)) \cup Carried(messages),
         docs' = [docs EXCEPT ![c] = n], persisted' = [persisted EXCEPT ![c] = n.ops],
         UNCHANGED <<server, lost, left>>
  PROVE  DocsInv'
<1>1. PICK k \in Link :
               /\ link' = [link EXCEPT ![c] = k] /\ k.open
               /\ ToSet(k.down) \subseteq ToSet(link[c].down)
               /\ ToSet(k.up) \subseteq ToSet(link[c].up) \cup ToSet(messages)
               /\ Carried(link[c].up) \cup Carried(messages) \subseteq Carried(k.up)
  BY HandlingLinks
<1>2. /\ TypesOK /\ docs[c] \in Document /\ link[c] \in Link /\ server.updates \in Seq(SUBSET Op)
      /\ ClientOK(docs[c], persisted[c], link[c], server.updates, lost) /\ n.ops \in SUBSET Op
  BY DEF DocsInv, TypesOK, Server, Document
<1>3. /\ \A m \in ToSet(link[c].up) : Asked(n, m)
      /\ \A m \in ToSet(link[c].down) : Answered(n, m, server.updates)
  BY <1>2, GrownDocument
<1>4. Owed(n, n.ops, k.up, server.updates, lost)
  <2>1. docs[c].ops \subseteq (UNION ToSet(server.updates)) \cup lost \cup docs[c].pending
                                \cup Carried(link[c].up)
    BY <1>2 DEF ClientOK, Owed
  <2> QED
    BY <1>1, <2>1 DEF Owed
<1>5. ClientOK(n, n.ops, k, server.updates, lost')
  BY <1>1, <1>3, <1>4 DEF ClientOK
<1>6. Seats(c, k.open)
  BY <1>1 DEF Seats, Views
<1>7. server' \in Server /\ server'.updates = server.updates /\ lost \subseteq lost' /\ left' \in Scenario
  BY <1>2 DEF TypesOK
<1> QED
  BY <1>1, <1>2, <1>5, <1>6, <1>7, OneClient

\* A message that is ignored.
LEMMA IgnoredStep ==
  ASSUME DocsInv, NEW c \in Clients, link[c].down # <<>>, Handling(c, <<>>),
         UNCHANGED <<docs, persisted, server, lost, left>>
  PROVE  DocsInv'
<1>1. docs[c] \in Document /\ docs' = [docs EXCEPT ![c] = docs[c]]
  BY StaysHere DEF DocsInv, TypesOK
<1>2. Same(docs[c], docs[c]) /\ Plain(docs[c], <<>>)
  BY <1>1, PlainMessages DEF Same
<1> QED
  BY <1>1, <1>2, HandledStep

LEMMA HandleSyncStep2Keeps ==
  ASSUME DocsInv, NEW c \in Clients, HandleSyncStep2(c)
  PROVE  DocsInv'
<1> DEFINE m == Head(link[c].down)
           d == docs[c]
           seeds == IF d.initial /\ d.ops \cup m.ops = {} THEN {<<c, 0>>} ELSE {}
           owed == d.pending \cup seeds
           ops == d.ops \cup m.ops \cup seeds
           r == ResetRetry(d)
           n == [r EXCEPT !.ops = ops, !.initial = FALSE, !.lastSeq = m.seq, !.pending = {},
                          !.state = "connected"]
           messages == IF owed = {} THEN <<>> ELSE Update(owed)
<1>1. link[c].down # <<>> /\ m.kind = "yjs_sync_step2" /\ UNCHANGED <<server, lost, left>>
  BY DEF HandleSyncStep2, Arrives
<1>2. CASE ~(Online(c) /\ IsActive(d)) \/ Outdated(d, m)
  <2>1. Handling(c, <<>>) /\ UNCHANGED <<docs, persisted>>
    BY <1>2 DEF HandleSyncStep2
  <2> QED
    BY <1>1, <2>1, IgnoredStep
<1>3. CASE ~(~(Online(c) /\ IsActive(d)) \/ Outdated(d, m))
  <2>1. /\ docs' = [docs EXCEPT ![c] = n] /\ persisted' = [persisted EXCEPT ![c] = ops]
        /\ Handling(c, messages) /\ IsActive(d)
    BY <1>3 DEF HandleSyncStep2
  <2>2. /\ m.ops \in SUBSET Op /\ m.seq \in Nat /\ m.seq <= Len(server.updates)
        /\ m.ops \subseteq (UNION ToSet(server.updates))
        /\ ~d.crossed => \A i \in 1 .. m.seq : server.updates[i] \subseteq d.ops \cup m.ops
    BY <1>1, ReadFirst DEF Answered
  <2>3. d \in Document /\ r \in Document /\ r.crossed = d.crossed
    BY ResettingIsSame DEF DocsInv, TypesOK, Same
  <2>4. seeds \in SUBSET Op
    BY DEF Op
  <2> HIDE DEF seeds, m, r, d
  <2>5. ops \in SUBSET Op /\ owed \in SUBSET Op /\ ops = d.ops \cup (m.ops \cup seeds)
        /\ m.ops \cup seeds \in SUBSET Op
    BY <2>2, <2>3, <2>4 DEF Document
  <2>6. messages \in Seq(Messages) /\ Carried(messages) = owed /\ \A x \in ToSet(messages) : Asked(n, x)
    <3>1. Update(owed) \in Seq(Messages) /\ Carried(Update(owed)) = owed
          /\ \A x \in ToSet(Update(owed)) : Asked(n, x)
      BY <2>5, UpdateSent
    <3>2. <<>> \in Seq(Messages) /\ Carried(<<>>) = {} /\ ToSet(<<>>) = {}
      BY DEF Carried, ToSet
    <3> HIDE DEF n, owed
    <3> QED
      BY <3>1, <3>2
  <2> HIDE DEF ops, messages
  <2>7. /\ n \in Document /\ n.ops = ops /\ n.lastSeq = m.seq /\ n.pending = {}
        /\ n.crossed = d.crossed
    BY <2>2, <2>3, <2>5 DEF Document
  <2> HIDE DEF n
  <2>8. Seen(n, server.updates)
    BY <2>2, <2>5, <2>7 DEF Seen
  <2>9. d.pending \subseteq Carried(messages) /\ seeds \subseteq Carried(messages)
    BY <2>6 DEF owed
  <2>10. m.ops \cup seeds \subseteq (UNION ToSet(server.updates)) \cup Carried(messages)
    BY <2>2, <2>9
  <2> DEFINE new == m.ops \cup seeds
  <2>11. new \in SUBSET Op /\ n.ops = d.ops \cup new
         /\ new \subseteq (UNION ToSet(server.updates)) \cup Carried(messages)
    BY <2>5, <2>7, <2>10
  <2> HIDE DEF new
  <2>12. docs[c].pending \subseteq n.pending \cup Carried(messages)
    BY <2>9 DEF d
  <2> QED
    BY <1>1, <2>1, <2>6, <2>7, <2>8, <2>11, <2>12, ContentStep DEF d
<1> QED
  BY <1>2, <1>3

LEMMA HandleUpdateKeeps ==
  ASSUME DocsInv, NEW c \in Clients, HandleUpdate(c)
  PROVE  DocsInv'
<1> DEFINE m == Head(link[c].down)
           d == docs[c]
           ignored == m.flag \/ ~(Online(c) /\ IsActive(d)) \/ d.state # "connected" \/ m.seq <= d.lastSeq
           ops == d.ops \cup m.ops
           n == [d EXCEPT !.ops = ops, !.lastSeq = m.seq]
           asks == Requested(d, TRUE)
<1>1. link[c].down # <<>> /\ m.kind = "yjs_update" /\ UNCHANGED <<server, lost, left>>
  BY DEF HandleUpdate, Arrives
<1>2. d \in Document
  BY DEF DocsInv, TypesOK
<1>3. CASE ignored
  <2>1. Handling(c, <<>>) /\ UNCHANGED <<docs, persisted>>
    BY <1>3 DEF HandleUpdate
  <2> QED
    BY <1>1, <2>1, IgnoredStep
<1>4. CASE ~ignored /\ HasGap(d, m)
  <2>1. docs' = [docs EXCEPT ![c] = asks] /\ Handling(c, SyncStep1(d)) /\ UNCHANGED persisted
    BY <1>4 DEF HandleUpdate
  <2>2. Same(d, asks) /\ (IsActive(asks) => IsActive(d)) /\ asks \in Document /\ d.ops \subseteq asks.ops
    BY <1>2, RequestingIsSame DEF Stays, Same
  <2> HIDE DEF asks
  <2>3. Plain(asks, SyncStep1(d))
    BY <1>2, <2>2, PlainMessages
  <2> QED
    BY <1>1, <2>1, <2>2, <2>3, HandledStep
<1>5. CASE ~ignored /\ ~HasGap(d, m)
  <2>1. /\ docs' = [docs EXCEPT ![c] = n] /\ persisted' = [persisted EXCEPT ![c] = ops]
        /\ Handling(c, <<>>) /\ IsActive(d)
    BY <1>2, <1>5 DEF HandleUpdate, Document
  <2>2. /\ m.ops \in SUBSET Op /\ m.seq \in Nat
        /\ m.seq \in 1 .. Len(server.updates) /\ m.ops = server.updates[m.seq]
    BY <1>1, ReadFirst DEF Answered
  <2>3. m.seq = d.lastSeq + 1
    BY <1>2, <1>5, <2>2 DEF HasGap, Document
  <2>4. /\ Seen(d, server.updates) /\ server.updates \in Seq(SUBSET Op)
        /\ m.ops \subseteq (UNION ToSet(server.updates))
    BY <2>2 DEF DocsInv, ClientOK, TypesOK, Server, ToSet
  <2> HIDE DEF m, d
  <2>5. ops \in SUBSET Op
    BY <1>2, <2>2 DEF Document
  <2>6. ops = d.ops \cup m.ops
    OBVIOUS
  <2> HIDE DEF ops
  <2>7. n \in Document /\ n.ops = ops /\ n.lastSeq = m.seq /\ n.pending = d.pending /\ n.crossed = d.crossed
    BY <1>2, <2>2, <2>5 DEF Document
  <2> HIDE DEF n
  <2>8. Seen(n, server.updates)
    <3>1. d.lastSeq \in Nat
      BY <1>2 DEF Document
    <3>2. ASSUME ~d.crossed, NEW i \in 1 .. m.seq
          PROVE  server.updates[i] \subseteq n.ops
      <4>1. CASE i = m.seq
        BY <2>2, <2>6, <2>7, <4>1
      <4>2. CASE i # m.seq
        <5>1. i \in 1 .. d.lastSeq
          BY <2>3, <3>1, <4>2
        <5> QED
          BY <2>4, <2>6, <2>7, <3>2, <5>1 DEF Seen
      <4> QED
        BY <4>1, <4>2
    <3>3. m.seq <= Len(server.updates)
      BY <2>2, <2>4
    <3> QED
      BY <2>7, <3>2, <3>3 DEF Seen
  <2>9. <<>> \in Seq(Messages) /\ \A x \in ToSet(<<>>) : Asked(n, x)
    BY DEF ToSet
  <2> QED
    BY <1>1, <2>1, <2>2, <2>4, <2>6, <2>7, <2>8, <2>9, ContentStep DEF d
<1> QED
  BY <1>3, <1>4, <1>5

LEMMA HandleWordsKeeps ==
  ASSUME DocsInv, NEW c \in Clients, HandleError(c) \/ HandleSessionState(c)
  PROVE  DocsInv'
<1>1. /\ docs[c] \in Document /\ docs = [docs EXCEPT ![c] = docs[c]] /\ link[c].down # <<>>
  BY StaysHere DEF DocsInv, TypesOK, HandleError, HandleSessionState, Arrives
<1>2. Handling(c, <<>>) /\ UNCHANGED <<persisted, server, lost, left>>
  BY DEF HandleError, HandleSessionState
<1>3. PICK n : docs' = [docs EXCEPT ![c] = n] /\ Stays(docs[c], n)
  <2>1. Stays(docs[c], docs[c]) /\ Stays(docs[c], RetryScheduled(docs[c]))
        /\ Stays(docs[c], [ResetRetry(docs[c]) EXCEPT !.state = "disconnected"])
    BY <1>1, RetryingIsSame, StatesAreSame DEF Stays, Same
  <2>2. CASE HandleSessionState(c)
    BY <1>1, <2>1, <2>2 DEF HandleSessionState
  <2>3. CASE HandleError(c)
    <3>1. \/ docs' = [docs EXCEPT ![c] = RetryScheduled(docs[c])]
          \/ docs' = [docs EXCEPT ![c] = [ResetRetry(docs[c]) EXCEPT !.state = "disconnected"]]
      BY <2>3 DEF HandleError
    <3> QED
      BY <2>1, <3>1
  <2> QED
    BY <2>2, <2>3
<1>4. Same(docs[c], n) /\ n \in Document /\ (IsActive(n) => IsActive(docs[c]))
  BY <1>3 DEF Stays, Same
<1>5. Plain(n, <<>>)
  BY <1>4, PlainMessages
<1> QED
  BY <1>1, <1>2, <1>3, <1>4, <1>5, HandledStep

LEMMA ServesKeeps ==
  ASSUME DocsInv, NEW c \in Clients, Serves(c)
  PROVE  DocsInv'
<1> DEFINE m == Head(link[c].up)
<1>1. /\ link[c].up # <<>> /\ UNCHANGED <<docs, persisted, left>> /\ left' \in Scenario
      /\ Viewers \subseteq Viewers
  BY DEF Serves, DocsInv, TypesOK
<1>2. CASE ServesPresence(c, m)
  BY <1>1, <1>2, PresenceServed
<1>3. CASE ServesSyncStep1(c, m)
  BY <1>1, <1>3, SyncServed
<1>4. CASE Relays(c, m, Viewers)
  BY <1>1, <1>4, Relayed
<1>5. CASE Rejects(c, m, TRUE)
  BY <1>1, <1>5, Rejected
<1> QED
  BY <1>2, <1>3, <1>4, <1>5 DEF Serves

LEMMA ServerFailsKeeps ==
  ASSUME DocsInv, NEW c \in Clients, ServerFails(c) \/ RelayLoses(c)
  PROVE  DocsInv'
<1> DEFINE errors == left.errors - 1
           refusals == left.refusals - 1
           losses == left.losses - 1
<1>1. left \in Scenario
  BY DEF DocsInv, TypesOK
<1>2. link[c].up # <<>> /\ UNCHANGED <<docs, persisted>>
  BY DEF ServerFails, RelayLoses
<1>3. ASSUME left.errors > 0, left' = [left EXCEPT !.errors = @ - 1]
      PROVE  left' \in Scenario
  <2>1. left' = [left EXCEPT !.errors = errors] /\ errors \in Nat
    BY <1>1, <1>3 DEF Scenario
  <2> HIDE DEF errors
  <2> QED
    BY <1>1, <2>1 DEF Scenario
<1>4. ASSUME left.refusals > 0, left' = [left EXCEPT !.refusals = @ - 1]
      PROVE  left' \in Scenario
  <2>1. left' = [left EXCEPT !.refusals = refusals] /\ refusals \in Nat
    BY <1>1, <1>4 DEF Scenario
  <2> HIDE DEF refusals
  <2> QED
    BY <1>1, <2>1 DEF Scenario
<1>5. ASSUME left.losses > 0, left' = [left EXCEPT !.losses = @ - 1]
      PROVE  left' \in Scenario
  <2>1. left' = [left EXCEPT !.losses = losses] /\ losses \in Nat
    BY <1>1, <1>5 DEF Scenario
  <2> HIDE DEF losses
  <2> QED
    BY <1>1, <2>1 DEF Scenario
<1>6. CASE ServerFails(c)
  BY <1>2, <1>3, <1>4, <1>6, Rejected DEF ServerFails
<1>7. CASE RelayLoses(c)
  <2>1. PICK b \in Viewers \ {c} : Relays(c, Head(link[c].up), Viewers \ {b})
    BY <1>7 DEF RelayLoses
  <2>2. left' \in Scenario /\ Viewers \ {b} \subseteq Viewers
    BY <1>5, <1>7 DEF RelayLoses
  <2> QED
    BY <1>2, <2>1, <2>2, Relayed
<1> QED
  BY <1>6, <1>7

-----------------------------------------------------------------------------
(* The theorems. *)

LEMMA DocsStart == Init => DocsInv
<1> SUFFICES ASSUME Init
             PROVE  DocsInv
  OBVIOUS
<1> DEFINE n == DocumentState({})
<1>1. {} \in SUBSET Op /\ FALSE \in BOOLEAN
  OBVIOUS
<1>2. n \in Document /\ ~IsActive(n) /\ n.lastSeq = 0
  BY <1>1, AnewDocument
<1> HIDE DEF n
<1>3. /\ NoLink \in Link /\ NoLink.up = <<>> /\ NoLink.down = <<>> /\ ToSet(<<>>) = {}
  <2>1. <<>> \in Seq(Messages)
    OBVIOUS
  <2> QED
    BY <2>1 DEF NoLink, Link, ToSet
<1>4. /\ docs = [c \in Clients |-> n] /\ persisted = [c \in Clients |-> {}]
      /\ link = [c \in Clients |-> NoLink] /\ left \in Scenario
      /\ server = [updates |-> <<>>, viewers |-> [c \in Clients |-> "none"]]
  BY DocumentsAssumption DEF Init, n, Scenario
<1>5. server \in Server /\ server.updates = <<>> /\ \A c \in Clients : ~Views(c)
  <2>1. <<>> \in Seq(SUBSET Op)
    OBVIOUS
  <2> QED
    BY <1>4, <2>1 DEF Server, Views
<1>6. TypesOK
  BY <1>1, <1>2, <1>3, <1>4, <1>5 DEF TypesOK
<1>7. ASSUME NEW c \in Clients
      PROVE  ClientOK(docs[c], persisted[c], link[c], server.updates, lost)
  <2>1. Seen(n, server.updates)
    BY <1>2, <1>5 DEF Seen
  <2>2. docs[c] = n /\ link[c] = NoLink
    BY <1>4
  <2> QED
    BY <1>2, <1>3, <2>1, <2>2 DEF ClientOK, Owed
<1> QED
  BY <1>5, <1>6, <1>7 DEF DocsInv, ViewsInv

LEMMA DocsNext == DocsInv /\ [Next]_vars => DocsInv'
<1> SUFFICES ASSUME DocsInv, [Next]_vars
             PROVE  DocsInv'
  OBVIOUS
<1>1. CASE UNCHANGED vars
  BY <1>1 DEF vars, DocsInv, TypesOK, ViewsInv, Views
<1>2. CASE Next
  <2>1. PICK c \in Clients :
            \/ Open(c) \/ Close(c) \/ Focus(c) \/ Blur(c) \/ Edit(c) \/ Clear(c)
            \/ LinkOpens(c) \/ LinkDrops(c) \/ Reload(c)
            \/ Serves(c) \/ ServerFails(c) \/ RelayLoses(c) \/ Handles(c)
            \/ RetryTimerFires(c) \/ ReplayTimerFires(c)
    BY <1>2 DEF Next
  <2>2. CASE Open(c) \/ Close(c) \/ Focus(c) \/ Blur(c) \/ Edit(c) \/ Clear(c)
    BY <2>2, OpenKeeps, CloseKeeps, FocusAndBlurKeep, EditKeeps, ClearKeeps
  <2>3. CASE LinkOpens(c) \/ LinkDrops(c) \/ Reload(c)
    BY <2>3, LinkOpensKeeps, LinkDropsKeeps, ReloadKeeps
  <2>4. CASE Serves(c) \/ ServerFails(c) \/ RelayLoses(c)
    BY <2>4, ServesKeeps, ServerFailsKeeps
  <2>5. CASE Handles(c)
    BY <2>5, HandleSyncStep2Keeps, HandleUpdateKeeps, HandleWordsKeeps DEF Handles
  <2>6. CASE RetryTimerFires(c) \/ ReplayTimerFires(c)
    BY <2>6, TimersKeep
  <2> QED
    BY <2>1, <2>2, <2>3, <2>4, <2>5, <2>6
<1> QED
  BY <1>1, <1>2

\* The inductive invariant holds in every reachable state.
THEOREM DocsInvAlways == Spec => []DocsInv
<1> QED
  BY DocsStart, DocsNext, PTL DEF Spec

\* A client in sync has every update up to the number it has come to: what it ignored
\* while it was not in sync, and what a relay lost, came with an answer.
THEOREM ClientsInSyncHaveSeen == Spec => []ConnectedHasSeen
<1>1. DocsInv => ConnectedHasSeen
  BY DEF DocsInv, ClientOK, Seen, ConnectedHasSeen
<1> QED
  BY <1>1, DocsInvAlways, PTL

\* No edit of a document in use is forgotten: it is with the server, kept back for it,
\* on its way, or was lost on its way; and a reload finds it.
THEOREM EditsAreAlwaysOwed == Spec => []EditsAreOwed
<1>1. DocsInv => EditsAreOwed
  <2> SUFFICES ASSUME DocsInv, NEW c \in Clients, IsActive(docs[c])
               PROVE  /\ docs[c].ops \subseteq Has \cup lost \cup docs[c].pending \cup Carried(link[c].up)
                      /\ docs[c].ops \subseteq persisted[c]
    BY DEF EditsAreOwed
  <2>1. Has = UNION ToSet(server.updates)
    BY HasOf DEF DocsInv, TypesOK, Server
  <2> QED
    BY <2>1 DEF DocsInv, ClientOK, Owed
<1> QED
  BY <1>1, DocsInvAlways, PTL

=============================================================================
