---------------------------- MODULE SyncClientProofs ----------------------------
(***************************************************************************)
(* Proofs about SyncClient for every log, mode, page and buffer size,      *)
(* number of tasks and choice of faults: however starts, stops, crashes,   *)
(* reconnects, timers and bootstraps meet, one stream is open at most; and *)
(* where access is steady the cursors claim no row that is not there.      *)
(***************************************************************************)
EXTENDS SyncClient, FiniteSetTheorems, TLAPS

Sets == INSTANCE ListsProofs

-----------------------------------------------------------------------------
(* The invariant, of the orchestrator's fields c and the streams s.          *)

Handled(c, s) ==
    /\ "subscription" \in DOMAIN c /\ c.subscription \in Streams \cup {None}
    /\ DOMAIN s = Streams
    /\ \A h \in Streams : "open" \in DOMAIN s[h]

\* Whatever is open is the stream that the orchestrator holds.
OneOpen(c, s) ==
    /\ Handled(c, s)
    /\ \A h \in Streams : s[h].open => c.subscription = h

\* Nothing is open, whatever is held.
AllClosed(c, s) ==
    /\ Handled(c, s)
    /\ \A h \in Streams : ~s[h].open

StreamInv == OneOpen(client, streams)

-----------------------------------------------------------------------------
(* What the helpers do to the streams. *)

LEMMA LowestIsOne ==
  ASSUME NEW m \in Nat, NEW S \in SUBSET (1 .. m), S # {}
  PROVE  Lowest(S) \in S
<1> DEFINE T == {m - i : i \in S}
<1>0. \A i \in S : i \in Nat /\ m - i \in Nat /\ m - i <= m
  OBVIOUS
<1>1. T # {} /\ T \in SUBSET Nat /\ \A u \in T : u <= m
  BY <1>0
<1>2. PICK g \in T : \A u \in T : u <= g
  <2> HIDE DEF T
  <2>1. Sets!IsFiniteSet(T)
    BY <1>1, Sets!FS_BoundedSetOfNaturals
  <2> QED
    BY <1>1, <2>1, Sets!GreatestExists
<1>3. PICK i \in S : g = m - i
  BY <1>2
<1>4. \A j \in S : m - j \in T
  OBVIOUS
<1>5. \A j \in S : i <= j
  BY <1>2, <1>3, <1>4
<1> QED
  BY <1>3, <1>5 DEF Lowest

\* The stream that is opened next is one that no loop reads.
LEMMA FreeStreamIsThere ==
  ASSUME NEW s, Free(s, Streams) # {}
  PROVE  Lowest(Free(s, Streams)) \in Streams /\ s[Lowest(Free(s, Streams))].pc = "free"
<1>1. MaxStreams \in Nat /\ Free(s, Streams) \in SUBSET (1 .. MaxStreams)
  BY SyncClientAssumption DEF Free, Streams
<1>2. Lowest(Free(s, Streams)) \in Free(s, Streams)
  BY <1>1, LowestIsOne
<1> QED
  BY <1>2 DEF Free

\* Closing the stream that is held closes them all.
LEMMA ClosingClosesAll ==
  ASSUME NEW c, NEW s, OneOpen(c, s)
  PROVE  AllClosed(c, Closed(s, c.subscription))
  BY DEF OneOpen, AllClosed, Handled, Closed, None, Streams

\* startDeltaSubscription: the new stream is the only one.
LEMMA SubscribeKeeps ==
  ASSUME NEW c, NEW s, OneOpen(c, s), Subscribe(c, s)
  PROVE  StreamInv'
<1> DEFINE closed == Closed(s, c.subscription)
           h == Lowest(Free(closed, Streams))
           opened == [FreeStream EXCEPT !.pc = "next", !.open = TRUE, !.run = c.token,
                                        !.snapshot = c.snapshot, !.at = c.cursor,
                                        !.asked = c.groups]
<1>1. AllClosed(c, closed)
  BY ClosingClosesAll
<1>2. /\ Free(closed, Streams) # {}
      /\ client' = [c EXCEPT !.subscription = h]
      /\ streams' = [closed EXCEPT ![h] = opened]
  BY DEF Subscribe
<1>3. h \in Streams
  BY <1>2, FreeStreamIsThere
<1>4. "open" \in DOMAIN opened
  BY DEF FreeStream
<1> HIDE DEF closed, h, opened
<1> QED
  BY <1>1, <1>2, <1>3, <1>4 DEF AllClosed, StreamInv, OneOpen, Handled

LEMMA SubscribeIfNoneKeeps ==
  ASSUME NEW c, NEW s, OneOpen(c, s), SubscribeIfNone(c, s)
  PROVE  StreamInv'
<1>1. CASE c.subscription = None
  BY <1>1, SubscribeKeeps DEF SubscribeIfNone
<1>2. CASE c.subscription # None
  BY <1>2 DEF SubscribeIfNone, StreamInv
<1> QED
  BY <1>1, <1>2

\* scheduleGroupChangeBootstrap: the stream is closed and let go at once.
LEMMA ScheduleKeeps ==
  ASSUME NEW c, NEW s, NEW b, NEW run, OneOpen(c, s), Schedule(c, s, b, run)
  PROVE  StreamInv'
<1>1. CASE c.inFlight # None \/ ~ActiveIn(c, run)
  BY <1>1 DEF Schedule, StreamInv
<1>2. CASE ~(c.inFlight # None \/ ~ActiveIn(c, run))
  <2> DEFINE t == Lowest(Free(b, Boots))
  <2>1. /\ client' = [[c EXCEPT !.subscription = None] EXCEPT !.inFlight = t]
        /\ streams' = Closed(s, c.subscription)
    BY <1>2 DEF Schedule, Released
  <2>2. AllClosed(c, streams')
    BY <2>1, ClosingClosesAll
  <2> HIDE DEF t
  <2> QED
    BY <2>1, <2>2 DEF AllClosed, StreamInv, OneOpen, Handled
<1> QED
  BY <1>1, <1>2

\* A loop that ends frees its stream, which is open no more, and lets go of it.
LEMMA EndedIsClosed ==
  ASSUME NEW h \in Streams, OneOpen(client, streams)
  PROVE  /\ OneOpen(client, StreamEnded(h))
         /\ OneOpen(Without(client, h), StreamEnded(h))
<1>1. "open" \in DOMAIN FreeStream /\ ~FreeStream.open
  BY DEF FreeStream
<1> QED
  BY <1>1 DEF OneOpen, Handled, StreamEnded, Without, None

\* Whoever waited for a packet goes on; nothing else of the stream changes.
LEMMA ResumedIsAsOpen ==
  ASSUME NEW c, NEW pc, OneOpen(c, streams)
  PROVE  OneOpen(c, ResumedStreams(pc))
  BY DEF OneOpen, Handled, ResumedStreams

-----------------------------------------------------------------------------
(* Steps that leave the streams alone.                                       *)

Holding(c) == "subscription" \in DOMAIN c /\ c.subscription = client.subscription

LEMMA QuietKeeps ==
  ASSUME StreamInv, Holding(client'), streams' = streams
  PROVE  StreamInv'
  BY DEF StreamInv, OneOpen, Handled, Holding

LEMMA HoldingStill == StreamInv => Holding(client)
  BY DEF StreamInv, OneOpen, Handled, Holding

\* The end of a task touches its own slot and the retry timer.
LEMMA EndsHolding ==
  ASSUME NEW t, NEW c, Holding(c), Ends(t, c)
  PROVE  Holding(client')
  BY DEF Ends, Settled, Holding

LEMMA AbandonsKeeps ==
  ASSUME NEW t, NEW i, StreamInv, Abandons(t, i)
  PROVE  StreamInv'
  BY HoldingStill, EndsHolding, QuietKeeps DEF Abandons

LEMMA StartKeeps ==
  ASSUME StreamInv, StartBegins \/ StartLoads \/ StartChooses \/ StartUnlatches
  PROVE  StreamInv'
<1>1. CASE StartBegins
  BY <1>1, HoldingStill, QuietKeeps DEF StartBegins, Holding
<1>2. CASE StartLoads
  BY <1>2, HoldingStill, AbandonsKeeps, QuietKeeps DEF StartLoads
<1>3. CASE StartChooses
  <2>1. Holding(Loaded(client, boots[0].read))
    BY HoldingStill DEF Holding, Loaded
  <2>2. Holding([Loaded(client, boots[0].read) EXCEPT !.groups = boots[0].read.groups])
    BY <2>1 DEF Holding
  <2> DEFINE c == [Loaded(client, boots[0].read) EXCEPT !.groups = boots[0].read.groups]
  <2>3. Holding([c EXCEPT !.state = "bootstrapping"])
    BY <2>2 DEF Holding
  <2>4. Holding(client')
    <3>1. \/ Ends(0, Loaded(client, boots[0].read))
          \/ client' = c
          \/ client' = [c EXCEPT !.state = "bootstrapping"]
      BY <1>3 DEF StartChooses
    <3> QED
      BY <2>1, <2>2, <2>3, <3>1, EndsHolding
  <2> QED
    BY <1>3, <2>4, QuietKeeps DEF StartChooses
<1>4. CASE StartUnlatches
  BY <1>4, HoldingStill, AbandonsKeeps, QuietKeeps DEF StartUnlatches, CommitGoesOn
<1> QED
  BY <1>1, <1>2, <1>3, <1>4

LEMMA CommitKeeps ==
  ASSUME NEW t \in Tasks, StreamInv,
         \/ CommitReads(t) \/ CommitQuarantines(t) \/ CommitWrites(t)
         \/ CommitReplaces(t) \/ CommitRecords(t)
  PROVE  StreamInv'
<1>1. \A c : Holding(client) =>
          /\ Holding([client EXCEPT !.pending = c])
          /\ Holding([client EXCEPT !.pending = TRUE, !.maps = {}])
  BY DEF Holding
<1>2. CASE CommitReads(t)
  BY <1>2, HoldingStill, AbandonsKeeps, QuietKeeps DEF CommitReads, CommitGoesOn, Clears
<1>3. CASE CommitQuarantines(t)
  BY <1>1, <1>3, HoldingStill, AbandonsKeeps, QuietKeeps
     DEF CommitQuarantines, CommitGoesOn, Clears
<1>4. CASE CommitWrites(t)
  BY <1>4, HoldingStill, AbandonsKeeps, QuietKeeps DEF CommitWrites, CommitGoesOn
<1>5. CASE CommitReplaces(t)
  <2>1. Holding([client EXCEPT !.maps = MapsReplaced(boots[t].snap.rows),
                               !.cursor = boots[t].snap.id, !.snapshot = @ + 1,
                               !.groups = boots[t].snap.groups])
    BY HoldingStill DEF Holding
  <2> QED
    BY <1>5, <2>1, AbandonsKeeps, QuietKeeps DEF CommitReplaces, CommitGoesOn
<1>6. CASE CommitRecords(t)
  BY <1>1, <1>6, HoldingStill, AbandonsKeeps, QuietKeeps DEF CommitRecords, CommitGoesOn
<1> QED
  BY <1>2, <1>3, <1>4, <1>5, <1>6

LEMMA BootKeeps ==
  ASSUME NEW t \in Tasks, StreamInv,
         \/ BootFetched(t) \/ BootFails(t) \/ BootUnlatches(t) \/ BootReopens(t)
         \/ BootBegins(t) \/ BootLocks(t)
  PROVE  StreamInv'
<1>1. \A s, r : Holding(client) =>
          /\ Holding([client EXCEPT !.state = s])
          /\ Holding([client EXCEPT !.pending = s])
          /\ Holding([client EXCEPT !.state = s, !.running = r, !.token = @ + 1])
  BY DEF Holding
<1>2. CASE BootFetched(t)
  BY <1>2, HoldingStill, AbandonsKeeps, QuietKeeps DEF BootFetched
<1>3. CASE BootFails(t)
  <2>1. Holding(client')
    BY <1>1, <1>3, HoldingStill, EndsHolding DEF BootFails, Errored
  <2> QED
    BY <1>3, <2>1, QuietKeeps DEF BootFails
<1>4. \A c : Holding(c) /\ Unlocks(t, c) => Holding(client')
  BY EndsHolding DEF Unlocks
<1>5. CASE BootUnlatches(t)
  <2>1. Holding(client')
    BY <1>1, <1>4, <1>5, HoldingStill, EndsHolding DEF BootUnlatches, Errored
  <2> QED
    BY <1>5, <2>1, QuietKeeps DEF BootUnlatches
<1>6. CASE BootReopens(t)
  BY <1>1, <1>4, <1>6, HoldingStill, QuietKeeps DEF BootReopens
<1>7. CASE BootBegins(t)
  <2>1. streams' = streams /\ (Ends(t, client) \/ client' = [client EXCEPT !.state = "bootstrapping"]
                             \/ client' = client)
    BY <1>7 DEF BootBegins
  <2>2. Holding(client')
    BY <1>1, <2>1, HoldingStill, EndsHolding
  <2> QED
    BY <2>1, <2>2, QuietKeeps
<1>8. CASE BootLocks(t)
  <2>1. CASE Abandons(t, io)
    BY <2>1, AbandonsKeeps
  <2>2. CASE ~Abandons(t, io)
    <3>1. /\ streams' = streams
          /\ \/ client' = client
             \/ client' = [client EXCEPT !.state = "bootstrapping"]
      BY <1>8, <2>2 DEF BootLocks
    <3> QED
      BY <1>1, <3>1, HoldingStill, QuietKeeps
  <2> QED
    BY <2>1, <2>2
<1> QED
  BY <1>2, <1>3, <1>5, <1>6, <1>7, <1>8

LEMMA PacketKeepsQuiet ==
  ASSUME StreamInv,
         PacketChangesGroups \/ PacketRebases \/ PacketWrites \/ PacketMerges
  PROVE  StreamInv'
<1>1. Holding(client')
  <2>1. Holding([client EXCEPT !.groups = First.grants])
    BY HoldingStill DEF Holding
  <2>2. Holding(Advanced([client EXCEPT !.maps = @ \cup NewRows]))
    BY HoldingStill DEF Holding, Advanced
  <2> QED
    BY <2>1, <2>2, HoldingStill
       DEF PacketChangesGroups, PacketRebases, PacketWrites, PacketMerges
<1>2. streams' = streams
  BY DEF PacketChangesGroups, PacketRebases, PacketWrites, PacketMerges
<1> QED
  BY <1>1, <1>2, QuietKeeps

LEMMA PagerKeepsQuiet ==
  ASSUME NEW p \in Pagers, StreamInv,
         \/ PagerReads(p) \/ PagerGoesOn(p) \/ PagerFails(p) \/ PagerLatches(p)
         \/ Connects \/ Disconnects \/ SyncNow
  PROVE  StreamInv'
<1>1. /\ Holding([client EXCEPT !.holds = @ \cup {p}])
      /\ Holding([client EXCEPT !.holds = @ \ {p}])
      /\ Holding([client EXCEPT !.connected = TRUE])
      /\ Holding([client EXCEPT !.connected = FALSE])
  BY HoldingStill DEF Holding
<1>2. \A c : Holding(c) /\ PagerEnds(p, c) => Holding(client')
  BY DEF PagerEnds, NoHold, Holding
<1>3. Holding([client EXCEPT !.state = "error"])
  BY HoldingStill DEF Holding
<1>4. Holding(client')
  <2>1. CASE PagerReads(p)
    BY <1>1, <1>2, <2>1, HoldingStill DEF PagerReads
  <2>2. CASE PagerGoesOn(p)
    BY <1>1, <1>2, <2>2, HoldingStill DEF PagerGoesOn, NoHold
  <2>3. CASE PagerFails(p)
    BY <1>2, <1>3, <2>3, HoldingStill DEF PagerFails, Errored
  <2>4. CASE PagerLatches(p)
    BY <1>2, <1>3, <2>4, HoldingStill DEF PagerLatches
  <2>5. CASE Connects \/ Disconnects \/ SyncNow
    BY <1>1, <2>5, HoldingStill DEF Connects, Disconnects, SyncNow, Spawns
  <2> QED
    BY <2>1, <2>2, <2>3, <2>4, <2>5
<1>5. streams' = streams
  BY DEF PagerReads, PagerGoesOn, PagerFails, PagerLatches, Connects, Disconnects, SyncNow
<1> QED
  BY <1>4, <1>5, QuietKeeps

LEMMA RestKeepsQuiet ==
  ASSUME StreamInv, ServerCommits \/ ServerPrunes \/ StopResets \/ StopEnds
  PROVE  StreamInv'
<1>1. Holding(client')
  <2>1. CASE ServerCommits \/ ServerPrunes
    BY <2>1, HoldingStill DEF ServerCommits, ServerPrunes
  <2>2. CASE StopResets
    BY <2>2, HoldingStill DEF StopResets, Holding
  <2>3. CASE StopEnds
    BY <2>3, HoldingStill DEF StopEnds, Holding
  <2> QED
    BY <2>1, <2>2, <2>3
<1>2. streams' = streams
  BY DEF ServerCommits, ServerPrunes, StopResets, StopEnds
<1> QED
  BY <1>1, <1>2, QuietKeeps

-----------------------------------------------------------------------------
(* Steps that open, close or free a stream, or let go of it.                 *)

\* Other fields of the orchestrator do not matter.
LEMMA OneOpenOf ==
  ASSUME NEW c, NEW s, StreamInv, Holding(c), OneOpen(client, s)
  PROVE  OneOpen(c, s)
  BY DEF StreamInv, OneOpen, Handled, Holding

LEMMA GoLiveKeeps ==
  ASSUME NEW c, NEW landed, StreamInv, Holding(c), GoLive(c, landed)
  PROVE  StreamInv'
<1>1. Holding([c EXCEPT !.state = "syncing"])
  BY DEF Holding
<1>2. OneOpen([c EXCEPT !.state = "syncing"], streams)
  BY <1>1, OneOpenOf DEF StreamInv
<1> QED
  BY <1>2, SubscribeKeeps DEF GoLive

LEMMA StartContinuesKeeps ==
  ASSUME NEW c, NEW landed, StreamInv, Holding(c), StartContinues(c, landed)
  PROVE  StreamInv'
  BY GoLiveKeeps, QuietKeeps DEF StartContinues

\* start(), its bootstrap and the bootstraps of group changes open the stream.
LEMMA ResumingKeeps ==
  ASSUME NEW t \in Tasks, StreamInv,
         StartHydrates \/ StartResumes \/ CommitLands(t) \/ BootResumes(t)
  PROVE  StreamInv'
<1>1. CASE StartHydrates
  <2>1. Holding([client EXCEPT !.maps = @ \cup boots[0].read.rows])
    BY HoldingStill DEF Holding
  <2> QED
    BY <1>1, <2>1, AbandonsKeeps, StartContinuesKeeps DEF StartHydrates
<1>2. CASE StartResumes
  <2>1. Holding([client EXCEPT !.pending = FALSE])
    BY HoldingStill DEF Holding
  <2> QED
    BY <1>2, <2>1, AbandonsKeeps, GoLiveKeeps DEF StartResumes
<1>3. CASE CommitLands(t)
  <2>1. Holding([client EXCEPT !.owed = FALSE])
    BY HoldingStill DEF Holding
  <2> QED
    BY <1>3, <2>1, HoldingStill, AbandonsKeeps, StartContinuesKeeps, QuietKeeps
       DEF CommitLands, CommitGoesOn
<1>4. CASE BootResumes(t)
  <2>1. Holding([client EXCEPT !.state = "syncing"])
    BY HoldingStill DEF Holding
  <2>2. Holding(Settled([client EXCEPT !.state = "syncing"], t))
    BY <2>1 DEF Holding, Settled
  <2>3. OneOpen(Settled([client EXCEPT !.state = "syncing"], t), streams)
    BY <2>2, OneOpenOf DEF StreamInv
  <2>4. \/ Ends(t, client) /\ streams' = streams
        \/ SubscribeIfNone(Settled([client EXCEPT !.state = "syncing"], t), streams)
    BY <1>4 DEF BootResumes
  <2> QED
    BY <2>3, <2>4, HoldingStill, EndsHolding, QuietKeeps, SubscribeIfNoneKeeps
<1> QED
  BY <1>1, <1>2, <1>3, <1>4

\* The timers, and a reconnect that has caught up.
LEMMA TimersKeep ==
  ASSUME StreamInv, RetryFires \/ ResubscribeFires \/ \E p \in Pagers : PagerDrains(p)
  PROVE  StreamInv'
<1>1. CASE RetryFires
  <2>1. OneOpen([client EXCEPT !.retry = 0], streams)
    BY HoldingStill, OneOpenOf DEF Holding, StreamInv
  <2> QED
    BY <1>1, <2>1, ScheduleKeeps DEF RetryFires
<1>2. CASE ResubscribeFires
  <2>1. Holding([client EXCEPT !.resubscribe = 0])
    BY HoldingStill DEF Holding
  <2>2. OneOpen([client EXCEPT !.resubscribe = 0], streams)
    BY <2>1, OneOpenOf DEF StreamInv
  <2> QED
    BY <1>2, <2>1, <2>2, SubscribeIfNoneKeeps, QuietKeeps DEF ResubscribeFires
<1>3. CASE \E p \in Pagers : PagerDrains(p)
  <2>1. Holding([client EXCEPT !.state = "syncing"])
    BY HoldingStill DEF Holding
  <2>2. OneOpen([client EXCEPT !.state = "syncing"], streams)
    BY <2>1, OneOpenOf DEF StreamInv
  <2>3. \/ SubscribeIfNone([client EXCEPT !.state = "syncing"], streams)
        \/ client' = client /\ streams' = streams
    BY <1>3 DEF PagerDrains
  <2> QED
    BY <2>2, <2>3, HoldingStill, SubscribeIfNoneKeeps, QuietKeeps
<1> QED
  BY <1>1, <1>2, <1>3

\* A packet is over: its stream goes on, or everything is closed for a bootstrap.
LEMMA PacketKeeps ==
  ASSUME StreamInv,
         \/ PacketTakes \/ PacketIsStale \/ PacketRequestsBootstrap \/ PacketIsHeld
         \/ PacketIsEmpty \/ PacketEnds \/ PacketFails
  PROVE  StreamInv'
<1>1. \A pc : OneOpen(client, ResumedStreams(pc))
  BY ResumedIsAsOpen DEF StreamInv
<1>2. CASE PacketTakes \/ PacketIsStale \/ PacketEnds \/ PacketFails
  <2>1. /\ client' = client
        /\ streams' = streams \/ \E pc \in {"next", "failed"} : streams' = ResumedStreams(pc)
    BY <1>2 DEF PacketTakes, PacketIsStale, PacketEnds, PacketFails
  <2> QED
    BY <1>1, <2>1 DEF StreamInv
<1>3. CASE PacketRequestsBootstrap
  <2> DEFINE c == IF packets.at = "adding" THEN [client EXCEPT !.owed = TRUE]
                  ELSE Quarantined(client, packets.wasPending)
  <2>1. Holding(c)
    BY HoldingStill DEF Holding, Quarantined
  <2>2. OneOpen(c, ResumedStreams("next"))
    BY <1>1, <2>1, OneOpenOf
  <2>3. Schedule(c, ResumedStreams("next"), boots, client.token)
    BY <1>3 DEF PacketRequestsBootstrap
  <2> QED
    BY <2>2, <2>3, ScheduleKeeps
<1>4. CASE PacketIsHeld
  BY <1>1, <1>4, ScheduleKeeps DEF PacketIsHeld
<1>5. CASE PacketIsEmpty
  <2>1. Holding(Advanced(client))
    BY HoldingStill DEF Holding, Advanced
  <2>2. OneOpen(Advanced(client), ResumedStreams("next"))
    BY <1>1, <2>1, OneOpenOf
  <2>3. /\ client' = Advanced(client)
        /\ streams' = streams \/ streams' = ResumedStreams("next")
    BY <1>5 DEF PacketIsEmpty
  <2> QED
    BY <2>1, <2>2, <2>3, QuietKeeps DEF StreamInv
<1> QED
  BY <1>2, <1>3, <1>4, <1>5

\* The loop that reads a stream: it ends with its stream, or goes on.
LEMMA StreamKeeps ==
  ASSUME NEW h \in Streams, StreamInv, StreamStep(h)
  PROVE  StreamInv'
<1>1. /\ OneOpen(client, StreamEnded(h))
      /\ OneOpen(Without(client, h), StreamEnded(h))
  BY EndedIsClosed DEF StreamInv
<1>2. CASE StreamDelivers(h)
  <2>1. client' = client
    BY <1>2 DEF StreamDelivers
  <2> DEFINE visible == After(streams[h].at, Resolved(streams[h].asked))
  <2>2. PICK last \in visible :
            streams' = [streams EXCEPT ![h].pc = "gate", ![h].at = last,
                                       ![h].actions = {i \in visible : i <= last},
                                       ![h].grants = Granted(server.head)]
    BY <1>2 DEF StreamDelivers
  <2> DEFINE actions == {i \in visible : i <= last}
             grants == Granted(server.head)
  <2>3. streams' = [streams EXCEPT ![h] =
                       [streams[h] EXCEPT !.pc = "gate", !.at = last,
                                          !.actions = actions, !.grants = grants]]
    BY <2>2 DEF StreamInv, OneOpen, Handled
  <2> HIDE DEF actions, grants, visible
  <2> QED
    BY <2>1, <2>3 DEF StreamInv, OneOpen, Handled
<1>3. CASE StreamEnqueues(h)
  <2>1. client' = client
    BY <1>3 DEF StreamEnqueues
  <2>2. \/ streams' = StreamEnded(h)
        \/ streams' = [streams EXCEPT ![h] =
                          [streams[h] EXCEPT !.pc = "queued", !.actions = {}, !.grants = {}]]
    BY <1>3 DEF StreamEnqueues, StreamInv, OneOpen, Handled
  <2> QED
    BY <1>1, <2>1, <2>2 DEF StreamInv, OneOpen, Handled
<1>4. CASE StreamLeaves(h)
  BY <1>1, <1>4 DEF StreamLeaves, StreamInv
<1>5. CASE StreamEnds(h)
  BY <1>1, <1>5, SubscribeKeeps DEF StreamEnds, StreamInv
<1>6. CASE StreamFails(h)
  <2> DEFINE c == Without(client, h)
             run == streams[h].run
  <2>1. OneOpen([c EXCEPT !.state = "error", !.resubscribe = run], StreamEnded(h))
    BY <1>1 DEF OneOpen, Handled
  <2>2. /\ streams' = StreamEnded(h)
        /\ client' \in {c, [c EXCEPT !.state = "error", !.resubscribe = run]}
    BY <1>6 DEF StreamFails
  <2> QED
    BY <1>1, <2>1, <2>2 DEF StreamInv
<1>7. CASE StreamRequiresBootstrap(h)
  <2>1. client' = Without(client, h)
    BY <1>7 DEF StreamRequiresBootstrap
  <2>2. streams' = [streams EXCEPT ![h] = [streams[h] EXCEPT !.pc = "released", !.open = FALSE]]
    BY <1>7 DEF StreamRequiresBootstrap, StreamInv, OneOpen, Handled
  <2> QED
    BY <2>1, <2>2 DEF StreamInv, OneOpen, Handled, Without, None
<1>8. CASE StreamLatches(h)
  <2>1. OneOpen([client EXCEPT !.state = "error"], StreamEnded(h))
    BY <1>1 DEF OneOpen, Handled
  <2>2. \/ /\ client' = client
           /\ streams' = [streams EXCEPT ![h] =
                [streams[h] EXCEPT !.pc = "latching", !.wasPending = client.pending]]
        \/ /\ client' = [client EXCEPT !.state = "error"]
           /\ streams' = StreamEnded(h)
    BY <1>8 DEF StreamLatches, StreamInv, OneOpen, Handled
  <2> QED
    BY <2>1, <2>2 DEF StreamInv, OneOpen, Handled
<1>9. CASE StreamQuarantines(h)
  <2> DEFINE c == Quarantined(client, streams[h].wasPending)
  <2>1. Holding(c)
    BY HoldingStill DEF Holding, Quarantined
  <2>2. OneOpen(c, StreamEnded(h))
    BY <1>1, <2>1, OneOpenOf
  <2> QED
    BY <1>9, <2>2, ScheduleKeeps DEF StreamQuarantines
<1> QED
  BY <1>2, <1>3, <1>4, <1>5, <1>6, <1>7, <1>8, <1>9 DEF StreamStep

\* A catch-up that is too old closes the stream before it asks for a bootstrap.
LEMMA PagerKeeps ==
  ASSUME NEW p \in Pagers, StreamInv, PagerRequiresBootstrap(p) \/ PagerQuarantines(p)
  PROVE  StreamInv'
<1>1. CASE PagerRequiresBootstrap(p)
  <2>1. AllClosed(client, Closed(streams, client.subscription))
    BY ClosingClosesAll DEF StreamInv
  <2>2. \/ /\ client' = [client EXCEPT !.holds = @ \ {p}]
           /\ streams' = streams
        \/ /\ client' = [[client EXCEPT !.subscription = None] EXCEPT !.holds = @ \ {p}]
           /\ streams' = Closed(streams, client.subscription)
    BY <1>1 DEF PagerRequiresBootstrap, PagerEnds, NoHold, Released
  <2>3. CASE streams' = streams /\ client' = [client EXCEPT !.holds = @ \ {p}]
    <3>1. Holding(client')
      BY <2>3, HoldingStill DEF Holding
    <3> QED
      BY <2>3, <3>1, QuietKeeps
  <2>4. CASE /\ client' = [[client EXCEPT !.subscription = None] EXCEPT !.holds = @ \ {p}]
             /\ streams' = Closed(streams, client.subscription)
    BY <2>1, <2>4 DEF StreamInv, OneOpen, AllClosed, Handled
  <2> QED
    BY <2>2, <2>3, <2>4
<1>2. CASE PagerQuarantines(p)
  <2> DEFINE c == Quarantined(client, pagers[p].wasPending)
  <2>1. Holding(c)
    BY HoldingStill DEF Holding, Quarantined
  <2>2. OneOpen(c, streams)
    BY <2>1, OneOpenOf DEF StreamInv
  <2> QED
    BY <1>2, <2>2, ScheduleKeeps DEF PagerQuarantines
<1> QED
  BY <1>1, <1>2

\* stop() closes what is held, then every stream of the transport.
LEMMA StopKeeps ==
  ASSUME StreamInv, StopBegins \/ StopCloses \/ Crash
  PROVE  StreamInv'
<1>1. CASE StopBegins
  <2>1. AllClosed(client, streams')
    BY <1>1, ClosingClosesAll DEF StopBegins, StreamInv
  <2>2. Holding(client')
    BY <1>1, HoldingStill DEF StopBegins, Holding
  <2> QED
    BY <2>1, <2>2 DEF AllClosed, StreamInv, OneOpen, Handled, Holding
<1>2. CASE StopCloses
  BY <1>2 DEF StopCloses, StreamInv, OneOpen, Handled
<1>3. CASE Crash
  BY <1>3 DEF Crash, StreamInv, OneOpen, Handled, FreshClient, FreeStream
<1> QED
  BY <1>1, <1>2, <1>3

-----------------------------------------------------------------------------
(* The theorem.                                                              *)

LEMMA StreamStart == Init => StreamInv
  BY DEF Init, StreamInv, OneOpen, Handled, FreshClient, FreeStream

LEMMA StreamNext == StreamInv /\ [Next]_vars => StreamInv'
<1> SUFFICES ASSUME StreamInv, [Next]_vars
             PROVE  StreamInv'
  OBVIOUS
<1>1. CASE UNCHANGED vars
  BY <1>1 DEF vars, StreamInv
<1>2. 0 \in Tasks /\ 1 \in Pagers
  BY SyncClientAssumption DEF Tasks, Pagers
<1>3. CASE StartBegins \/ StartStep
  BY <1>2, <1>3, StartKeeps, ResumingKeeps DEF StartStep
<1>4. CASE \E t \in Tasks : BootStep(t) \/ CommitSteps(t)
  <2>1. PICK t \in Tasks : BootStep(t) \/ CommitSteps(t)
    BY <1>4
  <2> QED
    BY <2>1, BootKeeps, CommitKeeps, ResumingKeeps DEF BootStep, CommitSteps
<1>5. CASE PacketStep
  BY <1>5, PacketKeeps, PacketKeepsQuiet DEF PacketStep
<1>6. CASE \E h \in Streams : StreamStep(h)
  BY <1>6, StreamKeeps
<1>7. CASE \E p \in Pagers : PagerStep(p)
  BY <1>2, <1>7, PagerKeeps, PagerKeepsQuiet, TimersKeep DEF PagerStep
<1>8. CASE Timers
  BY <1>8, TimersKeep DEF Timers
<1>9. CASE StopStep \/ Environment
  BY <1>2, <1>9, StopKeeps, RestKeepsQuiet, PagerKeepsQuiet DEF StopStep, Environment
<1> QED
  BY <1>1, <1>3, <1>4, <1>5, <1>6, <1>7, <1>8, <1>9 DEF Next

\* Two streams are never open at a time, however starts, stops, crashes, reconnects, timers,
\* failed streams and bootstraps meet: an open one is the one the orchestrator holds.
THEOREM AlwaysOneStream == Spec => []OneStream
<1>1. StreamInv => OneStream
  BY DEF StreamInv, OneOpen, OneStream
<1> QED
  BY <1>1, StreamStart, StreamNext, PTL DEF Spec

-----------------------------------------------------------------------------
(* The cursors, where access is steady: the invariant.                     *)

\* Access does not change, the log is not pruned, and there is no syncNow,
\* which is bound to no run, where runs are stopped.
SteadyAccess ==
    /\ \A i \in Ids : Log[i].kind = "write"
    /\ budget.prunes = 0
    /\ budget.stops = 0 \/ budget.syncs = 0

GroupSets == {{}, {Own}}
StreamPlaces == {"free", "next", "gate", "queued", "failed"}
PagerPlaces == {"free", "fetching", "next", "queued", "failed", "draining"}
Preparing == {"opening", "loading", "fetching"}
Committing == {"committing", "quarantining", "clearing", "writing"}
Landing == {"marking", "recording", "sanitizing", "unlatching"}
BootPlaces == {"free", "hydrating"} \cup Preparing \cup Committing \cup Landing

Server == [log : Seq(Entries), head : Nat, floor : {0}]
Disk == [rows : SUBSET Nat, cursor : Nat, groups : GroupSets, complete : BOOLEAN, latch : BOOLEAN]
Client ==
    [running : BOOLEAN, token : Nat, connected : BOOLEAN,
     state : {"disconnected", "connecting", "bootstrapping", "syncing", "error"},
     cursor : Nat, snapshot : Nat, groups : GroupSets, pending : BOOLEAN, owed : {FALSE},
     maps : SUBSET Nat, subscription : Streams \cup {None}, inFlight : {None},
     resubscribe : Nat, retry : {0}, holds : SUBSET Pagers,
     stop : {"none", "closing", "draining", "joining"}, clears : BOOLEAN, open : BOOLEAN]
Stream ==
    [pc : StreamPlaces, open : BOOLEAN, run : Nat, snapshot : Nat, at : Nat, asked : GroupSets,
     actions : SUBSET Nat, grants : SUBSET Groups, wasPending : BOOLEAN]
CatchUp ==
    [pc : PagerPlaces, kind : {"none", "catchUp", "reconnect", "syncNow"}, run : Nat,
     snapshot : Nat, after : Nat, asked : GroupSets, buffer : SUBSET Nat, grants : SUBSET Groups,
     more : BOOLEAN, wasPending : BOOLEAN]
Taken == [id : Nat, groups : GroupSets, rows : SUBSET Nat]
Boot ==
    [pc : BootPlaces, run : Nat, asked : GroupSets, fetched : BOOLEAN, snap : Taken, read : Disk,
     privacy : BOOLEAN, landed : BOOLEAN]
Owners == {StreamRef(h) : h \in Streams} \cup {PagerRef(q) : q \in Pagers}
Delivery ==
    [owner : Owners, actions : SUBSET Nat, last : Nat, grants : SUBSET Groups, snapshot : Nat]
Deliveries ==
    [queue : Seq(Delivery), at : {"none", "locking", "rebasing", "writing", "advancing"},
     wasPending : BOOLEAN]

\* The rows up to n that the user may read.
Mine(log, n) == {i \in 1 .. n : log[i].group = Own}

\* What a source of packets has from `cursor` to `last` is among `actions`.
Carries(log, actions, last, cursor) ==
    /\ actions \subseteq DOMAIN log
    /\ \A i \in Mine(log, last) : i <= cursor \/ i \in actions

LogInv(sv, bg) ==
    /\ sv \in Server /\ sv.head <= Len(sv.log)
    /\ \A i \in DOMAIN sv.log : sv.log[i].kind = "write"
    /\ bg \in [Chances -> Nat] /\ bg.prunes = 0

\* A run is not stopped, or no syncNow is under way.
ApartInv(bg, c, g) ==
    \/ bg.stops = 0 /\ c.stop = "none"
    \/ bg.syncs = 0 /\ \A q \in Pagers : g[q].pc # "free" => g[q].run # 0

DiskInv(sv, d) ==
    d \in Disk /\ d.cursor <= sv.head /\ Mine(sv.log, d.cursor) \subseteq d.rows

\* What the cursor in memory claims is on the screen and in the store.
Covered(sv, d, c) ==
    /\ c.cursor <= sv.head
    /\ Mine(sv.log, c.cursor) \subseteq c.maps
    /\ Mine(sv.log, c.cursor) \subseteq d.rows

Started(c, b) == c.running /\ b[0].pc = "free"
Busy(c, p) == p.queue # <<>> \/ c.subscription # None \/ c.state = "syncing"

\* So it is while the client is live, and as long as it winds up.
LiveInv(sv, d, c, b, p) ==
    Started(c, b) \/ Busy(c, p) => Covered(sv, d, c) /\ ~c.pending

\* A client that starts, and one that has stopped, has no packet and no stream.
QuietInv(c, b, p) ==
    /\ c.stop # "none" => ~c.running
    /\ c.running => c.token # 0
    /\ c.subscription # None => c.running \/ c.stop = "closing"
    /\ p.queue # <<>> => c.running \/ c.stop \in {"closing", "draining"}
    /\ c.stop = "joining" => c.state # "syncing"
    /\ b[0].pc # "free" => ~Busy(c, p)
    /\ b[0].pc # "free" /\ c.running =>
         b[0].run = c.token /\ c.state \in {"connecting", "bootstrapping"}

\* What start() has in hand.
StartInv(sv, d, c, s) ==
    /\ s.pc \in Committing => s.snap.id <= sv.head /\ Mine(sv.log, s.snap.id) \subseteq s.snap.rows
    /\ c.running =>
         /\ s.pc \in {"loading", "hydrating"} => s.read = d
         /\ s.pc \in {"fetching", "hydrating"} => c.cursor = d.cursor
         /\ s.pc = "writing" => s.snap.rows \subseteq d.rows
         /\ s.pc \in Landing => Covered(sv, d, c)
BootsInv(sv, d, c, b) ==
    /\ b \in [Tasks -> Boot]
    /\ \A t \in Boots : b[t].pc = "free"
    /\ StartInv(sv, d, c, b[0])

\* A run that is active has started.
Begun(run, c, b) == run <= c.token /\ (ActiveIn(c, run) => b[0].pc = "free")

\* The stream that is held continues from what was applied.
HeldInv(sv, c, s) ==
    /\ s.snapshot = c.snapshot /\ s.at <= sv.head
    /\ s.pc = "next" /\ c.running => Carries(sv.log, {}, s.at, c.cursor)
    /\ s.pc = "gate" => Carries(sv.log, s.actions, s.at, c.cursor)
StreamsInv(sv, c, s, b) ==
    /\ s \in [Streams -> Stream]
    /\ c.resubscribe # 0 => Begun(c.resubscribe, c, b)
    /\ \A h \in Streams :
         /\ s[h].pc # "free" => Begun(s[h].run, c, b)
         /\ c.subscription = h => HeldInv(sv, c, s[h])

\* So does a catch-up that goes on.
Going(c, g) == g.pc # "free" /\ (g.run = 0 \/ ActiveIn(c, g.run))
GoingInv(sv, c, g) ==
    /\ g.snapshot = c.snapshot /\ g.after <= sv.head /\ g.buffer \subseteq DOMAIN sv.log
    /\ g.pc \in {"fetching", "next"} => Carries(sv.log, g.buffer, g.after, c.cursor)
PagersInv(sv, c, g, b) ==
    /\ g \in [Pagers -> CatchUp]
    /\ \A q \in Pagers :
         /\ g[q].pc # "free" => g[q].run <= c.token
         /\ Going(c, g[q]) => Started(c, b) /\ GoingInv(sv, c, g[q])

\* Whoever a packet is from waits for it, and goes on from its end.
Waits(k, s, g) ==
    \/ \E h \in Streams : k.owner = StreamRef(h) /\ s[h].pc = "queued" /\ s[h].at = k.last
    \/ \E q \in Pagers : k.owner = PagerRef(q) /\ g[q].pc = "queued" /\ g[q].after = k.last
PacketInv(sv, c, s, g, k) ==
    /\ k.last <= sv.head /\ k.snapshot = c.snapshot
    /\ Carries(sv.log, k.actions, k.last, c.cursor)
    /\ Waits(k, s, g)
Unread(c, k) == {i \in k.actions : i > c.cursor}
PacketsInv(sv, d, c, s, g, p) ==
    /\ p \in Deliveries
    /\ \A i \in DOMAIN p.queue : PacketInv(sv, c, s, g, p.queue[i])
    /\ \A i, j \in DOMAIN p.queue : p.queue[i].owner = p.queue[j].owner => i = j
    /\ p.at # "none" => p.queue # <<>>
    /\ p.at = "writing" => Unread(c, Head(p.queue)) \subseteq d.rows
    /\ p.at = "advancing" => Head(p.queue).last <= c.cursor

CoverInv ==
    /\ LogInv(server, budget) /\ ApartInv(budget, client, pagers) /\ DiskInv(server, disk)
    /\ client \in Client
    /\ LiveInv(server, disk, client, boots, packets)
    /\ QuietInv(client, boots, packets)
    /\ BootsInv(server, disk, client, boots)
    /\ StreamsInv(server, client, streams, boots)
    /\ PagersInv(server, client, pagers, boots)
    /\ PacketsInv(server, disk, client, streams, pagers, packets)

-----------------------------------------------------------------------------
(* What a reader finds. *)

\* The user has its own group throughout.
LEMMA GrantedIsOwn ==
  ASSUME LogInv(server, budget), NEW n \in Nat, n <= server.head
  PROVE  Granted(n) = {Own}
<1>1. 1 .. n \subseteq DOMAIN server.log
  BY DEF LogInv, Server
<1>2. Changes(1 .. n) = {}
  BY <1>1 DEF Changes, Log, LogInv
<1> QED
  BY <1>2 DEF Granted

\* Whatever is asked for, it is answered with that.
LEMMA ResolvedIsOwn ==
  ASSUME LogInv(server, budget), NEW asked \in GroupSets
  PROVE  Resolved(asked) = {Own}
<1>1. Granted(server.head) = {Own}
  BY GrantedIsOwn DEF LogInv, Server
<1> QED
  BY <1>1 DEF Resolved, GroupSets

\* What is visible after a cursor, index by index.
LEMMA AfterIsMine ==
  ASSUME LogInv(server, budget), NEW cursor \in Nat
  PROVE  /\ After(cursor, {Own}) = {i \in cursor + 1 .. server.head : server.log[i].group = Own}
         /\ After(cursor, {Own}) \subseteq DOMAIN server.log
<1>1. \A i \in cursor + 1 .. server.head :
        i \in DOMAIN server.log /\ server.log[i].kind = "write" /\ i > server.floor
  BY DEF LogInv, Server
<1> QED
  BY <1>1 DEF After, Reads, Log

\* A bounded set of numbers has a highest one.
LEMMA HighestIsOne ==
  ASSUME NEW S \in SUBSET Nat, NEW n \in Nat, \A i \in S : i <= n, S # {}
  PROVE  Highest(S) \in S /\ \A i \in S : i <= Highest(S)
<1>1. Sets!IsFiniteSet(S)
  BY Sets!FS_BoundedSetOfNaturals
<1>2. \E i \in S : \A j \in S : j <= i
  BY <1>1, Sets!GreatestExists
<1> QED
  BY <1>2 DEF Highest

\* A snapshot has every row of the user up to its id.
LEMMA SnapshotIsMine ==
  ASSUME LogInv(server, budget), NEW asked \in GroupSets
  PROVE  /\ Snapshot(asked) \in Taken /\ Snapshot(asked).id <= server.head
         /\ Mine(server.log, Snapshot(asked).id) \subseteq Snapshot(asked).rows
<1> DEFINE visible == After(0, {Own})
           id == IF visible = {} THEN 0 ELSE Highest(visible)
<1>1. Resolved(asked) = {Own}
  BY ResolvedIsOwn
<1>2. server.head \in Nat /\ server.head <= Len(server.log) /\ 0 \in Nat
  BY DEF LogInv, Server
<1>3. visible \in SUBSET Nat /\ \A i \in visible : i <= server.head
  <2>1. visible = {i \in 0 + 1 .. server.head : server.log[i].group = Own}
    BY AfterIsMine
  <2> HIDE DEF visible
  <2>2. \A i \in visible : i \in 1 .. server.head
    BY <2>1
  <2> QED
    BY <1>2, <2>2
<1>4. id \in Nat /\ id <= server.head
  <2>1. CASE visible = {}
    BY <1>2, <2>1
  <2>2. CASE visible # {}
    <3> HIDE DEF visible
    <3>1. Highest(visible) \in visible
      BY <1>2, <1>3, <2>2, HighestIsOne
    <3> QED
      BY <1>3, <2>2, <3>1
  <2> QED
    BY <2>1, <2>2
<1>5. LastSyncId({Own}) = id
  BY DEF LastSyncId
<1>6. Snapshot(asked) = [id |-> id, groups |-> {Own}, rows |-> Writes(server.head, {Own})]
  BY <1>1, <1>5 DEF Snapshot
<1> HIDE DEF id, visible
<1>7. \A i \in 1 .. server.head : i \in DOMAIN server.log /\ server.log[i].kind = "write"
  BY <1>2 DEF LogInv, Server
<1>8. Mine(server.log, id) \subseteq Writes(server.head, {Own})
  BY <1>2, <1>4, <1>7 DEF Mine, Writes, Log
<1>9. Writes(server.head, {Own}) \in SUBSET Nat
  BY <1>2 DEF Writes
<1> QED
  BY <1>4, <1>6, <1>8, <1>9 DEF Taken, GroupSets

\* A page of what is visible ends before anything that is not in it.
LEMMA PageHasNoGap ==
  ASSUME NEW visible \in SUBSET Nat, IsFiniteSet(visible), NEW size \in Nat,
         NEW last \in {i \in visible : Cardinality({j \in visible : j <= i}) <= size},
         NEW i \in visible, i <= last
  PROVE  Cardinality({j \in visible : j <= i}) <= size
<1>1. {j \in visible : j <= i} \subseteq {j \in visible : j <= last}
  <2>1. last \in Nat /\ i \in Nat /\ \A j \in visible : j \in Nat
    OBVIOUS
  <2>2. \A j \in visible : j <= i => j <= last
    BY <2>1
  <2> QED
    BY <2>2
<1>2. IsFiniteSet({j \in visible : j <= last})
  BY FS_Subset
<1>3. /\ Cardinality({j \in visible : j <= i}) <= Cardinality({j \in visible : j <= last})
      /\ Cardinality({j \in visible : j <= i}) \in Nat
      /\ Cardinality({j \in visible : j <= last}) \in Nat
  BY <1>1, <1>2, FS_Subset, FS_CardinalityType
<1> QED
  BY <1>3

\* A part of what is visible that ends at `last` carries what is up to there.
LEMMA ReadingCarries ==
  ASSUME LogInv(server, budget), NEW at \in Nat, NEW actions, NEW cursor \in Nat, NEW more,
         NEW last \in Nat, at <= last, last <= server.head,
         Carries(server.log, actions, at, cursor),
         more \subseteq After(at, {Own}),
         \A i \in After(at, {Own}) : i <= last => i \in more
  PROVE  Carries(server.log, actions \cup more, last, cursor)
<1>1. more \subseteq DOMAIN server.log
  BY AfterIsMine
<1>2. ASSUME NEW i \in Mine(server.log, last)
      PROVE  i <= cursor \/ i \in actions \/ i \in more
  <2>1. CASE i <= at
    BY <1>2, <2>1 DEF Carries, Mine
  <2>2. CASE ~(i <= at)
    <3>1. /\ i \in Nat /\ i <= last /\ server.log[i].group = Own /\ i \in at + 1 .. server.head
      BY <1>2, <2>2 DEF Mine, LogInv, Server
    <3>2. i \in After(at, {Own})
      BY <3>1, AfterIsMine
    <3> QED
      BY <3>1, <3>2
  <2> QED
    BY <2>1, <2>2
<1> QED
  BY <1>1, <1>2 DEF Carries

\* What is carried from a cursor is carried from a later one, and nothing
\* needs to be up to the cursor itself.
LEMMA CarriesFurther ==
  ASSUME NEW log, NEW actions, NEW last, NEW cursor \in Nat, NEW later \in Nat, cursor <= later,
         Carries(log, actions, last, cursor)
  PROVE  Carries(log, actions, last, later)
  BY DEF Carries, Mine

LEMMA NothingToCarry ==
  ASSUME NEW log, NEW actions, NEW last \in Nat, NEW cursor \in Nat, last <= cursor,
         actions \subseteq DOMAIN log
  PROVE  Carries(log, actions, last, cursor)
  BY DEF Carries, Mine

-----------------------------------------------------------------------------
(* What leaves the parts of the invariant as they are. *)

\* Nothing that has not started is active after a step from c, b to d, e.
NoSooner(c, b, d, e) ==
    c.token <= d.token /\ \A run \in Nat : Begun(run, c, b) => Begun(run, d, e)

\* A run that ends, or is followed by another, does not become active.
LEMMA NoSoonerThan ==
  ASSUME NEW c \in Client, NEW d \in Client, NEW b, NEW e, c.token <= d.token,
         \/ ~d.running \/ d.token > c.token
         \/ d.token = c.token /\ d.running = c.running /\ (b[0].pc = "free" => e[0].pc = "free")
  PROVE  NoSooner(c, b, d, e)
<1>1. c.token \in Nat /\ d.token \in Nat
  BY DEF Client
<1> QED
  BY <1>1 DEF NoSooner, Begun, ActiveIn

\* The cursor may move while the subscription stays.
LEMMA StreamsKept ==
  ASSUME NEW sv, NEW c \in Client, NEW d \in Client, NEW s, NEW b, NEW e, StreamsInv(sv, c, s, b),
         d.subscription = c.subscription, d.resubscribe = c.resubscribe, d.token = c.token,
         d.running = c.running, d.snapshot = c.snapshot, c.cursor <= d.cursor,
         b[0].pc = "free" => e[0].pc = "free"
  PROVE  StreamsInv(sv, d, s, e)
<1>1. /\ c.cursor \in Nat /\ d.cursor \in Nat /\ c.resubscribe \in Nat
      /\ c.token <= d.token
  BY DEF Client
<1>2. NoSooner(c, b, d, e)
  BY <1>1, NoSoonerThan
<1>3. \A h \in Streams : s[h].run \in Nat
  BY DEF StreamsInv, Stream
<1>4. \A h \in Streams : HeldInv(sv, c, s[h]) => HeldInv(sv, d, s[h])
  BY <1>1, CarriesFurther DEF HeldInv
<1> QED
  BY <1>1, <1>2, <1>3, <1>4 DEF StreamsInv, NoSooner

\* A subscription may be given up at any time.
LEMMA StreamsUnheld ==
  ASSUME NEW sv, NEW c \in Client, NEW d \in Client, NEW s, NEW b, NEW e, StreamsInv(sv, c, s, b),
         d.subscription = None, d.resubscribe \in {0, c.resubscribe}, NoSooner(c, b, d, e)
  PROVE  StreamsInv(sv, d, s, e)
<1>1. c.resubscribe \in Nat
  BY DEF Client
<1>2. \A h \in Streams : s[h].run \in Nat /\ h # None
  BY DEF StreamsInv, Stream, Streams, None
<1> QED
  BY <1>1, <1>2 DEF StreamsInv, NoSooner

\* No catch-up goes on while the client starts or does not run.
LEMMA NoneGoesOn ==
  ASSUME NEW sv, NEW c, NEW g, NEW b, PagersInv(sv, c, g, b), ~Started(c, b)
  PROVE  \A q \in Pagers : ~Going(c, g[q])
  BY DEF PagersInv

\* The cursor may move while the run goes on.
LEMMA PagersKept ==
  ASSUME NEW sv, NEW c \in Client, NEW d \in Client, NEW g, NEW b, NEW e, PagersInv(sv, c, g, b),
         d.token = c.token, d.running = c.running, d.snapshot = c.snapshot, c.cursor <= d.cursor,
         Started(c, b) => Started(d, e)
  PROVE  PagersInv(sv, d, g, e)
<1>1. c.cursor \in Nat /\ d.cursor \in Nat
  BY DEF Client
<1>2. \A q \in Pagers : Going(d, g[q]) => Going(c, g[q])
  BY DEF Going, ActiveIn
<1>3. \A q \in Pagers : GoingInv(sv, c, g[q]) => GoingInv(sv, d, g[q])
  BY <1>1, CarriesFurther DEF GoingInv
<1> QED
  BY <1>2, <1>3 DEF PagersInv

\* Catch-ups of a run that is over are about nothing.
LEMMA PagersRest ==
  ASSUME NEW sv, NEW c \in Client, NEW d \in Client, NEW g, NEW b, NEW e, PagersInv(sv, c, g, b),
         c.token <= d.token, \A q \in Pagers : ~Going(d, g[q])
  PROVE  PagersInv(sv, d, g, e)
<1>1. c.token \in Nat /\ d.token \in Nat
  BY DEF Client
<1>2. \A q \in Pagers : g[q].run \in Nat
  BY DEF PagersInv, CatchUp
<1> QED
  BY <1>1, <1>2 DEF PagersInv

\* Whoever waits for a packet still does.
StillQueued(s, z) ==
    \A h \in Streams : s[h].pc = "queued" => z[h].pc = "queued" /\ z[h].at = s[h].at
StillWaits(g, z) ==
    \A q \in Pagers : g[q].pc = "queued" => z[q].pc = "queued" /\ z[q].after = g[q].after

\* A packet stays good as the cursor moves, as long as someone waits for it.
LEMMA PacketKept ==
  ASSUME NEW sv, NEW c \in Client, NEW d \in Client, NEW s, NEW z, NEW g, NEW y, NEW k,
         PacketInv(sv, c, s, g, k), StillQueued(s, z), StillWaits(g, y),
         d.snapshot = c.snapshot, c.cursor <= d.cursor
  PROVE  PacketInv(sv, d, z, y, k)
<1>1. c.cursor \in Nat /\ d.cursor \in Nat
  BY DEF Client
<1>2. Waits(k, z, y)
  BY DEF PacketInv, Waits, StillQueued, StillWaits
<1> QED
  BY <1>1, <1>2, CarriesFurther DEF PacketInv

\* The queue stays good while the cursor stays and rows are added.
LEMMA PacketsKept ==
  ASSUME NEW sv, NEW c \in Client, NEW d \in Client, NEW s, NEW z, NEW g, NEW y, NEW p,
         NEW dk, NEW dl, PacketsInv(sv, dk, c, s, g, p), StillQueued(s, z), StillWaits(g, y),
         d.snapshot = c.snapshot, d.cursor = c.cursor, dk.rows \subseteq dl.rows
  PROVE  PacketsInv(sv, dl, d, z, y, p)
<1>1. \A k : PacketInv(sv, c, s, g, k) => PacketInv(sv, d, z, y, k)
  <2>1. c.cursor <= d.cursor
    BY DEF Client
  <2> QED
    BY <2>1, PacketKept
<1>2. \A k : Unread(d, k) = Unread(c, k)
  BY DEF Unread
<1> QED
  BY <1>1, <1>2 DEF PacketsInv

\* An empty queue stays good whatever happens.
LEMMA NoPacketIsLeft ==
  ASSUME NEW sv, NEW c, NEW d, NEW s, NEW z, NEW g, NEW y, NEW p, NEW dk, NEW dl,
         PacketsInv(sv, dk, c, s, g, p), p.queue = <<>>
  PROVE  PacketsInv(sv, dl, d, z, y, p)
  BY DEF PacketsInv

\* start() is not about what happens once it is over.
LEMMA BootsKept ==
  ASSUME NEW sv, NEW c, NEW d, NEW b, NEW dk, NEW dl, BootsInv(sv, dk, c, b),
         b[0].pc = "free" \/ ~d.running
  PROVE  BootsInv(sv, dl, d, b)
  BY DEF BootsInv, StartInv, Committing, Landing

-----------------------------------------------------------------------------
(* Streams and catch-ups begin. *)

\* What there is at first, and after a reload.
LEMMA NothingIsTyped ==
  /\ FreeStream \in Stream /\ FreePager \in CatchUp /\ EmptyDisk \in Disk
  /\ FreeBoot \in Boot /\ FreshClient \in Client /\ NoPackets \in Deliveries
<1>1. {} \in GroupSets
  BY DEF GroupSets
<1>2. FreeStream \in Stream
  BY <1>1 DEF FreeStream, Stream, StreamPlaces
<1>3. FreePager \in CatchUp
  BY <1>1 DEF FreePager, CatchUp, PagerPlaces
<1>4. EmptyDisk \in Disk
  BY <1>1 DEF EmptyDisk, Disk
<1>5. [id |-> 0, groups |-> {}, rows |-> {}] \in Taken
  BY <1>1 DEF Taken
<1>6. FreeBoot \in Boot
  BY <1>1, <1>4, <1>5 DEF FreeBoot, Boot, BootPlaces
<1>7. FreshClient \in Client
  BY <1>1 DEF FreshClient, Client, None
<1>8. NoPackets \in Deliveries
  BY DEF NoPackets, Deliveries
<1> QED
  BY <1>2, <1>3, <1>4, <1>6, <1>7, <1>8

\* All fields but the handle, and what no part of the invariant is about.
SameButStream(c, d) ==
    /\ d.running = c.running /\ d.token = c.token /\ d.state = c.state /\ d.cursor = c.cursor
    /\ d.snapshot = c.snapshot /\ d.pending = c.pending /\ d.maps = c.maps
    /\ d.resubscribe = c.resubscribe /\ d.stop = c.stop

\* startDeltaSubscription: the new stream continues from the cursor.
LEMMA SubscribeCovers ==
  ASSUME NEW sv \in Server, NEW c \in Client, NEW s, NEW b, StreamsInv(sv, c, s, b),
         b[0].pc = "free", c.cursor <= sv.head, Subscribe(c, s)
  PROVE  /\ StreamsInv(sv, client', streams', b) /\ StillQueued(s, streams')
         /\ client' \in Client /\ SameButStream(c, client')
<1> DEFINE closed == Closed(s, c.subscription)
           h == Lowest(Free(closed, Streams))
           opened == [FreeStream EXCEPT !.pc = "next", !.open = TRUE, !.run = c.token,
                                        !.snapshot = c.snapshot, !.at = c.cursor,
                                        !.asked = c.groups]
<1>1. /\ h \in Streams /\ closed[h].pc = "free"
      /\ client' = [c EXCEPT !.subscription = h]
      /\ streams' = [closed EXCEPT ![h] = opened]
  BY FreeStreamIsThere DEF Subscribe
<1>2. /\ closed \in [Streams -> Stream]
      /\ \A j \in Streams : /\ closed[j].pc = s[j].pc /\ closed[j].at = s[j].at
                            /\ closed[j].run = s[j].run
  <2>1. \A j \in Streams : s[j] \in Stream /\ [s[j] EXCEPT !.open = FALSE] \in Stream
    BY DEF StreamsInv, Stream
  <2>2. \A j \in Streams : /\ [s[j] EXCEPT !.open = FALSE].pc = s[j].pc
                           /\ [s[j] EXCEPT !.open = FALSE].at = s[j].at
                           /\ [s[j] EXCEPT !.open = FALSE].run = s[j].run
    BY <2>1 DEF Stream
  <2>3. c.subscription \in Streams \cup {None} /\ s \in [Streams -> Stream]
    BY DEF Client, StreamsInv
  <2> QED
    BY <2>1, <2>2, <2>3 DEF Closed
<1>3. /\ opened \in Stream /\ opened.pc = "next" /\ opened.run = c.token
      /\ opened.snapshot = c.snapshot /\ opened.at = c.cursor
  <2>1. /\ c.token \in Nat /\ c.snapshot \in Nat /\ c.cursor \in Nat /\ c.groups \in GroupSets
    BY DEF Client
  <2> QED
    BY <2>1 DEF FreeStream, Stream, StreamPlaces
<1>4. client' \in Client /\ client'.subscription = h /\ SameButStream(c, client')
  BY <1>1 DEF Client, SameButStream
<1> HIDE DEF closed, h, opened
<1>5. streams' \in [Streams -> Stream] /\ streams'[h] = opened
  BY <1>1, <1>2, <1>3
<1>6. \A j \in Streams : j # h => /\ streams'[j].pc = s[j].pc /\ streams'[j].at = s[j].at
                                  /\ streams'[j].run = s[j].run
  BY <1>1, <1>2
<1>7. StillQueued(s, streams')
  BY <1>1, <1>2, <1>6 DEF StillQueued
<1>8. \A run : Begun(run, c, b) => Begun(run, client', b)
  BY <1>4 DEF Begun, ActiveIn, SameButStream
<1>9. \A j \in Streams : streams'[j].pc # "free" => Begun(streams'[j].run, client', b)
  <2>1. Begun(c.token, client', b)
    BY <1>4 DEF Begun, SameButStream, Client
  <2> QED
    BY <1>3, <1>5, <1>6, <1>8, <2>1 DEF StreamsInv
<1>10. HeldInv(sv, client', opened)
  <2>1. Carries(sv.log, {}, c.cursor, c.cursor)
    BY NothingToCarry DEF Client
  <2> QED
    BY <1>3, <1>4, <2>1 DEF HeldInv, SameButStream
<1>11. client'.resubscribe # 0 => Begun(client'.resubscribe, client', b)
  BY <1>4, <1>8 DEF StreamsInv, SameButStream
<1> QED
  BY <1>4, <1>5, <1>7, <1>9, <1>10, <1>11 DEF StreamsInv

\* So it is when a stream is opened unless there is one.
LEMMA SubscribeIfNoneCovers ==
  ASSUME NEW sv \in Server, NEW c \in Client, NEW s, NEW b, StreamsInv(sv, c, s, b),
         b[0].pc = "free", c.cursor <= sv.head, SubscribeIfNone(c, s)
  PROVE  /\ StreamsInv(sv, client', streams', b) /\ StillQueued(s, streams')
         /\ client' \in Client /\ SameButStream(c, client')
<1>1. CASE c.subscription = None
  BY <1>1, SubscribeCovers DEF SubscribeIfNone
<1>2. CASE c.subscription # None
  <2>1. client' = c /\ streams' = s
    BY <1>2 DEF SubscribeIfNone
  <2> QED
    BY <2>1 DEF SameButStream, StillQueued
<1> QED
  BY <1>1, <1>2

Spawned(g, kind, run, c) == [g EXCEPT ![Lowest(Free(g, Pagers))] = Pager(kind, run, c)]
SpawnInv(sv, c, g, b, kind, run) ==
    LET y == Spawned(g, kind, run, c)
    IN  /\ PagersInv(sv, c, y, b) /\ StillWaits(g, y)
        /\ \A q \in Pagers : y[q].pc # "free" =>
             \/ g[q].pc # "free" /\ y[q].run = g[q].run
             \/ y[q].run = run

\* fetchAndApplyDeltaPages: so does a new catch-up.
LEMMA SpawnCovers ==
  ASSUME NEW sv \in Server, NEW c \in Client, NEW g, NEW b, PagersInv(sv, c, g, b), Started(c, b),
         c.cursor <= sv.head, NEW kind \in {"catchUp", "reconnect", "syncNow"},
         NEW run \in {0, c.token}, Free(g, Pagers) # {}
  PROVE  SpawnInv(sv, c, g, b, kind, run)
<1> DEFINE q == Lowest(Free(g, Pagers))
           new == Pager(kind, run, c)
           y == Spawned(g, kind, run, c)
<1>1. q \in Pagers /\ g[q].pc = "free"
  <2>1. MaxPagers \in Nat /\ Free(g, Pagers) \in SUBSET (1 .. MaxPagers)
    BY SyncClientAssumption DEF Free, Pagers
  <2>2. Lowest(Free(g, Pagers)) \in Free(g, Pagers)
    BY <2>1, LowestIsOne
  <2> QED
    BY <2>2 DEF Free
<1>2. /\ c.token \in Nat /\ c.snapshot \in Nat /\ c.cursor \in Nat /\ c.groups \in GroupSets
  BY DEF Client
<1>3. /\ new \in CatchUp /\ new.pc = "fetching" /\ new.run = run /\ new.snapshot = c.snapshot
      /\ new.after = c.cursor /\ new.buffer = {}
  <2>1. FreePager \in CatchUp /\ FreePager.buffer = {}
    BY NothingIsTyped DEF FreePager
  <2>2. run \in Nat /\ "fetching" \in PagerPlaces
    BY <1>2 DEF PagerPlaces
  <2> QED
    BY <1>2, <2>1, <2>2 DEF CatchUp, Pager
<1> HIDE DEF q, new, y
<1>4. y = [g EXCEPT ![q] = new]
  BY DEF q, new, y, Spawned
<1>5. y \in [Pagers -> CatchUp] /\ y[q] = new /\ \A i \in Pagers : i # q => y[i] = g[i]
  BY <1>1, <1>3, <1>4 DEF PagersInv
<1>6. GoingInv(sv, c, new)
  <2>1. Carries(sv.log, {}, c.cursor, c.cursor)
    BY <1>2, NothingToCarry
  <2> QED
    BY <1>3, <2>1 DEF GoingInv
<1>7. run <= c.token
  BY <1>2
<1>8. PagersInv(sv, c, y, b)
  BY <1>3, <1>5, <1>6, <1>7 DEF PagersInv
<1> QED
  BY <1>1, <1>3, <1>5, <1>8 DEF StillWaits, SpawnInv, y

-----------------------------------------------------------------------------
(* The parts of start(). *)

\* A chance of the environment is used up.
LEMMA ChanceIsUsed ==
  ASSUME NEW sv, NEW bg, LogInv(sv, bg), NEW x \in Chances, bg[x] > 0, x # "prunes"
  PROVE  /\ LogInv(sv, [bg EXCEPT ![x] = @ - 1])
         /\ bg.stops = 0 => [bg EXCEPT ![x] = @ - 1].stops = 0
         /\ bg.syncs = 0 => [bg EXCEPT ![x] = @ - 1].syncs = 0
<1>1. bg \in [Chances -> Nat] /\ bg.prunes = 0
  BY DEF LogInv
<1>2. {"prunes", "stops", "syncs"} \subseteq Chances
  BY DEF Chances
<1>3. bg[x] - 1 \in Nat
  BY <1>1
<1>4. [bg EXCEPT ![x] = @ - 1] \in [Chances -> Nat]
  BY <1>1, <1>3
<1>5. [bg EXCEPT ![x] = @ - 1].prunes = 0
  BY <1>1, <1>2
<1>6. /\ bg.stops = 0 => [bg EXCEPT ![x] = @ - 1].stops = 0
      /\ bg.syncs = 0 => [bg EXCEPT ![x] = @ - 1].syncs = 0
  BY <1>1, <1>2
<1> QED
  BY <1>4, <1>5, <1>6 DEF LogInv

\* No stop meets a syncNow that was not there.
LEMMA ApartKept ==
  ASSUME NEW bg, NEW bh, NEW c, NEW d, NEW g, NEW y, ApartInv(bg, c, g),
         bg.stops = 0 => bh.stops = 0, bg.syncs = 0 => bh.syncs = 0,
         c.stop = "none" => d.stop = "none",
         \A q \in Pagers : y[q].pc # "free" => g[q].pc # "free" /\ y[q].run = g[q].run
  PROVE  ApartInv(bh, d, y)
  BY DEF ApartInv

\* A step of start() but its last.
LEMMA StartingCovers ==
  ASSUME CoverInv, boots[0].pc # "free",
         UNCHANGED <<server, streams, pagers, packets>>,
         LogInv(server, budget'), ApartInv(budget', client', pagers), DiskInv(server, disk'),
         client' \in Client, client'.subscription = client.subscription,
         client'.token = client.token, client'.running = client.running,
         client'.resubscribe = client.resubscribe, client'.stop = client.stop,
         client'.state # "syncing",
         client.running => client'.state \in {"connecting", "bootstrapping"},
         boots' \in [Tasks -> Boot], \A t \in Boots : boots'[t] = boots[t],
         boots'[0].pc # "free", boots'[0].run = boots[0].run,
         StartInv(server, disk', client', boots'[0])
  PROVE  CoverInv'
<1>2. boots'[0].pc # "free"
  OBVIOUS
<1>3. BootsInv(server, disk', client', boots')
  BY <1>2 DEF CoverInv, BootsInv
<1>4. packets.queue = <<>> /\ client.subscription = None /\ ~Busy(client', packets)
  BY DEF CoverInv, QuietInv, Busy
<1>5. LiveInv(server, disk', client', boots', packets)
  BY <1>2, <1>4 DEF LiveInv, Started
<1>6. QuietInv(client', boots', packets)
  BY <1>2, <1>4 DEF CoverInv, QuietInv, Busy
<1>7. NoSooner(client, boots, client', boots')
  <2>1. client.token <= client'.token
    BY DEF CoverInv, Client
  <2> QED
    BY <2>1, NoSoonerThan DEF CoverInv
<1>8. StreamsInv(server, client', streams, boots')
  BY <1>4, <1>7, StreamsUnheld DEF CoverInv
<1>9. PagersInv(server, client', pagers, boots')
  <2>1. \A q \in Pagers : ~Going(client', pagers[q])
    BY NoneGoesOn DEF CoverInv, Started, Going, ActiveIn
  <2>2. client.token <= client'.token
    BY DEF CoverInv, Client
  <2> QED
    BY <2>1, <2>2, PagersRest DEF CoverInv
<1>10. PacketsInv(server, disk', client', streams, pagers, packets)
  BY <1>4, NoPacketIsLeft DEF CoverInv
<1> QED
  BY <1>3, <1>5, <1>6, <1>8, <1>9, <1>10 DEF CoverInv

\* start() gives up, or fails.
LEMMA StartEndsCovers ==
  ASSUME CoverInv, boots[0].pc # "free",
         UNCHANGED <<server, disk, streams, pagers, packets>>,
         LogInv(server, budget'), ApartInv(budget', client', pagers),
         client' \in Client, client'.subscription = client.subscription,
         client.token <= client'.token, ~client'.running,
         client'.resubscribe = client.resubscribe, client'.stop = client.stop,
         client'.state # "syncing", boots' = [boots EXCEPT ![0] = FreeBoot]
  PROVE  CoverInv'
<1>1. 0 \in Tasks /\ 0 \notin Boots /\ boots \in [Tasks -> Boot] /\ Boots \subseteq Tasks
  BY SyncClientAssumption DEF Tasks, Boots, CoverInv, BootsInv
<1>2. /\ boots'[0] = FreeBoot /\ (\A t \in Boots : boots'[t] = boots[t])
      /\ boots' \in [Tasks -> Boot] /\ FreeBoot.pc = "free"
  BY <1>1, NothingIsTyped DEF FreeBoot
<1>3. BootsInv(server, disk, client', boots')
  BY <1>2 DEF CoverInv, BootsInv, StartInv, Committing
<1>4. packets.queue = <<>> /\ client.subscription = None /\ ~Busy(client', packets)
  BY DEF CoverInv, QuietInv, Busy
<1>5. LiveInv(server, disk, client', boots', packets)
  BY <1>2, <1>4 DEF LiveInv, Started
<1>6. QuietInv(client', boots', packets)
  BY <1>2, <1>4 DEF CoverInv, QuietInv, Busy
<1>7. NoSooner(client, boots, client', boots')
  BY NoSoonerThan DEF CoverInv
<1>8. StreamsInv(server, client', streams, boots')
  BY <1>4, <1>7, StreamsUnheld DEF CoverInv
<1>9. PagersInv(server, client', pagers, boots')
  <2>1. \A q \in Pagers : ~Going(client', pagers[q])
    BY NoneGoesOn DEF CoverInv, Started, Going, ActiveIn
  <2> QED
    BY <2>1, PagersRest DEF CoverInv
<1>10. PacketsInv(server, disk, client', streams, pagers, packets)
  BY <1>4, NoPacketIsLeft DEF CoverInv
<1> QED
  BY <1>3, <1>5, <1>6, <1>8, <1>9, <1>10 DEF CoverInv

\* start() gives up when its run is over, which is when the client does not run.
LEMMA AbandonsCovers ==
  ASSUME CoverInv, boots[0].pc # "free", ~Active(boots[0].run), client' = client,
         boots' = [boots EXCEPT ![0] = FreeBoot],
         UNCHANGED <<server, disk, streams, pagers, packets, budget>>
  PROVE  CoverInv'
<1>1. ~client.running /\ client.state # "syncing"
  BY DEF CoverInv, QuietInv, Active, ActiveIn, Busy
<1>2. client.token <= client.token
  BY DEF CoverInv, Client
<1> QED
  BY <1>1, <1>2, StartEndsCovers DEF CoverInv

\* start() goes live, with what the cursor claims.
LEMMA GoLiveCovers ==
  ASSUME CoverInv, boots[0].pc # "free", client.running, NEW c \in Client,
         Covered(server, disk, c), ~c.pending, NEW landed,
         c.running = client.running, c.token = client.token, c.stop = client.stop,
         c.subscription = client.subscription, c.resubscribe = client.resubscribe,
         GoLive(c, landed), UNCHANGED <<server, disk, packets, budget>>
  PROVE  CoverInv'
<1> DEFINE live == [c EXCEPT !.state = "syncing"]
<1>1. 0 \in Tasks /\ 0 \notin Boots /\ boots \in [Tasks -> Boot] /\ Boots \subseteq Tasks
  BY SyncClientAssumption DEF Tasks, Boots, CoverInv, BootsInv
<1>2. /\ boots'[0] = FreeBoot /\ (\A t \in Boots : boots'[t] = boots[t])
      /\ boots' \in [Tasks -> Boot] /\ FreeBoot.pc = "free"
  BY <1>1, NothingIsTyped DEF FreeBoot, GoLive
<1>3. packets.queue = <<>> /\ client.subscription = None
  BY DEF CoverInv, QuietInv, Busy
<1>4. /\ live \in Client /\ live.running /\ live.token = client.token
      /\ live.subscription = None /\ live.resubscribe = client.resubscribe
      /\ live.stop = client.stop /\ live.cursor = c.cursor /\ live.maps = c.maps
      /\ live.pending = c.pending /\ live.snapshot = c.snapshot
  BY <1>3 DEF Client
<1>5. Subscribe(live, streams) /\ live.state = "syncing"
  BY DEF GoLive, Client
<1>6. /\ \/ pagers' = pagers
         \/ /\ Free(pagers, Pagers) # {}
            /\ pagers' = [pagers EXCEPT ![Lowest(Free(pagers, Pagers))] =
                             Pager("catchUp", c.token, c)]
  BY DEF GoLive
<1> HIDE DEF live
<1>7. client.token \in Nat /\ server \in Server
  BY DEF CoverInv, Client, LogInv
<1>8. StreamsInv(server, live, streams, boots')
  <2>1. client.token <= live.token
    BY <1>4, <1>7
  <2>2. NoSooner(client, boots, live, boots')
    BY <1>4, <2>1, NoSoonerThan DEF CoverInv
  <2> QED
    BY <1>3, <1>4, <2>2, StreamsUnheld DEF CoverInv
<1>9. /\ StreamsInv(server, client', streams', boots')
      /\ client' \in Client /\ SameButStream(live, client')
  BY <1>2, <1>4, <1>5, <1>7, <1>8, SubscribeCovers DEF Covered
<1>10. /\ PagersInv(server, c, pagers', boots')
       /\ \A q \in Pagers : pagers'[q].pc # "free" =>
            \/ pagers[q].pc # "free" /\ pagers'[q].run = pagers[q].run
            \/ pagers'[q].run = c.token
  <2>1. PagersInv(server, c, pagers, boots')
    <3>1. \A q \in Pagers : ~Going(c, pagers[q])
      BY NoneGoesOn DEF CoverInv, Started, Going, ActiveIn
    <3> QED
      BY <1>7, <3>1, PagersRest DEF CoverInv
  <2>2. Started(c, boots')
    BY <1>2 DEF Started
  <2>3. CASE pagers' = pagers
    BY <2>1, <2>3
  <2>4. CASE /\ Free(pagers, Pagers) # {}
             /\ pagers' = [pagers EXCEPT ![Lowest(Free(pagers, Pagers))] =
                             Pager("catchUp", c.token, c)]
    <3>1. /\ c.token \in {0, c.token} /\ c.cursor <= server.head
          /\ "catchUp" \in {"catchUp", "reconnect", "syncNow"}
      BY DEF Covered
    <3>2. SpawnInv(server, c, pagers, boots', "catchUp", c.token)
      BY <1>7, <2>1, <2>2, <2>4, <3>1, SpawnCovers
    <3>3. pagers' = Spawned(pagers, "catchUp", c.token, c)
      BY <2>4 DEF Spawned
    <3> QED
      BY <3>2, <3>3 DEF SpawnInv
  <2> QED
    BY <1>6, <2>3, <2>4
<1>11. PagersInv(server, client', pagers', boots')
  <2>1. c.cursor <= client'.cursor
    BY <1>4, <1>9 DEF SameButStream, Client
  <2> QED
    BY <1>2, <1>4, <1>9, <1>10, <2>1, PagersKept DEF SameButStream, Started
<1>12. ApartInv(budget, client', pagers')
  <2>1. c.token # 0
    BY <1>7 DEF CoverInv, QuietInv
  <2> QED
    BY <1>4, <1>9, <1>10, <2>1 DEF CoverInv, ApartInv, SameButStream
<1>13. LiveInv(server, disk, client', boots', packets)
  BY <1>4, <1>9 DEF LiveInv, Covered, SameButStream
<1>14. QuietInv(client', boots', packets)
  BY <1>2, <1>3, <1>4, <1>9 DEF CoverInv, QuietInv, SameButStream
<1>15. BootsInv(server, disk, client', boots')
  BY <1>2 DEF CoverInv, BootsInv, StartInv, Committing, Landing
<1>16. PacketsInv(server, disk, client', streams', pagers', packets)
  BY <1>3, NoPacketIsLeft DEF CoverInv
<1> QED
  BY <1>9, <1>11, <1>12, <1>13, <1>14, <1>15, <1>16 DEF CoverInv

\* start() is the only bootstrap there may be.
LEMMA BootIsChanged ==
  ASSUME CoverInv
  PROVE  /\ 0 \in Tasks /\ 0 \notin Boots /\ Boots \subseteq Tasks
         /\ boots \in [Tasks -> Boot] /\ boots[0] \in Boot
  BY SyncClientAssumption DEF Tasks, Boots, CoverInv, BootsInv

\* What is left when start() ends.
LEMMA EndsOf ==
  ASSUME NEW c, Ends(0, c)
  PROVE  client' = c /\ boots' = [boots EXCEPT ![0] = FreeBoot]
  BY DEF Ends, Settled

LEMMA StartContinuesCovers ==
  ASSUME CoverInv, boots[0].pc # "free", client.running, NEW c \in Client,
         Covered(server, disk, c), NEW landed \in BOOLEAN,
         c.running = client.running, c.token = client.token, c.stop = client.stop,
         c.subscription = client.subscription, c.resubscribe = client.resubscribe,
         c.state \in {"connecting", "bootstrapping"},
         StartContinues(c, landed), UNCHANGED <<server, disk, packets, budget>>
  PROVE  CoverInv'
<1>1. CASE c.pending
  <2>1. /\ client' = c /\ UNCHANGED <<streams, pagers>>
        /\ boots' = [boots EXCEPT ![0].pc = "sanitizing", ![0].landed = landed]
    BY <1>1 DEF StartContinues
  <2>2. /\ boots' \in [Tasks -> Boot] /\ boots'[0].pc = "sanitizing"
        /\ \A t \in Boots : boots'[t] = boots[t]
        /\ boots'[0].run = boots[0].run
    BY <2>1, BootIsChanged DEF CoverInv, BootsInv, Boot, BootPlaces, Landing
  <2>3. StartInv(server, disk, c, boots'[0])
    BY <2>2 DEF StartInv, Committing
  <2>4. ApartInv(budget, c, pagers)
    BY ApartKept DEF CoverInv
  <2> QED
    BY <2>1, <2>2, <2>3, <2>4, StartingCovers DEF CoverInv
<1>2. CASE ~c.pending
  BY <1>2, GoLiveCovers DEF StartContinues
<1> QED
  BY <1>1, <1>2

\* The steps of start(), one by one.
LEMMA StartBeginsCovers ==
  ASSUME CoverInv, StartBegins
  PROVE  CoverInv'
<1> DEFINE w == [FreeBoot EXCEPT !.pc = "opening", !.run = client'.token]
<1>1. /\ client.stop = "none" /\ ~client.running /\ boots[0].pc = "free"
      /\ client' = [client EXCEPT !.running = TRUE, !.token = @ + 1, !.state = "connecting",
                                  !.open = TRUE]
      /\ boots' = [boots EXCEPT ![0] = w]
      /\ UNCHANGED <<server, disk, streams, pagers, packets, budget>>
  BY DEF StartBegins
<1>2. /\ client' \in Client /\ client'.running /\ client'.token = client.token + 1
      /\ client'.state = "connecting" /\ client'.subscription = client.subscription
      /\ client'.resubscribe = client.resubscribe /\ client'.stop = client.stop
      /\ client.token \in Nat
  <2>1. client \in Client
    BY DEF CoverInv
  <2>2. client.token + 1 \in Nat
    BY <2>1 DEF Client
  <2>3. client' \in Client
    BY <1>1, <2>1, <2>2 DEF Client
  <2> QED
    BY <1>1, <2>1, <2>3 DEF Client
<1>3. w \in Boot /\ w.pc = "opening" /\ w.run = client'.token
  <2>1. client'.token \in Nat
    BY <1>2
  <2>2. FreeBoot \in Boot
    BY NothingIsTyped
  <2>3. "opening" \in BootPlaces
    BY DEF BootPlaces, Preparing
  <2> QED
    BY <2>1, <2>2, <2>3 DEF Boot
<1> HIDE DEF w
<1>4. 0 \in Tasks /\ 0 \notin Boots /\ boots \in [Tasks -> Boot] /\ Boots \subseteq Tasks
  BY SyncClientAssumption DEF Tasks, Boots, CoverInv, BootsInv
<1>5. boots'[0] = w /\ (\A t \in Boots : boots'[t] = boots[t]) /\ boots' \in [Tasks -> Boot]
  BY <1>1, <1>3, <1>4
<1>6. packets.queue = <<>> /\ client.subscription = None
  BY <1>1 DEF CoverInv, QuietInv
<1>7. BootsInv(server, disk, client', boots')
  BY <1>3, <1>5 DEF CoverInv, BootsInv, StartInv, Committing, Landing
<1>8. /\ LiveInv(server, disk, client', boots', packets)
      /\ QuietInv(client', boots', packets)
  BY <1>1, <1>2, <1>3, <1>5, <1>6 DEF LiveInv, Started, Busy, CoverInv, QuietInv
<1>9. StreamsInv(server, client', streams, boots')
  <2>1. NoSooner(client, boots, client', boots')
    BY <1>2, NoSoonerThan DEF CoverInv
  <2> QED
    BY <1>2, <1>6, <2>1, StreamsUnheld DEF CoverInv
<1>10. PagersInv(server, client', pagers, boots')
  <2>1. \A q \in Pagers : ~Going(client', pagers[q])
    <3>1. \A q \in Pagers : ~Going(client, pagers[q])
      BY <1>1, NoneGoesOn DEF CoverInv, Started
    <3>2. \A q \in Pagers : pagers[q].pc # "free" => pagers[q].run <= client.token
                                                     /\ pagers[q].run \in Nat
      BY DEF CoverInv, PagersInv, CatchUp
    <3> QED
      BY <1>2, <3>1, <3>2 DEF Going, ActiveIn
  <2> QED
    BY <1>2, <2>1, PagersRest DEF CoverInv
<1>11. ApartInv(budget, client', pagers)
  BY <1>2, ApartKept DEF CoverInv
<1>12. PacketsInv(server, disk, client', streams, pagers, packets)
  BY <1>6, NoPacketIsLeft DEF CoverInv
<1> QED
  BY <1>1, <1>2, <1>7, <1>8, <1>9, <1>10, <1>11, <1>12 DEF CoverInv

LEMMA StartLoadsCovers ==
  ASSUME CoverInv, StartLoads
  PROVE  CoverInv'
<1>1. boots[0].pc = "opening" /\ UNCHANGED <<server, packets, budget>>
  BY DEF StartLoads
<1>2. CASE Abandons(0, Tail(io))
  BY <1>1, <1>2, AbandonsCovers, EndsOf DEF Abandons
<1>3. CASE /\ Active(boots[0].run)
           /\ boots' = [boots EXCEPT ![0].pc = "loading", ![0].read = disk]
           /\ UNCHANGED <<disk, client, streams, pagers, stateQueue>>
  <2>1. /\ boots' \in [Tasks -> Boot] /\ boots'[0].pc = "loading" /\ boots'[0].read = disk
        /\ \A t \in Boots : boots'[t] = boots[t]
        /\ boots'[0].run = boots[0].run
    BY <1>3, BootIsChanged DEF CoverInv, BootsInv, Boot, BootPlaces, Preparing, DiskInv
  <2>2. StartInv(server, disk, client, boots'[0])
    BY <2>1 DEF StartInv, Committing, Landing
  <2>3. client.state # "syncing" /\ (client.running => client.state \in {"connecting", "bootstrapping"})
    BY <1>1 DEF CoverInv, QuietInv, Busy
  <2> QED
    BY <1>1, <1>3, <2>1, <2>2, <2>3, StartingCovers DEF CoverInv
<1> QED
  BY <1>2, <1>3 DEF StartLoads

LEMMA StartChoosesCovers ==
  ASSUME CoverInv, StartChooses
  PROVE  CoverInv'
<1> DEFINE read == boots[0].read
           c == [Loaded(client, read) EXCEPT !.groups = read.groups]
           needs == Mode = "full" \/ NeedsBootstrap(read)
<1>1. /\ boots[0].pc = "loading"
      /\ UNCHANGED <<server, disk, streams, pagers, packets, budget>>
  BY DEF StartChooses
<1>2. client \in Client /\ read \in Disk
  BY BootIsChanged DEF CoverInv, Boot
<1>3. /\ read.groups \in GroupSets /\ read.cursor \in Nat /\ read.latch \in BOOLEAN
  BY <1>2 DEF Disk
<1>4. client.running => read = disk
  BY <1>1 DEF CoverInv, BootsInv, StartInv
<1>5. client.state # "syncing" /\ (client.running => client.state \in {"connecting", "bootstrapping"})
  BY <1>1 DEF CoverInv, QuietInv, Busy
<1> HIDE DEF read
<1>6. CASE ~Active(boots[0].run) /\ Ends(0, Loaded(client, read))
  <2> DEFINE d == Loaded(client, read)
  <2>1. ~client.running
    BY <1>1, <1>6 DEF CoverInv, QuietInv, Active, ActiveIn
  <2>2. /\ d \in Client /\ d.running = client.running /\ d.subscription = client.subscription
        /\ d.token = client.token /\ d.resubscribe = client.resubscribe
        /\ d.stop = client.stop /\ d.state = client.state
    BY <1>2, <1>3 DEF Loaded, Client
  <2> HIDE DEF d
  <2>3. client' = d /\ boots' = [boots EXCEPT ![0] = FreeBoot]
    BY <1>6, EndsOf DEF d
  <2>4. client.token <= d.token
    BY <1>2, <2>2 DEF Client
  <2>5. ApartInv(budget, d, pagers)
    BY <2>2, ApartKept DEF CoverInv
  <2> QED
    BY <1>1, <1>5, <2>1, <2>2, <2>3, <2>4, <2>5, StartEndsCovers DEF CoverInv
<1>7. /\ c \in Client /\ c.running = client.running /\ c.subscription = client.subscription
      /\ c.token = client.token /\ c.resubscribe = client.resubscribe
      /\ c.stop = client.stop /\ c.state = client.state /\ c.cursor = read.cursor
      /\ c.groups = read.groups
  BY <1>2, <1>3 DEF Loaded, Client
<1>8. /\ [c EXCEPT !.state = "bootstrapping"] \in Client
      /\ [c EXCEPT !.state = "bootstrapping"].running = client.running
      /\ [c EXCEPT !.state = "bootstrapping"].subscription = client.subscription
      /\ [c EXCEPT !.state = "bootstrapping"].token = client.token
      /\ [c EXCEPT !.state = "bootstrapping"].resubscribe = client.resubscribe
      /\ [c EXCEPT !.state = "bootstrapping"].stop = client.stop
      /\ [c EXCEPT !.state = "bootstrapping"].state = "bootstrapping"
      /\ [c EXCEPT !.state = "bootstrapping"].cursor = read.cursor
  <2> HIDE DEF c
  <2> QED
    BY <1>7 DEF Client
<1>9. CASE Active(boots[0].run) /\ ~(~Active(boots[0].run) /\ Ends(0, Loaded(client, read)))
  <2>1. client.running /\ read = disk
    BY <1>4, <1>9 DEF Active, ActiveIn
  <2>2. client' \in {c, [c EXCEPT !.state = "bootstrapping"]}
    BY <1>9 DEF StartChooses, read
  <2>3. \/ boots' = [boots EXCEPT ![0].pc = "fetching", ![0].asked = c.groups]
        \/ boots' = [boots EXCEPT ![0].pc = "hydrating", ![0].read = disk]
    BY <1>9 DEF StartChooses, read
  <2> HIDE DEF c
  <2>4. /\ client' \in Client /\ client'.running = client.running
        /\ client'.subscription = client.subscription /\ client'.token = client.token
        /\ client'.resubscribe = client.resubscribe /\ client'.stop = client.stop
        /\ client'.state \in {"connecting", "bootstrapping"} /\ client'.cursor = disk.cursor
    BY <1>5, <1>7, <1>8, <2>1, <2>2
  <2>5. disk \in Disk /\ c.groups \in GroupSets
    BY <1>3, <1>7 DEF CoverInv, DiskInv
  <2>6. /\ boots' \in [Tasks -> Boot] /\ boots'[0].pc \in {"fetching", "hydrating"}
        /\ boots'[0].pc = "hydrating" => boots'[0].read = disk
        /\ \A t \in Boots : boots'[t] = boots[t]
        /\ boots'[0].run = boots[0].run
    <3>1. {"fetching", "hydrating"} \subseteq BootPlaces
      BY DEF BootPlaces, Preparing
    <3> QED
      BY <2>3, <2>5, <3>1, BootIsChanged DEF Boot
  <2>7. StartInv(server, disk, client', boots'[0])
    BY <2>4, <2>6 DEF StartInv, Committing, Landing
  <2>8. ApartInv(budget, client', pagers)
    BY <2>4, ApartKept DEF CoverInv
  <2>9. client'.state # "syncing" /\ boots'[0].pc # "free"
    BY <2>4, <2>6
  <2> QED
    BY <1>1, <2>4, <2>6, <2>7, <2>8, <2>9, StartingCovers DEF CoverInv
<1> QED
  BY <1>6, <1>9 DEF StartChooses, read

LEMMA StartHydratesCovers ==
  ASSUME CoverInv, StartHydrates
  PROVE  CoverInv'
<1> DEFINE c == [client EXCEPT !.maps = @ \cup boots[0].read.rows]
<1>1. boots[0].pc = "hydrating" /\ UNCHANGED <<server, packets, budget>>
  BY DEF StartHydrates
<1>2. CASE Abandons(0, Tail(io))
  BY <1>1, <1>2, AbandonsCovers, EndsOf DEF Abandons
<1>3. CASE Active(boots[0].run) /\ StartContinues(c, FALSE) /\ UNCHANGED <<disk, stateQueue>>
  <2>1. client.running
    BY <1>3 DEF Active, ActiveIn
  <2>2. client \in Client /\ boots[0].read.rows \in SUBSET Nat
    BY BootIsChanged DEF CoverInv, Boot, Disk
  <2>3. /\ c \in Client /\ c.running = client.running /\ c.subscription = client.subscription
        /\ c.token = client.token /\ c.resubscribe = client.resubscribe
        /\ c.stop = client.stop /\ c.state = client.state /\ c.cursor = client.cursor
        /\ c.maps = client.maps \cup boots[0].read.rows
    BY <2>2 DEF Client
  <2> HIDE DEF c
  <2>4. boots[0].read = disk /\ client.cursor = disk.cursor
    BY <1>1, <2>1 DEF CoverInv, BootsInv, StartInv
  <2>5. Covered(server, disk, c)
    BY <2>3, <2>4 DEF Covered, CoverInv, DiskInv
  <2>6. c.state \in {"connecting", "bootstrapping"}
    BY <1>1, <2>1, <2>3 DEF CoverInv, QuietInv
  <2> QED
    BY <1>1, <1>3, <2>1, <2>3, <2>5, <2>6, StartContinuesCovers
<1> QED
  BY <1>2, <1>3 DEF StartHydrates

LEMMA StartUnlatchesCovers ==
  ASSUME CoverInv, StartUnlatches
  PROVE  CoverInv'
<1>1. boots[0].pc = "sanitizing" /\ UNCHANGED <<server, packets, budget>>
  BY DEF StartUnlatches, CommitStep, CommitFrame
<1>2. CASE Abandons(0, Tail(io))
  BY <1>1, <1>2, AbandonsCovers, EndsOf DEF Abandons
<1>3. CASE /\ CommitGoesOn(0) /\ disk' = [disk EXCEPT !.latch = FALSE]
           /\ boots' = [boots EXCEPT ![0].pc = "unlatching"]
           /\ UNCHANGED client
  <2>1. /\ boots' \in [Tasks -> Boot] /\ boots'[0].pc = "unlatching"
        /\ \A t \in Boots : boots'[t] = boots[t]
        /\ boots'[0].run = boots[0].run
    BY <1>3, BootIsChanged DEF Boot, BootPlaces, Landing
  <2>2. disk' \in Disk /\ disk'.rows = disk.rows /\ disk'.cursor = disk.cursor
    BY <1>3 DEF CoverInv, DiskInv, Disk
  <2>3. DiskInv(server, disk')
    BY <2>2 DEF CoverInv, DiskInv
  <2>4. StartInv(server, disk', client, boots'[0])
    BY <1>1, <2>1, <2>2 DEF CoverInv, BootsInv, StartInv, Committing, Landing, Covered
  <2>5. client.state # "syncing" /\ (client.running => client.state \in {"connecting", "bootstrapping"})
    BY <1>1 DEF CoverInv, QuietInv, Busy
  <2> QED
    BY <1>1, <1>3, <2>1, <2>3, <2>4, <2>5, StartingCovers DEF CoverInv, CommitGoesOn
<1> QED
  BY <1>2, <1>3 DEF StartUnlatches

LEMMA StartResumesCovers ==
  ASSUME CoverInv, StartResumes
  PROVE  CoverInv'
<1> DEFINE c == [client EXCEPT !.pending = FALSE]
<1>1. boots[0].pc = "unlatching" /\ UNCHANGED <<server, packets, budget>>
  BY DEF StartResumes, CommitStep, CommitFrame
<1>2. CASE Abandons(0, Tail(io))
  BY <1>1, <1>2, AbandonsCovers, EndsOf DEF Abandons
<1>3. CASE Active(boots[0].run) /\ GoLive(c, boots[0].landed) /\ UNCHANGED <<disk, stateQueue>>
  <2>1. client.running
    BY <1>3 DEF Active, ActiveIn
  <2>2. client \in Client
    BY DEF CoverInv
  <2>3. /\ c \in Client /\ c.running = client.running /\ c.subscription = client.subscription
        /\ c.token = client.token /\ c.resubscribe = client.resubscribe
        /\ c.stop = client.stop /\ c.cursor = client.cursor /\ c.maps = client.maps
        /\ ~c.pending
    BY <2>2 DEF Client
  <2> HIDE DEF c
  <2>4. Covered(server, disk, c)
    BY <1>1, <2>1, <2>3 DEF Covered, CoverInv, BootsInv, StartInv, Landing
  <2> QED
    BY <1>1, <1>3, <2>1, <2>3, <2>4, GoLiveCovers
<1> QED
  BY <1>2, <1>3 DEF StartResumes

LEMMA StartFetchesCovers ==
  ASSUME CoverInv, BootFetched(0)
  PROVE  CoverInv'
<1>1. boots[0].pc = "fetching" /\ UNCHANGED <<server, packets, budget>>
  BY DEF BootFetched
<1>2. CASE Abandons(0, io)
  BY <1>1, <1>2, AbandonsCovers, EndsOf DEF Abandons
<1>3. CASE /\ boots' = [boots EXCEPT ![0].pc = "committing", ![0].read = disk,
                                     ![0].snap = Snapshot(boots[0].asked)]
           /\ UNCHANGED <<disk, client, streams, pagers, stateQueue>>
  <2> DEFINE snap == Snapshot(boots[0].asked)
  <2>1. /\ snap \in Taken /\ snap.id <= server.head
        /\ Mine(server.log, snap.id) \subseteq snap.rows
    <3>1. boots[0].asked \in GroupSets
      BY BootIsChanged DEF Boot
    <3> QED
      BY <3>1, SnapshotIsMine DEF CoverInv
  <2> HIDE DEF snap
  <2>2. disk \in Disk /\ "committing" \in BootPlaces
    BY DEF CoverInv, DiskInv, BootPlaces, Committing
  <2>3. /\ boots' \in [Tasks -> Boot] /\ boots'[0].pc = "committing" /\ boots'[0].snap = snap
        /\ \A t \in Boots : boots'[t] = boots[t]
        /\ boots'[0].run = boots[0].run
    BY <1>3, <2>1, <2>2, BootIsChanged DEF Boot, snap
  <2>4. StartInv(server, disk, client, boots'[0])
    BY <2>1, <2>3 DEF StartInv, Landing
  <2>5. client.state # "syncing" /\ (client.running => client.state \in {"connecting", "bootstrapping"})
    BY <1>1 DEF CoverInv, QuietInv, Busy
  <2> QED
    BY <1>1, <1>3, <2>3, <2>4, <2>5, StartingCovers DEF CoverInv
<1> QED
  BY <1>2, <1>3 DEF BootFetched

LEMMA StartFailsCovers ==
  ASSUME CoverInv, BootFails(0)
  PROVE  CoverInv'
<1>1. boots[0].pc = "fetching" /\ UNCHANGED <<server, disk, streams, pagers, packets>>
  BY DEF BootFails
<1>2. /\ LogInv(server, budget')
      /\ budget.stops = 0 => budget'.stops = 0
      /\ budget.syncs = 0 => budget'.syncs = 0
  <2>1. CASE budget' = budget
    BY <2>1 DEF CoverInv
  <2>2. CASE budget.faults > 0 /\ budget' = [budget EXCEPT !.faults = @ - 1]
    <3>1. "faults" \in Chances
      BY DEF Chances
    <3> QED
      BY <2>2, <3>1, ChanceIsUsed DEF CoverInv
  <2> QED
    BY <2>1, <2>2 DEF BootFails
<1>3. client \in Client /\ disk \in Disk
  BY DEF CoverInv, DiskInv
<1>4. client.state # "syncing" /\ (client.running => client.state \in {"connecting", "bootstrapping"})
  BY <1>1 DEF CoverInv, QuietInv, Busy
<1>5. CASE /\ client' = [client EXCEPT !.state = "bootstrapping"]
           /\ boots' = [boots EXCEPT ![0].pc = "hydrating", ![0].read = disk]
  <2>1. /\ client' \in Client /\ client'.subscription = client.subscription
        /\ client'.token = client.token /\ client'.running = client.running
        /\ client'.resubscribe = client.resubscribe /\ client'.stop = client.stop
        /\ client'.state = "bootstrapping" /\ client'.cursor = client.cursor
    BY <1>3, <1>5 DEF Client
  <2>2. /\ boots' \in [Tasks -> Boot] /\ boots'[0].pc = "hydrating" /\ boots'[0].read = disk
        /\ \A t \in Boots : boots'[t] = boots[t]
        /\ boots'[0].run = boots[0].run
    BY <1>3, <1>5, BootIsChanged DEF Boot, BootPlaces
  <2>3. StartInv(server, disk, client', boots'[0])
    BY <1>1, <2>1, <2>2 DEF CoverInv, BootsInv, StartInv, Committing, Landing
  <2>4. ApartInv(budget', client', pagers)
    BY <1>2, <2>1, ApartKept DEF CoverInv
  <2> QED
    BY <1>1, <1>2, <2>1, <2>2, <2>3, <2>4, StartingCovers DEF CoverInv
<1>6. CASE Ends(0, IF Active(boots[0].run)
                   THEN [client EXCEPT !.state = "error", !.running = FALSE, !.token = @ + 1]
                   ELSE client)
  <2>1. boots' = [boots EXCEPT ![0] = FreeBoot]
    BY <1>6, EndsOf
  <2>2. CASE Active(boots[0].run)
    <3>1. client' = [client EXCEPT !.state = "error", !.running = FALSE, !.token = @ + 1]
      BY <1>6, <2>2, EndsOf
    <3>2. client.token \in Nat /\ client.token + 1 \in Nat /\ client.token <= client.token + 1
      BY <1>3 DEF Client
    <3>3. client' \in Client
      BY <1>3, <3>1, <3>2 DEF Client
    <3>4. /\ client'.subscription = client.subscription /\ client'.token = client.token + 1
          /\ ~client'.running /\ client'.resubscribe = client.resubscribe
          /\ client'.stop = client.stop /\ client'.state = "error"
      BY <1>3, <3>1 DEF Client
    <3>5. ApartInv(budget', client', pagers)
      BY <1>2, <3>4, ApartKept DEF CoverInv
    <3>6. client'.state # "syncing" /\ client.token <= client'.token
      BY <3>2, <3>4
    <3> QED
      BY <1>1, <1>2, <2>1, <3>3, <3>4, <3>5, <3>6, StartEndsCovers
  <2>3. CASE ~Active(boots[0].run)
    <3>1. client' = client
      BY <1>6, <2>3, EndsOf
    <3>2. ~client.running
      BY <1>1, <2>3 DEF CoverInv, QuietInv, Active, ActiveIn
    <3>3. ApartInv(budget', client, pagers)
      BY <1>2, ApartKept DEF CoverInv
    <3>4. client.token <= client.token
      BY <1>3 DEF Client
    <3> QED
      BY <1>1, <1>2, <1>3, <1>4, <2>1, <3>1, <3>2, <3>3, <3>4, StartEndsCovers
  <2> QED
    BY <2>2, <2>3
<1> QED
  BY <1>5, <1>6 DEF BootFails

\* Cursor 0 claims nothing.
LEMMA NothingIsMine ==
  ASSUME NEW log
  PROVE  Mine(log, 0) = {}
  BY DEF Mine

\* The store is cleared before a snapshot is written.
LEMMA ClearsCovers ==
  ASSUME CoverInv, boots[0].pc \in {"committing", "quarantining"}, NEW c \in Client,
         c.running = client.running, c.token = client.token, c.stop = client.stop,
         c.subscription = client.subscription, c.resubscribe = client.resubscribe,
         c.state = client.state, Clears(0, c),
         UNCHANGED <<server, streams, pagers, packets, budget>>
  PROVE  CoverInv'
<1>1. /\ client' = c /\ disk' = Cleared(disk)
      /\ boots' = [boots EXCEPT ![0].pc = "clearing", ![0].privacy = c.pending]
  BY DEF Clears
<1>2. disk \in Disk
  BY DEF CoverInv, DiskInv
<1>3. disk' \in Disk /\ disk'.cursor = 0
  BY <1>1, <1>2, NothingIsTyped DEF Disk, Cleared, EmptyDisk
<1>4. DiskInv(server, disk')
  BY <1>3, NothingIsMine DEF CoverInv, DiskInv, LogInv, Server
<1>5. /\ boots' \in [Tasks -> Boot] /\ boots'[0].pc = "clearing"
      /\ \A t \in Boots : boots'[t] = boots[t]
      /\ boots'[0].run = boots[0].run /\ boots'[0].snap = boots[0].snap
  <2>1. c.pending \in BOOLEAN /\ "clearing" \in BootPlaces
    BY DEF Client, BootPlaces, Committing
  <2> QED
    BY <1>1, <2>1, BootIsChanged DEF Boot
<1>6. StartInv(server, disk', c, boots'[0])
  BY <1>5 DEF CoverInv, BootsInv, StartInv, Committing, Landing
<1>7. ApartInv(budget, c, pagers)
  BY ApartKept DEF CoverInv
<1>8. c.state # "syncing" /\ (client.running => c.state \in {"connecting", "bootstrapping"})
  BY DEF CoverInv, QuietInv, Busy
<1> QED
  BY <1>1, <1>4, <1>5, <1>6, <1>7, <1>8, StartingCovers DEF CoverInv

\* The steps of the commit of its snapshot.
LEMMA CommitReadsCovers ==
  ASSUME CoverInv, CommitReads(0)
  PROVE  CoverInv'
<1>1. boots[0].pc = "committing" /\ UNCHANGED <<server, packets, budget>>
  BY DEF CommitReads, CommitStep, CommitFrame
<1>2. CASE Abandons(0, Tail(io))
  BY <1>1, <1>2, AbandonsCovers, EndsOf DEF Abandons
<1>3. CASE /\ CommitGoesOn(0) /\ disk' = [disk EXCEPT !.latch = TRUE]
           /\ boots' = [boots EXCEPT ![0].pc = "quarantining"] /\ UNCHANGED client
  <2>1. /\ boots' \in [Tasks -> Boot] /\ boots'[0].pc = "quarantining"
        /\ \A t \in Boots : boots'[t] = boots[t]
        /\ boots'[0].run = boots[0].run /\ boots'[0].snap = boots[0].snap
    BY <1>3, BootIsChanged DEF Boot, BootPlaces, Committing
  <2>2. disk' \in Disk /\ disk'.rows = disk.rows /\ disk'.cursor = disk.cursor
    BY <1>3 DEF CoverInv, DiskInv, Disk
  <2>3. DiskInv(server, disk')
    BY <2>2 DEF CoverInv, DiskInv
  <2>4. StartInv(server, disk', client, boots'[0])
    BY <1>1, <2>1, <2>2 DEF CoverInv, BootsInv, StartInv, Committing, Landing
  <2>5. client.state # "syncing" /\ (client.running => client.state \in {"connecting", "bootstrapping"})
    BY <1>1 DEF CoverInv, QuietInv, Busy
  <2> QED
    BY <1>1, <1>3, <2>1, <2>3, <2>4, <2>5, StartingCovers DEF CoverInv, CommitGoesOn
<1>4. CASE CommitGoesOn(0) /\ Clears(0, client)
  BY <1>1, <1>4, ClearsCovers DEF CoverInv, CommitGoesOn
<1> QED
  BY <1>2, <1>3, <1>4 DEF CommitReads

LEMMA CommitQuarantinesCovers ==
  ASSUME CoverInv, CommitQuarantines(0)
  PROVE  CoverInv'
<1> DEFINE c == [client EXCEPT !.pending = TRUE, !.maps = {}]
<1>1. boots[0].pc = "quarantining" /\ UNCHANGED <<server, packets, budget>>
  BY DEF CommitQuarantines, CommitStep, CommitFrame
<1>2. CASE Abandons(0, Tail(io))
  BY <1>1, <1>2, AbandonsCovers, EndsOf DEF Abandons
<1>3. CASE CommitGoesOn(0) /\ Clears(0, c)
  <2>1. client \in Client
    BY DEF CoverInv
  <2>2. /\ c \in Client /\ c.running = client.running /\ c.token = client.token
        /\ c.stop = client.stop /\ c.subscription = client.subscription
        /\ c.resubscribe = client.resubscribe /\ c.state = client.state
    BY <2>1 DEF Client
  <2> HIDE DEF c
  <2> QED
    BY <1>1, <1>3, <2>2, ClearsCovers DEF CommitGoesOn
<1> QED
  BY <1>2, <1>3 DEF CommitQuarantines

LEMMA CommitWritesCovers ==
  ASSUME CoverInv, CommitWrites(0)
  PROVE  CoverInv'
<1>1. boots[0].pc = "clearing" /\ UNCHANGED <<server, packets, budget>>
  BY DEF CommitWrites, CommitStep, CommitFrame
<1>2. CASE Abandons(0, Tail(io))
  BY <1>1, <1>2, AbandonsCovers, EndsOf DEF Abandons
<1>3. CASE /\ CommitGoesOn(0) /\ disk' = [disk EXCEPT !.rows = @ \cup boots[0].snap.rows]
           /\ boots' = [boots EXCEPT ![0].pc = "writing"] /\ UNCHANGED client
  <2>1. /\ boots' \in [Tasks -> Boot] /\ boots'[0].pc = "writing"
        /\ \A t \in Boots : boots'[t] = boots[t]
        /\ boots'[0].run = boots[0].run /\ boots'[0].snap = boots[0].snap
    BY <1>3, BootIsChanged DEF Boot, BootPlaces, Committing
  <2>2. /\ disk' \in Disk /\ disk'.rows = disk.rows \cup boots[0].snap.rows
        /\ disk'.cursor = disk.cursor
    <3>1. boots[0].snap.rows \in SUBSET Nat /\ disk \in Disk
      BY BootIsChanged DEF CoverInv, DiskInv, Boot, Taken
    <3> QED
      BY <1>3, <3>1 DEF Disk
  <2>3. DiskInv(server, disk')
    BY <2>2 DEF CoverInv, DiskInv
  <2>4. StartInv(server, disk', client, boots'[0])
    BY <1>1, <2>1, <2>2 DEF CoverInv, BootsInv, StartInv, Committing, Landing
  <2>5. client.state # "syncing" /\ (client.running => client.state \in {"connecting", "bootstrapping"})
    BY <1>1 DEF CoverInv, QuietInv, Busy
  <2> QED
    BY <1>1, <1>3, <2>1, <2>3, <2>4, <2>5, StartingCovers DEF CoverInv, CommitGoesOn
<1> QED
  BY <1>2, <1>3 DEF CommitWrites

\* The maps, the cursor and the groups are the snapshot's.
LEMMA CommitReplacesCovers ==
  ASSUME CoverInv, CommitReplaces(0)
  PROVE  CoverInv'
<1> DEFINE snap == boots[0].snap
<1>1. boots[0].pc = "writing" /\ UNCHANGED <<server, packets, budget>>
  BY DEF CommitReplaces, CommitStep, CommitFrame
<1>2. CASE Abandons(0, Tail(io))
  BY <1>1, <1>2, AbandonsCovers, EndsOf DEF Abandons
<1>3. CASE /\ CommitGoesOn(0)
           /\ client' = [client EXCEPT !.maps = snap.rows, !.cursor = snap.id,
                                       !.snapshot = @ + 1, !.groups = snap.groups]
           /\ boots' = [boots EXCEPT ![0].pc = "marking"] /\ UNCHANGED disk
  <2>1. /\ boots' \in [Tasks -> Boot] /\ boots'[0].pc = "marking"
        /\ \A t \in Boots : boots'[t] = boots[t]
        /\ boots'[0].run = boots[0].run
    BY <1>3, BootIsChanged DEF Boot, BootPlaces, Landing
  <2>2. /\ snap.id \in Nat /\ snap.groups \in GroupSets /\ snap.rows \in SUBSET Nat
        /\ snap.id <= server.head /\ Mine(server.log, snap.id) \subseteq snap.rows
    BY <1>1, BootIsChanged DEF Boot, Taken, CoverInv, BootsInv, StartInv, Committing
  <2>3. client.running /\ snap.rows \subseteq disk.rows
    BY <1>1, <1>3 DEF CommitGoesOn, Active, ActiveIn, CoverInv, BootsInv, StartInv
  <2>4. client \in Client /\ client.snapshot + 1 \in Nat
    <3>1. client \in Client
      BY DEF CoverInv
    <3>2. client.snapshot \in Nat
      BY <3>1 DEF Client
    <3> QED
      BY <3>1, <3>2
  <2> HIDE DEF snap
  <2>5. client' \in Client
    BY <1>3, <2>2, <2>4 DEF Client
  <2>6. /\ client'.subscription = client.subscription /\ client'.token = client.token
        /\ client'.running = client.running /\ client'.resubscribe = client.resubscribe
        /\ client'.stop = client.stop /\ client'.state = client.state
        /\ client'.cursor = snap.id /\ client'.maps = snap.rows
    BY <1>3, <2>4 DEF Client
  <2>7. Covered(server, disk, client')
    BY <2>2, <2>3, <2>6 DEF Covered
  <2>8. StartInv(server, disk, client', boots'[0])
    BY <2>1, <2>7 DEF StartInv, Committing
  <2>9. client'.state # "syncing" /\ (client.running => client'.state \in {"connecting", "bootstrapping"})
    BY <1>1, <2>6 DEF CoverInv, QuietInv, Busy
  <2>10. ApartInv(budget, client', pagers)
    BY <2>6, ApartKept DEF CoverInv
  <2>11. boots'[0].pc # "free"
    BY <2>1
  <2> QED
    BY <1>1, <1>3, <2>1, <2>5, <2>6, <2>8, <2>9, <2>10, <2>11, StartingCovers
    DEF CoverInv, CommitGoesOn
<1> QED
  BY <1>2, <1>3 DEF CommitReplaces, MapsReplaced

LEMMA CommitRecordsCovers ==
  ASSUME CoverInv, CommitRecords(0)
  PROVE  CoverInv'
<1> DEFINE privacy == boots[0].privacy
<1>1. boots[0].pc = "marking" /\ UNCHANGED <<server, packets, budget>>
  BY DEF CommitRecords, CommitStep, CommitFrame
<1>2. CASE Abandons(0, Tail(io))
  BY <1>1, <1>2, AbandonsCovers, EndsOf DEF Abandons
<1>3. CASE /\ CommitGoesOn(0)
           /\ client' = IF privacy THEN client ELSE [client EXCEPT !.pending = FALSE]
           /\ disk' = Recorded(disk, client, privacy)
           /\ boots' = [boots EXCEPT ![0].pc = "recording"]
  <2>1. /\ boots' \in [Tasks -> Boot] /\ boots'[0].pc = "recording"
        /\ \A t \in Boots : boots'[t] = boots[t]
        /\ boots'[0].run = boots[0].run
    BY <1>3, BootIsChanged DEF Boot, BootPlaces, Landing
  <2>2. client \in Client /\ disk \in Disk /\ privacy \in BOOLEAN
    BY BootIsChanged DEF CoverInv, DiskInv, Boot
  <2>3. client.running /\ Covered(server, disk, client)
    BY <1>1, <1>3 DEF CommitGoesOn, Active, ActiveIn, CoverInv, BootsInv, StartInv, Landing
  <2> HIDE DEF privacy
  <2>4. /\ client' \in Client /\ client'.subscription = client.subscription
        /\ client'.token = client.token
        /\ client'.running = client.running /\ client'.resubscribe = client.resubscribe
        /\ client'.stop = client.stop /\ client'.state = client.state
        /\ client'.cursor = client.cursor /\ client'.maps = client.maps
    BY <1>3, <2>2 DEF Client
  <2>5. disk' \in Disk /\ disk'.rows = disk.rows /\ disk'.cursor = client.cursor
    <3>1. client.cursor \in Nat /\ client.groups \in GroupSets
      BY <2>2 DEF Client
    <3> QED
      BY <1>3, <2>2, <3>1 DEF Disk, Recorded
  <2>6. DiskInv(server, disk') /\ Covered(server, disk', client')
    BY <2>3, <2>4, <2>5 DEF DiskInv, Covered
  <2>7. StartInv(server, disk', client', boots'[0])
    BY <2>1, <2>6 DEF StartInv, Committing
  <2>8. client'.state # "syncing" /\ (client.running => client'.state \in {"connecting", "bootstrapping"})
    BY <1>1, <2>4 DEF CoverInv, QuietInv, Busy
  <2>9. ApartInv(budget, client', pagers)
    BY <2>4, ApartKept DEF CoverInv
  <2>10. boots'[0].pc # "free"
    BY <2>1
  <2> QED
    BY <1>1, <1>3, <2>1, <2>4, <2>6, <2>7, <2>8, <2>9, <2>10, StartingCovers
    DEF CoverInv, CommitGoesOn
<1> QED
  BY <1>2, <1>3 DEF CommitRecords

LEMMA CommitLandsCovers ==
  ASSUME CoverInv, CommitLands(0)
  PROVE  CoverInv'
<1>1. boots[0].pc = "recording" /\ UNCHANGED <<server, packets, budget>>
  BY DEF CommitLands, CommitStep, CommitFrame
<1>2. CASE Abandons(0, Tail(io))
  BY <1>1, <1>2, AbandonsCovers, EndsOf DEF Abandons
<1>3. CASE Active(boots[0].run) /\ StartContinues(client, TRUE) /\ UNCHANGED <<disk, stateQueue>>
  <2>1. client.running /\ client \in Client
    BY <1>3 DEF Active, ActiveIn, CoverInv
  <2>2. Covered(server, disk, client)
    BY <1>1, <2>1 DEF CoverInv, BootsInv, StartInv, Landing
  <2>3. client.state \in {"connecting", "bootstrapping"}
    BY <1>1, <2>1 DEF CoverInv, QuietInv
  <2> QED
    BY <1>1, <1>3, <2>1, <2>2, <2>3, StartContinuesCovers
<1> QED
  BY <1>2, <1>3 DEF CommitLands

\* No bootstrap is under way but start().
LEMMA BootStepsCover ==
  ASSUME CoverInv, NEW t \in Tasks, BootStep(t) \/ CommitSteps(t)
  PROVE  CoverInv'
<1>1. CASE t = 0
  <2>1. ~BootUnlatches(0) /\ ~BootReopens(0)
    BY DEF BootUnlatches, BootReopens
  <2>2. BootFetched(0) \/ BootFails(0) \/ CommitSteps(0)
    BY <1>1, <2>1 DEF BootStep
  <2> QED
    BY <2>2, StartFetchesCovers, StartFailsCovers, CommitReadsCovers, CommitQuarantinesCovers,
       CommitWritesCovers, CommitReplacesCovers, CommitRecordsCovers, CommitLandsCovers
    DEF CommitSteps
<1>2. CASE t # 0
  <2>1. boots[t].pc = "free"
    <3>1. t \in Boots
      BY <1>2, SyncClientAssumption DEF Tasks, Boots
    <3> QED
      BY <3>1 DEF CoverInv, BootsInv
  <2>2. ~BootStep(t)
    BY <2>1 DEF BootStep, BootFetched, BootFails, BootUnlatches, BootReopens, BootResumes,
                BootBegins, BootLocks, CommitStep
  <2>3. ~CommitSteps(t)
    BY <2>1 DEF CommitSteps, CommitReads, CommitQuarantines, CommitWrites, CommitReplaces,
                CommitRecords, CommitLands, CommitStep
  <2> QED
    BY <2>2, <2>3
<1> QED
  BY <1>1, <1>2

-----------------------------------------------------------------------------
(* A packet is applied. *)

\* While a packet is there the client is live, and the first has what it claims.
LEMMA FirstIsCarried ==
  ASSUME CoverInv, packets.queue # <<>>
  PROVE  /\ First \in Delivery /\ PacketInv(server, client, streams, pagers, First)
         /\ boots[0].pc = "free" /\ Covered(server, disk, client) /\ ~client.pending
         /\ First = packets.queue[1] /\ 1 \in DOMAIN packets.queue
         /\ packets.queue \in Seq(Delivery)
<1>1. packets.queue \in Seq(Delivery)
  BY DEF CoverInv, PacketsInv, Deliveries
<1>2. First = packets.queue[1] /\ 1 \in DOMAIN packets.queue /\ First \in Delivery
  BY <1>1 DEF First
<1>3. PacketInv(server, client, streams, pagers, First)
  BY <1>2 DEF CoverInv, PacketsInv
<1> QED
  BY <1>1, <1>2, <1>3 DEF CoverInv, LiveInv, QuietInv, Busy

\* Whoever the first packet is from is told of its end.
LEMMA ResumedAre ==
  ASSUME CoverInv, packets.queue # <<>>, NEW pc \in {"next", "failed"}
  PROVE  /\ ResumedStreams(pc) \in [Streams -> Stream]
         /\ ResumedPagers(pc) \in [Pagers -> CatchUp]
         /\ \A h \in Streams : ResumedStreams(pc)[h] =
              IF First.owner = StreamRef(h) THEN [streams[h] EXCEPT !.pc = pc] ELSE streams[h]
         /\ \A q \in Pagers : ResumedPagers(pc)[q] =
              IF First.owner = PagerRef(q) THEN [pagers[q] EXCEPT !.pc = pc] ELSE pagers[q]
<1>1. /\ First.owner \in Owners /\ streams \in [Streams -> Stream]
      /\ pagers \in [Pagers -> CatchUp]
  BY FirstIsCarried DEF Delivery, CoverInv, StreamsInv, PagersInv
<1>2. /\ \A h \in Streams : [streams[h] EXCEPT !.pc = pc] \in Stream
      /\ \A q \in Pagers : [pagers[q] EXCEPT !.pc = pc] \in CatchUp
  <2>1. pc \in StreamPlaces /\ pc \in PagerPlaces
    BY DEF StreamPlaces, PagerPlaces
  <2>2. ASSUME NEW h \in Streams
        PROVE  [streams[h] EXCEPT !.pc = pc] \in Stream
    <3>1. streams[h] \in Stream
      BY <1>1
    <3> QED
      BY <2>1, <3>1 DEF Stream
  <2>3. ASSUME NEW q \in Pagers
        PROVE  [pagers[q] EXCEPT !.pc = pc] \in CatchUp
    <3>1. pagers[q] \in CatchUp
      BY <1>1
    <3> QED
      BY <2>1, <3>1 DEF CatchUp
  <2> QED
    BY <2>2, <2>3
<1>3. CASE \E h \in Streams : First.owner = StreamRef(h)
  <2>1. PICK h \in Streams : First.owner = StreamRef(h)
    BY <1>3
  <2>2. First.owner[1] = "stream" /\ First.owner[2] = h
    BY <2>1 DEF StreamRef
  <2>3. /\ ResumedStreams(pc) = [streams EXCEPT ![h].pc = pc]
        /\ ResumedPagers(pc) = pagers
    BY <2>2 DEF ResumedStreams, ResumedPagers
  <2>4. /\ \A j \in Streams : First.owner = StreamRef(j) <=> j = h
        /\ \A q \in Pagers : First.owner # PagerRef(q)
    BY <2>1 DEF StreamRef, PagerRef
  <2> QED
    BY <1>1, <1>2, <2>3, <2>4
<1>4. CASE \E q \in Pagers : First.owner = PagerRef(q)
  <2>1. PICK q \in Pagers : First.owner = PagerRef(q)
    BY <1>4
  <2>2. First.owner[1] = "pager" /\ First.owner[2] = q
    BY <2>1 DEF PagerRef
  <2>3. /\ ResumedPagers(pc) = [pagers EXCEPT ![q].pc = pc]
        /\ ResumedStreams(pc) = streams
    BY <2>2 DEF ResumedStreams, ResumedPagers
  <2>4. /\ \A j \in Pagers : First.owner = PagerRef(j) <=> j = q
        /\ \A h \in Streams : First.owner # StreamRef(h)
    BY <2>1 DEF StreamRef, PagerRef
  <2> QED
    BY <1>1, <1>2, <2>3, <2>4
<1> QED
  BY <1>1, <1>3, <1>4 DEF Owners

\* A packet is done with, and whoever it is from goes on, or fails.
LEMMA LeavesCovers ==
  ASSUME CoverInv, packets.queue # <<>>, NEW pc \in {"next", "failed"}, PacketLeaves(pc),
         streams' = ResumedStreams(pc),
         pc = "failed" \/ ~client.running \/ First.last <= client.cursor,
         LogInv(server, budget'), ApartInv(budget', client, pagers),
         UNCHANGED <<server, disk, client, boots>>
  PROVE  CoverInv'
<1>1. /\ pagers' = ResumedPagers(pc) /\ streams' = ResumedStreams(pc)
      /\ packets' = [packets EXCEPT !.queue = Tail(@), !.at = "none"]
  BY DEF PacketLeaves
<1>2. /\ First \in Delivery /\ PacketInv(server, client, streams, pagers, First)
      /\ boots[0].pc = "free" /\ Covered(server, disk, client) /\ ~client.pending
      /\ First = packets.queue[1] /\ 1 \in DOMAIN packets.queue
      /\ packets.queue \in Seq(Delivery)
  BY FirstIsCarried
<1>3. /\ streams' \in [Streams -> Stream]
      /\ \A h \in Streams : streams'[h] =
           IF First.owner = StreamRef(h) THEN [streams[h] EXCEPT !.pc = pc] ELSE streams[h]
  BY <1>1, ResumedAre
<1>4. /\ pagers' \in [Pagers -> CatchUp]
      /\ \A q \in Pagers : pagers'[q] =
           IF First.owner = PagerRef(q) THEN [pagers[q] EXCEPT !.pc = pc] ELSE pagers[q]
  BY <1>1, ResumedAre
<1>5. /\ streams \in [Streams -> Stream] /\ pagers \in [Pagers -> CatchUp] /\ client \in Client
      /\ packets \in Deliveries
  BY DEF CoverInv, StreamsInv, PagersInv, PacketsInv
<1>6. /\ \A h \in Streams : First.owner = StreamRef(h) =>
           /\ streams[h].pc = "queued" /\ streams[h].at = First.last
      /\ \A q \in Pagers : First.owner = PagerRef(q) =>
           /\ pagers[q].pc = "queued" /\ pagers[q].after = First.last
  <2>1. /\ \A h, j \in Streams : StreamRef(h) = StreamRef(j) => h = j
        /\ \A q, j \in Pagers : PagerRef(q) = PagerRef(j) => q = j
        /\ \A h \in Streams, q \in Pagers : StreamRef(h) # PagerRef(q)
    BY DEF StreamRef, PagerRef
  <2> QED
    BY <1>2, <2>1 DEF PacketInv, Waits
<1>7. \A h \in Streams :
        /\ streams'[h].run = streams[h].run /\ streams'[h].at = streams[h].at
        /\ streams'[h].snapshot = streams[h].snapshot
        /\ streams'[h].actions = streams[h].actions
        /\ streams'[h].pc = IF First.owner = StreamRef(h) THEN pc ELSE streams[h].pc
  BY <1>3, <1>5 DEF Stream
<1>8. \A q \in Pagers :
        /\ pagers'[q].run = pagers[q].run /\ pagers'[q].after = pagers[q].after
        /\ pagers'[q].snapshot = pagers[q].snapshot /\ pagers'[q].buffer = pagers[q].buffer
        /\ pagers'[q].pc = IF First.owner = PagerRef(q) THEN pc ELSE pagers[q].pc
  BY <1>4, <1>5 DEF CatchUp
<1>9. client.running /\ pc = "next" =>
        \A S : S \subseteq DOMAIN server.log => Carries(server.log, S, First.last, client.cursor)
  <2>1. First.last \in Nat /\ client.cursor \in Nat
    BY <1>2, <1>5 DEF Delivery, Client
  <2> QED
    BY <2>1, NothingToCarry
<1>10. StreamsInv(server, client, streams', boots)
  <2>1. ASSUME NEW h \in Streams, client.subscription = h
        PROVE  HeldInv(server, client, streams'[h])
    <3>1. HeldInv(server, client, streams[h])
      BY <2>1 DEF CoverInv, StreamsInv
    <3>2. CASE First.owner = StreamRef(h)
      <4>1. streams'[h].pc = pc /\ streams'[h].at = First.last /\ pc # "gate"
        BY <1>6, <1>7, <3>2
      <4>2. client.running /\ pc = "next" => Carries(server.log, {}, First.last, client.cursor)
        BY <1>9
      <4> QED
        BY <1>7, <3>1, <4>1, <4>2 DEF HeldInv
    <3>3. CASE First.owner # StreamRef(h)
      BY <1>3, <3>1, <3>3
    <3> QED
      BY <3>2, <3>3
  <2>2. \A h \in Streams : streams'[h].pc # "free" => Begun(streams'[h].run, client, boots)
    BY <1>6, <1>7 DEF CoverInv, StreamsInv
  <2> QED
    BY <1>3, <2>1, <2>2 DEF CoverInv, StreamsInv
<1>11. PagersInv(server, client, pagers', boots)
  <2>1. ASSUME NEW q \in Pagers, Going(client, pagers'[q])
        PROVE  Started(client, boots) /\ GoingInv(server, client, pagers'[q])
    <3>1. Going(client, pagers[q])
      BY <1>6, <1>8, <2>1 DEF Going
    <3>2. Started(client, boots) /\ GoingInv(server, client, pagers[q])
      BY <3>1 DEF CoverInv, PagersInv
    <3>3. CASE First.owner = PagerRef(q)
      <4>1. pagers'[q].pc = pc /\ pagers'[q].after = First.last /\ pc # "fetching"
        BY <1>6, <1>8, <3>3
      <4>2. pc = "next" => Carries(server.log, pagers[q].buffer, First.last, client.cursor)
        BY <1>9, <3>2 DEF Started, GoingInv
      <4> QED
        BY <1>8, <3>2, <4>1, <4>2 DEF GoingInv
    <3>4. CASE First.owner # PagerRef(q)
      BY <1>4, <3>2, <3>4
    <3> QED
      BY <3>3, <3>4
  <2>2. \A q \in Pagers : pagers'[q].pc # "free" => pagers'[q].run <= client.token
    BY <1>6, <1>8 DEF CoverInv, PagersInv
  <2> QED
    BY <1>4, <2>1, <2>2 DEF PagersInv
<1>12. PacketsInv(server, disk, client, streams', pagers', packets')
  <2>1. /\ packets'.queue = Tail(packets.queue) /\ packets'.at = "none"
        /\ packets' \in Deliveries
    <3>1. Tail(packets.queue) \in Seq(Delivery)
      BY <1>2
    <3> QED
      BY <1>1, <1>5, <3>1 DEF Deliveries
  <2>2. \A i \in DOMAIN packets'.queue : /\ i \in Nat /\ i + 1 \in DOMAIN packets.queue
                                         /\ i + 1 # 1 /\ packets'.queue[i] = packets.queue[i + 1]
    BY <1>2, <2>1
  <2>3. ASSUME NEW i \in DOMAIN packets'.queue
        PROVE  PacketInv(server, client, streams', pagers', packets'.queue[i])
    <3> DEFINE k == packets.queue[i + 1]
    <3>1. PacketInv(server, client, streams, pagers, k) /\ k.owner # First.owner
      BY <1>2, <2>2 DEF CoverInv, PacketsInv
    <3> HIDE DEF k
    <3>2. Waits(k, streams', pagers')
      BY <1>7, <1>8, <3>1 DEF PacketInv, Waits
    <3>3. packets'.queue[i] = k
      BY <2>2 DEF k
    <3> QED
      BY <3>1, <3>2, <3>3 DEF PacketInv
  <2>4. \A i, j \in DOMAIN packets'.queue :
          packets'.queue[i].owner = packets'.queue[j].owner => i = j
    <3>1. ASSUME NEW i \in DOMAIN packets'.queue, NEW j \in DOMAIN packets'.queue,
                 packets'.queue[i].owner = packets'.queue[j].owner
          PROVE  i = j
      <4>1. i + 1 = j + 1
        BY <2>2, <3>1 DEF CoverInv, PacketsInv
      <4> QED
        BY <2>2, <4>1
    <3> QED
      BY <3>1
  <2> QED
    BY <2>1, <2>3, <2>4 DEF PacketsInv
<1>13. ApartInv(budget', client, pagers')
  BY <1>6, <1>8, ApartKept
<1>14. LiveInv(server, disk, client, boots, packets')
  BY <1>2 DEF LiveInv
<1>15. QuietInv(client, boots, packets')
  BY <1>2 DEF CoverInv, QuietInv
<1> QED
  BY <1>10, <1>11, <1>12, <1>13, <1>14, <1>15 DEF CoverInv

\* A packet is under way: what it has moved is covered.
LEMMA GoesOnCovers ==
  ASSUME CoverInv, packets.queue # <<>>,
         NEW at \in {"locking", "rebasing", "writing", "advancing"},
         packets' = [packets EXCEPT !.at = at],
         UNCHANGED <<server, streams, pagers, boots, budget>>,
         client' \in Client, client'.token = client.token, client'.running = client.running,
         client'.snapshot = client.snapshot, client'.subscription = client.subscription,
         client'.resubscribe = client.resubscribe, client'.stop = client.stop,
         client'.state = client.state, client'.pending = client.pending,
         client.cursor <= client'.cursor,
         Covered(server, disk', client'), DiskInv(server, disk'),
         at = "writing" => Unread(client', First) \subseteq disk'.rows,
         at = "advancing" => First.last <= client'.cursor
  PROVE  CoverInv'
<1>1. boots[0].pc = "free" /\ ~client.pending
  BY FirstIsCarried
<1>2. client \in Client /\ packets \in Deliveries
  BY DEF CoverInv, PacketsInv
<1>3. packets'.queue = packets.queue /\ packets'.at = at /\ packets' \in Deliveries
  BY <1>2 DEF Deliveries
<1>4. StreamsInv(server, client', streams, boots)
  BY <1>2, StreamsKept DEF CoverInv
<1>5. PagersInv(server, client', pagers, boots)
  BY <1>2, PagersKept DEF CoverInv, Started
<1>6. PacketsInv(server, disk', client', streams, pagers, packets')
  <2>1. StillQueued(streams, streams) /\ StillWaits(pagers, pagers)
    BY DEF StillQueued, StillWaits
  <2>2. \A i \in DOMAIN packets.queue :
          PacketInv(server, client', streams, pagers, packets.queue[i])
    BY <1>2, <2>1, PacketKept DEF CoverInv, PacketsInv
  <2>3. /\ \A i, j \in DOMAIN packets.queue :
             packets.queue[i].owner = packets.queue[j].owner => i = j
    BY DEF CoverInv, PacketsInv
  <2> QED
    BY <1>3, <2>2, <2>3 DEF PacketsInv, First
<1>7. BootsInv(server, disk', client', boots)
  BY <1>1, BootsKept DEF CoverInv
<1>8. ApartInv(budget, client', pagers)
  BY ApartKept DEF CoverInv
<1>9. LiveInv(server, disk', client', boots, packets')
  BY <1>1 DEF LiveInv
<1>10. QuietInv(client', boots, packets')
  BY <1>1, <1>3 DEF CoverInv, QuietInv
<1> QED
  BY <1>4, <1>5, <1>6, <1>7, <1>8, <1>9, <1>10 DEF CoverInv

\* What a packet is made of here.
LEMMA NoAccessChanges ==
  ASSUME CoverInv, packets.queue # <<>>
  PROVE  /\ Current /\ ~ChangesAccess /\ ~Owed(client)
         /\ News = Unread(client, First) /\ NewRows = Unread(client, First)
         /\ News \in SUBSET Nat
<1>1. /\ PacketInv(server, client, streams, pagers, First) /\ ~client.pending
      /\ First \in Delivery
  BY FirstIsCarried
<1>2. client \in Client
  BY DEF CoverInv
<1>3. Changes(First.actions) = {} /\ Changes(News) = {}
  <2>1. First.actions \subseteq DOMAIN server.log
    BY <1>1 DEF PacketInv, Carries
  <2> QED
    BY <2>1 DEF Changes, Log, CoverInv, LogInv, News
<1>4. News = Unread(client, First) /\ NewRows = Unread(client, First)
  BY <1>3 DEF News, NewRows, Unread
<1>5. News \in SUBSET Nat
  BY <1>1 DEF Delivery, News
<1>6. Current
  BY <1>1 DEF PacketInv, Current
<1>7. client.owed = FALSE
  BY <1>2 DEF Client
<1> QED
  BY <1>1, <1>3, <1>4, <1>5, <1>6, <1>7 DEF ChangesAccess, Owed

\* The cursor moves to the end of the packet once its rows are there.
LEMMA AdvancedIs ==
  ASSUME CoverInv, packets.queue # <<>>, NEW rows \in SUBSET Nat
  PROVE  LET c == Advanced([client EXCEPT !.maps = @ \cup rows])
         IN  /\ c \in Client /\ c.token = client.token /\ c.running = client.running
             /\ c.snapshot = client.snapshot /\ c.subscription = client.subscription
             /\ c.resubscribe = client.resubscribe /\ c.stop = client.stop
             /\ c.state = client.state /\ c.pending = client.pending
             /\ c.maps = client.maps \cup rows
             /\ client.cursor <= c.cursor /\ First.last <= c.cursor
             /\ c.cursor = IF Moves(client) THEN First.last ELSE client.cursor
<1> DEFINE e == [client EXCEPT !.maps = @ \cup rows]
<1>1. client \in Client /\ First \in Delivery
  BY FirstIsCarried DEF CoverInv
<1>2. First.last \in Nat /\ client.cursor \in Nat
  BY <1>1 DEF Client, Delivery
<1>3. /\ e \in Client /\ e.token = client.token /\ e.running = client.running
      /\ e.snapshot = client.snapshot /\ e.subscription = client.subscription
      /\ e.resubscribe = client.resubscribe /\ e.stop = client.stop
      /\ e.state = client.state /\ e.pending = client.pending
      /\ e.maps = client.maps \cup rows /\ e.cursor = client.cursor
  BY <1>1 DEF Client
<1> HIDE DEF e
<1>4. Advanced(e) = [e EXCEPT !.cursor = IF Moves(client) THEN First.last ELSE e.cursor]
  BY <1>3 DEF Advanced, Moves
<1>5. (IF Moves(client) THEN First.last ELSE e.cursor) \in Nat
  BY <1>2, <1>3
<1>6. /\ Advanced(e) \in Client /\ Advanced(e).token = client.token
      /\ Advanced(e).running = client.running
      /\ Advanced(e).snapshot = client.snapshot
      /\ Advanced(e).subscription = client.subscription
      /\ Advanced(e).resubscribe = client.resubscribe /\ Advanced(e).stop = client.stop
      /\ Advanced(e).state = client.state /\ Advanced(e).pending = client.pending
      /\ Advanced(e).maps = client.maps \cup rows
      /\ Advanced(e).cursor = IF Moves(client) THEN First.last ELSE client.cursor
  BY <1>3, <1>4, <1>5 DEF Client
<1>7. client.cursor <= Advanced(e).cursor /\ First.last <= Advanced(e).cursor
  BY <1>2, <1>6 DEF Moves
<1> QED
  BY <1>6, <1>7 DEF e

\* Every row up to there has been read before, or is news.
LEMMA NewsCovers ==
  ASSUME CoverInv, packets.queue # <<>>, NEW c \in Client, NEW dk,
         c.cursor = IF Moves(client) THEN First.last ELSE client.cursor,
         client.maps \cup Unread(client, First) \subseteq c.maps,
         disk.rows \cup Unread(client, First) \subseteq dk.rows
  PROVE  Covered(server, dk, c)
<1>1. /\ PacketInv(server, client, streams, pagers, First) /\ Covered(server, disk, client)
  BY FirstIsCarried
<1>2. CASE Moves(client)
  <2>1. \A i \in Mine(server.log, First.last) :
          i \in Mine(server.log, client.cursor) \/ i \in Unread(client, First)
    <3>1. \A i \in Mine(server.log, First.last) : i <= client.cursor \/ i \in First.actions
      BY <1>1 DEF PacketInv, Carries
    <3>2. client.cursor \in Nat
      BY DEF CoverInv, Client
    <3> QED
      BY <3>1, <3>2 DEF Mine, Unread
  <2> QED
    BY <1>1, <1>2, <2>1 DEF Covered, PacketInv
<1>3. CASE ~Moves(client)
  BY <1>1, <1>3 DEF Covered
<1> QED
  BY <1>2, <1>3

\* The steps of a packet.
LEMMA PacketTakesCovers ==
  ASSUME CoverInv, PacketTakes
  PROVE  CoverInv'
<1>1. /\ packets.queue # <<>> /\ UNCHANGED <<server, disk, client, boots, budget>>
  BY DEF PacketTakes
<1>2. CASE packets' = [packets EXCEPT !.at = "locking"] /\ UNCHANGED <<streams, pagers>>
  <2>1. client \in Client /\ DiskInv(server, disk) /\ client.cursor <= client.cursor
    <3>1. client \in Client /\ DiskInv(server, disk)
      BY DEF CoverInv
    <3>2. client.cursor \in Nat
      BY <3>1 DEF Client
    <3> QED
      BY <3>1, <3>2
  <2>2. Covered(server, disk, client)
    BY <1>1, FirstIsCarried
  <2> QED
    BY <1>1, <1>2, <2>1, <2>2, GoesOnCovers
<1>3. CASE ~client.running /\ PacketLeaves("next") /\ streams' = ResumedStreams("next")
  BY <1>1, <1>3, LeavesCovers DEF CoverInv
<1> QED
  BY <1>2, <1>3 DEF PacketTakes

LEMMA PacketIsEmptyCovers ==
  ASSUME CoverInv, PacketIsEmpty, packets.queue # <<>>
  PROVE  CoverInv'
<1>1. News = {} /\ client' = Advanced(client) /\ UNCHANGED <<server, boots, budget>>
  BY DEF PacketIsEmpty, PacketFrame
<1>2. /\ client \in Client /\ client.maps \in SUBSET Nat /\ client.cursor \in Nat
      /\ disk \in Disk
  BY DEF CoverInv, Client, DiskInv
<1>3. client = [client EXCEPT !.maps = @ \cup {}]
  BY <1>2 DEF Client
<1>4. /\ client' \in Client /\ client'.token = client.token /\ client'.running = client.running
      /\ client'.snapshot = client.snapshot /\ client'.subscription = client.subscription
      /\ client'.resubscribe = client.resubscribe /\ client'.stop = client.stop
      /\ client'.state = client.state /\ client'.pending = client.pending
      /\ client'.maps = client.maps
      /\ client.cursor <= client'.cursor /\ First.last <= client'.cursor
      /\ client'.cursor = IF Moves(client) THEN First.last ELSE client.cursor
  <2>1. client' = Advanced([client EXCEPT !.maps = @ \cup {}])
    BY <1>1, <1>3
  <2>2. {} \in SUBSET Nat /\ client.maps \cup {} = client.maps
    OBVIOUS
  <2> HIDE <1>3
  <2>3. /\ client' \in Client /\ client'.token = client.token /\ client'.running = client.running
        /\ client'.snapshot = client.snapshot /\ client'.subscription = client.subscription
        /\ client'.resubscribe = client.resubscribe /\ client'.stop = client.stop
        /\ client'.state = client.state /\ client'.pending = client.pending
        /\ client'.maps = client.maps \cup {}
        /\ client.cursor <= client'.cursor /\ First.last <= client'.cursor
        /\ client'.cursor = IF Moves(client) THEN First.last ELSE client.cursor
    BY <2>1, <2>2, AdvancedIs
  <2> QED
    BY <2>2, <2>3
<1>5. Unread(client, First) = {}
  BY <1>1, NoAccessChanges
<1>6. CASE /\ Moves(client) /\ disk' = [disk EXCEPT !.cursor = First.last]
           /\ PacketAwaits("advancing") /\ UNCHANGED <<streams, pagers, stateQueue>>
  <2>1. First.last \in Nat
    BY FirstIsCarried DEF Delivery
  <2>2. disk' \in Disk /\ disk'.rows = disk.rows /\ disk'.cursor = First.last
    BY <1>2, <1>6, <2>1 DEF Disk
  <2>3. Covered(server, disk', client')
    BY <1>4, <1>5, <2>2, NewsCovers
  <2>4. DiskInv(server, disk')
    BY <1>4, <1>6, <2>2, <2>3 DEF DiskInv, Covered
  <2> QED
    BY <1>1, <1>4, <1>6, <2>3, <2>4, GoesOnCovers DEF PacketAwaits
<1>7. CASE ~Moves(client) /\ PacketFrees("next") /\ streams' = ResumedStreams("next")
           /\ UNCHANGED disk
  <2>1. client' = client
    BY <1>1, <1>2, <1>7 DEF Advanced, Client
  <2>2. First.last <= client.cursor
    BY <1>4, <2>1
  <2> QED
    BY <1>1, <1>7, <2>1, <2>2, LeavesCovers DEF CoverInv, PacketFrees
<1> QED
  BY <1>6, <1>7 DEF PacketIsEmpty

LEMMA PacketRebasesCovers ==
  ASSUME CoverInv, PacketRebases, packets.queue # <<>>
  PROVE  CoverInv'
<1>1. client \in Client /\ DiskInv(server, disk) /\ client.cursor <= client.cursor
  <2>1. client \in Client /\ DiskInv(server, disk)
    BY DEF CoverInv
  <2>2. client.cursor \in Nat
    BY <2>1 DEF Client
  <2> QED
    BY <2>1, <2>2
<1>2. Covered(server, disk, client)
  BY FirstIsCarried
<1> QED
  BY <1>1, <1>2, GoesOnCovers DEF PacketRebases, PacketFrame, PacketAwaits

LEMMA PacketWritesCovers ==
  ASSUME CoverInv, PacketWrites
  PROVE  CoverInv'
<1>1. packets.at = "rebasing" /\ packets.queue # <<>>
  BY DEF CoverInv, PacketsInv, PacketWrites
<1>2. /\ client \in Client /\ DiskInv(server, disk) /\ disk \in Disk
      /\ client.cursor <= client.cursor
  <2>1. client \in Client /\ DiskInv(server, disk)
    BY DEF CoverInv
  <2>2. client.cursor \in Nat
    BY <2>1 DEF Client
  <2> QED
    BY <2>1, <2>2 DEF DiskInv
<1>3. NewRows = Unread(client, First) /\ NewRows \in SUBSET Nat
  BY <1>1, NoAccessChanges
<1>4. disk' \in Disk /\ disk'.rows = disk.rows \cup NewRows /\ disk'.cursor = disk.cursor
  BY <1>2, <1>3 DEF PacketWrites, Disk
<1>5. DiskInv(server, disk')
  BY <1>2, <1>4 DEF DiskInv
<1>6. Covered(server, disk', client)
  BY <1>1, <1>4, FirstIsCarried DEF Covered
<1> QED
  BY <1>1, <1>2, <1>3, <1>4, <1>5, <1>6, GoesOnCovers DEF PacketWrites, PacketFrame, PacketAwaits

LEMMA PacketMergesCovers ==
  ASSUME CoverInv, PacketMerges
  PROVE  CoverInv'
<1>1. /\ packets.at = "writing" /\ packets.queue # <<>>
      /\ UNCHANGED <<server, streams, pagers, boots, budget>>
      /\ packets' = [packets EXCEPT !.at = "advancing"]
  BY DEF CoverInv, PacketsInv, PacketMerges, PacketFrame, PacketAwaits
<1>2. disk \in Disk /\ client.cursor \in Nat /\ DiskInv(server, disk)
  BY DEF CoverInv, Client, DiskInv
<1>3. NewRows = Unread(client, First) /\ NewRows \in SUBSET Nat
  BY <1>1, NoAccessChanges
<1>4. /\ client' \in Client /\ client'.token = client.token /\ client'.running = client.running
      /\ client'.snapshot = client.snapshot /\ client'.subscription = client.subscription
      /\ client'.resubscribe = client.resubscribe /\ client'.stop = client.stop
      /\ client'.state = client.state /\ client'.pending = client.pending
      /\ client'.maps = client.maps \cup NewRows
      /\ client.cursor <= client'.cursor /\ First.last <= client'.cursor
      /\ client'.cursor = IF Moves(client) THEN First.last ELSE client.cursor
  <2>1. client' = Advanced([client EXCEPT !.maps = @ \cup NewRows])
    BY DEF PacketMerges
  <2> QED
    BY <1>1, <1>3, <2>1, AdvancedIs
<1>5. /\ disk' \in Disk /\ disk'.rows = disk.rows
      /\ disk'.cursor = IF Moves(client) THEN First.last ELSE disk.cursor
  <2>1. First.last \in Nat
    BY <1>1, FirstIsCarried DEF Delivery
  <2> QED
    BY <1>2, <2>1 DEF PacketMerges, Disk
<1>6. Unread(client, First) \subseteq disk.rows
  BY <1>1 DEF CoverInv, PacketsInv, First
<1>7. Covered(server, disk', client')
  BY <1>1, <1>3, <1>4, <1>5, <1>6, NewsCovers
<1>8. DiskInv(server, disk')
  BY <1>2, <1>4, <1>5, <1>7 DEF DiskInv, Covered
<1> QED
  BY <1>1, <1>4, <1>7, <1>8, GoesOnCovers

LEMMA PacketEndsCovers ==
  ASSUME CoverInv, PacketEnds
  PROVE  CoverInv'
<1>1. /\ packets.at = "advancing" /\ packets.queue # <<>>
      /\ PacketLeaves("next") /\ streams' = ResumedStreams("next")
      /\ UNCHANGED <<server, disk, client, boots, budget>>
  BY DEF CoverInv, PacketsInv, PacketEnds, PacketFrame, PacketFrees
<1>2. First.last <= client.cursor
  BY <1>1 DEF CoverInv, PacketsInv, First
<1> QED
  BY <1>1, <1>2, LeavesCovers DEF CoverInv

LEMMA PacketFailsCovers ==
  ASSUME CoverInv, PacketFails
  PROVE  CoverInv'
<1>1. /\ packets.at # "none" /\ packets.queue # <<>>
      /\ PacketLeaves("failed") /\ streams' = ResumedStreams("failed")
      /\ UNCHANGED <<server, disk, client, boots>>
      /\ budget.faults > 0 /\ budget' = [budget EXCEPT !.faults = @ - 1]
  BY DEF CoverInv, PacketsInv, PacketFails, PacketFrees
<1>2. "faults" \in Chances
  BY DEF Chances
<1>3. /\ LogInv(server, budget')
      /\ budget.stops = 0 => budget'.stops = 0
      /\ budget.syncs = 0 => budget'.syncs = 0
  BY <1>1, <1>2, ChanceIsUsed DEF CoverInv
<1>4. ApartInv(budget', client, pagers)
  BY <1>3, ApartKept DEF CoverInv
<1> QED
  BY <1>1, <1>3, <1>4, LeavesCovers

LEMMA PacketStepsCover ==
  ASSUME CoverInv, PacketStep
  PROVE  CoverInv'
<1>1. packets.at # "none" => packets.queue # <<>>
  BY DEF CoverInv, PacketsInv
<1>2. packets.at \notin {"adding", "latching"}
  BY DEF CoverInv, PacketsInv, Deliveries
<1>3. InLock => Current /\ ~ChangesAccess /\ ~Owed(client)
  BY <1>1, NoAccessChanges DEF InLock
<1>4. /\ ~PacketIsStale /\ ~PacketChangesGroups /\ ~PacketRequestsBootstrap /\ ~PacketIsHeld
  BY <1>2, <1>3 DEF PacketIsStale, PacketChangesGroups, PacketRequestsBootstrap, PacketIsHeld
<1>5. /\ PacketIsEmpty => packets.queue # <<>>
      /\ PacketRebases => packets.queue # <<>>
  BY <1>1 DEF PacketIsEmpty, PacketRebases, InLock
<1> QED
  BY <1>4, <1>5, PacketTakesCovers, PacketIsEmptyCovers, PacketRebasesCovers, PacketWritesCovers,
     PacketMergesCovers, PacketEndsCovers, PacketFailsCovers
  DEF PacketStep

-----------------------------------------------------------------------------
(* Streams and catch-ups go on and end. *)

\* What moves no cursor.
SameCover(c, d) ==
    /\ d.running = c.running /\ d.token = c.token /\ d.cursor = c.cursor
    /\ d.snapshot = c.snapshot /\ d.pending = c.pending /\ d.maps = c.maps
    /\ d.stop = c.stop

LEMMA TasksMoveCover ==
  ASSUME CoverInv, UNCHANGED <<server, disk, boots>>, client' \in Client,
         SameCover(client, client'),
         client'.state \in {client.state, "error"} \/ Started(client, boots),
         boots[0].pc = "free" \/ client'.state = client.state,
         client'.subscription = None \/ client.subscription # None \/ Started(client, boots),
         \/ packets'.queue = <<>> \/ packets.queue # <<>>
         \/ client.subscription # None \/ Started(client, boots),
         LogInv(server, budget'), ApartInv(budget', client', pagers'),
         StreamsInv(server, client', streams', boots), PagersInv(server, client', pagers', boots),
         PacketsInv(server, disk, client', streams', pagers', packets')
  PROVE  CoverInv'
<1>1. Started(client, boots) \/ Busy(client, packets) =>
        Covered(server, disk, client) /\ ~client.pending
  BY DEF CoverInv, LiveInv
<1>2. /\ Started(client', boots) => Started(client, boots)
      /\ Busy(client', packets') => Busy(client, packets) \/ Started(client, boots)
  BY DEF Started, Busy, SameCover
<1>3. LiveInv(server, disk, client', boots, packets')
  BY <1>1, <1>2 DEF LiveInv, Covered, SameCover
<1>4. QuietInv(client, boots, packets)
  BY DEF CoverInv
<1>5. QuietInv(client', boots, packets')
  BY <1>2, <1>4 DEF QuietInv, SameCover, Started, Busy
<1>6. BootsInv(server, disk, client', boots)
  BY DEF CoverInv, BootsInv, StartInv, SameCover, Covered
<1> QED
  BY <1>3, <1>5, <1>6 DEF CoverInv

\* The loop of a stream ends, and nobody holds it.
LEMMA EndedStreamIsFree ==
  ASSUME CoverInv, NEW h \in Streams, streams[h].pc # "queued"
  PROVE  /\ StreamsInv(server, Without(client, h), StreamEnded(h), boots)
         /\ StillQueued(streams, StreamEnded(h))
         /\ Without(client, h) \in Client /\ SameButStream(client, Without(client, h))
         /\ Without(client, h).connected = client.connected
         /\ Without(client, h).subscription \in {client.subscription, None}
         /\ client.subscription = h => Without(client, h).subscription = None
         /\ client.subscription # h => Without(client, h) = client
<1>1. client \in Client /\ StreamsInv(server, client, streams, boots)
  BY DEF CoverInv
<1>2. streams \in [Streams -> Stream]
  BY <1>1 DEF StreamsInv
<1>3. FreeStream \in Stream /\ FreeStream.pc = "free"
  BY NothingIsTyped DEF FreeStream
<1>4. /\ StreamEnded(h) \in [Streams -> Stream] /\ StreamEnded(h)[h].pc = "free"
      /\ \A j \in Streams : j # h => StreamEnded(h)[j] = streams[j]
  BY <1>2, <1>3 DEF StreamEnded
<1>5. StillQueued(streams, StreamEnded(h))
  BY <1>4 DEF StillQueued
<1>6. /\ Without(client, h) \in Client /\ SameButStream(client, Without(client, h))
      /\ Without(client, h).connected = client.connected
      /\ Without(client, h).subscription \in {client.subscription, None}
      /\ client.subscription = h => Without(client, h).subscription = None
      /\ client.subscription # h => Without(client, h) = client
  <2>1. CASE client.subscription # h
    <3>1. Without(client, h) = client
      BY <2>1 DEF Without
    <3> QED
      BY <1>1, <2>1, <3>1 DEF SameButStream
  <2>2. CASE client.subscription = h
    <3>1. Without(client, h) = [client EXCEPT !.subscription = None]
      BY <2>2 DEF Without
    <3>2. /\ Without(client, h) \in Client /\ SameButStream(client, Without(client, h))
          /\ Without(client, h).connected = client.connected
          /\ Without(client, h).subscription = None
      BY <1>1, <3>1 DEF Client, SameButStream
    <3> QED
      BY <2>2, <3>2
  <2> QED
    BY <2>1, <2>2
<1>7. Without(client, h).subscription # h
  BY <1>6 DEF None, Streams
<1>8. \A run : Begun(run, client, boots) => Begun(run, Without(client, h), boots)
  BY <1>6 DEF Begun, ActiveIn, SameButStream
<1>9. \A j \in Streams : Without(client, h).subscription = j =>
        client.subscription = j /\ HeldInv(server, client, streams[j])
  BY <1>1, <1>6 DEF StreamsInv, None, Streams
<1>10. \A j \in Streams : Without(client, h).subscription = j =>
         HeldInv(server, Without(client, h), StreamEnded(h)[j])
  BY <1>4, <1>6, <1>7, <1>9 DEF HeldInv, SameButStream
<1>11. StreamsInv(server, Without(client, h), StreamEnded(h), boots)
  BY <1>1, <1>4, <1>6, <1>8, <1>10 DEF StreamsInv, SameButStream
<1> QED
  BY <1>5, <1>6, <1>11

\* Nothing but streams changes, and no packet is enqueued.
LEMMA StreamsMoveCover ==
  ASSUME CoverInv, UNCHANGED <<server, disk, boots, pagers, packets>>, client' \in Client,
         SameCover(client, client'),
         client'.state \in {client.state, "error"} \/ Started(client, boots),
         boots[0].pc = "free" \/ client'.state = client.state,
         client'.subscription = None \/ client.subscription # None \/ Started(client, boots),
         LogInv(server, budget'), budget.stops = 0 => budget'.stops = 0,
         budget.syncs = 0 => budget'.syncs = 0,
         StreamsInv(server, client', streams', boots), StillQueued(streams, streams')
  PROVE  CoverInv'
<1>1. client \in Client /\ client.cursor <= client'.cursor
  <2>1. client \in Client
    BY DEF CoverInv
  <2>2. client.cursor \in Nat
    BY <2>1 DEF Client
  <2> QED
    BY <2>1, <2>2 DEF SameCover
<1>2. PagersInv(server, client', pagers, boots)
  BY <1>1, PagersKept DEF CoverInv, SameCover, Started
<1>3. StillWaits(pagers, pagers)
  BY DEF StillWaits
<1>4. PacketsInv(server, disk, client', streams', pagers, packets)
  BY <1>1, <1>3, PacketsKept DEF CoverInv, SameCover
<1>5. ApartInv(budget', client', pagers)
  BY ApartKept DEF CoverInv, SameCover
<1>6. \/ packets.queue = <<>> \/ packets.queue # <<>>
  OBVIOUS
<1> QED
  BY <1>2, <1>4, <1>5, <1>6, TasksMoveCover

\* A call that fails uses a chance, or none.
LEMMA FaultIsUsed ==
  ASSUME CoverInv,
         budget' = budget \/ (budget.faults > 0 /\ budget' = [budget EXCEPT !.faults = @ - 1])
  PROVE  /\ LogInv(server, budget')
         /\ budget.stops = 0 => budget'.stops = 0
         /\ budget.syncs = 0 => budget'.syncs = 0
<1>1. CASE budget' = budget
  BY <1>1 DEF CoverInv
<1>2. CASE budget.faults > 0 /\ budget' = [budget EXCEPT !.faults = @ - 1]
  <2>1. "faults" \in Chances
    BY DEF Chances
  <2> QED
    BY <1>2, <2>1, ChanceIsUsed DEF CoverInv
<1> QED
  BY <1>1, <1>2

\* A batch of the stream goes on from what was applied.
LEMMA StreamDeliversCovers ==
  ASSUME CoverInv, StreamInv, NEW h \in Streams, StreamDelivers(h)
  PROVE  CoverInv'
<1> DEFINE s == streams[h]
           visible == After(s.at, Resolved(s.asked))
<1>1. /\ s.pc = "next" /\ s.open /\ Active(s.run)
      /\ UNCHANGED <<server, disk, client, boots, pagers, packets, budget>>
  BY DEF StreamDelivers, StreamFrame
<1>2. PICK last \in visible :
        streams' = [streams EXCEPT ![h].pc = "gate", ![h].at = last,
                                   ![h].actions = {i \in visible : i <= last},
                                   ![h].grants = Granted(server.head)]
  BY DEF StreamDelivers
<1>3. /\ streams \in [Streams -> Stream] /\ client \in Client
      /\ LogInv(server, budget) /\ StreamsInv(server, client, streams, boots)
  BY DEF CoverInv, StreamsInv
<1>4. s.at \in Nat /\ s.asked \in GroupSets /\ server.head \in Nat
  BY <1>3 DEF Stream, LogInv, Server
<1>5. client.subscription = h /\ HeldInv(server, client, s) /\ client.running
  BY <1>1, <1>3 DEF StreamInv, OneOpen, StreamsInv, Active, ActiveIn
<1>6. Resolved(s.asked) = {Own} /\ Granted(server.head) = {Own}
  <2>1. server.head <= server.head
    BY <1>4
  <2> QED
    BY <1>3, <1>4, <2>1, ResolvedIsOwn, GrantedIsOwn
<1>7. visible = {i \in s.at + 1 .. server.head : server.log[i].group = Own}
  BY <1>3, <1>4, <1>6, AfterIsMine
<1>8. visible \in SUBSET Nat /\ last \in Nat /\ s.at <= last /\ last <= server.head
  <2> HIDE DEF visible, s
  <2>1. \A i \in visible : i \in Nat /\ s.at <= i /\ i <= server.head
    BY <1>4, <1>7
  <2> QED
    BY <2>1
<1> DEFINE more == {i \in visible : i <= last}
<1>9. Carries(server.log, more, last, client.cursor)
  <2>1. Carries(server.log, {}, s.at, client.cursor) /\ client.cursor \in Nat
    BY <1>1, <1>3, <1>5 DEF HeldInv, Client
  <2>2. more \subseteq After(s.at, {Own}) /\ \A i \in After(s.at, {Own}) : i <= last => i \in more
    BY <1>6
  <2> HIDE DEF more, visible, s
  <2>3. Carries(server.log, {} \cup more, last, client.cursor)
    BY <1>3, <1>4, <1>8, <2>1, <2>2, ReadingCarries
  <2>4. {} \cup more = more
    OBVIOUS
  <2> QED
    BY <2>3, <2>4
<1>10. more \in SUBSET Nat /\ {Own} \in SUBSET Groups
  <2> HIDE DEF visible
  <2> QED
    BY <1>8, SyncClientAssumption
<1> HIDE DEF more
<1>11. streams' = [streams EXCEPT ![h].pc = "gate", ![h].at = last, ![h].actions = more,
                                  ![h].grants = {Own}]
  BY <1>2, <1>6 DEF more
<1> HIDE DEF visible, s
<1>12. /\ streams' \in [Streams -> Stream]
       /\ \A j \in Streams : j # h => streams'[j] = streams[j]
       /\ streams'[h].pc = "gate" /\ streams'[h].at = last /\ streams'[h].actions = more
       /\ streams'[h].run = streams[h].run /\ streams'[h].snapshot = streams[h].snapshot
  <2> DEFINE new == [streams[h] EXCEPT !.pc = "gate", !.at = last, !.actions = more,
                                       !.grants = {Own}]
  <2>1. "gate" \in StreamPlaces /\ streams[h] \in Stream
    BY <1>3 DEF StreamPlaces
  <2>2. /\ new \in Stream /\ new.pc = "gate" /\ new.at = last /\ new.actions = more
        /\ new.run = streams[h].run /\ new.snapshot = streams[h].snapshot
    BY <1>8, <1>10, <2>1 DEF Stream
  <2>3. streams' = [streams EXCEPT ![h] = new]
    BY <1>3, <1>11
  <2> HIDE DEF new
  <2> QED
    BY <1>3, <2>2, <2>3
<1>13. HeldInv(server, client, streams'[h])
  BY <1>5, <1>8, <1>9, <1>12 DEF HeldInv, s
<1>14. StreamsInv(server, client, streams', boots)
  BY <1>1, <1>3, <1>12, <1>13 DEF StreamsInv, s
<1>15. StillQueued(streams, streams')
  BY <1>1, <1>12 DEF StillQueued, s
<1>16. SameCover(client, client)
  BY DEF SameCover
<1> QED
  BY <1>1, <1>3, <1>5, <1>14, <1>15, <1>16, StreamsMoveCover

\* A packet that whoever waits for it has enqueued is the last of the queue.
LEMMA EnqueuedIsKept ==
  ASSUME NEW sv, NEW dk, NEW c \in Client, NEW d \in Client, NEW s, NEW z, NEW g, NEW y, NEW p,
         PacketsInv(sv, dk, c, s, g, p), StillQueued(s, z), StillWaits(g, y),
         d.snapshot = c.snapshot, d.cursor = c.cursor, NEW k \in Delivery,
         PacketInv(sv, d, z, y, k), \A i \in DOMAIN p.queue : p.queue[i].owner # k.owner
  PROVE  PacketsInv(sv, dk, d, z, y, [p EXCEPT !.queue = Append(@, k)])
<1> DEFINE r == [p EXCEPT !.queue = Append(@, k)]
<1>1. PacketsInv(sv, dk, d, z, y, p)
  BY PacketsKept
<1>2. p \in Deliveries /\ p.queue \in Seq(Delivery)
  BY DEF PacketsInv, Deliveries
<1>3. Append(p.queue, k) \in Seq(Delivery)
  BY <1>2
<1>4. r \in Deliveries /\ r.queue = Append(p.queue, k) /\ r.at = p.at
  BY <1>2, <1>3 DEF Deliveries
<1> HIDE DEF r
<1>5. /\ DOMAIN r.queue = DOMAIN p.queue \cup {Len(p.queue) + 1}
      /\ \A i \in DOMAIN p.queue : r.queue[i] = p.queue[i] /\ i # Len(p.queue) + 1
      /\ r.queue[Len(p.queue) + 1] = k
      /\ p.queue # <<>> => Head(r.queue) = Head(p.queue) /\ r.queue # <<>>
  BY <1>2, <1>4
<1>6. \A i \in DOMAIN r.queue : PacketInv(sv, d, z, y, r.queue[i])
  BY <1>1, <1>5 DEF PacketsInv
<1>7. \A i, j \in DOMAIN r.queue : r.queue[i].owner = r.queue[j].owner => i = j
  BY <1>1, <1>5 DEF PacketsInv
<1>8. /\ r.at # "none" => r.queue # <<>>
      /\ r.at = "writing" => Unread(d, Head(r.queue)) \subseteq dk.rows
      /\ r.at = "advancing" => Head(r.queue).last <= d.cursor
  BY <1>1, <1>4, <1>5 DEF PacketsInv
<1> QED
  BY <1>4, <1>6, <1>7, <1>8 DEF PacketsInv, r

\* The steps of a stream.
LEMMA StreamEnqueuesCovers ==
  ASSUME CoverInv, NEW h \in Streams, StreamEnqueues(h)
  PROVE  CoverInv'
<1> DEFINE s == streams[h]
<1>1. s.pc = "gate" /\ UNCHANGED <<server, disk, client, boots, pagers, budget>>
  BY DEF StreamEnqueues, StreamFrame
<1>2. SameCover(client, client) /\ client \in Client
  BY DEF SameCover, CoverInv
<1>3. CASE client.subscription # h /\ streams' = StreamEnded(h) /\ UNCHANGED packets
  <2>1. Without(client, h) = client
    BY <1>1, <1>3, EndedStreamIsFree
  <2>2. StreamsInv(server, client, streams', boots) /\ StillQueued(streams, streams')
    BY <1>1, <1>3, <2>1, EndedStreamIsFree
  <2> QED
    BY <1>1, <1>2, <1>3, <2>2, StreamsMoveCover DEF CoverInv
<1>4. CASE /\ client.subscription = h
           /\ packets' = Enqueued(Packet(StreamRef(h), s.actions, s.at, s.grants, s.snapshot))
           /\ streams' = [streams EXCEPT ![h].pc = "queued", ![h].actions = {}, ![h].grants = {}]
  <2> DEFINE k == Packet(StreamRef(h), s.actions, s.at, s.grants, s.snapshot)
             new == [streams[h] EXCEPT !.pc = "queued", !.actions = {}, !.grants = {}]
  <2>1. streams \in [Streams -> Stream] /\ s \in Stream /\ HeldInv(server, client, s)
    BY <1>4 DEF CoverInv, StreamsInv
  <2>2. /\ new \in Stream /\ new.pc = "queued" /\ new.at = s.at /\ new.run = s.run
        /\ new.snapshot = s.snapshot
    BY <2>1 DEF Stream, StreamPlaces
  <2>3. streams' = [streams EXCEPT ![h] = new]
    BY <1>4, <2>1
  <2>4. /\ k \in Delivery /\ k.owner = StreamRef(h) /\ k.actions = s.actions /\ k.last = s.at
        /\ k.snapshot = s.snapshot
    BY <2>1 DEF Delivery, Stream, Packet, Owners
  <2>5. packets' = [packets EXCEPT !.queue = Append(@, k)]
    BY <1>4 DEF Enqueued
  <2> HIDE DEF k, new
  <2>6. /\ streams' \in [Streams -> Stream] /\ streams'[h] = new
        /\ \A j \in Streams : j # h => streams'[j] = streams[j]
    BY <2>1, <2>2, <2>3
  <2> HIDE DEF s
  <2>7. StillQueued(streams, streams') /\ StillWaits(pagers, pagers)
    BY <1>1, <2>6 DEF StillQueued, StillWaits, s
  <2>8. PacketInv(server, client, streams', pagers, k)
    <3>1. Waits(k, streams', pagers)
      BY <2>2, <2>4, <2>6 DEF Waits
    <3> QED
      BY <1>1, <2>1, <2>4, <3>1 DEF PacketInv, HeldInv
  <2>9. \A i \in DOMAIN packets.queue : packets.queue[i].owner # k.owner
    <3>1. \A i \in DOMAIN packets.queue : Waits(packets.queue[i], streams, pagers)
      BY DEF CoverInv, PacketsInv, PacketInv
    <3>2. /\ \A j \in Streams : StreamRef(h) = StreamRef(j) => h = j
          /\ \A q \in Pagers : StreamRef(h) # PagerRef(q)
      BY DEF StreamRef, PagerRef
    <3> QED
      BY <1>1, <2>4, <3>1, <3>2 DEF Waits, s
  <2>10. PacketsInv(server, disk, client, streams', pagers, packets')
    BY <1>2, <2>4, <2>5, <2>7, <2>8, <2>9, EnqueuedIsKept DEF CoverInv
  <2>11. HeldInv(server, client, new)
    BY <2>1, <2>2 DEF HeldInv
  <2>12. StreamsInv(server, client, streams', boots)
    BY <1>1, <2>2, <2>6, <2>11 DEF CoverInv, StreamsInv, s
  <2>13. client.subscription # None
    BY <1>4 DEF None, Streams
  <2>14. boots[0].pc = "free" \/ client.state = client.state
    OBVIOUS
  <2> QED
    BY <1>1, <1>2, <2>10, <2>12, <2>13, TasksMoveCover DEF CoverInv
<1> QED
  BY <1>3, <1>4 DEF StreamEnqueues

LEMMA StreamLeavesCovers ==
  ASSUME CoverInv, NEW h \in Streams, StreamLeaves(h)
  PROVE  CoverInv'
<1>1. /\ streams[h].pc = "next" /\ client' = Without(client, h) /\ streams' = StreamEnded(h)
      /\ UNCHANGED <<server, disk, boots, pagers, packets, budget>>
  BY DEF StreamLeaves, StreamFrame
<1>2. /\ StreamsInv(server, client', streams', boots) /\ StillQueued(streams, streams')
      /\ client' \in Client /\ SameButStream(client, client')
      /\ client'.subscription \in {client.subscription, None}
  BY <1>1, EndedStreamIsFree
<1>3. SameCover(client, client') /\ client'.state = client.state
  BY <1>2 DEF SameCover, SameButStream
<1> QED
  BY <1>1, <1>2, <1>3, StreamsMoveCover DEF CoverInv

\* A run that is active has started, with what its cursor claims.
LEMMA ActiveHasStarted ==
  ASSUME CoverInv, NEW run, Active(run), Begun(run, client, boots)
  PROVE  /\ Started(client, boots) /\ boots[0].pc = "free"
         /\ Covered(server, disk, client) /\ ~client.pending /\ client.cursor <= server.head
  BY DEF CoverInv, LiveInv, Begun, Active, ActiveIn, Started, Covered

LEMMA StreamEndsCovers ==
  ASSUME CoverInv, NEW h \in Streams, StreamEnds(h)
  PROVE  CoverInv'
<1> DEFINE ended == StreamEnded(h)
           c == Without(client, h)
<1>1. /\ streams[h].pc = "next" /\ Active(streams[h].run)
      /\ UNCHANGED <<server, disk, boots, pagers, packets>>
  BY DEF StreamEnds, StreamFrame
<1>2. /\ LogInv(server, budget')
      /\ budget.stops = 0 => budget'.stops = 0
      /\ budget.syncs = 0 => budget'.syncs = 0
  BY FaultIsUsed DEF StreamEnds
<1>3. Started(client, boots) /\ boots[0].pc = "free" /\ client.cursor <= server.head
  BY <1>1, ActiveHasStarted DEF CoverInv, StreamsInv
<1>4. /\ StreamsInv(server, c, ended, boots) /\ StillQueued(streams, ended)
      /\ c \in Client /\ SameButStream(client, c)
  BY <1>1, EndedStreamIsFree
<1>5. \/ Subscribe(c, ended)
      \/ client' = c /\ streams' = ended
  BY DEF StreamEnds
<1> HIDE DEF c, ended
<1>6. CASE Subscribe(c, ended)
  <2>1. c.cursor <= server.head /\ server \in Server
    BY <1>3, <1>4 DEF SameButStream, CoverInv, LogInv
  <2>2. /\ StreamsInv(server, client', streams', boots) /\ StillQueued(ended, streams')
        /\ client' \in Client /\ SameButStream(c, client')
    BY <1>3, <1>4, <1>6, <2>1, SubscribeCovers
  <2>3. StillQueued(streams, streams')
    BY <1>4, <2>2 DEF StillQueued
  <2>4. SameCover(client, client') /\ client'.state = client.state
    BY <1>4, <2>2 DEF SameCover, SameButStream
  <2> QED
    BY <1>1, <1>2, <1>3, <2>2, <2>3, <2>4, StreamsMoveCover
<1>7. CASE client' = c /\ streams' = ended
  <2>1. SameCover(client, client') /\ client'.state = client.state
    BY <1>4, <1>7 DEF SameCover, SameButStream
  <2> QED
    BY <1>1, <1>2, <1>3, <1>4, <1>7, <2>1, StreamsMoveCover
<1> QED
  BY <1>5, <1>6, <1>7

LEMMA StreamFailsCovers ==
  ASSUME CoverInv, NEW h \in Streams, StreamFails(h)
  PROVE  CoverInv'
<1> DEFINE run == streams[h].run
           c == Without(client, h)
<1>1. /\ streams[h].pc \in {"next", "failed"} /\ streams' = StreamEnded(h)
      /\ UNCHANGED <<server, disk, boots, pagers, packets>>
      /\ client' = IF Active(run) THEN [c EXCEPT !.state = "error", !.resubscribe = run] ELSE c
  BY DEF StreamFails, StreamFrame
<1>2. /\ LogInv(server, budget')
      /\ budget.stops = 0 => budget'.stops = 0
      /\ budget.syncs = 0 => budget'.syncs = 0
  BY FaultIsUsed DEF StreamFails
<1>3. /\ StreamsInv(server, c, streams', boots) /\ StillQueued(streams, streams')
      /\ c \in Client /\ SameButStream(client, c)
      /\ c.subscription \in {client.subscription, None}
  BY <1>1, EndedStreamIsFree
<1> HIDE DEF c
<1>4. CASE ~Active(run)
  <2>1. client' = c
    BY <1>1, <1>4
  <2>2. SameCover(client, client') /\ client'.state = client.state
    BY <1>3, <2>1 DEF SameCover, SameButStream
  <2> QED
    BY <1>1, <1>2, <1>3, <2>1, <2>2, StreamsMoveCover
<1>5. CASE Active(run)
  <2>1. client' = [c EXCEPT !.state = "error", !.resubscribe = run]
    BY <1>1, <1>5
  <2>2. run \in Nat /\ Begun(run, client, boots)
    BY <1>1 DEF CoverInv, StreamsInv, Stream
  <2>3. Started(client, boots) /\ boots[0].pc = "free"
    BY <1>5, <2>2, ActiveHasStarted
  <2> HIDE DEF run
  <2>4. /\ client' \in Client /\ client'.state = "error" /\ client'.resubscribe = run
        /\ client'.subscription = c.subscription /\ client'.token = c.token
        /\ client'.running = c.running /\ client'.snapshot = c.snapshot
        /\ client'.cursor = c.cursor /\ client'.pending = c.pending /\ client'.maps = c.maps
        /\ client'.stop = c.stop
    BY <1>3, <2>1, <2>2 DEF Client
  <2>5. SameCover(client, client')
    BY <1>3, <2>4 DEF SameCover, SameButStream
  <2>6. StreamsInv(server, client', streams', boots)
    <3>1. \A r : Begun(r, client, boots) => Begun(r, client', boots)
      BY <2>5 DEF Begun, ActiveIn, SameCover
    <3>2. \A r : Begun(r, c, boots) => Begun(r, client', boots)
      BY <2>4 DEF Begun, ActiveIn
    <3>3. \A j \in Streams : HeldInv(server, c, streams'[j]) => HeldInv(server, client', streams'[j])
      BY <2>4 DEF HeldInv
    <3> QED
      BY <1>3, <2>2, <2>4, <3>1, <3>2, <3>3 DEF StreamsInv
  <2> QED
    BY <1>1, <1>2, <1>3, <2>3, <2>4, <2>5, <2>6, StreamsMoveCover
<1> QED
  BY <1>4, <1>5

LEMMA ResubscribeFiresCovers ==
  ASSUME CoverInv, ResubscribeFires
  PROVE  CoverInv'
<1> DEFINE c == [client EXCEPT !.resubscribe = 0]
<1>1. client.resubscribe # 0 /\ UNCHANGED <<server, disk, boots, pagers, packets, budget>>
  BY DEF ResubscribeFires, StreamFrame
<1>2. client \in Client /\ StreamsInv(server, client, streams, boots) /\ LogInv(server, budget)
  BY DEF CoverInv
<1>3. /\ c \in Client /\ SameCover(client, c) /\ c.state = client.state
      /\ c.subscription = client.subscription /\ c.resubscribe = 0
  BY <1>2 DEF Client, SameCover
<1>4. \/ Active(client.resubscribe) /\ SubscribeIfNone(c, streams)
      \/ client' = c /\ UNCHANGED streams
  BY DEF ResubscribeFires
<1> HIDE DEF c
<1>5. StreamsInv(server, c, streams, boots)
  <2>1. \A r : Begun(r, client, boots) => Begun(r, c, boots)
    BY <1>3 DEF Begun, ActiveIn, SameCover
  <2>2. \A j \in Streams : HeldInv(server, client, streams[j]) => HeldInv(server, c, streams[j])
    BY <1>3 DEF HeldInv, SameCover
  <2> QED
    BY <1>2, <1>3, <2>1, <2>2 DEF StreamsInv
<1>6. CASE Active(client.resubscribe) /\ SubscribeIfNone(c, streams)
  <2>1. Started(client, boots) /\ boots[0].pc = "free" /\ client.cursor <= server.head
    BY <1>1, <1>2, <1>6, ActiveHasStarted DEF StreamsInv
  <2>2. c.cursor <= server.head /\ server \in Server
    BY <1>2, <1>3, <2>1 DEF SameCover, LogInv
  <2>3. /\ StreamsInv(server, client', streams', boots) /\ StillQueued(streams, streams')
        /\ client' \in Client /\ SameButStream(c, client')
    BY <1>3, <1>5, <1>6, <2>1, <2>2, SubscribeIfNoneCovers
  <2>4. SameCover(client, client') /\ client'.state = client.state
    BY <1>3, <2>3 DEF SameCover, SameButStream
  <2> QED
    BY <1>1, <1>2, <2>1, <2>3, <2>4, StreamsMoveCover
<1>7. CASE client' = c /\ UNCHANGED streams
  <2>1. StillQueued(streams, streams)
    BY DEF StillQueued
  <2> QED
    BY <1>1, <1>2, <1>3, <1>5, <1>7, <2>1, StreamsMoveCover
<1> QED
  BY <1>4, <1>6, <1>7

LEMMA StreamStepsCover ==
  ASSUME CoverInv, StreamInv, NEW h \in Streams, StreamStep(h)
  PROVE  CoverInv'
<1>1. streams[h] \in Stream
  BY DEF CoverInv, StreamsInv
<1>2. ~StreamLatches(h) /\ ~StreamQuarantines(h)
  BY <1>1 DEF Stream, StreamPlaces, StreamLatches, StreamQuarantines
<1>3. ~StreamRequiresBootstrap(h)
  <2>1. streams[h].at \in Nat /\ server.floor = 0
    BY <1>1 DEF Stream, CoverInv, LogInv, Server
  <2> QED
    BY <2>1 DEF StreamRequiresBootstrap, TooOld
<1> QED
  BY <1>2, <1>3, StreamDeliversCovers, StreamEnqueuesCovers, StreamLeavesCovers, StreamEndsCovers,
     StreamFailsCovers
  DEF StreamStep

\* A catch-up moves to `new`, and goes on from what was applied.
PagerMoves(c, q, new) ==
    /\ pagers[q].pc # "free" /\ pagers[q].pc # "queued"
    /\ new \in CatchUp
    /\ new.pc # "free" => new.run = pagers[q].run
    /\ Going(c, new) => GoingInv(server, c, new)

\* The other catch-ups stay as they are.
LEMMA PagerMovesKeep ==
  ASSUME CoverInv, NEW q \in Pagers, NEW new, NEW c \in Client, SameCover(client, c),
         PagerMoves(c, q, new), pagers' = [pagers EXCEPT ![q] = new]
  PROVE  /\ PagersInv(server, c, pagers', boots) /\ StillWaits(pagers, pagers')
         /\ pagers'[q] = new
         /\ \A p \in Pagers : pagers'[p].pc # "free" =>
              pagers[p].pc # "free" /\ pagers'[p].run = pagers[p].run
<1>1. client \in Client /\ PagersInv(server, client, pagers, boots)
  BY DEF CoverInv
<1>2. /\ pagers' \in [Pagers -> CatchUp] /\ pagers'[q] = new
      /\ \A p \in Pagers : p # q => pagers'[p] = pagers[p]
  BY <1>1 DEF PagersInv, PagerMoves
<1>3. c.token = client.token /\ c.running = client.running
  BY DEF SameCover
<1>4. \A p \in Pagers : Going(c, pagers'[p]) => Going(client, pagers[p])
  BY <1>2, <1>3 DEF Going, ActiveIn, PagerMoves
<1>5. \A p \in Pagers : p # q /\ GoingInv(server, client, pagers[p]) =>
        GoingInv(server, c, pagers'[p])
  BY <1>2 DEF GoingInv, SameCover
<1>6. \A p \in Pagers : Going(c, pagers'[p]) => Started(c, boots) /\ GoingInv(server, c, pagers'[p])
  BY <1>1, <1>2, <1>3, <1>4, <1>5 DEF PagersInv, PagerMoves, Started
<1>7. \A p \in Pagers : pagers'[p].pc # "free" =>
        pagers[p].pc # "free" /\ pagers'[p].run = pagers[p].run
  BY <1>2 DEF PagerMoves
<1>8. \A p \in Pagers : pagers'[p].pc # "free" => pagers'[p].run <= c.token
  BY <1>1, <1>3, <1>7 DEF PagersInv
<1>9. StillWaits(pagers, pagers')
  BY <1>2 DEF StillWaits, PagerMoves
<1> QED
  BY <1>2, <1>6, <1>7, <1>8, <1>9 DEF PagersInv

\* What the client changes while a catch-up goes on: the holds and the state.
SameTasks(c, d) ==
    /\ SameCover(c, d) /\ d.subscription = c.subscription /\ d.resubscribe = c.resubscribe
    /\ d.state \in {c.state, "error"}

LEMMA PagerMovesCovers ==
  ASSUME CoverInv, NEW q \in Pagers, NEW new, PagerMoves(client', q, new),
         pagers' = [pagers EXCEPT ![q] = new], client' \in Client, SameTasks(client, client'),
         boots[0].pc = "free" \/ client'.state = client.state,
         UNCHANGED <<server, disk, boots, streams, packets>>,
         budget' = budget \/ (budget.faults > 0 /\ budget' = [budget EXCEPT !.faults = @ - 1])
  PROVE  CoverInv'
<1>1. /\ client \in Client /\ SameCover(client, client')
      /\ client'.subscription = client.subscription
      /\ client'.resubscribe = client.resubscribe
      /\ client'.state \in {client.state, "error"}
  BY DEF CoverInv, SameTasks
<1>2. /\ PagersInv(server, client', pagers', boots) /\ StillWaits(pagers, pagers')
      /\ \A p \in Pagers : pagers'[p].pc # "free" =>
           pagers[p].pc # "free" /\ pagers'[p].run = pagers[p].run
  BY <1>1, PagerMovesKeep
<1>3. /\ LogInv(server, budget')
      /\ budget.stops = 0 => budget'.stops = 0
      /\ budget.syncs = 0 => budget'.syncs = 0
  BY FaultIsUsed
<1>4. ApartInv(budget', client', pagers')
  <2>1. client'.stop = client.stop /\ ApartInv(budget, client, pagers)
    BY <1>1 DEF CoverInv, SameCover
  <2> QED
    BY <1>2, <1>3, <2>1 DEF ApartInv
<1>5. client.cursor <= client'.cursor
  <2>1. client.cursor \in Nat
    BY <1>1 DEF Client
  <2> QED
    BY <1>1, <2>1 DEF SameCover
<1>6. StreamsInv(server, client', streams, boots)
  BY <1>1, <1>5, StreamsKept DEF CoverInv, SameCover
<1>7. StillQueued(streams, streams)
  BY DEF StillQueued
<1>8. PacketsInv(server, disk, client', streams, pagers', packets)
  BY <1>1, <1>2, <1>7, PacketsKept DEF CoverInv, SameCover
<1>9. \/ packets.queue = <<>> \/ packets.queue # <<>>
  OBVIOUS
<1>10. \/ client.subscription = None \/ client.subscription # None
  OBVIOUS
<1> QED
  BY <1>1, <1>2, <1>3, <1>4, <1>6, <1>8, <1>9, <1>10, TasksMoveCover

\* A catch-up enqueues what it has buffered.
LEMMA FlushesCovers ==
  ASSUME CoverInv, NEW q \in Pagers, pagers[q].pc = "fetching", Going(client, pagers[q]),
         NEW buffer \in SUBSET Nat, NEW last \in Nat, last <= server.head,
         Carries(server.log, buffer, last, client.cursor),
         NEW grants \in SUBSET Groups, NEW more \in BOOLEAN,
         Flushes(q, buffer, last, grants, more),
         client' \in Client, SameTasks(client, client'), client'.state = client.state,
         UNCHANGED <<server, disk, boots, streams>>,
         budget' = budget \/ (budget.faults > 0 /\ budget' = [budget EXCEPT !.faults = @ - 1])
  PROVE  CoverInv'
<1> DEFINE k == Packet(PagerRef(q), buffer, last, grants, pagers[q].snapshot)
           new == [pagers[q] EXCEPT !.pc = "queued", !.buffer = {}, !.grants = {},
                                    !.after = last, !.more = more]
<1>1. /\ client \in Client /\ SameCover(client, client')
      /\ client'.subscription = client.subscription
      /\ client'.resubscribe = client.resubscribe
      /\ client'.state = client.state
  BY DEF CoverInv, SameTasks
<1>2. /\ pagers \in [Pagers -> CatchUp] /\ pagers[q] \in CatchUp
      /\ Started(client, boots) /\ GoingInv(server, client, pagers[q])
  BY DEF CoverInv, PagersInv
<1>3. /\ new \in CatchUp /\ new.pc = "queued" /\ new.run = pagers[q].run /\ new.after = last
      /\ new.snapshot = pagers[q].snapshot /\ new.buffer = {}
  <2>1. "queued" \in PagerPlaces
    BY DEF PagerPlaces
  <2> QED
    BY <1>2, <2>1 DEF CatchUp
<1>4. pagers' = [pagers EXCEPT ![q] = new] /\ packets' = [packets EXCEPT !.queue = Append(@, k)]
  BY <1>2 DEF Flushes, Enqueued
<1>5. /\ k \in Delivery /\ k.owner = PagerRef(q) /\ k.actions = buffer /\ k.last = last
      /\ k.snapshot = pagers[q].snapshot
  <2>1. pagers[q].snapshot \in Nat
    BY <1>2 DEF CatchUp
  <2>2. PagerRef(q) \in Owners
    BY DEF Owners
  <2> QED
    BY <2>1, <2>2 DEF Delivery, Packet
<1> HIDE DEF new, k
<1>6. PagerMoves(client', q, new)
  <2>1. GoingInv(server, client', new)
    BY <1>1, <1>2, <1>3 DEF GoingInv, SameCover
  <2> QED
    BY <1>3, <2>1 DEF PagerMoves
<1>7. /\ PagersInv(server, client', pagers', boots) /\ StillWaits(pagers, pagers')
      /\ pagers'[q] = new
      /\ \A p \in Pagers : pagers'[p].pc # "free" =>
           pagers[p].pc # "free" /\ pagers'[p].run = pagers[p].run
  BY <1>1, <1>4, <1>6, PagerMovesKeep
<1>8. PacketInv(server, client', streams, pagers', k)
  <2>1. Waits(k, streams, pagers')
    BY <1>3, <1>5, <1>7 DEF Waits
  <2> QED
    BY <1>1, <1>2, <1>5, <2>1 DEF PacketInv, GoingInv, SameCover
<1>9. \A i \in DOMAIN packets.queue : packets.queue[i].owner # k.owner
  <2>1. \A i \in DOMAIN packets.queue : Waits(packets.queue[i], streams, pagers)
    BY DEF CoverInv, PacketsInv, PacketInv
  <2>2. /\ \A p \in Pagers : PagerRef(q) = PagerRef(p) => q = p
        /\ \A h \in Streams : PagerRef(q) # StreamRef(h)
    BY DEF StreamRef, PagerRef
  <2> QED
    BY <1>5, <2>1, <2>2 DEF Waits
<1>10. PacketsInv(server, disk, client', streams, pagers', packets')
  <2>1. StillQueued(streams, streams)
    BY DEF StillQueued
  <2> QED
    BY <1>1, <1>4, <1>5, <1>7, <1>8, <1>9, <2>1, EnqueuedIsKept DEF CoverInv, SameCover
<1>11. /\ LogInv(server, budget')
       /\ budget.stops = 0 => budget'.stops = 0
       /\ budget.syncs = 0 => budget'.syncs = 0
  BY FaultIsUsed
<1>12. ApartInv(budget', client', pagers')
  BY <1>1, <1>7, <1>11, ApartKept DEF CoverInv, SameCover
<1>13. client.cursor <= client'.cursor
  <2>1. client.cursor \in Nat
    BY <1>1 DEF Client
  <2> QED
    BY <1>1, <2>1 DEF SameCover
<1>14. StreamsInv(server, client', streams, boots)
  BY <1>1, <1>13, StreamsKept DEF CoverInv, SameCover
<1> QED
  BY <1>1, <1>2, <1>7, <1>10, <1>11, <1>12, <1>14, TasksMoveCover

\* The finally of a catch-up.
LEMMA NoHoldIsTyped ==
  ASSUME NEW c \in Client, NEW q \in Pagers
  PROVE  NoHold(c, q) \in Client /\ SameTasks(c, NoHold(c, q)) /\ NoHold(c, q).state = c.state
  BY DEF NoHold, Client, SameTasks, SameCover

LEMMA PagerEndsCovers ==
  ASSUME CoverInv, NEW q \in Pagers, pagers[q].pc \notin {"free", "queued"}, NEW c \in Client,
         PagerEnds(q, c), SameTasks(client, c), boots[0].pc = "free" \/ c.state = client.state,
         UNCHANGED <<server, disk, boots, streams, packets>>,
         budget' = budget \/ (budget.faults > 0 /\ budget' = [budget EXCEPT !.faults = @ - 1])
  PROVE  CoverInv'
<1>1. client' = NoHold(c, q) /\ pagers' = [pagers EXCEPT ![q] = FreePager]
  BY DEF PagerEnds
<1>2. client' \in Client /\ SameTasks(c, client') /\ client'.state = c.state
  BY <1>1, NoHoldIsTyped
<1>3. SameTasks(client, client')
  BY <1>2 DEF SameTasks, SameCover
<1>4. PagerMoves(client', q, FreePager)
  <2>1. FreePager \in CatchUp /\ FreePager.pc = "free"
    BY NothingIsTyped DEF FreePager
  <2> QED
    BY <2>1 DEF PagerMoves, Going
<1> QED
  BY <1>1, <1>2, <1>3, <1>4, PagerMovesCovers

\* A page of a catch-up is what comes after its cursor.
LEMMA PagerReadsCovers ==
  ASSUME CoverInv, NEW q \in Pagers, PagerReads(q)
  PROVE  CoverInv'
<1> DEFINE g == pagers[q]
           visible == After(g.after, Resolved(g.asked))
           page == {i \in visible : Cardinality({j \in visible : j <= i}) <= PageSize}
           more == page # visible
           buffer == g.buffer \cup page
           last == IF page = {} THEN g.after ELSE Highest(page)
           grants == IF Changes(page) = {} THEN g.grants ELSE Resolved(g.asked)
<1>1. /\ g.pc = "fetching" /\ UNCHANGED <<server, disk, boots, streams, budget>>
  BY DEF PagerReads, PagerFrame
<1>2. /\ pagers \in [Pagers -> CatchUp] /\ g \in CatchUp /\ client \in Client
      /\ LogInv(server, budget)
  BY DEF CoverInv, PagersInv
<1>3. CASE Stale(q) /\ PagerEnds(q, client) /\ UNCHANGED packets
  <2>1. SameTasks(client, client)
    BY DEF SameTasks, SameCover
  <2> QED
    BY <1>1, <1>2, <1>3, <2>1, PagerEndsCovers
<1>4. CASE /\ ~Stale(q)
           /\ client' = IF more THEN [client EXCEPT !.holds = @ \cup {q}] ELSE client
           /\ \/ Flushes(q, buffer, last, grants, more)
              \/ /\ pagers' = [pagers EXCEPT ![q].after = last, ![q].asked = client.groups,
                                             ![q].buffer = buffer, ![q].grants = grants]
                 /\ UNCHANGED packets
  <2>1. Going(client, g)
    BY <1>1, <1>4 DEF Going, Stale, Active
  <2>2. GoingInv(server, client, g)
    BY <2>1 DEF CoverInv, PagersInv
  <2>3. g.after \in Nat /\ g.asked \in GroupSets /\ server.head \in Nat /\ client.cursor \in Nat
    <3>1. g.after \in Nat /\ g.asked \in GroupSets
      BY <1>2 DEF CatchUp
    <3>2. client.cursor \in Nat
      BY <1>2 DEF Client
    <3> QED
      BY <1>2, <3>1, <3>2 DEF LogInv, Server
  <2>4. Resolved(g.asked) = {Own} /\ {Own} \in SUBSET Groups
    BY <1>2, <2>3, ResolvedIsOwn, SyncClientAssumption
  <2>5. visible = {i \in g.after + 1 .. server.head : server.log[i].group = Own}
    BY <1>2, <2>3, <2>4, AfterIsMine
  <2> HIDE DEF g
  <2>6. visible \in SUBSET Nat /\ \A i \in visible : g.after < i /\ i <= server.head
    <3> HIDE DEF visible
    <3>1. \A i \in visible : i \in Nat /\ g.after < i /\ i <= server.head
      BY <2>3, <2>5
    <3> QED
      BY <3>1
  <2>7. visible = After(g.after, {Own})
    BY <2>4
  <2>8. IsFiniteSet(visible)
    BY <2>3, <2>6, FS_BoundedSetOfNaturals
  <2> HIDE DEF visible
  <2>9. page \in SUBSET Nat /\ page \subseteq visible
    BY <2>6
  <2>10. page # {} => last \in page /\ \A i \in page : i <= last
    <3> HIDE DEF page
    <3>1. \A i \in page : i <= server.head
      BY <2>6, <2>9
    <3> QED
      BY <2>3, <2>9, <3>1, HighestIsOne
  <2>11. last \in Nat /\ g.after <= last /\ last <= server.head
    <3>1. CASE page = {}
      BY <2>2, <2>3, <3>1 DEF GoingInv
    <3>2. CASE page # {}
      <4> HIDE DEF page, last
      <4>1. last \in visible /\ last \in Nat
        BY <2>6, <2>9, <2>10, <3>2
      <4> QED
        BY <2>3, <2>6, <4>1
    <3> QED
      BY <3>1, <3>2
  <2>12. \A i \in visible : i <= last => i \in page
    <3>1. CASE page = {}
      <4>1. last = g.after
        BY <3>1
      <4> HIDE DEF last
      <4>2. \A i \in visible : i \in Nat /\ g.after < i
        BY <2>6
      <4> QED
        BY <2>3, <4>1, <4>2
    <3>2. CASE page # {}
      <4>1. last \in page
        BY <2>10, <3>2
      <4> HIDE DEF last
      <4>2. PageSize \in Nat
        BY SyncClientAssumption
      <4> QED
        BY <2>6, <2>8, <4>1, <4>2, PageHasNoGap
    <3> QED
      BY <3>1, <3>2
  <2>13. Carries(server.log, g.buffer, g.after, client.cursor)
    BY <1>1, <2>2 DEF GoingInv, g
  <2> HIDE DEF page, last
  <2>14. Carries(server.log, buffer, last, client.cursor)
    BY <1>2, <2>3, <2>7, <2>9, <2>11, <2>12, <2>13, ReadingCarries DEF LogInv
  <2>15. buffer \in SUBSET Nat /\ grants \in SUBSET Groups /\ more \in BOOLEAN
    <3>1. g.buffer \in SUBSET Nat /\ g.grants \in SUBSET Groups
      BY <1>2 DEF CatchUp, g
    <3> QED
      BY <2>4, <2>9, <3>1
  <2> HIDE DEF buffer, grants, more
  <2>16. client' \in Client /\ SameTasks(client, client') /\ client'.state = client.state
    <3>1. /\ client.holds \cup {q} \in SUBSET Pagers
          /\ client' = client \/ client' = [client EXCEPT !.holds = @ \cup {q}]
      BY <1>2, <1>4 DEF Client
    <3> QED
      BY <1>2, <3>1 DEF Client, SameTasks, SameCover
  <2>17. CASE Flushes(q, buffer, last, grants, more)
    BY <1>1, <2>1, <2>11, <2>14, <2>15, <2>16, <2>17, FlushesCovers DEF g
  <2>18. CASE /\ pagers' = [pagers EXCEPT ![q].after = last, ![q].asked = client.groups,
                                          ![q].buffer = buffer, ![q].grants = grants]
              /\ UNCHANGED packets
    <3> DEFINE new == [g EXCEPT !.after = last, !.asked = client.groups, !.buffer = buffer,
                                !.grants = grants]
    <3>1. client.groups \in GroupSets
      BY <1>2 DEF Client
    <3>2. /\ new \in CatchUp /\ new.pc = g.pc /\ new.run = g.run /\ new.after = last
          /\ new.snapshot = g.snapshot /\ new.buffer = buffer
      BY <1>2, <2>11, <2>15, <3>1 DEF CatchUp
    <3>3. pagers' = [pagers EXCEPT ![q] = new]
      BY <1>2, <2>18 DEF g
    <3> HIDE DEF new
    <3>4. GoingInv(server, client', new)
      BY <1>1, <2>2, <2>11, <2>14, <2>16, <3>2 DEF GoingInv, Carries, SameTasks, SameCover
    <3>5. PagerMoves(client', q, new)
      BY <1>1, <3>2, <3>4 DEF PagerMoves, g
    <3> QED
      BY <1>1, <2>16, <2>18, <3>3, <3>5, PagerMovesCovers
  <2> QED
    BY <1>4, <2>17, <2>18
<1> QED
  BY <1>3, <1>4 DEF PagerReads

LEMMA PagerGoesOnCovers ==
  ASSUME CoverInv, NEW q \in Pagers, PagerGoesOn(q)
  PROVE  CoverInv'
<1> DEFINE g == pagers[q]
<1>1. /\ g.pc = "next" /\ UNCHANGED <<server, disk, boots, streams, packets, budget>>
  BY DEF PagerGoesOn, PagerFrame
<1>2. /\ pagers \in [Pagers -> CatchUp] /\ g \in CatchUp /\ client \in Client
  BY DEF CoverInv, PagersInv
<1>3. SameTasks(client, client)
  BY DEF SameTasks, SameCover
<1>4. Going(client, g) => GoingInv(server, client, g)
  BY DEF CoverInv, PagersInv
<1>5. CASE PagerEnds(q, client)
  BY <1>1, <1>2, <1>3, <1>5, PagerEndsCovers
<1>6. CASE /\ pagers' = [pagers EXCEPT ![q].pc = "fetching", ![q].asked = client.groups]
           /\ UNCHANGED client
  <2> DEFINE new == [g EXCEPT !.pc = "fetching", !.asked = client.groups]
  <2>1. client.groups \in GroupSets /\ "fetching" \in PagerPlaces
    BY <1>2 DEF Client, PagerPlaces
  <2>2. /\ new \in CatchUp /\ new.pc = "fetching" /\ new.run = g.run /\ new.after = g.after
        /\ new.snapshot = g.snapshot /\ new.buffer = g.buffer
    BY <1>2, <2>1 DEF CatchUp
  <2>3. pagers' = [pagers EXCEPT ![q] = new]
    BY <1>2, <1>6
  <2> HIDE DEF new
  <2>4. PagerMoves(client, q, new)
    BY <1>1, <1>4, <2>2 DEF PagerMoves, Going, GoingInv
  <2> QED
    BY <1>1, <1>2, <1>3, <1>6, <2>3, <2>4, PagerMovesCovers
<1>7. CASE /\ client' = NoHold(client, q)
           /\ pagers' = [pagers EXCEPT ![q].pc = "draining"]
  <2> DEFINE new == [g EXCEPT !.pc = "draining"]
  <2>1. "draining" \in PagerPlaces
    BY DEF PagerPlaces
  <2>2. /\ new \in CatchUp /\ new.pc = "draining" /\ new.run = g.run /\ new.after = g.after
        /\ new.snapshot = g.snapshot /\ new.buffer = g.buffer
    BY <1>2, <2>1 DEF CatchUp
  <2>3. pagers' = [pagers EXCEPT ![q] = new]
    BY <1>2, <1>7
  <2>4. client' \in Client /\ SameTasks(client, client') /\ client'.state = client.state
    BY <1>2, <1>7, NoHoldIsTyped
  <2> HIDE DEF new
  <2>5. PagerMoves(client', q, new)
    BY <1>1, <1>4, <2>2, <2>4 DEF PagerMoves, Going, GoingInv, ActiveIn, SameTasks, SameCover
  <2> QED
    BY <1>1, <2>3, <2>4, <2>5, PagerMovesCovers
<1> QED
  BY <1>5, <1>6, <1>7 DEF PagerGoesOn

LEMMA PagerFailsCovers ==
  ASSUME CoverInv, NEW q \in Pagers, PagerFails(q)
  PROVE  CoverInv'
<1> DEFINE g == pagers[q]
           recorded == IF g.kind = "syncNow" THEN client ELSE Errored(client, g.run)
<1>1. /\ g.pc \in {"failed", "fetching"} /\ UNCHANGED <<server, disk, boots, streams>>
      /\ budget' = budget \/ (budget.faults > 0 /\ budget' = [budget EXCEPT !.faults = @ - 1])
  BY DEF PagerFails, PagerFrame
<1>2. /\ pagers \in [Pagers -> CatchUp] /\ g \in CatchUp /\ client \in Client
  BY DEF CoverInv, PagersInv
<1>3. SameTasks(client, client)
  BY DEF SameTasks, SameCover
<1>4. /\ recorded \in Client /\ SameTasks(client, recorded)
      /\ boots[0].pc = "free" \/ recorded.state = client.state
  <2>1. CASE ActiveIn(client, g.run)
    <3>1. boots[0].pc = "free"
      BY <1>1, <2>1 DEF CoverInv, PagersInv, Going, Started
    <3>2. recorded \in {client, [client EXCEPT !.state = "error"]}
      BY DEF Errored
    <3> HIDE DEF recorded
    <3> QED
      BY <1>2, <3>1, <3>2 DEF Client, SameTasks, SameCover
  <2>2. CASE ~ActiveIn(client, g.run)
    BY <1>2, <1>3, <2>2 DEF Errored
  <2> QED
    BY <2>1, <2>2
<1> HIDE DEF recorded
<1>5. CASE PagerEnds(q, recorded) /\ UNCHANGED packets
  BY <1>1, <1>4, <1>5, PagerEndsCovers
<1>6. CASE PagerEnds(q, client) /\ UNCHANGED packets
  BY <1>1, <1>2, <1>3, <1>6, PagerEndsCovers
<1>7. CASE /\ g.pc = "fetching" /\ ~Stale(q) /\ UNCHANGED client
           /\ Flushes(q, g.buffer, g.after, g.grants, FALSE)
  <2>1. Going(client, g)
    BY <1>7 DEF Going, Stale, Active
  <2>2. GoingInv(server, client, g)
    BY <2>1 DEF CoverInv, PagersInv
  <2>3. g.buffer \in SUBSET Nat /\ g.after \in Nat /\ g.grants \in SUBSET Groups
    BY <1>2 DEF CatchUp
  <2>4. g.after <= server.head /\ Carries(server.log, g.buffer, g.after, client.cursor)
    BY <1>7, <2>2 DEF GoingInv
  <2> QED
    BY <1>1, <1>2, <1>3, <1>7, <2>1, <2>3, <2>4, FlushesCovers
<1> QED
  BY <1>5, <1>6, <1>7 DEF PagerFails, recorded

LEMMA PagerDrainsCovers ==
  ASSUME CoverInv, NEW q \in Pagers, PagerDrains(q)
  PROVE  CoverInv'
<1> DEFINE g == pagers[q]
           c == [client EXCEPT !.state = "syncing"]
<1>1. /\ g.pc = "draining" /\ pagers' = [pagers EXCEPT ![q] = FreePager]
      /\ UNCHANGED <<server, disk, boots, packets, budget>>
  BY DEF PagerDrains, PagerFrame
<1>2. client \in Client /\ StreamsInv(server, client, streams, boots) /\ server \in Server
  BY DEF CoverInv, LogInv
<1>3. PagerMoves(client, q, FreePager)
  <2>1. FreePager \in CatchUp /\ FreePager.pc = "free"
    BY NothingIsTyped DEF FreePager
  <2> QED
    BY <1>1, <2>1 DEF PagerMoves, Going
<1>4. CASE UNCHANGED <<client, streams>>
  <2>1. SameTasks(client, client)
    BY DEF SameTasks, SameCover
  <2> QED
    BY <1>1, <1>2, <1>3, <1>4, <2>1, PagerMovesCovers
<1>5. CASE Active(g.run) /\ SubscribeIfNone(c, streams)
  <2>1. Started(client, boots)
    BY <1>1, <1>5 DEF CoverInv, PagersInv, Going, Active
  <2>2. boots[0].pc = "free" /\ client.cursor <= server.head
    BY <2>1 DEF CoverInv, LiveInv, Covered, Started
  <2>3. /\ c \in Client /\ SameCover(client, c) /\ c.subscription = client.subscription
        /\ c.resubscribe = client.resubscribe
    BY <1>2 DEF Client, SameCover
  <2> HIDE DEF c
  <2>4. StreamsInv(server, c, streams, boots)
    <3>1. client.cursor <= c.cursor
      <4>1. client.cursor \in Nat
        BY <1>2 DEF Client
      <4> QED
        BY <2>3, <4>1 DEF SameCover
    <3> QED
      BY <1>2, <2>3, <3>1, StreamsKept DEF SameCover
  <2>5. c.cursor <= server.head
    BY <2>2, <2>3 DEF SameCover
  <2>6. /\ StreamsInv(server, client', streams', boots) /\ StillQueued(streams, streams')
        /\ client' \in Client /\ SameButStream(c, client')
    BY <1>2, <1>5, <2>2, <2>3, <2>4, <2>5, SubscribeIfNoneCovers
  <2>7. SameCover(client, client')
    BY <2>3, <2>6 DEF SameCover, SameButStream
  <2>8. PagerMoves(client', q, FreePager)
    BY <1>3 DEF PagerMoves, Going, FreePager
  <2>9. /\ PagersInv(server, client', pagers', boots) /\ StillWaits(pagers, pagers')
        /\ \A p \in Pagers : pagers'[p].pc # "free" =>
             pagers[p].pc # "free" /\ pagers'[p].run = pagers[p].run
    BY <1>1, <2>6, <2>7, <2>8, PagerMovesKeep
  <2>10. PacketsInv(server, disk, client', streams', pagers', packets)
    BY <1>2, <2>6, <2>7, <2>9, PacketsKept DEF CoverInv, SameCover
  <2>11. ApartInv(budget, client', pagers')
    <3>1. client'.stop = client.stop /\ ApartInv(budget, client, pagers)
      BY <2>7 DEF CoverInv, SameCover
    <3> QED
      BY <2>9, <3>1 DEF ApartInv
  <2> QED
    BY <1>1, <2>1, <2>2, <2>6, <2>7, <2>9, <2>10, <2>11, TasksMoveCover DEF CoverInv
<1> QED
  BY <1>4, <1>5 DEF PagerDrains

\* The steps of a catch-up.
LEMMA PagerStepsCover ==
  ASSUME CoverInv, NEW q \in Pagers, PagerStep(q)
  PROVE  CoverInv'
<1>1. pagers[q] \in CatchUp
  BY DEF CoverInv, PagersInv
<1>2. ~PagerLatches(q) /\ ~PagerQuarantines(q)
  BY <1>1 DEF CatchUp, PagerPlaces, PagerLatches, PagerQuarantines
<1>3. ~PagerRequiresBootstrap(q)
  <2>1. pagers[q].after \in Nat /\ server.floor = 0
    BY <1>1 DEF CatchUp, CoverInv, LogInv, Server
  <2> QED
    BY <2>1 DEF PagerRequiresBootstrap, TooOld
<1> QED
  BY <1>2, <1>3, PagerReadsCovers, PagerGoesOnCovers, PagerFailsCovers, PagerDrainsCovers
  DEF PagerStep

-----------------------------------------------------------------------------
(* Connections, stop(), a crash and the server. *)

\* A catch-up begins, at the cursor.
LEMMA SpawnsCovers ==
  ASSUME CoverInv, NEW kind \in {"catchUp", "reconnect", "syncNow"},
         NEW run \in {0, client.token}, run # 0 \/ budget.syncs > 0, NEW c \in Client,
         SameTasks(client, c), c.state = client.state, Started(client, boots),
         Spawns(kind, run, c), UNCHANGED <<server, disk, boots, streams, packets>>,
         LogInv(server, budget'), budget.stops = 0 => budget'.stops = 0,
         budget.syncs = 0 => budget'.syncs = 0
  PROVE  CoverInv'
<1>1. /\ client \in Client /\ SameCover(client, c) /\ c.token = client.token
      /\ c.subscription = client.subscription /\ c.resubscribe = client.resubscribe
      /\ server \in Server /\ client' = c
      /\ Free(pagers, Pagers) # {} /\ pagers' = Spawned(pagers, kind, run, c)
  BY DEF CoverInv, SameTasks, SameCover, LogInv, Spawns, Spawned
<1>2. client.cursor <= c.cursor /\ c.cursor <= server.head
  <2>1. client.cursor \in Nat /\ client.cursor <= server.head
    BY <1>1 DEF Client, CoverInv, LiveInv, Covered
  <2> QED
    BY <1>1, <2>1 DEF SameCover
<1>3. PagersInv(server, c, pagers, boots)
  BY <1>1, <1>2, PagersKept DEF CoverInv, SameCover, Started
<1>4. SpawnInv(server, c, pagers, boots, kind, run)
  <2>1. Started(c, boots)
    BY <1>1 DEF Started, SameCover
  <2> QED
    BY <1>1, <1>2, <1>3, <2>1, SpawnCovers
<1>5. /\ PagersInv(server, c, pagers', boots) /\ StillWaits(pagers, pagers')
      /\ \A q \in Pagers : pagers'[q].pc # "free" =>
           \/ pagers[q].pc # "free" /\ pagers'[q].run = pagers[q].run
           \/ pagers'[q].run = run
  BY <1>1, <1>4 DEF SpawnInv
<1>6. ApartInv(budget', c, pagers')
  <2>1. c.stop = client.stop /\ ApartInv(budget, client, pagers)
    BY <1>1 DEF CoverInv, SameCover
  <2>2. CASE run # 0
    BY <1>5, <2>1, <2>2 DEF ApartInv
  <2>3. CASE run = 0
    <3>1. ~(budget.syncs = 0)
      BY <2>3
    <3> QED
      BY <2>1, <3>1 DEF ApartInv
  <2> QED
    BY <2>2, <2>3
<1>7. StreamsInv(server, c, streams, boots)
  BY <1>1, <1>2, StreamsKept DEF CoverInv, SameCover
<1>8. PacketsInv(server, disk, c, streams, pagers', packets)
  <2>1. StillQueued(streams, streams)
    BY DEF StillQueued
  <2> QED
    BY <1>1, <1>5, <2>1, PacketsKept DEF CoverInv, SameCover
<1> QED
  BY <1>1, <1>5, <1>6, <1>7, <1>8, TasksMoveCover

\* The connection comes and goes, and syncNow() is called.
LEMMA ConnectsCovers ==
  ASSUME CoverInv, Connects
  PROVE  CoverInv'
<1> DEFINE c == [client EXCEPT !.connected = TRUE]
<1>1. /\ client.running /\ budget.connects > 0
      /\ budget' = [budget EXCEPT !.connects = @ - 1]
      /\ UNCHANGED <<server, disk, boots, streams, packets>>
  BY DEF Connects, PagerFrame
<1>2. /\ LogInv(server, budget')
      /\ budget.stops = 0 => budget'.stops = 0
      /\ budget.syncs = 0 => budget'.syncs = 0
  <2>1. "connects" \in Chances
    BY DEF Chances
  <2> QED
    BY <1>1, <2>1, ChanceIsUsed DEF CoverInv
<1>3. client \in Client
  BY DEF CoverInv
<1>4. /\ c \in Client /\ SameTasks(client, c) /\ SameCover(client, c)
      /\ c.state = client.state /\ c.subscription = client.subscription
      /\ c.resubscribe = client.resubscribe
  BY <1>3 DEF Client, SameTasks, SameCover
<1>5. \/ client' = c /\ UNCHANGED pagers
      \/ client.state \notin {"connecting", "bootstrapping"} /\ Spawns("reconnect", client.token, c)
  BY DEF Connects
<1> HIDE DEF c
<1>6. CASE client' = c /\ UNCHANGED pagers
  <2>1. StillQueued(streams, streams)
    BY DEF StillQueued
  <2>2. client.cursor <= c.cursor
    <3>1. client.cursor \in Nat
      BY <1>3 DEF Client
    <3> QED
      BY <1>4, <3>1 DEF SameCover
  <2>3. StreamsInv(server, c, streams, boots)
    BY <1>3, <1>4, <2>2, StreamsKept DEF CoverInv, SameCover
  <2> QED
    BY <1>1, <1>2, <1>4, <1>6, <2>1, <2>3, StreamsMoveCover
<1>7. CASE /\ client.state \notin {"connecting", "bootstrapping"}
           /\ Spawns("reconnect", client.token, c)
  <2>1. Started(client, boots) /\ client.token # 0
    BY <1>1, <1>7 DEF CoverInv, QuietInv, Started
  <2> QED
    BY <1>1, <1>2, <1>4, <1>7, <2>1, SpawnsCovers
<1> QED
  BY <1>5, <1>6, <1>7

LEMMA DisconnectsCovers ==
  ASSUME CoverInv, Disconnects
  PROVE  CoverInv'
<1> DEFINE c == [client EXCEPT !.connected = FALSE]
<1>1. UNCHANGED <<server, disk, boots, streams, pagers, packets, budget>> /\ client' = c
  BY DEF Disconnects, PagerFrame
<1>2. client \in Client
  BY DEF CoverInv
<1>3. /\ c \in Client /\ SameCover(client, c)
      /\ c.state = client.state /\ c.subscription = client.subscription
      /\ c.resubscribe = client.resubscribe
  BY <1>2 DEF Client, SameCover
<1> HIDE DEF c
<1>4. StillQueued(streams, streams)
  BY DEF StillQueued
<1>5. client.cursor <= c.cursor
  <2>1. client.cursor \in Nat
    BY <1>2 DEF Client
  <2> QED
    BY <1>3, <2>1 DEF SameCover
<1>6. StreamsInv(server, c, streams, boots)
  BY <1>2, <1>3, <1>5, StreamsKept DEF CoverInv, SameCover
<1> QED
  BY <1>1, <1>3, <1>4, <1>6, StreamsMoveCover DEF CoverInv

LEMMA SyncNowCovers ==
  ASSUME CoverInv, SyncNow
  PROVE  CoverInv'
<1>1. /\ client.running /\ boots[0].pc = "free" /\ budget.syncs > 0
      /\ budget' = [budget EXCEPT !.syncs = @ - 1] /\ Spawns("syncNow", 0, client)
      /\ UNCHANGED <<server, disk, boots, streams, packets>>
  BY DEF SyncNow, PagerFrame
<1>2. /\ LogInv(server, budget')
      /\ budget.stops = 0 => budget'.stops = 0
      /\ budget.syncs = 0 => budget'.syncs = 0
  <2>1. "syncs" \in Chances
    BY DEF Chances
  <2> QED
    BY <1>1, <2>1, ChanceIsUsed DEF CoverInv
<1>3. client \in Client /\ SameTasks(client, client) /\ Started(client, boots)
  BY <1>1 DEF CoverInv, SameTasks, SameCover, Started
<1> QED
  BY <1>1, <1>2, <1>3, SpawnsCovers

\* Streams that only close.
OnlyCloses(s, z) ==
    /\ z \in [Streams -> Stream]
    /\ \A h \in Streams : /\ z[h].pc = s[h].pc /\ z[h].run = s[h].run /\ z[h].at = s[h].at
                          /\ z[h].snapshot = s[h].snapshot /\ z[h].actions = s[h].actions

\* To close a stream changes nothing that the invariant is about.
LEMMA ClosingKeeps ==
  ASSUME NEW sv, NEW c, NEW s, NEW z, NEW b, StreamsInv(sv, c, s, b), OnlyCloses(s, z)
  PROVE  StreamsInv(sv, c, z, b) /\ StillQueued(s, z)
<1>1. \A h \in Streams : HeldInv(sv, c, s[h]) => HeldInv(sv, c, z[h])
  BY DEF OnlyCloses, HeldInv
<1> QED
  BY <1>1 DEF StreamsInv, OnlyCloses, StillQueued

\* A stop closes streams, and changes no other thing about them.
LEMMA ClosedOnlyCloses ==
  ASSUME CoverInv
  PROVE  /\ OnlyCloses(streams, Closed(streams, client.subscription))
         /\ OnlyCloses(streams, [h \in Streams |-> [streams[h] EXCEPT !.open = FALSE]])
<1>1. streams \in [Streams -> Stream] /\ client.subscription \in Streams \cup {None}
  BY DEF CoverInv, StreamsInv, Client
<1>2. \A h \in Streams :
        /\ [streams[h] EXCEPT !.open = FALSE] \in Stream
        /\ [streams[h] EXCEPT !.open = FALSE].pc = streams[h].pc
        /\ [streams[h] EXCEPT !.open = FALSE].run = streams[h].run
        /\ [streams[h] EXCEPT !.open = FALSE].at = streams[h].at
        /\ [streams[h] EXCEPT !.open = FALSE].snapshot = streams[h].snapshot
        /\ [streams[h] EXCEPT !.open = FALSE].actions = streams[h].actions
  <2>1. ASSUME NEW h \in Streams
        PROVE  /\ [streams[h] EXCEPT !.open = FALSE] \in Stream
               /\ [streams[h] EXCEPT !.open = FALSE].pc = streams[h].pc
               /\ [streams[h] EXCEPT !.open = FALSE].run = streams[h].run
               /\ [streams[h] EXCEPT !.open = FALSE].at = streams[h].at
               /\ [streams[h] EXCEPT !.open = FALSE].snapshot = streams[h].snapshot
               /\ [streams[h] EXCEPT !.open = FALSE].actions = streams[h].actions
    <3>1. streams[h] \in Stream
      BY <1>1
    <3> QED
      BY <3>1 DEF Stream
  <2> QED
    BY <2>1
<1>3. OnlyCloses(streams, [h \in Streams |-> [streams[h] EXCEPT !.open = FALSE]])
  BY <1>2 DEF OnlyCloses
<1>4. OnlyCloses(streams, Closed(streams, client.subscription))
  BY <1>1, <1>2 DEF OnlyCloses, Closed
<1> QED
  BY <1>3, <1>4

\* A client that stops: nothing goes on, and nothing begins.
LEMMA StoppingCovers ==
  ASSUME CoverInv, UNCHANGED <<server, pagers, boots, packets>>, DiskInv(server, disk'),
         client' \in Client, ~client'.running, client.token <= client'.token,
         client'.snapshot = client.snapshot, client'.resubscribe \in {0, client.resubscribe},
         client'.subscription \in {None, client.subscription},
         client'.subscription # None => client'.stop = "closing",
         packets.queue # <<>> =>
           client'.stop \in {"closing", "draining"} /\ client'.cursor = client.cursor
           /\ disk' = disk,
         client'.stop = "joining" => client'.state # "syncing",
         Busy(client', packets) =>
           /\ Busy(client, packets) /\ client'.cursor = client.cursor
           /\ client'.maps = client.maps /\ client'.pending = client.pending /\ disk' = disk,
         LogInv(server, budget'), ApartInv(budget', client', pagers),
         \A q \in Pagers : pagers[q].pc # "free" => pagers[q].run # 0,
         OnlyCloses(streams, streams')
  PROVE  CoverInv'
<1>1. client \in Client /\ StreamsInv(server, client, streams, boots)
  BY DEF CoverInv
<1>2. NoSooner(client, boots, client', boots)
  BY <1>1, NoSoonerThan
<1>3. StreamsInv(server, client', streams, boots)
  <2>1. CASE client'.subscription = None
    BY <1>1, <1>2, <2>1, StreamsUnheld
  <2>2. CASE client'.subscription # None
    <3>1. /\ client'.cursor = client.cursor /\ client'.subscription = client.subscription
      BY <2>2 DEF Busy
    <3>2. \A h \in Streams : HeldInv(server, client, streams[h]) => HeldInv(server, client', streams[h])
      BY <3>1 DEF HeldInv
    <3>3. client.resubscribe \in Nat /\ \A h \in Streams : streams[h].run \in Nat
      BY <1>1 DEF Client, StreamsInv, Stream
    <3> QED
      BY <1>1, <1>2, <3>1, <3>2, <3>3 DEF StreamsInv, NoSooner
  <2> QED
    BY <2>1, <2>2
<1>4. StreamsInv(server, client', streams', boots) /\ StillQueued(streams, streams')
  BY <1>3, ClosingKeeps
<1>5. PagersInv(server, client', pagers, boots)
  <2>1. \A q \in Pagers : ~Going(client', pagers[q])
    BY DEF Going, ActiveIn
  <2> QED
    BY <1>1, <2>1, PagersRest DEF CoverInv
<1>6. PacketsInv(server, disk', client', streams', pagers, packets)
  <2>1. CASE packets.queue = <<>>
    BY <2>1, NoPacketIsLeft DEF CoverInv
  <2>2. CASE packets.queue # <<>>
    <3>1. StillWaits(pagers, pagers)
      BY DEF StillWaits
    <3> QED
      BY <1>1, <1>4, <2>2, <3>1, PacketsKept DEF CoverInv
  <2> QED
    BY <2>1, <2>2
<1>7. BootsInv(server, disk', client', boots)
  BY BootsKept DEF CoverInv
<1>8. LiveInv(server, disk', client', boots, packets)
  BY DEF CoverInv, LiveInv, Started, Covered
<1>9. QuietInv(client', boots, packets)
  BY DEF CoverInv, QuietInv
<1> QED
  BY <1>4, <1>5, <1>6, <1>7, <1>8, <1>9 DEF CoverInv

\* The steps of stop().
LEMMA StopBeginsCovers ==
  ASSUME CoverInv, StopBegins
  PROVE  CoverInv'
<1>1. PICK clears \in BOOLEAN :
        client' = [client EXCEPT !.running = FALSE, !.token = @ + 1, !.resubscribe = 0,
                                 !.retry = 0, !.inFlight = None, !.stop = "closing",
                                 !.clears = clears]
  BY DEF StopBegins
<1>2. /\ client.stop = "none" /\ client.running /\ budget.stops > 0
      /\ budget' = [budget EXCEPT !.stops = @ - 1]
      /\ streams' = Closed(streams, client.subscription)
      /\ UNCHANGED <<server, disk, pagers, boots, packets>>
  BY DEF StopBegins
<1>3. client \in Client
  BY DEF CoverInv
<1>4. client.token \in Nat /\ client.token + 1 \in Nat /\ client.token <= client.token + 1
  BY <1>3 DEF Client
<1>5. client' \in Client
  BY <1>1, <1>3, <1>4 DEF Client
<1>6. /\ ~client'.running /\ client'.token = client.token + 1 /\ client'.resubscribe = 0
      /\ client'.stop = "closing" /\ client'.snapshot = client.snapshot
      /\ client'.subscription = client.subscription /\ client'.cursor = client.cursor
      /\ client'.maps = client.maps /\ client'.pending = client.pending
      /\ client'.state = client.state
  BY <1>1, <1>3 DEF Client
<1>7. /\ LogInv(server, budget')
      /\ budget.syncs = 0 => budget'.syncs = 0
  <2>1. "stops" \in Chances
    BY DEF Chances
  <2> QED
    BY <1>2, <2>1, ChanceIsUsed DEF CoverInv
<1>8. budget.syncs = 0 /\ \A q \in Pagers : pagers[q].pc # "free" => pagers[q].run # 0
  <2>1. ~(budget.stops = 0)
    BY <1>2
  <2> QED
    BY <2>1 DEF CoverInv, ApartInv
<1>9. ApartInv(budget', client', pagers)
  BY <1>7, <1>8 DEF ApartInv
<1>10. Busy(client', packets) => Busy(client, packets)
  BY <1>6 DEF Busy
<1>11. OnlyCloses(streams, streams') /\ DiskInv(server, disk')
  BY <1>2, ClosedOnlyCloses DEF CoverInv
<1>12. client.token <= client'.token
  BY <1>4, <1>6
<1> QED
  BY <1>2, <1>5, <1>6, <1>7, <1>8, <1>9, <1>10, <1>11, <1>12, StoppingCovers

\* While the client stops, no syncNow is under way.
LEMMA StoppedIsApart ==
  ASSUME CoverInv, client.stop # "none"
  PROVE  /\ ~client.running /\ budget.syncs = 0
         /\ \A q \in Pagers : pagers[q].pc # "free" => pagers[q].run # 0
  BY DEF CoverInv, QuietInv, ApartInv

LEMMA StopClosesCovers ==
  ASSUME CoverInv, StopCloses
  PROVE  CoverInv'
<1>1. /\ client.stop = "closing"
      /\ client' = [client EXCEPT !.subscription = None, !.stop = "draining"]
      /\ streams' = [h \in Streams |-> [streams[h] EXCEPT !.open = FALSE]]
      /\ UNCHANGED <<server, disk, pagers, boots, packets, budget>>
  BY DEF StopCloses
<1>2. client \in Client /\ LogInv(server, budget) /\ DiskInv(server, disk)
  BY DEF CoverInv
<1>3. /\ client' \in Client /\ client'.running = client.running
      /\ client'.token = client.token /\ client'.resubscribe = client.resubscribe
      /\ client'.stop = "draining" /\ client'.snapshot = client.snapshot
      /\ client'.subscription = None /\ client'.cursor = client.cursor
      /\ client'.maps = client.maps /\ client'.pending = client.pending
      /\ client'.state = client.state
  BY <1>1, <1>2 DEF Client
<1>4. /\ ~client.running /\ budget.syncs = 0
      /\ \A q \in Pagers : pagers[q].pc # "free" => pagers[q].run # 0
  BY <1>1, StoppedIsApart
<1>5. ApartInv(budget', client', pagers)
  BY <1>1, <1>4 DEF ApartInv
<1>6. Busy(client', packets) => Busy(client, packets)
  BY <1>3 DEF Busy
<1>7. OnlyCloses(streams, streams')
  BY <1>1, ClosedOnlyCloses
<1>8. client.token <= client'.token
  BY <1>2, <1>3 DEF Client
<1> QED
  BY <1>1, <1>2, <1>3, <1>4, <1>5, <1>6, <1>7, <1>8, StoppingCovers

\* A step that leaves the streams alone closes none.
LEMMA StreamsOnlyClose ==
  ASSUME CoverInv
  PROVE  OnlyCloses(streams, streams)
  BY DEF CoverInv, StreamsInv, OnlyCloses

LEMMA StopResetsCovers ==
  ASSUME CoverInv, StopResets
  PROVE  CoverInv'
<1>1. /\ client.stop = "draining" /\ packets.queue = <<>>
      /\ client' = [client EXCEPT !.holds = {}, !.cursor = 0, !.groups = {}, !.pending = FALSE,
                                  !.owed = FALSE, !.connected = FALSE,
                                  !.state = "disconnected", !.stop = "joining"]
      /\ UNCHANGED <<server, disk, streams, pagers, boots, packets, budget>>
  BY DEF StopResets
<1>2. client \in Client /\ LogInv(server, budget) /\ DiskInv(server, disk)
  BY DEF CoverInv
<1>3. client' \in Client
  <2>1. {} \in GroupSets
    BY DEF GroupSets
  <2> QED
    BY <1>1, <1>2, <2>1 DEF Client
<1>4. /\ client'.running = client.running
      /\ client'.token = client.token /\ client'.resubscribe = client.resubscribe
      /\ client'.stop = "joining" /\ client'.snapshot = client.snapshot
      /\ client'.subscription = client.subscription /\ client'.state = "disconnected"
  BY <1>1, <1>2 DEF Client
<1>5. /\ ~client.running /\ budget.syncs = 0
      /\ \A q \in Pagers : pagers[q].pc # "free" => pagers[q].run # 0
  BY <1>1, StoppedIsApart
<1>6. ApartInv(budget', client', pagers)
  BY <1>1, <1>5 DEF ApartInv
<1>7. client.subscription = None
  BY <1>1, <1>5 DEF CoverInv, QuietInv
<1>8. ~Busy(client', packets)
  BY <1>1, <1>4, <1>7 DEF Busy
<1>9. client.token <= client'.token
  BY <1>2, <1>4 DEF Client
<1> QED
  BY <1>1, <1>2, <1>3, <1>4, <1>5, <1>6, <1>7, <1>8, <1>9, StreamsOnlyClose, StoppingCovers

LEMMA StopEndsCovers ==
  ASSUME CoverInv, StopEnds
  PROVE  CoverInv'
<1>1. /\ client.stop = "joining"
      /\ client' = [client EXCEPT !.stop = "none", !.open = FALSE, !.clears = FALSE,
                                  !.maps = IF client.clears THEN {} ELSE @]
      /\ disk' = IF client.clears THEN Cleared(disk) ELSE disk
      /\ UNCHANGED <<server, streams, pagers, boots, packets, budget>>
  BY DEF StopEnds
<1>2. client \in Client /\ LogInv(server, budget) /\ DiskInv(server, disk) /\ disk \in Disk
  BY DEF CoverInv, DiskInv
<1>3. client' \in Client
  <2>1. (IF client.clears THEN {} ELSE client.maps) \in SUBSET Nat
    BY <1>2 DEF Client
  <2> QED
    BY <1>1, <1>2, <2>1 DEF Client
<1>4. /\ client'.running = client.running
      /\ client'.token = client.token /\ client'.resubscribe = client.resubscribe
      /\ client'.stop = "none" /\ client'.snapshot = client.snapshot
      /\ client'.subscription = client.subscription /\ client'.state = client.state
  BY <1>1, <1>2 DEF Client
<1>5. /\ ~client.running /\ budget.syncs = 0
      /\ \A q \in Pagers : pagers[q].pc # "free" => pagers[q].run # 0
  BY <1>1, StoppedIsApart
<1>6. ApartInv(budget', client', pagers)
  BY <1>1, <1>5 DEF ApartInv
<1>7. client.subscription = None /\ packets.queue = <<>> /\ client.state # "syncing"
  BY <1>1, <1>5 DEF CoverInv, QuietInv
<1>8. ~Busy(client', packets)
  BY <1>4, <1>7 DEF Busy
<1>9. client.token <= client'.token
  BY <1>2, <1>4 DEF Client
<1>10. DiskInv(server, disk')
  <2>1. CASE disk' = disk
    BY <1>2, <2>1
  <2>2. CASE disk' = Cleared(disk)
    <3>1. disk' \in Disk /\ disk'.cursor = 0
      BY <1>2, <2>2, NothingIsTyped DEF Disk, Cleared, EmptyDisk
    <3> QED
      BY <1>2, <3>1, NothingIsMine DEF DiskInv, LogInv, Server
  <2> QED
    BY <1>1, <2>1, <2>2
<1> QED
  BY <1>1, <1>2, <1>3, <1>4, <1>5, <1>6, <1>7, <1>8, <1>9, <1>10, StreamsOnlyClose, StoppingCovers

\* Nothing is under way in a process that begins.
LEMMA NothingIsCovered ==
  ASSUME NEW sv, NEW dk, NEW bg, LogInv(sv, bg), DiskInv(sv, dk),
         bg.stops = 0 \/ bg.syncs = 0,
         NEW s, s = [h \in Streams |-> FreeStream], NEW g, g = [p \in Pagers |-> FreePager],
         NEW b, b = [t \in Tasks |-> FreeBoot]
  PROVE  /\ ApartInv(bg, FreshClient, g) /\ FreshClient \in Client
         /\ LiveInv(sv, dk, FreshClient, b, NoPackets) /\ QuietInv(FreshClient, b, NoPackets)
         /\ BootsInv(sv, dk, FreshClient, b) /\ StreamsInv(sv, FreshClient, s, b)
         /\ PagersInv(sv, FreshClient, g, b)
         /\ PacketsInv(sv, dk, FreshClient, s, g, NoPackets)
<1>1. /\ FreeStream \in Stream /\ FreePager \in CatchUp /\ FreeBoot \in Boot
      /\ FreshClient \in Client /\ NoPackets \in Deliveries
  BY NothingIsTyped
<1>2. /\ FreeStream.pc = "free" /\ FreePager.pc = "free" /\ FreeBoot.pc = "free"
      /\ NoPackets.queue = <<>> /\ NoPackets.at = "none"
  BY DEF FreeStream, FreePager, FreeBoot, NoPackets
<1>3. /\ ~FreshClient.running /\ FreshClient.subscription = None
      /\ FreshClient.state = "disconnected" /\ FreshClient.stop = "none"
      /\ FreshClient.resubscribe = 0
  BY DEF FreshClient
<1>4. /\ 0 \in Tasks /\ Boots \subseteq Tasks
  BY SyncClientAssumption DEF Tasks, Boots
<1>5. b \in [Tasks -> Boot] /\ \A t \in Tasks : b[t].pc = "free"
  BY <1>1, <1>2
<1>6. s \in [Streams -> Stream] /\ \A h \in Streams : s[h].pc = "free"
  BY <1>1, <1>2
<1>7. g \in [Pagers -> CatchUp] /\ \A q \in Pagers : g[q].pc = "free"
  BY <1>1, <1>2
<1>8. ~Busy(FreshClient, NoPackets)
  BY <1>2, <1>3 DEF Busy
<1>9. ApartInv(bg, FreshClient, g)
  BY <1>3, <1>7 DEF ApartInv
<1>10. LiveInv(sv, dk, FreshClient, b, NoPackets) /\ QuietInv(FreshClient, b, NoPackets)
  BY <1>2, <1>3, <1>8 DEF LiveInv, QuietInv, Started
<1>11. BootsInv(sv, dk, FreshClient, b)
  BY <1>3, <1>4, <1>5 DEF BootsInv, StartInv, Committing
<1>12. StreamsInv(sv, FreshClient, s, b)
  BY <1>3, <1>6 DEF StreamsInv, None, Streams
<1>13. PagersInv(sv, FreshClient, g, b)
  BY <1>7 DEF PagersInv, Going
<1>14. PacketsInv(sv, dk, FreshClient, s, g, NoPackets)
  BY <1>1, <1>2 DEF PacketsInv
<1> QED
  BY <1>1, <1>9, <1>10, <1>11, <1>12, <1>13, <1>14

\* The process ends: the store stays.
LEMMA CrashCovers ==
  ASSUME CoverInv, Crash
  PROVE  CoverInv'
<1>1. /\ budget.crashes > 0 /\ budget' = [budget EXCEPT !.crashes = @ - 1]
      /\ client' = FreshClient /\ streams' = [h \in Streams |-> FreeStream]
      /\ pagers' = [p \in Pagers |-> FreePager] /\ boots' = [t \in Tasks |-> FreeBoot]
      /\ packets' = NoPackets /\ UNCHANGED <<server, disk>>
  BY DEF Crash
<1>2. /\ LogInv(server, budget')
      /\ budget.stops = 0 => budget'.stops = 0
      /\ budget.syncs = 0 => budget'.syncs = 0
  <2>1. "crashes" \in Chances
    BY DEF Chances
  <2> QED
    BY <1>1, <2>1, ChanceIsUsed DEF CoverInv
<1>3. budget'.stops = 0 \/ budget'.syncs = 0
  BY <1>2 DEF CoverInv, ApartInv
<1>4. DiskInv(server, disk)
  BY DEF CoverInv
<1> QED
  BY <1>1, <1>2, <1>3, <1>4, NothingIsCovered DEF CoverInv

\* What was read before an entry is committed is still what there is to read.
LEMMA ServerCommitsCovers ==
  ASSUME CoverInv, ServerCommits
  PROVE  CoverInv'
<1>1. /\ server.head < Len(server.log) /\ server' = [server EXCEPT !.head = @ + 1]
      /\ UNCHANGED <<disk, client, streams, pagers, boots, packets, budget>>
  BY DEF ServerCommits, Log
<1>2. LogInv(server, budget) /\ server \in Server
  BY DEF CoverInv, LogInv
<1>3. /\ server.head \in Nat /\ server.head + 1 \in Nat /\ server.log \in Seq(Entries)
  BY <1>2 DEF Server
<1>4. server' \in Server /\ server'.log = server.log /\ server'.head = server.head + 1
  BY <1>1, <1>2, <1>3 DEF Server
<1>5. server'.head <= Len(server.log)
  <2>1. Len(server.log) \in Nat
    BY <1>3
  <2> QED
    BY <1>1, <1>3, <1>4, <2>1
<1>6. LogInv(server', budget)
  BY <1>2, <1>4, <1>5 DEF LogInv
<1>7. \A n \in Nat : n <= server.head => n <= server'.head
  BY <1>3, <1>4
<1>8. client \in Client /\ disk \in Disk /\ client.cursor \in Nat /\ disk.cursor \in Nat
  <2>1. client \in Client /\ disk \in Disk
    BY DEF CoverInv, DiskInv
  <2> QED
    BY <2>1 DEF Client, Disk
<1>9. \A dk, c : c.cursor \in Nat /\ Covered(server, dk, c) => Covered(server', dk, c)
  BY <1>4, <1>7 DEF Covered
<1>10. DiskInv(server', disk) /\ LiveInv(server', disk, client, boots, packets)
  BY <1>4, <1>7, <1>8, <1>9 DEF CoverInv, DiskInv, LiveInv
<1>11. BootsInv(server', disk, client, boots)
  <2>1. boots[0].snap.id \in Nat
    BY BootIsChanged DEF Boot, Taken
  <2> QED
    BY <1>4, <1>7, <1>8, <1>9, <2>1 DEF CoverInv, BootsInv, StartInv
<1>12. StreamsInv(server', client, streams, boots)
  <2>1. \A h \in Streams : streams[h].at \in Nat
    BY DEF CoverInv, StreamsInv, Stream
  <2>2. \A h \in Streams : HeldInv(server, client, streams[h]) => HeldInv(server', client, streams[h])
    BY <1>4, <1>7, <2>1 DEF HeldInv
  <2> QED
    BY <2>2 DEF CoverInv, StreamsInv
<1>13. PagersInv(server', client, pagers, boots)
  <2>1. \A q \in Pagers : pagers[q].after \in Nat
    BY DEF CoverInv, PagersInv, CatchUp
  <2>2. \A q \in Pagers : GoingInv(server, client, pagers[q]) => GoingInv(server', client, pagers[q])
    BY <1>4, <1>7, <2>1 DEF GoingInv
  <2> QED
    BY <2>2 DEF CoverInv, PagersInv
<1>14. PacketsInv(server', disk, client, streams, pagers, packets)
  <2>1. packets.queue \in Seq(Delivery)
    BY DEF CoverInv, PacketsInv, Deliveries
  <2>2. \A i \in DOMAIN packets.queue : packets.queue[i].last \in Nat
    <3>1. \A i \in DOMAIN packets.queue : packets.queue[i] \in Delivery
      BY <2>1
    <3> QED
      BY <3>1 DEF Delivery
  <2>3. \A i \in DOMAIN packets.queue :
          PacketInv(server, client, streams, pagers, packets.queue[i]) =>
          PacketInv(server', client, streams, pagers, packets.queue[i])
    BY <1>4, <1>7, <2>2 DEF PacketInv
  <2> QED
    BY <2>3 DEF CoverInv, PacketsInv
<1> QED
  BY <1>1, <1>6, <1>10, <1>11, <1>12, <1>13, <1>14 DEF CoverInv

-----------------------------------------------------------------------------
(* The theorem about the cursors. *)

\* The invariant holds at first ...
LEMMA CoverStart == Init /\ SteadyAccess => CoverInv
<1> SUFFICES ASSUME Init, SteadyAccess
             PROVE  CoverInv
  OBVIOUS
<1>1. PICK s \in Scenarios : \E n \in 0 .. Len(s.log) :
        server = [log |-> s.log, head |-> n, floor |-> 0] /\ budget = s.budget
  BY DEF Init
<1>2. PICK n \in 0 .. Len(s.log) : server = [log |-> s.log, head |-> n, floor |-> 0]
  BY <1>1
<1>3. s.log \in Seq(Entries) /\ budget \in [Chances -> Nat]
  BY <1>1, SyncClientAssumption
<1>4. server.log = s.log /\ server.head = n /\ server.floor = 0
  BY <1>2
<1>5. server \in Server /\ server.head <= Len(server.log) /\ 0 <= server.head
  <2>1. Len(s.log) \in Nat
    BY <1>3
  <2>2. n \in Nat /\ n <= Len(s.log)
    BY <2>1
  <2> QED
    BY <1>2, <1>3, <1>4, <2>1, <2>2 DEF Server
<1>6. LogInv(server, budget)
  <2>1. \A i \in DOMAIN server.log : server.log[i].kind = "write"
    BY <1>3, <1>4 DEF SteadyAccess, Ids, Log
  <2> QED
    BY <1>3, <1>5, <2>1 DEF LogInv, SteadyAccess
<1>7. DiskInv(server, disk)
  <2>1. disk = EmptyDisk
    BY DEF Init
  <2>2. EmptyDisk \in Disk /\ EmptyDisk.cursor = 0
    BY NothingIsTyped DEF EmptyDisk
  <2> QED
    BY <1>5, <2>1, <2>2, NothingIsMine DEF DiskInv
<1>8. /\ client = FreshClient /\ streams = [h \in Streams |-> FreeStream]
      /\ pagers = [p \in Pagers |-> FreePager] /\ boots = [t \in Tasks |-> FreeBoot]
      /\ packets = NoPackets
  BY DEF Init
<1>9. budget.stops = 0 \/ budget.syncs = 0
  BY DEF SteadyAccess
<1> QED
  BY <1>6, <1>7, <1>8, <1>9, NothingIsCovered DEF CoverInv

\* ... and after every step.
LEMMA CoverNext == CoverInv /\ StreamInv /\ [Next]_vars => CoverInv'
<1> SUFFICES ASSUME CoverInv, StreamInv, [Next]_vars
             PROVE  CoverInv'
  OBVIOUS
<1>1. CASE UNCHANGED vars
  BY <1>1 DEF vars, CoverInv
<1>2. CASE StartBegins \/ StartStep
  BY <1>2, StartBeginsCovers, StartLoadsCovers, StartChoosesCovers, StartHydratesCovers,
     StartUnlatchesCovers, StartResumesCovers
  DEF StartStep
<1>3. CASE \E t \in Tasks : BootStep(t) \/ CommitSteps(t)
  BY <1>3, BootStepsCover
<1>4. CASE PacketStep
  BY <1>4, PacketStepsCover
<1>5. CASE \E h \in Streams : StreamStep(h)
  BY <1>5, StreamStepsCover
<1>6. CASE \E q \in Pagers : PagerStep(q)
  BY <1>6, PagerStepsCover
<1>7. CASE Timers
  <2>1. ~RetryFires
    BY DEF RetryFires, CoverInv, Client
  <2> QED
    BY <1>7, <2>1, ResubscribeFiresCovers DEF Timers
<1>8. CASE StopStep
  BY <1>8, StopClosesCovers, StopResetsCovers, StopEndsCovers DEF StopStep
<1>9. CASE Environment
  <2>1. ~ServerPrunes
    <3>1. budget.prunes = 0
      BY DEF CoverInv, LogInv
    <3> QED
      BY <3>1 DEF ServerPrunes
  <2> QED
    BY <1>9, <2>1, ServerCommitsCovers, ConnectsCovers, DisconnectsCovers, SyncNowCovers,
       StopBeginsCovers, CrashCovers
    DEF Environment
<1> QED
  BY <1>1, <1>2, <1>3, <1>4, <1>5, <1>6, <1>7, <1>8, <1>9 DEF Next

\* What the property asks for is what the invariant has.
LEMMA WritesAreMine ==
  ASSUME CoverInv, NEW n \in Nat, n <= server.head, NEW groups
  PROVE  Writes(n, Kept(n) \cap groups) \subseteq Mine(server.log, n)
<1>1. server.head \in Nat /\ LogInv(server, budget)
  BY DEF CoverInv, LogInv, Server
<1>2. n \in n .. server.head /\ Granted(n) = {Own}
  BY <1>1, GrantedIsOwn
<1>3. Kept(n) \subseteq {Own}
  BY <1>2 DEF Kept
<1> QED
  BY <1>3 DEF Writes, Mine, Log

\* What a cursor claims is there, in the store and, while the client says "syncing", on the
\* screen: every row up to it that the user reads.  It is so where access does not change, for
\* every log and schedule of commits, starts, stops, crashes, lost connections, catch-ups,
\* reconnects and failures.
THEOREM SteadyCursorsAreCovered == Spec /\ SteadyAccess => []CursorsAreCovered
<1>1. CoverInv => CursorsAreCovered
  <2> SUFFICES ASSUME CoverInv
               PROVE  CursorsAreCovered
    OBVIOUS
  <2>1. StoreCoversCursor
    <3>1. disk.cursor \in Nat /\ disk.cursor <= server.head
      BY DEF CoverInv, DiskInv, Disk
    <3>2. Mine(server.log, disk.cursor) \subseteq disk.rows
      BY DEF CoverInv, DiskInv
    <3> QED
      BY <3>1, <3>2, WritesAreMine DEF StoreCoversCursor
  <2>2. MapsCoverCursor
    <3>1. ASSUME client.state = "syncing"
          PROVE  Covered(server, disk, client)
      BY <3>1 DEF CoverInv, LiveInv, Busy
    <3>2. client.cursor \in Nat
      BY DEF CoverInv, Client
    <3> QED
      BY <3>1, <3>2, WritesAreMine DEF MapsCoverCursor, Covered
  <2> QED
    BY <2>1, <2>2 DEF CursorsAreCovered
<1>2. Init /\ SteadyAccess => CoverInv /\ StreamInv
  BY CoverStart, StreamStart
<1>3. CoverInv /\ StreamInv /\ [Next]_vars => (CoverInv /\ StreamInv)'
  BY CoverNext, StreamNext
<1> QED
  BY <1>1, <1>2, <1>3, PTL DEF Spec

=============================================================================
