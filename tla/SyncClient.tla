----------------------------- MODULE SyncClient -----------------------------
(***************************************************************************)
(* The client's synchronization: the orchestrator's runs, the delta        *)
(* pipeline, the bootstrap runner and the client's start and stop, beside  *)
(* a server whose log grows and is pruned, storage that survives a crash,  *)
(* and a transport that fails.                                             *)
(*                                                                         *)
(* An action is what runs between two awaits.  A storage operation takes   *)
(* effect when it is issued, and io lists who waits for one: the adapters  *)
(* complete them in the order in which they were issued.  Every other      *)
(* await, on the network, a lock or the gate, ends at any time it may.     *)
(***************************************************************************)
EXTENDS Integers, Sequences, FiniteSets

CONSTANTS
    Groups,         \* sync groups
    Own,            \* the user's own group, in which changes of access appear
    Mode,           \* options.bootstrapMode
    PageSize,       \* actions in a page of a catch-up
    BufferLimit,    \* actions a catch-up buffers before it applies them
    MaxStreams, MaxPagers, MaxBoots,    \* tasks of a kind alive at a time
    Scenarios       \* what the server commits, and how often the environment may act

Entries == [kind : {"write"}, group : Groups] \cup
           [kind : {"access"}, groups : {gs \in SUBSET Groups : Own \in gs}]
Chances == {"prunes", "faults", "stops", "crashes", "connects", "syncs"}

ASSUME SyncClientAssumption ==
    /\ Own \in Groups
    /\ Mode \in {"auto", "full", "local"}
    /\ {PageSize, BufferLimit, MaxStreams, MaxPagers, MaxBoots} \subseteq Nat \ {0}
    /\ \A s \in Scenarios : s.log \in Seq(Entries) /\ s.budget \in [Chances -> Nat]

VARIABLES
    server,         \* its log, the last id it committed and the last one it pruned
    disk,           \* rows and metadata in storage
    client,         \* the orchestrator's fields and the identity maps
    streams,        \* delta subscriptions and the loops that read them
    pagers,         \* catch-ups: after a start, after a reconnect, syncNow
    boots,          \* group-change bootstraps; boots[0] is start()
    packets,        \* packets that wait to be applied, and where the first one is
    stateQueue,     \* who has (first) and waits for the state lock
    io,             \* who waits for storage
    budget          \* faults and commands the environment has left

vars == <<server, disk, client, streams, pagers, boots, packets, stateQueue, io, budget>>

-----------------------------------------------------------------------------
(* The server. *)

None == 0
Streams == 1..MaxStreams
Pagers == 1..MaxPagers
Boots == 1..MaxBoots
Tasks == 0..MaxBoots
Log == server.log
Ids == 1..Len(Log)

Changes(ids) == {i \in ids : Log[i].kind = "access"}
Highest(ids) == CHOOSE i \in ids : \A j \in ids : j <= i

\* The groups the user may read once the first n entries are committed.
Granted(n) == IF Changes(1..n) = {} THEN {Own} ELSE Log[Highest(Changes(1..n))].groups

\* resolveRequestedSyncGroups
Resolved(asked) == IF asked = {} THEN Granted(server.head)
                   ELSE Granted(server.head) \cap asked

Writes(n, groups) == {i \in 1..n : Log[i].kind = "write" /\ Log[i].group \in groups}

\* What a reader of these groups finds after a cursor.
Reads(i, groups) == Log[i].kind = "access" \/ Log[i].group \in groups
After(cursor, groups) ==
    {i \in cursor+1..server.head : i > server.floor /\ Reads(i, groups)}
LastSyncId(groups) ==
    LET visible == After(0, groups) IN IF visible = {} THEN 0 ELSE Highest(visible)

Snapshot(asked) ==
    [id |-> LastSyncId(Resolved(asked)), groups |-> Resolved(asked),
     rows |-> Writes(server.head, Resolved(asked))]

\* isCursorStale: actions this cursor has not seen are gone.
TooOld(cursor) == cursor > 0 /\ cursor < server.floor

ServerCommits ==
    /\ server.head < Len(Log)
    /\ server' = [server EXCEPT !.head = @ + 1]
    /\ UNCHANGED <<disk, client, streams, pagers, boots, packets, stateQueue, io, budget>>

ServerPrunes ==
    /\ server.floor < server.head /\ budget.prunes > 0
    /\ server' = [server EXCEPT !.floor = server.head]
    /\ budget' = [budget EXCEPT !.prunes = @ - 1]
    /\ UNCHANGED <<disk, client, streams, pagers, boots, packets, stateQueue, io>>

-----------------------------------------------------------------------------
(* Runs, storage and tasks. *)

EmptyDisk == [rows |-> {}, cursor |-> 0, groups |-> {}, complete |-> FALSE, latch |-> FALSE]

\* storage.clear({ preserveOutbox: true }): the latch and the groups stay.
Cleared(d) == [EmptyDisk EXCEPT !.latch = d.latch, !.groups = d.groups]

FreshClient ==
    [running |-> FALSE, token |-> 0, state |-> "disconnected", connected |-> FALSE,
     cursor |-> 0, snapshot |-> 0, groups |-> {}, pending |-> FALSE, owed |-> FALSE,
     maps |-> {}, subscription |-> None, inFlight |-> None, resubscribe |-> 0,
     retry |-> 0, holds |-> {}, stop |-> "none", clears |-> FALSE, open |-> FALSE]

NoPackets == [queue |-> <<>>, at |-> "none", wasPending |-> FALSE]

FreeStream == [pc |-> "free", open |-> FALSE, run |-> 0, snapshot |-> 0, at |-> 0,
               asked |-> {}, actions |-> {}, grants |-> {}, wasPending |-> FALSE]
FreePager == [pc |-> "free", kind |-> "none", run |-> 0, snapshot |-> 0, after |-> 0,
              asked |-> {}, buffer |-> {}, grants |-> {}, more |-> FALSE,
              wasPending |-> FALSE]
FreeBoot == [pc |-> "free", run |-> 0, asked |-> {}, fetched |-> FALSE,
             snap |-> [id |-> 0, groups |-> {}, rows |-> {}], read |-> EmptyDisk,
             privacy |-> FALSE, landed |-> FALSE]

RunningIn(c, run) == c.running \* MUTANT: any run will do
ActiveIn(c, run) == c.running /\ c.token = run
Active(run) == ActiveIn(client, run)
Owed(c) == c.pending \/ c.owed

Free(tasks, ids) == {i \in ids : tasks[i].pc = "free"}
Lowest(ids) == CHOOSE i \in ids : \A j \in ids : i <= j

StreamRef(h) == <<"stream", h>>
PagerRef(p) == <<"pager", p>>
BootRef(t) == <<"boot", t>>
PacketRef == <<"packet", 0>>

Stored(ref) == io # <<>> /\ Head(io) = ref      \* the operation ref waits for is done
Holds(ref) == stateQueue # <<>> /\ Head(stateQueue) = ref
NextIo(ref) == Append(Tail(io), ref)            \* ref goes on to its next operation

\* Drops the handle h and closes it: return() is called before the first await.
Without(c, h) == IF c.subscription = h THEN [c EXCEPT !.subscription = None] ELSE c
LeftOpen(s, h) == s \* MUTANT: return() is not called
Closed(s, h) == IF h = None THEN s ELSE [s EXCEPT ![h].open = FALSE]

\* releaseDeltaSubscription, of the current handle.
StillHeld(c) == c \* MUTANT: the handle stays
Released(c) == [c EXCEPT !.subscription = None]

\* startDeltaSubscription
Subscribe(c, s) ==
    LET closed == Closed(s, c.subscription)
        h == Lowest(Free(closed, Streams))
    IN  /\ Free(closed, Streams) # {}
        /\ client' = [c EXCEPT !.subscription = h]
        /\ streams' = [closed EXCEPT ![h] =
             [FreeStream EXCEPT !.pc = "next", !.open = TRUE, !.run = c.token,
                                !.snapshot = c.snapshot, !.at = c.cursor,
                                !.asked = c.groups]]

SubscribeIfNone(c, s) ==
    IF c.subscription = None THEN Subscribe(c, s) ELSE client' = c /\ streams' = s

\* scheduleGroupChangeBootstrap, to its first await: the stream is closed.
Schedule(c, s, b, run) ==
    IF c.inFlight # None \/ ~ActiveIn(c, run)
    THEN client' = c /\ streams' = s /\ boots' = b
    ELSE LET t == Lowest(Free(b, Boots))
         IN  /\ Free(b, Boots) # {}
             /\ client' = [Released(c) EXCEPT !.inFlight = t]
             /\ streams' = Closed(s, c.subscription)
             /\ boots' = [b EXCEPT ![t] = [FreeBoot EXCEPT !.pc = "releasing", !.run = run]]

Errored(c, run) == IF ActiveIn(c, run) THEN [c EXCEPT !.state = "error"] ELSE c

\* fetchAndApplyDeltaPages, to its first await.
Pager(kind, run, c) ==
    [FreePager EXCEPT !.pc = "fetching", !.kind = kind, !.run = run,
                      !.snapshot = c.snapshot, !.after = c.cursor, !.asked = c.groups]

-----------------------------------------------------------------------------
(* start() and the bootstraps. *)

\* The end of a task: the finally of scheduleGroupChangeBootstrap, for t # 0.
Settled(c, t) ==
    IF t = 0 \/ c.inFlight # t THEN c
    ELSE [c EXCEPT !.inFlight = None,
                   !.retry = IF ActiveIn(c, boots[t].run) /\ Owed(c)
                             THEN boots[t].run ELSE @]

Ends(t, c) ==
    /\ client' = Settled(c, t)
    /\ boots' = [boots EXCEPT ![t] = FreeBoot]
    /\ stateQueue' = IF Holds(BootRef(t)) THEN Tail(stateQueue) ELSE stateQueue

\* Every "if (!isRunActive(runToken)) return" of start() and of a bootstrap.
Abandons(t, io_) == /\ ~Active(boots[t].run)
                    /\ Ends(t, client)
                    /\ io' = io_
                    /\ UNCHANGED <<disk, streams, pagers>>

StartBegins ==
    /\ client.stop = "none" /\ ~client.running /\ boots[0].pc = "free"
    /\ client' = [client EXCEPT !.running = TRUE, !.token = @ + 1, !.state = "connecting",
                                !.open = TRUE]
    /\ boots' = [boots EXCEPT ![0] = [FreeBoot EXCEPT !.pc = "opening", !.run = client'.token]]
    /\ io' = Append(io, BootRef(0))
    /\ UNCHANGED <<server, disk, streams, pagers, packets, stateQueue, budget>>

\* After openStorage.
StartLoads ==
    /\ boots[0].pc = "opening" /\ Stored(BootRef(0))
    /\ \/ Abandons(0, Tail(io))
       \/ /\ Active(boots[0].run)
          /\ boots' = [boots EXCEPT ![0].pc = "loading", ![0].read = disk]
          /\ io' = NextIo(BootRef(0))
          /\ UNCHANGED <<disk, client, streams, pagers, stateQueue>>
    /\ UNCHANGED <<server, packets, budget>>

\* loadMetadata writes the fields before the run is checked.
Loaded(c, d) == [c EXCEPT !.pending = d.latch, !.cursor = d.cursor]
NeedsBootstrap(d) == d.latch \/ ~d.complete \/ d.cursor = 0

StartChooses ==
    LET read == boots[0].read
        c == [Loaded(client, read) EXCEPT !.groups = read.groups]
        needs == Mode = "full" \/ NeedsBootstrap(read)
    IN  /\ boots[0].pc = "loading" /\ Stored(BootRef(0))
        /\ \/ /\ ~Active(boots[0].run)
              /\ Ends(0, Loaded(client, read))
              /\ io' = Tail(io)
           \/ /\ Active(boots[0].run) /\ needs /\ Mode # "local"
              /\ client' = [c EXCEPT !.state = "bootstrapping"]
              /\ boots' = [boots EXCEPT ![0].pc = "fetching", ![0].asked = c.groups]
              /\ io' = Tail(io)
              /\ UNCHANGED stateQueue
           \/ /\ Active(boots[0].run) /\ (~needs \/ Mode = "local")
              /\ client' = IF needs THEN [c EXCEPT !.state = "bootstrapping"] ELSE c
              /\ boots' = [boots EXCEPT ![0].pc = "hydrating", ![0].read = disk]
              /\ io' = NextIo(BootRef(0))
              /\ UNCHANGED stateQueue
        /\ UNCHANGED <<server, disk, streams, pagers, packets, budget>>

\* start() once local data is ready: it opens the stream, and catches up
\* unless a bootstrap landed.
GoLive(c, landed) ==
    /\ Subscribe([c EXCEPT !.state = "syncing"], streams)
    /\ boots' = [boots EXCEPT ![0] = FreeBoot]
    /\ IF landed THEN pagers' = pagers
       ELSE /\ Free(pagers, Pagers) # {}
            /\ pagers' = [pagers EXCEPT ![Lowest(Free(pagers, Pagers))] =
                            Pager("catchUp", c.token, c)]

\* start() after bootstrapIfNeeded; a latched start sanitizes the outbox first.
StartContinues(c, landed) ==
    IF c.pending
    THEN /\ client' = c
         /\ boots' = [boots EXCEPT ![0].pc = "sanitizing", ![0].landed = landed]
         /\ io' = NextIo(BootRef(0))
         /\ UNCHANGED <<streams, pagers>>
    ELSE GoLive(c, landed) /\ io' = Tail(io)

StartHydrates ==
    /\ boots[0].pc = "hydrating" /\ Stored(BootRef(0))
    /\ \/ Abandons(0, Tail(io))
       \/ /\ Active(boots[0].run)
          /\ StartContinues([client EXCEPT !.maps = @ \cup boots[0].read.rows], FALSE)
          /\ UNCHANGED <<disk, stateQueue>>
    /\ UNCHANGED <<server, packets, budget>>

\* The snapshot has arrived.  A bootstrap that downloads outside the state lock
\* now asks for it.
BootFetched(t) ==
    /\ boots[t].pc = "fetching"
    /\ IF t # 0 /\ ~Holds(BootRef(t))
       THEN /\ boots' = [boots EXCEPT ![t].pc = "locking",
                                      ![t].fetched = Active(boots[t].run),
                                      ![t].snap = Snapshot(boots[t].asked)]
            /\ stateQueue' = Append(stateQueue, BootRef(t))
            /\ UNCHANGED <<disk, client, streams, pagers, io>>
       ELSE \/ Abandons(t, io)
            \/ /\ Active(boots[t].run)
               /\ boots' = [boots EXCEPT ![t].pc = "committing", ![t].read = disk,
                                         ![t].snap = Snapshot(boots[t].asked)]
               /\ io' = Append(io, BootRef(t))
               /\ UNCHANGED <<disk, client, streams, pagers, stateQueue>>
    /\ UNCHANGED <<server, packets, budget>>

\* The download failed, or stop() closed the transport.  A start with local data
\* falls back to it; another one fails.
FallsBack == Mode = "auto" /\ ~client.pending /\ disk.rows # {}

BootFails(t) ==
    LET run == boots[t].run
    IN  /\ boots[t].pc = "fetching"
        /\ IF Active(run)
           THEN /\ budget.faults > 0
                /\ budget' = [budget EXCEPT !.faults = @ - 1]
           ELSE UNCHANGED budget
        /\ \/ /\ t = 0 /\ FallsBack
              /\ client' = [client EXCEPT !.state = "bootstrapping"]
              /\ boots' = [boots EXCEPT ![0].pc = "hydrating", ![0].read = disk]
              /\ io' = Append(io, BootRef(0))
              /\ UNCHANGED stateQueue
           \/ /\ t = 0 /\ ~FallsBack
              /\ Ends(0, IF Active(run)
                         THEN [client EXCEPT !.state = "error", !.running = FALSE,
                                             !.token = @ + 1]
                         ELSE client)
              /\ UNCHANGED io
           \/ t # 0 /\ Ends(t, Errored(client, run)) /\ UNCHANGED io
        /\ UNCHANGED <<server, disk, streams, pagers, packets>>

-----------------------------------------------------------------------------
(* commitSnapshot, by start() and by a bootstrap that holds the state lock. *)

Clears(t, c) == /\ client' = c
                /\ disk' = Cleared(disk)
                /\ boots' = [boots EXCEPT ![t].pc = "clearing", ![t].privacy = c.pending]

Replaces(d) == d.complete \/ d.rows # {}

CommitStep(t, pc) == boots[t].pc = pc /\ Stored(BootRef(t))
CommitFrame == UNCHANGED <<server, packets, budget>>
CommitGoesOn(t) == /\ Active(boots[t].run)
                   /\ io' = NextIo(BootRef(t))
                   /\ UNCHANGED <<streams, pagers, stateQueue>>

CommitReads(t) ==
    /\ CommitStep(t, "committing") /\ CommitFrame
    /\ \/ Abandons(t, Tail(io))
       \/ /\ CommitGoesOn(t)
          /\ Replaces(boots[t].read) /\ ~Owed(client)
          /\ disk' = [disk EXCEPT !.latch = TRUE]
          /\ boots' = [boots EXCEPT ![t].pc = "quarantining"]
          /\ UNCHANGED client
       \/ /\ CommitGoesOn(t)
          /\ ~Replaces(boots[t].read) \/ Owed(client)
          /\ Clears(t, client)

CommitQuarantines(t) ==
    /\ CommitStep(t, "quarantining") /\ CommitFrame
    /\ \/ Abandons(t, Tail(io))
       \/ CommitGoesOn(t) /\ Clears(t, [client EXCEPT !.pending = TRUE, !.maps = {}])

CommitWrites(t) ==
    /\ CommitStep(t, "clearing") /\ CommitFrame
    /\ \/ Abandons(t, Tail(io))
       \/ /\ CommitGoesOn(t)
          /\ disk' = [disk EXCEPT !.rows = @ \cup boots[t].snap.rows]
          /\ boots' = [boots EXCEPT ![t].pc = "writing"]
          /\ UNCHANGED client

MapsReplaced(rows) == rows

\* The maps, the cursor and the groups are replaced together.
CommitReplaces(t) ==
    LET snap == boots[t].snap
    IN  /\ CommitStep(t, "writing") /\ CommitFrame
        /\ \/ Abandons(t, Tail(io))
           \/ /\ CommitGoesOn(t)
              /\ client' = [client EXCEPT !.maps = MapsReplaced(snap.rows), !.cursor = snap.id,
                                          !.snapshot = @ + 1, !.groups = snap.groups]
              /\ boots' = [boots EXCEPT ![t].pc = "marking"]
              /\ UNCHANGED disk

\* The metadata that makes the snapshot count, after setModelPersistence.
Recorded(d, c, privacy) == [d EXCEPT !.complete = TRUE, !.cursor = c.cursor,
                                     !.latch = privacy, !.groups = c.groups]

CommitRecords(t) ==
    LET privacy == boots[t].privacy
    IN  /\ CommitStep(t, "marking") /\ CommitFrame
        /\ \/ Abandons(t, Tail(io))
           \/ /\ CommitGoesOn(t)
              /\ client' = IF privacy THEN client ELSE [client EXCEPT !.pending = FALSE]
              /\ disk' = Recorded(disk, client, privacy)
              /\ boots' = [boots EXCEPT ![t].pc = "recording"]

\* The snapshot has landed: start() goes on, and a bootstrap re-applies the
\* outbox under the authority it finds now.
CommitLands(t) ==
    /\ CommitStep(t, "recording") /\ CommitFrame
    /\ \/ Abandons(t, Tail(io))
       \/ /\ t = 0 /\ Active(boots[0].run)
          /\ StartContinues(client, TRUE)
          /\ UNCHANGED <<disk, stateQueue>>
       \/ /\ t # 0 /\ CommitGoesOn(t)
          /\ client' = [client EXCEPT !.owed = FALSE]
          /\ boots' = [boots EXCEPT ![t].pc = "sanitizing", ![t].privacy = client.pending]
          /\ UNCHANGED disk

-----------------------------------------------------------------------------
(* After the commit: the outbox is reconciled and the latch is lifted. *)

StartUnlatches ==
    /\ CommitStep(0, "sanitizing") /\ CommitFrame
    /\ \/ Abandons(0, Tail(io))
       \/ /\ CommitGoesOn(0)
          /\ disk' = [disk EXCEPT !.latch = FALSE]
          /\ boots' = [boots EXCEPT ![0].pc = "unlatching"]
          /\ UNCHANGED client

StartResumes ==
    /\ CommitStep(0, "unlatching") /\ CommitFrame
    /\ \/ Abandons(0, Tail(io))
       \/ /\ Active(boots[0].run)
          /\ GoLive([client EXCEPT !.pending = FALSE], boots[0].landed)
          /\ io' = Tail(io)
          /\ UNCHANGED <<disk, stateQueue>>

\* The bootstrap leaves the state lock.
Unlocks(t, c) ==
    /\ io' = Tail(io)
    /\ \/ ~ActiveIn(c, boots[t].run) /\ Ends(t, c)
       \/ /\ ActiveIn(c, boots[t].run)
          /\ client' = c
          /\ stateQueue' = Tail(stateQueue)
          /\ boots' = [boots EXCEPT ![t].pc = "draining"]

\* Nothing between the outbox and the latch asks whether the run is still active.
BootUnlatches(t) ==
    /\ t # 0 /\ CommitStep(t, "sanitizing") /\ CommitFrame
    /\ \/ ~boots[t].privacy /\ Unlocks(t, client) /\ UNCHANGED disk
       \/ /\ boots[t].privacy /\ client.open
          /\ disk' = [disk EXCEPT !.latch = FALSE]
          /\ boots' = [boots EXCEPT ![t].pc = "unlatching"]
          /\ io' = NextIo(BootRef(t))
          /\ UNCHANGED <<client, stateQueue>>
       \/ /\ boots[t].privacy /\ ~client.open       \* setMeta fails
          /\ Ends(t, Errored(client, boots[t].run))
          /\ io' = Tail(io)
          /\ UNCHANGED disk
    /\ UNCHANGED <<streams, pagers>>

BootReopens(t) ==
    /\ t # 0 /\ CommitStep(t, "unlatching") /\ CommitFrame
    /\ Unlocks(t, [client EXCEPT !.pending = FALSE])
    /\ UNCHANGED <<disk, streams, pagers>>

\* bootstrapAndResume, once the outbox is drained.
BootResumes(t) ==
    /\ boots[t].pc = "draining"
    /\ \/ /\ ~Active(boots[t].run)
          /\ Ends(t, client)
          /\ UNCHANGED streams
       \/ /\ Active(boots[t].run)
          /\ SubscribeIfNone(Settled([client EXCEPT !.state = "syncing"], t), streams)
          /\ boots' = [boots EXCEPT ![t] = FreeBoot]
          /\ UNCHANGED stateQueue
    /\ UNCHANGED <<server, disk, pagers, packets, io, budget>>

\* runGroupChangeBootstrap, once the stream is closed.
BootBegins(t) ==
    /\ boots[t].pc = "releasing"
    /\ \/ /\ ~Active(boots[t].run)
          /\ Ends(t, client)
       \/ /\ Active(boots[t].run) /\ client.owed /\ ~client.pending
          /\ client' = [client EXCEPT !.state = "bootstrapping"]
          /\ boots' = [boots EXCEPT ![t].pc = "fetching", ![t].asked = client.groups]
          /\ UNCHANGED stateQueue
       \/ /\ Active(boots[t].run) /\ (~client.owed \/ client.pending)
          /\ boots' = [boots EXCEPT ![t].pc = "locking"]
          /\ stateQueue' = Append(stateQueue, BootRef(t))
          /\ UNCHANGED client
    /\ UNCHANGED <<server, disk, streams, pagers, packets, io, budget>>

\* Under the state lock: what was downloaded counts unless access was revoked
\* meanwhile.
BootLocks(t) ==
    /\ boots[t].pc = "locking" /\ Holds(BootRef(t))
    /\ \/ Abandons(t, io)
       \/ /\ Active(boots[t].run) /\ boots[t].fetched /\ ~client.pending
          /\ boots' = [boots EXCEPT ![t].pc = "committing", ![t].read = disk]
          /\ io' = Append(io, BootRef(t))
          /\ UNCHANGED <<disk, client, streams, pagers, stateQueue>>
       \/ /\ Active(boots[t].run) /\ (~boots[t].fetched \/ client.pending)
          /\ client' = [client EXCEPT !.state = "bootstrapping"]
          /\ boots' = [boots EXCEPT ![t].pc = "fetching", ![t].asked = client.groups]
          /\ UNCHANGED <<disk, streams, pagers, stateQueue, io>>
    /\ UNCHANGED <<server, packets, budget>>

RetryFires ==
    /\ client.retry # 0
    /\ Schedule([client EXCEPT !.retry = 0], streams, boots, client.retry)
    /\ UNCHANGED <<server, disk, pagers, packets, stateQueue, io, budget>>

-----------------------------------------------------------------------------
(* Packets: applied one at a time, each under the state lock. *)

Packet(owner, actions, last, grants, snapshot) ==
    [owner |-> owner, actions |-> actions, last |-> last, grants |-> grants,
     snapshot |-> snapshot]
Enqueued(packet) == [packets EXCEPT !.queue = Append(@, packet)]

First == Head(packets.queue)
ResumedStreams(pc) ==
    IF First.owner[1] = "stream" THEN [streams EXCEPT ![First.owner[2]].pc = pc] ELSE streams
ResumedPagers(pc) ==
    IF First.owner[1] = "pager" THEN [pagers EXCEPT ![First.owner[2]].pc = pc] ELSE pagers

\* The job ends and whoever enqueued it goes on at pc; streams are left to the caller.
PacketLeaves(pc) == /\ packets' = [packets EXCEPT !.queue = Tail(@), !.at = "none"]
                    /\ pagers' = ResumedPagers(pc)
PacketFrees(pc) == /\ PacketLeaves(pc)
                   /\ stateQueue' = Tail(stateQueue)

PacketTakes ==
    /\ packets.queue # <<>> /\ packets.at = "none"
    /\ \/ /\ client.running
          /\ packets' = [packets EXCEPT !.at = "locking"]
          /\ stateQueue' = Append(stateQueue, PacketRef)
          /\ UNCHANGED <<streams, pagers>>
       \/ /\ ~client.running
          /\ PacketLeaves("next")
          /\ streams' = ResumedStreams("next")
          /\ UNCHANGED stateQueue
    /\ UNCHANGED <<server, disk, client, boots, io, budget>>

News == {i \in First.actions : i > client.cursor}
NewRows == News \ Changes(News)
Moves(c) == First.last > c.cursor
Advanced(c) == [c EXCEPT !.cursor = IF Moves(c) THEN First.last ELSE @]

\* A change that keeps every known group and adds one revokes nothing.
OnlyAdds == /\ client.groups # {}
            /\ client.groups \subseteq First.grants /\ client.groups # First.grants

PacketAwaits(at) == packets' = [packets EXCEPT !.at = at]
PacketFrame == UNCHANGED <<server, budget>>
InLock == packets.at = "locking" /\ Holds(PacketRef)
Current == client.snapshot = First.snapshot

ReadsOn == FALSE \* MUTANT: a change of access is one more action
ChangesAccess == Changes(First.actions) # {}

PacketIsStale ==
    /\ InLock /\ ~Current /\ PacketFrame
    /\ PacketFrees("next")
    /\ streams' = ResumedStreams("next")
    /\ UNCHANGED <<disk, client, boots, io>>

\* requestGroupChangeBootstrap(authoritativeGroups), to its setMeta.
PacketChangesGroups ==
    LET adds == ~client.pending /\ OnlyAdds
    IN  /\ InLock /\ Current /\ ChangesAccess /\ PacketFrame
        /\ client' = [client EXCEPT !.groups = First.grants]
        /\ disk' = [disk EXCEPT !.groups = First.grants, !.latch = @ \/ ~(adds \/ client.pending)]
        /\ packets' = [packets EXCEPT !.at = IF adds THEN "adding" ELSE "latching",
                                      !.wasPending = client.pending]
        /\ io' = Append(io, PacketRef)
        /\ UNCHANGED <<streams, pagers, boots, stateQueue>>

\* requestGroupChangeBootstrap after a setMeta that latched: the maps are emptied.
Quarantined(c, wasPending) ==
    IF wasPending THEN c ELSE [c EXCEPT !.pending = TRUE, !.maps = {}]

PacketRequestsBootstrap ==
    /\ packets.at \in {"adding", "latching"} /\ Stored(PacketRef) /\ PacketFrame
    /\ io' = Tail(io)
    /\ PacketFrees("next")
    /\ Schedule(IF packets.at = "adding" THEN [client EXCEPT !.owed = TRUE]
                ELSE Quarantined(client, packets.wasPending),
                ResumedStreams("next"), boots, client.token)
    /\ UNCHANGED disk

PacketIsHeld ==
    /\ InLock /\ Current /\ ~ChangesAccess /\ Owed(client) /\ PacketFrame
    /\ PacketFrees("next")
    /\ Schedule(client, ResumedStreams("next"), boots, client.token)
    /\ UNCHANGED <<disk, io>>

\* handleEmptyPacket
PacketIsEmpty ==
    /\ InLock /\ Current /\ ~ChangesAccess /\ ~Owed(client) /\ PacketFrame
    /\ News = {}
    /\ client' = Advanced(client)
    /\ \/ /\ Moves(client)
          /\ disk' = [disk EXCEPT !.cursor = First.last]
          /\ PacketAwaits("advancing")
          /\ io' = Append(io, PacketRef)
          /\ UNCHANGED <<streams, pagers, stateQueue>>
       \/ /\ ~Moves(client)
          /\ PacketFrees("next")
          /\ streams' = ResumedStreams("next")
          /\ UNCHANGED <<disk, io>>
    /\ UNCHANGED boots

\* addSyncActions and the rebase.
PacketRebases ==
    /\ InLock /\ Current /\ ~ChangesAccess /\ ~Owed(client) /\ PacketFrame
    /\ News # {}
    /\ PacketAwaits("rebasing")
    /\ io' = Append(io, PacketRef)
    /\ UNCHANGED <<disk, client, streams, pagers, boots, stateQueue>>

\* collectDeferredDeltaOps: the packet's actions were filtered before the await.
PacketWrites ==
    /\ packets.at = "rebasing" /\ Stored(PacketRef) /\ PacketFrame
    /\ disk' = [disk EXCEPT !.rows = @ \cup NewRows]
    /\ PacketAwaits("writing")
    /\ io' = NextIo(PacketRef)
    /\ UNCHANGED <<client, streams, pagers, boots, stateQueue>>

\* The identity-map batch; only then does the cursor move, in memory and on disk.
PacketMerges ==
    /\ packets.at = "writing" /\ Stored(PacketRef) /\ PacketFrame
    /\ client' = Advanced([client EXCEPT !.maps = @ \cup NewRows])
    /\ disk' = IF Moves(client) THEN [disk EXCEPT !.cursor = First.last] ELSE disk
    /\ PacketAwaits("advancing")
    /\ io' = NextIo(PacketRef)
    /\ UNCHANGED <<streams, pagers, boots, stateQueue>>

PacketEnds ==
    /\ packets.at = "advancing" /\ Stored(PacketRef) /\ PacketFrame
    /\ io' = Tail(io)
    /\ PacketFrees("next")
    /\ streams' = ResumedStreams("next")
    /\ UNCHANGED <<disk, client, boots>>

\* A storage operation rejects, and with it the packet.
PacketFails ==
    /\ packets.at \in {"rebasing", "writing"} /\ Stored(PacketRef) /\ budget.faults > 0
    /\ budget' = [budget EXCEPT !.faults = @ - 1]
    /\ io' = Tail(io)
    /\ PacketFrees("failed")
    /\ streams' = ResumedStreams("failed")
    /\ UNCHANGED <<server, disk, client, boots>>

-----------------------------------------------------------------------------
(* The delta stream, and the loop that reads it. *)

StreamFrame == UNCHANGED <<server, pagers, stateQueue>>

\* The loop ends; its finally closes the handle once more.
StreamEnded(h) == [streams EXCEPT ![h] = FreeStream]

StreamDelivers(h) ==
    LET s == streams[h]
        visible == After(s.at, Resolved(s.asked))
    IN  /\ s.pc = "next" /\ s.open /\ Active(s.run) /\ ~TooOld(s.at)
        /\ \E last \in visible :
             streams' = [streams EXCEPT ![h].pc = "gate", ![h].at = last,
                                        ![h].actions = {i \in visible : i <= last},
                                        ![h].grants = Granted(server.head)]
        /\ UNCHANGED <<disk, client, boots, packets, io, budget>> /\ StreamFrame

\* After the replay gate: a stream that is no longer the current one drops what it read.
StreamEnqueues(h) ==
    LET s == streams[h]
    IN  /\ s.pc = "gate" /\ client.holds = {}
        /\ \/ /\ client.subscription # h
              /\ streams' = StreamEnded(h)
              /\ UNCHANGED packets
           \/ /\ client.subscription = h
              /\ packets' = Enqueued(Packet(StreamRef(h), s.actions, s.at, s.grants, s.snapshot))
              /\ streams' = [streams EXCEPT ![h].pc = "queued", ![h].actions = {}, ![h].grants = {}]
        /\ UNCHANGED <<disk, client, boots, io, budget>> /\ StreamFrame

StreamLeaves(h) ==
    /\ streams[h].pc = "next" /\ ~Active(streams[h].run)
    /\ client' = Without(client, h)
    /\ streams' = StreamEnded(h)
    /\ UNCHANGED <<disk, boots, packets, io, budget>> /\ StreamFrame

\* next() says done, because the handle was closed or the transport ended it.
StreamEnds(h) ==
    LET ended == StreamEnded(h)
        c == Without(client, h)
    IN  /\ streams[h].pc = "next" /\ Active(streams[h].run)
        /\ IF streams[h].open
           THEN /\ budget.faults > 0
                /\ budget' = [budget EXCEPT !.faults = @ - 1]
           ELSE UNCHANGED budget
        /\ IF client.subscription = h /\ client.connected THEN Subscribe(c, ended)
           ELSE client' = c /\ streams' = ended
        /\ UNCHANGED <<disk, boots, packets, io>> /\ StreamFrame

\* next() or the packet failed.
StreamFails(h) ==
    LET run == streams[h].run
        c == Without(client, h)
    IN  /\ \/ /\ streams[h].pc = "next" /\ streams[h].open /\ budget.faults > 0
              /\ budget' = [budget EXCEPT !.faults = @ - 1]
           \/ /\ streams[h].pc = "failed"
              /\ UNCHANGED budget
        /\ client' = IF Active(run) THEN [c EXCEPT !.state = "error", !.resubscribe = run] ELSE c
        /\ streams' = StreamEnded(h)
        /\ UNCHANGED <<disk, boots, packets, io>> /\ StreamFrame

ResubscribeFires ==
    LET c == [client EXCEPT !.resubscribe = 0]
    IN  /\ client.resubscribe # 0
        /\ IF Active(client.resubscribe) THEN SubscribeIfNone(c, streams)
           ELSE client' = c /\ UNCHANGED streams
        /\ UNCHANGED <<disk, boots, packets, io, budget>> /\ StreamFrame

\* BOOTSTRAP_REQUIRED on the stream.
StreamRequiresBootstrap(h) ==
    /\ streams[h].pc = "next" /\ streams[h].open /\ TooOld(streams[h].at)
    /\ Active(streams[h].run)
    /\ client' = Without(client, h)
    /\ streams' = [streams EXCEPT ![h].pc = "released", ![h].open = FALSE]
    /\ UNCHANGED <<disk, boots, packets, io, budget>> /\ StreamFrame

\* requestGroupChangeBootstrap() of handleBootstrapRequired, to its setMeta, and after
\* it.  Neither asks for the run whose stream failed.
Latched == [disk EXCEPT !.latch = @ \/ ~client.pending]

StreamLatches(h) ==
    /\ streams[h].pc = "released"
    /\ \/ /\ client.open
          /\ disk' = Latched
          /\ streams' = [streams EXCEPT ![h].pc = "latching", ![h].wasPending = client.pending]
          /\ io' = Append(io, StreamRef(h))
          /\ UNCHANGED client
       \/ /\ ~client.open
          /\ client' = [client EXCEPT !.state = "error"]
          /\ streams' = StreamEnded(h)
          /\ UNCHANGED <<disk, io>>
    /\ UNCHANGED <<boots, packets, budget>> /\ StreamFrame

StreamQuarantines(h) ==
    /\ streams[h].pc = "latching" /\ Stored(StreamRef(h))
    /\ io' = Tail(io)
    /\ Schedule(Quarantined(client, streams[h].wasPending), StreamEnded(h), boots, client.token)
    /\ UNCHANGED <<disk, packets, budget>> /\ StreamFrame

-----------------------------------------------------------------------------
(* Catch-up by pages: after a start, after a reconnect, or by syncNow. *)

PagerFrame == UNCHANGED <<server, boots, stateQueue>>

\* The finally of fetchAndApplyDeltaPages.
NoHold(c, p) == [c EXCEPT !.holds = @ \ {p}]
Stale(p) == pagers[p].run # 0 /\ ~Active(pagers[p].run)
PagerEnds(p, c) == /\ client' = NoHold(c, p)
                   /\ pagers' = [pagers EXCEPT ![p] = FreePager]

\* flush: the buffer becomes one packet.
Flushes(p, buffer, last, grants, more) ==
    /\ packets' = Enqueued(Packet(PagerRef(p), buffer, last, grants, pagers[p].snapshot))
    /\ pagers' = [pagers EXCEPT ![p].pc = "queued", ![p].buffer = {}, ![p].grants = {},
                                ![p].after = last, ![p].more = more]

\* A page; the route narrows a change of access to the groups that were asked for.
PagerReads(p) ==
    LET g == pagers[p]
        groups == Resolved(g.asked)
        visible == After(g.after, groups)
        page == {i \in visible : Cardinality({j \in visible : j <= i}) <= PageSize}
        more == page # visible
        buffer == g.buffer \cup page
        last == IF page = {} THEN g.after ELSE Highest(page)
        grants == IF Changes(page) = {} THEN g.grants ELSE groups
    IN  /\ g.pc = "fetching" /\ ~TooOld(g.after)
        /\ \/ /\ Stale(p)
              /\ PagerEnds(p, client)
              /\ UNCHANGED packets
           \/ /\ ~Stale(p)
              /\ client' = IF more THEN [client EXCEPT !.holds = @ \cup {p}] ELSE client
              /\ \/ /\ ~more \/ Cardinality(buffer) >= BufferLimit
                    /\ Flushes(p, buffer, last, grants, more)
                 \/ /\ more /\ Cardinality(buffer) < BufferLimit
                    /\ pagers' = [pagers EXCEPT ![p].after = last, ![p].asked = client.groups,
                                                ![p].buffer = buffer, ![p].grants = grants]
                    /\ UNCHANGED packets
        /\ UNCHANGED <<disk, streams, io, budget>> /\ PagerFrame

\* A flushed packet is done with.
PagerGoesOn(p) ==
    LET g == pagers[p]
    IN  /\ g.pc = "next"
        /\ \/ /\ Stale(p) \/ (~g.more /\ g.kind = "catchUp")
              /\ PagerEnds(p, client)
           \/ /\ ~Stale(p) /\ g.more
              /\ pagers' = [pagers EXCEPT ![p].pc = "fetching", ![p].asked = client.groups]
              /\ UNCHANGED client
           \/ /\ ~Stale(p) /\ ~g.more /\ g.kind # "catchUp"
              /\ client' = NoHold(client, p)
              /\ pagers' = [pagers EXCEPT ![p].pc = "draining"]
        /\ UNCHANGED <<disk, streams, packets, io, budget>> /\ PagerFrame

\* A page or a packet fails.  The catch-up of a start keeps what it has buffered.
PagerFails(p) ==
    LET g == pagers[p]
        recorded == IF g.kind = "syncNow" THEN client ELSE Errored(client, g.run)
    IN  /\ \/ /\ g.pc = "failed"
              /\ PagerEnds(p, recorded)
              /\ UNCHANGED <<packets, budget>>
           \/ /\ g.pc = "fetching" /\ budget.faults > 0
              /\ budget' = [budget EXCEPT !.faults = @ - 1]
              /\ \/ /\ g.kind = "catchUp" /\ ~Stale(p) /\ g.buffer # {}
                    /\ Flushes(p, g.buffer, g.after, g.grants, FALSE)
                    /\ UNCHANGED client
                 \/ /\ g.kind = "catchUp" /\ (Stale(p) \/ g.buffer = {})
                    /\ PagerEnds(p, client)
                    /\ UNCHANGED packets
                 \/ /\ g.kind # "catchUp"
                    /\ PagerEnds(p, recorded)
                    /\ UNCHANGED packets
        /\ UNCHANGED <<disk, streams, io>> /\ PagerFrame

\* BOOTSTRAP_REQUIRED from the route: the current stream is closed first.
PagerRequiresBootstrap(p) ==
    /\ pagers[p].pc = "fetching" /\ TooOld(pagers[p].after)
    /\ \/ /\ Stale(p) \/ ~client.running
          /\ PagerEnds(p, client)
          /\ UNCHANGED streams
       \/ /\ ~Stale(p) /\ client.running
          /\ client' = NoHold(Released(client), p)
          /\ streams' = Closed(streams, client.subscription)
          /\ pagers' = [pagers EXCEPT ![p].pc = "released"]
    /\ UNCHANGED <<disk, packets, io, budget>> /\ PagerFrame

PagerLatches(p) ==
    /\ pagers[p].pc = "released"
    /\ \/ /\ client.open
          /\ disk' = Latched
          /\ pagers' = [pagers EXCEPT ![p].pc = "latching", ![p].wasPending = client.pending]
          /\ io' = Append(io, PagerRef(p))
          /\ UNCHANGED client
       \/ /\ ~client.open
          /\ PagerEnds(p, [client EXCEPT !.state = "error"])
          /\ UNCHANGED <<disk, io>>
    /\ UNCHANGED <<streams, packets, budget>> /\ PagerFrame

PagerQuarantines(p) ==
    /\ pagers[p].pc = "latching" /\ Stored(PagerRef(p))
    /\ io' = Tail(io)
    /\ pagers' = [pagers EXCEPT ![p] = FreePager]
    /\ Schedule(Quarantined(client, pagers[p].wasPending), streams, boots, client.token)
    /\ UNCHANGED <<server, disk, packets, stateQueue, budget>>

\* syncNow is over, and so is a reconnect, unless a bootstrap owns the resume.
PagerDrains(p) ==
    LET g == pagers[p]
    IN  /\ g.pc = "draining"
        /\ pagers' = [pagers EXCEPT ![p] = FreePager]
        /\ IF g.kind = "reconnect" /\ Active(g.run) /\ ~client.pending
              /\ client.state # "bootstrapping"
           THEN SubscribeIfNone([client EXCEPT !.state = "syncing"], streams)
           ELSE UNCHANGED <<client, streams>>
        /\ UNCHANGED <<disk, packets, io, budget>> /\ PagerFrame

Spawns(kind, run, c) ==
    /\ Free(pagers, Pagers) # {}
    /\ client' = c
    /\ pagers' = [pagers EXCEPT ![Lowest(Free(pagers, Pagers))] = Pager(kind, run, c)]

\* The transport reports a connection: handleConnectionChange.
Connects ==
    LET c == [client EXCEPT !.connected = TRUE]
    IN  /\ client.running /\ ~client.connected /\ budget.connects > 0
        /\ budget' = [budget EXCEPT !.connects = @ - 1]
        /\ IF client.state \in {"connecting", "bootstrapping"}
           THEN client' = c /\ UNCHANGED pagers
           ELSE Spawns("reconnect", client.token, c)
        /\ UNCHANGED <<disk, streams, packets, io>> /\ PagerFrame

\* A connection that is lost comes back.
Disconnects ==
    /\ client.running /\ client.connected /\ budget.connects > 0
    /\ client' = [client EXCEPT !.connected = FALSE]
    /\ UNCHANGED <<disk, streams, pagers, packets, io, budget>> /\ PagerFrame

SyncNow ==
    /\ client.running /\ boots[0].pc = "free" /\ budget.syncs > 0
    /\ budget' = [budget EXCEPT !.syncs = @ - 1]
    /\ Spawns("syncNow", 0, client)
    /\ UNCHANGED <<disk, streams, packets, io>> /\ PagerFrame

-----------------------------------------------------------------------------
(* stop() and clearAll(), and a process that dies. *)

\* reset, to the close of the transport.
StopBegins ==
    /\ client.stop = "none" /\ client.running /\ budget.stops > 0
    /\ budget' = [budget EXCEPT !.stops = @ - 1]
    /\ \E clears \in BOOLEAN :
         client' = [client EXCEPT !.running = FALSE, !.token = @ + 1, !.resubscribe = 0,
                                  !.retry = 0, !.inFlight = None, !.stop = "closing",
                                  !.clears = clears]
    /\ streams' = Closed(streams, client.subscription)
    /\ UNCHANGED <<server, disk, pagers, boots, packets, stateQueue, io>>

StopCloses ==
    /\ client.stop = "closing"
    /\ client' = [client EXCEPT !.subscription = None, !.stop = "draining"]
    /\ streams' = [h \in Streams |-> [streams[h] EXCEPT !.open = FALSE]]
    /\ UNCHANGED <<server, disk, pagers, boots, packets, stateQueue, io, budget>>

\* The packet queue is drained: the orchestrator's fields are reset.
StopResets ==
    /\ client.stop = "draining" /\ packets.queue = <<>>
    /\ client' = [client EXCEPT !.holds = {}, !.cursor = 0, !.groups = {}, !.pending = FALSE,
                                !.owed = FALSE, !.connected = FALSE,
                                !.state = "disconnected", !.stop = "joining"]
    /\ UNCHANGED <<server, disk, streams, pagers, boots, packets, stateQueue, io, budget>>

\* A start that was cancelled has noticed; only then is the store closed, or cleared.
StopEnds ==
    /\ client.stop = "joining" /\ boots[0].pc = "free"
    /\ client' = [client EXCEPT !.stop = "none", !.open = FALSE, !.clears = FALSE,
                                !.maps = IF client.clears THEN {} ELSE @]
    /\ disk' = IF client.clears THEN Cleared(disk) ELSE disk
    /\ UNCHANGED <<server, streams, pagers, boots, packets, stateQueue, io, budget>>

Crash ==
    /\ client.running \/ client.stop # "none"
    /\ budget.crashes > 0
    /\ budget' = [budget EXCEPT !.crashes = @ - 1]
    /\ client' = FreshClient
    /\ streams' = [h \in Streams |-> FreeStream]
    /\ pagers' = [p \in Pagers |-> FreePager]
    /\ boots' = [t \in Tasks |-> FreeBoot]
    /\ packets' = NoPackets
    /\ stateQueue' = <<>>
    /\ io' = <<>>
    /\ UNCHANGED <<server, disk>>

-----------------------------------------------------------------------------
Init ==
    /\ \E s \in Scenarios : \E n \in 0..Len(s.log) :
         /\ server = [log |-> s.log, head |-> n, floor |-> 0]
         /\ budget = s.budget
    /\ disk = EmptyDisk
    /\ client = FreshClient
    /\ streams = [h \in Streams |-> FreeStream]
    /\ pagers = [p \in Pagers |-> FreePager]
    /\ boots = [t \in Tasks |-> FreeBoot]
    /\ packets = NoPackets
    /\ stateQueue = <<>>
    /\ io = <<>>
    /\ budget.prunes > 0 => LastSyncId({Own}) > 0

StartStep == \/ StartLoads \/ StartChooses \/ StartHydrates
             \/ StartUnlatches \/ StartResumes
BootStep(t) == \/ BootFetched(t) \/ BootFails(t) \/ BootUnlatches(t) \/ BootReopens(t)
               \/ (t # 0 /\ (BootResumes(t) \/ BootBegins(t) \/ BootLocks(t)))
CommitSteps(t) == \/ CommitReads(t) \/ CommitQuarantines(t) \/ CommitWrites(t)
                  \/ CommitReplaces(t) \/ CommitRecords(t) \/ CommitLands(t)
PacketStep == \/ PacketTakes \/ PacketIsStale \/ PacketChangesGroups
              \/ PacketRequestsBootstrap \/ PacketIsHeld \/ PacketIsEmpty
              \/ PacketRebases \/ PacketWrites \/ PacketMerges \/ PacketEnds \/ PacketFails
StreamStep(h) == \/ StreamDelivers(h) \/ StreamEnqueues(h) \/ StreamLeaves(h)
                 \/ StreamEnds(h) \/ StreamFails(h) \/ StreamRequiresBootstrap(h)
                 \/ StreamLatches(h) \/ StreamQuarantines(h)
PagerStep(p) == \/ PagerReads(p) \/ PagerGoesOn(p) \/ PagerFails(p)
                \/ PagerRequiresBootstrap(p) \/ PagerLatches(p) \/ PagerQuarantines(p)
                \/ PagerDrains(p)
Timers == RetryFires \/ ResubscribeFires
StopStep == StopCloses \/ StopResets \/ StopEnds
Environment == \/ ServerCommits \/ ServerPrunes \/ Connects \/ Disconnects \/ SyncNow
               \/ StopBegins \/ Crash

Next == \/ StartBegins \/ StartStep
        \/ \E t \in Tasks : BootStep(t) \/ CommitSteps(t)
        \/ PacketStep
        \/ \E h \in Streams : StreamStep(h)
        \/ \E p \in Pagers : PagerStep(p)
        \/ Timers \/ StopStep \/ Environment

Spec == Init /\ [][Next]_vars

FairSpec ==
    /\ Spec
    /\ WF_vars(StartBegins) /\ WF_vars(StartStep) /\ WF_vars(PacketStep)
    /\ \A t \in Tasks : WF_vars(BootStep(t) \/ CommitSteps(t))
    /\ \A h \in Streams : WF_vars(StreamStep(h))
    /\ \A p \in Pagers : WF_vars(PagerStep(p))
    /\ WF_vars(RetryFires) /\ WF_vars(ResubscribeFires) /\ WF_vars(StopStep) /\ WF_vars(Connects)

-----------------------------------------------------------------------------
(* Properties. *)

\* The groups the user has been allowed to read ever since entry n.
Kept(n) == {g \in Groups : \A j \in n..server.head : g \in Granted(j)}

\* Rows of a group the user lost at or before cursor, and never had again.
Revoked(rows, cursor) ==
    {i \in rows : \A j \in cursor..server.head : Log[i].group \notin Granted(j)}

\* Rows the user may no longer read never survive a restart unnoticed: while
\* they are in the store behind the cursor, the store is latched, so that the
\* next start bootstraps before it shows anything.
RevokedRowsAreLatched ==
    disk.complete /\ ~disk.latch => Revoked(disk.rows, disk.cursor) = {}

\* No screen shows what a processed change of access has taken away: the maps
\* hold no row of a group that was revoked at or before the cursor.
RevokedRowsAreHidden == Revoked(client.maps, client.cursor) = {}

\* What a change of access takes away is out of reach once it was processed: off
\* the screen, and out of a store that a next start would show.
RevokedRowsAreGone == RevokedRowsAreLatched /\ RevokedRowsAreHidden

\* The store never lags its own cursor, whatever a crash leaves behind: this is
\* what writing rows before the cursor (applyDeltaPacket) and completing a
\* snapshot last (commitSnapshot) are for.
StoreCoversCursor ==
    disk.complete => Writes(disk.cursor, Kept(disk.cursor) \cap disk.groups) \subseteq disk.rows

\* Nor do the maps while the client says "syncing" and no bootstrap is pending.
MapsCoverCursor ==
    client.state = "syncing" /\ ~client.pending =>
        Writes(client.cursor, Kept(client.cursor) \cap client.groups) \subseteq client.maps

\* What a cursor claims is there: every row up to it, of a group the user still
\* reads, across snapshots, packets, restarts and crashes.
CursorsAreCovered == StoreCoversCursor /\ MapsCoverCursor

\* Two streams are never open at a time, however starts, reconnects, timers and
\* bootstraps meet: an open one is the one the orchestrator holds.
OneStream == \A h \in Streams : streams[h].open => client.subscription = h

\* Nothing but the log keeps the client busy: access does not change while
\* connections come back, what ends a stream is a connection that returns, and
\* no run is stopped while it recovers from retention.
Undisturbed ==
    \/ /\ Changes(Ids) = {} /\ budget.faults <= budget.connects
       /\ budget.prunes = 0 \/ budget.stops = 0
    \/ budget.faults + budget.connects + budget.prunes = 0
Now == Writes(server.head, client.groups \cap Granted(server.head))

\* Then the client catches up for good, whatever stops and crashes: its maps
\* are what the log says, nothing is owed, and a stream is open for what follows.
CatchesUp ==
    Undisturbed => <>[](client.maps = Now /\ ~Owed(client) /\ client.subscription # None)

=============================================================================
