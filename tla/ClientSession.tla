---------------------------- MODULE ClientSession ----------------------------
(***************************************************************************)
(* The server's end of one sync WebSocket: subscribe, replay of            *)
(* sync_actions, buffered and live deltas, gap fill, retention, narrowing  *)
(* of access, group refreshes (packages/server/src/websocket).             *)
(*                                                                         *)
(* A task holds the connection's AsyncMutex from its first statement to    *)
(* its last: a subscribe message, one live delta, or one group-refresh     *)
(* catch-up.  queue is the mutex, its head the task that runs, and each    *)
(* step of the head is what the code does between two awaits.  Commits,    *)
(* retention, notifications, changes of access and the end of the socket   *)
(* happen between any two steps.                                           *)
(*                                                                         *)
(* An id is a position in log, the committed order that the insert-order   *)
(* lock of sync-dao.ts gives; an entry for Nobody is an id that was rolled *)
(* back.  Pages and buffers are sets of ids, taken in ascending order.     *)
(***************************************************************************)
EXTENDS Integers, Sequences, FiniteSets

CONSTANTS
    Groups,           \* the sync groups
    Own,              \* the user's personal group, which refreshes address
    Entries,          \* the entries a commit may append
    Access,           \* the sets of groups the authorization may answer
    Requests,         \* the sets of groups a subscribe may name
    ReplayPageSize, GapFillPageSize, GapFillMaxPages, MaxBufferedActions,
    Configs,          \* the configurations a server may run with
    MaxId             \* bound: ids allocated

Everyone == "everyone"
Nobody == "nobody"

Entry == [to : Groups \cup {Everyone, Nobody}, refresh : BOOLEAN,
          lists : SUBSET Groups]

ASSUME GroupsAssumption ==
    /\ Own \in Groups /\ {Everyone, Nobody} \cap Groups = {}
    /\ Access \subseteq SUBSET Groups /\ Requests \subseteq SUBSET Groups
ASSUME EntriesAssumption ==
    /\ Entries \subseteq Entry
    /\ \A e \in Entries : e.refresh => e.to = Own
ASSUME BoundsAssumption ==
    /\ {ReplayPageSize, GapFillPageSize} \subseteq Nat \ {0}
    /\ {GapFillMaxPages, MaxBufferedActions, MaxId} \subseteq Nat
    /\ Configs \subseteq [reauthorizes : BOOLEAN, catchesUp : BOOLEAN,
                    maxSubscribes : Nat]

VARIABLES
    config,           \* reauthorizeBeforeWebSocketDelivery, whether
                      \* webSocketGroupRefreshCatchUpIntervalMs is set, and
                      \* (a bound) the subscribe messages on this socket
    log,              \* every id allocated so far, in order
    pruned,           \* retention has deleted the ids up to this one
    unpublished,      \* committed ids this process has not been told of
    granted,          \* what the authorization answers now
    socket,           \* "open", "closing" (the server ended it), "closed"
    phase, groups, afterSyncId, scannedThrough, groupRefreshCursor,
    bufferedActions,
    subscribed,       \* unsubscribe # null: the delta bus has our callback
    queue,            \* the tasks at the mutex; the head runs
    step,             \* where the head is; "start" before its first statement
    job,              \* what the head remembers across its awaits
    subscribes,       \* subscribe messages received
    reply,            \* the last answer to a subscribe
    start, frames     \* history: this subscription's cursor and frames

world == <<config, log, pruned, unpublished, granted>>
session == <<phase, groups, afterSyncId, scannedThrough, groupRefreshCursor,
             bufferedActions, subscribed>>
history == <<start, frames>>
vars == <<world, socket, session, queue, step, job, subscribes, reply, history>>

Phases == {"idle", "replaying", "live", "closed"}
Steps == {"start", "authenticate", "floor", "read", "check", "next",
          "authorize", "guard", "refreshes", "deliver", "acknowledge", "list"}
Ids == 1 .. MaxId
Cursors == 0 .. MaxId

Task == [kind : {"subscribe"}, after : Cursors, groups : SUBSET Groups]
          \cup [kind : {"delta"}, id : Ids]
          \cup [kind : {"catchUp"}]

(***************************************************************************)
(* job.pending holds the notifications still to deliver, job.target the    *)
(* one whose gap is being filled (0 while a replay reads), job.page what   *)
(* is left of the page read from job.cursor, which ended at job.last and   *)
(* was full when job.full; job.sending is claimed and not yet sent.        *)
(***************************************************************************)
Job == [pending : SUBSET Ids, through : Cursors, target : Cursors,
        cursor : Cursors, page : SUBSET Ids, last : Cursors, full : BOOLEAN,
        pages : Nat, sending : Cursors]

NoJob == [pending |-> {}, through |-> 0, target |-> 0, cursor |-> 0,
          page |-> {}, last |-> 0, full |-> FALSE, pages |-> 0, sending |-> 0]

TypeOK ==
    /\ log \in Seq(Entries) /\ Len(log) <= MaxId
    /\ pruned \in 0 .. Len(log) /\ unpublished \subseteq 1 .. Len(log)
    /\ granted \in Access /\ config \in Configs
    /\ socket \in {"open", "closing", "closed"}
    /\ phase \in Phases /\ groups \subseteq Groups
    /\ {afterSyncId, scannedThrough, groupRefreshCursor, start} \subseteq 0 .. Len(log)
    /\ bufferedActions \subseteq 1 .. Len(log) /\ subscribed \in BOOLEAN
    /\ queue \in Seq(Task) /\ step \in Steps /\ job \in Job
    /\ subscribes \in 0 .. config.maxSubscribes
    /\ reply \in {"none", "subscribed", "bootstrap", "error"}
    /\ frames \in Seq(1 .. Len(log))

-----------------------------------------------------------------------------
(* sync_actions as one statement sees it.                                   *)

Least(S) == CHOOSE i \in S : \A j \in S : i <= j
Greatest(S) == CHOOSE i \in S : \A j \in S : j <= i
Larger(a, b) == IF a < b THEN b ELSE a

Retained == {i \in 1 .. Len(log) : i > pruned /\ log[i].to # Nobody}

(* hasGroupOverlap, and the rows of visibleGroupCondition. *)
Overlaps(held, i) == log[i].to \in held \cup {Everyone}

FirstOf(S, n) == {i \in S : Cardinality({j \in S : j <= i}) <= n}

VisibleActions(after, through, held, limit) ==
    FirstOf({i \in Retained : after < i /\ i <= through /\ Overlaps(held, i)}, limit)

SyncGroupActions(after, through) ==
    {i \in Retained : after < i /\ i <= through /\ log[i].refresh}

NextSyncIdForGroups(held) == Len(log) + 1 \* MUTANT: one past the last
LastSyncIdForGroups(held) ==
    LET seen == {i \in Retained : Overlaps(held, i)}
    IN  IF seen = {} THEN 0 ELSE Greatest(seen)

EarliestSyncId ==
    IF Retained # {} THEN Least(Retained)
    ELSE IF log # <<>> THEN Len(log) + 1 ELSE 0

IsSyncCursorStale(after, earliest) ==
    after > 0 /\ earliest > 0 /\ after + 1 < earliest

IsPageBehindRetention(after) ==
    after > 0 /\ IsSyncCursorStale(after, EarliestSyncId)

-----------------------------------------------------------------------------
(* The world around the session.  Bound: the log, retention and access      *)
(* stand still once the connection has ended.                               *)

Commit(e) ==
    /\ socket = "open" /\ Len(log) < MaxId
    /\ log' = Append(log, e)
    /\ unpublished' = IF e.to = Nobody THEN unpublished
                      ELSE unpublished \cup {Len(log) + 1}
    /\ UNCHANGED <<config, pruned, granted, socket, session, queue, step, job,
                   subscribes, reply, history>>

Prune(n) ==
    /\ socket = "open" /\ pruned' = n
    /\ UNCHANGED <<config, log, unpublished, granted, socket, session, queue, step, job,
                   subscribes, reply, history>>

ChangeAccess(a) ==
    /\ socket = "open" /\ granted' = a
    /\ UNCHANGED <<config, log, pruned, unpublished, socket, session, queue, step, job,
                   subscribes, reply, history>>

(* A free mutex starts its next task in the same turn of the event loop, so  *)
(* no event of this process comes between the two.                          *)
BetweenTurns == queue = <<>> \/ step # "start"

(* A subscribe message takes its turn at the mutex. *)
ReceiveSubscribe(after, request) ==
    /\ BetweenTurns /\ socket = "open" /\ subscribes < config.maxSubscribes
    /\ subscribes' = subscribes + 1
    /\ queue' = Append(queue, [kind |-> "subscribe", after |-> after, groups |-> request])
    /\ UNCHANGED <<world, socket, session, step, job, reply, history>>

(* The catch-up timer, which is cleared when the socket closes. *)
Tick ==
    /\ BetweenTurns /\ config.catchesUp /\ socket # "closed"
    /\ \A n \in 1 .. Len(queue) : queue[n].kind # "catchUp"
    /\ queue' = Append(queue, [kind |-> "catchUp"])
    /\ UNCHANGED <<world, socket, session, step, job, subscribes, reply, history>>

(* cleanupWebSocket, on the socket's close event. *)
SocketCloses ==
    /\ BetweenTurns /\ socket # "closed" /\ socket' = "closed"
    /\ phase' = "closed" /\ subscribed' = FALSE
    /\ UNCHANGED <<world, groups, afterSyncId, scannedThrough, groupRefreshCursor,
                   bufferedActions, queue, step, job, subscribes, reply, history>>

EndSocket == socket' = IF socket = "open" THEN "closing" ELSE socket

(* What bufferLiveDelta leaves; the order is that of the ids when it is     *)
(* flushed.                                                                 *)
Buffering(i) == bufferedActions \cup {i}

(* What every way of giving up does: detach, close, and end the socket so   *)
(* that the client subscribes again from the cursor it holds.               *)
EndSession(held) ==
    /\ groups' = held /\ bufferedActions' = {}
    /\ subscribed' = FALSE /\ phase' = "closed"
    /\ EndSocket
    /\ UNCHANGED <<afterSyncId, scannedThrough, groupRefreshCursor>>

OnLiveDelta(i) ==
    \/ /\ phase = "closed" \/ i <= afterSyncId
       /\ UNCHANGED <<session, socket, queue>>
    \/ /\ phase = "replaying" /\ i > afterSyncId
       /\ IF ~Overlaps(groups, i) THEN UNCHANGED <<session, socket, queue>>
          ELSE IF Cardinality(bufferedActions) >= MaxBufferedActions THEN EndSession(groups) /\ UNCHANGED queue
          ELSE /\ bufferedActions' = Buffering(i)
               /\ UNCHANGED <<phase, groups, afterSyncId, scannedThrough,
                              groupRefreshCursor, subscribed, socket, queue>>
    \/ /\ phase \in {"idle", "live"} /\ i > afterSyncId
       /\ queue' = Append(queue, [kind |-> "delta", id |-> i])
       /\ UNCHANGED <<session, socket>>

(* The bus of this process learns of an id: from its own commit, or by way  *)
(* of Redis, in any order and perhaps never.                                *)
Publish(i) ==
    /\ BetweenTurns /\ i \in unpublished /\ unpublished' = unpublished \ {i}
    /\ IF subscribed THEN OnLiveDelta(i) ELSE UNCHANGED <<session, socket, queue>>
    /\ UNCHANGED <<config, log, pruned, granted, step, job, subscribes, reply, history>>


-----------------------------------------------------------------------------
(* The task at the head of the mutex.                                       *)

Waiting(kind) == queue # <<>> /\ step = "start" /\ Head(queue).kind = kind

At(s) == queue # <<>> /\ step = s /\ phase # "closed"

Finish == queue' = Tail(queue) /\ step' = "start" /\ job' = NoJob

Continue(s, j) == step' = s /\ job' = j /\ UNCHANGED queue

RequireBootstrap ==
    /\ EndSession({}) /\ reply' = "bootstrap" /\ Finish
    /\ UNCHANGED <<world, subscribes, history>>

Reset ==
    /\ phase' = "idle" /\ groups' = {} /\ bufferedActions' = {}
    /\ afterSyncId' = 0 /\ scannedThrough' = 0 /\ groupRefreshCursor' = 0
    /\ subscribed' = FALSE

(* A task whose session was closed meanwhile returns at its next check; what *)
(* it still writes on the way there nobody reads before a reset().          *)
Abandon ==
    /\ queue # <<>> /\ step # "start" /\ phase = "closed"
    /\ Finish
    /\ UNCHANGED <<world, socket, session, subscribes, reply, history>>

(* handleSubscribe, up to the authorization it awaits. *)
BeginSubscribe ==
    /\ Waiting("subscribe")
    /\ Reset /\ reply' = "none" /\ Continue("authenticate", job)
    /\ UNCHANGED <<world, socket, subscribes, history>>

(* The first subscribe takes the user that was authorized when the socket   *)
(* was upgraded, however long ago; the others are authorized now.           *)
IsFirstSubscribe ==
    subscribes = Cardinality({n \in 1 .. Len(queue) : queue[n].kind = "subscribe"})

RejectSubscribe ==
    /\ At("authenticate") /\ ~IsFirstSubscribe
    /\ reply' = "error" /\ Finish
    /\ UNCHANGED socket \/ EndSocket
    /\ UNCHANGED <<world, session, subscribes, history>>

(* A request for a group that is not granted is refused when refreshes are  *)
(* caught up, and narrowed otherwise; then beginReplay.                     *)
BeginReplay(answer) ==
    LET request == Head(queue)
        held == request.groups \cap answer
    IN  /\ At("authenticate") /\ (IsFirstSubscribe \/ answer = granted)
        /\ UNCHANGED <<world, socket, subscribes>>
        /\ IF config.catchesUp /\ held # request.groups
           THEN /\ reply' = "bootstrap" /\ Finish
                /\ UNCHANGED <<session, history>>
           ELSE /\ phase' = "replaying" /\ groups' = held
                /\ afterSyncId' = request.after
                /\ scannedThrough' = request.after
                /\ groupRefreshCursor' = request.after
                /\ bufferedActions' = {}
                /\ start' = request.after /\ frames' = <<>>
                /\ Continue("floor", job)
                /\ UNCHANGED <<subscribed, reply>>

InstallSubscription ==
    /\ At("floor")
    /\ UNCHANGED <<world, socket, subscribes, history>>
    /\ IF IsSyncCursorStale(Head(queue).after, EarliestSyncId)
       THEN Reset /\ reply' = "bootstrap" /\ Finish
       ELSE /\ subscribed' = TRUE
            /\ Continue("read", [job EXCEPT !.cursor = afterSyncId])
            /\ UNCHANGED <<phase, groups, afterSyncId, scannedThrough,
                           groupRefreshCursor, bufferedActions, reply>>

(* One page is read, and only then the floor (CheckPage).  The pages of a   *)
(* gap are counted, those of a replay are not.                              *)
TakePage(rows, limit) ==
    Continue("check", [job EXCEPT !.page = rows,
                                  !.last = IF rows = {} THEN @ ELSE Greatest(rows),
                                  !.full = Cardinality(rows) = limit,
                                  !.pages = IF job.target = 0 THEN 0 ELSE @ + 1])

ReadReplayPage ==
    /\ At("read") /\ job.target = 0
    /\ IF socket # "open" THEN Continue("deliver", NoJob)
       ELSE TakePage(VisibleActions(job.cursor, Len(log), groups, ReplayPageSize),
                     ReplayPageSize)
    /\ UNCHANGED <<world, socket, session, subscribes, reply, history>>

ReadGapPage ==
    /\ At("read") /\ job.cursor < job.target - 1
    /\ IF job.pages >= GapFillMaxPages THEN RequireBootstrap
       ELSE /\ TakePage(VisibleActions(job.cursor, job.target - 1, groups,
                                       GapFillPageSize), GapFillPageSize)
            /\ UNCHANGED <<world, socket, session, subscribes, reply, history>>

CheckPage ==
    /\ At("check")
    /\ IF ~IsPageBehindRetention(job.cursor)
       THEN /\ Continue("next", job)
            /\ UNCHANGED <<world, socket, session, subscribes, reply, history>>
       ELSE IF job.target # 0 THEN RequireBootstrap
       ELSE /\ Reset /\ reply' = "bootstrap" /\ Finish
            /\ UNCHANGED <<world, socket, subscribes, history>>

(* claimSyncId refuses what was scanned; what it accepts is scanned, once   *)
(* nothing below it is missing.                                             *)
AnythingIsNews(i) == TRUE \* MUTANT: no cursor
IsNews(i) == i > scannedThrough

Claim(i, j) ==
    /\ scannedThrough' = i
    /\ Continue(IF log[i].to = Everyone THEN "guard" ELSE "authorize",
                [j EXCEPT !.sending = i])
    /\ UNCHANGED <<world, socket, phase, groups, afterSyncId, groupRefreshCursor,
                   bufferedActions, subscribed, subscribes, reply, history>>

SendFromPage ==
    LET i == Least(job.page)
        rest == [job EXCEPT !.page = @ \ {i}]
    IN  /\ At("next") /\ job.page # {}
        /\ IF IsNews(i) THEN Claim(i, rest)
           ELSE /\ Continue("next", rest)
                /\ UNCHANGED <<world, socket, session, subscribes, reply, history>>

ReadAgain == job.cursor \* MUTANT: the same page
ReadOn == job.last

NextPage ==
    /\ At("next") /\ job.page = {} /\ job.full
    /\ Continue("read", [job EXCEPT !.cursor = ReadOn])
    /\ UNCHANGED <<world, socket, session, subscribes, reply, history>>

EndReplay ==
    /\ At("next") /\ job.page = {} /\ ~job.full /\ job.target = 0
    /\ Continue("deliver", NoJob)
    /\ UNCHANGED <<world, socket, session, subscribes, reply, history>>

(* The end of fillGapBefore: a short page, or a full one that reached it. *)
EndGap ==
    /\ job.target # 0
    /\ \/ At("next") /\ job.page = {} /\ ~job.full
       \/ At("read") /\ job.cursor >= job.target - 1
    /\ Claim(job.target, job)

(***************************************************************************)
(* sendDeltaAction after the claim.  Each of its returns goes back to the  *)
(* page, or, when the notification itself was sent, to the next one.       *)
(***************************************************************************)
Return ==
    IF job.sending = job.target
    THEN Continue("deliver", [NoJob EXCEPT !.pending = job.pending,
                                           !.through = job.through])
    ELSE Continue("next", [job EXCEPT !.sending = 0])

DenyDelivery ==
    /\ At("authorize") /\ config.reauthorizes /\ socket = "open"
    /\ EndSession({}) /\ reply' = "error" /\ Finish
    /\ UNCHANGED <<world, subscribes, history>>

AuthorizeDelivery ==
    LET held == IF config.reauthorizes /\ socket = "open" THEN groups \cap granted ELSE groups
    IN  /\ At("authorize")
        /\ groups' = held
        /\ IF (config.reauthorizes /\ socket # "open") \/ log[job.sending].to \notin held
           THEN Return ELSE Continue("guard", job)
        /\ UNCHANGED <<world, socket, phase, afterSyncId, scannedThrough,
                       groupRefreshCursor, bufferedActions, subscribed,
                       subscribes, reply, history>>

(* A refresh narrows the groups; a frame goes out on an open socket only. *)
Emit(refreshCursor) ==
    LET i == job.sending
        entry == log[i]
    IN  /\ groups' = IF entry.refresh THEN groups \cap entry.lists ELSE groups
        /\ IF socket = "open"
           THEN /\ afterSyncId' = Larger(afterSyncId, i)
                /\ groupRefreshCursor' =
                       IF entry.refresh THEN Larger(refreshCursor, i) ELSE refreshCursor
                /\ frames' = Append(frames, i)
           ELSE /\ groupRefreshCursor' = refreshCursor
                /\ UNCHANGED <<afterSyncId, frames>>
        /\ Return
        /\ UNCHANGED <<world, socket, phase, scannedThrough, bufferedActions,
                       subscribed, subscribes, reply, start>>

(* guardGroupRefreshCursor asks nothing of a refresh itself. *)
NeedsGuard == /\ config.catchesUp /\ ~log[job.sending].refresh
              /\ job.sending > groupRefreshCursor

SendFrame ==
    /\ At("guard") /\ ~NeedsGuard
    /\ Emit(groupRefreshCursor)

GuardFloor ==
    /\ At("guard") /\ NeedsGuard
    /\ IF IsSyncCursorStale(groupRefreshCursor, EarliestSyncId) THEN RequireBootstrap
       ELSE /\ Continue("refreshes", job)
            /\ UNCHANGED <<world, socket, session, subscribes, reply, history>>

GuardRefreshes ==
    /\ At("refreshes")
    /\ IF SyncGroupActions(groupRefreshCursor, job.sending) # {} THEN RequireBootstrap
       ELSE Emit(job.sending)

(***************************************************************************)
(* deliverLiveDelta, for a live delta and for each buffered one; a refresh *)
(* that the catch-up lists goes to sendDeltaAction directly.               *)
(***************************************************************************)
TakeDelta ==
    /\ Waiting("delta")
    /\ IF phase = "live"
       THEN Continue("deliver", [NoJob EXCEPT !.pending = {Head(queue).id}])
       ELSE Finish
    /\ UNCHANGED <<world, socket, session, subscribes, reply, history>>

NeverGaps(i) == FALSE \* MUTANT: trusts the notification
HasGapBelow(i) == i > scannedThrough + 1

DeliverNext ==
    LET i == Least(job.pending)
        rest == [job EXCEPT !.pending = @ \ {i}]
        listed == Head(queue).kind = "catchUp"
    IN  /\ At("deliver") /\ job.pending # {}
        /\ IF listed /\ i <= afterSyncId THEN RequireBootstrap
           ELSE IF ~IsNews(i)
           THEN /\ Continue("deliver", rest)
                /\ UNCHANGED <<world, socket, session, subscribes, reply, history>>
           ELSE IF ~listed /\ ~Overlaps(groups, i)
           THEN /\ scannedThrough' = IF i = scannedThrough + 1 THEN i ELSE scannedThrough
                /\ Continue("deliver", rest)
                /\ UNCHANGED <<world, socket, phase, groups, afterSyncId,
                               groupRefreshCursor, bufferedActions, subscribed,
                               subscribes, reply, history>>
           ELSE IF HasGapBelow(i)
           THEN /\ Continue("read", [rest EXCEPT !.target = i, !.cursor = scannedThrough,
                                                 !.pages = 0])
                /\ UNCHANGED <<world, socket, session, subscribes, reply, history>>
           ELSE Claim(i, [rest EXCEPT !.target = i])

EndDelta ==
    /\ At("deliver") /\ job.pending = {} /\ Head(queue).kind = "delta"
    /\ Finish
    /\ UNCHANGED <<world, socket, session, subscribes, reply, history>>

(* flushBufferedActions: what was buffered while it delivered is taken too, *)
(* and with nothing left the session is live in the same step.              *)
NothingLeft == FALSE \* MUTANT: never flushes
BufferHasMore == bufferedActions # {}

TakeBuffer ==
    /\ At("deliver") /\ job.pending = {} /\ Head(queue).kind = "subscribe"
    /\ IF BufferHasMore
       THEN /\ Continue("deliver", [NoJob EXCEPT !.pending = bufferedActions])
            /\ bufferedActions' = {} /\ UNCHANGED phase
       ELSE /\ Continue("acknowledge", NoJob)
            /\ phase' = "live" /\ UNCHANGED bufferedActions
    /\ UNCHANGED <<world, socket, groups, afterSyncId, scannedThrough,
                   groupRefreshCursor, subscribed, subscribes, reply, history>>

Acknowledge ==
    /\ At("acknowledge")
    /\ UNCHANGED <<world, subscribes, history>>
    /\ \/ /\ config.reauthorizes /\ socket = "open"
          /\ EndSession({}) /\ reply' = "error" /\ Finish
       \/ /\ groups' = IF config.reauthorizes /\ socket = "open" THEN groups \cap granted
                        ELSE groups
          /\ reply' = IF socket = "open" THEN "subscribed" ELSE reply
          /\ Finish
          /\ UNCHANGED <<socket, phase, afterSyncId, scannedThrough,
                         groupRefreshCursor, bufferedActions, subscribed>>

(* catchUpGroupRefreshActions. *)
BeginCatchUp ==
    /\ Waiting("catchUp")
    /\ IF phase = "live" /\ IsSyncCursorStale(groupRefreshCursor, EarliestSyncId)
       THEN RequireBootstrap
       ELSE /\ IF phase = "live" THEN Continue("list", job) ELSE Finish
            /\ UNCHANGED <<world, socket, session, subscribes, reply, history>>

ListRefreshes ==
    LET through == LastSyncIdForGroups({Own})
    IN  /\ At("list")
        /\ IF through <= groupRefreshCursor THEN Finish
           ELSE Continue("deliver",
                    [NoJob EXCEPT !.through = through,
                                  !.pending = SyncGroupActions(groupRefreshCursor, through)])
        /\ UNCHANGED <<world, socket, session, subscribes, reply, history>>

EndCatchUp ==
    /\ At("deliver") /\ job.pending = {} /\ Head(queue).kind = "catchUp"
    /\ groupRefreshCursor' = job.through
    /\ Finish
    /\ UNCHANGED <<world, socket, phase, groups, afterSyncId, scannedThrough,
                   bufferedActions, subscribed, subscribes, reply, history>>

(***************************************************************************)
(* A read of the database fails.  The guard asks for a bootstrap; a replay *)
(* resets the session, even one that was closed, and ends the socket; a    *)
(* live delivery ends the session; a catch-up tries again at its next      *)
(* tick.  The read of the floor before the replay is outside every handler *)
(* but the one that logs.                                                  *)
(***************************************************************************)
Reading ==
    \/ step = "read" /\ job.target = 0 /\ socket = "open"
    \/ step = "read" /\ job.cursor < job.target - 1 /\ job.pages < GapFillMaxPages
    \/ step = "check" /\ job.cursor > 0

ReadFails ==
    /\ queue # <<>>
    /\ UNCHANGED <<world, subscribes, history>>
    /\ \/ /\ At("refreshes") \/ (At("guard") /\ NeedsGuard)
          /\ EndSession({}) /\ reply' = "bootstrap" /\ Finish
       \/ /\ Reading /\ Head(queue).kind = "subscribe"
          /\ Reset /\ EndSocket /\ reply' = "error" /\ Finish
       \/ /\ Reading /\ Head(queue).kind = "delta" /\ phase # "closed"
          /\ EndSession(groups) /\ Finish /\ UNCHANGED reply
       \/ /\ \/ At("floor")
             \/ At("list")
             \/ Waiting("catchUp") /\ phase = "live"
             \/ Reading /\ Head(queue).kind = "catchUp"
          /\ Finish /\ UNCHANGED <<socket, session, reply>>

-----------------------------------------------------------------------------

Init ==
    /\ log = <<>> /\ pruned = 0 /\ unpublished = {} /\ granted \in Access
    /\ config \in Configs
    /\ socket = "open" /\ phase = "idle" /\ groups = {} /\ subscribed = FALSE
    /\ afterSyncId = 0 /\ scannedThrough = 0 /\ groupRefreshCursor = 0
    /\ bufferedActions = {}
    /\ queue = <<>> /\ step = "start" /\ job = NoJob
    /\ subscribes = 0 /\ reply = "none" /\ start = 0 /\ frames = <<>>

World ==
    \/ \E e \in Entries : Commit(e)
    \/ \E n \in pruned + 1 .. Len(log) : Prune(n)
    \/ \E a \in Access \ {granted} : ChangeAccess(a)
    \/ \E after \in 0 .. Len(log), r \in Requests : ReceiveSubscribe(after, r)
    \/ Tick
    \/ SocketCloses
    \/ \E i \in unpublished : Publish(i)

Work ==
    \/ Abandon \/ BeginSubscribe \/ RejectSubscribe
    \/ \E answer \in Access : BeginReplay(answer)
    \/ InstallSubscription \/ ReadReplayPage \/ ReadGapPage \/ CheckPage
    \/ SendFromPage \/ NextPage \/ EndReplay \/ EndGap
    \/ DenyDelivery \/ AuthorizeDelivery \/ SendFrame
    \/ GuardFloor \/ GuardRefreshes
    \/ TakeDelta \/ DeliverNext \/ EndDelta \/ TakeBuffer \/ Acknowledge
    \/ BeginCatchUp \/ ListRefreshes \/ EndCatchUp
    \/ ReadFails

Next == World \/ Work

(* Every await of a task settles: the database, the authorization and the   *)
(* hooks answer or fail, and the event loop runs what waits.                *)
Spec == Init /\ [][Next]_vars /\ WF_vars(Work)

-----------------------------------------------------------------------------
(* Properties.                                                              *)

Sent == {frames[n] : n \in 1 .. Len(frames)}
Delivering == socket = "open" /\ phase \in {"replaying", "live"}

(* A subscription from 0 is never told that retention went past it: it is   *)
(* owed nothing that was pruned below its first frame.                      *)
Excused(i) == start = 0 /\ i <= pruned /\ \A f \in Sent : i < f

(* The claim of client-session.ts on scannedThrough: every committed id at  *)
(* or below it that this session may see was sent, or is the one being      *)
(* sent.  Replay, buffer, gap fill, retention, narrowing of access and      *)
(* notifications in any order all move that cursor.                         *)
NothingSkipped ==
    Delivering =>
        \A i \in start + 1 .. scannedThrough :
            Overlaps(groups, i) => i \in Sent \cup {job.sending} \/ Excused(i)

(* However replay, buffer, gap fill and live deltas interleave, the client  *)
(* sees the log from where it subscribed, in order and without a gap.       *)
Reader == INSTANCE LogReader WITH held <- groups
ReadsTheLog == Reader!Spec

(* The handover from replay to live leaves no crack: once a session is live *)
(* and at rest, whatever this process was told of, before or after the      *)
(* subscription was installed, while it replayed or since, was scanned.     *)
NothingPublishedIsMissed ==
    Delivering /\ phase = "live" /\ queue = <<>> =>
        \A i \in (start + 1 .. Len(log)) \ unpublished :
            Overlaps(groups, i) => i <= scannedThrough \/ (start = 0 /\ i <= pruned)

(* Every subscribe is answered, or its socket ends -- unless the read of    *)
(* the floor failed, which leaves the session replaying with nothing        *)
(* installed.                                                               *)
Stranded == phase = "replaying" /\ ~subscribed /\ step = "start"
SubscribeIsAnswered ==
    (step = "authenticate") ~> (reply # "none" \/ socket # "open" \/ Stranded)

(* What a live or replaying session was told of reaches the client, unless  *)
(* it subscribed after it, may not see it, or the session ends: nothing     *)
(* waits for the next commit to be noticed.                                 *)
Told(i) == \/ i \in bufferedActions
           \/ i \in job.pending /\ Head(queue).kind # "catchUp"
           \/ \E n \in 1 .. Len(queue) : queue[n].kind = "delta" /\ queue[n].id = i
NotificationIsDelivered ==
    \A i \in Ids : Told(i) ~> \/ i \in Sent \/ i <= start \/ Excused(i)
                              \/ i <= Len(log) /\ ~Overlaps(groups, i)
                              \/ ~Delivering \/ Stranded

=============================================================================
