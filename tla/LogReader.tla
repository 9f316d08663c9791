------------------------------ MODULE LogReader ------------------------------
(***************************************************************************)
(* What a subscription promises, however it is carried out: its frames are *)
(* the committed log from its start on, in order, without a gap, narrowed  *)
(* to the groups it holds.  The groups of one subscription only shrink.    *)
(***************************************************************************)
EXTENDS Integers, Sequences

CONSTANTS Groups, Entries, Everyone

VARIABLES log, pruned, held, start, frames

vars == <<log, pruned, held, start, frames>>

Wanted(i) == log[i].to \in held \cup {Everyone}

Position == IF frames = <<>> THEN start ELSE frames[Len(frames)]

(* Only a reader that starts from nothing accepts what is left of the log. *)
Missing(i) == ~(start = 0 /\ frames = <<>> /\ i <= pruned)

Init ==
    /\ log = <<>> /\ pruned = 0 /\ held = {} /\ start = 0 /\ frames = <<>>

Commit ==
    /\ \E e \in Entries : log' = Append(log, e)
    /\ UNCHANGED <<pruned, held, start, frames>>

Prune ==
    /\ pruned' \in pruned + 1 .. Len(log)
    /\ UNCHANGED <<log, held, start, frames>>

Narrow ==
    /\ held' \in SUBSET held
    /\ UNCHANGED <<log, pruned, start, frames>>

Subscribe ==
    /\ start' \in 0 .. Len(log) /\ held' \in SUBSET Groups /\ frames' = <<>>
    /\ UNCHANGED <<log, pruned>>

Deliver(i) ==
    /\ Wanted(i)
    /\ \A j \in Position + 1 .. i - 1 : Wanted(j) => ~Missing(j)
    /\ frames' = Append(frames, i)
    /\ held' \in SUBSET held
    /\ UNCHANGED <<log, pruned, start>>

Next ==
    \/ Commit \/ Prune \/ Narrow \/ Subscribe
    \/ \E i \in Position + 1 .. Len(log) : Deliver(i)

Spec == Init /\ [][Next]_vars

=============================================================================
