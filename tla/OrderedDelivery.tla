-------------------------- MODULE OrderedDelivery --------------------------
(***************************************************************************)
(* What the outbox promises the application: writes reach the server in    *)
(* the order they were made, each at most once, none overtaking an earlier *)
(* one that is still alive; and a write the application was told is gone   *)
(* was not applied and never will be.                                      *)
(*                                                                         *)
(* No batches, failures, retries, storage or restarts: they are what the   *)
(* implementation (Outbox) has to hide.                                    *)
(***************************************************************************)
EXTENDS Naturals, Sequences, SequencesExt

CONSTANT NumTx

VARIABLES
  made,       \* writes made so far, numbered from 1
  withdrawn,  \* writes the application was told are dropped or refused
  log         \* writes the server applied, in order

vars == <<made, withdrawn, log>>

\* A write that is neither applied nor withdrawn.
Alive(t) == t \in 1 .. made /\ t \notin withdrawn \cup ToSet(log)

Init == made = 0 /\ withdrawn = {} /\ log = <<>>

Write == made < NumTx /\ made' = made + 1 /\ UNCHANGED <<withdrawn, log>>

Withdraw ==
  \E t \in 1 .. made :
    /\ Alive(t)
    /\ withdrawn' = withdrawn \cup {t}
    /\ UNCHANGED <<made, log>>

Apply ==
  \E t \in 1 .. made :
    /\ Alive(t)
    /\ \A u \in 1 .. t - 1 : ~Alive(u)
    /\ log' = Append(log, t)
    /\ UNCHANGED <<made, withdrawn>>

Next == Write \/ Withdraw \/ Apply

Spec == Init /\ [][Next]_vars

=============================================================================
