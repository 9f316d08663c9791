---------------------------- MODULE MCSyncClient ----------------------------
(* Small logs, and what happens beside them: two of the faults and commands  *)
(* of a log's environment at a time.                                         *)
EXTENDS SyncClient

MCGroups == {"me", "team"}

W(g) == [kind |-> "write", group |-> g]
A(gs) == [kind |-> "access", groups |-> gs]

(* Access that stays, is gained, is gained and lost, and is gained at first. *)
Steady == <<W("me"), W("me")>>
Gained == <<W("me"), A({"me", "team"}), W("team")>>
Lost == <<A({"me", "team"}), W("team"), A({"me"})>>
Early == <<A({"me", "team"}), W("me"), W("me")>>

Once(chances) == [c \in Chances |-> IF c \in chances THEN 1 ELSE 0]
On(log, budgets) == {[log |-> log, budget |-> Once(b)] : b \in budgets}

MCScenarios ==
    On(Steady, {{"prunes", "syncs"}, {"prunes", "connects"}, {"faults", "connects"},
                {"crashes", "connects"}, {"stops", "connects"}, {"crashes", "stops"},
                {"faults", "stops"}, {"connects", "syncs"}, {"prunes", "stops"}})
      \cup {[log |-> Steady, budget |-> [Once({"faults"}) EXCEPT !.connects = 2]]}
      \cup On(Gained, {{"crashes", "faults"}, {"stops"}, {"syncs"}})
      \cup On(Lost, {{"prunes", "connects"}, {"prunes", "crashes"}, {"prunes", "faults"},
                     {"crashes", "connects"}, {"stops"}, {"syncs"}})
      \cup On(Early, {{"prunes", "connects"}, {"prunes", "crashes"}})

=============================================================================
