--------------------------- MODULE MCClientSession ---------------------------
(* A small connection for TLC: a user with one shared group, and a group of  *)
(* somebody else's.                                                          *)
EXTENDS ClientSession

To(g) == [to |-> g, refresh |-> FALSE, lists |-> {}]
Refresh(held) == [to |-> "me", refresh |-> TRUE, lists |-> held]

MCGroups == {"me", "team", "others"}
MCAccess == {{"me", "team"}, {"me"}}
MCSteadyAccess == {{"me", "team"}}
MCRequests == {{"me", "team"}}

(* Every safeguard on, and the default, in which a socket subscribes twice. *)
MCSafeguarded == {[reauthorizes |-> TRUE, catchesUp |-> TRUE, maxSubscribes |-> 1]}
MCDefault == {[reauthorizes |-> FALSE, catchesUp |-> FALSE, maxSubscribes |-> 2]}
MCConfigs == MCSafeguarded \cup MCDefault
MCOnce == {[c EXCEPT !.maxSubscribes = 1] : c \in MCConfigs}

(* Ordinary entries for each reader, and a refresh that takes the team away. *)
MCEntries == {To("team"), To("others"), Refresh({"me"})}
MCFewEntries == {To("team"), To(Nobody), Refresh({"me"})}

=============================================================================
