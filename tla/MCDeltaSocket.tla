----------------------------- MODULE MCDeltaSocket -----------------------------
(* What may happen to a stream, a few kinds at a time.                      *)
EXTENDS DeltaSocket

Times(n, chances) == [c \in Chances |-> IF c \in chances THEN n ELSE 0]

(* Retries up to and past their limit.                                      *)
MCRetries ==
    {Times(3, {"drops"}), Times(3, {"rejects"}), Times(3, {"tokenless"}), Times(3, {"errors"}),
     Times(2, {"drops", "tokenless"}), Times(2, {"errors", "tokenless"}), Times(1, {"drops", "rejects", "tokenless", "errors"})}

(* A stream that ends for one reason or another, and is opened again.       *)
MCReopened ==
    {Times(1, {"closes", "reopens", "drops", "tokenless"}), Times(1, {"closes", "reopens", "rejects", "drops"}),
     Times(2, {"closes", "reopens"}), Times(1, {"closes", "reopens", "raws", "drops"}),
     Times(1, {"stale", "reopens", "drops", "tokenless"}), Times(1, {"stale", "reopens", "errors"}),
     [Times(3, {"tokenless"}) EXCEPT !["reopens"] = 1],
     [Times(1, {"closes", "raws"}) EXCEPT !["drops"] = 2]}

(* A stream that is left, and a token that is refused.                      *)
MCOthers == {Times(1, {"returns", "reopens", "drops", "tokenless"}), Times(1, {"unsent", "drops", "raws"})}

MCScenarios == MCRetries \cup MCReopened \cup MCOthers
===============================================================================
