----------------------------- MODULE MCDocuments -----------------------------
(* What two users do with a document, beside sockets that drop and a server *)
(* that answers with errors.                                                *)
EXTENDS Documents, TLC

A == "a"
B == "b"
MCClients == {A, B}

Calm(a, b) == [script |-> A :> a @@ B :> b, drops |-> 0, errors |-> 0, refusals |-> 0, losses |-> 0]

(* Both write at once; a document is closed, written and opened again; a    *)
(* page is loaded anew; an empty document is begun by both.                 *)
MCWriting ==
    {Calm(<<"open", "edit", "edit">>, <<"open", "edit">>),
     Calm(<<"open", "edit", "close", "edit", "open">>, <<"open", "edit">>),
     Calm(<<"seed", "edit">>, <<"seed", "edit">>)}

(* A socket drops meanwhile.                                                *)
MCDrops ==
    {[s EXCEPT !.drops = 1] : s \in
        {Calm(<<"open", "focus", "edit", "blur">>, <<"open">>),
         Calm(<<"open", "edit", "reload", "open">>, <<"open", "edit">>),
         Calm(<<"open", "edit", "clear", "open">>, <<"open", "edit">>),
         Calm(<<"open", "open", "close", "edit">>, <<"open", "edit", "close", "open">>)}}

(* An update is lost on its way to the other, with one more to follow.      *)
MCLosses ==
    {[Calm(<<"open", "edit", "edit">>, <<"open", "edit">>) EXCEPT !.losses = 1]}

(* The server answers with an error, to try again or for good.              *)
MCErrors ==
    {[Calm(<<"open", "edit">>, <<"open">>) EXCEPT !.errors = 1],
     [Calm(<<"focus", "open", "blur", "close">>, <<"open">>) EXCEPT !.errors = 1],
     [Calm(<<"open", "edit">>, <<>>) EXCEPT !.errors = 3],
     [Calm(<<"open", "edit", "open">>, <<"open">>) EXCEPT !.refusals = 1]}

MCScenarios == MCWriting \cup MCDrops \cup MCLosses \cup MCErrors
=============================================================================
