------------------------------- MODULE Lists -------------------------------
(***************************************************************************)
(* The array operations the sync engine's lists are built with:            *)
(* `toSorted` by a numeric key, `filter` by non-membership in a set, and   *)
(* `reduce`.                                                               *)
(*                                                                         *)
(* The first two are defined by rank - an element's place in the result is *)
(* the number of elements that do not come after it - and the third is a   *)
(* recursive function, so that ListsProofs can show what they return.      *)
(***************************************************************************)
EXTENDS Naturals, FiniteSets, Sequences

\* The place of x among the elements of the set S, sorted by `key`.
Place(x, S, key) == Cardinality({y \in S : key[y] <= key[x]})

\* The finite set S as a sequence sorted by `key`, a function into Nat that
\* gives different elements different keys.
SortedBy(S, key) ==
  [k \in 1 .. Cardinality(S) |-> CHOOSE x \in S : Place(x, S, key) = k]

\* The positions of s whose element is not in S.
Kept(s, S) == {i \in DOMAIN s : s[i] \notin S}

\* s without the elements of S: `s.filter((x) => !S.has(x))`.
Without(s, S) ==
  LET kept  == Kept(s, S)
      order == SortedBy(kept, [i \in kept |-> i])
  IN  [k \in 1 .. Cardinality(kept) |-> s[order[k]]]

\* s reduced to one value, from the left: `s.reduce(op, base)`.
Fold(op(_, _), base, s) ==
  LET upTo[n \in 0 .. Len(s)] == IF n = 0 THEN base ELSE op(upTo[n - 1], s[n])
  IN  upTo[Len(s)]

\* A list of numbers in which each is greater than those before it.
Ascending(s) == \A i, j \in DOMAIN s : i < j => s[i] < s[j]

=============================================================================
