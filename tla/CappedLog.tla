----------------------------- MODULE CappedLog -----------------------------
(***************************************************************************)
(* Logs that keep only their newest entries.                               *)
(*                                                                         *)
(* Every bounded collection of Freebird (the posts of a feed, the tiers of *)
(* the directory, the pointers of an inbox) is a vector sorted by an order *)
(* key and truncated from the old end.  A sorted vector without duplicates *)
(* is the set of its elements, so a log is a set here and the order is a   *)
(* relation R : <<x, y>> \in R says that x sorts before (is older than) y. *)
(***************************************************************************)
EXTENDS Naturals, FiniteSets

\* R orders the elements of E strictly and totally.
StrictTotalOrder(R, E) ==
  /\ \A x \in E : <<x, x>> \notin R
  /\ \A x, y \in E : x = y \/ <<x, y>> \in R \/ <<y, x>> \in R
  /\ \A x, y, z \in E : <<x, y>> \in R /\ <<y, z>> \in R => <<x, z>> \in R

\* The entries of S that sort after x.
Newer(R, S, x) == {y \in S : <<x, y>> \in R}

\* What sorting S and draining its old end down to k entries leaves.
Newest(R, k, S) == {x \in S : Cardinality(Newer(R, S, x)) < k}

\* The first entry of the sorted log S, as a set: empty when S is.
Oldest(R, S) == {x \in S : S \ {x} \subseteq Newer(R, S, x)}

\* What a replica of S publishes about its truncation: nothing (the empty
\* set) while it retains anything, else the oldest entry it retains.
Horizon(R, k, S) == IF Cardinality(S) < k THEN {} ELSE Oldest(R, S)

\* A replica with horizon H would retain x.
AboveHorizon(R, H, x) == \A h \in H : <<h, x>> \in R
=============================================================================
