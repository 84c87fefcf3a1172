----------------------------- MODULE MCDirectory -----------------------------
(***************************************************************************)
(* Instances of Directory for TLC.                                         *)
(***************************************************************************)
EXTENDS Directory, TLC

Att(a, t, h) == [author |-> a, time |-> t, hash |-> h, anon |-> FALSE, bits |-> 0]
Ano(a, t, h, b) == [author |-> a, time |-> t, hash |-> h, anon |-> TRUE, bits |-> b]
Rec(n, b) == [seq |-> n, bits |-> b]

\* Tiers: author 1 has an attested listing, which closes the anonymous tier,
\* and signed two anonymous ones at one time; author 3 evicts either of them.
TierListing == {Att(1, 1, 1), Ano(1, 2, 1, 1), Ano(1, 2, 2, 1), Ano(3, 3, 1, 1)}

\* The bar: a stamp under the floor; one above it, and of the same author one at
\* the floor on a listing that wins; a listing from the future and a malformed
\* one; a raise and a later lowering.
BarListing ==
  {Ano(1, 1, 1, 0), Ano(2, 1, 1, 2), Ano(2, 1, 2, 1), Att(4, 3, 1), Att(5, 1, 1)}
BarMalformed == {Att(5, 1, 1)}
BarDifficulty == {Rec(1, 2), Rec(2, 1)}

\* The raise: a listing that clears it, ahead of a clock at 0.
RaiseListing == {Ano(1, 1, 1, 2)}

\* Under the bar: an anonymous listing at the floor, and the attested one with
\* which the raise comes.
UnderBarListing == {Ano(1, 1, 1, 1), Att(2, 0, 1)}

RaiseDifficulty == {Rec(1, 2)}

\* The peers are interchangeable: no operator tells one from another.
Peers == Permutations(Replica)
=============================================================================
