------------------------------- MODULE MCFeed -------------------------------
(***************************************************************************)
(* Instances of Feed for TLC.                                              *)
(***************************************************************************)
EXTENDS Feed, TLC

At(t, i) == [time |-> t, id |-> i]
Key(v, h) == [version |-> v, hash |-> h]

\* Posts: one instant shared by two posts, ids out of step with times, the
\* newest ahead of a clock at 0, and one malformed.  One record a register.
PostsPost == {At(1, 2), At(1, 3), At(2, 1), At(0, 4)}
PostsMalformed == {At(0, 4)}
OneKey == {Key(0, 1)}

\* Registers: version 0 is seed_feed's, version 1 was signed twice with
\* different content.
RegProfile == {Key(0, 2), Key(1, 1), Key(1, 2)}
RegAttestation == {[hash |-> 1], [hash |-> 2]}

\* Liveness: two posts compete for one slot, the newer ahead of a clock at 0.
LivePost == {At(0, 2), At(1, 1)}

\* The peers are interchangeable: no operator tells one from another.
Peers == Permutations(Replica)
=============================================================================
