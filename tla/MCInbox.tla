------------------------------ MODULE MCInbox ------------------------------
(***************************************************************************)
(* Instances of Inbox for TLC.                                             *)
(***************************************************************************)
EXTENDS Inbox, TLC

Ghost(g) == [anon |-> FALSE, id |-> g]

AnonCred(k) == [replier |-> k, fp |-> anon_fingerprint(k), hash |-> 0]
GhostCred(k, g, h) == [replier |-> k, fp |-> Ghost(g), hash |-> h]

Ptr(c, post, t, b) == [replier |-> c.replier, fp |-> c.fp, post |-> post, time |-> t, bits |-> b]

\* The peers are interchangeable: no operator tells one from another.
Peers == Permutations(Replica)

\* Tiers: keys 1 and 3 hold Ghost Keys and fill the inbox; key 3 trades its
\* attestation for another, which its pointer does not name.  Key 2 is anonymous
\* and writes once more than the fairness cap allows, the one time ahead of a
\* clock at 0, the other pointing at key 3's reply with an earlier time.  It also
\* forges a pointer and writes one for another inbox, and key 1 shows a bad
\* attestation.
TierForeign == {Ptr(AnonCred(2), 23, 1, 1)}
TierForged == {Ptr(AnonCred(2), 32, 1, 1)}
TierMalformed == TierForged \cup {GhostCred(1, 7, 2)}
TierCred ==
  {GhostCred(1, 9, 1), AnonCred(2), GhostCred(3, 8, 1), GhostCred(3, 7, 2), GhostCred(1, 7, 2)}
TierPointer ==
  {Ptr(GhostCred(1, 9, 1), 12, 1, 0), Ptr(AnonCred(2), 21, 3, 1), Ptr(AnonCred(2), 31, 0, 1),
   Ptr(GhostCred(3, 8, 1), 31, 1, 0)} \cup TierForeign \cup TierForged

\* Stale: one reply, pointed at by its author before and after the attestation.
StaleCred == {AnonCred(1), GhostCred(1, 9, 1)}
StalePointer == {Ptr(AnonCred(1), 11, 1, 1), Ptr(GhostCred(1, 9, 1), 11, 1, 0)}
=============================================================================
