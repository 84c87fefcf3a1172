----------------------------- MODULE MCReader -----------------------------
(***************************************************************************)
(* An instance of Slots, Mirrors and Reader for TLC.  They share no        *)
(* variable and no handler reads those of another, so that a behaviour of  *)
(* the page is one of each, interleaved: the instance lets one part run    *)
(* and holds the other two still.                                          *)
(***************************************************************************)
EXTENDS Slots, Mirrors, Reader, TLC

CONSTANT elsewhere

VARIABLE part

vars == <<part, slotsVars, mirrorsVars, readerVars>>

\* Records.  Time or seq, hash, body (a build, or what an anchor names).
Rec(t, h, b) == [time |-> t, hash |-> h, body |-> b, ok |-> TRUE]
Forged(r) == [r EXCEPT !.ok = FALSE]
At(v, x) == [version |-> v, address |-> x]
Names(inbox, feed, avatar) == [inbox |-> inbox, feed |-> feed, avatar |-> avatar]
MCGeneration == Names(3, 2, 2)
MCPoison == Rec(3, 1, "p")
MCUpload == {Rec(1, 1, "p"), Rec(2, 2, "p")}
MCOld == Rec(1, 2, "p")

\* Anchors name a rotated address, the own derived one, those of another
\* author, one address twice, an older generation; the last is of a schema
\* this build cannot read.  A control record publishes an older build anew.
MCRecord ==
  [avatar |-> {Rec(0, 1, "p"), Rec(2, 1, "p"), Forged(Rec(1, 3, "p"))},
   anchor |-> {Rec(1, 1, Names(At(3, <<1, "inbox">>), At(2, elsewhere), None)),
               Rec(1, 2, Names(At(3, <<2, "feed">>), At(2, elsewhere), At(2, elsewhere))),
               Rec(2, 1, Names(At(2, elsewhere), At(2, <<2, "inbox">>), None)),
               Rec(3, 1, None)},
   control |-> {Rec(1, 1, 1), Rec(2, 1, 2), Rec(3, 1, 1), Rec(4, 1, None)}]

\* Legacy listings: an attested one and a stripped copy of it, an attested
\* one and a newer anonymous one of its author, a third author, a forged one.
L(a, t, attested) == [author |-> a, time |-> t, attested |-> attested, hash |-> 1, ok |-> TRUE]
MCListing == {L(1, 1, TRUE), L(1, 1, FALSE), L(2, 2, TRUE), L(2, 3, FALSE), L(3, 4, FALSE),
              Forged(L(4, 2, TRUE))}
MCDirectoryDelivery ==
  {{l} : l \in MCListing}
    \cup {{L(1, 1, TRUE), L(2, 2, TRUE)}, {L(2, 3, FALSE), L(3, 4, FALSE)}}

\* The legacy inbox: key 1 attests itself anew, key 2 upgrades from anonymous,
\* key 3 stays anonymous; pointers without credentials and forged ones.
F(n) == [id |-> n, anon |-> n \in {2, 3}]
C(k, f, h) == [key |-> k, fp |-> F(f), hash |-> h, ok |-> TRUE]
P(k, f, r, t) == [replier |-> k, fp |-> F(f), reply |-> r, time |-> t, ok |-> TRUE]
D(cs, ps) == [creds |-> cs, pointers |-> ps]
MCInboxDelivery ==
  {D({C(1, 1, 1)}, <<P(1, 1, 1, 1)>>),
   D({C(1, 1, 1)}, <<P(1, 1, 2, 2), P(1, 1, 1, 1)>>),
   D({C(2, 2, 0)}, <<P(2, 2, 3, 3), P(2, 2, 4, 4)>>),
   D({C(3, 3, 0)}, <<P(3, 3, 5, 5)>>),
   D({C(2, 4, 2)}, <<P(2, 4, 6, 2), P(2, 2, 3, 3)>>),
   D({C(2, 4, 2)}, <<>>),
   D({C(1, 5, 2), Forged(C(3, 3, 0))}, <<P(1, 5, 1, 1), Forged(P(1, 5, 7, 7))>>),
   D({}, <<P(2, 2, 3, 3), P(1, 1, 1, 1)>>)}

\* Feeds: 1 follows 2, 3 follows 1, 2 has not migrated; a reply of 2 to 3.
Ref1(a) == [author |-> a, id |-> 1]
MCPeep == {[author |-> 2, id |-> 1, parent |-> Ref1(3)],
           [author |-> 3, id |-> 1, parent |-> None]}
MCFollows == <<{2}, None, {1}>>
MCLegacyFollows == <<None, {1}, None>>
MCPointer == {[owner |-> 1, replier |-> 2, target |-> 0, reply |-> 0],
              [owner |-> 2, replier |-> 3, target |-> 1, reply |-> 2]}
MCListed == {[author |-> 2, time |-> 2], [author |-> 3, time |-> 1]}
MCLegacyListed == {[author |-> 3, time |-> 3], [author |-> 1, time |-> 2]}
MCOpened == {[tab |-> "profile"], [tab |-> "discover"], [tab |-> "thread", post |-> Ref1(2)]}

MCInit ==
  /\ part \in {"slots", "mirrors", "feeds"}
  /\ SlotsInit /\ MirrorsInit /\ ReaderInit
  /\ part = "slots" \/ (topic = "control" /\ \A h \in Host : clock[h] = 0)

SlotsStep == part = "slots" /\ SlotsNext /\ UNCHANGED <<part, mirrorsVars, readerVars>>
MirrorsStep == part = "mirrors" /\ MirrorsNext /\ UNCHANGED <<part, slotsVars, readerVars>>
FeedsStep(A) == part = "feeds" /\ A /\ UNCHANGED <<part, slotsVars, mirrorsVars>>

MCSpec ==
  /\ MCInit
  /\ [][SlotsStep \/ MirrorsStep \/ FeedsStep(ReaderNext)]_vars
  /\ SF_vars(FeedsStep(Discover))
  /\ \A a \in Author : SF_vars(FeedsStep(Answered(a)))
=============================================================================
