------------------------------ MODULE PostLog ------------------------------
(***************************************************************************)
(* What a capped post log promises, without summaries, deltas, horizons or *)
(* clocks: each peer receives posts, in any order and any grouping, and    *)
(* shows the newest MAX_POSTS of those it has received.                    *)
(***************************************************************************)
EXTENDS CappedLog

CONSTANTS Replica, Post, PostOrder, MAX_POSTS

VARIABLES
  received,  \* received[r]: the posts peer r was given so far
  log        \* log[r]: the posts peer r shows

Init ==
  /\ received = [r \in Replica |-> {}]
  /\ log = [r \in Replica |-> {}]

Receive(r, posts) ==
  /\ received' = [received EXCEPT ![r] = @ \cup posts]
  /\ log' = [log EXCEPT ![r] = Newest(PostOrder, MAX_POSTS, received[r] \cup posts)]

Next == \E r \in Replica, posts \in SUBSET Post : Receive(r, posts)

Spec == Init /\ [][Next]_<<received, log>>
=============================================================================
