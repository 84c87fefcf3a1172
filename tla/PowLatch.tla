------------------------------ MODULE PowLatch ------------------------------
(***************************************************************************)
(* The latched proof-of-work difficulty of pow/src/lib.rs, which the       *)
(* directory and every inbox embed.  The publisher signs records; a state  *)
(* holds the newest one it has met, and the record says how many bits the  *)
(* stamp of an anonymous entry must clear to be admitted.                  *)
(***************************************************************************)
EXTENDS Naturals

CONSTANTS
  Difficulty,        \* the publisher's records: [seq, bits]
  Malformed,         \* the entries and records that their check refuses
  POW_FLOOR_BITS,
  POW_CEILING_BITS,
  None

\* The seq of a record is the publisher's clock: no two records share it and
\* none is 0.
ASSUME PowAssumption ==
  /\ Difficulty \subseteq [seq : Nat \ {0}, bits : Nat]
  /\ \A c, e \in Difficulty : c.seq = e.seq => c = e
  /\ POW_FLOOR_BITS \in Nat /\ POW_CEILING_BITS \in Nat
  /\ POW_FLOOR_BITS <= POW_CEILING_BITS
  /\ None \notin Difficulty \cup Malformed

difficulty_seq(c) == IF c = None THEN 0 ELSE c.seq

difficulty_bits(c) ==
  IF c = None \/ c.bits < POW_FLOOR_BITS THEN POW_FLOOR_BITS
  ELSE IF c.bits > POW_CEILING_BITS THEN POW_CEILING_BITS ELSE c.bits

adopt_difficulty(held, c) ==
  IF c # None /\ c \notin Malformed /\ c.seq > difficulty_seq(held) THEN c ELSE held
=============================================================================
