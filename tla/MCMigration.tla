---------------------------- MODULE MCMigration ----------------------------
(***************************************************************************)
(* Two devices of one owner, one legacy followee out of two, one legacy    *)
(* post that answers the followee; and an instance of Verification, which  *)
(* shares no variable with Migration: a behaviour is one of either.  In    *)
(* those of Verification either the publisher signs no difficulty record   *)
(* or the node has no vault, since neither handler reads what the other    *)
(* writes.                                                                 *)
(***************************************************************************)
EXTENDS Migration, Verification, TLC

CONSTANTS f1, f2, p1, n1, blank, old

MCReplyTo == p1 :> f1

\* The legacy profile wins a tie against the name typed, the legacy follow
\* list against every other one.
MCHash ==
  [x \in {blank, old, n1} \cup SUBSET {f1, f2} |->
     CASE x = blank -> 1 [] x = n1 -> 2 [] x = old -> 3
       [] x = {} -> 1 [] x = {f1, f2} -> 2 [] x = {f2} -> 3 [] x = {f1} -> 4]

Symmetry == Permutations(Device) \cup Permutations(PostingKey)

\* A raise and a cut, and one the publisher did not sign.
MCDifficulty == {[seq |-> 1, bits |-> 2], [seq |-> 2, bits |-> 1]}
MCMalformed == {[seq |-> 3, bits |-> 2]}

VARIABLE part

vars == <<part, migrationVars, verificationVars>>

MCInit == part \in {"migration", "vault", "bar"} /\ MigrationInit /\ VerificationInit
            /\ (part # "migration" \/ (born = {} /\ setting = FALSE))

MigrationStep == part = "migration" /\ MigrationNext /\ UNCHANGED <<part, verificationVars>>
VerificationStep ==
  /\ part # "migration" /\ VerificationNext /\ UNCHANGED <<part, migrationVars>>
  /\ IF part = "vault" THEN UNCHANGED powVars ELSE UNCHANGED vaultVars

MCSpec == MCInit /\ [][MigrationStep \/ VerificationStep]_vars
=============================================================================
