----------------------------- MODULE MCJobQueue -----------------------------
(* Values of the constants of JobQueue for the model checker. *)
EXTENDS JobQueue, TLC

CONSTANTS m1, m2

AllValid == [m \in Msgs |-> "valid"]
\* A job that runs, and a row whose payload is no JSON.
OneUndecodable == [m \in Msgs |-> IF m = m1 THEN "valid" ELSE "undecodable"]
NoOverride == [m \in Msgs |-> None]
AllMacros == {"raw", "rawQuery"}

WorkerSymmetry == Permutations(Workers)
=============================================================================
