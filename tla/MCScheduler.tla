---------------------------- MODULE MCScheduler ----------------------------
(* Values of the constants of Scheduler for the model checker. *)
EXTENDS Scheduler, TLC

CONSTANTS backup, report
CONSTANTS r1, r2

Event(c, o, x, d, b) ==
  [cmd |-> c, overlap |-> o, expires |-> x, evenDown |-> d, background |-> b]

\* The same command registered twice with different expiries, and a background event.
TwoExpiries == << Event(backup, TRUE, 2, TRUE, FALSE), Event(backup, TRUE, 1, FALSE, FALSE),
                  Event(report, FALSE, 1, TRUE, TRUE) >>

RunnerSymmetry == Permutations(Runners)
=============================================================================
