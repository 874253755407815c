----------------------------- MODULE JobProgress -----------------------------
(***************************************************************************)
(* JobProgressTracker: the counters by which the manager decides that a    *)
(* cycle is complete and whether it succeeded.                             *)
(***************************************************************************)
EXTENDS Integers

Progress == [remaining : Nat, success : Nat, failure : Nat]

BeginCycle(total) == [remaining |-> total, success |-> 0, failure |-> 0]

(* Faulty variant: the outcome of the job is not looked at.                 *)
MarkOneDone_AllSuccess(p, ok) ==
    [p EXCEPT !.remaining = @ - 1, !.success = @ + 1]

MarkOneDone(p, ok) ==
    [p EXCEPT !.remaining = @ - 1,
              !.success = IF ok THEN @ + 1 ELSE @,
              !.failure = IF ok THEN @ ELSE @ + 1]

(* Faulty variant: done with one report outstanding.                        *)
IsDone_OneEarly(p) == p.remaining <= 1

IsDone(p) == p.remaining <= 0

=============================================================================
