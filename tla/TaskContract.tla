--------------------------- MODULE TaskContract ---------------------------
(***************************************************************************)
(* What the task queue promises the code that enqueues work, with no       *)
(* workers, leases or retries in sight: a task is open from the moment it  *)
(* is accepted; while it is open its handler's effects may be applied any  *)
(* number of times; it is closed once, as a success only when its effects  *)
(* have been applied.  This is at-least-once delivery as E02-S01 of        *)
(* docs/backlog/stories/E02-orchestration-platform.md asks for it.         *)
(***************************************************************************)
EXTENDS Naturals

CONSTANTS Tasks

VARIABLES
  phase,      \* where each task is in its life
  applied     \* how often its handler's transaction has been committed

vars == <<phase, applied>>

Init ==
  /\ phase = [t \in Tasks |-> "absent"]
  /\ applied = [t \in Tasks |-> 0]

Accept(t) ==
  /\ phase[t] = "absent"
  /\ phase' = [phase EXCEPT ![t] = "open"]
  /\ UNCHANGED applied

Apply(t) ==
  /\ phase[t] = "open"
  /\ applied' = [applied EXCEPT ![t] = @ + 1]
  /\ UNCHANGED phase

Succeed(t) ==
  /\ phase[t] = "open"
  /\ applied[t] > 0
  /\ phase' = [phase EXCEPT ![t] = "succeeded"]
  /\ UNCHANGED applied

GiveUp(t) ==
  /\ phase[t] = "open"
  /\ phase' = [phase EXCEPT ![t] = "failed"]
  /\ UNCHANGED applied

\* A pause of the campaign withdraws a set of its open tasks at once.
Withdraw(S) ==
  /\ S # {}
  /\ \A t \in S : phase[t] = "open"
  /\ phase' = [t \in Tasks |-> IF t \in S THEN "cancelled" ELSE phase[t]]
  /\ UNCHANGED applied

Next ==
  \/ \E t \in Tasks : Accept(t) \/ Apply(t) \/ Succeed(t) \/ GiveUp(t)
  \/ \E S \in SUBSET Tasks : Withdraw(S)

Spec == Init /\ [][Next]_vars
=============================================================================
