--------------------------- MODULE SourceSchedule ---------------------------
(***************************************************************************)
(* When a board is read: the pure part of the crawl                        *)
(* (apps/worker/src/domain/discovery/schedule.ts).                         *)
(*                                                                         *)
(* Times are ages: sinceChecked and sinceSynced are the hours since a      *)
(* source's lastCheckedAt and lastSyncedAt.  A date that is still null is  *)
(* infinitely old in the code; here it is any age that no interval         *)
(* exceeds.                                                                *)
(***************************************************************************)
EXTENDS Integers

CONSTANTS FullInterval,       \* policy.fullIntervalHours
          ReconcileInterval,  \* policy.reconcileIntervalHours
          MaxFailures         \* policy.maxFailuresBeforeBackoff

ASSUME PolicyAssumption ==
    /\ FullInterval \in Nat
    /\ ReconcileInterval \in Nat
    /\ MaxFailures \in Nat

Modes == {"fast", "full"}

AtMost(x, y) == IF x <= y THEN x ELSE y

\* Nothing below the threshold; from there on 1, 2, 4, 8, 16 hours.
BackoffHours(failureCount) ==
    IF failureCount < MaxFailures
    THEN 0
    ELSE AtMost(24, 2 ^ AtMost(failureCount - MaxFailures, 4))

DueForFull(source) == source.sinceChecked >= FullInterval

BackingOff(source) ==
    /\ BackoffHours(source.failureCount) # 0
    /\ source.sinceChecked < BackoffHours(source.failureCount)

\* Mutant: a source whose hash matches is never read from scratch again.
TrustHashForever(source, requiresBrowser, mode) ==
    IF BackingOff(source) \/ (mode = "fast" /\ requiresBrowser /\ ~DueForFull(source))
    THEN [skip |-> TRUE, fastOnly |-> TRUE, reconcile |-> FALSE]
    ELSE [skip      |-> FALSE,
          fastOnly  |-> mode = "fast" /\ ~requiresBrowser /\ ~DueForFull(source),
          reconcile |-> FALSE]

\* What a cycle in the given mode does with a source.
PlanSource(source, requiresBrowser, mode) ==
    IF BackingOff(source) \/ (mode = "fast" /\ requiresBrowser /\ ~DueForFull(source))
    THEN [skip |-> TRUE, fastOnly |-> TRUE, reconcile |-> FALSE]
    ELSE [skip      |-> FALSE,
          fastOnly  |-> mode = "fast" /\ ~requiresBrowser /\ ~DueForFull(source),
          reconcile |-> source.sinceSynced >= ReconcileInterval]
=============================================================================
