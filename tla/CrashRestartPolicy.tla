-------------------------- MODULE CrashRestartPolicy ---------------------------
(***************************************************************************)
(* What happens after a core died on its own                               *)
(* (src/appcore/ProxyCrashRestartPolicy): restart it after a delay, give   *)
(* up after too many short runs in a row, or give up on a TUN adapter that *)
(* stays in conflict.  The policy's state is a record of its counters.     *)
(***************************************************************************)
EXTENDS Naturals

CONSTANTS MaxCrashRestarts,     \* kMaxCrashRestarts (5)
          MaxTunRetries         \* kMaxTunAdapterConflictRestarts (1)

ASSUME MaxCrashRestartsAssumption == MaxCrashRestarts \in Nat \ {0}
ASSUME MaxTunRetriesAssumption == MaxTunRetries \in Nat

Cores == {"core", "aux"}

\* How a core ended: which one, whether it ran TUN, whether it reported an adapter
\* conflict, and whether it had run longer than the stable-run threshold.
Exit == [core : Cores, tun : BOOLEAN, conflict : BOOLEAN, stable : BOOLEAN]

\* Consecutive short runs of each core, and conflict retries spent.  A count past
\* the budget decides the same whatever its size, so it stops there.
Policy == [core : 0..(MaxCrashRestarts + 1), aux : 0..(MaxCrashRestarts + 1),
           tun : 0..MaxTunRetries]

FreshPolicy == [core |-> 0, aux |-> 0, tun |-> 0]

ResetTunConflictRetries(p) == [p EXCEPT !.tun = 0]

\* (slip) one retry too many
RetriesOnceMore(p, e) == e.core = "core" /\ e.tun /\ e.conflict /\ p.tun <= MaxTunRetries

RetriesConflict(p, e) == e.core = "core" /\ e.tun /\ e.conflict /\ p.tun < MaxTunRetries

PersistentConflict(p, e) == e.core = "core" /\ e.conflict /\ ~RetriesConflict(p, e)

\* (slip) the comparison with the stable-run threshold the other way round
CrashCountInverted(p, e) == IF ~e.stable THEN 1
                            ELSE IF p[e.core] <= MaxCrashRestarts THEN p[e.core] + 1
                            ELSE p[e.core]

\* The count of consecutive short runs, this one included.
CrashCount(p, e) == IF e.stable THEN 1
                    ELSE IF p[e.core] <= MaxCrashRestarts THEN p[e.core] + 1
                    ELSE p[e.core]

Action(p, e) ==
    IF RetriesConflict(p, e) THEN "ScheduleRestart"
    ELSE IF PersistentConflict(p, e) THEN "DisableAfterTunConflict"
    ELSE IF CrashCount(p, e) > MaxCrashRestarts THEN "DisableRestart"
    ELSE "ScheduleRestart"

After(p, e) ==
    IF RetriesConflict(p, e) THEN [p EXCEPT !.tun = @ + 1]
    ELSE IF PersistentConflict(p, e) THEN p
    ELSE [p EXCEPT ![e.core] = CrashCount(p, e)]

DelayMs(p, e) ==
    IF RetriesConflict(p, e) THEN 1000
    ELSE LET linear == 3000 * CrashCount(p, e) IN IF linear < 30000 THEN linear ELSE 30000
===============================================================================
