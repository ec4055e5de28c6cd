------------------------------ MODULE HealthWatch ------------------------------
(***************************************************************************)
(* The watch over a session that is up.  Two single-shot timers each send  *)
(* a probe to a worker thread: one asks whether the node answers, and two  *)
(* failures in a row put a warning into the status bar; the other runs     *)
(* only while the session has come up with the warning that this machine   *)
(* has no network, and takes that warning back.  A probe's answer does not *)
(* say which activation it was sent for, and both share one status text.   *)
(***************************************************************************)
EXTENDS Naturals

CONSTANTS FailuresBeforeWarn,   \* failed probes in a row that raise the warning
          MaxOut                \* bound: workers of one kind that are out at once

\* The threshold and the bound, as the theorems assume them.
Numbers == FailuresBeforeWarn \in Nat \ {0} /\ MaxOut \in Nat

VARIABLES up,               \* the session is Proxying and the watch is active
          closing,          \* the application shuts down
          node,             \* the node answers (the world)
          network,          \* this machine reaches the probe hosts (the world)
          watchTimer, watchInProgress,
          recheckTimer, recheckInProgress,
          waived,           \* waivedOutboundWarningShown_
          failures, warned, \* the policy: consecutiveFailures_, warningShown_
          text,             \* the warning in the status bar
          probes, rechecks  \* how many workers are out, by the answer they carry

policy == <<failures, warned>>
watch == <<watchTimer, watchInProgress>>
recheck == <<recheckTimer, recheckInProgress, waived>>
healthVars == <<up, closing, node, network, watch, recheck, policy, text, probes, rechecks>>

Texts == {"none", "node", "waived", "location"}

HealthTypeOK == /\ up \in BOOLEAN /\ closing \in BOOLEAN
                /\ node \in BOOLEAN /\ network \in BOOLEAN
                /\ watchTimer \in BOOLEAN /\ watchInProgress \in BOOLEAN
                /\ recheckTimer \in BOOLEAN /\ recheckInProgress \in BOOLEAN
                /\ waived \in BOOLEAN /\ warned \in BOOLEAN
                /\ failures \in 0..FailuresBeforeWarn
                /\ text \in Texts
                /\ probes \in [BOOLEAN -> 0..MaxOut] /\ rechecks \in [BOOLEAN -> 0..MaxOut]

HealthInit == /\ up = FALSE /\ closing = FALSE
              /\ node \in BOOLEAN /\ network \in BOOLEAN
              /\ watchTimer = FALSE /\ watchInProgress = FALSE
              /\ recheckTimer = FALSE /\ recheckInProgress = FALSE /\ waived = FALSE
              /\ failures = 0 /\ warned = FALSE
              /\ text = "none"
              /\ probes = [a \in BOOLEAN |-> 0] /\ rechecks = [a \in BOOLEAN |-> 0]

(***************************************************************************)
(* The policy.                                                             *)
(***************************************************************************)
reset == failures' = 0 /\ warned' = FALSE

Warns == ~warned /\ failures + 1 >= FailuresBeforeWarn

\* The count beyond the threshold is only displayed.
recordResult(reachable) ==
    /\ failures' = IF reachable THEN 0
                   ELSE IF failures < FailuresBeforeWarn THEN failures + 1 ELSE failures
    /\ warned' = (~reachable /\ (warned \/ Warns))
    /\ text' = IF reachable /\ warned THEN "none"
               ELSE IF ~reachable /\ Warns THEN "node" ELSE text

(***************************************************************************)
(* What the session calls when its phase changes.                          *)
(***************************************************************************)
notifyFreshActivation ==
    /\ waived' = FALSE
    /\ recheckInProgress' = FALSE
    /\ recheckTimer' = FALSE

\* arm, after which scheduleWatch starts the timer.
arm == /\ up' = TRUE
       /\ reset
       /\ watchTimer' = TRUE

\* setPhase(Proxying): the session is up, its outbound check passed.
Enter == /\ ~up /\ ~closing
         /\ text' = "none"
         /\ notifyFreshActivation
         /\ arm
         /\ UNCHANGED <<closing, node, network, watchInProgress, probes, rechecks>>

\* The same when neither the node nor this machine's own network answered:
\* setPhase, then the warning, then notifyWaivedOutboundWarningShown.
EnterWaived == /\ ~up /\ ~closing
               /\ arm
               /\ text' = "waived"
               /\ waived' = TRUE /\ recheckInProgress' = FALSE /\ recheckTimer' = TRUE
               /\ UNCHANGED <<closing, node, network, watchInProgress, probes, rechecks>>

cancel == /\ up' = FALSE
          /\ watchTimer' = FALSE /\ recheckTimer' = FALSE
          /\ watchInProgress' = FALSE
          /\ reset
          /\ UNCHANGED <<recheckInProgress, waived>>

\* setPhase to anything but Proxying.
Leave == /\ up
         /\ cancel
         /\ UNCHANGED <<closing, node, network, text, probes, rechecks>>

\* clearProxyStateAfterStopped: once the session is over.
Cleared == /\ ~up
           /\ text # "none" \/ waived
           /\ text' = "none"
           /\ notifyFreshActivation
           /\ UNCHANGED <<up, closing, node, network, watch, policy, probes, rechecks>>

\* The exit location could not be found; a stronger warning is kept.
LocationUnavailable == /\ up /\ ~closing /\ text = "none"
                       /\ text' = "location"
                       /\ UNCHANGED <<up, closing, node, network, watch, recheck, policy, probes, rechecks>>

\* setDefaultServer with the server that is the default already: nothing restarts,
\* and the warning is cleared.
SameServerChosen == /\ up /\ text # "none"
                    /\ text' = "none"
                    /\ UNCHANGED <<up, closing, node, network, watch, recheck, policy, probes, rechecks>>

(***************************************************************************)
(* The node's probe.                                                       *)
(***************************************************************************)
runWatch == /\ watchTimer
            /\ watchTimer' = FALSE
            /\ IF closing \/ ~up \/ watchInProgress
               THEN UNCHANGED <<watchInProgress, probes>>
               ELSE /\ probes[node] < MaxOut
                    /\ watchInProgress' = TRUE
                    /\ probes' = [probes EXCEPT ![node] = @ + 1]
            /\ UNCHANGED <<up, closing, node, network, recheck, policy, text, rechecks>>

\* (slip) The next probe is scheduled only after a good answer.
finishWatchOnSuccess(reachable) ==
    /\ probes[reachable] > 0
    /\ probes' = [probes EXCEPT ![reachable] = @ - 1]
    /\ watchInProgress' = FALSE
    /\ IF closing \/ ~up
       THEN UNCHANGED <<watchTimer, policy, text>>
       ELSE /\ recordResult(reachable)
            /\ watchTimer' = (watchTimer \/ reachable)
    /\ UNCHANGED <<up, closing, node, network, recheck, rechecks>>

finishWatch(reachable) ==
    /\ probes[reachable] > 0
    /\ probes' = [probes EXCEPT ![reachable] = @ - 1]
    /\ watchInProgress' = FALSE
    /\ IF closing \/ ~up
       THEN UNCHANGED <<watchTimer, policy, text>>
       ELSE recordResult(reachable) /\ watchTimer' = TRUE
    /\ UNCHANGED <<up, closing, node, network, recheck, rechecks>>

(***************************************************************************)
(* The probe of this machine's own network.                                *)
(***************************************************************************)
runDirectRecheck == /\ recheckTimer
                    /\ recheckTimer' = FALSE
                    /\ IF ~waived \/ closing \/ ~up \/ recheckInProgress
                       THEN UNCHANGED <<recheckInProgress, rechecks>>
                       ELSE /\ rechecks[network] < MaxOut
                            /\ recheckInProgress' = TRUE
                            /\ rechecks' = [rechecks EXCEPT ![network] = @ + 1]
                    /\ UNCHANGED <<up, closing, node, network, watch, policy, waived, text, probes>>

\* (slip) A recheck that fails is the last one.
finishDirectRecheckOnce(directReachable) ==
    /\ rechecks[directReachable] > 0
    /\ rechecks' = [rechecks EXCEPT ![directReachable] = @ - 1]
    /\ recheckInProgress' = FALSE
    /\ IF directReachable /\ up /\ ~closing /\ waived
       THEN waived' = FALSE /\ text' = "none"
       ELSE UNCHANGED <<waived, text>>
    /\ UNCHANGED <<up, closing, node, network, watch, recheckTimer, policy, probes>>

finishDirectRecheck(directReachable) ==
    /\ rechecks[directReachable] > 0
    /\ rechecks' = [rechecks EXCEPT ![directReachable] = @ - 1]
    /\ recheckInProgress' = FALSE
    /\ IF closing \/ ~up \/ ~waived
       THEN UNCHANGED <<recheckTimer, waived, text>>
       ELSE IF directReachable
            THEN waived' = FALSE /\ text' = "none" /\ UNCHANGED recheckTimer
            ELSE recheckTimer' = TRUE /\ UNCHANGED <<waived, text>>
    /\ UNCHANGED <<up, closing, node, network, watch, policy, probes>>

(***************************************************************************)
(* The world, and the end of the application.                              *)
(***************************************************************************)
World == /\ \/ node' = ~node /\ UNCHANGED network
            \/ network' = ~network /\ UNCHANGED node
         /\ UNCHANGED <<up, closing, watch, recheck, policy, text, probes, rechecks>>

Shutdown == /\ ~closing
            /\ closing' = TRUE
            /\ UNCHANGED <<up, node, network, watch, recheck, policy, text, probes, rechecks>>

Answers == \E a \in BOOLEAN : finishWatch(a) \/ finishDirectRecheck(a)

HealthNext == \/ Enter \/ EnterWaived \/ Leave \/ Cleared \/ LocationUnavailable \/ SameServerChosen
              \/ runWatch \/ runDirectRecheck \/ Answers
              \/ World \/ Shutdown

HealthSpec == HealthInit /\ [][HealthNext]_healthVars

(***************************************************************************)
(* Properties.                                                             *)
(***************************************************************************)
\* While the session is up the watch goes on: either its timer runs or a probe
\* is out that will start it again, never both and never neither, although an
\* answer for an earlier activation clears the flag of a later one's probe
\* (cancel, finishWatch).
WatchGoesOn == /\ up /\ ~closing => watchTimer # watchInProgress
               /\ watchInProgress => \E a \in BOOLEAN : probes[a] > 0

\* The warning that this machine has no network can always be taken back: while it
\* is shown a recheck is scheduled or out, whatever the watch and rechecks of
\* earlier activations did in between (notifyFreshActivation, finishDirectRecheck).
WaiverCanEnd == up /\ ~closing /\ text = "waived" =>
    waived /\ (recheckTimer \/ (recheckInProgress /\ \E a \in BOOLEAN : rechecks[a] > 0))
=================================================================================
