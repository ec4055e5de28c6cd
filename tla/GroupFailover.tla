----------------------------- MODULE GroupFailover -----------------------------
(***************************************************************************)
(* What follows the failure of a session: the automatic switch to another  *)
(* server of the group, with the speed-test batches it borrows and the     *)
(* user's own ones.  All of them share one worker, one background slot and *)
(* the session, whose activations cancel whatever batch runs.  A core that *)
(* is still stopping makes the switch wait for its exit and a timer.       *)
(***************************************************************************)
EXTENDS Naturals, Sequences, FiniteSets

CONSTANTS Group,      \* the location group, a sequence of servers in list order
          Outside,    \* servers of no group
          Rankable,   \* the members a probe can measure (not Custom)
          UserBatches, \* bound: what the user selects to be tested
          MaxLatency, \* bound: measured latencies are 1..MaxLatency
          NoServer    \* no server

VARIABLES session,    \* off, activating, proxying or stopping (the core still runs)
          mode,       \* the saved mode asks for the system proxy
          forced,     \* the request the session works on asked for it
          current,    \* the default server
          postSwitch, \* the server the session switches to when its core is gone
          resume,     \* ... and the 0-ms timer that does so afterwards
          enabled,    \* autoSwitchInGroup
          switches,   \* consecutiveSwitches_
          pending,    \* failoverProbePending_
          decide,     \* a queued call of finishFailoverProbe
          warm,       \* the latest answer of each member
          slot,       \* the background slot: free, speedtest or other
          batch,      \* the batch of the speed-test worker
          unsaved,    \* test results in memory that are not on disk
          dirty,      \* speedTestResultsDirty_
          saveFailed  \* the last attempt to save them failed (history)

proxying == <<session, mode, forced, current, postSwitch, resume>>
failover == <<enabled, switches, pending, decide>>
results == <<unsaved, dirty, saveFailed>>
failoverVars == <<proxying, failover, warm, slot, batch, results>>

Members == {Group[i] : i \in DOMAIN Group}
Servers == Members \cup Outside

\* What the theorems assume of the constants: a group is a sequence that is not empty,
\* and what is tested are servers.
FailoverInstance == /\ Len(Group) \in Nat \ {0} /\ DOMAIN Group = 1..Len(Group)
                    /\ Rankable \subseteq Members /\ UserBatches \subseteq SUBSET Servers
                    /\ MaxLatency \in Nat

Latencies == 1..MaxLatency
NoAnswer == 0              \* never probed, or too long ago
Down == MaxLatency + 1     \* probed and unreachable
NoBatch == [kind |-> "none", todo |-> {}, owns |-> FALSE, cancelled |-> FALSE]

\* owns: the token the batch began with is current; for a user's batch it is
\* speedTestTaskToken_ as well.
Batches == [kind : {"none", "user", "warm", "failover"}, todo : SUBSET Servers,
            owns : BOOLEAN, cancelled : BOOLEAN]

FailoverTypeOK == /\ session \in {"off", "activating", "proxying", "stopping"}
                  /\ {mode, forced, enabled, pending, decide} \subseteq BOOLEAN
                  /\ {unsaved, dirty, saveFailed} \subseteq BOOLEAN
                  /\ current \in Servers
                  /\ {postSwitch, resume} \subseteq Servers \cup {NoServer}
                  /\ switches \in 0..Len(Group)
                  /\ warm \in [Members -> {NoAnswer, Down} \cup Latencies]
                  /\ slot \in {"free", "speedtest", "other"}
                  /\ batch \in Batches

FailoverInit == /\ session = "off" /\ mode = FALSE /\ forced = FALSE
                /\ current \in Servers
                /\ postSwitch = NoServer /\ resume = NoServer
                /\ enabled = TRUE /\ switches = 0 /\ pending = FALSE /\ decide = FALSE
                /\ warm = [s \in Members |-> NoAnswer]
                /\ slot = "free" /\ batch = NoBatch
                /\ unsaved = FALSE /\ dirty = FALSE /\ saveFailed = FALSE

(***************************************************************************)
(* Batches.                                                                *)
(***************************************************************************)
\* saveConfig; ok says whether it worked.
Save(ok) == unsaved' = ~ok /\ saveFailed' = ~ok

\* tryBegin and SpeedTestController::start.
CanBegin == slot = "free" /\ batch.kind = "none"

StartBatch(kind, servers) ==
    /\ slot' = "speedtest"
    /\ batch' = [kind |-> kind, todo |-> servers, owns |-> TRUE, cancelled |-> FALSE]

\* startSpeedTest, on the selected servers.
startSpeedTest == \E servers \in UserBatches :
    /\ session # "activating" /\ CanBegin
    /\ StartBatch("user", servers)
    /\ dirty' = FALSE
    /\ UNCHANGED <<proxying, failover, warm, unsaved, saveFailed>>

\* handleTestResultReady takes results of the user's own batch only,
\* handleProbeResultReady those of every batch.
testResultReady == \E s \in batch.todo, a \in {Down} \cup Latencies :
    /\ batch' = [batch EXCEPT !.todo = @ \ {s}]
    /\ warm' = [warm EXCEPT ![s] = a]
    /\ IF batch.kind = "user" /\ batch.owns
       THEN unsaved' = TRUE /\ dirty' = TRUE /\ UNCHANGED saveFailed
       ELSE UNCHANGED results
    /\ UNCHANGED <<proxying, failover, slot>>

\* The timer that saves partial results; a failed save is tried again.
partialResultsSave == \E ok \in BOOLEAN :
    /\ batch.kind = "user" /\ batch.owns /\ dirty
    /\ Save(ok)
    /\ dirty' = ~ok
    /\ UNCHANGED <<proxying, failover, warm, slot, batch>>

\* batchFinished: finished gives a probe's token back and queues
\* finishFailoverProbe, runningChanged(false) saves and gives back the user's.
batchFinished == \E ok \in BOOLEAN :
    /\ batch.kind # "none"
    /\ batch.todo = {} \/ batch.cancelled
    /\ IF batch.kind = "user" /\ batch.owns /\ dirty
       THEN Save(ok)
       ELSE UNCHANGED <<unsaved, saveFailed>>
    /\ dirty' = FALSE
    /\ slot' = IF batch.owns THEN "free" ELSE slot
    /\ decide' = (decide \/ batch.kind = "failover")
    /\ batch' = NoBatch
    /\ UNCHANGED <<proxying, enabled, switches, pending, warm>>

\* (slip) The slot is emptied first, and the flush finds its token revoked.
CancelBackgroundRevokesFirst ==
    /\ slot' = "free"
    /\ IF slot = "speedtest"
       THEN /\ batch' = [batch EXCEPT !.cancelled = TRUE, !.owns = FALSE]
            /\ dirty' = FALSE
            /\ UNCHANGED <<unsaved, saveFailed>>
       ELSE UNCHANGED <<batch, results>>

\* (slip) A probe of the coordinator's own is not cancelled.
CancelUsersBatch ==
    /\ slot' = "free"
    /\ IF slot = "speedtest" /\ batch.kind = "user"
       THEN /\ batch' = [batch EXCEPT !.cancelled = TRUE, !.owns = FALSE]
            /\ dirty' = FALSE
            /\ \E ok \in BOOLEAN : IF dirty THEN Save(ok) ELSE UNCHANGED <<unsaved, saveFailed>>
       ELSE UNCHANGED <<batch, results>>

\* cancelBackgroundTasksForProxyStartup: cancelActiveSpeedTest flushes what was
\* measured while its token is still current, then the slot is emptied.
CancelBackground ==
    /\ slot' = "free"
    /\ IF slot = "speedtest"
       THEN /\ batch' = [batch EXCEPT !.cancelled = TRUE, !.owns = FALSE]
            /\ dirty' = FALSE
            /\ \E ok \in BOOLEAN : IF dirty THEN Save(ok) ELSE UNCHANGED <<unsaved, saveFailed>>
       ELSE UNCHANGED <<batch, results>>

(***************************************************************************)
(* The choice of a server.                                                 *)
(***************************************************************************)
InGroup == current \in Members
FailedIndex == CHOOSE i \in DOMAIN Group : Group[i] = current

Reachable == {i \in DOMAIN Group : Group[i] # current /\ warm[Group[i]] \in Latencies}

\* The least latency, then the earliest position; NoServer if nothing is fresh.
pickWarmSwitchTarget ==
    IF Reachable = {} THEN NoServer
    ELSE Group[CHOOSE i \in Reachable : \A j \in Reachable :
                 \/ warm[Group[i]] < warm[Group[j]]
                 \/ warm[Group[i]] = warm[Group[j]] /\ i <= j]

roundRobinFallback == Group[(FailedIndex % Len(Group)) + 1]

\* (slip) One switch too many: the failed server is counted as another member.
reachedSwitchCeilingLate == Len(Group) >= 2 /\ switches >= Len(Group)

reachedSwitchCeiling == Len(Group) >= 2 /\ switches >= Len(Group) - 1

(***************************************************************************)
(* The session, as the coordinator sees it.                                *)
(***************************************************************************)
\* beginActivation with the request made from the configuration.
Activate(asked) ==
    /\ session' = "activating"
    /\ mode' = asked /\ forced' = asked
    /\ CancelBackground

\* executeSwitch while the session is `down`: setDefaultServer, then start.  With
\* the core still running the first waits for its exit (switchServer) and the
\* second is refused; otherwise the first enables the system proxy and starts.
executeSwitch(target, down) ==
    /\ switches' = switches + 1
    /\ IF down = "stopping"
       THEN /\ postSwitch' = target
            /\ session' = down /\ mode' = FALSE
            /\ UNCHANGED <<forced, current, slot, batch, results>>
       ELSE /\ current' = target
            /\ Activate(TRUE)
            /\ UNCHANGED postSwitch

LeaveDown(down) == /\ session' = down /\ mode' = FALSE
                   /\ UNCHANGED <<forced, current, postSwitch>>

\* failed: the mode is saved as cleared, then handleSessionFailure decides.
HandleFailure(down) ==
    /\ IF ~enabled \/ ~InGroup \/ Len(Group) < 2 \/ reachedSwitchCeiling
       THEN LeaveDown(down) /\ UNCHANGED <<switches, pending, slot, batch, results>>
       ELSE IF pickWarmSwitchTarget # NoServer
       THEN executeSwitch(pickWarmSwitchTarget, down) /\ UNCHANGED pending
       ELSE IF pending
       THEN LeaveDown(down) /\ UNCHANGED <<switches, pending, slot, batch, results>>
       ELSE IF CanBegin /\ Rankable # {}
       THEN /\ LeaveDown(down)
            /\ StartBatch("failover", Rankable) /\ pending' = TRUE
            /\ UNCHANGED <<switches, results>>
       ELSE executeSwitch(roundRobinFallback, down) /\ UNCHANGED pending
    /\ UNCHANGED <<resume, enabled, decide, warm>>

\* The user picks a server, or starts the current one.
UserStart == \E s \in Servers :
    /\ session = "off"
    /\ current' = s
    /\ Activate(TRUE)
    /\ UNCHANGED <<postSwitch, resume, failover, warm>>

\* setMode(ForcedClear): also what was to happen after the core's exit is dropped.
UserStop == /\ mode \/ session # "off"
            /\ mode' = FALSE
            /\ session' \in IF session = "activating" THEN {"stopping", "off"}
                            ELSE IF session = "off" THEN {"off"} ELSE {"stopping"}
            /\ postSwitch' = NoServer
            /\ UNCHANGED <<forced, current, resume, failover, warm, slot, batch, results>>

\* runWarmRound, from its timer or after an activation.
WarmRound == ~pending /\ enabled /\ InGroup /\ Len(Group) >= 2 /\ Rankable # {} /\ CanBegin

\* finishActivation, then noteSessionActivated.
Activated == /\ session = "activating" /\ forced
             /\ session' = "proxying"
             /\ switches' = 0
             /\ IF WarmRound THEN StartBatch("warm", Rankable) ELSE UNCHANGED <<slot, batch>>
             /\ UNCHANGED <<mode, forced, current, postSwitch, resume,
                            enabled, pending, decide, warm, results>>

\* A start fails before its core runs, or with the core running: the outbound
\* check failed, or it passed and the request does not ask for the proxy.
StartFails == \E down \in {"off", "stopping"} :
    session = "activating" /\ HandleFailure(down)

\* The core died once too often.
CrashGivesUp == session = "proxying" /\ HandleFailure("off")

\* The core died, and the session starts it again with its own request.
CrashRestarts == /\ session = "proxying"
                 /\ session' = "activating"
                 /\ CancelBackground
                 /\ UNCHANGED <<mode, forced, current, postSwitch, resume, failover, warm>>

CoreGone == /\ session = "stopping"
            /\ session' = "off"
            /\ resume' = IF postSwitch = NoServer THEN resume ELSE postSwitch
            /\ postSwitch' = NoServer
            /\ UNCHANGED <<mode, forced, current, failover, warm, slot, batch, results>>

\* switchAfterCoreStopped: starts with the mode as it is saved by now; a core that
\* runs or stops refuses the start.
SwitchAfterCoreStopped ==
    /\ resume # NoServer
    /\ resume' = NoServer
    /\ current' = resume
    /\ IF resume = current \/ session \in {"proxying", "stopping"}
       THEN UNCHANGED <<session, mode, forced, slot, batch, results>>
       ELSE IF session = "activating"
       THEN forced' = mode /\ UNCHANGED <<session, mode, slot, batch, results>>
       ELSE Activate(mode)
    /\ UNCHANGED <<postSwitch, failover, warm>>

(***************************************************************************)
(* The coordinator's own steps.                                            *)
(***************************************************************************)
NothingToDecide == \/ session \in {"proxying", "activating"}
                   \/ ~enabled \/ ~InGroup \/ Len(Group) < 2 \/ reachedSwitchCeiling

\* (slip) The flag is reset only when there is something to decide.
finishFailoverProbeLate ==
    /\ decide
    /\ decide' = FALSE
    /\ pending' = NothingToDecide
    /\ IF NothingToDecide
       THEN UNCHANGED <<session, mode, forced, current, postSwitch, switches, slot, batch, results>>
       ELSE IF pickWarmSwitchTarget # NoServer
       THEN executeSwitch(pickWarmSwitchTarget, session)
       ELSE executeSwitch(roundRobinFallback, session)
    /\ UNCHANGED <<resume, enabled, warm>>

finishFailoverProbe ==
    /\ decide
    /\ decide' = FALSE
    /\ pending' = FALSE
    /\ IF NothingToDecide
       THEN UNCHANGED <<session, mode, forced, current, postSwitch, switches, slot, batch, results>>
       ELSE IF pickWarmSwitchTarget # NoServer
       THEN executeSwitch(pickWarmSwitchTarget, session)
       ELSE executeSwitch(roundRobinFallback, session)
    /\ UNCHANGED <<resume, enabled, warm>>

runWarmRound == /\ session = "proxying" /\ WarmRound
                /\ StartBatch("warm", Rankable)
                /\ UNCHANGED <<proxying, failover, warm, results>>

\* pruneWarmResults: an answer is too old.
Expire == \E s \in Members : /\ warm[s] # NoAnswer
                             /\ warm' = [warm EXCEPT ![s] = NoAnswer]
                             /\ UNCHANGED <<proxying, failover, slot, batch, results>>

SetEnabled == /\ enabled' = ~enabled
              /\ UNCHANGED <<proxying, switches, pending, decide, warm, slot, batch, results>>

\* Some other task takes the slot, and gives it back unless it was revoked.
OtherTask == /\ \/ slot = "free" /\ session # "activating" /\ slot' = "other"
                \/ slot = "other" /\ slot' = "free"
             /\ UNCHANGED <<proxying, failover, warm, batch, results>>

User == UserStart \/ UserStop \/ startSpeedTest \/ SetEnabled

FailoverNext == \/ User \/ Activated \/ StartFails \/ CrashGivesUp \/ CrashRestarts
                \/ CoreGone \/ SwitchAfterCoreStopped
                \/ testResultReady \/ partialResultsSave \/ batchFinished
                \/ finishFailoverProbe \/ runWarmRound \/ Expire \/ OtherTask

FailoverSpec == FailoverInit /\ [][FailoverNext]_failoverVars

(***************************************************************************)
(* Properties.                                                             *)
(***************************************************************************)
\* No batch that was not told to end runs beside an activation, whose ports it
\* would take: not a user's, not a warm round begun by the activation before, and
\* not the probe of a failover whose switch comes from a timer instead.
NoBatchBesideActivation ==
    session = "activating" /\ batch.kind # "none" => batch.cancelled

\* Measured results reach the disk however the batch ends, at its end, by an
\* activation or by the timer, unless saving fails (cancelActiveSpeedTest,
\* handleRunningChanged).
ResultsReachDisk == unsaved /\ ~saveFailed => dirty /\ batch.kind = "user" /\ batch.owns

\* A failure leads to no more switches than the group has other members, however
\* they are decided: from the failed handler, a probe or a timer, with failures of the
\* user's own starts in between (reachedSwitchCeiling).
SwitchesAreBounded == switches <= Len(Group) - 1

\* The coordinator never waits for a probe that is gone: while it remembers one, the
\* batch is out or its end is queued, whoever cancelled it (finishFailoverProbe).
ProbeIsAnswered == pending => batch.kind = "failover" \/ decide
=================================================================================
