----------------------------- MODULE ProxySession ------------------------------
(***************************************************************************)
(* The proxy session (src/appcore/ProxySession, with the startup resource  *)
(* broker it owns and the process host it drives), on Windows.  Every      *)
(* handler runs to its end on the GUI thread and is one action; what        *)
(* interleaves is everything the session waits for: the answers of its     *)
(* worker threads, its timers, the exits of its two cores, and the calls   *)
(* of its host.  An answer may arrive after the session has moved on.      *)
(***************************************************************************)
EXTENDS CrashRestartPolicy

CONSTANTS Servers,       \* index ids the default server can have
          Requests,      \* the start requests the host makes
          AutoSwitch,    \* failover to another server is on: it starts without asking first
          Downloads,     \* what may be missing on disk: "core", "geo" (or rule sets)
          MaxDownloads,  \* bound: downloads of one kind out at the same time
          Faults,        \* what may fail in the proxy settings: "read", "apply", "undo"
          UserProxy      \* the user's own proxy settings: "user" (on) or "off"

ASSUME RequestsAssumption == Requests \subseteq [tun : BOOLEAN, aux : BOOLEAN, forced : BOOLEAN]
ASSUME AutoSwitchAssumption == AutoSwitch \in BOOLEAN
ASSUME DownloadsAssumption == Downloads \subseteq {"core", "geo"}
ASSUME MaxDownloadsAssumption == MaxDownloads \in Nat
ASSUME UserProxyAssumption == UserProxy \in {"user", "off"}

VARIABLES phase,       \* phase_
          request,     \* currentRequest_
          main, aux,   \* mainCore and auxiliaryCore: "none", "running", "killed" (not yet gone)
          tunAtStart,  \* coreTunEnabledAtStart_
          tunClean,    \* tunCleanupState_
          post,        \* postStopAction_
          crash,       \* crashRestartPolicy_
          managed,     \* managedSystemProxyActive_
          reachable,   \* outboundReachable_
          reg,         \* the Windows proxy settings: "user", "off" or "ours"
          snap,        \* the captured snapshot, "none" when there is none
          warned,      \* systemProxyUndoFailed was emitted since the proxy was applied
          server,      \* the default server: profileResolver.currentIndexId()
          have,        \* the downloads that are on disk, of those each server needs
          pending,     \* worker answers and timers that have yet to reach the GUI thread
          lastWord     \* history: what the host last said or was told: start, stop, fail

proxyVars == <<managed, reg, snap, warned>>
coreVars == <<main, aux, tunAtStart>>
vars == <<phase, request, main, aux, tunAtStart, tunClean, post, crash, managed,
          reachable, reg, snap, warned, server, have, pending, lastWord>>

\* ValidateCoreConfig, StartTunRuntime and ApplySystemProxy begin and end inside one handler.
Phases == {"Stopped", "EnvironmentCleanup", "ValidateCoreApplication",
           "ValidateRuntimeResources", "StartCoreProcess", "CheckOutboundConnection",
           "Proxying", "Stopping"}
PostStop == {"none", "restart", "switch", "coreUpdate"}

\* A probe knows the server it was sent for, and whether its core is still the latest one.
Probe == [kind : {"listen", "gate"}, server : Servers, fresh : BOOLEAN]
\* Only the download of a core holds a token, so only that one can be revoked.
Download == [kind : Downloads, server : Servers, live : BOOLEAN, n : 1..MaxDownloads]
Cleanup == [kind : {"tunStart", "tunStop", "tunCrash"}, post : PostStop]
\* The last one is the host's: scheduleSwitchAfterCoreStopped.
Timer == [kind : {"crashTimer", "auxTimer", "resumeTimer", "switchTimer"}]

Activating == phase \notin {"Stopped", "Proxying", "Stopping"}
Running == main # "none"

Init == /\ phase = "Stopped" /\ request \in Requests
        /\ main = "none" /\ aux = "none" /\ tunAtStart = FALSE
        /\ tunClean = "Idle" /\ post = "none" /\ crash = FreshPolicy
        /\ managed = FALSE /\ reachable = FALSE
        /\ reg = UserProxy /\ snap = "none" /\ warned = FALSE
        /\ server \in Servers /\ have \in [Servers -> SUBSET Downloads]
        /\ pending = {} /\ lastWord = "stop"

-------------------------------------------------------------------------------
(***************************************************************************)
(* What is waited for.                                                     *)
(***************************************************************************)
CancelRestarts(E) == {e \in E : e.kind \notin {"crashTimer", "auxTimer"}}

\* (slip) a resumption that was already decided on is not taken back
KeepResume(E) == CancelRestarts(E)

\* pendingResumeId_ moves on: an armed resumption will find itself superseded.
CancelTimers(E) == {e \in CancelRestarts(E) : e.kind # "resumeTimer"}

\* A new core has a new start time: no probe of an earlier one matches it.
Stale(E) == {IF e.kind \in {"listen", "gate"} THEN [e EXCEPT !.fresh = FALSE] ELSE e : e \in E}

\* cancelBackgroundTasksForStartup: the token of a core download is no longer current.
Revoked(E) == {IF e.kind = "core" THEN [e EXCEPT !.live = FALSE] ELSE e : e \in E}

Killed(core) == IF core = "running" THEN "killed" ELSE core

-------------------------------------------------------------------------------
(***************************************************************************)
(* The system proxy.  r and s are the settings and the snapshot as they    *)
(* are when the handler gets there; keep says whether an undo that fails   *)
(* leaves the session its claim, to be retried by a later stop.            *)
(***************************************************************************)
\* (slip) the settings are cleared although there is a snapshot to restore
UndoByClearing(r, s, keep) ==
    \/ /\ reg' = "off" /\ snap' = "none" /\ managed' = FALSE
       /\ UNCHANGED warned
    \/ /\ "undo" \in Faults
       /\ reg' \in {r, "off"} /\ snap' = s /\ managed' = keep /\ warned' = TRUE

\* (slip) an undo that failed has nevertheless used up the snapshot
UndoSpends(r, s, keep) ==
    LET target == IF s = "none" THEN "off" ELSE s IN
    /\ snap' = "none"
    /\ \/ reg' = target /\ managed' = FALSE /\ UNCHANGED warned
       \/ "undo" \in Faults /\ reg' \in {r, target} /\ managed' = keep /\ warned' = TRUE

\* (slip) an undo that failed is only logged
UndoSilently(r, s, keep) ==
    LET target == IF s = "none" THEN "off" ELSE s IN
    /\ UNCHANGED warned
    /\ \/ reg' = target /\ snap' = "none" /\ managed' = FALSE
       \/ "undo" \in Faults /\ reg' \in {r, target} /\ snap' = s /\ managed' = keep

\* undoSystemProxyChange: restore what was captured, or clear when nothing was.
Undo(r, s, keep) ==
    LET target == IF s = "none" THEN "off" ELSE s IN
    \/ /\ reg' = target /\ snap' = "none" /\ managed' = FALSE
       /\ UNCHANGED warned
    \/ /\ "undo" \in Faults
       /\ reg' \in {r, target} /\ snap' = s /\ managed' = keep /\ warned' = TRUE

\* (slip) a stop that will not be retried drops its claim before it undoes anything
ClaimDroppedFirst(keep) ==
    IF managed /\ keep /\ reg # "off"
    THEN Undo(reg, snap, keep)
    ELSE /\ managed' = (managed /\ keep)
         /\ UNCHANGED <<reg, snap, warned>>

\* A stop undoes what is ours, unless somebody else has already turned it off.
ClearApplied(keep) ==
    IF managed /\ reg # "off"
    THEN Undo(reg, snap, keep)
    ELSE /\ managed' = (managed /\ keep)
         /\ UNCHANGED <<reg, snap, warned>>

-------------------------------------------------------------------------------
\* (slip) the session waits for a core whether or not there is one
AlwaysStopping == "Stopping"

\* A session that ends waits for its core to be gone, if there is one.
EndPhase == IF Running THEN "Stopping" ELSE "Stopped"

(***************************************************************************)
(* failStartup, from wherever it is called; a is the auxiliary core then.  *)
(***************************************************************************)
FailStartup(r, s, a, rest) ==
    /\ phase' = EndPhase
    /\ main' = Killed(main) /\ aux' = Killed(a) /\ tunAtStart' = FALSE
    /\ reachable' = FALSE
    /\ IF managed THEN Undo(r, s, FALSE)
       ELSE reg' = r /\ snap' = s /\ UNCHANGED <<managed, warned>>
    /\ pending' = CancelTimers(rest)
    /\ lastWord' = "fail"

(***************************************************************************)
(* stopInternal, of a stop that does not wait for the main core to be gone.*)
(* It does wait for the auxiliary core, which may outlive the wait.        *)
(***************************************************************************)
StopInternal(keep, rest) ==
    /\ phase' = EndPhase
    /\ main' = Killed(main) /\ aux' \in {"none", Killed(aux)}
    /\ tunClean' = IF tunClean = "CleaningThenResume" THEN "Cleaning" ELSE tunClean
    /\ ClearApplied(keep)
    /\ reachable' = FALSE
    /\ pending' = CancelTimers(rest)
    /\ UNCHANGED <<tunAtStart, crash, have>>

\* (slip) the condition the other way round
CancelOnlyStop == phase' = IF phase = "Stopping" THEN "Stopped" ELSE phase

\* cancelActivation, of an activation that is over: a stop under way goes on.
CancelActivation == phase' = IF phase = "Stopping" THEN "Stopping" ELSE "Stopped"

-------------------------------------------------------------------------------
(***************************************************************************)
(* startInternal.  word is what lastWord becomes if the start gets under   *)
(* way; rest is what is still waited for.  The server is the one that the  *)
(* handler finds, which the same handler may just have changed (server'),  *)
(* and so is what is on disk (have').                                      *)
(***************************************************************************)
Rejected == Running \/ phase = "Stopping"

\* cancelBackgroundTasksForStartup is for a fresh activation, not for a resumed one.
BeginAttempt(rest) == CancelRestarts(IF Activating THEN rest ELSE Revoked(rest))

Reject(rest, word) ==
    /\ pending' = rest /\ lastWord' = word
    /\ UNCHANGED <<phase, coreVars, proxyVars, reachable>>

\* (slip) nobody asks whether a removal is already under way
AlwaysClean == TRUE

CanClean == tunClean = "Idle"

\* A TUN start first removes a stale adapter; a cleanup under way is not waited for.
AwaitCleanup(E, word) ==
    /\ phase' = "EnvironmentCleanup" /\ reachable' = FALSE /\ lastWord' = word
    /\ IF CanClean
       THEN /\ tunClean' = "CleaningThenResume"
            /\ pending' = E \cup {[kind |-> "tunStart", post |-> "none"]}
       ELSE pending' = E /\ UNCHANGED tunClean
    /\ UNCHANGED <<coreVars, proxyVars>>

Fetch(k, E, word) ==
    /\ k = "core" => ~\E e \in E : e.kind = "core" /\ e.live
    /\ phase' = IF k = "core" THEN "ValidateCoreApplication" ELSE "ValidateRuntimeResources"
    /\ \E n \in 1..MaxDownloads :
          /\ \A e \in E : e.kind = k => e.n # n
          /\ pending' = E \cup {[kind |-> k, server |-> server', live |-> TRUE, n |-> n]}
    /\ reachable' = FALSE /\ lastWord' = word
    /\ UNCHANGED <<coreVars, proxyVars>>

\* The core reports `started` from within start(): its listen probe leaves at once.
\* An auxiliary core that cannot be started is not noticed.
Launch(r, E, word) ==
    /\ phase' = "StartCoreProcess" /\ reachable' = FALSE /\ lastWord' = word
    /\ main' = "running" /\ tunAtStart' = r.tun
    /\ aux' \in IF r.aux THEN {"running", "none"} ELSE {Killed(aux)}
    /\ pending' = Stale(E) \cup {[kind |-> "listen", server |-> server', fresh |-> TRUE]}
    /\ UNCHANGED proxyVars

Missing == Downloads \ have'[server']

\* Past the environment check: any validation, or the launch itself, may fail.
Proceed(r, E, word) ==
    \/ \E a \in IF r.aux THEN {aux, "running"} ELSE {aux} : FailStartup(reg, snap, a, E)
    \/ "core" \in Missing /\ Fetch("core", E, word)
    \/ Missing = {"geo"} /\ Fetch("geo", E, word)
    \/ Missing = {} /\ Launch(r, E, word)

\* environmentAlreadyChecked: resumed after a cleanup or a download.
ResumeStart(rest) ==
    /\ IF Rejected THEN Reject(rest, lastWord)
       ELSE Proceed(request, BeginAttempt(rest), lastWord)
    /\ UNCHANGED crash

StartInternal(r, rest, word) ==
    IF Rejected
    THEN Reject(rest, word) /\ UNCHANGED <<tunClean, crash>>
    ELSE /\ crash' = ResetTunConflictRetries(crash)
         /\ \/ r.tun /\ AwaitCleanup(BeginAttempt(rest), word)
            \/ /\ r.tun   \* no administrator permission
               /\ FailStartup(reg, snap, aux, BeginAttempt(rest))
               /\ UNCHANGED tunClean
            \/ ~r.tun /\ Proceed(r, BeginAttempt(rest), word) /\ UNCHANGED tunClean

-------------------------------------------------------------------------------
(***************************************************************************)
(* The calls of the host.                                                  *)
(***************************************************************************)
\* The host asks isActivationInProgress first (SystemProxyCoordinator::setMode);
\* the failover to another server does not.
Start(r) ==
    /\ Activating => AutoSwitch
    /\ request' = r
    /\ UNCHANGED <<post, server, have>>
    /\ StartInternal(r, pending, "start")

Stop ==
    /\ StopInternal(FALSE, pending)
    /\ post' = "none" /\ lastWord' = "stop"
    /\ UNCHANGED <<request, server>>

\* restartIfRunning, switchServer, stopForCoreUpdate: a stop with something to do after it.
StopAndThen(action, r) ==
    /\ Running
    /\ post' = action /\ request' = r /\ lastWord' = "start"
    /\ StopInternal(TRUE, pending)
    /\ UNCHANGED server

RestartIfRunning(r) == StopAndThen("restart", r)
SwitchServer == Servers # {server} /\ StopAndThen("switch", request)
StopForCoreUpdate == StopAndThen("coreUpdate", request)

\* The default server is the host's: it may change under a session that is up.
ChangeServer(s) ==
    /\ s # server
    /\ server' = s
    /\ UNCHANGED <<phase, request, coreVars, tunClean, post, crash, proxyVars, reachable,
                   have, pending, lastWord>>

-------------------------------------------------------------------------------
(***************************************************************************)
(* The probes: is the core listening, and does the node answer.            *)
(***************************************************************************)
\* A session whose server is no longer the one it probed stops itself.
StopStaleSession(rest) ==
    /\ StopInternal(FALSE, rest)
    /\ post' = "none" /\ lastWord' = "stop"
    /\ UNCHANGED <<request, server>>

Fail(rest) ==
    /\ FailStartup(reg, snap, aux, rest)
    /\ UNCHANGED <<request, tunClean, post, crash, server, have>>

Ignore(rest) ==
    /\ pending' = rest
    /\ UNCHANGED <<phase, request, coreVars, tunClean, post, crash, proxyVars, reachable,
                   server, have, lastWord>>

\* applySystemProxyAfterOutboundCheck: capture once, write, and only then own it.
ApplySystemProxy(rest) ==
    /\ IF ~request.forced
       THEN FailStartup(reg, snap, aux, rest)
       ELSE \E s \in IF snap # "none" THEN {snap}
                     ELSE {reg} \cup (IF "read" \in Faults THEN {"none"} ELSE {}) :
            \/ /\ reg' = "ours" /\ snap' = s
               /\ managed' = TRUE /\ reachable' = TRUE /\ warned' = FALSE
               /\ phase' = "Proxying" /\ pending' = rest
               /\ UNCHANGED <<coreVars, lastWord>>
            \/ \* the write failed half-way and is put back: the snapshot is spent
               "apply" \in Faults /\ s # "none" /\ FailStartup(s, "none", aux, rest)
            \/ \* it failed with nothing to put back, or putting it back failed as well
               /\ "apply" \in Faults
               /\ s # "none" => "undo" \in Faults
               /\ \E r \in {reg, "ours"} : FailStartup(r, s, aux, rest)
    /\ UNCHANGED <<request, tunClean, post, crash, server, have>>

\* (slip) the answer counts in whatever phase it comes
GateOfAnyPhase(e) == ~e.fresh

\* The gate's answer is for an attempt that has moved on.
GateIgnored(e) == phase # "CheckOutboundConnection" \/ ~e.fresh

StaleProbe(e) == ~e.fresh \/ server # e.server

ListenAnswered ==
    \E e \in pending : e.kind = "listen" /\ LET rest == pending \ {e} IN
        \/ /\ StaleProbe(e)
           /\ IF e.fresh /\ Running /\ phase # "Stopping"
              THEN StopStaleSession(rest) ELSE Ignore(rest)
        \/ /\ ~StaleProbe(e)        \* nothing opened the port in time
           /\ Fail(rest)
        \/ /\ ~StaleProbe(e)
           /\ IF phase # "StartCoreProcess" \/ ~Running
              THEN Ignore(rest)
              ELSE \/ /\ phase' = "CheckOutboundConnection"
                      /\ pending' = rest \cup {[e EXCEPT !.kind = "gate"]}
                      /\ UNCHANGED <<request, coreVars, tunClean, post, crash, proxyVars,
                                     reachable, server, have, lastWord>>
                   \/ ApplySystemProxy(rest)   \* skipOutboundCheck

\* The node answers, or nothing does even without the core and the check is waived.
GateAnswered ==
    \E e \in pending : e.kind = "gate" /\ LET rest == pending \ {e} IN
        IF GateIgnored(e) THEN Ignore(rest)
        ELSE IF ~Running \/ server # e.server THEN StopStaleSession(rest)
        ELSE ApplySystemProxy(rest) \/ Fail(rest)

-------------------------------------------------------------------------------
(***************************************************************************)
(* The downloads of what was missing (StartupResourceBroker).              *)
(***************************************************************************)
Cancel(rest) ==
    /\ CancelActivation /\ pending' = rest
    /\ UNCHANGED <<coreVars, proxyVars, reachable, lastWord>>

\* A core download whose token was revoked is dropped; the others hold no token.
DownloadCounts(e) == e.live

DownloadFinished ==
    \E e \in pending, ok \in BOOLEAN :
        /\ e.kind \in {"core", "geo"}
        /\ UNCHANGED <<request, tunClean, post, server>>
        /\ have' = IF ok THEN [have EXCEPT ![e.server] = @ \cup {e.kind}] ELSE have
        /\ LET rest == pending \ {e} IN
           IF ~DownloadCounts(e) THEN Reject(rest, lastWord) /\ UNCHANGED crash
           ELSE IF ~Activating THEN Cancel(rest) /\ UNCHANGED crash
           ELSE IF ~ok THEN FailStartup(reg, snap, aux, rest) /\ UNCHANGED crash
           ELSE IF ~request.forced THEN Cancel(rest) /\ UNCHANGED crash
           ELSE ResumeStart(rest)

-------------------------------------------------------------------------------
(***************************************************************************)
(* The exits of the cores.                                                 *)
(***************************************************************************)
\* scheduleCoreStartAfterStop, serverSwitchResumeRequested; the host does the core update.
AfterStop(action) == CASE action = "restart" -> {[kind |-> "resumeTimer"]}
                       [] action = "switch" -> {[kind |-> "switchTimer"]}
                       [] OTHER -> {}

\* The main core is gone because it was told to go.
MainStopped ==
    /\ main = "killed"
    /\ main' = "none" /\ phase' = "Stopped" /\ tunAtStart' = FALSE
    /\ post' = "none" /\ reachable' = FALSE
    /\ ClearApplied(TRUE)
    /\ IF tunAtStart /\ CanClean
       THEN /\ tunClean' = "Cleaning"
            /\ pending' = pending \cup {[kind |-> "tunStop", post |-> post]}
       ELSE /\ pending' = IF tunAtStart THEN pending ELSE pending \cup AfterStop(post)
            /\ UNCHANGED tunClean
    /\ UNCHANGED <<request, aux, crash, server, have, lastWord>>

\* The main core died on its own.
MainCrashed(e) ==
    /\ main = "running"
    /\ e.core = "core" /\ e.tun = tunAtStart /\ (e.conflict => tunAtStart)
    /\ main' = "none" /\ phase' = "Stopped" /\ tunAtStart' = FALSE
    /\ reachable' = FALSE
    /\ crash' = After(crash, e)
    /\ IF Action(crash, e) = "ScheduleRestart"
       THEN /\ ClearApplied(TRUE)
            /\ pending' = pending \cup {[kind |-> "crashTimer"]}
            /\ UNCHANGED lastWord
       ELSE /\ ClearApplied(FALSE)
            /\ lastWord' = "fail"
            /\ UNCHANGED pending
    /\ UNCHANGED <<request, aux, tunClean, post, server, have>>

AuxStopped ==
    /\ aux = "killed"
    /\ aux' = "none"
    /\ UNCHANGED <<phase, request, main, tunAtStart, tunClean, post, crash, proxyVars,
                   reachable, server, have, pending, lastWord>>

\* The auxiliary core died on its own: the phase and the proxy settings stay as they are.
AuxCrashed(e) ==
    /\ aux = "running"
    /\ e.core = "aux" /\ ~e.tun /\ ~e.conflict
    /\ aux' = "none"
    /\ crash' = After(crash, e)
    /\ IF Action(crash, e) = "ScheduleRestart"
       THEN /\ pending' = pending \cup {[kind |-> "auxTimer"]}
            /\ UNCHANGED <<managed, reachable, lastWord>>
       ELSE /\ managed' = FALSE /\ reachable' = FALSE /\ lastWord' = "fail"
            /\ UNCHANGED pending
    /\ UNCHANGED <<phase, request, main, tunAtStart, tunClean, post, reg, snap, warned,
                   server, have>>

-------------------------------------------------------------------------------
(***************************************************************************)
(* The timers, and the removal of a stale TUN adapter.                     *)
(***************************************************************************)
CrashTimerFires ==
    \E e \in pending : e.kind = "crashTimer" /\ LET rest == pending \ {e} IN
        /\ UNCHANGED <<request, post, server, have>>
        /\ IF request.tun
           THEN /\ IF CanClean
                   THEN /\ tunClean' = "Cleaning"
                        /\ pending' = rest \cup {[kind |-> "tunCrash", post |-> "none"]}
                   ELSE pending' = rest /\ UNCHANGED tunClean
                /\ UNCHANGED <<phase, coreVars, crash, proxyVars, reachable, lastWord>>
           ELSE StartInternal(request, rest, lastWord)

OtherTimerFires ==
    \E e \in pending :
        /\ e.kind \in {"auxTimer", "resumeTimer"}
        /\ UNCHANGED <<request, post, server, have>>
        /\ StartInternal(request, pending \ {e}, lastWord)

\* switchAfterCoreStopped: the host makes another server the default one and starts it.
SwitchTimerFires ==
    \E e \in pending, s \in Servers :
        /\ e.kind = "switchTimer"
        /\ server' = s
        /\ UNCHANGED <<request, post, have>>
        /\ IF s # server
           THEN StartInternal(request, pending \ {e}, "start")
           ELSE Reject(pending \ {e}, lastWord) /\ UNCHANGED <<tunClean, crash>>

TunStartCleaned ==
    \E e \in pending, ok \in BOOLEAN :
        /\ e.kind = "tunStart"
        /\ tunClean' = "Idle"
        /\ UNCHANGED <<request, post, server, have>>
        /\ LET rest == pending \ {e} IN
           IF ok /\ tunClean = "CleaningThenResume" /\ phase # "Stopping"
           THEN ResumeStart(rest)
           ELSE /\ IF ok THEN Cancel(rest) ELSE FailStartup(reg, snap, aux, rest)
                /\ UNCHANGED crash

\* A cleanup that failed takes the post-stop action with it.
TunStopCleaned ==
    \E e \in pending, ok \in BOOLEAN :
        /\ e.kind = "tunStop"
        /\ tunClean' = "Idle"
        /\ pending' = (pending \ {e}) \cup
                      (IF ok THEN AfterStop(e.post) ELSE {})
        /\ UNCHANGED <<phase, request, coreVars, post, crash, proxyVars, reachable,
                       server, have, lastWord>>

TunCrashCleaned ==
    \E e \in pending, ok \in BOOLEAN :
        /\ e.kind = "tunCrash"
        /\ tunClean' = "Idle"
        /\ UNCHANGED <<request, post, server, have>>
        /\ IF ok /\ phase # "Stopping"
           THEN ResumeStart(pending \ {e})
           ELSE Reject(pending \ {e}, lastWord) /\ UNCHANGED crash

-------------------------------------------------------------------------------
Host == \/ \E r \in Requests : Start(r) \/ RestartIfRunning(r)
        \/ Stop
        \/ SwitchServer
        \/ StopForCoreUpdate
        \/ \E s \in Servers : ChangeServer(s)

Answers == \/ ListenAnswered
           \/ GateAnswered
           \/ DownloadFinished
           \/ TunStartCleaned
           \/ TunStopCleaned
           \/ TunCrashCleaned

Timers == CrashTimerFires \/ OtherTimerFires \/ SwitchTimerFires

Crashes == \E e \in Exit : MainCrashed(e) \/ AuxCrashed(e)

Next == Host \/ Answers \/ Timers \/ Crashes \/ MainStopped \/ AuxStopped

\* Every worker ends (its service call has a timeout) and its answer is queued to the
\* GUI thread; a timer that stays armed fires; a killed process is reaped.  The host
\* need never call, and a core need never die.
Fairness == /\ WF_vars(ListenAnswered) /\ WF_vars(GateAnswered) /\ WF_vars(DownloadFinished)
            /\ WF_vars(TunStartCleaned) /\ WF_vars(TunStopCleaned) /\ WF_vars(TunCrashCleaned)
            /\ WF_vars(Timers) /\ WF_vars(MainStopped) /\ WF_vars(AuxStopped)

Spec == Init /\ [][Next]_vars /\ Fairness

-------------------------------------------------------------------------------
TypeOK == /\ phase \in Phases /\ request \in Requests
          /\ main \in {"none", "running", "killed"} /\ aux \in {"none", "running", "killed"}
          /\ tunAtStart \in BOOLEAN /\ managed \in BOOLEAN
          /\ reachable \in BOOLEAN /\ warned \in BOOLEAN
          /\ tunClean \in {"Idle", "Cleaning", "CleaningThenResume"}
          /\ post \in PostStop /\ crash \in Policy
          /\ reg \in {"user", "off", "ours"} /\ snap \in {"none", "user", "off", "ours"}
          /\ server \in Servers /\ have \in [Servers -> SUBSET Downloads]
          /\ \A e \in pending : e \in Probe \/ e \in Download \/ e \in Cleanup \/ e \in Timer
          /\ lastWord \in {"start", "stop", "fail"}

\* The settings point at this app only while the session claims them and a core it
\* has not told to go is there to serve them: a stop, a failed start and a crash all
\* take them back first (failStartup, stopInternal, clearAppliedProxyAfterStopped).
OursHasLiveCore == reg = "ours" => managed /\ main = "running"

\* What is not ours is exactly what the user had: no sequence of starts, failures,
\* crashes and restarts clears or replaces it (undoSystemProxyChange, the snapshot).
UserProxyKept == reg # "ours" => reg = UserProxy

\* A core that is up belongs to a session that knows it: never to one that reports
\* Stopped, which would refuse to start another and show nothing to stop.
NoZombieCore == main = "running" => phase # "Stopped"

\* Reported as proxying, the session has a core, has seen the node answer (or waived
\* the check), and has pointed the settings at it.
ProxyingIsUp == phase = "Proxying" => main = "running" /\ reachable /\ managed /\ reg = "ours"

\* Stopping is always waiting for a core that was told to go, and a core that was told
\* to go is always waited for: whatever answers late meanwhile, no start finds it.
StoppingHasKill == phase = "Stopping" <=> main = "killed"

\* One adapter removal at a time, and the state says exactly that there is one.
OneCleanup == /\ tunClean # "Idle" <=> \E e \in pending : e \in Cleanup
              /\ \A d, e \in pending : d \in Cleanup /\ e \in Cleanup => d = e

Launched == main = "none" /\ main' = "running"

\* A stop of the user's is the last word: no core is launched after it until the
\* host starts one (stopInternal cancels the timers and the resume token).
StopIsFinal == [][Launched => lastWord' # "stop"]_vars

Reports == lastWord # "fail" /\ lastWord' = "fail"

\* When the session reports a failure it has let go of the settings: nobody will come
\* back for them (failStartup, the disabled restart in handleCoreExited).
FailureLetsGo == [][Reports => reg' # "ours"]_vars

\* As long as the settings point at this app, what the user had is still known, even
\* though writing it back may fail any number of times.
RestorePossible == reg = "ours" => snap # "none"

\* Settings left pointing at this app with no core to serve them and nobody to claim
\* them were reported to the user (systemProxyUndoFailed).
LeftoverIsReported == reg = "ours" /\ main = "none" => managed \/ warned

\* An activation comes to an end: it proxies, fails or is stopped.
ActivationEnds == Activating ~> ~Activating

\* A stop comes to an end.
StoppingEnds == phase = "Stopping" ~> phase # "Stopping"

\* A core that keeps dying young is restarted forever only if the host keeps asking.
StableCrash == \E e \in Exit : e.stable /\ MainCrashed(e)
CrashLoopEnds == []<><<CrashTimerFires>>_vars => []<><<Host \/ StableCrash>>_vars
===============================================================================
