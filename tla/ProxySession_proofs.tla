-------------------------- MODULE ProxySession_proofs --------------------------
(***************************************************************************)
(* What is proved of the proxy session for every set of servers and        *)
(* requests, every budget, and whatever may be missing on disk.            *)
(***************************************************************************)
EXTENDS ProxySession, TLAPS

Event == Probe \cup Download \cup Cleanup \cup Timer
CoreState == {"none", "running", "killed"}
Reg == {"user", "off", "ours"}
Snap == {"none", "user", "off", "ours"}

USE RequestsAssumption, AutoSwitchAssumption, DownloadsAssumption, MaxDownloadsAssumption,
    UserProxyAssumption, MaxCrashRestartsAssumption, MaxTunRetriesAssumption

-------------------------------------------------------------------------------
(***************************************************************************)
(* The sets of what is waited for.                                         *)
(***************************************************************************)
LEMMA EventSets ==
    ASSUME NEW E \in SUBSET Event
    PROVE  /\ CancelRestarts(E) \in SUBSET Event
           /\ CancelTimers(E) \in SUBSET Event
           /\ Stale(E) \in SUBSET Event
           /\ Revoked(E) \in SUBSET Event
<1>1. CancelRestarts(E) \in SUBSET Event /\ CancelTimers(E) \in SUBSET Event
  BY DEF CancelRestarts, CancelTimers
<1>2. Stale(E) \in SUBSET Event
  <2> SUFFICES ASSUME NEW e \in E
               PROVE  (IF e.kind \in {"listen", "gate"} THEN [e EXCEPT !.fresh = FALSE] ELSE e)
                        \in Event
    BY DEF Stale
  <2>1. CASE e \in Probe
    BY <2>1 DEF Event, Probe
  <2>2. CASE e \notin Probe
    BY <2>2 DEF Event, Download, Cleanup, Timer
  <2> QED BY <2>1, <2>2
<1>3. Revoked(E) \in SUBSET Event
  <2> SUFFICES ASSUME NEW e \in E
               PROVE  (IF e.kind = "core" THEN [e EXCEPT !.live = FALSE] ELSE e) \in Event
    BY DEF Revoked
  <2>1. CASE e \in Download
    BY <2>1 DEF Event, Download
  <2>2. CASE e \notin Download
    BY <2>2 DEF Event, Probe, Cleanup, Timer
  <2> QED BY <2>1, <2>2
<1> QED BY <1>1, <1>2, <1>3

LEMMA AfterStopEvents == \A action : AfterStop(action) \in SUBSET Event
BY DEF AfterStop, Event, Timer

\* The budgets bound the counters of the crash policy.
LEMMA PolicyKept ==
    ASSUME NEW p \in Policy, NEW e \in Exit
    PROVE  After(p, e) \in Policy /\ ResetTunConflictRetries(p) \in Policy
<1>1. ResetTunConflictRetries(p) \in Policy
  BY DEF ResetTunConflictRetries, Policy
<1>2. CASE RetriesConflict(p, e)
  BY <1>1, <1>2 DEF After, RetriesConflict, Policy, Exit, Cores
<1>3. CASE ~RetriesConflict(p, e) /\ PersistentConflict(p, e)
  BY <1>1, <1>3 DEF After
<1>4. CASE ~RetriesConflict(p, e) /\ ~PersistentConflict(p, e)
  <2>1. e.core \in {"core", "aux"}
    BY DEF Exit, Cores
  <2>2. CrashCount(p, e) \in 0..(MaxCrashRestarts + 1)
    BY <2>1 DEF CrashCount, Policy
  <2> QED BY <1>1, <1>4, <2>1, <2>2 DEF After, Policy
<1> QED BY <1>2, <1>3, <1>4

-------------------------------------------------------------------------------
(***************************************************************************)
(* Types, together with StoppingHasKill.  Duty is what the helpers of a    *)
(* handler assign; Books is what the handlers themselves do.               *)
(***************************************************************************)
Words == {"start", "stop", "fail"}
CleanStates == {"Idle", "Cleaning", "CleaningThenResume"}

ProxyType == managed \in BOOLEAN /\ reg \in Reg /\ snap \in Snap /\ warned \in BOOLEAN

Duty == /\ phase \in Phases /\ main \in CoreState /\ aux \in CoreState
        /\ tunAtStart \in BOOLEAN /\ reachable \in BOOLEAN /\ ProxyType
        /\ pending \in SUBSET Event /\ lastWord \in Words
        /\ StoppingHasKill

Books == /\ request \in Requests /\ post \in PostStop /\ server \in Servers
         /\ have \in [Servers -> SUBSET Downloads]

Policing == tunClean \in CleanStates /\ crash \in Policy

IInv == TypeOK /\ StoppingHasKill

LEMMA IInvParts == IInv <=> Duty /\ Books /\ Policing
BY DEF IInv, TypeOK, Duty, Books, Policing, ProxyType, Event, CoreState, Reg, Snap, Words, CleanStates

LEMMA UndoType ==
    ASSUME ProxyType, NEW r \in Reg, NEW s \in Snap, NEW keep \in BOOLEAN, Undo(r, s, keep)
    PROVE  ProxyType'
BY DEF ProxyType, Undo, Reg, Snap

LEMMA ClearAppliedType ==
    ASSUME ProxyType, NEW keep \in BOOLEAN, ClearApplied(keep)
    PROVE  ProxyType'
<1>1. CASE managed /\ reg # "off"
  <2>1. Undo(reg, snap, keep)
    BY <1>1 DEF ClearApplied
  <2> QED BY <2>1, UndoType DEF ProxyType
<1>2. CASE ~(managed /\ reg # "off")
  BY <1>2 DEF ClearApplied, ProxyType
<1> QED BY <1>1, <1>2

LEMMA FailStartupDuty ==
    ASSUME Duty, NEW r \in Reg, NEW s \in Snap, NEW a \in CoreState, NEW E \in SUBSET Event,
           FailStartup(r, s, a, E)
    PROVE  Duty'
<1> USE DEF Duty
<1>1. ProxyType'
  <2>1. CASE managed
    BY <2>1, UndoType DEF FailStartup
  <2>2. CASE ~managed
    BY <2>2 DEF FailStartup, ProxyType
  <2> QED BY <2>1, <2>2
<1>2. main' \in CoreState /\ aux' \in CoreState
  BY DEF FailStartup, Killed, CoreState
<1>3. phase' \in Phases /\ StoppingHasKill'
  BY DEF FailStartup, EndPhase, Running, Killed, CoreState, Phases, StoppingHasKill
<1>4. pending' \in SUBSET Event
  BY EventSets DEF FailStartup
<1> QED BY <1>1, <1>2, <1>3, <1>4 DEF FailStartup, Words

LEMMA StopInternalDuty ==
    ASSUME Duty, Policing, NEW keep \in BOOLEAN, NEW E \in SUBSET Event, StopInternal(keep, E),
           lastWord' \in Words
    PROVE  Duty' /\ Policing'
<1> USE DEF Duty
<1>1. ProxyType'
  BY ClearAppliedType DEF StopInternal
<1>2. main' \in CoreState /\ aux' \in CoreState
  BY DEF StopInternal, Killed, CoreState
<1>3. phase' \in Phases /\ StoppingHasKill'
  BY DEF StopInternal, EndPhase, Running, Killed, CoreState, Phases, StoppingHasKill
<1>4. pending' \in SUBSET Event
  BY EventSets DEF StopInternal
<1>5. tunAtStart' \in BOOLEAN /\ reachable' \in BOOLEAN
  BY DEF StopInternal
<1>6. Policing'
  BY DEF StopInternal, Policing, CleanStates
<1> QED BY <1>1, <1>2, <1>3, <1>4, <1>5, <1>6

LEMMA FetchDuty ==
    ASSUME Duty, NEW k \in Downloads, NEW E \in SUBSET Event, NEW word \in Words,
           ~Running, server' \in Servers, Fetch(k, E, word)
    PROVE  Duty'
<1>1. phase' \in Phases /\ StoppingHasKill'
  BY DEF Fetch, Phases, StoppingHasKill, Running, coreVars
<1>2. pending' \in SUBSET Event
  <2>1. PICK n \in 1..MaxDownloads :
            pending' = E \cup {[kind |-> k, server |-> server', live |-> TRUE, n |-> n]}
    BY DEF Fetch
  <2>2. [kind |-> k, server |-> server', live |-> TRUE, n |-> n] \in Download
    BY DEF Download
  <2> QED BY <2>1, <2>2 DEF Event
<1> QED BY <1>1, <1>2 DEF Duty, Fetch, coreVars, proxyVars, ProxyType

LEMMA LaunchDuty ==
    ASSUME Duty, NEW r \in Requests, NEW E \in SUBSET Event, NEW word \in Words,
           server' \in Servers, Launch(r, E, word)
    PROVE  Duty'
<1>1. phase' \in Phases /\ StoppingHasKill'
  BY DEF Launch, Phases, StoppingHasKill
<1>2. pending' \in SUBSET Event
  <2>1. [kind |-> "listen", server |-> server', fresh |-> TRUE] \in Event
    BY DEF Event, Probe
  <2>2. Stale(E) \in SUBSET Event
    BY EventSets
  <2> QED BY <2>1, <2>2 DEF Launch
<1>3. main' \in CoreState /\ aux' \in CoreState /\ tunAtStart' \in BOOLEAN
  BY DEF Launch, Killed, CoreState, Duty
<1> QED BY <1>1, <1>2, <1>3 DEF Duty, Launch, proxyVars, ProxyType

LEMMA ProceedDuty ==
    ASSUME Duty, NEW r \in Requests, NEW E \in SUBSET Event, NEW word \in Words,
           ~Running, server' \in Servers, Proceed(r, E, word)
    PROVE  Duty'
<1>1. ASSUME NEW a \in (IF r.aux THEN {aux, "running"} ELSE {aux}), FailStartup(reg, snap, a, E)
      PROVE  Duty'
  <2>1. a \in CoreState /\ reg \in Reg /\ snap \in Snap
    BY DEF Duty, CoreState, ProxyType
  <2> QED BY <1>1, <2>1, FailStartupDuty
<1>2. ASSUME NEW k \in Missing, Fetch(k, E, word)
      PROVE  Duty'
  BY <1>2, FetchDuty DEF Missing
<1>3. CASE Launch(r, E, word)
  BY <1>3, LaunchDuty
<1> QED BY <1>1, <1>2, <1>3 DEF Proceed

LEMMA BeginAttemptEvents ==
    ASSUME NEW E \in SUBSET Event
    PROVE  BeginAttempt(E) \in SUBSET Event
<1>1. (IF Activating THEN E ELSE Revoked(E)) \in SUBSET Event
  BY EventSets
<1> QED BY <1>1, EventSets DEF BeginAttempt

LEMMA RejectDuty ==
    ASSUME Duty, NEW E \in SUBSET Event, NEW word \in Words, Reject(E, word)
    PROVE  Duty'
BY DEF Duty, Reject, coreVars, proxyVars, ProxyType, StoppingHasKill

LEMMA ResumeStartDuty ==
    ASSUME Duty, Books, Policing, NEW E \in SUBSET Event, ResumeStart(E),
           request' = request, server' = server
    PROVE  Duty' /\ crash' \in Policy
<1>1. CASE Rejected
  BY <1>1, RejectDuty DEF ResumeStart, Duty, Policing
<1>2. CASE ~Rejected
  <2>1. Proceed(request, BeginAttempt(E), lastWord)
    BY <1>2 DEF ResumeStart
  <2>2. BeginAttempt(E) \in SUBSET Event
    BY BeginAttemptEvents
  <2> QED BY <1>2, <2>1, <2>2, ProceedDuty DEF ResumeStart, Rejected, Duty, Books, Policing
<1> QED BY <1>1, <1>2

LEMMA AwaitCleanupDuty ==
    ASSUME Duty, Policing, NEW E \in SUBSET Event, NEW word \in Words, ~Running,
           AwaitCleanup(E, word)
    PROVE  Duty' /\ tunClean' \in CleanStates
<1>1. [kind |-> "tunStart", post |-> "none"] \in Event
  BY DEF Event, Cleanup, PostStop
<1>2. pending' \in SUBSET Event /\ tunClean' \in CleanStates
  BY <1>1 DEF AwaitCleanup, Policing, CleanStates
<1>3. phase' \in Phases /\ StoppingHasKill'
  BY DEF AwaitCleanup, Phases, StoppingHasKill, Running, coreVars
<1> QED BY <1>2, <1>3 DEF Duty, AwaitCleanup, coreVars, proxyVars, ProxyType

LEMMA StartInternalDuty ==
    ASSUME Duty, Policing, NEW r \in Requests, NEW E \in SUBSET Event, NEW word \in Words,
           server' \in Servers, StartInternal(r, E, word)
    PROVE  Duty' /\ Policing'
<1>1. CASE Rejected
  BY <1>1, RejectDuty DEF StartInternal, Policing
<1>2. CASE ~Rejected
  <2>1. BeginAttempt(E) \in SUBSET Event
    BY BeginAttemptEvents
  <2>2. crash' \in Policy
    <3>1. Exit # {}
      <4>1. [core |-> "core", tun |-> FALSE, conflict |-> FALSE, stable |-> FALSE] \in Exit
        BY DEF Exit, Cores
      <4> QED BY <4>1
    <3> QED BY <1>2, <3>1, PolicyKept DEF StartInternal, Policing
  <2>3. CASE AwaitCleanup(BeginAttempt(E), word)
    BY <1>2, <2>1, <2>2, <2>3, AwaitCleanupDuty DEF Policing, Rejected
  <2>4. CASE FailStartup(reg, snap, aux, BeginAttempt(E)) /\ UNCHANGED tunClean
    BY <2>1, <2>2, <2>4, FailStartupDuty DEF Policing, Duty, ProxyType
  <2>5. CASE Proceed(r, BeginAttempt(E), word) /\ UNCHANGED tunClean
    BY <1>2, <2>1, <2>2, <2>5, ProceedDuty DEF Policing, Rejected
  <2> QED BY <1>2, <2>3, <2>4, <2>5 DEF StartInternal
<1> QED BY <1>1, <1>2

LEMMA ApplySystemProxyDuty ==
    ASSUME Duty, phase # "Stopping", NEW E \in SUBSET Event, ApplySystemProxy(E)
    PROVE  Duty'
<1>1. CASE ~request.forced
  BY <1>1, FailStartupDuty DEF ApplySystemProxy, Duty, ProxyType
<1>2. CASE request.forced
  <2>1. PICK s \in IF snap # "none" THEN {snap}
                   ELSE {reg} \cup (IF "read" \in Faults THEN {"none"} ELSE {}) :
            \/ /\ reg' = "ours" /\ snap' = s
               /\ managed' = TRUE /\ reachable' = TRUE /\ warned' = FALSE
               /\ phase' = "Proxying" /\ pending' = E
               /\ UNCHANGED <<coreVars, lastWord>>
            \/ s # "none" /\ FailStartup(s, "none", aux, E)
            \/ \E r \in {reg, "ours"} : FailStartup(r, s, aux, E)
    BY <1>2 DEF ApplySystemProxy
  <2>2. s \in Snap /\ (s # "none" => s \in Reg)
    BY <2>1 DEF Duty, ProxyType, Snap, Reg
  <2>3. CASE /\ reg' = "ours" /\ snap' = s
             /\ managed' = TRUE /\ reachable' = TRUE /\ warned' = FALSE
             /\ phase' = "Proxying" /\ pending' = E
             /\ UNCHANGED <<coreVars, lastWord>>
    BY <2>2, <2>3 DEF Duty, ProxyType, coreVars, Reg, Phases, StoppingHasKill
  <2>4. CASE s # "none" /\ FailStartup(s, "none", aux, E)
    BY <2>2, <2>4, FailStartupDuty DEF Duty, Snap
  <2>5. CASE \E r \in {reg, "ours"} : FailStartup(r, s, aux, E)
    <3>1. PICK r \in {reg, "ours"} : FailStartup(r, s, aux, E)
      BY <2>5
    <3> QED BY <2>2, <3>1, FailStartupDuty DEF Duty, ProxyType, Reg
  <2> QED BY <2>1, <2>3, <2>4, <2>5
<1> QED BY <1>1, <1>2

-------------------------------------------------------------------------------
LEMMA InitIInv == Init => IInv
<1> SUFFICES ASSUME Init PROVE IInv
  OBVIOUS
<1>1. Policing
  BY DEF Init, Policing, FreshPolicy, Policy, CleanStates
<1>2. Duty /\ Books
  BY DEF Init, Duty, Books, ProxyType, CoreState, Reg, Snap, Words, Phases, PostStop, StoppingHasKill
<1> QED BY <1>1, <1>2, IInvParts

LEMMA HostIInv == IInv /\ Host => IInv'
<1> SUFFICES ASSUME Duty, Books, Policing, Host PROVE Duty' /\ Books' /\ Policing'
  BY IInvParts, PTL
<1>1. ASSUME NEW r \in Requests, Start(r) PROVE Duty' /\ Books' /\ Policing'
  <2>1. Books'
    BY <1>1 DEF Start, Books
  <2>2. StartInternal(r, pending, "start") /\ server' \in Servers
    BY <1>1 DEF Start, Books
  <2> QED BY <2>1, <2>2, StartInternalDuty DEF Duty, Words
<1>2. ASSUME NEW action \in PostStop, NEW r \in Requests, StopAndThen(action, r)
      PROVE  Duty' /\ Books' /\ Policing'
  <2>1. Books'
    BY <1>2 DEF StopAndThen, StopInternal, Books
  <2> QED BY <1>2, <2>1, StopInternalDuty DEF StopAndThen, Duty, Words
<1>3. CASE Stop
  <2>1. Books'
    BY <1>3 DEF Stop, StopInternal, Books, PostStop
  <2> QED BY <1>3, <2>1, StopInternalDuty DEF Stop, Duty, Words
<1>4. ASSUME NEW r \in Requests, RestartIfRunning(r) PROVE Duty' /\ Books' /\ Policing'
  BY <1>2, <1>4 DEF RestartIfRunning, PostStop
<1>5. CASE SwitchServer
  BY <1>2, <1>5 DEF SwitchServer, PostStop, Books
<1>6. CASE StopForCoreUpdate
  BY <1>2, <1>6 DEF StopForCoreUpdate, PostStop, Books
<1>7. ASSUME NEW s \in Servers, ChangeServer(s) PROVE Duty' /\ Books' /\ Policing'
  BY <1>7 DEF ChangeServer, Duty, Books, Policing, coreVars, proxyVars, ProxyType, StoppingHasKill
<1> QED BY <1>1, <1>3, <1>4, <1>5, <1>6, <1>7 DEF Host

LEMMA ProbeIInv == IInv /\ (ListenAnswered \/ GateAnswered) => IInv'
<1> SUFFICES ASSUME Duty, Books, Policing, ListenAnswered \/ GateAnswered
             PROVE  Duty' /\ Books' /\ Policing'
  BY IInvParts, PTL
<1>1. ASSUME NEW E \in SUBSET Event, StopStaleSession(E) PROVE Duty' /\ Books' /\ Policing'
  <2>1. Books'
    BY <1>1 DEF StopStaleSession, StopInternal, Books, PostStop
  <2> QED BY <1>1, <2>1, StopInternalDuty DEF StopStaleSession, Duty, Words
<1>2. ASSUME NEW E \in SUBSET Event, Fail(E) PROVE Duty' /\ Books' /\ Policing'
  <2>1. Duty'
    BY <1>2, FailStartupDuty DEF Fail, Duty, ProxyType
  <2> QED BY <1>2, <2>1 DEF Fail, Books, Policing
<1>3. ASSUME NEW E \in SUBSET Event, Ignore(E) PROVE Duty' /\ Books' /\ Policing'
  BY <1>3 DEF Ignore, Duty, Books, Policing, coreVars, proxyVars, ProxyType, StoppingHasKill
<1>4. ASSUME NEW E \in SUBSET Event, phase # "Stopping", ApplySystemProxy(E)
      PROVE  Duty' /\ Books' /\ Policing'
  BY <1>4, ApplySystemProxyDuty DEF ApplySystemProxy, Books, Policing
<1>5. CASE ListenAnswered
  <2>1. PICK e \in pending : e.kind = "listen" /\ LET rest == pending \ {e} IN
            \/ IF e.fresh /\ Running /\ phase # "Stopping"
               THEN StopStaleSession(rest) ELSE Ignore(rest)
            \/ Fail(rest)
            \/ IF phase # "StartCoreProcess" \/ ~Running
               THEN Ignore(rest)
               ELSE \/ /\ phase = "StartCoreProcess" /\ phase' = "CheckOutboundConnection"
                       /\ pending' = rest \cup {[e EXCEPT !.kind = "gate"]}
                       /\ UNCHANGED <<request, coreVars, tunClean, post, crash, proxyVars,
                                      reachable, server, have, lastWord>>
                    \/ ApplySystemProxy(rest)
    BY <1>5 DEF ListenAnswered
  <2>2. pending \ {e} \in SUBSET Event /\ e \in Probe
    BY <2>1 DEF Duty, Event, Download, Cleanup, Timer
  <2>3. ASSUME phase = "StartCoreProcess", phase' = "CheckOutboundConnection",
               pending' = (pending \ {e}) \cup {[e EXCEPT !.kind = "gate"]},
               UNCHANGED <<request, coreVars, tunClean, post, crash, proxyVars,
                           reachable, server, have, lastWord>>
        PROVE  Duty' /\ Books' /\ Policing'
    <3>1. [e EXCEPT !.kind = "gate"] \in Event
      BY <2>2 DEF Event, Probe
    <3>2. phase' \in Phases /\ StoppingHasKill'
      BY <2>3 DEF Duty, Phases, StoppingHasKill, coreVars
    <3> QED BY <2>2, <2>3, <3>1, <3>2 DEF Duty, Books, Policing, coreVars, proxyVars, ProxyType
  <2> QED BY <2>1, <2>2, <2>3, <1>1, <1>2, <1>3, <1>4
<1>6. CASE GateAnswered
  <2>1. PICK e \in pending : LET rest == pending \ {e} IN
            \/ Ignore(rest)
            \/ StopStaleSession(rest)
            \/ phase # "Stopping" /\ ApplySystemProxy(rest)
            \/ Fail(rest)
    BY <1>6 DEF GateAnswered, GateIgnored
  <2>2. pending \ {e} \in SUBSET Event
    BY DEF Duty
  <2> QED BY <2>1, <2>2, <1>1, <1>2, <1>3, <1>4
<1> QED BY <1>5, <1>6

LEMMA CancelDuty == ASSUME Duty, NEW E \in SUBSET Event, Cancel(E) PROVE Duty'
BY DEF Duty, Cancel, CancelActivation, coreVars, proxyVars, ProxyType, Phases, StoppingHasKill

LEMMA DownloadIInv == IInv /\ DownloadFinished => IInv'
<1> SUFFICES ASSUME Duty, Books, Policing, DownloadFinished PROVE Duty' /\ Books' /\ Policing'
  BY IInvParts, PTL
<1>1. PICK e \in pending, ok \in BOOLEAN :
          /\ e.kind \in {"core", "geo"}
          /\ UNCHANGED <<request, tunClean, post, server>>
          /\ have' = IF ok THEN [have EXCEPT ![e.server] = @ \cup {e.kind}] ELSE have
          /\ LET rest == pending \ {e} IN
             \/ Reject(rest, lastWord) /\ UNCHANGED crash
             \/ Cancel(rest) /\ UNCHANGED crash
             \/ FailStartup(reg, snap, aux, rest) /\ UNCHANGED crash
             \/ ResumeStart(rest)
  BY DEF DownloadFinished
<1>2. pending \ {e} \in SUBSET Event /\ e \in Download
  BY <1>1 DEF Duty, Event, Probe, Cleanup, Timer
<1>3. Books'
  BY <1>1, <1>2 DEF Books, Download
<1>4. Duty' /\ crash' \in Policy
  BY <1>1, <1>2, RejectDuty, CancelDuty, FailStartupDuty, ResumeStartDuty
     DEF Duty, Policing, ProxyType
<1> QED BY <1>1, <1>3, <1>4 DEF Policing

LEMMA ExitIInv ==
    IInv /\ (MainStopped \/ AuxStopped \/ Crashes) => IInv'
<1> SUFFICES ASSUME Duty, Books, Policing, MainStopped \/ AuxStopped \/ Crashes
             PROVE  Duty' /\ Books' /\ Policing'
  BY IInvParts, PTL
<1> USE DEF Duty
<1>1. CASE MainStopped
  <2>1. pending' \in SUBSET Event
    <3>1. [kind |-> "tunStop", post |-> post] \in Event
      BY DEF Event, Cleanup, Books
    <3> QED BY <1>1, <3>1, AfterStopEvents DEF MainStopped
  <2>2. ProxyType'
    BY <1>1, ClearAppliedType DEF MainStopped
  <2>3. Books' /\ Policing'
    BY <1>1 DEF MainStopped, Books, Policing, PostStop, CleanStates
  <2> QED BY <1>1, <2>1, <2>2, <2>3 DEF MainStopped, CoreState, Phases, StoppingHasKill
<1>2. CASE AuxStopped
  BY <1>2 DEF AuxStopped, Books, Policing, CoreState, proxyVars, ProxyType, StoppingHasKill
<1>3. ASSUME NEW e \in Exit, MainCrashed(e) PROVE Duty' /\ Books' /\ Policing'
  <2>1. [kind |-> "crashTimer"] \in Event
    BY DEF Event, Timer
  <2>2. ProxyType'
    BY <1>3, ClearAppliedType DEF MainCrashed
  <2>3. Books' /\ Policing'
    BY <1>3, PolicyKept DEF MainCrashed, Books, Policing
  <2> QED BY <1>3, <2>1, <2>2, <2>3 DEF MainCrashed, CoreState, Phases, StoppingHasKill, Words
<1>4. ASSUME NEW e \in Exit, AuxCrashed(e) PROVE Duty' /\ Books' /\ Policing'
  <2>1. [kind |-> "auxTimer"] \in Event
    BY DEF Event, Timer
  <2>2. ProxyType'
    BY <1>4 DEF AuxCrashed, ProxyType
  <2>3. Books' /\ Policing'
    BY <1>4, PolicyKept DEF AuxCrashed, Books, Policing
  <2> QED BY <1>4, <2>1, <2>2, <2>3 DEF AuxCrashed, CoreState, StoppingHasKill, Words
<1> QED BY <1>1, <1>2, <1>3, <1>4 DEF Crashes

LEMMA TimerIInv == IInv /\ Timers => IInv'
<1> SUFFICES ASSUME Duty, Books, Policing, Timers PROVE Duty' /\ Books' /\ Policing'
  BY IInvParts, PTL
<1>1. \A e \in pending : pending \ {e} \in SUBSET Event
  BY DEF Duty
<1>2. CASE CrashTimerFires
  <2>1. Books'
    BY <1>2 DEF CrashTimerFires, Books
  <2>2. CASE request.tun
    <3>1. [kind |-> "tunCrash", post |-> "none"] \in Event
      BY DEF Event, Cleanup, PostStop
    <3>2. pending' \in SUBSET Event /\ tunClean' \in CleanStates
      BY <1>1, <1>2, <2>2, <3>1 DEF CrashTimerFires, Policing, CleanStates
    <3>3. UNCHANGED <<phase, coreVars, crash, proxyVars, reachable, lastWord>>
      BY <1>2, <2>2 DEF CrashTimerFires
    <3> QED BY <2>1, <3>2, <3>3
            DEF Duty, Policing, coreVars, proxyVars, ProxyType, StoppingHasKill
  <2>3. CASE ~request.tun
    <3>1. PICK e \in pending : StartInternal(request, pending \ {e}, lastWord)
      BY <1>2, <2>3 DEF CrashTimerFires
    <3>2. server' \in Servers
      BY <2>1 DEF Books
    <3> QED BY <1>1, <2>1, <3>1, <3>2, StartInternalDuty DEF Duty, Books
  <2> QED BY <2>2, <2>3
<1>3. CASE OtherTimerFires
  <2>1. Books'
    BY <1>3 DEF OtherTimerFires, Books
  <2>2. PICK e \in pending : StartInternal(request, pending \ {e}, lastWord)
    BY <1>3 DEF OtherTimerFires
  <2>3. server' \in Servers
    BY <2>1 DEF Books
  <2> QED BY <1>1, <2>1, <2>2, <2>3, StartInternalDuty DEF Duty, Books
<1>4. CASE SwitchTimerFires
  <2>1. Books'
    BY <1>4 DEF SwitchTimerFires, Books
  <2>2. PICK e \in pending :
            \/ StartInternal(request, pending \ {e}, "start")
            \/ Reject(pending \ {e}, lastWord) /\ UNCHANGED <<tunClean, crash>>
    BY <1>4 DEF SwitchTimerFires
  <2>3. server' \in Servers
    BY <2>1 DEF Books
  <2>4. CASE StartInternal(request, pending \ {e}, "start")
    BY <1>1, <2>1, <2>3, <2>4, StartInternalDuty DEF Books, Words
  <2>5. CASE Reject(pending \ {e}, lastWord) /\ UNCHANGED <<tunClean, crash>>
    BY <1>1, <2>1, <2>5, RejectDuty DEF Duty, Policing
  <2> QED BY <2>2, <2>4, <2>5
<1> QED BY <1>2, <1>3, <1>4 DEF Timers

LEMMA CleanupIInv == IInv /\ (TunStartCleaned \/ TunStopCleaned \/ TunCrashCleaned) => IInv'
<1> SUFFICES ASSUME Duty, Books, Policing, TunStartCleaned \/ TunStopCleaned \/ TunCrashCleaned
             PROVE  Duty' /\ Books' /\ Policing'
  BY IInvParts, PTL
<1>1. \A e \in pending : pending \ {e} \in SUBSET Event
  BY DEF Duty
<1>2. Books' /\ tunClean' \in CleanStates
  BY DEF TunStartCleaned, TunStopCleaned, TunCrashCleaned, Books, CleanStates
<1>3. CASE TunStartCleaned
  <2>1. PICK e \in pending :
            \/ ResumeStart(pending \ {e})
            \/ Cancel(pending \ {e}) /\ UNCHANGED crash
            \/ FailStartup(reg, snap, aux, pending \ {e}) /\ UNCHANGED crash
    BY <1>3 DEF TunStartCleaned
  <2>2. request' = request /\ server' = server
    BY <1>3 DEF TunStartCleaned
  <2>3. Duty' /\ crash' \in Policy
    BY <1>1, <2>1, <2>2, ResumeStartDuty, CancelDuty, FailStartupDuty DEF Duty, ProxyType, Policing
  <2> QED BY <1>2, <2>3 DEF Policing
<1>4. CASE TunStopCleaned
  <2>1. pending' \in SUBSET Event
    BY <1>4, AfterStopEvents DEF TunStopCleaned, Duty
  <2> QED BY <1>2, <1>4, <2>1
          DEF TunStopCleaned, Duty, Policing, coreVars, proxyVars, ProxyType, StoppingHasKill
<1>5. CASE TunCrashCleaned
  <2>1. PICK e \in pending :
            \/ ResumeStart(pending \ {e})
            \/ Reject(pending \ {e}, lastWord) /\ UNCHANGED crash
    BY <1>5 DEF TunCrashCleaned
  <2>2. request' = request /\ server' = server
    BY <1>5 DEF TunCrashCleaned
  <2>3. Duty' /\ crash' \in Policy
    BY <1>1, <2>1, <2>2, ResumeStartDuty, RejectDuty DEF Duty, Policing
  <2> QED BY <1>2, <2>3 DEF Policing
<1> QED BY <1>3, <1>4, <1>5

LEMMA NextIInv == IInv /\ [Next]_vars => IInv'
<1>1. IInv /\ UNCHANGED vars => IInv'
  BY DEF IInv, TypeOK, StoppingHasKill, vars
<1>2. IInv /\ Next => IInv'
  BY HostIInv, ProbeIInv, DownloadIInv, CleanupIInv, TimerIInv, ExitIInv DEF Next, Answers
<1> QED BY <1>1, <1>2

\* Every variable keeps its type: in particular the counters stay within the crash
\* policy's budgets and nothing waits for an answer that no handler knows.
THEOREM TypeCorrect == Spec => []TypeOK
<1>1. IInv => TypeOK
  BY DEF IInv
<1> QED BY <1>1, InitIInv, NextIInv, PTL DEF Spec

\* However a stop came about, and whatever answers late while it is under way, a
\* session that says Stopping has a core on its way out to wait for.
THEOREM StoppingHasKillAlways == Spec => []StoppingHasKill
<1>1. IInv => StoppingHasKill
  BY DEF IInv
<1> QED BY <1>1, InitIInv, NextIInv, PTL DEF Spec

-------------------------------------------------------------------------------
(***************************************************************************)
(* The system proxy.  Of all that a step may do, only four things touch    *)
(* it; each invariant about it then has five cases and not seventeen.      *)
(***************************************************************************)
ProxyUntouched == UNCHANGED <<managed, reg, snap>>
ClaimDropped == managed' = FALSE /\ UNCHANGED <<reg, snap>>
StartupFailed == \E a, E : FailStartup(reg, snap, a, E)

ProxyStep == \/ ProxyUntouched
             \/ ClaimDropped
             \/ \E keep : ClearApplied(keep)
             \/ StartupFailed
             \/ \E E : ApplySystemProxy(E)

LEMMA ProceedProxy ==
    ASSUME NEW r, NEW E, NEW word, Proceed(r, E, word)
    PROVE  ProxyUntouched \/ StartupFailed
BY DEF Proceed, Fetch, Launch, proxyVars, ProxyUntouched, StartupFailed

LEMMA StartInternalProxy ==
    ASSUME NEW r, NEW E, NEW word, StartInternal(r, E, word)
    PROVE  ProxyUntouched \/ StartupFailed
<1>1. CASE Reject(E, word)
  BY <1>1 DEF Reject, proxyVars, ProxyUntouched
<1>2. CASE AwaitCleanup(BeginAttempt(E), word)
  BY <1>2 DEF AwaitCleanup, proxyVars, ProxyUntouched
<1>3. CASE FailStartup(reg, snap, aux, BeginAttempt(E))
  BY <1>3 DEF StartupFailed
<1>4. CASE Proceed(r, BeginAttempt(E), word)
  BY <1>4, ProceedProxy
<1> QED BY <1>1, <1>2, <1>3, <1>4 DEF StartInternal

LEMMA ResumeStartProxy ==
    ASSUME NEW E, ResumeStart(E)
    PROVE  ProxyUntouched \/ StartupFailed
<1>1. CASE Reject(E, lastWord)
  BY <1>1 DEF Reject, proxyVars, ProxyUntouched
<1>2. CASE Proceed(request, BeginAttempt(E), lastWord)
  BY <1>2, ProceedProxy
<1> QED BY <1>1, <1>2 DEF ResumeStart

LEMMA NextProxy == [Next]_vars => ProxyStep
<1> SUFFICES ASSUME [Next]_vars PROVE ProxyStep
  OBVIOUS
<1>1. CASE Host
  <2>1. ASSUME NEW r \in Requests, Start(r) PROVE ProxyStep
    BY <2>1, StartInternalProxy DEF Start, ProxyStep
  <2>2. ASSUME NEW keep, NEW E, StopInternal(keep, E) PROVE ProxyStep
    BY <2>2 DEF StopInternal, ProxyStep
  <2>3. ASSUME NEW s \in Servers, ChangeServer(s) PROVE ProxyStep
    BY <2>3 DEF ChangeServer, proxyVars, ProxyStep, ProxyUntouched
  <2> QED BY <1>1, <2>1, <2>2, <2>3
          DEF Host, Stop, RestartIfRunning, SwitchServer, StopForCoreUpdate, StopAndThen
<1>2. CASE ListenAnswered \/ GateAnswered
  <2>1. ASSUME NEW E, StopStaleSession(E) PROVE ProxyStep
    BY <2>1 DEF StopStaleSession, StopInternal, ProxyStep
  <2>2. ASSUME NEW E, Fail(E) PROVE ProxyStep
    BY <2>2 DEF Fail, ProxyStep, StartupFailed
  <2>3. ASSUME NEW E, Ignore(E) PROVE ProxyStep
    BY <2>3 DEF Ignore, proxyVars, ProxyStep, ProxyUntouched
  <2>4. ASSUME NEW E, ApplySystemProxy(E) PROVE ProxyStep
    BY <2>4 DEF ProxyStep
  <2>5. ASSUME UNCHANGED proxyVars PROVE ProxyStep
    BY <2>5 DEF proxyVars, ProxyStep, ProxyUntouched
  <2>6. CASE ListenAnswered
    BY <2>6, <2>1, <2>2, <2>3, <2>4, <2>5 DEF ListenAnswered
  <2>7. CASE GateAnswered
    BY <2>7, <2>1, <2>2, <2>3, <2>4 DEF GateAnswered
  <2> QED BY <1>2, <2>6, <2>7
<1>3. CASE DownloadFinished
  <2>1. \E E : Reject(E, lastWord) \/ Cancel(E) \/ FailStartup(reg, snap, aux, E) \/ ResumeStart(E)
    BY <1>3 DEF DownloadFinished
  <2> QED BY <2>1, ResumeStartProxy
          DEF Reject, Cancel, proxyVars, ProxyStep, ProxyUntouched, StartupFailed
<1>4. CASE TunStartCleaned \/ TunStopCleaned \/ TunCrashCleaned
  <2>1. \/ \E E : Reject(E, lastWord) \/ Cancel(E) \/ FailStartup(reg, snap, aux, E) \/ ResumeStart(E)
        \/ UNCHANGED proxyVars
    BY <1>4 DEF TunStartCleaned, TunStopCleaned, TunCrashCleaned
  <2> QED BY <2>1, ResumeStartProxy
          DEF Reject, Cancel, proxyVars, ProxyStep, ProxyUntouched, StartupFailed
<1>5. CASE Timers
  <2>1. \/ \E r, E, word : StartInternal(r, E, word)
        \/ \E E : Reject(E, lastWord)
        \/ UNCHANGED proxyVars
    BY <1>5 DEF Timers, CrashTimerFires, OtherTimerFires, SwitchTimerFires
  <2> QED BY <2>1, StartInternalProxy DEF Reject, proxyVars, ProxyStep, ProxyUntouched
<1>6. CASE Crashes
  <2>1. ASSUME NEW e \in Exit, MainCrashed(e) PROVE ProxyStep
    BY <2>1 DEF MainCrashed, ProxyStep
  <2>2. ASSUME NEW e \in Exit, AuxCrashed(e) PROVE ProxyStep
    BY <2>2 DEF AuxCrashed, ProxyStep, ClaimDropped, ProxyUntouched
  <2> QED BY <1>6, <2>1, <2>2 DEF Crashes
<1>7. CASE MainStopped \/ AuxStopped \/ UNCHANGED vars
  BY <1>7 DEF MainStopped, AuxStopped, vars, proxyVars, ProxyStep, ProxyUntouched
<1> QED BY <1>1, <1>2, <1>3, <1>4, <1>5, <1>6, <1>7 DEF Next, Answers

-------------------------------------------------------------------------------
\* Our settings are never captured as the user's; while they are in place there is
\* something to put back.
Restorable == snap # "ours" /\ (reg = "ours" => snap # "none")

LEMMA UndoRestorable ==
    ASSUME NEW r, NEW s, NEW keep, s # "ours", r = "ours" => s # "none", Undo(r, s, keep)
    PROVE  Restorable'
BY DEF Undo, Restorable

LEMMA FailStartupRestorable ==
    ASSUME NEW r, NEW s, NEW a, NEW E, s # "ours", r = "ours" => s # "none",
           FailStartup(r, s, a, E)
    PROVE  Restorable'
<1>1. CASE managed
  BY <1>1, UndoRestorable DEF FailStartup
<1>2. CASE ~managed
  BY <1>2 DEF FailStartup, Restorable
<1> QED BY <1>1, <1>2

\* Provided only that the settings can be read, what the user had is known for as long
\* as ours are in place, however often writing fails on the way.
THEOREM RestorePossibleAlways ==
    ASSUME "read" \notin Faults
    PROVE  Spec => []RestorePossible
<1>1. Init => Restorable
  BY DEF Init, Restorable
<1>2. IInv /\ Restorable /\ [Next]_vars => Restorable'
  <2> SUFFICES ASSUME IInv, Restorable, ProxyStep PROVE Restorable'
    BY NextProxy
  <2>1. CASE ProxyUntouched \/ ClaimDropped
    BY <2>1 DEF ProxyUntouched, ClaimDropped, Restorable
  <2>2. CASE \E keep : ClearApplied(keep)
    BY <2>2, UndoRestorable DEF ClearApplied, Restorable
  <2>3. CASE StartupFailed
    BY <2>3, FailStartupRestorable DEF StartupFailed, Restorable
  <2>4. ASSUME NEW E, ApplySystemProxy(E) PROVE Restorable'
    <3>1. CASE FailStartup(reg, snap, aux, E)
      BY <3>1, FailStartupRestorable DEF Restorable
    <3>2. CASE \E s \in IF snap # "none" THEN {snap} ELSE {reg} :
                   \/ reg' = "ours" /\ snap' = s
                   \/ FailStartup(s, "none", aux, E)
                   \/ \E r \in {reg, "ours"} : FailStartup(r, s, aux, E)
      <4>1. PICK s \in IF snap # "none" THEN {snap} ELSE {reg} :
                   \/ reg' = "ours" /\ snap' = s
                   \/ FailStartup(s, "none", aux, E)
                   \/ \E r \in {reg, "ours"} : FailStartup(r, s, aux, E)
        BY <3>2
      <4>2. s # "ours"
        BY DEF Restorable
      <4>3. s # "none"
        BY DEF IInv, TypeOK
      <4> QED BY <4>1, <4>2, <4>3, FailStartupRestorable DEF Restorable
    <3> QED BY <2>4, <3>1, <3>2 DEF ApplySystemProxy
  <2> QED BY <2>1, <2>2, <2>3, <2>4 DEF ProxyStep
<1>3. Restorable => RestorePossible
  BY DEF Restorable, RestorePossible
<1> QED BY <1>1, <1>2, <1>3, InitIInv, NextIInv, PTL DEF Spec

-------------------------------------------------------------------------------
\* When the settings can be read and applied: what is in place is ours or the user's,
\* and as long as it is ours, or claimed to be, the user's is kept beside it.  A claim on
\* the user's own settings is what a half-way undo leaves behind.
Kept == /\ snap \in {"none", UserProxy}
        /\ reg \in {UserProxy, "ours"}
        /\ managed \/ reg = "ours" => snap = UserProxy

\* However often undoing fails, every sequence of starts, failures, crashes, restarts and
\* stops leaves the user's own proxy as it was whenever ours is not in place.
THEOREM UserProxyKeptAlways ==
    ASSUME Faults \subseteq {"undo"}
    PROVE  Spec => []UserProxyKept
<1>1. Init => Kept
  BY DEF Init, Kept
<1>2. Kept /\ [Next]_vars => Kept'
  <2> SUFFICES ASSUME Kept, ProxyStep PROVE Kept'
    BY NextProxy
  <2>0. UserProxy # "none"
    BY UserProxyAssumption
  <2>1. CASE ProxyUntouched \/ ClaimDropped
    BY <2>1 DEF ProxyUntouched, ClaimDropped, Kept
  <2>2. ASSUME NEW keep, managed, Undo(reg, snap, keep) PROVE Kept'
    BY <2>0, <2>2 DEF Undo, Kept
  <2>3. ASSUME NEW keep, ClearApplied(keep) PROVE Kept'
    BY <2>2, <2>3 DEF ClearApplied, Kept
  <2>4. ASSUME NEW a, NEW E, FailStartup(reg, snap, a, E) PROVE Kept'
    BY <2>2, <2>4 DEF FailStartup, Kept
  <2>5. ASSUME NEW E, ApplySystemProxy(E) PROVE Kept'
    <3>1. CASE FailStartup(reg, snap, aux, E)
      BY <2>4, <3>1
    <3>2. CASE \E s \in IF snap # "none" THEN {snap} ELSE {reg} :
                   reg' = "ours" /\ snap' = s
      BY <2>0, <3>2 DEF Kept
    <3> QED BY <2>5, <3>1, <3>2 DEF ApplySystemProxy
  <2> QED BY <2>1, <2>3, <2>4, <2>5 DEF ProxyStep, StartupFailed
<1>3. Kept => UserProxyKept
  BY DEF Kept, UserProxyKept
<1> QED BY <1>1, <1>2, <1>3, PTL DEF Spec

-------------------------------------------------------------------------------
(***************************************************************************)
(* The removals of the TUN adapter.  A step leaves them as they are,       *)
(* begins one where there was none, or takes the answer of one.            *)
(***************************************************************************)
Removals(E) == E \cap Cleanup

RemovalsKept(E) == /\ Removals(pending') = Removals(E)
                   /\ tunClean' = "Idle" <=> tunClean = "Idle"
RemovalBegun(E) == /\ tunClean = "Idle" /\ tunClean' # "Idle"
                   /\ \E c \in Cleanup : Removals(pending') = Removals(E) \cup {c}
RemovalEnded == /\ tunClean' = "Idle"
                /\ \E c \in Removals(pending) : Removals(pending') = Removals(pending) \ {c}

RemovalStep == RemovalsKept(pending) \/ RemovalBegun(pending) \/ RemovalEnded

LEMMA KindsApart == \A e \in Cleanup : e \notin Probe /\ e \notin Download /\ e \notin Timer
BY DEF Cleanup, Probe, Download, Timer

LEMMA RemovalSets ==
    ASSUME NEW E \in SUBSET Event
    PROVE  /\ Removals(CancelRestarts(E)) = Removals(E)
           /\ Removals(CancelTimers(E)) = Removals(E)
           /\ Removals(Stale(E)) = Removals(E)
           /\ Removals(Revoked(E)) = Removals(E)
           /\ \A e \in Event : e \notin Cleanup => /\ Removals(E \cup {e}) = Removals(E)
                                                  /\ Removals(E \ {e}) = Removals(E)
<1>1. /\ Removals(CancelRestarts(E)) = Removals(E)
      /\ Removals(CancelTimers(E)) = Removals(E)
  BY DEF Removals, CancelRestarts, CancelTimers, Cleanup
<1>2. Removals(Stale(E)) = Removals(E)
  <2>1. ASSUME NEW e \in Probe PROVE [e EXCEPT !.fresh = FALSE] \notin Cleanup
    BY DEF Probe, Cleanup
  <2>2. \A e \in E : e.kind \in {"listen", "gate"} => e \in Probe
    BY DEF Event, Download, Cleanup, Timer
  <2>3. \A e \in Removals(E) : e.kind \notin {"listen", "gate"}
    BY DEF Removals, Cleanup
  <2>4. \A e \in E : IF e.kind \in {"listen", "gate"}
                     THEN e \notin Cleanup /\ [e EXCEPT !.fresh = FALSE] \notin Cleanup
                     ELSE TRUE
    BY <2>1, <2>2, <2>3 DEF Removals
  <2> QED BY <2>3, <2>4, Zenon DEF Removals, Stale
<1>3. Removals(Revoked(E)) = Removals(E)
  <2>1. ASSUME NEW e \in Download PROVE [e EXCEPT !.live = FALSE] \notin Cleanup
    <3>1. [e EXCEPT !.live = FALSE].kind \in {"core", "geo"}
      BY DEF Download
    <3> QED BY <3>1 DEF Cleanup
  <2>2. \A e \in E : e.kind = "core" => e \in Download
    BY DEF Event, Probe, Cleanup, Timer
  <2>3. \A e \in Removals(E) : e.kind # "core"
    BY DEF Removals, Cleanup
  <2>4. \A e \in E : e.kind = "core"
                     => e \notin Cleanup /\ [e EXCEPT !.live = FALSE] \notin Cleanup
    BY <2>1, <2>2, <2>3 DEF Removals
  <2> QED BY <2>3, <2>4, Zenon DEF Removals, Revoked
<1>4. \A e \in Event : e \notin Cleanup => /\ Removals(E \cup {e}) = Removals(E)
                                          /\ Removals(E \ {e}) = Removals(E)
  BY DEF Removals
<1> QED BY <1>1, <1>2, <1>3, <1>4

LEMMA AttemptRemovals ==
    ASSUME NEW E \in SUBSET Event
    PROVE  Removals(BeginAttempt(E)) = Removals(E)
<1>1. (IF Activating THEN E ELSE Revoked(E)) \in SUBSET Event
  BY EventSets
<1>2. Removals(IF Activating THEN E ELSE Revoked(E)) = Removals(E)
  BY RemovalSets
<1> QED BY <1>1, <1>2, RemovalSets DEF BeginAttempt

LEMMA ProceedRemovals ==
    ASSUME NEW r, NEW E \in SUBSET Event, NEW word, server' \in Servers, Proceed(r, E, word)
    PROVE  Removals(pending') = Removals(E)
<1>1. ASSUME NEW a, FailStartup(reg, snap, a, E) PROVE Removals(pending') = Removals(E)
  BY <1>1, RemovalSets DEF FailStartup
<1>2. ASSUME NEW k \in Missing, Fetch(k, E, word) PROVE Removals(pending') = Removals(E)
  <2>1. PICK n \in 1..MaxDownloads :
            pending' = E \cup {[kind |-> k, server |-> server', live |-> TRUE, n |-> n]}
    BY <1>2 DEF Fetch
  <2>2. [kind |-> k, server |-> server', live |-> TRUE, n |-> n] \in Download
    BY DEF Download, Missing
  <2> QED BY <2>1, <2>2, KindsApart, RemovalSets DEF Event
<1>3. CASE Launch(r, E, word)
  <2>1. [kind |-> "listen", server |-> server', fresh |-> TRUE] \in Probe
    BY DEF Probe
  <2>2. Stale(E) \in SUBSET Event /\ Removals(Stale(E)) = Removals(E)
    BY EventSets, RemovalSets
  <2>3. pending' = Stale(E) \cup {[kind |-> "listen", server |-> server', fresh |-> TRUE]}
    BY <1>3 DEF Launch
  <2> QED BY <2>1, <2>2, <2>3, KindsApart DEF Removals
<1> QED BY <1>1, <1>2, <1>3 DEF Proceed

LEMMA ResumeStartRemovals ==
    ASSUME NEW E \in SUBSET Event, server' \in Servers, ResumeStart(E)
    PROVE  Removals(pending') = Removals(E)
<1>1. BeginAttempt(E) \in SUBSET Event /\ Removals(BeginAttempt(E)) = Removals(E)
  BY BeginAttemptEvents, AttemptRemovals
<1> QED BY <1>1, ProceedRemovals DEF ResumeStart, Reject

LEMMA StartInternalRemovals ==
    ASSUME NEW r, NEW E \in SUBSET Event, NEW word, server' \in Servers, StartInternal(r, E, word)
    PROVE  RemovalsKept(E) \/ RemovalBegun(E)
<1>1. BeginAttempt(E) \in SUBSET Event /\ Removals(BeginAttempt(E)) = Removals(E)
  BY BeginAttemptEvents, AttemptRemovals
<1>2. CASE Reject(E, word) /\ UNCHANGED tunClean
  BY <1>2 DEF Reject, RemovalsKept
<1>3. CASE AwaitCleanup(BeginAttempt(E), word)
  <2>1. [kind |-> "tunStart", post |-> "none"] \in Cleanup
    BY DEF Cleanup, PostStop
  <2>2. CASE tunClean = "Idle"
    BY <1>1, <1>3, <2>1, <2>2 DEF AwaitCleanup, CanClean, RemovalBegun, Removals
  <2>3. CASE tunClean # "Idle"
    BY <1>1, <1>3, <2>3 DEF AwaitCleanup, CanClean, RemovalsKept
  <2> QED BY <2>2, <2>3
<1>4. CASE FailStartup(reg, snap, aux, BeginAttempt(E)) /\ UNCHANGED tunClean
  BY <1>1, <1>4, RemovalSets DEF FailStartup, RemovalsKept
<1>5. CASE Proceed(r, BeginAttempt(E), word) /\ UNCHANGED tunClean
  BY <1>1, <1>5, ProceedRemovals DEF RemovalsKept
<1> QED BY <1>2, <1>3, <1>4, <1>5 DEF StartInternal

LEMMA TakenRemovals ==
    ASSUME Duty, NEW e \in pending
    PROVE  /\ pending \ {e} \in SUBSET Event
           /\ e \notin Cleanup => Removals(pending \ {e}) = Removals(pending)
           /\ e \in Cleanup => /\ e \in Removals(pending)
                               /\ Removals(pending \ {e}) = Removals(pending) \ {e}
BY DEF Duty, Removals

LEMMA NextRemovals == ASSUME IInv, [Next]_vars PROVE RemovalStep
<1> DEFINE Untouched == UNCHANGED <<tunClean, pending>>
<1>1. Duty /\ Books
  BY IInvParts
<1>2. server' \in Servers
  <2>1. IInv'
    BY NextIInv
  <2> QED BY <2>1 DEF IInv, TypeOK
<1>3. ASSUME Untouched PROVE RemovalStep
  BY <1>3 DEF RemovalStep, RemovalsKept
<1>4. ASSUME NEW E \in SUBSET Event, Removals(E) = Removals(pending),
             RemovalsKept(E) \/ RemovalBegun(E)
      PROVE  RemovalStep
  BY <1>4 DEF RemovalStep, RemovalsKept, RemovalBegun
<1>5. ASSUME NEW E \in SUBSET Event, Removals(E) = Removals(pending),
             NEW keep, StopInternal(keep, E)
      PROVE  RemovalStep
  BY <1>5, RemovalSets DEF StopInternal, RemovalStep, RemovalsKept
<1>6. pending \in SUBSET Event
  BY <1>1 DEF Duty
<1>7. CASE Host
  <2>1. ASSUME NEW r \in Requests, Start(r) PROVE RemovalStep
    BY <2>1, <1>2, <1>4, <1>6, StartInternalRemovals DEF Start
  <2>2. ASSUME NEW s \in Servers, ChangeServer(s) PROVE RemovalStep
    BY <2>2, <1>3 DEF ChangeServer
  <2> QED BY <1>7, <2>1, <2>2, <1>5, <1>6
          DEF Host, Stop, RestartIfRunning, SwitchServer, StopForCoreUpdate, StopAndThen
<1>8. CASE ListenAnswered \/ GateAnswered
  <2>1. PICK e \in pending : LET rest == pending \ {e} IN
            /\ e.kind \in {"listen", "gate"}
            /\ \/ StopStaleSession(rest)
               \/ Ignore(rest)
               \/ Fail(rest)
               \/ ApplySystemProxy(rest)
               \/ pending' = rest \cup {[e EXCEPT !.kind = "gate"]} /\ UNCHANGED tunClean
    BY <1>8 DEF ListenAnswered, GateAnswered
  <2>2. e \notin Cleanup /\ e \in Probe
    BY <1>6, <2>1 DEF Event, Download, Cleanup, Timer
  <2>3. pending \ {e} \in SUBSET Event /\ Removals(pending \ {e}) = Removals(pending)
    BY <1>1, <2>2, TakenRemovals
  <2>4. [e EXCEPT !.kind = "gate"] \notin Cleanup
    BY <2>2 DEF Probe, Cleanup
  <2>5. CASE StopStaleSession(pending \ {e})
    BY <2>3, <2>5, <1>5 DEF StopStaleSession
  <2>6. CASE Ignore(pending \ {e})
    BY <2>3, <2>6 DEF Ignore, RemovalStep, RemovalsKept
  <2>7. CASE Fail(pending \ {e})
    BY <2>3, <2>7, RemovalSets DEF Fail, FailStartup, RemovalStep, RemovalsKept
  <2>8. CASE ApplySystemProxy(pending \ {e})
    <3>1. UNCHANGED tunClean
      BY <2>8 DEF ApplySystemProxy
    <3>2. pending' = pending \ {e} \/ pending' = CancelTimers(pending \ {e})
      BY <2>8 DEF ApplySystemProxy, FailStartup
    <3> QED BY <3>1, <3>2, <2>3, RemovalSets DEF RemovalStep, RemovalsKept
  <2>9. CASE pending' = (pending \ {e}) \cup {[e EXCEPT !.kind = "gate"]} /\ UNCHANGED tunClean
    BY <2>3, <2>4, <2>9 DEF Removals, RemovalStep, RemovalsKept
  <2> QED BY <2>1, <2>5, <2>6, <2>7, <2>8, <2>9
<1>9. CASE DownloadFinished
  <2>1. PICK e \in pending : LET rest == pending \ {e} IN
            /\ e.kind \in {"core", "geo"}
            /\ Reject(rest, lastWord) \/ Cancel(rest) \/ FailStartup(reg, snap, aux, rest)
               \/ ResumeStart(rest)
    BY <1>9 DEF DownloadFinished
  <2>2. e \notin Cleanup
    BY <2>1 DEF Cleanup
  <2>3. pending \ {e} \in SUBSET Event /\ Removals(pending \ {e}) = Removals(pending)
    BY <1>1, <2>2, TakenRemovals
  <2>4. Removals(pending') = Removals(pending \ {e})
    BY <1>2, <2>1, <2>3, RemovalSets, ResumeStartRemovals DEF Reject, Cancel, FailStartup
  <2> QED BY <1>9, <2>3, <2>4 DEF DownloadFinished, RemovalStep, RemovalsKept
<1>10. CASE TunStartCleaned \/ TunStopCleaned \/ TunCrashCleaned
  <2>1. PICK e \in pending : LET rest == pending \ {e} IN
            /\ e.kind \in {"tunStart", "tunStop", "tunCrash"}
            /\ \/ Reject(rest, lastWord) \/ Cancel(rest) \/ FailStartup(reg, snap, aux, rest)
               \/ ResumeStart(rest)
               \/ pending' = rest \cup AfterStop(e.post)
               \/ pending' = rest \cup {}
    BY <1>10 DEF TunStartCleaned, TunStopCleaned, TunCrashCleaned
  <2>2. e \in Cleanup
    BY <1>6, <2>1 DEF Event, Probe, Download, Timer
  <2>3. /\ pending \ {e} \in SUBSET Event
        /\ e \in Removals(pending) /\ Removals(pending \ {e}) = Removals(pending) \ {e}
    BY <1>1, <2>2, TakenRemovals
  <2>4. AfterStop(e.post) \in SUBSET Timer
    BY DEF AfterStop, Timer
  <2>5. Removals(pending') = Removals(pending \ {e})
    <3>1. CASE pending' = (pending \ {e}) \cup AfterStop(e.post)
      BY <2>4, <3>1, KindsApart DEF Removals
    <3> QED BY <3>1, <1>2, <2>1, <2>3, RemovalSets, ResumeStartRemovals
            DEF Reject, Cancel, FailStartup
  <2>6. tunClean' = "Idle"
    BY <1>10 DEF TunStartCleaned, TunStopCleaned, TunCrashCleaned
  <2> QED BY <2>3, <2>5, <2>6 DEF RemovalStep, RemovalEnded
<1>11. CASE Timers
  <2>1. PICK e \in pending : LET rest == pending \ {e} IN
            /\ e.kind \in {"crashTimer", "auxTimer", "resumeTimer", "switchTimer"}
            /\ \/ \E r, word : StartInternal(r, rest, word)
               \/ Reject(rest, lastWord) /\ UNCHANGED tunClean
               \/ /\ tunClean = "Idle" /\ tunClean' = "Cleaning"
                  /\ pending' = rest \cup {[kind |-> "tunCrash", post |-> "none"]}
               \/ pending' = rest /\ UNCHANGED tunClean
    BY <1>11 DEF Timers, CrashTimerFires, OtherTimerFires, SwitchTimerFires, CanClean
  <2>2. e \notin Cleanup
    BY <2>1 DEF Cleanup
  <2>3. pending \ {e} \in SUBSET Event /\ Removals(pending \ {e}) = Removals(pending)
    BY <1>1, <2>2, TakenRemovals
  <2>4. CASE \E r, word : StartInternal(r, pending \ {e}, word)
    BY <1>2, <1>4, <2>3, <2>4, StartInternalRemovals
  <2>5. CASE /\ tunClean = "Idle" /\ tunClean' = "Cleaning"
             /\ pending' = (pending \ {e}) \cup {[kind |-> "tunCrash", post |-> "none"]}
    <3>1. [kind |-> "tunCrash", post |-> "none"] \in Cleanup
      BY DEF Cleanup, PostStop
    <3> QED BY <2>3, <2>5, <3>1 DEF RemovalStep, RemovalBegun, Removals
  <2>6. CASE pending' = pending \ {e} /\ UNCHANGED tunClean
    BY <2>3, <2>6 DEF RemovalStep, RemovalsKept
  <2> QED BY <2>1, <2>4, <2>5, <2>6 DEF Reject
<1>12. CASE Crashes
  <2>1. ASSUME NEW e \in Exit, MainCrashed(e) \/ AuxCrashed(e) PROVE RemovalStep
    <3>1. /\ UNCHANGED tunClean
          /\ pending' \in {pending, pending \cup {[kind |-> "crashTimer"]},
                           pending \cup {[kind |-> "auxTimer"]}}
      BY <2>1 DEF MainCrashed, AuxCrashed
    <3>2. [kind |-> "crashTimer"] \in Timer /\ [kind |-> "auxTimer"] \in Timer
      BY DEF Timer
    <3> QED BY <3>1, <3>2, KindsApart DEF Removals, RemovalStep, RemovalsKept
  <2> QED BY <1>12, <2>1 DEF Crashes
<1>13. CASE MainStopped
  <2>1. CASE tunAtStart /\ tunClean = "Idle"
    <3>1. [kind |-> "tunStop", post |-> post] \in Cleanup
      BY <1>1 DEF Cleanup, Books
    <3> QED BY <1>13, <2>1, <3>1
            DEF MainStopped, CanClean, RemovalStep, RemovalBegun, Removals
  <2>2. CASE ~(tunAtStart /\ tunClean = "Idle")
    <3>1. AfterStop(post) \in SUBSET Timer
      BY DEF AfterStop, Timer
    <3>2. UNCHANGED tunClean /\ pending' \in {pending, pending \cup AfterStop(post)}
      BY <1>13, <2>2 DEF MainStopped, CanClean
    <3> QED BY <3>1, <3>2, KindsApart DEF Removals, RemovalStep, RemovalsKept
  <2> QED BY <2>1, <2>2
<1>14. CASE AuxStopped \/ UNCHANGED vars
  BY <1>14, <1>3 DEF AuxStopped, vars
<1> QED BY <1>7, <1>8, <1>9, <1>10, <1>11, <1>12, <1>13, <1>14 DEF Next, Answers

\* Two removals of the adapter never run at once, and one that is recorded as running
\* is: the state cannot be left saying Cleaning with nobody left to say Idle again.
THEOREM OneCleanupAlways == Spec => []OneCleanup
<1>1. Init => OneCleanup
  BY DEF Init, OneCleanup
<1>2. OneCleanup <=> /\ tunClean # "Idle" <=> Removals(pending) # {}
                     /\ \A d, e \in Removals(pending) : d = e
  BY DEF OneCleanup, Removals
<1>3. IInv /\ OneCleanup /\ [Next]_vars => OneCleanup'
  <2> SUFFICES ASSUME OneCleanup, RemovalStep PROVE OneCleanup'
    BY NextRemovals
  <2>1. /\ tunClean' # "Idle" <=> Removals(pending') # {}
        /\ \A d, e \in Removals(pending') : d = e
    BY <1>2 DEF RemovalStep, RemovalsKept, RemovalBegun, RemovalEnded
  <2> QED BY <2>1 DEF OneCleanup, Removals
<1> QED BY <1>1, <1>3, InitIInv, NextIInv, PTL DEF Spec

-------------------------------------------------------------------------------
(***************************************************************************)
(* The session as a whole, where no server needs a relay core.  Of all     *)
(* that a step may do, five things bear on who serves the settings.        *)
(***************************************************************************)
NoRelay == \A r \in Requests : ~r.aux

BringingUp == {"EnvironmentCleanup", "ValidateCoreApplication", "ValidateRuntimeResources",
               "StartCoreProcess", "CheckOutboundConnection"}

\* Neither the core nor the settings change.  A phase other than Stopped is entered only
\* before there is a core, or from the one in which the core has just been launched.
Quiet == /\ UNCHANGED <<main, proxyVars>> /\ ~Reports
         /\ \/ UNCHANGED <<phase, reachable>>
            \/ phase' = "Stopped" /\ phase # "Stopping"
            \/ phase' \in BringingUp /\ (main = "none" \/ phase = "StartCoreProcess")

Launching == /\ main = "none" /\ main' = "running" /\ phase' = "StartCoreProcess"
             /\ UNCHANGED proxyVars /\ ~Reports

Ended(keep) == ClearApplied(keep) /\ main' # "running" /\ phase' \in {"Stopped", "Stopping"}

Applied(E) == main = "running" /\ phase \in BringingUp /\ ApplySystemProxy(E)

SessionStep == \/ Quiet
               \/ Launching
               \/ \E keep : Ended(keep)
               \/ StartupFailed
               \/ \E E : Applied(E)

\* A step of a session that has no relay core: it does not get one.
RelayFree == aux' = "none" /\ SessionStep

LEMMA FailStartupSession ==
    ASSUME aux = "none", NEW E, FailStartup(reg, snap, aux, E)
    PROVE  RelayFree
BY DEF FailStartup, Killed, RelayFree, SessionStep, StartupFailed

LEMMA RejectSession ==
    ASSUME aux = "none", NEW E, NEW word \in {"start", lastWord}, Reject(E, word)
    PROVE  RelayFree
BY DEF Reject, coreVars, Reports, RelayFree, SessionStep, Quiet

LEMMA CancelSession ==
    ASSUME aux = "none", NEW E, Cancel(E)
    PROVE  RelayFree
BY DEF Cancel, CancelActivation, coreVars, Reports, RelayFree, SessionStep, Quiet

LEMMA ProceedSession ==
    ASSUME NoRelay, aux = "none", main = "none", NEW r \in Requests, NEW E,
           NEW word \in {"start", lastWord}, Proceed(r, E, word)
    PROVE  RelayFree
<1>1. ~r.aux
  BY DEF NoRelay
<1>2. CASE FailStartup(reg, snap, aux, E)
  BY <1>2, FailStartupSession
<1>3. ASSUME NEW k, Fetch(k, E, word) PROVE RelayFree
  BY <1>3 DEF Fetch, coreVars, Reports, BringingUp, RelayFree, SessionStep, Quiet
<1>4. CASE Launch(r, E, word)
  BY <1>1, <1>4 DEF Launch, Killed, Reports, RelayFree, SessionStep, Launching
<1> QED BY <1>1, <1>2, <1>3, <1>4 DEF Proceed

LEMMA ResumeStartSession ==
    ASSUME NoRelay, aux = "none", request \in Requests, NEW E, ResumeStart(E)
    PROVE  RelayFree
<1>1. CASE Rejected /\ Reject(E, lastWord)
  BY <1>1, RejectSession
<1>2. CASE ~Rejected /\ Proceed(request, BeginAttempt(E), lastWord)
  BY <1>2, ProceedSession DEF Rejected, Running
<1> QED BY <1>1, <1>2 DEF ResumeStart

LEMMA StartInternalSession ==
    ASSUME NoRelay, aux = "none", NEW r \in Requests, NEW E,
           NEW word \in {"start", lastWord}, StartInternal(r, E, word)
    PROVE  RelayFree
<1>1. CASE Rejected
  BY <1>1, RejectSession DEF StartInternal
<1>2. CASE ~Rejected
  <2>1. main = "none"
    BY <1>2 DEF Rejected, Running
  <2>2. CASE AwaitCleanup(BeginAttempt(E), word)
    BY <2>1, <2>2
       DEF AwaitCleanup, coreVars, Reports, BringingUp, RelayFree, SessionStep, Quiet
  <2>3. CASE FailStartup(reg, snap, aux, BeginAttempt(E))
    BY <2>3, FailStartupSession
  <2>4. CASE Proceed(r, BeginAttempt(E), word)
    BY <2>1, <2>4, ProceedSession
  <2> QED BY <1>2, <2>2, <2>3, <2>4 DEF StartInternal
<1> QED BY <1>1, <1>2

LEMMA StopInternalSession ==
    ASSUME IInv, aux = "none", NEW keep, NEW E, StopInternal(keep, E)
    PROVE  RelayFree
<1>1. main' # "running" /\ aux' = "none"
  BY DEF StopInternal, Killed
<1>2. Ended(keep)
  BY <1>1 DEF StopInternal, EndPhase, Ended
<1> QED BY <1>1, <1>2 DEF RelayFree, SessionStep

\* Outside Stopping, a core that is there has not been told to go.
LEMMA ThereMeansRunning ==
    ASSUME IInv, Running, phase # "Stopping"
    PROVE  main = "running"
BY DEF IInv, TypeOK, StoppingHasKill, Running

LEMMA ApplySession ==
    ASSUME aux = "none", main = "running", phase \in BringingUp, NEW E, ApplySystemProxy(E)
    PROVE  RelayFree
<1>1. aux' = "none"
  BY DEF ApplySystemProxy, FailStartup, Killed, coreVars
<1> QED BY <1>1 DEF RelayFree, SessionStep, Applied

LEMMA NextSession ==
    ASSUME NoRelay, IInv, aux = "none", [Next]_vars
    PROVE  RelayFree
<1> USE DEF RelayFree
<1>1. request \in Requests
  BY DEF IInv, TypeOK
<1>2. ASSUME UNCHANGED <<phase, main, aux, proxyVars, reachable>>, lastWord' \in {"start", lastWord}
      PROVE  RelayFree
  BY <1>2 DEF Reports, SessionStep, Quiet
<1>3. CASE Host
  <2>1. ASSUME NEW r \in Requests, Start(r) PROVE RelayFree
    BY <2>1, StartInternalSession DEF Start
  <2>2. ASSUME NEW s \in Servers, ChangeServer(s) PROVE RelayFree
    BY <2>2, <1>2 DEF ChangeServer, coreVars
  <2>3. CASE Stop
    BY <2>3, StopInternalSession DEF Stop
  <2>4. ASSUME NEW action, NEW r, StopAndThen(action, r) PROVE RelayFree
    BY <2>4, StopInternalSession DEF StopAndThen
  <2> QED BY <1>3, <2>1, <2>2, <2>3, <2>4 DEF Host, RestartIfRunning, SwitchServer, StopForCoreUpdate
<1>4. ASSUME NEW E, StopStaleSession(E) PROVE RelayFree
  BY <1>4, StopInternalSession DEF StopStaleSession
<1>5. ASSUME NEW E, Fail(E) PROVE RelayFree
  BY <1>5, FailStartupSession DEF Fail
<1>6. ASSUME NEW E, Ignore(E) PROVE RelayFree
  BY <1>6, <1>2 DEF Ignore, coreVars
<1>7. CASE ListenAnswered
  <2>1. CASE \E E : StopStaleSession(E) \/ Fail(E) \/ Ignore(E)
    BY <2>1, <1>4, <1>5, <1>6
  <2>2. CASE /\ phase = "StartCoreProcess" /\ phase' = "CheckOutboundConnection"
             /\ UNCHANGED <<coreVars, proxyVars, lastWord>>
    BY <2>2 DEF coreVars, Reports, SessionStep, Quiet, BringingUp
  <2>3. CASE Running /\ phase = "StartCoreProcess" /\ \E E : ApplySystemProxy(E)
    BY <2>3, ThereMeansRunning, ApplySession DEF BringingUp
  <2> QED BY <1>7, <2>1, <2>2, <2>3 DEF ListenAnswered
<1>8. CASE GateAnswered
  <2>1. CASE \E E : StopStaleSession(E) \/ Fail(E) \/ Ignore(E)
    BY <2>1, <1>4, <1>5, <1>6
  <2>2. CASE Running /\ phase = "CheckOutboundConnection" /\ \E E : ApplySystemProxy(E)
    BY <2>2, ThereMeansRunning, ApplySession DEF BringingUp
  <2> QED BY <1>8, <2>1, <2>2 DEF GateAnswered, GateIgnored
<1>9. CASE DownloadFinished \/ TunStartCleaned \/ TunCrashCleaned
  <2>1. \E E : Reject(E, lastWord) \/ Cancel(E) \/ FailStartup(reg, snap, aux, E) \/ ResumeStart(E)
    BY <1>9 DEF DownloadFinished, TunStartCleaned, TunCrashCleaned
  <2> QED BY <2>1, <1>1, RejectSession, CancelSession, FailStartupSession, ResumeStartSession
<1>10. CASE TunStopCleaned
  BY <1>10, <1>2 DEF TunStopCleaned, coreVars
<1>11. CASE Timers
  <2>1. \/ \E E : \E word \in {"start", lastWord} : StartInternal(request, E, word)
        \/ \E E : Reject(E, lastWord)
        \/ UNCHANGED <<phase, coreVars, proxyVars, reachable, lastWord>>
    BY <1>11 DEF Timers, CrashTimerFires, OtherTimerFires, SwitchTimerFires
  <2> QED BY <2>1, <1>1, <1>2, RejectSession, StartInternalSession DEF coreVars
<1>12. CASE Crashes
  <2>1. ASSUME NEW e \in Exit, MainCrashed(e) PROVE RelayFree
    BY <2>1 DEF MainCrashed, SessionStep, Ended
  <2>2. ASSUME NEW e \in Exit, AuxCrashed(e) PROVE RelayFree
    BY <2>2 DEF AuxCrashed
  <2> QED BY <1>12, <2>1, <2>2 DEF Crashes
<1>13. CASE MainStopped
  BY <1>13 DEF MainStopped, SessionStep, Ended
<1>14. CASE AuxStopped \/ UNCHANGED vars
  BY <1>14, <1>2 DEF AuxStopped, vars, coreVars, proxyVars
<1> QED BY <1>3, <1>7, <1>8, <1>9, <1>10, <1>11, <1>12, <1>13, <1>14 DEF Next, Answers

-------------------------------------------------------------------------------

\* Whatever fails, the undo of a session included: as long as a session without a relay
\* core says Proxying, its core runs and the settings are its own.
THEOREM ProxyingIsUpAlways ==
    ASSUME NoRelay
    PROVE  Spec => []ProxyingIsUp
<1> DEFINE PInv == aux = "none" /\ ProxyingIsUp
<1>1. Init => PInv
  BY DEF Init, ProxyingIsUp
<1>2. IInv /\ PInv /\ [Next]_vars => PInv'
  <2> SUFFICES ASSUME IInv, PInv, RelayFree PROVE ProxyingIsUp'
    BY NextSession DEF RelayFree
  <2>1. CASE Quiet
    BY <2>1 DEF Quiet, BringingUp, ProxyingIsUp, proxyVars
  <2>2. CASE Launching \/ \E keep : Ended(keep)
    BY <2>2 DEF Launching, Ended, ProxyingIsUp
  <2>3. ASSUME NEW r, NEW s, NEW a, NEW E, FailStartup(r, s, a, E) PROVE ProxyingIsUp'
    BY <2>3 DEF FailStartup, EndPhase, ProxyingIsUp
  <2>4. ASSUME NEW E, Applied(E) PROVE ProxyingIsUp'
    BY <2>3, <2>4 DEF Applied, ApplySystemProxy, coreVars, ProxyingIsUp
  <2> QED BY <2>1, <2>2, <2>3, <2>4 DEF RelayFree, SessionStep, StartupFailed
<1> QED BY <1>1, <1>2, InitIInv, NextIInv, PTL DEF Spec

-------------------------------------------------------------------------------
(***************************************************************************)
(* Whose the settings are.  Where undoing works, and no write fails with   *)
(* nothing captured to put back, the session's claim and the settings      *)
(* agree in every state between two handlers.                              *)
(***************************************************************************)
UndoWorks == "undo" \notin Faults /\ ~({"read", "apply"} \subseteq Faults)

Owned == /\ managed <=> reg = "ours"
         /\ snap # "ours"
         /\ reg = "ours" => main = "running" /\ phase \in {"Proxying", "Stopped"}

LEMMA UndoOwned ==
    ASSUME UndoWorks, NEW r, NEW s, NEW keep, s # "ours", Undo(r, s, keep)
    PROVE  ~managed' /\ reg' # "ours" /\ snap' # "ours"
BY DEF UndoWorks, Undo

LEMMA FailStartupOwned ==
    ASSUME UndoWorks, NEW r, NEW s, NEW a, NEW E, s # "ours", r = "ours" => managed,
           managed \in BOOLEAN, FailStartup(r, s, a, E)
    PROVE  Owned'
<1>1. CASE managed
  BY <1>1, UndoOwned DEF FailStartup, Owned
<1>2. CASE ~managed
  BY <1>2 DEF FailStartup, Owned
<1> QED BY <1>1, <1>2

LEMMA ApplyOwned ==
    ASSUME UndoWorks, IInv, Owned, NEW E, Applied(E)
    PROVE  Owned'
<1>1. reg # "ours" /\ managed = FALSE
  BY DEF Applied, BringingUp, Owned, IInv, TypeOK
<1>2. CASE FailStartup(reg, snap, aux, E)
  BY <1>1, <1>2, FailStartupOwned DEF Owned
<1>3. CASE request.forced
  <2>1. PICK s \in IF snap # "none" THEN {snap}
                   ELSE {reg} \cup (IF "read" \in Faults THEN {"none"} ELSE {}) :
            \/ /\ reg' = "ours" /\ snap' = s /\ managed' = TRUE /\ phase' = "Proxying"
               /\ UNCHANGED coreVars
            \/ "apply" \in Faults /\ s # "none" /\ FailStartup(s, "none", aux, E)
            \/ /\ "apply" \in Faults
               /\ s # "none" => "undo" \in Faults
               /\ \E r \in {reg, "ours"} : FailStartup(r, s, aux, E)
    BY <1>3 DEF Applied, ApplySystemProxy
  <2>2. s # "ours" /\ (s = "none" => "read" \in Faults)
    BY <1>1, <2>1 DEF Owned, IInv, TypeOK
  <2>3. CASE /\ reg' = "ours" /\ snap' = s /\ managed' = TRUE /\ phase' = "Proxying"
             /\ UNCHANGED coreVars
    BY <2>2, <2>3 DEF Applied, Owned, coreVars
  <2>4. CASE FailStartup(s, "none", aux, E)
    BY <1>1, <2>2, <2>4, FailStartupOwned
  <2> QED BY <2>1, <2>2, <2>3, <2>4 DEF UndoWorks
<1> QED BY <1>2, <1>3 DEF Applied, ApplySystemProxy

LEMMA InitOwned == Init => Owned
BY DEF Init, Owned

LEMMA StepOwned ==
    ASSUME UndoWorks, IInv, Owned, RelayFree
    PROVE  Owned'
<1>1. CASE Quiet
  BY <1>1 DEF Quiet, BringingUp, Owned, proxyVars
<1>2. CASE Launching
  BY <1>2 DEF Launching, Owned, proxyVars
<1>3. ASSUME NEW keep, Ended(keep) PROVE Owned'
  <2>1. CASE managed
    BY <1>3, <2>1, UndoOwned DEF Ended, ClearApplied, Owned
  <2>2. CASE ~managed
    BY <1>3, <2>2 DEF Ended, ClearApplied, Owned
  <2> QED BY <2>1, <2>2
<1>4. CASE StartupFailed
  BY <1>4, FailStartupOwned DEF StartupFailed, Owned, IInv, TypeOK
<1>5. ASSUME NEW E, Applied(E) PROVE Owned'
  BY <1>5, ApplyOwned
<1> QED BY <1>1, <1>2, <1>3, <1>4, <1>5 DEF RelayFree, SessionStep

\* A session without a relay core, in which undoing works: whatever it starts, fails,
\* restarts, switches or downloads, in whatever order the answers come, the settings
\* point at this app only while the session claims them and its core runs.
THEOREM OursHasLiveCoreAlways ==
    ASSUME NoRelay, UndoWorks
    PROVE  Spec => []OursHasLiveCore
<1> DEFINE PInv == aux = "none" /\ Owned
<1>1. Init => PInv
  BY InitOwned DEF Init
<1>2. IInv /\ PInv /\ [Next]_vars => PInv'
  BY NextSession, StepOwned DEF RelayFree
<1>3. PInv => OursHasLiveCore
  BY DEF Owned, OursHasLiveCore
<1> QED BY <1>1, <1>2, <1>3, InitIInv, NextIInv, PTL DEF Spec

\* A failure is reported by a step that has no core after it.
LEMMA ReportsEnd ==
    ASSUME SessionStep, Reports
    PROVE  main' # "running"
<1>1. ASSUME NEW r, NEW s, NEW a, NEW E, FailStartup(r, s, a, E) PROVE main' # "running"
  BY <1>1 DEF FailStartup, Killed
<1>2. ASSUME NEW E, Applied(E) PROVE main' # "running"
  BY <1>1, <1>2 DEF Applied, ApplySystemProxy, Reports
<1> QED BY <1>1, <1>2 DEF SessionStep, Quiet, Launching, Ended, StartupFailed

\* Under the same conditions a reported failure is the end of it: whichever handler
\* reports it has given the settings back in that very step.
THEOREM FailureLetsGoAlways ==
    ASSUME NoRelay, UndoWorks
    PROVE  Spec => FailureLetsGo
<1> DEFINE PInv == aux = "none" /\ Owned
<1>1. Init => PInv
  BY InitOwned DEF Init
<1>2. IInv /\ PInv /\ [Next]_vars => PInv' /\ RelayFree
  BY NextSession, StepOwned DEF RelayFree
<1>3. IInv /\ PInv /\ [Next]_vars => [Reports => reg' # "ours"]_vars
  <2> SUFFICES ASSUME Owned', RelayFree, Reports PROVE reg' # "ours"
    BY <1>2
  <2> QED BY ReportsEnd DEF RelayFree, Owned
<1>4. IInv /\ PInv /\ [Next]_vars => PInv'
  BY <1>2
<1> QED BY <1>1, <1>3, <1>4, InitIInv, NextIInv, PTL DEF Spec, FailureLetsGo

-------------------------------------------------------------------------------
(***************************************************************************)
(* What may be left behind.  Each kind of failure of the settings is dealt *)
(* with; two kinds together are not: a snapshot that could not be read,    *)
(* with an undo or a write that fails, and a write that fails with an undo *)
(* that does, leave our settings in place unreported (TLC shows each).     *)
(***************************************************************************)
OneKindFails == \A f, g \in Faults : f = g

Told == Restorable /\ (reg = "ours" => managed \/ warned)

LEMMA FailStartupTold ==
    ASSUME Told, NEW a, NEW E, FailStartup(reg, snap, a, E)
    PROVE  Told'
<1>1. CASE managed
  BY <1>1 DEF FailStartup, Undo, Told, Restorable
<1>2. CASE ~managed
  BY <1>2 DEF FailStartup, Told, Restorable
<1> QED BY <1>1, <1>2

LEMMA StepTold ==
    ASSUME Faults \subseteq {"undo"}, IInv, Told, RelayFree
    PROVE  Told'
<1>1. CASE Quiet \/ Launching
  BY <1>1 DEF Quiet, Launching, proxyVars, Told, Restorable
<1>2. ASSUME NEW keep, Ended(keep) PROVE Told'
  BY <1>2 DEF Ended, ClearApplied, Undo, Told, Restorable
<1>3. CASE StartupFailed
  BY <1>3, FailStartupTold DEF StartupFailed
<1>4. ASSUME NEW E, Applied(E) PROVE Told'
  <2>1. CASE FailStartup(reg, snap, aux, E)
    BY <2>1, FailStartupTold
  <2>2. CASE \E s \in IF snap # "none" THEN {snap} ELSE {reg} :
                 reg' = "ours" /\ snap' = s /\ managed' = TRUE
    BY <2>2 DEF Told, Restorable, IInv, TypeOK
  <2> QED BY <1>4, <2>1, <2>2 DEF Applied, ApplySystemProxy
<1> QED BY <1>1, <1>2, <1>3, <1>4 DEF RelayFree, SessionStep

\* If no more than one of reading, writing and undoing the settings can fail, a session
\* without a relay core never abandons them unsaid: what points at this app with no core
\* behind it is still claimed, to be undone by a later stop, or was reported.
THEOREM LeftoverIsReportedAlways ==
    ASSUME NoRelay, OneKindFails
    PROVE  Spec => []LeftoverIsReported
<1>1. CASE "undo" \in Faults
  <2> DEFINE PInv == aux = "none" /\ Told
  <2>1. Faults \subseteq {"undo"}
    BY <1>1 DEF OneKindFails
  <2>2. Init => PInv
    BY DEF Init, Told, Restorable
  <2>3. IInv /\ PInv /\ [Next]_vars => PInv'
    BY <2>1, NextSession, StepTold DEF RelayFree
  <2>4. PInv => LeftoverIsReported
    BY DEF Told, LeftoverIsReported
  <2> QED BY <2>2, <2>3, <2>4, InitIInv, NextIInv, PTL DEF Spec
<1>2. CASE "undo" \notin Faults
  <2>1. UndoWorks
    BY <1>2 DEF OneKindFails, UndoWorks
  <2>2. OursHasLiveCore => LeftoverIsReported
    BY DEF OursHasLiveCore, LeftoverIsReported
  <2>3. Spec => []OursHasLiveCore
    BY <2>1, OursHasLiveCoreAlways
  <2> QED BY <2>2, <2>3, PTL
<1> QED BY <1>1, <1>2

-------------------------------------------------------------------------------
(***************************************************************************)
(* The last word.  Without TUN no adapter is ever removed, and what a stop *)
(* leaves behind is nothing that could launch a core again.                *)
(***************************************************************************)
NoTun == \A r \in Requests : ~r.tun

AtRest == /\ phase \in {"Stopped", "Stopping"}
          /\ main # "running" /\ aux # "running" /\ post # "restart"
          /\ \A e \in pending : e.kind \notin {"crashTimer", "auxTimer", "resumeTimer"}

Still == /\ tunAtStart = FALSE /\ tunClean = "Idle"
         /\ lastWord = "stop" => AtRest

\* What a step of a session without TUN leaves as it is.
Level == tunAtStart' = FALSE /\ tunClean' = "Idle"

LEMMA ProceedLevel ==
    ASSUME Still, NEW r \in Requests, ~r.tun, NEW E, NEW word, Proceed(r, E, word)
    PROVE  tunAtStart' = FALSE /\ lastWord' \in {word, "fail"}
BY DEF Proceed, FailStartup, Fetch, Launch, coreVars, Still

LEMMA StartInternalLevel ==
    ASSUME Still, NEW r \in Requests, ~r.tun, NEW E, NEW word, StartInternal(r, E, word)
    PROVE  Level /\ lastWord' \in {word, "fail"}
<1>1. CASE Reject(E, word) /\ UNCHANGED tunClean
  BY <1>1 DEF Reject, coreVars, Still, Level
<1>2. CASE FailStartup(reg, snap, aux, BeginAttempt(E)) /\ UNCHANGED tunClean
  BY <1>2 DEF FailStartup, Still, Level
<1>3. CASE Proceed(r, BeginAttempt(E), word) /\ UNCHANGED tunClean
  BY <1>3, ProceedLevel DEF Still, Level
<1> QED BY <1>1, <1>2, <1>3 DEF StartInternal

\* A stop takes back every timer that would launch a core again.
LEMMA StopInternalRests ==
    ASSUME Still, NEW keep, NEW E, StopInternal(keep, E)
    PROVE  /\ Level
           /\ post' = "none" => AtRest'
<1>1. phase' \in {"Stopped", "Stopping"} /\ main' # "running" /\ aux' # "running"
  BY DEF StopInternal, EndPhase, Killed
<1>2. \A e \in pending' : e.kind \notin {"crashTimer", "auxTimer", "resumeTimer"}
  BY DEF StopInternal, CancelTimers, CancelRestarts
<1> QED BY <1>1, <1>2 DEF StopInternal, Still, AtRest, Level

LEMMA NextStill ==
    ASSUME NoTun, IInv, OneCleanup, Still, [Next]_vars
    PROVE  Still'
<1>1. request \in Requests /\ ~request.tun /\ pending \in SUBSET Event
  BY IInvParts DEF Duty, Books, NoTun
<1>2. \A e \in pending : e \notin Cleanup
  BY DEF OneCleanup, Still
<1>3. \A e \in pending : e.kind \notin {"tunStart", "tunStop", "tunCrash"}
  BY <1>1, <1>2 DEF Event, Probe, Download, Timer
<1>4. ASSUME Level, lastWord' # "stop" PROVE Still'
  BY <1>4 DEF Level, Still
<1>5. ASSUME UNCHANGED <<tunAtStart, tunClean, lastWord>>, lastWord = "stop" => AtRest' PROVE Still'
  BY <1>5 DEF Still
<1>6. ASSUME NEW E \in SUBSET pending, Reject(E, lastWord), UNCHANGED <<tunClean, post>>
      PROVE  Still'
  BY <1>5, <1>6 DEF Reject, coreVars, Still, AtRest
<1>7. ASSUME NEW r \in Requests, NEW E, NEW word, word # "stop", StartInternal(r, E, word)
      PROVE  Still'
  BY <1>4, <1>7, StartInternalLevel DEF NoTun
<1>8. ASSUME NEW keep, NEW E, StopInternal(keep, E), post' = "none" \/ lastWord' # "stop"
      PROVE  Still'
  BY <1>8, <1>4, StopInternalRests DEF Level, Still
<1>9. CASE Host
  <2>1. ASSUME NEW r \in Requests, Start(r) PROVE Still'
    BY <2>1, <1>7 DEF Start
  <2>2. CASE Stop
    BY <2>2, <1>8 DEF Stop
  <2>3. ASSUME NEW action, NEW r, StopAndThen(action, r) PROVE Still'
    BY <2>3, <1>8 DEF StopAndThen
  <2>4. ASSUME NEW s \in Servers, ChangeServer(s) PROVE Still'
    BY <2>4, <1>5 DEF ChangeServer, coreVars, Still, AtRest
  <2> QED BY <1>9, <2>1, <2>2, <2>3, <2>4 DEF Host, RestartIfRunning, SwitchServer, StopForCoreUpdate
<1>10. CASE ListenAnswered \/ GateAnswered
  <2>1. ASSUME NEW E, StopStaleSession(E) PROVE Still'
    BY <2>1, <1>8 DEF StopStaleSession
  <2>2. ASSUME NEW E \in SUBSET pending, Ignore(E) PROVE Still'
    BY <2>2, <1>5 DEF Ignore, coreVars, Still, AtRest
  <2>3. ASSUME NEW r, NEW s, NEW a, NEW E, FailStartup(r, s, a, E), UNCHANGED tunClean PROVE Still'
    BY <2>3, <1>4 DEF FailStartup, Level, Still
  <2>4. ASSUME NEW E, ApplySystemProxy(E), phase \in BringingUp PROVE Still'
    <3>1. CASE UNCHANGED <<coreVars, lastWord>>
      BY <2>4, <3>1, <1>5 DEF ApplySystemProxy, coreVars, Still, AtRest, BringingUp
    <3> QED BY <2>4, <2>3, <3>1 DEF ApplySystemProxy
  <2>5. CASE phase = "StartCoreProcess" /\ UNCHANGED <<tunAtStart, tunClean, lastWord>>
    BY <2>5, <1>5 DEF Still, AtRest
  <2>6. CASE ListenAnswered
    BY <2>6, <2>1, <2>2, <2>3, <2>4, <2>5 DEF ListenAnswered, Fail, coreVars, BringingUp
  <2>7. CASE GateAnswered
    BY <2>7, <2>1, <2>2, <2>3, <2>4 DEF GateAnswered, GateIgnored, Fail, BringingUp
  <2> QED BY <1>10, <2>6, <2>7
<1>11. CASE DownloadFinished
  <2>1. PICK e \in pending : LET rest == pending \ {e} IN
            /\ UNCHANGED <<request, tunClean, post, server>>
            /\ \/ Reject(rest, lastWord)
               \/ Cancel(rest)
               \/ FailStartup(reg, snap, aux, rest)
               \/ Activating /\ ResumeStart(rest)
    BY <1>11 DEF DownloadFinished
  <2>2. CASE Cancel(pending \ {e})
    BY <2>1, <2>2, <1>5 DEF Cancel, CancelActivation, coreVars, Still, AtRest
  <2>3. CASE FailStartup(reg, snap, aux, pending \ {e})
    BY <2>1, <2>3, <1>4 DEF FailStartup, Level, Still
  <2>4. CASE Activating /\ Proceed(request, BeginAttempt(pending \ {e}), lastWord)
    <3>1. lastWord # "stop"
      BY <2>4 DEF Activating, Still, AtRest
    <3> QED BY <1>1, <2>1, <2>4, <3>1, <1>4, ProceedLevel DEF Level, Still
  <2> QED BY <2>1, <2>2, <2>3, <2>4, <1>6 DEF ResumeStart
<1>12. CASE TunStartCleaned \/ TunStopCleaned \/ TunCrashCleaned
  BY <1>12, <1>3 DEF TunStartCleaned, TunStopCleaned, TunCrashCleaned
<1>13. CASE Timers
  <2>1. ASSUME NEW e \in pending, e.kind \in {"crashTimer", "auxTimer", "resumeTimer"},
               StartInternal(request, pending \ {e}, lastWord)
        PROVE  Still'
    <3>1. lastWord # "stop"
      BY <2>1 DEF Still, AtRest
    <3> QED BY <1>1, <2>1, <3>1, <1>7
  <2>2. CASE SwitchTimerFires
    BY <1>1, <2>2, <1>6, <1>7 DEF SwitchTimerFires
  <2> QED BY <1>1, <1>13, <2>1, <2>2 DEF Timers, CrashTimerFires, OtherTimerFires
<1>14. CASE Crashes
  <2>1. ASSUME NEW e \in Exit, MainCrashed(e) \/ AuxCrashed(e) PROVE Still'
    <3>1. lastWord # "stop" /\ lastWord' \in {lastWord, "fail"}
      BY <2>1 DEF MainCrashed, AuxCrashed, Still, AtRest
    <3> QED BY <2>1, <3>1, <1>4 DEF MainCrashed, AuxCrashed, Level, Still
  <2> QED BY <1>14, <2>1 DEF Crashes
<1>15. CASE MainStopped
  <2>1. lastWord = "stop" => pending' \in {pending, pending \cup {[kind |-> "switchTimer"]}}
    BY <1>15 DEF MainStopped, AfterStop, Still, AtRest
  <2> QED BY <1>15, <2>1 DEF MainStopped, Still, AtRest
<1>16. CASE AuxStopped \/ UNCHANGED vars
  BY <1>16 DEF AuxStopped, vars, Still, AtRest
<1> QED BY <1>9, <1>10, <1>11, <1>12, <1>13, <1>14, <1>15, <1>16 DEF Next, Answers

\* Without TUN a stop is final: after it no core runs, and none is launched, until the
\* host starts the session again, whatever timers, downloads, probes and exits of cores
\* were still on their way when it came.
THEOREM StopIsFinalAlways ==
    ASSUME NoTun
    PROVE  Spec => StopIsFinal
<1>1. Init => Still
  BY DEF Init, Still, AtRest
<1>2. IInv /\ OneCleanup /\ Still /\ [Next]_vars => Still'
  BY NextStill
<1>3. IInv /\ OneCleanup /\ Still /\ [Next]_vars => [Launched => lastWord' # "stop"]_vars
  BY NextStill DEF Still, AtRest, Launched
<1> QED BY <1>1, <1>2, <1>3, InitIInv, NextIInv, OneCleanupAlways, PTL DEF Spec, StopIsFinal

-------------------------------------------------------------------------------
(***************************************************************************)
(* Cores nobody knows of.  What could mark a session Stopped behind the    *)
(* back of a running core is the late answer of something the session no   *)
(* longer waits for: a download, or a removal made for a start.            *)
(***************************************************************************)
Uniform == \A q, r \in Requests : q.tun = r.tun

Starting(E) == {e \in Removals(E) : e.kind = "tunStart"}

\* A removal made for a start is under way only where every start asks for one, and
\* then nothing is launched before its answer.
Known == /\ NoZombieCore
         /\ Starting(pending) # {} => main = "none" /\ \A r \in Requests : r.tun

LEMMA ProceedKnown ==
    ASSUME Downloads = {}, main = "none", server' \in Servers, NEW r, NEW E \in SUBSET Event,
           NEW word, Starting(E) = {}, Proceed(r, E, word)
    PROVE  Known'
<1>1. Starting(pending') = {}
  BY ProceedRemovals DEF Starting
<1>2. main' = "running" => phase' # "Stopped"
  <2>1. ASSUME NEW a, FailStartup(reg, snap, a, E) PROVE main' = "none"
    BY <2>1 DEF FailStartup, Killed
  <2>2. CASE Launch(r, E, word)
    BY <2>2 DEF Launch
  <2> QED BY <2>1, <2>2 DEF Proceed, Missing
<1> QED BY <1>1, <1>2 DEF Known, NoZombieCore, Starting, Removals

LEMMA ResumeStartKnown ==
    ASSUME Downloads = {}, Known, server' \in Servers, NEW E \in SUBSET Event,
           Starting(E) = {}, ResumeStart(E)
    PROVE  Known'
<1>1. CASE Reject(E, lastWord)
  BY <1>1 DEF Reject, coreVars, Known, NoZombieCore, Starting, Removals
<1>2. CASE ~Rejected /\ Proceed(request, BeginAttempt(E), lastWord)
  <2>1. BeginAttempt(E) \in SUBSET Event /\ Starting(BeginAttempt(E)) = {}
    BY BeginAttemptEvents, AttemptRemovals DEF Starting
  <2> QED BY <1>2, <2>1, ProceedKnown DEF Rejected, Running
<1> QED BY <1>1, <1>2 DEF ResumeStart

LEMMA StartInternalKnown ==
    ASSUME Downloads = {}, Uniform, Known, server' \in Servers, NEW r \in Requests,
           NEW E \in SUBSET Event, Removals(E) = Removals(pending),
           NEW word, StartInternal(r, E, word)
    PROVE  Known'
<1>1. Starting(E) = Starting(pending)
  BY DEF Starting
<1>2. CASE Reject(E, word)
  BY <1>1, <1>2 DEF Reject, coreVars, Known, NoZombieCore, Starting, Removals
<1>3. CASE ~Rejected
  <2>1. main = "none"
    BY <1>3 DEF Rejected, Running
  <2>2. BeginAttempt(E) \in SUBSET Event /\ Starting(BeginAttempt(E)) = Starting(pending)
    BY <1>1, BeginAttemptEvents, AttemptRemovals DEF Starting
  <2>3. CASE r.tun /\ AwaitCleanup(BeginAttempt(E), word)
    BY <2>1, <2>3 DEF AwaitCleanup, coreVars, Uniform, Known, NoZombieCore
  <2>4. CASE FailStartup(reg, snap, aux, BeginAttempt(E))
    <3>1. main' = "none" /\ pending' = CancelTimers(BeginAttempt(E))
      BY <2>1, <2>4 DEF FailStartup, Killed
    <3>2. Starting(pending') = Starting(pending)
      BY <2>2, <3>1, RemovalSets DEF Starting
    <3> QED BY <3>1, <3>2 DEF Known, NoZombieCore, Starting, Removals
  <2>5. CASE ~r.tun /\ Proceed(r, BeginAttempt(E), word)
    BY <2>1, <2>2, <2>5, ProceedKnown DEF Known
  <2> QED BY <1>3, <2>3, <2>4, <2>5 DEF StartInternal
<1> QED BY <1>2, <1>3 DEF StartInternal

LEMMA NextKnown ==
    ASSUME Downloads = {}, Uniform, IInv, OneCleanup, Known, [Next]_vars
    PROVE  Known'
<1>1. Duty /\ Books /\ server' \in Servers /\ pending \in SUBSET Event
  <2>1. IInv'
    BY NextIInv
  <2> QED BY <2>1, IInvParts DEF IInv, TypeOK, Duty
<1>2. ASSUME Starting(pending') \subseteq Starting(pending), main' = main,
             phase' = phase \/ phase' # "Stopped"
      PROVE  Known'
  BY <1>2 DEF Known, NoZombieCore, Starting, Removals
<1>3. ASSUME Starting(pending') \subseteq Starting(pending), main' # "running",
             main = "none" => main' = "none"
      PROVE  Known'
  BY <1>3 DEF Known, NoZombieCore, Starting, Removals
<1>4. ASSUME NEW E \in SUBSET Event, Removals(E) = Removals(pending),
             NEW keep, StopInternal(keep, E)
      PROVE  Known'
  <2>1. main' # "running" /\ (main = "none" => main' = "none")
    BY <1>4 DEF StopInternal, Killed
  <2>2. Starting(pending') = Starting(pending)
    BY <1>4, RemovalSets DEF StopInternal, Starting
  <2> QED BY <1>3, <2>1, <2>2
<1>5. ASSUME NEW E \in SUBSET Event, Starting(E) \subseteq Starting(pending),
             NEW r, NEW s, NEW a, FailStartup(r, s, a, E)
      PROVE  Known'
  <2>1. main' # "running" /\ (main = "none" => main' = "none")
    BY <1>5 DEF FailStartup, Killed
  <2>2. Starting(pending') = Starting(E)
    BY <1>5, RemovalSets DEF FailStartup, Starting
  <2> QED BY <1>3, <1>5, <2>1, <2>2
<1>6. CASE Host
  <2>1. ASSUME NEW r \in Requests, Start(r) PROVE Known'
    BY <2>1, <1>1, StartInternalKnown DEF Start
  <2>2. ASSUME NEW s \in Servers, ChangeServer(s) PROVE Known'
    BY <2>2, <1>2 DEF ChangeServer, coreVars, Starting, Removals
  <2> QED BY <1>1, <1>4, <1>6, <2>1, <2>2
          DEF Host, Stop, RestartIfRunning, SwitchServer, StopForCoreUpdate, StopAndThen
<1>7. CASE ListenAnswered \/ GateAnswered
  <2>1. PICK e \in pending : LET rest == pending \ {e} IN
            /\ e.kind \in {"listen", "gate"}
            /\ \/ StopStaleSession(rest)
               \/ Ignore(rest)
               \/ Fail(rest)
               \/ ApplySystemProxy(rest)
               \/ /\ phase' = "CheckOutboundConnection"
                  /\ pending' = rest \cup {[e EXCEPT !.kind = "gate"]} /\ UNCHANGED main
    BY <1>7 DEF ListenAnswered, GateAnswered, coreVars
  <2>2. e \notin Cleanup /\ e \in Probe
    BY <1>1, <2>1 DEF Event, Download, Cleanup, Timer
  <2>3. pending \ {e} \in SUBSET Event /\ Removals(pending \ {e}) = Removals(pending)
    BY <1>1, <2>2, TakenRemovals
  <2>4. [e EXCEPT !.kind = "gate"] \notin Cleanup
    BY <2>2 DEF Probe, Cleanup
  <2>5. CASE StopStaleSession(pending \ {e})
    BY <2>3, <2>5, <1>4 DEF StopStaleSession
  <2>6. CASE Ignore(pending \ {e})
    BY <2>3, <2>6, <1>2 DEF Ignore, coreVars, Starting
  <2>7. CASE Fail(pending \ {e})
    BY <2>3, <2>7, <1>5 DEF Fail, Starting
  <2>8. CASE ApplySystemProxy(pending \ {e})
    <3>1. CASE phase' = "Proxying" /\ UNCHANGED coreVars /\ pending' = pending \ {e}
      BY <2>3, <3>1, <1>2 DEF coreVars, Starting
    <3>2. CASE \E r, s, a : FailStartup(r, s, a, pending \ {e})
      BY <2>3, <3>2, <1>5 DEF Starting
    <3> QED BY <2>8, <3>1, <3>2 DEF ApplySystemProxy
  <2>9. CASE /\ phase' = "CheckOutboundConnection"
             /\ pending' = (pending \ {e}) \cup {[e EXCEPT !.kind = "gate"]} /\ UNCHANGED main
    BY <2>3, <2>4, <2>9, <1>2 DEF Removals, Starting
  <2> QED BY <2>1, <2>5, <2>6, <2>7, <2>8, <2>9
<1>8. CASE DownloadFinished
  <2>1. PICK e \in pending : e.kind \in {"core", "geo"}
    BY <1>8 DEF DownloadFinished
  <2>2. e \in Download
    BY <1>1, <2>1 DEF Event, Probe, Cleanup, Timer
  <2> QED BY <2>2 DEF Download
<1>9. CASE TunStartCleaned \/ TunStopCleaned \/ TunCrashCleaned
  <2>1. PICK e \in pending : LET rest == pending \ {e} IN
            \/ /\ e.kind = "tunStart"
               /\ Cancel(rest) \/ FailStartup(reg, snap, aux, rest)
            \/ /\ e.kind \in {"tunStart", "tunCrash"}
               /\ ResumeStart(rest)
            \/ /\ e.kind = "tunCrash"
               /\ Reject(rest, lastWord)
            \/ /\ e.kind = "tunStop"
               /\ pending' = rest \cup AfterStop(e.post) \/ pending' = rest \cup {}
               /\ UNCHANGED <<phase, coreVars>>
    BY <1>9 DEF TunStartCleaned, TunStopCleaned, TunCrashCleaned
  <2>2. e \in Cleanup
    BY <1>1, <2>1 DEF Event, Probe, Download, Timer
  <2>3. /\ pending \ {e} \in SUBSET Event /\ e \in Removals(pending)
        /\ Removals(pending \ {e}) = {}
    BY <1>1, <2>2, TakenRemovals DEF OneCleanup, Removals
  <2>4. Starting(pending \ {e}) = {}
    BY <2>3 DEF Starting
  <2>5. CASE e.kind = "tunStart" /\ Cancel(pending \ {e})
    <3>1. main = "none"
      BY <2>3, <2>5 DEF Known, Starting
    <3> QED BY <2>4, <2>5, <3>1, <1>3 DEF Cancel, coreVars
  <2>6. CASE FailStartup(reg, snap, aux, pending \ {e})
    BY <2>3, <2>4, <2>6, <1>5
  <2>7. CASE ResumeStart(pending \ {e})
    BY <1>1, <2>3, <2>4, <2>7, ResumeStartKnown
  <2>8. CASE Reject(pending \ {e}, lastWord)
    BY <2>4, <2>8, <1>2 DEF Reject, coreVars
  <2>9. CASE /\ pending' = (pending \ {e}) \cup AfterStop(e.post) \/ pending' = (pending \ {e}) \cup {}
             /\ UNCHANGED <<phase, coreVars>>
    <3>1. AfterStop(e.post) \in SUBSET Timer
      BY DEF AfterStop, Timer
    <3>2. Starting(pending') = {}
      BY <2>3, <2>9, <3>1, KindsApart DEF Starting, Removals
    <3> QED BY <2>9, <3>2, <1>2 DEF coreVars
  <2> QED BY <2>1, <2>5, <2>6, <2>7, <2>8, <2>9
<1>10. CASE Timers
  <2>1. PICK e \in pending : LET rest == pending \ {e} IN
            /\ e.kind \in {"crashTimer", "auxTimer", "resumeTimer", "switchTimer"}
            /\ \/ \E word : StartInternal(request, rest, word)
               \/ Reject(rest, lastWord)
               \/ /\ pending' = rest \cup {[kind |-> "tunCrash", post |-> "none"]} \/ pending' = rest
                  /\ UNCHANGED <<phase, coreVars>>
    BY <1>10 DEF Timers, CrashTimerFires, OtherTimerFires, SwitchTimerFires
  <2>2. e \notin Cleanup
    BY <2>1 DEF Cleanup
  <2>3. pending \ {e} \in SUBSET Event /\ Removals(pending \ {e}) = Removals(pending)
    BY <1>1, <2>2, TakenRemovals
  <2>4. CASE \E word : StartInternal(request, pending \ {e}, word)
    BY <1>1, <2>3, <2>4, StartInternalKnown DEF Books
  <2>5. CASE Reject(pending \ {e}, lastWord)
    BY <2>3, <2>5, <1>2 DEF Reject, coreVars, Starting
  <2>6. CASE /\ \/ pending' = (pending \ {e}) \cup {[kind |-> "tunCrash", post |-> "none"]}
                \/ pending' = pending \ {e}
             /\ UNCHANGED <<phase, coreVars>>
    <3>1. Starting(pending') = Starting(pending)
      BY <2>3, <2>6 DEF Starting, Removals
    <3> QED BY <2>6, <3>1, <1>2 DEF coreVars
  <2> QED BY <2>1, <2>4, <2>5, <2>6
<1>11. CASE Crashes \/ MainStopped
  <2>1. /\ (main' = main /\ phase' = phase) \/ main' = "none"
        /\ pending' \in {pending, pending \cup {[kind |-> "crashTimer"]},
                         pending \cup {[kind |-> "auxTimer"]}, pending \cup AfterStop(post),
                         pending \cup {[kind |-> "tunStop", post |-> post]}}
    BY <1>11 DEF Crashes, MainCrashed, AuxCrashed, MainStopped
  <2>2. Starting(pending') = Starting(pending)
    BY <2>1 DEF Starting, Removals, AfterStop, Cleanup
  <2> QED BY <2>1, <2>2, <1>2, <1>3
<1>12. CASE AuxStopped \/ UNCHANGED vars
  BY <1>12, <1>2 DEF AuxStopped, vars, Starting, Removals
<1> QED BY <1>6, <1>7, <1>8, <1>9, <1>10, <1>11, <1>12 DEF Next, Answers

\* If everything a start needs is on disk, and either every start asks for TUN or none
\* does, a running core always belongs to a session that does not say Stopped.
THEOREM NoZombieCoreAlways ==
    ASSUME Downloads = {}, Uniform
    PROVE  Spec => []NoZombieCore
<1>1. Init => Known
  BY DEF Init, Known, NoZombieCore, Starting, Removals
<1>2. IInv /\ OneCleanup /\ Known /\ [Next]_vars => Known'
  BY NextKnown
<1>3. Known => NoZombieCore
  BY DEF Known
<1> QED BY <1>1, <1>2, <1>3, InitIInv, NextIInv, OneCleanupAlways, PTL DEF Spec
===============================================================================
