---------------------------- MODULE Handover_proofs ----------------------------
(***************************************************************************)
(* OneIsThere and SwitchIsHonest for any number of processes.  What keeps  *)
(* two processes apart is the lock as long as one is up, and the           *)
(* successor's wait after that.                                            *)
(***************************************************************************)
EXTENDS Handover, TLAPS

\* Where a process has been up and has not ended.
Present == Staying \cup Going

\* The processes launched so far are those that are somewhere.
Numbered == \A p \in Processes : at[p] = "none" <=> p > launched

\* Only a process that leaves is followed.
FollowsLeaving == \A p \in Processes :
    after[p] # NoProcess => at[after[p]] \in Going \cup {"gone"}

\* Behind its wait a successor is alone, unless the wait ran out.
WaitedFor == ~late => \A p \in Processes :
    at[p] \in {"elevate", "acquire"} /\ after[p] # NoProcess => at[after[p]] = "gone"

\* A process that is up has the lock, unless it was overtaken.
UpHasLock == \A p \in Processes :
    at[p] \in {"up", "asked"} => lock = p \/ late \/ p \in overtaken

\* While Windows asks nobody has the lock, unless the one who asks was overtaken.
AskedWithoutLock == \A p \in Processes :
    at[p] = "uac" /\ lock # NoProcess => late \/ p \in overtaken

\* Whoever has the lock is up, or its script is still to run.
LockIsHeld == lock # NoProcess /\ ~late =>
    \/ at[lock] \in {"up", "asked"}
    \/ at[lock] = "leaving" /\ lock \in script

OnePresent == \A p, q \in Processes :
    p # q /\ at[p] \in Present /\ at[q] \in Present => late \/ p \in overtaken \/ q \in overtaken

SomebodyComes ==
    owed /\ ~late => script # {} \/ \E p \in Processes : at[p] \in Coming \cup Staying

MemoryIsFile == ~late /\ ~torn /\ overtaken = {} =>
    \A p \in Processes : at[p] \in Staying => tun[p] = saved

IInv == /\ HandoverTypeOK /\ Numbered /\ FollowsLeaving /\ WaitedFor /\ UpHasLock
        /\ AskedWithoutLock /\ LockIsHeld /\ OnePresent /\ SomebodyComes /\ MemoryIsFile

LEMMA TypeStep ==
    ASSUME HandoverTypeOK, [HandoverNext]_handoverVars
    PROVE  HandoverTypeOK'
<1> USE ProcessNumber DEF HandoverTypeOK, Processes, NoProcess, PlacesOfProcess, Coming,
        Staying, Going, handing, switch, updating
<1>1. CASE Launch
  BY <1>1 DEF Launch, Spawned
<1>2. ASSUME NEW p \in Processes, HandoverStep(p)
      PROVE  HandoverTypeOK'
  <2>1. CASE waitForProcessExit(p) \/ StartupRefused(p) \/ AlreadyRunning(p)
    BY <2>1 DEF waitForProcessExit, StartupRefused, AlreadyRunning, Starts
  <2>2. CASE StartupElevated(p)
    BY <2>2 DEF StartupElevated, Spawned
  <2>3. CASE tryAcquire(p)
    BY <2>3 DEF tryAcquire, OvertakenBy
  <2>4. CASE setEnabled(p) \/ applySettings(p) \/ persistConfiguration(p)
    BY <2>4 DEF setEnabled, applySettings, persistConfiguration, Saves,
       requiresAdminForConfiguredTun
  <2>5. CASE askRestartAsAdministratorForTun(p) \/ RestartDeclined(p)
    BY <2>5 DEF askRestartAsAdministratorForTun, RestartDeclined
  <2>6. CASE promptRestartAsAdministratorForTun(p)
    BY <2>6 DEF promptRestartAsAdministratorForTun, Saves, ReleasedBy
  <2>7. CASE RestartAccepted(p)
    BY <2>7 DEF RestartAccepted, Spawned
  <2>8. CASE RestartRefused(p)
    BY <2>8 DEF RestartRefused, Reacquired, OvertakenBy, Saves
  <2>9. CASE promptRestartForLanguageChange(p)
    <3>1. CASE requiresAdminForConfiguredTun(p, tun[p])
      BY <2>9, <3>1 DEF promptRestartForLanguageChange, Saves, ReleasedBy
    <3>2. CASE ~requiresAdminForConfiguredTun(p, tun[p])
      <4>1. Spawned([at EXCEPT ![p] = "leaving"], p \in elevated, p) /\ Saves(p, tun[p])
        BY <2>9, <3>2 DEF promptRestartForLanguageChange
      <4>2. lock' \in Processes \cup {NoProcess}
        BY <2>9 DEF promptRestartForLanguageChange, ReleasedBy
      <4>3. UNCHANGED <<reverts, updating, late, overtaken, owed>>
        BY <2>9 DEF promptRestartForLanguageChange
      <4>4. tun' \in [Processes -> BOOLEAN] /\ saved' \in BOOLEAN /\ torn' = FALSE
        BY <4>1 DEF Saves
      <4>5. /\ at' \in [Processes -> PlacesOfProcess] /\ launched' \in 0..MaxProcesses
            /\ elevated' \subseteq Processes
            /\ after' \in [Processes -> Processes \cup {NoProcess}]
        BY <4>1 DEF Spawned
      <4> QED
        BY <4>2, <4>3, <4>4, <4>5
    <3> QED
      BY <3>1, <3>2
  <2>10. CASE cleanupRuntimeForExit(p) \/ promptRestartForDownloadedAppUpdate(p)
    BY <2>10 DEF cleanupRuntimeForExit, promptRestartForDownloadedAppUpdate, ReleasedBy
  <2>11. CASE RunScript(p)
    <3>1. /\ script' = script \ {p} /\ late' = (late \/ at[p] # "gone")
          /\ UNCHANGED <<lock, switch, overtaken>>
      BY <2>11 DEF RunScript
    <3>2. CASE exe' = FALSE
      <4>1. owed' = FALSE /\ UNCHANGED <<at, launched, elevated, after>>
        BY <2>11, <3>2 DEF RunScript, Spawned
      <4> QED
        BY <3>1, <3>2, <4>1
    <3>3. CASE exe' # FALSE
      <4>1. PICK admin \in BOOLEAN : Spawned(at, admin, NoProcess)
        BY <2>11, <3>3 DEF RunScript
      <4>2. UNCHANGED <<exe, owed>>
        BY <2>11, <3>3 DEF RunScript
      <4> QED
        BY <3>1, <4>1, <4>2 DEF Spawned
    <3> QED
      BY <3>2, <3>3
  <2>12. CASE Ends(p) \/ Quit(p) \/ Killed(p)
    BY <2>12 DEF Ends, Quit, Killed, Forgotten, ReleasedBy
  <2> QED
    BY <1>2, <2>1, <2>2, <2>3, <2>4, <2>5, <2>6, <2>7, <2>8, <2>9, <2>10, <2>11, <2>12
    DEF HandoverStep
<1>3. CASE UNCHANGED handoverVars
  BY <1>3 DEF handoverVars
<1> QED
  BY <1>1, <1>2, <1>3 DEF HandoverNext

\* A launch takes the next number, and nobody else's place.
LEMMA SpawnedFacts ==
    ASSUME HandoverTypeOK, Numbered, NEW p \in Processes, NEW x \in PlacesOfProcess \ {"none"},
           NEW admin, NEW predecessor \in Processes \cup {NoProcess},
           Spawned([at EXCEPT ![p] = x], admin, predecessor), at[p] # "none"
    PROVE  /\ launched + 1 \in Processes /\ launched' = launched + 1 /\ launched + 1 # p
           /\ at[launched + 1] = "none" /\ at'[launched + 1] = "wait" /\ at'[p] = x
           /\ \A q \in Processes : q # p /\ q # launched + 1 => at'[q] = at[q]
           /\ after'[launched + 1] = predecessor
           /\ \A q \in Processes : q # launched + 1 => after'[q] = after[q]
<1>1. launched + 1 \in Processes /\ at[launched + 1] = "none" /\ launched + 1 # p
  BY ProcessNumber DEF Spawned, HandoverTypeOK, Numbered, Processes
<1> QED
  BY <1>1 DEF Spawned, HandoverTypeOK

LEMMA LaunchFacts ==
    ASSUME HandoverTypeOK, Numbered, NEW admin, Spawned(at, admin, NoProcess)
    PROVE  /\ launched + 1 \in Processes /\ launched' = launched + 1
           /\ at[launched + 1] = "none" /\ at'[launched + 1] = "wait"
           /\ \A q \in Processes : q # launched + 1 => at'[q] = at[q]
           /\ after'[launched + 1] = NoProcess
           /\ \A q \in Processes : q # launched + 1 => after'[q] = after[q]
<1>1. launched + 1 \in Processes /\ at[launched + 1] = "none"
  BY ProcessNumber DEF Spawned, HandoverTypeOK, Numbered, Processes
<1> QED
  BY <1>1 DEF Spawned, HandoverTypeOK

\* Four kinds of steps, by what they do to the places: none, a launch, a launch by one
\* who hands over, and a move.
Resting == UNCHANGED <<at, launched, after>>
Launching == \E admin \in BOOLEAN : Spawned(at, admin, NoProcess)
HandingOver(p, x, r) ==
    /\ \E admin \in BOOLEAN : Spawned([at EXCEPT ![p] = x], admin, r)
    /\ \/ at[p] = "elevate" /\ x = "gone" /\ r = after[p]
       \/ at[p] \in {"up", "uac"} /\ x = "leaving" /\ r = p
Moving(p, x) ==
    /\ at[p] \notin {"none", "gone"} /\ x # "none"
    /\ at' = [at EXCEPT ![p] = x] /\ UNCHANGED <<launched, after>>
    /\ at[p] \in Going => x \in Going \cup {"gone"}
    /\ x \in {"elevate", "acquire"} =>
         \/ at[p] \in {"elevate", "acquire"}
         \/ at[p] = "wait" /\ (after[p] # NoProcess /\ at[after[p]] # "gone" => late')
    /\ x \in Present =>
         \/ at[p] \in Present
         \/ lock = NoProcess /\ at[p] = "acquire" /\ OvertakenBy(p) \subseteq overtaken'
Steps ==
    \/ Resting
    \/ Launching
    \/ \E p \in Processes : \E x \in {"gone", "leaving"} :
         \E r \in Processes \cup {NoProcess} : HandingOver(p, x, r)
    \/ \E p \in Processes : \E x \in PlacesOfProcess : Moving(p, x)

\* Every step is of one of them, and what went wrong is remembered.
LEMMA Kinds ==
    ASSUME HandoverTypeOK, [HandoverNext]_handoverVars
    PROVE  Steps /\ (late => late') /\ overtaken \subseteq overtaken'
<1> USE DEF PlacesOfProcess, Coming, Staying, Going, Present, handing
<1>1. CASE Launch
  BY <1>1 DEF Launch, Steps, Launching
<1>2. ASSUME NEW p \in Processes, HandoverStep(p)
      PROVE  Steps /\ (late => late') /\ overtaken \subseteq overtaken'
  <2>1. CASE waitForProcessExit(p)
    <3>1. Moving(p, Starts(p)) /\ Starts(p) \in PlacesOfProcess
      BY <2>1 DEF waitForProcessExit, Starts, Moving
    <3> QED
      BY <2>1, <3>1 DEF waitForProcessExit, Steps
  <2>2. CASE StartupElevated(p)
    <3>1. HandingOver(p, "gone", after[p]) /\ after[p] \in Processes \cup {NoProcess}
      BY <2>2 DEF StartupElevated, HandingOver, HandoverTypeOK
    <3> QED
      BY <2>2, <3>1 DEF StartupElevated, Steps
  <2>3. CASE StartupRefused(p) \/ tryAcquire(p) \/ AlreadyRunning(p)
    BY <2>3 DEF StartupRefused, tryAcquire, AlreadyRunning, Steps, Moving
  <2>4. CASE setEnabled(p) \/ persistConfiguration(p)
    BY <2>4 DEF setEnabled, persistConfiguration, Steps, Resting
  <2>5. CASE applySettings(p)
    <3>1. PICK x \in {"asked", "up"} : at' = [at EXCEPT ![p] = x]
      BY <2>5 DEF applySettings
    <3>2. Moving(p, x)
      BY <2>5, <3>1 DEF applySettings, Moving
    <3> QED
      BY <2>5, <3>2 DEF applySettings, Steps
  <2>6. CASE askRestartAsAdministratorForTun(p) \/ RestartDeclined(p)
             \/ promptRestartAsAdministratorForTun(p)
    <3>1. Moving(p, "asked") \/ Moving(p, "up") \/ Moving(p, "uac")
      <4>1. CASE askRestartAsAdministratorForTun(p)
        BY <4>1 DEF askRestartAsAdministratorForTun, Moving
      <4>2. CASE RestartDeclined(p)
        BY <4>2 DEF RestartDeclined, Moving
      <4>3. CASE promptRestartAsAdministratorForTun(p)
        BY <4>3 DEF promptRestartAsAdministratorForTun, Moving
      <4> QED
        BY <2>6, <4>1, <4>2, <4>3
    <3>2. UNCHANGED <<late, overtaken>>
      BY <2>6 DEF askRestartAsAdministratorForTun, RestartDeclined,
         promptRestartAsAdministratorForTun
    <3> QED
      BY <3>1, <3>2 DEF Steps
  <2>7. CASE RestartAccepted(p)
    <3>1. HandingOver(p, "leaving", p)
      BY <2>7 DEF RestartAccepted, HandingOver
    <3> QED
      BY <2>7, <3>1 DEF RestartAccepted, Steps
  <2>8. CASE RestartRefused(p)
    <3>1. Moving(p, "up")
      BY <2>8 DEF RestartRefused, Reacquired, Moving
    <3> QED
      BY <2>8, <3>1 DEF RestartRefused, Reacquired, Steps
  <2>9. CASE promptRestartForLanguageChange(p)
    <3>1. Moving(p, "uac") \/ HandingOver(p, "leaving", p)
      <4>1. CASE requiresAdminForConfiguredTun(p, tun[p])
        BY <2>9, <4>1 DEF promptRestartForLanguageChange, Moving
      <4>2. CASE ~requiresAdminForConfiguredTun(p, tun[p])
        <5>1. (p \in elevated) \in BOOLEAN
          OBVIOUS
        <5> QED
          BY <2>9, <4>2, <5>1 DEF promptRestartForLanguageChange, HandingOver
      <4> QED
        BY <4>1, <4>2
    <3> QED
      BY <2>9, <3>1 DEF promptRestartForLanguageChange, Steps
  <2>10. CASE cleanupRuntimeForExit(p) \/ Ends(p) \/ Quit(p) \/ Killed(p)
              \/ promptRestartForDownloadedAppUpdate(p)
    BY <2>10 DEF cleanupRuntimeForExit, Ends, Quit, Killed,
       promptRestartForDownloadedAppUpdate, Steps, Moving
  <2>11. CASE RunScript(p)
    BY <2>11 DEF RunScript, Steps, Launching, Resting
  <2> QED
    BY <1>2, <2>1, <2>2, <2>3, <2>4, <2>5, <2>6, <2>7, <2>8, <2>9, <2>10, <2>11
    DEF HandoverStep
<1>3. CASE UNCHANGED handoverVars
  BY <1>3 DEF handoverVars, Steps, Resting
<1> QED
  BY <1>1, <1>2, <1>3 DEF HandoverNext

LEMMA NumberedStep ==
    ASSUME HandoverTypeOK, Numbered, Steps
    PROVE  Numbered'
<1> USE DEF Numbered
<1>1. CASE Resting
  BY <1>1 DEF Resting
<1>2. CASE Launching
  BY <1>2, LaunchFacts, ProcessNumber DEF Launching, HandoverTypeOK, Processes
<1>3. ASSUME NEW p \in Processes, NEW x \in {"gone", "leaving"},
             NEW r \in Processes \cup {NoProcess}, HandingOver(p, x, r)
      PROVE  Numbered'
  <2>1. /\ launched + 1 \in Processes /\ launched' = launched + 1
        /\ at'[launched + 1] = "wait" /\ at'[p] = x /\ at[p] # "none"
        /\ \A q \in Processes : q # p /\ q # launched + 1 => at'[q] = at[q]
    BY <1>3, SpawnedFacts DEF HandingOver, PlacesOfProcess, Going
  <2>2. x # "none"
    OBVIOUS
  <2>3. launched \in Nat /\ \A q \in Processes : q \in Nat
    BY ProcessNumber DEF HandoverTypeOK, Processes
  <2> QED
    BY <2>1, <2>2, <2>3
<1>4. ASSUME NEW p \in Processes, NEW x \in PlacesOfProcess, Moving(p, x)
      PROVE  Numbered'
  BY <1>4 DEF Moving, HandoverTypeOK
<1> QED
  BY <1>1, <1>2, <1>3, <1>4 DEF Steps

LEMMA FollowsLeavingStep ==
    ASSUME HandoverTypeOK, Numbered, FollowsLeaving, Steps
    PROVE  FollowsLeaving'
<1> USE DEF FollowsLeaving, Going, NoProcess
<1>1. CASE Resting
  BY <1>1 DEF Resting
<1>2. CASE Launching
  <2>1. /\ launched + 1 \in Processes /\ at[launched + 1] = "none"
        /\ \A q \in Processes : q # launched + 1 => at'[q] = at[q]
        /\ after'[launched + 1] = NoProcess
        /\ \A q \in Processes : q # launched + 1 => after'[q] = after[q]
    BY <1>2, LaunchFacts DEF Launching
  <2> QED
    BY <2>1 DEF HandoverTypeOK
<1>3. ASSUME NEW p \in Processes, NEW x \in {"gone", "leaving"},
             NEW r \in Processes \cup {NoProcess}, HandingOver(p, x, r)
      PROVE  FollowsLeaving'
  <2>1. /\ launched + 1 \in Processes /\ launched + 1 # p /\ at[launched + 1] = "none"
        /\ at'[p] = x /\ at[p] # "none" /\ after'[launched + 1] = r
        /\ \A q \in Processes : q # p /\ q # launched + 1 => at'[q] = at[q]
        /\ \A q \in Processes : q # launched + 1 => after'[q] = after[q]
    BY <1>3, SpawnedFacts DEF HandingOver, PlacesOfProcess
  <2>2. r # NoProcess => at'[r] \in Going \cup {"gone"}
    BY <1>3, <2>1 DEF HandingOver
  <2> QED
    BY <1>3, <2>1, <2>2 DEF HandoverTypeOK
<1>4. ASSUME NEW p \in Processes, NEW x \in PlacesOfProcess, Moving(p, x)
      PROVE  FollowsLeaving'
  BY <1>4 DEF Moving, HandoverTypeOK
<1> QED
  BY <1>1, <1>2, <1>3, <1>4 DEF Steps

LEMMA WaitedForStep ==
    ASSUME HandoverTypeOK, Numbered, WaitedFor, Steps, late => late'
    PROVE  WaitedFor'
<1> USE DEF WaitedFor, NoProcess
<1>1. CASE Resting
  BY <1>1 DEF Resting
<1>2. CASE Launching
  <2>1. /\ launched + 1 \in Processes /\ at[launched + 1] = "none"
        /\ at'[launched + 1] = "wait"
        /\ \A q \in Processes : q # launched + 1 => at'[q] = at[q]
        /\ \A q \in Processes : q # launched + 1 => after'[q] = after[q]
    BY <1>2, LaunchFacts DEF Launching
  <2> QED
    BY <2>1 DEF HandoverTypeOK
<1>3. ASSUME NEW p \in Processes, NEW x \in {"gone", "leaving"},
             NEW r \in Processes \cup {NoProcess}, HandingOver(p, x, r)
      PROVE  WaitedFor'
  <2>1. /\ launched + 1 \in Processes /\ launched + 1 # p /\ at[launched + 1] = "none"
        /\ at'[launched + 1] = "wait" /\ at'[p] = x /\ at[p] \notin {"none", "gone"}
        /\ \A q \in Processes : q # p /\ q # launched + 1 => at'[q] = at[q]
        /\ \A q \in Processes : q # launched + 1 => after'[q] = after[q]
    BY <1>3, SpawnedFacts DEF HandingOver, PlacesOfProcess, Going
  <2> QED
    BY <1>3, <2>1 DEF HandoverTypeOK
<1>4. ASSUME NEW p \in Processes, NEW x \in PlacesOfProcess, Moving(p, x)
      PROVE  WaitedFor'
  BY <1>4 DEF Moving, HandoverTypeOK
<1> QED
  BY <1>1, <1>2, <1>3, <1>4 DEF Steps

\* Another process becomes present only with the lock, and all that are present then are
\* overtaken, but the one it was to follow, which has ended.
LEMMA OnePresentStep ==
    ASSUME HandoverTypeOK, Numbered, FollowsLeaving, WaitedFor, UpHasLock, OnePresent,
           Steps, late => late', overtaken \subseteq overtaken'
    PROVE  OnePresent'
<1> USE DEF OnePresent, Present, Staying, Going
<1>1. CASE Resting
  BY <1>1 DEF Resting
<1>2. CASE Launching
  <2>1. /\ launched + 1 \in Processes /\ at'[launched + 1] = "wait"
        /\ \A q \in Processes : q # launched + 1 => at'[q] = at[q]
    BY <1>2, LaunchFacts DEF Launching
  <2> QED
    BY <2>1
<1>3. ASSUME NEW p \in Processes, NEW x \in {"gone", "leaving"},
             NEW r \in Processes \cup {NoProcess}, HandingOver(p, x, r)
      PROVE  OnePresent'
  <2>1. /\ launched + 1 \in Processes /\ launched + 1 # p
        /\ at'[launched + 1] = "wait" /\ at'[p] = x
        /\ x \in Present => at[p] \in Present
        /\ \A q \in Processes : q # p /\ q # launched + 1 => at'[q] = at[q]
    BY <1>3, SpawnedFacts DEF HandingOver, PlacesOfProcess
  <2> QED
    BY <1>3, <2>1
<1>4. ASSUME NEW p \in Processes, NEW x \in PlacesOfProcess, Moving(p, x)
      PROVE  OnePresent'
  <2>1. at'[p] = x /\ \A q \in Processes : q # p => at'[q] = at[q]
    BY <1>4 DEF Moving, HandoverTypeOK
  <2>2. CASE x \in Present => at[p] \in Present
    BY <2>1, <2>2
  <2>3. CASE lock = NoProcess /\ at[p] = "acquire" /\ OvertakenBy(p) \subseteq overtaken'
    <3>1. ASSUME NEW q \in Processes, q # p, at[q] \in Present
          PROVE  late \/ q \in overtaken'
      <4>1. CASE at[q] \in {"up", "asked"}
        BY <2>3, <3>1, <4>1 DEF UpHasLock, NoProcess, Processes
      <4>2. CASE at[q] \in {"uac"} \cup Going /\ after[p] # q
        BY <2>3, <3>1, <4>2 DEF OvertakenBy
      <4>3. CASE at[q] \in {"uac"} \cup Going /\ after[p] = q
        <5>1. q # NoProcess
          BY DEF Processes, NoProcess
        <5> QED
          BY <2>3, <4>3, <5>1 DEF WaitedFor
      <4> QED
        BY <3>1, <4>1, <4>2, <4>3
    <3> QED
      BY <2>1, <3>1
  <2> QED
    BY <1>4, <2>2, <2>3 DEF Moving
<1> QED
  BY <1>1, <1>2, <1>3, <1>4 DEF Steps


\* A step of one process launches another at most.
LEMMA Others ==
    ASSUME HandoverTypeOK, Numbered, NEW p \in Processes, HandoverStep(p)
    PROVE  \A q \in Processes : q # p =>
             at'[q] = at[q] \/ (at[q] = "none" /\ at'[q] = "wait")
<1> USE DEF PlacesOfProcess, Coming, Staying, Going, handing
<1>1. ASSUME NEW x \in PlacesOfProcess \ {"none"}, NEW admin, at[p] # "none",
             NEW r \in Processes \cup {NoProcess}, Spawned([at EXCEPT ![p] = x], admin, r),
             NEW q \in Processes, q # p
      PROVE  at'[q] = at[q] \/ (at[q] = "none" /\ at'[q] = "wait")
  <2>1. /\ at[launched + 1] = "none" /\ at'[launched + 1] = "wait"
        /\ q # launched + 1 => at'[q] = at[q]
    BY <1>1, SpawnedFacts
  <2>2. CASE q = launched + 1
    BY <2>1, <2>2
  <2>3. CASE q # launched + 1
    BY <2>1, <2>3
  <2> QED
    BY <2>2, <2>3
<1>2. ASSUME NEW admin, Spawned(at, admin, NoProcess), NEW q \in Processes
      PROVE  at'[q] = at[q] \/ (at[q] = "none" /\ at'[q] = "wait")
  <2>1. /\ at[launched + 1] = "none" /\ at'[launched + 1] = "wait"
        /\ q # launched + 1 => at'[q] = at[q]
    BY <1>2, LaunchFacts
  <2>2. CASE q = launched + 1
    BY <2>1, <2>2
  <2>3. CASE q # launched + 1
    BY <2>1, <2>3
  <2> QED
    BY <2>2, <2>3
<1>3. CASE StartupElevated(p) \/ RestartAccepted(p)
  BY <1>1, <1>3 DEF StartupElevated, RestartAccepted, HandoverTypeOK
<1>4. CASE promptRestartForLanguageChange(p)
  <2>1. CASE requiresAdminForConfiguredTun(p, tun[p])
    <3>1. at' = [at EXCEPT ![p] = "uac"]
      BY <1>4, <2>1 DEF promptRestartForLanguageChange
    <3> QED
      BY <3>1 DEF HandoverTypeOK
  <2>2. CASE ~requiresAdminForConfiguredTun(p, tun[p])
    BY <1>1, <1>4, <2>2 DEF promptRestartForLanguageChange
  <2> QED
    BY <2>1, <2>2
<1>5. CASE RunScript(p)
  <2>1. at' = at \/ \E admin \in BOOLEAN : Spawned(at, admin, NoProcess)
    BY <1>5 DEF RunScript
  <2> QED
    BY <1>2, <2>1
<1>6. ASSUME NEW x, at' = [at EXCEPT ![p] = x], NEW q \in Processes, q # p
      PROVE  at'[q] = at[q] \/ (at[q] = "none" /\ at'[q] = "wait")
  BY <1>6 DEF HandoverTypeOK
<1>7. CASE setEnabled(p) \/ persistConfiguration(p)
  BY <1>7 DEF setEnabled, persistConfiguration
<1>8. CASE \/ waitForProcessExit(p) \/ StartupRefused(p) \/ tryAcquire(p) \/ AlreadyRunning(p)
           \/ askRestartAsAdministratorForTun(p) \/ applySettings(p) \/ RestartDeclined(p)
           \/ promptRestartAsAdministratorForTun(p) \/ RestartRefused(p)
           \/ cleanupRuntimeForExit(p) \/ promptRestartForDownloadedAppUpdate(p)
           \/ Ends(p) \/ Quit(p) \/ Killed(p)
  <2>1. \E x \in PlacesOfProcess : at' = [at EXCEPT ![p] = x]
    BY <1>8 DEF waitForProcessExit, Starts, StartupRefused, tryAcquire, AlreadyRunning,
       askRestartAsAdministratorForTun, applySettings, RestartDeclined,
       promptRestartAsAdministratorForTun, RestartRefused, Reacquired,
       cleanupRuntimeForExit, promptRestartForDownloadedAppUpdate, Ends, Quit, Killed
  <2> QED
    BY <1>6, <2>1
<1> QED
  BY <1>3, <1>4, <1>5, <1>7, <1>8 DEF HandoverStep

LEMMA HandsOver ==
    ASSUME HandoverTypeOK, Numbered, NEW p \in Processes,
           StartupElevated(p) \/ RestartAccepted(p)
    PROVE  at'[p] \in {"gone", "leaving"}
<1>1. CASE StartupElevated(p)
  <2>1. Spawned([at EXCEPT ![p] = "gone"], TRUE, after[p]) /\ at[p] # "none"
    BY <1>1 DEF StartupElevated
  <2>2. after[p] \in Processes \cup {NoProcess}
    BY DEF HandoverTypeOK
  <2>3. at'[p] = "gone"
    BY <2>1, <2>2, SpawnedFacts DEF PlacesOfProcess
  <2> QED
    BY <2>3
<1>2. CASE RestartAccepted(p)
  <2>1. Spawned([at EXCEPT ![p] = "leaving"], TRUE, p) /\ at[p] # "none"
    BY <1>2 DEF RestartAccepted
  <2>2. at'[p] = "leaving"
    BY <2>1, SpawnedFacts DEF PlacesOfProcess, Going
  <2> QED
    BY <2>2
<1> QED
  BY <1>1, <1>2

\* The lock is taken when it is free, and given back by its holder alone.
LockKept == lock' = lock
LockTaken(p) == /\ lock = NoProcess /\ lock' = p /\ OvertakenBy(p) \subseteq overtaken'
                /\ at'[p] = "up" /\ at[p] \in {"acquire", "uac"}
LockReturned(p) == lock' = ReleasedBy(p) /\ at'[p] \notin {"up", "asked"}

LEMMA LockMoves ==
    ASSUME HandoverTypeOK, Numbered, NEW p \in Processes, HandoverStep(p)
    PROVE  LockKept \/ LockTaken(p) \/ LockReturned(p)
<1> USE DEF LockKept, LockTaken, LockReturned, HandoverTypeOK, handing
<1>1. CASE \/ waitForProcessExit(p) \/ StartupElevated(p) \/ StartupRefused(p)
           \/ AlreadyRunning(p) \/ setEnabled(p) \/ askRestartAsAdministratorForTun(p)
           \/ applySettings(p) \/ RestartDeclined(p) \/ persistConfiguration(p)
           \/ RestartAccepted(p) \/ Ends(p) \/ promptRestartForDownloadedAppUpdate(p)
           \/ RunScript(p)
  BY <1>1 DEF waitForProcessExit, StartupElevated, StartupRefused, AlreadyRunning, setEnabled,
     askRestartAsAdministratorForTun, applySettings, RestartDeclined, persistConfiguration,
     RestartAccepted, Ends, promptRestartForDownloadedAppUpdate, RunScript
<1>2. CASE tryAcquire(p)
  BY <1>2 DEF tryAcquire
<1>3. CASE RestartRefused(p)
  BY <1>3 DEF RestartRefused, Reacquired
<1>4. CASE promptRestartAsAdministratorForTun(p) \/ cleanupRuntimeForExit(p) \/ Quit(p)
           \/ Killed(p)
  BY <1>4 DEF promptRestartAsAdministratorForTun, cleanupRuntimeForExit, Quit, Killed
<1>5. CASE promptRestartForLanguageChange(p)
  <2>1. CASE requiresAdminForConfiguredTun(p, tun[p])
    BY <1>5, <2>1 DEF promptRestartForLanguageChange
  <2>2. CASE ~requiresAdminForConfiguredTun(p, tun[p])
    <3>1. at'[p] = "leaving"
      BY <1>5, <2>2, SpawnedFacts DEF promptRestartForLanguageChange, PlacesOfProcess, Going
    <3> QED
      BY <1>5, <3>1 DEF promptRestartForLanguageChange
  <2> QED
    BY <2>1, <2>2
<1> QED
  BY <1>1, <1>2, <1>3, <1>4, <1>5 DEF HandoverStep


LEMMA UpHasLockStep ==
    ASSUME IInv, NEW p \in Processes, HandoverStep(p), late => late',
           overtaken \subseteq overtaken'
    PROVE  UpHasLock'
<1> USE DEF IInv, NoProcess, Processes
<1>1. LockKept \/ LockTaken(p) \/ LockReturned(p)
  BY LockMoves
<1>2. ASSUME NEW q \in Processes, q # p, at'[q] \in {"up", "asked"}
      PROVE  lock' = q \/ late' \/ q \in overtaken'
  <2>1. at'[q] = at[q]
    BY <1>2, Others
  <2> QED
    BY <1>1, <1>2, <2>1 DEF UpHasLock, LockKept, LockTaken, LockReturned, ReleasedBy
<1>3. ASSUME at'[p] \in {"up", "asked"}
      PROVE  lock' = p \/ late' \/ p \in overtaken'
  <2>1. CASE at[p] \in {"up", "asked"}
    BY <1>1, <1>3, <2>1 DEF UpHasLock, LockKept, LockTaken, LockReturned
  <2>2. CASE RestartRefused(p)
    BY <2>2 DEF RestartRefused, Reacquired, AskedWithoutLock
  <2>3. CASE tryAcquire(p)
    BY <2>3 DEF tryAcquire
  <2>4. CASE ~RestartRefused(p) /\ ~tryAcquire(p) /\ at[p] \notin {"up", "asked"}
    <3>1. CASE \/ waitForProcessExit(p) \/ StartupRefused(p) \/ AlreadyRunning(p)
               \/ cleanupRuntimeForExit(p) \/ Ends(p) \/ Killed(p)
      BY <1>3, <3>1 DEF waitForProcessExit, Starts, StartupRefused, AlreadyRunning,
         cleanupRuntimeForExit, Ends, Killed, HandoverTypeOK
    <3>2. CASE StartupElevated(p) \/ RestartAccepted(p)
      BY <1>3, <3>2, HandsOver
    <3>3. CASE RunScript(p)
      <4>1. at' = at \/ \E admin \in BOOLEAN : Spawned(at, admin, NoProcess)
        BY <3>3 DEF RunScript
      <4>2. at'[p] = at[p] \/ at'[p] = "wait"
        BY <4>1, LaunchFacts
      <4> QED
        BY <1>3, <2>4, <4>2
    <3>4. CASE persistConfiguration(p)
      BY <1>3, <2>4, <3>4 DEF persistConfiguration, handing
    <3> QED
      BY <2>4, <3>1, <3>2, <3>3, <3>4 DEF HandoverStep, setEnabled,
         askRestartAsAdministratorForTun, applySettings, RestartDeclined,
         promptRestartAsAdministratorForTun, promptRestartForLanguageChange,
         promptRestartForDownloadedAppUpdate, Quit
  <2> QED
    BY <2>1, <2>2, <2>3, <2>4
<1> QED
  BY <1>2, <1>3 DEF UpHasLock

LEMMA AskedWithoutLockStep ==
    ASSUME IInv, NEW p \in Processes, HandoverStep(p), late => late',
           overtaken \subseteq overtaken'
    PROVE  AskedWithoutLock'
<1> USE DEF IInv, NoProcess, Processes
<1>1. LockKept \/ LockTaken(p) \/ LockReturned(p)
  BY LockMoves
<1>2. ASSUME NEW q \in Processes, q # p, at'[q] = "uac", lock' # NoProcess
      PROVE  late' \/ q \in overtaken'
  <2>1. at[q] = "uac"
    BY <1>2, Others
  <2>2. CASE lock # NoProcess
    BY <2>1, <2>2 DEF AskedWithoutLock
  <2>3. CASE lock = NoProcess
    <3>1. LockTaken(p)
      BY <1>1, <1>2, <2>3 DEF LockKept, LockReturned, ReleasedBy
    <3>2. after[p] # q
      BY <2>1 DEF FollowsLeaving, Going
    <3> QED
      BY <1>2, <2>1, <3>1, <3>2 DEF LockTaken, OvertakenBy
  <2> QED
    BY <2>2, <2>3
<1>3. ASSUME at'[p] = "uac", lock' # NoProcess
      PROVE  late' \/ p \in overtaken'
  <2>1. CASE promptRestartAsAdministratorForTun(p)
    BY <1>3, <2>1 DEF promptRestartAsAdministratorForTun, ReleasedBy, UpHasLock
  <2>2. CASE promptRestartForLanguageChange(p)
    BY <1>3, <2>2 DEF promptRestartForLanguageChange, ReleasedBy, UpHasLock
  <2>3. CASE at[p] = "uac" /\ LockKept
    BY <1>3, <2>3 DEF AskedWithoutLock, LockKept
  <2>4. CASE RunScript(p)
    <3>1. at' = at \/ \E admin \in BOOLEAN : Spawned(at, admin, NoProcess)
      BY <2>4 DEF RunScript
    <3>2. at'[p] = at[p] \/ at'[p] = "wait"
      BY <3>1, LaunchFacts
    <3> QED
      BY <1>3, <2>3, <2>4, <3>2 DEF RunScript, LockKept
  <2>5. CASE \/ setEnabled(p) \/ persistConfiguration(p)
    BY <1>3, <2>5 DEF setEnabled, persistConfiguration, handing
  <2>6. CASE \/ waitForProcessExit(p) \/ StartupRefused(p) \/ tryAcquire(p)
             \/ AlreadyRunning(p) \/ askRestartAsAdministratorForTun(p) \/ applySettings(p)
             \/ RestartDeclined(p) \/ RestartRefused(p) \/ cleanupRuntimeForExit(p)
             \/ promptRestartForDownloadedAppUpdate(p) \/ Ends(p) \/ Quit(p) \/ Killed(p)
    BY <1>3, <2>6 DEF waitForProcessExit, Starts, StartupRefused, tryAcquire, AlreadyRunning,
       askRestartAsAdministratorForTun, applySettings, RestartDeclined, RestartRefused,
       Reacquired, cleanupRuntimeForExit, promptRestartForDownloadedAppUpdate, Ends, Quit,
       Killed, HandoverTypeOK
  <2>7. CASE StartupElevated(p) \/ RestartAccepted(p)
    BY <1>3, <2>7, HandsOver
  <2> QED
    BY <2>1, <2>2, <2>4, <2>5, <2>6, <2>7 DEF HandoverStep
<1> QED
  BY <1>2, <1>3 DEF AskedWithoutLock

LEMMA LockIsHeldStep ==
    ASSUME IInv, NEW p \in Processes, HandoverStep(p), late => late'
    PROVE  LockIsHeld'
<1> USE DEF IInv, NoProcess, Processes
<1> SUFFICES ASSUME lock' # NoProcess, ~late'
             PROVE  \/ at'[lock'] \in {"up", "asked"}
                    \/ at'[lock'] = "leaving" /\ lock' \in script'
  BY DEF LockIsHeld
<1>1. LockKept \/ LockTaken(p) \/ LockReturned(p)
  BY LockMoves
<1>2. CASE LockTaken(p)
  BY <1>2 DEF LockTaken
<1>3. CASE (LockKept /\ lock # p) \/ LockReturned(p)
  <2>1. lock' = lock /\ lock \in Processes /\ lock # p
    BY <1>3 DEF LockKept, LockReturned, ReleasedBy, HandoverTypeOK
  <2>2. at'[lock] = at[lock] \/ at[lock] = "none"
    BY <2>1, Others
  <2>3. \/ at[lock] \in {"up", "asked"}
        \/ at[lock] = "leaving" /\ lock \in script
    BY <2>1 DEF LockIsHeld
  <2>4. lock \in script => lock \in script'
    BY <2>1 DEF HandoverStep, waitForProcessExit, StartupElevated, StartupRefused, tryAcquire,
       AlreadyRunning, setEnabled, askRestartAsAdministratorForTun, applySettings,
       RestartDeclined, persistConfiguration, promptRestartAsAdministratorForTun,
       RestartAccepted, RestartRefused, promptRestartForLanguageChange, cleanupRuntimeForExit,
       Ends, promptRestartForDownloadedAppUpdate, RunScript, Quit, Killed, updating
  <2> QED
    BY <2>1, <2>2, <2>3, <2>4
<1>4. CASE LockKept /\ lock = p
  <2>1. \/ at[p] \in {"up", "asked"}
        \/ at[p] = "leaving" /\ p \in script
    BY <1>4 DEF LockIsHeld, LockKept
  <2>2. CASE setEnabled(p) \/ persistConfiguration(p)
    BY <1>4, <2>1, <2>2 DEF setEnabled, persistConfiguration, handing, updating
  <2>3. CASE askRestartAsAdministratorForTun(p) \/ applySettings(p) \/ RestartDeclined(p)
             \/ promptRestartForDownloadedAppUpdate(p)
    BY <1>4, <2>3 DEF askRestartAsAdministratorForTun, applySettings, RestartDeclined,
       promptRestartForDownloadedAppUpdate, LockKept, HandoverTypeOK
  <2>4. CASE RunScript(p)
    BY <2>1, <2>4 DEF RunScript
  <2>5. CASE cleanupRuntimeForExit(p) \/ promptRestartAsAdministratorForTun(p)
             \/ promptRestartForLanguageChange(p) \/ Quit(p) \/ Killed(p)
    BY <1>4, <2>5 DEF cleanupRuntimeForExit, promptRestartAsAdministratorForTun,
       promptRestartForLanguageChange, Quit, Killed, ReleasedBy, LockKept
  <2>6. CASE waitForProcessExit(p) \/ StartupElevated(p) \/ StartupRefused(p) \/ tryAcquire(p)
             \/ AlreadyRunning(p) \/ RestartAccepted(p) \/ RestartRefused(p) \/ Ends(p)
    BY <2>1, <2>6 DEF waitForProcessExit, StartupElevated, StartupRefused, tryAcquire,
       AlreadyRunning, RestartAccepted, RestartRefused, Ends
  <2> QED
    BY <2>2, <2>3, <2>4, <2>5, <2>6 DEF HandoverStep
<1> QED
  BY <1>1, <1>2, <1>3, <1>4


\* Whoever turns away has met the holder of the lock, and whoever hands over has launched
\* another before it goes.
LEMMA SomebodyComesStep ==
    ASSUME IInv, HandoverTypeOK', LockIsHeld', NEW p \in Processes, HandoverStep(p),
           late => late'
    PROVE  SomebodyComes'
<1> USE DEF IInv, NoProcess, Coming, Staying
<1> SUFFICES ASSUME owed', ~late', script' = {}
             PROVE  \E q \in Processes : at'[q] \in Coming \cup Staying
  BY DEF SomebodyComes
<1>1. ASSUME NEW x \in PlacesOfProcess \ {"none"}, NEW admin, at[p] # "none",
             NEW r \in Processes \cup {NoProcess}, Spawned([at EXCEPT ![p] = x], admin, r)
      PROVE  \E q \in Processes : at'[q] \in Coming \cup Staying
  <2>1. launched + 1 \in Processes /\ at'[launched + 1] = "wait"
    BY <1>1, SpawnedFacts
  <2> QED
    BY <2>1
<1>2. CASE StartupElevated(p) \/ RestartAccepted(p)
  BY <1>1, <1>2 DEF StartupElevated, RestartAccepted, HandoverTypeOK, PlacesOfProcess, Going
<1>3. CASE promptRestartForLanguageChange(p)
  <2>1. CASE requiresAdminForConfiguredTun(p, tun[p])
    <3>1. at'[p] = "uac"
      BY <1>3, <2>1 DEF promptRestartForLanguageChange, HandoverTypeOK
    <3> QED
      BY <3>1
  <2>2. CASE ~requiresAdminForConfiguredTun(p, tun[p])
    BY <1>1, <1>3, <2>2 DEF promptRestartForLanguageChange, PlacesOfProcess, Going
  <2> QED
    BY <2>1, <2>2
<1>4. CASE RunScript(p)
  <2>1. PICK admin \in BOOLEAN : Spawned(at, admin, NoProcess)
    BY <1>4 DEF RunScript
  <2>2. launched + 1 \in Processes /\ at'[launched + 1] = "wait"
    BY <2>1, LaunchFacts
  <2> QED
    BY <2>2
<1>5. CASE promptRestartForDownloadedAppUpdate(p) \/ Quit(p) \/ Killed(p)
  BY <1>5 DEF promptRestartForDownloadedAppUpdate, Quit, Killed
<1>6. CASE AlreadyRunning(p)
  <2>1. lock \in Processes /\ at[lock] \in {"up", "asked"}
    BY <1>6 DEF AlreadyRunning, LockIsHeld, HandoverTypeOK, updating
  <2>2. at'[lock] = at[lock]
    BY <1>6, <2>1 DEF AlreadyRunning, HandoverTypeOK
  <2> QED
    BY <2>1, <2>2
<1>7. CASE \/ waitForProcessExit(p) \/ StartupRefused(p) \/ tryAcquire(p)
           \/ askRestartAsAdministratorForTun(p) \/ applySettings(p) \/ RestartDeclined(p)
           \/ promptRestartAsAdministratorForTun(p) \/ RestartRefused(p)
  <2>1. at'[p] \in Coming \cup Staying
    BY <1>7 DEF waitForProcessExit, Starts, StartupRefused, tryAcquire,
       askRestartAsAdministratorForTun, applySettings, RestartDeclined,
       promptRestartAsAdministratorForTun, RestartRefused, Reacquired, HandoverTypeOK
  <2> QED
    BY <2>1
<1>8. CASE setEnabled(p) \/ persistConfiguration(p)
  BY <1>8 DEF setEnabled, persistConfiguration, SomebodyComes, handing, updating
<1>9. CASE cleanupRuntimeForExit(p) \/ Ends(p)
  <2>1. owed /\ ~late /\ script = {} /\ at[p] \in Going
        /\ \A q \in Processes : q # p => at'[q] = at[q]
    BY <1>9 DEF cleanupRuntimeForExit, Ends, Going, updating, HandoverTypeOK
  <2> QED
    BY <2>1 DEF SomebodyComes, Going
<1> QED
  BY <1>2, <1>3, <1>4, <1>5, <1>6, <1>7, <1>8, <1>9 DEF HandoverStep

\* What a step writes is what the process that takes it remembers, and as long as one is
\* present nobody else writes.
LEMMA MemoryIsFileStep ==
    ASSUME IInv, HandoverTypeOK', OnePresent', NEW p \in Processes, HandoverStep(p),
           late => late', overtaken \subseteq overtaken'
    PROVE  MemoryIsFile'
<1> USE DEF IInv, NoProcess, Staying
<1> SUFFICES ASSUME ~late', ~torn', overtaken' = {}, NEW q \in Processes, at'[q] \in Staying
             PROVE  tun'[q] = saved'
  BY DEF MemoryIsFile
<1>1. ASSUME NEW on \in BOOLEAN, Saves(p, on), q = p
      PROVE  tun'[q] = saved'
  BY <1>1 DEF Saves, HandoverTypeOK
<1>2. ASSUME q # p, at'[p] \in Present
      PROVE  FALSE
  BY <1>2 DEF OnePresent, Present
<1>3. ASSUME at[q] \in Staying, ~torn, tun'[q] = tun[q], saved' = saved
      PROVE  tun'[q] = saved'
  BY <1>3 DEF MemoryIsFile
<1>4. q # p => at[q] = at'[q]
  BY Others
<1>5. CASE setEnabled(p) \/ persistConfiguration(p)
  <2>1. PICK on \in BOOLEAN : Saves(p, on)
    BY <1>5 DEF setEnabled, persistConfiguration, HandoverTypeOK
  <2>2. at'[p] \in Present
    BY <1>5 DEF setEnabled, persistConfiguration, Present, Going, handing
  <2> QED
    BY <1>1, <1>2, <2>1, <2>2
<1>6. CASE applySettings(p) \/ promptRestartAsAdministratorForTun(p)
  <2>1. PICK on \in BOOLEAN : Saves(p, on)
    BY <1>6 DEF applySettings, promptRestartAsAdministratorForTun
  <2>2. at'[p] \in Present
    BY <1>6 DEF applySettings, promptRestartAsAdministratorForTun, Present, HandoverTypeOK
  <2> QED
    BY <1>1, <1>2, <2>1, <2>2
<1>7. CASE promptRestartForLanguageChange(p)
  <2>1. Saves(p, tun[p]) /\ tun[p] \in BOOLEAN
    BY <1>7 DEF promptRestartForLanguageChange, HandoverTypeOK
  <2>2. at'[p] \in Present
    <3>1. CASE requiresAdminForConfiguredTun(p, tun[p])
      BY <1>7, <3>1 DEF promptRestartForLanguageChange, Present, HandoverTypeOK
    <3>2. CASE ~requiresAdminForConfiguredTun(p, tun[p])
      BY <1>7, <3>2, SpawnedFacts DEF promptRestartForLanguageChange, Present,
         PlacesOfProcess, Going
    <3> QED
      BY <3>1, <3>2
  <2> QED
    BY <1>1, <1>2, <2>1, <2>2
<1>8. CASE tryAcquire(p)
  <2>1. q = p
    BY <1>2, <1>8 DEF tryAcquire, Present, HandoverTypeOK
  <2> QED
    BY <1>8, <2>1 DEF tryAcquire, HandoverTypeOK
<1>9. CASE RestartRefused(p)
  <2>1. q = p
    BY <1>2, <1>9 DEF RestartRefused, Reacquired, Present, HandoverTypeOK
  <2>2. CASE p \notin reverts
    <3>1. at[q] \in Staying /\ UNCHANGED <<tun, saved, torn>>
      BY <1>9, <2>1, <2>2 DEF RestartRefused
    <3> QED
      BY <1>3, <3>1
  <2>3. CASE p \in reverts
    BY <1>1, <1>9, <2>1, <2>3 DEF RestartRefused
  <2> QED
    BY <2>2, <2>3
<1>10. CASE askRestartAsAdministratorForTun(p) \/ RestartDeclined(p)
  <2>1. at[p] \in Staying
    BY <1>10 DEF askRestartAsAdministratorForTun, RestartDeclined
  <2>2. UNCHANGED <<tun, saved, torn>>
    BY <1>10 DEF askRestartAsAdministratorForTun, RestartDeclined, switch
  <2> QED
    BY <1>3, <1>4, <2>1, <2>2
<1>11. CASE Quit(p)
  <2>1. q # p
    BY <1>11 DEF Quit, HandoverTypeOK
  <2>2. at[p] \in Present /\ at[q] \in Present
    BY <1>4, <1>11, <2>1 DEF Quit, Present
  <2> QED
    BY <2>1, <2>2 DEF OnePresent
<1>12. CASE Ends(p) \/ Killed(p)
  <2>1. q # p
    BY <1>12 DEF Ends, Killed, HandoverTypeOK
  <2>2. tun'[q] = tun[q] /\ UNCHANGED <<saved, torn>>
    BY <1>12, <2>1 DEF Ends, Killed, Forgotten, HandoverTypeOK
  <2> QED
    BY <1>3, <1>4, <2>1, <2>2
<1>13. CASE \/ waitForProcessExit(p) \/ StartupRefused(p) \/ AlreadyRunning(p)
            \/ cleanupRuntimeForExit(p) \/ promptRestartForDownloadedAppUpdate(p)
  <2>1. q # p
    BY <1>13 DEF waitForProcessExit, Starts, StartupRefused, AlreadyRunning,
       cleanupRuntimeForExit, promptRestartForDownloadedAppUpdate, HandoverTypeOK
  <2>2. UNCHANGED <<tun, saved, torn>>
    BY <1>13 DEF waitForProcessExit, StartupRefused, AlreadyRunning,
       cleanupRuntimeForExit, promptRestartForDownloadedAppUpdate, switch
  <2> QED
    BY <1>3, <1>4, <2>1, <2>2
<1>14. CASE StartupElevated(p) \/ RestartAccepted(p)
  <2>1. q # p
    BY <1>14, HandsOver
  <2>2. UNCHANGED <<tun, saved, torn>>
    BY <1>14 DEF StartupElevated, RestartAccepted, switch
  <2> QED
    BY <1>3, <1>4, <2>1, <2>2
<1>15. CASE RunScript(p)
  <2>1. UNCHANGED <<tun, saved, torn>>
    BY <1>15 DEF RunScript, switch
  <2>2. at' = at \/ \E admin \in BOOLEAN : Spawned(at, admin, NoProcess)
    BY <1>15 DEF RunScript
  <2>3. at'[q] = at[q] \/ at'[q] = "wait"
    BY <2>2, LaunchFacts
  <2> QED
    BY <1>3, <2>1, <2>3
<1> QED
  BY <1>5, <1>6, <1>7, <1>8, <1>9, <1>10, <1>11, <1>12, <1>13, <1>14, <1>15 DEF HandoverStep

LEMMA Initially == HandoverInit => IInv
<1> SUFFICES ASSUME HandoverInit
             PROVE  IInv
  OBVIOUS
<1>1. HandoverTypeOK
  <2>1. launched \in 0..MaxProcesses
    BY ProcessNumber DEF HandoverInit
  <2>2. at \in [Processes -> PlacesOfProcess]
    BY DEF HandoverInit, PlacesOfProcess
  <2> QED
    BY <2>1, <2>2 DEF HandoverInit, HandoverTypeOK
<1>2. Numbered
  BY ProcessNumber DEF HandoverInit, Numbered, Processes
<1>3. FollowsLeaving /\ WaitedFor /\ SomebodyComes
  BY DEF HandoverInit, FollowsLeaving, WaitedFor, SomebodyComes
<1>4. UpHasLock /\ AskedWithoutLock /\ LockIsHeld /\ OnePresent /\ MemoryIsFile
  BY DEF HandoverInit, UpHasLock, AskedWithoutLock, LockIsHeld, OnePresent, MemoryIsFile,
     Present, Staying, Going
<1> QED
  BY <1>1, <1>2, <1>3, <1>4 DEF IInv

LEMMA Inductive == IInv /\ [HandoverNext]_handoverVars => IInv'
<1> SUFFICES ASSUME IInv, [HandoverNext]_handoverVars
             PROVE  IInv'
  OBVIOUS
<1>1. HandoverTypeOK'
  BY TypeStep DEF IInv
<1>2. Steps /\ (late => late') /\ overtaken \subseteq overtaken'
  BY Kinds DEF IInv
<1>3. Numbered' /\ FollowsLeaving' /\ WaitedFor' /\ OnePresent'
  BY <1>2, NumberedStep, FollowsLeavingStep, WaitedForStep, OnePresentStep DEF IInv
<1>4. ASSUME NEW p \in Processes, HandoverStep(p)
      PROVE  UpHasLock' /\ AskedWithoutLock' /\ LockIsHeld' /\ SomebodyComes' /\ MemoryIsFile'
  <2>1. UpHasLock' /\ AskedWithoutLock' /\ LockIsHeld'
    BY <1>2, <1>4, UpHasLockStep, AskedWithoutLockStep, LockIsHeldStep
  <2>2. SomebodyComes'
    BY <1>1, <1>2, <1>4, <2>1, SomebodyComesStep
  <2>3. MemoryIsFile'
    BY <1>1, <1>2, <1>3, <1>4, MemoryIsFileStep
  <2> QED
    BY <2>1, <2>2, <2>3
<1>5. CASE Launch
  <2>1. PICK admin \in BOOLEAN : Spawned(at, admin, NoProcess)
    BY <1>5 DEF Launch
  <2>2. /\ launched + 1 \in Processes /\ at[launched + 1] = "none"
        /\ at'[launched + 1] = "wait"
        /\ \A q \in Processes : q # launched + 1 => at'[q] = at[q]
    BY <2>1, LaunchFacts DEF IInv
  <2>3. UNCHANGED <<lock, tun, saved, torn, script, late, overtaken, owed>>
    BY <1>5 DEF Launch, switch, updating
  <2>4. UpHasLock' /\ AskedWithoutLock' /\ LockIsHeld'
    BY <2>2, <2>3 DEF IInv, UpHasLock, AskedWithoutLock, LockIsHeld, HandoverTypeOK
  <2>5. SomebodyComes'
    BY <2>2 DEF SomebodyComes, Coming
  <2>6. MemoryIsFile'
    BY <2>2, <2>3 DEF IInv, MemoryIsFile, Staying
  <2> QED
    BY <1>1, <1>3, <2>4, <2>5, <2>6 DEF IInv
<1>6. CASE UNCHANGED handoverVars
  BY <1>6 DEF handoverVars, handing, switch, updating, IInv, HandoverTypeOK, Numbered,
     FollowsLeaving, WaitedFor, UpHasLock, AskedWithoutLock, LockIsHeld, OnePresent,
     SomebodyComes, MemoryIsFile
<1> QED
  BY <1>1, <1>3, <1>4, <1>5, <1>6 DEF HandoverNext, IInv

\* Every variable keeps its type, and the processes their numbers.
THEOREM TypeCorrect == HandoverSpec => []HandoverTypeOK
<1>1. IInv => HandoverTypeOK
  BY DEF IInv
<1> QED
  BY <1>1, Initially, Inductive, PTL DEF HandoverSpec

\* However many processes are launched: no two are at work at the same time and, until
\* the user or a failure ends one, somebody is there (waitForProcessExit).
THEOREM OneIsThereAlways == HandoverSpec => []OneIsThere
<1>1. IInv => OneIsThere
  BY DEF IInv, OneIsThere, OnePresent, SomebodyComes, AtWork, Present, Going
<1> QED
  BY <1>1, Initially, Inductive, PTL DEF HandoverSpec

\* With the same generality: what the switch shows is what the next process will find
\* (TunModeCoordinator::setEnabled).
THEOREM SwitchIsHonestAlways == HandoverSpec => []SwitchIsHonest
<1>1. IInv => SwitchIsHonest
  BY DEF IInv, SwitchIsHonest, MemoryIsFile, Staying
<1> QED
  BY <1>1, Initially, Inductive, PTL DEF HandoverSpec


================================================================================
