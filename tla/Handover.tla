-------------------------------- MODULE Handover --------------------------------
(***************************************************************************)
(* From one process of the application to the next.  A restart, with or    *)
(* without elevation, starts the successor before its own clean-up; the    *)
(* script of an application update starts it afterwards; and a launch may  *)
(* replace itself by an elevated one.  One lock admits one process, and it *)
(* is given back early, so that the successor does not find it taken.      *)
(* TUN needs elevation: switching it on is saved first and taken back if   *)
(* the user refuses.                                                       *)
(***************************************************************************)
EXTENDS Naturals

CONSTANT MaxProcesses   \* bound: processes launched

ASSUME ProcessNumber == MaxProcesses \in Nat

VARIABLES at,       \* where each process is
          launched, \* processes launched so far
          elevated, \* processes with administrator rights
          after,    \* --restart-wait-pid: the process each was launched to follow
          lock,     \* the process attached to the shared memory
          tun,      \* enableTun, in the memory of each process
          saved,    \* ... and in the configuration file
          reverts,  \* processes that take TUN back if elevation is refused
          script,   \* processes whose update script has yet to run
          exe,      \* the executable is in its place
          late,     \* a wait ran out (history)
          overtaken, \* processes on their way out when another came up (history)
          torn,     \* the last save failed (history)
          owed      \* a process came up, and no user or failure ended one (history)

handing == <<at, launched, elevated, after, lock>>
switch == <<tun, saved, reverts, torn>>
updating == <<script, exe>>
handoverVars == <<handing, switch, updating, late, overtaken, owed>>

Processes == 1..MaxProcesses
NoProcess == 0
\* up: at work; asked: behind a modal question; uac: blocked while Windows asks.
Coming == {"wait", "elevate", "acquire"}
Staying == {"up", "asked", "uac"}
Going == {"leaving", "ending"}
AtWork == Staying \cup {"leaving"}
PlacesOfProcess == Coming \cup Staying \cup Going \cup {"none", "gone"}

HandoverTypeOK == /\ at \in [Processes -> PlacesOfProcess]
                  /\ launched \in 0..MaxProcesses
                  /\ elevated \subseteq Processes /\ reverts \subseteq Processes
                  /\ after \in [Processes -> Processes \cup {NoProcess}]
                  /\ lock \in Processes \cup {NoProcess}
                  /\ tun \in [Processes -> BOOLEAN]
                  /\ script \subseteq Processes /\ overtaken \subseteq Processes
                  /\ saved \in BOOLEAN /\ exe \in BOOLEAN /\ late \in BOOLEAN
                  /\ torn \in BOOLEAN /\ owed \in BOOLEAN

HandoverInit == /\ at = [p \in Processes |-> "none"] /\ launched = 0 /\ elevated = {}
                /\ after = [p \in Processes |-> NoProcess] /\ lock = NoProcess
                /\ tun = [p \in Processes |-> FALSE] /\ saved \in BOOLEAN /\ reverts = {}
                /\ script = {} /\ exe = TRUE
                /\ late = FALSE /\ overtaken = {} /\ torn = FALSE /\ owed = FALSE

(***************************************************************************)
(* Launching.                                                              *)
(***************************************************************************)
\* The next process, where `places` are the places of the others then.
Spawned(places, admin, predecessor) ==
    LET p == launched + 1
    IN /\ exe /\ launched < MaxProcesses
       /\ launched' = p /\ at' = [places EXCEPT ![p] = "wait"]
       /\ elevated' = IF admin THEN elevated \cup {p} ELSE elevated
       /\ after' = [after EXCEPT ![p] = predecessor]

\* The user, or Windows at log-on.
Launch == /\ \E admin \in BOOLEAN : Spawned(at, admin, NoProcess)
          /\ UNCHANGED <<lock, switch, updating, late, overtaken, owed>>

\* A successor waits for its predecessor's end, for ten seconds at most; then the file
\* says whether a process without rights asks for them.
Starts(p) == IF saved /\ p \notin elevated THEN "elevate" ELSE "acquire"

\* (slip) The process to wait for is not found: 0 is taken for one that has ended.
waitForProcessExitOfNobody(p) ==
    /\ at[p] = "wait"
    /\ at' = [at EXCEPT ![p] = Starts(p)]
    /\ UNCHANGED <<launched, elevated, after, lock, switch, updating, late, overtaken, owed>>

waitForProcessExit(p) ==
    /\ at[p] = "wait"
    /\ \/ /\ after[p] # NoProcess => at[after[p]] = "gone"
          /\ UNCHANGED late
       \/ after[p] # NoProcess /\ at[after[p]] # "gone" /\ late' = TRUE
    /\ at' = [at EXCEPT ![p] = Starts(p)]
    /\ UNCHANGED <<launched, elevated, after, lock, switch, updating, overtaken, owed>>

\* The elevated process gets the same arguments.
StartupElevated(p) ==
    /\ at[p] = "elevate"
    /\ Spawned([at EXCEPT ![p] = "gone"], TRUE, after[p])
    /\ UNCHANGED <<lock, switch, updating, late, overtaken, owed>>

StartupRefused(p) ==
    /\ at[p] = "elevate" /\ at' = [at EXCEPT ![p] = "acquire"]
    /\ UNCHANGED <<launched, elevated, after, lock, switch, updating, late, overtaken, owed>>

\* Whoever gave the lock back and did not launch p has been overtaken when p takes it.
OvertakenBy(p) == {q \in Processes \ {p} : at[q] \in {"uac"} \cup Going /\ after[p] # q}

\* The lock is free: the process loads the configuration and is up.
tryAcquire(p) ==
    /\ at[p] = "acquire" /\ lock = NoProcess
    /\ lock' = p /\ at' = [at EXCEPT ![p] = "up"]
    /\ tun' = [tun EXCEPT ![p] = saved] /\ torn' = FALSE /\ owed' = TRUE
    /\ overtaken' = overtaken \cup OvertakenBy(p)
    /\ UNCHANGED <<launched, elevated, after, saved, reverts, updating, late>>

\* "Another SongBird instance is already running.", at once or, for a successor, after
\* a hundred attempts.
AlreadyRunning(p) ==
    /\ at[p] = "acquire" /\ lock # NoProcess
    /\ at' = [at EXCEPT ![p] = "gone"]
    /\ UNCHANGED <<launched, elevated, after, lock, switch, updating, late, overtaken, owed>>

(***************************************************************************)
(* The TUN switch, the settings dialog, and restarts.                      *)
(***************************************************************************)
ReleasedBy(p) == IF lock = p THEN NoProcess ELSE lock

\* The memory of p goes with it.
Forgotten(p) == tun' = [tun EXCEPT ![p] = FALSE] /\ reverts' = reverts \ {p}

\* What a save of the configuration of p leaves behind, if it works.
Saves(p, on) == tun' = [tun EXCEPT ![p] = on] /\ saved' = on /\ torn' = FALSE

\* TUN needs the rights of an administrator.
requiresAdminForConfiguredTun(p, on) == on /\ p \notin elevated

\* The switch, where it needs no restart.
setEnabled(p) ==
    /\ at[p] = "up" /\ ~requiresAdminForConfiguredTun(p, ~tun[p])
    /\ Saves(p, ~tun[p])
    /\ UNCHANGED <<handing, reverts, updating, late, overtaken, owed>>

askRestartAsAdministratorForTun(p) ==
    /\ at[p] = "up" /\ requiresAdminForConfiguredTun(p, ~tun[p])
    /\ at' = [at EXCEPT ![p] = "asked"]
    /\ UNCHANGED <<launched, elevated, after, lock, switch, updating, late, overtaken, owed>>

\* The settings dialog saves first and asks then.
applySettings(p) ==
    /\ at[p] = "up"
    /\ \E on \in BOOLEAN :
         /\ Saves(p, on)
         /\ at' = [at EXCEPT ![p] = IF requiresAdminForConfiguredTun(p, on) THEN "asked" ELSE "up"]
    /\ UNCHANGED <<launched, elevated, after, lock, reverts, updating, late, overtaken, owed>>

\* No, or a save that failed: the memory is what it was.
RestartDeclined(p) ==
    /\ at[p] = "asked" /\ at' = [at EXCEPT ![p] = "up"]
    /\ UNCHANGED <<launched, elevated, after, lock, switch, updating, late, overtaken, owed>>

\* Whoever saves the configuration for another reason.
persistConfiguration(p) ==
    /\ at[p] \in {"up", "asked", "ending"} /\ Saves(p, tun[p])
    /\ UNCHANGED <<handing, reverts, updating, late, overtaken, owed>>

\* The lock is given back before Windows asks.
promptRestartAsAdministratorForTun(p) ==
    /\ at[p] = "asked"
    /\ at' = [at EXCEPT ![p] = "uac"] /\ lock' = ReleasedBy(p)
    /\ reverts' = IF tun[p] THEN reverts ELSE reverts \cup {p}
    /\ Saves(p, TRUE)
    /\ UNCHANGED <<launched, elevated, after, updating, late, overtaken, owed>>

RestartAccepted(p) ==
    /\ at[p] = "uac"
    /\ Spawned([at EXCEPT ![p] = "leaving"], TRUE, p)
    /\ reverts' = reverts \ {p}
    /\ UNCHANGED <<lock, tun, saved, torn, updating, late, overtaken, owed>>

\* The process goes on, and whether it has the lock again is not looked at.
Reacquired(p) ==
    /\ at' = [at EXCEPT ![p] = "up"]
    /\ IF lock = NoProcess THEN lock' = p /\ overtaken' = overtaken \cup OvertakenBy(p)
       ELSE UNCHANGED <<lock, overtaken>>

\* (slip) The switch goes back, and the file keeps what was saved before.
RefusedInMemory(p) ==
    /\ at[p] = "uac"
    /\ Reacquired(p)
    /\ tun' = IF p \in reverts THEN [tun EXCEPT ![p] = FALSE] ELSE tun
    /\ reverts' = reverts \ {p}
    /\ UNCHANGED <<launched, elevated, after, saved, torn, updating, late, owed>>

RestartRefused(p) ==
    /\ at[p] = "uac"
    /\ Reacquired(p)
    /\ \/ p \notin reverts /\ UNCHANGED <<tun, saved, torn>>
       \/ p \in reverts /\ Saves(p, FALSE)
       \/ /\ p \in reverts /\ tun' = [tun EXCEPT ![p] = FALSE]
          /\ UNCHANGED saved /\ torn' = TRUE
    /\ reverts' = reverts \ {p}
    /\ UNCHANGED <<launched, elevated, after, updating, late, owed>>

\* A change of language: with elevation if TUN needs it.
promptRestartForLanguageChange(p) ==
    /\ at[p] = "up" /\ lock' = ReleasedBy(p)
    /\ Saves(p, tun[p])
    /\ IF requiresAdminForConfiguredTun(p, tun[p])
       THEN at' = [at EXCEPT ![p] = "uac"] /\ UNCHANGED <<launched, elevated, after>>
       ELSE Spawned([at EXCEPT ![p] = "leaving"], p \in elevated, p)
    /\ UNCHANGED <<reverts, updating, late, overtaken, owed>>

\* cleanupRuntimeForExit: it undoes the settings and ends the core.  Before an update
\* the lock is held until then.
cleanupRuntimeForExit(p) ==
    /\ at[p] = "leaving" /\ at' = [at EXCEPT ![p] = "ending"] /\ lock' = ReleasedBy(p)
    /\ UNCHANGED <<launched, elevated, after, switch, updating, late, overtaken, owed>>

Ends(p) ==
    /\ at[p] = "ending" /\ at' = [at EXCEPT ![p] = "gone"] /\ Forgotten(p)
    /\ UNCHANGED <<launched, elevated, after, lock, saved, torn, updating, late, overtaken, owed>>

(***************************************************************************)
(* The update of the application.                                          *)
(***************************************************************************)
promptRestartForDownloadedAppUpdate(p) ==
    /\ at[p] = "up" /\ at' = [at EXCEPT ![p] = "leaving"]
    /\ script' = script \cup {p}
    /\ UNCHANGED <<launched, elevated, after, lock, switch, exe, late, overtaken, owed>>

\* The script waits for thirty seconds at most, moves the old file away and the new one
\* into its place; if that fails it moves the old one back, and starts what is there.
RunScript(p) ==
    /\ p \in script /\ script' = script \ {p}
    /\ late' = (late \/ at[p] # "gone")
    /\ \/ /\ \E admin \in BOOLEAN : (p \in elevated => admin) /\ Spawned(at, admin, NoProcess)
          /\ UNCHANGED <<exe, owed>>
       \/ exe' = FALSE /\ owed' = FALSE /\ UNCHANGED <<at, launched, elevated, after>>
    /\ UNCHANGED <<lock, switch, overtaken>>

(***************************************************************************)
(* Other ends.                                                             *)
(***************************************************************************)
Quit(p) ==
    /\ at[p] = "up" /\ at' = [at EXCEPT ![p] = "gone"] /\ lock' = ReleasedBy(p)
    /\ saved' \in {saved, tun[p]} /\ owed' = FALSE /\ Forgotten(p)
    /\ UNCHANGED <<launched, elevated, after, torn, updating, late, overtaken>>

\* A kill, or a start that fails behind the lock: Windows detaches the process.
Killed(p) ==
    /\ at[p] \notin {"none", "gone"} /\ at' = [at EXCEPT ![p] = "gone"] /\ lock' = ReleasedBy(p)
    /\ owed' = FALSE /\ Forgotten(p)
    /\ UNCHANGED <<launched, elevated, after, saved, torn, updating, late, overtaken>>

HandoverStep(p) ==
    \/ waitForProcessExit(p) \/ StartupElevated(p) \/ StartupRefused(p)
    \/ tryAcquire(p) \/ AlreadyRunning(p)
    \/ setEnabled(p) \/ askRestartAsAdministratorForTun(p) \/ applySettings(p)
    \/ RestartDeclined(p) \/ persistConfiguration(p) \/ promptRestartAsAdministratorForTun(p)
    \/ RestartAccepted(p) \/ RestartRefused(p) \/ promptRestartForLanguageChange(p)
    \/ cleanupRuntimeForExit(p) \/ Ends(p)
    \/ promptRestartForDownloadedAppUpdate(p) \/ RunScript(p)
    \/ Quit(p) \/ Killed(p)

HandoverNext == Launch \/ \E p \in Processes : HandoverStep(p)

HandoverSpec == HandoverInit /\ [][HandoverNext]_handoverVars

(***************************************************************************)
(* Properties.                                                             *)
(***************************************************************************)
\* One process of the application is there, and not two.  No two work at the same time,
\* the clean-up at the end of one included, unless a wait ran out or somebody launched
\* another while the lock was given back (restartApplication).  And once one is up,
\* whatever is restarted, updated or refused, one is up or on its way, until the user
\* or a failure ends it (waitForProcessExit, AlreadyRunning, launchUpdateScript).
OneIsThere ==
    /\ \A p, q \in Processes :
         p # q /\ at[p] \in AtWork /\ at[q] \in AtWork => late \/ p \in overtaken \/ q \in overtaken
    /\ owed /\ ~late => script # {} \/ \E p \in Processes : at[p] \in Coming \cup Staying

\* The switch is what the file says, which the next process goes by: an elevation that
\* is refused takes back what was saved for it, unless that save fails, and no other
\* way out of the dialogs keeps the one without the other (TunModeCoordinator,
\* SettingsApplyCoordinator).
SwitchIsHonest == ~late /\ ~torn /\ overtaken = {} =>
    \A p \in Processes : at[p] \in {"up", "asked"} => tun[p] = saved
=================================================================================
