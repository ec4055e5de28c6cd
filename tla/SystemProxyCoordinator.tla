------------------------ MODULE SystemProxyCoordinator -------------------------
(***************************************************************************)
(* Who owns the Windows proxy settings, over the life of several processes *)
(* (src/app/SystemProxyCoordinator, with what AppBootstrap does at launch   *)
(* and at exit).  The settings outlive every process; so do the mode the    *)
(* user chose and the snapshot of what was there before, as of the last     *)
(* time the configuration was saved.  ProxySession has the session itself:  *)
(* here it is reduced to what the coordinator asks of it and to the moments *)
(* at which it writes the settings.                                         *)
(***************************************************************************)
EXTENDS Naturals

CONSTANTS MaxKills,   \* bound: how often a process is killed, or the machine loses power
          MaxEdits    \* bound: how often the user changes the settings elsewhere

ASSUME MaxKillsAssumption == MaxKills \in Nat
ASSUME MaxEditsAssumption == MaxEdits \in Nat

VARIABLES alive,        \* a process runs
          reg,          \* the settings: the user's proxy, off, or pointing at this app
          theirs,       \* history: what the user last set them to
          snap,         \* config_.systemProxySnapshot(), "none" when it is not valid
          disk,         \* the same, in the .state.json of the last save
          mode,         \* sysProxyType and mainProxyEnabled: the user wants the proxy
          managed,      \* managedSystemProxyActive_
          session,      \* what the proxy session does
          prefs,        \* the 0-ms timer of the startup preference is armed
          exitApplied,  \* exitProxyStateApplied_
          lost,         \* history: a process died while the settings were its own and
                        \* what they replaced was nowhere on disk
          kills, edits

vars == <<alive, reg, theirs, snap, disk, mode, managed, session, prefs, exitApplied,
          lost, kills, edits>>
processVars == <<alive, prefs, exitApplied>>
historyVars == <<theirs, lost, kills, edits>>

\* "gap": no core, and a timer that will start one.  "updating": no core until the core
\* update is over.
Sessions == {"down", "activating", "up", "stopping", "gap", "updating"}

Init == /\ alive = FALSE /\ reg \in {"user", "off"} /\ theirs = reg
        /\ snap = "none" /\ disk = "none" /\ mode = FALSE /\ managed = FALSE
        /\ session = "down" /\ prefs = FALSE /\ exitApplied = FALSE
        /\ lost = FALSE /\ kills = 0 /\ edits = 0

Enabled == reg # "off"

\* The core process is there, or the session is on its way somewhere.
Busy == session \in {"activating", "up", "stopping"}

-------------------------------------------------------------------------------
(***************************************************************************)
(* The settings and the snapshot.                                          *)
(***************************************************************************)
\* ensureSystemProxySnapshotCaptured, captureSnapshotIfNeeded: once, until it is spent.
Captured == IF snap = "none" THEN reg ELSE snap

\* Restore what was captured, which spends it and saves; clear when nothing was.
Restore == /\ reg' = IF snap = "none" THEN "off" ELSE snap
           /\ snap' = "none"
           /\ disk' = IF snap = "none" THEN disk ELSE "none"
           /\ managed' = FALSE

KeepSettings == UNCHANGED <<reg, snap, disk, managed>>

\* The session's own undo: when its core is gone, or its start has failed.
UndoIfOurs == IF managed /\ Enabled THEN Restore ELSE KeepSettings

-------------------------------------------------------------------------------
(***************************************************************************)
(* What the user and the host ask for.                                     *)
(***************************************************************************)
\* setMode(ForcedChange).  The mode is saved before anything is done about it.
Enable ==
    IF session = "activating"
    THEN UNCHANGED vars
    ELSE /\ mode' = TRUE
         /\ IF session = "up"
            THEN /\ snap' = Captured /\ disk' = Captured
                 /\ reg' = "ours" /\ managed' = TRUE
                 /\ UNCHANGED session
            ELSE /\ disk' = snap
                 /\ session' = IF session = "stopping" THEN session ELSE "activating"
                 /\ UNCHANGED <<reg, snap, managed>>
         /\ UNCHANGED <<processVars, historyVars>>

\* (slip) only a core that is up is stopped, an activation goes on
DisableOnlyStopsUp ==
    /\ mode' = FALSE /\ disk' = snap
    /\ reg' = "off" /\ managed' = FALSE
    /\ session' = IF session = "up" THEN "stopping" ELSE session
    /\ UNCHANGED <<processVars, historyVars, snap>>

\* setMode(ForcedClear).  It clears; the snapshot is neither restored nor spent.
Disable ==
    /\ mode' = FALSE /\ disk' = snap
    /\ reg' = "off" /\ managed' = FALSE
    /\ session' = IF session \in {"up", "activating"} THEN "stopping" ELSE session
    /\ UNCHANGED <<processVars, historyVars, snap>>

\* The toolbar and a new default server enable at any time; the toolbar disables only a
\* proxy that is up, and so does the removal of the server that runs.
UserEnables == alive /\ ~prefs /\ session # "updating" /\ Enable
UserDisables == alive /\ ~prefs /\ session \in {"up", "activating"} /\ Disable

\* The user changes the settings in Windows, whether or not the app runs.
UserEdits(s) ==
    /\ edits < MaxEdits
    /\ reg' = s /\ theirs' = s /\ edits' = edits + 1
    /\ UNCHANGED <<processVars, snap, disk, mode, managed, session, lost, kills>>

\* Anything else that saves the configuration saves the snapshot with it.
Save == /\ alive
        /\ disk' = snap
        /\ UNCHANGED <<processVars, historyVars, reg, snap, mode, managed, session>>

-------------------------------------------------------------------------------
(***************************************************************************)
(* What the session does.                                                  *)
(***************************************************************************)
\* applySystemProxyAfterOutboundCheck: here the snapshot is captured, but not saved.
Applies ==
    /\ alive /\ session = "activating"
    /\ snap' = Captured /\ reg' = "ours" /\ managed' = TRUE /\ session' = "up"
    /\ UNCHANGED <<processVars, historyVars, disk, mode>>

\* (slip) whatever a failed start had claimed is left as it is
FailsHolding ==
    /\ alive /\ session \in {"activating", "up"}
    /\ KeepSettings
    /\ mode' = FALSE /\ session' = "down"
    /\ UNCHANGED <<processVars, historyVars>>

\* A start fails, or a core has died too often; the host clears and saves the mode.
Fails ==
    /\ alive /\ session \in {"activating", "up"}
    /\ IF managed /\ (session = "activating" \/ Enabled)
       THEN /\ reg' = (IF snap = "none" THEN "off" ELSE snap) /\ snap' = "none"
            /\ disk' = "none"
       ELSE disk' = snap /\ UNCHANGED <<reg, snap>>
    /\ managed' = FALSE /\ mode' = FALSE /\ session' \in {"down", "stopping"}
    /\ UNCHANGED <<processVars, historyVars>>

\* The core dies or is restarted ("gap"), or makes way for an update of itself.
CoreGoes(next) ==
    /\ alive /\ session \in {"activating", "up"}
    /\ UndoIfOurs
    /\ session' = next
    /\ UNCHANGED <<processVars, historyVars, mode>>

\* The default server changed during the start: the session stops itself.
StopsItself ==
    /\ alive /\ session = "activating"
    /\ IF managed /\ Enabled THEN Restore ELSE managed' = FALSE /\ UNCHANGED <<reg, snap, disk>>
    /\ session' = "stopping"
    /\ UNCHANGED <<processVars, historyVars, mode>>

\* What follows a gap may fail before there is a core: the session is then just stopped.
GapEnds == /\ alive /\ session = "gap"
           /\ session' \in {"activating", "down"}
           /\ UNCHANGED <<processVars, historyVars, reg, snap, disk, mode, managed>>

CoreGone == /\ alive /\ session = "stopping"
            /\ session' = "down"
            /\ UNCHANGED <<processVars, historyVars, reg, snap, disk, mode, managed>>

\* clearStateAfterCoreStopped: the update left no core to start again.
ClearState == /\ mode' = FALSE
              /\ disk' = IF mode THEN snap ELSE disk
              /\ session' = "down"
              /\ UNCHANGED <<processVars, historyVars, reg, snap, managed>>

UpdateEnds == alive /\ session = "updating" /\ (Enable \/ ClearState)

-------------------------------------------------------------------------------
(***************************************************************************)
(* Launch and exit.                                                        *)
(***************************************************************************)
\* (slip) a new process starts with no claim on anything
NothingAdopted == FALSE

\* shouldAdoptManagedSystemProxyOnStartup
Adopted == mode /\ Enabled

Launch == /\ ~alive
          /\ alive' = TRUE /\ prefs' = TRUE /\ exitApplied' = FALSE
          /\ snap' = disk /\ managed' = Adopted /\ session' = "down"
          /\ UNCHANGED <<historyVars, reg, disk, mode>>

\* applyStartupSystemProxyPreference
Preference ==
    /\ alive /\ prefs
    /\ prefs' = FALSE /\ disk' = snap
    /\ IF mode
       THEN session' = "activating" /\ UNCHANGED <<reg, managed>>
       ELSE reg' = "off" /\ managed' = FALSE /\ UNCHANGED session
    /\ UNCHANGED <<alive, exitApplied, historyVars, snap, mode>>

\* (slip) what the first of two exits did is taken for all that is needed
LetsGoOnce == managed /\ ~exitApplied

\* applyModeOnExit does its part once; stopping the session does its own every time.
LetsGo == managed /\ (~exitApplied \/ (Busy /\ Enabled))

\* cleanupRuntimeForExit and persistUiState.
CleanUp == /\ IF LetsGo
              THEN reg' = (IF snap = "none" THEN "off" ELSE snap)
              ELSE UNCHANGED reg
           /\ disk' = IF LetsGo THEN "none" ELSE IF exitApplied THEN disk ELSE snap

\* Windows asks the app to end the session; the user may then cancel it.
ShutdownAsked ==
    /\ alive
    /\ CleanUp
    /\ snap' = IF LetsGo THEN "none" ELSE snap
    /\ managed' = (managed /\ ~LetsGo /\ ~Busy)
    /\ session' = IF Busy THEN "down" ELSE session
    /\ exitApplied' = TRUE
    /\ UNCHANGED <<alive, prefs, historyVars, mode>>

Forgotten == /\ alive' = FALSE /\ prefs' = FALSE /\ exitApplied' = FALSE
             /\ snap' = "none" /\ managed' = FALSE /\ session' = "down"
             /\ UNCHANGED mode

Quit == alive /\ CleanUp /\ Forgotten /\ UNCHANGED historyVars

\* The process is killed; the job object takes the cores along.
Kill == /\ alive /\ kills < MaxKills
        /\ Forgotten
        /\ lost' = (lost \/ (reg = "ours" /\ disk = "none"))
        /\ kills' = kills + 1
        /\ UNCHANGED <<reg, disk, theirs, edits>>

-------------------------------------------------------------------------------
Session == Applies \/ Fails \/ StopsItself \/ GapEnds \/ CoreGone

Next == \/ Launch \/ Preference \/ ShutdownAsked \/ Quit \/ Kill
        \/ UserEnables \/ UserDisables \/ Save
        \/ \E s \in {"user", "off"} : UserEdits(s)
        \/ Session \/ UpdateEnds
        \/ \E s \in {"gap", "updating"} : CoreGoes(s)

\* An activation ends, a core that was told to go does, timers fire, an update ends
\* (ProxySession shows the first two); nothing is assumed of the user.
Fairness == /\ WF_vars(Preference) /\ WF_vars(Applies \/ Fails \/ StopsItself)
            /\ WF_vars(GapEnds) /\ WF_vars(CoreGone) /\ WF_vars(UpdateEnds)

Spec == Init /\ [][Next]_vars /\ Fairness

-------------------------------------------------------------------------------
TypeOK == /\ alive \in BOOLEAN /\ mode \in BOOLEAN /\ managed \in BOOLEAN
          /\ prefs \in BOOLEAN /\ exitApplied \in BOOLEAN /\ lost \in BOOLEAN
          /\ reg \in {"user", "off", "ours"} /\ theirs \in {"user", "off"}
          /\ snap \in {"none", "user", "off", "ours"}
          /\ disk \in {"none", "user", "off", "ours"}
          /\ session \in Sessions
          /\ kills \in 0..MaxKills /\ edits \in 0..MaxEdits

\* Settings that point at this app are claimed by the process that runs, if one does:
\* also by one that finds them at launch, after an earlier one was killed
\* (adoptManagedSystemProxyOnStartup), so that a stop or a quit undoes them.
OursIsClaimed == alive /\ reg = "ours" => managed \/ lost

\* The settings are pointed at this app only while the user wants them to be: no start
\* that was under way when the proxy was disabled gets that far (setMode).
TakesOverWhenAsked == [][reg # "ours" /\ reg' = "ours" => mode' \/ lost]_vars

\* No exit leaves the settings pointing at a port that nobody serves any more, not even
\* the second one after a shutdown that was cancelled; the one exception is what an
\* earlier process, killed before its snapshot was saved, left behind (applyModeOnExit).
QuitLetsGo == [][Quit => reg' # "ours" \/ lost]_vars

\* Settings left pointing at this app by a process that was killed are taken back or
\* served again by the next one (Preference, Applies, Fails).
LeftoverEnds == (alive /\ reg = "ours" /\ session # "up" /\ ~lost)
                   ~> (~alive \/ reg # "ours" \/ session = "up")

\* Quitting never leaves the settings pointing at this app (the snapshot is on disk
\* from the moment it is captured, and one of our own port means "off").
QuitAlwaysLetsGo == [][Quit => reg' # "ours"]_vars

\* Quitting leaves the user with the settings the user last made.
QuitReturnsUserProxy == [][Quit => reg' = theirs]_vars
===============================================================================
