------------------------------- MODULE CoreUpdate -------------------------------
(***************************************************************************)
(* The update of a core.  An update takes the background slot, asks the    *)
(* user in a modal dialog, has the running core stopped if there was one   *)
(* when it was asked for, downloads and installs in a worker, and starts   *)
(* the proxy again.  Any activation in between revokes the slot and        *)
(* interrupts the worker, which looks only between its steps.              *)
(***************************************************************************)
EXTENDS Naturals

CONSTANTS MaxCoreUpdates,  \* bound: updates asked for
          Files,       \* the files of an archive
          Executable   \* the one file of a compressed package

CoreUpdates == 1..MaxCoreUpdates
NoUpdate == 0

VARIABLES proxy,       \* the session: off, activating, up or stopping
          wanted,      \* postStopAction_ = CoreUpdate
          token,       \* the update whose token is current
          asked,       \* updates asked for so far
          dialog,      \* the update whose confirmation is open
          mustStop,    \* shouldRestartRunningCore, read before it
          pendingUpdate, \* pendingCoreUpdate_
          stage,       \* where each update's worker is
          stopped,     \* updates whose worker began after a stop
          startAfter,  \* updates that start the proxy when they succeed
          cancelled,   \* workers told to end
          gzipped,     \* the core comes as one compressed file, not an archive
          toCopy,      \* files each worker has yet to install
          disk,        \* what is installed
          staging,     \* whose unpacked core lies beside the executable, or NoUpdate
          beside,      \* updates whose executable another worker was at too (history)
          stranded     \* updates nobody will continue (history)

control == <<token, asked, dialog, mustStop, pendingUpdate, startAfter>>
work == <<stage, stopped, toCopy>>
installation == <<disk, staging, beside, gzipped>>
coreUpdateVars == <<proxy, wanted, control, work, cancelled, installation, stranded>>

Package == IF gzipped THEN {Executable} ELSE Files
CoreResults == {"installed", "current", "failed", "cancelled"}
Busy == {u \in CoreUpdates : stage[u] \in {"fetch", "install", "unpack", "swap"}}

CoreUpdateTypeOK == /\ proxy \in {"off", "activating", "up", "stopping"}
                    /\ {wanted, mustStop, gzipped} \subseteq BOOLEAN
                    /\ {token, asked, dialog, pendingUpdate, staging} \subseteq 0..MaxCoreUpdates
                    /\ stage \in [CoreUpdates -> CoreResults \cup
                                   {"none", "fetch", "install", "unpack", "swap", "over"}]
                    /\ {stopped, startAfter, cancelled, stranded, beside} \subseteq SUBSET CoreUpdates
                    /\ toCopy \in [CoreUpdates -> SUBSET Files]
                    /\ disk \in [Files \cup {Executable} -> {"old", "new", "early", "gone"}]

CoreUpdateInit == /\ proxy \in {"off", "up"} /\ wanted = FALSE
                  /\ token = NoUpdate /\ asked = 0
                  /\ dialog = NoUpdate /\ mustStop = FALSE /\ pendingUpdate = NoUpdate
                  /\ stage = [u \in CoreUpdates |-> "none"]
                  /\ stopped = {} /\ startAfter = {} /\ cancelled = {} /\ stranded = {}
                  /\ gzipped \in BOOLEAN
                  /\ toCopy = [u \in CoreUpdates |-> Package]
                  /\ disk = [f \in Files \cup {Executable} |-> "old"]
                  /\ staging = NoUpdate /\ beside = {}

(***************************************************************************)
(* Asking, confirming and stopping the core.                               *)
(***************************************************************************)
\* The first half of updateCore, up to the modal dialog.
updateCore == \E after \in BOOLEAN :
    /\ token = NoUpdate /\ proxy # "activating" /\ dialog = NoUpdate /\ asked < MaxCoreUpdates
    /\ asked' = asked + 1
    /\ token' = asked' /\ dialog' = asked'
    /\ mustStop' = (proxy \in {"up", "stopping"})
    /\ startAfter' = IF after THEN startAfter \cup {asked'} ELSE startAfter
    /\ UNCHANGED <<proxy, wanted, pendingUpdate, work, cancelled, installation, stranded>>

Declined == /\ dialog # NoUpdate
            /\ dialog' = NoUpdate
            /\ token' = IF token = dialog THEN NoUpdate ELSE token
            /\ UNCHANGED <<proxy, wanted, asked, mustStop, pendingUpdate, startAfter, work,
                           cancelled, installation, stranded>>

\* The second half, when there was a running core: stopForCoreUpdate returns at
\* once if it runs no more.  Whether the token is still current is not asked.
ConfirmedWithStop ==
    /\ dialog # NoUpdate /\ mustStop
    /\ dialog' = NoUpdate
    /\ pendingUpdate' = dialog
    /\ \/ /\ proxy \in {"activating", "up", "stopping"}
          /\ proxy' = "stopping" /\ wanted' = TRUE
          /\ UNCHANGED stranded
       \/ /\ proxy \in {"off", "activating"}
          /\ stranded' = stranded \cup {dialog}
          /\ UNCHANGED <<proxy, wanted>>
    /\ UNCHANGED <<token, asked, mustStop, startAfter, work, cancelled, installation>>

Confirmed == /\ dialog # NoUpdate /\ ~mustStop
             /\ dialog' = NoUpdate
             /\ stage' = [stage EXCEPT ![dialog] = "fetch"]
             /\ UNCHANGED <<proxy, wanted, token, asked, mustStop, pendingUpdate, startAfter, stopped,
                            toCopy, cancelled, installation, stranded>>

continuePending ==
    /\ pendingUpdate' = NoUpdate
    /\ IF token = pendingUpdate
       THEN /\ stage' = [stage EXCEPT ![pendingUpdate] = "fetch"]
            /\ stopped' = stopped \cup {pendingUpdate}
       ELSE UNCHANGED <<stage, stopped>>

\* (history) Nobody continues the update that waits for the stop.
Strand == stranded' = IF wanted /\ pendingUpdate # NoUpdate
                      THEN stranded \cup {pendingUpdate} ELSE stranded

\* The core's exit, and the removal of its adapter, which may fail; after
\* stopForCoreUpdate the update is continued.
CoreExits == \E cleaned \in BOOLEAN :
    /\ proxy = "stopping"
    /\ proxy' = "off"
    /\ wanted' = FALSE
    /\ IF wanted /\ cleaned /\ pendingUpdate # NoUpdate
       THEN continuePending /\ UNCHANGED stranded
       ELSE /\ Strand
            /\ UNCHANGED <<pendingUpdate, stage, stopped>>
    /\ UNCHANGED <<token, asked, dialog, mustStop, startAfter, toCopy, cancelled, installation>>

(***************************************************************************)
(* The session.                                                            *)
(***************************************************************************)
\* (slip) The activation interrupts the workers and leaves the slot alone.
BeginActivationKeepsSlot == /\ proxy' = "activating"
                            /\ cancelled' = cancelled \cup Busy
                            /\ token' = token

\* beginActivation: cancelBackgroundTasksForProxyStartup, whose cancelActive
\* revokes the token.
BeginActivation == /\ proxy' = "activating"
                   /\ cancelled' = cancelled \cup Busy
                   /\ token' = NoUpdate

\* The user starts the proxy, or another part of the application does; a crash
\* restarts it.
Start == /\ proxy \in {"off", "up"}
         /\ BeginActivation
         /\ UNCHANGED <<wanted, asked, dialog, mustStop, pendingUpdate, startAfter, work,
                        installation, stranded>>

StartEnds == /\ proxy = "activating"
             /\ proxy' \in {"up", "off", "stopping"}
             /\ UNCHANGED <<wanted, control, work, cancelled, installation, stranded>>

\* A stop of the user's: what was to follow the core's exit is dropped.
Stop == /\ proxy # "off"
        /\ proxy' \in IF proxy = "activating" THEN {"stopping", "off"} ELSE {"stopping"}
        /\ wanted' = FALSE
        /\ Strand
        /\ UNCHANGED <<control, work, cancelled, installation>>

(***************************************************************************)
(* The worker.                                                             *)
(***************************************************************************)
\* requestCancel: the flag of the latest worker.
requestCancel == \E u \in Busy : /\ \A v \in CoreUpdates : stage[v] # "none" => v <= u
                                 /\ u \notin cancelled
                                 /\ cancelled' = cancelled \cup {u}
                                 /\ UNCHANGED <<proxy, wanted, control, work, installation, stranded>>

Goes(u, place) == stage' = [stage EXCEPT ![u] = place]

\* Release, version check and download; interruption is looked at between them and
\* once more when the package is saved.
Fetched(u) == /\ stage[u] = "fetch"
              /\ \/ u \in cancelled /\ Goes(u, "cancelled")
                 \/ u \notin cancelled /\ \E r \in {"install", "current", "failed"} : Goes(u, r)
              /\ UNCHANGED <<proxy, wanted, control, stopped, toCopy, cancelled, installation, stranded>>

\* copyExtractedFiles: one file after the other, to the end or the first failure; each is
\* replaced at once (QSaveFile).
copyExtractedFile(u) ==
    /\ stage[u] = "install" /\ ~gzipped
    /\ \/ \E f \in toCopy[u] : /\ disk' = [disk EXCEPT ![f] = "new"]
                               /\ toCopy' = [toCopy EXCEPT ![u] = @ \ {f}]
                               /\ UNCHANGED stage
       \/ toCopy[u] # {} /\ Goes(u, "failed") /\ UNCHANGED <<disk, toCopy>>
    /\ UNCHANGED <<proxy, wanted, control, stopped, cancelled, stranded, staging, beside, gzipped>>

\* The executable is in the hands of a worker from the unpacking to the report.
AtFile(u) == /\ gzipped
             /\ \/ stage[u] \in {"unpack", "swap"}
                \/ stage[u] \in {"install", "installed"} /\ toCopy[u] = {}

\* decompressGzip: what lies at the staging path is removed, whoever put it there, and the
\* helper process writes there anew; where a file that is being written cannot be removed
\* (Windows) the helper fails.  A cancellation is looked at while it runs.
Unpack(u) ==
    /\ stage[u] = "install" /\ gzipped /\ toCopy[u] # {}
    /\ \/ /\ Goes(u, "unpack") /\ staging' = u
          /\ LET others == {v \in CoreUpdates \ {u} : AtFile(v)}
             IN beside' = IF others = {} THEN beside ELSE beside \cup others \cup {u}
       \/ /\ staging # NoUpdate /\ stage[staging] = "unpack"
          /\ Goes(u, "failed") /\ UNCHANGED <<staging, beside>>
    /\ UNCHANGED <<proxy, wanted, control, stopped, toCopy, cancelled, stranded, disk, gzipped>>

\* The helper ends.  If anything lies at the staging path the target is removed; if nothing
\* does, the helper failed or the target cannot be removed, the update fails.
RemoveTarget(u) ==
    /\ stage[u] = "unpack"
    /\ \/ /\ \/ u \in cancelled /\ Goes(u, "cancelled")
             \/ Goes(u, "failed")
          /\ staging' = NoUpdate
          /\ UNCHANGED disk
       \/ /\ staging # NoUpdate
          /\ Goes(u, "swap")
          /\ disk' = [disk EXCEPT ![Executable] = "gone"]
          /\ UNCHANGED staging
    /\ UNCHANGED <<proxy, wanted, control, stopped, toCopy, cancelled, stranded, beside, gzipped>>

\* Then what lies there is renamed, which replaces no file; if that fails it is removed as
\* well.  It may be another worker's, still being written: an executable that came early.
RenameStaging(u) ==
    /\ stage[u] = "swap"
    /\ staging' = NoUpdate
    /\ \/ /\ staging # NoUpdate /\ disk[Executable] = "gone"
          /\ disk' = [disk EXCEPT ![Executable] = IF stage[staging] = "unpack" THEN "early" ELSE "new"]
          /\ toCopy' = [toCopy EXCEPT ![u] = {}]
          /\ Goes(u, "install")
       \/ Goes(u, "failed") /\ UNCHANGED <<disk, toCopy>>
    /\ UNCHANGED <<proxy, wanted, control, stopped, cancelled, stranded, beside, gzipped>>

\* (slip) The installation is reported when it has begun.
InstalledEarly(u) ==
    /\ stage[u] = "install"
    /\ Goes(u, IF u \in cancelled THEN "cancelled" ELSE "installed")
    /\ UNCHANGED <<proxy, wanted, control, stopped, toCopy, cancelled, installation, stranded>>

\* The end of installPackage: a cancellation that comes now is reported as one.
Installed(u) ==
    /\ stage[u] = "install" /\ toCopy[u] = {}
    /\ Goes(u, IF u \in cancelled THEN "cancelled" ELSE "installed")
    /\ UNCHANGED <<proxy, wanted, control, stopped, toCopy, cancelled, installation, stranded>>

(***************************************************************************)
(* The end of an update.                                                   *)
(***************************************************************************)
StartsProxy(u) ==
    IF u \in stopped
    THEN stage[u] \in {"failed", "cancelled"} \/ (stage[u] = "installed" /\ u \in startAfter)
    ELSE stage[u] \in {"installed", "current"} /\ u \in startAfter

\* (slip) A cancelled update keeps its token.
finalizeUnlessCancelled(u) ==
    /\ stage[u] \in CoreResults
    /\ IF token = u /\ stage[u] # "cancelled"
       THEN /\ pendingUpdate' = IF pendingUpdate = u THEN NoUpdate ELSE pendingUpdate
            /\ IF StartsProxy(u) /\ proxy = "off"
               THEN BeginActivation
               ELSE token' = NoUpdate /\ UNCHANGED <<proxy, cancelled>>
       ELSE UNCHANGED <<token, pendingUpdate, proxy, cancelled>>
    /\ Goes(u, "over")
    /\ UNCHANGED <<wanted, asked, dialog, mustStop, startAfter, stopped, toCopy, installation, stranded>>

\* finalizeCoreUpdate, queued to the UI thread; dropped if the token was revoked.
finalizeCoreUpdate(u) ==
    /\ stage[u] \in CoreResults
    /\ IF token = u
       THEN /\ pendingUpdate' = IF pendingUpdate = u THEN NoUpdate ELSE pendingUpdate
            /\ IF StartsProxy(u) /\ proxy = "off"
               THEN BeginActivation
               ELSE token' = NoUpdate /\ UNCHANGED <<proxy, cancelled>>
       ELSE UNCHANGED <<token, pendingUpdate, proxy, cancelled>>
    /\ Goes(u, "over")
    /\ UNCHANGED <<wanted, asked, dialog, mustStop, startAfter, stopped, toCopy, installation, stranded>>

CoreWork(u) == \/ Fetched(u) \/ copyExtractedFile(u) \/ Unpack(u) \/ RemoveTarget(u)
               \/ RenameStaging(u) \/ Installed(u) \/ finalizeCoreUpdate(u)

CoreUpdateNext == \/ updateCore \/ Declined \/ ConfirmedWithStop \/ Confirmed \/ CoreExits
                  \/ Start \/ StartEnds \/ Stop \/ requestCancel
                  \/ \E u \in CoreUpdates : CoreWork(u)

CoreUpdateSpec == CoreUpdateInit /\ [][CoreUpdateNext]_coreUpdateVars

(***************************************************************************)
(* Properties.                                                             *)
(***************************************************************************)
\* An update that holds the slot and was confirmed is on its way: a worker of its own
\* runs or has ended, or it waits for a core that is being stopped for it.  The
\* exceptions are the stranded ones: a dialog that outlived the core, a stop of the
\* user's, an adapter that could not be removed.
TokenIsInUse == \A u \in CoreUpdates :
    token = u /\ dialog # u /\ u \notin stranded
    => \/ u \in Busy \/ stage[u] \in CoreResults
       \/ pendingUpdate = u /\ proxy = "stopping" /\ wanted

\* An update whose token is current replaces the files of no core that runs or
\* starts: what starts one revokes the token, even from another part of the
\* application while the dialog was open.
InstallsAlone == \A u \in CoreUpdates :
    stage[u] \in {"install", "unpack", "swap"} /\ token = u => proxy = "off"

\* What is reported as installed is whole, every file of it the new one: of an archive,
\* whatever the revoked worker of an earlier update did to the same files, and of a core
\* that comes as one compressed file unless another worker was at the executable between
\* the unpacking and the report.  Both write to the one staging path, and either removes
\* the target.
SuccessIsWhole == \A u \in CoreUpdates :
    stage[u] = "installed" /\ u \notin beside => \A f \in Package : disk[f] = "new"

\* What decompressGzip says of itself, and what is not so when the rename fails: "a
\* cancelled or failed update never truncates or removes an already installed core
\* executable".  While no worker is in the middle of its exchange, there is one.
FailureKeepsCore ==
    (\A u \in CoreUpdates : stage[u] # "swap") => disk[Executable] # "gone"
=================================================================================
