-------------------- MODULE SystemProxyCoordinator_proofs ----------------------
(***************************************************************************)
(* What holds of the ownership of the proxy settings for any number of     *)
(* processes, kills and edits by the user.                                 *)
(***************************************************************************)
EXTENDS SystemProxyCoordinator, TLAPS

\* A session that has a core, or will have one, is one the user asked for.
Wanted == session \in {"activating", "up", "gap", "updating"} => alive /\ mode

\* Ours in the settings is a mode that was saved, and a snapshot to undo it with: in
\* memory while a process runs, on disk when none does.
OursIsUndoable == reg = "ours" => /\ mode
                                  /\ alive => managed /\ snap # "none"
                                  /\ ~alive => disk # "none"

\* After a first exit, and during an update, only a session that is up has them at ours.
OursIsServed == reg = "ours" => /\ exitApplied => session = "up"
                                /\ session # "updating"

\* No snapshot is of our own making.
SnapshotIsTheirs == snap # "ours" /\ disk # "ours"

\* Until the first save after a capture is missed, all of that holds.
IInv == /\ TypeOK /\ Wanted
        /\ prefs => session = "down"
        /\ ~lost => OursIsUndoable /\ OursIsServed /\ SnapshotIsTheirs

-------------------------------------------------------------------------------
USE MaxKillsAssumption, MaxEditsAssumption

LEMMA InitOK == Init => IInv
<1> SUFFICES ASSUME Init PROVE IInv
  OBVIOUS
<1>1. kills \in 0..MaxKills /\ edits \in 0..MaxEdits
  BY DEF Init
<1>2. TypeOK
  BY <1>1 DEF Init, TypeOK, Sessions
<1>3. Wanted /\ OursIsUndoable /\ OursIsServed /\ SnapshotIsTheirs
  BY DEF Init, Wanted, OursIsUndoable, OursIsServed, SnapshotIsTheirs
<1>4. ~prefs
  BY DEF Init
<1> QED BY <1>2, <1>3, <1>4 DEF IInv

LEMMA EnableOK == IInv /\ alive /\ ~prefs /\ Enable => IInv'
  BY DEF IInv, TypeOK, Sessions, Wanted, OursIsUndoable, OursIsServed, SnapshotIsTheirs, Enable, Captured,
         processVars, historyVars, vars

LEMMA StepOK == IInv /\ [Next]_vars => IInv'
<1> SUFFICES ASSUME IInv, [Next]_vars PROVE IInv'
  OBVIOUS
<1> USE DEF IInv, TypeOK, Sessions, Wanted, OursIsUndoable, OursIsServed, SnapshotIsTheirs,
            processVars, historyVars
<1>1. CASE Launch
  BY <1>1 DEF Launch, Adopted, Enabled
<1>2. CASE Preference
  BY <1>2 DEF Preference
<1>3. CASE ShutdownAsked
  BY <1>3 DEF ShutdownAsked, CleanUp, LetsGo, Busy, Enabled
<1>4. CASE Quit
  BY <1>4 DEF Quit, CleanUp, Forgotten, LetsGo, Busy, Enabled
<1>5. CASE Kill
  <2> USE <1>5 DEF Kill, Forgotten
  <2>1. (kills \in 0..MaxKills)' /\ (lost \in BOOLEAN)'
    OBVIOUS
  <2>2. TypeOK' /\ Wanted' /\ ~prefs'
    BY <2>1
  <2>3. CASE lost'
    BY <2>2, <2>3
  <2>4. CASE ~lost'
    <3>1. ~lost /\ ~(reg = "ours" /\ disk = "none")
      BY <2>4
    <3>2. (OursIsUndoable /\ OursIsServed /\ SnapshotIsTheirs)'
      BY <3>1
    <3> QED BY <2>2, <3>2
  <2> QED BY <2>3, <2>4
<1>6. CASE UserEnables
  BY <1>6, EnableOK DEF UserEnables
<1>7. CASE UserDisables
  BY <1>7 DEF UserDisables, Disable
<1>8. CASE Save
  BY <1>8 DEF Save
<1>9. ASSUME NEW s \in {"user", "off"}, UserEdits(s) PROVE IInv'
  BY <1>9 DEF UserEdits
<1>10. CASE Session
  <2>1. CASE Applies
    BY <2>1 DEF Applies, Captured
  <2>2. CASE Fails
    BY <2>2 DEF Fails, Enabled
  <2>3. CASE StopsItself
    BY <2>3 DEF StopsItself, Restore, Enabled
  <2>4. CASE GapEnds
    BY <2>4 DEF GapEnds
  <2>5. CASE CoreGone
    BY <2>5 DEF CoreGone
  <2> QED BY <1>10, <2>1, <2>2, <2>3, <2>4, <2>5 DEF Session
<1>11. CASE UpdateEnds
  <2>1. CASE Enable
    BY <1>11, <2>1, EnableOK DEF UpdateEnds
  <2>2. CASE ClearState
    BY <1>11, <2>2 DEF UpdateEnds, ClearState
  <2> QED BY <1>11, <2>1, <2>2 DEF UpdateEnds
<1>12. ASSUME NEW s \in {"gap", "updating"}, CoreGoes(s) PROVE IInv'
  BY <1>12 DEF CoreGoes, UndoIfOurs, Restore, KeepSettings, Enabled
<1>13. CASE UNCHANGED vars
  BY <1>13 DEF vars
<1> QED
  BY <1>1, <1>2, <1>3, <1>4, <1>5, <1>6, <1>7, <1>8, <1>9, <1>10, <1>11, <1>12, <1>13
     DEF Next

LEMMA Inductive == Spec => []IInv
  BY InitOK, StepOK, PTL DEF Spec

\* Every variable keeps its type.
THEOREM TypeCorrect == Spec => []TypeOK
<1>1. IInv => TypeOK
  BY DEF IInv
<1> QED BY <1>1, Inductive, PTL

\* However many processes are killed: what points at this app is claimed by the process
\* that runs, unless one was killed before its snapshot was saved.
THEOREM OursIsClaimedAlways == Spec => []OursIsClaimed
<1>1. IInv => OursIsClaimed
  BY DEF IInv, OursIsClaimed, OursIsUndoable
<1> QED BY <1>1, Inductive, PTL

\* No exit leaves the settings pointing at this app, with the same exception.
THEOREM QuitLetsGoAlways == Spec => QuitLetsGo
<1>1. IInv /\ [Next]_vars => [Quit => reg' # "ours" \/ lost]_vars
  BY DEF IInv, TypeOK, OursIsUndoable, OursIsServed, SnapshotIsTheirs, Quit,
         CleanUp, Forgotten, LetsGo, Busy, Enabled
<1> QED BY <1>1, Inductive, PTL DEF Spec, QuitLetsGo

\* The settings are taken over only while the user wants them to be.
THEOREM TakesOverWhenAskedAlways == Spec => TakesOverWhenAsked
<1>1. IInv /\ IInv' /\ [Next]_vars => [reg # "ours" /\ reg' = "ours" => mode' \/ lost]_vars
  <2> SUFFICES ASSUME IInv, IInv', [Next]_vars, reg # "ours", reg' = "ours", ~lost
               PROVE  mode' \/ UNCHANGED vars
    OBVIOUS
  <2>1. CASE lost'
    BY <2>1 DEF Next, vars, Launch, Preference, ShutdownAsked, Quit, Kill, UserEnables,
       Enable, UserDisables, Disable, Save, UserEdits, Session, Applies, Fails, StopsItself,
       GapEnds, CoreGone, UpdateEnds, ClearState, CoreGoes, historyVars
  <2>2. CASE ~lost'
    BY <2>2 DEF IInv, OursIsUndoable
  <2> QED BY <2>1, <2>2
<1> QED BY <1>1, Inductive, PTL DEF Spec, TakesOverWhenAsked
===============================================================================
