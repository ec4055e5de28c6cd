---------------------------- MODULE Updates_proofs ----------------------------
(***************************************************************************)
(* Proofs about the two kinds of updates.  Of CoreUpdate, for every number *)
(* of updates and every package: who may act, what is installed.  Of       *)
(* SubscriptionUpdate: whose a mark is, what is listed, and that memory    *)
(* and files agree, for any number of subscriptions, servers, updates and  *)
(* edits.                                                                  *)
(***************************************************************************)
EXTENDS CoreUpdate, SubscriptionUpdate, FiniteSetTheorems, WellFoundedInduction, TLAPS

(***************************************************************************)
(* The update of a core.                                                   *)
(***************************************************************************)
AtWork == {"fetch", "install", "unpack", "swap"} \cup CoreResults

\* What an update's worker can be at.
CoreStages == {"none", "over"} \cup AtWork

\* CoreUpdates are numbered in the order they are asked for, and an open dialog is that of
\* the slot's update or of one that lost the slot.
Numbered == /\ token <= asked /\ dialog <= asked /\ pendingUpdate <= asked
            /\ \A u \in CoreUpdates : stage[u] # "none" => u <= asked
            /\ dialog # NoUpdate => token \in {NoUpdate, dialog}

\* The slot belongs to no update while the session activates, and an update that holds
\* it is at work, or will be without a stop, only when no core runs.
Alone == /\ proxy = "activating" => token = NoUpdate
         /\ dialog # NoUpdate /\ token = dialog /\ ~mustStop => proxy = "off"
         /\ \A u \in CoreUpdates : stage[u] \in AtWork /\ token = u => proxy = "off"

\* An update whose dialog is open or that waits for a stop has no worker yet.
Waiting == /\ dialog # NoUpdate => stage[dialog] = "none" /\ pendingUpdate # dialog
           /\ pendingUpdate # NoUpdate => stage[pendingUpdate] = "none"

\* A file that is still the old one is yet to be copied by every update, and only the
\* executable of a compressed package is ever removed.
Copied == /\ \A u \in CoreUpdates, f \in Package : disk[f] = "old" => f \in toCopy[u]
          /\ ~gzipped => \A f \in Package : disk[f] \in {"old", "new"}
          /\ \A u \in CoreUpdates : stage[u] \in {"unpack", "swap"} => gzipped
          /\ \A u \in CoreUpdates : stage[u] = "installed" => toCopy[u] = {}
          /\ \A u \in CoreUpdates : gzipped /\ stage[u] \in {"none", "fetch", "unpack", "swap"}
                                     => toCopy[u] # {}

\* An update whose executable no other worker was at: what lies at the staging path is its
\* own, nobody else is about to remove the target, and what it renamed is still there.
Exchange == \A u \in CoreUpdates : AtFile(u) /\ u \notin beside
    => /\ \A v \in CoreUpdates : v # u => stage[v] \notin {"unpack", "swap"}
       /\ stage[u] \in {"unpack", "swap"} => staging = u
       /\ stage[u] \in {"install", "installed"} => disk[Executable] = "new"

Types == /\ proxy \in {"off", "activating", "up", "stopping"}
         /\ wanted \in BOOLEAN /\ mustStop \in BOOLEAN /\ gzipped \in BOOLEAN
         /\ token \in 0..MaxCoreUpdates /\ asked \in 0..MaxCoreUpdates
         /\ dialog \in 0..MaxCoreUpdates /\ pendingUpdate \in 0..MaxCoreUpdates
         /\ stage \in [CoreUpdates -> CoreStages]
         /\ stopped \subseteq CoreUpdates /\ startAfter \subseteq CoreUpdates
         /\ cancelled \subseteq CoreUpdates /\ stranded \subseteq CoreUpdates
         /\ toCopy \in [CoreUpdates -> SUBSET (Files \cup {Executable})]
         /\ disk \in [Files \cup {Executable} -> {"old", "new", "early", "gone"}]
         /\ staging \in 0..MaxCoreUpdates /\ beside \subseteq CoreUpdates

Control == Types /\ Numbered /\ Alone /\ Waiting /\ TokenIsInUse

CoreIInv == Control /\ Copied /\ Exchange

\* What a step of the worker of u does, short of its end: it changes its own stage, and
\* nothing that says who is to update.
Works(u) == /\ stage[u] \in AtWork
            /\ \E place \in AtWork : Goes(u, place)
            /\ UNCHANGED <<proxy, wanted, control, stopped, cancelled, stranded, gzipped>>

LEMMA InUse ==
  ASSUME NEW u \in CoreUpdates
  PROVE  u \in Busy \/ stage[u] \in CoreResults <=> stage[u] \in AtWork
BY DEF Busy, AtWork

LEMMA WorksPreserves ==
  ASSUME MaxCoreUpdates \in Nat, Control, NEW u \in CoreUpdates, Works(u),
         toCopy' \in [CoreUpdates -> SUBSET (Files \cup {Executable})],
         disk' \in [Files \cup {Executable} -> {"old", "new", "early", "gone"}],
         staging' \in 0..MaxCoreUpdates, beside' \subseteq CoreUpdates
  PROVE  Control'
<1> USE DEF Control, control
<1>1. PICK place \in AtWork : stage' = [stage EXCEPT ![u] = place]
  BY DEF Works, Goes
<1>2. /\ stage[u] \in AtWork
      /\ UNCHANGED <<proxy, wanted, token, asked, dialog, mustStop, pendingUpdate, startAfter,
                     stopped, cancelled, stranded, gzipped>>
  BY DEF Works
<1>3. /\ stage' \in [CoreUpdates -> CoreStages] /\ stage'[u] = place
      /\ \A v \in CoreUpdates : v # u => stage'[v] = stage[v]
  BY <1>1 DEF Types, CoreStages
<1>4. \A v \in CoreUpdates : stage'[v] \in AtWork <=> stage[v] \in AtWork
  BY <1>2, <1>3
<1>5. Types'
  BY <1>2, <1>3 DEF Types
<1>6. Numbered'
  BY <1>2, <1>3 DEF Numbered, AtWork, CoreResults
<1>7. Alone' /\ Waiting'
  <2>1. \A v \in CoreUpdates : stage[v] = "none" => stage'[v] = "none"
    BY <1>2, <1>3 DEF AtWork, CoreResults
  <2>2. Alone'
    BY <1>2, <1>4 DEF Alone
  <2>3. Waiting'
    BY <1>2, <2>1 DEF Waiting, Types, NoUpdate, CoreUpdates
  <2> QED  BY <2>2, <2>3
<1>8. ASSUME NEW v \in CoreUpdates, (token = v /\ dialog # v /\ v \notin stranded)'
      PROVE  (v \in Busy \/ stage[v] \in CoreResults \/ (pendingUpdate = v /\ proxy = "stopping" /\ wanted))'
  <2>1. stage[v] \in AtWork \/ (pendingUpdate = v /\ proxy = "stopping" /\ wanted)
    BY <1>2, <1>8, InUse DEF TokenIsInUse
  <2>2. CASE stage[v] \in AtWork
    BY <1>4, <2>2 DEF Busy, AtWork
  <2> QED  BY <1>2, <2>1, <2>2
<1> QED  BY <1>5, <1>6, <1>7, <1>8 DEF TokenIsInUse

\* The steps of an installation that touch no file.
LEMMA ReportPreserves ==
  ASSUME CoreIInv, NEW u \in CoreUpdates, Fetched(u) \/ Installed(u)
  PROVE  (Copied /\ Exchange)'
<1> USE DEF CoreIInv, Control, Types, installation
<1>1. UNCHANGED <<toCopy, disk, staging, beside, gzipped>>
  BY DEF Fetched, Installed
<1>2. \A v \in CoreUpdates : v # u => stage'[v] = stage[v]
  BY DEF Fetched, Installed, Goes
<1>3. CASE Fetched(u)
  <2>1. stage[u] = "fetch" /\ stage'[u] \in {"install", "current", "failed", "cancelled"}
    BY <1>3 DEF Fetched, Goes
  <2>2. ~AtFile(u)'
    BY <1>1, <2>1 DEF AtFile, Copied
  <2>3. \A v \in CoreUpdates : AtFile(v)' => AtFile(v) /\ v # u
    BY <1>1, <1>2, <2>2 DEF AtFile
  <2>4. Copied'
    BY <1>1, <1>2, <2>1 DEF Copied, Package
  <2>5. Exchange'
    BY <1>1, <1>2, <2>1, <2>3 DEF Exchange
  <2> QED  BY <2>4, <2>5
<1>4. CASE Installed(u)
  <2>1. stage[u] = "install" /\ toCopy[u] = {} /\ stage'[u] \in {"installed", "cancelled"}
    BY <1>4 DEF Installed, Goes
  <2>2. \A v \in CoreUpdates : AtFile(v)' => AtFile(v)
    BY <1>1, <1>2, <2>1 DEF AtFile
  <2>3. Copied'
    BY <1>1, <1>2, <2>1 DEF Copied, Package
  <2>4. Exchange'
    BY <1>1, <1>2, <2>1, <2>2 DEF Exchange
  <2> QED  BY <2>3, <2>4
<1> QED  BY <1>3, <1>4

\* A file of an archive that is installed is no longer the old one, whichever update
\* installed it.
LEMMA CopyPreserves ==
  ASSUME CoreIInv, NEW u \in CoreUpdates, copyExtractedFile(u)
  PROVE  (Copied /\ Exchange)'
<1> USE DEF CoreIInv, Control, Types
<1>1. stage[u] = "install" /\ ~gzipped /\ gzipped' = gzipped /\ Package' = Package
  BY DEF copyExtractedFile, Package
<1>2. \A v \in CoreUpdates : stage'[v] = stage[v] \/ stage'[v] = "failed"
  BY DEF copyExtractedFile, Goes
<1>3. CASE \E f \in toCopy[u] : /\ disk' = [disk EXCEPT ![f] = "new"]
                               /\ toCopy' = [toCopy EXCEPT ![u] = @ \ {f}]
                               /\ UNCHANGED stage
  BY <1>1, <1>3 DEF Copied, Exchange, AtFile, Package
<1>4. CASE toCopy[u] # {} /\ Goes(u, "failed") /\ UNCHANGED <<disk, toCopy>>
  BY <1>1, <1>2, <1>4 DEF Copied, Exchange, AtFile
<1> QED  BY <1>3, <1>4 DEF copyExtractedFile

\* A worker that unpacks is beside everyone who is at the executable, and they beside it.
LEMMA UnpackPreserves ==
  ASSUME CoreIInv, NEW u \in CoreUpdates, Unpack(u)
  PROVE  (Copied /\ Exchange)' /\ staging' \in 0..MaxCoreUpdates /\ beside' \subseteq CoreUpdates
<1> USE DEF CoreIInv, Control, Types
<1>1. /\ stage[u] = "install" /\ gzipped /\ toCopy[u] # {}
      /\ UNCHANGED <<toCopy, disk, gzipped>>
  BY DEF Unpack
<1>2. CASE /\ Goes(u, "unpack") /\ staging' = u
           /\ LET others == {v \in CoreUpdates \ {u} : AtFile(v)}
              IN beside' = IF others = {} THEN beside ELSE beside \cup others \cup {u}
  <2>1. /\ stage'[u] = "unpack"
        /\ \A v \in CoreUpdates : v # u => stage'[v] = stage[v]
    BY <1>2 DEF Goes
  <2>2. /\ beside \subseteq beside' /\ beside' \subseteq CoreUpdates
        /\ \A v \in CoreUpdates : v # u /\ AtFile(v) => v \in beside' /\ u \in beside'
    BY <1>2
  <2>3. \A v \in CoreUpdates : v # u => (AtFile(v)' <=> AtFile(v))
    BY <1>1, <2>1 DEF AtFile
  <2>4. Copied'
    BY <1>1, <2>1 DEF Copied, Package
  <2>5. \A v \in CoreUpdates : AtFile(v)' /\ v \notin beside' => v = u
    BY <2>2, <2>3
  <2>6. u \notin beside' => \A v \in CoreUpdates : v # u => stage'[v] \notin {"unpack", "swap"}
    BY <1>1, <2>1, <2>2 DEF AtFile
  <2>7. Exchange'
    BY <1>2, <2>1, <2>5, <2>6 DEF Exchange
  <2> QED  BY <1>2, <2>2, <2>4, <2>7 DEF CoreUpdates
<1>3. CASE Goes(u, "failed") /\ UNCHANGED <<staging, beside>>
  <2>1. /\ stage'[u] = "failed"
        /\ \A v \in CoreUpdates : v # u => stage'[v] = stage[v]
    BY <1>3 DEF Goes
  <2>2. Copied'
    BY <1>1, <2>1 DEF Copied, Package
  <2>3. Exchange'
    BY <1>1, <1>3, <2>1 DEF Exchange, AtFile
  <2> QED  BY <1>3, <2>2, <2>3
<1> QED  BY <1>2, <1>3 DEF Unpack

\* Whoever removes the target or renames is the only one at the executable, or everyone
\* there is beside another.
LEMMA SwapPreserves ==
  ASSUME MaxCoreUpdates \in Nat, CoreIInv, NEW u \in CoreUpdates,
         RemoveTarget(u) \/ RenameStaging(u)
  PROVE  /\ (Copied /\ Exchange)' /\ staging' \in 0..MaxCoreUpdates
         /\ toCopy' \in [CoreUpdates -> SUBSET (Files \cup {Executable})]
         /\ disk' \in [Files \cup {Executable} -> {"old", "new", "early", "gone"}]
<1> USE DEF CoreIInv, Control, Types
<1>1. /\ stage[u] \in {"unpack", "swap"} /\ beside' = beside /\ gzipped' = gzipped
      /\ \A v \in CoreUpdates : v # u => stage'[v] = stage[v]
      /\ staging' \in {NoUpdate, staging}
  BY DEF RemoveTarget, RenameStaging, Goes
<1>2. gzipped /\ Package = {Executable} /\ Package' = {Executable}
  BY <1>1 DEF Copied, Package
<1>3. /\ \A v \in CoreUpdates : v # u => toCopy'[v] = toCopy[v]
      /\ toCopy' \in [CoreUpdates -> SUBSET (Files \cup {Executable})]
      /\ disk' \in [Files \cup {Executable} -> {"old", "new", "early", "gone"}]
  <2>1. CASE RemoveTarget(u)
    BY <2>1 DEF RemoveTarget
  <2>2. CASE RenameStaging(u)
    BY <2>2 DEF RenameStaging
  <2> QED  BY <2>1, <2>2
<1>4. \A v \in CoreUpdates : v # u /\ AtFile(v)' => v \in beside'
  BY <1>1, <1>3 DEF AtFile, Exchange
<1>5. SUFFICES Copied' /\ (AtFile(u)' /\ u \notin beside'
               => /\ \A v \in CoreUpdates : v # u => stage'[v] \notin {"unpack", "swap"}
                  /\ stage'[u] \in {"unpack", "swap"} => staging' = u
                  /\ stage'[u] \in {"install", "installed"} => disk'[Executable] = "new")
  BY <1>1, <1>3, <1>4 DEF Exchange, NoUpdate
<1>6. AtFile(u) /\ (u \notin beside => staging = u
                    /\ \A v \in CoreUpdates : v # u => stage[v] \notin {"unpack", "swap"})
  BY <1>1, <1>2 DEF AtFile, Exchange
<1>7. CASE Goes(u, "failed") \/ Goes(u, "cancelled")
  <2>1. stage'[u] \in {"failed", "cancelled"} /\ ~AtFile(u)'
    BY <1>7 DEF Goes, AtFile
  <2>2. disk' = disk /\ toCopy' = toCopy
    BY <1>1, <2>1 DEF RemoveTarget, RenameStaging, Goes
  <2> QED  BY <1>1, <1>2, <2>1, <2>2 DEF Copied
<1>8. CASE RemoveTarget(u) /\ Goes(u, "swap")
  <2>1. stage'[u] = "swap" /\ disk'[Executable] = "gone" /\ toCopy' = toCopy /\ staging' = staging
    BY <1>8 DEF RemoveTarget, Goes
  <2> QED  BY <1>1, <1>2, <1>6, <2>1 DEF Copied
<1>9. CASE RenameStaging(u) /\ Goes(u, "install")
  <2>1. stage'[u] = "install" /\ toCopy'[u] = {} /\ stage[u] = "swap"
    BY <1>9 DEF RenameStaging, Goes
  <2>2. /\ disk'[Executable] \in {"new", "early"}
        /\ staging = u => disk'[Executable] = "new"
    BY <1>9, <2>1 DEF RenameStaging, Goes
  <2>3. Copied'
    BY <1>1, <1>2, <1>3, <2>1, <2>2 DEF Copied
  <2> QED  BY <1>1, <1>6, <2>1, <2>2, <2>3
<1> QED  BY <1>7, <1>8, <1>9 DEF RemoveTarget, RenameStaging

LEMMA InstallPreserves ==
  ASSUME MaxCoreUpdates \in Nat, CoreIInv, NEW u \in CoreUpdates,
         \/ Fetched(u) \/ copyExtractedFile(u) \/ Unpack(u) \/ RemoveTarget(u)
         \/ RenameStaging(u) \/ Installed(u)
  PROVE  CoreIInv'
<1> USE DEF CoreIInv, Goes, installation
<1>1. Works(u)
  <2>1. CASE Fetched(u)
    BY <2>1 DEF Fetched, Works, AtWork, CoreResults
  <2>2. CASE copyExtractedFile(u)
    <3>1. stage' = stage => stage' = [stage EXCEPT ![u] = "install"]
      BY <2>2 DEF copyExtractedFile, Control, Types
    <3> QED  BY <2>2, <3>1 DEF copyExtractedFile, Works, AtWork, CoreResults
  <2>3. CASE Unpack(u)
    BY <2>3 DEF Unpack, Works, AtWork, CoreResults
  <2>4. CASE RemoveTarget(u)
    BY <2>4 DEF RemoveTarget, Works, AtWork, CoreResults
  <2>5. CASE RenameStaging(u)
    BY <2>5 DEF RenameStaging, Works, AtWork, CoreResults
  <2>6. CASE Installed(u)
    BY <2>6 DEF Installed, Works, AtWork, CoreResults
  <2> QED  BY <2>1, <2>2, <2>3, <2>4, <2>5, <2>6
<1>2. /\ toCopy' \in [CoreUpdates -> SUBSET (Files \cup {Executable})]
      /\ disk' \in [Files \cup {Executable} -> {"old", "new", "early", "gone"}]
      /\ staging' \in 0..MaxCoreUpdates /\ beside' \subseteq CoreUpdates
  <2>1. Types
    BY DEF Control
  <2>2. CASE Fetched(u) \/ Installed(u)
    BY <2>1, <2>2 DEF Types, Fetched, Installed
  <2>3. CASE copyExtractedFile(u)
    BY <2>1, <2>3 DEF Types, copyExtractedFile
  <2>4. CASE Unpack(u)
    BY <2>1, <2>4, UnpackPreserves DEF Types, Unpack
  <2>5. CASE RemoveTarget(u) \/ RenameStaging(u)
    BY <2>1, <2>5, SwapPreserves DEF Types, RemoveTarget, RenameStaging
  <2> QED  BY <2>2, <2>3, <2>4, <2>5
<1>3. (Copied /\ Exchange)'
  BY ReportPreserves, CopyPreserves, UnpackPreserves, SwapPreserves
<1> QED  BY <1>1, <1>2, <1>3, WorksPreserves

\* Files are copied by workers only, and a worker begins at the beginning.
LEMMA CopiedKept ==
  ASSUME Copied, Exchange, UNCHANGED <<toCopy, disk, staging, beside, gzipped>>,
         \A u \in CoreUpdates : stage'[u] # stage[u]
             => stage'[u] = "over" \/ (stage[u] = "none" /\ stage'[u] = "fetch")
  PROVE  (Copied /\ Exchange)'
<1>1. \A u \in CoreUpdates : /\ stage'[u] \in {"unpack", "swap"} => stage'[u] = stage[u]
                             /\ AtFile(u)' => AtFile(u) /\ stage'[u] = stage[u]
  BY DEF AtFile
<1>2. Copied'
  BY <1>1 DEF Copied, Package
<1>3. Exchange'
  BY <1>1 DEF Exchange
<1> QED  BY <1>2, <1>3

(***************************************************************************)
(* Asking, confirming, starting and stopping.                              *)
(***************************************************************************)
\* The update that is asked for gets the next number; what it sees of the session holds
\* as long as it keeps the slot.
LEMMA AskPreserves ==
  ASSUME MaxCoreUpdates \in Nat, CoreIInv, updateCore \/ Declined \/ Confirmed
  PROVE  CoreIInv'
<1> USE DEF CoreIInv, Control, work, installation
<1>1. CASE updateCore
  <2>1. /\ asked' = asked + 1 /\ asked' \in CoreUpdates /\ token' = asked' /\ dialog' = asked'
        /\ token = NoUpdate /\ dialog = NoUpdate /\ proxy # "activating"
        /\ mustStop' = (proxy \in {"up", "stopping"})
        /\ startAfter' \subseteq CoreUpdates
        /\ UNCHANGED <<proxy, wanted, pendingUpdate, stage, stopped, toCopy, cancelled, disk, staging, beside, stranded, gzipped>>
    BY <1>1 DEF updateCore, Types, CoreUpdates
  <2>2. Types'
    BY <2>1 DEF Types, CoreUpdates
  <2>3. Numbered' /\ stage[asked'] = "none"
    BY <2>1 DEF Numbered, Types, CoreUpdates, NoUpdate
  <2>4. Alone' /\ Waiting'
    <3>1. Alone'
      BY <2>1, <2>3 DEF Alone, Types, NoUpdate, AtWork, CoreResults, CoreUpdates
    <3>2. Waiting'
      BY <2>1, <2>3 DEF Waiting, Numbered, Types, NoUpdate
    <3> QED  BY <3>1, <3>2
  <2>5. TokenIsInUse'
    BY <2>1 DEF TokenIsInUse
  <2> QED  BY <2>1, <2>2, <2>3, <2>4, <2>5, CopiedKept
<1>2. CASE Declined
  <2>1. /\ dialog # NoUpdate /\ dialog' = NoUpdate /\ token' \in {NoUpdate, token}
        /\ token = dialog => token' = NoUpdate
        /\ UNCHANGED <<proxy, wanted, asked, mustStop, pendingUpdate, startAfter, stage, stopped, toCopy,
                       cancelled, disk, staging, beside, stranded, gzipped>>
    BY <1>2 DEF Declined
  <2>2. token' = NoUpdate
    BY <2>1 DEF Numbered
  <2>3. Types' /\ Numbered'
    BY <2>1, <2>2 DEF Types, Numbered, CoreUpdates, NoUpdate
  <2>4. Alone' /\ Waiting' /\ TokenIsInUse'
    BY <2>1, <2>2 DEF Alone, Waiting, TokenIsInUse, NoUpdate, CoreUpdates
  <2> QED  BY <2>1, <2>3, <2>4, CopiedKept
<1>3. CASE Confirmed
  <2>1. /\ dialog # NoUpdate /\ dialog' = NoUpdate /\ ~mustStop
        /\ stage' = [stage EXCEPT ![dialog] = "fetch"]
        /\ UNCHANGED <<proxy, wanted, token, asked, mustStop, pendingUpdate, startAfter, stopped,
                       toCopy, cancelled, disk, staging, beside, stranded, gzipped>>
    BY <1>3 DEF Confirmed
  <2>2. dialog \in CoreUpdates /\ dialog <= asked /\ token \in {NoUpdate, dialog}
    BY <2>1 DEF Types, Numbered, CoreUpdates, NoUpdate
  <2>3. /\ stage' \in [CoreUpdates -> CoreStages] /\ stage'[dialog] = "fetch"
        /\ \A v \in CoreUpdates : v # dialog => stage'[v] = stage[v]
    BY <2>1, <2>2 DEF Types, CoreStages, AtWork
  <2>4. Types' /\ Numbered'
    BY <2>1, <2>2, <2>3 DEF Types, Numbered, CoreUpdates, NoUpdate
  <2>5. Alone' /\ Waiting'
    BY <2>1, <2>2, <2>3 DEF Alone, Waiting, NoUpdate
  <2>6. TokenIsInUse'
    BY <2>1, <2>2, <2>3 DEF TokenIsInUse, Busy, NoUpdate, CoreUpdates
  <2>7. (Copied /\ Exchange)'
    BY <2>1, <2>3, CopiedKept DEF Waiting
  <2> QED  BY <2>4, <2>5, <2>6, <2>7
<1> QED  BY <1>1, <1>2, <1>3

\* The update that is confirmed waits for the exit of the core, or is stranded.
LEMMA ConfirmPreserves == ASSUME MaxCoreUpdates \in Nat, CoreIInv, ConfirmedWithStop PROVE CoreIInv'
<1> USE DEF CoreIInv, Control, work, installation
<1>1. /\ dialog # NoUpdate /\ dialog' = NoUpdate /\ mustStop /\ pendingUpdate' = dialog
      /\ UNCHANGED <<token, asked, mustStop, startAfter, stage, stopped, toCopy, cancelled, disk, staging, beside, gzipped>>
  BY DEF ConfirmedWithStop
<1>2. \/ proxy # "off" /\ proxy' = "stopping" /\ wanted' = TRUE /\ stranded' = stranded
      \/ stranded' = stranded \cup {dialog} /\ proxy' = proxy /\ wanted' = wanted
  BY DEF ConfirmedWithStop
<1>3. dialog \in CoreUpdates /\ dialog <= asked /\ token \in {NoUpdate, dialog}
  BY <1>1 DEF Types, Numbered, CoreUpdates, NoUpdate
<1>4. Types'
  <2>1. /\ wanted' \in BOOLEAN /\ stranded' \subseteq CoreUpdates
        /\ proxy' \in {"off", "activating", "up", "stopping"}
    BY <1>2, <1>3 DEF Types
  <2>2. dialog' \in 0..MaxCoreUpdates /\ pendingUpdate' \in 0..MaxCoreUpdates
    BY <1>1 DEF Types, NoUpdate
  <2> QED  BY <1>1, <2>1, <2>2 DEF Types
<1>5. Numbered'
  BY <1>1, <1>3 DEF Numbered, NoUpdate, Types, CoreUpdates
<1>6. Alone' /\ Waiting'
  BY <1>1, <1>2 DEF Alone, Waiting
<1>7. TokenIsInUse'
  BY <1>1, <1>2, <1>3 DEF TokenIsInUse, NoUpdate, CoreUpdates
<1> QED  BY <1>1, <1>4, <1>5, <1>6, <1>7, CopiedKept

\* The exit of the core continues the update that waits for it, or strands it.
LEMMA ExitPreserves == ASSUME MaxCoreUpdates \in Nat, CoreIInv, CoreExits PROVE CoreIInv'
<1> USE DEF CoreIInv, Control, installation
<1>1. /\ proxy = "stopping" /\ proxy' = "off" /\ wanted' = FALSE
      /\ UNCHANGED <<token, asked, dialog, mustStop, startAfter, toCopy, cancelled, disk, staging, beside, gzipped>>
  BY DEF CoreExits
<1>2. CASE continuePending /\ pendingUpdate # NoUpdate /\ token = pendingUpdate /\ UNCHANGED stranded
  <2>1. pendingUpdate \in CoreUpdates /\ pendingUpdate <= asked
    BY <1>2 DEF Types, Numbered, CoreUpdates, NoUpdate
  <2>2. /\ pendingUpdate' = NoUpdate /\ stage' = [stage EXCEPT ![pendingUpdate] = "fetch"]
        /\ stopped' = stopped \cup {pendingUpdate}
    BY <1>2 DEF continuePending
  <2>3. /\ stage' \in [CoreUpdates -> CoreStages] /\ stage'[pendingUpdate] = "fetch"
        /\ \A v \in CoreUpdates : v # pendingUpdate => stage'[v] = stage[v]
    BY <2>1, <2>2 DEF Types, CoreStages, AtWork
  <2>4. stopped' \subseteq CoreUpdates /\ 0 \in 0..MaxCoreUpdates /\ 0 <= asked
    BY <2>1, <2>2 DEF Types
  <2>5. Types'
    BY <1>1, <1>2, <2>2, <2>3, <2>4 DEF Types, NoUpdate
  <2>6. Numbered'
    BY <1>1, <2>1, <2>2, <2>3, <2>4 DEF Numbered, NoUpdate
  <2>7. Alone' /\ Waiting' /\ TokenIsInUse'
    BY <1>1, <1>2, <2>1, <2>2, <2>3 DEF Alone, Waiting, TokenIsInUse, Busy
  <2>8. (Copied /\ Exchange)'
    BY <1>1, <1>2, <2>3, CopiedKept DEF Waiting
  <2> QED  BY <2>5, <2>6, <2>7, <2>8
<1>3. CASE continuePending /\ pendingUpdate # NoUpdate /\ token # pendingUpdate /\ UNCHANGED stranded
  <2>1. pendingUpdate' = NoUpdate /\ stage' = stage /\ stopped' = stopped
    BY <1>3 DEF continuePending
  <2>2. 0 \in 0..MaxCoreUpdates /\ 0 <= asked
    BY DEF Types
  <2>3. Types'
    BY <1>1, <1>3, <2>1, <2>2 DEF Types, NoUpdate
  <2>4. Numbered'
    BY <1>1, <2>1, <2>2 DEF Numbered, NoUpdate
  <2>5. Alone' /\ Waiting' /\ TokenIsInUse'
    BY <1>1, <1>3, <2>1 DEF Alone, Waiting, TokenIsInUse, Busy
  <2> QED  BY <1>1, <2>1, <2>3, <2>4, <2>5, CopiedKept
<1>4. CASE Strand /\ UNCHANGED <<pendingUpdate, stage, stopped>>
  <2>1. /\ stranded' \subseteq CoreUpdates /\ stranded \subseteq stranded'
        /\ wanted /\ pendingUpdate # NoUpdate => pendingUpdate \in stranded'
    BY <1>4 DEF Strand, Types, CoreUpdates, NoUpdate
  <2>2. Types' /\ Numbered'
    BY <1>1, <1>4, <2>1 DEF Types, Numbered
  <2>3. Alone' /\ Waiting' /\ TokenIsInUse'
    BY <1>1, <1>4, <2>1 DEF Alone, Waiting, TokenIsInUse, Busy, CoreUpdates, NoUpdate
  <2> QED  BY <1>1, <1>4, <2>2, <2>3, CopiedKept
<1> QED  BY <1>2, <1>3, <1>4 DEF CoreExits

\* An activation takes the slot from whatever update holds it.
LEMMA SessionPreserves ==
  ASSUME MaxCoreUpdates \in Nat, CoreIInv, Start \/ StartEnds \/ Stop \/ requestCancel
  PROVE  CoreIInv'
<1> USE DEF CoreIInv, Control, control, work, installation
<1>1. CASE Start
  <2>1. /\ proxy' = "activating" /\ token' = NoUpdate /\ cancelled' \subseteq CoreUpdates
        /\ UNCHANGED <<wanted, asked, dialog, mustStop, pendingUpdate, startAfter, stage, stopped, toCopy,
                       disk, staging, beside, stranded, gzipped>>
    BY <1>1 DEF Start, BeginActivation, Busy, Types
  <2>2. Types' /\ Numbered'
    BY <2>1 DEF Types, Numbered, NoUpdate
  <2>3. Alone' /\ Waiting' /\ TokenIsInUse'
    BY <2>1 DEF Alone, Waiting, TokenIsInUse, NoUpdate, CoreUpdates
  <2> QED  BY <2>1, <2>2, <2>3, CopiedKept
<1>2. CASE StartEnds
  <2>1. /\ proxy = "activating" /\ proxy' \in {"up", "off", "stopping"} /\ token = NoUpdate
        /\ UNCHANGED <<token, wanted, asked, dialog, mustStop, pendingUpdate, startAfter, stage, stopped,
                       toCopy, cancelled, disk, staging, beside, stranded, gzipped>>
    BY <1>2 DEF StartEnds, Alone
  <2>2. Types' /\ Numbered'
    BY <2>1 DEF Types, Numbered
  <2>3. Alone' /\ Waiting' /\ TokenIsInUse'
    BY <2>1 DEF Alone, Waiting, TokenIsInUse, NoUpdate, CoreUpdates
  <2> QED  BY <2>1, <2>2, <2>3, CopiedKept
<1>3. CASE Stop
  <2>1. /\ proxy # "off" /\ proxy' \in {"stopping", "off"} /\ wanted' = FALSE
        /\ UNCHANGED <<token, asked, dialog, mustStop, pendingUpdate, startAfter, stage, stopped, toCopy,
                       cancelled, disk, staging, beside, gzipped>>
    BY <1>3 DEF Stop
  <2>2. /\ stranded' \subseteq CoreUpdates /\ stranded \subseteq stranded'
        /\ wanted /\ pendingUpdate # NoUpdate => pendingUpdate \in stranded'
    BY <1>3 DEF Stop, Strand, Types, CoreUpdates, NoUpdate
  <2>3. Types' /\ Numbered'
    BY <2>1, <2>2 DEF Types, Numbered
  <2>4. Alone' /\ Waiting' /\ TokenIsInUse'
    BY <2>1, <2>2 DEF Alone, Waiting, TokenIsInUse, Busy, CoreUpdates, NoUpdate
  <2> QED  BY <2>1, <2>3, <2>4, CopiedKept
<1>4. CASE requestCancel
  <2>1. /\ cancelled' \subseteq CoreUpdates
        /\ UNCHANGED <<proxy, wanted, token, asked, dialog, mustStop, pendingUpdate, startAfter, stage,
                       stopped, toCopy, disk, staging, beside, stranded, gzipped>>
    BY <1>4 DEF requestCancel, Busy, Types
  <2> QED  BY <2>1, CopiedKept DEF Types, Numbered, Alone, Waiting, TokenIsInUse, Busy
<1> QED  BY <1>1, <1>2, <1>3, <1>4

\* The end of an update gives its slot back, or an activation has it already.
LEMMA FinalizePreserves ==
  ASSUME MaxCoreUpdates \in Nat, CoreIInv, NEW u \in CoreUpdates, finalizeCoreUpdate(u)
  PROVE  CoreIInv'
<1> USE DEF CoreIInv, Control, installation, Goes
<1>1. /\ stage[u] \in CoreResults /\ stage' = [stage EXCEPT ![u] = "over"]
      /\ UNCHANGED <<wanted, asked, dialog, mustStop, startAfter, stopped, toCopy, disk, staging, beside, stranded, gzipped>>
  BY DEF finalizeCoreUpdate
<1>2. /\ stage' \in [CoreUpdates -> CoreStages] /\ stage'[u] = "over" /\ u <= asked
      /\ \A v \in CoreUpdates : v # u => stage'[v] = stage[v]
  BY <1>1 DEF Types, CoreStages, Numbered, CoreResults
<1>3. (Copied /\ Exchange)'
  BY <1>1, <1>2, CopiedKept
<1>4. pendingUpdate' \in {NoUpdate, pendingUpdate} => Waiting'
  <2>1. \A v \in CoreUpdates : stage[v] = "none" => stage'[v] = "none"
    BY <1>1, <1>2 DEF CoreResults
  <2> QED  BY <1>1, <2>1 DEF Waiting, Types, NoUpdate, CoreUpdates
<1>5. CASE token = u
  <2>1. /\ token' = NoUpdate /\ pendingUpdate' \in {NoUpdate, pendingUpdate}
        /\ proxy' \in {"activating", proxy} /\ cancelled' \subseteq CoreUpdates
    BY <1>5 DEF finalizeCoreUpdate, BeginActivation, Busy, Types
  <2>2. Types'
    BY <1>1, <1>2, <2>1 DEF Types, NoUpdate
  <2>3. Numbered'
    BY <1>1, <1>2, <2>1 DEF Types, Numbered, NoUpdate
  <2>4. Alone' /\ TokenIsInUse'
    BY <2>1 DEF Alone, TokenIsInUse, NoUpdate, CoreUpdates
  <2> QED  BY <1>3, <1>4, <2>1, <2>2, <2>3, <2>4
<1>6. CASE token # u
  <2>1. UNCHANGED <<token, pendingUpdate, proxy, cancelled>>
    BY <1>6 DEF finalizeCoreUpdate
  <2>2. Types' /\ Numbered'
    BY <1>1, <1>2, <2>1 DEF Types, Numbered
  <2>3. Alone'
    BY <1>1, <1>2, <1>6, <2>1 DEF Alone
  <2>4. TokenIsInUse'
    BY <1>1, <1>2, <1>6, <2>1 DEF TokenIsInUse, Busy
  <2> QED  BY <1>3, <1>4, <2>1, <2>2, <2>3, <2>4
<1> QED  BY <1>5, <1>6

(***************************************************************************)
(* The theorems.                                                           *)
(***************************************************************************)
LEMMA InitIInv == ASSUME MaxCoreUpdates \in Nat, CoreUpdateInit PROVE CoreIInv
<1> USE DEF CoreUpdateInit, NoUpdate
<1>1. Types
  <2>1. stage \in [CoreUpdates -> CoreStages]
    BY DEF CoreStages
  <2>2. toCopy \in [CoreUpdates -> SUBSET (Files \cup {Executable})]
    BY DEF Package
  <2>3. disk \in [Files \cup {Executable} -> {"old", "new", "early", "gone"}]
    OBVIOUS
  <2>4. 0 \in 0..MaxCoreUpdates
    OBVIOUS
  <2> QED  BY <2>1, <2>2, <2>3, <2>4 DEF Types
<1>2. Numbered /\ Alone /\ Waiting /\ TokenIsInUse
  BY DEF Numbered, Alone, Waiting, TokenIsInUse, CoreUpdates, AtWork, CoreResults
<1>3. Copied /\ Exchange
  BY DEF Copied, Exchange, AtFile, Package
<1> QED  BY <1>1, <1>2, <1>3 DEF CoreIInv, Control

LEMMA NextPreserves == ASSUME MaxCoreUpdates \in Nat, CoreIInv, [CoreUpdateNext]_coreUpdateVars PROVE CoreIInv'
<1>1. CASE UNCHANGED coreUpdateVars
  BY <1>1 DEF coreUpdateVars, control, work, CoreIInv, Control, Types, Numbered, Alone, Waiting, TokenIsInUse, Busy, Copied, Exchange, AtFile, Package, installation
<1>2. ASSUME NEW u \in CoreUpdates, CoreWork(u) PROVE CoreIInv'
  BY <1>2, InstallPreserves, FinalizePreserves DEF CoreWork
<1> QED  BY <1>1, <1>2, AskPreserves, ConfirmPreserves, ExitPreserves, SessionPreserves DEF CoreUpdateNext

LEMMA CoreIInvAlways == ASSUME MaxCoreUpdates \in Nat PROVE CoreUpdateSpec => []CoreIInv
<1>1. CoreUpdateInit => CoreIInv
  BY InitIInv
<1>2. CoreIInv /\ [CoreUpdateNext]_coreUpdateVars => CoreIInv'
  BY NextPreserves
<1> QED  BY <1>1, <1>2, PTL DEF CoreUpdateSpec

\* Every variable keeps its type, if the compressed core is one of the core's files.
THEOREM CoreTypeCorrect == ASSUME MaxCoreUpdates \in Nat, Executable \in Files PROVE CoreUpdateSpec => []CoreUpdateTypeOK
<1>1. CoreIInv => CoreUpdateTypeOK
  <2>1. Files \cup {Executable} = Files
    OBVIOUS
  <2> QED  BY <2>1 DEF CoreIInv, Control, Types, CoreStages, AtWork, CoreUpdateTypeOK
<1> QED  BY <1>1, CoreIInvAlways, PTL

\* However many updates there are: one that holds the slot is at work or waits for the
\* exit of the core that is being stopped for it, unless nobody will continue it.
THEOREM TokenIsInUseAlways == ASSUME MaxCoreUpdates \in Nat PROVE CoreUpdateSpec => []TokenIsInUse
<1>1. CoreIInv => TokenIsInUse
  BY DEF CoreIInv, Control
<1> QED  BY <1>1, CoreIInvAlways, PTL

\* No update that holds the slot replaces the files of a core that runs or starts.
THEOREM InstallsAloneAlways == ASSUME MaxCoreUpdates \in Nat PROVE CoreUpdateSpec => []InstallsAlone
<1>1. CoreIInv => InstallsAlone
  BY DEF CoreIInv, Control, Alone, InstallsAlone, AtWork
<1> QED  BY <1>1, CoreIInvAlways, PTL

\* What is reported as installed is whole: every file of an archive of any size is the new
\* one, whatever the workers of other updates have replaced meanwhile, and so is the
\* executable of a compressed package that no other worker was at.
THEOREM SuccessIsWholeAlways == ASSUME MaxCoreUpdates \in Nat PROVE CoreUpdateSpec => []SuccessIsWhole
<1>1. CoreIInv => SuccessIsWhole
  <2>1. SUFFICES ASSUME CoreIInv, NEW u \in CoreUpdates, stage[u] = "installed", u \notin beside,
                        NEW f \in Package
                 PROVE  disk[f] = "new"
    BY DEF SuccessIsWhole
  <2>2. toCopy[u] = {} /\ disk[f] # "old"
    BY <2>1 DEF CoreIInv, Copied
  <2>3. CASE gzipped
    BY <2>1, <2>2, <2>3 DEF CoreIInv, Exchange, AtFile, Package
  <2>4. CASE ~gzipped
    BY <2>1, <2>2, <2>4 DEF CoreIInv, Copied
  <2> QED  BY <2>3, <2>4
<1> QED  BY <1>1, CoreIInvAlways, PTL

(***************************************************************************)
(* The update of subscriptions.                                            *)
(***************************************************************************)
\* Every list there is, in memory, on disk and in the hands of workers, and every set
\* of marks.
AllLists == {EmptyList, memory.list, primary} \cup {worker[u].copy.list : u \in Updates}
AllMarks == {{}, memory.marks, state} \cup {worker[u].copy.marks : u \in Updates}

\* No identifier is a server's in one list and another server's in another one; no set
\* of marks, of whatever age, marks a server the user did not mark.
Sound(lists, marked, top, fans) ==
    /\ \A l \in lists, n \in Nodes : l.ids[n] <= top /\ l.ids[n] # Own
    /\ \A m \in marked : \A id \in m : id <= top
    /\ \A k \in lists, l \in lists, i \in Nodes, n \in Nodes :
         k.ids[i] # Absent /\ k.ids[i] = l.ids[n] => i = n
    /\ \A l \in lists, m \in marked, n \in Nodes : l.ids[n] \in m => n \in fans
    /\ \A l \in lists : l.default \in Known(l)

Alike(k, l) == k.ids = l.ids /\ k.default = l.default

\* Nothing new: lists that differ in what was refreshed, and fewer marks.
LEMMA SoundKept ==
  ASSUME NEW ls, NEW ms, NEW top, NEW fans, Sound(ls, ms, top, fans),
         NEW ks, NEW ns,
         \A k \in ks : \E l \in ls : Alike(k, l),
         \A n \in ns : \E m \in ms : n \subseteq m
  PROVE  Sound(ks, ns, top, fans)
<1>1. \A k \in ks, n \in Nodes : k.ids[n] <= top /\ k.ids[n] # Own
  BY DEF Sound, Alike
<1>2. \A m \in ns : \A id \in m : id <= top
  BY DEF Sound
<1>3. ASSUME NEW k \in ks, NEW l \in ks, NEW i \in Nodes, NEW n \in Nodes,
             k.ids[i] # Absent, k.ids[i] = l.ids[n]
      PROVE  i = n
  <2>1. PICK kk \in ls : Alike(k, kk)
    OBVIOUS
  <2>2. PICK ll \in ls : Alike(l, ll)
    OBVIOUS
  <2>3. kk.ids[i] # Absent /\ kk.ids[i] = ll.ids[n]
    BY <1>3, <2>1, <2>2 DEF Alike
  <2> QED  BY <2>3 DEF Sound
<1>4. ASSUME NEW k \in ks, NEW m \in ns, NEW n \in Nodes, k.ids[n] \in m PROVE n \in fans
  <2>1. PICK l \in ls : Alike(k, l)
    OBVIOUS
  <2>2. PICK mm \in ms : m \subseteq mm
    OBVIOUS
  <2>3. l.ids[n] \in mm
    BY <1>4, <2>1, <2>2 DEF Alike
  <2> QED  BY <2>3 DEF Sound
<1>5. ASSUME NEW k \in ks PROVE k.default \in Known(k)
  <2>1. PICK l \in ls : Alike(k, l)
    OBVIOUS
  <2>2. Known(k) = Known(l) /\ k.default = l.default
    BY <2>1 DEF Alike, Known
  <2> QED  BY <2>2 DEF Sound
<1> QED  BY <1>1, <1>2, <1>3, <1>4, <1>5 DEF Sound

(***************************************************************************)
(* Identifiers that are issued.                                            *)
(***************************************************************************)
LEMMA LessThanWellFounded == IsWellFoundedOn({p \in Nat \X Nat : p[1] < p[2]}, Nat)
BY NatLessThanWellFounded DEF OpToRel

LEMMA LeastNumber ==
  ASSUME NEW T \in SUBSET Nat, T # {}
  PROVE  \E x \in T : \A y \in T : x <= y
<1> DEFINE R == {p \in Nat \X Nat : p[1] < p[2]}
<1>1. PICK x \in T : \A y \in T : ~ (<<y, x>> \in R)
  <2> HIDE DEF R
  <2>1. IsWellFoundedOn(R, Nat)
    BY LessThanWellFounded DEF R
  <2> QED  BY <2>1, WFMin
<1>2. ASSUME NEW y \in T PROVE x <= y
  <2>1. <<y, x>> \in Nat \X Nat /\ <<y, x>> \notin R
    BY <1>1
  <2>2. ~ (y < x)
    BY <2>1
  <2> QED  BY <2>2
<1> QED  BY <1>2

Place(N, n) == Cardinality({m \in N : m <= n})

\* The places of a finite set of numbers are 1 to its size, and no two are the same.
LEMMA Places ==
  ASSUME NEW N \in SUBSET Nat, IsFiniteSet(N)
  PROVE  /\ Cardinality(N) \in Nat
         /\ \A n \in N : Place(N, n) \in 1..Cardinality(N)
         /\ \A i \in N, n \in N : Place(N, i) = Place(N, n) => i = n
<1> DEFINE S(n) == {m \in N : m <= n}
<1>1. Cardinality(N) \in Nat
  BY FS_CardinalityType
<1>2. ASSUME NEW n \in N PROVE IsFiniteSet(S(n)) /\ Cardinality(S(n)) \in 1..Cardinality(N)
  <2>1. S(n) \subseteq N /\ S(n) # {}
    OBVIOUS
  <2> HIDE DEF S
  <2>2. IsFiniteSet(S(n)) /\ Cardinality(S(n)) <= Cardinality(N)
    BY <2>1, FS_Subset
  <2>3. Cardinality(S(n)) \in Nat /\ Cardinality(S(n)) # 0
    BY <2>1, <2>2, FS_CardinalityType, FS_EmptySet
  <2> QED  BY <1>1, <2>2, <2>3
<1>3. ASSUME NEW i \in N, NEW n \in N, i < n PROVE Cardinality(S(i)) < Cardinality(S(n))
  <2>1. \A m \in N : m \in Nat
    OBVIOUS
  <2>2. \A m \in N : m <= i => m <= n
    BY <1>3, <2>1
  <2>3. n <= n /\ ~ (n <= i)
    BY <1>3, <2>1
  <2>4. S(i) \subseteq S(n) /\ n \in S(n) /\ n \notin S(i)
    BY <2>2, <2>3
  <2>5. /\ IsFiniteSet(S(n)) /\ S(i) # S(n)
        /\ Cardinality(S(i)) \in Nat /\ Cardinality(S(n)) \in Nat
    BY <1>1, <1>2, <2>4
  <2> HIDE DEF S
  <2>6. Cardinality(S(i)) <= Cardinality(S(n)) /\ Cardinality(S(i)) # Cardinality(S(n))
    BY <2>4, <2>5, FS_Subset
  <2> QED  BY <2>5, <2>6
<1>4. ASSUME NEW i \in N, NEW n \in N, Place(N, i) = Place(N, n) PROVE i = n
  <2>1. Cardinality(S(i)) \in Nat /\ Cardinality(S(n)) \in Nat /\ Cardinality(S(i)) = Cardinality(S(n))
    BY <1>2, <1>4 DEF Place
  <2>2. ~ (i < n) /\ ~ (n < i)
    <3> HIDE DEF S
    <3> QED  BY <1>3, <2>1
  <2> QED  BY <2>2
<1> QED  BY <1>1, <1>2, <1>4 DEF Place

\* The servers of a subscription that have no identifier yet.
New(list, offered) == {n \in offered : list.ids[n] = Absent}

LEMMA ReissuedIds ==
  ASSUME SubsInstance, issued \in Nat, NEW list, NEW s, NodesOf[s] \subseteq Nodes,
         NEW offered \in SUBSET NodesOf[s]
  PROVE  /\ Reissued(list, s, offered) = [n \in Nodes |-> Reissued(list, s, offered)[n]]
         /\ \A n \in Nodes : LET id == Reissued(list, s, offered)[n] IN
              \/ id = Absent /\ n \notin offered
              \/ id = list.ids[n] /\ n \notin New(list, offered)
              \/ n \in New(list, offered) /\ id = issued + Place(New(list, offered), n)
<1>1. \A n : {m \in offered : list.ids[m] = Absent /\ m <= n} = {m \in New(list, offered) : m <= n}
  BY DEF New
<1> QED  BY <1>1 DEF Reissued, Place, New

\* The list a subscription leaves is as sound as the one it was made from: new servers
\* get identifiers nobody ever had, and a default server that is gone has a successor.
LEMMA ReissueSound ==
  ASSUME SubsInstance, issued \in Nat \ {0}, NEW ls \in SUBSET Lists, NEW ms, NEW fans,
         Sound(ls, ms, issued, fans), \A m \in ms : m \subseteq Nat \ {0},
         NEW old \in ls, NEW s, NodesOf[s] \subseteq Nodes,
         NEW offered \in SUBSET NodesOf[s], offered # {},
         NEW list, list.ids = Reissued(old, s, offered),
         list.default = NewDefault(old, list.ids, offered)
  PROVE  /\ Cardinality(New(old, offered)) \in Nat
         /\ Sound(ls \cup {list}, ms, issued + Cardinality(New(old, offered)), fans)
         /\ \A n \in Nodes : list.ids[n] \in 0..issued + Cardinality(New(old, offered))
         /\ list.default \in Known(list)
<1> DEFINE N == New(old, offered)
           top == issued + Cardinality(N)
<1>1. N \in SUBSET Nat /\ IsFiniteSet(N) /\ N \subseteq Nodes
  BY FS_Subset DEF New, SubsInstance
<1>2. /\ Cardinality(N) \in Nat
      /\ \A n \in N : Place(N, n) \in 1..Cardinality(N)
      /\ \A i \in N, n \in N : Place(N, i) = Place(N, n) => i = n
  <2> HIDE DEF N
  <2> QED  BY <1>1, Places
<1>3. \A l \in ls, n \in Nodes : l.ids[n] \in Nat /\ l.ids[n] <= issued /\ l.ids[n] # Own
  BY DEF Sound, Lists, Ids, Absent
<1>4. \A n \in Nodes : \/ list.ids[n] = Absent /\ n \notin offered
                       \/ list.ids[n] = old.ids[n] /\ n \notin N
                       \/ n \in N /\ list.ids[n] = issued + Place(N, n)
  BY ReissuedIds
<1>5. \A n \in N : list.ids[n] > issued /\ list.ids[n] <= top /\ list.ids[n] # Own /\ list.ids[n] \in Nat
  <2> HIDE DEF N
  <2>1. ASSUME NEW n \in N PROVE list.ids[n] = issued + Place(N, n)
    BY <1>1, <1>4 DEF N, New, Absent
  <2> QED  BY <1>2, <2>1 DEF top, Own
<1> HIDE DEF N
<1>6. \A n \in Nodes : list.ids[n] \in Nat /\ list.ids[n] <= top /\ list.ids[n] # Own
  BY <1>2, <1>3, <1>4, <1>5 DEF Absent, Own, top
<1>7. \A l \in ls \cup {list}, n \in Nodes : l.ids[n] <= top /\ l.ids[n] # Own
  BY <1>2, <1>3, <1>6 DEF top
<1>8. \A m \in ms : \A id \in m : id <= top /\ id <= issued /\ id \in Nat
  BY <1>2 DEF Sound, top
<1>9. ASSUME NEW k \in ls \cup {list}, NEW l \in ls \cup {list}, NEW i \in Nodes, NEW n \in Nodes,
             k.ids[i] # Absent, k.ids[i] = l.ids[n]
      PROVE  i = n
  <2>1. CASE k = list /\ l = list
    <3>1. CASE i \in N /\ n \in N
      <4>1. Place(N, i) \in Nat /\ Place(N, n) \in Nat /\ issued + Place(N, i) = issued + Place(N, n)
        BY <1>2, <1>4, <1>9, <2>1, <3>1 DEF N, New, Absent
      <4> QED  BY <1>2, <3>1, <4>1
    <3>2. CASE i \notin N /\ n \notin N
      <4>1. list.ids[i] = old.ids[i] /\ list.ids[n] = old.ids[n]
        BY <1>4, <1>9, <2>1, <3>2
      <4> QED  BY <1>9, <2>1, <4>1 DEF Sound
    <3>3. CASE ~ (i \in N <=> n \in N)
      <4>1. \A j \in Nodes : j \notin N => list.ids[j] \in Nat /\ list.ids[j] <= issued
        BY <1>3, <1>4 DEF Absent
      <4> QED  BY <1>5, <1>9, <2>1, <3>3, <4>1
    <3> QED  BY <3>1, <3>2, <3>3
  <2>2. CASE k \in ls /\ l \in ls
    BY <1>9, <2>2 DEF Sound
  <2>3. ASSUME NEW o \in ls, NEW j \in Nodes, NEW h \in Nodes, list.ids[j] # Absent, list.ids[j] = o.ids[h]
        PROVE  j = h
    <3>1. j \notin N
      BY <1>3, <1>5, <2>3
    <3>2. list.ids[j] = old.ids[j]
      BY <1>4, <2>3, <3>1
    <3>3. old.ids[j] # Absent /\ old.ids[j] = o.ids[h]
      BY <2>3, <3>2
    <3> QED  BY <3>3 DEF Sound
  <2> QED  BY <1>9, <2>1, <2>2, <2>3
<1>10. ASSUME NEW l \in ls \cup {list}, NEW m \in ms, NEW n \in Nodes, l.ids[n] \in m PROVE n \in fans
  <2>1. CASE l \in ls
    BY <1>10, <2>1 DEF Sound
  <2>2. CASE l = list
    <3>1. n \notin N
      BY <1>5, <1>8, <1>10, <2>2
    <3>2. l.ids[n] # Absent => l.ids[n] = old.ids[n]
      BY <1>4, <2>2, <3>1
    <3>3. l.ids[n] # Absent
      BY <1>10 DEF Absent
    <3> QED  BY <1>10, <3>2, <3>3 DEF Sound
  <2> QED  BY <2>1, <2>2
<1>11. list.default \in Known(list)
  <2>1. old.default \in Known(old) /\ old.default # Absent
    BY DEF Sound, Lists, Ids, Absent
  <2>2. CASE \E n \in Nodes : list.ids[n] = old.default
    BY <2>1, <2>2 DEF NewDefault, Known
  <2>3. CASE /\ ~ \E n \in Nodes : list.ids[n] = old.default
             /\ \E n \in Nodes : old.ids[n] = old.default
    <3>1. offered \in SUBSET Nat /\ offered \subseteq Nodes
      BY DEF SubsInstance
    <3>2. PICK first \in offered : \A m \in offered : first <= m
      BY <3>1, LeastNumber
    <3>3. (CHOOSE n \in offered : \A m \in offered : n <= m) \in offered
      BY <3>2
    <3>4. ASSUME NEW n \in offered PROVE list.ids[n] # Absent
      <4>1. n \in N => list.ids[n] # Absent
        BY <1>5 DEF Absent
      <4>2. n \notin N => old.ids[n] # Absent
        BY DEF N, New
      <4> QED  BY <1>4, <3>1, <4>1, <4>2
    <3> QED  BY <2>3, <3>1, <3>3, <3>4 DEF NewDefault, Known
  <2>4. CASE /\ ~ \E n \in Nodes : list.ids[n] = old.default
             /\ ~ \E n \in Nodes : old.ids[n] = old.default
    BY <2>1, <2>4 DEF NewDefault, Known
  <2> QED  BY <2>2, <2>3, <2>4
<1>12. \A l \in ls \cup {list} : l.default \in Known(l)
  BY <1>11 DEF Sound
<1> QED  BY <1>2, <1>6, <1>7, <1>8, <1>9, <1>10, <1>11, <1>12 DEF Sound, top, N

\* A list of the same servers or fewer, whose default server is one of them.
LEMMA SoundThinned ==
  ASSUME NEW ls, NEW ms, NEW top, NEW fans, Sound(ls, ms, top, fans), Absent <= top,
         \A m \in ms : Absent \notin m,
         NEW old \in ls, NEW list, \A n \in Nodes : list.ids[n] \in {old.ids[n], Absent},
         list.default \in Known(list)
  PROVE  Sound(ls \cup {list}, ms, top, fans)
<1>1. \A n \in Nodes : list.ids[n] # Absent => list.ids[n] = old.ids[n]
  OBVIOUS
<1>2. \A l \in ls \cup {list}, n \in Nodes : l.ids[n] <= top /\ l.ids[n] # Own
  BY DEF Sound, Absent, Own
<1>3. ASSUME NEW k \in ls \cup {list}, NEW l \in ls \cup {list}, NEW i \in Nodes, NEW n \in Nodes,
             k.ids[i] # Absent, k.ids[i] = l.ids[n]
      PROVE  i = n
  <2>1. PICK kk \in ls : kk.ids[i] = k.ids[i]
    BY <1>1, <1>3
  <2>2. PICK ll \in ls : ll.ids[n] = l.ids[n]
    BY <1>1, <1>3
  <2> QED  BY <1>3, <2>1, <2>2 DEF Sound
<1>4. ASSUME NEW l \in ls \cup {list}, NEW m \in ms, NEW n \in Nodes, l.ids[n] \in m PROVE n \in fans
  <2>1. PICK ll \in ls : ll.ids[n] = l.ids[n]
    BY <1>1, <1>4
  <2> QED  BY <1>4, <2>1 DEF Sound
<1> QED  BY <1>2, <1>3, <1>4 DEF Sound

\* A mark the user sets.
LEMMA SoundMarked ==
  ASSUME NEW ls, NEW ms, NEW top, NEW fans, Sound(ls, ms, top, fans),
         NEW old \in ms, NEW l \in ls, NEW n \in Nodes, l.ids[n] # Absent
  PROVE  Sound(ls, ms \cup {old \cup {l.ids[n]}}, top, fans \cup {n})
<1>1. ASSUME NEW k \in ls, NEW m \in ms \cup {old \cup {l.ids[n]}}, NEW i \in Nodes, k.ids[i] \in m
      PROVE  i \in fans \cup {n}
  <2>1. CASE m \in ms
    BY <1>1, <2>1 DEF Sound
  <2>2. CASE k.ids[i] \in old
    BY <2>2 DEF Sound
  <2>3. CASE k.ids[i] = l.ids[n]
    BY <2>3 DEF Sound
  <2> QED  BY <1>1, <2>1, <2>2, <2>3
<1>2. \A m \in ms \cup {old \cup {l.ids[n]}} : \A id \in m : id <= top
  BY DEF Sound
<1> QED  BY <1>1, <1>2 DEF Sound

(***************************************************************************)
(* The inductive invariant.                                                *)
(***************************************************************************)
\* The holder of the token has written nothing.
Clean == holder = None \/ ~worker[holder].wrote

\* What a worker that is at some place has done.
Progress ==
    /\ holder <= begun
    /\ \A u \in Updates :
         /\ u > begun => worker[u].at = "none" /\ ~worker[u].wrote
         /\ worker[u].at \in {"update", "save", "saveState"} => worker[u].reload
         /\ worker[u].at \in {"save", "saveState"} => worker[u].next <= Len(Subscriptions)
         /\ worker[u].at = "saveState" => worker[u].wrote
         /\ worker[u].wrote => worker[u].reload
    /\ ui = "loadState" => holder = None

\* What memory and files have in common, until somebody's write is lost.
Agrees ==
    /\ memory.marks \subseteq Known(memory.list)
    /\ ui = "idle" /\ ~apart /\ Clean => memory = Loaded(primary, state)
    /\ ui # "idle" /\ ~apart /\ Clean => memory.list = primary

SubsIInv == SubsTypeOK /\ Sound(AllLists, AllMarks, issued, liked) /\ Progress /\ Agrees

LEMMA InvariantMeans == SubsIInv => MarkIsUsers /\ DefaultIsListed /\ MemoryIsOnDisk
<1> SUFFICES ASSUME SubsIInv PROVE MarkIsUsers /\ DefaultIsListed /\ MemoryIsOnDisk
  OBVIOUS
<1>1. ASSUME NEW c \in Copies
      PROVE  c.list \in AllLists /\ \E m \in AllMarks : c.marks \subseteq m
  BY DEF Copies, AllLists, AllMarks, Loaded
<1>2. MarkIsUsers
  BY <1>1 DEF SubsIInv, Sound, MarkIsUsers
<1>3. DefaultIsListed
  BY <1>1 DEF SubsIInv, Sound, DefaultIsListed
<1>4. MemoryIsOnDisk
  BY DEF SubsIInv, Agrees, Clean, MemoryIsOnDisk
<1> QED  BY <1>2, <1>3, <1>4

LEMMA Emptiness ==
  ASSUME SubsInstance
  PROVE  EmptyList \in Lists /\ NoWorker \in Workers /\ Loaded(EmptyList, {}) \in Configs
<1>1. Own \in Ids
  BY DEF SubsInstance, Ids, Own
<1>2. EmptyList \in Lists
  BY <1>1 DEF EmptyList, Lists
<1>3. Loaded(EmptyList, {}) \in Configs
  BY <1>2 DEF Loaded, Configs
<1>4. 1 \in 1..Len(Subscriptions) + 1
  BY DEF SubsInstance
<1> QED  BY <1>2, <1>3, <1>4 DEF NoWorker, Workers, Stages, Results

LEMMA InitInvariant == SubsInstance /\ SubsInit => SubsIInv
<1> SUFFICES ASSUME SubsInstance, SubsInit PROVE SubsIInv
  OBVIOUS
<1>1. SubsTypeOK
  <2>1. Own \in Ids /\ None \in 0..MaxUpdates /\ 0 \in 0..MaxUpdates /\ 0 \in 0..MaxEdits
    BY DEF SubsInstance, Ids, Own, None
  <2> QED  BY <2>1, Emptiness DEF SubsInit, SubsTypeOK
<1>2. AllLists = {EmptyList} /\ AllMarks = {{}}
  BY DEF SubsInit, AllLists, AllMarks, Loaded, NoWorker
<1>3. Sound(AllLists, AllMarks, issued, liked)
  BY <1>2 DEF Sound, SubsInit, EmptyList, Known, Absent, Own
<1>4. Progress
  BY DEF Progress, SubsInit, NoWorker, None, Updates
<1>5. Agrees
  BY DEF Agrees, SubsInit, Loaded
<1> QED  BY <1>1, <1>3, <1>4, <1>5 DEF SubsIInv

(***************************************************************************)
(* The user interface.                                                     *)
(***************************************************************************)
\* An edit keeps the invariant if what it leaves in memory is sound beside the rest.
LEMMA EditKeeps ==
  ASSUME SubsInstance, SubsIInv, NEW new \in Configs, Edit(new), liked' \subseteq Nodes,
         new.marks \subseteq Known(new.list),
         NEW ls, NEW ms, Sound(ls, ms, issued, liked'),
         AllLists \subseteq ls, AllMarks \subseteq ms, new.list \in ls,
         \E m \in ms : new.marks \subseteq m
  PROVE  SubsIInv'
<1>1. SubsTypeOK'
  <2>1. edits' \in 0..MaxEdits
    BY DEF SubsIInv, SubsTypeOK, Edit, SubsInstance
  <2>2. primary' \in Lists
    BY DEF SubsIInv, SubsTypeOK, Edit, Configs
  <2> QED  BY <2>1, <2>2 DEF SubsIInv, SubsTypeOK, Edit
<1>2. Sound(AllLists', AllMarks', issued', liked')
  <2>1. \A k \in AllLists' : \E l \in ls : Alike(k, l)
    BY DEF Edit, AllLists, Alike
  <2>2. \A n \in AllMarks' : \E m \in ms : n \subseteq m
    BY DEF Edit, AllMarks
  <2>3. issued' = issued
    BY DEF Edit
  <2> QED  BY <2>1, <2>2, <2>3, SoundKept
<1>3. Progress'
  BY DEF SubsIInv, Progress, Edit
<1>4. Agrees'
  BY DEF Agrees, Clean, Known, Edit
<1> QED  BY <1>1, <1>2, <1>3, <1>4 DEF SubsIInv

\* What is known in memory, and what marks can be.
LEMMA Memory ==
  ASSUME SubsInstance, SubsIInv
  PROVE  /\ memory \in Configs /\ memory.list \in AllLists /\ memory.marks \in AllMarks
         /\ memory.marks \subseteq Known(memory.list)
         /\ \A n \in Nodes : memory.list.ids[n] \in Nat
         /\ Absent <= issued
         /\ \A m \in AllMarks : m \subseteq Nat \ {Absent}
<1>1. \A m \in AllMarks : m \subseteq Ids
  BY DEF SubsIInv, SubsTypeOK, AllMarks, Configs, Workers
<1> QED  BY <1>1 DEF SubsIInv, SubsTypeOK, Agrees, AllLists, AllMarks, Configs, Lists, Ids, Absent

LEMMA FavoriteStep == SubsInstance /\ SubsIInv /\ setServersFavorite => SubsIInv'
<1> SUFFICES ASSUME SubsInstance, SubsIInv, setServersFavorite PROVE SubsIInv'
  OBVIOUS
<1> DEFINE Marked(n) == [memory EXCEPT !.marks = @ \cup {memory.list.ids[n]}]
<1>1. PICK n \in Nodes : /\ memory.list.ids[n] # Absent
                         /\ Edit(Marked(n))
                         /\ liked' = liked \cup {n}
  BY DEF setServersFavorite
<1>2. /\ Marked(n) = [list |-> memory.list, marks |-> memory.marks \cup {memory.list.ids[n]}]
      /\ Marked(n) \in Configs
  <2>1. memory.list.ids[n] \in Ids
    BY <1>1, Memory DEF Configs, Lists
  <2>2. memory = [list |-> memory.list, marks |-> memory.marks]
    BY Memory DEF Configs
  <2>3. Marked(n) = [list |-> memory.list, marks |-> memory.marks \cup {memory.list.ids[n]}]
    BY SMTT(30), <2>2
  <2>4. memory.list \in Lists /\ memory.marks \subseteq Ids
    BY Memory DEF Configs
  <2> HIDE DEF Marked
  <2> QED  BY <2>1, <2>3, <2>4 DEF Configs
<1> HIDE DEF Marked
<1>3. Marked(n).marks \subseteq Known(Marked(n).list)
  BY <1>1, <1>2, Memory DEF Known
<1>4. Sound(AllLists, AllMarks \cup {memory.marks \cup {memory.list.ids[n]}}, issued, liked')
  BY <1>1, Memory, SoundMarked DEF SubsIInv
<1>5. liked' \subseteq Nodes
  BY <1>1 DEF SubsIInv, SubsTypeOK
<1>6. /\ Marked(n).list \in AllLists
      /\ \E m \in AllMarks \cup {memory.marks \cup {memory.list.ids[n]}} : Marked(n).marks \subseteq m
  BY <1>2, Memory
<1> QED  BY <1>1, <1>2, <1>3, <1>4, <1>5, <1>6, EditKeeps

LEMMA DefaultStep == SubsInstance /\ SubsIInv /\ setDefaultServer => SubsIInv'
<1> SUFFICES ASSUME SubsInstance, SubsIInv, setDefaultServer PROVE SubsIInv'
  OBVIOUS
<1>1. PICK id \in Known(memory.list) : Edit([memory EXCEPT !.list.default = id])
  BY DEF setDefaultServer
<1> DEFINE list == [memory.list EXCEPT !.default = id]
<1>2. id \in Ids
  BY Memory DEF Known, Configs, Lists, Ids, Own, SubsInstance
<1>3. /\ [memory EXCEPT !.list.default = id] = [list |-> list, marks |-> memory.marks]
      /\ list \in Lists /\ list.ids = memory.list.ids /\ list.default = id
      /\ Known(list) = Known(memory.list)
  BY <1>2, Memory DEF Configs, Lists, Known
<1> DEFINE new == [list |-> list, marks |-> memory.marks]
<1>4. new \in Configs
  BY <1>3, Memory DEF Configs
<1> HIDE DEF list
<1>5. Sound(AllLists \cup {list}, AllMarks, issued, liked)
  BY <1>3, Memory, SoundThinned DEF SubsIInv
<1>6. liked' = liked /\ liked \subseteq Nodes
  BY DEF setDefaultServer, SubsIInv, SubsTypeOK
<1>7. /\ Edit(new) /\ new.list \in AllLists \cup {list} /\ new.marks \subseteq Known(new.list)
      /\ \E m \in AllMarks : new.marks \subseteq m
  BY <1>1, <1>3, Memory
<1> HIDE DEF new
<1> QED  BY <1>4, <1>5, <1>6, <1>7, EditKeeps

LEMMA RemoveStep == SubsInstance /\ SubsIInv /\ removeServers => SubsIInv'
<1> SUFFICES ASSUME SubsInstance, SubsIInv, removeServers PROVE SubsIInv'
  OBVIOUS
<1> DEFINE Fewer(n) == [memory.list EXCEPT !.ids[n] = Absent]
           List(n) == [Fewer(n) EXCEPT !.default = IF @ \in Known(Fewer(n)) THEN @ ELSE Own]
<1>1. PICK n \in Nodes : Edit(Loaded(List(n), memory.marks))
  BY DEF removeServers
<1>2. /\ Fewer(n) \in Lists
      /\ \A m \in Nodes : Fewer(n).ids[m] \in {memory.list.ids[m], Absent}
  BY Memory DEF Configs, Lists
<1>3. Own \in Ids
  BY DEF Own, Ids, SubsInstance
<1>4. /\ List(n) \in Lists /\ List(n).ids = Fewer(n).ids
      /\ List(n).default = (IF Fewer(n).default \in Known(Fewer(n)) THEN Fewer(n).default ELSE Own)
  <2> HIDE DEF Fewer
  <2> QED  BY <1>2, <1>3 DEF Lists
<1>5. List(n).default \in Known(List(n))
  BY <1>4 DEF Known
<1> HIDE DEF Fewer, List
<1> DEFINE new == Loaded(List(n), memory.marks)
<1>6. /\ new \in Configs /\ new.list = List(n)
      /\ new.marks \subseteq memory.marks /\ new.marks \subseteq Known(new.list)
  BY <1>4, Memory DEF Loaded, Configs
<1>7. Sound(AllLists \cup {List(n)}, AllMarks, issued, liked)
  BY <1>2, <1>4, <1>5, Memory, SoundThinned DEF SubsIInv
<1>8. liked' = liked /\ liked \subseteq Nodes
  BY DEF removeServers, SubsIInv, SubsTypeOK
<1>9. Edit(new) /\ new.list \in AllLists \cup {List(n)} /\ \E m \in AllMarks : new.marks \subseteq m
  BY <1>1, <1>6, Memory
<1> HIDE DEF new
<1> QED  BY <1>6, <1>7, <1>8, <1>9, EditKeeps

LEMMA PersistStep == SubsInstance /\ SubsIInv /\ persistUiState => SubsIInv'
<1> SUFFICES ASSUME SubsInstance, SubsIInv, persistUiState PROVE SubsIInv'
  OBVIOUS
<1>1. Edit(memory) /\ liked' = liked /\ liked \subseteq Nodes
  BY DEF persistUiState, SubsIInv, SubsTypeOK
<1>2. Sound(AllLists, AllMarks, issued, liked)
  BY DEF SubsIInv
<1> QED  BY <1>1, <1>2, Memory, EditKeeps

\* A step that makes no list and no mark that was not there.
LEMMA NothingNew ==
  ASSUME SubsInstance, SubsIInv, issued' = issued, liked' = liked,
         \A k \in AllLists' : \E l \in AllLists : Alike(k, l),
         \A n \in AllMarks' : \E m \in AllMarks : n \subseteq m
  PROVE  Sound(AllLists', AllMarks', issued', liked')
BY SoundKept DEF SubsIInv

LEMMA SaveStateStep == SubsInstance /\ SubsIInv /\ SaveState => SubsIInv'
<1> SUFFICES ASSUME SubsInstance, SubsIInv, SaveState PROVE SubsIInv'
  OBVIOUS
<1>1. SubsTypeOK'
  BY Memory DEF SubsIInv, SubsTypeOK, SaveState, config, history, Configs
<1>2. Sound(AllLists', AllMarks', issued', liked')
  <2>1. AllLists' = AllLists /\ issued' = issued /\ liked' = liked
    BY DEF SaveState, history, AllLists
  <2>2. \A n \in AllMarks' : n \in AllMarks
    BY DEF SaveState, AllMarks
  <2> QED  BY <2>1, <2>2, NothingNew DEF Alike
<1>3. Progress'
  BY DEF SubsIInv, Progress, SaveState
<1>4. Agrees'
  <2>1. memory = [list |-> memory.list, marks |-> memory.marks \cap Known(memory.list)]
    <3>1. memory = [list |-> memory.list, marks |-> memory.marks]
      BY Memory DEF Configs
    <3>2. memory.marks = memory.marks \cap Known(memory.list)
      BY Memory
    <3> QED  BY <3>1, <3>2
  <2>2. /\ memory' = memory /\ primary' = primary /\ ui' = "idle"
        /\ Clean' = Clean
        /\ ~apart' => ~apart /\ state' = memory.marks
    BY DEF SaveState, Clean
  <2>3. memory'.marks \subseteq Known(memory'.list)
    BY <2>2, Memory
  <2>4. ~apart' /\ Clean' => memory' = Loaded(primary', state')
    BY <2>1, <2>2 DEF SaveState, SubsIInv, Agrees, Loaded
  <2> QED  BY <2>2, <2>3, <2>4 DEF Agrees, Known
<1> QED  BY <1>1, <1>2, <1>3, <1>4 DEF SubsIInv

LEMMA ReloadStateStep == SubsInstance /\ SubsIInv /\ ReloadState => SubsIInv'
<1> SUFFICES ASSUME SubsInstance, SubsIInv, ReloadState PROVE SubsIInv'
  OBVIOUS
<1>1. PICK readable \in BOOLEAN :
        /\ ui = "loadState" /\ ui' = "idle"
        /\ memory' = Loaded(memory.list, IF readable THEN state ELSE {})
        /\ apart' = (apart \/ ~readable)
        /\ UNCHANGED <<primary, state, holder, begun, worker, interrupted, history>>
  BY DEF ReloadState
<1> DEFINE marks == IF readable THEN state ELSE {}
<1>2. memory' = [list |-> memory.list, marks |-> marks \cap Known(memory.list)]
  BY <1>1 DEF Loaded
<1>3. marks \in AllMarks /\ marks \subseteq Ids
  BY DEF AllMarks, SubsIInv, SubsTypeOK
<1>4. SubsTypeOK'
  <2>1. memory' \in Configs
    BY <1>2, <1>3, Memory DEF Configs
  <2> QED  BY <1>1, <2>1 DEF SubsIInv, SubsTypeOK, history
<1>5. Sound(AllLists', AllMarks', issued', liked')
  <2>1. AllLists' = AllLists /\ issued' = issued /\ liked' = liked
    BY <1>1, <1>2 DEF history, AllLists
  <2>2. \A n \in AllMarks' : \E m \in AllMarks : n \subseteq m
    BY <1>1, <1>2, <1>3 DEF AllMarks
  <2> QED  BY <2>1, <2>2, NothingNew DEF Alike
<1>6. Progress'
  BY <1>1 DEF SubsIInv, Progress
<1>7. Agrees'
  <2>1. memory'.list = memory.list /\ memory'.marks \subseteq Known(memory'.list)
    BY <1>2
  <2>2. ~apart' => memory.list = primary /\ memory' = Loaded(primary', state')
    <3>1. Clean
      BY <1>1 DEF SubsIInv, Progress, Clean
    <3>2. ~apart' => readable /\ ~apart /\ memory.list = primary
      BY <1>1, <3>1 DEF SubsIInv, Agrees
    <3> QED  BY <1>1, <3>2
  <2> QED  BY <1>1, <2>1, <2>2 DEF Agrees, Known
<1> QED  BY <1>4, <1>5, <1>6, <1>7 DEF SubsIInv

LEMMA BeginStep == SubsInstance /\ SubsIInv /\ updateByIds => SubsIInv'
<1> SUFFICES ASSUME SubsInstance, SubsIInv, updateByIds PROVE SubsIInv'
  OBVIOUS
<1>1. /\ begun' \in Updates /\ holder' = begun' /\ begun' = begun + 1 /\ begun \in Nat
      /\ begun' \in 0..MaxUpdates /\ ui = "idle" /\ holder = None
  BY DEF updateByIds, SubsIInv, SubsTypeOK, Updates, SubsInstance
<1>2. /\ worker' = [worker EXCEPT ![begun'].at = "load"]
      /\ UNCHANGED <<memory, primary, state, ui, interrupted, issued, edits, liked, told, apart>>
  BY DEF updateByIds, config, history
<1>3. worker \in [Updates -> Workers]
  BY DEF SubsIInv, SubsTypeOK
<1>4. \A u \in Updates : worker'[u] = IF u = begun' THEN [worker[u] EXCEPT !.at = "load"] ELSE worker[u]
  BY <1>1, <1>2, <1>3
<1>5. \A u \in Updates : /\ worker'[u] \in Workers
                         /\ worker'[u].copy = worker[u].copy /\ worker'[u].wrote = worker[u].wrote
                         /\ worker'[u].reload = worker[u].reload /\ worker'[u].next = worker[u].next
                         /\ worker'[u].at = IF u = begun' THEN "load" ELSE worker[u].at
  <2>1. ASSUME NEW w \in Workers
        PROVE  LET v == [w EXCEPT !.at = "load"] IN
               /\ v \in Workers /\ v.copy = w.copy /\ v.wrote = w.wrote
               /\ v.reload = w.reload /\ v.next = w.next /\ v.at = "load"
    BY DEF Workers, Stages
  <2>2. SUFFICES ASSUME NEW u \in Updates
                 PROVE  /\ worker'[u] \in Workers
                        /\ worker'[u].copy = worker[u].copy /\ worker'[u].wrote = worker[u].wrote
                        /\ worker'[u].reload = worker[u].reload /\ worker'[u].next = worker[u].next
                        /\ worker'[u].at = IF u = begun' THEN "load" ELSE worker[u].at
    OBVIOUS
  <2>3. worker[u] \in Workers
    BY <1>3
  <2>4. CASE u = begun'
    <3>1. worker'[u] = [worker[u] EXCEPT !.at = "load"]
      BY <1>4, <2>4
    <3> QED  BY <2>1, <2>3, <2>4, <3>1
  <2>5. CASE u # begun'
    BY <1>4, <2>3, <2>5
  <2> QED  BY <2>4, <2>5
<1>6. SubsTypeOK'
  <2>1. worker' \in [Updates -> Workers]
    BY <1>2, <1>3, <1>5
  <2> QED  BY <1>1, <1>2, <2>1 DEF SubsIInv, SubsTypeOK
<1>7. Sound(AllLists', AllMarks', issued', liked')
  <2>1. AllLists' = AllLists /\ AllMarks' = AllMarks
    BY <1>2, <1>5 DEF AllLists, AllMarks
  <2> QED  BY <1>2, <2>1, NothingNew DEF Alike
<1>8. \A u \in Updates : u > begun' => u > begun /\ u # begun'
  BY <1>1 DEF Updates
<1>9. Progress'
  <2>1. \A u \in Updates : u > begun' => worker'[u].at = "none" /\ ~worker'[u].wrote
    BY <1>5, <1>8 DEF SubsIInv, Progress
  <2>2. holder' <= begun' /\ ui' # "loadState"
    BY <1>1, <1>2
  <2> QED  BY <1>5, <2>1, <2>2 DEF SubsIInv, Progress
<1>10. Agrees'
  BY <1>1, <1>2, <1>5 DEF SubsIInv, Agrees, Clean, Known, Loaded, None
<1> QED  BY <1>6, <1>7, <1>9, <1>10 DEF SubsIInv

LEMMA ActivateStep == SubsInstance /\ SubsIInv /\ ActivationBegins => SubsIInv'
<1> SUFFICES ASSUME SubsInstance, SubsIInv, ActivationBegins PROVE SubsIInv'
  OBVIOUS
<1>1. /\ holder' = None /\ ui = "idle"
      /\ apart' = (apart \/ (holder # None /\ worker[holder].wrote))
      /\ UNCHANGED <<memory, primary, state, ui, begun, worker, issued, edits, liked, told>>
  BY DEF ActivationBegins, config, history
<1>2. SubsTypeOK'
  <2>1. interrupted' \subseteq Updates
    BY DEF ActivationBegins, SubsIInv, SubsTypeOK
  <2>2. holder' \in 0..MaxUpdates
    BY <1>1 DEF None, SubsInstance
  <2>3. apart' \in BOOLEAN
    BY <1>1 DEF SubsIInv, SubsTypeOK
  <2> QED  BY <1>1, <2>1, <2>2, <2>3 DEF SubsIInv, SubsTypeOK
<1>3. Sound(AllLists', AllMarks', issued', liked')
  <2>1. AllLists' = AllLists /\ AllMarks' = AllMarks
    BY <1>1 DEF AllLists, AllMarks
  <2> QED  BY <1>1, <2>1, NothingNew DEF Alike
<1>4. Progress'
  BY <1>1 DEF SubsIInv, SubsTypeOK, Progress, None
<1>5. Agrees'
  BY <1>1 DEF SubsIInv, Agrees, Clean, Known, Loaded
<1> QED  BY <1>2, <1>3, <1>4, <1>5 DEF SubsIInv

LEMMA CrashStep == SubsInstance /\ SubsIInv /\ Crash => SubsIInv'
<1> SUFFICES ASSUME SubsInstance, SubsIInv, Crash PROVE SubsIInv'
  OBVIOUS
<1>1. PICK readable \in BOOLEAN :
        /\ memory' = Loaded(primary, IF readable THEN state ELSE {})
        /\ ui' = "idle" /\ holder' = None /\ interrupted' = {} /\ told' = {} /\ apart' = ~readable
        /\ worker' = [u \in Updates |-> IF u <= begun THEN [NoWorker EXCEPT !.at = "over"] ELSE NoWorker]
        /\ UNCHANGED <<primary, state, begun, issued, edits, liked>>
  BY DEF Crash
<1> DEFINE marks == IF readable THEN state ELSE {}
<1>2. memory' = [list |-> primary, marks |-> marks \cap Known(primary)]
  BY <1>1 DEF Loaded
<1>3. marks \in AllMarks /\ marks \subseteq Ids
  BY DEF AllMarks, SubsIInv, SubsTypeOK
<1>4. \A u \in Updates : /\ worker'[u] \in Workers /\ worker'[u].copy = NoWorker.copy
                         /\ worker'[u].at \in {"none", "over"} /\ (u > begun => worker'[u].at = "none")
                         /\ ~worker'[u].wrote
  <2>1. [NoWorker EXCEPT !.at = "over"] \in Workers
    BY Emptiness DEF Workers, Stages
  <2>2. /\ [NoWorker EXCEPT !.at = "over"].copy = NoWorker.copy /\ ~[NoWorker EXCEPT !.at = "over"].wrote
        /\ [NoWorker EXCEPT !.at = "over"].at = "over"
        /\ ~NoWorker.wrote /\ NoWorker.at = "none"
    BY DEF NoWorker
  <2>3. \A u \in Updates : u > begun => ~ (u <= begun)
    BY DEF Updates, SubsIInv, SubsTypeOK, SubsInstance
  <2> HIDE DEF NoWorker
  <2> QED  BY <1>1, <2>1, <2>2, <2>3, Emptiness
<1>5. SubsTypeOK'
  <2>1. memory' \in Configs
    BY <1>2, <1>3 DEF Configs, SubsIInv, SubsTypeOK
  <2>2. worker' \in [Updates -> Workers]
    BY <1>1, <1>4
  <2>3. holder' \in 0..MaxUpdates
    BY <1>1 DEF None, SubsInstance
  <2> QED  BY <1>1, <2>1, <2>2, <2>3 DEF SubsIInv, SubsTypeOK
<1>6. Sound(AllLists', AllMarks', issued', liked')
  <2>1. \A u \in Updates : worker'[u].copy.list = EmptyList /\ worker'[u].copy.marks = {}
    BY <1>4 DEF NoWorker, Loaded
  <2>2. \A k \in AllLists' : k \in AllLists
    BY <1>1, <1>2, <2>1 DEF AllLists
  <2>3. \A n \in AllMarks' : \E m \in AllMarks : n \subseteq m
    <3>1. memory'.marks \subseteq marks /\ state' = state
      BY <1>1, <1>2
    <3>2. {} \in AllMarks /\ state \in AllMarks
      BY DEF AllMarks
    <3>3. AllMarks' = {{}, memory'.marks, state'} \cup {worker'[u].copy.marks : u \in Updates}
      BY DEF AllMarks
    <3> HIDE DEF marks
    <3> QED  BY <1>3, <2>1, <3>1, <3>2, <3>3
  <2> QED  BY <1>1, <2>2, <2>3, NothingNew DEF Alike
<1>7. Progress'
  BY <1>1, <1>4 DEF SubsIInv, SubsTypeOK, Progress, None
<1>8. Agrees'
  <2>1. memory'.list = primary' /\ memory'.marks \subseteq Known(memory'.list)
    BY <1>1, <1>2
  <2>2. ~apart' => memory' = Loaded(primary', state')
    BY <1>1
  <2> QED  BY <1>1, <2>1, <2>2 DEF Agrees, Known
<1> QED  BY <1>5, <1>6, <1>7, <1>8 DEF SubsIInv

(***************************************************************************)
(* The workers.                                                            *)
(***************************************************************************)
LEMMA Typed ==
  ASSUME SubsInstance, SubsIInv
  PROVE  AllLists \subseteq Lists /\ AllMarks \subseteq SUBSET Ids
BY Emptiness DEF SubsIInv, SubsTypeOK, AllLists, AllMarks, Configs, Workers

\* A worker's step keeps the invariant if its copy is sound beside the rest and it
\* wrote nothing, or wrote and is known to have.
LEMMA WorkerKeeps ==
  ASSUME SubsInstance, SubsIInv, NEW u \in Updates, NEW w \in Workers, Step(u, w),
         NEW ls, Sound(ls, AllMarks, issued', liked), AllLists \subseteq ls,
         \E l \in ls : Alike(w.copy.list, l), \E m \in AllMarks : w.copy.marks \subseteq m,
         primary' \in AllLists, state' \in AllMarks, issued' \in Ids, apart' \in BOOLEAN,
         worker[u].at # "none",
         w.at \in {"update", "save", "saveState"} => w.reload,
         w.at \in {"save", "saveState"} => w.next <= Len(Subscriptions),
         w.at = "saveState" => w.wrote,
         w.wrote => w.reload,
         ~apart' => /\ ~apart
                    /\ \/ primary' = primary /\ state' = state /\ w.wrote = worker[u].wrote
                       \/ holder = u /\ w.wrote
  PROVE  SubsIInv'
<1>1. /\ worker \in [Updates -> Workers] /\ worker' = [worker EXCEPT ![u] = w]
      /\ UNCHANGED <<memory, ui, holder, begun, interrupted, edits, liked, told>>
  BY DEF SubsIInv, SubsTypeOK, Step
<1>2. worker'[u] = w /\ \A v \in Updates : v # u => worker'[v] = worker[v]
  BY <1>1
<1>3. SubsTypeOK'
  <2>1. worker' \in [Updates -> Workers]
    BY <1>1
  <2>2. primary' \in Lists /\ state' \subseteq Ids
    BY Typed
  <2> QED  BY <1>1, <2>1, <2>2 DEF SubsIInv, SubsTypeOK
<1>4. Sound(AllLists', AllMarks', issued', liked')
  <2>1. \A k \in AllLists' : \E l \in ls : Alike(k, l)
    <3>1. \A l \in AllLists : \E m \in ls : Alike(l, m)
      BY DEF Alike
    <3>2. \A v \in Updates : \E m \in ls : Alike(worker'[v].copy.list, m)
      BY <1>2, <3>1 DEF AllLists
    <3>3. EmptyList \in AllLists /\ memory'.list \in AllLists
      BY <1>1 DEF AllLists
    <3>4. AllLists' = {EmptyList, memory'.list, primary'} \cup {worker'[v].copy.list : v \in Updates}
      BY DEF AllLists
    <3> QED  BY <3>1, <3>2, <3>3, <3>4
  <2>2. \A n \in AllMarks' : \E m \in AllMarks : n \subseteq m
    <3>1. \A v \in Updates : \E m \in AllMarks : worker'[v].copy.marks \subseteq m
      BY <1>2 DEF AllMarks
    <3>2. {} \in AllMarks /\ memory'.marks \in AllMarks
      BY <1>1 DEF AllMarks
    <3>3. AllMarks' = {{}, memory'.marks, state'} \cup {worker'[v].copy.marks : v \in Updates}
      BY DEF AllMarks
    <3> QED  BY <3>1, <3>2, <3>3
  <2> QED  BY <1>1, <2>1, <2>2, SoundKept
<1>5. Progress'
  <2>1. ~ (u > begun)
    BY DEF SubsIInv, Progress
  <2>2. \A v \in Updates : \/ v = u /\ worker'[v] = w
                           \/ worker'[v] = worker[v]
    BY <1>2
  <2> QED  BY <1>1, <2>1, <2>2 DEF SubsIInv, Progress
<1>6. Agrees'
  <2>1. memory'.marks \subseteq Known(memory'.list)
    BY <1>1, Memory
  <2>2. u # None
    BY DEF Updates, None
  <2>3. ~apart' /\ Clean' => ~apart /\ primary' = primary /\ state' = state /\ Clean
    <3>1. SUFFICES ASSUME ~apart', Clean' PROVE ~apart /\ primary' = primary /\ state' = state /\ Clean
      OBVIOUS
    <3>2. holder \in Updates \/ holder = None
      BY DEF SubsIInv, SubsTypeOK, Updates, None, SubsInstance
    <3>3. ~ (holder = u /\ w.wrote)
      BY <1>1, <1>2, <2>2, <3>1 DEF Clean
    <3>4. primary' = primary /\ state' = state /\ w.wrote = worker[u].wrote
      BY <3>1, <3>3
    <3>5. Clean
      BY <1>1, <1>2, <3>1, <3>2, <3>4 DEF Clean
    <3> QED  BY <3>1, <3>4, <3>5
  <2> QED  BY <1>1, <2>1, <2>3 DEF SubsIInv, Agrees, Known
<1> QED  BY <1>3, <1>4, <1>5, <1>6 DEF SubsIInv

\* A worker as it was, in the invariant's words.
LEMMA WorkerOf ==
  ASSUME SubsInstance, SubsIInv, NEW u \in Updates
  PROVE  /\ worker[u] \in Workers
         /\ worker[u].copy.list \in AllLists /\ worker[u].copy.marks \in AllMarks
         /\ Sound(AllLists, AllMarks, issued, liked)
         /\ primary \in AllLists /\ state \in AllMarks /\ {} \in AllMarks
         /\ EmptyList \in AllLists
         /\ apart \in BOOLEAN /\ issued \in Ids
BY DEF SubsIInv, SubsTypeOK, AllLists, AllMarks

LEMMA LoadStep == \A u \in Updates : SubsInstance /\ SubsIInv /\ Load(u) => SubsIInv'
<1> SUFFICES ASSUME NEW u \in Updates, SubsInstance, SubsIInv, Load(u) PROVE SubsIInv'
  OBVIOUS
<1>1. UNCHANGED <<primary, state, issued, apart>> /\ worker[u].at = "load"
  BY DEF Load
<1>2. worker[u].wrote => worker[u].reload
  BY DEF SubsIInv, Progress
<1>3. CASE Step(u, [worker[u] EXCEPT !.at = "loadState", !.copy.list = primary])
  <2> DEFINE w == [worker[u] EXCEPT !.at = "loadState", !.copy.list = primary]
  <2>1. /\ w \in Workers /\ w.at = "loadState" /\ w.wrote = worker[u].wrote /\ w.reload = worker[u].reload
        /\ w.copy.list = primary /\ w.copy.marks = worker[u].copy.marks
    BY WorkerOf, Typed DEF Workers, Configs, Stages
  <2>2. \E l \in AllLists : Alike(w.copy.list, l)
    BY <2>1, WorkerOf DEF Alike
  <2> HIDE DEF w
  <2>3. Step(u, w)
    BY <1>3 DEF w
  <2> QED  BY <1>1, <1>2, <2>1, <2>2, <2>3, WorkerOf, WorkerKeeps
<1>4. CASE Step(u, [worker[u] EXCEPT !.at = "done"])
  <2> DEFINE w == [worker[u] EXCEPT !.at = "done"]
  <2>1. /\ w \in Workers /\ w.at = "done" /\ w.wrote = worker[u].wrote /\ w.reload = worker[u].reload
        /\ w.copy = worker[u].copy
    BY WorkerOf DEF Workers, Stages
  <2>2. \E l \in AllLists : Alike(w.copy.list, l)
    BY <2>1, WorkerOf DEF Alike
  <2> HIDE DEF w
  <2>3. Step(u, w)
    BY <1>4 DEF w
  <2> QED  BY <1>1, <1>2, <2>1, <2>2, <2>3, WorkerOf, WorkerKeeps
<1> QED  BY <1>3, <1>4 DEF Load

LEMMA LoadStateStep == \A u \in Updates : SubsInstance /\ SubsIInv /\ LoadState(u) => SubsIInv'
<1> SUFFICES ASSUME NEW u \in Updates, SubsInstance, SubsIInv, LoadState(u) PROVE SubsIInv'
  OBVIOUS
<1> DEFINE w(m) == [worker[u] EXCEPT !.at = "update", !.copy = Loaded(@.list, m), !.reload = TRUE]
<1>1. PICK marks \in {state, {}} : Step(u, w(marks))
  BY DEF LoadState
<1>2. UNCHANGED <<primary, state, issued, apart>> /\ worker[u].at = "loadState"
  BY DEF LoadState
<1>3. marks \in AllMarks /\ marks \subseteq Ids
  BY WorkerOf, Typed
<1>4. Loaded(worker[u].copy.list, marks) \in Configs
  BY <1>3, WorkerOf, Typed DEF Loaded, Configs
<1>5. /\ w(marks) \in Workers /\ w(marks).at = "update" /\ w(marks).wrote = worker[u].wrote
      /\ w(marks).reload /\ w(marks).copy = Loaded(worker[u].copy.list, marks)
  BY <1>4, WorkerOf DEF Workers, Stages
<1>6. w(marks).copy.list = worker[u].copy.list /\ w(marks).copy.marks \subseteq marks
  BY <1>5 DEF Loaded
<1> HIDE DEF w
<1>7. /\ \E l \in AllLists : Alike(w(marks).copy.list, l)
      /\ \E m \in AllMarks : w(marks).copy.marks \subseteq m
  BY <1>3, <1>6, WorkerOf DEF Alike
<1> QED  BY <1>1, <1>2, <1>5, <1>7, WorkerOf, WorkerKeeps

LEMMA BatchStep == \A u \in Updates : SubsInstance /\ SubsIInv /\ Batch(u) => SubsIInv'
<1> SUFFICES ASSUME NEW u \in Updates, SubsInstance, SubsIInv, Batch(u) PROVE SubsIInv'
  OBVIOUS
<1> DEFINE w == [worker[u] EXCEPT !.at = "done", !.copy = NoWorker.copy]
<1>1. Step(u, w) /\ UNCHANGED <<primary, state, issued, apart>> /\ worker[u].at = "update"
  BY DEF Batch
<1>2. worker[u].reload
  BY <1>1 DEF SubsIInv, Progress
<1>3. /\ NoWorker.copy \in Configs /\ NoWorker.copy.list = EmptyList /\ NoWorker.copy.marks = {}
  BY Emptiness DEF NoWorker, Loaded
<1>4. /\ w \in Workers /\ w.at = "done" /\ w.wrote = worker[u].wrote /\ w.reload = worker[u].reload
      /\ w.copy = NoWorker.copy
  <2> HIDE DEF NoWorker
  <2> QED  BY <1>3, WorkerOf DEF Workers, Stages
<1> HIDE DEF w
<1>5. /\ \E l \in AllLists : Alike(w.copy.list, l)
      /\ \E m \in AllMarks : w.copy.marks \subseteq m
  BY <1>3, <1>4, WorkerOf DEF Alike
<1> QED  BY <1>1, <1>2, <1>4, <1>5, WorkerOf, WorkerKeeps

LEMMA Subscribed ==
  ASSUME SubsInstance, SubsIInv, NEW u \in Updates, Updating(u)
  PROVE  /\ worker[u].at = "update" /\ worker[u].reload
         /\ worker[u].next \in 1..Len(Subscriptions) /\ worker[u].next + 1 \in 1..Len(Subscriptions) + 1
         /\ Sub(u) \in Subs /\ NodesOf[Sub(u)] \subseteq Nodes
<1>1. worker[u].next \in 1..Len(Subscriptions)
  BY WorkerOf DEF Updating, Workers, SubsInstance
<1>2. worker[u].next + 1 \in 1..Len(Subscriptions) + 1
  BY <1>1 DEF SubsInstance
<1>3. Sub(u) \in Subs
  BY <1>1 DEF Sub, Subs, SubsInstance
<1>4. worker[u].at = "update" /\ worker[u].reload
  BY DEF Updating, SubsIInv, Progress
<1> QED  BY <1>1, <1>2, <1>3, <1>4 DEF Nodes

LEMMA NotModifiedStep == \A u \in Updates : SubsInstance /\ SubsIInv /\ NotModified(u) => SubsIInv'
<1> SUFFICES ASSUME NEW u \in Updates, SubsInstance, SubsIInv, NotModified(u) PROVE SubsIInv'
  OBVIOUS
<1> DEFINE w == [worker[u] EXCEPT !.at = "save", !.result = "unchanged",
                                  !.copy.list.refreshed = @ \cup {Sub(u)}]
<1>1. Step(u, w) /\ UNCHANGED <<primary, state, issued, apart>> /\ Updating(u)
  BY DEF NotModified
<1>2. /\ w.at = "save" /\ w.wrote = worker[u].wrote /\ w.reload = worker[u].reload
      /\ w.next = worker[u].next /\ w.copy.marks = worker[u].copy.marks
      /\ w.copy.list.ids = worker[u].copy.list.ids /\ w.copy.list.default = worker[u].copy.list.default
  BY WorkerOf DEF Workers, Configs, Lists
<1>3. w \in Workers
  <2> DEFINE list == [worker[u].copy.list EXCEPT !.refreshed = @ \cup {Sub(u)}]
             copy == [worker[u].copy EXCEPT !.list = list]
  <2>1. list \in Lists
    BY <1>1, Subscribed, WorkerOf DEF Workers, Configs, Lists
  <2>2. copy \in Configs
    <3> HIDE DEF list
    <3> QED  BY <2>1, WorkerOf DEF Workers, Configs
  <2>3. w = [worker[u] EXCEPT !.at = "save", !.result = "unchanged", !.copy = copy]
    BY WorkerOf DEF Workers, Configs, Lists
  <2> HIDE DEF copy, w
  <2> QED  BY <2>2, <2>3, WorkerOf DEF Workers, Stages, Results
<1> HIDE DEF w
<1>4. \E l \in AllLists : Alike(w.copy.list, l)
  BY <1>2, WorkerOf DEF Alike
<1> QED  BY <1>1, <1>2, <1>3, <1>4, Subscribed, WorkerOf, WorkerKeeps

LEMMA DownloadFailsStep == \A u \in Updates : SubsInstance /\ SubsIInv /\ DownloadFails(u) => SubsIInv'
<1> SUFFICES ASSUME NEW u \in Updates, SubsInstance, SubsIInv, DownloadFails(u) PROVE SubsIInv'
  OBVIOUS
<1> DEFINE w == [worker[u] EXCEPT !.at = "save", !.result = "failed"]
<1>1. Step(u, w) /\ UNCHANGED <<primary, state, issued, apart>> /\ Updating(u)
  BY DEF DownloadFails
<1>2. /\ w \in Workers /\ w.at = "save" /\ w.wrote = worker[u].wrote /\ w.reload = worker[u].reload
      /\ w.next = worker[u].next /\ w.copy = worker[u].copy
  BY WorkerOf DEF Workers, Stages, Results
<1> HIDE DEF w
<1>3. \E l \in AllLists : Alike(w.copy.list, l)
  BY <1>2, WorkerOf DEF Alike
<1> QED  BY <1>1, <1>2, <1>3, Subscribed, WorkerOf, WorkerKeeps

LEMMA UnparseableStep == \A u \in Updates : SubsInstance /\ SubsIInv /\ Unparseable(u) => SubsIInv'
<1> SUFFICES ASSUME NEW u \in Updates, SubsInstance, SubsIInv, Unparseable(u) PROVE SubsIInv'
  OBVIOUS
<1> DEFINE w == [worker[u] EXCEPT !.next = @ + 1]
<1>1. Step(u, w) /\ UNCHANGED <<primary, state, issued, apart>> /\ Updating(u)
  BY DEF Unparseable
<1>2. /\ w \in Workers /\ w.at = worker[u].at /\ w.wrote = worker[u].wrote /\ w.reload = worker[u].reload
      /\ w.copy = worker[u].copy
  <2>1. worker[u].next + 1 \in 1..Len(Subscriptions) + 1
    BY <1>1, Subscribed
  <2> QED  BY <2>1, WorkerOf DEF Workers
<1> HIDE DEF w
<1>3. \E l \in AllLists : Alike(w.copy.list, l)
  BY <1>2, WorkerOf DEF Alike
<1> QED  BY <1>1, <1>2, <1>3, Subscribed, WorkerOf, WorkerKeeps

LEMMA ReissuedTyped ==
  ASSUME SubsInstance, NEW list, NEW s, NEW offered, NEW top \in Ids,
         \A n \in Nodes : Reissued(list, s, offered)[n] \in 0..top
  PROVE  Reissued(list, s, offered) \in [Nodes -> {Absent} \cup Ids]
<1> DEFINE f == Reissued(list, s, offered)
<1>1. f = [n \in Nodes |-> f[n]]
  BY DEF Reissued
<1> HIDE DEF f
<1>2. \A i \in 0..top : i \in {Absent} \cup Ids
  BY DEF Absent, Ids, SubsInstance
<1>3. \A n \in Nodes : f[n] \in {Absent} \cup Ids
  BY <1>2 DEF f
<1>4. f \in [Nodes -> {Absent} \cup Ids]
  BY <1>1, <1>3
<1> QED  BY <1>4 DEF f

LEMMA ReplaceStep == \A u \in Updates : SubsInstance /\ SubsIInv /\ Replace(u) => SubsIInv'
<1> SUFFICES ASSUME NEW u \in Updates, SubsInstance, SubsIInv, Replace(u) PROVE SubsIInv'
  OBVIOUS
<1> DEFINE old == worker[u].copy.list
           ids(o) == Reissued(old, Sub(u), o)
           list(o) == [old EXCEPT !.ids = ids(o), !.default = NewDefault(old, ids(o), o)]
           copy(o) == Loaded(list(o), worker[u].copy.marks)
           w(o) == [worker[u] EXCEPT !.at = "save", !.result = "replaced", !.copy = copy(o)]
<1>1. PICK offered \in (SUBSET NodesOf[Sub(u)]) \ {{}} :
        /\ issued + Cardinality(New(old, offered)) <= MaxIds
        /\ issued' = issued + Cardinality(New(old, offered))
        /\ Step(u, w(offered))
  BY DEF Replace, New
<1>2. UNCHANGED <<primary, state, apart>> /\ Updating(u)
  BY DEF Replace
<1>3. /\ NodesOf[Sub(u)] \subseteq Nodes /\ offered \in SUBSET NodesOf[Sub(u)] /\ offered # {}
      /\ worker[u].reload /\ worker[u].next <= Len(Subscriptions)
  BY <1>2, Subscribed DEF SubsInstance
<1>4. old \in Lists /\ old \in AllLists /\ issued \in Nat \ {0} /\ issued \in Ids
  BY WorkerOf, Typed DEF Ids
<1> DEFINE l == list(offered)
<1>5. /\ l.ids = ids(offered) /\ l.default = NewDefault(old, l.ids, offered)
      /\ l.ids \in [Nodes -> {Absent} \cup Ids] /\ l.default \in Ids => l \in Lists
  <2> DEFINE i == ids(offered)
             d == NewDefault(old, i, offered)
  <2>1. l = [old EXCEPT !.ids = i, !.default = d]
    OBVIOUS
  <2>2. old \in Lists
    BY <1>4
  <2> HIDE DEF ids, i, d, l, old
  <2>3. /\ l.ids = i /\ l.default = d
        /\ i \in [Nodes -> {Absent} \cup Ids] /\ d \in Ids => l \in Lists
    <3>1. l.ids = i /\ l.default = d
      BY <2>1, <2>2 DEF Lists
    <3>2. i \in [Nodes -> {Absent} \cup Ids] /\ d \in Ids => l \in Lists
      BY <2>1, <2>2 DEF Lists
    <3> QED  BY <3>1, <3>2
  <2> QED  BY <2>3 DEF i, d
<1> HIDE DEF list
<1>6. /\ Cardinality(New(old, offered)) \in Nat
      /\ Sound(AllLists \cup {l}, AllMarks, issued', liked)
      /\ \A n \in Nodes : l.ids[n] \in 0..issued'
      /\ l.default \in Known(l)
  <2>1. AllLists \in SUBSET Lists /\ \A m \in AllMarks : m \subseteq Nat \ {0}
    BY Typed, Memory DEF Absent
  <2>2. Sound(AllLists, AllMarks, issued, liked)
    BY DEF SubsIInv
  <2> HIDE DEF l, old
  <2> QED  BY <1>1, <1>3, <1>4, <1>5, <2>1, <2>2, ReissueSound
<1>7. issued' \in Ids
  BY <1>1, <1>4, <1>6 DEF Ids, SubsInstance
<1>8. l \in Lists
  <2>1. l.ids = Reissued(old, Sub(u), offered)
    BY <1>5
  <2>2. l.ids \in [Nodes -> {Absent} \cup Ids]
    <3> HIDE DEF l, old
    <3> QED  BY <1>6, <1>7, <2>1, ReissuedTyped
  <2>3. Own \in Ids
    BY DEF Own, Ids, SubsInstance
  <2>4. l.default \in Ids
    <3> HIDE DEF l
    <3> QED  BY <1>6, <2>2, <2>3 DEF Known
  <2> HIDE DEF l, old
  <2> QED  BY <1>5, <2>2, <2>4
<1>9. copy(offered) \in Configs /\ copy(offered).list = l /\ copy(offered).marks \subseteq worker[u].copy.marks
  <2>1. worker[u].copy.marks \subseteq Ids
    BY WorkerOf, Typed
  <2> HIDE DEF l
  <2> QED  BY <1>8, <2>1 DEF Loaded, Configs, l
<1> HIDE DEF copy
<1>10. /\ w(offered) \in Workers /\ w(offered).at = "save" /\ w(offered).wrote = worker[u].wrote
       /\ w(offered).reload = worker[u].reload /\ w(offered).next = worker[u].next
       /\ w(offered).copy = copy(offered)
  BY <1>9, WorkerOf DEF Workers, Stages, Results
<1> HIDE DEF w, l, old
<1>11. /\ \E k \in AllLists \cup {l} : Alike(w(offered).copy.list, k)
       /\ \E m \in AllMarks : w(offered).copy.marks \subseteq m
  BY <1>9, <1>10, WorkerOf DEF Alike
<1>12. worker[u].at = "update" /\ (~apart' => ~apart) /\ apart' \in BOOLEAN
  BY <1>2, Subscribed, WorkerOf
<1> QED  BY <1>1, <1>2, <1>3, <1>6, <1>7, <1>10, <1>11, <1>12, WorkerOf, WorkerKeeps

LEMMA SaveCopyStep == \A u \in Updates : SubsInstance /\ SubsIInv /\ SaveCopy(u) => SubsIInv'
<1> SUFFICES ASSUME NEW u \in Updates, SubsInstance, SubsIInv, SaveCopy(u) PROVE SubsIInv'
  OBVIOUS
<1> DEFINE w(ok) == [worker[u] EXCEPT !.at = "saveState", !.ok = ok, !.wrote = TRUE]
<1>1. PICK ok \in BOOLEAN : /\ worker[u].at = "save" /\ Step(u, w(ok))
                            /\ primary' = IF ok THEN worker[u].copy.list ELSE primary
                            /\ apart' = (apart \/ holder # u)
                            /\ state' = state /\ issued' = issued
  BY DEF SaveCopy, Writes
<1>2. worker[u].reload /\ worker[u].next <= Len(Subscriptions)
  BY <1>1 DEF SubsIInv, Progress
<1>3. /\ w(ok) \in Workers /\ w(ok).at = "saveState" /\ w(ok).wrote /\ w(ok).reload = worker[u].reload
      /\ w(ok).next = worker[u].next /\ w(ok).copy = worker[u].copy
  BY WorkerOf DEF Workers, Stages
<1> HIDE DEF w
<1>4. \E l \in AllLists : Alike(w(ok).copy.list, l)
  BY <1>3, WorkerOf DEF Alike
<1>5. primary' \in AllLists
  BY <1>1, WorkerOf
<1> QED  BY <1>1, <1>2, <1>3, <1>4, <1>5, WorkerOf, WorkerKeeps

LEMMA SaveCopyStateStep == \A u \in Updates : SubsInstance /\ SubsIInv /\ SaveCopyState(u) => SubsIInv'
<1> SUFFICES ASSUME NEW u \in Updates, SubsInstance, SubsIInv, SaveCopyState(u) PROVE SubsIInv'
  OBVIOUS
<1> DEFINE old == worker[u]
           good(ok) == ok /\ old.ok /\ old.result # "failed"
           refreshed(ok) == IF good(ok) THEN old.copy.list.refreshed \cup {Sub(u)}
                                        ELSE old.copy.list.refreshed
           succeeded(ok) == IF good(ok) THEN old.succeeded \cup {Sub(u)} ELSE old.succeeded
           w(ok) == [old EXCEPT !.at = "update", !.next = @ + 1, !.result = "failed", !.ok = TRUE,
                         !.copy.list.refreshed = IF good(ok) THEN @ \cup {Sub(u)} ELSE @,
                         !.succeeded = IF good(ok) THEN @ \cup {Sub(u)} ELSE @]
<1>1. PICK ok \in BOOLEAN : /\ old.at = "saveState" /\ Step(u, w(ok))
                            /\ state' = IF ok THEN old.copy.marks ELSE state
                            /\ apart' = (apart \/ holder # u)
                            /\ primary' = primary /\ issued' = issued
  BY DEF SaveCopyState, Writes
<1>2. old.reload /\ old.wrote /\ old.next <= Len(Subscriptions)
  BY <1>1 DEF SubsIInv, Progress
<1>3. Sub(u) \in Subs /\ old.next + 1 \in 1..Len(Subscriptions) + 1
  BY <1>2, WorkerOf DEF Workers, Sub, Subs, SubsInstance
<1>4. refreshed(ok) \subseteq Subs /\ succeeded(ok) \subseteq Subs
  BY <1>3, WorkerOf DEF Workers, Configs, Lists
<1> DEFINE list == [old.copy.list EXCEPT !.refreshed = refreshed(ok)]
           copy == [old.copy EXCEPT !.list = list]
<1>5. w(ok) = [old EXCEPT !.at = "update", !.next = old.next + 1, !.result = "failed", !.ok = TRUE,
                   !.copy = copy, !.succeeded = succeeded(ok)]
  BY WorkerOf DEF Workers, Configs, Lists
<1> HIDE DEF w, succeeded, refreshed
<1>6. list \in Lists /\ Alike(list, old.copy.list)
  BY <1>4, WorkerOf DEF Workers, Configs, Lists, Alike
<1> HIDE DEF list
<1>7. copy \in Configs /\ copy.list = list /\ copy.marks = old.copy.marks
  BY <1>6, WorkerOf DEF Workers, Configs
<1> HIDE DEF copy
<1>8. /\ w(ok) \in Workers /\ w(ok).at = "update" /\ w(ok).wrote = old.wrote
      /\ w(ok).reload = old.reload /\ w(ok).copy = copy
  BY ZenonT(40), <1>3, <1>4, <1>5, <1>7, WorkerOf DEF Workers, Stages, Results
<1>9. \E l \in AllLists : Alike(w(ok).copy.list, l)
  BY <1>6, <1>7, <1>8, WorkerOf
<1>10. state' \in AllMarks /\ w(ok).copy.marks \in AllMarks
  BY <1>1, <1>7, <1>8, WorkerOf
<1> QED  BY <1>1, <1>2, <1>8, <1>9, <1>10, WorkerOf, WorkerKeeps

\* The end of an update: of the one whose token is current, loaded or not, or of one
\* that was revoked.
LEMMA FinishStep == \A u \in Updates : SubsInstance /\ SubsIInv /\ finishOnUiThread(u) => SubsIInv'
<1> SUFFICES ASSUME NEW u \in Updates, SubsInstance, SubsIInv, finishOnUiThread(u) PROVE SubsIInv'
  OBVIOUS
<1> DEFINE w == [NoWorker EXCEPT !.at = "over"]
<1>1. /\ ui = "idle" /\ worker[u].at = "done" /\ worker' = [worker EXCEPT ![u] = w]
      /\ UNCHANGED <<primary, state, begun, interrupted, issued, edits, liked>>
  BY DEF finishOnUiThread
<1>2. /\ w \in Workers /\ w.at = "over" /\ ~w.wrote
      /\ w.copy.list = EmptyList /\ w.copy.marks = {}
  BY Emptiness DEF NoWorker, Workers, Stages, Loaded
<1> HIDE DEF w
<1>3. worker'[u] = w /\ \A v \in Updates : v # u => worker'[v] = worker[v]
  BY <1>1 DEF SubsIInv, SubsTypeOK
<1>4. worker' \in [Updates -> Workers]
  BY <1>1, <1>2 DEF SubsIInv, SubsTypeOK
<1>5. u <= begun \/ worker'[u].at = "none"
  BY <1>1 DEF SubsIInv, Progress, SubsTypeOK, Updates, SubsInstance
<1>6. \/ /\ holder = u /\ holder' = None /\ ui' = "loadState" /\ ~apart' /\ apart' \in BOOLEAN
         /\ memory' = [list |-> primary, marks |-> {}]
         /\ told' = told \cup worker[u].succeeded
      \/ /\ holder = u /\ holder' = None /\ apart' = (apart \/ (worker[u].reload /\ worker[u].wrote))
         /\ UNCHANGED <<memory, ui, told>>
      \/ holder # u /\ UNCHANGED <<holder, memory, ui, told, apart>>
  BY DEF finishOnUiThread, Loaded, Reloads
<1>7. SubsTypeOK'
  <2>1. holder' \in 0..MaxUpdates /\ apart' \in BOOLEAN
    <3>1. holder' \in 0..MaxUpdates
      BY <1>6 DEF SubsIInv, SubsTypeOK, None, SubsInstance
    <3>2. apart \in BOOLEAN
      BY WorkerOf
    <3>3. (apart \/ (worker[u].reload /\ worker[u].wrote)) \in BOOLEAN
      OBVIOUS
    <3> QED  BY <1>6, <3>1, <3>2, <3>3
  <2>2. memory' \in Configs
    <3>1. [list |-> primary, marks |-> {}] \in Configs
      BY DEF Configs, SubsIInv, SubsTypeOK
    <3> QED  BY <1>6, <3>1, Memory
  <2>3. told' \subseteq Subs
    BY <1>6, WorkerOf DEF SubsIInv, SubsTypeOK, Workers
  <2>4. ui' \in {"idle", "saveState", "loadState"}
    BY <1>1, <1>6
  <2> QED  BY <1>1, <1>4, <2>1, <2>2, <2>3, <2>4 DEF SubsIInv, SubsTypeOK
<1>8. Sound(AllLists', AllMarks', issued', liked')
  <2>1. memory'.list \in AllLists /\ memory'.marks \in AllMarks
    BY <1>6 DEF AllLists, AllMarks
  <2>2. \A k \in AllLists' : k \in AllLists
    <3>1. \A v \in Updates : worker'[v].copy.list \in AllLists
      BY <1>2, <1>3 DEF AllLists
    <3>2. EmptyList \in AllLists /\ primary' \in AllLists
      BY <1>1 DEF AllLists
    <3>3. AllLists' = {EmptyList, memory'.list, primary'} \cup {worker'[v].copy.list : v \in Updates}
      BY DEF AllLists
    <3> QED  BY <2>1, <3>1, <3>2, <3>3
  <2>3. \A n \in AllMarks' : n \in AllMarks
    <3>1. \A v \in Updates : worker'[v].copy.marks \in AllMarks
      BY <1>2, <1>3 DEF AllMarks
    <3>2. {} \in AllMarks /\ state' \in AllMarks
      BY <1>1 DEF AllMarks
    <3>3. AllMarks' = {{}, memory'.marks, state'} \cup {worker'[v].copy.marks : v \in Updates}
      BY DEF AllMarks
    <3> QED  BY <2>1, <3>1, <3>2, <3>3
  <2> QED  BY <1>1, <2>2, <2>3, NothingNew DEF Alike
<1>9. Progress'
  <2>1. holder' <= begun'
    BY <1>1, <1>6 DEF SubsIInv, Progress, SubsTypeOK, None
  <2>2. ui' = "loadState" => holder' = None
    BY <1>1, <1>6
  <2>3. \A v \in Updates : \/ v = u /\ worker'[v].at = "over" /\ ~worker'[v].wrote
                           \/ worker'[v] = worker[v]
    BY <1>2, <1>3
  <2>4. ~ (u > begun')
    BY <1>1 DEF SubsIInv, Progress
  <2> QED  BY <1>1, <2>1, <2>2, <2>3, <2>4 DEF SubsIInv, Progress
<1>10. Agrees'
  <2>1. memory'.marks \subseteq Known(memory'.list)
    BY <1>6, Memory
  <2>2. ui' # "idle" => memory'.list = primary'
    BY <1>1, <1>6
  <2>3. ui' = "idle" /\ ~apart' /\ Clean' => memory' = Loaded(primary', state')
    <3>1. SUFFICES ASSUME ui' = "idle", ~apart', Clean' PROVE ~apart /\ memory' = memory /\ Clean
      BY <1>1 DEF SubsIInv, Agrees
    <3>2. ~apart /\ memory' = memory
      <4>1. ~ (ui' = "loadState")
        BY <3>1
      <4>2. CASE holder = u /\ apart' = (apart \/ (worker[u].reload /\ worker[u].wrote)) /\ memory' = memory
        BY <3>1, <4>2
      <4>3. CASE holder # u /\ memory' = memory /\ apart' = apart
        BY <3>1, <4>3
      <4> QED  BY <1>6, <4>1, <4>2, <4>3
    <3>3. CASE holder = u
      BY <1>6, <3>1, <3>3 DEF Clean, SubsIInv, Progress
    <3>4. CASE holder # u
      <4>1. holder' = holder
        BY <1>6, <3>4
      <4>2. holder \in Updates \/ holder = None
        BY DEF SubsIInv, SubsTypeOK, Updates, None, SubsInstance
      <4>3. CASE holder \in Updates
        <5>1. worker'[holder'] = worker[holder]
          BY <1>3, <3>4, <4>1, <4>3
        <5> QED  BY <3>1, <3>2, <4>1, <5>1 DEF Clean
      <4> QED  BY <3>2, <4>2, <4>3 DEF Clean
    <3> QED  BY <3>2, <3>3, <3>4
  <2> QED  BY <2>1, <2>2, <2>3 DEF Agrees, Known
<1> QED  BY <1>7, <1>8, <1>9, <1>10 DEF SubsIInv

LEMMA NextInvariant == SubsInstance /\ SubsIInv /\ [SubsNext]_subsVars => SubsIInv'
<1> SUFFICES ASSUME SubsInstance, SubsIInv, [SubsNext]_subsVars PROVE SubsIInv'
  OBVIOUS
<1>1. CASE UNCHANGED subsVars
  <2>1. AllLists' = AllLists /\ AllMarks' = AllMarks /\ Clean' = Clean
    BY <1>1 DEF subsVars, config, history, AllLists, AllMarks, Clean
  <2>2. SubsTypeOK' /\ Progress'
    BY <1>1 DEF subsVars, config, history, SubsIInv, SubsTypeOK, Progress
  <2>3. Sound(AllLists', AllMarks', issued', liked')
    BY <1>1, <2>1 DEF subsVars, config, history, SubsIInv
  <2>4. Agrees'
    BY <1>1, <2>1 DEF subsVars, config, history, SubsIInv, Agrees, Known
  <2> QED  BY <2>2, <2>3, <2>4 DEF SubsIInv
<1>2. CASE setServersFavorite
  BY <1>2, FavoriteStep
<1>3. CASE setDefaultServer
  BY <1>3, DefaultStep
<1>4. CASE removeServers
  BY <1>4, RemoveStep
<1>5. CASE persistUiState
  BY <1>5, PersistStep
<1>6. CASE SaveState
  BY <1>6, SaveStateStep
<1>7. CASE ReloadState
  BY <1>7, ReloadStateStep
<1>8. CASE updateByIds
  BY <1>8, BeginStep
<1>9. CASE ActivationBegins
  BY <1>9, ActivateStep
<1>10. CASE Crash
  BY <1>10, CrashStep
<1>11. CASE \E u \in Updates : Work(u)
  <2>1. PICK u \in Updates : Work(u)
    BY <1>11
  <2>2. CASE Load(u)
    BY <2>2, LoadStep
  <2>3. CASE LoadState(u)
    BY <2>3, LoadStateStep
  <2>4. CASE Batch(u)
    BY <2>4, BatchStep
  <2>5. CASE NotModified(u)
    BY <2>5, NotModifiedStep
  <2>6. CASE DownloadFails(u)
    BY <2>6, DownloadFailsStep
  <2>7. CASE Unparseable(u)
    BY <2>7, UnparseableStep
  <2>8. CASE Replace(u)
    BY <2>8, ReplaceStep
  <2>9. CASE SaveCopy(u)
    BY <2>9, SaveCopyStep
  <2>10. CASE SaveCopyState(u)
    BY <2>10, SaveCopyStateStep
  <2>11. CASE finishOnUiThread(u)
    BY <2>11, FinishStep
  <2> QED
    BY <2>1, <2>2, <2>3, <2>4, <2>5, <2>6, <2>7, <2>8, <2>9, <2>10, <2>11 DEF Work
<1> QED
  BY <1>1, <1>2, <1>3, <1>4, <1>5, <1>6, <1>7, <1>8, <1>9, <1>10, <1>11 DEF SubsNext

LEMMA Invariant == SubsInstance /\ SubsSpec => []SubsIInv
<1>1. SubsInstance /\ SubsInit => SubsIInv
  BY InitInvariant
<1>2. SubsInstance /\ SubsIInv /\ [SubsNext]_subsVars => SubsIInv'
  BY NextInvariant
<1>3. SubsInstance <=> []SubsInstance
  <2>1. SubsInstance => SubsInstance'
    BY DEF SubsInstance, Nodes, Subs
  <2> QED  BY <2>1, PTL
<1> QED  BY <1>1, <1>2, <1>3, PTL DEF SubsSpec

(***************************************************************************)
(* Theorems.                                                               *)
(***************************************************************************)
\* Memory, files and workers keep their types: identifiers stay within what was issued
\* and a worker's place within the subscriptions.
THEOREM SubsTypeCorrect == SubsInstance /\ SubsSpec => []SubsTypeOK
<1>1. SubsIInv => SubsTypeOK
  BY DEF SubsIInv
<1> QED  BY <1>1, Invariant, PTL

\* Whoever saves last, however old its copy is, and whichever file is lost: no server
\* has a mark (setServersFavorite) the user did not give it.
THEOREM MarkIsUsersAlways == SubsInstance /\ SubsSpec => []MarkIsUsers
BY InvariantMeans, Invariant, PTL

\* The default server is in the list beside it, in memory, on disk and in every copy
\* (removeServers, replaceSubscriptionServers).
THEOREM DefaultIsListedAlways == SubsInstance /\ SubsSpec => []DefaultIsListed
BY InvariantMeans, Invariant, PTL

\* Between updates the memory is what the files hold, unless a save or a load failed
\* or a revoked worker wrote (finishOnUiThread, beginActivation).
THEOREM MemoryIsOnDiskAlways == SubsInstance /\ SubsSpec => []MemoryIsOnDisk
BY InvariantMeans, Invariant, PTL
=================================================================================
