--------------------------- MODULE SubscriptionUpdate ---------------------------
(***************************************************************************)
(* The configuration and the updates of its subscriptions.  The user       *)
(* interface edits the configuration in memory and saves it as two files,  *)
(* one after the other; an update's worker loads a copy of its own, saves  *)
(* it after each subscription, and its end makes the interface load the    *)
(* files again.  A worker whose token was revoked is told to end, but what *)
(* it still writes is written over the other's.                            *)
(***************************************************************************)
EXTENDS Naturals, Sequences, FiniteSets

CONSTANTS Subscriptions, \* the subscriptions, in the order they are updated
          NodesOf,       \* the servers each of them can list
          MaxUpdates,    \* bound: updates begun
          MaxEdits,      \* bound: edits in the interface
          MaxIds         \* bound: identifiers given to servers

Subs == {Subscriptions[i] : i \in DOMAIN Subscriptions}
Nodes == UNION {NodesOf[s] : s \in Subs}
Updates == 1..MaxUpdates
None == 0
Absent == 0     \* the identifier of a server that is not in the list
Own == 1        \* the identifier of a server of the user's own, first in the list
Ids == 1..MaxIds

\* What the theorems assume of the constants: servers are numbered by their place in a
\* subscription, and the user's own server has its identifier.
SubsInstance == /\ Nodes \subseteq Nat /\ IsFiniteSet(Nodes)
                /\ Len(Subscriptions) \in Nat /\ DOMAIN Subscriptions = 1..Len(Subscriptions)
                /\ MaxUpdates \in Nat /\ MaxEdits \in Nat
                /\ MaxIds \in Nat \ {0}

VARIABLES memory,      \* config_ of the user interface
          primary,     \* the configuration file
          state,       \* the state file: the identifiers of marked servers
          ui,          \* what the UI thread does: idle, saveState, loadState
          holder,      \* the update whose token is current
          begun,       \* updates begun so far
          worker,      \* the worker of each update
          interrupted, \* workers told to end
          issued,      \* identifiers given so far (bound)
          edits,       \* edits so far (bound)
          liked,       \* servers the user marked (history)
          told,        \* subscriptions refreshed with no save failing (history)
          apart        \* memory and files may differ (history): a save or a
                       \* load failed, or a revoked worker wrote

config == <<memory, primary, state>>
history == <<issued, edits, liked, told>>
subsVars == <<config, ui, holder, begun, worker, interrupted, history, apart>>

\* What the configuration file holds; refreshed: the subscriptions that have the
\* headers and the time of their last success.
Lists == [ids : [Nodes -> {Absent} \cup Ids], default : Ids, refreshed : SUBSET Subs]
Configs == [list : Lists, marks : SUBSET Ids]
Stages == {"none", "load", "loadState", "update", "save", "saveState", "done", "over"}
Results == {"failed", "unchanged", "replaced"}
Workers == [at : Stages, copy : Configs, next : 1..Len(Subscriptions) + 1,
            result : Results, ok : BOOLEAN, succeeded : SUBSET Subs, reload : BOOLEAN,
            wrote : BOOLEAN]

Known(list) == {Own} \cup ({list.ids[n] : n \in Nodes} \ {Absent})

\* JsonConfigRepository::load of an intact pair of files: rows of servers that are
\* not in the list are ignored.
Loaded(list, marks) == [list |-> list, marks |-> marks \cap Known(list)]

EmptyList == [ids |-> [n \in Nodes |-> Absent], default |-> Own, refreshed |-> {}]
NoWorker == [at |-> "none", copy |-> Loaded(EmptyList, {}), next |-> 1, result |-> "failed",
             ok |-> TRUE, succeeded |-> {}, reload |-> FALSE, wrote |-> FALSE]

SubsTypeOK == /\ memory \in Configs /\ primary \in Lists /\ state \subseteq Ids
              /\ ui \in {"idle", "saveState", "loadState"}
              /\ holder \in 0..MaxUpdates /\ begun \in 0..MaxUpdates
              /\ worker \in [Updates -> Workers]
              /\ interrupted \subseteq Updates
              /\ issued \in Ids /\ edits \in 0..MaxEdits
              /\ liked \subseteq Nodes /\ told \subseteq Subs /\ apart \in BOOLEAN

SubsInit == /\ primary = EmptyList /\ state = {} /\ memory = Loaded(primary, state)
            /\ ui = "idle" /\ holder = None /\ begun = 0
            /\ worker = [u \in Updates |-> NoWorker] /\ interrupted = {}
            /\ issued = Own /\ edits = 0 /\ liked = {} /\ told = {} /\ apart = FALSE

(***************************************************************************)
(* The user interface.                                                     *)
(***************************************************************************)
\* Every service changes the memory first and then saves it; what is changed stays
\* when saving fails.  The two files are written even if the first one fails.
Edit(new) == \E ok \in BOOLEAN :
    /\ ui = "idle" /\ edits < MaxEdits
    /\ edits' = edits + 1
    /\ memory' = new
    /\ primary' = IF ok THEN new.list ELSE primary
    /\ ui' = "saveState"
    /\ apart' = ~ok
    /\ UNCHANGED <<state, holder, begun, worker, interrupted, issued, told>>

SaveState == \E ok \in BOOLEAN :
    /\ ui = "saveState"
    /\ state' = IF ok THEN memory.marks ELSE state
    /\ ui' = "idle"
    /\ apart' = (apart \/ ~ok)
    /\ UNCHANGED <<memory, primary, holder, begun, worker, interrupted, history>>

\* setServersFavorite, while no overlay covers the window.
setServersFavorite == \E n \in Nodes :
    /\ holder = None /\ memory.list.ids[n] # Absent
    /\ Edit([memory EXCEPT !.marks = @ \cup {memory.list.ids[n]}])
    /\ liked' = liked \cup {n}

setDefaultServer == \E id \in Known(memory.list) :
    /\ Edit([memory EXCEPT !.list.default = id])
    /\ UNCHANGED liked

\* removeServers: the default moves to the first server if its own is gone.
removeServers == \E n \in Nodes :
    /\ holder = None /\ memory.list.ids[n] # Absent
    /\ LET list == [memory.list EXCEPT !.ids[n] = Absent] IN
       Edit(Loaded([list EXCEPT !.default = IF @ \in Known(list) THEN @ ELSE Own], memory.marks))
    /\ UNCHANGED liked

\* persistUiState: of the switch's mode, the window, the end of the application.
persistUiState == Edit(memory) /\ UNCHANGED liked

\* beginActivation revokes the token and interrupts the workers.
ActivationBegins == /\ ui = "idle"
                    /\ holder' = None
                    /\ interrupted' = interrupted \cup {u \in Updates : worker[u].at \notin {"none", "done", "over"}}
                    /\ apart' = (apart \/ (holder # None /\ worker[holder].wrote))
                    /\ UNCHANGED <<config, ui, begun, worker, history>>

\* The application dies, whatever its threads did, and is started again.  A state
\* file that cannot be read counts as an empty one.
Crash == \E readable \in BOOLEAN :
    /\ memory' = Loaded(primary, IF readable THEN state ELSE {})
    /\ ui' = "idle" /\ holder' = None
    /\ worker' = [u \in Updates |-> IF u <= begun THEN [NoWorker EXCEPT !.at = "over"] ELSE NoWorker]
    /\ interrupted' = {}
    /\ told' = {}
    /\ apart' = ~readable
    /\ UNCHANGED <<primary, state, begun, issued, edits, liked>>

(***************************************************************************)
(* The worker of an update.                                                *)
(***************************************************************************)
Step(u, w) == /\ worker' = [worker EXCEPT ![u] = w]
              /\ UNCHANGED <<memory, ui, holder, begun, interrupted, edits, liked, told>>

updateByIds == /\ ui = "idle" /\ holder = None /\ begun < MaxUpdates
               /\ begun' = begun + 1 /\ holder' = begun'
               /\ worker' = [worker EXCEPT ![begun'].at = "load"]
               /\ UNCHANGED <<config, ui, interrupted, history, apart>>

\* A configuration that cannot be read ends the update.
Load(u) == /\ worker[u].at = "load"
           /\ \/ Step(u, [worker[u] EXCEPT !.at = "loadState", !.copy.list = primary])
              \/ Step(u, [worker[u] EXCEPT !.at = "done"])
           /\ UNCHANGED <<primary, state, issued, apart>>

LoadState(u) ==
    /\ worker[u].at = "loadState"
    /\ \E marks \in {state, {}} :
         Step(u, [worker[u] EXCEPT !.at = "update", !.copy = Loaded(@.list, marks), !.reload = TRUE])
    /\ UNCHANGED <<primary, state, issued, apart>>

Updating(u) == worker[u].at = "update" /\ worker[u].next <= Len(Subscriptions)
Sub(u) == Subscriptions[worker[u].next]

\* The batch is over, or is broken off by the interruption.
Batch(u) == /\ worker[u].at = "update"
            /\ worker[u].next > Len(Subscriptions) \/ u \in interrupted
            /\ Step(u, [worker[u] EXCEPT !.at = "done", !.copy = NoWorker.copy])
            /\ UNCHANGED <<primary, state, issued, apart>>

\* 304: what the server said is saved at once, whether that works or not.
NotModified(u) ==
    /\ Updating(u)
    /\ Step(u, [worker[u] EXCEPT !.at = "save", !.result = "unchanged",
                                 !.copy.list.refreshed = @ \cup {Sub(u)}])
    /\ UNCHANGED <<primary, state, issued, apart>>

\* Three attempts failed, the last of them possibly by the interruption itself: the
\* failure is counted in the copy, which is saved.
DownloadFails(u) ==
    /\ Updating(u)
    /\ Step(u, [worker[u] EXCEPT !.at = "save", !.result = "failed"])
    /\ UNCHANGED <<primary, state, issued, apart>>

\* Nothing the parser knows: the failures are forgotten in the copy.
Unparseable(u) ==
    /\ Updating(u) /\ u \notin interrupted
    /\ Step(u, [worker[u] EXCEPT !.next = @ + 1])
    /\ UNCHANGED <<primary, state, issued, apart>>

\* (slip) A new server takes the place of one that is gone, with its mark.
ReissuedInPlace(list, s, offered) ==
    LET gone == {list.ids[m] : m \in NodesOf[s] \ offered} \ {Absent} IN
    [n \in Nodes |-> IF n \notin NodesOf[s] THEN list.ids[n]
                     ELSE IF n \notin offered THEN Absent
                     ELSE IF list.ids[n] # Absent THEN list.ids[n]
                     ELSE IF gone # {} THEN CHOOSE id \in gone : TRUE
                     ELSE issued + Cardinality({m \in offered : list.ids[m] = Absent /\ m <= n})]

\* The identifiers after s is found to list `offered`: a server known before keeps
\* its own, with its mark; any other gets a new one.
Reissued(list, s, offered) ==
    [n \in Nodes |-> IF n \notin NodesOf[s] THEN list.ids[n]
                     ELSE IF n \notin offered THEN Absent
                     ELSE IF list.ids[n] # Absent THEN list.ids[n]
                     ELSE issued + Cardinality({m \in offered : list.ids[m] = Absent /\ m <= n})]

\* (slip) A default server that is gone gives way to the first place of the list.
FirstPlace(old, ids, offered) ==
    IF \E n \in Nodes : ids[n] = old.default THEN old.default
    ELSE IF \E n \in Nodes : old.ids[n] = old.default
    THEN ids[CHOOSE n \in Nodes : \A m \in Nodes : n <= m]
    ELSE old.default

\* A default server that is gone gives way to the first one offered.
NewDefault(old, ids, offered) ==
    IF \E n \in Nodes : ids[n] = old.default THEN old.default
    ELSE IF \E n \in Nodes : old.ids[n] = old.default
    THEN ids[CHOOSE n \in offered : \A m \in offered : n <= m]
    ELSE old.default

\* replaceSubscriptionServers, up to its save.
Replace(u) ==
    /\ Updating(u) /\ u \notin interrupted
    /\ \E offered \in (SUBSET NodesOf[Sub(u)]) \ {{}} :
       LET old == worker[u].copy
           ids == Reissued(old.list, Sub(u), offered)
           list == [old.list EXCEPT !.ids = ids, !.default = NewDefault(old.list, ids, offered)]
           new == Cardinality({n \in offered : old.list.ids[n] = Absent})
       IN /\ issued + new <= MaxIds
          /\ issued' = issued + new
          /\ Step(u, [worker[u] EXCEPT !.at = "save", !.result = "replaced",
                                       !.copy = Loaded(list, old.marks)])
    /\ UNCHANGED <<primary, state, apart>>

\* The worker's save, in two steps.
Writes(u) == apart' = (apart \/ holder # u)

SaveCopy(u) == \E ok \in BOOLEAN :
    /\ worker[u].at = "save"
    /\ Step(u, [worker[u] EXCEPT !.at = "saveState", !.ok = ok, !.wrote = TRUE])
    /\ primary' = IF ok THEN worker[u].copy.list ELSE primary
    /\ Writes(u)
    /\ UNCHANGED <<state, issued>>

\* After the save of a replacement, and only if it worked, updateSingle sets the
\* headers and the time of the success in the copy.
SaveCopyState(u) == \E ok \in BOOLEAN :
    /\ worker[u].at = "saveState"
    /\ LET w == worker[u]
           good == ok /\ w.ok /\ w.result # "failed"
       IN Step(u, [w EXCEPT !.at = "update", !.next = @ + 1, !.result = "failed", !.ok = TRUE,
                       !.copy.list.refreshed = IF good THEN @ \cup {Sub(u)} ELSE @,
                       !.succeeded = IF good THEN @ \cup {Sub(u)} ELSE @])
    /\ state' = IF ok THEN worker[u].copy.marks ELSE state
    /\ Writes(u)
    /\ UNCHANGED <<primary, issued>>

(***************************************************************************)
(* The end of an update, on the UI thread.                                 *)
(***************************************************************************)
\* (slip) The configuration is loaded again only after a full success.
ReloadsAfterSuccess(u) == worker[u].reload /\ worker[u].succeeded = Subs

Reloads(u) == worker[u].reload

\* finishOnUiThread: dropped when the token was revoked.  A configuration that
\* cannot be read leaves the one in memory.
finishOnUiThread(u) ==
    /\ ui = "idle" /\ worker[u].at = "done"
    /\ worker' = [worker EXCEPT ![u] = [NoWorker EXCEPT !.at = "over"]]
    /\ IF holder = u
       THEN /\ holder' = None
            /\ \/ /\ Reloads(u)
                  /\ memory' = Loaded(primary, {})
                  /\ ui' = "loadState" /\ apart' = FALSE
                  /\ told' = told \cup worker[u].succeeded
               \/ /\ apart' = (apart \/ (Reloads(u) /\ worker[u].wrote))
                  /\ UNCHANGED <<memory, ui, told>>
       ELSE UNCHANGED <<holder, memory, ui, told, apart>>
    /\ UNCHANGED <<primary, state, begun, interrupted, issued, edits, liked>>

ReloadState == \E readable \in BOOLEAN :
    /\ ui = "loadState"
    /\ memory' = Loaded(memory.list, IF readable THEN state ELSE {})
    /\ ui' = "idle"
    /\ apart' = (apart \/ ~readable)
    /\ UNCHANGED <<primary, state, holder, begun, worker, interrupted, history>>

Work(u) == \/ Load(u) \/ LoadState(u) \/ Batch(u) \/ NotModified(u) \/ DownloadFails(u)
           \/ Unparseable(u) \/ Replace(u) \/ SaveCopy(u) \/ SaveCopyState(u) \/ finishOnUiThread(u)

SubsNext == \/ setServersFavorite \/ setDefaultServer \/ removeServers \/ persistUiState
            \/ SaveState \/ ReloadState \/ updateByIds \/ ActivationBegins \/ Crash
            \/ \E u \in Updates : Work(u)

SubsSpec == SubsInit /\ [][SubsNext]_subsVars

(***************************************************************************)
(* Properties.                                                             *)
(***************************************************************************)
Copies == {memory, Loaded(primary, state)} \cup {worker[u].copy : u \in Updates}

\* A mark is on a server the user marked, in memory, in every worker's copy and in
\* what the two files hold together, of whatever age each of them is: identifiers
\* are reused by node and never given twice (replaceSubscriptionServers).
MarkIsUsers == \A c \in Copies, n \in Nodes : c.list.ids[n] \in c.marks => n \in liked

\* The default server is in the list it is saved with, and the user's own server is
\* never lost, whoever writes the files and whichever save or load fails.
DefaultIsListed == \A c \in Copies : c.list.default \in Known(c.list)

\* Between updates the memory is what the files hold, unless a save or a load failed
\* or a revoked worker wrote: an update that failed in part is loaded as well
\* (finishOnUiThread), and so is one the user edited during (tray, persistUiState).
MemoryIsOnDisk == ui = "idle" /\ holder = None /\ ~apart => memory = Loaded(primary, state)

\* (checked as a violation) A subscription that was reported as refreshed has its
\* headers and its refresh time when the update is over.
RefreshIsKept == ui = "idle" /\ holder = None /\ ~apart => \A s \in told : s \in memory.list.refreshed
=================================================================================
