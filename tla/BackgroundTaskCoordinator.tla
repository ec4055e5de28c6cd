---------------------- MODULE BackgroundTaskCoordinator -----------------------
(***************************************************************************)
(* The single background-task slot (src/appcore/BackgroundTaskCoordinator) *)
(* and the way its clients use it.  A client asks for the slot, keeps the  *)
(* token it is handed, runs a worker thread, and back on the GUI thread    *)
(* applies the result only if that token is still the current one.  The    *)
(* proxy session revokes whatever holds the slot when it starts an         *)
(* activation.  Workers end in any order, so a revoked one answers while a *)
(* later job of the same kind holds the slot.                              *)
(***************************************************************************)
EXTENDS Naturals

CONSTANTS Jobs,            \* the requests made of the coordinator, each made once
          Kinds,           \* Kind without None: SpeedTest, CoreUpdate, GeoUpdate, ...
          None,            \* Kind::None, of an empty slot and of an invalid token
          MaxActivations   \* bound: how many activations the session begins

ASSUME NoneAssumption == None \notin Kinds \cup Jobs
ASSUME MaxActivationsAssumption == MaxActivations \in Nat

VARIABLES activeKind,        \* activeKind_
          generation,        \* generation_
          activeGeneration,  \* activeGeneration_
          activating,        \* the blocking predicate: ProxySession::isActivationInProgress()
          activation,        \* how many activations have begun
          status,            \* what became of each job
          token,             \* the token each job was handed
          beganFor           \* the activation that began a job for itself, 0 for a user's job

slotVars == <<activeKind, generation, activeGeneration>>
vars == <<activeKind, generation, activeGeneration, activating, activation,
          status, token, beganFor>>

Scopes == {"user", "startup"}
Token == [kind : Kinds \cup {None}, generation : Nat]
NoToken == [kind |-> None, generation |-> 0]

IsValid(t) == t.kind # None /\ t.generation # 0

\* (slip) a token recognised by its kind alone
IsCurrentByKind(t) == IsValid(t) /\ activeKind = t.kind

IsCurrent(t) == /\ IsValid(t)
                /\ activeKind = t.kind
                /\ activeGeneration = t.generation

-------------------------------------------------------------------------------
Init == /\ activeKind = None
        /\ generation = 0
        /\ activeGeneration = 0
        /\ activating = FALSE
        /\ activation = 0
        /\ status = [j \in Jobs |-> "idle"]
        /\ token = [j \in Jobs |-> NoToken]
        /\ beganFor = [j \in Jobs |-> 0]

\* (slip) the blocking predicate was never installed
NeverBlocked(scope) == FALSE

\* A user task is held off while the session is activating; a startup task is not.
Blocked(scope) == scope = "user" /\ activating

Busy == activeKind # None

\* A startup task is begun by the activation that is under way.
BegunFor(scope) == IF activating /\ scope = "startup" THEN activation ELSE 0

\* (slip) the new grant is numbered from the slot's last holder instead of the counter
BeginFromActive(j, kind, scope) ==
    /\ status[j] = "idle"
    /\ ~Blocked(scope)
    /\ ~Busy
    /\ activeKind' = kind
    /\ activeGeneration' = activeGeneration + 1
    /\ token' = [token EXCEPT ![j] = [kind |-> kind, generation |-> activeGeneration + 1]]
    /\ status' = [status EXCEPT ![j] = "running"]
    /\ beganFor' = [beganFor EXCEPT ![j] = BegunFor(scope)]
    /\ UNCHANGED <<generation, activating, activation>>

\* tryBegin, granted: the slot is taken under a generation never used before.
Begin(j, kind, scope) ==
    /\ status[j] = "idle"
    /\ ~Blocked(scope)
    /\ ~Busy
    /\ activeKind' = kind
    /\ generation' = generation + 1
    /\ activeGeneration' = generation + 1
    /\ token' = [token EXCEPT ![j] = [kind |-> kind, generation |-> generation + 1]]
    /\ status' = [status EXCEPT ![j] = "running"]
    /\ beganFor' = [beganFor EXCEPT ![j] = BegunFor(scope)]
    /\ UNCHANGED <<activating, activation>>

\* tryBegin, refused: the client gets an invalid token and gives up.
Refuse(j, scope) ==
    /\ status[j] = "idle"
    /\ Blocked(scope) \/ Busy
    /\ status' = [status EXCEPT ![j] = "refused"]
    /\ UNCHANGED <<slotVars, activating, activation, token, beganFor>>

\* finish: gives the slot back, but only for the token that holds it.
Finish(t) == IF IsCurrent(t)
             THEN /\ activeKind' = None
                  /\ activeGeneration' = 0
                  /\ UNCHANGED generation
             ELSE UNCHANGED slotVars

\* (slip) the completion returns before finish when a startup is under way
CompleteUnlessActivating(j) ==
    /\ status[j] = "running"
    /\ status' = [status EXCEPT ![j] = IF IsCurrent(token[j]) THEN "applied" ELSE "dropped"]
    /\ IF activating THEN UNCHANGED slotVars ELSE Finish(token[j])
    /\ UNCHANGED <<activating, activation, token, beganFor>>

\* The completion every client posts to the GUI thread when its worker ends.
Complete(j) ==
    /\ status[j] = "running"
    /\ status' = [status EXCEPT ![j] = IF IsCurrent(token[j]) THEN "applied" ELSE "dropped"]
    /\ Finish(token[j])
    /\ UNCHANGED <<activating, activation, token, beganFor>>

\* cancelActive: whoever holds the slot loses it, and its token with it.
CancelActive == IF Busy
                THEN /\ activeKind' = None
                     /\ activeGeneration' = 0
                     /\ generation' = generation + 1
                ELSE UNCHANGED slotVars

\* beginActivation of a session that is not activating yet.  A resumed start is
\* still activating and takes nothing away.
BeginActivation ==
    /\ ~activating
    /\ activation < MaxActivations
    /\ CancelActive
    /\ activating' = TRUE
    /\ activation' = activation + 1
    /\ UNCHANGED <<status, token, beganFor>>

\* The session reaches Proxying, Stopping or Stopped; a job begun by the
\* activation, such as the download of a missing core, keeps the slot.
EndActivation ==
    /\ activating
    /\ activating' = FALSE
    /\ UNCHANGED <<slotVars, activation, status, token, beganFor>>

Next == \/ \E j \in Jobs, scope \in Scopes :
               (\E kind \in Kinds : Begin(j, kind, scope)) \/ Refuse(j, scope)
        \/ \E j \in Jobs : Complete(j)
        \/ BeginActivation
        \/ EndActivation

\* A worker thread ends: its service call has a timeout, and its completion is queued.
Fairness == \A j \in Jobs : WF_vars(Complete(j))

Spec == Init /\ [][Next]_vars /\ Fairness

-------------------------------------------------------------------------------
Holds(j) == status[j] = "running" /\ IsCurrent(token[j])

TypeOK == /\ activeKind \in Kinds \cup {None}
          /\ generation \in Nat
          /\ activeGeneration \in 0..generation
          /\ activating \in BOOLEAN
          /\ activation \in 0..MaxActivations
          /\ status \in [Jobs -> {"idle", "running", "refused", "applied", "dropped"}]
          /\ token \in [Jobs -> Token]
          /\ beganFor \in [Jobs -> 0..MaxActivations]

\* A token names one grant: of all the jobs whose workers are out, no two can
\* both find theirs current (isCurrent, finish).
OneHolder == \A i, j \in Jobs : Holds(i) /\ Holds(j) => i = j

\* A slot that is taken is taken by a job whose worker is still out, so there is
\* always somebody left to give it back (tryBegin, finish, cancelActive).
BusyHasHolder == Busy => \E j \in Jobs : Holds(j)

\* While the proxy session activates, the slot is free or held by a job that this
\* very activation began: never by a user's update, nor by the leftover of an
\* earlier activation (cancelBackgroundTasksForProxyStartup, the blocking predicate).
SlotBelongsToActivation ==
    activating => \A j \in Jobs : Holds(j) => beganFor[j] = activation

\* The slot does not stay taken: the owner finishes or an activation takes it away.
SlotFreed == Busy ~> ~Busy

Owner == IF \E j \in Jobs : Holds(j) THEN CHOOSE j \in Jobs : Holds(j) ELSE None

Slot == INSTANCE TaskSlot WITH NoJob <- None, owner <- Owner

\* The coordinator implements the slot: acceptance and refusal of results go by
\* ownership alone, whatever order the workers end in.
ImplementsSlot == Slot!Spec
===============================================================================
