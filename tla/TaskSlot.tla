------------------------------- MODULE TaskSlot -------------------------------
(***************************************************************************)
(* What the application promises about its one background-task slot: at    *)
(* most one job owns it, the result of a job is applied only while that    *)
(* job owns the slot, and a job whose ownership was revoked has its result *)
(* dropped.  Nothing is said of how ownership is recognised;               *)
(* BackgroundTaskCoordinator does it with tokens and implements this.      *)
(***************************************************************************)
CONSTANTS Jobs,     \* the jobs that ask for the slot
          NoJob     \* the owner of a free slot, not one of Jobs

VARIABLES owner,    \* the job that owns the slot, or NoJob
          status    \* what became of each job

vars == <<owner, status>>

Statuses == {"idle", "running", "refused", "applied", "dropped"}

Init == /\ owner = NoJob
        /\ status = [j \in Jobs |-> "idle"]

Acquire(j) == /\ status[j] = "idle"
              /\ owner = NoJob
              /\ owner' = j
              /\ status' = [status EXCEPT ![j] = "running"]

Refuse(j) == /\ status[j] = "idle"
             /\ status' = [status EXCEPT ![j] = "refused"]
             /\ UNCHANGED owner

Apply(j) == /\ status[j] = "running"
            /\ owner = j
            /\ owner' = NoJob
            /\ status' = [status EXCEPT ![j] = "applied"]

Drop(j) == /\ status[j] = "running"
           /\ owner # j
           /\ status' = [status EXCEPT ![j] = "dropped"]
           /\ UNCHANGED owner

Revoke == /\ owner # NoJob
          /\ owner' = NoJob
          /\ UNCHANGED status

Next == \/ \E j \in Jobs : Acquire(j) \/ Refuse(j) \/ Apply(j) \/ Drop(j)
        \/ Revoke

Spec == Init /\ [][Next]_vars /\ \A j \in Jobs : WF_vars(Apply(j) \/ Drop(j))
===============================================================================
