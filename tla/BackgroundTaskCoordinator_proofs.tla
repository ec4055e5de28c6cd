-------------------- MODULE BackgroundTaskCoordinator_proofs --------------------
(***************************************************************************)
(* Proofs about BackgroundTaskCoordinator, for every set of jobs and kinds *)
(* and every number of activations.                                        *)
(***************************************************************************)
EXTENDS BackgroundTaskCoordinator, TLAPS

\* Grants are numbered: no token is ahead of the counter, and two tokens with the
\* same number are the same job's.  A job that was never granted has no number.
TokensNumbered ==
    /\ \A j \in Jobs : token[j].generation <= generation
    /\ \A j \in Jobs : status[j] \in {"idle", "refused"} => token[j] = NoToken
    /\ \A i, j \in Jobs : token[i].generation = token[j].generation
                          /\ token[i].generation # 0 => i = j

\* An empty slot has no number, and a taken slot has a holder.
SlotConsistent == /\ ~Busy => activeGeneration = 0
                  /\ BusyHasHolder

\* What an activation began is numbered by that activation.
IndInv == TypeOK /\ TokensNumbered /\ SlotConsistent /\ SlotBelongsToActivation

USE NoneAssumption, MaxActivationsAssumption

LEMMA InitIndInv == Init => IndInv
<1> SUFFICES ASSUME Init PROVE IndInv
  OBVIOUS
<1> USE DEF Init
<1>1. NoToken \in Token
  BY DEF Token, NoToken
<1>2. TypeOK
  <2>1. 0 \in 0..MaxActivations
    OBVIOUS
  <2>2. token \in [Jobs -> Token]
    BY <1>1
  <2>3. beganFor \in [Jobs -> 0..MaxActivations]
    BY <2>1
  <2>4. generation \in Nat /\ activeGeneration \in 0..generation
    OBVIOUS
  <2> QED  BY <2>1, <2>2, <2>3, <2>4 DEF TypeOK
<1>3. TokensNumbered
  BY DEF TokensNumbered, NoToken
<1>4. SlotConsistent /\ SlotBelongsToActivation
  BY DEF SlotConsistent, BusyHasHolder, Busy, SlotBelongsToActivation
<1> QED  BY <1>2, <1>3, <1>4 DEF IndInv

\* A job that is granted the free slot is its only holder afterwards.
LEMMA BeginPreserves ==
  ASSUME IndInv, NEW j \in Jobs, NEW kind \in Kinds, NEW scope \in Scopes, Begin(j, kind, scope)
  PROVE  IndInv'
<1> USE DEF IndInv
<1>1. TypeOK'
  <2>1. BegunFor(scope) \in 0..MaxActivations
    BY DEF BegunFor, TypeOK
  <2> QED BY <2>1 DEF Begin, TypeOK, Token
<1>2. TokensNumbered'
  BY DEF Begin, TypeOK, TokensNumbered, Token, NoToken
<1>3. Holds(j)'
  BY DEF Begin, TypeOK, Holds, IsCurrent, IsValid
<1>4. SlotConsistent'
  BY <1>3 DEF Begin, SlotConsistent, BusyHasHolder, Busy
<1>5. \A i \in Jobs : Holds(i)' => i = j
  BY <1>2, <1>3 DEF Holds, IsCurrent, IsValid, TokensNumbered
<1>6. SlotBelongsToActivation'
  <2>1. activating => BegunFor(scope) = activation
    BY DEF Begin, Blocked, BegunFor, Scopes
  <2> QED BY <1>5, <2>1 DEF Begin, SlotBelongsToActivation, TypeOK
<1> QED  BY <1>1, <1>2, <1>4, <1>6

LEMMA RefusePreserves ==
  ASSUME IndInv, NEW j \in Jobs, NEW scope \in Scopes, Refuse(j, scope)
  PROVE  IndInv'
<1> USE DEF IndInv, Refuse, slotVars
<1>1. TypeOK'
  BY DEF TypeOK
<1>2. TokensNumbered'
  BY DEF TypeOK, TokensNumbered
<1>3. \A i \in Jobs : Holds(i)' <=> Holds(i)
  BY DEF TypeOK, Holds, IsCurrent, IsValid
<1>4. SlotConsistent' /\ SlotBelongsToActivation'
  BY <1>3 DEF SlotConsistent, BusyHasHolder, Busy, SlotBelongsToActivation
<1> QED  BY <1>1, <1>2, <1>4

\* A completion frees the slot exactly when the job is its holder.
LEMMA CompletePreserves ==
  ASSUME IndInv, NEW j \in Jobs, Complete(j)
  PROVE  IndInv'
<1> USE DEF IndInv
<1>1. TypeOK'
  BY DEF Complete, Finish, slotVars, TypeOK
<1>2. TokensNumbered'
  BY DEF Complete, Finish, slotVars, TypeOK, TokensNumbered
<1>3. CASE IsCurrent(token[j])
  <2>1. activeKind' = None /\ activeGeneration' = 0
    BY <1>3 DEF Complete, Finish
  <2>2. \A i \in Jobs : ~Holds(i)'
    BY <2>1 DEF Holds, IsCurrent, IsValid
  <2> QED  BY <1>1, <1>2, <2>1, <2>2
           DEF SlotConsistent, BusyHasHolder, Busy, SlotBelongsToActivation
<1>4. CASE ~IsCurrent(token[j])
  <2>1. UNCHANGED <<slotVars, activating, activation, token, beganFor>>
    BY <1>4 DEF Complete, Finish
  <2>2. \A i \in Jobs : Holds(i)' <=> Holds(i)
    BY <1>4, <2>1 DEF Complete, TypeOK, Holds, IsCurrent, IsValid, slotVars
  <2> QED  BY <1>1, <1>2, <2>1, <2>2
           DEF SlotConsistent, BusyHasHolder, Busy, SlotBelongsToActivation, slotVars
<1> QED  BY <1>3, <1>4

\* An activation begins with a slot nobody holds.
LEMMA BeginActivationPreserves ==
  ASSUME IndInv, BeginActivation
  PROVE  IndInv'
<1> USE DEF IndInv, BeginActivation
<1>1. TypeOK'
  BY DEF CancelActive, slotVars, TypeOK
<1>2. TokensNumbered'
  BY DEF CancelActive, slotVars, TypeOK, TokensNumbered, Token
<1>3. activeKind' = None /\ activeGeneration' = 0
  BY DEF CancelActive, Busy, slotVars, SlotConsistent
<1>4. \A i \in Jobs : ~Holds(i)'
  BY <1>3 DEF Holds, IsCurrent, IsValid
<1> QED  BY <1>1, <1>2, <1>3, <1>4
         DEF SlotConsistent, BusyHasHolder, Busy, SlotBelongsToActivation

LEMMA EndActivationPreserves ==
  ASSUME IndInv, EndActivation
  PROVE  IndInv'
  BY DEF IndInv, EndActivation, slotVars, TypeOK, TokensNumbered, SlotConsistent,
         BusyHasHolder, Busy, SlotBelongsToActivation, Holds, IsCurrent, IsValid

LEMMA StutterPreserves ==
  ASSUME IndInv, UNCHANGED vars
  PROVE  IndInv'
  BY DEF IndInv, vars, TypeOK, TokensNumbered, SlotConsistent,
         BusyHasHolder, Busy, SlotBelongsToActivation, Holds, IsCurrent, IsValid

LEMMA Inductive == Spec => []IndInv
<1>1. IndInv /\ [Next]_vars => IndInv'
  BY BeginPreserves, RefusePreserves, CompletePreserves, BeginActivationPreserves,
     EndActivationPreserves, StutterPreserves DEF Next
<1> QED  BY InitIndInv, <1>1, PTL DEF Spec

\* Two running jobs never both find their token current.
LEMMA IndInvOneHolder == IndInv => OneHolder
  BY DEF IndInv, TokensNumbered, OneHolder, Holds, IsCurrent, IsValid

-------------------------------------------------------------------------------
\* Every variable keeps its type, whatever the clients do.
THEOREM TypeCorrect == Spec => []TypeOK
  BY Inductive, PTL DEF IndInv

\* A token is good for one grant: of all the workers that are out, at most one
\* finds its token current, so at most one result can be applied.
THEOREM OneHolderAlways == Spec => []OneHolder
  BY Inductive, IndInvOneHolder, PTL

\* A taken slot is always held by a job that can still give it back.
THEOREM BusyHasHolderAlways == Spec => []BusyHasHolder
  BY Inductive, PTL DEF IndInv, SlotConsistent

\* While the session activates, nothing holds the slot but what this activation began.
THEOREM SlotBelongsToActivationAlways == Spec => []SlotBelongsToActivation
  BY Inductive, PTL DEF IndInv

-------------------------------------------------------------------------------
\* The refinement: ownership, recognised by tokens, behaves like the abstract slot.

LEMMA OwnerIsHolder ==
  ASSUME IndInv
  PROVE  /\ \A j \in Jobs : Holds(j) => Owner = j
         /\ (\A j \in Jobs : ~Holds(j)) => Owner = None
         /\ Busy <=> Owner # None
<1>1. OneHolder
  BY IndInvOneHolder
<1>2. \A j \in Jobs : Holds(j) => Owner = j
  BY <1>1 DEF Owner, OneHolder
<1>3. (\A j \in Jobs : ~Holds(j)) => Owner = None
  BY DEF Owner
<1>4. \A j \in Jobs : Holds(j) => Busy
  BY DEF IndInv, Holds, IsCurrent, IsValid, Busy
<1>5. Busy => \E j \in Jobs : Holds(j)
  BY DEF IndInv, SlotConsistent, BusyHasHolder
<1> QED  BY <1>2, <1>3, <1>4, <1>5

LEMMA InitRefines == Init => Slot!Init
  BY DEF Init, Slot!Init, Owner, Holds

LEMMA BeginRefines ==
  ASSUME IndInv, IndInv', NEW j \in Jobs, NEW kind \in Kinds, NEW scope \in Scopes,
         Begin(j, kind, scope)
  PROVE  Slot!Acquire(j)
<1>1. Owner = None
  BY OwnerIsHolder DEF Begin, Busy
<1>2. Holds(j)'
  BY DEF IndInv, TypeOK, Begin, Holds, IsCurrent, IsValid
<1>3. OneHolder'
  BY IndInvOneHolder DEF IndInv, TypeOK, TokensNumbered, OneHolder, Holds, IsCurrent, IsValid
<1>4. Owner' = j
  BY <1>2, <1>3 DEF Owner, OneHolder
<1> QED  BY <1>1, <1>4 DEF Slot!Acquire, Begin

LEMMA RefuseRefines ==
  ASSUME IndInv, NEW j \in Jobs, NEW scope \in Scopes, Refuse(j, scope)
  PROVE  Slot!Refuse(j)
<1>1. \A i \in Jobs : Holds(i)' <=> Holds(i)
  BY DEF Refuse, slotVars, IndInv, TypeOK, Holds, IsCurrent, IsValid
<1>2. Owner' = Owner
  BY <1>1 DEF Owner
<1> QED  BY <1>2 DEF Refuse, Slot!Refuse

LEMMA CompleteRefines ==
  ASSUME IndInv, NEW j \in Jobs, Complete(j)
  PROVE  Slot!Apply(j) \/ Slot!Drop(j)
<1>1. CASE IsCurrent(token[j])
  <2>1. Owner = j
    BY <1>1, OwnerIsHolder DEF Complete, Holds
  <2>2. activeKind' = None
    BY <1>1 DEF Complete, Finish
  <2>3. Owner' = None
    BY <2>2 DEF Owner, Holds, IsCurrent, IsValid
  <2> QED  BY <1>1, <2>1, <2>3 DEF Complete, Slot!Apply
<1>2. CASE ~IsCurrent(token[j])
  <2>1. ~Holds(j)
    BY <1>2 DEF Holds
  <2>2. Owner # j
    BY <2>1 DEF Owner
  <2>3. \A i \in Jobs : Holds(i)' <=> Holds(i)
    BY <1>2 DEF Complete, Finish, slotVars, IndInv, TypeOK, Holds, IsCurrent, IsValid
  <2>4. Owner' = Owner
    BY <2>3 DEF Owner
  <2> QED  BY <1>2, <2>2, <2>4 DEF Complete, Slot!Drop
<1> QED  BY <1>1, <1>2

LEMMA BeginActivationRefines ==
  ASSUME IndInv, BeginActivation
  PROVE  Slot!Revoke \/ UNCHANGED Slot!vars
<1>1. activeKind' = None
  BY DEF BeginActivation, CancelActive, Busy, slotVars
<1>2. Owner' = None
  BY <1>1 DEF Owner, Holds, IsCurrent, IsValid
<1> QED  BY <1>2 DEF BeginActivation, Slot!Revoke, Slot!vars

LEMMA QuietRefines ==
  ASSUME IndInv, EndActivation \/ UNCHANGED vars
  PROVE  UNCHANGED Slot!vars
<1>1. \A i \in Jobs : Holds(i)' <=> Holds(i)
  BY DEF EndActivation, slotVars, vars, Holds, IsCurrent, IsValid
<1>2. Owner' = Owner
  BY <1>1 DEF Owner
<1> QED  BY <1>2 DEF EndActivation, vars, Slot!vars

\* The coordinator implements the abstract slot (its safety part): a result is
\* applied only by the owner, and a revoked job can only have its result dropped.
THEOREM SlotRefined == Spec => Slot!Init /\ [][Slot!Next]_(Slot!vars)
<1>1. IndInv /\ IndInv' /\ [Next]_vars => [Slot!Next]_(Slot!vars)
  BY BeginRefines, RefuseRefines, CompleteRefines, BeginActivationRefines, QuietRefines
     DEF Next, Slot!Next
<1> QED  BY InitRefines, Inductive, <1>1, PTL DEF Spec
===============================================================================
