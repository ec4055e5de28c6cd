------------------------ MODULE WatchAndFailover_proofs ------------------------
(***************************************************************************)
(* Proofs about the two services that look after a session that is up:     *)
(* HealthWatch, for every threshold and every number of workers that       *)
(* outlive the activation they were sent for; and GroupFailover, for any   *)
(* group, any latencies and any batches of the user's.                     *)
(***************************************************************************)
EXTENDS HealthWatch, GroupFailover, WellFoundedInduction, TLAPS

(***************************************************************************)
(* The health watch.                                                       *)
(***************************************************************************)
\* A flag that says a worker is out is true of some worker, and no session leaves the
\* watch's flag behind.
FlagsAreTrue == /\ watchInProgress => \E a \in BOOLEAN : probes[a] > 0
                /\ recheckInProgress => \E a \in BOOLEAN : rechecks[a] > 0
                /\ ~up => ~watchInProgress

HealthIInv == HealthTypeOK /\ FlagsAreTrue /\ WatchGoesOn /\ WaiverCanEnd

LEMMA HealthInitIInv == ASSUME Numbers, HealthInit PROVE HealthIInv
<1> USE DEF Numbers, HealthInit
<1>1. HealthTypeOK
  <2>1. 0 \in 0..FailuresBeforeWarn /\ 0 \in 0..MaxOut
    OBVIOUS
  <2>2. probes \in [BOOLEAN -> 0..MaxOut] /\ rechecks \in [BOOLEAN -> 0..MaxOut]
    BY <2>1
  <2>3. /\ up \in BOOLEAN /\ closing \in BOOLEAN /\ watchTimer \in BOOLEAN /\ watchInProgress \in BOOLEAN
        /\ recheckTimer \in BOOLEAN /\ recheckInProgress \in BOOLEAN
        /\ waived \in BOOLEAN /\ warned \in BOOLEAN /\ text \in Texts
    BY DEF Texts
  <2> QED  BY <2>1, <2>2, <2>3 DEF HealthTypeOK
<1>2. FlagsAreTrue /\ WatchGoesOn /\ WaiverCanEnd
  BY DEF FlagsAreTrue, WatchGoesOn, WaiverCanEnd
<1> QED  BY <1>1, <1>2 DEF HealthIInv

LEMMA RecordType ==
  ASSUME Numbers, HealthTypeOK, NEW r \in BOOLEAN, recordResult(r)
  PROVE  /\ failures' \in 0..FailuresBeforeWarn /\ warned' \in BOOLEAN /\ text' \in Texts
         /\ text' = "waived" => text = "waived"
BY DEF Numbers, HealthTypeOK, recordResult, Warns, Texts

\* One more or one less of the workers that carry an answer.
LEMMA Counted ==
  ASSUME Numbers, NEW f \in [BOOLEAN -> 0..MaxOut], NEW a \in BOOLEAN
  PROVE  /\ f[a] < MaxOut => /\ [f EXCEPT ![a] = @ + 1] \in [BOOLEAN -> 0..MaxOut]
                             /\ [f EXCEPT ![a] = @ + 1][a] > 0
         /\ f[a] > 0 => [f EXCEPT ![a] = @ - 1] \in [BOOLEAN -> 0..MaxOut]
<1>1. f[a] \in 0..MaxOut
  OBVIOUS
<1>2. f[a] < MaxOut => f[a] + 1 \in 0..MaxOut /\ f[a] + 1 > 0
  BY <1>1 DEF Numbers
<1>3. f[a] > 0 => f[a] - 1 \in 0..MaxOut
  BY <1>1 DEF Numbers
<1> QED  BY <1>2, <1>3

\* The answer to a probe of the node restarts the timer of the session that is up,
\* whichever activation sent it.
LEMMA FinishWatchPreserves ==
  ASSUME Numbers, HealthIInv, NEW r \in BOOLEAN, finishWatch(r)
  PROVE  HealthIInv'
<1> USE DEF HealthIInv, finishWatch, recheck
<1>1. probes' \in [BOOLEAN -> 0..MaxOut]
  BY Counted DEF HealthTypeOK
<1>2. /\ failures' \in 0..FailuresBeforeWarn /\ warned' \in BOOLEAN /\ text' \in Texts
      /\ text' = "waived" => text = "waived"
  <2>1. CASE closing \/ ~up
    BY <2>1 DEF HealthTypeOK, policy
  <2>2. CASE ~(closing \/ ~up)
    <3>1. recordResult(r)
      BY <2>2
    <3> QED  BY <3>1, RecordType
  <2> QED  BY <2>1, <2>2
<1>3. watchTimer' \in BOOLEAN
  BY DEF HealthTypeOK
<1>4. HealthTypeOK'
  BY <1>1, <1>2, <1>3 DEF HealthTypeOK
<1>5. FlagsAreTrue' /\ WatchGoesOn' /\ WaiverCanEnd'
  BY <1>2 DEF FlagsAreTrue, WatchGoesOn, WaiverCanEnd, HealthTypeOK
<1> QED  BY <1>4, <1>5

\* The answer to a recheck either takes the warning back or starts the timer again.
LEMMA FinishRecheckPreserves ==
  ASSUME Numbers, HealthIInv, NEW r \in BOOLEAN, finishDirectRecheck(r)
  PROVE  HealthIInv'
<1> USE DEF HealthIInv, finishDirectRecheck, watch, policy
<1>1. rechecks' \in [BOOLEAN -> 0..MaxOut]
  BY Counted DEF HealthTypeOK
<1>2. HealthTypeOK'
  BY <1>1 DEF HealthTypeOK, Texts
<1>3. FlagsAreTrue' /\ WatchGoesOn' /\ WaiverCanEnd'
  BY DEF FlagsAreTrue, WatchGoesOn, WaiverCanEnd, HealthTypeOK
<1> QED  BY <1>2, <1>3

\* A timer that fires sends a worker, unless one is out already.
LEMMA RunWatchPreserves == ASSUME Numbers, HealthIInv, runWatch PROVE HealthIInv'
<1> USE DEF HealthIInv, runWatch, recheck, policy
<1>1. probes' \in [BOOLEAN -> 0..MaxOut] /\ watchInProgress' \in BOOLEAN
  <2>1. CASE closing \/ ~up \/ watchInProgress
    BY <2>1 DEF HealthTypeOK
  <2>2. CASE ~(closing \/ ~up \/ watchInProgress)
    <3>1. /\ node \in BOOLEAN /\ probes \in [BOOLEAN -> 0..MaxOut]
          /\ probes[node] < MaxOut /\ probes' = [probes EXCEPT ![node] = @ + 1]
      BY <2>2 DEF HealthTypeOK
    <3>2. probes' \in [BOOLEAN -> 0..MaxOut]
      BY <3>1, Counted
    <3> QED  BY <2>2, <3>2
  <2> QED  BY <2>1, <2>2
<1>2. HealthTypeOK'
  BY <1>1 DEF HealthTypeOK
<1>3. watchInProgress' => \E a \in BOOLEAN : probes'[a] > 0
  BY Counted DEF HealthTypeOK, FlagsAreTrue
<1>4. FlagsAreTrue' /\ WatchGoesOn' /\ WaiverCanEnd'
  BY <1>3 DEF FlagsAreTrue, WatchGoesOn, WaiverCanEnd, HealthTypeOK
<1> QED  BY <1>2, <1>4

LEMMA RunRecheckPreserves == ASSUME Numbers, HealthIInv, runDirectRecheck PROVE HealthIInv'
<1> USE DEF HealthIInv, runDirectRecheck, watch, policy
<1>1. rechecks' \in [BOOLEAN -> 0..MaxOut] /\ recheckInProgress' \in BOOLEAN
  <2>1. CASE ~waived \/ closing \/ ~up \/ recheckInProgress
    BY <2>1 DEF HealthTypeOK
  <2>2. CASE ~(~waived \/ closing \/ ~up \/ recheckInProgress)
    <3>1. /\ network \in BOOLEAN /\ rechecks \in [BOOLEAN -> 0..MaxOut]
          /\ rechecks[network] < MaxOut /\ rechecks' = [rechecks EXCEPT ![network] = @ + 1]
      BY <2>2 DEF HealthTypeOK
    <3>2. rechecks' \in [BOOLEAN -> 0..MaxOut]
      BY <3>1, Counted
    <3> QED  BY <2>2, <3>2
  <2> QED  BY <2>1, <2>2
<1>2. HealthTypeOK'
  BY <1>1 DEF HealthTypeOK
<1>3. recheckInProgress' => \E a \in BOOLEAN : rechecks'[a] > 0
  BY Counted DEF HealthTypeOK, FlagsAreTrue
<1>4. up /\ ~closing /\ text = "waived" => recheckInProgress'
  BY DEF WaiverCanEnd
<1>5. FlagsAreTrue' /\ WatchGoesOn' /\ WaiverCanEnd'
  BY <1>3, <1>4 DEF FlagsAreTrue, WatchGoesOn, WaiverCanEnd, HealthTypeOK
<1> QED  BY <1>2, <1>5

\* The phase changes of the session, and the two others that clear the text.
LEMMA PhasePreserves ==
  ASSUME Numbers, HealthIInv,
         Enter \/ EnterWaived \/ Leave \/ Cleared \/ LocationUnavailable \/ SameServerChosen
  PROVE  HealthIInv'
<1> USE DEF HealthIInv, notifyFreshActivation, arm, cancel, reset, watch, recheck, policy
<1>1. CASE Enter \/ EnterWaived
  <2>1. /\ 0 \in 0..FailuresBeforeWarn
        /\ "none" \in Texts /\ "waived" \in Texts
    BY DEF Numbers, Texts
  <2>2. HealthTypeOK'
    BY <1>1, <2>1 DEF HealthTypeOK, Enter, EnterWaived
  <2>3. FlagsAreTrue' /\ WatchGoesOn' /\ WaiverCanEnd'
    BY <1>1 DEF FlagsAreTrue, WatchGoesOn, WaiverCanEnd, Enter, EnterWaived
  <2> QED  BY <2>2, <2>3
<1>2. CASE Leave
  <2>1. 0 \in 0..FailuresBeforeWarn
    BY DEF Numbers
  <2>2. HealthTypeOK'
    BY <1>2, <2>1 DEF HealthTypeOK, Leave
  <2>3. FlagsAreTrue' /\ WatchGoesOn' /\ WaiverCanEnd'
    BY <1>2 DEF FlagsAreTrue, WatchGoesOn, WaiverCanEnd, Leave
  <2> QED  BY <2>2, <2>3
<1>3. CASE Cleared \/ LocationUnavailable \/ SameServerChosen
  <2>1. HealthTypeOK'
    BY <1>3 DEF HealthTypeOK, Texts, Cleared, LocationUnavailable, SameServerChosen
  <2>2. FlagsAreTrue' /\ WatchGoesOn' /\ WaiverCanEnd'
    BY <1>3 DEF FlagsAreTrue, WatchGoesOn, WaiverCanEnd, Cleared, LocationUnavailable, SameServerChosen
  <2> QED  BY <2>1, <2>2
<1> QED  BY <1>1, <1>2, <1>3

LEMMA HealthNextPreserves == ASSUME Numbers, HealthIInv, [HealthNext]_healthVars PROVE HealthIInv'
<1>1. ASSUME NEW a \in BOOLEAN, finishWatch(a) \/ finishDirectRecheck(a) PROVE HealthIInv'
  BY <1>1, FinishWatchPreserves, FinishRecheckPreserves
<1>2. CASE World
  <2>1. /\ node' \in BOOLEAN /\ network' \in BOOLEAN
        /\ UNCHANGED <<up, closing, watchTimer, watchInProgress, recheckTimer, recheckInProgress,
                       waived, failures, warned, text, probes, rechecks>>
    BY <1>2 DEF World, HealthIInv, HealthTypeOK, watch, recheck, policy
  <2>2. HealthTypeOK'
    BY <2>1 DEF HealthIInv, HealthTypeOK
  <2>3. FlagsAreTrue' /\ WatchGoesOn' /\ WaiverCanEnd'
    BY <2>1 DEF HealthIInv, FlagsAreTrue, WatchGoesOn, WaiverCanEnd
  <2> QED  BY <2>2, <2>3 DEF HealthIInv
<1>3. CASE Shutdown
  BY <1>3 DEF Shutdown, HealthIInv, HealthTypeOK, FlagsAreTrue, WatchGoesOn, WaiverCanEnd, watch, recheck, policy
<1>4. CASE UNCHANGED healthVars
  BY <1>4 DEF healthVars, HealthIInv, HealthTypeOK, FlagsAreTrue, WatchGoesOn, WaiverCanEnd, watch, recheck, policy
<1> QED  BY <1>1, <1>2, <1>3, <1>4, PhasePreserves, RunWatchPreserves, RunRecheckPreserves
         DEF HealthNext, Answers

LEMMA HealthIInvAlways == ASSUME Numbers PROVE HealthSpec => []HealthIInv
<1>1. HealthInit => HealthIInv
  BY HealthInitIInv
<1>2. HealthIInv /\ [HealthNext]_healthVars => HealthIInv'
  BY HealthNextPreserves
<1> QED  BY <1>1, <1>2, PTL DEF HealthSpec

\* Every variable keeps its type; the policy's count never passes the threshold and no
\* answer is taken that was not sent.
THEOREM HealthTypeCorrect == ASSUME Numbers PROVE HealthSpec => []HealthTypeOK
<1>1. HealthIInv => HealthTypeOK
  BY DEF HealthIInv
<1> QED  BY <1>1, HealthIInvAlways, PTL

\* The watch of a session that is up never stops, however many probes of earlier
\* sessions are out when it begins.
THEOREM WatchGoesOnAlways == ASSUME Numbers PROVE HealthSpec => []WatchGoesOn
<1>1. HealthIInv => WatchGoesOn
  BY DEF HealthIInv
<1> QED  BY <1>1, HealthIInvAlways, PTL

\* The warning that this machine has no network always has somebody who can take it
\* back, however many rechecks overlap.
THEOREM WaiverCanEndAlways == ASSUME Numbers PROVE HealthSpec => []WaiverCanEnd
<1>1. HealthIInv => WaiverCanEnd
  BY DEF HealthIInv
<1> QED  BY <1>1, HealthIInvAlways, PTL

(***************************************************************************)
(* The switch within a group.                                              *)
(***************************************************************************)
\* The slot is the speed test's exactly while the batch that runs holds its token, and
\* a batch loses its token exactly when it is told to end.
SlotOwned == /\ slot = "speedtest" <=> batch.owns
             /\ batch.kind # "none" => (batch.owns <=> ~batch.cancelled)
             /\ batch.kind = "none" => ~batch.owns

\* The session as the coordinator sees it.
Session == /\ session \in {"off", "activating", "proxying", "stopping"}
           /\ mode \in BOOLEAN /\ forced \in BOOLEAN
           /\ current \in Servers
           /\ postSwitch \in Servers \cup {NoServer} /\ resume \in Servers \cup {NoServer}
           /\ switches \in Nat /\ SwitchesAreBounded

\* The batch, the slot and the results.
Books == /\ slot \in {"free", "speedtest", "other"}
         /\ batch \in Batches
         /\ unsaved \in BOOLEAN /\ dirty \in BOOLEAN /\ saveFailed \in BOOLEAN
         /\ SlotOwned /\ ResultsReachDisk

\* What the coordinator remembers and waits for.
Waits == /\ enabled \in BOOLEAN /\ pending \in BOOLEAN /\ decide \in BOOLEAN
         /\ warm \in [Members -> {NoAnswer, Down} \cup Latencies]
         /\ ProbeIsAnswered

FailoverIInv == Session /\ Books /\ Waits /\ NoBatchBesideActivation

LEMMA IInvImplies == ASSUME FailoverInstance, FailoverIInv PROVE FailoverTypeOK
<1>1. switches \in 0..Len(Group)
  BY DEF FailoverInstance, FailoverIInv, Session, SwitchesAreBounded
<1> QED  BY <1>1 DEF FailoverIInv, Session, Books, Waits, FailoverTypeOK

(***************************************************************************)
(* The choice of the target.                                               *)
(***************************************************************************)
LEMMA LessThanWellFounded == IsWellFoundedOn({p \in Nat \X Nat : p[1] < p[2]}, Nat)
BY NatLessThanWellFounded DEF OpToRel

LEMMA LeastNumber ==
  ASSUME NEW T \in SUBSET Nat, T # {}
  PROVE  \E x \in T : \A y \in T : x <= y
<1> DEFINE R == {p \in Nat \X Nat : p[1] < p[2]}
<1>1. PICK x \in T : \A y \in T : ~ (<<y, x>> \in R)
  <2> HIDE DEF R
  <2>1. IsWellFoundedOn(R, Nat)
    BY LessThanWellFounded DEF R
  <2> QED  BY <2>1, WFMin
<1>2. ASSUME NEW y \in T PROVE x <= y
  <2>1. <<y, x>> \in Nat \X Nat /\ <<y, x>> \notin R
    BY <1>1
  <2>2. ~ (y < x)
    BY <2>1
  <2> QED  BY <2>2
<1> QED  BY <1>2

\* The warm choice is a member other than the one that failed, if anybody answered.
LEMMA WarmTarget ==
  ASSUME FailoverInstance, Waits
  PROVE  pickWarmSwitchTarget \in Members \cup {NoServer}
<1>1. CASE Reachable = {}
  BY <1>1 DEF pickWarmSwitchTarget
<1>2. CASE Reachable # {}
  <2> DEFINE L(i) == warm[Group[i]]
  <2>1. Reachable \subseteq 1..Len(Group) /\ \A i \in Reachable : L(i) \in Nat
    BY DEF Reachable, FailoverInstance, Latencies
  <2>2. PICK l \in {L(i) : i \in Reachable} : \A k \in {L(i) : i \in Reachable} : l <= k
    <3>1. {L(i) : i \in Reachable} \in SUBSET Nat /\ {L(i) : i \in Reachable} # {}
      BY <1>2, <2>1
    <3> HIDE DEF L
    <3> QED  BY <3>1, LeastNumber
  <2>3. PICK i \in {j \in Reachable : L(j) = l} : \A k \in {j \in Reachable : L(j) = l} : i <= k
    <3>1. {j \in Reachable : L(j) = l} \in SUBSET Nat /\ {j \in Reachable : L(j) = l} # {}
      <4>1. \A j \in Reachable : j \in Nat
        BY <2>1 DEF FailoverInstance
      <4>2. PICK j \in Reachable : l = L(j)
        BY <2>2
      <4> HIDE DEF L
      <4> QED  BY <4>1, <4>2
    <3> HIDE DEF L
    <3> QED  BY <3>1, LeastNumber
  <2>4. i \in Reachable /\ \A j \in Reachable : L(i) < L(j) \/ (L(i) = L(j) /\ i <= j)
    <3>1. \A j \in Reachable : L(i) <= L(j) /\ (L(j) = L(i) => i <= j)
      BY <2>2, <2>3
    <3> HIDE DEF L
    <3> QED  BY <2>1, <2>3, <3>1
  <2>5. (CHOOSE k \in Reachable : \A j \in Reachable :
           L(k) < L(j) \/ (L(k) = L(j) /\ k <= j)) \in Reachable
    BY <2>4
  <2> QED  BY <1>2, <2>1, <2>5 DEF pickWarmSwitchTarget, Members, FailoverInstance
<1> QED  BY <1>1, <1>2

LEMMA RoundRobinTarget ==
  ASSUME FailoverInstance, InGroup
  PROVE  roundRobinFallback \in Members
<1>1. FailedIndex \in 1..Len(Group)
  BY DEF InGroup, Members, FailedIndex, FailoverInstance
<1>2. (FailedIndex % Len(Group)) + 1 \in 1..Len(Group)
  BY <1>1 DEF FailoverInstance
<1> QED  BY <1>2 DEF roundRobinFallback, Members, FailoverInstance

(***************************************************************************)
(* Batches.                                                                *)
(***************************************************************************)
\* What an activation leaves of the batch that runs: nothing, or one told to end, and
\* no results that nobody will save.
LEMMA CancelBackgroundEnds ==
  ASSUME Books, CancelBackground
  PROVE  /\ Books' /\ batch'.kind = batch.kind
         /\ batch.kind # "none" => batch'.cancelled
<1> USE DEF Books
<1>1. CASE slot = "speedtest"
  <2>1. /\ batch' = [batch EXCEPT !.cancelled = TRUE, !.owns = FALSE]
        /\ dirty' = FALSE /\ slot' = "free"
        /\ \/ unsaved' = unsaved /\ saveFailed' = saveFailed /\ ~dirty
           \/ unsaved' \in BOOLEAN /\ saveFailed' = unsaved'
    BY <1>1 DEF CancelBackground, Save
  <2>2. batch' \in Batches /\ batch'.kind = batch.kind /\ batch'.cancelled /\ ~batch'.owns
    BY <2>1 DEF Batches
  <2>3. ResultsReachDisk' /\ unsaved' \in BOOLEAN /\ saveFailed' \in BOOLEAN
    BY <2>1 DEF ResultsReachDisk
  <2> QED  BY <2>1, <2>2, <2>3 DEF SlotOwned
<1>2. CASE slot # "speedtest"
  <2>1. /\ batch' = batch /\ unsaved' = unsaved /\ dirty' = dirty /\ saveFailed' = saveFailed
        /\ slot' = "free"
    BY <1>2 DEF CancelBackground, results
  <2> QED  BY <1>2, <2>1 DEF SlotOwned, ResultsReachDisk
<1> QED  BY <1>1, <1>2

\* A batch begins when none runs, so there is nothing it could take over.
LEMMA StartBatchOwns ==
  ASSUME Books, CanBegin, NEW kind \in {"user", "warm", "failover"}, NEW todo \in SUBSET Servers,
         StartBatch(kind, todo), unsaved' = unsaved, saveFailed' = saveFailed, dirty' \in BOOLEAN
  PROVE  Books' /\ batch'.kind = kind
<1>1. /\ batch' = [kind |-> kind, todo |-> todo, owns |-> TRUE, cancelled |-> FALSE]
      /\ slot' = "speedtest"
  BY DEF StartBatch
<1>2. batch' \in Batches /\ batch'.owns /\ ~batch'.cancelled /\ batch'.kind = kind
  BY <1>1 DEF Batches
<1>3. ResultsReachDisk'
  BY DEF Books, ResultsReachDisk, CanBegin
<1> QED  BY <1>1, <1>2, <1>3 DEF Books, SlotOwned

(***************************************************************************)
(* Switches and failures.                                                  *)
(***************************************************************************)
\* An activation leaves no batch that was not told to end.
LEMMA ActivatePreserves ==
  ASSUME Books, NEW asked \in BOOLEAN, Activate(asked)
  PROVE  /\ Books' /\ NoBatchBesideActivation' /\ batch'.kind = batch.kind
         /\ session' = "activating" /\ mode' \in BOOLEAN /\ forced' \in BOOLEAN
BY CancelBackgroundEnds DEF Activate, NoBatchBesideActivation

\* One switch more, and only below the ceiling.
LEMMA ExecuteSwitchPreserves ==
  ASSUME FailoverInstance, FailoverIInv, NEW target \in Members, NEW down \in {"off", "stopping"},
         Len(Group) >= 2, ~reachedSwitchCeiling, executeSwitch(target, down), resume' = resume
  PROVE  Session' /\ Books' /\ NoBatchBesideActivation' /\ batch'.kind = batch.kind
<1>1. switches' \in Nat /\ SwitchesAreBounded'
  BY DEF executeSwitch, reachedSwitchCeiling, FailoverInstance, FailoverIInv, Session, SwitchesAreBounded
<1>2. target \in Servers
  BY DEF Servers
<1>3. CASE down = "stopping"
  <2>1. /\ postSwitch' = target /\ session' = "stopping" /\ mode' = FALSE
        /\ UNCHANGED <<forced, current, slot, batch, unsaved, dirty, saveFailed>>
    BY <1>3 DEF executeSwitch, results
  <2>2. Session'
    BY <1>1, <1>2, <2>1 DEF FailoverIInv, Session
  <2>3. Books' /\ NoBatchBesideActivation'
    BY <2>1 DEF FailoverIInv, Books, SlotOwned, ResultsReachDisk, NoBatchBesideActivation
  <2> QED  BY <2>1, <2>2, <2>3
<1>4. CASE down # "stopping"
  <2>1. current' = target /\ Activate(TRUE) /\ postSwitch' = postSwitch
    BY <1>4 DEF executeSwitch
  <2>2. /\ Books' /\ NoBatchBesideActivation' /\ batch'.kind = batch.kind
        /\ session' = "activating" /\ mode' \in BOOLEAN /\ forced' \in BOOLEAN
    BY <2>1, ActivatePreserves DEF FailoverIInv
  <2>3. Session'
    BY <1>1, <1>2, <2>1, <2>2 DEF FailoverIInv, Session
  <2> QED  BY <2>2, <2>3
<1> QED  BY <1>3, <1>4

LEMMA LeaveDownPreserves ==
  ASSUME FailoverIInv, NEW down \in {"off", "stopping"}, LeaveDown(down),
         switches' = switches, resume' = resume
  PROVE  Session' /\ (Books' => NoBatchBesideActivation')
BY DEF LeaveDown, FailoverIInv, Session, SwitchesAreBounded, NoBatchBesideActivation

LEMMA HandleFailurePreserves ==
  ASSUME FailoverInstance, FailoverIInv, NEW down \in {"off", "stopping"}, HandleFailure(down)
  PROVE  FailoverIInv'
<1>1. UNCHANGED <<resume, enabled, decide, warm>>
  BY DEF HandleFailure
<1> DEFINE Quiet == /\ LeaveDown(down)
                    /\ UNCHANGED <<switches, pending, slot, batch, unsaved, dirty, saveFailed>>
           Switches(t) == executeSwitch(t, down) /\ pending' = pending
           Probes == /\ LeaveDown(down) /\ CanBegin /\ ~pending
                     /\ StartBatch("failover", Rankable) /\ pending' = TRUE
                     /\ UNCHANGED <<switches, unsaved, dirty, saveFailed>>
           Below == Len(Group) >= 2 /\ ~reachedSwitchCeiling /\ InGroup
<1>2. \/ Quiet
      \/ Below /\ pickWarmSwitchTarget # NoServer /\ Switches(pickWarmSwitchTarget)
      \/ Below /\ Switches(roundRobinFallback)
      \/ Probes
  BY DEF HandleFailure, results, FailoverInstance
<1>3. CASE Quiet
  <2>1. Session' /\ (Books' => NoBatchBesideActivation')
    BY <1>1, <1>3, LeaveDownPreserves
  <2>2. Books' /\ Waits'
    BY <1>1, <1>3 DEF FailoverIInv, Books, Waits, SlotOwned, ResultsReachDisk, ProbeIsAnswered
  <2> QED  BY <2>1, <2>2 DEF FailoverIInv
<1>4. ASSUME NEW t \in Members, Below, Switches(t) PROVE FailoverIInv'
  <2>1. Session' /\ Books' /\ NoBatchBesideActivation' /\ batch'.kind = batch.kind
    BY <1>1, <1>4, ExecuteSwitchPreserves
  <2>2. Waits'
    BY <1>1, <1>4, <2>1 DEF FailoverIInv, Waits, ProbeIsAnswered
  <2> QED  BY <2>1, <2>2 DEF FailoverIInv
<1>5. CASE Probes
  <2>1. Session' /\ (Books' => NoBatchBesideActivation')
    BY <1>1, <1>5, LeaveDownPreserves
  <2>2. Rankable \in SUBSET Servers
    BY DEF FailoverInstance, Servers
  <2>3. Books' /\ batch'.kind = "failover"
    BY <1>5, <2>2, StartBatchOwns DEF FailoverIInv, Books
  <2>4. Waits'
    BY <1>1, <1>5, <2>3 DEF FailoverIInv, Waits, ProbeIsAnswered
  <2> QED  BY <2>1, <2>3, <2>4 DEF FailoverIInv
<1>6. InGroup => roundRobinFallback \in Members
  BY RoundRobinTarget
<1>7. pickWarmSwitchTarget \in Members \cup {NoServer}
  BY WarmTarget DEF FailoverIInv
<1> HIDE DEF Quiet, Switches, Probes
<1> QED  BY <1>2, <1>3, <1>4, <1>5, <1>6, <1>7

(***************************************************************************)
(* The other steps.                                                        *)
(***************************************************************************)
LEMMA ProbeEndsPreserves == ASSUME FailoverInstance, FailoverIInv, finishFailoverProbe PROVE FailoverIInv'
<1>1. UNCHANGED <<resume, enabled, warm>> /\ decide' = FALSE /\ pending' = FALSE
  BY DEF finishFailoverProbe
<1>2. Waits'
  BY <1>1 DEF FailoverIInv, Waits, ProbeIsAnswered
<1>3. CASE NothingToDecide
  <2>1. UNCHANGED <<session, mode, forced, current, postSwitch, switches, slot, batch, unsaved, dirty, saveFailed>>
    BY <1>3 DEF finishFailoverProbe, results
  <2> QED  BY <1>1, <1>2, <2>1 DEF FailoverIInv, Session, Books, SwitchesAreBounded, SlotOwned, ResultsReachDisk,
              NoBatchBesideActivation
<1>4. CASE ~NothingToDecide
  <2>1. Len(Group) >= 2 /\ ~reachedSwitchCeiling /\ InGroup /\ session \in {"off", "stopping"}
    BY <1>4 DEF NothingToDecide, FailoverInstance, FailoverIInv, Session
  <2>2. PICK t \in Members : executeSwitch(t, session)
    <3>1. roundRobinFallback \in Members /\ pickWarmSwitchTarget \in Members \cup {NoServer}
      BY <2>1, RoundRobinTarget, WarmTarget DEF FailoverIInv
    <3> QED  BY <1>4, <3>1 DEF finishFailoverProbe
  <2>3. Session' /\ Books' /\ NoBatchBesideActivation'
    BY <1>1, <2>1, <2>2, ExecuteSwitchPreserves
  <2> QED  BY <1>2, <2>3 DEF FailoverIInv
<1> QED  BY <1>3, <1>4

\* What the speed-test worker answers, and the timer that saves.
LEMMA BatchPreserves ==
  ASSUME FailoverInstance, FailoverIInv, testResultReady \/ partialResultsSave \/ batchFinished
  PROVE  FailoverIInv'
<1>1. CASE testResultReady
  <2>1. PICK s \in batch.todo, a \in {Down} \cup Latencies :
          /\ batch' = [batch EXCEPT !.todo = @ \ {s}]
          /\ warm' = [warm EXCEPT ![s] = a]
          /\ \/ batch.kind = "user" /\ batch.owns /\ unsaved' = TRUE /\ dirty' = TRUE /\ saveFailed' = saveFailed
             \/ unsaved' = unsaved /\ dirty' = dirty /\ saveFailed' = saveFailed
          /\ UNCHANGED <<proxying, failover, slot>>
    BY <1>1 DEF testResultReady, results
  <2>2. warm' \in [Members -> {NoAnswer, Down} \cup Latencies]
    BY <2>1 DEF FailoverIInv, Waits
  <2>3. /\ batch' \in Batches /\ batch'.kind = batch.kind /\ batch'.owns = batch.owns
        /\ batch'.cancelled = batch.cancelled
    BY <2>1 DEF FailoverIInv, Books, Batches
  <2>4. Books'
    <3>1. SlotOwned' /\ slot' = slot
      BY <2>1, <2>3 DEF FailoverIInv, Books, SlotOwned
    <3>2. unsaved' \in BOOLEAN /\ dirty' \in BOOLEAN /\ saveFailed' \in BOOLEAN
      BY <2>1 DEF FailoverIInv, Books
    <3>3. ResultsReachDisk'
      BY <2>1, <2>3 DEF FailoverIInv, Books, ResultsReachDisk
    <3> QED  BY <2>3, <3>1, <3>2, <3>3 DEF FailoverIInv, Books
  <2> QED  BY <2>1, <2>2, <2>3, <2>4 DEF FailoverIInv, Session, Waits, SwitchesAreBounded, NoBatchBesideActivation,
              ProbeIsAnswered, proxying, failover
<1>2. CASE partialResultsSave
  <2>1. /\ unsaved' \in BOOLEAN /\ saveFailed' = unsaved' /\ dirty' \in BOOLEAN
        /\ UNCHANGED <<proxying, failover, warm, slot, batch>>
    BY <1>2 DEF partialResultsSave, Save
  <2>2. Books'
    BY <2>1 DEF FailoverIInv, Books, SlotOwned, ResultsReachDisk
  <2> QED  BY <2>1, <2>2 DEF FailoverIInv, Session, Waits, SwitchesAreBounded, NoBatchBesideActivation,
              ProbeIsAnswered, proxying, failover
<1>3. CASE batchFinished
  <2>1. /\ \/ unsaved' \in BOOLEAN /\ saveFailed' = unsaved'
           \/ ~(batch.kind = "user" /\ batch.owns /\ dirty) /\ unsaved' = unsaved /\ saveFailed' = saveFailed
        /\ dirty' = FALSE /\ batch' = NoBatch
        /\ slot' = IF batch.owns THEN "free" ELSE slot
        /\ decide' = (decide \/ batch.kind = "failover")
        /\ UNCHANGED <<proxying, enabled, switches, pending, warm>>
    BY <1>3 DEF batchFinished, Save
  <2>2. NoBatch \in Batches /\ NoBatch.kind = "none" /\ ~NoBatch.owns
    BY DEF NoBatch, Batches
  <2>3. unsaved' \in BOOLEAN /\ saveFailed' \in BOOLEAN /\ ResultsReachDisk'
    BY <2>1 DEF FailoverIInv, Books, ResultsReachDisk
  <2>4. Books'
    BY <2>1, <2>2, <2>3 DEF FailoverIInv, Books, SlotOwned
  <2>5. Waits'
    BY <2>1 DEF FailoverIInv, Waits, ProbeIsAnswered
  <2> QED  BY <2>1, <2>2, <2>4, <2>5 DEF FailoverIInv, Session, SwitchesAreBounded, NoBatchBesideActivation, proxying
<1> QED  BY <1>1, <1>2, <1>3

\* Batches that begin: the user's, and the warm rounds.
LEMMA BeginPreserves ==
  ASSUME FailoverInstance, FailoverIInv, startSpeedTest \/ runWarmRound \/ Activated
  PROVE  FailoverIInv'
<1>0. Rankable \in SUBSET Servers
  BY DEF FailoverInstance, Servers
<1>1. CASE startSpeedTest
  <2>1. PICK servers \in UserBatches : StartBatch("user", servers)
    BY <1>1 DEF startSpeedTest
  <2>2. /\ session # "activating" /\ CanBegin /\ dirty' = FALSE
        /\ UNCHANGED <<proxying, failover, warm, unsaved, saveFailed>>
    BY <1>1 DEF startSpeedTest
  <2>3. servers \in SUBSET Servers
    BY DEF FailoverInstance
  <2>4. Books' /\ batch'.kind = "user"
    BY <2>1, <2>2, <2>3, StartBatchOwns DEF FailoverIInv
  <2>5. ~pending \/ decide
    BY <2>2 DEF FailoverIInv, Waits, ProbeIsAnswered, CanBegin
  <2> QED  BY <2>2, <2>4, <2>5 DEF FailoverIInv, Session, Waits, SwitchesAreBounded, NoBatchBesideActivation,
              ProbeIsAnswered, proxying, failover
<1>2. CASE runWarmRound
  <2>1. /\ StartBatch("warm", Rankable) /\ CanBegin /\ ~pending /\ session = "proxying"
        /\ UNCHANGED <<proxying, failover, warm, unsaved, dirty, saveFailed>>
    BY <1>2 DEF runWarmRound, WarmRound, results
  <2>2. Books'
    BY <1>0, <2>1, StartBatchOwns DEF FailoverIInv, Books
  <2> QED  BY <2>1, <2>2 DEF FailoverIInv, Session, Waits, SwitchesAreBounded, NoBatchBesideActivation,
              ProbeIsAnswered, proxying, failover
<1>3. CASE Activated
  <2>1. /\ session' = "proxying" /\ switches' = 0
        /\ UNCHANGED <<mode, forced, current, postSwitch, resume, enabled, pending, decide, warm,
                       unsaved, dirty, saveFailed>>
    BY <1>3 DEF Activated, results
  <2>2. Session'
    BY <2>1 DEF FailoverIInv, Session, SwitchesAreBounded, FailoverInstance
  <2>3. CASE WarmRound
    <3>1. StartBatch("warm", Rankable) /\ CanBegin /\ ~pending
      BY <1>3, <2>3 DEF Activated, WarmRound
    <3>2. Books'
      BY <1>0, <2>1, <3>1, StartBatchOwns DEF FailoverIInv, Books
    <3> QED  BY <2>1, <2>2, <3>1, <3>2 DEF FailoverIInv, Waits, NoBatchBesideActivation, ProbeIsAnswered
  <2>4. CASE ~WarmRound
    <3>1. slot' = slot /\ batch' = batch
      BY <1>3, <2>4 DEF Activated
    <3>2. Books'
      BY <2>1, <3>1 DEF FailoverIInv, Books, SlotOwned, ResultsReachDisk
    <3> QED  BY <2>1, <2>2, <3>1, <3>2 DEF FailoverIInv, Waits, NoBatchBesideActivation, ProbeIsAnswered
  <2> QED  BY <2>3, <2>4
<1> QED  BY <1>1, <1>2, <1>3

\* Activations: the user's, a restart after a crash, the timer of a switch.
LEMMA StartPreserves ==
  ASSUME FailoverInstance, FailoverIInv, UserStart \/ CrashRestarts \/ SwitchAfterCoreStopped
  PROVE  FailoverIInv'
<1> USE DEF failover
<1>1. CASE UserStart
  <2>1. PICK s \in Servers : current' = s
    BY <1>1 DEF UserStart
  <2>2. Activate(TRUE) /\ UNCHANGED <<postSwitch, resume, failover, warm>>
    BY <1>1 DEF UserStart
  <2>3. /\ Books' /\ NoBatchBesideActivation' /\ batch'.kind = batch.kind
        /\ session' = "activating" /\ mode' \in BOOLEAN /\ forced' \in BOOLEAN
    BY <2>2, ActivatePreserves DEF FailoverIInv
  <2> QED  BY <2>1, <2>2, <2>3 DEF FailoverIInv, Session, Waits, SwitchesAreBounded, ProbeIsAnswered
<1>2. CASE CrashRestarts
  <2>1. /\ CancelBackground /\ session' = "activating"
        /\ UNCHANGED <<mode, forced, current, postSwitch, resume, failover, warm>>
    BY <1>2 DEF CrashRestarts
  <2>2. Books' /\ batch'.kind = batch.kind /\ (batch.kind # "none" => batch'.cancelled)
    BY <2>1, CancelBackgroundEnds DEF FailoverIInv
  <2> QED  BY <2>1, <2>2 DEF FailoverIInv, Session, Waits, SwitchesAreBounded, NoBatchBesideActivation, ProbeIsAnswered
<1>3. CASE SwitchAfterCoreStopped
  <2>1. /\ resume # NoServer /\ resume' = NoServer /\ current' = resume
        /\ UNCHANGED <<postSwitch, failover, warm>>
    BY <1>3 DEF SwitchAfterCoreStopped
  <2>2. CASE Activate(mode)
    <3>1. /\ Books' /\ NoBatchBesideActivation' /\ batch'.kind = batch.kind
          /\ session' = "activating" /\ mode' \in BOOLEAN /\ forced' \in BOOLEAN
      BY <2>2, ActivatePreserves DEF FailoverIInv, Session
    <3> QED  BY <2>1, <3>1 DEF FailoverIInv, Session, Waits, SwitchesAreBounded, ProbeIsAnswered
  <2>3. CASE ~Activate(mode)
    <3>1. /\ forced' \in BOOLEAN
          /\ UNCHANGED <<session, mode, slot, batch, unsaved, dirty, saveFailed>>
      BY <1>3, <2>3 DEF SwitchAfterCoreStopped, results, FailoverIInv, Session
    <3>2. Books'
      BY <3>1 DEF FailoverIInv, Books, SlotOwned, ResultsReachDisk
    <3> QED  BY <2>1, <3>1, <3>2 DEF FailoverIInv, Session, Waits, SwitchesAreBounded, NoBatchBesideActivation,
                ProbeIsAnswered
  <2> QED  BY <2>2, <2>3
<1> QED  BY <1>1, <1>2, <1>3

\* Steps that leave the batch alone.
LEMMA OtherPreserves ==
  ASSUME FailoverInstance, FailoverIInv,
         UserStop \/ SetEnabled \/ CoreGone \/ Expire \/ OtherTask \/ UNCHANGED failoverVars
  PROVE  FailoverIInv'
<1> USE DEF proxying, failover, results
<1>1. CASE UserStop \/ CoreGone
  <2>1. /\ session' \in {"off", "stopping"} /\ mode' \in BOOLEAN
        /\ postSwitch' = NoServer /\ resume' \in Servers \cup {NoServer}
        /\ UNCHANGED <<forced, current, failover, warm, slot, batch, results>>
    BY <1>1 DEF UserStop, CoreGone, FailoverIInv, Session
  <2> QED  BY <2>1 DEF FailoverIInv, Session, Books, Waits, SwitchesAreBounded, SlotOwned, ResultsReachDisk,
              NoBatchBesideActivation, ProbeIsAnswered
<1>2. CASE Expire
  <2>1. /\ warm' \in [Members -> {NoAnswer, Down} \cup Latencies]
        /\ UNCHANGED <<proxying, failover, slot, batch, results>>
    BY <1>2 DEF Expire, FailoverIInv, Waits
  <2> QED  BY <2>1 DEF FailoverIInv, Session, Books, Waits, SwitchesAreBounded, SlotOwned, ResultsReachDisk,
              NoBatchBesideActivation, ProbeIsAnswered
<1>3. CASE SetEnabled \/ OtherTask \/ UNCHANGED failoverVars
  <2>1. /\ enabled' \in BOOLEAN /\ slot' \in {"free", "speedtest", "other"}
        /\ slot' = "speedtest" <=> slot = "speedtest"
        /\ UNCHANGED <<proxying, switches, pending, decide, warm, batch, results>>
    BY <1>3 DEF SetEnabled, OtherTask, failoverVars, FailoverIInv, Books, Waits
  <2> QED  BY <2>1 DEF FailoverIInv, Session, Books, Waits, SwitchesAreBounded, SlotOwned, ResultsReachDisk,
              NoBatchBesideActivation, ProbeIsAnswered
<1> QED  BY <1>1, <1>2, <1>3

LEMMA FailoverNextPreserves == ASSUME FailoverInstance, FailoverIInv, [FailoverNext]_failoverVars PROVE FailoverIInv'
<1>1. CASE StartFails \/ CrashGivesUp
  BY <1>1, HandleFailurePreserves DEF StartFails, CrashGivesUp
<1> QED  BY <1>1, ProbeEndsPreserves, BatchPreserves, BeginPreserves, StartPreserves, OtherPreserves
         DEF FailoverNext, User

LEMMA FailoverInitIInv == ASSUME FailoverInstance, FailoverInit PROVE FailoverIInv
<1> USE DEF FailoverInit
<1>1. Session
  <2>1. switches \in Nat /\ SwitchesAreBounded
    BY DEF SwitchesAreBounded, FailoverInstance
  <2> QED  BY <2>1 DEF Session
<1>2. Books
  BY DEF Books, NoBatch, Batches, SlotOwned, ResultsReachDisk
<1>3. Waits /\ NoBatchBesideActivation
  BY DEF Waits, ProbeIsAnswered, NoBatchBesideActivation
<1> QED  BY <1>1, <1>2, <1>3 DEF FailoverIInv

LEMMA FailoverIInvAlways == ASSUME FailoverInstance PROVE FailoverSpec => []FailoverIInv
<1>1. FailoverInit => FailoverIInv
  BY FailoverInitIInv
<1>2. FailoverIInv /\ [FailoverNext]_failoverVars => FailoverIInv'
  BY FailoverNextPreserves
<1> QED  BY <1>1, <1>2, PTL DEF FailoverSpec

(***************************************************************************)
(* The theorems.                                                           *)
(***************************************************************************)
\* Every variable keeps its type: a switch always has a server to go to.
THEOREM FailoverTypeCorrect == ASSUME FailoverInstance PROVE FailoverSpec => []FailoverTypeOK
<1>1. FailoverIInv => FailoverTypeOK
  BY IInvImplies
<1> QED  BY <1>1, FailoverIInvAlways, PTL

\* However batches, activations and failures interleave, no batch that was not told to
\* end runs beside an activation.
THEOREM NoBatchBesideActivationAlways == ASSUME FailoverInstance PROVE FailoverSpec => []NoBatchBesideActivation
<1>1. FailoverIInv => NoBatchBesideActivation
  BY DEF FailoverIInv
<1> QED  BY <1>1, FailoverIInvAlways, PTL

\* Results that are not on disk are those of a batch that will still save them, unless
\* saving them failed.
THEOREM ResultsReachDiskAlways == ASSUME FailoverInstance PROVE FailoverSpec => []ResultsReachDisk
<1>1. FailoverIInv => ResultsReachDisk
  BY DEF FailoverIInv, Books
<1> QED  BY <1>1, FailoverIInvAlways, PTL

\* In a group of any size an outage leads to fewer switches than there are members.
THEOREM SwitchesAreBoundedAlways == ASSUME FailoverInstance PROVE FailoverSpec => []SwitchesAreBounded
<1>1. FailoverIInv => SwitchesAreBounded
  BY DEF FailoverIInv, Session
<1> QED  BY <1>1, FailoverIInvAlways, PTL

\* A probe the coordinator waits for is out, or its end is queued.
THEOREM ProbeIsAnsweredAlways == ASSUME FailoverInstance PROVE FailoverSpec => []ProbeIsAnswered
<1>1. FailoverIInv => ProbeIsAnswered
  BY DEF FailoverIInv, Waits
<1> QED  BY <1>1, FailoverIInvAlways, PTL
=================================================================================
