---------------------------- MODULE AdmissionProofs ----------------------------
(***************************************************************************)
(* Proofs about Admission, for any set of requests, keys and policies.     *)
(*                                                                         *)
(* The inductive invariant is IInv.  WithinLimits and NoLostWakeup need    *)
(* little, but Conservation needs them both ways: the counters are         *)
(* cardinalities only because a decrement never meets the floor of zero,   *)
(* and it never does because they are cardinalities.                       *)
(***************************************************************************)
EXTENDS Admission, SetCounting

IInv == TypeOK /\ Conservation /\ WithinLimits /\ NoLostWakeup

(* What becomes of the requests other than r in a step that moves r: they   *)
(* keep their gates and stay queued or held if they were.                   *)
OthersKeep(r) ==
  \A s \in Requests \ {r} :
    /\ gateOf'[s] = gateOf[s]
    /\ Queued(s)' = Queued(s)
    /\ (phase'[s] = "held") = (phase[s] = "held")

-----------------------------------------------------------------------------
(* The shape of gates, from the assumptions on the constants: the gates a   *)
(* request uses are gates, they are two, and their limits are numbers.      *)
LEMMA GateFacts ==
  /\ Global \in Gates
  /\ Global \notin ModelGates
  /\ \A g \in ModelGates : Pair(g) \subseteq Gates
  /\ \A g \in Gates : MaxInflight(g) \in Nat \ {0} /\ MaxQueue(g) \in Nat
<1>1. Global \in Gates /\ \A g \in ModelGates : Pair(g) \subseteq Gates
  BY DEF Gates, Pair
<1>2. Global \notin ModelGates
  BY AdmissionAssumption DEF Global, ModelGates
<1>3. \A g \in Gates : g[2] \in [max_inflight : Nat \ {0}, max_queue : Nat]
  BY AdmissionAssumption DEF Gates, ModelGates, Global
<1> QED
  BY <1>1, <1>2, <1>3 DEF MaxInflight, MaxQueue

(* The policy in force for a key is one of the policies.                    *)
LEMMA PolicyGate ==
  ASSUME TypeOK, NEW k \in Keys
  PROVE  <<k, ModelPolicy(k)>> \in ModelGates
BY AdmissionAssumption DEF TypeOK, ModelPolicy, ModelGates

(* Holders and waiters are finite sets of requests.                         *)
LEMMA FiniteMembers ==
  \A g : /\ IsFiniteSet(Holders(g)) /\ Cardinality(Holders(g)) \in Nat
         /\ IsFiniteSet(Waiters(g)) /\ Cardinality(Waiters(g)) \in Nat
<1> SUFFICES ASSUME NEW g
             PROVE /\ IsFiniteSet(Holders(g)) /\ Cardinality(Holders(g)) \in Nat
                   /\ IsFiniteSet(Waiters(g)) /\ Cardinality(Waiters(g)) \in Nat
  OBVIOUS
<1>1. Holders(g) \subseteq Requests /\ Waiters(g) \subseteq Requests
  BY DEF Holders, Waiters
<1> QED
  BY <1>1, AdmissionAssumption, FS_Subset, FS_CardinalityType

(* Plus and Minus return counters, and add to or take from the named gates  *)
(* only.                                                                    *)
LEMMA PlusMinus ==
  ASSUME NEW count \in [Gates -> Nat], NEW gates \in SUBSET Gates
  PROVE  /\ Plus(count, gates) \in [Gates -> Nat]
         /\ \A g \in Gates :
              Plus(count, gates)[g] = IF g \in gates THEN count[g] + 1 ELSE count[g]
         /\ Minus(count, gates) \in [Gates -> Nat]
         /\ \A g \in Gates :
              Minus(count, gates)[g] =
                IF g \in gates /\ count[g] > 0 THEN count[g] - 1 ELSE count[g]
BY DEF Plus, Minus

(* Only r enters or leaves the holders and the waiters of a gate.           *)
LEMMA MembersMoved ==
  ASSUME NEW r \in Requests, OthersKeep(r)
  PROVE  \A g : /\ Holders(g) \ {r} = Holders(g)' \ {r}
                /\ Waiters(g) \ {r} = Waiters(g)' \ {r}
BY DEF OthersKeep, Holders, Waiters, Pair

(* NotifyAll turns sleepers into woken waiters: nobody sleeps after it, and *)
(* everybody queued or held is so still.                                    *)
LEMMA NotifyAllFacts ==
  ASSUME NEW ph \in [Requests -> Phases]
  PROVE  /\ NotifyAll(ph) \in [Requests -> Phases]
         /\ \A s \in Requests :
              /\ NotifyAll(ph)[s] # "waiting"
              /\ NotifyAll(ph)[s] = ph[s] \/ (ph[s] = "waiting" /\ NotifyAll(ph)[s] = "woken")
BY DEF NotifyAll, Phases, Outside

-----------------------------------------------------------------------------
(* Type correctness.                                                        *)
LEMMA TypeInit == Init => TypeOK
BY DEF Init, TypeOK, Phases, Outside

(* A step leaves the requests it does not name where they are.              *)
LEMMA StepMovesOne ==
  ASSUME TypeOK, NEW r \in Requests,
         \/ \E k \in Keys : Acquire(r, k)
         \/ Wake(r) \/ Timeout(r) \/ Cancel(r) \/ Release(r)
  PROVE  OthersKeep(r)
<1> USE DEF TypeOK, OthersKeep, Queued
<1>1. CASE \E k \in Keys : Acquire(r, k)
  BY <1>1 DEF Acquire, AcquireNow, Enqueue, RejectFull
<1>2. CASE Wake(r)
  BY <1>2 DEF Wake, WakeAdmitted, WakeAgain
<1>3. CASE Timeout(r) \/ Cancel(r)
  BY <1>3 DEF Timeout, Cancel, Leave
<1>4. CASE Release(r)
  BY <1>4 DEF Release, NotifyAll
<1> QED BY <1>1, <1>2, <1>3, <1>4

LEMMA TypeStep ==
  ASSUME TypeOK, [Next]_vars
  PROVE  TypeOK'
<1> USE DEF TypeOK
<1>0. Phases = Outside \cup {"waiting", "woken", "held"}
  BY DEF Phases
<1>1. ASSUME NEW r \in Requests, NEW k \in Keys, Acquire(r, k)
      PROVE  TypeOK'
  <2> DEFINE gate == <<k, ModelPolicy(k)>>
  <2>1. gate \in ModelGates /\ Pair(gate) \in SUBSET Gates
    BY PolicyGate, GateFacts
  <2>2. CASE AcquireNow(r, k)
    BY <2>1, <2>2, <1>0, PlusMinus DEF AcquireNow
  <2>3. CASE Enqueue(r, k)
    BY <2>1, <2>3, <1>0, PlusMinus DEF Enqueue
  <2>4. CASE RejectFull(r, k)
    BY <2>4, <1>0 DEF RejectFull, Outside
  <2> QED BY <1>1, <2>2, <2>3, <2>4 DEF Acquire
<1>2. ASSUME NEW r \in Requests, Wake(r) \/ Timeout(r) \/ Cancel(r) \/ Release(r)
      PROVE  TypeOK'
  <2>1. phase[r] \notin Outside
    BY <1>2 DEF Wake, WakeAdmitted, WakeAgain, Timeout, Cancel, Leave, Release, Outside
  <2>2. Pair(gateOf[r]) \in SUBSET Gates
    BY <2>1, GateFacts
  <2>3. CASE WakeAdmitted(r)
    BY <2>1, <2>2, <2>3, <1>0, PlusMinus DEF WakeAdmitted
  <2>4. CASE WakeAgain(r)
    BY <2>1, <2>4, <1>0 DEF WakeAgain
  <2>5. CASE Timeout(r) \/ Cancel(r)
    BY <2>2, <2>5, <1>0, PlusMinus DEF Timeout, Cancel, Leave, Outside
  <2>6. CASE Release(r)
    <3> DEFINE ph == [phase EXCEPT ![r] = "released"]
    <3>1. ph \in [Requests -> Phases] /\ ph[r] = "released"
      BY <1>0 DEF Outside
    <3>2. phase' = NotifyAll(ph) /\ gateOf' = [gateOf EXCEPT ![r] = NoGate]
          /\ inflight' = Minus(inflight, Pair(gateOf[r])) /\ UNCHANGED <<file, queued>>
      BY <2>6 DEF Release
    <3>3. \A s \in Requests : phase'[s] \notin Outside => s # r /\ phase[s] \notin Outside
      <4>1. \A s \in Requests : phase'[s] = ph[s] \/ ph[s] = "waiting"
        <5> HIDE DEF ph
        <5> QED BY <3>1, <3>2, NotifyAllFacts
      <4>2. \A s \in Requests : s # r => ph[s] = phase[s]
        BY <1>0
      <4> HIDE DEF ph
      <4> QED BY <3>1, <3>2, <4>1, <4>2, NotifyAllFacts DEF Outside
    <3>4. inflight' \in [Gates -> Nat]
      BY <2>2, <3>2, PlusMinus
    <3>5. phase' \in [Requests -> Phases]
      <4> HIDE DEF ph
      <4> QED BY <3>1, <3>2, NotifyAllFacts
    <3>6. \A s \in Requests : phase'[s] \notin Outside => gateOf'[s] \in ModelGates
      BY <3>2, <3>3
    <3> QED BY <3>2, <3>4, <3>5, <3>6
  <2> QED BY <1>2, <2>3, <2>4, <2>5, <2>6 DEF Wake
<1>3. ASSUME NEW k \in Keys, NEW p \in Policies, Reconfigure(k, p)
      PROVE  TypeOK'
  BY <1>3 DEF Reconfigure
<1>4. CASE UNCHANGED vars
  BY <1>4 DEF vars
<1> QED BY <1>1, <1>2, <1>3, <1>4 DEF Next

(* Every reachable state has its type: in particular a request inside the   *)
(* controller always names a gate of its own key.                           *)
THEOREM TypeCorrect == Spec => []TypeOK
BY TypeInit, TypeStep, PTL DEF Spec

-----------------------------------------------------------------------------
(* Conservation of slots.                                                   *)
LEMMA ConservationInit == Init => Conservation
<1> SUFFICES ASSUME Init, NEW g \in Gates
             PROVE  Holders(g) = {} /\ Waiters(g) = {} /\ inflight[g] = 0 /\ queued[g] = 0
  BY FS_EmptySet DEF Conservation
<1> QED BY DEF Init, Holders, Waiters, Queued

(* What a step of request r does to the counters, stated as the set         *)
(* equations the definition of Holders and Waiters give for it.             *)
LEMMA CountersFollow ==
  ASSUME TypeOK, Conservation, NEW r \in Requests, OthersKeep(r), NEW g \in Gates
  PROVE  /\ inflight[g] \in Nat /\ queued[g] \in Nat
         /\ (r \in Holders(g)) = (r \in Holders(g)') => Cardinality(Holders(g)') = inflight[g]
         /\ r \in Holders(g)' /\ r \notin Holders(g) => Cardinality(Holders(g)') = inflight[g] + 1
         /\ r \in Holders(g) /\ r \notin Holders(g)' =>
              inflight[g] > 0 /\ Cardinality(Holders(g)') = inflight[g] - 1
         /\ (r \in Waiters(g)) = (r \in Waiters(g)') => Cardinality(Waiters(g)') = queued[g]
         /\ r \in Waiters(g)' /\ r \notin Waiters(g) => Cardinality(Waiters(g)') = queued[g] + 1
         /\ r \in Waiters(g) /\ r \notin Waiters(g)' =>
              queued[g] > 0 /\ Cardinality(Waiters(g)') = queued[g] - 1
<1>1. inflight[g] = Cardinality(Holders(g)) /\ queued[g] = Cardinality(Waiters(g))
  BY DEF Conservation
<1>2. IsFiniteSet(Holders(g)) /\ IsFiniteSet(Waiters(g))
  BY FiniteMembers
<1>3. Holders(g) \ {r} = Holders(g)' \ {r} /\ Waiters(g) \ {r} = Waiters(g)' \ {r}
  BY MembersMoved
<1> QED BY <1>1, <1>2, <1>3, CountMoved

LEMMA ConservationStep ==
  ASSUME TypeOK, Conservation, [Next]_vars
  PROVE  Conservation'
<1>1. ASSUME NEW r \in Requests, NEW k \in Keys, Acquire(r, k)
      PROVE  Conservation'
  <2> DEFINE gate == <<k, ModelPolicy(k)>>
  <2>1. gate \in ModelGates /\ Pair(gate) \in SUBSET Gates
    BY PolicyGate, GateFacts
  <2>2. OthersKeep(r)
    BY <1>1, StepMovesOne
  <2>3. phase[r] # "held" /\ ~Queued(r)
    BY <1>1 DEF Acquire, AcquireNow, Enqueue, RejectFull, Outside, Queued
  <2>4. \A g : r \notin Holders(g) /\ r \notin Waiters(g)
    BY <2>3 DEF Holders, Waiters
  <2>5. CASE AcquireNow(r, k)
    <3>1. phase'[r] = "held" /\ gateOf'[r] = gate /\ ~Queued(r)'
      BY <2>5 DEF AcquireNow, TypeOK, Queued
    <3>2. \A g \in Gates : (r \in Holders(g)' <=> g \in Pair(gate)) /\ r \notin Waiters(g)'
      BY <3>1 DEF Holders, Waiters, Pair
    <3>3. queued' = queued /\ \A g \in Gates :
             inflight'[g] = IF g \in Pair(gate) THEN inflight[g] + 1 ELSE inflight[g]
      BY <2>5, <2>1, PlusMinus DEF AcquireNow, TypeOK
    <3> QED BY <2>2, <2>4, <3>2, <3>3, CountersFollow DEF Conservation
  <2>6. CASE Enqueue(r, k)
    <3>1. phase'[r] = "waiting" /\ gateOf'[r] = gate /\ Queued(r)'
      BY <2>6 DEF Enqueue, TypeOK, Queued
    <3>2. \A g \in Gates : (r \in Waiters(g)' <=> g \in Pair(gate)) /\ r \notin Holders(g)'
      BY <3>1 DEF Holders, Waiters, Pair
    <3>3. inflight' = inflight /\ \A g \in Gates :
             queued'[g] = IF g \in Pair(gate) THEN queued[g] + 1 ELSE queued[g]
      BY <2>6, <2>1, PlusMinus DEF Enqueue, TypeOK
    <3> QED BY <2>2, <2>4, <3>2, <3>3, CountersFollow DEF Conservation
  <2>7. CASE RejectFull(r, k)
    <3>1. phase'[r] = "queue_full" /\ ~Queued(r)' /\ UNCHANGED <<inflight, queued>>
      BY <2>7 DEF RejectFull, TypeOK, Queued
    <3>2. \A g : r \notin Holders(g)' /\ r \notin Waiters(g)'
      BY <3>1 DEF Holders, Waiters
    <3> QED BY <2>2, <2>4, <3>1, <3>2, CountersFollow DEF Conservation
  <2> QED BY <1>1, <2>5, <2>6, <2>7 DEF Acquire
<1>2. ASSUME NEW r \in Requests, Wake(r) \/ Timeout(r) \/ Cancel(r)
      PROVE  Conservation'
  <2> DEFINE gate == gateOf[r]
  <2>1. phase[r] # "held" /\ Queued(r) /\ phase[r] \notin Outside
    BY <1>2 DEF Wake, WakeAdmitted, WakeAgain, Timeout, Cancel, Leave, Queued, Outside
  <2>2. OthersKeep(r)
    BY <1>2, StepMovesOne
  <2>3. Pair(gate) \in SUBSET Gates
    BY <2>1, GateFacts DEF TypeOK
  <2>4. \A g \in Gates : (r \in Waiters(g) <=> g \in Pair(gate)) /\ r \notin Holders(g)
    BY <2>1 DEF Holders, Waiters, Pair
  <2>5. CASE WakeAdmitted(r)
    <3>1. phase'[r] = "held" /\ gateOf'[r] = gate /\ ~Queued(r)'
      BY <2>5 DEF WakeAdmitted, TypeOK, Queued
    <3>2. \A g \in Gates : (r \in Holders(g)' <=> g \in Pair(gate)) /\ r \notin Waiters(g)'
      BY <3>1 DEF Holders, Waiters, Pair
    <3>3. \A g \in Gates :
             /\ inflight'[g] = IF g \in Pair(gate) THEN inflight[g] + 1 ELSE inflight[g]
             /\ queued'[g] = IF g \in Pair(gate) /\ queued[g] > 0 THEN queued[g] - 1 ELSE queued[g]
      BY <2>5, <2>3, PlusMinus DEF WakeAdmitted, TypeOK
    <3> QED BY <2>2, <2>4, <3>2, <3>3, CountersFollow DEF Conservation
  <2>6. CASE WakeAgain(r)
    <3>1. phase'[r] = "waiting" /\ Queued(r)' /\ UNCHANGED <<inflight, queued, gateOf>>
      BY <2>6 DEF WakeAgain, TypeOK, Queued
    <3>2. \A g \in Gates : (r \in Waiters(g)' <=> g \in Pair(gate)) /\ r \notin Holders(g)'
      BY <3>1 DEF Holders, Waiters, Pair
    <3> QED BY <2>2, <2>4, <3>1, <3>2, CountersFollow DEF Conservation
  <2>7. CASE Timeout(r) \/ Cancel(r)
    <3>1. phase'[r] \in Outside /\ inflight' = inflight
      BY <2>7 DEF Timeout, Cancel, Leave, TypeOK, Outside
    <3>2. \A g \in Gates : r \notin Holders(g)' /\ r \notin Waiters(g)'
      BY <3>1 DEF Holders, Waiters, Queued, Outside
    <3>3. \A g \in Gates :
             queued'[g] = IF g \in Pair(gate) /\ queued[g] > 0 THEN queued[g] - 1 ELSE queued[g]
      BY <2>7, <2>3, PlusMinus DEF Timeout, Cancel, Leave, TypeOK
    <3> QED BY <2>2, <2>4, <3>1, <3>2, <3>3, CountersFollow DEF Conservation
  <2> QED BY <1>2, <2>5, <2>6, <2>7 DEF Wake
<1>3. ASSUME NEW r \in Requests, Release(r)
      PROVE  Conservation'
  <2> DEFINE gate == gateOf[r]
  <2>1. phase[r] = "held" /\ ~Queued(r) /\ phase[r] \notin Outside
    BY <1>3 DEF Release, Queued, Outside
  <2>2. OthersKeep(r)
    BY <1>3, StepMovesOne
  <2>3. Pair(gate) \in SUBSET Gates
    BY <2>1, GateFacts DEF TypeOK
  <2>4. \A g \in Gates : (r \in Holders(g) <=> g \in Pair(gate)) /\ r \notin Waiters(g)
    BY <2>1 DEF Holders, Waiters, Pair
  <2>5. phase'[r] = "released"
    BY <1>3 DEF Release, NotifyAll, TypeOK
  <2>6. \A g \in Gates : r \notin Holders(g)' /\ r \notin Waiters(g)'
    BY <2>5 DEF Holders, Waiters, Queued
  <2>7. queued' = queued /\ \A g \in Gates :
          inflight'[g] = IF g \in Pair(gate) /\ inflight[g] > 0 THEN inflight[g] - 1 ELSE inflight[g]
    BY <1>3, <2>3, PlusMinus DEF Release, TypeOK
  <2> QED BY <2>2, <2>4, <2>6, <2>7, CountersFollow DEF Conservation
<1>4. CASE (\E k \in Keys, p \in Policies : Reconfigure(k, p)) \/ UNCHANGED vars
  BY <1>4 DEF Reconfigure, vars, Conservation, Holders, Waiters, Queued
<1> QED BY <1>1, <1>2, <1>3, <1>4 DEF Next

-----------------------------------------------------------------------------
(* The limits and the wake-ups.                                             *)
LEMMA LimitsInit == Init => WithinLimits /\ NoLostWakeup
BY GateFacts DEF Init, WithinLimits, NoLostWakeup

LEMMA LimitsStep ==
  ASSUME TypeOK, WithinLimits, [Next]_vars
  PROVE  WithinLimits'
<1> USE DEF WithinLimits, MaxInflight, MaxQueue
<1>0. \A g \in Gates : inflight[g] \in Nat /\ queued[g] \in Nat
                      /\ g[2].max_inflight \in Nat /\ g[2].max_queue \in Nat
  BY GateFacts DEF TypeOK
<1>1. ASSUME NEW r \in Requests, NEW k \in Keys, Acquire(r, k)
      PROVE  WithinLimits'
  <2> DEFINE gate == <<k, ModelPolicy(k)>>
  <2>1. Pair(gate) \in SUBSET Gates
    BY PolicyGate, GateFacts
  <2>2. CASE AcquireNow(r, k)
    <3>1. \A g \in Gates :
            inflight'[g] = IF g \in Pair(gate) THEN inflight[g] + 1 ELSE inflight[g]
      BY <2>1, <2>2, PlusMinus DEF AcquireNow, TypeOK
    <3>2. \A g \in Pair(gate) : inflight[g] < g[2].max_inflight
      BY <2>2 DEF AcquireNow, Available
    <3>3. queued' = queued
      BY <2>2 DEF AcquireNow
    <3> QED BY <1>0, <2>1, <3>1, <3>2, <3>3
  <2>3. CASE Enqueue(r, k)
    <3>1. \A g \in Gates :
            queued'[g] = IF g \in Pair(gate) THEN queued[g] + 1 ELSE queued[g]
      BY <2>1, <2>3, PlusMinus DEF Enqueue, TypeOK
    <3>2. \A g \in Pair(gate) : ~(queued[g] >= g[2].max_queue)
      BY <2>3 DEF Enqueue, QueueFull
    <3>3. inflight' = inflight
      BY <2>3 DEF Enqueue
    <3> QED BY <1>0, <2>1, <3>1, <3>2, <3>3
  <2>4. CASE RejectFull(r, k)
    BY <2>4 DEF RejectFull
  <2> QED BY <1>1, <2>2, <2>3, <2>4 DEF Acquire
<1>2. ASSUME NEW r \in Requests, WakeAdmitted(r)
      PROVE  WithinLimits'
  <2>1. Pair(gateOf[r]) \in SUBSET Gates
    BY <1>2, GateFacts DEF WakeAdmitted, TypeOK, Outside
  <2>2. \A g \in Gates :
          /\ inflight'[g] = IF g \in Pair(gateOf[r]) THEN inflight[g] + 1 ELSE inflight[g]
          /\ queued'[g] = IF g \in Pair(gateOf[r]) /\ queued[g] > 0
                          THEN queued[g] - 1 ELSE queued[g]
    BY <1>2, <2>1, PlusMinus DEF WakeAdmitted, TypeOK
  <2>3. \A g \in Pair(gateOf[r]) : inflight[g] < g[2].max_inflight
    BY <1>2 DEF WakeAdmitted, Available
  <2> QED BY <1>0, <2>1, <2>2, <2>3
<1>3. ASSUME NEW r \in Requests, Timeout(r) \/ Cancel(r) \/ Release(r)
      PROVE  WithinLimits'
  <2>1. Pair(gateOf[r]) \in SUBSET Gates
    BY <1>3, GateFacts DEF Timeout, Cancel, Leave, Release, TypeOK, Outside
  <2>2. (queued' = queued \/ queued' = Minus(queued, Pair(gateOf[r])))
        /\ (inflight' = inflight \/ inflight' = Minus(inflight, Pair(gateOf[r])))
    BY <1>3 DEF Timeout, Cancel, Leave, Release
  <2>3. \A g \in Gates : inflight'[g] <= inflight[g] /\ queued'[g] <= queued[g]
                        /\ inflight'[g] \in Nat /\ queued'[g] \in Nat
    BY <1>0, <2>1, <2>2, PlusMinus DEF TypeOK
  <2> QED BY <1>0, <2>3
<1>4. ASSUME UNCHANGED <<inflight, queued>>
      PROVE  WithinLimits'
  BY <1>4
<1> QED
  BY <1>1, <1>2, <1>3, <1>4 DEF Next, Wake, WakeAgain, Reconfigure, vars

LEMMA WakeupStep ==
  ASSUME TypeOK, NoLostWakeup, [Next]_vars
  PROVE  NoLostWakeup'
<1>0. \A r \in Requests : phase[r] = "waiting" => Pair(gateOf[r]) \in SUBSET Gates
  BY GateFacts DEF TypeOK, Outside
<1>0a. \A g \in Gates : inflight[g] \in Nat /\ MaxInflight(g) \in Nat
  BY GateFacts DEF TypeOK
(* Nobody new sleeps and no counter falls: those asleep stay without room.  *)
<1>1. ASSUME \A g \in Gates : inflight'[g] \in Nat /\ inflight'[g] >= inflight[g],
             \A s \in Requests : phase'[s] = "waiting" =>
                (phase[s] = "waiting" /\ gateOf'[s] = gateOf[s])
      PROVE  NoLostWakeup'
  BY <1>0, <1>0a, <1>1 DEF NoLostWakeup, Available, Pair, MaxInflight
<1>2. ASSUME NEW r \in Requests, NEW k \in Keys, AcquireNow(r, k)
      PROVE  NoLostWakeup'
  <2>1. Pair(<<k, ModelPolicy(k)>>) \in SUBSET Gates
    BY PolicyGate, GateFacts
  <2>2. \A g \in Gates : inflight'[g] \in Nat /\ inflight'[g] >= inflight[g]
    BY <1>0a, <1>2, <2>1, PlusMinus DEF AcquireNow, TypeOK
  <2>3. \A s \in Requests : phase'[s] = "waiting" =>
                (phase[s] = "waiting" /\ gateOf'[s] = gateOf[s])
    BY <1>2 DEF AcquireNow, TypeOK
  <2> QED BY <2>2, <2>3, <1>1
<1>3. ASSUME NEW r \in Requests, WakeAdmitted(r)
      PROVE  NoLostWakeup'
  <2>1. Pair(gateOf[r]) \in SUBSET Gates
    BY <1>3, GateFacts DEF WakeAdmitted, TypeOK, Outside
  <2>2. \A g \in Gates : inflight'[g] \in Nat /\ inflight'[g] >= inflight[g]
    BY <1>0a, <1>3, <2>1, PlusMinus DEF WakeAdmitted, TypeOK
  <2>3. \A s \in Requests : phase'[s] = "waiting" =>
                (phase[s] = "waiting" /\ gateOf'[s] = gateOf[s])
    BY <1>3 DEF WakeAdmitted, TypeOK
  <2> QED BY <2>2, <2>3, <1>1
<1>4. ASSUME NEW r \in Requests,
             \/ (\E k \in Keys : RejectFull(r, k))
             \/ Timeout(r) \/ Cancel(r)
      PROVE  NoLostWakeup'
  <2>1. inflight' = inflight
    BY <1>4 DEF RejectFull, Timeout, Cancel, Leave
  <2>2. \A s \in Requests : phase'[s] = "waiting" =>
                (phase[s] = "waiting" /\ gateOf'[s] = gateOf[s])
    BY <1>4 DEF RejectFull, Timeout, Cancel, Leave, TypeOK
  <2> QED BY <1>0a, <1>1, <2>1, <2>2
(* Who goes to sleep has just seen one of its gates full.                   *)
<1>5. ASSUME NEW r \in Requests, NEW k \in Keys, Enqueue(r, k)
      PROVE  NoLostWakeup'
  BY <1>5 DEF Enqueue, NoLostWakeup, Available, Pair, TypeOK
<1>6. ASSUME NEW r \in Requests, WakeAgain(r)
      PROVE  NoLostWakeup'
  BY <1>6 DEF WakeAgain, NoLostWakeup, Available, Pair, TypeOK
<1>7. ASSUME NEW r \in Requests, Release(r)
      PROVE  NoLostWakeup'
  BY <1>7 DEF Release, NoLostWakeup, NotifyAll, TypeOK
<1>8. ASSUME UNCHANGED <<inflight, queued, phase, gateOf>>
      PROVE  NoLostWakeup'
  BY <1>8 DEF NoLostWakeup, Available, Pair, MaxInflight
<1> QED
  BY <1>2, <1>3, <1>4, <1>5, <1>6, <1>7, <1>8
  DEF Next, Acquire, Wake, Reconfigure, vars

-----------------------------------------------------------------------------
(* All of it is invariant, for any number of requests, models and gates.    *)
THEOREM Invariance == Spec => []IInv
<1>1. Init => IInv
  BY TypeInit, ConservationInit, LimitsInit DEF IInv
<1>2. IInv /\ [Next]_vars => IInv'
  BY TypeStep, ConservationStep, LimitsStep, WakeupStep DEF IInv
<1> QED BY <1>1, <1>2, PTL DEF Spec

(* Slots are conserved: the counters are the holders and the waiters.       *)
THEOREM SlotsConserved == Spec => []Conservation
<1>1. IInv => Conservation
  BY DEF IInv
<1> QED BY <1>1, Invariance, PTL

(* Limits hold whatever wakes, arrives, times out or is reconfigured.       *)
THEOREM LimitsHold == Spec => []WithinLimits
<1>1. IInv => WithinLimits
  BY DEF IInv
<1> QED BY <1>1, Invariance, PTL

(* No request sleeps beside room for it.                                    *)
THEOREM NobodySleepsBesideRoom == Spec => []NoLostWakeup
<1>1. IInv => NoLostWakeup
  BY DEF IInv
<1> QED BY <1>1, Invariance, PTL

-----------------------------------------------------------------------------
(* Refinement.  By Conservation a counter below its limit is room in the    *)
(* pool, so the guards of Admission are the guards of AdmissionPool.        *)
LEMMA RoomIsRoom ==
  ASSUME TypeOK, Conservation, NEW g \in Gates
  PROVE  /\ Pool!Room(g) <=> inflight[g] < MaxInflight(g)
         /\ Pool!QueueRoom(g) <=> queued[g] < MaxQueue(g)
<1>1. Pool!Members(Admitted, g) = Holders(g)
  BY DEF Pool!Members, Pool!PoolGates, Admitted, Holders, Pair
<1>2. Pool!Members(InQueue, g) = Waiters(g)
  BY DEF Pool!Members, Pool!PoolGates, InQueue, Waiters, Pair
<1> QED
  BY <1>1, <1>2 DEF Conservation, Pool!Room, Pool!QueueRoom, MaxInflight, MaxQueue

LEMMA PoolInitial == Init => Pool!PoolInit
BY DEF Init, Pool!PoolInit, Admitted, InQueue, Queued

LEMMA PoolStep ==
  ASSUME TypeOK, Conservation, [Next]_vars
  PROVE  [Pool!PoolNext]_(Pool!poolVars)
<1> USE DEF Pool!poolVars, Pool!PoolNext
<1>1. ASSUME NEW r \in Requests, NEW k \in Keys, AcquireNow(r, k)
      PROVE  Pool!PoolNext
  <2> DEFINE gate == <<k, ModelPolicy(k)>>
  <2>1. gate \in ModelGates /\ gate \in Gates /\ Global \in Gates
    BY PolicyGate DEF Gates
  <2>2. Pool!Room(Global) /\ Pool!Room(gate)
    BY <1>1, <2>1, RoomIsRoom DEF AcquireNow, Available, Pair
  <2>3. phase' = [phase EXCEPT ![r] = "held"] /\ gateOf' = [gateOf EXCEPT ![r] = gate]
        /\ phase[r] \in Outside
    BY <1>1 DEF AcquireNow
  <2>4. /\ Admitted' = Admitted \cup {r}
        /\ InQueue' = InQueue \ {r}
        /\ r \notin Admitted /\ r \notin InQueue
    BY <2>3 DEF Admitted, InQueue, Queued, Outside, TypeOK
  <2>5. Pool!Admit(r, gate)
    BY <2>2, <2>3, <2>4 DEF Pool!Admit, Admitted, InQueue
  <2>6. \E g \in ModelGates : Pool!Admit(r, g)
    BY <2>1, <2>5
  <2> QED BY <2>6
<1>2. ASSUME NEW r \in Requests, NEW k \in Keys, Enqueue(r, k)
      PROVE  Pool!PoolNext
  <2> DEFINE gate == <<k, ModelPolicy(k)>>
  <2>1. gate \in ModelGates /\ gate \in Gates /\ Global \in Gates
    BY PolicyGate DEF Gates
  <2>2. /\ ~(Pool!Room(Global) /\ Pool!Room(gate))
    BY <1>2, <2>1, RoomIsRoom DEF Enqueue, Available, Pair
  <2>3. Pool!QueueRoom(Global) /\ Pool!QueueRoom(gate)
    <3>1. ~(queued[Global] >= MaxQueue(Global)) /\ ~(queued[gate] >= MaxQueue(gate))
      BY <1>2 DEF Enqueue, QueueFull, Pair
    <3> QED BY <3>1, <2>1, GateFacts, RoomIsRoom DEF TypeOK
  <2>4. phase' = [phase EXCEPT ![r] = "waiting"] /\ gateOf' = [gateOf EXCEPT ![r] = gate]
        /\ phase[r] \in Outside
    BY <1>2 DEF Enqueue
  <2>5. /\ Admitted' = Admitted
        /\ InQueue' = InQueue \cup {r}
        /\ r \notin Admitted /\ r \notin InQueue
    BY <2>4 DEF Admitted, InQueue, Queued, Outside, TypeOK
  <2>6. Pool!Wait(r, gate)
    BY <2>2, <2>3, <2>4, <2>5 DEF Pool!Wait, Admitted, InQueue
  <2> HIDE DEF gate
  <2> QED BY <2>1, <2>6
<1>3. ASSUME NEW r \in Requests, WakeAdmitted(r)
      PROVE  Pool!PoolNext
  <2> DEFINE gate == gateOf[r]
  <2>1. gate \in ModelGates /\ gate \in Gates /\ Global \in Gates
    BY <1>3 DEF WakeAdmitted, TypeOK, Outside, Gates
  <2>2. Pool!Room(Global) /\ Pool!Room(gate)
    BY <1>3, <2>1, RoomIsRoom DEF WakeAdmitted, Available, Pair
  <2>3. phase' = [phase EXCEPT ![r] = "held"] /\ gateOf' = [gateOf EXCEPT ![r] = gate]
        /\ phase[r] = "woken"
    BY <1>3 DEF WakeAdmitted, TypeOK
  <2>4. /\ Admitted' = Admitted \cup {r}
        /\ InQueue' = InQueue \ {r}
        /\ r \notin Admitted
    BY <2>3 DEF Admitted, InQueue, Queued, TypeOK
  <2>5. Pool!Admit(r, gate)
    BY <2>2, <2>3, <2>4 DEF Pool!Admit, Admitted, InQueue
  <2>6. \E g \in ModelGates : Pool!Admit(r, g)
    BY <2>1, <2>5
  <2> QED BY <2>6
<1>4. ASSUME NEW r \in Requests, Timeout(r) \/ Cancel(r) \/ Release(r)
      PROVE  Pool!PoolNext
  <2>1. gateOf' = [gateOf EXCEPT ![r] = NoGate]
    BY <1>4 DEF Timeout, Cancel, Leave, Release
  <2>2. /\ Admitted' = Admitted \ {r}
        /\ InQueue' = InQueue \ {r}
        /\ r \in Admitted \cup InQueue
    BY <1>4 DEF Timeout, Cancel, Leave, Release, NotifyAll, Admitted, InQueue, Queued, TypeOK
  <2>3. Pool!Depart(r)
    BY <2>1, <2>2 DEF Pool!Depart, Admitted, InQueue
  <2> QED BY <2>3
<1>5. ASSUME NEW r \in Requests, (\E k \in Keys : RejectFull(r, k)) \/ WakeAgain(r)
      PROVE  UNCHANGED Pool!poolVars
  <2>1. gateOf' = gateOf
    BY <1>5 DEF RejectFull, WakeAgain
  <2>2. Admitted' = Admitted /\ InQueue' = InQueue
    BY <1>5 DEF RejectFull, WakeAgain, Admitted, InQueue, Queued, Outside, TypeOK
  <2> QED BY <2>1, <2>2 DEF Admitted, InQueue
<1>6. ASSUME UNCHANGED <<phase, gateOf>>
      PROVE  UNCHANGED Pool!poolVars
  BY <1>6 DEF Admitted, InQueue, Queued
<1> QED
  BY <1>1, <1>2, <1>3, <1>4, <1>5, <1>6 DEF Next, Acquire, Wake, Reconfigure, vars

(* Counters, condition variable and file implement the pool.                *)
THEOREM Refinement == Spec => ImplementsPool
<1>1. IInv /\ [Next]_vars => [Pool!PoolNext]_(Pool!poolVars)
  BY PoolStep DEF IInv
<1> QED BY <1>1, PoolInitial, Invariance, PTL DEF Spec, ImplementsPool, Pool!PoolSpec
=============================================================================
