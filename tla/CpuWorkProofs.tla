----------------------------- MODULE CpuWorkProofs -----------------------------
(***************************************************************************)
(* Proofs about CpuWork, for any number of callers and slots and any bound *)
(* of the queue.                                                           *)
(*                                                                         *)
(* That no slot is lost is a count (SlotConservation).  That nobody sleeps *)
(* beside a free slot needs the order of the deque too: somebody is first  *)
(* among the sleepers, or the wake-up could find no one (SomeoneIsFirst).  *)
(* That slots are given in that order needs it to be total (DequeTotal).   *)
(***************************************************************************)
EXTENDS CpuWork, SetCounting, WellFoundedInduction

Owning == Holding \cup {"handed", "returning"}
At(ph, P) == {c \in Callers : ph[c] \in P}

(* The deque is ordered: nobody is before himself, only waiters are before  *)
(* a waiter, and whoever is before one of them is before him.               *)
DequeOrdered ==
  \A c \in Queuers :
    /\ c \notin ahead[c]
    /\ ahead[c] \subseteq Queuers
    /\ \A d \in ahead[c] : ahead[d] \subseteq ahead[c]

(* Of two in the deque, one is before the other.                            *)
DequeTotal == \A c, d \in Queuers : c = d \/ c \in ahead[d] \/ d \in ahead[c]

IInv == TypeOK /\ SlotConservation /\ QueueBounded /\ DequeOrdered /\ NoStrandedWaiter

-----------------------------------------------------------------------------
LEMMA SetsByPhase ==
  /\ Owners = At(phase, Owning) /\ Owners' = At(phase', Owning)
  /\ Queuers = At(phase, InQueue) /\ Queuers' = At(phase', InQueue)
  /\ Active = At(phase, Holding) /\ Active' = At(phase', Holding)
BY DEF Owners, Queuers, Active, Owning, At

LEMMA FiniteAt ==
  ASSUME NEW ph, NEW P
  PROVE  IsFiniteSet(At(ph, P)) /\ Cardinality(At(ph, P)) \in Nat
<1>1. At(ph, P) \in SUBSET Callers
  BY DEF At
<1> QED BY <1>1, CpuWorkAssumption, CountPart

(* The phases of the module by enumeration.                                 *)
LEMMA PhaseFacts ==
  /\ Phases = {"out", "waiting", "handed", "leaving", "returning",
               "running", "interrupted", "draining"}
  /\ Holding = {"running", "interrupted", "draining"}
  /\ InQueue = {"waiting", "handed", "leaving", "returning"}
  /\ Owning = {"handed", "returning", "running", "interrupted", "draining"}
BY DEF Phases, Holding, InQueue, Owning

(* How many are at a set of phases once one caller has moved.               *)
LEMMA OneMoves ==
  ASSUME NEW ph \in [Callers -> Phases], NEW c \in Callers, NEW q \in Phases, NEW P
  PROVE  Cardinality(At([ph EXCEPT ![c] = q], P)) =
           Cardinality(At(ph, P)) + (IF q \in P THEN 1 ELSE 0)
                                  - (IF ph[c] \in P THEN 1 ELSE 0)
<1> DEFINE S == At(ph, P)
           T == At([ph EXCEPT ![c] = q], P)
<1>1. S \ {c} = T \ {c} /\ (c \in S <=> ph[c] \in P) /\ (c \in T <=> q \in P)
  BY DEF At
<1>2. IsFiniteSet(S)
  BY FiniteAt
<1>3. Cardinality(T) = Cardinality(S) + (IF c \in T THEN 1 ELSE 0) - (IF c \in S THEN 1 ELSE 0)
  <2> HIDE DEF S, T
  <2> QED BY <1>1, <1>2, CountDelta
<1> QED BY <1>1, <1>3

(* How many are where once a sleeper was handed a slot.                     *)
LEMMA Handing ==
  ASSUME NEW ph \in [Callers -> Phases], NEW d \in Callers, ph[d] = "waiting"
  PROVE  \A P : Cardinality(At([ph EXCEPT ![d] = "handed"], P)) =
                  Cardinality(At(ph, P)) + (IF "handed" \in P THEN 1 ELSE 0)
                                         - (IF "waiting" \in P THEN 1 ELSE 0)
<1>1. "handed" \in Phases
  BY PhaseFacts
<1>2. \A P : Cardinality(At([ph EXCEPT ![d] = "handed"], P)) =
               Cardinality(At(ph, P)) + (IF "handed" \in P THEN 1 ELSE 0)
                                      - (IF ph[d] \in P THEN 1 ELSE 0)
  BY <1>1, OneMoves
<1> QED BY <1>2

(* A wake-up moves one free slot to the first sleeper or leaves all alone.  *)
LEMMA WakeUpFacts ==
  ASSUME NEW ph \in [Callers -> Phases], NEW free \in Nat \ {0}, WakeUpNext(free, ph)
  PROVE  /\ phase' \in [Callers -> Phases]
         /\ value' \in Nat
         /\ value' + Cardinality(At(phase', Owning)) = free + Cardinality(At(ph, Owning))
         /\ Cardinality(At(phase', InQueue)) = Cardinality(At(ph, InQueue))
         /\ Cardinality(At(phase', Holding)) = Cardinality(At(ph, Holding))
         /\ \A d \in Callers :
              phase'[d] = ph[d] \/ (ph[d] = "waiting" /\ phase'[d] = "handed")
         /\ \/ FirstWaiting(ph) = {} /\ phase' = ph
            \/ \E d \in Callers : phase'[d] = "handed"
<1>1. CASE FirstWaiting(ph) = {} /\ value' = free /\ phase' = ph
  BY <1>1, FiniteAt
<1>2. ASSUME NEW d \in FirstWaiting(ph), value' = free - 1,
             phase' = [ph EXCEPT ![d] = "handed"]
      PROVE  /\ phase' \in [Callers -> Phases]
             /\ value' \in Nat
             /\ value' + Cardinality(At(phase', Owning)) = free + Cardinality(At(ph, Owning))
             /\ Cardinality(At(phase', InQueue)) = Cardinality(At(ph, InQueue))
             /\ Cardinality(At(phase', Holding)) = Cardinality(At(ph, Holding))
             /\ \A e \in Callers :
                  phase'[e] = ph[e] \/ (ph[e] = "waiting" /\ phase'[e] = "handed")
             /\ phase'[d] = "handed" /\ d \in Callers
  <2>1. d \in Callers /\ ph[d] = "waiting"
    BY <1>2 DEF FirstWaiting
  <2>2. phase' \in [Callers -> Phases]
    BY <1>2, PhaseFacts
  <2>3. /\ Cardinality(At(phase', Owning)) = Cardinality(At(ph, Owning)) + 1
        /\ Cardinality(At(phase', InQueue)) = Cardinality(At(ph, InQueue))
        /\ Cardinality(At(phase', Holding)) = Cardinality(At(ph, Holding))
    <3>1. \A P : Cardinality(At(phase', P)) =
                   Cardinality(At(ph, P)) + (IF "handed" \in P THEN 1 ELSE 0)
                                          - (IF "waiting" \in P THEN 1 ELSE 0)
      BY <1>2, <2>1, Handing
    <3> QED BY <3>1, PhaseFacts, FiniteAt
  <2> QED BY <1>2, <2>1, <2>2, <2>3, FiniteAt
<1> QED BY <1>1, <1>2 DEF WakeUpNext

-----------------------------------------------------------------------------
(* Types and slots.  The two go together: queued and value stay natural     *)
(* numbers because they count.                                              *)
LEMMA SlotsInit == Init => TypeOK /\ SlotConservation
<1> SUFFICES ASSUME Init PROVE TypeOK /\ SlotConservation
  OBVIOUS
<1>1. TypeOK
  BY CpuWorkAssumption, PhaseFacts DEF Init, TypeOK, Native
<1>2. Owners = {} /\ Queuers = {} /\ Active = {}
  BY PhaseFacts DEF Init, Owners, Queuers, Active
<1> QED BY <1>1, <1>2, CpuWorkAssumption, FS_EmptySet DEF Init, SlotConservation

(* The counts before a step, in the vocabulary of the lemmas above.         *)
LEMMA CountsNow ==
  ASSUME TypeOK, SlotConservation
  PROVE  /\ value \in Nat /\ queued \in Nat /\ active \in Nat
         /\ value + Cardinality(At(phase, Owning)) = Workers
         /\ queued = Cardinality(At(phase, InQueue))
         /\ active = Cardinality(At(phase, Holding))
         /\ \A c \in Callers : phase[c] \in InQueue => queued > 0
         /\ \A c \in Callers : phase[c] \in Holding => active > 0
<1>1. /\ value \in Nat /\ queued \in Nat /\ active \in Nat
      /\ value + Cardinality(At(phase, Owning)) = Workers
      /\ queued = Cardinality(At(phase, InQueue))
      /\ active = Cardinality(At(phase, Holding))
  BY SetsByPhase DEF TypeOK, SlotConservation
<1>2. ASSUME NEW c \in Callers, NEW P, phase[c] \in P
      PROVE  Cardinality(At(phase, P)) > 0
  <2>1. c \in At(phase, P)
    BY <1>2 DEF At
  <2> QED BY <2>1, FiniteAt, FS_EmptySet
<1> QED BY <1>1, <1>2

SlotsOK(v, q, a, ph) ==
  /\ v + Cardinality(At(ph, Owning)) = Workers
  /\ q = Cardinality(At(ph, InQueue))
  /\ a = Cardinality(At(ph, Holding))

(* Moving caller c to phase p, with the counters corrected accordingly,     *)
(* keeps the slots.                                                         *)
LEMMA MoveKeepsSlots ==
  ASSUME TypeOK, SlotConservation, NEW c \in Callers, NEW p \in Phases
  PROVE  LET In(x, P) == IF x \in P THEN 1 ELSE 0
         IN  SlotsOK(value - In(p, Owning) + In(phase[c], Owning),
                     queued + In(p, InQueue) - In(phase[c], InQueue),
                     active + In(p, Holding) - In(phase[c], Holding),
                     [phase EXCEPT ![c] = p])
<1>1. phase \in [Callers -> Phases]
  BY DEF TypeOK
<1>2. \A P : Cardinality(At([phase EXCEPT ![c] = p], P)) =
               Cardinality(At(phase, P)) + (IF p \in P THEN 1 ELSE 0)
                                         - (IF phase[c] \in P THEN 1 ELSE 0)
  BY <1>1, OneMoves
<1> DEFINE new == [phase EXCEPT ![c] = p]
           In(x, P) == IF x \in P THEN 1 ELSE 0
<1>3. /\ Cardinality(At(new, Owning)) =
           Cardinality(At(phase, Owning)) + In(p, Owning) - In(phase[c], Owning)
      /\ Cardinality(At(new, InQueue)) =
           Cardinality(At(phase, InQueue)) + In(p, InQueue) - In(phase[c], InQueue)
      /\ Cardinality(At(new, Holding)) =
           Cardinality(At(phase, Holding)) + In(p, Holding) - In(phase[c], Holding)
  BY <1>2
<1>4. /\ In(p, Owning) \in Nat /\ In(phase[c], Owning) \in Nat
      /\ Cardinality(At(phase, Owning)) \in Nat
  BY FiniteAt
<1> HIDE DEF new, In
<1>5. SlotsOK(value - In(p, Owning) + In(phase[c], Owning),
              queued + In(p, InQueue) - In(phase[c], InQueue),
              active + In(p, Holding) - In(phase[c], Holding), new)
  BY <1>3, <1>4, CountsNow, CpuWorkAssumption DEF SlotsOK
<1> QED BY <1>5 DEF new, In

LEMMA SlotsStep ==
  ASSUME TypeOK, SlotConservation, [Next]_vars
  PROVE  TypeOK' /\ SlotConservation'
<1> USE PhaseFacts
<1>0. /\ value \in Nat /\ queued \in Nat /\ active \in Nat
      /\ ahead \in [Callers -> SUBSET Callers]
      /\ phase \in [Callers -> Phases] /\ native \in [Callers -> Native]
      /\ \A c \in Callers : phase[c] \in Holding <=> native[c] # "none"
  BY DEF TypeOK
<1>00. Native = {"none", "starting", "calling", "between", "done"}
  BY DEF Native
(* It is enough to show that the counters follow the new phases.            *)
<1>1. ASSUME SlotsOK(value', queued', active', phase'),
             value' \in Nat, queued' \in Nat, active' \in Nat,
             ahead' \in [Callers -> SUBSET Callers],
             phase' \in [Callers -> Phases], native' \in [Callers -> Native],
             \A c \in Callers : phase'[c] \in Holding <=> native'[c] # "none"
      PROVE  TypeOK' /\ SlotConservation'
  BY <1>1, SetsByPhase DEF TypeOK, SlotConservation, SlotsOK
<1>2. \A c \in Callers, p \in Phases :
        LET In(x, P) == IF x \in P THEN 1 ELSE 0
        IN  SlotsOK(value - In(p, Owning) + In(phase[c], Owning),
                    queued + In(p, InQueue) - In(phase[c], InQueue),
                    active + In(p, Holding) - In(phase[c], Holding),
                    [phase EXCEPT ![c] = p])
  BY MoveKeepsSlots
<1>3. ASSUME NEW c \in Callers, RunNow(c)
      PROVE  TypeOK' /\ SlotConservation'
  <2>1. SlotsOK(value - 1 + 0, queued + 0 - 0, active + 1 - 0, [phase EXCEPT ![c] = "running"])
    BY <1>2, <1>3 DEF RunNow
  <2>2. value # 0
    BY <1>3 DEF RunNow, Locked
  <2> QED BY <1>0, <1>00, <1>1, <1>3, <2>1, <2>2 DEF RunNow
<1>4. ASSUME NEW c \in Callers, RunQueued(c)
      PROVE  TypeOK' /\ SlotConservation'
  <2>1. SlotsOK(value - 0 + 0, queued + 1 - 0, active + 0 - 0, [phase EXCEPT ![c] = "waiting"])
    BY <1>2, <1>4 DEF RunQueued
  <2> QED BY <1>0, <1>1, <1>4, <2>1 DEF RunQueued
<1>5. ASSUME NEW c \in Callers, Admitted(c)
      PROVE  TypeOK' /\ SlotConservation'
  <2> DEFINE ph == [phase EXCEPT ![c] = "running"]
  <2>1. SlotsOK(value - 1 + 1, queued + 0 - 1, active + 1 - 0, ph)
    BY <1>2, <1>5 DEF Admitted
  <2>2. ph \in [Callers -> Phases] /\ \A d \in Callers : d # c => ph[d] = phase[d]
    BY <1>0
  <2>3. ph[c] = "running" /\ queued > 0
    BY <1>0, <1>5, CountsNow DEF Admitted
  <2>4. /\ phase' \in [Callers -> Phases] /\ value' \in Nat
        /\ value' + Cardinality(At(phase', Owning)) = value + Cardinality(At(ph, Owning))
        /\ Cardinality(At(phase', InQueue)) = Cardinality(At(ph, InQueue))
        /\ Cardinality(At(phase', Holding)) = Cardinality(At(ph, Holding))
        /\ \A d \in Callers :
             phase'[d] = ph[d] \/ (ph[d] = "waiting" /\ phase'[d] = "handed")
    <3>1. CASE value > 0
      <4>1. WakeUpNext(value, ph)
        BY <1>5, <3>1 DEF Admitted
      <4> HIDE DEF ph
      <4> QED BY <1>0, <2>2, <3>1, <4>1, WakeUpFacts
    <3>2. CASE ~(value > 0)
      <4>1. value' = value /\ phase' = ph
        BY <1>5, <3>2 DEF Admitted
      <4> HIDE DEF ph
      <4> QED BY <1>0, <2>2, <4>1, FiniteAt
    <3> QED BY <3>1, <3>2
  <2>5. /\ queued' = queued - 1 /\ active' = active + 1
        /\ native' = [native EXCEPT ![c] = "starting"]
        /\ ahead' \in [Callers -> SUBSET Callers]
    BY <1>0, <1>5 DEF Admitted, RemoveWaiter
  <2> HIDE DEF ph
  <2>6. SlotsOK(value', queued', active', phase')
    BY <1>0, <2>1, <2>4, <2>5 DEF SlotsOK
  <2>7. \A d \in Callers : phase'[d] \in Holding <=> native'[d] # "none"
    BY <1>0, <2>2, <2>3, <2>4, <2>5
  <2> QED BY <1>0, <1>00, <1>1, <2>3, <2>4, <2>5, <2>6, <2>7
(* Two of the operations give a slot back and wake the next waiter.         *)
<1>6. ASSUME NEW c \in Callers, phase[c] \in Owning,
             WakeUpNext(value + 1, [phase EXCEPT ![c] = "out"])
      PROVE  /\ phase' \in [Callers -> Phases] /\ value' \in Nat
             /\ \A d \in Callers :
                  (phase'[d] \in Holding <=> d # c /\ phase[d] \in Holding)
             /\ phase[c] \in InQueue => SlotsOK(value', queued - 1, active, phase')
             /\ phase[c] \in Holding => SlotsOK(value', queued, active - 1, phase')
  <2> DEFINE ph == [phase EXCEPT ![c] = "out"]
  <2>1. /\ phase[c] \in InQueue => SlotsOK(value - 0 + 1, queued + 0 - 1, active + 0 - 0, ph)
        /\ phase[c] \in Holding => SlotsOK(value - 0 + 1, queued + 0 - 0, active + 0 - 1, ph)
    BY <1>2, <1>6
  <2>2. ph \in [Callers -> Phases] /\ ph[c] = "out"
        /\ \A d \in Callers : d # c => ph[d] = phase[d]
    BY <1>0
  <2>3. value + 1 \in Nat \ {0} /\ WakeUpNext(value + 1, ph)
    BY <1>0, <1>6
  <2> HIDE DEF ph
  <2>4. /\ phase' \in [Callers -> Phases] /\ value' \in Nat
        /\ value' + Cardinality(At(phase', Owning)) = value + 1 + Cardinality(At(ph, Owning))
        /\ Cardinality(At(phase', InQueue)) = Cardinality(At(ph, InQueue))
        /\ Cardinality(At(phase', Holding)) = Cardinality(At(ph, Holding))
        /\ \A d \in Callers :
             phase'[d] = ph[d] \/ (ph[d] = "waiting" /\ phase'[d] = "handed")
    BY <2>2, <2>3, WakeUpFacts
  <2>5. /\ phase[c] \in InQueue => SlotsOK(value', queued - 1, active, phase')
        /\ phase[c] \in Holding => SlotsOK(value', queued, active - 1, phase')
    BY <1>0, <2>1, <2>4 DEF SlotsOK
  <2>6. \A d \in Callers : (phase'[d] \in Holding <=> d # c /\ phase[d] \in Holding)
    BY <2>2, <2>4
  <2> QED BY <2>4, <2>5, <2>6
<1>7. ASSUME NEW c \in Callers, Returned(c)
      PROVE  TypeOK' /\ SlotConservation'
  <2>1. phase[c] = "returning" /\ queued > 0
    BY <1>7, CountsNow DEF Returned
  <2>2. WakeUpNext(value + 1, [phase EXCEPT ![c] = "out"])
    BY <1>7 DEF Returned
  <2>3. /\ queued' = queued - 1 /\ active' = active /\ native' = native
        /\ ahead' \in [Callers -> SUBSET Callers]
    BY <1>0, <1>7 DEF Returned, RemoveWaiter
  <2>4. /\ phase' \in [Callers -> Phases] /\ value' \in Nat
        /\ \A d \in Callers : (phase'[d] \in Holding <=> d # c /\ phase[d] \in Holding)
        /\ SlotsOK(value', queued - 1, active, phase')
    BY <1>6, <2>1, <2>2
  <2>5. \A d \in Callers : phase'[d] \in Holding <=> native'[d] # "none"
    BY <1>0, <2>1, <2>3, <2>4
  <2>6. queued - 1 \in Nat
    BY <1>0, <2>1
  <2> QED BY <1>0, <1>1, <2>3, <2>4, <2>5, <2>6
<1>8. ASSUME NEW c \in Callers, Finish(c)
      PROVE  TypeOK' /\ SlotConservation'
  <2>1. phase[c] \in Holding /\ active > 0
    BY <1>8, CountsNow DEF Finish
  <2>2. WakeUpNext(value + 1, [phase EXCEPT ![c] = "out"])
    BY <1>8 DEF Finish
  <2>3. /\ active' = active - 1 /\ queued' = queued /\ ahead' = ahead
        /\ native' = [native EXCEPT ![c] = "none"]
    BY <1>8 DEF Finish
  <2>4. /\ phase' \in [Callers -> Phases] /\ value' \in Nat
        /\ \A d \in Callers : (phase'[d] \in Holding <=> d # c /\ phase[d] \in Holding)
        /\ SlotsOK(value', queued, active - 1, phase')
    BY <1>6, <2>1, <2>2
  <2>5. native' \in [Callers -> Native]
        /\ \A d \in Callers : phase'[d] \in Holding <=> native'[d] # "none"
    BY <1>0, <1>00, <2>3, <2>4
  <2>6. active - 1 \in Nat
    BY <1>0, <2>1
  <2> QED BY <1>0, <1>1, <2>3, <2>4, <2>5, <2>6
(* Steps that leave the slots and the counters alone.                       *)
<1>9. ASSUME NEW c \in Callers, GiveUp(c) \/ Interrupt(c) \/ Drain(c)
      PROVE  TypeOK' /\ SlotConservation'
  <2> DEFINE p == IF phase[c] = "waiting" THEN "leaving"
                  ELSE IF phase[c] = "handed" THEN "returning"
                  ELSE IF phase[c] = "running" THEN "interrupted" ELSE "draining"
  <2>1. /\ phase' = [phase EXCEPT ![c] = p] /\ p \in Phases
        /\ p \in Owning <=> phase[c] \in Owning
        /\ p \in InQueue <=> phase[c] \in InQueue
        /\ p \in Holding <=> phase[c] \in Holding
        /\ UNCHANGED <<value, ahead, queued, active, native>>
    BY <1>9 DEF GiveUp, Interrupt, Drain
  <2> HIDE DEF p
  <2>2. SlotsOK(value, queued, active, [phase EXCEPT ![c] = p])
    <3> DEFINE In(x, P) == IF x \in P THEN 1 ELSE 0
    <3>1. SlotsOK(value - In(p, Owning) + In(phase[c], Owning),
                  queued + In(p, InQueue) - In(phase[c], InQueue),
                  active + In(p, Holding) - In(phase[c], Holding),
                  [phase EXCEPT ![c] = p])
      BY <1>2, <2>1
    <3>2. /\ value - In(p, Owning) + In(phase[c], Owning) = value
          /\ queued + In(p, InQueue) - In(phase[c], InQueue) = queued
          /\ active + In(p, Holding) - In(phase[c], Holding) = active
      BY <1>0, <2>1
    <3> HIDE DEF In
    <3> QED BY <3>1, <3>2
  <2> QED BY <1>0, <1>1, <2>1, <2>2
<1>10. ASSUME NEW c \in Callers, Left(c)
       PROVE  TypeOK' /\ SlotConservation'
  <2>1. SlotsOK(value - 0 + 0, queued + 0 - 1, active + 0 - 0, [phase EXCEPT ![c] = "out"])
    BY <1>2, <1>10 DEF Left
  <2>2. queued > 0 /\ phase[c] = "leaving"
    BY <1>10, CountsNow DEF Left
  <2> QED BY <1>0, <1>1, <1>10, <2>1, <2>2 DEF Left, RemoveWaiter
<1>11. ASSUME NEW c \in Callers, Thread(c)
       PROVE  TypeOK' /\ SlotConservation'
  <2>1. /\ UNCHANGED <<value, ahead, queued, active, phase>>
        /\ \E n \in Native : n # "none" /\ native' = [native EXCEPT ![c] = n]
        /\ native[c] # "none"
    BY <1>11, <1>00 DEF Thread, NativeBegins, NativeCallEnds, NativeReturns
  <2> QED BY <1>0, <1>1, <2>1, CountsNow DEF SlotsOK
<1>12. ASSUME UNCHANGED vars
       PROVE  TypeOK' /\ SlotConservation'
  BY <1>0, <1>1, <1>12, CountsNow DEF vars, SlotsOK
<1> QED
  BY <1>3, <1>4, <1>5, <1>7, <1>8, <1>9, <1>10, <1>11, <1>12
  DEF Next, Run, RunFull, Resume

-----------------------------------------------------------------------------
(* A waiter that runs, gives up or returns its slot leaves the deque, and   *)
(* nobody else does.                                                        *)
LEMMA OneLeavesDeque ==
  ASSUME NEW c \in Callers, Returned(c) \/ Admitted(c) \/ Left(c), TypeOK
  PROVE  Queuers' = Queuers \ {c} /\ RemoveWaiter(c)
<1> USE PhaseFacts
<1>1. ASSUME NEW ph, ph = [phase EXCEPT ![c] = "out"] \/ ph = [phase EXCEPT ![c] = "running"],
             NEW v, WakeUpNext(v, ph) \/ phase' = ph
      PROVE  Queuers' = Queuers \ {c}
  BY <1>1 DEF WakeUpNext, FirstWaiting, Queuers, TypeOK
<1>2. CASE Returned(c)
  BY <1>1, <1>2 DEF Returned
<1>3. CASE Admitted(c)
  BY <1>1, <1>3 DEF Admitted
<1>4. CASE Left(c)
  BY <1>1, <1>4 DEF Left
<1> QED BY <1>2, <1>3, <1>4 DEF Returned, Admitted, Left

LEMMA OrderStep ==
  ASSUME TypeOK, DequeOrdered, [Next]_vars
  PROVE  DequeOrdered'
<1> USE PhaseFacts
<1>1. ASSUME NEW c \in Callers, RunQueued(c)
      PROVE  DequeOrdered'
  <2>1. c \notin Queuers /\ Queuers' = Queuers \cup {c}
    BY <1>1 DEF RunQueued, Queuers, TypeOK
  <2>2. ahead' = [ahead EXCEPT ![c] = Queuers]
    BY <1>1 DEF RunQueued, Queuers
  <2>3. ahead \in [Callers -> SUBSET Callers] /\ Queuers \subseteq Callers
    BY DEF TypeOK, Queuers
  <2> QED BY <2>1, <2>2, <2>3 DEF DequeOrdered
<1>2. ASSUME NEW c \in Callers, Admitted(c) \/ Left(c) \/ Returned(c)
      PROVE  DequeOrdered'
  <2>1. Queuers' = Queuers \ {c} /\ Queuers \subseteq Callers
    BY <1>2, OneLeavesDeque DEF Queuers
  <2>2. \A d \in Callers : d # c => ahead'[d] = ahead[d] \ {c}
    BY <1>2, OneLeavesDeque DEF RemoveWaiter
  <2> QED BY <2>1, <2>2 DEF DequeOrdered
<1>3. ASSUME ahead' = ahead, Queuers' = Queuers
      PROVE  DequeOrdered'
  BY <1>3 DEF DequeOrdered
<1>4. ASSUME NEW c \in Callers, Finish(c)
      PROVE  ahead' = ahead /\ Queuers' = Queuers
  <2>1. phase[c] \in Holding /\ WakeUpNext(value + 1, [phase EXCEPT ![c] = "out"])
    BY <1>4 DEF Finish
  <2>2. Queuers' = Queuers
    BY <2>1 DEF WakeUpNext, FirstWaiting, Queuers, TypeOK
  <2> QED BY <1>4, <2>2 DEF Finish
<1>5. ASSUME NEW c \in Callers,
             RunNow(c) \/ GiveUp(c) \/ Drain(c) \/ Thread(c) \/ Interrupt(c)
      PROVE  ahead' = ahead /\ Queuers' = Queuers
  BY <1>5 DEF RunNow, GiveUp, Drain, Thread, NativeBegins, NativeCallEnds, NativeReturns,
              Interrupt, Queuers, TypeOK
<1>6. ASSUME UNCHANGED vars
      PROVE  ahead' = ahead /\ Queuers' = Queuers
  BY <1>6 DEF vars, Queuers
<1> QED
  BY <1>1, <1>2, <1>3, <1>4, <1>5, <1>6 DEF Next, Run, RunFull, Resume

(* Among sleepers somebody is first: the one with the fewest waiters ahead. *)
LEMMA SomeoneIsFirst ==
  ASSUME TypeOK, DequeOrdered,
         NEW ph \in [Callers -> Phases], NEW e \in Callers, ph[e] = "waiting",
         \A d \in Callers : ph[d] = "waiting" => phase[d] = "waiting"
  PROVE  FirstWaiting(ph) # {}
<1> DEFINE Sleepers == {d \in Callers : ph[d] = "waiting"}
           T == {Cardinality(ahead[d]) : d \in Sleepers}
<1>1. \A d \in Callers : IsFiniteSet(ahead[d]) /\ Cardinality(ahead[d]) \in Nat
  <2> SUFFICES ASSUME NEW d \in Callers
               PROVE IsFiniteSet(ahead[d]) /\ Cardinality(ahead[d]) \in Nat
    OBVIOUS
  <2>1. ahead[d] \in SUBSET Callers
    BY DEF TypeOK
  <2> QED BY <2>1, CpuWorkAssumption, CountPart
<1>2. T \subseteq Nat /\ T # {}
  BY <1>1
<1>3. \E x \in T : \A y \in T : ~(<<y, x>> \in OpToRel(<, Nat))
  BY <1>2, WFMin, NatLessThanWellFounded
<1>4. PICK c \in Sleepers : \A d \in Sleepers :
               ~(Cardinality(ahead[d]) < Cardinality(ahead[c]))
  BY <1>1, <1>3 DEF OpToRel
<1>5. ASSUME NEW d \in ahead[c], ph[d] = "waiting"
      PROVE  FALSE
  <2>1. c \in Queuers
    BY <1>4, PhaseFacts DEF Queuers
  <2>2. d \in Queuers /\ d \in Callers
    BY <2>1 DEF DequeOrdered, Queuers
  <2>3. ahead[d] \in SUBSET (ahead[c] \ {d})
    BY <2>1, <2>2 DEF DequeOrdered
  <2>4. IsFiniteSet(ahead[c]) /\ d \in ahead[c]
    BY <1>1, <1>4
  <2>5. IsFiniteSet(ahead[c] \ {d}) /\ Cardinality(ahead[c] \ {d}) = Cardinality(ahead[c]) - 1
    BY <2>4, FS_RemoveElement
  <2>6. Cardinality(ahead[d]) <= Cardinality(ahead[c] \ {d})
    BY <2>3, <2>5, CountPart
  <2> QED BY <1>1, <1>4, <1>5, <2>2, <2>5, <2>6
<1> QED BY <1>4, <1>5 DEF FirstWaiting

-----------------------------------------------------------------------------
(* The bound of the queue: only RunQueued lengthens it, below the bound.    *)
LEMMA QueueStep ==
  ASSUME TypeOK, SlotConservation, QueueBounded, [Next]_vars
  PROVE  QueueBounded'
<1>1. queued = Cardinality(Queuers) /\ queued' = Cardinality(Queuers)' /\ queued \in Nat
  BY SlotsStep DEF SlotConservation, TypeOK
<1>2. queued' <= queued \/ (queued < MaxQueue /\ queued' = queued + 1)
  <2>1. ASSUME NEW c \in Callers, RunQueued(c)
        PROVE  queued < MaxQueue /\ queued' = queued + 1
    BY <2>1 DEF RunQueued
  <2>2. ASSUME NEW c \in Callers, Admitted(c) \/ Left(c) \/ Returned(c)
        PROVE  queued' = queued - 1
    BY <2>2 DEF Admitted, Left, Returned
  <2>3. ASSUME NEW c \in Callers,
               RunNow(c) \/ RunFull(c) \/ GiveUp(c) \/ Drain(c) \/ Finish(c)
               \/ Thread(c) \/ Interrupt(c)
        PROVE  queued' = queued
    BY <2>3 DEF RunNow, RunFull, GiveUp, Drain, Finish, Thread, NativeBegins,
                NativeCallEnds, NativeReturns, Interrupt, vars
  <2> QED BY <1>1, <2>1, <2>2, <2>3 DEF Next, Run, Resume, vars
<1> QED BY <1>1, <1>2, CpuWorkAssumption DEF QueueBounded

(* A wake-up leaves no sleeper beside a free slot with nobody to wake him.  *)
LEMMA WakeUpLeavesNoStray ==
  ASSUME TypeOK, DequeOrdered, NEW c \in Callers, NEW q \in {"out", "running"},
         NEW v \in Nat \ {0}, WakeUpNext(v, [phase EXCEPT ![c] = q])
  PROVE  NoStrandedWaiter'
<1> DEFINE ph == [phase EXCEPT ![c] = q]
<1>1. ph \in [Callers -> Phases]
      /\ \A d \in Callers : ph[d] = "waiting" => phase[d] = "waiting"
  BY PhaseFacts DEF TypeOK
<1>2. (FirstWaiting(ph) = {} /\ phase' = ph) \/ \E d \in Callers : phase'[d] = "handed"
  <2>1. WakeUpNext(v, ph)
    OBVIOUS
  <2> HIDE DEF ph
  <2> QED BY <1>1, <2>1, WakeUpFacts
<1>3. CASE FirstWaiting(ph) = {} /\ phase' = ph
  <2> HIDE DEF ph
  <2>1. \A d \in Callers : ph[d] # "waiting"
    BY <1>1, <1>3, SomeoneIsFirst
  <2> QED BY <1>3, <2>1 DEF NoStrandedWaiter
<1> QED BY <1>2, <1>3 DEF NoStrandedWaiter

LEMMA StrandedStep ==
  ASSUME TypeOK, DequeOrdered, NoStrandedWaiter, [Next]_vars
  PROVE  NoStrandedWaiter'
<1>0. value \in Nat /\ value + 1 \in Nat \ {0}
  BY DEF TypeOK
<1>1. ASSUME NEW c \in Callers, Returned(c) \/ Finish(c)
      PROVE  NoStrandedWaiter'
  <2>1. WakeUpNext(value + 1, [phase EXCEPT ![c] = "out"])
    BY <1>1 DEF Returned, Finish
  <2> QED BY <1>0, <2>1, WakeUpLeavesNoStray
<1>2. ASSUME NEW c \in Callers, Admitted(c)
      PROVE  NoStrandedWaiter'
  <2>1. CASE value > 0
    <3>1. WakeUpNext(value, [phase EXCEPT ![c] = "running"]) /\ value \in Nat \ {0}
      BY <1>0, <1>2, <2>1 DEF Admitted
    <3> QED BY <3>1, WakeUpLeavesNoStray
  <2>2. CASE ~(value > 0)
    BY <1>2, <2>2 DEF Admitted, NoStrandedWaiter
  <2> QED BY <2>1, <2>2
<1>3. ASSUME NEW c \in Callers, Run(c)
      PROVE  NoStrandedWaiter'
  <2>1. CASE RunNow(c)
    BY <2>1 DEF RunNow, Locked, NoStrandedWaiter, TypeOK
  <2>2. CASE RunQueued(c)
    <3>1. value = 0 \/ \E d \in Callers : phase[d] \in {"handed", "returning"}
      BY <2>2, <1>0 DEF RunQueued, Locked, NoStrandedWaiter
    <3>2. value' = value /\ \A d \in Callers : phase[d] \in {"handed", "returning"} =>
                                                phase'[d] = phase[d]
      BY <2>2 DEF RunQueued, TypeOK
    <3> QED BY <1>0, <3>1, <3>2 DEF NoStrandedWaiter
  <2>3. CASE RunFull(c)
    BY <2>3 DEF RunFull, vars, NoStrandedWaiter
  <2> QED BY <1>3, <2>1, <2>2, <2>3 DEF Run
<1>4. ASSUME NEW c \in Callers,
             GiveUp(c) \/ Left(c) \/ Drain(c) \/ Interrupt(c) \/ Thread(c)
      PROVE  NoStrandedWaiter'
  <2>1. /\ value' = value
        /\ \A d \in Callers : phase'[d] = "waiting" => phase[d] = "waiting"
        /\ \A d \in Callers : phase[d] \in {"handed", "returning"} =>
                               phase'[d] \in {"handed", "returning"}
    BY <1>4 DEF GiveUp, Left, Drain, Interrupt, Thread, NativeBegins, NativeCallEnds,
                NativeReturns, TypeOK
  <2> QED BY <2>1 DEF NoStrandedWaiter
<1>5. CASE UNCHANGED vars
  BY <1>5 DEF vars, NoStrandedWaiter
<1> QED BY <1>1, <1>2, <1>3, <1>4, <1>5 DEF Next, Resume

-----------------------------------------------------------------------------
(* All of it is invariant, for any number of callers and slots.             *)
THEOREM Invariance == Spec => []IInv
<1>1. Init => IInv
  <2> SUFFICES ASSUME Init PROVE IInv
    OBVIOUS
  <2>1. Queuers = {} /\ \A c \in Callers : phase[c] # "waiting"
    BY PhaseFacts DEF Init, Queuers
  <2>2. QueueBounded /\ DequeOrdered /\ NoStrandedWaiter
    BY <2>1, FS_EmptySet, CpuWorkAssumption DEF QueueBounded, DequeOrdered, NoStrandedWaiter
  <2> QED BY <2>2, SlotsInit DEF IInv
<1>2. IInv /\ [Next]_vars => IInv'
  BY SlotsStep, OrderStep, QueueStep, StrandedStep DEF IInv
<1> QED BY <1>1, <1>2, PTL DEF Spec

(* No slot is lost and none has two owners, however waits and work end.     *)
THEOREM SlotsConserved == Spec => []SlotConservation
<1>1. IInv => SlotConservation
  BY DEF IInv
<1> QED BY <1>1, Invariance, PTL

(* Native threads never outnumber the slots, and each works for a caller    *)
(* that still holds one.                                                    *)
THEOREM ThreadsWithinSlots == Spec => []NativeWithinSlots
<1>1. IInv => NativeWithinSlots
  <2> SUFFICES ASSUME IInv PROVE NativeWithinSlots
    OBVIOUS
  <2>1. InThread \subseteq Active
    BY DEF IInv, TypeOK, InThread, Active
  <2>2. InThread \in SUBSET Owners /\ IsFiniteSet(Owners)
    BY <2>1, SetsByPhase, FiniteAt, PhaseFacts DEF Active, Owners
  <2>3. Cardinality(InThread) <= Cardinality(Owners) /\ Cardinality(InThread) \in Nat
        /\ Cardinality(Owners) \in Nat
    BY <2>2, CountPart
  <2> QED BY <2>1, <2>3, CpuWorkAssumption DEF IInv, TypeOK, SlotConservation, NativeWithinSlots
<1> QED BY <1>1, Invariance, PTL

(* The queue keeps its bound.                                               *)
THEOREM QueueKeepsBound == Spec => []QueueBounded
<1>1. IInv => QueueBounded
  BY DEF IInv
<1> QED BY <1>1, Invariance, PTL

(* A free slot and a sleeper never stay together with nobody about to run.  *)
THEOREM NobodyStranded == Spec => []NoStrandedWaiter
<1>1. IInv => NoStrandedWaiter
  BY DEF IInv
<1> QED BY <1>1, Invariance, PTL

-----------------------------------------------------------------------------
(* The order of the slots.                                                  *)
LEMMA TotalStep ==
  ASSUME TypeOK, DequeTotal, [Next]_vars
  PROVE  DequeTotal'
<1> USE PhaseFacts
<1>1. ASSUME NEW c \in Callers, RunQueued(c)
      PROVE  DequeTotal'
  <2>1. c \notin Queuers /\ Queuers' = Queuers \cup {c}
    BY <1>1 DEF RunQueued, Queuers, TypeOK
  <2>2. ahead' = [ahead EXCEPT ![c] = Queuers]
    BY <1>1 DEF RunQueued, Queuers
  <2>3. ahead \in [Callers -> SUBSET Callers] /\ Queuers \subseteq Callers
    BY DEF TypeOK, Queuers
  <2> QED BY <2>1, <2>2, <2>3 DEF DequeTotal
<1>2. ASSUME NEW c \in Callers, Admitted(c) \/ Left(c) \/ Returned(c)
      PROVE  DequeTotal'
  <2>1. Queuers' = Queuers \ {c} /\ Queuers \subseteq Callers
    BY <1>2, OneLeavesDeque DEF Queuers
  <2>2. \A d \in Callers : d # c => ahead'[d] = ahead[d] \ {c}
    BY <1>2, OneLeavesDeque DEF RemoveWaiter
  <2> QED BY <2>1, <2>2 DEF DequeTotal
<1>3. ASSUME ahead' = ahead, Queuers' = Queuers
      PROVE  DequeTotal'
  BY <1>3 DEF DequeTotal
<1>4. ASSUME NEW c \in Callers, Finish(c)
      PROVE  ahead' = ahead /\ Queuers' = Queuers
  <2>1. phase[c] \in Holding /\ WakeUpNext(value + 1, [phase EXCEPT ![c] = "out"])
    BY <1>4 DEF Finish
  <2>2. Queuers' = Queuers
    BY <2>1 DEF WakeUpNext, FirstWaiting, Queuers, TypeOK
  <2> QED BY <1>4, <2>2 DEF Finish
<1>5. ASSUME NEW c \in Callers,
             RunNow(c) \/ GiveUp(c) \/ Drain(c) \/ Thread(c) \/ Interrupt(c)
      PROVE  ahead' = ahead /\ Queuers' = Queuers
  BY <1>5 DEF RunNow, GiveUp, Drain, Thread, NativeBegins, NativeCallEnds, NativeReturns,
              Interrupt, Queuers, TypeOK
<1>6. ASSUME UNCHANGED vars
      PROVE  ahead' = ahead /\ Queuers' = Queuers
  BY <1>6 DEF vars, Queuers
<1> QED
  BY <1>1, <1>2, <1>3, <1>4, <1>5, <1>6 DEF Next, Run, RunFull, Resume

Passes(c, d) ==
  /\ c \notin Owners /\ c \in Owners'
  /\ phase[d] = "waiting" /\ phase'[d] = "waiting"

(* A wake-up hands the slot to the first of the sleepers, who is before     *)
(* every other one; the caller it runs for owned a slot already or leaves.  *)
LEMMA WakeUpInOrder ==
  ASSUME TypeOK, DequeTotal, NEW b \in Callers, NEW q \in {"out", "running"},
         phase[b] \in Owning, NEW v, WakeUpNext(v, [phase EXCEPT ![b] = q]),
         NEW c \in Callers, NEW d \in Callers, Passes(c, d)
  PROVE  c \in ahead[d]
<1> USE PhaseFacts
<1> DEFINE ph == [phase EXCEPT ![b] = q]
<1>1. phase \in [Callers -> Phases]
  BY DEF TypeOK
<1>2. Owners = At(phase, Owning) /\ Owners' = At(phase', Owning)
  BY SetsByPhase
<1>3. CASE phase' = ph
  BY <1>1, <1>2, <1>3 DEF Passes, At
<1>4. ASSUME NEW e \in FirstWaiting(ph), phase' = [ph EXCEPT ![e] = "handed"]
      PROVE  c \in ahead[d]
  <2>1. e \in Callers /\ ph[e] = "waiting" /\ \A x \in ahead[e] : ph[x] # "waiting"
    BY DEF FirstWaiting
  <2>2. c = e
    BY <1>1, <1>2, <1>4, <2>1 DEF Passes, At
  <2>3. d # e /\ ph[d] = "waiting" /\ phase[e] = "waiting" /\ phase[d] = "waiting"
    BY <1>1, <1>4, <2>1 DEF Passes
  <2>4. e \in Queuers /\ d \in Queuers
    BY <2>1, <2>3 DEF Queuers
  <2> QED BY <2>1, <2>2, <2>3, <2>4 DEF DequeTotal
<1> QED BY <1>3, <1>4 DEF WakeUpNext

LEMMA SlotsInOrder ==
  ASSUME TypeOK, DequeTotal, [Next]_vars, NEW c \in Callers, NEW d \in Callers, Passes(c, d)
  PROVE  c \in ahead[d]
<1> USE PhaseFacts
<1>1. ASSUME NEW b \in Callers, Returned(b) \/ Finish(b)
      PROVE  c \in ahead[d]
  <2>1. phase[b] \in Owning /\ WakeUpNext(value + 1, [phase EXCEPT ![b] = "out"])
    BY <1>1 DEF Returned, Finish
  <2> QED BY <2>1, WakeUpInOrder
<1>2. ASSUME NEW b \in Callers, Admitted(b)
      PROVE  c \in ahead[d]
  <2>1. CASE value > 0
    <3>1. phase[b] \in Owning /\ WakeUpNext(value, [phase EXCEPT ![b] = "running"])
      BY <1>2, <2>1 DEF Admitted
    <3> QED BY <3>1, WakeUpInOrder
  <2>2. CASE ~(value > 0)
    <3>1. phase[b] = "handed" /\ phase' = [phase EXCEPT ![b] = "running"]
      BY <1>2, <2>2 DEF Admitted
    <3> QED BY <3>1, SetsByPhase DEF Passes, At, TypeOK
  <2> QED BY <2>1, <2>2
<1>3. ASSUME NEW b \in Callers, RunNow(b)
      PROVE  c \in ahead[d]
  BY <1>3 DEF RunNow, Locked, Passes
<1>4. ASSUME NEW b \in Callers,
             RunQueued(b) \/ RunFull(b) \/ GiveUp(b) \/ Left(b) \/ Drain(b) \/ Interrupt(b)
             \/ Thread(b)
      PROVE  Owners' \subseteq Owners
  <2>1. At(phase', Owning) \subseteq At(phase, Owning)
    BY <1>4 DEF RunQueued, RunFull, GiveUp, Left, Drain, Interrupt, Thread, NativeBegins,
                NativeCallEnds, NativeReturns, At, TypeOK, vars
  <2> QED BY <2>1, SetsByPhase
<1>5. CASE UNCHANGED vars
  <2>1. Owners' = Owners
    BY <1>5 DEF vars, Owners
  <2> QED BY <2>1 DEF Passes
<1> QED BY <1>1, <1>2, <1>3, <1>4, <1>5 DEF Next, Run, Resume, Passes

(* Slots are given in the order of arrival, whoever times out, is cancelled *)
(* or comes while the pool has a slot free: nobody who gets one overtakes a *)
(* caller that sleeps on.                                                   *)
THEOREM GivenInOrder == Spec => NoBarging
<1> DEFINE InOrder == \A c, d \in Callers :
       /\ c \notin Owners /\ c \in Owners'
       /\ phase[d] = "waiting" /\ phase'[d] = "waiting"
       => c \in ahead[d]
<1>1. Init => DequeTotal
  BY PhaseFacts DEF Init, DequeTotal, Queuers
<1>2. IInv /\ DequeTotal /\ [Next]_vars => DequeTotal'
  BY TotalStep DEF IInv
<1>3. IInv /\ DequeTotal /\ [Next]_vars => [InOrder]_vars
  <2> SUFFICES ASSUME IInv, DequeTotal, [Next]_vars PROVE InOrder
    OBVIOUS
  <2> QED BY SlotsInOrder DEF IInv, Passes
<1> HIDE DEF InOrder
<1>4. Spec => [][InOrder]_vars
  BY <1>1, <1>2, <1>3, Invariance, PTL DEF Spec
<1> QED BY <1>4 DEF NoBarging, InOrder
=============================================================================
