-------------------------------- MODULE CpuWork --------------------------------
(***************************************************************************)
(* The CPU work pool of the gateway (src/gateway/cpu_work.py): a bounded   *)
(* number of callers run tokenizer work in native threads, a bounded       *)
(* number wait for a slot, and a cancelled caller keeps its slot until its *)
(* current native call has returned.                                       *)
(*                                                                         *)
(* The slots are an asyncio.Semaphore, modelled from how the pool uses it: *)
(* a release hands the slot to the first sleeping waiter, which owns it    *)
(* before it runs.  Callers interleave between suspension points; native   *)
(* threads interleave with everything.                                     *)
(***************************************************************************)
EXTENDS Integers, FiniteSets

CONSTANTS
  Callers,   \* calls of CpuWorkPool.run
  Workers,   \* GATEWAY_CPU_WORKERS
  MaxQueue   \* GATEWAY_CPU_MAX_QUEUE

ASSUME CpuWorkAssumption ==
  /\ IsFiniteSet(Callers)
  /\ Workers \in Nat \ {0}
  /\ MaxQueue \in Nat

VARIABLES
  value,    \* Semaphore._value: slots nobody owns
  ahead,    \* Semaphore._waiters: for each waiter, those before it in the deque
  queued,   \* CpuWorkPool.queued
  active,   \* CpuWorkPool.active
  phase,    \* where each caller is in run
  native    \* what the worker thread does for each caller

vars == <<value, ahead, queued, active, phase, native>>

(* A waiter whose wait ended early is "leaving", or "returning" when it had *)
(* been handed a slot.  A cancelled caller is "interrupted" until its       *)
(* handler runs and sets the stop event, then "draining".                   *)
InQueue == {"waiting", "handed", "leaving", "returning"}
Holding == {"running", "interrupted", "draining"}
Phases == {"out"} \cup InQueue \cup Holding

(* The thread's task: not created; created; inside a native call; between   *)
(* two native calls; over.                                                  *)
Native == {"none", "starting", "calling", "between", "done"}

TypeOK ==
  /\ value \in Nat
  /\ ahead \in [Callers -> SUBSET Callers]
  /\ queued \in Nat
  /\ active \in Nat
  /\ phase \in [Callers -> Phases]
  /\ native \in [Callers -> Native]
  /\ \A c \in Callers : phase[c] \in Holding <=> native[c] # "none"

Init ==
  /\ value = Workers
  /\ ahead = [c \in Callers |-> {}]
  /\ queued = 0
  /\ active = 0
  /\ phase = [c \in Callers |-> "out"]
  /\ native = [c \in Callers |-> "none"]

-----------------------------------------------------------------------------
(* The semaphore.                                                           *)
Locked == value = 0 \/ \E c \in Callers : phase[c] \in {"waiting", "handed", "returning"}

(* Variant: any waiter may be the next, not the first of the deque.         *)
AnyWaiting(ph) == {c \in Callers : ph[c] = "waiting"}

FirstWaiting(ph) ==
  {c \in Callers : ph[c] = "waiting" /\ \A d \in ahead[c] : ph[d] # "waiting"}

(* _wake_up_next, with free slots and ph the phases: the first waiter that  *)
(* still sleeps, if any, owns a slot from now on.                           *)
WakeUpNext(free, ph) ==
  \/ /\ FirstWaiting(ph) = {}
     /\ value' = free
     /\ phase' = ph
  \/ \E c \in FirstWaiting(ph) :
       /\ value' = free - 1
       /\ phase' = [ph EXCEPT ![c] = "handed"]

RemoveWaiter(c) == ahead' = [d \in Callers |-> IF d = c THEN {} ELSE ahead[d] \ {c}]
-----------------------------------------------------------------------------
(* run, up to its first suspension.                                         *)
RunNow(c) ==
  /\ phase[c] = "out"
  /\ ~Locked
  /\ value' = value - 1
  /\ phase' = [phase EXCEPT ![c] = "running"]
  /\ native' = [native EXCEPT ![c] = "starting"]
  /\ active' = active + 1
  /\ UNCHANGED <<ahead, queued>>

RunQueued(c) ==
  /\ phase[c] = "out"
  /\ Locked
  /\ queued < MaxQueue
  /\ queued' = queued + 1
  /\ phase' = [phase EXCEPT ![c] = "waiting"]
  /\ ahead' = [ahead EXCEPT ![c] = {d \in Callers : phase[d] \in InQueue}]
  /\ UNCHANGED <<value, active, native>>

RunFull(c) ==
  /\ phase[c] = "out"
  /\ Locked
  /\ queued >= MaxQueue
  /\ UNCHANGED vars

(* Variant: a slot released while the waiter was about to run stays idle.   *)
AdmittedAlone(c) ==
  /\ phase[c] = "handed"
  /\ phase' = [phase EXCEPT ![c] = "running"]
  /\ RemoveWaiter(c)
  /\ queued' = queued - 1
  /\ active' = active + 1
  /\ native' = [native EXCEPT ![c] = "starting"]
  /\ UNCHANGED value

(* The waiter runs with the slot it was handed; a slot released meanwhile   *)
(* goes to the next waiter.                                                 *)
Admitted(c) ==
  LET ph == [phase EXCEPT ![c] = "running"] IN
  /\ phase[c] = "handed"
  /\ IF value > 0 THEN WakeUpNext(value, ph) ELSE value' = value /\ phase' = ph
  /\ RemoveWaiter(c)
  /\ queued' = queued - 1
  /\ active' = active + 1
  /\ native' = [native EXCEPT ![c] = "starting"]

(* The queue timer or the cancellation of the caller ends the wait: the     *)
(* future is cancelled, or the slot it already carries has to go back.      *)
GiveUp(c) ==
  /\ phase[c] \in {"waiting", "handed"}
  /\ phase' = [phase EXCEPT ![c] = IF phase[c] = "waiting" THEN "leaving" ELSE "returning"]
  /\ UNCHANGED <<value, ahead, queued, active, native>>

Left(c) ==
  /\ phase[c] = "leaving"
  /\ phase' = [phase EXCEPT ![c] = "out"]
  /\ RemoveWaiter(c)
  /\ queued' = queued - 1
  /\ UNCHANGED <<value, active, native>>

Returned(c) ==
  /\ phase[c] = "returning"
  /\ WakeUpNext(value + 1, [phase EXCEPT ![c] = "out"])
  /\ RemoveWaiter(c)
  /\ queued' = queued - 1
  /\ UNCHANGED <<active, native>>
-----------------------------------------------------------------------------
(* Variant: no checkpoint between native calls.                             *)
NativeNeverStops(c) ==
  /\ native[c] \in {"starting", "between"}
  /\ native' = [native EXCEPT ![c] = "calling"]
  /\ UNCHANGED <<value, ahead, queued, active, phase>>

(* _invoke in the worker thread: the function runs only past a checkpoint,  *)
(* and calls checkpoint before each of its native calls.  It may also       *)
(* return, or raise, after any of them.                                     *)
NativeBegins(c) ==
  /\ native[c] \in {"starting", "between"}
  /\ native' = [native EXCEPT ![c] = IF phase[c] = "draining" THEN "done" ELSE "calling"]
  /\ UNCHANGED <<value, ahead, queued, active, phase>>

NativeCallEnds(c) ==
  /\ native[c] = "calling"
  /\ native' = [native EXCEPT ![c] = "between"]
  /\ UNCHANGED <<value, ahead, queued, active, phase>>

NativeReturns(c) ==
  /\ native[c] = "between"
  /\ native' = [native EXCEPT ![c] = "done"]
  /\ UNCHANGED <<value, ahead, queued, active, phase>>

(* The caller is cancelled while it awaits the shielded task; any further   *)
(* cancellation is swallowed by the drain loop.                             *)
Interrupt(c) ==
  /\ phase[c] = "running"
  /\ phase' = [phase EXCEPT ![c] = "interrupted"]
  /\ UNCHANGED <<value, ahead, queued, active, native>>

Drain(c) ==
  /\ phase[c] = "interrupted"
  /\ native[c] # "done"
  /\ phase' = [phase EXCEPT ![c] = "draining"]
  /\ UNCHANGED <<value, ahead, queued, active, native>>

(* Variants: cancellation does not wait for the task; a cancelled caller    *)
(* keeps the slot.                                                          *)
FinishWithoutDrain(c) ==
  /\ phase[c] \in Holding
  /\ native[c] = "done" \/ phase[c] = "draining"
  /\ WakeUpNext(value + 1, [phase EXCEPT ![c] = "out"])
  /\ active' = active - 1
  /\ native' = IF native[c] = "done" THEN [native EXCEPT ![c] = "none"] ELSE native
  /\ UNCHANGED <<ahead, queued>>

FinishWithoutRelease(c) ==
  /\ phase[c] \in Holding
  /\ native[c] = "done"
  /\ IF phase[c] = "running" THEN WakeUpNext(value + 1, [phase EXCEPT ![c] = "out"])
     ELSE phase' = [phase EXCEPT ![c] = "out"] /\ value' = value
  /\ active' = active - 1
  /\ native' = [native EXCEPT ![c] = "none"]
  /\ UNCHANGED <<ahead, queued>>

(* The task is done: the finally clause gives the slot back.                *)
Finish(c) ==
  /\ phase[c] \in Holding
  /\ native[c] = "done"
  /\ WakeUpNext(value + 1, [phase EXCEPT ![c] = "out"])
  /\ active' = active - 1
  /\ native' = [native EXCEPT ![c] = "none"]
  /\ UNCHANGED <<ahead, queued>>

Run(c) == RunNow(c) \/ RunQueued(c) \/ RunFull(c)
Resume(c) == Admitted(c) \/ Left(c) \/ Returned(c) \/ Drain(c) \/ Finish(c)
Thread(c) == NativeBegins(c) \/ NativeCallEnds(c) \/ NativeReturns(c)

Next == \E c \in Callers : Run(c) \/ GiveUp(c) \/ Resume(c) \/ Thread(c) \/ Interrupt(c)

Spec == Init /\ [][Next]_vars

(* The event loop resumes whoever is ready and a native call ends.  Nothing *)
(* says that the function itself ever returns.                              *)
LoopSpec ==
  Spec /\ \A c \in Callers : WF_vars(Resume(c)) /\ WF_vars(NativeBegins(c) \/ NativeCallEnds(c))
-----------------------------------------------------------------------------
Owners == {c \in Callers : phase[c] \in Holding \cup {"handed", "returning"}}
Queuers == {c \in Callers : phase[c] \in InQueue}
Active == {c \in Callers : phase[c] \in Holding}
InThread == {c \in Callers : native[c] \in {"starting", "calling", "between"}}

(* Every slot is free or has one owner: a slot handed to a waiter that      *)
(* times out or is cancelled before it runs is not lost, and the pool's own *)
(* counters agree with who queues and who works.                            *)
SlotConservation ==
  /\ value + Cardinality(Owners) = Workers
  /\ queued = Cardinality(Queuers)
  /\ active = Cardinality(Active)

(* No more native threads work than there are slots, and each works for a   *)
(* caller that still holds its slot, cancelled or not ("CPU and admission   *)
(* slots remain occupied until the current native call finishes").          *)
NativeWithinSlots ==
  /\ InThread \subseteq Active
  /\ Cardinality(InThread) <= Workers

(* The queue never exceeds its bound, waiters that were handed a slot or    *)
(* gave up but have not run yet included.                                   *)
QueueBounded == Cardinality(Queuers) <= MaxQueue

(* No waiter sleeps beside a free slot unless a waiter that was handed one  *)
(* has yet to run, and will wake it.                                        *)
NoStrandedWaiter ==
  value > 0 /\ (\E c \in Callers : phase[c] = "waiting")
    => \E c \in Callers : phase[c] \in {"handed", "returning"}

(* Slots are given in the order of arrival: whoever gets one in a step was  *)
(* before everyone who sleeps through that step.                            *)
NoBarging ==
  [][\A c, d \in Callers :
       /\ c \notin Owners /\ c \in Owners'
       /\ phase[d] = "waiting" /\ phase'[d] = "waiting"
       => c \in ahead[d]]_vars

(* A cancelled caller gets its answer and gives its slot back, even when    *)
(* the function it runs would go on calling the tokenizer for ever.         *)
CancelledEnds ==
  \A c \in Callers : phase[c] = "interrupted" ~> phase[c] = "out"
=============================================================================
