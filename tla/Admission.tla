------------------------------- MODULE Admission -------------------------------
(***************************************************************************)
(* Admission control of the gateway (src/gateway/admission.py).            *)
(*                                                                         *)
(* A request reserves two budgets together: the global gate and the gate   *)
(* of its (route, model) key.  A request that finds no room joins the      *)
(* bounded queues of both gates and sleeps on one asyncio.Condition shared *)
(* by every gate, until a release wakes all sleepers, its timer expires or *)
(* its client goes away.                                                   *)
(*                                                                         *)
(* Everything runs on one event loop, so a step is the code between two    *)
(* suspension points.  The condition's lock is released by every wait and  *)
(* is never held across any other await: no task ever finds it locked, and *)
(* taking it is not a step.  For the same reason AdmissionLease.release,   *)
(* which releases the two gates one after the other, is one step.          *)
(***************************************************************************)
EXTENDS Integers, FiniteSets

CONSTANTS
  Requests,      \* calls of AdmissionController.acquire, one per HTTP request
  Keys,          \* the (route, model) pairs
  GlobalKey,     \* the name of the global gate
  Policies,      \* the GatePolicy values an operator may configure
  GlobalPolicy,  \* the policy of the global gate, fixed by the environment
  EnvPolicy,     \* per key, the policy GATEWAY_<ROUTE>_* imposes, or NoPolicy
  NoPolicy,
  NoGate

ASSUME AdmissionAssumption ==
  /\ IsFiniteSet(Requests)
  /\ GlobalKey \notin Keys
  /\ Policies \cup {GlobalPolicy} \subseteq [max_inflight : Nat \ {0}, max_queue : Nat]
  /\ NoPolicy \notin Policies
  /\ EnvPolicy \in [Keys -> Policies \cup {NoPolicy}]

ModelGates == Keys \X Policies
Global == <<GlobalKey, GlobalPolicy>>

(* A gate is named by its key and its policy, as in the dictionary          *)
(* AdmissionController._gates; a gate nobody asked for has zero counters.   *)
Gates == ModelGates \cup {Global}

ASSUME NoGateAssumption == NoGate \notin Gates

MaxInflight(g) == g[2].max_inflight
MaxQueue(g) == g[2].max_queue

VARIABLES
  file,      \* per key, the policy written in the model's gateway.json
  inflight,  \* _BoundedGate._inflight
  queued,    \* _BoundedGate._queued
  phase,     \* where each request is
  gateOf     \* the model gate a request queues at or holds

vars == <<file, inflight, queued, phase, gateOf>>

Outside == {"new", "queue_full", "queue_timeout", "cancelled", "released"}
Phases == Outside \cup {"waiting", "woken", "held"}

TypeOK ==
  /\ file \in [Keys -> Policies]
  /\ inflight \in [Gates -> Nat]
  /\ queued \in [Gates -> Nat]
  /\ phase \in [Requests -> Phases]
  /\ gateOf \in [Requests -> ModelGates \cup {NoGate}]
  /\ \A r \in Requests : phase[r] \notin Outside => gateOf[r] \in ModelGates

Init ==
  /\ file \in [Keys -> Policies]
  /\ inflight = [g \in Gates |-> 0]
  /\ queued = [g \in Gates |-> 0]
  /\ phase = [r \in Requests |-> "new"]
  /\ gateOf = [r \in Requests |-> NoGate]

-----------------------------------------------------------------------------
(* load_admission_policy: an environment variable, when set, decides.       *)
ModelPolicy(k) == IF EnvPolicy[k] # NoPolicy THEN EnvPolicy[k] ELSE file[k]

Pair(g) == {Global, g}

Available(gates) == \A g \in gates : inflight[g] < MaxInflight(g)

QueueFull(gates) == \E g \in gates : queued[g] >= MaxQueue(g)

(* queued -= 1 and inflight -= 1 (which stops at zero), gate by gate.       *)
Plus(count, gates) == [g \in Gates |-> IF g \in gates THEN count[g] + 1 ELSE count[g]]
Minus(count, gates) == [g \in Gates |-> IF g \in gates /\ count[g] > 0
                                          THEN count[g] - 1 ELSE count[g]]

(* Condition.notify_all wakes every sleeper; each one rechecks on its turn. *)
NotifyAll(ph) == [r \in Requests |-> IF ph[r] = "waiting" THEN "woken" ELSE ph[r]]

(* Variant: the lease is built without the list of its gates.               *)
AcquireForgetsGates(r, k) ==
  LET gate == <<k, ModelPolicy(k)>> IN
  /\ phase[r] \in Outside
  /\ Available(Pair(gate))
  /\ inflight' = Plus(inflight, Pair(gate))
  /\ phase' = [phase EXCEPT ![r] = "held"]
  /\ UNCHANGED <<file, queued, gateOf>>

(* acquire, up to its first suspension: both budgets at once, or a place in *)
(* both queues, or 429 queue_full.                                          *)
AcquireNow(r, k) ==
  LET gate == <<k, ModelPolicy(k)>> IN
  /\ phase[r] \in Outside
  /\ Available(Pair(gate))
  /\ inflight' = Plus(inflight, Pair(gate))
  /\ phase' = [phase EXCEPT ![r] = "held"]
  /\ gateOf' = [gateOf EXCEPT ![r] = gate]
  /\ UNCHANGED <<file, queued>>

Enqueue(r, k) ==
  LET gate == <<k, ModelPolicy(k)>> IN
  /\ phase[r] \in Outside
  /\ ~Available(Pair(gate))
  /\ ~QueueFull(Pair(gate))
  /\ queued' = Plus(queued, Pair(gate))
  /\ phase' = [phase EXCEPT ![r] = "waiting"]
  /\ gateOf' = [gateOf EXCEPT ![r] = gate]
  /\ UNCHANGED <<file, inflight>>

RejectFull(r, k) ==
  LET gate == <<k, ModelPolicy(k)>> IN
  /\ phase[r] \in Outside
  /\ ~Available(Pair(gate))
  /\ QueueFull(Pair(gate))
  /\ phase' = [phase EXCEPT ![r] = "queue_full"]
  /\ UNCHANGED <<file, inflight, queued, gateOf>>

(* Variant: a woken waiter takes its slots without evaluating the predicate *)
(* again (an `if` in place of the loop of wait_for).                        *)
WakeWithoutRecheck(r) ==
  /\ phase[r] = "woken"
  /\ queued' = Minus(queued, Pair(gateOf[r]))
  /\ inflight' = Plus(inflight, Pair(gateOf[r]))
  /\ phase' = [phase EXCEPT ![r] = "held"]
  /\ UNCHANGED <<file, gateOf>>

(* A woken waiter evaluates the predicate of wait_for again.                *)
WakeAdmitted(r) ==
  /\ phase[r] = "woken"
  /\ Available(Pair(gateOf[r]))
  /\ queued' = Minus(queued, Pair(gateOf[r]))
  /\ inflight' = Plus(inflight, Pair(gateOf[r]))
  /\ phase' = [phase EXCEPT ![r] = "held"]
  /\ UNCHANGED <<file, gateOf>>

WakeAgain(r) ==
  /\ phase[r] = "woken"
  /\ ~Available(Pair(gateOf[r]))
  /\ phase' = [phase EXCEPT ![r] = "waiting"]
  /\ UNCHANGED <<file, inflight, queued, gateOf>>

(* The wait ends with TimeoutError (429 queue_timeout) or with the          *)
(* cancellation of the caller.  A waiter already notified can still go      *)
(* either way: the predicate is not evaluated again.                        *)
Leave(r, why) ==
  /\ phase[r] \in {"waiting", "woken"}
  /\ queued' = Minus(queued, Pair(gateOf[r]))
  /\ phase' = [phase EXCEPT ![r] = why]
  /\ gateOf' = [gateOf EXCEPT ![r] = NoGate]
  /\ UNCHANGED <<file, inflight>>

Timeout(r) == Leave(r, "queue_timeout")
Cancel(r) == Leave(r, "cancelled")

(* Variants of release: the global gate is forgotten; one waiter is         *)
(* notified in place of all; nobody is notified.                            *)
ReleaseModelGateOnly(r) ==
  /\ phase[r] = "held"
  /\ inflight' = Minus(inflight, {gateOf[r]})
  /\ phase' = NotifyAll([phase EXCEPT ![r] = "released"])
  /\ gateOf' = [gateOf EXCEPT ![r] = NoGate]
  /\ UNCHANGED <<file, queued>>

ReleaseNotifyOne(r) ==
  /\ phase[r] = "held"
  /\ inflight' = Minus(inflight, Pair(gateOf[r]))
  /\ \E w \in Requests :
       phase' = [phase EXCEPT ![r] = "released",
                              ![w] = IF phase[w] = "waiting" THEN "woken"
                                     ELSE IF w = r THEN "released" ELSE phase[w]]
  /\ gateOf' = [gateOf EXCEPT ![r] = NoGate]
  /\ UNCHANGED <<file, queued>>

ReleaseSilently(r) ==
  /\ phase[r] = "held"
  /\ inflight' = Minus(inflight, Pair(gateOf[r]))
  /\ phase' = [phase EXCEPT ![r] = "released"]
  /\ gateOf' = [gateOf EXCEPT ![r] = NoGate]
  /\ UNCHANGED <<file, queued>>

(* AdmissionLease.release; a second call returns at once and is no step.    *)
Release(r) ==
  /\ phase[r] = "held"
  /\ inflight' = Minus(inflight, Pair(gateOf[r]))
  /\ phase' = NotifyAll([phase EXCEPT ![r] = "released"])
  /\ gateOf' = [gateOf EXCEPT ![r] = NoGate]
  /\ UNCHANGED <<file, queued>>

(* A new gateway.json for the model: the cached reading is keyed by the     *)
(* file's modification time, so the next acquire sees it.                   *)
Reconfigure(k, p) ==
  /\ file[k] # p
  /\ file' = [file EXCEPT ![k] = p]
  /\ UNCHANGED <<inflight, queued, phase, gateOf>>

Acquire(r, k) == AcquireNow(r, k) \/ Enqueue(r, k) \/ RejectFull(r, k)
Wake(r) == WakeAdmitted(r) \/ WakeAgain(r)

Next ==
  \/ \E r \in Requests, k \in Keys : Acquire(r, k)
  \/ \E r \in Requests : Wake(r) \/ Timeout(r) \/ Cancel(r) \/ Release(r)
  \/ \E k \in Keys, p \in Policies : Reconfigure(k, p)

Spec == Init /\ [][Next]_vars

(* Woken tasks get their turn and an admitted request ends (generation has  *)
(* a request timeout).  No fairness on the queue timer: progress of the     *)
(* queue must not depend on requests giving up.                             *)
Fairness == \A r \in Requests : WF_vars(Wake(r)) /\ WF_vars(Release(r))

FairSpec == Spec /\ Fairness
-----------------------------------------------------------------------------
Queued(r) == phase[r] \in {"waiting", "woken"}
Holders(g) == {r \in Requests : phase[r] = "held" /\ g \in Pair(gateOf[r])}
Waiters(g) == {r \in Requests : Queued(r) /\ g \in Pair(gateOf[r])}

(* The counters of a gate are exactly the requests that hold it and the     *)
(* requests that wait for it, whatever mixture of wake-ups, timeouts,       *)
(* cancellations and configuration changes led there: a slot is neither     *)
(* lost nor given twice, and a waiter holds no budget.                      *)
Conservation ==
  \A g \in Gates :
    /\ inflight[g] = Cardinality(Holders(g))
    /\ queued[g] = Cardinality(Waiters(g))

(* No gate holds or queues more requests than its policy allows, even when  *)
(* woken waiters and new requests compete for the same slot.                *)
WithinLimits ==
  \A g \in Gates : inflight[g] <= MaxInflight(g) /\ queued[g] <= MaxQueue(g)

(* No request sleeps on the condition while both its budgets have room: a   *)
(* release wakes every sleeper it could have made room for.                 *)
NoLostWakeup ==
  \A r \in Requests : phase[r] = "waiting" => ~Available(Pair(gateOf[r]))

(* If some request is queued for ever, requests keep being admitted: the    *)
(* queue cannot freeze with slots free, even when no timer fires.           *)
QueueProgress ==
  \A r \in Requests :
    <>[]Queued(r) =>
      []<><<\E s \in Requests : phase[s] # "held" /\ phase'[s] = "held">>_vars

(* The gateway implements the pool of AdmissionPool: every step is a pool   *)
(* step or leaves the pool unchanged.                                       *)
Admitted == {r \in Requests : phase[r] = "held"}
InQueue == {r \in Requests : Queued(r)}

Pool == INSTANCE AdmissionPool
  WITH admitted <- Admitted, waiting <- InQueue, at <- gateOf, Size <- Cardinality

ImplementsPool == Pool!PoolSpec

(* A request admitted on arrival never passes one that already waits for    *)
(* the same gates ("a bounded FIFO wait queue").                            *)
FifoAdmission ==
  [][\A r, s \in Requests :
       /\ phase[s] \in Outside
       /\ phase'[s] = "held"
       /\ Queued(r)
       => gateOf[r] # gateOf'[s]]_vars
=============================================================================
