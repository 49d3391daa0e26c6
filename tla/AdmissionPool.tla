----------------------------- MODULE AdmissionPool -----------------------------
(***************************************************************************)
(* What admission control promises, without counters, condition variable   *)
(* or configuration file: every request is outside, queued at one model    *)
(* gate, or admitted through one; it is admitted only while both its gate  *)
(* and the global gate have room and queued only while both queues have    *)
(* room.  Gates are pairs <<key, policy>>, as in module Admission.         *)
(***************************************************************************)
EXTENDS Integers

CONSTANTS
  Requests, ModelGates, Global, NoGate,
  Size(_)    \* the number of elements of a finite set

VARIABLES
  admitted,  \* the requests that hold a lease
  waiting,   \* the requests in the wait queues
  at         \* the model gate of an admitted or waiting request

poolVars == <<admitted, waiting, at>>

PoolGates(r) == {Global, at[r]}
Members(set, g) == {r \in set : g \in PoolGates(r)}
Room(g) == Size(Members(admitted, g)) < g[2].max_inflight
QueueRoom(g) == Size(Members(waiting, g)) < g[2].max_queue

PoolInit ==
  /\ admitted = {}
  /\ waiting = {}
  /\ at = [r \in Requests |-> NoGate]

(* A request takes its two budgets together, on arrival or from the queue.  *)
Admit(r, g) ==
  /\ r \notin admitted
  /\ r \in waiting => at[r] = g
  /\ Room(Global) /\ Room(g)
  /\ admitted' = admitted \cup {r}
  /\ waiting' = waiting \ {r}
  /\ at' = [at EXCEPT ![r] = g]

Wait(r, g) ==
  /\ r \notin admitted \cup waiting
  /\ ~(Room(Global) /\ Room(g))
  /\ QueueRoom(Global) /\ QueueRoom(g)
  /\ waiting' = waiting \cup {r}
  /\ at' = [at EXCEPT ![r] = g]
  /\ UNCHANGED admitted

(* A waiter gives up or is cancelled; an admitted request ends.             *)
Depart(r) ==
  /\ r \in admitted \cup waiting
  /\ admitted' = admitted \ {r}
  /\ waiting' = waiting \ {r}
  /\ at' = [at EXCEPT ![r] = NoGate]

PoolNext == \E r \in Requests :
  \/ \E g \in ModelGates : Admit(r, g) \/ Wait(r, g)
  \/ Depart(r)

PoolSpec == PoolInit /\ [][PoolNext]_poolVars
=============================================================================
