---------------------------- MODULE GenerationProofs ----------------------------
(***************************************************************************)
(* Proofs about Generation, for any number of requests of any kinds and    *)
(* any admission pool.                                                     *)
(*                                                                         *)
(* Ownership says where the lease and the call of a request are at each    *)
(* point of its life.  It speaks of one request at a time, so a step only  *)
(* has to show it for the request that moves (OthersKeepOwnership).        *)
(***************************************************************************)
EXTENDS Generation, SetCounting

Awaiting(r) == handler[r] \in {"waiting", "settling"}
Out(r) == r \notin admitted /\ r \notin waiting

(* While generate runs, its task tells who holds the lease.                 *)
WhileGenerating(r) ==
  /\ task[r] \in {"starting", "result", "failed"} => Out(r) /\ ~call[r]
  /\ task[r] = "acquiring" => r \in waiting /\ ~call[r]
  /\ task[r] = "generating" => r \in admitted
  /\ task[r] = "cancelling" => (call[r] => r \in admitted)
  /\ task[r] = "stream" => r \in admitted /\ ~call[r]
  /\ task[r] \notin {"reading", "event"}

(* While the stream is being closed, aclose tells.                          *)
WhileClosing(r) ==
  /\ aclose[r] # "done" => r \in admitted
  /\ aclose[r] # "open" => ~call[r]
  /\ aclose[r] = "done" => Out(r)

Own(r) ==
  /\ ~Awaiting(r) => TaskDone(r) /\ watcher[r] = "over"
  /\ Awaiting(r) => aclose[r] = "open"
  /\ Awaiting(r) /\ op[r] = "generate" => WhileGenerating(r)
  /\ Awaiting(r) /\ op[r] = "first_event" =>
       r \in admitted /\ task[r] \in {"starting", "reading", "cancelling", "event", "failed"}
  /\ handler[r] = "sending" => r \in admitted /\ aclose[r] = "open"
  /\ handler[r] \in {"reclaiming", "unwinding", "closing"} => WhileClosing(r)
  /\ handler[r] = "over" => Out(r) /\ ~call[r] /\ aclose[r] # "begun"

Ownership == \A r \in Requests : Own(r)

AllGates == ModelGates \cup {Global}
Holders(g) == {r \in Requests : r \in admitted /\ g \in Pool!PoolGates(r)}
PoolWithinLimits == \A g \in AllGates : Cardinality(Holders(g)) <= g[2].max_inflight

IInv == TypeOK /\ Ownership /\ PoolWithinLimits

(* The part of TypeOK about the pool, and the part about the rest.          *)
PoolTypes ==
  /\ admitted \subseteq Requests /\ waiting \subseteq Requests \ admitted
  /\ at \in [Requests -> ModelGates \cup {NoGate}]
  /\ \A r \in Requests : at[r] # NoGate <=> r \in admitted \cup waiting

OtherTypes ==
  /\ gone \in [Requests -> BOOLEAN] /\ deliver \in [Requests -> BOOLEAN]
  /\ call \in [Requests -> BOOLEAN]
  /\ handler \in [Requests -> Handlers]
  /\ op \in [Requests -> {"generate", "first_event"}]
  /\ task \in [Requests -> Tasks]
  /\ watcher \in [Requests -> {"over", "watching", "cancelling"}]
  /\ aclose \in [Requests -> {"open", "begun", "done"}]

(* The pool, and the rest, after a step of r: all others are as before.     *)
PoolFrame(r) ==
  \A s \in Requests \ {r} :
    /\ s \in admitted' <=> s \in admitted
    /\ s \in waiting' <=> s \in waiting
    /\ at'[s] = at[s]

OtherFrame(r) ==
  \A s \in Requests \ {r} :
    /\ handler'[s] = handler[s] /\ op'[s] = op[s] /\ task'[s] = task[s]
    /\ watcher'[s] = watcher[s] /\ call'[s] = call[s] /\ aclose'[s] = aclose[s]

-----------------------------------------------------------------------------
LEMMA TypeParts == TypeOK <=> PoolTypes /\ OtherTypes
BY DEF TypeOK, PoolTypes, OtherTypes

LEMMA TypePartsPrime == TypeOK' <=> PoolTypes' /\ OtherTypes'
BY DEF TypeOK, PoolTypes, OtherTypes

LEMMA OthersKeepOwnership ==
  ASSUME Ownership, NEW r \in Requests, PoolFrame(r), OtherFrame(r), Own(r)'
  PROVE  Ownership'
<1> SUFFICES ASSUME NEW s \in Requests \ {r} PROVE Own(s)'
  BY DEF Ownership
<1>1. Own(s)
  BY DEF Ownership
<1> QED BY <1>1 DEF Own, Awaiting, Out, WhileGenerating, WhileClosing, TaskDone,
                    PoolFrame, OtherFrame

(* What a step of r does to the holders of a gate.                          *)
LEMMA HoldersMove ==
  ASSUME PoolTypes, PoolTypes', NEW r \in Requests, PoolFrame(r), NEW g
  PROVE  /\ Holders(g) \ {r} = Holders(g)' \ {r}
         /\ IsFiniteSet(Holders(g)) /\ Cardinality(Holders(g)) \in Nat
<1>1. Holders(g) \ {r} = Holders(g)' \ {r}
  BY DEF Holders, PoolFrame, Pool!PoolGates, PoolTypes
<1>2. Holders(g) \in SUBSET Requests
  BY DEF Holders
<1> QED BY <1>1, <1>2, GenerationAssumption, CountPart

LEMMA AdmitFacts ==
  ASSUME PoolTypes, PoolWithinLimits, NEW r \in Requests, NEW g \in ModelGates,
         Pool!Admit(r, g)
  PROVE  /\ PoolTypes' /\ PoolWithinLimits' /\ PoolFrame(r)
         /\ r \in admitted' /\ r \notin waiting'
<1>1. /\ admitted' = admitted \cup {r} /\ waiting' = waiting \ {r}
      /\ at' = [at EXCEPT ![r] = g] /\ r \notin admitted
  BY DEF Pool!Admit
<1>2. PoolTypes' /\ PoolFrame(r)
  BY <1>1, GenerationAssumption DEF PoolTypes, PoolFrame
<1>3. ASSUME NEW h \in AllGates PROVE Cardinality(Holders(h)') <= h[2].max_inflight
  <2>1. /\ Holders(h) \ {r} = Holders(h)' \ {r}
        /\ IsFiniteSet(Holders(h)) /\ Cardinality(Holders(h)) \in Nat
    BY <1>2, HoldersMove
  <2>2. r \notin Holders(h)
    BY <1>1 DEF Holders
  <2>3. CASE r \notin Holders(h)'
    <3>1. Cardinality(Holders(h)') = Cardinality(Holders(h))
      BY <2>1, <2>2, <2>3, CountMoved
    <3> QED BY <3>1 DEF PoolWithinLimits
  <2>4. CASE r \in Holders(h)'
    <3>1. Cardinality(Holders(h)') = Cardinality(Holders(h)) + 1
      BY <2>1, <2>2, <2>4, CountMoved
    <3>2. h = Global \/ h = g
      BY <1>1, <2>4 DEF Holders, Pool!PoolGates, PoolTypes
    <3>3. Pool!Room(Global) /\ Pool!Room(g)
      BY DEF Pool!Admit
    <3>4. Pool!Members(admitted, h) = Holders(h)
      BY DEF Pool!Members, Holders, PoolTypes
    <3>5. Cardinality(Holders(h)) < h[2].max_inflight
      BY <3>2, <3>3, <3>4 DEF Pool!Room
    <3>6. h[2].max_inflight \in Nat
      BY GenerationAssumption DEF AllGates
    <3> QED BY <2>1, <3>1, <3>5, <3>6
  <2> QED BY <2>3, <2>4
<1> QED BY <1>1, <1>2, <1>3 DEF PoolWithinLimits

LEMMA WaitFacts ==
  ASSUME PoolTypes, PoolWithinLimits, NEW r \in Requests, NEW g \in ModelGates,
         Pool!Wait(r, g)
  PROVE  /\ PoolTypes' /\ PoolWithinLimits' /\ PoolFrame(r)
         /\ r \notin admitted' /\ r \in waiting'
<1>1. /\ admitted' = admitted /\ waiting' = waiting \cup {r}
      /\ at' = [at EXCEPT ![r] = g] /\ r \notin admitted
  BY DEF Pool!Wait
<1>2. PoolTypes' /\ PoolFrame(r)
  BY <1>1, GenerationAssumption DEF PoolTypes, PoolFrame
<1>3. \A h \in AllGates : Holders(h)' = Holders(h)
  BY <1>1, <1>2 DEF Holders, Pool!PoolGates, PoolFrame
<1> QED BY <1>1, <1>2, <1>3 DEF PoolWithinLimits

LEMMA LeaveFacts ==
  ASSUME PoolTypes, PoolWithinLimits, NEW r \in Requests, LeavePool(r)
  PROVE  PoolTypes' /\ PoolWithinLimits' /\ PoolFrame(r) /\ Out(r)'
<1>1. CASE r \in admitted \cup waiting
  <2>1. /\ admitted' = admitted \ {r} /\ waiting' = waiting \ {r}
        /\ at' = [at EXCEPT ![r] = NoGate]
    BY <1>1 DEF LeavePool, Pool!Depart
  <2>2. PoolTypes' /\ PoolFrame(r) /\ Out(r)'
    BY <2>1 DEF PoolTypes, PoolFrame, Out
  <2>3. ASSUME NEW h \in AllGates PROVE Cardinality(Holders(h)') <= h[2].max_inflight
    <3>1. /\ Holders(h) \ {r} = Holders(h)' \ {r}
          /\ IsFiniteSet(Holders(h)) /\ Cardinality(Holders(h)) \in Nat
      BY <2>2, HoldersMove
    <3>2. r \notin Holders(h)'
      BY <2>1 DEF Holders
    <3>3. Cardinality(Holders(h)') <= Cardinality(Holders(h))
      BY <3>1, <3>2, CountMoved
    <3>4. Cardinality(Holders(h)) <= h[2].max_inflight /\ h[2].max_inflight \in Nat
      BY GenerationAssumption DEF PoolWithinLimits, AllGates
    <3>5. Cardinality(Holders(h)') \in Nat
      BY <3>1, <3>2, CountMoved
    <3> QED BY <3>1, <3>3, <3>4, <3>5
  <2> QED BY <2>2, <2>3 DEF PoolWithinLimits
<1>2. CASE r \notin admitted \cup waiting
  <2>1. UNCHANGED pool
    BY <1>2 DEF LeavePool
  <2> QED BY <1>2, <2>1 DEF pool, PoolTypes, PoolWithinLimits, PoolFrame, Out, Holders,
                            Pool!PoolGates
<1> QED BY <1>1, <1>2

LEMMA SamePool ==
  ASSUME PoolTypes, PoolWithinLimits, NEW r \in Requests, UNCHANGED pool
  PROVE  /\ PoolTypes' /\ PoolWithinLimits' /\ PoolFrame(r)
         /\ r \in admitted' <=> r \in admitted
         /\ r \in waiting' <=> r \in waiting
BY DEF pool, PoolTypes, PoolWithinLimits, PoolFrame, Holders, Pool!PoolGates

-----------------------------------------------------------------------------
(* What every step of r has to show.                                        *)
Kept(r) ==
  /\ PoolTypes' /\ PoolWithinLimits' /\ PoolFrame(r)
  /\ OtherTypes' /\ OtherFrame(r)
  /\ Own(r)'

LEMMA KeptIsEnough ==
  ASSUME IInv, NEW r \in Requests, Kept(r)
  PROVE  IInv'
BY OthersKeepOwnership, TypePartsPrime DEF IInv, Kept

LEMMA KeptArrive ==
  ASSUME IInv, NEW r \in Requests, Arrive(r)
  PROVE  Kept(r)
<1>1. PoolTypes /\ OtherTypes /\ PoolWithinLimits /\ Own(r)
  BY TypeParts DEF IInv, Ownership
<1>2. /\ PoolTypes' /\ PoolWithinLimits' /\ PoolFrame(r)
      /\ r \in admitted' <=> r \in admitted
      /\ r \in waiting' <=> r \in waiting
  <2>1. UNCHANGED pool
    BY DEF Arrive
  <2> QED BY <1>1, <2>1, SamePool
<1>3. OtherTypes' /\ OtherFrame(r)
  BY <1>1 DEF Arrive, OtherTypes, OtherFrame, Handlers, Tasks, Outcomes
<1>4. Own(r)'
  BY <1>1, <1>2 DEF Arrive, Own, Awaiting, Out, WhileGenerating, WhileClosing, TaskDone,
                    OtherTypes, Handlers, Tasks, Outcomes
<1> QED BY <1>2, <1>3, <1>4 DEF Kept

LEMMA KeptDisconnect ==
  ASSUME IInv, NEW r \in Requests, Disconnect(r)
  PROVE  Kept(r)
<1>1. PoolTypes /\ OtherTypes /\ PoolWithinLimits /\ Own(r)
  BY TypeParts DEF IInv, Ownership
<1>2. /\ PoolTypes' /\ PoolWithinLimits' /\ PoolFrame(r)
      /\ r \in admitted' <=> r \in admitted
      /\ r \in waiting' <=> r \in waiting
  <2>1. UNCHANGED pool
    BY DEF Disconnect
  <2> QED BY <1>1, <2>1, SamePool
<1>3. OtherTypes' /\ OtherFrame(r)
  BY <1>1 DEF Disconnect, OtherTypes, OtherFrame, Handlers, Tasks, Outcomes
<1>4. Own(r)'
  BY <1>1, <1>2 DEF Disconnect, Own, Awaiting, Out, WhileGenerating, WhileClosing, TaskDone,
                    OtherTypes, Handlers, Tasks, Outcomes
<1> QED BY <1>2, <1>3, <1>4 DEF Kept

LEMMA KeptWatcherEnds ==
  ASSUME IInv, NEW r \in Requests, WatcherEnds(r)
  PROVE  Kept(r)
<1>1. PoolTypes /\ OtherTypes /\ PoolWithinLimits /\ Own(r)
  BY TypeParts DEF IInv, Ownership
<1>2. /\ PoolTypes' /\ PoolWithinLimits' /\ PoolFrame(r)
      /\ r \in admitted' <=> r \in admitted
      /\ r \in waiting' <=> r \in waiting
  <2>1. UNCHANGED pool
    BY DEF WatcherEnds
  <2> QED BY <1>1, <2>1, SamePool
<1>3. OtherTypes' /\ OtherFrame(r)
  BY <1>1 DEF WatcherEnds, OtherTypes, OtherFrame, Handlers, Tasks, Outcomes
<1>4. Own(r)'
  BY <1>1, <1>2 DEF WatcherEnds, Own, Awaiting, Out, WhileGenerating, WhileClosing,
                    TaskDone,
                    OtherTypes, Handlers, Tasks, Outcomes
<1> QED BY <1>2, <1>3, <1>4 DEF Kept

LEMMA KeptCalls ==
  ASSUME IInv, NEW r \in Requests, Calls(r)
  PROVE  Kept(r)
<1>1. PoolTypes /\ OtherTypes /\ PoolWithinLimits /\ Own(r)
  BY TypeParts DEF IInv, Ownership
<1>2. /\ PoolTypes' /\ PoolWithinLimits' /\ PoolFrame(r)
      /\ r \in admitted' <=> r \in admitted
      /\ r \in waiting' <=> r \in waiting
  <2>1. UNCHANGED pool
    BY DEF Calls
  <2> QED BY <1>1, <2>1, SamePool
<1>3. OtherTypes' /\ OtherFrame(r)
  BY <1>1 DEF Calls, OtherTypes, OtherFrame, Handlers, Tasks, Outcomes
<1>4. Own(r)'
  BY <1>1, <1>2 DEF Calls, Own, Awaiting, Out, WhileGenerating, WhileClosing, TaskDone,
                    OtherTypes, Handlers, Tasks, Outcomes
<1> QED BY <1>2, <1>3, <1>4 DEF Kept

LEMMA KeptFirstEventAsked ==
  ASSUME IInv, NEW r \in Requests, FirstEventAsked(r)
  PROVE  Kept(r)
<1>1. PoolTypes /\ OtherTypes /\ PoolWithinLimits /\ Own(r)
  BY TypeParts DEF IInv, Ownership
<1>2. /\ PoolTypes' /\ PoolWithinLimits' /\ PoolFrame(r)
      /\ r \in admitted' <=> r \in admitted
      /\ r \in waiting' <=> r \in waiting
  <2>1. UNCHANGED pool
    BY DEF FirstEventAsked, TaskTo
  <2> QED BY <1>1, <2>1, SamePool
<1>3. OtherTypes' /\ OtherFrame(r)
  BY <1>1 DEF FirstEventAsked, TaskTo, OtherTypes, OtherFrame, Handlers, Tasks, Outcomes
<1>4. Own(r)'
  BY <1>1, <1>2 DEF FirstEventAsked, TaskTo, Own, Awaiting, Out, WhileGenerating,
                    WhileClosing, TaskDone,
                    OtherTypes, Handlers, Tasks, Outcomes
<1> QED BY <1>2, <1>3, <1>4 DEF Kept

LEMMA KeptFirstEvent ==
  ASSUME IInv, NEW r \in Requests, FirstEvent(r)
  PROVE  Kept(r)
<1>1. PoolTypes /\ OtherTypes /\ PoolWithinLimits /\ Own(r)
  BY TypeParts DEF IInv, Ownership
<1>2. /\ PoolTypes' /\ PoolWithinLimits' /\ PoolFrame(r)
      /\ r \in admitted' <=> r \in admitted
      /\ r \in waiting' <=> r \in waiting
  <2>1. UNCHANGED pool
    BY DEF FirstEvent, TaskTo
  <2> QED BY <1>1, <2>1, SamePool
<1>3. OtherTypes' /\ OtherFrame(r)
  <2>1. CASE TaskTo(r, "event") /\ UNCHANGED call
    BY <1>1, <2>1 DEF TaskTo, OtherTypes, OtherFrame, Tasks, Outcomes
  <2>2. CASE TaskTo(r, "failed") /\ call' = [call EXCEPT ![r] = FALSE]
    BY <1>1, <2>2 DEF TaskTo, OtherTypes, OtherFrame, Tasks, Outcomes
  <2> QED BY <2>1, <2>2 DEF FirstEvent
<1>4. Own(r)'
  BY <1>1, <1>2 DEF FirstEvent, TaskTo, Own, Awaiting, Out, WhileGenerating,
                    WhileClosing, TaskDone,
                    OtherTypes, Handlers, Tasks, Outcomes
<1> QED BY <1>2, <1>3, <1>4 DEF Kept

LEMMA KeptHandlerWakes ==
  ASSUME IInv, NEW r \in Requests, HandlerWakes(r)
  PROVE  Kept(r)
<1>1. PoolTypes /\ OtherTypes /\ PoolWithinLimits /\ Own(r)
  BY TypeParts DEF IInv, Ownership
<1>2. /\ PoolTypes' /\ PoolWithinLimits' /\ PoolFrame(r)
      /\ r \in admitted' <=> r \in admitted
      /\ r \in waiting' <=> r \in waiting
  <2>1. UNCHANGED pool
    BY DEF HandlerWakes, CancelPending
  <2> QED BY <1>1, <2>1, SamePool
<1>3. OtherTypes' /\ OtherFrame(r)
  BY <1>1 DEF HandlerWakes, CancelPending, TaskDone, OtherTypes, OtherFrame, Handlers,
              Tasks, Outcomes
<1>4. Own(r)'
  BY <1>1, <1>2 DEF HandlerWakes, CancelPending, Own, Awaiting, Out, WhileGenerating,
                    WhileClosing, TaskDone,
                    OtherTypes, Handlers, Tasks, Outcomes
<1> QED BY <1>2, <1>3, <1>4 DEF Kept

LEMMA KeptHandlerInterrupted ==
  ASSUME IInv, NEW r \in Requests, HandlerInterrupted(r)
  PROVE  Kept(r)
<1>1. PoolTypes /\ OtherTypes /\ PoolWithinLimits /\ Own(r)
  BY TypeParts DEF IInv, Ownership
<1>2. /\ PoolTypes' /\ PoolWithinLimits' /\ PoolFrame(r)
      /\ r \in admitted' <=> r \in admitted
      /\ r \in waiting' <=> r \in waiting
  <2>1. UNCHANGED pool
    BY DEF HandlerInterrupted, CancelPending
  <2> QED BY <1>1, <2>1, SamePool
<1>3. OtherTypes' /\ OtherFrame(r)
  BY <1>1 DEF HandlerInterrupted, CancelPending, OtherTypes, OtherFrame, Handlers,
              Tasks, Outcomes
<1>4. Own(r)'
  BY <1>1, <1>2 DEF HandlerInterrupted, CancelPending, Own, Awaiting, Out,
                    WhileGenerating, WhileClosing, TaskDone,
                    OtherTypes, Handlers, Tasks, Outcomes
<1> QED BY <1>2, <1>3, <1>4 DEF Kept

LEMMA KeptStreamSettles ==
  ASSUME IInv, NEW r \in Requests, StreamSettles(r)
  PROVE  Kept(r)
<1>1. PoolTypes /\ OtherTypes /\ PoolWithinLimits /\ Own(r)
  BY TypeParts DEF IInv, Ownership
<1>2. /\ PoolTypes' /\ PoolWithinLimits' /\ PoolFrame(r)
      /\ r \in admitted' <=> r \in admitted
      /\ r \in waiting' <=> r \in waiting
  <2>1. UNCHANGED pool
    BY DEF StreamSettles, Settled, StreamGoes
  <2> QED BY <1>1, <2>1, SamePool
<1>3. OtherTypes' /\ OtherFrame(r)
  BY <1>1 DEF StreamSettles, Settled, StreamGoes, OtherTypes, OtherFrame, Handlers,
              Tasks, Outcomes
<1>4. Own(r)'
  BY <1>1, <1>2 DEF StreamSettles, Settled, StreamGoes, Own, Awaiting, Out,
                    WhileGenerating, WhileClosing, TaskDone,
                    OtherTypes, Handlers, Tasks, Outcomes
<1> QED BY <1>2, <1>3, <1>4 DEF Kept

LEMMA KeptAskFirstEvent ==
  ASSUME IInv, NEW r \in Requests, AskFirstEvent(r)
  PROVE  Kept(r)
<1>1. PoolTypes /\ OtherTypes /\ PoolWithinLimits /\ Own(r)
  BY TypeParts DEF IInv, Ownership
<1>2. /\ PoolTypes' /\ PoolWithinLimits' /\ PoolFrame(r)
      /\ r \in admitted' <=> r \in admitted
      /\ r \in waiting' <=> r \in waiting
  <2>1. UNCHANGED pool
    BY DEF AskFirstEvent, Settled
  <2> QED BY <1>1, <2>1, SamePool
<1>3. OtherTypes' /\ OtherFrame(r)
  BY <1>1 DEF AskFirstEvent, Settled, OtherTypes, OtherFrame, Handlers, Tasks, Outcomes
<1>4. Own(r)'
  BY <1>1, <1>2 DEF AskFirstEvent, Settled, Own, Awaiting, Out, WhileGenerating,
                    WhileClosing, TaskDone,
                    OtherTypes, Handlers, Tasks, Outcomes
<1> QED BY <1>2, <1>3, <1>4 DEF Kept

LEMMA KeptOtherSettles ==
  ASSUME IInv, NEW r \in Requests, OtherSettles(r)
  PROVE  Kept(r)
<1>1. PoolTypes /\ OtherTypes /\ PoolWithinLimits /\ Own(r)
  BY TypeParts DEF IInv, Ownership
<1>2. /\ PoolTypes' /\ PoolWithinLimits' /\ PoolFrame(r)
      /\ r \in admitted' <=> r \in admitted
      /\ r \in waiting' <=> r \in waiting
  <2>1. UNCHANGED pool
    BY DEF OtherSettles, Settled
  <2> QED BY <1>1, <2>1, SamePool
<1>3. OtherTypes' /\ OtherFrame(r)
  BY <1>1 DEF OtherSettles, Settled, OtherTypes, OtherFrame, Handlers, Tasks, Outcomes
<1>4. Own(r)'
  BY <1>1, <1>2 DEF OtherSettles, Settled, Own, Awaiting, Out, WhileGenerating,
                    WhileClosing, TaskDone,
                    OtherTypes, Handlers, Tasks, Outcomes
<1> QED BY <1>2, <1>3, <1>4 DEF Kept

LEMMA KeptStreamEnds ==
  ASSUME IInv, NEW r \in Requests, StreamEnds(r)
  PROVE  Kept(r)
<1>1. PoolTypes /\ OtherTypes /\ PoolWithinLimits /\ Own(r)
  BY TypeParts DEF IInv, Ownership
<1>2. /\ PoolTypes' /\ PoolWithinLimits' /\ PoolFrame(r)
      /\ r \in admitted' <=> r \in admitted
      /\ r \in waiting' <=> r \in waiting
  <2>1. UNCHANGED pool
    BY DEF StreamEnds
  <2> QED BY <1>1, <2>1, SamePool
<1>3. OtherTypes' /\ OtherFrame(r)
  BY <1>1 DEF StreamEnds, OtherTypes, OtherFrame, Handlers, Tasks, Outcomes
<1>4. Own(r)'
  BY <1>1, <1>2 DEF StreamEnds, Own, Awaiting, Out, WhileGenerating, WhileClosing, TaskDone,
                    OtherTypes, Handlers, Tasks, Outcomes
<1> QED BY <1>2, <1>3, <1>4 DEF Kept

LEMMA KeptStreamStops ==
  ASSUME IInv, NEW r \in Requests, StreamStops(r)
  PROVE  Kept(r)
<1>1. PoolTypes /\ OtherTypes /\ PoolWithinLimits /\ Own(r)
  BY TypeParts DEF IInv, Ownership
<1>2. /\ PoolTypes' /\ PoolWithinLimits' /\ PoolFrame(r)
      /\ r \in admitted' <=> r \in admitted
      /\ r \in waiting' <=> r \in waiting
  <2>1. UNCHANGED pool
    BY DEF StreamStops
  <2> QED BY <1>1, <2>1, SamePool
<1>3. OtherTypes' /\ OtherFrame(r)
  BY <1>1 DEF StreamStops, OtherTypes, OtherFrame, Handlers, Tasks, Outcomes
<1>4. Own(r)'
  BY <1>1, <1>2 DEF StreamStops, Own, Awaiting, Out, WhileGenerating, WhileClosing,
                    TaskDone,
                    OtherTypes, Handlers, Tasks, Outcomes
<1> QED BY <1>2, <1>3, <1>4 DEF Kept

LEMMA KeptAcloseBegin ==
  ASSUME IInv, NEW r \in Requests, AcloseBegin(r)
  PROVE  Kept(r)
<1>1. PoolTypes /\ OtherTypes /\ PoolWithinLimits /\ Own(r)
  BY TypeParts DEF IInv, Ownership
<1>2. /\ PoolTypes' /\ PoolWithinLimits' /\ PoolFrame(r)
      /\ r \in admitted' <=> r \in admitted
      /\ r \in waiting' <=> r \in waiting
  <2>1. UNCHANGED pool
    BY DEF AcloseBegin
  <2> QED BY <1>1, <2>1, SamePool
<1>3. OtherTypes' /\ OtherFrame(r)
  BY <1>1 DEF AcloseBegin, OtherTypes, OtherFrame, Handlers, Tasks, Outcomes
<1>4. Own(r)'
  BY <1>1, <1>2 DEF AcloseBegin, Own, Awaiting, Out, WhileGenerating, WhileClosing,
                    TaskDone,
                    OtherTypes, Handlers, Tasks, Outcomes
<1> QED BY <1>2, <1>3, <1>4 DEF Kept

LEMMA KeptHandlerCloses ==
  ASSUME IInv, NEW r \in Requests, HandlerCloses(r)
  PROVE  Kept(r)
<1>1. PoolTypes /\ OtherTypes /\ PoolWithinLimits /\ Own(r)
  BY TypeParts DEF IInv, Ownership
<1>2. /\ PoolTypes' /\ PoolWithinLimits' /\ PoolFrame(r)
      /\ r \in admitted' <=> r \in admitted
      /\ r \in waiting' <=> r \in waiting
  <2>1. UNCHANGED pool
    BY DEF HandlerCloses
  <2> QED BY <1>1, <2>1, SamePool
<1>3. OtherTypes' /\ OtherFrame(r)
  BY <1>1 DEF HandlerCloses, OtherTypes, OtherFrame, Handlers, Tasks, Outcomes
<1>4. Own(r)'
  BY <1>1, <1>2 DEF HandlerCloses, Own, Awaiting, Out, WhileGenerating, WhileClosing,
                    TaskDone,
                    OtherTypes, Handlers, Tasks, Outcomes
<1> QED BY <1>2, <1>3, <1>4 DEF Kept

LEMMA KeptTaskAdmitted ==
  ASSUME IInv, NEW r \in Requests, TaskAdmitted(r)
  PROVE  Kept(r)
<1>1. PoolTypes /\ OtherTypes /\ PoolWithinLimits /\ Own(r)
  BY TypeParts DEF IInv, Ownership
<1>2. /\ PoolTypes' /\ PoolWithinLimits' /\ PoolFrame(r)
      /\ r \in admitted' /\ r \notin waiting'
  <2>1. PICK g \in ModelGates : Pool!Admit(r, g)
    BY DEF TaskAdmitted
  <2> QED BY <1>1, <2>1, AdmitFacts
<1>3. OtherTypes' /\ OtherFrame(r)
  BY <1>1 DEF TaskAdmitted, TaskTo, OtherTypes, OtherFrame, Handlers, Tasks, Outcomes
<1>4. Own(r)'
  BY <1>1, <1>2 DEF TaskAdmitted, TaskTo, Own, Awaiting, Out, WhileGenerating,
                    WhileClosing, TaskDone,
                    OtherTypes, Handlers, Tasks, Outcomes
<1> QED BY <1>2, <1>3, <1>4 DEF Kept

LEMMA KeptTaskQueued ==
  ASSUME IInv, NEW r \in Requests, TaskQueued(r)
  PROVE  Kept(r)
<1>1. PoolTypes /\ OtherTypes /\ PoolWithinLimits /\ Own(r)
  BY TypeParts DEF IInv, Ownership
<1>2. /\ PoolTypes' /\ PoolWithinLimits' /\ PoolFrame(r)
      /\ r \notin admitted' /\ r \in waiting'
  <2>1. PICK g \in ModelGates : Pool!Wait(r, g)
    BY DEF TaskQueued
  <2> QED BY <1>1, <2>1, WaitFacts
<1>3. OtherTypes' /\ OtherFrame(r)
  BY <1>1 DEF TaskQueued, TaskTo, OtherTypes, OtherFrame, Handlers, Tasks, Outcomes
<1>4. Own(r)'
  BY <1>1, <1>2 DEF TaskQueued, TaskTo, Own, Awaiting, Out, WhileGenerating,
                    WhileClosing, TaskDone,
                    OtherTypes, Handlers, Tasks, Outcomes
<1> QED BY <1>2, <1>3, <1>4 DEF Kept

LEMMA KeptTaskRejected ==
  ASSUME IInv, NEW r \in Requests, TaskRejected(r)
  PROVE  Kept(r)
<1>1. PoolTypes /\ OtherTypes /\ PoolWithinLimits /\ Own(r)
  BY TypeParts DEF IInv, Ownership
<1>2. PoolTypes' /\ PoolWithinLimits' /\ PoolFrame(r) /\ Out(r)'
  <2>1. LeavePool(r)
    BY DEF TaskRejected
  <2> QED BY <1>1, <2>1, LeaveFacts
<1>3. OtherTypes' /\ OtherFrame(r)
  BY <1>1 DEF TaskRejected, TaskTo, OtherTypes, OtherFrame, Handlers, Tasks, Outcomes
<1>4. Own(r)'
  BY <1>1, <1>2 DEF TaskRejected, TaskTo, Own, Awaiting, Out, WhileGenerating,
                    WhileClosing, TaskDone,
                    OtherTypes, Handlers, Tasks, Outcomes
<1> QED BY <1>2, <1>3, <1>4 DEF Kept

LEMMA KeptAcloseRelease ==
  ASSUME IInv, NEW r \in Requests, AcloseRelease(r)
  PROVE  Kept(r)
<1>1. PoolTypes /\ OtherTypes /\ PoolWithinLimits /\ Own(r)
  BY TypeParts DEF IInv, Ownership
<1>2. PoolTypes' /\ PoolWithinLimits' /\ PoolFrame(r) /\ Out(r)'
  <2>1. LeavePool(r)
    BY DEF AcloseRelease
  <2> QED BY <1>1, <2>1, LeaveFacts
<1>3. OtherTypes' /\ OtherFrame(r)
  BY <1>1 DEF AcloseRelease, OtherTypes, OtherFrame, Handlers, Tasks, Outcomes
<1>4. Own(r)'
  BY <1>1, <1>2 DEF AcloseRelease, Own, Awaiting, Out, WhileGenerating, WhileClosing,
                    TaskDone,
                    OtherTypes, Handlers, Tasks, Outcomes
<1> QED BY <1>2, <1>3, <1>4 DEF Kept

LEMMA KeptTaskReturns ==
  ASSUME IInv, NEW r \in Requests, TaskReturns(r)
  PROVE  Kept(r)
<1>1. PoolTypes /\ OtherTypes /\ PoolWithinLimits /\ Own(r)
  BY TypeParts DEF IInv, Ownership
<1>2. /\ PoolTypes' /\ PoolWithinLimits' /\ PoolFrame(r)
      /\ \/ /\ task'[r] = "stream"
            /\ r \in admitted' <=> r \in admitted
            /\ r \in waiting' <=> r \in waiting
         \/ task'[r] \in {"result", "failed"} /\ Out(r)'
  <2>1. CASE TaskTo(r, "stream") /\ UNCHANGED pool
    BY <1>1, <2>1, SamePool DEF TaskTo, OtherTypes
  <2>2. CASE \E outcome \in {"result", "failed"} : TaskTo(r, outcome) /\ LeavePool(r)
    <3>1. LeavePool(r) /\ task'[r] \in {"result", "failed"}
      BY <1>1, <2>2 DEF TaskTo, OtherTypes
    <3> QED BY <1>1, <3>1, LeaveFacts
  <2> QED BY <2>1, <2>2 DEF TaskReturns
<1>3. OtherTypes' /\ OtherFrame(r)
  BY <1>1 DEF TaskReturns, TaskTo, OtherTypes, OtherFrame, Handlers, Tasks, Outcomes
<1>4. Own(r)'
  BY <1>1, <1>2 DEF TaskReturns, TaskTo, Own, Awaiting, Out, WhileGenerating,
                    WhileClosing, TaskDone,
                    OtherTypes, Handlers, Tasks, Outcomes
<1> QED BY <1>2, <1>3, <1>4 DEF Kept

LEMMA KeptTaskUnwinds ==
  ASSUME IInv, NEW r \in Requests, TaskUnwinds(r)
  PROVE  Kept(r)
<1>1. PoolTypes /\ OtherTypes /\ PoolWithinLimits /\ Own(r)
  BY TypeParts DEF IInv, Ownership
<1>2. /\ PoolTypes' /\ PoolWithinLimits' /\ PoolFrame(r)
      /\ op[r] = "generate" => Out(r)'
      /\ op[r] # "generate" => /\ r \in admitted' <=> r \in admitted
                               /\ r \in waiting' <=> r \in waiting
  <2>1. CASE op[r] = "generate"
    <3>1. LeavePool(r)
      BY <2>1 DEF TaskUnwinds
    <3> QED BY <1>1, <2>1, <3>1, LeaveFacts
  <2>2. CASE op[r] # "generate"
    <3>1. UNCHANGED pool
      BY <2>2 DEF TaskUnwinds
    <3> QED BY <1>1, <2>2, <3>1, SamePool
  <2> QED BY <2>1, <2>2
<1>3. OtherTypes' /\ OtherFrame(r)
  BY <1>1 DEF TaskUnwinds, TaskTo, OtherTypes, OtherFrame, Handlers, Tasks, Outcomes
<1>4. Own(r)'
  BY <1>1, <1>2 DEF TaskUnwinds, TaskTo, Own, Awaiting, Out, WhileGenerating,
                    WhileClosing, TaskDone,
                    OtherTypes, Handlers, Tasks, Outcomes
<1> QED BY <1>2, <1>3, <1>4 DEF Kept

-----------------------------------------------------------------------------
LEMMA InvInit == Init => IInv
<1> SUFFICES ASSUME Init PROVE IInv
  OBVIOUS
<1>1. TypeOK
  BY DEF Init, TypeOK, Pool!PoolInit, Handlers, Tasks, Outcomes
<1>2. Ownership
  BY DEF Init, Ownership, Own, Awaiting, Out, WhileGenerating, WhileClosing, TaskDone,
         Pool!PoolInit, Outcomes
<1>3. ASSUME NEW g \in AllGates PROVE Cardinality(Holders(g)) <= g[2].max_inflight
  <2>1. Holders(g) = {}
    BY DEF Init, Pool!PoolInit, Holders
  <2>2. g[2].max_inflight \in Nat
    BY GenerationAssumption DEF AllGates
  <2> QED BY <2>1, <2>2, FS_EmptySet
<1> QED BY <1>1, <1>2, <1>3 DEF IInv, PoolWithinLimits

LEMMA InvNext == IInv /\ [Next]_vars => IInv'
<1> SUFFICES ASSUME IInv, [Next]_vars PROVE IInv'
  OBVIOUS
<1>1. CASE UNCHANGED vars
  BY <1>1 DEF vars, pool, IInv, TypeOK, Ownership, Own, Awaiting, Out, WhileGenerating,
              WhileClosing, TaskDone, PoolWithinLimits, Holders, Pool!PoolGates
<1>2. ASSUME NEW r \in Requests,
             \/ Arrive(r) \/ Disconnect(r) \/ WatcherEnds(r)
             \/ Task(r) \/ TaskUnwinds(r)
             \/ HandlerWakes(r) \/ HandlerInterrupted(r) \/ Settle(r)
             \/ StreamEnds(r) \/ StreamStops(r) \/ Close(r)
      PROVE  IInv'
  <2>1. CASE Arrive(r)              BY <2>1, KeptArrive, KeptIsEnough
  <2>2. CASE Disconnect(r)          BY <2>2, KeptDisconnect, KeptIsEnough
  <2>3. CASE WatcherEnds(r)         BY <2>3, KeptWatcherEnds, KeptIsEnough
  <2>4. CASE Task(r)
    <3>1. CASE TaskAdmitted(r)      BY <3>1, KeptTaskAdmitted, KeptIsEnough
    <3>2. CASE TaskQueued(r)        BY <3>2, KeptTaskQueued, KeptIsEnough
    <3>3. CASE TaskRejected(r)      BY <3>3, KeptTaskRejected, KeptIsEnough
    <3>4. CASE Calls(r)             BY <3>4, KeptCalls, KeptIsEnough
    <3>5. CASE TaskReturns(r)       BY <3>5, KeptTaskReturns, KeptIsEnough
    <3>6. CASE FirstEventAsked(r)   BY <3>6, KeptFirstEventAsked, KeptIsEnough
    <3>7. CASE FirstEvent(r)        BY <3>7, KeptFirstEvent, KeptIsEnough
    <3> QED BY <2>4, <3>1, <3>2, <3>3, <3>4, <3>5, <3>6, <3>7 DEF Task
  <2>5. CASE TaskUnwinds(r)         BY <2>5, KeptTaskUnwinds, KeptIsEnough
  <2>6. CASE HandlerWakes(r)        BY <2>6, KeptHandlerWakes, KeptIsEnough
  <2>7. CASE HandlerInterrupted(r)  BY <2>7, KeptHandlerInterrupted, KeptIsEnough
  <2>8. CASE Settle(r)
    <3>1. CASE StreamSettles(r)     BY <3>1, KeptStreamSettles, KeptIsEnough
    <3>2. CASE AskFirstEvent(r)     BY <3>2, KeptAskFirstEvent, KeptIsEnough
    <3>3. CASE OtherSettles(r)      BY <3>3, KeptOtherSettles, KeptIsEnough
    <3> QED BY <2>8, <3>1, <3>2, <3>3 DEF Settle
  <2>9. CASE StreamEnds(r)          BY <2>9, KeptStreamEnds, KeptIsEnough
  <2>10. CASE StreamStops(r)        BY <2>10, KeptStreamStops, KeptIsEnough
  <2>11. CASE Close(r)
    <3>1. CASE AcloseBegin(r)       BY <3>1, KeptAcloseBegin, KeptIsEnough
    <3>2. CASE AcloseRelease(r)     BY <3>2, KeptAcloseRelease, KeptIsEnough
    <3>3. CASE HandlerCloses(r)     BY <3>3, KeptHandlerCloses, KeptIsEnough
    <3> QED BY <2>11, <3>1, <3>2, <3>3 DEF Close
  <2> QED BY <1>2, <2>1, <2>2, <2>3, <2>4, <2>5, <2>6, <2>7, <2>8, <2>9, <2>10, <2>11
<1> QED BY <1>1, <1>2 DEF Next

(* The lease and the call of every request are where Ownership says, and    *)
(* the pool keeps its limits, at every moment of every behaviour.           *)
THEOREM Invariance == Spec => []IInv
<1>1. Init => IInv
  BY InvInit
<1>2. IInv /\ [Next]_vars => IInv'
  BY InvNext
<1> QED BY <1>1, <1>2, PTL DEF Spec

(* A request that is over holds no lease, no place in the queue, no call    *)
(* and no task: until_disconnected, aclose and generate together leave no   *)
(* path on which ownership of the stream is lost.                           *)
THEOREM NothingIsLeaked == Spec => []NothingLeaks
<1>1. IInv => NothingLeaks
  BY DEF IInv, Ownership, Own, Awaiting, Out, NothingLeaks
<1> QED BY <1>1, Invariance, PTL

(* A gRPC call is in flight only under the lease of its request.            *)
THEOREM CallsHoldLeases == Spec => []CallNeedsLease
<1>1. IInv => CallNeedsLease
  <2> SUFFICES ASSUME IInv, NEW r \in Requests, call[r] PROVE r \in admitted
    BY DEF CallNeedsLease
  <2>1. Own(r) /\ OtherTypes
    BY TypeParts DEF IInv, Ownership
  <2> QED BY <2>1 DEF Own, Awaiting, Out, WhileGenerating, WhileClosing, TaskDone,
                      OtherTypes, Handlers, Tasks, Outcomes
<1> QED BY <1>1, Invariance, PTL

(* The stream handed to the response is open and still has its lease.       *)
THEOREM StreamsUsable == Spec => []StreamUsable
<1>1. IInv => StreamUsable
  BY DEF IInv, Ownership, Own, StreamUsable
<1> QED BY <1>1, Invariance, PTL

(* Only one party at a time reads the client's connection.                  *)
THEOREM OneReaderOnly == Spec => []OneReader
<1>1. IInv => OneReader
  BY DEF IInv, Ownership, Own, Awaiting, OneReader
<1> QED BY <1>1, Invariance, PTL

(* Triton works for no more requests at once than admission allows.         *)
THEOREM InferenceIsBounded == Spec => []InferenceBounded
<1>1. IInv /\ CallNeedsLease => InferenceBounded
  <2> SUFFICES ASSUME IInv, CallNeedsLease, NEW g \in AllGates
               PROVE  Cardinality({r \in Requests : call[r] /\ g \in Pool!PoolGates(r)})
                        <= g[2].max_inflight
    BY DEF InferenceBounded, AllGates
  <2> DEFINE Calling == {r \in Requests : call[r] /\ g \in Pool!PoolGates(r)}
  <2>1. Calling \in SUBSET Holders(g)
    BY DEF CallNeedsLease, Holders
  <2>2. Holders(g) \in SUBSET Requests
    BY DEF Holders
  <2>3. IsFiniteSet(Holders(g))
    BY <2>2, GenerationAssumption, CountPart
  <2>4. /\ Cardinality(Calling) <= Cardinality(Holders(g))
        /\ Cardinality(Calling) \in Nat /\ Cardinality(Holders(g)) \in Nat
    <3> HIDE DEF Calling
    <3> QED BY <2>1, <2>3, CountPart
  <2>5. Cardinality(Holders(g)) <= g[2].max_inflight /\ g[2].max_inflight \in Nat
    BY GenerationAssumption DEF IInv, PoolWithinLimits, AllGates
  <2> QED BY <2>4, <2>5
<1> QED BY <1>1, Invariance, CallsHoldLeases, PTL
=============================================================================
