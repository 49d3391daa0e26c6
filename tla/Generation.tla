------------------------------- MODULE Generation -------------------------------
(***************************************************************************)
(* The life of a request in the gateway: who owns the admission lease and  *)
(* the Triton call while preparation, streaming, disconnects and           *)
(* cancellations cross (src/gateway/generation_types.py, generation.py,    *)
(* responses.py, app.py, triton_client.py).                                *)
(*                                                                         *)
(* A chat or responses request is served by its handler, which runs the    *)
(* operation in a task of its own beside a watcher of the connection       *)
(* (until_disconnected); /v1/responses does so twice, for generate and for *)
(* the first event of the stream.  A plain request (embeddings, rerank)    *)
(* has no watcher.  Admission control is its abstract specification,       *)
(* AdmissionPool, which module Admission implements.                       *)
(*                                                                         *)
(* The call of a request is what its task or its generator awaits.  How    *)
(* one such await fans out to many calls is module Batch, whose stray      *)
(* chunks, which nobody awaits any more, are not in this module.           *)
(***************************************************************************)
EXTENDS Integers, FiniteSets

CONSTANTS
  Requests,
  Kind,      \* per request, "chat", "responses" or "plain"
  ModelGates, Global, NoGate

ASSUME GenerationAssumption ==
  /\ IsFiniteSet(Requests)
  /\ Kind \in [Requests -> {"chat", "responses", "plain"}]
  /\ NoGate \notin ModelGates
  /\ \A g \in ModelGates \cup {Global} : g[2].max_inflight \in Nat

VARIABLES
  admitted, waiting, at,  \* the admission pool
  gone,      \* the client of the request has disconnected
  handler,   \* where the handler of the request is
  op,        \* the operation it awaits
  deliver,   \* until_disconnected is about to return the task's outcome
  task,      \* the task that runs the operation
  watcher,   \* the task that watches the connection
  call,      \* a gRPC call of the request to Triton is in flight
  aclose     \* GenerationStream.aclose: not called, begun, done

pool == <<admitted, waiting, at>>
vars == <<pool, gone, handler, op, deliver, task, watcher, call, aclose>>

Pool == INSTANCE AdmissionPool WITH Size <- Cardinality

Handlers == {"over", "waiting", "settling", "reclaiming", "sending", "unwinding", "closing"}
Outcomes == {"stream", "result", "event", "failed"}
Tasks == Outcomes \cup {"starting", "acquiring", "generating", "reading", "cancelling"}

TypeOK ==
  /\ admitted \subseteq Requests /\ waiting \subseteq Requests \ admitted
  /\ at \in [Requests -> ModelGates \cup {NoGate}]
  /\ \A r \in Requests : at[r] # NoGate <=> r \in admitted \cup waiting
  /\ gone \in [Requests -> BOOLEAN] /\ deliver \in [Requests -> BOOLEAN]
  /\ call \in [Requests -> BOOLEAN]
  /\ handler \in [Requests -> Handlers]
  /\ op \in [Requests -> {"generate", "first_event"}]
  /\ task \in [Requests -> Tasks]
  /\ watcher \in [Requests -> {"over", "watching", "cancelling"}]
  /\ aclose \in [Requests -> {"open", "begun", "done"}]

Init ==
  /\ Pool!PoolInit
  /\ gone = [r \in Requests |-> FALSE]
  /\ handler = [r \in Requests |-> "over"]
  /\ op = [r \in Requests |-> "generate"]
  /\ deliver = [r \in Requests |-> FALSE]
  /\ task = [r \in Requests |-> "failed"]
  /\ watcher = [r \in Requests |-> "over"]
  /\ call = [r \in Requests |-> FALSE]
  /\ aclose = [r \in Requests |-> "open"]

TaskDone(r) == task[r] \in Outcomes
-----------------------------------------------------------------------------
(* A request arrives; its handler awaits until_disconnected(generate), or   *)
(* admission and the endpoint directly.                                     *)
Arrive(r) ==
  /\ handler[r] = "over"
  /\ gone' = [gone EXCEPT ![r] = FALSE]
  /\ handler' = [handler EXCEPT ![r] = "waiting"]
  /\ op' = [op EXCEPT ![r] = "generate"]
  /\ deliver' = [deliver EXCEPT ![r] = FALSE]
  /\ task' = [task EXCEPT ![r] = "starting"]
  /\ watcher' = [watcher EXCEPT ![r] = IF Kind[r] = "plain" THEN "over" ELSE "watching"]
  /\ aclose' = [aclose EXCEPT ![r] = "open"]
  /\ UNCHANGED <<pool, call>>

Disconnect(r) ==
  /\ handler[r] # "over"
  /\ gone' = [gone EXCEPT ![r] = TRUE]
  /\ UNCHANGED <<pool, handler, op, deliver, task, watcher, call, aclose>>

(* The watcher receives http.disconnect, or its cancellation takes effect.  *)
WatcherEnds(r) ==
  /\ (watcher[r] = "watching" /\ gone[r]) \/ watcher[r] = "cancelling"
  /\ watcher' = [watcher EXCEPT ![r] = "over"]
  /\ UNCHANGED <<pool, gone, handler, op, deliver, task, call, aclose>>
-----------------------------------------------------------------------------
TaskTo(r, t) ==
  /\ task' = [task EXCEPT ![r] = t]
  /\ UNCHANGED <<gone, handler, op, deliver, watcher, aclose>>

(* lease.release, or the end of a wait: the departure from the pool.        *)
LeavePool(r) == IF r \in admitted \cup waiting THEN Pool!Depart(r) ELSE UNCHANGED pool

(* The task: generate.  Validation, then admission.acquire.                 *)
TaskAdmitted(r) ==
  /\ op[r] = "generate"
  /\ task[r] \in {"starting", "acquiring"}
  /\ \E g \in ModelGates : Pool!Admit(r, g)
  /\ TaskTo(r, "generating")
  /\ UNCHANGED call

TaskQueued(r) ==
  /\ op[r] = "generate"
  /\ task[r] = "starting"
  /\ \E g \in ModelGates : Pool!Wait(r, g)
  /\ TaskTo(r, "acquiring")
  /\ UNCHANGED call

(* The request is invalid, the queue is full, or the wait timed out.        *)
TaskRejected(r) ==
  /\ op[r] = "generate"
  /\ task[r] \in {"starting", "acquiring"}
  /\ LeavePool(r)
  /\ TaskTo(r, "failed")
  /\ UNCHANGED call

(* Inside _generate inference calls come and go, summaries included; so     *)
(* they do in a plain endpoint and in a stream that is being sent.          *)
Calls(r) ==
  /\ task[r] = "generating" \/ handler[r] = "sending"
  /\ call' = [call EXCEPT ![r] = ~call[r]]
  /\ UNCHANGED <<pool, gone, handler, op, deliver, task, watcher, aclose>>

(* Variant: generate gives the lease back in any case.                      *)
TaskReturnsReleased(r) ==
  /\ task[r] = "generating"
  /\ ~call[r]
  /\ \E outcome \in {"stream", "result", "failed"} : TaskTo(r, outcome)
  /\ LeavePool(r)
  /\ UNCHANGED call

(* generate returns an unstarted stream that takes the lease along, or it   *)
(* releases the lease with a result or an exception.                        *)
TaskReturns(r) ==
  /\ task[r] = "generating"
  /\ ~call[r]
  /\ \/ Kind[r] # "plain" /\ TaskTo(r, "stream") /\ UNCHANGED pool
     \/ \E outcome \in {"result", "failed"} : TaskTo(r, outcome) /\ LeavePool(r)
  /\ UNCHANGED call

(* The task: first_backend_event.  The stream's generator makes the call    *)
(* and yields, or the backend fails or ends without an event.               *)
FirstEventAsked(r) ==
  /\ op[r] = "first_event"
  /\ task[r] = "starting"
  /\ TaskTo(r, "reading")
  /\ call' = [call EXCEPT ![r] = TRUE]
  /\ UNCHANGED pool

FirstEvent(r) ==
  /\ task[r] = "reading"
  /\ \/ TaskTo(r, "event") /\ UNCHANGED call
     \/ TaskTo(r, "failed") /\ call' = [call EXCEPT ![r] = FALSE]
  /\ UNCHANGED pool

(* CancelledError unwinds the task: native CPU work ends first, generators  *)
(* cancel the call, generate releases its lease or leaves the queue.        *)
TaskUnwinds(r) ==
  /\ task[r] = "cancelling"
  /\ TaskTo(r, "failed")
  /\ call' = [call EXCEPT ![r] = FALSE]
  /\ IF op[r] = "generate" THEN LeavePool(r) ELSE UNCHANGED pool
-----------------------------------------------------------------------------
(* The handler.  The finally clause of until_disconnected cancels whichever *)
(* of the two tasks is pending, and gather awaits both.                     *)
CancelPending(r) ==
  /\ task' = [task EXCEPT ![r] = IF TaskDone(r) THEN @ ELSE "cancelling"]
  /\ watcher' = [watcher EXCEPT ![r] = IF @ = "watching" THEN "cancelling" ELSE @]

(* Variant: a disconnect does not cancel the operation.                     *)
HandlerWakesOnly(r) ==
  /\ handler[r] = "waiting"
  /\ TaskDone(r) \/ (watcher[r] = "over" /\ Kind[r] # "plain")
  /\ handler' = [handler EXCEPT ![r] = "settling"]
  /\ deliver' = [deliver EXCEPT ![r] = TaskDone(r)]
  /\ watcher' = [watcher EXCEPT ![r] = IF @ = "watching" THEN "cancelling" ELSE @]
  /\ UNCHANGED <<pool, gone, op, task, call, aclose>>

(* The first of the two tasks is done; both may be, and the task then wins. *)
HandlerWakes(r) ==
  /\ handler[r] = "waiting"
  /\ TaskDone(r) \/ (watcher[r] = "over" /\ Kind[r] # "plain")
  /\ handler' = [handler EXCEPT ![r] = "settling"]
  /\ deliver' = [deliver EXCEPT ![r] = TaskDone(r)]
  /\ CancelPending(r)
  /\ UNCHANGED <<pool, gone, op, call, aclose>>

(* The server cancels the handler itself, in either await.                  *)
HandlerInterrupted(r) ==
  /\ handler[r] \in {"waiting", "settling"}
  /\ handler' = [handler EXCEPT ![r] = "settling"]
  /\ deliver' = [deliver EXCEPT ![r] = FALSE]
  /\ CancelPending(r)
  /\ UNCHANGED <<pool, gone, op, call, aclose>>

(* Variant: the watcher is cancelled but not awaited.                       *)
SettledAlone(r) == handler[r] = "settling" /\ TaskDone(r)

Settled(r) == handler[r] = "settling" /\ TaskDone(r) /\ watcher[r] = "over"

(* Variant: nobody owns the stream when cancellation wins as generate ends. *)
StreamDropped(r) == IF deliver[r] THEN "sending" ELSE "over"

StreamGoes(r) == IF deliver[r] THEN "sending" ELSE "reclaiming"

(* A stream is returned to the endpoint, or reclaimed here when an          *)
(* exception takes the place of the return.                                 *)
StreamSettles(r) ==
  /\ Settled(r)
  /\ task[r] = "stream"
  /\ ~(deliver[r] /\ Kind[r] = "responses")
  /\ handler' = [handler EXCEPT ![r] = StreamGoes(r)]
  /\ UNCHANGED <<pool, gone, op, deliver, task, watcher, call, aclose>>

(* create_response awaits until_disconnected(first_backend_event).          *)
AskFirstEvent(r) ==
  /\ Settled(r)
  /\ task[r] = "stream"
  /\ deliver[r] /\ Kind[r] = "responses"
  /\ handler' = [handler EXCEPT ![r] = "waiting"]
  /\ op' = [op EXCEPT ![r] = "first_event"]
  /\ task' = [task EXCEPT ![r] = "starting"]
  /\ watcher' = [watcher EXCEPT ![r] = "watching"]
  /\ UNCHANGED <<pool, gone, deliver, call, aclose>>

(* A result is the answer, an exception propagates; create_response closes  *)
(* the stream when it cannot have its first event.                          *)
OtherSettles(r) ==
  /\ Settled(r)
  /\ task[r] # "stream"
  /\ handler' = [handler EXCEPT ![r] =
       IF op[r] = "generate" THEN "over"
       ELSE IF deliver[r] /\ task[r] = "event" THEN "sending" ELSE "closing"]
  /\ UNCHANGED <<pool, gone, op, deliver, task, watcher, call, aclose>>
-----------------------------------------------------------------------------
(* ManagedStreamingResponse.  The generator of the events ends: exhausted,  *)
(* failed, or cancelled while it runs.  Its finally clause calls aclose.    *)
StreamEnds(r) ==
  /\ handler[r] = "sending"
  /\ handler' = [handler EXCEPT ![r] = "unwinding"]
  /\ call' = [call EXCEPT ![r] = FALSE]
  /\ UNCHANGED <<pool, gone, op, deliver, task, watcher, aclose>>

(* The response stops while the generator is suspended at a yield, or not   *)
(* yet started: a send fails, the client is gone, the server cancels.       *)
StreamStops(r) ==
  /\ handler[r] = "sending"
  /\ handler' = [handler EXCEPT ![r] = "closing"]
  /\ UNCHANGED <<pool, gone, op, deliver, task, watcher, call, aclose>>

(* Variant: the lease is released before the events are closed.             *)
AcloseBeginReleased(r) ==
  /\ handler[r] \in {"reclaiming", "unwinding", "closing"}
  /\ aclose[r] = "open"
  /\ aclose' = [aclose EXCEPT ![r] = "begun"]
  /\ LeavePool(r)
  /\ UNCHANGED <<gone, handler, op, deliver, task, watcher, call>>

(* aclose closes the events, which cancels a call in flight, and then       *)
(* releases the lease; a call of aclose after the first returns at once.    *)
AcloseBegin(r) ==
  /\ handler[r] \in {"reclaiming", "unwinding", "closing"}
  /\ aclose[r] = "open"
  /\ aclose' = [aclose EXCEPT ![r] = "begun"]
  /\ call' = [call EXCEPT ![r] = FALSE]
  /\ UNCHANGED <<pool, gone, handler, op, deliver, task, watcher>>

AcloseRelease(r) ==
  /\ aclose[r] = "begun"
  /\ aclose' = [aclose EXCEPT ![r] = "done"]
  /\ LeavePool(r)
  /\ UNCHANGED <<gone, handler, op, deliver, task, watcher, call>>

HandlerCloses(r) ==
  /\ handler[r] \in {"reclaiming", "unwinding", "closing"}
  /\ aclose[r] = "done"
  /\ handler' = [handler EXCEPT ![r] = IF @ = "unwinding" THEN "closing" ELSE "over"]
  /\ UNCHANGED <<pool, gone, op, deliver, task, watcher, call, aclose>>
-----------------------------------------------------------------------------
Task(r) ==
  \/ TaskAdmitted(r) \/ TaskQueued(r) \/ TaskRejected(r) \/ Calls(r) \/ TaskReturns(r)
  \/ FirstEventAsked(r) \/ FirstEvent(r)

Settle(r) == StreamSettles(r) \/ AskFirstEvent(r) \/ OtherSettles(r)
Close(r) == AcloseBegin(r) \/ AcloseRelease(r) \/ HandlerCloses(r)

Next == \E r \in Requests :
  \/ Arrive(r) \/ Disconnect(r) \/ WatcherEnds(r)
  \/ Task(r) \/ TaskUnwinds(r)
  \/ HandlerWakes(r) \/ HandlerInterrupted(r) \/ Settle(r)
  \/ StreamEnds(r) \/ StreamStops(r) \/ Close(r)

Spec == Init /\ [][Next]_vars

(* The event loop runs whatever is ready, a cancelled task unwinds, and the *)
(* response notices the disconnect.  Nothing is assumed of Triton, of       *)
(* admission or of the network.                                             *)
Fairness == \A r \in Requests :
  /\ WF_vars(WatcherEnds(r)) /\ WF_vars(TaskUnwinds(r))
  /\ WF_vars(HandlerWakes(r)) /\ WF_vars(Settle(r)) /\ WF_vars(Close(r))
  /\ WF_vars(gone[r] /\ (StreamEnds(r) \/ StreamStops(r)))

FairSpec == Spec /\ Fairness
-----------------------------------------------------------------------------
(* When a request is over nothing of it is left: no lease, no place in the  *)
(* queue, no call, no task and no watcher, however a disconnect, the        *)
(* server's cancellation and the end of preparation crossed.                *)
NothingLeaks ==
  \A r \in Requests : handler[r] = "over" =>
    /\ r \notin admitted \cup waiting
    /\ ~call[r] /\ TaskDone(r) /\ watcher[r] = "over"

(* Triton answers a call that a request awaits only while the request holds *)
(* its lease: the slot is free for another one only after the call was      *)
(* cancelled.                                                               *)
CallNeedsLease == \A r \in Requests : call[r] => r \in admitted

(* The stream that is sent is one that nobody closed.                       *)
StreamUsable ==
  \A r \in Requests :
    handler[r] = "sending" => aclose[r] = "open" /\ r \in admitted

(* The watcher and the response never both read the connection.             *)
OneReader ==
  \A r \in Requests :
    watcher[r] # "over" => handler[r] \in {"waiting", "settling"}

(* No more requests await Triton at a time than admission allows, per model *)
(* and overall, the streams being closed included.                          *)
InferenceBounded ==
  \A g \in ModelGates \cup {Global} :
    Cardinality({r \in Requests : call[r] /\ g \in Pool!PoolGates(r)}) <= g[2].max_inflight

(* A disconnect gives the slot or the place in the queue back, even when    *)
(* Triton never answers ("Client disconnects cancel the corresponding       *)
(* Triton stream and release the admission slot").                          *)
DisconnectFrees ==
  \A r \in Requests :
    (Kind[r] # "plain" /\ gone[r]) ~> r \notin admitted \cup waiting
=============================================================================
