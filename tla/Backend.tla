--------------------------------- MODULE Backend ---------------------------------
(***************************************************************************)
(* The threads of the vLLM backend (src/backends/vllm_multimodal/model.py):*)
(* Triton's thread calls execute and finalize, the event thread runs one   *)
(* _infer coroutine per request, and the response thread sends what        *)
(* streaming requests produce through a bounded queue.                     *)
(*                                                                         *)
(* Work is posted to the event thread with call_soon_threadsafe, so ready, *)
(* the loop's queue of callbacks, is first in first out; what the engine   *)
(* and the timers wake up comes at any time.  _ongoing_request_count is    *)
(* changed by two threads; its += and -= have no point where CPython       *)
(* switches threads, so they are one step.                                 *)
(***************************************************************************)
EXTENDS Integers, Sequences, FiniteSets

CONSTANTS
  Requests,
  MaxQueue   \* VLLM_MULTIMODAL_RESPONSE_QUEUE_SIZE

ASSUME BackendAssumption ==
  /\ IsFiniteSet(Requests)
  /\ MaxQueue \in Nat \ {0}

VARIABLES
  streams,    \* the requests with stream = true
  healthy,    \* _is_healthy
  ready,      \* callbacks posted to the event loop
  engine,     \* _run_llm_engine
  infer,      \* the _infer coroutine of each request
  held,       \* the response a coroutine could not put into the full queue
  ongoing,    \* _ongoing_request_count
  queue,      \* _response_queue
  hand,       \* what the response thread took from it
  cancelled,  \* the client has cancelled the request
  seen,       \* response_state["is_cancelled"]
  last,       \* response_state["last_response_generated"]
  finals,     \* final responses sent for the request
  late,       \* a response was sent after the final one
  finalize    \* Triton's thread in finalize

loop == <<ready, engine>>
state == <<infer, held>>
responses == <<queue, hand>>
client == <<cancelled, finals, late>>
vars == <<streams, healthy, loop, state, ongoing, responses, client, seen, last, finalize>>

Callbacks == ({"create", "step"} \X Requests) \cup {<<"set">>, <<"wake">>}
Flags == {"part", "final"}
Items == Requests \X Flags
Stop == <<"none">>
Nothing == <<>>

(* A coroutine that runs, waits for room in the queue, or waits for abort.  *)
Live == {"running", "blocked", "aborting"}
Over == {"refused", "finished", "failed", "lost"}

TypeOK ==
  /\ streams \subseteq Requests
  /\ healthy \in BOOLEAN
  /\ ready \in Seq(Callbacks)
  /\ engine \in {"serving", "draining", "stopped"}
  /\ infer \in [Requests -> {"new", "posted"} \cup Live \cup Over]
  /\ held \in [Requests -> Flags \cup {"none"}]
  /\ \A r \in Requests : held[r] # "none" <=> infer[r] = "blocked"
  /\ ongoing \in Nat
  /\ queue \in Seq(Items \cup {Stop}) /\ Len(queue) <= MaxQueue
  /\ hand \in Items \cup (Requests \X {"sent"}) \cup {Nothing, Stop}
  /\ \A f \in {cancelled, seen, last, late} : f \in [Requests -> BOOLEAN]
  /\ finals \in [Requests -> 0..2]
  /\ finalize \in {"none", "joining", "joined", "closing", "done"}

Init ==
  /\ streams \in SUBSET Requests
  /\ healthy = TRUE
  /\ ready = <<>> /\ engine = "serving"
  /\ infer = [r \in Requests |-> "new"] /\ held = [r \in Requests |-> "none"]
  /\ ongoing = 0
  /\ queue = <<>> /\ hand = Nothing
  /\ cancelled = [r \in Requests |-> FALSE]
  /\ seen = [r \in Requests |-> FALSE] /\ last = [r \in Requests |-> FALSE]
  /\ finals = [r \in Requests |-> 0] /\ late = [r \in Requests |-> FALSE]
  /\ finalize = "none"
-----------------------------------------------------------------------------
(* response_sender.send with the final flag.                                *)
SendFinal(r) ==
  /\ finals' = [finals EXCEPT ![r] = @ + 1]
  /\ UNCHANGED <<cancelled, late>>

InferTo(r, s) == infer' = [infer EXCEPT ![r] = s]

(* Triton's thread: execute hands the request to the event loop, or answers *)
(* it at once: unknown LoRA, or an engine that once failed its health check.*)
Execute(r) ==
  /\ finalize = "none" /\ infer[r] = "new"
  /\ healthy
  /\ InferTo(r, "posted")
  /\ ready' = Append(ready, <<"create", r>>)
  /\ UNCHANGED <<streams, healthy, engine, held, ongoing, responses, client, seen, last, finalize>>

Refuse(r) ==
  /\ finalize = "none" /\ infer[r] = "new"
  /\ InferTo(r, "refused")
  /\ SendFinal(r)
  /\ healthy' \in {healthy, FALSE}
  /\ UNCHANGED <<streams, loop, held, ongoing, responses, seen, last, finalize>>

(* Variant: finalize sets the event from its own thread; the loop's waiter  *)
(* is woken ahead of what was posted before.                                *)
FinalizeDirectly ==
  /\ finalize = "none"
  /\ finalize' = "joining"
  /\ ready' = <<<<"wake">>>> \o ready
  /\ UNCHANGED <<streams, healthy, engine, state, ongoing, responses, client, seen, last>>

Finalize ==
  /\ finalize = "none"
  /\ finalize' = "joining"
  /\ ready' = Append(ready, <<"set">>)
  /\ UNCHANGED <<streams, healthy, engine, state, ongoing, responses, client, seen, last>>

EventThreadJoined ==
  /\ finalize = "joining" /\ engine = "stopped"
  /\ finalize' = "joined"
  /\ UNCHANGED <<streams, healthy, loop, state, ongoing, responses, client, seen, last>>

PutNone ==
  /\ finalize = "joined" /\ Len(queue) < MaxQueue
  /\ finalize' = "closing"
  /\ queue' = Append(queue, Stop)
  /\ UNCHANGED <<streams, healthy, loop, state, ongoing, hand, client, seen, last>>

ResponseThreadJoined ==
  /\ finalize = "closing" /\ hand = Stop
  /\ finalize' = "done"
  /\ UNCHANGED <<streams, healthy, loop, state, ongoing, responses, client, seen, last>>
-----------------------------------------------------------------------------
(* The event loop runs the first callback that was posted to it.            *)
Runs(callback) ==
  /\ engine # "stopped"
  /\ ready # <<>> /\ Head(ready) = callback

TaskCreated(r) ==
  /\ Runs(<<"create", r>>)
  /\ ready' = Append(Tail(ready), <<"step", r>>)
  /\ UNCHANGED <<streams, healthy, engine, state, ongoing, responses, client, seen, last, finalize>>

InferStarts(r) ==
  /\ Runs(<<"step", r>>)
  /\ ready' = Tail(ready)
  /\ InferTo(r, "running")
  /\ ongoing' = ongoing + 1
  /\ UNCHANGED <<streams, healthy, engine, held, responses, client, seen, last, finalize>>

ShutdownSet ==
  /\ Runs(<<"set">>)
  /\ ready' = Append(Tail(ready), <<"wake">>)
  /\ UNCHANGED <<streams, healthy, engine, state, ongoing, responses, client, seen, last, finalize>>

ShutdownSeen ==
  /\ Runs(<<"wake">>)
  /\ ready' = Tail(ready)
  /\ engine' = "draining"
  /\ UNCHANGED <<streams, healthy, state, ongoing, responses, client, seen, last, finalize>>

(* No request is counted: every other task is cancelled, the loop closes.   *)
EngineStops ==
  /\ engine = "draining" /\ ongoing = 0
  /\ engine' = "stopped"
  /\ ready' = <<>>
  /\ infer' = [r \in Requests |-> IF infer[r] \in Live \cup {"posted"} THEN "lost" ELSE infer[r]]
  /\ held' = [r \in Requests |-> "none"]
  /\ UNCHANGED <<streams, healthy, ongoing, responses, client, seen, last, finalize>>
-----------------------------------------------------------------------------
(* _enqueue_response: put_nowait, or hold the response and try again after  *)
(* a pause.  A final response is the last thing the coroutine does; its     *)
(* count is left to the response thread.                                    *)
Put(r, flag) ==
  IF Len(queue) < MaxQueue
    THEN /\ queue' = Append(queue, <<r, flag>>)
         /\ held' = [held EXCEPT ![r] = "none"]
         /\ InferTo(r, IF flag = "final" THEN "finished" ELSE "running")
    ELSE /\ held' = [held EXCEPT ![r] = flag]
         /\ InferTo(r, "blocked")
         /\ UNCHANGED queue

Retry(r) ==
  /\ infer[r] = "blocked" /\ Len(queue) < MaxQueue
  /\ Put(r, held[r])
  /\ UNCHANGED <<streams, healthy, loop, ongoing, hand, client, seen, last, finalize>>

(* A stream knows of a cancellation from the response thread; any other     *)
(* request asks by itself.                                                  *)
Noticed(r) == IF r \in streams THEN seen[r] ELSE cancelled[r]

(* The engine has an output: the stream forwards it, and it may be the last.*)
StreamOutput(r) ==
  /\ infer[r] = "running" /\ r \in streams /\ ~Noticed(r)
  /\ Put(r, "part")
  /\ UNCHANGED <<streams, healthy, loop, ongoing, hand, client, seen, last, finalize>>

StreamFinishes(r) ==
  /\ infer[r] = "running" /\ r \in streams /\ ~Noticed(r)
  /\ last' = [last EXCEPT ![r] = TRUE]
  /\ Put(r, "final")
  /\ UNCHANGED <<streams, healthy, loop, ongoing, hand, client, seen, finalize>>

(* The final response of a request that does not stream.                    *)
SendsItself(r, s) ==
  /\ SendFinal(r)
  /\ InferTo(r, s)
  /\ ongoing' = ongoing - 1
  /\ UNCHANGED <<streams, healthy, loop, held, responses, seen, last, finalize>>

Finishes(r) ==
  /\ infer[r] = "running" /\ r \notin streams
  /\ SendsItself(r, "finished")

(* An output arrives after the cancellation was noticed: the engine aborts. *)
Aborts(r) ==
  /\ infer[r] = "running" /\ Noticed(r)
  /\ InferTo(r, "aborting")
  /\ UNCHANGED <<streams, healthy, loop, held, ongoing, responses, client, seen, last, finalize>>

(* Variant: the final response of a cancelled stream does not queue.        *)
AbortedDirectly(r) ==
  /\ infer[r] = "aborting"
  /\ SendsItself(r, "finished")

Aborted(r) ==
  /\ infer[r] = "aborting"
  /\ IF r \in streams
       THEN /\ last' = [last EXCEPT ![r] = TRUE]
            /\ Put(r, "final")
            /\ UNCHANGED <<streams, healthy, loop, ongoing, hand, client, seen, finalize>>
       ELSE SendsItself(r, "finished")

(* An exception in validation, in the engine or in a response: the error is *)
(* sent from the event thread, past whatever is queued.                     *)
Fails(r) ==
  /\ infer[r] = "running"
  /\ SendsItself(r, "failed")
-----------------------------------------------------------------------------
(* The response thread.                                                     *)
Take ==
  /\ hand = Nothing /\ queue # <<>>
  /\ hand' = Head(queue)
  /\ queue' = Tail(queue)
  /\ UNCHANGED <<streams, healthy, loop, state, ongoing, client, seen, last, finalize>>

(* Variant: the response thread never looks at the client.                  *)
SendBlindly(r, flag) ==
  /\ hand = <<r, flag>>
  /\ finals' = [finals EXCEPT ![r] = IF flag = "final" THEN @ + 1 ELSE @]
  /\ late' = [late EXCEPT ![r] = @ \/ finals[r] > 0]
  /\ hand' = IF flag = "final" THEN <<r, "sent">> ELSE Nothing
  /\ UNCHANGED <<streams, healthy, loop, state, ongoing, queue, cancelled, seen, last, finalize>>

(* A send after the final one fails and is logged; then, as when the last   *)
(* response is on its way, the cancellation is not asked for.               *)
Send(r, flag) ==
  /\ hand = <<r, flag>>
  /\ finals' = [finals EXCEPT ![r] = IF flag = "final" THEN @ + 1 ELSE @]
  /\ late' = [late EXCEPT ![r] = @ \/ finals[r] > 0]
  /\ seen' = [seen EXCEPT ![r] = IF last[r] \/ finals[r] > 0 THEN @ ELSE cancelled[r]]
  /\ hand' = IF flag = "final" THEN <<r, "sent">> ELSE Nothing
  /\ UNCHANGED <<streams, healthy, loop, state, ongoing, queue, cancelled, last, finalize>>

(* Variant: every response that was sent is counted down.                   *)
CountDownEach(r) ==
  /\ \E flag \in {"sent", "part"} : hand = <<r, flag>>
  /\ hand' = Nothing
  /\ ongoing' = ongoing - 1
  /\ UNCHANGED <<streams, healthy, loop, state, queue, client, seen, last, finalize>>

(* Variant: the count is kept when the client is gone and the send fails.   *)
CountDownUnlessGone(r) ==
  /\ hand = <<r, "sent">>
  /\ hand' = Nothing
  /\ ongoing' = IF cancelled[r] THEN ongoing ELSE ongoing - 1
  /\ UNCHANGED <<streams, healthy, loop, state, queue, client, seen, last, finalize>>

CountDown(r) ==
  /\ hand = <<r, "sent">>
  /\ hand' = Nothing
  /\ ongoing' = ongoing - 1
  /\ UNCHANGED <<streams, healthy, loop, state, queue, client, seen, last, finalize>>

Cancel(r) ==
  /\ infer[r] # "new" /\ ~cancelled[r]
  /\ cancelled' = [cancelled EXCEPT ![r] = TRUE]
  /\ UNCHANGED <<streams, healthy, loop, state, ongoing, responses, finals, late, seen, last, finalize>>
-----------------------------------------------------------------------------
Triton == Finalize \/ EventThreadJoined \/ PutNone \/ ResponseThreadJoined

EventLoop ==
  \/ \E r \in Requests : TaskCreated(r) \/ InferStarts(r)
  \/ ShutdownSet \/ ShutdownSeen \/ EngineStops

Produces(r) == StreamOutput(r) \/ StreamFinishes(r) \/ Finishes(r) \/ Aborts(r) \/ Fails(r)
Resumes(r) == Retry(r) \/ Aborted(r)
ResponseLoop == Take \/ \E r \in Requests : CountDown(r) \/ \E flag \in Flags : Send(r, flag)

Next ==
  \/ \E r \in Requests : Execute(r) \/ Refuse(r) \/ Produces(r) \/ Resumes(r) \/ Cancel(r)
  \/ Triton \/ EventLoop \/ ResponseLoop

Spec == Init /\ [][Next]_vars

(* Each thread keeps running, joins return, aborts are acknowledged, and a  *)
(* held response is tried again often enough to find room that others also  *)
(* compete for.                                                             *)
ThreadFairness ==
  /\ WF_vars(EventThreadJoined) /\ WF_vars(PutNone) /\ WF_vars(ResponseThreadJoined)
  /\ WF_vars(EventLoop) /\ WF_vars(ResponseLoop)
  /\ \A r \in Requests : SF_vars(Retry(r)) /\ WF_vars(Aborted(r))

(* The engine has more output for every request it runs, for ever.          *)
RunningSpec == Spec /\ ThreadFairness /\ \A r \in Requests : WF_vars(Produces(r))

(* The engine comes to the end of every request.                            *)
EngineEnds ==
  \A r \in Requests : SF_vars(StreamFinishes(r) \/ Finishes(r) \/ Fails(r) \/ Aborts(r))
-----------------------------------------------------------------------------
OnTheWay(r) ==
  \/ <<r, "final">> \in {queue[i] : i \in 1..Len(queue)}
  \/ hand \in {<<r, "final">>, <<r, "sent">>}

(* The count of the two threads is exactly the requests whose coroutine     *)
(* lives or whose final response is on its way to the client: shutdown can  *)
(* rely on it.                                                              *)
CountIsOngoing ==
  ongoing = Cardinality({r \in Requests : infer[r] \in Live \/ OnTheWay(r)})

(* When the engine has stopped, every request that Triton handed over has   *)
(* had its one final response, also if it was posted just before finalize.  *)
AnsweredBeforeStop ==
  engine = "stopped" =>
    \A r \in Requests : infer[r] # "new" => infer[r] # "lost" /\ finals[r] = 1

(* The final response is the last one of its request; a stream that failed  *)
(* is the exception, its error overtakes the queue.                         *)
FinalIsLast == \A r \in Requests : late[r] => infer[r] = "failed"

(* finalize returns, whatever was running or queued, if the engine finishes.*)
FinalizeEnds == EngineEnds => (finalize = "joining" ~> finalize = "done")

(* A cancelled request ends although the engine would go on for ever.       *)
CancelEnds == \A r \in Requests : (cancelled[r] /\ infer[r] \in Live) ~> infer[r] \in Over
=============================================================================
