---------------------------------- MODULE Batch ----------------------------------
(***************************************************************************)
(* The batches of inference calls inside one request.  Three shapes share  *)
(* one skeleton, tasks under an asyncio.gather:                            *)
(*   - an embedding batch (src/gateway/embeddings.py, run_embedding_batch):*)
(*     a few workers take inputs from one iterator; the batch is drained;  *)
(*   - the visual map (src/gateway/vllm_media.py, _summarize_visual_items):*)
(*     one task per chunk under a semaphore; the batch is drained;         *)
(*   - the text maps (_summarize_text_chunks, _retrieve_pdf_text_chunks,   *)
(*     _reduce_summaries): one task per chunk under a semaphore, in a bare *)
(*     gather.                                                             *)
(* A drained batch shields the gather from the caller's cancellation,      *)
(* cancels what is left of it and waits for all of it.                     *)
(***************************************************************************)
EXTENDS Integers, FiniteSets

CONSTANTS
  Count,        \* number of inputs, or of chunks
  Concurrency   \* GATEWAY_EMBEDDING_CONCURRENCY, media_map_concurrency, ...

ASSUME BatchAssumption == Count \in Nat \ {0} /\ Concurrency \in Nat \ {0}

Inputs == 1..Count

VARIABLES
  shape,     \* which of the three it is
  task,      \* what each task does
  item,      \* the input it works on
  next,      \* the first input nobody took from the iterator
  answers,   \* per input, how often it was answered
  stopping,  \* the tasks whose cancellation was requested
  caller,    \* the function that awaits the batch
  outcome,   \* what it returns or raises
  cancelled  \* the request was cancelled while it was in there

vars == <<shape, task, item, next, answers, stopping, caller, outcome, cancelled>>

Pooled == shape = "workers"
Drains == shape # "text map"
Tasks == IF Pooled THEN {t \in Inputs : t <= Concurrency} ELSE Inputs

Finished == {"done", "failed", "cancelled"}

TypeOK ==
  /\ shape \in {"workers", "visual map", "text map"}
  /\ task \in [Tasks -> {"ready", "calling"} \cup Finished]
  /\ item \in [Tasks -> 0..Count]
  /\ next \in 1..(Count + 1)
  /\ answers \in [Inputs -> Nat]
  /\ stopping \subseteq Tasks
  /\ caller \in {"waiting", "draining", "returned"}
  /\ outcome \in {"none", "results", "failed", "cancelled"}
  /\ cancelled \in BOOLEAN

Init ==
  /\ shape \in {"workers", "visual map", "text map"}
  /\ task = [t \in Tasks |-> "ready"]
  /\ item = [t \in Tasks |-> 0]
  /\ next = 1
  /\ answers = [i \in Inputs |-> 0]
  /\ stopping = {}
  /\ caller = "waiting"
  /\ outcome = "none"
  /\ cancelled = FALSE

-----------------------------------------------------------------------------
Calling == {t \in Tasks : task[t] = "calling"}
Unfinished == {t \in Tasks : task[t] \notin Finished}

TaskStep == UNCHANGED <<shape, stopping, caller, outcome, cancelled>>

(* A worker takes its next input, or ends when there is none.               *)
TakeInput(t) ==
  IF next <= Count
    THEN /\ task' = [task EXCEPT ![t] = "calling"]
         /\ item' = [item EXCEPT ![t] = next]
         /\ next' = next + 1
    ELSE /\ task' = [task EXCEPT ![t] = "done"]
         /\ UNCHANGED <<item, next>>

(* The task of a chunk starts its call when the semaphore lets it.          *)
TakeChunk(t) ==
  /\ Cardinality(Calling) < Concurrency
  /\ task' = [task EXCEPT ![t] = "calling"]
  /\ item' = [item EXCEPT ![t] = t]
  /\ UNCHANGED next

Starts(t) ==
  /\ task[t] = "ready" /\ t \notin stopping
  /\ IF Pooled THEN TakeInput(t) ELSE TakeChunk(t)
  /\ UNCHANGED answers
  /\ TaskStep

(* An answer is stored; a worker goes on without a suspension point.        *)
Answered(t) ==
  /\ task[t] = "calling" /\ t \notin stopping
  /\ answers' = [answers EXCEPT ![item[t]] = @ + 1]
  /\ IF Pooled THEN TakeInput(t)
     ELSE task' = [task EXCEPT ![t] = "done"] /\ UNCHANGED <<item, next>>
  /\ TaskStep

Fails(t) ==
  /\ task[t] = "calling" /\ t \notin stopping
  /\ task' = [task EXCEPT ![t] = "failed"]
  /\ UNCHANGED <<item, next, answers>>
  /\ TaskStep

(* CancelledError unwinds a task and its call.                              *)
Unwinds(t) ==
  /\ t \in stopping /\ task[t] \notin Finished
  /\ task' = [task EXCEPT ![t] = "cancelled"]
  /\ UNCHANGED <<item, next, answers>>
  /\ TaskStep
-----------------------------------------------------------------------------
(* gather has its result at the first task that fails or is cancelled, or   *)
(* when all are done.                                                       *)
Resolved == Unfinished = {} \/ \E t \in Tasks : task[t] \in {"failed", "cancelled"}

(* What the gather gives its awaiter.  Variant: return_exceptions=True, and *)
(* nobody looks for exceptions among the results.                           *)
VerdictOfAll ==
  IF cancelled THEN "cancelled"
  ELSE IF Unfinished = {} THEN "results" ELSE "none"

Verdict ==
  IF cancelled /\ \A t \in Tasks : task[t] # "failed" THEN "cancelled"
  ELSE IF \E t \in Tasks : task[t] = "failed" THEN "failed" ELSE "results"

(* The finally clause: cancel what is left, and wait for it.  Variants: the *)
(* rest is cancelled and not awaited; it is awaited and not cancelled.      *)
LeaveUndrained(result) ==
  /\ stopping' = stopping \cup Unfinished
  /\ caller' = "returned"
  /\ outcome' = result

LeaveRunning(result) ==
  /\ stopping' = stopping
  /\ caller' = "draining"
  /\ outcome' = result

Leave(result) ==
  /\ stopping' = stopping \cup Unfinished
  /\ caller' = "draining"
  /\ outcome' = result

(* The caller resumes.                                                      *)
ResumesDrained ==
  /\ Drains
  /\ caller = "waiting" /\ Resolved
  /\ Leave(Verdict)
  /\ UNCHANGED <<shape, task, item, next, answers, cancelled>>

ResumesBare ==
  /\ ~Drains
  /\ caller = "waiting" /\ Resolved
  /\ caller' = "returned"
  /\ outcome' = Verdict
  /\ UNCHANGED <<shape, task, item, next, answers, stopping, cancelled>>

(* The request is cancelled while it waits.  Where the gather is shielded   *)
(* the caller leaves at once; a bare gather passes the cancellation on, and *)
(* one that has its result already does not.                                *)
CancelledShielded ==
  /\ Drains
  /\ caller = "waiting"
  /\ cancelled' = TRUE
  /\ Leave("cancelled")
  /\ UNCHANGED <<shape, task, item, next, answers>>

CancelledBare ==
  /\ ~Drains
  /\ caller = "waiting" /\ ~cancelled
  /\ cancelled' = TRUE
  /\ stopping' = stopping \cup Unfinished
  /\ UNCHANGED <<shape, task, item, next, answers, caller, outcome>>

CancelledLate ==
  /\ ~Drains
  /\ caller = "waiting" /\ ~cancelled /\ Resolved
  /\ cancelled' = TRUE
  /\ caller' = "returned"
  /\ outcome' = "cancelled"
  /\ UNCHANGED <<shape, task, item, next, answers, stopping>>

(* A cancellation in the drain loop is remembered.  Variant: it is lost.    *)
CancelledSwallowed ==
  /\ caller = "draining" /\ ~cancelled
  /\ cancelled' = TRUE
  /\ UNCHANGED <<shape, task, item, next, answers, stopping, caller, outcome>>

CancelledDraining ==
  /\ caller = "draining"
  /\ cancelled' = TRUE
  /\ outcome' = "cancelled"
  /\ UNCHANGED <<shape, task, item, next, answers, stopping, caller>>

Drained ==
  /\ caller = "draining" /\ Unfinished = {}
  /\ caller' = "returned"
  /\ UNCHANGED <<shape, task, item, next, answers, stopping, outcome, cancelled>>

Calls == \E t \in Tasks : Starts(t) \/ Answered(t) \/ Fails(t)
Cancels == CancelledShielded \/ CancelledBare \/ CancelledLate \/ CancelledDraining
Caller == ResumesDrained \/ ResumesBare \/ Drained

(* The request goes on to whatever comes after the batch.                   *)
GoesOn ==
  /\ caller = "returned" /\ Unfinished = {}
  /\ UNCHANGED vars

Next == Calls \/ (\E t \in Tasks : Unwinds(t)) \/ Cancels \/ Caller \/ GoesOn

Spec == Init /\ [][Next]_vars

(* The event loop resumes the caller and unwinds what is cancelled.  Triton *)
(* need not answer.                                                         *)
LoopSpec == Spec /\ WF_vars(Caller) /\ \A t \in Inputs : WF_vars(Unwinds(t))
-----------------------------------------------------------------------------
(* When the batch has returned, whatever its outcome, none of its calls is  *)
(* in flight: the caller may give its admission lease back ("Request        *)
(* accounting must wait for every locally owned transport to close").       *)
NothingOutlives == caller = "returned" => Unfinished = {}

(* So it is with the batches that are drained.                              *)
DrainedOutright == Drains => NothingOutlives

(* Every input is answered once, none twice, before results are returned.   *)
ResultsComplete ==
  /\ \A i \in Inputs : answers[i] <= 1
  /\ outcome = "results" => \A i \in Inputs : answers[i] = 1

(* A cancellation that arrives at any time, cleanup included, is what the   *)
(* caller of a drained batch sees.                                          *)
CancellationKept == Drains /\ cancelled /\ caller = "returned" => outcome = "cancelled"

(* A cancelled batch returns although Triton answers none of its calls.     *)
CancelReturns == cancelled ~> caller = "returned"
=============================================================================
