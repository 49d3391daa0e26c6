# Verification of the Triton OpenAI gateway

TLA+ models of the concurrent core of `src/` and of the way of a request
through it, TLC configurations that check
them on small instances, and TLAPS proofs of the results that matter most.
`PROJECT.json` lists components, runs, theorems, hazards and, for every
definition that models code, the lines it models. Paths below are relative to
`src/`.

To check: `tlc -config X.cfg MC....tla` for each run, `tlapm M.tla` for each
module named `*Proofs` (and `SetCounting`).

## 1. The system

The gateway is one Python process (FastAPI, one asyncio event loop) in front of
an NVIDIA Triton server in the same container. Beside it run a shell watcher
that publishes model directories to Triton and a shell supervisor that keeps
the gateway process alive. Inside Triton, two Python backends run vLLM.

| Component | State it keeps | Operations | What makes it correct |
|---|---|---|---|
| Admission control, `gateway/admission.py` | gates: in-flight and queued counters per (key, policy); one condition | `acquire`, `release`, time-out, cancellation, re-reading of `gateway.json` | both budgets taken together; counters equal holders and waiters; no sleeper beside free slots |
| CPU work pool, `gateway/cpu_work.py` | a semaphore, `queued`, `active`, native threads | `run`, `checkpoint` | slots survive time-outs and cancellations; native threads stay within the slots |
| Request lifecycle, `gateway/generation_types.py`, `generation.py`, `responses.py`, `app.py` | the admission lease, the stream, the task and watcher of a request | `generate`, `until_disconnected`, `create_response`, `aclose` | lease and Triton call have one owner until both are gone |
| Triton client, `gateway/triton_client.py` | gRPC streams and client singletons | infer, stream | a stream that did not complete is cancelled |
| Embedding batches, `gateway/embeddings.py`; media map and reduce, `gateway/vllm_media.py` | tasks under a gather | map, drain, halve, reduce | complete results; no call outlives its batch; cancellation is kept |
| vLLM backend, `backends/vllm_multimodal/model.py` | ongoing count, bounded response queue, per-request state; three threads | `execute`, `_infer`, response loop, `finalize` | one final response per request, last; shutdown waits for all and ends |
| Model cleanup, `gateway/model_cleanup.py` | stages and journals on disk, retirement markers | retire, stage, remove, recover | no metadata of a live checkout is lost, whatever crashes |
| Repository watcher, `watch_triton.sh` | links in the active directory, `cleanup_recovery_pending` | `scan_once` | publication and cleanup do not undo each other |
| Supervisor, `docker/90-triton-chat-gateway.sh`, `docker/triton-gateway` | pid, lock, request and state files | restart, watch, back off | a restart is served once, by a new process |
| Model registry, `gateway/registry.py`, `model_config.py` | tokenizer cache, load tasks, a memo of backends | load, join, replace, read | one load per version; an answer was true during the call |
| Context compression, `gateway/context_compression.py` | summary cache, semaphore | truncate, select, summarise, time out | what is accepted fits; each message is in the prompt or in the summary |
| Chat request, `gateway/generation.py`, `multimodal.py`, `token_budget.py` | conversation, media, reserve of one request | scope, isolate, focus, measure, compress, call | fits the window; the media asked about arrive, older ones do not |
| Media preprocessing, `gateway/vllm_media.py`, `media_preprocessing.py` | notes of one request | map, halve, retrieve, reduce | every part told of once, in order; the end is reached |
| Reranking, `gateway/rerank.py`, `rerank_strategies.py` | plan, strategy, scores of one request | plan, resolve, call, choose | limits hold; each document keeps its own score |
| Streaming text, `gateway/triton_client.py`, `reasoning.py`, `sanitizer.py`; `gateway/deepseek.py` | cursors and held-back text of a stream | chunk, end | a stream ends with the answer of a request without one; no marker leaks |
| Chat chunks and Responses events, `gateway/triton_client.py`, `responses_stream.py`, `responses.py` | items of a response | event, end, fail, replay | one terminal event, last; output can be sent back as input |
| Telemetry, `gateway/observability.py`, `generation_telemetry.py`, `metrics.py` | per-request record, per-call slots | enter, complete, finish | counted once; a success was an answer |
| DeepSeek backend, `backends/vllm_deepseek`; metrics logger, `backends/vllm_multimodal/utils/metrics.py` | start state of the engine; bounded queue of samples | start under a deadline, cleanup, finalize, log | published or cleaned up, never both; the cause is reported |
| Settings, schemas, tensor conversion, file validation, packaging | none across requests | conversions | not modelled (section 5) |

How they interact. A handler calls `until_disconnected(generate(...))`, a task
beside a watcher of the connection. `generate` takes a lease from admission
control and then prepares the prompt (registry, CPU pool, context compression,
media map: each may call Triton). It returns a stream that takes the lease
along, or a result after releasing it. `ManagedStreamingResponse` sends the
stream and closes it; the close cancels the gRPC call and releases the lease.
Triton hands the call to the backend, whose event thread and response thread
answer it. Watcher and cleanup share only the file system with whoever
downloads models, the supervisor only files and signals with the operator.

What is hard here: interleavings of coroutines at every `await` (admission, the
pool, lifecycle, batches); cancellation arriving at any of them, also in the
middle of cleanup; a slot or a stream that belongs to nobody for one step; two
threads and an event loop sharing a counter and a bounded queue; crashes
between two system calls and a producer that does not take part in any
protocol (cleanup); a text that is cut anywhere and must be judged before it is
complete; caches that are read before an await and written after it.
`PROJECT.json` lists 40 hazards, each at its line, with the properties that
would catch it going wrong.

## 2. The modules

    AdmissionPool  <-- Admission            refinement, MCAdmission
    AdmissionPool  <-- Generation           composition, MCGeneration
    CpuWork   Backend   ModelCleanup   Supervisor      each with its MC module
    Batch                                   MCBatch, MCServices
    OutputStream                            MCOutputStream, MCServices
    ContextCompression  TokenizerLoads  BackendConfig  Accounting  Startup  Reranking
    ChatRequest                             Services, MCServices
    MediaEvidence  DeepSeekStream  ResponseEvents                   MCServices
    SetCounting, AdmissionProofs, CpuWorkProofs, GenerationProofs, BackendProofs,
    ModelCleanupProofs, SupervisorProofs, ServicesProofs            theorems

Common to all: a step is the code between two suspension points (for a thread:
between two operations on shared state; for the cleanup helper: one system
call, or several whose intermediate states recovery cannot tell apart).
Messages, names, files and payloads are model values. An operator commented as
a *variant* is not part of `Next`: it is the definition next to it as a
plausible bug would have it, and `PROJECT.json` pairs it with the property that
then fails.

### Admission and AdmissionPool (`gateway/admission.py`)

`Admission` keeps the counters of each gate, the phase of each request and the
gate it uses. A gate is named by its key and its policy, as in the dictionary
`_gates` (admission.py:112; docs/configuration.md:361): when `gateway.json`
changes, new requests use another gate than old ones, and both count at the
global gate. `Reconfigure` is that change; `EnvPolicy` models the environment
override, which decides over the file. `AcquireNow`, `Enqueue` and `RejectFull`
are `acquire` up to its first suspension. The condition's lock is never held
over an await other than the wait, so nobody finds it taken and it is no state.
`NotifyAll` turns sleepers into woken ones; each rechecks on its turn, may have
timed out or been cancelled before that, and goes back to sleep if somebody
else was faster.

`AdmissionPool` is the promise without counters, condition or configuration:
sets of admitted and waiting requests, and their gates. `ImplementsPool` is the
refinement. `Generation` composes with this abstract pool.

### CpuWork (`gateway/cpu_work.py`)

`asyncio.Semaphore` of Python 3.12 is modelled from its use: a release hands the
slot to the first sleeping waiter, which owns it before it runs ("handed"). A
waiter that times out or is cancelled is "leaving" or, if it already had a
slot, "returning" it when it runs. A running caller has a native thread
(`native`) that is inside a native call or between two; a cancelled caller
sets the stop event in its handler ("draining") and keeps slot and counter
until the thread ended. `wait_for` runs the acquisition in the caller's own
task (Python 3.12), so its time-out and a cancellation are the same step,
`GiveUp`. One consequence is modelled but not a property, since no text
promises otherwise: a newcomer can be rejected as full while a slot is on its
way to a waiter, because `locked()` is still true.

### Generation (`generation_types.py`, `generation.py`, `responses.py`, `app.py`, `triton_client.py`)

Per request: where its handler is, which operation `until_disconnected` awaits
(`generate`, then for `/v1/responses` the first event), its task, its watcher,
whether a call to Triton is in flight, and how far `aclose` got. `deliver` says
whether the outcome of the task is returned or replaced by an exception. The
task wins when both are done (the code looks at the operation first). The server may cancel the handler
in both awaits (`HandlerInterrupted`), also repeatedly. A stream that ends
calls `aclose` from its generator and again from `ManagedStreamingResponse`;
the second call returns at once. A cancellation that hits `aclose` itself is not
a step: the shield holds off those of anyio, and after any other the `finally`
clauses still cancel the call and then release the lease, in that order. Plain requests (embeddings, rerank) go
through `admitted` and have no watcher of the connection.

### Batch (`embeddings.py`, `vllm_media.py`)

One skeleton in three shapes: workers that take inputs from an iterator and are
drained (embeddings), a task per chunk under a semaphore that is drained
(visual map), and the same under a bare `gather` (text chunks, PDF retrieval,
reduction). A drained batch shields the gather, cancels the rest and waits for
it, remembering a cancellation that arrives meanwhile. A bare gather passes a
cancellation on to its children, and may lose it to a failure that came first
(`CancelledBare`, `Verdict`); `CancellationKept` is about drained ones.

### Backend (`backends/vllm_multimodal/model.py`)

Triton's thread (`Execute`, `Refuse`, `Finalize` and the joins), the event loop
(`ready`, first in first out, as `call_soon_threadsafe` keeps it), one
coroutine per request, and the response thread (`hand`). Streams leave the
decrement of the count to the response thread, other requests do it
themselves. `+=` and `-=` on `_ongoing_request_count` are one step because
CPython switches threads only at function entries and backward jumps. A failed
stream sends its error straight to the client, past the queued responses
(`Fails`): `FinalIsLast` states the order with that exception.

### ModelCleanup (`gateway/model_cleanup.py`, `watch_triton.sh`)

One checkout path, its producer (external: it makes, fills, deletes and remakes
the checkout at any time), the scans of the watcher, and the helper process
step by step: inventory, stage, journal, one rename per file, `rmdir`, marker,
and `_recover_cleanup_stage`, run by the helper itself or by the next scan. A
`Crash` ends the helper between any two steps, `Fails` sends it to its
`finally` clause. A file is the number of the write that made it, so older and
newer metadata differ. Over-approximations: an inode number may be reused by
the next directory; a write may come at any time, as a replacement of the whole
file; a retirement marker, its fingerprint and the grace period are one bit,
`retired`, that every change of the checkout clears; the scan publishes and
cleans up in any order. Abstracted: power failures (every step is synced by
the code; they are crashes), more than one path, the DeepSeek marker, the
`/proc` inventory of users (a version in use is one whose grace has not
passed), publication by anyone else than this watcher.

### Supervisor (`docker/90-triton-chat-gateway.sh`, `docker/triton-gateway`)

The supervisor loop branch by branch, its start and its exit trap; the runs of
`triton-gateway restart`; the state file, the request file and the control
lock between them. The supervisor's own `generation` and `gateway_pid` are read
off the state file, which it replaces whenever they change (`Generation`,
`Child`). What it does under the control lock is one step; the command holds
the lock over two, so that it can be killed with it. Gateways die at any time,
hang, or outlive a supervisor that was killed, and then answer the probes meant
for a later one. Exits for any cause are one action, possible at any point
after the traps are set, which includes the threshold of Triton's failures. A
request carries, as history, the last generation that had passed a probe when
it was written. A pid with its start time is a supervisor and a generation: it is
never used twice. Left out: `status`, the preparation of the runtime directory, the
token of a request and `completed_request`, which nothing reads.

### ContextCompression (`gateway/context_compression.py`)

A conversation is a set of numbered messages of one token each; a summary is
the set of messages its text was made from, with the tokens it takes. Two
requests share `_summary_cache` (least recently used first) and the semaphore.
`Select`, `Hit`, `Miss`, `Acquire`, `Summarized`, `Render` are the stretches of
`prepare_conversation_context` and of the summary between awaits; `Timeout` and
`Cancelled` may come in each wait, also in the one for the semaphore, which the
time-out of a summary includes. The score of a message as evidence is an input.

### OutputStream (`gateway/triton_client.py`, `reasoning.py`, `sanitizer.py`)

A text is a sequence of words, line breaks and halves of tags and markers, so a
chunk can end anywhere in one. `Sanitized` is the incremental scan with its
cursors, `Stateless` the scan of a whole text: `OutputSound` says that they
agree for every split into chunks. Lengths counted in characters (80, 32 and 96
for a repetition, the two hold-backs) are constants counted in pieces that
keep their order. `stream_triton_multimodal_to_openai` repeats this text
handling and is mapped here.

### TokenizerLoads and BackendConfig (`gateway/registry.py`, `model_config.py`)

`TokenizerLoads` has coroutines that resolve the version of a model, join or
start its load, and wait behind a shield, and threads that look into the cache
and load under the lock of the model, while `Replace` moves the model's link to
another version and back. A task may have ended whose callback has not run
(`late`). `BackendConfig` has callers that `stat` a `config.pbtxt`, find the
stat in the memo or read the file in two parts, while `Rewrite` changes it in
place; the check of the identity after the read is `Same`.

### Accounting (`gateway/observability.py`, `generation_telemetry.py`, `metrics.py`)

The middleware of one request with all its ways out (refused, too large, ended,
raised, cancelled, an application that ends without a body), and its calls to
Triton, which report metadata packet by packet and end in every way a stream can
end. The visual usage of a request is the sum over its calls. A refusal that the
server cancels (`RefusalCancelled`) is never counted; no text promises that it
is.

### Startup (`backends/vllm_deepseek/policy.py`, `backends/vllm_multimodal/utils/metrics.py`)

Triton's thread initialises and finalises; the engine lives in a task of an event
loop in another thread; the logger and the response thread end with it. Any
deadline may pass at any time, and the engine may hang while it is built, asked,
used or closed. `call_soon_threadsafe` is the set `sent` of callbacks the loop has
not run. Samples beyond the queue are dropped, as in the code.

### Reranking (`gateway/app.py`, `rerank.py`, `rerank_strategies.py`)

`Plan` (limits and sizes), `Resolve` (the strategy: request, database, file), a
`Call` per batch that may lose scores or fail, and `Respond`. Scores and thresholds
are integers, a filter is one comparison, similarity is the share of common words.
The code compares the number of all scores with the number of documents once, at
the end, which is what `Respond` does. The ranking is the one order of all items by
score and place (`Ranked`). The five methods are one walk through it, `Chosen`,
which passes over an item for what the method's parameters ask (`PassesOver`): a method
has no parameters but its own.

### ChatRequest (`gateway/generation.py`, `multimodal.py`, `token_budget.py`, `media_preprocessing.py`)

One request, from validation to the arguments of the call: the scope of media
history, isolation and focus on current media, preprocessing, the reserve for
media, the measurement of the prompt, the three modes of compression and the last
computation of the output limit. A message has a role, tokens of text, media, and
the media its text is about: for an answer, media that its own turn brought
(`Conversation`, the one thing the gateway cannot see and has to believe of a client). The
summary's size is free (`ContextCompression` has its making), the notes on a
medium are one text (`MediaEvidence`). Lists that are filtered in the code are
`Only`, the messages at some places in their order. Reading the code this way
showed what the terms of the properties say: a medium for which the template renders
more than the gateway reserves, as a PDF sent to a backend that does not
preprocess, may be refused late, after a summary was paid for (`NoLateRefusal`
has that term); with `media_history` "all" the media are extracted before
isolation; a streamed request to a backend of no known kind drops its images
(`RightMedia`).

### MediaEvidence (`gateway/vllm_media.py`, `media_preprocessing.py`)

The media of one request fall into parts (pages, frames, pieces of a
transcript), parts into chunks; a chunk becomes a note, or is halved when the
engine says it is too long, or fails. `Retrieve` chooses pages when there is an
embedding model, `Reduce` repeats until the notes fit. A note remembers which
parts it tells of, in order. That the calls of one map run at once is in `Batch`.
The pages of a PDF without text are left out when its text is used, also if they
are images: `Complete` says so.

### DeepSeekStream (`gateway/deepseek.py`)

`DeepSeekOutput` and `DeepSeekJsonOutput` as functions of the parser's state
and a chunk; `Chunk` feeds one, `End` is what `generate` does when the stream
ends. The recipe's own processor is external and hands on what it is given. An
answer whose text ends in a piece of a marker without EOS fails with 502; white
space after a block of calls would give a text item behind the calls, if the
recipe passed it on.

### ResponseEvents (`gateway/triton_client.py`, `responses_stream.py`, `responses.py`)

One generation in both protocols and four kinds of stream: the frames (`source`),
the items and events `response_events` makes of them, the answer of a request
that does not stream (`Serialized`), and what `input_messages` makes of the
output when a client sends it back (`Replay`). Backends fail before the first
frame or after, and clients go. The Python backend's stream turns an error into
friendly text and ends normally, so a Responses stream reports "completed"
where docs/responses.md:155 speaks of an error and `response.failed`;
`NoFalseAnswer` has that term.

### Services and MCServices

`Batch` and the eleven modules from ContextCompression to ResponseEvents share
no state and never wait for each other. `Services` holds the seven of them that
are proved about, each an instance with constants and variables of its own, the
assumptions on their constants, and what is promised of each. `MCServices`
extends `Batch` and `Services`, adds the other four, and checks all in one run:
`part` is chosen once and names the component at work, all others keep still.
The states of the run are the sum of the components' states, not their product,
and fairness is that of the component at work. The properties of components
that have no state while they are idle are guarded by `part`.

## 3. What the runs check

| Run | Instance | States | Shows |
|---|---|---|---|
| admission | 4 requests, 2 models behind a global gate, 2 policies | 49,272 | `Conservation`, `NoLostWakeup`, refinement of the pool, `QueueProgress` |
| admission_fifo | 3 requests | violation | a newcomer passes a waiter (finding 1) |
| cpu | 5 callers, 2 slots, queue of 2 | 50,696 | slots conserved, threads within slots, nobody stranded, first come first served, a cancelled caller ends |
| generation | a chat, a response, a plain request; one slot | 336,876 | nothing leaks, streams usable, one reader, inference bounded, a disconnect frees |
| backend | 2 requests of either kind, queue of 1 | 32,837 | the count is exact, all answered before the stop, final is last, `finalize` and cancellation end |
| batch_stray | 3 inputs, 2 at a time | violation | a text map leaves calls behind (finding 2) |
| services | twelve components, each by itself | 318,502 | batches are drained, complete and keep a cancellation; compressed history, streamed text, registry, accounting, engine start, rerank, chat request, media notes, DeepSeek and Responses streams are sound; the engine's start ends |
| stream_again | two parsers, texts of 4 and 5 pieces | violation | an answer that shrinks is sent once more (finding 5) |
| cleanup | 2 files, 2 stages, 2 writes, 1 fault, 2 checkouts | 231,122 | newest metadata kept, stages emptied |
| cleanup_fallback | the same | violation | a version published without its staged config (finding 3) |
| supervisor | 2 restart commands, 2 supervisors, threshold 2, 1 fault | 430,521 | a reported restart is a new process, no needless kill, requests are served |
| supervisor_fork | 1 supervisor | violation | a gateway outlives its supervisor (finding 4) |

Why the bounds are enough. *admission*: one request at each model's gate
fills the global one, so the two remaining contend, one through each gate or
both through one; a policy change splits a key over two gates with requests on
both. *cpu*: five callers are one more than slots and queue take, so a hand-over
can meet a waiter that gives up, a second waiter and a newcomer. *generation*:
the three kinds differ only before their first event, and a slot for one makes
the two others wait. *backend*: two requests and a queue of one make every
second response wait; requests of both kinds occur together. *cleanup*: two files allow an interruption between moves; two
writes allow a newer version of one file beside an old stage; two checkouts
and two identities cover replacement with a new and with a reused inode; the
second staging name leaves one stage behind while another is made. `Made #
Stages` in `CleanupStarts` is a bound of the model, not a check of the code.
More than one fault per behaviour is left out of the run. *supervisor*: one
command can meet the request of the other, or a replacement made for a dead
or hanging gateway; the second supervisor finds the request, the state and
perhaps the gateway of the first; one fault lets a replacement die
before its first probe. Generations are bounded by these (`Generations`).

The parts of *services* (`MCServices` has their inputs):

| Part | Instance | Why it is enough |
|---|---|---|
| batch | 5 inputs, 3 at a time, three shapes | a worker takes a second input while another fails |
| context | 2 requests, 3 conversations of 9 to 11 messages, 4 configurations, caches of 1 and 2 | one entry serves, or is evicted by, the other request; two conversations share a beginning and differ in their last message; a summary takes two calls |
| output | 7 alphabets, texts of 4 or 5 pieces, chunks of 1 or 2 | each marker is met whole, cut at each place and followed by more, with each parser and mode |
| tokenizers | 2 callers, 2 versions, 3 loads | the model goes to another version and back while both wait; a failed load is tried again |
| backends | 2 callers, 3 rewrites, 2 backends | the file changes and changes back during one read, which the memo then serves to the other |
| accounts | 2 calls, one request | one ends well and the other fails after it said it ended |
| startup | a queue of one sample | the sentinel of the logger finds it full; each hang, failure and deadline in any order |
| reranking | 12 requests, 4 configurations, 3 databases, 4 documents | each strategy, override and refusal; two batches, ties, a lost score |
| chat | 6 conversations, 97 deployments, requested outputs of 0 to 7 | each backend and mode with a window that is ample, tight or too small; media in the last turn, before it and in answers |
| media | 6 lists of media, 4 settings, notes of 1 or 2 tokens | maps of one chunk and several, halving down to one part, retrieval, more than one reduction |
| deepseek | 10 answers, 4 profiles, 4 endings, chunks of up to 3 | chunks cut each marker at each place; markers where they must not be |
| responses | 18 results, 4 streams, 2 protocols, 4 faults | text and calls, either, none; failure before, within and after |

Deadlock is checked in all runs but *backend*, *supervisor*, *services* and
*stream_again*, where the system does stop: after `finalize`, with the last
supervisor and the last command, or with the last request, nothing is left to
do. In *batch_stray* the request going on after its batch is `GoesOn`.

Fairness, and why. Tasks that are ready run (weak fairness on wake-ups, unwinds
and the handlers' steps): asyncio runs its ready queue in order. Admitted
requests end (`Release` in `Admission`): calls to Triton have a timeout
(`REQUEST_TIMEOUT_SECONDS`). A native tokenizer call ends, and a thread that is between two calls goes on;
nothing says that the tokenizer function as a whole returns. The backend's
threads run, `abort` is acknowledged, and a coroutine that polls a full queue
finds room if there is room again and again (strong fairness on `Retry`, which
polls every millisecond). `FinalizeEnds` additionally assumes that the engine ends every
request (`EngineEnds`), `CancelEnds` does not. The watcher scans for ever and
the helper does not hang. The supervisor's shell keeps running (`Loop`), and a
command that holds the control lock goes on; nothing says that a gateway
becomes healthy or that a command waits long enough. In *services* the event
loop runs a batch's caller and its cancelled tasks (as in `LoopSpec`), and Triton's
thread and the logger thread of `Startup` run; the engine owes nothing there, so
`InitializeEnds` rests on the deadlines of the code alone. Nothing is assumed of
Triton's answers, of clients, of queue timers or of the producer.

### Findings

1. docs/architecture.md:130 promises a FIFO queue. `acquire` looks at the budget and
   not at the queue; a request that arrives after a release and before the woken waiter
   runs takes the slot. Waiters woken together do run in order.
2. vllm_media.py:415 says that request accounting waits for every transport.
   The text map, the PDF retrieval and the reduction await a bare gather; after a
   failure their siblings go on while the lease is released. (`Generation`
   proves `InferenceBounded` of the calls a request awaits; such strays are
   outside of it.)
3. watch_triton.sh:438 rules out the fallback while files are staged. The flag is set
   only at the start of a scan; a helper that dies within the scan leaves the
   config staged, and the same scan may publish a version without it.

4. tests/test_gateway_watchdog.py:589 requires that a terminated supervisor leaves no
   gateway. `start_gateway` stores the pid in the command after the fork; a
   SIGTERM in between runs the trap with an empty `gateway_pid`, and the
   gateway stays as an orphan that holds the port.

5. triton_client.py:278 says that a text which no longer begins with what was
   sent is suppressed "rather than duplicating" it. So it is for reasoning;
   for the answer, line 1458 (and 1079) sends all of the text again. It
   happens when a tag is completed and removed, so that the text is shorter
   than before and the hold-back cuts earlier. `OutputSound` compares the whole answer
   where nothing was revised.

Three more behaviours met on the way, which no text of the repository
contradicts and which are terms of a property: a stage whose path was taken by another directory is deferred at
every scan and blocks cleanup until an operator acts; and with
`WATCHER_CLEANUP_GRACE_SECONDS=0` (`ZeroGrace`) two faults within one scan, or
one and a reused inode, can leave two stages for one checkout that are
restored in the order of random names, so the older metadata may win; and a restart command that comes between the
publication of `running` (90-triton-chat-gateway.sh:247) and the removal of
the request that was served (line 248) joins that request and reports success
at once, so `ReportedIsFresh` speaks of the request that was made or joined.

## 4. What is proved

For every number of requests, callers, gates, policies, slots, inputs, loads,
commands, files, stages, faults, messages and documents, and every queue bound,
limit and setting allowed by the named assumptions: `AdmissionAssumption`,
`NoGateAssumption`, `CpuWorkAssumption`, `GenerationAssumption`,
`BackendAssumption`, `BatchAssumption`, `CleanupAssumption`,
`SupervisorAssumption` and `ServicesAssumption`, which contains
`ContextAssumption`, `RerankAssumption` and `ChatAssumption`. They say that sets of requests and
conversations are finite, that an answer in a conversation is about media of its own turn, that a
backend and a mode of compression are one of those the code knows, that limits and settings are numbers in the ranges the
code reads them in (positive for gates in `Admission`, for `Workers`, for the response
queue and for a batch), and that "no gate", "no task", "no version" and "no score" are none.
`ModelCleanupProofs` assumes in addition `Grace`, that
`WATCHER_CLEANUP_GRACE_SECONDS` is not zero; with zero `NewestKept` is false
after two faults (end of section 3).

* **AdmissionProofs.** `IInv` is `TypeOK`, `Conservation`, `WithinLimits` and
  `NoLostWakeup`. `Conservation` is not inductive without the typing of gates;
  the limits need conservation (a decrement that stops at zero never does stop
  there); `NoLostWakeup` needs it because only a release makes room, and it wakes
  all. Each step moves one request (`StepMovesOne`), so the sets behind the
  counters change by one element (`SetCounting`). `Refinement` shows each
  step to be a step of the pool, or a stutter: a woken request that sleeps
  again, a rejection and a new configuration change nothing abstract.
* **CpuWorkProofs.** `IInv` adds to types and conservation the queue's bound, the order of
  the deque (`DequeOrdered`: "before" is a strict order on those who wait) and
  `NoStrandedWaiter`. The order gives a first sleeper whenever anyone sleeps
  (`SomeoneIsFirst`), which is why a release is never lost. `NativeWithinSlots`
  follows: a thread works only for a holder, holders own slots, slots add up to
  `Workers`.
* **GenerationProofs.** `Ownership` says for each request where lease and call are at
  every point of its life: with the task while `generate` runs, with the
  stream afterwards, with `aclose` while it is closed. It speaks of one
  request at a time, and a step moves one, so each action needs one lemma
  (`Kept...`). The pool's limits are the second half. `NothingLeaks`,
  `CallNeedsLease`, `StreamUsable`, `OneReader` and `InferenceBounded` follow.
* **BackendProofs.** `Posting` orders the callbacks of the event loop: each
  request that was handed over has exactly one, and the shutdown's are behind
  them, so an engine that stops leaves none (`NobodyIsDropped`; with
  `FinalizeDirectly` it would). `Own` follows the responses of one request
  through queue and response thread; its final one is there at most once and
  last. Both are needed for `CountIsOngoing`: without `Own`, a decrement could
  be for a request that is still counted. Two operators on sequences, `Meets`
  and `Clear`, and a lemma for each at either end of the queue are all the
  steps need.
* **ModelCleanupProofs.** Files leave a checkout only while every other stage is
  bare, so one stage at most is not (`OneStage`), and what a checkout lacks is in
  it (`Kept`). That no removal starts while a stage still waits for recovery is
  the work of the watcher: a recovery that nothing interrupted has emptied what
  it visited (`Visited`), and what a helper that died left behind makes the copy young
  again, so a copy that is old in the same scan is whole (`OldIsWhole`). The
  latter is what a grace of zero voids. `Needless` is why the helper may delete a
  stage: every file it held is in place, or there is none newer.
* **SupervisorProofs.** A command writes down, under the control lock, a
  generation to exceed; `Sound` bounds it from below by the last generation that
  had been in service, and from above by the present one. `Watched` and `InService` relate
  the state file to the loop's place, through deaths of the supervisor and its
  successors; `Locked` says that who has the lock knows every request of its supervisor,
  and `InFile` that what the supervisor wants is still asked for.
  `ReportedIsFresh` and `NoNeedlessKill` follow.
* **ServicesProofs.** Eight components, one section each.
  *TokenizerLoads*: `_loads` names exactly the tasks whose callback has not run
  (`Flights`), whatever `Replace` does meanwhile; so a task that has ended but
  is still named is one of its version, and a caller that saw it fail waits for another.
  *BackendConfig*: what the memo holds under the present stat is what the file says
  (`MemoIsNow`), and a caller that read the present file read what that says; an
  older stat is found only by callers that asked when it was current.
  *Accounting*: the metrics follow from how far the request is (`Books`), and a slot
  that is told to have succeeded is one of a call that did (`SlotSound`), so that
  no order of packets, ends and failures makes a sum look complete.
  *Startup*: before its cleanup nothing disturbs a start (`Undisturbed`), so the
  first cause is recorded first (`FirstCause`); each stage of the cleanup finds what the one
  before left (`Cleaning`), and once a failure is known no engine is published any more (`NoneLater`).
  *ContextCompression*: a request keeps whole turns (`Holding`); as long as it
  summarizes it keeps what is protected, and what its text covers together with what is
  left of the source is the whole source (`CtxSound`). The cache tells of a boundary
  what was said up to it (`Told`), whoever stored it and whatever was evicted meanwhile,
  which is all that a request needs when it takes an entry after an await. Two facts about
  conversations carry the steps: the first message of a finite set exists
  (`LeastExists`), and what is left without the oldest turn begins with a user (`TurnLeaves`).
  *Reranking*: scores arrive from the first document on, and a lost score is never made
  up for (`InTurn`); so as many scores as documents means each document's own. The
  ranking exists: an item's place is the number of items before it (`RankingExists`). What
  the walk has chosen of the first items is in order, within the cap and free of doubles,
  and each item it passed over has its reason (`Selected`); taking one more item or
  passing it over keeps that (`Appended`, `PassedOver`), so it holds of the whole
  ranking (`AllSelected`).
  *ChatRequest*: `ChatInv` says what is true at each place of the handler, in four
  parts: the types, that the request is where its place says, the budget, and what was
  checked. The conversation is `Faithful` to the original until media are replaced by text
  about them, and `Ready` from there on: the latest message keeps its media, or tells of them,
  nobody shows a medium or tells of one that should be gone. `ReadyTold` goes from one to the other;
  removing turns and injecting a summary keep it (`ReadyWithoutOldest`, `ReadyInjected`). That no old answer survives the focus needs where turns begin:
  what a turn has lost marks all of it (`SoundHistory`, `SoundFocused`), also after the
  budget has cut the history somewhere inside a turn (`SuffixIs`). No late refusal rests on
  one fact of arithmetic, that fewer media need no larger reserve if the template renders no
  more for a medium than is reserved for it (`ReserveShrinks`). Three functions exist rather than
  being computed: the places that stay in order (`OnlyThins`), the fold of the tokens of a
  conversation (`AddsExists`) and the request as its turns are removed one after another (`FewerExists`).
  *Batch*: `Work` says where each input is: answered, with one task, with one that
  failed, or not taken yet. `Control` says what the caller knows. No step of a
  task or of the caller disturbs more than one of them. `ResultsComplete` needs both, and
  the fact that a gather which was cancelled never reports results (`ResultsOfAll`).
* **SetCounting.** How a cardinality changes when one element moves.

`CpuWorkProofs` also has an action property, `NoBarging`: the deque orders all who wait
(`DequeTotal`), a hand-over goes to the first who sleeps, and who is not
asleep before it has been served or is leaving.

Only model-checked: liveness (`QueueProgress`, `CancelledEnds`,
`DisconnectFrees`, `FinalizeEnds`, `CancelEnds`, `CancelReturns`,
`StagesEmptied`, `RestartServed`, `InitializeEnds`), which rests on fairness and
is out of the prover's reach; and `OutputSound`, `MediaSound` and
`AnswersSound`. These speak of what folds, filters and RECURSIVE operators of the
libraries over whole texts, events and lists compute, which needs induction
over data. Where a definition is a recursive function, as the walk of `Reranking`, or a fold
whose function is known, as the tokens in `ChatRequest`, the
least counterexample (`LeastExists`) takes the place of induction.

## 5. Not modelled, and the plan

Left out for good, because no step of anybody else can disturb them: settings and
schemas; the conversion of requests and media to tensors and engine inputs
(`backends/vllm_multimodal/utils/request.py`, `media.py`); downloads, decoding
and the detection of formats, which are an outcome that may be a failure; the
chat template and the recipes of DeepSeek, which are external; the grammars of
tool calls; the validation of checkpoints and tokenizers; packaging, charts
and scripts.

Left out so far: the client singletons and the capability cache of
`triton_client.py` (an entry may be up to 30 seconds old); the cache of PDF
embeddings, which is keyed by the name of the model and so keeps vectors of one
that was replaced; the caches of the rerank files; how the reasoning settings
of a model are found; the watcher's choice among duplicate copies and its
repair of `model.json`; power failures; more than one checkout path at a time;
the composition of `ChatRequest` with `Generation`, which see one request from
two sides.

Each part of *services* is checked by itself. What one takes from another is an
input it accepts any value of: the size of a summary in `ChatRequest`, the
outcome of a call in `MediaEvidence` and `ContextCompression`, the frames of a
backend in `ResponseEvents`.

Next, in this order:

1. Proofs: the order of notes in `MediaSound`, with the reduction as a recursive
   function; the events of `AnswersSound`, one terminal event and last; whether
   `OutputSound` can be cut at its cursors.
2. The capability cache against replacement of a model; the watcher's choice
   among duplicates.
3. `ChatRequest` as a refinement of the abstract request of `Generation`.
