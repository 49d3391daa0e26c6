-------------------------------- MODULE Startup --------------------------------
(***************************************************************************)
(* The life of a DeepSeek backend around its engine: the bounded start and *)
(* its cleanup (src/backends/vllm_deepseek/policy.py), and the logger of   *)
(* samples that ends with it (utils/metrics.py of the shared backend).     *)
(*                                                                         *)
(* Triton's thread initializes and finalizes; the engine lives in a task   *)
(* of an event loop in a thread of its own; a third thread reports the     *)
(* samples, a fourth sends responses.  Any deadline may pass at any time,  *)
(* and the engine may hang while it is built, asked, used or closed.       *)
(***************************************************************************)
EXTENDS Naturals, FiniteSets

CONSTANTS QueueSize   \* VLLM_MULTIMODAL_METRICS_QUEUE_SIZE

VARIABLES
  main,      \* Triton's thread
  task,      \* _run_llm_engine
  engine,    \* the engine itself: none, open, closed
  shared,    \* what both read under _llm_engine_start_cv
  sent,      \* call_soon_threadsafe: callbacks the loop has not run
  stats,     \* the logger thread, its queue
  response   \* the response thread

vars == <<main, task, engine, shared, sent, stats, response>>
-----------------------------------------------------------------------------
NoError == "none"

Init ==
  /\ main = [at |-> "waits", for |-> "start", error |-> NoError, joined |-> FALSE,
             finalized |-> FALSE]
  /\ task = [at |-> "new", cancelled |-> FALSE, error |-> NoError, ongoing |-> FALSE]
  /\ engine = "none"
  /\ shared = [done |-> FALSE, error |-> NoError, published |-> FALSE,
               aborted |-> FALSE, shutdown |-> FALSE]
  /\ sent = {}
  /\ stats = [at |-> "none", samples |-> 0, listed |-> TRUE]
  /\ response = "none"

Main(x) == main' = x
MainTo(at) == main' = [main EXCEPT !.at = at]
TaskTo(at) == task' = [task EXCEPT !.at = at]

LoopRuns == task.at \notin {"new", "ended"}
-----------------------------------------------------------------------------
(* initialize: _init_engine waits for the task, no longer than its deadline. *)
Deadline ==
  /\ main.at = "waits" /\ ~shared.done
  /\ shared' = [shared EXCEPT !.aborted = TRUE, !.error = "timeout"]
  /\ MainTo("started")
  /\ UNCHANGED <<task, engine, sent, stats, response>>

Woken ==
  /\ main.at = "waits" /\ shared.done
  /\ MainTo("started")
  /\ UNCHANGED <<task, engine, shared, sent, stats, response>>

StartFails ==
  /\ main.at = "started" /\ shared.error # NoError
  /\ Main([main EXCEPT !.at = "signal", !.error = shared.error])
  /\ UNCHANGED <<task, engine, shared, sent, stats, response>>

StartResponses ==
  /\ main.at = "started" /\ shared.error = NoError
  /\ response' = "runs"
  /\ MainTo("checks")
  /\ UNCHANGED <<task, engine, shared, sent, stats>>

Ready ==
  /\ main.at = "checks"
  /\ MainTo("ready")
  /\ UNCHANGED <<task, engine, shared, sent, stats, response>>

(* A model that cannot generate.                                            *)
NotGenerative ==
  /\ main.at = "checks"
  /\ Main([main EXCEPT !.at = "signal", !.for = "initialize", !.error = "task"])
  /\ UNCHANGED <<task, engine, shared, sent, stats, response>>

(* finalize.                                                                *)
Finalize ==
  /\ main.at \in {"ready", "failed"} /\ main.for # "finalize"
  /\ Main([main EXCEPT !.at = IF main.finalized THEN "gone" ELSE "signal",
                       !.for = "finalize"])
  /\ UNCHANGED <<task, engine, shared, sent, stats, response>>
-----------------------------------------------------------------------------
(* _cleanup_partial_startup.                                                *)
Signal ==
  /\ main.at = "signal"
  /\ shared' = [shared EXCEPT !.aborted = TRUE]
  /\ sent' = IF ~main.joined /\ LoopRuns THEN sent \cup {"signal"} ELSE sent
  /\ MainTo(IF main.joined THEN "drain" ELSE "join")
  /\ UNCHANGED <<task, engine, stats, response>>

Joined ==
  /\ main.at = "join" /\ task.at = "ended"
  /\ Main([main EXCEPT !.at = "drain", !.joined = TRUE])
  /\ UNCHANGED <<task, engine, shared, sent, stats, response>>

(* How the cleanup returns to its caller: _init_engine lets initialize      *)
(* clean up once more.                                                      *)
Returned(x) == [x EXCEPT !.at = CASE x.for = "start"      -> "signal"
                                  [] x.for = "initialize" -> "failed"
                                  [] x.for = "finalize"   -> "gone",
                         !.for = IF @ = "start" THEN "initialize" ELSE @]

(* A variant of the next definition: wait again, until the thread ends.   *)
JoinRetries ==
  /\ main.at = "join" /\ task.at # "ended"
  /\ sent' = IF LoopRuns THEN sent \cup {"cancel"} ELSE sent
  /\ UNCHANGED <<main, task, engine, shared, stats, response>>

JoinTimeout ==
  /\ main.at = "join" /\ task.at # "ended"
  /\ sent' = IF LoopRuns THEN sent \cup {"cancel"} ELSE sent
  /\ Main(Returned(main))
  /\ UNCHANGED <<task, engine, shared, stats, response>>

Drain ==
  /\ main.at = "drain"
  /\ \/ /\ response = "none"
        /\ MainTo("metrics") /\ UNCHANGED response
     \/ /\ response = "runs"
        /\ response' = "told" /\ UNCHANGED main
     \/ /\ response = "ended"
        /\ response' = "none" /\ MainTo("metrics")
     \/ /\ response \in {"runs", "told"}
        /\ Main(Returned(main)) /\ UNCHANGED response
  /\ UNCHANGED <<task, engine, shared, sent, stats>>

Metrics ==
  /\ main.at = "metrics"
  /\ stats' = [stats EXCEPT !.listed = FALSE]
  /\ IF stats.listed /\ stats.at # "none"
       THEN MainTo("tell")
       ELSE Main(Returned([main EXCEPT !.finalized = TRUE]))
  /\ UNCHANGED <<task, engine, shared, sent, response>>

(* VllmStatLogger.finalize: a put that waits for room, and a join.          *)
TellLogger ==
  /\ main.at = "tell" /\ stats.samples < QueueSize
  /\ stats' = [stats EXCEPT !.at = "told"]
  /\ MainTo("joinLogger")
  /\ UNCHANGED <<task, engine, shared, sent, response>>

LoggerJoined ==
  /\ main.at = "joinLogger" /\ stats.at = "ended"
  /\ Main(Returned([main EXCEPT !.finalized = TRUE]))
  /\ UNCHANGED <<task, engine, shared, sent, stats, response>>
-----------------------------------------------------------------------------
(* _run_llm_engine, in the order of its awaits.                             *)
TaskBegins ==
  /\ task.at = "new"
  /\ TaskTo("building")
  /\ UNCHANGED <<main, engine, shared, sent, stats, response>>

(* The factory and its stat logger, which starts its thread.                *)
Built ==
  /\ task.at = "building" /\ ~task.cancelled
  /\ engine' = "open"
  /\ stats' \in {stats, [stats EXCEPT !.at = "runs"]}
  /\ TaskTo("entered")
  /\ UNCHANGED <<main, shared, sent, response>>

Query ==
  /\ task.at = "entered"
  /\ TaskTo(IF shared.aborted THEN "exiting" ELSE "querying")
  /\ UNCHANGED <<main, engine, shared, sent, stats, response>>

Answered ==
  /\ task.at = "querying" /\ ~task.cancelled
  /\ TaskTo(IF shared.aborted THEN "exiting" ELSE "answered")
  /\ UNCHANGED <<main, engine, shared, sent, stats, response>>

(* A variant of the next definition: no second look at the deadline.        *)
PublishBlindly ==
  /\ task.at = "answered"
  /\ TaskTo("serving")
  /\ shared' = [shared EXCEPT !.published = TRUE, !.done = TRUE]
  /\ UNCHANGED <<main, engine, sent, stats, response>>

PublishEngine ==
  /\ task.at = "answered"
  /\ IF shared.aborted
       THEN TaskTo("exiting") /\ UNCHANGED shared
       ELSE /\ TaskTo("serving")
            /\ shared' = [shared EXCEPT !.published = TRUE, !.done = TRUE]
  /\ UNCHANGED <<main, engine, sent, stats, response>>

Serves ==
  /\ task.at = "serving" /\ main.at = "ready"
  /\ task' = [task EXCEPT !.ongoing = ~@]
  /\ UNCHANGED <<main, engine, shared, sent, stats, response>>

ShutsDown ==
  /\ task.at = "serving" /\ shared.shutdown /\ ~task.cancelled
  /\ TaskTo("waiting")
  /\ UNCHANGED <<main, engine, shared, sent, stats, response>>

RequestEnds ==
  /\ task.at = "waiting" /\ task.ongoing
  /\ task' = [task EXCEPT !.ongoing = FALSE]
  /\ UNCHANGED <<main, engine, shared, sent, stats, response>>

Idles ==
  /\ task.at = "waiting" /\ ~task.ongoing /\ ~task.cancelled
  /\ TaskTo("exiting")
  /\ UNCHANGED <<main, engine, shared, sent, stats, response>>

(* An error: the factory's, the query's, or a cancellation at an await.     *)
Raises(e) ==
  \/ e = "engine" /\ task.at \in {"building", "querying"}
  \/ e = "cancelled" /\ task.cancelled
       /\ task.at \in {"building", "querying", "serving", "waiting"}

Recorded(e) == IF shared.error = NoError THEN e ELSE shared.error

BodyFails(e) ==
  /\ Raises(e) /\ task.at # "building"
  /\ shared' = [shared EXCEPT !.error = Recorded(e), !.done = TRUE]
  /\ task' = [task EXCEPT !.at = "exiting", !.error = e, !.cancelled = FALSE]
  /\ UNCHANGED <<main, engine, sent, stats, response>>

BuildFails(e) ==
  /\ Raises(e) /\ task.at = "building"
  /\ task' = [task EXCEPT !.at = "handling", !.error = e, !.cancelled = FALSE]
  /\ UNCHANGED <<main, engine, shared, sent, stats, response>>

(* __aexit__ closes the engine; it may fail, or be cancelled, on the way.   *)
Closes ==
  /\ task.at = "exiting"
  /\ engine' = "closed"
  /\ \/ task.error # NoError /\ TaskTo("handling")
     \/ task.error = NoError /\ ~task.cancelled /\ TaskTo("final")
     \/ task.error = NoError /\ task' = [task EXCEPT !.at = "handling",
            !.error = IF task.cancelled THEN "cancelled" ELSE "closing"]
  /\ UNCHANGED <<main, shared, sent, stats, response>>

Handles ==
  /\ task.at = "handling"
  /\ shared' = [shared EXCEPT !.error = Recorded(task.error), !.done = TRUE]
  /\ TaskTo("final")
  /\ UNCHANGED <<main, engine, sent, stats, response>>

TaskEnds ==
  /\ task.at = "final"
  /\ shared' = [shared EXCEPT !.published = FALSE, !.done = TRUE,
                  !.error = IF shared.done THEN @ ELSE Recorded("exited")]
  /\ TaskTo("ended")
  /\ sent' = {}
  /\ UNCHANGED <<main, engine, stats, response>>

(* The loop runs what was sent to it, while the task is suspended.          *)
RunSignal ==
  /\ "signal" \in sent /\ task.at \in {"building", "querying", "serving", "waiting", "exiting"}
  /\ sent' = sent \ {"signal"}
  /\ shared' = [shared EXCEPT !.shutdown = TRUE]
  /\ task' = [task EXCEPT !.cancelled = @ \/ ~shared.done]
  /\ UNCHANGED <<main, engine, stats, response>>

RunCancel ==
  /\ "cancel" \in sent /\ task.at \in {"building", "querying", "serving", "waiting", "exiting"}
  /\ sent' = sent \ {"cancel"}
  /\ task' = [task EXCEPT !.cancelled = TRUE]
  /\ UNCHANGED <<main, engine, shared, stats, response>>
-----------------------------------------------------------------------------
(* VllmStatLogger: a sample that finds the queue full is dropped.           *)
RecordSample ==
  /\ stats.at = "runs" /\ task.at \in {"querying", "serving", "waiting", "exiting"}
  /\ stats.samples < QueueSize
  /\ stats' = [stats EXCEPT !.samples = @ + 1]
  /\ UNCHANGED <<main, task, engine, shared, sent, response>>

Report ==
  /\ stats.at \in {"runs", "told"}
  /\ \/ stats.samples > 0 /\ stats' = [stats EXCEPT !.samples = @ - 1]
     \/ stats.samples = 0 /\ stats.at = "told" /\ stats' = [stats EXCEPT !.at = "ended"]
  /\ UNCHANGED <<main, task, engine, shared, sent, response>>

ResponsesEnd ==
  /\ response = "told"
  /\ response' = "ended"
  /\ UNCHANGED <<main, task, engine, shared, sent, stats>>
-----------------------------------------------------------------------------
MainSteps ==
  \/ Deadline \/ Woken \/ StartFails \/ StartResponses \/ Ready \/ NotGenerative
  \/ Signal \/ Joined \/ JoinTimeout \/ Drain \/ Metrics \/ TellLogger \/ LoggerJoined

Next ==
  \/ MainSteps \/ Finalize
  \/ TaskBegins \/ Built \/ Query \/ Answered \/ PublishEngine \/ Serves \/ ShutsDown
  \/ RequestEnds \/ Idles \/ Closes \/ Handles \/ TaskEnds \/ RunSignal \/ RunCancel
  \/ \E e \in {"engine", "cancelled"} : BodyFails(e) \/ BuildFails(e)
  \/ RecordSample \/ Report \/ ResponsesEnd

(* Triton's thread and the logger thread run; the engine owes nothing.      *)
Fairness == WF_vars(MainSteps) /\ WF_vars(Report)

Spec == Init /\ [][Next]_vars /\ Fairness
-----------------------------------------------------------------------------
(* A backend that is ready has its engine, for as long as nothing stops it: *)
(* "A late factory return must never publish an engine" (policy.py:123).    *)
ReadyServes == main.at = "ready" => shared.published /\ engine = "open"

(* Nobody sees an engine once its start has failed.                         *)
NoLateEngine == main.error \notin {NoError, "task"} => ~shared.published

(* The error that initialize raises is the cause of the failure, never the  *)
(* cancellation, the end of the thread or the failed closing that follow    *)
(* from it.                                                                 *)
CauseKept == main.error \notin {"cancelled", "exited", "closing"}

(* A cleanup that reports success left nothing behind: the engine is        *)
(* closed, its thread joined, every queued sample reported and both other   *)
(* threads ended.                                                           *)
CleanedUp ==
  main.finalized => /\ task.at = "ended" /\ engine # "open"
                    /\ stats.at \in {"none", "ended"} /\ stats.samples = 0
                    /\ response = "none"

StartupSound == ReadyServes /\ NoLateEngine /\ CauseKept /\ CleanedUp

(* However the engine behaves, initialize returns or raises.                *)
InitializeEnds == <>(main.at \in {"ready", "failed"} \/ main.for = "finalize")
=============================================================================
