------------------------------- MODULE Accounting -------------------------------
(***************************************************************************)
(* What the gateway records of a request: the middleware of                *)
(* src/gateway/observability.py, the telemetry and visual usage of         *)
(* generation_telemetry.py, triton_call of metrics.py, and the metadata    *)
(* that calls of Triton report (generation_metadata.py, triton_client.py). *)
(*                                                                         *)
(* A request makes calls, one after the other or at once; each may report  *)
(* metadata packet by packet, and ends in one of the ways a stream can end.*)
(* Durations and labels are left out; so is the health of the exporter.    *)
(***************************************************************************)
EXTENDS Naturals, Sequences, FiniteSets

CONSTANTS
  Calls,
  MaxTokens     \* bound: completion_tokens

VARIABLES
  req,     \* the request: the local state of RequestContextMiddleware.__call__
  call,    \* its calls, each with its _GenerationCallMetadata and its visual slot
  stats    \* the metrics

vars == <<req, call, stats>>

NoMeta == [finished |-> FALSE, reason |-> "none", tokens |-> 0, facts |-> "none"]

(* What decode_generation_metadata lets through.                            *)
Packets ==
  {p \in [finished : BOOLEAN, reason : {"none", "stop", "abort"}, tokens : 0..MaxTokens,
          facts : {"none", "unavailable", "available"}] : p.finished <=> p.reason # "none"}

NoSlot == [open |-> FALSE, facts |-> "none", finished |-> FALSE, status |-> "none"]

NoCall == [at |-> "unused", meta |-> NoMeta, closed |-> FALSE, slot |-> NoSlot, failed |-> FALSE]

New == [kind |-> "none", at |-> "new", status |-> 500, started |-> FALSE, sent |-> FALSE,
        counted |-> FALSE, model |-> FALSE, error |-> FALSE]

Init ==
  /\ req = New
  /\ call = [c \in Calls |-> NoCall]
  /\ stats = [inflight |-> 0, requests |-> 0, generation |-> <<>>, visual |-> <<>>]
-----------------------------------------------------------------------------
(* GenerationTelemetry.finish and VisualUsageAccumulator.snapshot.          *)

Slots == {c \in Calls : call[c].slot.open}
Available(c) == call[c].slot.facts = "available"

CompleteIfFinished(c) == call[c].slot.finished    \* variant
Complete(c) == call[c].slot.finished /\ call[c].slot.status = "success"

VisualStatus ==
  CASE Slots = {} -> "none"
    [] Slots # {} /\ \A c \in Slots : Available(c) /\ Complete(c) -> "available"
    [] \E c \in Slots : Available(c) /\ ~\A d \in Slots : Available(d) /\ Complete(d) -> "partial"
    [] Slots # {} /\ \A c \in Slots : ~Available(c) -> "unavailable"

CountedAnew(x) == FALSE    \* variant
Counted(x) == x.counted

(* complete_request, for a request that leaves with x.                      *)
Recorded(x) ==
  LET kept == [stats EXCEPT !.requests = @ + 1, !.inflight = @ - 1]
      outcome == IF x.error \/ x.status >= 400 THEN "error" ELSE "success"
  IN IF Counted(x) \/ x.kind = "metrics" THEN stats
     ELSE IF ~x.model THEN kept
     ELSE [kept EXCEPT !.generation = Append(@, outcome), !.visual = Append(@, VisualStatus)]

Finish(x) == req' = [x EXCEPT !.counted = TRUE] /\ stats' = Recorded(x) /\ UNCHANGED call
-----------------------------------------------------------------------------
(* RequestContextMiddleware.__call__.                                       *)

Enter ==
  /\ req.at = "new"
  /\ \E k \in {"inference", "metrics"}, large \in BOOLEAN :
       /\ req' = [New EXCEPT !.kind = k, !.at = IF large THEN "refusing" ELSE "running",
                             !.status = IF large THEN 413 ELSE 500]
       /\ stats' = IF k = "metrics" THEN stats ELSE [stats EXCEPT !.inflight = @ + 1]
  /\ UNCHANGED call

(* The declared length is over the limit.  There is no finally on this path.*)
Refuse ==
  /\ req.at = "refusing"
  /\ Finish([req EXCEPT !.at = "over", !.started = TRUE, !.sent = TRUE])

RefusalCancelled ==
  /\ req.at = "refusing"
  /\ req' = [req EXCEPT !.at = "dropped"]
  /\ UNCHANGED <<call, stats>>

(* The body turned out to be too large.                                     *)
TooLarge ==
  /\ req.at = "running" /\ ~req.model /\ ~req.started
  /\ Finish([req EXCEPT !.at = "leaving", !.status = 413, !.started = TRUE, !.sent = TRUE])

(* The handler knows the model: configure_generation_telemetry.             *)
Configure ==
  /\ req.at = "running" /\ ~req.model /\ ~req.started /\ req.kind = "inference"
  /\ req' = [req EXCEPT !.model = TRUE]
  /\ UNCHANGED <<call, stats>>

Busy == {c \in Calls : call[c].at = "open"}

(* http.response.start, of a stream perhaps before its calls.  After an     *)
(* error calls may still be running that nobody awaits.                     *)
ResponseStart ==
  /\ req.at = "running" /\ ~req.started
  /\ \E s \in {200, 502} : req' = [req EXCEPT !.started = TRUE, !.status = s]
  /\ UNCHANGED <<call, stats>>

(* The last http.response.body: recorded before it is sent.                 *)
LastBody ==
  /\ req.at = "running" /\ req.started /\ ~req.sent
  /\ req.status = 200 => Busy = {}
  /\ Finish([req EXCEPT !.sent = TRUE, !.at = "leaving"])

(* An exception leaves the application: telemetry.fail.                     *)
Raise ==
  /\ req.at \in {"running", "leaving"}
  /\ req' = [req EXCEPT !.at = "leaving", !.error = TRUE]
  /\ UNCHANGED <<call, stats>>

(* The finally.                                                             *)
Leave ==
  /\ req.at = "leaving"
  /\ Finish([req EXCEPT !.at = "over"])
-----------------------------------------------------------------------------
(* triton_call, and begin_visual_call for a call with visual input.         *)
Open(c) ==
  /\ call[c].at = "unused" /\ req.at = "running" /\ req.model
  /\ \E visual \in BOOLEAN :
       call' = [call EXCEPT ![c] = [NoCall EXCEPT !.at = "open", !.slot.open = visual]]
  /\ UNCHANGED <<req, stats>>

(* GenerationMetadataState.update_json.                                     *)
Continues(old, p) ==
  /\ old.finished => p = old
  /\ p.tokens >= old.tokens
  /\ old.facts # "none" => p.facts = old.facts


(* Variant: the first status stays.                                         *)
EndedAsFirst(slot, status) ==
  IF slot.open /\ slot.status = "none" THEN [slot EXCEPT !.status = status] ELSE slot

(* VisualUsageAccumulator.end: a failure is never made good again.          *)
Ended(slot, status) ==
  IF slot.open /\ (slot.status = "none" \/ (slot.status = "success" /\ status # "success"))
    THEN [slot EXCEPT !.status = status]
  ELSE slot

(* _GenerationCallMetadata.close.                                           *)
Closed(x, status) ==
  IF ~x.closed \/ status # "success" THEN [x EXCEPT !.closed = TRUE, !.slot = Ended(x.slot, status)]
  ELSE x

(* _GenerationCallMetadata.update_json and VisualUsageAccumulator.observe.  *)
Observed(x, p) ==
  LET slot == [x.slot EXCEPT !.open = x.slot.open \/ p.facts # "none"]
      facts == [slot EXCEPT !.facts = IF p.facts = "none" THEN slot.facts ELSE p.facts,
                            !.finished = slot.finished \/ (p.finished /\ p.reason = "stop")]
      y == [x EXCEPT !.meta = p, !.slot = IF slot.open THEN facts ELSE slot]
  IN IF p.finished THEN Closed(y, IF p.reason = "stop" THEN "success" ELSE "error") ELSE y

(* The end of a call: __exit__ of its metadata, whose status is told by the *)
(* way it left, and triton_call's finally.                                  *)
ExitStatus(x, how) ==
  CASE how \in {"return", "break"} -> "success"
    [] how = "closed" -> IF x.meta.finished /\ x.meta.reason = "stop" THEN "success" ELSE "cancelled"
    [] how = "cancelled" -> "cancelled"
    [] how = "error" -> "error"

Exit(c, how) ==
  /\ call' = [call EXCEPT ![c] = [Closed(call[c], ExitStatus(call[c], how)) EXCEPT
                                    !.at = "over", !.failed = how \in {"error", "cancelled"}]]
  /\ req' = IF how = "error" THEN [req EXCEPT !.error = TRUE] ELSE req
  /\ UNCHANGED stats

Packet(c) ==
  /\ call[c].at = "open"
  /\ \E p \in Packets :
       IF Continues(call[c].meta, p)
         THEN call' = [call EXCEPT ![c] = Observed(call[c], p)] /\ UNCHANGED <<req, stats>>
       ELSE Exit(c, "error")

(* The stream ended, the text was cut, the consumer closed it, or it failed.*)
End(c) ==
  /\ call[c].at = "open"
  /\ \E how \in {"return", "break", "closed", "cancelled", "error"} : Exit(c, how)

Next ==
  \/ Enter \/ Refuse \/ RefusalCancelled \/ TooLarge \/ Configure \/ ResponseStart \/ LastBody
  \/ Raise \/ Leave
  \/ \E c \in Calls : Open(c) \/ Packet(c) \/ End(c)

Spec == Init /\ [][Next]_vars
-----------------------------------------------------------------------------
(* However a request ends, it is counted once and no longer in flight; only *)
(* a refusal that the server cancels is never counted.                      *)
CountedOnce ==
  /\ Len(stats.generation) <= 1 /\ stats.requests <= 1
  /\ req.at = "over" /\ req.kind = "inference" => stats.requests = 1 /\ stats.inflight = 0
  /\ stats.requests = 1 /\ req.model => Len(stats.generation) = 1

(* What was recorded as a success was answered, and completely.             *)
SuccessIsAnswer ==
  stats.generation = <<"success">> => req.status = 200 /\ req.sent

(* Visual usage is recorded as available only if each call with visual      *)
(* input said how it ended and did not fail, not even after it said so.     *)
HonestStep ==
  stats'.visual = <<"available">> /\ stats.visual # stats'.visual => \A c \in Slots :
    ~call[c].failed /\ call[c].meta.finished /\ call[c].meta.reason = "stop"
UsageHonest == [][HonestStep]_vars
=============================================================================
