----------------------------- MODULE ResponseEvents -----------------------------
(***************************************************************************)
(* One generation as the client sees it: the frames of a stream that       *)
(* buffers the whole answer or hands it on piece by piece, and what the    *)
(* two protocols make of them (stream_python_chat_to_openai and its like   *)
(* in src/gateway/triton_client.py, chat_events, _guard_openai_stream,     *)
(* response_events), beside the answer of a request that does not stream   *)
(* (serialize_result).  A client that runs the functions it was asked for  *)
(* sends the output back (input_messages in responses.py).                 *)
(***************************************************************************)
EXTENDS Naturals, Sequences, SequencesExt

CONSTANTS
  Results,   \* content: pieces of text; calls: name, arguments; finish of the engine
  Paths,     \* python, aware (both buffered), deltas, blocks (DeepSeek)
  Nothing

VARIABLES
  of,        \* the api, the path, the result, and where the backend fails
  source,    \* the frames that were not read yet
  at,        \* waiting, reading, done, failed, gone, or the HTTP status
  output,    \* the items of the response
  indices,   \* of the items: message_index and tool_indices
  finish,
  wire,      \* what the client was sent
  closed     \* stream.aclose: the slot is released

vars == <<of, source, at, output, indices, finish, wire, closed>>
-----------------------------------------------------------------------------
Frame == [role |-> FALSE, content |-> <<>>, calls |-> <<>>, finish |-> Nothing, fault |-> FALSE]
Role == [Frame EXCEPT !.role = TRUE]
Text(t) == [Frame EXCEPT !.content = t]
Call(i, id, name, args) == [index |-> i, id |-> id, name |-> name, args |-> args]
Called(cs) == [Frame EXCEPT !.calls = cs]
End(reason) == [Frame EXCEPT !.finish = reason]
Fault == [Frame EXCEPT !.fault = TRUE]

(* resolve_finish_reason, and what the streams make of it.                  *)
Reason(r) == IF r.finish = "length" THEN "length" ELSE IF r.calls # <<>> THEN "tool_calls" ELSE "stop"
AllCalls(r) == [i \in DOMAIN r.calls |-> Call(i, i, r.calls[i].name, r.calls[i].args)]
TextOf(r) == IF r.content = <<>> THEN <<>> ELSE <<Text(r.content)>>

(* Variant: the calls before the text, as they are found.                   *)
CallsFirst(r) == <<Role>> \o [i \in DOMAIN r.calls |-> Called(<<AllCalls(r)[i]>>)] \o TextOf(r) \o <<End(Reason(r))>>
(* stream_tool_aware_response and its like.                                 *)
Buffered(r) == <<Role>> \o TextOf(r) \o [i \in DOMAIN r.calls |-> Called(<<AllCalls(r)[i]>>)] \o <<End(Reason(r))>>

(* DeepSeek: the text as it comes; a call by its name and the pieces of its *)
(* arguments, or the calls of a block in one delta.                         *)
Pieces(r) == [i \in DOMAIN r.content |-> Text(<<r.content[i]>>)]
CallPieces(c) ==
  <<Called(<<[c EXCEPT !.args = <<>>]>>)>>
    \o [i \in DOMAIN c.args |-> Called(<<Call(c.index, Nothing, Nothing, <<c.args[i]>>)>>)]
Deltas(r) == <<Role>> \o Pieces(r) \o FlattenSeq([i \in DOMAIN r.calls |-> CallPieces(AllCalls(r)[i])]) \o <<End(Reason(r))>>
Blocks(r) == <<Role>> \o Pieces(r) \o (IF r.calls = <<>> THEN <<>> ELSE <<Called(AllCalls(r))>>) \o <<End(Reason(r))>>

Frames(path, r) ==
  CASE path = "deltas" -> Deltas(r) [] path = "blocks" -> Blocks(r) [] OTHER -> Buffered(r)

(* A call of the Python backend that fails becomes a text for the user.     *)
Friendly == <<Role, Text(<<"sorry">>), End("stop")>>

(* The backend fails before a frame, or its stream just ends there; a first *)
(* delta of a call may lack the name.                                       *)
Nameless(f) == [f EXCEPT !.calls = [i \in DOMAIN @ |-> [@[i] EXCEPT !.name = Nothing]]]
Source(o) ==
  LET all == Frames(o.path, o.result)
      sent == SubSeq(all, 1, o.cut - 1)
  IN CASE o.fault = "none" -> all
       [] o.fault = "fails" -> Append(sent, Fault)
       [] o.fault = "ends" -> sent
       [] o.fault = "call" -> IF o.path = "python" THEN Friendly ELSE <<Fault>>
       [] o.fault = "nameless" -> [i \in DOMAIN all |-> Nameless(all[i])]

Faults(path) == IF path \in {"deltas", "blocks"} THEN {"none", "fails", "ends", "nameless"} ELSE {"none", "call", "fails"}
Init ==
  /\ of \in [api : {"chat", "responses"}, path : Paths, result : Results,
             fault : {"none", "fails", "ends", "call", "nameless"}, cut : 1..6]
  /\ of.fault \in Faults(of.path)
  /\ of.cut > 1 => of.fault \in {"fails", "ends"} /\ of.cut <= Len(Frames(of.path, of.result))
  /\ source = Source(of)
  /\ at = IF of.api = "chat" THEN "reading" ELSE "waiting"
  /\ output = <<>> /\ indices = <<>>
  /\ finish = Nothing
  /\ wire = <<>>
  /\ closed = FALSE
-----------------------------------------------------------------------------
Useful(f) == f.content # <<>> \/ f.calls # <<>> \/ f.finish # Nothing

(* first_backend_event: the status of the HTTP answer waits for it.         *)
Skip ==
  /\ at = "waiting" /\ source # <<>> /\ ~Head(source).fault /\ ~Useful(Head(source))
  /\ source' = Tail(source)
  /\ UNCHANGED <<of, at, output, indices, finish, wire, closed>>

Refuse ==
  /\ at = "waiting" /\ (source # <<>> => Head(source).fault)
  /\ at' = "502" /\ closed' = TRUE
  /\ UNCHANGED <<of, source, output, indices, finish, wire>>

Created ==
  /\ at = "waiting" /\ source # <<>> /\ Useful(Head(source))
  /\ at' = "reading"
  /\ wire' = <<[type |-> "created"], [type |-> "in_progress"]>>
  /\ UNCHANGED <<of, source, output, indices, finish, closed>>

Emit(type, i, text) == [type |-> type, item |-> i, text |-> text]
Item(kind, name, id) == [kind |-> kind, name |-> name, id |-> id, text |-> <<>>, status |-> "in_progress"]
State == [output |-> output, indices |-> indices, wire |-> wire, bad |-> FALSE]
Of(s, key) == SelectInSeq(s.indices, LAMBDA k : k = key)

(* The item of the text, or of the call, of that index: new if it is the    *)
(* first delta of it.                                                       *)
Opened(s, key, item) ==
  IF Of(s, key) # 0 THEN s
  ELSE [s EXCEPT !.indices = Append(@, key), !.output = Append(@, item),
                 !.wire = Append(@, Emit("added", Len(s.output) + 1, <<>>))]
Extended(s, key, text) ==
  IF text = <<>> THEN s
  ELSE [s EXCEPT !.output[Of(s, key)].text = @ \o text,
                 !.wire = Append(@, Emit("delta", Of(s, key), text))]

Message == 0    \* message_index, beside the indices of the calls
WithText(s, text) ==
  IF text = <<>> THEN s ELSE Extended(Opened(s, Message, Item("message", Nothing, Nothing)), Message, text)
WithCall(s, c) ==
  IF s.bad \/ (Of(s, c.index) = 0 /\ (c.name = Nothing \/ c.id = Nothing)) THEN [s EXCEPT !.bad = TRUE]
  ELSE Extended(Opened(s, c.index, Item("function_call", c.name, c.id)), c.index, c.args)
Taken(f) == FoldLeft(WithCall, WithText(State, f.content), f.calls)

(* The rest of response_events after an exception.                          *)
Incomplete(items) == [i \in DOMAIN items |-> [items[i] EXCEPT !.status = "incomplete"]]
Failed(s) ==
  /\ output' = Incomplete(s.output) /\ indices' = s.indices
  /\ wire' = s.wire \o <<[type |-> "error"], [type |-> "failed"]>>
  /\ at' = "failed" /\ closed' = TRUE

Event ==
  /\ of.api = "responses" /\ at = "reading" /\ source # <<>>
  /\ LET f == Head(source)
     IN /\ source' = Tail(source)
        /\ finish' = IF f.finish # Nothing THEN f.finish ELSE finish
        /\ IF f.fault THEN Failed(State)
           ELSE IF Taken(f).bad THEN Failed(Taken(f))
           ELSE /\ output' = Taken(f).output /\ indices' = Taken(f).indices /\ wire' = Taken(f).wire
                /\ UNCHANGED <<at, closed>>
  /\ UNCHANGED of

Status(reason) == IF reason = "length" THEN "incomplete" ELSE "completed"
Done(i) == <<Emit("done", i, output[i].text)>>

Terminal ==
  /\ of.api = "responses" /\ at = "reading" /\ source = <<>>
  /\ IF finish = Nothing THEN Failed(State)
     ELSE /\ output' = [i \in DOMAIN output |-> [output[i] EXCEPT !.status = Status(finish)]]
          /\ wire' = wire \o FlattenSeq([i \in DOMAIN output |-> Done(i)]) \o <<[type |-> Status(finish)]>>
          /\ at' = "done" /\ closed' = TRUE
          /\ UNCHANGED indices
  /\ UNCHANGED <<of, source, finish>>

(* chat_events and _guard_openai_stream.                                    *)
Chat ==
  /\ of.api = "chat" /\ at = "reading"
  /\ IF source # <<>> /\ ~Head(source).fault
     THEN /\ wire' = Append(wire, [type |-> "chunk", frame |-> Head(source)])
          /\ source' = Tail(source)
          /\ UNCHANGED <<at, closed>>
     ELSE /\ wire' = wire \o IF source = <<>> THEN <<[type |-> "[DONE]"]>> ELSE <<[type |-> "error"], [type |-> "[DONE]"]>>
          /\ at' = IF source = <<>> THEN "done" ELSE "failed"
          /\ closed' = TRUE
          /\ UNCHANGED source
  /\ UNCHANGED <<of, output, indices, finish>>

(* The client goes: until_disconnected, or the close of the response.       *)
Disconnect ==
  /\ at \in {"waiting", "reading"}
  /\ at' = IF at = "waiting" THEN "499" ELSE "gone"
  /\ closed' = TRUE
  /\ UNCHANGED <<of, source, output, indices, finish, wire>>

Next == Skip \/ Refuse \/ Created \/ Event \/ Terminal \/ Chat \/ Disconnect
Spec == Init /\ [][Next]_vars
-----------------------------------------------------------------------------
(* serialize_result: the answer of a request that does not stream.          *)
Serialized(r) ==
  LET status == Status(Reason(r))
      message == [Item("message", Nothing, Nothing) EXCEPT !.text = r.content, !.status = status]
      call(i) == [Item("function_call", r.calls[i].name, i) EXCEPT !.text = r.calls[i].args, !.status = status]
  IN (IF r.content = <<>> THEN <<>> ELSE <<message>>) \o [i \in DOMAIN r.calls |-> call(i)]

(* input_messages, for output that is sent back: the messages it becomes,   *)
(* or that it is rejected.                                                  *)
Replay(s, x) ==
  CASE s.rejected -> s
    [] x.kind = "function_call" ->
         IF x.id \in s.calls THEN [s EXCEPT !.rejected = TRUE]
         ELSE LET t == [s EXCEPT !.calls = @ \cup {x.id}, !.pending = @ \cup {x.id}]
                  last == s.messages[Len(s.messages)]
              IN IF s.messages # <<>> /\ last.role = "assistant" /\ last.calls # <<>>
                 THEN [t EXCEPT !.messages[Len(s.messages)].calls = Append(@, x.id)]
                 ELSE [t EXCEPT !.messages = Append(@, [role |-> "assistant", calls |-> <<x.id>>])]
    [] x.kind = "function_call_output" ->
         IF x.id \notin s.pending THEN [s EXCEPT !.rejected = TRUE]
         ELSE [s EXCEPT !.pending = @ \ {x.id}, !.messages = Append(@, [role |-> "tool", calls |-> <<x.id>>])]
    [] x.kind = "message" ->
         IF s.pending # {} THEN [s EXCEPT !.rejected = TRUE]
         ELSE [s EXCEPT !.messages = Append(@, [role |-> "assistant", calls |-> <<>>])]
Replayed(items) ==
  FoldLeft(Replay, [calls |-> {}, pending |-> {}, messages |-> <<>>, rejected |-> FALSE], items)

CallsIn(items) == SelectSeq(items, LAMBDA x : x.kind = "function_call")
Outputs(items) == [i \in DOMAIN CallsIn(items) |-> [kind |-> "function_call_output", id |-> CallsIn(items)[i].id]]

(* A stream and an answer that does not stream give the same items, in the  *)
(* order, with the status; the client can send them back as they are, with  *)
(* the outputs of the calls behind them.                                    *)
SameAnswer ==
  at = "done" /\ of.api = "responses" /\ of.fault = "none" =>
    /\ output = Serialized(of.result)
    /\ LET s == Replayed(output \o Outputs(output)) IN ~s.rejected /\ s.pending = {}

(* The events of an item: it is added, then its deltas, then at most once   *)
(* the whole of them; exactly one event ends the stream, the last one.      *)
OfItem(i) == SelectSeq(wire, LAMBDA e : "item" \in DOMAIN e /\ e.item = i)
Ending == {"completed", "incomplete", "failed"}
Lifecycle ==
  of.api = "responses" =>
    /\ at \in {"done", "failed"} <=> \E k \in DOMAIN wire : wire[k].type \in Ending
    /\ \A k \in DOMAIN wire : wire[k].type \in Ending => k = Len(wire)
    /\ \A i \in DOMAIN output :
         LET es == OfItem(i)
             deltas == SelectSeq(es, LAMBDA e : e.type = "delta")
         IN /\ es # <<>> /\ es[1].type = "added"
            /\ \A k \in 2..Len(es) : es[k].type = "delta" \/ (es[k].type = "done" /\ k = Len(es))
            /\ FlattenSeq([k \in DOMAIN deltas |-> deltas[k].text]) = output[i].text
            /\ (at = "done") <=> (es[Len(es)].type = "done")
            /\ at = "done" => es[Len(es)].text = output[i].text
            /\ at \in {"done", "failed"} => output[i].status # "in_progress"

(* A generation that failed, or whose stream just ended, is never reported  *)
(* as an answer, but for the text the Python backend's stream makes of it.  *)
NoFalseAnswer ==
  at = "done" /\ (of.api = "responses" \/ of.fault \in {"fails", "call"}) =>
    \/ of.fault = "none"
    \/ of.fault = "nameless" /\ (of.result.calls = <<>> \/ of.api = "chat")
    \/ of.path = "python" /\ of.fault = "call"

(* However the request ends, its stream is closed, and the slot with it.    *)
Closed == at \notin {"waiting", "reading"} => closed

ResponseSound == SameAnswer /\ Lifecycle /\ NoFalseAnswer /\ Closed
=============================================================================
