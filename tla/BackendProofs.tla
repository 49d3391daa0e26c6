----------------------------- MODULE BackendProofs -----------------------------
(***************************************************************************)
(* Proofs about Backend, for any number of requests, any of them streams,  *)
(* and any size of the response queue.                                     *)
(*                                                                         *)
(* Posting is about the callbacks of the event loop: each request that was *)
(* handed over has one, and none is behind the shutdown's.  Own follows    *)
(* the responses of one request from its coroutine to the client.          *)
(***************************************************************************)
EXTENDS Backend, SetCounting

Typed ==
  /\ streams \subseteq Requests
  /\ ready \in Seq(Callbacks) /\ engine \in {"serving", "draining", "stopped"}
  /\ infer \in [Requests -> {"new", "posted"} \cup Live \cup Over]
  /\ held \in [Requests -> Flags \cup {"none"}]
  /\ \A r \in Requests : held[r] # "none" <=> infer[r] = "blocked"
  /\ queue \in Seq(Items \cup {Stop})
  /\ hand \in Items \cup (Requests \X {"sent"}) \cup {Nothing, Stop}
  /\ finals \in [Requests -> Nat] /\ late \in [Requests -> BOOLEAN]

(* Some element of q is in S; what is in T is not behind what is in S.      *)
Meets(q, S) == \E i \in 1..Len(q) : q[i] \in S
Clear(q, S, T) == \A i, j \in 1..Len(q) : i < j /\ q[i] \in S => q[j] \notin T

CallbacksOf(r) == {<<"create", r>>, <<"step", r>>}
NoSteps == Callbacks \ ({"step"} \X Requests)

(* The callbacks of the loop, in order: the event of the shutdown is set    *)
(* behind every request, and its waiter wakes behind every task.            *)
Posting ==
  /\ \A r \in Requests : infer[r] = "posted" <=> Meets(ready, CallbacksOf(r))
  /\ \A r \in Requests : Clear(ready, CallbacksOf(r), CallbacksOf(r))
  /\ finalize = "none" => engine = "serving" /\ ~Meets(ready, {<<"set">>, <<"wake">>})
  /\ Clear(ready, {<<"set">>}, NoSteps)
  /\ Clear(ready, NoSteps, {<<"wake">>}) /\ Clear(ready, {<<"wake">>}, Callbacks)
  /\ engine # "serving" => ready = <<>>

ResponsesOf(r) == {<<r, "part">>, <<r, "final">>}

(* The final response of r is in the queue, or about to be sent.            *)
Unsent(r) == Meets(queue, {<<r, "final">>}) \/ hand = <<r, "final">>

(* It is behind all others, and sent but once.                              *)
Own(r) ==
  /\ infer[r] # "lost" /\ (infer[r] = "blocked" => r \in streams)
  /\ infer[r] \in {"new", "posted"} \cup Live => finals[r] = 0
  /\ infer[r] \in {"refused", "failed"} => finals[r] = 1
  /\ infer[r] = "finished" => finals[r] = IF Unsent(r) THEN 0 ELSE 1
  /\ Unsent(r) \/ hand = <<r, "sent">> => infer[r] = "finished"
  /\ hand = <<r, "sent">> => finals[r] = 1
  /\ Meets(queue, ResponsesOf(r)) \/ hand = <<r, "part">> =>
       /\ infer[r] \in Live \cup {"finished", "failed"} /\ r \in streams
       /\ infer[r] = "finished" => finals[r] = 0
  /\ Meets(queue, ResponsesOf(r)) => hand # <<r, "final">>
  /\ Clear(queue, {<<r, "final">>}, ResponsesOf(r))

AllOwn == \A r \in Requests : Own(r)

Counted == {r \in Requests : infer[r] \in Live \/ OnTheWay(r)}
StoppedIdle == engine = "stopped" => ongoing = 0

IInv == Typed /\ Posting /\ AllOwn /\ CountIsOngoing /\ StoppedIdle /\ FinalIsLast
-----------------------------------------------------------------------------
LEMMA Appended ==
  ASSUME NEW S, NEW q \in Seq(S), NEW x \in S
  PROVE  /\ Append(q, x) \in Seq(S) /\ Len(Append(q, x)) = Len(q) + 1 /\ Len(q) \in Nat
         /\ \A i \in 1..Len(q) : i \in 1..(Len(q) + 1) /\ Append(q, x)[i] = q[i]
         /\ Append(q, x)[Len(q) + 1] = x
  OBVIOUS

LEMMA Shortened ==
  ASSUME NEW S, NEW q \in Seq(S), q # <<>>
  PROVE  /\ Tail(q) \in Seq(S) /\ Len(q) \in Nat \ {0} /\ Len(Tail(q)) = Len(q) - 1
         /\ Head(q) \in S /\ Head(q) = q[1]
         /\ \A i \in 1..(Len(q) - 1) : i + 1 \in 1..Len(q) /\ Tail(q)[i] = q[i + 1]
  OBVIOUS

LEMMA MeetsAppended ==
  ASSUME NEW A, NEW q \in Seq(A), NEW x \in A, NEW S
  PROVE  Meets(Append(q, x), S) <=> Meets(q, S) \/ x \in S
<1> DEFINE p == Append(q, x)
<1>1. /\ Len(p) = Len(q) + 1 /\ Len(q) \in Nat /\ p[Len(p)] = x
      /\ \A i \in 1..Len(q) : i \in 1..Len(p) /\ p[i] = q[i]
    BY Appended
<1>2. \A i \in 1..Len(p) : i \in 1..Len(q) \/ i = Len(p)
    BY <1>1
<1> QED
    BY <1>1, <1>2 DEF Meets

LEMMA ClearAppended ==
  ASSUME NEW A, NEW q \in Seq(A), NEW x \in A, NEW S, NEW T
  PROVE  Clear(Append(q, x), S, T) <=> Clear(q, S, T) /\ ~(Meets(q, S) /\ x \in T)
<1> DEFINE p == Append(q, x)
<1>1. /\ Len(p) = Len(q) + 1 /\ Len(q) \in Nat /\ p[Len(p)] = x
      /\ \A i \in 1..Len(q) : i \in 1..Len(p) /\ p[i] = q[i] /\ i < Len(p)
    BY Appended
<1>2. \A i \in 1..Len(p) : i \in 1..Len(q) \/ i = Len(p)
    BY <1>1
<1>3. \A i, j \in 1..Len(p) : i < j => i \in 1..Len(q)
    BY <1>1
<1> QED
    BY <1>1, <1>2, <1>3 DEF Meets, Clear

LEMMA MeetsShortened ==
  ASSUME NEW A, NEW q \in Seq(A), q # <<>>, NEW S
  PROVE  Meets(q, S) <=> Meets(Tail(q), S) \/ Head(q) \in S
<1>1. /\ Len(q) \in Nat \ {0} /\ Len(Tail(q)) = Len(q) - 1 /\ Head(q) = q[1]
      /\ \A i \in 1..Len(Tail(q)) : i + 1 \in 1..Len(q) /\ Tail(q)[i] = q[i + 1]
    BY Shortened
<1>2. ASSUME NEW i \in 1..Len(q), q[i] \in S PROVE Meets(Tail(q), S) \/ Head(q) \in S
  <2>1. i = 1 \/ (i - 1 \in 1..Len(Tail(q)) /\ Tail(q)[i - 1] = q[i])
      BY <1>1
  <2> QED
      BY <1>1, <1>2, <2>1 DEF Meets
<1>3. Meets(Tail(q), S) => Meets(q, S)
    BY <1>1 DEF Meets
<1>4. 1 \in 1..Len(q)
    BY <1>1
<1> QED
    BY <1>1, <1>2, <1>3, <1>4 DEF Meets

LEMMA ClearShortened ==
  ASSUME NEW A, NEW q \in Seq(A), q # <<>>, NEW S, NEW T, Clear(q, S, T)
  PROVE  Clear(Tail(q), S, T) /\ ~(Head(q) \in S /\ Meets(Tail(q), T))
<1>1. /\ Len(q) \in Nat \ {0} /\ Len(Tail(q)) = Len(q) - 1 /\ Head(q) = q[1]
      /\ \A i \in 1..Len(Tail(q)) : i + 1 \in 1..Len(q) /\ Tail(q)[i] = q[i + 1]
    BY Shortened
<1>2. 1 \in 1..Len(q) /\ \A i \in 1..Len(Tail(q)) : 1 < i + 1
    BY <1>1
<1>3. \A i, j \in 1..Len(Tail(q)) : i < j => i + 1 < j + 1
    BY <1>1
<1> QED
    BY <1>1, <1>2, <1>3 DEF Meets, Clear

LEMMA Emptied ==
  ASSUME NEW A, NEW q \in Seq(A), ~Meets(q, A)
  PROVE  q = <<>>
  BY DEF Meets

LEMMA Empty == \A S, T : ~Meets(<<>>, S) /\ Clear(<<>>, S, T)
  BY DEF Meets, Clear

(* The tuples of the model are told apart by their lengths and flags.       *)
LEMMA ResponseTuples ==
  /\ \A r \in Requests : Stop \notin ResponsesOf(r) /\ Stop # <<r, "final">> /\ Stop # <<r, "sent">>
  /\ \A r \in Requests : \A f \in Flags \cup {"sent"} : Nothing # <<r, f>>
  /\ \A r, u \in Requests : \A f, g \in Flags \cup {"sent"} : <<r, f>> = <<u, g>> <=> r = u /\ f = g
  /\ \A r, u \in Requests : \A f \in Flags : <<r, f>> \in ResponsesOf(u) <=> r = u
  /\ "part" # "final" /\ "part" # "sent" /\ "final" # "sent" /\ Flags = {"part", "final"}
  BY DEF Stop, Nothing, Flags, ResponsesOf

LEMMA CallbackTuples ==
  /\ \A r, u \in Requests : <<"create", u>> \in CallbacksOf(r) <=> r = u
  /\ \A r, u \in Requests : <<"step", u>> \in CallbacksOf(r) <=> r = u
  /\ \A r \in Requests : <<"set">> \notin CallbacksOf(r) /\ <<"wake">> \notin CallbacksOf(r)
  /\ <<"set">> \in NoSteps /\ <<"wake">> \in NoSteps /\ <<"set">> # <<"wake">>
  /\ \A r \in Requests : <<"create", r>> \in NoSteps /\ <<"step", r>> \notin NoSteps
  /\ \A r \in Requests : {<<"create", r>>, <<"step", r>>} \cap {<<"set">>, <<"wake">>} = {}
  /\ \A r \in Requests : <<"create", r>> \in Callbacks /\ <<"step", r>> \in Callbacks
  /\ NoSteps \subseteq Callbacks
  BY DEF CallbacksOf, NoSteps, Callbacks

LEMMA Initial == Init => IInv
<1> SUFFICES ASSUME Init PROVE IInv
    OBVIOUS
<1>1. Typed
    BY DEF Init, Typed, Nothing
<1>2. Posting
    BY Empty DEF Init, Posting
<1>3. AllOwn
    BY Empty, ResponseTuples DEF Init, AllOwn, Own, Unsent, Live
<1>4. CountIsOngoing
  <2>1. {r \in Requests : infer[r] \in Live \/ OnTheWay(r)} = {}
      BY DEF Init, OnTheWay, Live, Nothing
  <2> QED
      BY <2>1, FS_EmptySet DEF Init, CountIsOngoing
<1>5. StoppedIdle /\ FinalIsLast
    BY DEF Init, StoppedIdle, FinalIsLast
<1> QED
    BY <1>1, <1>2, <1>3, <1>4, <1>5 DEF IInv
-----------------------------------------------------------------------------
LEMMA WayFacts ==
  /\ \A r \in Requests : OnTheWay(r) <=> Unsent(r) \/ hand = <<r, "sent">>
  /\ \A r \in Requests : OnTheWay(r)' <=> Unsent(r)' \/ hand' = <<r, "sent">>
  BY DEF OnTheWay, Unsent, Meets

(* One request moves into or out of those that are counted.                 *)
LEMMA CountMoves ==
  ASSUME CountIsOngoing, NEW r \in Requests, Counted \ {r} = Counted' \ {r},
         ongoing' = ongoing + (IF r \in Counted' THEN 1 ELSE 0) - (IF r \in Counted THEN 1 ELSE 0)
  PROVE  CountIsOngoing'
<1>1. IsFiniteSet(Counted)
    BY BackendAssumption, FS_Subset DEF BackendAssumption, Counted
<1>2. ongoing = Cardinality(Counted)
    BY DEF CountIsOngoing, Counted
<1>3. ongoing' = Cardinality(Counted')
    BY <1>1, <1>2, CountDelta
<1> QED
    BY <1>3 DEF CountIsOngoing, Counted

LEMMA OngoingType == ASSUME CountIsOngoing PROVE ongoing \in Nat
<1>1. IsFiniteSet({r \in Requests : infer[r] \in Live \/ OnTheWay(r)})
    BY BackendAssumption, FS_Subset DEF BackendAssumption
<1> QED
    BY <1>1, FS_CardinalityType DEF CountIsOngoing

(* Nobody is counted when the engine has stopped.                           *)
LEMMA Counts ==
  ASSUME IInv, NEW r \in Requests, infer[r] \in Live \/ OnTheWay(r)
  PROVE  ongoing \in Nat \ {0} /\ engine # "stopped"
<1>1. IsFiniteSet(Counted) /\ r \in Counted
    BY BackendAssumption, FS_Subset DEF BackendAssumption, Counted
<1>2. ongoing = Cardinality(Counted)
    BY DEF IInv, CountIsOngoing, Counted
<1>3. ongoing \in Nat \ {0}
    BY <1>1, <1>2, FS_CardinalityType, FS_EmptySet
<1> QED
    BY <1>3 DEF IInv, StoppedIdle

(* How a coroutine moves when nothing of it enters or leaves the queue.     *)
Moves(r) ==
  \/ infer[r] = "new" /\ infer'[r] = "posted" /\ finals'[r] = finals[r]
  \/ infer[r] = "new" /\ infer'[r] = "refused" /\ finals'[r] = finals[r] + 1
  \/ infer[r] = "posted" /\ infer'[r] = "running" /\ finals'[r] = finals[r]
  \/ infer[r] \in Live /\ infer'[r] = "aborting" /\ finals'[r] = finals[r]
  \/ infer[r] \in Live /\ infer'[r] = "finished" /\ r \notin streams /\ finals'[r] = finals[r] + 1
  \/ infer[r] \in Live /\ infer'[r] = "failed" /\ finals'[r] = finals[r] + 1

Quiet == UNCHANGED <<streams, queue, hand, late>>

LEMMA OwnMoves ==
  ASSUME NEW r \in Requests, Own(r), Quiet,
         Moves(r) \/ (infer'[r] = infer[r] /\ finals'[r] = finals[r])
  PROVE  Own(r)'
<1> USE DEF Quiet, Own, Unsent
<1>1. CASE infer'[r] = infer[r] /\ finals'[r] = finals[r]
    BY <1>1
<1>2. CASE infer[r] \in {"new", "posted"} /\ Moves(r)
    BY <1>2 DEF Moves, Live
<1>3. CASE infer[r] \in Live /\ infer'[r] = "aborting" /\ finals'[r] = finals[r]
    BY <1>3 DEF Live
<1>4. CASE infer[r] \in Live /\ infer'[r] = "finished" /\ r \notin streams /\ finals'[r] = finals[r] + 1
    BY <1>4 DEF Live
<1>5. CASE infer[r] \in Live /\ infer'[r] = "failed" /\ finals'[r] = finals[r] + 1
    BY <1>5 DEF Live
<1> QED
    BY <1>1, <1>2, <1>3, <1>4, <1>5 DEF Moves

LEMMA QuietKeeps ==
  ASSUME IInv, Quiet, NEW r \in Requests, Moves(r),
         \A u \in Requests : u # r => infer'[u] = infer[u] /\ finals'[u] = finals[u],
         ongoing' = ongoing + (IF infer'[r] \in Live THEN 1 ELSE 0) - (IF infer[r] \in Live THEN 1 ELSE 0)
  PROVE  AllOwn' /\ CountIsOngoing' /\ FinalIsLast'
<1>1. AllOwn'
    BY OwnMoves DEF IInv, AllOwn
<1>2. infer[r] # "finished" /\ infer[r] # "failed"
    BY DEF Moves, Live
<1>3. \A u \in Requests : OnTheWay(u)' <=> OnTheWay(u)
    BY WayFacts DEF Quiet, Unsent
<1>4. ~OnTheWay(r)
    BY <1>2, WayFacts DEF IInv, AllOwn, Own
<1>5. Counted \ {r} = Counted' \ {r}
    BY <1>3 DEF Counted
<1>6. CountIsOngoing'
    BY <1>3, <1>4, <1>5, CountMoves DEF IInv, Counted
<1>7. FinalIsLast'
    BY <1>2 DEF IInv, FinalIsLast, Quiet
<1> QED
    BY <1>1, <1>6, <1>7

(* A step that moves no request at all.                                     *)
LEMMA NobodyMoves ==
  ASSUME IInv, Quiet, UNCHANGED <<infer, finals, ongoing>>
  PROVE  AllOwn' /\ CountIsOngoing' /\ FinalIsLast'
<1>1. AllOwn'
    BY OwnMoves DEF IInv, AllOwn
<1>2. CountIsOngoing'
    BY DEF IInv, CountIsOngoing, OnTheWay, Quiet
<1>3. FinalIsLast'
    BY DEF IInv, FinalIsLast, Quiet
<1> QED
    BY <1>1, <1>2, <1>3

(* The loop's callbacks stay, and no request is posted or taken from it.    *)
LEMMA PostingStays ==
  ASSUME Posting, UNCHANGED <<ready, engine>>, finalize' = "none" => finalize = "none",
         \A r \in Requests : infer'[r] = "posted" <=> infer[r] = "posted"
  PROVE  Posting'
  BY DEF Posting
-----------------------------------------------------------------------------
(* Triton's thread and the callbacks of the event loop.                     *)
LEMMA ExecuteKeeps == ASSUME IInv, NEW r \in Requests, Execute(r) PROVE IInv'
<1> DEFINE x == <<"create", r>>
<1>1. /\ infer[r] = "new" /\ finalize = "none" /\ infer' = [infer EXCEPT ![r] = "posted"]
      /\ ready' = Append(ready, x)
      /\ UNCHANGED <<streams, engine, held, queue, hand, late, finals, ongoing, finalize>>
    BY DEF Execute, InferTo, responses, client
<1>2. infer' \in [Requests -> {"new", "posted"} \cup Live \cup Over] /\ infer'[r] = "posted"
      /\ \A u \in Requests : u # r => infer'[u] = infer[u]
    BY <1>1 DEF IInv, Typed
<1>3. AllOwn' /\ CountIsOngoing' /\ FinalIsLast'
    BY <1>1, <1>2, QuietKeeps, OngoingType DEF Quiet, Moves, Live, IInv
<1>4. ready \in Seq(Callbacks) /\ x \in Callbacks /\ ready' \in Seq(Callbacks)
    BY <1>1, Appended, CallbackTuples DEF IInv, Typed
<1>5. Typed'
    BY <1>1, <1>2, <1>4 DEF IInv, Typed, Live
<1>6. Posting'
  <2>1. \A S : Meets(ready', S) <=> Meets(ready, S) \/ x \in S
      BY <1>1, <1>4, MeetsAppended
  <2>2. \A S, T : Clear(ready', S, T) <=> Clear(ready, S, T) /\ ~(Meets(ready, S) /\ x \in T)
      BY <1>1, <1>4, ClearAppended
  <2>3. ~Meets(ready, {<<"set">>}) /\ ~Meets(ready, {<<"wake">>})
      BY <1>1 DEF IInv, Posting, Meets
  <2>4. \A u \in Requests : infer'[u] = "posted" <=> Meets(ready', CallbacksOf(u))
    <3>1. \A u \in Requests : x \in CallbacksOf(u) <=> u = r
        BY CallbackTuples
    <3>2. \A u \in Requests : infer[u] = "posted" <=> Meets(ready, CallbacksOf(u))
        BY DEF IInv, Posting
    <3>3. \A u \in Requests : infer'[u] = "posted" <=> infer[u] = "posted" \/ u = r
        BY <1>2
    <3> HIDE DEF x
    <3> QED
        BY <2>1, <3>1, <3>2, <3>3
  <2>5. \A u \in Requests : Clear(ready', CallbacksOf(u), CallbacksOf(u))
      BY <1>1, <2>2, CallbackTuples DEF IInv, Posting
  <2>6. engine' = "serving" /\ ~Meets(ready', {<<"set">>, <<"wake">>})
      BY <1>1, <2>1, CallbackTuples DEF IInv, Posting
  <2>7. /\ Clear(ready', {<<"set">>}, NoSteps)
        /\ Clear(ready', NoSteps, {<<"wake">>}) /\ Clear(ready', {<<"wake">>}, Callbacks)
      BY <2>2, <2>3, CallbackTuples DEF IInv, Posting
  <2> QED
      BY <2>4, <2>5, <2>6, <2>7 DEF Posting
<1>7. StoppedIdle'
    BY <1>1 DEF IInv, StoppedIdle
<1> QED
    BY <1>3, <1>5, <1>6, <1>7 DEF IInv

LEMMA RefuseKeeps == ASSUME IInv, NEW r \in Requests, Refuse(r) PROVE IInv'
<1>1. /\ infer[r] = "new" /\ infer' = [infer EXCEPT ![r] = "refused"]
      /\ finals' = [finals EXCEPT ![r] = @ + 1]
      /\ UNCHANGED <<streams, ready, engine, held, queue, hand, late, ongoing, finalize>>
    BY DEF Refuse, InferTo, SendFinal, loop, responses
<1>2. /\ infer' \in [Requests -> {"new", "posted"} \cup Live \cup Over] /\ infer'[r] = "refused"
      /\ finals' \in [Requests -> Nat] /\ finals'[r] = finals[r] + 1
      /\ \A u \in Requests : u # r => infer'[u] = infer[u] /\ finals'[u] = finals[u]
    BY <1>1 DEF IInv, Typed, Over
<1>3. AllOwn' /\ CountIsOngoing' /\ FinalIsLast'
    BY <1>1, <1>2, QuietKeeps, OngoingType DEF Quiet, Moves, Live, IInv
<1>4. Typed'
    BY <1>1, <1>2 DEF IInv, Typed
<1>5. Posting'
    BY <1>1, <1>2, PostingStays DEF IInv
<1>6. StoppedIdle'
    BY <1>1 DEF IInv, StoppedIdle
<1> QED
    BY <1>3, <1>4, <1>5, <1>6 DEF IInv

LEMMA FinalizeKeeps == ASSUME IInv, Finalize PROVE IInv'
<1> DEFINE x == <<"set">>
<1>1. /\ finalize = "none" /\ finalize' = "joining" /\ ready' = Append(ready, x)
      /\ UNCHANGED <<streams, engine, infer, held, queue, hand, late, finals, ongoing>>
    BY DEF Finalize, state, responses, client
<1>2. AllOwn' /\ CountIsOngoing' /\ FinalIsLast'
    BY <1>1, NobodyMoves DEF Quiet
<1>3. ready \in Seq(Callbacks) /\ x \in Callbacks /\ ready' \in Seq(Callbacks)
    BY <1>1, Appended, CallbackTuples DEF IInv, Typed
<1>4. Typed'
    BY <1>1, <1>3 DEF IInv, Typed
<1>5. Posting'
  <2>1. \A S : Meets(ready', S) <=> Meets(ready, S) \/ x \in S
      BY <1>1, <1>3, MeetsAppended
  <2>2. \A S, T : Clear(ready', S, T) <=> Clear(ready, S, T) /\ ~(Meets(ready, S) /\ x \in T)
      BY <1>1, <1>3, ClearAppended
  <2>3. ~Meets(ready, {<<"set">>}) /\ ~Meets(ready, {<<"wake">>}) /\ engine' = "serving"
      BY <1>1 DEF IInv, Posting, Meets
  <2>4. \A u \in Requests : infer'[u] = "posted" <=> Meets(ready', CallbacksOf(u))
      BY <1>1, <2>1, CallbackTuples DEF IInv, Posting
  <2>5. \A u \in Requests : Clear(ready', CallbacksOf(u), CallbacksOf(u))
      BY <2>2, CallbackTuples DEF IInv, Posting
  <2>6. /\ Clear(ready', {<<"set">>}, NoSteps)
        /\ Clear(ready', NoSteps, {<<"wake">>}) /\ Clear(ready', {<<"wake">>}, Callbacks)
      BY <2>2, <2>3, CallbackTuples DEF IInv, Posting
  <2> QED
      BY <1>1, <2>3, <2>4, <2>5, <2>6 DEF Posting
<1>6. StoppedIdle'
    BY <1>1 DEF IInv, StoppedIdle
<1> QED
    BY <1>2, <1>4, <1>5, <1>6 DEF IInv

LEMMA JoinsKeep == ASSUME IInv, EventThreadJoined \/ ResponseThreadJoined PROVE IInv'
<1>1. /\ finalize' # "none"
      /\ UNCHANGED <<streams, ready, engine, infer, held, queue, hand, late, finals, ongoing>>
    BY DEF EventThreadJoined, ResponseThreadJoined, loop, state, responses, client
<1>2. AllOwn' /\ CountIsOngoing' /\ FinalIsLast'
    BY <1>1, NobodyMoves DEF Quiet
<1>3. Typed' /\ Posting' /\ StoppedIdle'
    BY <1>1, PostingStays DEF IInv, Typed, StoppedIdle
<1> QED
    BY <1>2, <1>3 DEF IInv

(* The callback that runs was the first; the others keep their order.       *)
LEMMA RunsFirst ==
  ASSUME IInv, NEW x, Runs(x)
  PROVE  /\ x \in Callbacks /\ engine = "serving" /\ Tail(ready) \in Seq(Callbacks)
         /\ \A S : Meets(ready, S) <=> Meets(Tail(ready), S) \/ x \in S
         /\ \A S, T : Clear(ready, S, T) => Clear(Tail(ready), S, T) /\ ~(x \in S /\ Meets(Tail(ready), T))
<1>1. ready # <<>> /\ Head(ready) = x /\ ready \in Seq(Callbacks)
    BY DEF Runs, IInv, Typed
<1>2. engine = "serving"
    BY <1>1 DEF IInv, Posting
<1> QED
    BY <1>1, <1>2, Shortened, MeetsShortened, ClearShortened

LEMMA TaskCreatedKeeps == ASSUME IInv, NEW r \in Requests, TaskCreated(r) PROVE IInv'
<1> DEFINE x == <<"create", r>>
           y == <<"step", r>>
<1>1. /\ Runs(x) /\ ready' = Append(Tail(ready), y)
      /\ UNCHANGED <<streams, engine, infer, held, queue, hand, late, finals, ongoing, finalize>>
    BY DEF TaskCreated, state, responses, client
<1>2. AllOwn' /\ CountIsOngoing' /\ FinalIsLast'
    BY <1>1, NobodyMoves DEF Quiet
<1>3. y \in Callbacks /\ Tail(ready) \in Seq(Callbacks) /\ ready' \in Seq(Callbacks)
    BY <1>1, RunsFirst, Appended, CallbackTuples
<1>4. Typed'
    BY <1>1, <1>3 DEF IInv, Typed
<1>5. Posting'
  <2>1. \A S : Meets(ready', S) <=> Meets(Tail(ready), S) \/ y \in S
      BY <1>1, <1>3, MeetsAppended
  <2>2. \A S, T : Clear(ready', S, T) <=> Clear(Tail(ready), S, T) /\ ~(Meets(Tail(ready), S) /\ y \in T)
      BY <1>1, <1>3, ClearAppended
  <2>3. /\ \A S : Meets(ready, S) <=> Meets(Tail(ready), S) \/ x \in S
        /\ \A S, T : Clear(ready, S, T) => Clear(Tail(ready), S, T) /\ ~(x \in S /\ Meets(Tail(ready), T))
        /\ engine = "serving"
      BY <1>1, RunsFirst
  <2>4. \A u \in Requests : infer'[u] = "posted" <=> Meets(ready', CallbacksOf(u))
      BY <1>1, <2>1, <2>3, CallbackTuples DEF IInv, Posting
  <2>5. \A u \in Requests : Clear(ready', CallbacksOf(u), CallbacksOf(u))
      BY <2>2, <2>3, CallbackTuples DEF IInv, Posting
  <2>6. finalize' = "none" => ~Meets(ready', {<<"set">>, <<"wake">>})
      BY <1>1, <2>1, <2>3, CallbackTuples DEF IInv, Posting
  <2>7. ~Meets(Tail(ready), {<<"wake">>})
      BY <2>3, CallbackTuples DEF IInv, Posting
  <2>8. /\ Clear(ready', {<<"set">>}, NoSteps)
        /\ Clear(ready', NoSteps, {<<"wake">>}) /\ Clear(ready', {<<"wake">>}, Callbacks)
      BY <2>2, <2>3, <2>7, CallbackTuples DEF IInv, Posting
  <2> QED
      BY <1>1, <2>3, <2>4, <2>5, <2>6, <2>8 DEF Posting
<1>6. StoppedIdle'
    BY <1>1 DEF IInv, StoppedIdle
<1> QED
    BY <1>2, <1>4, <1>5, <1>6 DEF IInv

LEMMA InferStartsKeeps == ASSUME IInv, NEW r \in Requests, InferStarts(r) PROVE IInv'
<1> DEFINE x == <<"step", r>>
<1>1. /\ Runs(x) /\ ready' = Tail(ready) /\ infer' = [infer EXCEPT ![r] = "running"]
      /\ ongoing' = ongoing + 1
      /\ UNCHANGED <<streams, engine, held, queue, hand, late, finals, finalize>>
    BY DEF InferStarts, InferTo, responses, client
<1>2. /\ \A S : Meets(ready, S) <=> Meets(ready', S) \/ x \in S
      /\ \A S, T : Clear(ready, S, T) => Clear(ready', S, T) /\ ~(x \in S /\ Meets(ready', T))
      /\ engine = "serving" /\ ready' \in Seq(Callbacks)
    BY <1>1, RunsFirst
<1>3. infer[r] = "posted" /\ ~Meets(ready', CallbacksOf(r))
    BY <1>2, CallbackTuples DEF IInv, Posting
<1>4. infer' \in [Requests -> {"new", "posted"} \cup Live \cup Over] /\ infer'[r] = "running"
      /\ \A u \in Requests : u # r => infer'[u] = infer[u]
    BY <1>1 DEF IInv, Typed, Live
<1>5. AllOwn' /\ CountIsOngoing' /\ FinalIsLast'
    BY <1>1, <1>3, <1>4, QuietKeeps, OngoingType DEF Quiet, Moves, Live, IInv
<1>6. Typed'
    BY <1>1, <1>2, <1>3, <1>4 DEF IInv, Typed
<1>7. Posting'
  <2>1. \A u \in Requests : infer'[u] = "posted" <=> Meets(ready', CallbacksOf(u))
      BY <1>2, <1>3, <1>4, CallbackTuples DEF IInv, Posting
  <2> QED
      BY <1>1, <1>2, <2>1 DEF IInv, Posting
<1>8. StoppedIdle'
    BY <1>1, <1>2 DEF StoppedIdle
<1> QED
    BY <1>5, <1>6, <1>7, <1>8 DEF IInv

LEMMA ShutdownKeeps == ASSUME IInv, ShutdownSet \/ ShutdownSeen PROVE IInv'
<1>1. /\ UNCHANGED <<streams, infer, held, queue, hand, late, finals, ongoing, finalize>>
      /\ engine' \in {"draining", engine}
    BY DEF ShutdownSet, ShutdownSeen, state, responses, client
<1>2. AllOwn' /\ CountIsOngoing' /\ FinalIsLast'
    BY <1>1, NobodyMoves DEF Quiet
<1>3. StoppedIdle'
    BY <1>1 DEF IInv, StoppedIdle
<1>4. CASE ShutdownSet
  <2> DEFINE x == <<"set">>
             y == <<"wake">>
  <2>1. Runs(x) /\ ready' = Append(Tail(ready), y) /\ engine' = engine
      BY <1>4 DEF ShutdownSet
  <2>2. y \in Callbacks /\ Tail(ready) \in Seq(Callbacks) /\ ready' \in Seq(Callbacks)
      BY <2>1, RunsFirst, Appended, CallbackTuples
  <2>3. \A S : Meets(ready', S) <=> Meets(Tail(ready), S) \/ y \in S
      BY <2>1, <2>2, MeetsAppended
  <2>4. \A S, T : Clear(ready', S, T) <=> Clear(Tail(ready), S, T) /\ ~(Meets(Tail(ready), S) /\ y \in T)
      BY <2>1, <2>2, ClearAppended
  <2>5. /\ \A S : Meets(ready, S) <=> Meets(Tail(ready), S) \/ x \in S
        /\ \A S, T : Clear(ready, S, T) => Clear(Tail(ready), S, T) /\ ~(x \in S /\ Meets(Tail(ready), T))
        /\ engine = "serving"
      BY <2>1, RunsFirst
  <2>6. \A u \in Requests : infer'[u] = "posted" <=> Meets(ready', CallbacksOf(u))
      BY <1>1, <2>3, <2>5, CallbackTuples DEF IInv, Posting
  <2>7. \A u \in Requests : Clear(ready', CallbacksOf(u), CallbacksOf(u))
      BY <2>4, <2>5, CallbackTuples DEF IInv, Posting
  <2>8. ~Meets(Tail(ready), NoSteps) /\ finalize # "none"
      BY <2>5, CallbackTuples DEF IInv, Posting
  <2>9. ~Meets(Tail(ready), {<<"set">>}) /\ ~Meets(Tail(ready), {<<"wake">>})
      BY <2>8, CallbackTuples DEF Meets
  <2>10. /\ Clear(ready', {<<"set">>}, NoSteps)
         /\ Clear(ready', NoSteps, {<<"wake">>}) /\ Clear(ready', {<<"wake">>}, Callbacks)
      BY <2>4, <2>5, <2>8, <2>9 DEF IInv, Posting
  <2>11. Posting'
      BY <1>1, <2>1, <2>5, <2>6, <2>7, <2>8, <2>10 DEF Posting
  <2> QED
      BY <1>1, <1>2, <1>3, <2>1, <2>2, <2>11 DEF IInv, Typed
<1>5. CASE ShutdownSeen
  <2> DEFINE x == <<"wake">>
  <2>1. Runs(x) /\ ready' = Tail(ready) /\ engine' = "draining"
      BY <1>5 DEF ShutdownSeen
  <2>2. /\ \A S : Meets(ready, S) <=> Meets(ready', S) \/ x \in S
        /\ \A S, T : Clear(ready, S, T) => Clear(ready', S, T) /\ ~(x \in S /\ Meets(ready', T))
        /\ engine = "serving" /\ ready' \in Seq(Callbacks)
      BY <2>1, RunsFirst
  <2>3. ready' = <<>> /\ finalize # "none"
      BY <2>2, Emptied DEF IInv, Posting
  <2>4. \A u \in Requests : infer'[u] = "posted" <=> Meets(ready', CallbacksOf(u))
      BY <1>1, <2>2, CallbackTuples DEF IInv, Posting
  <2>5. Posting'
      BY <1>1, <2>3, <2>4, Empty DEF Posting
  <2> QED
      BY <1>1, <1>2, <1>3, <2>1, <2>2, <2>5 DEF IInv, Typed
<1> QED
    BY <1>4, <1>5

(* Nothing is lost when the loop closes.                                    *)
LEMMA EngineStopsKeeps == ASSUME IInv, EngineStops PROVE IInv'
<1>1. /\ engine = "draining" /\ engine' = "stopped" /\ ongoing = 0 /\ ready' = <<>>
      /\ UNCHANGED <<streams, queue, hand, late, finals, ongoing, finalize>>
    BY DEF EngineStops, responses, client
<1>2. ready = <<>>
    BY <1>1 DEF IInv, Posting
<1>3. \A r \in Requests : infer[r] \notin Live \cup {"posted"}
    BY <1>1, <1>2, Counts, Empty DEF IInv, Posting
<1>4. infer' = infer /\ held' = held
  <2>1. infer' = [r \in Requests |-> infer[r]]
      BY <1>3 DEF EngineStops
  <2>2. \A r \in Requests : held[r] = "none"
      BY <1>3 DEF IInv, Typed, Live
  <2>3. held' = [r \in Requests |-> held[r]]
      BY <2>2 DEF EngineStops
  <2> QED
      BY <2>1, <2>3 DEF IInv, Typed
<1>5. AllOwn' /\ CountIsOngoing' /\ FinalIsLast'
    BY <1>1, <1>4, NobodyMoves DEF Quiet
<1>6. Typed' /\ StoppedIdle'
    BY <1>1, <1>2, <1>4 DEF IInv, Typed, StoppedIdle
<1>7. Posting'
    BY <1>1, <1>2, <1>4 DEF IInv, Posting
<1> QED
    BY <1>5, <1>6, <1>7 DEF IInv
-----------------------------------------------------------------------------
(* The coroutines: those that answer by themselves.                         *)
LEMMA SendsItselfKeeps ==
  ASSUME IInv, NEW r \in Requests, infer[r] \in {"running", "aborting"}, NEW s, SendsItself(r, s),
         s = "failed" \/ (s = "finished" /\ r \notin streams)
  PROVE  IInv'
<1>1. /\ infer' = [infer EXCEPT ![r] = s] /\ finals' = [finals EXCEPT ![r] = @ + 1]
      /\ ongoing' = ongoing - 1
      /\ UNCHANGED <<streams, ready, engine, held, queue, hand, late, finalize>>
    BY DEF SendsItself, InferTo, SendFinal, loop, responses
<1>2. /\ infer' \in [Requests -> {"new", "posted"} \cup Live \cup Over] /\ infer'[r] = s
      /\ finals' \in [Requests -> Nat] /\ finals'[r] = finals[r] + 1
      /\ \A u \in Requests : u # r => infer'[u] = infer[u] /\ finals'[u] = finals[u]
    BY <1>1 DEF IInv, Typed, Over
<1>3. AllOwn' /\ CountIsOngoing' /\ FinalIsLast'
    BY <1>1, <1>2, QuietKeeps, OngoingType DEF Quiet, Moves, Live, IInv
<1>4. Typed'
    BY <1>1, <1>2 DEF IInv, Typed
<1>5. Posting'
    BY <1>1, <1>2, PostingStays DEF IInv
<1>6. StoppedIdle'
    BY <1>1, Counts DEF StoppedIdle, Live
<1> QED
    BY <1>3, <1>4, <1>5, <1>6 DEF IInv

LEMMA AbortsKeeps == ASSUME IInv, NEW r \in Requests, Aborts(r) PROVE IInv'
<1>1. /\ infer[r] = "running" /\ infer' = [infer EXCEPT ![r] = "aborting"]
      /\ UNCHANGED <<streams, ready, engine, held, queue, hand, late, finals, ongoing, finalize>>
    BY DEF Aborts, InferTo, loop, responses, client
<1>2. infer' \in [Requests -> {"new", "posted"} \cup Live \cup Over] /\ infer'[r] = "aborting"
      /\ \A u \in Requests : u # r => infer'[u] = infer[u]
    BY <1>1 DEF IInv, Typed, Live
<1>3. AllOwn' /\ CountIsOngoing' /\ FinalIsLast'
    BY <1>1, <1>2, QuietKeeps, OngoingType DEF Quiet, Moves, Live, IInv
<1>4. Typed' /\ Posting' /\ StoppedIdle'
    BY <1>1, <1>2, PostingStays DEF IInv, Typed, StoppedIdle
<1> QED
    BY <1>3, <1>4 DEF IInv

LEMMA CancelKeeps == ASSUME IInv, NEW r \in Requests, Cancel(r) PROVE IInv'
<1>1. UNCHANGED <<streams, ready, engine, infer, held, queue, hand, late, finals, ongoing, finalize>>
    BY DEF Cancel, loop, state, responses
<1>2. AllOwn' /\ CountIsOngoing' /\ FinalIsLast'
    BY <1>1, NobodyMoves DEF Quiet
<1>3. Typed' /\ Posting' /\ StoppedIdle'
    BY <1>1, PostingStays DEF IInv, Typed, StoppedIdle
<1> QED
    BY <1>2, <1>3 DEF IInv

(* A response joins the queue, or its coroutine waits.                      *)
LEMMA PutKeeps ==
  ASSUME IInv, NEW r \in streams, infer[r] \in Live, NEW flag \in Flags, Put(r, flag),
         UNCHANGED <<streams, loop, ongoing, hand, client, finalize>>
  PROVE  IInv'
<1>1. r \in Requests /\ UNCHANGED <<streams, ready, engine, ongoing, hand, finals, late, finalize>>
    BY DEF IInv, Typed, loop, client
<1>2. finals[r] = 0 /\ ~Unsent(r) /\ hand # <<r, "sent">> /\ ~late[r]
    BY <1>1 DEF IInv, AllOwn, Own, FinalIsLast, Live
<1>3. CASE Len(queue) < MaxQueue
  <2> DEFINE x == <<r, flag>>
             s == IF flag = "final" THEN "finished" ELSE "running"
  <2>1. /\ queue' = Append(queue, x) /\ held' = [held EXCEPT ![r] = "none"]
        /\ infer' = [infer EXCEPT ![r] = s]
      BY <1>3 DEF Put, InferTo
  <2>2. x \in Items \cup {Stop} /\ queue \in Seq(Items \cup {Stop})
      BY <1>1 DEF IInv, Typed, Items
  <2>3. queue' \in Seq(Items \cup {Stop})
      BY <2>1, <2>2, Appended
  <2>4. \A S : Meets(queue', S) <=> Meets(queue, S) \/ x \in S
    <3> HIDE DEF x
    <3> QED
        BY <2>1, <2>2, MeetsAppended
  <2>5. \A S, T : Clear(queue', S, T) <=> Clear(queue, S, T) /\ ~(Meets(queue, S) /\ x \in T)
    <3> HIDE DEF x
    <3> QED
        BY <2>1, <2>2, ClearAppended
  <2>6. /\ infer' \in [Requests -> {"new", "posted"} \cup Live \cup Over] /\ infer'[r] = s
        /\ held' \in [Requests -> Flags \cup {"none"}] /\ held'[r] = "none"
        /\ \A u \in Requests : u # r => infer'[u] = infer[u] /\ held'[u] = held[u]
      BY <1>1, <2>1 DEF IInv, Typed, Live, Over
  <2>7. Own(r)'
    <3>1. Clear(queue', {<<r, "final">>}, ResponsesOf(r))
        BY <1>1, <1>2, <2>5 DEF IInv, AllOwn, Own, Unsent
    <3>2. CASE flag = "final"
      <4>1. Unsent(r)' /\ s = "finished"
          BY <2>4, <3>2 DEF Unsent
      <4> QED
          BY <1>1, <1>2, <2>6, <3>1, <4>1 DEF Own, Unsent, Live
    <3>3. CASE flag = "part"
      <4>1. ~Unsent(r)' /\ s = "running"
          BY <1>1, <1>2, <2>4, <3>3, ResponseTuples DEF Unsent
      <4> QED
          BY <1>1, <1>2, <2>6, <3>1, <4>1 DEF Own, Unsent, Live
    <3> QED
        BY <3>2, <3>3, ResponseTuples
  <2>8. ASSUME NEW u \in Requests, u # r PROVE Own(u)' /\ (OnTheWay(u)' <=> OnTheWay(u))
    <3>1. /\ Meets(queue', ResponsesOf(u)) <=> Meets(queue, ResponsesOf(u))
          /\ Meets(queue', {<<u, "final">>}) <=> Meets(queue, {<<u, "final">>})
          /\ Clear(queue', {<<u, "final">>}, ResponsesOf(u)) <=> Clear(queue, {<<u, "final">>}, ResponsesOf(u))
        BY <1>1, <2>4, <2>5, <2>8, ResponseTuples
    <3>2. Own(u)'
        BY <1>1, <2>6, <2>8, <3>1 DEF IInv, AllOwn, Own, Unsent
    <3> QED
        BY <1>1, <3>1, <3>2, WayFacts DEF Unsent
  <2>9. infer'[r] \in Live \/ OnTheWay(r)'
      BY <1>1, <2>4, <2>6, WayFacts DEF Unsent, Live
  <2>10. Counted' = Counted
      BY <2>6, <2>8, <2>9 DEF Counted
  <2>11. CountIsOngoing'
      BY <1>1, <2>10 DEF IInv, CountIsOngoing, Counted
  <2>12. FinalIsLast'
      BY <1>1, <1>2, <2>6 DEF IInv, FinalIsLast
  <2>13. Typed'
      BY <1>1, <2>3, <2>6 DEF IInv, Typed
  <2>14. Posting' /\ StoppedIdle'
      BY <1>1, <2>6, PostingStays DEF IInv, StoppedIdle, Live
  <2> QED
      BY <2>7, <2>8, <2>11, <2>12, <2>13, <2>14 DEF IInv, AllOwn
<1>4. CASE ~(Len(queue) < MaxQueue)
  <2>1. /\ held' = [held EXCEPT ![r] = flag] /\ infer' = [infer EXCEPT ![r] = "blocked"]
        /\ queue' = queue
      BY <1>4 DEF Put, InferTo
  <2>2. /\ infer' \in [Requests -> {"new", "posted"} \cup Live \cup Over] /\ infer'[r] = "blocked"
        /\ held' \in [Requests -> Flags \cup {"none"}] /\ held'[r] # "none"
        /\ \A u \in Requests : u # r => infer'[u] = infer[u] /\ held'[u] = held[u]
      BY <1>1, <2>1 DEF IInv, Typed, Live, Flags
  <2>3. \A u \in Requests : Own(u)'
      BY <1>1, <1>2, <2>1, <2>2 DEF IInv, AllOwn, Own, Unsent, Live
  <2>4. Counted' = Counted
      BY <1>1, <2>1, <2>2 DEF Counted, OnTheWay, Live
  <2>5. CountIsOngoing'
      BY <1>1, <2>4 DEF IInv, CountIsOngoing, Counted
  <2>6. FinalIsLast'
      BY <1>1, <1>2, <2>2 DEF IInv, FinalIsLast
  <2>7. Typed'
      BY <1>1, <2>1, <2>2 DEF IInv, Typed
  <2>8. Posting' /\ StoppedIdle'
      BY <1>1, <2>2, PostingStays DEF IInv, StoppedIdle, Live
  <2> QED
      BY <2>3, <2>5, <2>6, <2>7, <2>8 DEF IInv, AllOwn
<1> QED
    BY <1>3, <1>4

LEMMA CoroutineKeeps ==
  ASSUME IInv, NEW r \in Requests, Produces(r) \/ Resumes(r)
  PROVE  IInv'
<1>1. CASE Finishes(r) \/ Fails(r) \/ (Aborted(r) /\ r \notin streams)
    BY <1>1, SendsItselfKeeps DEF Finishes, Fails, Aborted
<1>2. CASE Aborts(r)
    BY <1>2, AbortsKeeps
<1>3. CASE Retry(r)
  <2>1. infer[r] = "blocked" /\ r \in streams /\ held[r] \in Flags
      BY <1>3 DEF Retry, IInv, Typed, AllOwn, Own
  <2> QED
      BY <1>3, <2>1, PutKeeps DEF Retry, Live
<1>4. CASE StreamOutput(r) \/ StreamFinishes(r) \/ (Aborted(r) /\ r \in streams)
  <2>1. \E flag \in Flags : Put(r, flag)
      BY <1>4 DEF StreamOutput, StreamFinishes, Aborted, Flags
  <2>2. infer[r] \in Live /\ r \in streams /\ UNCHANGED <<streams, loop, ongoing, hand, client, finalize>>
      BY <1>4 DEF StreamOutput, StreamFinishes, Aborted, Live
  <2> QED
      BY <2>1, <2>2, PutKeeps
<1> QED
    BY <1>1, <1>2, <1>3, <1>4 DEF Produces, Resumes
-----------------------------------------------------------------------------
(* The end of the queue, and the response thread.                           *)
LEMMA PutNoneKeeps == ASSUME IInv, PutNone PROVE IInv'
<1>1. /\ queue' = Append(queue, Stop) /\ finalize' # "none"
      /\ UNCHANGED <<streams, ready, engine, infer, held, hand, late, finals, ongoing>>
    BY DEF PutNone, loop, state, client
<1>2. queue \in Seq(Items \cup {Stop}) /\ queue' \in Seq(Items \cup {Stop})
    BY <1>1, Appended DEF IInv, Typed
<1>3. \A S : Meets(queue', S) <=> Meets(queue, S) \/ Stop \in S
    BY <1>1, <1>2, MeetsAppended
<1>4. \A S, T : Clear(queue', S, T) <=> Clear(queue, S, T) /\ ~(Meets(queue, S) /\ Stop \in T)
    BY <1>1, <1>2, ClearAppended
<1>5. \A r \in Requests :
        /\ Meets(queue', ResponsesOf(r)) <=> Meets(queue, ResponsesOf(r))
        /\ Meets(queue', {<<r, "final">>}) <=> Meets(queue, {<<r, "final">>})
        /\ Clear(queue', {<<r, "final">>}, ResponsesOf(r)) <=> Clear(queue, {<<r, "final">>}, ResponsesOf(r))
    BY <1>3, <1>4, ResponseTuples
<1>6. \A r \in Requests : Own(r)' /\ (OnTheWay(r)' <=> OnTheWay(r))
    BY <1>1, <1>5, WayFacts DEF IInv, AllOwn, Own, Unsent
<1>7. Counted' = Counted
    BY <1>1, <1>6 DEF Counted
<1>8. CountIsOngoing'
    BY <1>1, <1>7 DEF IInv, CountIsOngoing, Counted
<1>9. Typed' /\ Posting' /\ StoppedIdle' /\ FinalIsLast'
    BY <1>1, <1>2, PostingStays DEF IInv, Typed, StoppedIdle, FinalIsLast
<1> QED
    BY <1>6, <1>8, <1>9 DEF IInv, AllOwn

LEMMA TakeKeeps == ASSUME IInv, Take PROVE IInv'
<1>1. /\ hand = Nothing /\ queue # <<>> /\ hand' = Head(queue) /\ queue' = Tail(queue)
      /\ UNCHANGED <<streams, ready, engine, infer, held, late, finals, ongoing, finalize>>
    BY DEF Take, loop, state, client
<1>2. queue \in Seq(Items \cup {Stop}) /\ queue' \in Seq(Items \cup {Stop}) /\ hand' \in Items \cup {Stop}
    BY <1>1, Shortened DEF IInv, Typed
<1>3. \A S : Meets(queue, S) <=> Meets(queue', S) \/ hand' \in S
    BY <1>1, <1>2, MeetsShortened
<1>4. \A S, T : Clear(queue, S, T) => Clear(queue', S, T) /\ ~(hand' \in S /\ Meets(queue', T))
    BY <1>1, <1>2, ClearShortened
<1>5. \A r \in Requests :
        /\ Meets(queue, ResponsesOf(r)) <=>
             Meets(queue', ResponsesOf(r)) \/ hand' \in {<<r, "part">>, <<r, "final">>}
        /\ Meets(queue, {<<r, "final">>}) <=> Meets(queue', {<<r, "final">>}) \/ hand' = <<r, "final">>
        /\ Clear(queue', {<<r, "final">>}, ResponsesOf(r))
        /\ hand' = <<r, "final">> => ~Meets(queue', ResponsesOf(r))
    BY <1>3, <1>4 DEF IInv, AllOwn, Own, ResponsesOf
<1>6. \A r \in Requests : hand # <<r, "final">> /\ hand # <<r, "part">> /\ hand # <<r, "sent">>
    BY <1>1, ResponseTuples
<1>7. \A r \in Requests : hand' # <<r, "sent">>
    BY <1>2, ResponseTuples DEF Items
<1>8. ASSUME NEW r \in Requests PROVE Own(r)' /\ (OnTheWay(r)' <=> OnTheWay(r))
  <2>1. Unsent(r)' <=> Unsent(r)
      BY <1>5, <1>6 DEF Unsent
  <2>2. Own(r)'
      BY <1>1, <1>5, <1>7, <2>1 DEF IInv, AllOwn, Own
  <2> QED
      BY <1>6, <1>7, <2>1, <2>2, WayFacts
<1>9. Counted' = Counted
    BY <1>1, <1>8 DEF Counted
<1>10. CountIsOngoing'
    BY <1>1, <1>9 DEF IInv, CountIsOngoing, Counted
<1>11. Typed'
    BY <1>1, <1>2 DEF IInv, Typed
<1>12. Posting' /\ StoppedIdle' /\ FinalIsLast'
    BY <1>1, PostingStays DEF IInv, StoppedIdle, FinalIsLast
<1> QED
    BY <1>8, <1>10, <1>11, <1>12 DEF IInv, AllOwn

LEMMA SendKeeps == ASSUME IInv, NEW r \in Requests, NEW flag \in Flags, Send(r, flag) PROVE IInv'
<1>1. /\ hand = <<r, flag>> /\ hand' = IF flag = "final" THEN <<r, "sent">> ELSE Nothing
      /\ finals' = [finals EXCEPT ![r] = IF flag = "final" THEN @ + 1 ELSE @]
      /\ late' = [late EXCEPT ![r] = @ \/ finals[r] > 0]
      /\ UNCHANGED <<streams, ready, engine, infer, held, queue, ongoing, finalize>>
    BY DEF Send, loop, state
<1>2. late \in [Requests -> BOOLEAN] /\ late' \in [Requests -> BOOLEAN]
      /\ \A u \in Requests : late'[u] => late[u] \/ (u = r /\ finals[r] > 0)
    BY <1>1 DEF IInv, Typed
<1>3. /\ finals' \in [Requests -> Nat] /\ finals'[r] = IF flag = "final" THEN finals[r] + 1 ELSE finals[r]
      /\ \A u \in Requests : u # r => finals'[u] = finals[u]
    BY <1>1 DEF IInv, Typed
<1>4. Own(r) /\ infer[r] \in Live \cup {"finished", "failed"}
    BY <1>1, ResponseTuples DEF IInv, AllOwn, Own, Unsent
<1>5. \A u \in Requests : u # r =>
        \A f \in Flags \cup {"sent"} : hand # <<u, f>> /\ hand' # <<u, f>>
    BY <1>1, ResponseTuples
<1>6. ASSUME NEW u \in Requests, u # r PROVE Own(u)' /\ (OnTheWay(u)' <=> OnTheWay(u))
  <2>1. hand # <<u, "part">> /\ hand # <<u, "final">> /\ hand # <<u, "sent">>
        /\ hand' # <<u, "part">> /\ hand' # <<u, "final">> /\ hand' # <<u, "sent">>
      BY <1>5, <1>6, ResponseTuples
  <2> QED
      BY <1>1, <1>3, <1>6, <2>1, WayFacts DEF IInv, AllOwn, Own, Unsent
<1>7. Own(r)' /\ (OnTheWay(r)' <=> OnTheWay(r)) /\ (finals[r] > 0 => infer[r] = "failed")
  <2>1. CASE flag = "final"
    <3>1. /\ infer[r] = "finished" /\ finals[r] = 0 /\ finals'[r] = 1
          /\ ~Meets(queue, ResponsesOf(r)) /\ hand' = <<r, "sent">>
        BY <1>1, <1>3, <1>4, <2>1 DEF Own, Unsent
    <3>2. ~Meets(queue, {<<r, "final">>}) /\ hand' # <<r, "final">> /\ hand' # <<r, "part">>
        BY <3>1, ResponseTuples DEF Meets, ResponsesOf
    <3>3. Own(r)'
        BY <1>1, <1>4, <3>1, <3>2 DEF Own, Unsent, Live
    <3>4. OnTheWay(r) /\ OnTheWay(r)'
        BY <1>1, <2>1, <3>1, WayFacts DEF Unsent
    <3> QED
        BY <3>1, <3>3, <3>4
  <2>2. CASE flag = "part"
    <3>1. finals'[r] = finals[r] /\ hand' = Nothing /\ hand = <<r, "part">>
        BY <1>1, <1>3, <2>2, ResponseTuples
    <3>2. hand' # <<r, "part">> /\ hand' # <<r, "final">> /\ hand' # <<r, "sent">>
          /\ hand # <<r, "final">> /\ hand # <<r, "sent">>
        BY <3>1, ResponseTuples
    <3>3. Own(r)' /\ (OnTheWay(r)' <=> OnTheWay(r))
        BY <1>1, <1>4, <3>1, <3>2, WayFacts DEF Own, Unsent
    <3>4. finals[r] > 0 => infer[r] = "failed"
        BY <1>4, <3>1 DEF Own, Live
    <3> QED
        BY <3>3, <3>4
  <2> QED
      BY <2>1, <2>2, ResponseTuples
<1>8. Counted' = Counted
    BY <1>1, <1>6, <1>7 DEF Counted
<1>9. CountIsOngoing'
    BY <1>1, <1>8 DEF IInv, CountIsOngoing, Counted
<1>10. FinalIsLast'
    BY <1>1, <1>2, <1>7 DEF IInv, FinalIsLast
<1>11. hand' \in Items \cup (Requests \X {"sent"}) \cup {Nothing, Stop}
    BY <1>1
<1>12. Typed'
    BY <1>1, <1>2, <1>3, <1>11 DEF IInv, Typed
<1>13. Posting' /\ StoppedIdle'
    BY <1>1, PostingStays DEF IInv, StoppedIdle
<1> QED
    BY <1>6, <1>7, <1>9, <1>10, <1>12, <1>13 DEF IInv, AllOwn

LEMMA CountDownKeeps == ASSUME IInv, NEW r \in Requests, CountDown(r) PROVE IInv'
<1>1. /\ hand = <<r, "sent">> /\ hand' = Nothing /\ ongoing' = ongoing - 1
      /\ UNCHANGED <<streams, ready, engine, infer, held, queue, finals, late, finalize>>
    BY DEF CountDown, loop, state, client
<1>2. \A u \in Requests : hand' # <<u, "part">> /\ hand' # <<u, "final">> /\ hand' # <<u, "sent">>
    BY <1>1, ResponseTuples
<1>3. \A u \in Requests : hand # <<u, "final">> /\ (u # r => hand # <<u, "sent">>)
    BY <1>1, ResponseTuples
<1>4. \A u \in Requests : Own(u)'
    BY <1>1, <1>2, <1>3 DEF IInv, AllOwn, Own, Unsent
<1>5. infer[r] = "finished" /\ ~Unsent(r)
  <2>1. infer[r] = "finished" /\ finals[r] = 1
      BY <1>1 DEF IInv, AllOwn, Own
  <2>2. ~Unsent(r)
      BY <2>1 DEF IInv, AllOwn, Own, Unsent
  <2> QED
      BY <2>1, <2>2
<1>6. OnTheWay(r) /\ ~OnTheWay(r)' /\ \A u \in Requests : u # r => (OnTheWay(u)' <=> OnTheWay(u))
    BY <1>1, <1>2, <1>3, <1>5, WayFacts DEF Unsent
<1>7. r \in Counted /\ r \notin Counted' /\ Counted \ {r} = Counted' \ {r}
    BY <1>1, <1>5, <1>6 DEF Counted, Live
<1>8. CountIsOngoing'
    BY <1>1, <1>7, CountMoves, OngoingType DEF IInv
<1>9. StoppedIdle'
    BY <1>1, <1>6, Counts DEF StoppedIdle
<1>10. Typed' /\ Posting' /\ FinalIsLast'
    BY <1>1, PostingStays DEF IInv, Typed, FinalIsLast
<1> QED
    BY <1>4, <1>8, <1>9, <1>10 DEF IInv, AllOwn

LEMMA StutterKeeps == ASSUME IInv, UNCHANGED vars PROVE IInv'
<1>1. UNCHANGED <<streams, ready, engine, infer, held, queue, hand, late, finals, ongoing, finalize>>
    BY DEF vars, loop, state, responses, client
<1>2. AllOwn' /\ CountIsOngoing' /\ FinalIsLast'
    BY <1>1, NobodyMoves DEF Quiet
<1>3. Typed' /\ Posting' /\ StoppedIdle'
    BY <1>1, PostingStays DEF IInv, Typed, StoppedIdle
<1> QED
    BY <1>2, <1>3 DEF IInv

(* Callbacks, responses and the count are as described in every behaviour.  *)
THEOREM Inductive == Spec => []IInv
<1>1. IInv /\ [Next]_vars => IInv'
  <2> SUFFICES ASSUME IInv, [Next]_vars PROVE IInv'
      OBVIOUS
  <2>1. CASE UNCHANGED vars
      BY <2>1, StutterKeeps
  <2>2. CASE \E r \in Requests : Execute(r) \/ Refuse(r) \/ Produces(r) \/ Resumes(r) \/ Cancel(r)
      BY <2>2, ExecuteKeeps, RefuseKeeps, CoroutineKeeps, CancelKeeps
  <2>3. CASE Triton
      BY <2>3, FinalizeKeeps, JoinsKeep, PutNoneKeeps DEF Triton
  <2>4. CASE EventLoop
      BY <2>4, TaskCreatedKeeps, InferStartsKeeps, ShutdownKeeps, EngineStopsKeeps DEF EventLoop
  <2>5. CASE ResponseLoop
      BY <2>5, TakeKeeps, SendKeeps, CountDownKeeps DEF ResponseLoop
  <2> QED
      BY <2>1, <2>2, <2>3, <2>4, <2>5 DEF Next
<1> QED
    BY Initial, <1>1, PTL DEF Spec

(* The count that two threads change is exactly what shutdown has to wait   *)
(* for, for any number of requests and any size of the queue.               *)
THEOREM CountIsExact == Spec => []CountIsOngoing
<1>1. IInv => CountIsOngoing
    BY DEF IInv
<1> QED
    BY <1>1, Inductive, PTL

(* Who was handed over before the engine stopped has its one final          *)
(* response: its callback was ahead of the shutdown's, and it was counted.  *)
THEOREM NobodyIsDropped == Spec => []AnsweredBeforeStop
<1>1. IInv => AnsweredBeforeStop
  <2> SUFFICES ASSUME IInv, engine = "stopped", NEW r \in Requests, infer[r] # "new"
               PROVE  infer[r] # "lost" /\ finals[r] = 1
      BY DEF AnsweredBeforeStop
  <2>1. infer[r] \notin Live /\ ~OnTheWay(r)
      BY Counts
  <2>2. infer[r] # "posted"
      BY Empty DEF IInv, Posting
  <2>3. infer[r] \in {"refused", "finished", "failed"} /\ ~Unsent(r)
      BY <2>1, <2>2, WayFacts DEF IInv, Typed, AllOwn, Own, Over
  <2> QED
      BY <2>3 DEF IInv, AllOwn, Own
<1> QED
    BY <1>1, Inductive, PTL

(* No response follows the final one of its request, but for a stream that  *)
(* failed.                                                                  *)
THEOREM FinalComesLast == Spec => []FinalIsLast
<1>1. IInv => FinalIsLast
    BY DEF IInv
<1> QED
    BY <1>1, Inductive, PTL
=============================================================================
