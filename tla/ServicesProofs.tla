----------------------------- MODULE ServicesProofs -----------------------------
(***************************************************************************)
(* Proofs about components of a request's way that share no state, each    *)
(* for any size of its constants: the services beside a request, and Batch.*)
(*                                                                         *)
(* TokenizerLoads: _loads names exactly the tasks whose callback has not   *)
(* run (Flights), so there is one for a version; a caller waits for a task *)
(* of its version, and the tasks it saw fail are over (TokSound).          *)
(* BackendConfig: a caller knows what the file says now, and what is       *)
(* remembered under its stat was said since (BckSound).                    *)
(* Accounting: the metrics follow from how far the request is (Books), and *)
(* a visual slot that is told to have succeeded is one of a call that did  *)
(* (SlotSound).                                                            *)
(* Startup: nothing disturbs a start before its cleanup (Undisturbed), so  *)
(* the first cause is recorded first (FirstCause), and each stage of the   *)
(* cleanup finds what the one before it left (Cleaning).                   *)
(* ContextCompression: a request keeps whole turns of its conversation; as *)
(* long as it summarizes it keeps what is protected, and what its text     *)
(* covers with what is left of the source is the whole source (CtxSound),  *)
(* while the cache tells of a boundary what was said up to it.             *)
(* Reranking: documents are scored from the first on, and scores that were *)
(* lost are not made up for later (InTurn), so that as many scores as      *)
(* documents are each document's own; the ranking exists and is total      *)
(* (RankedRanks), and the walk through it leaves nothing out without a     *)
(* reason (Selected).                                                      *)
(* ChatRequest: at each place of the handler the conversation shows media   *)
(* of the request only, the latest ones in the last message of its user or  *)
(* told there, and no answer about older ones (Faithful, Ready); reserve    *)
(* and limit agree as turns are left out (ChatBudget).                      *)
(* Batch: Work says where each input is: with the task that works on it,   *)
(* with one that failed, answered, or not yet taken; Control relates the   *)
(* caller to its tasks.                                                    *)
(***************************************************************************)
EXTENDS Batch, Services, SetCounting, WellFoundedInduction, SequenceTheorems, FunctionTheorems,
        FiniteSetTheorems, TLAPS

-----------------------------------------------------------------------------
(* TokenizerLoads.                                                          *)
Flying == {"created", "locking", "loading", "loaded", "failed"}

CallerStates ==
  [at : {"idle", "located", "waiting", "over"}, version : Versions \cup {NoVersion},
   task : LoadTasks \cup {NoTask}, late : BOOLEAN, answer : Versions \cup {NoVersion},
   failed : SUBSET LoadTasks]

TaskStates ==
  [at : Flying \cup {"unused", "finished", "finished_failed"}, version : Versions \cup {NoVersion}]

TokTyped ==
  /\ tokLink \in Versions
  /\ tokCaller \in [Callers -> CallerStates]
  /\ tokTask \in [LoadTasks -> TaskStates]
  /\ tokLoads \in [Versions -> LoadTasks \cup {NoTask}]
  /\ tokLock \in LoadTasks \cup {NoTask} /\ tokCache \in Versions \cup {NoVersion}

(* Every load in flight is the one of its version, and holds the lock while *)
(* it loads.                                                                *)
Flights == \A t \in LoadTasks :
  /\ tokTask[t].at # "unused" <=> tokTask[t].version \in Versions
  /\ tokTask[t].at \in Flying => tokLoads[tokTask[t].version] = t
  /\ tokTask[t].at = "loading" => tokLock = t

Loads == \A v \in Versions :
  tokLoads[v] # NoTask => tokTask[tokLoads[v]].at \in Flying /\ tokTask[tokLoads[v]].version = v

TokSound(x) ==
  /\ x.at = "located" => x.version \in Versions
  /\ x.at = "waiting" => /\ x.task \in LoadTasks /\ x.task \notin x.failed
                         /\ tokTask[x.task].at # "unused" /\ tokTask[x.task].version = x.version
  /\ x.at = "over" /\ x.answer # NoVersion => x.answer = x.version
  /\ \A t \in x.failed : tokTask[t].at = "finished_failed"

TokAllSound == \A c \in Callers : TokSound(tokCaller[c])

TokInv == TokTyped /\ Flights /\ Loads /\ TokAllSound
-----------------------------------------------------------------------------
LEMMA TokInit == ServicesAssumption /\ Tokenizers!Init => TokInv
<1> SUFFICES ASSUME ServicesAssumption, Tokenizers!Init PROVE TokInv
    OBVIOUS
<1>1. Tokenizers!Idle \in CallerStates /\ Tokenizers!Unused \in TaskStates
    BY DEF Tokenizers!Idle, Tokenizers!Unused, CallerStates, TaskStates
<1>2. TokTyped
    BY <1>1 DEF Tokenizers!Init, TokTyped
<1>3. Flights /\ Loads
    BY DEF Tokenizers!Init, Flights, Loads, Tokenizers!Unused, Flying, ServicesAssumption
<1>4. TokAllSound
    BY DEF Tokenizers!Init, TokAllSound, TokSound, Tokenizers!Idle
<1> QED
    BY <1>2, <1>3, <1>4 DEF TokInv

LEMMA ReplaceKeeps == TokInv /\ Tokenizers!Replace => TokInv'
  BY DEF TokInv, Tokenizers!Replace, TokTyped, Flights, Loads, TokAllSound, TokSound

(* A step of a caller that leaves the tasks: only that caller has to be     *)
(* looked at.                                                               *)
LEMMA TokOneCaller ==
  ASSUME TokInv, UNCHANGED <<tokLink, tokTask, tokLoads, tokLock, tokCache>>,
         NEW c \in Callers, NEW x \in CallerStates, Tokenizers!Call(c, x), TokSound(x)
  PROVE  TokInv'
<1>1. TokTyped' /\ Flights' /\ Loads'
    BY DEF TokInv, TokTyped, Flights, Loads, Tokenizers!Call
<1>2. ASSUME NEW d \in Callers PROVE TokSound(tokCaller[d])'
    BY DEF TokInv, TokTyped, TokAllSound, Tokenizers!Call, TokSound
<1> QED
    BY <1>1, <1>2 DEF TokInv, TokAllSound

LEMMA LocateKeeps == ASSUME TokInv, NEW c \in Callers, Tokenizers!Locate(c) PROVE TokInv'
<1> DEFINE x == [tokCaller[c] EXCEPT !.at = "located", !.version = tokLink]
<1>1. tokCaller[c] \in CallerStates /\ TokSound(tokCaller[c]) /\ tokLink \in Versions
    BY DEF TokInv, TokTyped, TokAllSound
<1>2. x \in CallerStates
    BY <1>1 DEF CallerStates
<1>3. x.at = "located" /\ x.version = tokLink /\ x.failed = tokCaller[c].failed
    BY <1>1 DEF CallerStates
<1>4. Tokenizers!Call(c, x) /\ UNCHANGED <<tokLink, tokTask, tokLoads, tokLock, tokCache>>
    BY <1>1 DEF Tokenizers!Locate
<1> HIDE DEF x
<1>5. TokSound(x)
    BY <1>1, <1>3 DEF TokSound
<1> QED
    BY <1>2, <1>4, <1>5, TokOneCaller

LEMMA CancelKeeps == ASSUME TokInv, NEW c \in Callers, Tokenizers!Cancel(c) PROVE TokInv'
<1> DEFINE x == [Tokenizers!Idle EXCEPT !.at = "over"]
<1>1. Tokenizers!Idle \in CallerStates
    BY DEF Tokenizers!Idle, CallerStates
<1>2. x \in CallerStates
    BY <1>1 DEF CallerStates
<1>3. x.at = "over" /\ x.answer = NoVersion /\ x.failed = {}
    BY DEF Tokenizers!Idle
<1>4. Tokenizers!Call(c, x) /\ UNCHANGED <<tokLink, tokTask, tokLoads, tokLock, tokCache>>
    BY DEF Tokenizers!Cancel
<1> HIDE DEF x
<1>5. TokSound(x)
    BY <1>3 DEF TokSound
<1> QED
    BY <1>2, <1>4, <1>5, TokOneCaller

(* The task a caller waited for is of the version it resolved; if it failed *)
(* and its callback ran, it is over for good.                               *)
LEMMA ReturnKeeps == ASSUME TokInv, NEW c \in Callers, Tokenizers!Return(c) PROVE TokInv'
<1> DEFINE t == tokCaller[c].task
<1>1. /\ tokCaller[c] \in CallerStates /\ TokSound(tokCaller[c])
      /\ tokCaller[c].at = "waiting" /\ t \in LoadTasks /\ tokTask[t] \in TaskStates
      /\ tokTask[t].version = tokCaller[c].version
      /\ UNCHANGED <<tokLink, tokTask, tokLoads, tokLock, tokCache>>
    BY DEF TokInv, TokTyped, TokAllSound, Tokenizers!Return, TokSound
<1>2. CASE tokTask[t].at \in {"loaded", "finished"}
  <2> DEFINE x == [tokCaller[c] EXCEPT !.at = "over", !.answer = tokTask[t].version]
  <2>1. x \in CallerStates
      BY <1>1 DEF CallerStates, TaskStates
  <2>2. x.at = "over" /\ x.answer = x.version /\ x.failed = tokCaller[c].failed
      BY <1>1 DEF CallerStates
  <2>3. Tokenizers!Call(c, x)
      BY <1>2 DEF Tokenizers!Return
  <2> HIDE DEF x
  <2>4. TokSound(x)
      BY <1>1, <2>2 DEF TokSound
  <2> QED
      BY <1>1, <2>1, <2>3, <2>4, TokOneCaller
<1>3. CASE tokTask[t].at \notin {"loaded", "finished"}
  <2> DEFINE f == IF tokCaller[c].late THEN {} ELSE tokCaller[c].failed \cup {t}
             x == [Tokenizers!Idle EXCEPT !.failed = f]
  <2>1. f \in SUBSET LoadTasks
      BY <1>1 DEF CallerStates
  <2>2. \A u \in f : tokTask[u].at = "finished_failed"
      BY <1>1, <1>3 DEF Tokenizers!Return, TokSound
  <2>3. Tokenizers!Call(c, x)
      BY <1>3 DEF Tokenizers!Return
  <2> HIDE DEF f
  <2>4. Tokenizers!Idle \in CallerStates
      BY DEF Tokenizers!Idle, CallerStates
  <2>5. x \in CallerStates
      BY <2>1, <2>4 DEF CallerStates
  <2>6. x.at = "idle" /\ x.failed = f
      BY <2>4 DEF Tokenizers!Idle
  <2> HIDE DEF x
  <2>7. TokSound(x)
      BY <2>2, <2>6 DEF TokSound
  <2> QED
      BY <1>1, <2>3, <2>5, <2>7, TokOneCaller
<1> QED
    BY <1>2, <1>3

(* A caller joins the load in flight, or starts the one there will be.      *)
LEMMA ShareKeeps ==
  ASSUME ServicesAssumption, TokInv, NEW c \in Callers, Tokenizers!Share(c) PROVE TokInv'
<1> DEFINE v == tokCaller[c].version
<1>1. /\ tokCaller[c] \in CallerStates /\ TokSound(tokCaller[c]) /\ v \in Versions
      /\ UNCHANGED <<tokLink, tokLock, tokCache>>
    BY DEF TokInv, TokTyped, TokAllSound, TokSound, Tokenizers!Share
<1>2. ASSUME NEW t \in LoadTasks, NEW late \in BOOLEAN
      PROVE  LET x == [tokCaller[c] EXCEPT !.at = "waiting", !.task = t, !.late = late] IN
             /\ x \in CallerStates
             /\ x.at = "waiting" /\ x.task = t /\ x.version = v /\ x.failed = tokCaller[c].failed
    BY <1>1 DEF CallerStates
<1>3. CASE Tokenizers!Flight(v) # NoTask
  <2> DEFINE t == tokLoads[v]
             late == Tokenizers!Ended(t)
             x == [tokCaller[c] EXCEPT !.at = "waiting", !.task = t, !.late = late]
  <2>1. t \in LoadTasks /\ late \in BOOLEAN
      BY <1>1, <1>3 DEF TokInv, TokTyped, Tokenizers!Flight, Tokenizers!Ended
  <2>2. Tokenizers!Call(c, x) /\ UNCHANGED <<tokTask, tokLoads>>
      BY <1>3 DEF Tokenizers!Share, Tokenizers!Flight
  <2>3. tokTask[t].at \in Flying /\ tokTask[t].version = v
      BY <1>1, <1>3 DEF TokInv, Loads, Tokenizers!Flight
  <2> HIDE DEF late
  <2>4. /\ x \in CallerStates
        /\ x.at = "waiting" /\ x.task = t /\ x.version = v /\ x.failed = tokCaller[c].failed
      BY <1>2, <2>1
  <2> HIDE DEF x
  <2>5. TokSound(x)
      BY <1>1, <2>1, <2>3, <2>4 DEF TokSound, Flying
  <2> QED
      BY <1>1, <2>2, <2>4, <2>5, TokOneCaller
<1>4. CASE Tokenizers!Flight(v) = NoTask
  <2>1. PICK n \in Tokenizers!New :
          /\ tokTask' = [tokTask EXCEPT ![n] = [at |-> "created", version |-> v]]
          /\ tokLoads' = [tokLoads EXCEPT ![v] = n]
          /\ Tokenizers!Call(c, [tokCaller[c] EXCEPT !.at = "waiting", !.task = n, !.late = FALSE])
    <3>1. Tokenizers!New # {}
        BY <1>4 DEF Tokenizers!Share
    <3>2. (CHOOSE n \in Tokenizers!New : TRUE) \in Tokenizers!New
        BY <3>1
    <3> QED
        BY <1>4, <3>2 DEF Tokenizers!Share
  <2>2. n \in LoadTasks /\ tokTask[n].at = "unused"
      BY DEF Tokenizers!New
  <2> DEFINE x == [tokCaller[c] EXCEPT !.at = "waiting", !.task = n, !.late = FALSE]
  <2>3. /\ x \in CallerStates
        /\ x.at = "waiting" /\ x.task = n /\ x.version = v /\ x.failed = tokCaller[c].failed
      BY <1>2, <2>2
  <2>4. tokCaller' = [tokCaller EXCEPT ![c] = x]
      BY <2>1 DEF Tokenizers!Call
  <2> HIDE DEF x
  <2>5. TokTyped'
    <3>1. [at |-> "created", version |-> v] \in TaskStates
        BY <1>1 DEF TaskStates, Flying
    <3> QED
        BY <1>1, <2>1, <2>2, <2>3, <2>4, <3>1 DEF TokInv, TokTyped
  <2>6. tokTask'[n].at = "created" /\ tokTask'[n].version = v /\ tokLoads'[v] = n
      BY <1>1, <2>1, <2>2 DEF TokInv, TokTyped
  <2>7. \A t \in LoadTasks : t # n => tokTask'[t] = tokTask[t]
      BY <2>1 DEF TokInv, TokTyped
  <2>8. \A w \in Versions : w # v => tokLoads'[w] = tokLoads[w]
      BY <2>1 DEF TokInv, TokTyped
  <2>9. Flights'
    <3>1. ASSUME NEW t \in LoadTasks, t # n, tokTask[t].at \in Flying PROVE tokTask[t].version # v
        BY <1>1, <1>4, <3>1 DEF TokInv, Flights, Tokenizers!Flight, ServicesAssumption
    <3> QED
        BY <1>1, <2>6, <2>7, <2>8, <3>1 DEF TokInv, Flights, Flying
  <2>10. Loads'
    <3>1. ASSUME NEW w \in Versions, w # v, tokLoads[w] # NoTask
          PROVE  tokLoads[w] \in LoadTasks /\ tokLoads[w] # n
        BY <2>2, <3>1 DEF TokInv, TokTyped, Loads, Flying
    <3> QED
        BY <2>6, <2>7, <2>8, <3>1 DEF TokInv, Loads, Flying
  <2>11. ASSUME NEW d \in Callers PROVE TokSound(tokCaller[d])'
    <3>1. TokSound(tokCaller[d]) /\ tokCaller[d] \in CallerStates
        BY DEF TokInv, TokTyped, TokAllSound
    <3>2. \A t \in tokCaller[d].failed : tokTask'[t].at = "finished_failed"
        BY <2>2, <2>7, <3>1 DEF TokSound, CallerStates
    <3>3. CASE d = c
      <4>1. tokCaller'[c] = x
          BY <2>4 DEF TokInv, TokTyped
      <4>2. n \notin x.failed
          BY <1>1, <2>2, <2>3 DEF TokSound
      <4> QED
          BY <2>2, <2>3, <2>6, <3>2, <3>3, <4>1, <4>2 DEF TokSound
    <3>4. CASE d # c
      <4>1. tokCaller'[d] = tokCaller[d]
          BY <2>4, <3>4 DEF TokInv, TokTyped
      <4>2. tokCaller[d].at = "waiting" => tokCaller[d].task # n
          BY <2>2, <3>1 DEF TokSound
      <4> QED
          BY <2>7, <3>1, <3>2, <4>1, <4>2 DEF TokSound
    <3> QED
        BY <3>3, <3>4
  <2> QED
      BY <2>5, <2>9, <2>10, <2>11 DEF TokInv, TokAllSound
<1> QED
    BY <1>3, <1>4

(* A load that goes on stays in flight, and of its version.                 *)
LEMMA OneTask ==
  ASSUME TokInv, UNCHANGED <<tokLink, tokCaller, tokLoads>>, tokLock' \in LoadTasks \cup {NoTask},
         tokCache' \in Versions \cup {NoVersion},
         NEW t \in LoadTasks, NEW at \in Flying, tokTask[t].at \in Flying, Tokenizers!Move(t, at),
         \A u \in LoadTasks : tokTask'[u].at = "loading" => tokLock' = u
  PROVE  TokInv'
<1>1. /\ tokTask'[t].at = at /\ tokTask'[t].version = tokTask[t].version
      /\ \A u \in LoadTasks : u # t => tokTask'[u] = tokTask[u]
      /\ tokTask' \in [LoadTasks -> TaskStates]
    BY DEF TokInv, TokTyped, Tokenizers!Move, TaskStates
<1>2. TokTyped'
    BY <1>1 DEF TokInv, TokTyped
<1>3. Flights'
    BY <1>1 DEF TokInv, Flights, Flying
<1>4. Loads'
  <2>1. ASSUME NEW v \in Versions, tokLoads[v] # NoTask PROVE tokLoads[v] \in LoadTasks
      BY <2>1 DEF TokInv, TokTyped
  <2> QED
      BY <1>1, <2>1 DEF TokInv, Loads
<1>5. ASSUME NEW c \in Callers PROVE TokSound(tokCaller[c])'
  <2>1. TokSound(tokCaller[c]) /\ tokCaller[c] \in CallerStates /\ tokCaller'[c] = tokCaller[c]
      BY DEF TokInv, TokTyped, TokAllSound
  <2>2. \A u \in tokCaller[c].failed : u \in LoadTasks /\ u # t
      BY <2>1 DEF TokSound, CallerStates, Flying
  <2> QED
      BY <1>1, <2>1, <2>2 DEF TokSound, Flying
<1> QED
    BY <1>2, <1>3, <1>4, <1>5 DEF TokInv, TokAllSound

LEMMA LoadingKeeps ==
  ASSUME ServicesAssumption, TokInv, NEW t \in LoadTasks,
         \/ Tokenizers!LookUp(t) \/ Tokenizers!Lock(t)
         \/ Tokenizers!Loaded(t) \/ Tokenizers!LoadFailed(t)
  PROVE  TokInv'
<1>1. /\ tokTask \in [LoadTasks -> TaskStates]
      /\ tokLock \in LoadTasks \cup {NoTask} /\ tokCache \in Versions \cup {NoVersion}
    BY DEF TokInv, TokTyped
<1>2. \A u \in LoadTasks : tokTask[u].at = "loading" => tokLock = u
    BY DEF TokInv, Flights
<1>3. ASSUME NEW at \in Flying, Tokenizers!Move(t, at)
      PROVE  tokTask'[t].at = at /\ \A u \in LoadTasks : u # t => tokTask'[u] = tokTask[u]
    BY <1>1, <1>3 DEF Tokenizers!Move, TaskStates
<1>4. CASE Tokenizers!LookUp(t)
  <2>1. PICK at \in {"loaded", "locking"} : Tokenizers!Move(t, at)
      BY <1>4 DEF Tokenizers!LookUp
  <2> QED
      BY <1>1, <1>2, <1>3, <1>4, <2>1, OneTask DEF Tokenizers!LookUp, Flying
<1>5. CASE Tokenizers!Lock(t)
  <2>1. CASE Tokenizers!Hit(t)
      BY <1>1, <1>2, <1>3, <1>5, <2>1, OneTask DEF Tokenizers!Lock, Flying
  <2>2. CASE ~Tokenizers!Hit(t)
    <3>1. /\ Tokenizers!Move(t, "loading") /\ tokLock' = t /\ tokLock = NoTask
          /\ UNCHANGED <<tokLink, tokCaller, tokLoads, tokCache>>
        BY <1>5, <2>2 DEF Tokenizers!Lock
    <3>2. \A u \in LoadTasks : tokTask'[u].at = "loading" => tokLock' = u
        BY <1>2, <1>3, <3>1 DEF Flying, ServicesAssumption
    <3> QED
        BY <1>1, <1>5, <3>1, <3>2, OneTask DEF Tokenizers!Lock, Flying
  <2> QED
      BY <2>1, <2>2
<1>6. CASE Tokenizers!Loaded(t)
  <2>1. /\ Tokenizers!Move(t, "loaded") /\ tokLock' = NoTask /\ tokCache' = tokTask[t].version
        /\ UNCHANGED <<tokLink, tokCaller, tokLoads>>
      BY <1>6 DEF Tokenizers!Loaded
  <2>2. \A u \in LoadTasks : tokTask'[u].at # "loading"
      BY <1>2, <1>3, <1>6, <2>1 DEF Flying, Tokenizers!Loaded
  <2>3. tokCache' \in Versions \cup {NoVersion}
      BY <1>1, <2>1 DEF TaskStates
  <2> QED
      BY <1>6, <2>1, <2>2, <2>3, OneTask DEF Tokenizers!Loaded, Flying
<1>7. CASE Tokenizers!LoadFailed(t)
  <2>1. /\ Tokenizers!Move(t, "failed") /\ tokLock' = NoTask
        /\ UNCHANGED <<tokLink, tokCaller, tokLoads, tokCache>>
      BY <1>7 DEF Tokenizers!LoadFailed
  <2>2. \A u \in LoadTasks : tokTask'[u].at # "loading"
      BY <1>2, <1>3, <1>7, <2>1 DEF Flying, Tokenizers!LoadFailed
  <2> QED
      BY <1>1, <1>7, <2>1, <2>2, OneTask DEF Tokenizers!LoadFailed, Flying
<1> QED
    BY <1>4, <1>5, <1>6, <1>7

(* The callback takes the task out of _loads, and nothing else.             *)
LEMMA FinishKeeps ==
  ASSUME ServicesAssumption, TokInv, NEW t \in LoadTasks, Tokenizers!FinishLoad(t) PROVE TokInv'
<1> DEFINE at == IF tokTask[t].at = "loaded" THEN "finished" ELSE "finished_failed"
<1>1. /\ tokTask[t].at \in {"loaded", "failed"} /\ UNCHANGED <<tokLink, tokCaller, tokLock, tokCache>>
      /\ Tokenizers!Move(t, at) /\ tokLoads' = Tokenizers!LoadsWithout(t)
    BY DEF Tokenizers!FinishLoad
<1>2. at \in {"finished", "finished_failed"}
    OBVIOUS
<1> HIDE DEF at
<1>3. /\ tokTask'[t].at = at /\ tokTask'[t].version = tokTask[t].version
      /\ \A u \in LoadTasks : u # t => tokTask'[u] = tokTask[u]
      /\ tokTask' \in [LoadTasks -> TaskStates]
    BY <1>1, <1>2 DEF TokInv, TokTyped, Tokenizers!Move, TaskStates
<1>4. \A v \in Versions : tokLoads'[v] = IF tokLoads[v] = t THEN NoTask ELSE tokLoads[v]
    BY <1>1 DEF Tokenizers!LoadsWithout
<1>5. TokTyped'
    BY <1>1, <1>3 DEF TokInv, TokTyped, Tokenizers!LoadsWithout
<1>6. Flights'
    BY <1>1, <1>2, <1>3, <1>4 DEF TokInv, Flights, Flying
<1>7. Loads'
  <2>1. ASSUME NEW v \in Versions, tokLoads'[v] # NoTask
        PROVE  tokLoads'[v] = tokLoads[v] /\ tokLoads[v] \in LoadTasks \ {t}
      BY <1>4, <2>1 DEF TokInv, TokTyped
  <2> QED
      BY <1>3, <2>1 DEF TokInv, Loads
<1>8. ASSUME NEW c \in Callers PROVE TokSound(tokCaller[c])'
  <2>1. TokSound(tokCaller[c]) /\ tokCaller[c] \in CallerStates /\ tokCaller'[c] = tokCaller[c]
      BY <1>1 DEF TokInv, TokTyped, TokAllSound
  <2>2. \A u \in tokCaller[c].failed : u \in LoadTasks /\ u # t
      BY <1>1, <2>1 DEF TokSound, CallerStates
  <2> QED
      BY <1>2, <1>3, <2>1, <2>2 DEF TokSound
<1> QED
    BY <1>5, <1>6, <1>7, <1>8 DEF TokInv, TokAllSound

(* For any number of callers, versions and loads: a caller gets the         *)
(* tokenizer of the version it resolved, no version is loaded by two tasks  *)
(* and no two threads load at once, and who retries after an error waits    *)
(* for another load, whatever replaces the model meanwhile.                 *)
THEOREM LoadsAreSound ==
  ASSUME ServicesAssumption PROVE Tokenizers!Spec => []Tokenizers!TokenizersSound
<1>1. TokInv /\ [Tokenizers!Next]_(Tokenizers!vars) => TokInv'
  <2> SUFFICES ASSUME TokInv, [Tokenizers!Next]_(Tokenizers!vars) PROVE TokInv'
      OBVIOUS
  <2>1. CASE Tokenizers!Next
      BY <2>1, ReplaceKeeps, LocateKeeps, ShareKeeps, ReturnKeeps, CancelKeeps, LoadingKeeps, FinishKeeps
         DEF Tokenizers!Next
  <2>2. CASE UNCHANGED Tokenizers!vars
      BY <2>2 DEF Tokenizers!vars, TokInv, TokTyped, Flights, Loads, TokAllSound, TokSound
  <2> QED
      BY <2>1, <2>2
<1>2. TokInv => Tokenizers!TokenizersSound
  <2> SUFFICES ASSUME TokInv
               PROVE  Tokenizers!AnswerFits /\ Tokenizers!SingleFlight /\ Tokenizers!RetryLoads
      BY DEF Tokenizers!TokenizersSound
  <2>1. Tokenizers!AnswerFits /\ Tokenizers!RetryLoads
      BY DEF TokInv, TokAllSound, TokSound, Tokenizers!AnswerFits, Tokenizers!RetryLoads
  <2>2. ASSUME NEW t \in LoadTasks, NEW u \in LoadTasks, t # u
        PROVE  /\ ~(tokTask[t].at = "loading" /\ tokTask[u].at = "loading")
               /\ tokTask[t].version = tokTask[u].version /\ tokTask[t].at # "unused" =>
                    Tokenizers!Ended(t) \/ Tokenizers!Ended(u)
    <3>1. /\ ~(tokTask[t].at = "loading" /\ tokTask[u].at = "loading")
          /\ ~(/\ tokTask[t].version = tokTask[u].version
               /\ tokTask[t].at \in Flying /\ tokTask[u].at \in Flying)
        BY <2>2 DEF TokInv, Flights
    <3>2. tokTask[t].version = tokTask[u].version /\ tokTask[t].at # "unused" => tokTask[u].at # "unused"
        BY DEF TokInv, Flights
    <3>3. \A w \in LoadTasks : tokTask[w].at \in Flying \cup {"unused", "finished", "finished_failed"}
        BY DEF TokInv, TokTyped, TaskStates
    <3> QED
        BY <3>1, <3>2, <3>3 DEF Tokenizers!Ended, Flying
  <2> QED
      BY <2>1, <2>2 DEF Tokenizers!SingleFlight
<1> QED
    BY TokInit, <1>1, <1>2, PTL DEF Tokenizers!Spec
-----------------------------------------------------------------------------
(* BackendConfig.                                                           *)
Asking(x) == x.at \in {"stated", "reading", "checking", "told"}

AskStates ==
  [at : {"idle", "stated", "reading", "checking", "told", "error"}, id : Nat, fd : Nat,
   half : BackendNames \cup {NoAnswer}, answer : BackendNames \cup {NoAnswer, "torn"}, seen : SUBSET BackendNames]

(* The file is numbered, and nothing is remembered of a number to come.     *)
BckTyped ==
  /\ bckConfig \in [id : Nat \ {0}, says : BackendNames]
  /\ bckCaller \in [Callers -> AskStates]
  /\ DOMAIN bckMemo \subseteq 1..bckConfig.id

(* A caller: what it asked for is this file or one before it; if it read    *)
(* this one, it read what that says.                                        *)
BckSound(x) ==
  /\ Asking(x) => x.id \in 1..bckConfig.id /\ bckConfig.says \in x.seen
  /\ Asking(x) /\ x.id \in DOMAIN bckMemo => bckMemo[x.id] \in x.seen
  /\ x.at \in {"reading", "checking"} => x.fd <= bckConfig.id
  /\ x.at = "reading" /\ x.fd = bckConfig.id => x.half = bckConfig.says
  /\ x.at = "checking" /\ x.fd = bckConfig.id => x.answer = bckConfig.says
  /\ x.at = "told" => x.answer \in x.seen

BckAllSound == \A c \in Callers : BckSound(bckCaller[c])

(* What is remembered of the present file is what it says.                  *)
MemoIsNow == bckConfig.id \in DOMAIN bckMemo => bckMemo[bckConfig.id] = bckConfig.says

BckInv == BckTyped /\ MemoIsNow /\ BckAllSound
-----------------------------------------------------------------------------
LEMMA BckInit == Backends!Init => BckInv
  BY DEF Backends!Init, BckInv, BckTyped, AskStates, Backends!Idle, MemoIsNow, BckAllSound, BckSound,
         Asking

(* A new text becomes known to all, and has a number nobody has asked for.  *)
LEMMA RewriteKeeps == BckInv /\ Backends!Rewrite => BckInv'
<1> SUFFICES ASSUME BckInv, Backends!Rewrite PROVE BckInv'
    OBVIOUS
<1>1. PICK b \in BackendNames \ {bckConfig.says} :
        /\ bckConfig' = [id |-> bckConfig.id + 1, says |-> b]
        /\ bckCaller' = [c \in Callers |-> [bckCaller[c] EXCEPT !.seen = @ \cup {b}]]
    BY DEF Backends!Rewrite
<1>2. bckMemo' = bckMemo
    BY DEF Backends!Rewrite
<1>3. BckTyped'
    BY <1>1, <1>2 DEF BckInv, BckTyped, AskStates
<1>4. MemoIsNow'
    BY <1>1, <1>2 DEF BckInv, BckTyped, MemoIsNow
<1>5. ASSUME NEW c \in Callers PROVE BckSound(bckCaller[c])'
    BY <1>1, <1>2 DEF BckInv, BckTyped, AskStates, BckAllSound, BckSound, Asking
<1> QED
    BY <1>3, <1>4, <1>5 DEF BckInv, BckAllSound

(* A caller's step leaves the file and the others; only that caller has to  *)
(* be looked at.                                                            *)
LEMMA BckOneCaller ==
  ASSUME BckInv, UNCHANGED <<bckConfig, bckMemo>>,
         NEW c \in Callers, NEW x \in AskStates, Backends!Call(c, x), BckSound(x)
  PROVE  BckInv'
<1>1. BckTyped' /\ MemoIsNow'
    BY DEF BckInv, BckTyped, MemoIsNow, Backends!Call
<1>2. ASSUME NEW d \in Callers PROVE BckSound(bckCaller[d])'
  <2>1. CASE d = c
      BY <2>1 DEF BckInv, BckTyped, Backends!Call, BckSound, Asking
  <2>2. CASE d # c
      BY <2>2 DEF BckInv, BckTyped, BckAllSound, Backends!Call, BckSound, Asking
  <2> QED
      BY <2>1, <2>2
<1> QED
    BY <1>1, <1>2 DEF BckInv, BckAllSound

(* A stat begins with what the file says now.                               *)
LEMMA StatKeeps == ASSUME BckInv, NEW c \in Callers, Backends!Stat(c) PROVE BckInv'
<1> DEFINE x == [Backends!Idle EXCEPT !.at = "stated", !.id = bckConfig.id, !.seen = {bckConfig.says}]
<1>1. Backends!Idle \in AskStates
    BY DEF Backends!Idle, AskStates
<1>2. bckConfig.id \in Nat \ {0} /\ bckConfig.says \in BackendNames
    BY DEF BckInv, BckTyped
<1>3. x \in AskStates
    BY <1>1, <1>2 DEF AskStates
<1>4. x.at = "stated" /\ x.id = bckConfig.id /\ x.seen = {bckConfig.says}
    BY <1>1 DEF AskStates
<1>5. Backends!Call(c, x) /\ UNCHANGED <<bckConfig, bckMemo>>
    BY DEF Backends!Stat
<1> HIDE DEF x
<1>6. BckSound(x)
    BY <1>2, <1>4 DEF BckInv, MemoIsNow, BckSound, Asking
<1> QED
    BY <1>3, <1>5, <1>6, BckOneCaller

LEMMA RecallKeeps == ASSUME BckInv, NEW c \in Callers, Backends!Recall(c) PROVE BckInv'
<1> DEFINE x == [bckCaller[c] EXCEPT !.at = "told", !.answer = bckMemo[bckCaller[c].id]]
<1>1. bckCaller[c] \in AskStates /\ BckSound(bckCaller[c])
    BY DEF BckInv, BckTyped, BckAllSound
<1>2. bckMemo[bckCaller[c].id] \in bckCaller[c].seen
    BY <1>1 DEF Backends!Recall, BckSound, Asking
<1>3. x \in AskStates /\ BckSound(x)
    BY <1>1, <1>2 DEF Backends!Recall, AskStates, BckSound, Asking
<1>4. Backends!Call(c, x) /\ UNCHANGED <<bckConfig, bckMemo>>
    BY DEF Backends!Recall
<1> HIDE DEF x
<1> QED
    BY <1>3, <1>4, BckOneCaller

LEMMA OpenKeeps == ASSUME BckInv, NEW c \in Callers, Backends!Open(c) PROVE BckInv'
<1> DEFINE x == [bckCaller[c] EXCEPT !.at = "reading", !.fd = bckConfig.id, !.half = bckConfig.says]
<1>1. bckCaller[c] \in AskStates /\ BckSound(bckCaller[c]) /\ BckTyped
    BY DEF BckInv, BckTyped, BckAllSound
<1>2. x \in AskStates /\ x.at = "reading" /\ x.fd = bckConfig.id /\ x.half = bckConfig.says
    BY <1>1 DEF AskStates, BckTyped
<1>3. x.id = bckCaller[c].id /\ x.seen = bckCaller[c].seen
    BY <1>1 DEF AskStates
<1>4. Backends!Call(c, x) /\ UNCHANGED <<bckConfig, bckMemo>> /\ bckCaller[c].at = "stated"
    BY DEF Backends!Open
<1> HIDE DEF x
<1>5. BckSound(x)
    BY <1>1, <1>2, <1>3, <1>4 DEF BckSound, Asking, BckTyped
<1> QED
    BY <1>2, <1>4, <1>5, BckOneCaller

LEMMA ReadKeeps == ASSUME BckInv, NEW c \in Callers, Backends!Read(c) PROVE BckInv'
<1> DEFINE a == IF bckConfig.says = bckCaller[c].half THEN bckConfig.says ELSE "torn"
           x == [bckCaller[c] EXCEPT !.at = "checking", !.answer = a]
<1>1. bckCaller[c] \in AskStates /\ BckSound(bckCaller[c]) /\ BckTyped
    BY DEF BckInv, BckTyped, BckAllSound
<1>2. a \in BackendNames \cup {"torn"}
    BY <1>1 DEF BckTyped
<1>3. bckCaller[c].fd = bckConfig.id => a = bckConfig.says
    BY <1>1 DEF Backends!Read, BckSound
<1>4. Backends!Call(c, x) /\ UNCHANGED <<bckConfig, bckMemo>> /\ bckCaller[c].at = "reading"
    BY DEF Backends!Read
<1> HIDE DEF a
<1>5. x \in AskStates /\ BckSound(x)
    BY <1>1, <1>2, <1>3, <1>4 DEF AskStates, BckSound, Asking
<1> HIDE DEF x
<1> QED
    BY <1>4, <1>5, BckOneCaller

(* What is remembered was read of the present file, and everybody who asks  *)
(* knows what that says.                                                    *)
LEMMA CheckKeeps == ASSUME BckInv, NEW c \in Callers, Backends!Check(c) PROVE BckInv'
<1>1. /\ bckCaller[c] \in AskStates /\ BckSound(bckCaller[c]) /\ BckTyped
      /\ bckCaller[c].at = "checking" /\ bckConfig' = bckConfig
    BY DEF BckInv, BckTyped, BckAllSound, Backends!Check
<1>2. CASE ~Backends!Same(c)
  <2> DEFINE x == [Backends!Idle EXCEPT !.at = "error"]
  <2>1. x = [at |-> "error", id |-> 0, fd |-> 0, half |-> NoAnswer, answer |-> NoAnswer, seen |-> {}]
      BY DEF Backends!Idle
  <2>2. x \in AskStates /\ BckSound(x)
      BY <2>1 DEF AskStates, BckSound, Asking
  <2>3. Backends!Call(c, x) /\ UNCHANGED <<bckConfig, bckMemo>>
      BY <1>2 DEF Backends!Check
  <2> HIDE DEF x
  <2> QED
      BY <2>2, <2>3, BckOneCaller
<1>3. CASE Backends!Same(c)
  <2> DEFINE x == [bckCaller[c] EXCEPT !.at = "told"]
             i == bckCaller[c].id
  <2>1. /\ bckCaller[c].answer = bckConfig.says
        /\ i \in 1..bckConfig.id
        /\ bckConfig.says \in bckCaller[c].seen
      BY <1>1, <1>3 DEF Backends!Same, BckSound, Asking, BckTyped
  <2>2. /\ bckCaller' = [bckCaller EXCEPT ![c] = x]
        /\ bckMemo' = [j \in DOMAIN bckMemo \cup {i} |-> IF j = i THEN bckConfig.says ELSE bckMemo[j]]
      BY <1>3, <2>1 DEF Backends!Check, Backends!Call
  <2>3. x \in AskStates
      BY <1>1 DEF AskStates
  <2>4. BckTyped'
      BY <1>1, <2>1, <2>2, <2>3 DEF BckTyped
  <2>5. MemoIsNow'
      BY <1>1, <2>2 DEF BckInv, MemoIsNow
  <2>6. ASSUME NEW d \in Callers PROVE BckSound(bckCaller[d])'
    <3>1. BckSound(bckCaller[d]) /\ bckCaller[d] \in AskStates
        BY DEF BckInv, BckAllSound, BckTyped
    <3>2. /\ bckCaller'[d].id = bckCaller[d].id /\ bckCaller'[d].seen = bckCaller[d].seen
          /\ Asking(bckCaller'[d]) <=> Asking(bckCaller[d])
        BY <1>1, <2>2, <3>1 DEF AskStates, BckTyped, Asking
    <3>3. Asking(bckCaller'[d]) /\ bckCaller'[d].id \in DOMAIN bckMemo' =>
            bckMemo'[bckCaller'[d].id] \in bckCaller'[d].seen
        BY <2>2, <3>1, <3>2 DEF BckSound
    <3>4. CASE d = c
        BY <1>1, <2>1, <2>2, <3>2, <3>3, <3>4 DEF AskStates, BckTyped, BckSound, Asking
    <3>5. CASE d # c
        BY <1>1, <2>2, <3>1, <3>3, <3>5 DEF BckTyped, BckSound, Asking
    <3> QED
        BY <3>4, <3>5
  <2> QED
      BY <2>4, <2>5, <2>6 DEF BckInv, BckAllSound
<1> QED
    BY <1>2, <1>3

(* A backend that is named was in config.pbtxt while it was asked for, for  *)
(* any number of callers and texts: what get_backend remembers under a stat *)
(* was said after it, and whoever finds it there has asked no later.        *)
THEOREM BackendIsOfItsTime == Backends!Spec => []Backends!BackendOfItsTime
<1>1. BckInv /\ [Backends!Next]_(Backends!vars) => BckInv'
  <2> SUFFICES ASSUME BckInv, [Backends!Next]_(Backends!vars) PROVE BckInv'
      OBVIOUS
  <2>1. CASE Backends!Next
      BY <2>1, RewriteKeeps, StatKeeps, RecallKeeps, OpenKeeps, ReadKeeps, CheckKeeps DEF Backends!Next
  <2>2. CASE UNCHANGED Backends!vars
      BY <2>2 DEF Backends!vars, BckInv, BckTyped, MemoIsNow, BckAllSound, BckSound, Asking
  <2> QED
      BY <2>1, <2>2
<1>2. BckInv => Backends!BackendOfItsTime
    BY DEF BckInv, BckAllSound, BckSound, Backends!BackendOfItsTime
<1> QED
    BY BckInit, <1>1, <1>2, PTL DEF Backends!Spec

(* What the registry tells a request was so while the request waited, for   *)
(* any number of callers, of versions and of changes.                       *)
THEOREM RegistryIsSound ==
  ASSUME ServicesAssumption PROVE Tokenizers!Spec /\ Backends!Spec => []RegistrySound
<1>1. Tokenizers!Spec => []Tokenizers!TokenizersSound
    BY LoadsAreSound
<1>2. Backends!Spec => []Backends!BackendOfItsTime
    BY BackendIsOfItsTime
<1>3. Tokenizers!TokenizersSound /\ Backends!BackendOfItsTime => RegistrySound
    BY DEF RegistrySound
<1> QED
    BY <1>1, <1>2, <1>3, PTL
-----------------------------------------------------------------------------
(* Accounting: what a request has recorded follows from how far it is.      *)
RequestStates ==
  [kind : {"none", "inference", "metrics"},
   at : {"new", "refusing", "running", "leaving", "over", "dropped"},
   status : {200, 413, 500, 502}, started : BOOLEAN, sent : BOOLEAN, counted : BOOLEAN,
   model : BOOLEAN, error : BOOLEAN]

(* TRUE as the value of a field, under a name that the provers keep.        *)
Yes == TRUE

(* The updates of a request, each of one field.                             *)
PutKind(x, k) == [x EXCEPT !.kind = k]
PutAt(x, a) == [x EXCEPT !.at = a]
PutStatus(x, n) == [x EXCEPT !.status = n]
Started(x) == [x EXCEPT !.started = Yes]
Sent(x) == [x EXCEPT !.sent = Yes]
Erred(x) == [x EXCEPT !.error = Yes]
Modelled(x) == [x EXCEPT !.model = Yes]
Ticked(x) == [x EXCEPT !.counted = Yes]

Uncounted(n) == [inflight |-> n, requests |-> 0, generation |-> <<>>, visual |-> <<>>]
Tally(g, v) == [inflight |-> 0, requests |-> 1, generation |-> g, visual |-> v]

(* What a request that left as x was recorded as.                           *)
Outcome(x, o) == o = "success" => x.status = 200 /\ x.sent

Course(x) ==
  /\ x.at = "new" <=> x.kind = "none"
  /\ x.model => x.kind = "inference"
  /\ x.counted => x.at \in {"leaving", "over"}
  /\ x.at = "over" => x.counted
  /\ x.at = "leaving" /\ ~x.counted => x.error

Books(x, s) ==
  /\ x.kind # "inference" => s = Uncounted(0)
  /\ x.kind = "inference" /\ ~x.counted => s = Uncounted(1)
  /\ x.kind = "inference" /\ x.counted /\ ~x.model => s = Tally(<<>>, <<>>)
  /\ x.kind = "inference" /\ x.counted /\ x.model =>
       \E o \in {"success", "error"} : \E v : s = Tally(<<o>>, <<v>>) /\ Outcome(x, o)

Kept(x, s) == x \in RequestStates /\ Course(x) /\ Books(x, s)

AccInv == Kept(accReq, accStats)

(* What a step records of visual usage is its status at that moment.        *)
VisualTold == accStats'.visual \in {<<>>, accStats.visual, <<Accounts!VisualStatus>>}
-----------------------------------------------------------------------------
LEMMA YesIsBoolean == Yes \in BOOLEAN
  BY DEF Yes

(* Each update changes its field and no other.                              *)
LEMMA PutKindSets ==
  ASSUME NEW x \in RequestStates, NEW k \in {"inference", "metrics"}
  PROVE  LET y == PutKind(x, k) IN
         /\ y \in RequestStates /\ y.kind = k
         /\ y.at = x.at /\ y.status = x.status /\ y.started = x.started /\ y.sent = x.sent
         /\ y.counted = x.counted /\ y.model = x.model /\ y.error = x.error
  BY DEF PutKind, RequestStates

LEMMA PutAtSets ==
  ASSUME NEW x \in RequestStates, NEW a \in {"refusing", "running", "leaving", "over", "dropped"}
  PROVE  LET y == PutAt(x, a) IN
         /\ y \in RequestStates /\ y.at = a
         /\ y.kind = x.kind /\ y.status = x.status /\ y.started = x.started /\ y.sent = x.sent
         /\ y.counted = x.counted /\ y.model = x.model /\ y.error = x.error
  BY DEF PutAt, RequestStates

LEMMA PutStatusSets ==
  ASSUME NEW x \in RequestStates, NEW n \in {200, 413, 500, 502}
  PROVE  LET y == PutStatus(x, n) IN
         /\ y \in RequestStates /\ y.status = n
         /\ y.kind = x.kind /\ y.at = x.at /\ y.started = x.started /\ y.sent = x.sent
         /\ y.counted = x.counted /\ y.model = x.model /\ y.error = x.error
  BY DEF PutStatus, RequestStates

LEMMA StartedSets ==
  ASSUME NEW x \in RequestStates
  PROVE  LET y == Started(x) IN
         /\ y \in RequestStates /\ y.started
         /\ y.kind = x.kind /\ y.at = x.at /\ y.status = x.status /\ y.sent = x.sent
         /\ y.counted = x.counted /\ y.model = x.model /\ y.error = x.error
<1>1. Started(x) \in RequestStates
    BY YesIsBoolean DEF Started, RequestStates
<1> QED
    BY <1>1 DEF Started, RequestStates, Yes

LEMMA SentSets ==
  ASSUME NEW x \in RequestStates
  PROVE  LET y == Sent(x) IN
         /\ y \in RequestStates /\ y.sent
         /\ y.kind = x.kind /\ y.at = x.at /\ y.status = x.status /\ y.started = x.started
         /\ y.counted = x.counted /\ y.model = x.model /\ y.error = x.error
<1>1. Sent(x) \in RequestStates
    BY YesIsBoolean DEF Sent, RequestStates
<1> QED
    BY <1>1 DEF Sent, RequestStates, Yes

LEMMA ErredSets ==
  ASSUME NEW x \in RequestStates
  PROVE  LET y == Erred(x) IN
         /\ y \in RequestStates /\ y.error
         /\ y.kind = x.kind /\ y.at = x.at /\ y.status = x.status /\ y.started = x.started
         /\ y.sent = x.sent /\ y.counted = x.counted /\ y.model = x.model
<1>1. Erred(x) \in RequestStates
    BY YesIsBoolean DEF Erred, RequestStates
<1> QED
    BY <1>1 DEF Erred, RequestStates, Yes

LEMMA ModelledSets ==
  ASSUME NEW x \in RequestStates
  PROVE  LET y == Modelled(x) IN
         /\ y \in RequestStates /\ y.model
         /\ y.kind = x.kind /\ y.at = x.at /\ y.status = x.status /\ y.started = x.started
         /\ y.sent = x.sent /\ y.counted = x.counted /\ y.error = x.error
<1>1. Modelled(x) \in RequestStates
    BY YesIsBoolean DEF Modelled, RequestStates
<1> QED
    BY <1>1 DEF Modelled, RequestStates, Yes

LEMMA TickedSets ==
  ASSUME NEW x \in RequestStates
  PROVE  LET y == Ticked(x) IN
         /\ y \in RequestStates /\ y.counted
         /\ y.kind = x.kind /\ y.at = x.at /\ y.status = x.status /\ y.started = x.started
         /\ y.sent = x.sent /\ y.model = x.model /\ y.error = x.error
<1>1. Ticked(x) \in RequestStates
    BY YesIsBoolean DEF Ticked, RequestStates
<1> QED
    BY <1>1 DEF Ticked, RequestStates, Yes

LEMMA AccInit == Accounts!Init => AccInv
  BY DEF Accounts!Init, Accounts!New, AccInv, Kept, Course, Books, RequestStates, Uncounted

(* The outcome is an error unless the status is 200.                        *)
LEMMA Recording ==
  ASSUME NEW x \in RequestStates, x.kind = "inference", ~x.counted, accStats = Uncounted(1)
  PROVE  LET o == IF x.error \/ x.status # 200 THEN "error" ELSE "success" IN
         Accounts!Recorded(x) = IF x.model THEN Tally(<<o>>, <<Accounts!VisualStatus>>)
                                ELSE Tally(<<>>, <<>>)
<1> DEFINE o == IF x.error \/ x.status >= 400 THEN "error" ELSE "success"
           kept == [accStats EXCEPT !.requests = @ + 1, !.inflight = @ - 1]
<1>1. x.status >= 400 <=> x.status # 200
    BY DEF RequestStates
<1>2. kept = Tally(<<>>, <<>>)
  <2>1. kept = [accStats EXCEPT !.requests = 1, !.inflight = 0]
      BY DEF Uncounted
  <2>2. kept = [[accStats EXCEPT !.requests = 1] EXCEPT !.inflight = 0]
      BY <2>1
  <2> HIDE DEF kept
  <2> QED
      BY <2>2 DEF Uncounted, Tally
<1>3. Append(<<>>, o) = <<o>> /\ Append(<<>>, Accounts!VisualStatus) = <<Accounts!VisualStatus>>
    OBVIOUS
<1>4. [kept EXCEPT !.generation = Append(@, o), !.visual = Append(@, Accounts!VisualStatus)]
        = Tally(<<o>>, <<Accounts!VisualStatus>>)
  <2> DEFINE g == <<o>>
             v == <<Accounts!VisualStatus>>
  <2>1. [kept EXCEPT !.generation = Append(@, o), !.visual = Append(@, Accounts!VisualStatus)]
          = [kept EXCEPT !.generation = g, !.visual = v]
      BY <1>2, <1>3 DEF Tally
  <2> HIDE DEF g, v, kept
  <2>2. [kept EXCEPT !.generation = g] = Tally(g, <<>>)
      BY <1>2 DEF Tally
  <2>3. [Tally(g, <<>>) EXCEPT !.visual = v] = Tally(g, v)
      BY DEF Tally
  <2>4. [kept EXCEPT !.generation = g, !.visual = v]
          = [[kept EXCEPT !.generation = g] EXCEPT !.visual = v]
      OBVIOUS
  <2> QED
      BY <2>1, <2>2, <2>3, <2>4 DEF g, v
<1>5. Accounts!Recorded(x) =
        IF ~x.model THEN kept
        ELSE [kept EXCEPT !.generation = Append(@, o), !.visual = Append(@, Accounts!VisualStatus)]
    BY DEF Accounts!Recorded, Accounts!Counted
<1> HIDE DEF kept
<1> QED
    BY <1>1, <1>2, <1>4, <1>5

(* Whoever leaves, by whichever way, is counted as it leaves, once.         *)
LEMMA CountKeeps ==
  ASSUME NEW x \in RequestStates, Accounts!Finish(x), Books(x, accStats),
         x.at \in {"leaving", "over"}, x.kind # "none", x.model => x.kind = "inference",
         ~x.counted => x.error \/ x.sent
  PROVE  AccInv' /\ VisualTold
<1> DEFINE y == Ticked(x)
<1>1. y \in RequestStates
    BY TickedSets
<1>2. /\ y.kind = x.kind /\ y.at = x.at /\ y.status = x.status
      /\ y.model = x.model /\ y.sent = x.sent
    BY TickedSets
<1>3. y.counted
    BY TickedSets
<1>4. accReq' = y /\ accStats' = Accounts!Recorded(x)
    BY DEF Accounts!Finish, Ticked, Yes
<1> HIDE DEF y
<1>5. Course(y)
    BY <1>2, <1>3 DEF Course
<1>6. CASE x.counted
  <2>1. accStats' = accStats
      BY <1>4, <1>6 DEF Accounts!Recorded, Accounts!Counted
  <2>2. Books(y, accStats)
      BY <1>2, <1>3, <1>6 DEF Books, Outcome
  <2> QED
      BY <1>1, <1>4, <1>5, <2>1, <2>2 DEF AccInv, Kept, VisualTold
<1>7. CASE ~x.counted /\ x.kind # "inference"
  <2>1. x.kind = "metrics"
      BY <1>7 DEF RequestStates
  <2>2. accStats' = accStats /\ accStats = Uncounted(0)
      BY <1>4, <1>7, <2>1 DEF Accounts!Recorded, Books
  <2>3. Books(y, accStats)
      BY <1>2, <1>7, <2>2 DEF Books
  <2> QED
      BY <1>1, <1>4, <1>5, <2>2, <2>3 DEF AccInv, Kept, VisualTold
<1>8. CASE ~x.counted /\ x.kind = "inference"
  <2> DEFINE o == IF x.error \/ x.status # 200 THEN "error" ELSE "success"
  <2>1. accStats' = IF x.model THEN Tally(<<o>>, <<Accounts!VisualStatus>>) ELSE Tally(<<>>, <<>>)
      BY <1>4, <1>8, Recording DEF Books
  <2>2. o \in {"success", "error"} /\ Outcome(y, o)
      BY <1>2, <1>8 DEF Outcome
  <2> HIDE DEF o
  <2>3. Books(y, accStats')
      BY <1>2, <1>3, <1>8, <2>1, <2>2 DEF Books
  <2>4. accStats'.visual \in {<<>>, <<Accounts!VisualStatus>>}
      BY <2>1 DEF Tally
  <2> QED
      BY <1>1, <1>4, <1>5, <2>3, <2>4 DEF AccInv, Kept, VisualTold
<1> QED
    BY <1>6, <1>7, <1>8

(* The others leave the count as it is, or begin one.                       *)
LEMMA EnterKeeps == ASSUME AccInv, Accounts!Enter PROVE AccInv' /\ VisualTold
<1>1. PICK k \in {"inference", "metrics"}, large \in BOOLEAN :
        /\ accReq' = [Accounts!New EXCEPT !.kind = k, !.at = IF large THEN "refusing" ELSE "running",
                                          !.status = IF large THEN 413 ELSE 500]
        /\ accStats' = IF k = "metrics" THEN accStats ELSE [accStats EXCEPT !.inflight = @ + 1]
    BY DEF Accounts!Enter
<1>2. accReq.at = "new" /\ Books(accReq, accStats) /\ Course(accReq)
    BY DEF Accounts!Enter, AccInv, Kept
<1>3. accStats = Uncounted(0)
    BY <1>2 DEF Course, Books
<1>4. accStats' = IF k = "metrics" THEN Uncounted(0) ELSE Uncounted(1)
    BY <1>1, <1>3 DEF Uncounted
<1> DEFINE at == IF large THEN "refusing" ELSE "running"
           status == IF large THEN 413 ELSE 500
<1>5. at \in {"refusing", "running"} /\ status \in {413, 500}
    OBVIOUS
<1> DEFINE x == PutStatus(PutAt(PutKind(Accounts!New, k), at), status)
<1>6. accReq' = x
    BY <1>1 DEF PutStatus, PutAt, PutKind
<1>7. Accounts!New \in RequestStates
    BY DEF Accounts!New, RequestStates
<1>8. ~Accounts!New.counted /\ ~Accounts!New.model
    BY DEF Accounts!New
<1> HIDE DEF at, status
<1>9. /\ x \in RequestStates /\ x.kind = k /\ x.at = at
      /\ x.counted = Accounts!New.counted /\ x.model = Accounts!New.model
    BY <1>5, <1>7, PutKindSets, PutAtSets, PutStatusSets
<1> HIDE DEF x
<1>10. Course(x)
    BY <1>5, <1>8, <1>9 DEF Course
<1>11. Books(x, accStats')
    BY <1>4, <1>8, <1>9 DEF Books
<1>12. accStats'.visual = <<>>
    BY <1>4 DEF Uncounted
<1> QED
    BY <1>6, <1>9, <1>10, <1>11, <1>12 DEF AccInv, Kept, VisualTold

LEMMA SameBooks ==
  ASSUME NEW x, NEW y, NEW s, Books(x, s), y.kind = x.kind, y.counted = x.counted,
         y.model = x.model, x.counted => y.status = x.status /\ y.sent = x.sent
  PROVE  Books(y, s)
<1>1. ASSUME x.counted, NEW o PROVE Outcome(x, o) => Outcome(y, o)
    BY <1>1 DEF Outcome
<1> QED
    BY <1>1 DEF Books

LEMMA OnlyRequest ==
  ASSUME AccInv, NEW x \in RequestStates, accReq' = x, accStats' = accStats, Course(x),
         x.kind = accReq.kind, x.counted = accReq.counted, x.model = accReq.model,
         x.counted => x.status = accReq.status /\ x.sent = accReq.sent
  PROVE  AccInv'
<1>1. Books(x, accStats)
    BY SameBooks DEF AccInv, Kept
<1> QED
    BY <1>1 DEF AccInv, Kept

LEMMA RequestKeeps ==
  ASSUME AccInv, Accounts!RefusalCancelled \/ Accounts!ResponseStart \/ Accounts!Raise
  PROVE  AccInv'
<1>1. accReq \in RequestStates /\ Course(accReq)
    BY DEF AccInv, Kept
<1>2. CASE Accounts!RefusalCancelled
  <2> DEFINE x == PutAt(accReq, "dropped")
  <2>1. accReq' = x /\ accStats' = accStats
      BY <1>2 DEF Accounts!RefusalCancelled, PutAt
  <2>2. accReq.at = "refusing"
      BY <1>2 DEF Accounts!RefusalCancelled
  <2>3. /\ x \in RequestStates /\ x.at = "dropped"
        /\ x.kind = accReq.kind /\ x.counted = accReq.counted /\ x.model = accReq.model
        /\ x.status = accReq.status /\ x.sent = accReq.sent /\ x.error = accReq.error
      BY <1>1, PutAtSets
  <2> HIDE DEF x
  <2>4. Course(x)
      BY <1>1, <2>2, <2>3 DEF Course
  <2> QED
      BY <2>1, <2>3, <2>4, OnlyRequest
<1>3. CASE Accounts!ResponseStart
  <2>0. PICK s \in {200, 502} : accReq' = [accReq EXCEPT !.started = TRUE, !.status = s]
      BY <1>3, Zenon DEF Accounts!ResponseStart
  <2> DEFINE x == PutStatus(Started(accReq), s)
  <2>1. accReq' = x /\ accStats' = accStats
      BY <1>3, <2>0 DEF Accounts!ResponseStart, PutStatus, Started, Yes
  <2>2. accReq.at = "running"
      BY <1>3 DEF Accounts!ResponseStart
  <2>3. /\ x \in RequestStates
        /\ x.kind = accReq.kind /\ x.counted = accReq.counted /\ x.model = accReq.model
        /\ x.at = accReq.at /\ x.error = accReq.error
      BY <1>1, PutStatusSets, StartedSets
  <2> HIDE DEF x
  <2>4. Course(x) /\ ~x.counted
      BY <1>1, <2>2, <2>3 DEF Course
  <2> QED
      BY <2>1, <2>3, <2>4, OnlyRequest
<1>4. CASE Accounts!Raise
  <2> DEFINE x == Erred(PutAt(accReq, "leaving"))
  <2>1. accReq' = x /\ accStats' = accStats
      BY <1>4 DEF Accounts!Raise, PutAt, Erred, Yes
  <2>2. accReq.at \in {"running", "leaving"}
      BY <1>4 DEF Accounts!Raise
  <2>3. /\ x \in RequestStates /\ x.at = "leaving" /\ x.error
        /\ x.kind = accReq.kind /\ x.counted = accReq.counted /\ x.model = accReq.model
        /\ x.status = accReq.status /\ x.sent = accReq.sent
      BY <1>1, PutAtSets, ErredSets
  <2> HIDE DEF x
  <2>4. Course(x)
      BY <1>1, <2>2, <2>3 DEF Course
  <2> QED
      BY <2>1, <2>3, <2>4, OnlyRequest
<1> QED
    BY <1>2, <1>3, <1>4

(* The model becomes known while nothing is counted yet.                    *)
LEMMA ConfigureKeeps == ASSUME AccInv, Accounts!Configure PROVE AccInv'
<1> DEFINE x == Modelled(accReq)
<1>1. /\ accReq \in RequestStates /\ Course(accReq) /\ Books(accReq, accStats)
      /\ accReq.at = "running" /\ accReq.kind = "inference"
    BY DEF AccInv, Kept, Accounts!Configure
<1>2. /\ x \in RequestStates
      /\ x.kind = accReq.kind /\ x.at = accReq.at /\ x.counted = accReq.counted
    BY <1>1, ModelledSets
<1>3. accReq' = x /\ accStats' = accStats
    BY DEF Accounts!Configure, Modelled, Yes
<1> HIDE DEF x
<1>4. ~x.counted
    BY <1>1, <1>2 DEF Course
<1>5. Course(x) /\ Books(x, accStats)
    BY <1>1, <1>2, <1>4 DEF Course, Books
<1> QED
    BY <1>2, <1>3, <1>5 DEF AccInv, Kept

LEMMA RecordedKeeps ==
  ASSUME AccInv, Accounts!Refuse \/ Accounts!TooLarge \/ Accounts!LastBody \/ Accounts!Leave
  PROVE  AccInv' /\ VisualTold
<1>1. accReq \in RequestStates /\ Course(accReq) /\ Books(accReq, accStats)
    BY DEF AccInv, Kept
<1>2. ASSUME NEW x \in RequestStates, Accounts!Finish(x), x.at \in {"leaving", "over"},
             x.kind = accReq.kind, x.counted = accReq.counted, x.model = accReq.model,
             x.counted => x.status = accReq.status /\ x.sent = accReq.sent,
             accReq.at # "new", ~x.counted => x.error \/ x.sent
      PROVE  AccInv' /\ VisualTold
  <2>1. Books(x, accStats)
      BY <1>1, <1>2, SameBooks
  <2>2. x.kind # "none" /\ (x.model => x.kind = "inference")
      BY <1>1, <1>2 DEF Course
  <2> QED
      BY <1>2, <2>1, <2>2, CountKeeps
<1>3. CASE Accounts!Refuse
  <2> DEFINE x == Sent(Started(PutAt(accReq, "over")))
  <2>1. Accounts!Finish(x)
      BY <1>3 DEF Accounts!Refuse, PutAt, Started, Sent, Yes
  <2>2. accReq.at = "refusing"
      BY <1>3 DEF Accounts!Refuse
  <2>3. /\ x \in RequestStates /\ x.at = "over" /\ x.sent
        /\ x.kind = accReq.kind /\ x.counted = accReq.counted /\ x.model = accReq.model
      BY <1>1, PutAtSets, StartedSets, SentSets
  <2> HIDE DEF x
  <2>4. ~x.counted
      BY <1>1, <2>2, <2>3 DEF Course
  <2> QED
      BY <1>2, <2>1, <2>2, <2>3, <2>4
<1>4. CASE Accounts!TooLarge
  <2> DEFINE x == Sent(Started(PutStatus(PutAt(accReq, "leaving"), 413)))
  <2>1. Accounts!Finish(x)
      BY <1>4 DEF Accounts!TooLarge, PutAt, PutStatus, Started, Sent, Yes
  <2>2. accReq.at = "running"
      BY <1>4 DEF Accounts!TooLarge
  <2>3. /\ x \in RequestStates /\ x.at = "leaving" /\ x.sent
        /\ x.kind = accReq.kind /\ x.counted = accReq.counted /\ x.model = accReq.model
      BY <1>1, PutAtSets, PutStatusSets, StartedSets, SentSets
  <2> HIDE DEF x
  <2>4. ~x.counted
      BY <1>1, <2>2, <2>3 DEF Course
  <2> QED
      BY <1>2, <2>1, <2>2, <2>3, <2>4
<1>5. CASE Accounts!LastBody
  <2> DEFINE x == PutAt(Sent(accReq), "leaving")
  <2>1. Accounts!Finish(x)
      BY <1>5 DEF Accounts!LastBody, PutAt, Sent, Yes
  <2>2. accReq.at = "running"
      BY <1>5 DEF Accounts!LastBody
  <2>3. /\ x \in RequestStates /\ x.at = "leaving" /\ x.sent
        /\ x.kind = accReq.kind /\ x.counted = accReq.counted /\ x.model = accReq.model
      BY <1>1, PutAtSets, SentSets
  <2> HIDE DEF x
  <2>4. ~x.counted
      BY <1>1, <2>2, <2>3 DEF Course
  <2> QED
      BY <1>2, <2>1, <2>2, <2>3, <2>4
<1>6. CASE Accounts!Leave
  <2> DEFINE x == PutAt(accReq, "over")
  <2>1. Accounts!Finish(x)
      BY <1>6 DEF Accounts!Leave, PutAt
  <2>2. accReq.at = "leaving"
      BY <1>6 DEF Accounts!Leave
  <2>3. /\ x \in RequestStates /\ x.at = "over"
        /\ x.kind = accReq.kind /\ x.counted = accReq.counted /\ x.model = accReq.model
        /\ x.error = accReq.error /\ x.status = accReq.status /\ x.sent = accReq.sent
      BY <1>1, PutAtSets
  <2> HIDE DEF x
  <2>4. ~x.counted => x.error
      BY <1>1, <2>2, <2>3 DEF Course
  <2> QED
      BY <1>2, <2>1, <2>2, <2>3, <2>4
<1> QED
    BY <1>3, <1>4, <1>5, <1>6

(* A call may fail before or after its request is counted.                  *)
LEMMA ExitKeeps == ASSUME AccInv, NEW c, NEW how, Accounts!Exit(c, how) PROVE AccInv'
<1>1. accReq \in RequestStates /\ Course(accReq)
    BY DEF AccInv, Kept
<1>2. CASE accReq' = accReq /\ accStats' = accStats
    BY <1>2 DEF AccInv
<1>3. CASE accReq' = [accReq EXCEPT !.error = TRUE] /\ accStats' = accStats
  <2> DEFINE x == Erred(accReq)
  <2>1. accReq' = x
      BY <1>3 DEF Erred, Yes
  <2>2. /\ x \in RequestStates /\ x.error
        /\ x.kind = accReq.kind /\ x.counted = accReq.counted /\ x.model = accReq.model
        /\ x.at = accReq.at /\ x.status = accReq.status /\ x.sent = accReq.sent
      BY <1>1, ErredSets
  <2> HIDE DEF x
  <2>3. Course(x)
      BY <1>1, <2>2 DEF Course
  <2> QED
      BY <1>3, <2>1, <2>2, <2>3, OnlyRequest
<1> QED
    BY <1>2, <1>3 DEF Accounts!Exit

LEMMA AccKeeps == ASSUME AccInv, [Accounts!Next]_(Accounts!vars) PROVE AccInv'
<1>1. CASE UNCHANGED <<accReq, accStats>>
    BY <1>1 DEF AccInv
<1>2. ASSUME NEW c \in RequestCalls, Accounts!Open(c) \/ Accounts!Packet(c) \/ Accounts!End(c)
      PROVE  AccInv'
  <2>1. CASE Accounts!Open(c)
      BY <1>1, <2>1 DEF Accounts!Open
  <2>2. CASE Accounts!Packet(c)
      BY <1>1, <2>2, ExitKeeps DEF Accounts!Packet
  <2>3. CASE Accounts!End(c)
      BY <2>3, ExitKeeps DEF Accounts!End
  <2> QED
      BY <1>2, <2>1, <2>2, <2>3
<1> QED
    BY <1>1, <1>2, EnterKeeps, RequestKeeps, ConfigureKeeps, RecordedKeeps
    DEF Accounts!Next, Accounts!vars

(* However a request ends, and whatever its calls do meanwhile, it is       *)
(* counted once, and as a success only if it was answered completely.       *)
THEOREM CountedAsItWas == Accounts!Spec => []AccountsSound
<1>1. AccInv => AccountsSound
  <2> SUFFICES ASSUME AccInv PROVE AccountsSound
      OBVIOUS
  <2>1. accReq \in RequestStates /\ Course(accReq) /\ Books(accReq, accStats)
      BY DEF AccInv, Kept
  <2>2. CASE accReq.kind = "inference" /\ accReq.counted /\ accReq.model
    <3>1. PICK o \in {"success", "error"} : \E v : accStats = Tally(<<o>>, <<v>>) /\ Outcome(accReq, o)
        BY <2>1, <2>2 DEF Books
    <3>2. accStats.generation = <<o>> /\ accStats.requests = 1 /\ accStats.inflight = 0
        BY <3>1 DEF Tally
    <3>3. Outcome(accReq, o)
        BY <3>1
    <3>4. Accounts!CountedOnce
        BY <3>2 DEF Accounts!CountedOnce
    <3>5. Accounts!SuccessIsAnswer
        BY <3>2, <3>3 DEF Accounts!SuccessIsAnswer, Outcome
    <3> QED
        BY <3>4, <3>5 DEF AccountsSound
  <2>3. CASE ~(accReq.kind = "inference" /\ accReq.counted /\ accReq.model)
    <3>1. /\ accStats.generation = <<>> /\ accStats.requests \in {0, 1}
          /\ accReq.kind = "inference" /\ accReq.counted =>
               accStats.requests = 1 /\ accStats.inflight = 0
        BY <2>1, <2>3 DEF Books, Tally, Uncounted
    <3>2. accStats.requests = 1 => ~accReq.model
        BY <2>1, <2>3 DEF Books, Tally, Uncounted, Course
    <3>3. accReq.at = "over" => accReq.counted
        BY <2>1 DEF Course
    <3>4. Accounts!CountedOnce
        BY <3>1, <3>2, <3>3 DEF Accounts!CountedOnce
    <3>5. Accounts!SuccessIsAnswer
        BY <3>1, <<"success">> # <<>> DEF Accounts!SuccessIsAnswer
    <3> QED
        BY <3>4, <3>5 DEF AccountsSound
  <2> QED
      BY <2>2, <2>3
<1> QED
    BY AccInit, AccKeeps, <1>1, PTL DEF Accounts!Spec
-----------------------------------------------------------------------------
(* Accounting: what a call reported, and how it ended.                      *)
Endings == {"success", "error", "cancelled"}
Facts == {"none", "unavailable", "available"}

MetaStates ==
  [finished : BOOLEAN, reason : {"none", "stop", "abort"}, tokens : 0..MaxTokens, facts : Facts]
SlotStates ==
  [open : BOOLEAN, facts : Facts, finished : BOOLEAN, status : Endings \cup {"none"}]
CallStates ==
  [at : {"unused", "open", "over"}, meta : MetaStates, closed : BOOLEAN, slot : SlotStates,
   failed : BOOLEAN]

(* A slot that is finished is of a call that is: a packet of a finished     *)
(* call says the same once more.  A failure takes a success back.           *)
SlotSound(x) ==
  /\ x.slot.finished => x.meta.finished
  /\ x.slot.finished => x.meta.reason = "stop"
  /\ x.failed => x.at = "over"
  /\ x.failed /\ x.slot.open => x.slot.status # "success"

CallsInv ==
  accCall \in [RequestCalls -> CallStates] /\ \A c \in RequestCalls : SlotSound(accCall[c])

LEMMA CallsInit == ASSUME ServicesAssumption, Accounts!Init PROVE CallsInv
<1>1. Accounts!NoMeta \in MetaStates
    BY DEF Accounts!NoMeta, MetaStates, Facts, ServicesAssumption
<1>2. Accounts!NoSlot \in SlotStates /\ ~Accounts!NoSlot.finished
    BY DEF Accounts!NoSlot, SlotStates, Facts
<1>3. Accounts!NoCall \in CallStates
    BY <1>1, <1>2 DEF Accounts!NoCall, CallStates
<1>4. ~Accounts!NoCall.failed /\ Accounts!NoCall.slot = Accounts!NoSlot
    BY DEF Accounts!NoCall
<1>5. SlotSound(Accounts!NoCall)
    BY <1>2, <1>4 DEF SlotSound
<1> QED
    BY <1>3, <1>5 DEF Accounts!Init, CallsInv

LEMMA EndedSlot ==
  ASSUME NEW x \in SlotStates, NEW status \in Endings
  PROVE  LET y == Accounts!Ended(x, status) IN
         /\ y \in SlotStates /\ y.open = x.open /\ y.finished = x.finished
         /\ status # "success" /\ y.open => y.status # "success"
<1> DEFINE z == [x EXCEPT !.status = status]
<1>1. z \in SlotStates /\ z.open = x.open /\ z.finished = x.finished /\ z.status = status
    BY DEF SlotStates
<1>2. Accounts!Ended(x, status)
        = IF x.open /\ (x.status = "none" \/ (x.status = "success" /\ status # "success")) THEN z ELSE x
    BY DEF Accounts!Ended
<1> HIDE DEF z
<1> QED
    BY <1>1, <1>2

(* _GenerationCallMetadata.close changes the slot, and only how it ended.   *)
PutSlot(x, s) == [x EXCEPT !.slot = s]
Shut(x) == [x EXCEPT !.closed = Yes]

LEMMA ClosedCall ==
  ASSUME NEW x \in CallStates, NEW status \in Endings
  PROVE  LET y == Accounts!Closed(x, status) IN
         /\ y \in CallStates /\ y.at = x.at /\ y.meta = x.meta /\ y.failed = x.failed
         /\ y.slot.open = x.slot.open /\ y.slot.finished = x.slot.finished
         /\ status # "success" /\ y.slot.open => y.slot.status # "success"
<1> DEFINE s == Accounts!Ended(x.slot, status)
           z == PutSlot(Shut(x), s)
<1>1. x.slot \in SlotStates
    BY DEF CallStates
<1>2. /\ s \in SlotStates /\ s.open = x.slot.open /\ s.finished = x.slot.finished
      /\ status # "success" /\ s.open => s.status # "success"
    BY <1>1, EndedSlot
<1>3. Accounts!Closed(x, status) = IF ~x.closed \/ status # "success" THEN z ELSE x
    BY DEF Accounts!Closed, PutSlot, Shut, Yes
<1> HIDE DEF s
<1>4. /\ Shut(x) \in CallStates
      /\ Shut(x).at = x.at /\ Shut(x).meta = x.meta /\ Shut(x).failed = x.failed
    BY YesIsBoolean DEF Shut, CallStates
<1>5. z \in CallStates /\ z.at = x.at /\ z.meta = x.meta /\ z.failed = x.failed /\ z.slot = s
    BY <1>2, <1>4 DEF PutSlot, CallStates
<1> HIDE DEF z
<1> QED
    BY <1>2, <1>3, <1>5

PutMeta(x, p) == [x EXCEPT !.meta = p]
Seen(x, o) == [x EXCEPT !.open = o]
Noted(x, f, d) == [[x EXCEPT !.facts = f] EXCEPT !.finished = d]

LEMMA ObservedCall ==
  ASSUME NEW x \in CallStates, SlotSound(x), x.at = "open",
         NEW p \in Accounts!Packets, Accounts!Continues(x.meta, p)
  PROVE  Accounts!Observed(x, p) \in CallStates /\ SlotSound(Accounts!Observed(x, p))
<1> DEFINE o == x.slot.open \/ p.facts # "none"
           a == Seen(x.slot, o)
           f == IF p.facts = "none" THEN a.facts ELSE p.facts
           d == a.finished \/ (p.finished /\ p.reason = "stop")
           s == IF a.open THEN Noted(a, f, d) ELSE a
           y == PutSlot(PutMeta(x, p), s)
           status == IF p.reason = "stop" THEN "success" ELSE "error"
<1>1. Accounts!Observed(x, p) = IF p.finished THEN Accounts!Closed(y, status) ELSE y
    BY DEF Accounts!Observed, Seen, Noted, PutSlot, PutMeta
<1>2. p \in MetaStates /\ x.slot \in SlotStates /\ x.meta \in MetaStates
    BY DEF Accounts!Packets, MetaStates, CallStates, Facts
<1>3. status \in Endings
    BY DEF Endings
<1>4. o \in BOOLEAN
    OBVIOUS
<1> HIDE DEF o, status
<1>5. a \in SlotStates /\ a.finished = x.slot.finished
    BY <1>2, <1>4 DEF Seen, SlotStates
<1> HIDE DEF a
<1>6. f \in Facts
    BY <1>2, <1>5 DEF SlotStates, MetaStates
<1>7. d \in BOOLEAN
    OBVIOUS
<1>8. d => a.finished \/ (p.finished /\ p.reason = "stop")
    OBVIOUS
<1> HIDE DEF f, d
<1>9. Noted(a, f, d) \in SlotStates /\ Noted(a, f, d).finished = d
  <2> DEFINE b == [a EXCEPT !.facts = f]
  <2>1. b \in SlotStates
      BY <1>5, <1>6 DEF SlotStates
  <2> HIDE DEF b
  <2>2. [b EXCEPT !.finished = d] \in SlotStates /\ [b EXCEPT !.finished = d].finished = d
      BY <1>7, <2>1 DEF SlotStates
  <2> QED
      BY <2>2 DEF Noted, b
<1>10. s \in SlotStates /\ (s.finished => a.finished \/ (p.finished /\ p.reason = "stop"))
    BY <1>5, <1>8, <1>9
<1> HIDE DEF s
<1>11. x.meta.finished => p = x.meta
    BY DEF Accounts!Continues
<1>12. s.finished => p.finished /\ p.reason = "stop"
    BY <1>5, <1>10, <1>11 DEF SlotSound
<1>13. y \in CallStates /\ y.at = x.at /\ y.failed = x.failed /\ y.meta = p /\ y.slot = s
    BY <1>2, <1>10 DEF PutSlot, PutMeta, CallStates
<1> HIDE DEF y
<1>14. ~x.failed
    BY DEF SlotSound
<1>15. SlotSound(y)
    BY <1>12, <1>13, <1>14 DEF SlotSound
<1>16. Accounts!Closed(y, status) \in CallStates /\ SlotSound(Accounts!Closed(y, status))
  <2>1. LET z == Accounts!Closed(y, status) IN
        /\ z \in CallStates /\ z.at = y.at /\ z.meta = y.meta /\ z.failed = y.failed
        /\ z.slot.open = y.slot.open /\ z.slot.finished = y.slot.finished
      BY <1>3, <1>13, ClosedCall
  <2> QED
      BY <1>12, <1>13, <1>14, <2>1 DEF SlotSound
<1> QED
    BY <1>1, <1>13, <1>15, <1>16

(* One call changes, to one that is sound.                                  *)
LEMMA OneCall ==
  ASSUME CallsInv, NEW c \in RequestCalls, NEW y \in CallStates, SlotSound(y),
         accCall' = [accCall EXCEPT ![c] = y]
  PROVE  CallsInv'
<1>1. \A d \in RequestCalls : accCall'[d] = IF d = c THEN y ELSE accCall[d]
    BY DEF CallsInv
<1> QED
    BY <1>1 DEF CallsInv, SlotSound

LEMMA OpenKeepsCalls ==
  ASSUME ServicesAssumption, CallsInv, NEW c \in RequestCalls, Accounts!Open(c) PROVE CallsInv'
<1>1. PICK visual \in BOOLEAN :
        accCall' = [accCall EXCEPT ![c] = [Accounts!NoCall EXCEPT !.at = "open", !.slot.open = visual]]
    BY DEF Accounts!Open
<1> DEFINE s == Seen(Accounts!NoSlot, visual)
           n == [Accounts!NoCall EXCEPT !.at = "open"]
           y == PutSlot(n, s)
<1>2. [Accounts!NoCall EXCEPT !.at = "open", !.slot.open = visual] = y
    BY DEF PutSlot, Seen, Accounts!NoCall
<1>3. Accounts!NoMeta \in MetaStates
    BY DEF Accounts!NoMeta, MetaStates, Facts, ServicesAssumption
<1>4. Accounts!NoSlot \in SlotStates /\ ~Accounts!NoSlot.finished
    BY DEF Accounts!NoSlot, SlotStates, Facts
<1>5. Accounts!NoCall \in CallStates
    BY <1>3, <1>4 DEF Accounts!NoCall, CallStates
<1>6. ~Accounts!NoCall.failed
    BY DEF Accounts!NoCall
<1>7. s \in SlotStates /\ s.finished = Accounts!NoSlot.finished
    BY <1>4 DEF Seen, SlotStates
<1> HIDE DEF s
<1>8. n \in CallStates /\ n.failed = Accounts!NoCall.failed
    BY <1>5 DEF CallStates
<1> HIDE DEF n
<1>9. y \in CallStates /\ y.slot = s /\ y.failed = n.failed
    BY <1>7, <1>8 DEF PutSlot, CallStates
<1> HIDE DEF y
<1>10. SlotSound(y)
    BY <1>4, <1>6, <1>7, <1>8, <1>9 DEF SlotSound
<1> QED
    BY <1>1, <1>2, <1>9, <1>10, OneCall

Over(x) == [x EXCEPT !.at = "over"]
PutFailed(x, f) == [x EXCEPT !.failed = f]

(* A call that fails is not told as a success, whatever it said before.     *)
LEMMA ExitKeepsCalls ==
  ASSUME CallsInv, NEW c \in RequestCalls,
         NEW how \in {"return", "break", "closed", "cancelled", "error"}, Accounts!Exit(c, how)
  PROVE  CallsInv'
<1> DEFINE x == accCall[c]
           status == Accounts!ExitStatus(x, how)
           z == Accounts!Closed(x, status)
           f == how \in {"error", "cancelled"}
           y == PutFailed(Over(z), f)
<1>1. x \in CallStates /\ SlotSound(x)
    BY DEF CallsInv
<1>2. status \in Endings
    BY DEF Accounts!ExitStatus, Endings
<1>3. f => status # "success"
    BY DEF Accounts!ExitStatus
<1>4. accCall' = [accCall EXCEPT ![c] = y]
    BY DEF Accounts!Exit, PutFailed, Over
<1>5. f \in BOOLEAN
    OBVIOUS
<1> HIDE DEF x, status, f
<1>6. /\ z \in CallStates /\ z.meta = x.meta /\ z.slot.finished = x.slot.finished
      /\ status # "success" /\ z.slot.open => z.slot.status # "success"
    BY <1>1, <1>2, ClosedCall
<1> HIDE DEF z
<1>7. Over(z) \in CallStates /\ Over(z).at = "over" /\ Over(z).meta = z.meta /\ Over(z).slot = z.slot
    BY <1>6 DEF Over, CallStates
<1>8. y \in CallStates /\ y.at = "over" /\ y.meta = z.meta /\ y.slot = z.slot /\ y.failed = f
    BY <1>5, <1>7 DEF PutFailed, CallStates
<1> HIDE DEF y
<1>9. SlotSound(y)
    BY <1>1, <1>3, <1>6, <1>8 DEF SlotSound
<1> QED
    BY <1>4, <1>8, <1>9, OneCall

LEMMA PacketKeepsCalls ==
  ASSUME CallsInv, NEW c \in RequestCalls, Accounts!Packet(c) PROVE CallsInv'
<1>1. PICK p \in Accounts!Packets :
        IF Accounts!Continues(accCall[c].meta, p)
          THEN accCall' = [accCall EXCEPT ![c] = Accounts!Observed(accCall[c], p)]
          ELSE Accounts!Exit(c, "error")
    BY DEF Accounts!Packet
<1>2. accCall[c] \in CallStates /\ SlotSound(accCall[c]) /\ accCall[c].at = "open"
    BY DEF CallsInv, Accounts!Packet
<1>3. CASE Accounts!Continues(accCall[c].meta, p)
    BY <1>1, <1>2, <1>3, ObservedCall, OneCall
<1>4. CASE ~Accounts!Continues(accCall[c].meta, p)
    BY <1>1, <1>4, ExitKeepsCalls
<1> QED
    BY <1>3, <1>4

LEMMA CallsKeep ==
  ASSUME ServicesAssumption, CallsInv, [Accounts!Next]_(Accounts!vars) PROVE CallsInv'
<1>1. CASE UNCHANGED accCall
    BY <1>1 DEF CallsInv, SlotSound
<1>2. ASSUME NEW c \in RequestCalls, Accounts!End(c) PROVE CallsInv'
    BY <1>2, ExitKeepsCalls DEF Accounts!End
<1> QED
    BY <1>1, <1>2, OpenKeepsCalls, PacketKeepsCalls
    DEF Accounts!Next, Accounts!vars, Accounts!Enter, Accounts!Refuse, Accounts!RefusalCancelled,
        Accounts!TooLarge, Accounts!Configure, Accounts!ResponseStart, Accounts!LastBody,
        Accounts!Raise, Accounts!Leave, Accounts!Finish

(* Visual usage is recorded when the request is counted, of the slots there *)
(* are then.                                                                *)
LEMMA Honest ==
  ASSUME AccInv, CallsInv, [Accounts!Next]_(Accounts!vars) PROVE Accounts!HonestStep
<1>1. accStats' = accStats \/ VisualTold
    BY EnterKeeps, RecordedKeeps
    DEF Accounts!Next, Accounts!vars, Accounts!RefusalCancelled, Accounts!Configure,
        Accounts!ResponseStart, Accounts!Raise, Accounts!Open, Accounts!Packet, Accounts!End,
        Accounts!Exit
<1> SUFFICES ASSUME accStats'.visual = <<"available">>, accStats.visual # accStats'.visual,
                    NEW c \in Accounts!Slots
             PROVE  /\ ~accCall[c].failed /\ accCall[c].meta.finished
                    /\ accCall[c].meta.reason = "stop"
    BY DEF Accounts!HonestStep
<1>2. Accounts!VisualStatus = "available"
    BY <1>1, <<"available">> # <<>> DEF VisualTold
<1>3. Accounts!Complete(c)
    BY <1>2 DEF Accounts!VisualStatus
<1> QED
    BY <1>3 DEF CallsInv, SlotSound, Accounts!Complete, Accounts!Slots

(* Visual usage is told as available only if every call it is the sum of    *)
(* ended well: a call that fails after its last packet takes back what that *)
(* said, for any number of calls at once.                                   *)
THEOREM UsageIsHonest == ASSUME ServicesAssumption PROVE Accounts!Spec => UsageHonest
<1>1. AccInv /\ CallsInv /\ [Accounts!Next]_(Accounts!vars) => (AccInv /\ CallsInv)'
    BY AccKeeps, CallsKeep
<1>2. AccInv /\ CallsInv /\ [Accounts!Next]_(Accounts!vars) => [Accounts!HonestStep]_accVars
    BY Honest
<1>3. Accounts!Init => AccInv /\ CallsInv
    BY AccInit, CallsInit
<1> QED
    BY <1>1, <1>2, <1>3, PTL DEF Accounts!Spec, UsageHonest

-----------------------------------------------------------------------------
(* Startup: until main is told to clean up (Waits), nothing disturbs the    *)
(* task that runs the engine, so a start that fails has its cause recorded  *)
(* first, and one that succeeds keeps its engine.                           *)
MainFields == {"at", "for", "error", "joined", "finalized"}
TaskFields == {"at", "cancelled", "error", "ongoing"}
SharedFields == {"done", "error", "published", "aborted", "shutdown"}
StatsFields == {"at", "samples", "listed"}

Shapes ==
  /\ DOMAIN staMain = MainFields /\ DOMAIN staTask = TaskFields
  /\ DOMAIN staShared = SharedFields /\ DOMAIN staStats = StatsFields
  /\ staMain.for \in {"start", "initialize", "finalize"}
  /\ staStats.samples \in Nat

Waits == staMain.at \in {"waits", "started", "checks", "ready"}

Undisturbed == Waits =>
  /\ staSent = {} /\ ~staTask.cancelled /\ ~staShared.shutdown /\ staTask.at # "waiting"
  /\ ~staMain.finalized /\ staMain.error = "none"

(* What the task records while main waits is the engine's own error, after  *)
(* the deadline that passed; whatever it does on its way out comes second.  *)
FirstCause == Waits =>
  /\ staShared.error \in {"none", "engine", "timeout"}
  /\ staShared.aborted => staShared.error # "none"
  /\ staTask.at \in {"exiting", "final", "ended"} => staShared.error # "none"
  /\ staTask.at = "handling" /\ staShared.error = "none" => staTask.error = "engine"
  /\ staShared.done /\ staShared.error = "none" => staShared.published

EngineThere ==
  /\ staTask.at \in {"new", "building", "handling", "final", "ended"} => staEngine # "open"
  /\ staTask.at \in {"entered", "querying", "answered", "serving", "waiting"} => staEngine = "open"

Published ==
  /\ staShared.published => staShared.done
  /\ staShared.published => staTask.at \in {"serving", "waiting", "exiting", "handling", "final"}
  /\ staShared.published /\ Waits => staTask.at = "serving"
  /\ staMain.at \in {"checks", "ready"} => staShared.published
  /\ staMain.at = "started" /\ staShared.error = "none" => staShared.published

(* Once a failure is known, no engine is published any more.                *)
Failing == staMain.error \notin {"none", "task"} \/ (Waits /\ staShared.error # "none")
NoneLater == Failing =>
  /\ ~staShared.published
  /\ staShared.aborted \/ staTask.at \in {"exiting", "handling", "final", "ended"}

(* How far a cleanup is.                                                    *)
Cleaning ==
  /\ staMain.joined => staTask.at = "ended"
  /\ staMain.at \in {"drain", "metrics", "tell", "joinLogger"} => staMain.joined
  /\ staMain.at \in {"metrics", "tell", "joinLogger"} => staResponse = "none"
  /\ staMain.at \in {"tell", "joinLogger"} => ~staStats.listed /\ ~staMain.finalized
  /\ ~staStats.listed => staMain.at \in {"tell", "joinLogger"} \/ staMain.finalized
  /\ staMain.finalized => /\ staMain.joined /\ ~staStats.listed
                          /\ staResponse = "none" /\ staStats.at \in {"none", "ended"}
  /\ staStats.at \in {"none", "ended"} => staStats.samples = 0

StaInv ==
  /\ Shapes /\ Undisturbed /\ FirstCause /\ EngineThere /\ Published /\ NoneLater /\ Cleaning
  /\ Start!CauseKept

LEMMA StaInit == Start!Init => StaInv
  BY DEF Start!Init, Start!NoError, StaInv, Shapes, MainFields, TaskFields, SharedFields, StatsFields,
         Waits, Undisturbed, FirstCause, EngineThere, Published, Failing, NoneLater, Cleaning,
         Start!CauseKept

(* A cleanup returns, with its result, to whoever asked for it.             *)
LEMMA ReturnedMain ==
  ASSUME NEW x, DOMAIN x = MainFields, x.for \in {"start", "initialize", "finalize"}
  PROVE  LET y == Start!Returned(x) IN
         /\ DOMAIN y = MainFields /\ y.at \in {"signal", "failed", "gone"}
         /\ y.for \in {"start", "initialize", "finalize"}
         /\ y.error = x.error /\ y.joined = x.joined /\ y.finalized = x.finalized
  BY DEF Start!Returned, MainFields

(* The thread that initializes: it waits, and takes what it finds.          *)
LEMMA BeginKeeps ==
  ASSUME StaInv,
         Start!Deadline \/ Start!Woken \/ Start!StartFails \/ Start!StartResponses \/ Start!Ready
           \/ Start!NotGenerative \/ Start!Finalize
  PROVE  StaInv'
<1> USE DEF StaInv, Shapes, MainFields, TaskFields, SharedFields, StatsFields, Waits, Undisturbed,
            FirstCause, EngineThere, Published, Failing, NoneLater, Cleaning, Start!CauseKept,
            Start!NoError
<1>1. CASE Start!Deadline
    BY <1>1 DEF Start!Deadline, Start!Main, Start!MainTo
<1>2. CASE Start!Woken
    BY <1>2 DEF Start!Woken, Start!Main, Start!MainTo
<1>3. CASE Start!StartFails
    BY <1>3 DEF Start!StartFails, Start!Main, Start!MainTo
<1>4. CASE Start!StartResponses
    BY <1>4 DEF Start!StartResponses, Start!Main, Start!MainTo
<1>5. CASE Start!Ready
    BY <1>5 DEF Start!Ready, Start!Main, Start!MainTo
<1>6. CASE Start!NotGenerative
    BY <1>6 DEF Start!NotGenerative, Start!Main, Start!MainTo
<1>7. CASE Start!Finalize
    BY <1>7 DEF Start!Finalize, Start!Main, Start!MainTo
<1> QED
    BY <1>1, <1>2, <1>3, <1>4, <1>5, <1>6, <1>7

(* The cleanup: each stage is reached by the one before it only.            *)
LEMMA CleanupKeeps ==
  ASSUME StaInv,
         Start!Signal \/ Start!Joined \/ Start!JoinTimeout \/ Start!Drain \/ Start!Metrics
           \/ Start!TellLogger \/ Start!LoggerJoined
  PROVE  StaInv'
<1> USE DEF StaInv, Shapes, MainFields, TaskFields, SharedFields, StatsFields, Waits, Undisturbed,
            FirstCause, EngineThere, Published, Failing, NoneLater, Cleaning, Start!CauseKept,
            Start!NoError
<1>1. CASE Start!Signal
    BY <1>1 DEF Start!Signal, Start!Main, Start!MainTo, Start!LoopRuns
<1>2. CASE Start!Joined
    BY <1>2 DEF Start!Joined, Start!Main, Start!MainTo, Start!LoopRuns
<1>3. CASE Start!JoinTimeout
    BY <1>3, ReturnedMain DEF Start!JoinTimeout, Start!Main, Start!MainTo, Start!LoopRuns
<1>4. CASE Start!Drain
    BY <1>4, ReturnedMain DEF Start!Drain, Start!Main, Start!MainTo, Start!LoopRuns
<1>5. CASE Start!Metrics
    BY <1>5, ReturnedMain DEF Start!Metrics, Start!Main, Start!MainTo, Start!LoopRuns
<1>6. CASE Start!TellLogger
    BY <1>6 DEF Start!TellLogger, Start!Main, Start!MainTo, Start!LoopRuns
<1>7. CASE Start!LoggerJoined
    BY <1>7, ReturnedMain DEF Start!LoggerJoined, Start!Main, Start!MainTo, Start!LoopRuns
<1> QED
    BY <1>1, <1>2, <1>3, <1>4, <1>5, <1>6, <1>7

(* The task on its way to an engine that serves.                            *)
LEMMA TaskKeeps ==
  ASSUME StaInv,
         Start!TaskBegins \/ Start!Built \/ Start!Query \/ Start!Answered \/ Start!PublishEngine
           \/ Start!Serves \/ Start!ShutsDown \/ Start!RequestEnds \/ Start!Idles
  PROVE  StaInv'
<1> USE DEF StaInv, Shapes, MainFields, TaskFields, SharedFields, StatsFields, Waits, Undisturbed,
            FirstCause, EngineThere, Published, Failing, NoneLater, Cleaning, Start!CauseKept,
            Start!NoError
<1>1. CASE Start!TaskBegins
    BY <1>1 DEF Start!TaskBegins, Start!TaskTo
<1>2. CASE Start!Built
    BY <1>2 DEF Start!Built, Start!TaskTo
<1>3. CASE Start!Query
    BY <1>3 DEF Start!Query, Start!TaskTo
<1>4. CASE Start!Answered
    BY <1>4 DEF Start!Answered, Start!TaskTo
<1>5. CASE Start!PublishEngine
  <2>1. CASE staShared.aborted
      BY <1>5, <2>1 DEF Start!PublishEngine, Start!TaskTo
  <2>2. CASE ~staShared.aborted
    <3>1. /\ staShared' = [staShared EXCEPT !.published = TRUE, !.done = TRUE]
          /\ staTask' = [staTask EXCEPT !.at = "serving"]
          /\ staTask.at = "answered"
          /\ UNCHANGED <<staMain, staEngine, staSent, staStats, staResponse>>
        BY <1>5, <2>2 DEF Start!PublishEngine, Start!TaskTo
    <3>2. Shapes' /\ Undisturbed' /\ EngineThere'
        BY <3>1
    <3>3. FirstCause' /\ Published'
        BY <2>2, <3>1
    <3>4. NoneLater' /\ Cleaning' /\ Start!CauseKept'
        BY <2>2, <3>1
    <3> QED
        BY <3>2, <3>3, <3>4
  <2> QED
      BY <2>1, <2>2
<1>6. CASE Start!Serves
    BY <1>6 DEF Start!Serves, Start!TaskTo
<1>7. CASE Start!ShutsDown
    BY <1>7 DEF Start!ShutsDown, Start!TaskTo
<1>8. CASE Start!RequestEnds
    BY <1>8 DEF Start!RequestEnds, Start!TaskTo
<1>9. CASE Start!Idles
    BY <1>9 DEF Start!Idles, Start!TaskTo
<1> QED
    BY <1>1, <1>2, <1>3, <1>4, <1>5, <1>6, <1>7, <1>8, <1>9

(* The task on its way out.  While main waits, what it may run into is the  *)
(* engine's own error, and a failed closing comes after a recorded cause.   *)
LEMMA LeaveKeeps ==
  ASSUME StaInv,
         (\E e \in {"engine", "cancelled"} : Start!BodyFails(e))
           \/ (\E e \in {"engine", "cancelled"} : Start!BuildFails(e)) \/ Start!Closes
           \/ Start!Handles \/ Start!TaskEnds
  PROVE  StaInv'
<1> USE DEF StaInv, Shapes, MainFields, TaskFields, SharedFields, StatsFields, Waits, Undisturbed,
            FirstCause, EngineThere, Published, Failing, NoneLater, Cleaning, Start!CauseKept,
            Start!NoError
<1>1. ASSUME NEW e \in {"engine", "cancelled"}, Start!BodyFails(e) PROVE StaInv'
    BY <1>1 DEF Start!BodyFails, Start!TaskTo, Start!Recorded, Start!Raises
<1>2. ASSUME NEW e \in {"engine", "cancelled"}, Start!BuildFails(e) PROVE StaInv'
    BY <1>2 DEF Start!BuildFails, Start!TaskTo, Start!Recorded, Start!Raises
<1>3. CASE Start!Closes
  <2>1. /\ staTask.at = "exiting" /\ staEngine' = "closed"
        /\ UNCHANGED <<staMain, staShared, staSent, staStats, staResponse>>
      BY <1>3 DEF Start!Closes
  <2>2. /\ DOMAIN staTask' = TaskFields /\ staTask'.cancelled = staTask.cancelled
        /\ staTask'.at \in {"handling", "final"}
      BY <1>3 DEF Start!Closes, Start!TaskTo
  <2> HIDE DEF TaskFields
  <2>3. Shapes' /\ Undisturbed' /\ EngineThere'
      BY <2>1, <2>2
  <2>4. FirstCause'
      BY <2>1, <2>2
  <2>5. Published' /\ NoneLater'
      BY <2>1, <2>2
  <2>6. Cleaning' /\ Start!CauseKept'
      BY <2>1, <2>2
  <2> QED
      BY <2>3, <2>4, <2>5, <2>6
<1>4. CASE Start!Handles
    BY <1>4 DEF Start!Handles, Start!TaskTo, Start!Recorded, Start!Raises
<1>5. CASE Start!TaskEnds
    BY <1>5 DEF Start!TaskEnds, Start!TaskTo, Start!Recorded, Start!Raises
<1> QED
    BY <1>1, <1>2, <1>3, <1>4, <1>5

(* The loop runs what the cleanup sent, and the other threads report.       *)
LEMMA OthersKeep ==
  ASSUME StaInv,
         Start!RunSignal \/ Start!RunCancel \/ Start!RecordSample \/ Start!Report
           \/ Start!ResponsesEnd
  PROVE  StaInv'
<1> USE DEF StaInv, Shapes, MainFields, TaskFields, SharedFields, StatsFields, Waits, Undisturbed,
            FirstCause, EngineThere, Published, Failing, NoneLater, Cleaning, Start!CauseKept,
            Start!NoError
<1>1. CASE Start!RunSignal
    BY <1>1 DEF Start!RunSignal
<1>2. CASE Start!RunCancel
    BY <1>2 DEF Start!RunCancel
<1>3. CASE Start!RecordSample
    BY <1>3 DEF Start!RecordSample
<1>4. CASE Start!Report
    BY <1>4 DEF Start!Report
<1>5. CASE Start!ResponsesEnd
    BY <1>5 DEF Start!ResponsesEnd
<1> QED
    BY <1>1, <1>2, <1>3, <1>4, <1>5

(* Whatever the start, the engine or the cleanup of a DeepSeek backend runs *)
(* into: who is told ready has a published engine, which is never published *)
(* after the start was given up, the first cause of a failure is the one    *)
(* raised, and a cleanup that reports success left nothing behind, for any  *)
(* length of the queue of samples.                                          *)
THEOREM StartIsSound == Start!Spec => []StartupSound
<1>1. StaInv /\ [Start!Next]_(Start!vars) => StaInv'
  <2> SUFFICES ASSUME StaInv, [Start!Next]_(Start!vars) PROVE StaInv'
      OBVIOUS
  <2>1. CASE Start!Next
      BY <2>1, BeginKeeps, CleanupKeeps, TaskKeeps, LeaveKeeps, OthersKeep
      DEF Start!Next, Start!MainSteps
  <2>2. CASE UNCHANGED Start!vars
      BY <2>2 DEF Start!vars, StaInv, Shapes, Waits, Undisturbed, FirstCause, EngineThere, Published,
                  Failing, NoneLater, Cleaning, Start!CauseKept
  <2> QED
      BY <2>1, <2>2
<1>2. StaInv => StartupSound
  <2> SUFFICES ASSUME StaInv PROVE StartupSound
      OBVIOUS
  <2>1. Start!ReadyServes
      BY DEF StaInv, Start!ReadyServes, Waits, EngineThere, Published
  <2>2. Start!NoLateEngine
      BY DEF StaInv, Start!NoLateEngine, Start!NoError, Failing, NoneLater
  <2>3. Start!CleanedUp
      BY DEF StaInv, Start!CleanedUp, Cleaning, EngineThere
  <2> QED
      BY <2>1, <2>2, <2>3 DEF StaInv, StartupSound, Start!StartupSound
<1> QED
    BY StaInit, <1>1, <1>2, PTL DEF Start!Spec
-----------------------------------------------------------------------------
(* ContextCompression: what the operators on histories give.                *)
(* The instance counts as its users do.                                     *)
LEMMA SameCount ==
  ASSUME NEW S
  PROVE  Context!Cardinality(S) = Cardinality(S) /\ Context!IsFiniteSet(S) = IsFiniteSet(S)
BY DEF Context!Cardinality, Cardinality, Context!IsFiniteSet, IsFiniteSet

LEMMA LeastExists ==
  ASSUME NEW S \in SUBSET Nat, S # {}
  PROVE  \E x \in S : \A y \in S : x <= y
<1>1. \E x \in S : \A y \in S : ~(<<y, x>> \in OpToRel(<, Nat))
    BY WFMin, NatLessThanWellFounded
<1>2. \E x \in S : \A y \in S : ~(y < x)
    BY <1>1, Zenon DEF OpToRel
<1> QED
    BY <1>2

(* The first message of a history.                                          *)
LEMMA OldestIsLeast ==
  ASSUME NEW S \in SUBSET Nat, IsFiniteSet(S), NEW m \in S
  PROVE  m \in Context!Oldest(S, 1) <=> \A i \in S : m <= i
<1> DEFINE before == Context!Before(S, m)
<1>1. before \in SUBSET S /\ (before = {} <=> \A i \in S : ~(i < m))
    BY DEF Context!Before
<1>2. IsFiniteSet(before) /\ Cardinality(before) \in Nat
    BY <1>1, CountPart
<1>3. Cardinality(before) = 0 <=> before = {}
    BY <1>2, FS_EmptySet
<1>4. m \in Context!Oldest(S, 1) <=> Cardinality(before) < 1
    BY SameCount DEF Context!Oldest
<1>5. (\A i \in S : ~(i < m)) <=> \A i \in S : m <= i
    OBVIOUS
<1> QED
    BY <1>1, <1>2, <1>3, <1>4, <1>5

(* What is left begins with a message of the user.                          *)
StartsTurn(c) == \E u \in Context!Users(c) : \A m \in Context!Speech(c) : u <= m

LEMMA TurnLeaves ==
  ASSUME NEW c \in SUBSET Nat, IsFiniteSet(c), Context!OldestTurn(c) # {}
  PROVE  StartsTurn(c \ Context!OldestTurn(c))
<1> DEFINE H == Context!History(c)
           U == Context!Users(c)
           turn == Context!OldestTurn(c)
<1>1. /\ H \subseteq c /\ U \subseteq c /\ H \subseteq Context!Speech(c) /\ U \subseteq Context!Speech(c)
      /\ \A m \in Context!Speech(c) : m \in H <=> \E u \in U : m < u
    BY DEF Context!History, Context!Users, Context!Speech
<1>2. H \in SUBSET Nat /\ IsFiniteSet(H)
    BY <1>1, CountPart
<1>3. turn = {m \in H : \A u \in U : u <= m => u \in Context!Oldest(H, 1)}
    BY DEF Context!OldestTurn
<1>4. H # {}
    BY <1>3
<1> HIDE DEF H, U, turn
<1>5. PICK h \in H : \A i \in H : h <= i
    BY <1>2, <1>4, LeastExists
<1>6. {u \in U : h < u} \in SUBSET Nat /\ {u \in U : h < u} # {}
    BY <1>1, <1>5
<1>7. PICK u \in U : h < u /\ \A v \in U : h < v => u <= v
    BY <1>6, LeastExists
<1>8. u \notin turn
  <2>1. u \notin H \/ u \notin Context!Oldest(H, 1)
      BY <1>1, <1>2, <1>5, <1>7, OldestIsLeast
  <2> QED
      BY <1>1, <1>3, <1>7, <2>1
<1>9. ASSUME NEW m \in Context!Speech(c), m \notin turn, m < u
      PROVE  FALSE
  <2>1. m \in H /\ m \in Nat /\ h \in Nat /\ u \in Nat
      BY <1>1, <1>2, <1>7, <1>9
  <2>2. PICK v \in U : v <= m /\ v \notin Context!Oldest(H, 1)
      BY <1>3, <1>9, <2>1
  <2>3. v \in Nat /\ v \in Context!Speech(c) /\ v < u
      BY <1>1, <1>9, <2>1, <2>2
  <2>4. v \in H
      BY <1>1, <1>7, <2>3
  <2>5. h < v
      BY <1>2, <1>5, <2>2, <2>3, <2>4, OldestIsLeast
  <2> QED
      BY <1>7, <1>9, <2>1, <2>2, <2>3, <2>5
<1>10. \A m \in c : m \in Context!Speech(c) => m \in Nat
    OBVIOUS
<1>11. /\ u \in Context!Users(c \ turn)
       /\ Context!Speech(c \ turn) = Context!Speech(c) \ turn
    BY <1>7, <1>8 DEF Context!Users, Context!Speech, U
<1>12. Context!Speech(c) \subseteq Nat
    BY DEF Context!Speech
<1>13. \A m \in Context!Speech(c \ turn) : u <= m
    BY <1>1, <1>7, <1>9, <1>11, <1>12
<1>14. StartsTurn(c \ turn)
    BY <1>11, <1>13 DEF StartsTurn
<1> QED
    BY <1>14 DEF turn

(* The least message of one that begins with the user is the user's.        *)
LEMMA StartsWithUser ==
  ASSUME NEW c \in SUBSET Nat, StartsTurn(c)
  PROVE  Speaker[Context!Min(Context!Speech(c))] = "user"
<1>1. PICK u \in Context!Users(c) : \A m \in Context!Speech(c) : u <= m
    BY DEF StartsTurn
<1>2. u \in Context!Speech(c) /\ Speaker[u] = "user" /\ Context!Speech(c) \subseteq Nat
    BY DEF Context!Users, Context!Speech
<1>3. Context!Min(Context!Speech(c)) = u
    BY <1>1, <1>2 DEF Context!Min
<1> QED
    BY <1>2, <1>3

(* A turn is of the history, and what is protected in a conversation is     *)
(* protected in what is kept of it.                                         *)
LEMMA TurnIsSpeech ==
  ASSUME NEW c PROVE Context!OldestTurn(c) \subseteq Context!Speech(c) /\ Context!OldestTurn(c) \subseteq c
BY DEF Context!OldestTurn, Context!History, Context!Speech

LEMMA ProtectedStays ==
  ASSUME NEW c \in SUBSET Nat, IsFiniteSet(c), NEW k \in SUBSET c, NEW n \in Nat,
         Context!Protected(c, n) \subseteq k,
         Context!OldestTurn(k) \cap Context!Protected(k, n) = {}
  PROVE  Context!Protected(c, n) \subseteq k \ Context!OldestTurn(k)
<1> SUFFICES ASSUME NEW m \in Context!Protected(c, n), m \in Context!OldestTurn(k)
             PROVE  FALSE
    OBVIOUS
<1> DEFINE all == Context!After(Context!History(c), m)
           some == Context!After(Context!History(k), m)
<1>1. Context!History(k) \subseteq Context!History(c) /\ Context!History(c) \subseteq c
    BY DEF Context!History, Context!Speech, Context!Users
<1>2. m \in Context!History(k)
    BY DEF Context!OldestTurn
<1>3. m \in Context!History(c) /\ Cardinality(all) < n
    BY SameCount DEF Context!Protected, Context!Newest
<1>4. all \in SUBSET c /\ some \in SUBSET all
    BY <1>1 DEF Context!After
<1>5. IsFiniteSet(all)
    BY <1>4, CountPart
<1>6. Cardinality(some) <= Cardinality(all) /\ Cardinality(some) \in Nat /\ Cardinality(all) \in Nat
    BY <1>4, <1>5, CountPart
<1>7. Cardinality(some) < n
  <2> HIDE DEF all, some
  <2> QED
      BY <1>3, <1>6
<1>8. m \in Context!Protected(k, n)
    BY <1>2, <1>7, SameCount DEF Context!Protected, Context!Newest
<1> QED
    BY <1>8

(* A ratio of the limit is within it.                                       *)
LEMMA WithinRatio ==
  ASSUME NEW l \in Nat \ {0}, NEW p \in 10..100
  PROVE  Context!Max({(l * p) \div 100, 1}) \in Nat /\ Context!Max({(l * p) \div 100, 1}) <= l
<1>1. l * p \in Nat /\ l * p <= l * 100
    OBVIOUS
<1> DEFINE q == (l * p) \div 100
           n == l * p
<1>2. q \in Nat /\ q <= l
  <2>1. n \in Nat /\ n <= 100 * l
      BY <1>1
  <2> HIDE DEF n
  <2> QED
      BY <2>1
<1> HIDE DEF q
<1>3. Context!Max({q, 1}) \in {q, 1}
    BY <1>2 DEF Context!Max
<1> QED
    BY <1>2, <1>3 DEF q

LEMMA ContextGiven ==
  /\ \A c \in Conversations : c \in SUBSET Nat /\ IsFiniteSet(c)
  /\ \A l \in Limits : l \in Nat \ {0}
  /\ \A s \in Configs : /\ s.trigger \in 10..100 /\ s.target \in 10..100
                        /\ s.preserve \in Nat /\ s.evidence \in Nat
  /\ Overhead \in Nat /\ SummaryTokens \subseteq Nat
<1>1. /\ Configs \subseteq Context!Settings
      /\ \A c \in Conversations : c \subseteq Nat /\ Context!IsFiniteSet(c)
      /\ Limits \subseteq Nat \ {0}
      /\ Overhead \in Nat /\ SummaryTokens \subseteq Nat
    BY ServicesAssumption DEF Context!ContextAssumption
<1>2. \A c \in Conversations : IsFiniteSet(c)
    BY <1>1, SameCount
<1>3. \A s \in Configs : s \in Context!Settings
    BY <1>1
<1>4. \A s \in Configs : /\ s.trigger \in 10..100 /\ s.target \in 10..100
                         /\ s.preserve \in Nat /\ s.evidence \in Nat
    BY <1>3 DEF Context!Settings
<1> QED
    BY <1>1, <1>2, <1>4

LEMMA PartCounts ==
  ASSUME NEW c \in Conversations, NEW k \in SUBSET c
  PROVE  IsFiniteSet(k) /\ k \in SUBSET Nat /\ Context!Cardinality(k) \in Nat
<1>1. c \in SUBSET Nat /\ IsFiniteSet(c)
    BY ContextGiven
<1>2. IsFiniteSet(k) /\ Cardinality(k) \in Nat
    BY <1>1, CountPart
<1> QED
    BY <1>1, <1>2, SameCount

-----------------------------------------------------------------------------
(* ContextCompression: a request at work keeps whole turns of its           *)
(* conversation; one that summarizes keeps what is protected, and what its  *)
(* text covers and what is left of its source are the whole of it; one that *)
(* is over fits.                                                            *)
CtxFields == {"at", "conv", "limit", "s", "kept", "action", "text", "left", "evidence"}

Holding(x) ==
  /\ DOMAIN x = CtxFields
  /\ x.conv \in Conversations /\ x.limit \in Limits /\ x.s \in Configs
  /\ x.kept \subseteq x.conv /\ Context!Source(x) \subseteq Context!Speech(x.conv)
  /\ x.kept = x.conv \/ StartsTurn(x.kept)

Summarizing(x) == x.evidence = {} /\ Context!Protected(x.conv, x.s.preserve) \subseteq x.kept

Fitted(x) ==
  /\ Context!Cardinality(x.kept) + Context!Cardinality(x.evidence)
       + (IF x.action = "summarize" THEN Overhead + x.text.tokens ELSE 0) <= x.limit
  /\ x.action = "summarize" => /\ x.text.covers = Context!Source(x)
                               /\ Context!Protected(x.conv, x.s.preserve) \subseteq x.kept

Summary(x, text) == text \in [covers : SUBSET Context!Source(x), tokens : Nat]

CtxSound(x) ==
  \/ x = Context!New
  \/ x.at = "over" /\ x.action = "error"
  \/ /\ Holding(x)
     /\ \/ x.at = "truncating" /\ x.evidence = {} /\ x.action \in {"truncate", "truncate_fallback"}
        \/ x.at \in {"selecting", "lookup"} /\ Summarizing(x)
        \/ x.at \in {"waiting", "calling"} /\ Summarizing(x) /\ Summary(x, x.text)
           /\ x.left = Context!Source(x) \ x.text.covers
        \/ x.at = "render" /\ Summarizing(x) /\ Summary(x, x.text)
           /\ x.text.covers = Context!Source(x)
        \/ x.at = "over" /\ Fitted(x)

Told == {e \in [boundary : SUBSET Nat, text : [covers : SUBSET Nat, tokens : Nat]] :
           e.text.covers = e.boundary}

CtxInv ==
  /\ DOMAIN ctxReq = Prompts /\ \A r \in Prompts : CtxSound(ctxReq[r])
  /\ ctxCache \in Seq(Told)

LEMMA CtxInit == Context!Init => CtxInv
BY DEF Context!Init, CtxInv, CtxSound

LEMMA FailedSound == ASSUME NEW x PROVE CtxSound(Context!Failed(x))
BY DEF CtxSound, Context!Failed, Context!New

LEMMA NoneCounted == Context!Cardinality({}) = 0
BY FS_EmptySet, SameCount

(* One that is too long for what is left starts again with all of it.       *)
LEMMA FallbackSound ==
  ASSUME NEW x, Holding(x), x.evidence = {}
  PROVE  CtxSound(Context!Fallback(x))
<1> DEFINE again == [x EXCEPT !.kept = x.conv, !.text = Context!NoText, !.left = {}]
<1>1. /\ DOMAIN again = CtxFields /\ again.conv = x.conv /\ again.limit = x.limit /\ again.s = x.s
      /\ again.kept = x.conv /\ again.evidence = {}
    BY DEF Holding, CtxFields
<1> HIDE DEF again
<1>2. CASE x.s.fallback # "truncate"
    BY <1>2, FailedSound DEF Context!Fallback
<1>3. CASE x.s.fallback = "truncate" /\ Context!Cardinality(x.conv) <= x.limit
  <2> DEFINE y == Context!Over(again, "none_fallback")
  <2>1. /\ DOMAIN y = CtxFields /\ y.conv = x.conv /\ y.limit = x.limit /\ y.s = x.s
        /\ y.kept = x.conv /\ y.evidence = {} /\ y.at = "over" /\ y.action = "none_fallback"
      BY <1>1 DEF Context!Over, CtxFields
  <2> HIDE DEF y
  <2>2. Holding(y)
      BY <2>1 DEF Holding, Context!Source
  <2>3. Fitted(y)
      BY <1>3, <2>1, NoneCounted, PartCounts, ContextGiven DEF Fitted, Holding
  <2>4. Context!Fallback(x) = y
      BY <1>3 DEF Context!Fallback, y, again
  <2> QED
      BY <2>1, <2>2, <2>3, <2>4 DEF CtxSound
<1>4. CASE x.s.fallback = "truncate" /\ ~(Context!Cardinality(x.conv) <= x.limit)
  <2> DEFINE y == [again EXCEPT !.at = "truncating", !.action = "truncate_fallback"]
  <2>1. /\ DOMAIN y = CtxFields /\ y.conv = x.conv /\ y.limit = x.limit /\ y.s = x.s
        /\ y.kept = x.conv /\ y.evidence = {} /\ y.at = "truncating"
        /\ y.action = "truncate_fallback"
      BY <1>1 DEF CtxFields
  <2> HIDE DEF y
  <2>2. Holding(y)
      BY <2>1 DEF Holding, Context!Source
  <2>3. Context!Fallback(x) = y
      BY <1>4 DEF Context!Fallback, y, again
  <2> QED
      BY <2>1, <2>2, <2>3 DEF CtxSound
<1> QED
    BY <1>2, <1>3, <1>4

(* A conversation as it comes in.                                           *)
Fresh(c, l, s) ==
  [Context!New EXCEPT !.conv = c, !.kept = c, !.limit = l, !.s = s]

LEMMA FreshIs ==
  ASSUME NEW c, NEW l, NEW s
  PROVE  LET x == Fresh(c, l, s) IN
         /\ DOMAIN x = CtxFields /\ x.conv = c /\ x.kept = c /\ x.limit = l /\ x.s = s
         /\ x.evidence = {} /\ x.action = "none"
BY DEF Fresh, Context!New, CtxFields

LEMMA AllIsKept ==
  ASSUME NEW x, DOMAIN x = CtxFields, x.conv \in Conversations, x.limit \in Limits,
         x.s \in Configs, x.kept = x.conv
  PROVE  Holding(x)
BY DEF Holding, Context!Source

(* Whole, it fits or is taken to work.                                      *)
LEMMA WholeFits ==
  ASSUME NEW x, Holding(x), x.kept = x.conv, x.evidence = {}, x.action = "none",
         Context!Cardinality(x.conv) <= x.limit
  PROVE  CtxSound(Context!Over(x, "none"))
<1> DEFINE y == Context!Over(x, "none")
<1>1. /\ DOMAIN y = CtxFields /\ y.conv = x.conv /\ y.limit = x.limit /\ y.s = x.s
      /\ y.kept = x.conv /\ y.evidence = {} /\ y.at = "over" /\ y.action = "none"
    BY DEF Context!Over, CtxFields, Holding
<1> HIDE DEF y
<1>2. Holding(y)
    BY <1>1, AllIsKept DEF Holding
<1>3. Fitted(y)
    BY <1>1, NoneCounted, PartCounts, ContextGiven DEF Fitted, Holding
<1> QED
    BY <1>1, <1>2, <1>3 DEF CtxSound, y

LEMMA TruncatingSound ==
  ASSUME NEW x, Holding(x), x.kept = x.conv, x.evidence = {}
  PROVE  CtxSound([x EXCEPT !.at = "truncating", !.action = "truncate"])
<1> DEFINE y == [x EXCEPT !.at = "truncating", !.action = "truncate"]
<1>1. /\ DOMAIN y = CtxFields /\ y.conv = x.conv /\ y.limit = x.limit /\ y.s = x.s
      /\ y.kept = x.conv /\ y.evidence = {} /\ y.at = "truncating" /\ y.action = "truncate"
    BY DEF CtxFields, Holding
<1> HIDE DEF y
<1>2. Holding(y)
    BY <1>1, AllIsKept DEF Holding
<1> QED
    BY <1>1, <1>2 DEF CtxSound, y

LEMMA ProtectedIsPart ==
  ASSUME NEW c, NEW n PROVE Context!Protected(c, n) \subseteq c
BY DEF Context!Protected, Context!Newest, Context!History, Context!Speech

LEMMA PreparedSound ==
  ASSUME NEW c \in Conversations, NEW l \in Limits, NEW s \in Configs
  PROVE  CtxSound(Context!Prepared(Fresh(c, l, s)))
<1> DEFINE x == Fresh(c, l, s)
<1>1. /\ DOMAIN x = CtxFields /\ x.conv = c /\ x.kept = c /\ x.limit = l /\ x.s = s
      /\ x.evidence = {} /\ x.action = "none"
    BY FreshIs
<1> HIDE DEF x
<1>2. Holding(x)
    BY <1>1, AllIsKept
<1>3. /\ Context!Trigger(x) \in Nat /\ Context!Trigger(x) <= l
      /\ l \in Nat /\ Context!Cardinality(c) \in Nat
  <2>1. l \in Nat \ {0} /\ s.trigger \in 10..100
      BY ContextGiven
  <2>2. Context!Trigger(x) = Context!Max({(l * s.trigger) \div 100, 1})
      BY <1>1 DEF Context!Trigger
  <2>3. Context!Cardinality(c) \in Nat
      BY PartCounts
  <2> QED
      BY <2>1, <2>2, <2>3, WithinRatio
<1>4. CASE Context!Cardinality(c) <= (IF s.mode = "summarize" THEN Context!Trigger(x) ELSE l)
  <2>1. Context!Cardinality(x.conv) <= x.limit
      BY <1>1, <1>3, <1>4
  <2>2. Context!Prepared(x) = Context!Over(x, "none")
      BY <1>1, <1>4 DEF Context!Prepared
  <2> QED
      BY <1>1, <1>2, <2>1, <2>2, WholeFits DEF x
<1>5. CASE ~(Context!Cardinality(c) <= (IF s.mode = "summarize" THEN Context!Trigger(x) ELSE l))
  <2>1. s.mode \in {"disabled", "truncate", "summarize"}
      BY ServicesAssumption DEF Context!ContextAssumption, Context!Settings
  <2>2. CASE s.mode = "disabled"
    <3>1. Context!Prepared(x) = Context!Failed(x)
        BY <1>1, <1>5, <2>2 DEF Context!Prepared
    <3> QED
        BY <3>1, FailedSound DEF x
  <2>3. CASE s.mode = "truncate"
    <3>1. Context!Prepared(x) = [x EXCEPT !.at = "truncating", !.action = "truncate"]
        BY <1>1, <1>5, <2>3 DEF Context!Prepared
    <3>2. CtxSound([x EXCEPT !.at = "truncating", !.action = "truncate"])
        BY <1>1, <1>2, TruncatingSound
    <3>3. CtxSound(Context!Prepared(x))
        BY <3>1, <3>2, Zenon
    <3> QED
        BY <3>3 DEF x
  <2>4. CASE s.mode = "summarize"
    <3> DEFINE y == [x EXCEPT !.at = "selecting"]
    <3>1. Context!Prepared(x) = y
        BY <1>1, <1>5, <2>4 DEF Context!Prepared
    <3>2. /\ DOMAIN y = CtxFields /\ y.conv = c /\ y.limit = l /\ y.s = s
          /\ y.kept = c /\ y.evidence = {} /\ y.at = "selecting"
        BY <1>1 DEF CtxFields
    <3> HIDE DEF y
    <3>3. Holding(y) /\ Summarizing(y)
        BY <3>2, AllIsKept, ProtectedIsPart DEF Summarizing
    <3>4. CtxSound(y)
        BY <3>2, <3>3 DEF CtxSound
    <3> QED
        BY <3>1, <3>4 DEF x
  <2> QED
      BY <2>1, <2>2, <2>3, <2>4
<1> QED
    BY <1>4, <1>5

(* A turn is removed: what is kept begins with the next.                    *)
LEMMA TurnRemoved ==
  ASSUME NEW x, Holding(x), Context!OldestTurn(x.kept) # {}, NEW y, DOMAIN y = CtxFields,
         y.conv = x.conv, y.limit = x.limit, y.s = x.s,
         y.kept = x.kept \ Context!OldestTurn(x.kept)
  PROVE  Holding(y)
<1>1. x.kept \in SUBSET Nat /\ IsFiniteSet(x.kept)
    BY PartCounts DEF Holding
<1>2. StartsTurn(y.kept)
    BY <1>1, TurnLeaves
<1>3. Context!Source(y) \subseteq Context!Speech(y.conv)
  <2>1. Context!OldestTurn(x.kept) \subseteq Context!Speech(x.kept)
      BY TurnIsSpeech
  <2>2. Context!Speech(x.kept) \subseteq Context!Speech(x.conv)
      BY DEF Holding, Context!Speech
  <2> QED
      BY <2>1, <2>2 DEF Holding, Context!Source
<1> QED
    BY <1>2, <1>3 DEF Holding

LEMMA TruncateSound ==
  ASSUME NEW r \in Prompts, CtxSound(ctxReq[r]), Context!Truncate(r)
  PROVE  /\ ctxCache' = ctxCache
         /\ \E y : ctxReq' = [ctxReq EXCEPT ![r] = y] /\ CtxSound(y)
<1> DEFINE x == ctxReq[r]
           turn == Context!OldestTurn(x.kept)
           kept == x.kept \ turn
<1>1. /\ Holding(x) /\ x.at = "truncating" /\ x.evidence = {}
      /\ x.action \in {"truncate", "truncate_fallback"}
    BY DEF Context!Truncate, CtxSound, Context!New
<1> DEFINE z == [x EXCEPT !.kept = kept]
           new == IF turn = {} THEN Context!Failed(x)
                  ELSE IF Context!Cardinality(kept) <= x.limit THEN Context!Over(z, x.action)
                  ELSE z
<1>2. ctxCache' = ctxCache /\ ctxReq' = [ctxReq EXCEPT ![r] = new]
    BY DEF Context!Truncate, Context!Step
<1>3. CASE turn = {}
  <2>1. CtxSound(new)
      BY <1>3, FailedSound
  <2> QED
      BY <1>2, <2>1
<1>4. CASE turn # {}
  <2>1. /\ DOMAIN z = CtxFields /\ z.conv = x.conv /\ z.limit = x.limit /\ z.s = x.s
        /\ z.kept = kept /\ z.at = "truncating" /\ z.evidence = {} /\ z.action = x.action
      BY <1>1 DEF Holding, CtxFields
  <2> HIDE DEF z
  <2>2. Holding(z)
      BY <1>1, <1>4, <2>1, TurnRemoved
  <2>3. CASE Context!Cardinality(kept) <= x.limit
    <3> DEFINE y == Context!Over(z, x.action)
    <3>1. /\ DOMAIN y = CtxFields /\ y.conv = x.conv /\ y.limit = x.limit /\ y.s = x.s
          /\ y.kept = kept /\ y.at = "over" /\ y.evidence = {} /\ y.action = x.action
        BY <2>1 DEF Context!Over, CtxFields
    <3>2. new = y
        BY <1>4, <2>3
    <3> HIDE DEF y, new
    <3>3. Holding(y)
        BY <1>1, <1>4, <3>1, TurnRemoved
    <3>4. Context!Cardinality(kept) \in Nat /\ x.limit \in Nat
        BY <1>1, PartCounts, ContextGiven DEF Holding
    <3>5. Fitted(y)
        BY <1>1, <2>3, <3>1, <3>4, NoneCounted DEF Fitted
    <3>6. CtxSound(new)
        BY <3>1, <3>2, <3>3, <3>5 DEF CtxSound
    <3> QED
        BY <1>2, <3>6
  <2>4. CASE ~(Context!Cardinality(kept) <= x.limit)
    <3>1. new = z
        BY <1>4, <2>4
    <3> HIDE DEF new
    <3>2. CtxSound(new)
        BY <1>1, <2>1, <2>2, <3>1 DEF CtxSound
    <3> QED
        BY <1>2, <3>2
  <2> QED
      BY <2>3, <2>4
<1> QED
    BY <1>3, <1>4

LEMMA SelectSound ==
  ASSUME NEW r \in Prompts, CtxSound(ctxReq[r]), Context!Select(r)
  PROVE  /\ ctxCache' = ctxCache
         /\ \E y : ctxReq' = [ctxReq EXCEPT ![r] = y] /\ CtxSound(y)
<1> DEFINE x == ctxReq[r]
           turn == Context!OldestTurn(x.kept)
           kept == x.kept \ turn
           room == Context!Cardinality(kept) + Overhead + x.s.summaryMax + x.s.evidence
                     <= Context!Target(x)
<1>1. Holding(x) /\ x.at = "selecting" /\ Summarizing(x)
    BY DEF Context!Select, CtxSound, Context!New
<1> DEFINE at == IF room THEN "lookup" ELSE "selecting"
           z == [x EXCEPT !.kept = kept, !.at = at]
           stuck == turn = {} \/ turn \cap Context!Protected(x.kept, x.s.preserve) # {}
           new == IF stuck THEN Context!Fallback(x) ELSE z
<1>2. ctxCache' = ctxCache /\ ctxReq' = [ctxReq EXCEPT ![r] = new]
    BY DEF Context!Select, Context!Step
<1>3. at \in {"lookup", "selecting"}
    OBVIOUS
<1> HIDE DEF at
<1>4. CASE stuck
  <2>1. CtxSound(new)
      BY <1>1, <1>4, FallbackSound DEF Summarizing
  <2> QED
      BY <1>2, <2>1
<1>5. CASE ~stuck
  <2>1. /\ DOMAIN z = CtxFields /\ z.conv = x.conv /\ z.limit = x.limit /\ z.s = x.s
        /\ z.kept = kept /\ z.at = at /\ z.evidence = {}
      BY <1>1 DEF Holding, CtxFields, Summarizing
  <2>2. new = z
      BY <1>5
  <2> HIDE DEF z, new
  <2>3. Holding(z)
      BY <1>1, <1>5, <2>1, TurnRemoved
  <2>4. x.conv \in SUBSET Nat /\ IsFiniteSet(x.conv) /\ x.s.preserve \in Nat
      BY <1>1, ContextGiven DEF Holding
  <2>5. Context!Protected(x.conv, x.s.preserve) \subseteq kept
      BY <1>1, <1>5, <2>4, ProtectedStays DEF Holding, Summarizing
  <2>6. CtxSound(z)
      BY <1>3, <2>1, <2>3, <2>5 DEF CtxSound, Summarizing
  <2> QED
      BY <1>2, <2>2, <2>6
<1> QED
    BY <1>4, <1>5

-----------------------------------------------------------------------------
(* A text that covers the whole source, and fits, is told to cover it.      *)
LEMMA RenderedSound ==
  ASSUME NEW x, Holding(x), Summarizing(x), NEW text, Summary(x, text),
         text.covers = Context!Source(x)
  PROVE  CtxSound(Context!Rendered(x, text))
<1> DEFINE e == Context!Evidence(Context!Source(x), x.s.evidence)
<1>1. CASE Context!Renders(x, text)
  <2> DEFINE z == [x EXCEPT !.text = text, !.evidence = e]
             y == Context!Over(z, "summarize")
  <2>1. Context!Rendered(x, text) = y
      BY <1>1 DEF Context!Rendered
  <2>2. /\ DOMAIN y = CtxFields /\ y.conv = x.conv /\ y.limit = x.limit /\ y.s = x.s
        /\ y.kept = x.kept /\ y.evidence = e /\ y.at = "over" /\ y.action = "summarize"
        /\ y.text = text
      BY DEF Context!Over, CtxFields, Holding
  <2>3. /\ Context!Cardinality(x.kept) + Overhead + text.tokens + Context!Cardinality(e)
             <= Context!Target(x)
      BY <1>1 DEF Context!Renders
  <2>4. Context!Target(x) \in Nat /\ Context!Target(x) <= x.limit
      BY WithinRatio, ContextGiven DEF Context!Target, Holding
  <2>5. e \in SUBSET x.conv
    <3>1. e \subseteq Context!Source(x)
        BY DEF Context!Evidence
    <3> QED
        BY <3>1 DEF Context!Source
  <2>6. Context!Cardinality(x.kept) \in Nat /\ Context!Cardinality(e) \in Nat /\ x.limit \in Nat
      BY <2>5, PartCounts, ContextGiven DEF Holding
  <2> HIDE DEF y, e
  <2>7. Holding(y)
      BY <2>2 DEF Holding, Context!Source
  <2>8. Context!Cardinality(x.kept) + Context!Cardinality(e) + (Overhead + text.tokens) <= x.limit
      BY <2>3, <2>4, <2>6, ContextGiven DEF Summary
  <2>9. Fitted(y)
      BY <2>2, <2>8 DEF Fitted, Summarizing, Context!Source
  <2> QED
      BY <2>1, <2>2, <2>7, <2>9 DEF CtxSound
<1>2. CASE ~Context!Renders(x, text)
    BY <1>2, FallbackSound DEF Context!Rendered, Summarizing
<1> QED
    BY <1>1, <1>2

(* What the text does not cover is left.                                    *)
LEMMA ReadsSound ==
  ASSUME NEW x, Holding(x), Summarizing(x), NEW text, Summary(x, text)
  PROVE  CtxSound(Context!Reads(x, text))
<1> DEFINE left == Context!Source(x) \ text.covers
           y == [x EXCEPT !.at = "waiting", !.text = text, !.left = left]
<1>1. Context!Reads(x, text) = Context!Fallback(x) \/ Context!Reads(x, text) = y
    BY DEF Context!Reads
<1>2. CtxSound(Context!Fallback(x))
    BY FallbackSound DEF Summarizing
<1>3. /\ DOMAIN y = CtxFields /\ y.conv = x.conv /\ y.limit = x.limit /\ y.s = x.s
      /\ y.kept = x.kept /\ y.evidence = x.evidence /\ y.at = "waiting" /\ y.text = text
      /\ y.left = left
    BY DEF CtxFields, Holding
<1> HIDE DEF y
<1>4. Holding(y) /\ Summarizing(y) /\ Summary(y, y.text) /\ y.left = Context!Source(y) \ y.text.covers
    BY <1>3 DEF Holding, Summarizing, Summary, Context!Source
<1>5. CtxSound(y)
    BY <1>3, <1>4 DEF CtxSound
<1> QED
    BY <1>1, <1>2, <1>5

(* What is cached covers what it says it covers.                            *)
LEMMA CacheTells ==
  ASSUME CtxInv, NEW x, Holding(x), NEW i \in Context!Cached(x)
  PROVE  /\ i \in 1..Len(ctxCache) /\ Summary(x, ctxCache[i].text)
         /\ ctxCache[i].text.covers = ctxCache[i].boundary
<1>1. i \in DOMAIN ctxCache /\ Context!Begins(ctxCache[i].boundary, Context!Source(x))
    BY DEF Context!Cached
<1>2. i \in 1..Len(ctxCache) /\ ctxCache[i] \in Told
    BY <1>1 DEF CtxInv
<1>3. ctxCache[i].boundary \subseteq Context!Source(x)
  <2>1. \A S, n : Context!Oldest(S, n) \subseteq S
      BY DEF Context!Oldest
  <2>2. ctxCache[i].boundary =
          Context!Oldest(Context!Source(x), Context!Cardinality(ctxCache[i].boundary))
      BY <1>1 DEF Context!Begins
  <2> QED
      BY <2>1, <2>2
<1> QED
    BY <1>2, <1>3 DEF Told, Summary

LEMMA Without ==
  ASSUME ctxCache \in Seq(Told), NEW i \in 1..Len(ctxCache)
  PROVE  Context!RemoveAt(ctxCache, i) \in Seq(Told)
<1>1. SubSeq(ctxCache, 1, i - 1) \in Seq(Told) /\ SubSeq(ctxCache, i + 1, Len(ctxCache)) \in Seq(Told)
    BY SubSeqProperties
<1> QED
    BY <1>1 DEF Context!RemoveAt

LEMMA TouchTold ==
  ASSUME ctxCache \in Seq(Told), NEW i \in 1..Len(ctxCache)
  PROVE  Context!Touch(i) \in Seq(Told)
<1>1. ctxCache[i] \in Told /\ Context!RemoveAt(ctxCache, i) \in Seq(Told)
    BY Without
<1> QED
    BY <1>1, AppendProperties DEF Context!Touch

LEMMA MaxOfTwo ==
  ASSUME NEW a \in Int, NEW b \in Int
  PROVE  Context!Max({a, b}) \in {a, b} /\ Context!Max({a, b}) >= a
<1>1. \E m \in {a, b} : \A k \in {a, b} : m >= k
    OBVIOUS
<1>2. Context!Max({a, b}) \in {a, b} /\ \A k \in {a, b} : Context!Max({a, b}) >= k
    BY <1>1, Zenon DEF Context!Max
<1> QED
    BY <1>2

LEMMA PutTold ==
  ASSUME ctxCache \in Seq(Told), NEW e \in Told, NEW size \in Nat
  PROVE  Context!Put(e, size) \in Seq(Told)
<1> DEFINE rest == IF Context!Same(e) = {} THEN ctxCache
                   ELSE Context!RemoveAt(ctxCache, CHOOSE i \in Context!Same(e) : TRUE)
           all == Append(rest, e)
           n == Context!Max({1, Len(all) - size + 1})
<1>1. rest \in Seq(Told)
  <2>1. CASE Context!Same(e) = {}
      BY <2>1
  <2>2. CASE Context!Same(e) # {}
    <3>1. (CHOOSE i \in Context!Same(e) : TRUE) \in Context!Same(e)
        BY <2>2
    <3>2. Context!Same(e) \subseteq 1..Len(ctxCache)
        BY DEF Context!Same
    <3> QED
        BY <2>2, <3>1, <3>2, Without
  <2> QED
      BY <2>1, <2>2
<1> HIDE DEF rest
<1>2. all \in Seq(Told) /\ Len(all) \in Nat
    BY <1>1, AppendProperties
<1> HIDE DEF all
<1>3. n \in Int /\ n >= 1
  <2>1. Len(all) - size + 1 \in Int
      BY <1>2
  <2> QED
      BY <2>1, MaxOfTwo
<1> HIDE DEF n
<1>4. SubSeq(all, n, Len(all)) \in Seq(Told)
    BY <1>2, <1>3, SubSeqProperties
<1> QED
    BY <1>4 DEF Context!Put, n, all, rest

(* The semaphore, a call, and what ends the work.                           *)
LEMMA MovesSound ==
  ASSUME NEW x, Holding(x), x.at \in {"waiting", "calling"}, CtxSound(x)
  PROVE  /\ CtxSound([x EXCEPT !.at = "calling"])
         /\ \A t \in SummaryTokens :
              LET chunk == Context!Oldest(x.left, x.s.chunk) IN
              CtxSound([x EXCEPT !.text = [covers |-> x.text.covers \cup chunk, tokens |-> t],
                                 !.left = x.left \ chunk,
                                 !.at = IF chunk = x.left THEN "render" ELSE "calling"])
<1>1. /\ Summarizing(x) /\ Summary(x, x.text) /\ x.left = Context!Source(x) \ x.text.covers
      /\ DOMAIN x = CtxFields
    BY DEF CtxSound, Context!New, Holding
<1>2. CtxSound([x EXCEPT !.at = "calling"])
  <2> DEFINE y == [x EXCEPT !.at = "calling"]
  <2>1. /\ DOMAIN y = CtxFields /\ y.conv = x.conv /\ y.limit = x.limit /\ y.s = x.s
        /\ y.kept = x.kept /\ y.evidence = x.evidence /\ y.at = "calling" /\ y.text = x.text
        /\ y.left = x.left
      BY <1>1 DEF CtxFields
  <2> HIDE DEF y
  <2>2. Holding(y) /\ Summarizing(y) /\ Summary(y, y.text)
        /\ y.left = Context!Source(y) \ y.text.covers
      BY <1>1, <2>1 DEF Holding, Summarizing, Summary, Context!Source
  <2>3. CtxSound(y)
      BY <2>1, <2>2 DEF CtxSound
  <2> QED
      BY <2>3 DEF y
<1>3. ASSUME NEW t \in SummaryTokens
      PROVE  LET chunk == Context!Oldest(x.left, x.s.chunk) IN
             CtxSound([x EXCEPT !.text = [covers |-> x.text.covers \cup chunk, tokens |-> t],
                                !.left = x.left \ chunk,
                                !.at = IF chunk = x.left THEN "render" ELSE "calling"])
  <2> DEFINE chunk == Context!Oldest(x.left, x.s.chunk)
             text == [covers |-> x.text.covers \cup chunk, tokens |-> t]
             at == IF chunk = x.left THEN "render" ELSE "calling"
             y == [x EXCEPT !.text = text, !.left = x.left \ chunk, !.at = at]
  <2>1. /\ DOMAIN y = CtxFields /\ y.conv = x.conv /\ y.limit = x.limit /\ y.s = x.s
        /\ y.kept = x.kept /\ y.evidence = x.evidence /\ y.at = at /\ y.text = text
        /\ y.left = x.left \ chunk
      BY <1>1 DEF CtxFields
  <2>2. chunk \subseteq x.left
      BY DEF Context!Oldest
  <2>3. text.covers = x.text.covers \cup chunk /\ text \in [covers : SUBSET Context!Source(x), tokens : Nat]
    <3>1. x.text.covers \subseteq Context!Source(x) /\ chunk \subseteq Context!Source(x) /\ t \in Nat
        BY <1>1, <2>2, ContextGiven DEF Summary
    <3> HIDE DEF chunk
    <3> QED
        BY <3>1
  <2>4. (at = "calling" \/ at = "render") /\ (at = "render" => chunk = x.left)
      OBVIOUS
  <2> HIDE DEF y, text, at, chunk
  <2>5. Holding(y) /\ Summarizing(y) /\ Summary(y, y.text)
        /\ y.left = Context!Source(y) \ y.text.covers
      BY <1>1, <2>1, <2>2, <2>3 DEF Holding, Summarizing, Summary, Context!Source
  <2>6. at = "render" => y.text.covers = Context!Source(y)
      BY <1>1, <2>1, <2>3, <2>4 DEF Summary, Context!Source
  <2>7. CtxSound(y)
      BY <2>1, <2>4, <2>5, <2>6 DEF CtxSound
  <2> QED
      BY <2>7 DEF y, text, at, chunk
<1> QED
    BY <1>2, <1>3

(* One request moves, and the cache tells the truth.                        *)
Sound(r) ==
  /\ ctxCache' \in Seq(Told)
  /\ \E y : ctxReq' = [ctxReq EXCEPT ![r] = y] /\ CtxSound(y)

LEMMA PrepareKeeps ==
  ASSUME CtxInv, NEW r \in Prompts, Context!Prepare(r) \/ Context!PrepareResponses(r)
  PROVE  Sound(r)
<1>1. CASE Context!Prepare(r)
  <2>1. PICK c \in Conversations, l \in Limits, s \in Configs :
               Context!Step(r, Context!Prepared(Fresh(c, l, s)))
      BY <1>1 DEF Context!Prepare, Fresh
  <2>2. CtxSound(Context!Prepared(Fresh(c, l, s)))
      BY PreparedSound
  <2> QED
      BY <2>1, <2>2 DEF Context!Step, Sound, CtxInv
<1>2. CASE Context!PrepareResponses(r)
  <2>1. PICK c \in Conversations, l \in Limits, s \in Configs :
          LET x == Fresh(c, l, s) IN
          Context!Step(r, IF Context!Cardinality(c) <= l THEN Context!Over(x, "none")
                          ELSE IF s.mode # "truncate" THEN Context!Failed(x)
                          ELSE [x EXCEPT !.at = "truncating", !.action = "truncate"])
      BY <1>2 DEF Context!PrepareResponses, Fresh
  <2> DEFINE x == Fresh(c, l, s)
             new == IF Context!Cardinality(c) <= l THEN Context!Over(x, "none")
                    ELSE IF s.mode # "truncate" THEN Context!Failed(x)
                    ELSE [x EXCEPT !.at = "truncating", !.action = "truncate"]
  <2>2. /\ DOMAIN x = CtxFields /\ x.conv = c /\ x.kept = c /\ x.limit = l /\ x.s = s
        /\ x.evidence = {} /\ x.action = "none"
      BY FreshIs
  <2>3. Context!Step(r, new)
      BY <2>1
  <2> HIDE DEF x
  <2>4. Holding(x)
      BY <2>2, AllIsKept
  <2>5. CtxSound(new)
      BY <2>2, <2>4, WholeFits, TruncatingSound, FailedSound
  <2> QED
      BY <2>3, <2>5 DEF Context!Step, Sound, CtxInv
<1> QED
    BY <1>1, <1>2

LEMMA FitKeeps ==
  ASSUME CtxInv, NEW r \in Prompts, Context!Truncate(r) \/ Context!Select(r)
  PROVE  Sound(r)
<1>1. CtxSound(ctxReq[r])
    BY DEF CtxInv
<1> QED
    BY <1>1, TruncateSound, SelectSound DEF Sound, CtxInv

LEMMA LookupKeeps ==
  ASSUME CtxInv, NEW r \in Prompts, Context!Hit(r) \/ Context!Miss(r)
  PROVE  Sound(r)
<1> DEFINE x == ctxReq[r]
<1>1. Holding(x) /\ Summarizing(x)
    BY DEF CtxInv, CtxSound, Context!Hit, Context!Miss, Context!New
<1>2. CASE Context!Hit(r)
  <2>1. PICK i \in Context!Cached(x) :
          /\ ctxCache' = Context!Touch(i)
          /\ ctxReq' = [ctxReq EXCEPT ![r] =
               IF ctxCache[i].boundary = Context!Source(x)
                 THEN Context!Rendered(x, ctxCache[i].text)
               ELSE Context!Reads(x, ctxCache[i].text)]
      BY <1>2 DEF Context!Hit
  <2>2. /\ i \in 1..Len(ctxCache) /\ Summary(x, ctxCache[i].text)
        /\ ctxCache[i].text.covers = ctxCache[i].boundary
      BY <1>1, CacheTells
  <2>3. ctxCache' \in Seq(Told)
      BY <2>1, <2>2, TouchTold DEF CtxInv
  <2>4. CASE ctxCache[i].boundary = Context!Source(x)
    <3>1. CtxSound(Context!Rendered(x, ctxCache[i].text))
        BY <1>1, <2>2, <2>4, RenderedSound
    <3> QED
        BY <2>1, <2>3, <2>4, <3>1 DEF Sound
  <2>5. CASE ctxCache[i].boundary # Context!Source(x)
    <3>1. CtxSound(Context!Reads(x, ctxCache[i].text))
        BY <1>1, <2>2, ReadsSound
    <3> QED
        BY <2>1, <2>3, <2>5, <3>1 DEF Sound
  <2> QED
      BY <2>4, <2>5
<1>3. CASE Context!Miss(r)
  <2>1. Summary(x, Context!NoText)
      BY DEF Summary, Context!NoText
  <2>2. CtxSound(Context!Reads(x, Context!NoText))
      BY <1>1, <2>1, ReadsSound
  <2> QED
      BY <1>3, <2>2 DEF Context!Miss, Context!Step, Sound, CtxInv
<1> QED
    BY <1>2, <1>3

LEMMA CallKeeps ==
  ASSUME CtxInv, NEW r \in Prompts, Context!Acquire(r) \/ Context!Summarized(r)
  PROVE  Sound(r)
<1> DEFINE x == ctxReq[r]
<1>1. CtxSound(x) /\ Holding(x) /\ x.at \in {"waiting", "calling"}
  <2>1. CtxSound(x) /\ x.at \in {"waiting", "calling"}
      BY DEF CtxInv, Context!Acquire, Context!Summarized
  <2> HIDE DEF x
  <2> QED
      BY <2>1 DEF CtxSound, Context!New
<1>2. CASE Context!Acquire(r)
    BY <1>1, <1>2, MovesSound DEF Context!Acquire, Context!Step, Sound, CtxInv
<1>3. CASE Context!Summarized(r)
    BY <1>1, <1>3, MovesSound DEF Context!Summarized, Context!Step, Sound, CtxInv
<1> QED
    BY <1>2, <1>3

LEMMA RenderKeeps ==
  ASSUME CtxInv, NEW r \in Prompts, Context!Render(r) PROVE Sound(r)
<1> DEFINE x == ctxReq[r]
           e == [boundary |-> Context!Source(x), text |-> x.text]
<1>1. /\ Holding(x) /\ Summarizing(x) /\ Summary(x, x.text)
      /\ x.text.covers = Context!Source(x)
    BY DEF CtxInv, CtxSound, Context!Render, Context!New
<1>2. CtxSound(Context!Rendered(x, x.text))
    BY <1>1, RenderedSound
<1>3. ctxCache' \in Seq(Told)
  <2>1. x.s.cache \in Nat
      BY <1>1, ServicesAssumption DEF Holding, Context!ContextAssumption, Context!Settings
  <2>2. Context!Source(x) \in SUBSET Nat
      BY <1>1, ContextGiven DEF Holding, Context!Source
  <2>3. x.text \in [covers : SUBSET Nat, tokens : Nat]
      BY <1>1, <2>2 DEF Summary
  <2>4. e \in Told
      BY <1>1, <2>2, <2>3 DEF Told
  <2> QED
      BY <2>1, <2>4, PutTold DEF CtxInv, Context!Render
<1> QED
    BY <1>2, <1>3 DEF Context!Render, Sound

LEMMA RequestEndKeeps ==
  ASSUME CtxInv, NEW r \in Prompts, Context!Timeout(r) \/ Context!Cancelled(r)
  PROVE  Sound(r)
<1> DEFINE x == ctxReq[r]
<1>1. CASE Context!Timeout(r)
  <2>1. Holding(x) /\ x.evidence = {}
      BY <1>1 DEF CtxInv, CtxSound, Context!Timeout, Context!New, Summarizing
  <2>2. CtxSound(Context!Fallback(x))
      BY <2>1, FallbackSound
  <2> QED
      BY <1>1, <2>2 DEF Context!Timeout, Context!Step, Sound, CtxInv
<1>2. CASE Context!Cancelled(r)
    BY <1>2, FailedSound DEF Context!Cancelled, Context!Step, Sound, CtxInv
<1> QED
    BY <1>1, <1>2

LEMMA CtxKeeps == CtxInv /\ [Context!Next]_(Context!vars) => CtxInv'
<1> SUFFICES ASSUME CtxInv, [Context!Next]_(Context!vars) PROVE CtxInv'
    OBVIOUS
<1>1. ASSUME NEW r \in Prompts, Sound(r) PROVE CtxInv'
    BY <1>1 DEF Sound, CtxInv
<1>2. CASE Context!Next
  <2>1. PICK r \in Prompts :
          \/ Context!Prepare(r) \/ Context!PrepareResponses(r) \/ Context!Truncate(r)
          \/ Context!Select(r) \/ Context!Hit(r) \/ Context!Miss(r) \/ Context!Acquire(r)
          \/ Context!Summarized(r) \/ Context!Render(r) \/ Context!Timeout(r)
          \/ Context!Cancelled(r)
      BY <1>2, Zenon DEF Context!Next
  <2>2. Sound(r)
      BY <2>1, PrepareKeeps, FitKeeps, LookupKeeps, CallKeeps, RenderKeeps, RequestEndKeeps
  <2> QED
      BY <1>1, <2>2
<1>3. CASE UNCHANGED Context!vars
    BY <1>3 DEF Context!vars, CtxInv
<1> QED
    BY <1>2, <1>3

LEMMA TurnsAreKept ==
  ASSUME NEW x, Holding(x), x.kept # x.conv
  PROVE  Speaker[Context!Min(Context!Speech(x.kept))] = "user"
<1>1. x.conv \in Conversations /\ x.kept \in SUBSET x.conv /\ StartsTurn(x.kept)
    BY DEF Holding
<1>2. x.conv \in SUBSET Nat
    BY <1>1, ContextGiven
<1>3. x.kept \in SUBSET Nat
    BY <1>1, <1>2
<1> QED
    BY <1>1, <1>3, StartsWithUser

(* Whatever a history loses to its limit, it loses by whole turns from the  *)
(* front; what is kept, with the summary and the evidence, fits; nothing is *)
(* in neither the prompt nor the summary, also when the summary was made    *)
(* for another request; and system messages and what was to be preserved    *)
(* stay.                                                                    *)
THEOREM HistoriesAreSound == Context!Spec => []ContextSound
<1>1. CtxInv => ContextSound
  <2> SUFFICES ASSUME CtxInv PROVE ContextSound
      OBVIOUS
  <2>1. \A r \in Context!Accepted : Holding(ctxReq[r]) /\ Fitted(ctxReq[r])
      BY DEF Context!Accepted, CtxInv, CtxSound, Context!New
  <2>2. Context!Fits
      BY <2>1 DEF Context!Fits, Fitted
  <2>3. Context!NothingSlips
      BY <2>1 DEF Context!NothingSlips, Fitted, Holding
  <2>4. Context!WholeTurns
    <3> SUFFICES ASSUME NEW r \in Context!Accepted, ctxReq[r].kept # ctxReq[r].conv
                 PROVE  Speaker[Context!Min(Context!Speech(ctxReq[r].kept))] = "user"
        BY DEF Context!WholeTurns
    <3>1. Holding(ctxReq[r])
        BY <2>1
    <3> QED
        BY <3>1, TurnsAreKept
  <2>5. Context!RecentKept
      BY <2>1 DEF Context!RecentKept, Fitted
  <2> QED
      BY <2>2, <2>3, <2>4, <2>5 DEF ContextSound, Context!ContextSound
<1> QED
    BY <1>1, CtxInit, CtxKeeps, PTL DEF Context!Spec
-----------------------------------------------------------------------------
(* Reranking: what the constants are.                                       *)
LEMMA RankGiven ==
  /\ \A r \in Queries : /\ Len(r.documents) \in Nat /\ Rank!Numeric(r.parameters)
                        /\ r.length \in Int \cup {None} /\ r.size \in Int \cup {None}
                        /\ r.cap \in Int \cup {None}
  /\ \A c \in Ranks : /\ c.length \in Int /\ c.size \in Int
                      /\ c.maxSize \in Int /\ c.batchTokens \in Int
                      /\ \A n \in DOMAIN c.strategies : Rank!Numeric(c.strategies[n].parameters)
  /\ \A b \in Databases \ {NoRows} : \A n \in DOMAIN b : Rank!Numeric(b[n].parameters)
  /\ None \notin RankScores /\ RankScores \subseteq Int
BY ServicesAssumption DEF Rank!RerankAssumption

-----------------------------------------------------------------------------
(* Reranking: the ranking.  An item has a place, the number of those before *)
(* it, and no two items have the same.                                      *)
RankSize == Len(rankScores)
Items == {Rank!Item(d) : d \in 1..RankSize}
IsRanking(r) ==
  /\ r \in [1..RankSize -> Items]
  /\ \A i, j \in 1..RankSize : i < j => Rank!Before(r[i], r[j])

LEMMA ItemFields ==
  ASSUME rankScores \in Seq(RankScores), NEW i \in Items
  PROVE  /\ i.index \in 1..RankSize /\ i.score \in Int /\ i = Rank!Item(i.index)
         /\ i.score = rankScores[i.index]
<1>1. PICK d \in 1..RankSize : i = Rank!Item(d)
    BY DEF Items
<1>2. rankScores[d] \in Int
  <2>1. rankScores[d] \in RankScores
      BY <1>1 DEF RankSize
  <2> QED
      BY <2>1, RankGiven
<1>3. i.index = d /\ i.score = rankScores[d]
    BY <1>1 DEF Rank!Item
<1> QED
    BY <1>1, <1>2, <1>3, Zenon

LEMMA BeforeIsOrder ==
  ASSUME rankScores \in Seq(RankScores), NEW a \in Items, NEW b \in Items, NEW c \in Items
  PROVE  /\ ~Rank!Before(a, a)
         /\ Rank!Before(a, b) /\ Rank!Before(b, c) => Rank!Before(a, c)
         /\ a = b \/ Rank!Before(a, b) \/ Rank!Before(b, a)
<1>1. /\ a.index \in Int /\ a.score \in Int /\ b.index \in Int /\ b.score \in Int
      /\ c.index \in Int /\ c.score \in Int
    BY ItemFields
<1>2. a.index = b.index => a = b
    BY ItemFields
<1> QED
    BY <1>1, <1>2 DEF Rank!Before

LEMMA ItemsCounted ==
  ASSUME rankScores \in Seq(RankScores)
  PROVE  IsFiniteSet(Items) /\ Cardinality(Items) = RankSize /\ RankSize \in Nat
<1>1. RankSize \in Nat
    BY DEF RankSize
<1> DEFINE f == [d \in 1..RankSize |-> Rank!Item(d)]
<1>2. \A d \in 1..RankSize : Rank!Item(d).index = d
    BY DEF Rank!Item
<1>3. f \in Bijection(1..RankSize, Items)
  <2>1. f \in [1..RankSize -> Items]
      BY DEF Items
  <2>2. \A a, b \in 1..RankSize : f[a] = f[b] => a = b
      BY <1>2
  <2>3. \A i \in Items : \E d \in 1..RankSize : f[d] = i
      BY DEF Items
  <2> QED
      BY <2>1, <2>2, <2>3 DEF Bijection, Injection, Surjection, IsInjective
<1>4. ExistsBijection(1..RankSize, Items)
    BY <1>3 DEF ExistsBijection
<1>5. IsFiniteSet(1..RankSize) /\ Cardinality(1..RankSize) = RankSize
    BY <1>1, FS_Interval
<1> QED
    BY <1>1, <1>4, <1>5, FS_Bijection

Preceding(a) == {b \in Items : Rank!Before(b, a)}

LEMMA RankingExists == ASSUME rankScores \in Seq(RankScores) PROVE \E r : IsRanking(r)
<1>1. IsFiniteSet(Items) /\ Cardinality(Items) = RankSize /\ RankSize \in Nat
    BY ItemsCounted
<1>2. ASSUME NEW a \in Items
      PROVE  IsFiniteSet(Preceding(a)) /\ Cardinality(Preceding(a)) \in 0..(RankSize - 1)
  <2>1. Preceding(a) \in SUBSET Items /\ a \notin Preceding(a)
      BY BeforeIsOrder DEF Preceding
  <2>2. /\ IsFiniteSet(Preceding(a)) /\ Cardinality(Preceding(a)) <= RankSize
        /\ RankSize = Cardinality(Preceding(a)) => Items = Preceding(a)
      BY <1>1, <2>1, FS_Subset
  <2>3. Cardinality(Preceding(a)) \in Nat
      BY <2>2, FS_CardinalityType
  <2> QED
      BY <1>1, <2>1, <2>2, <2>3
<1>3. ASSUME NEW a \in Items, NEW b \in Items, Rank!Before(a, b)
      PROVE  Cardinality(Preceding(a)) < Cardinality(Preceding(b))
  <2>1. Preceding(a) \in SUBSET Preceding(b) /\ a \in Preceding(b) /\ a \notin Preceding(a)
      BY <1>3, BeforeIsOrder DEF Preceding
  <2>2. /\ Cardinality(Preceding(a)) <= Cardinality(Preceding(b))
        /\ Cardinality(Preceding(b)) = Cardinality(Preceding(a)) => Preceding(b) = Preceding(a)
      BY <1>2, <2>1, FS_Subset
  <2> QED
      BY <1>2, <2>1, <2>2
<1> DEFINE place == [a \in Items |-> Cardinality(Preceding(a)) + 1]
<1>4. place \in [Items -> 1..RankSize]
    BY <1>1, <1>2
<1>5. \A a, b \in Items : place[a] = place[b] => a = b
  <2> SUFFICES ASSUME NEW a \in Items, NEW b \in Items, place[a] = place[b], a # b PROVE FALSE
      OBVIOUS
  <2>1. Rank!Before(a, b) \/ Rank!Before(b, a)
      BY BeforeIsOrder
  <2>2. Cardinality(Preceding(a)) = Cardinality(Preceding(b))
      BY <1>2
  <2> QED
      BY <1>2, <1>3, <2>1, <2>2
<1>6. \A n \in 1..RankSize : \E a \in Items : place[a] = n
  <2>1. place \in Injection(Items, 1..RankSize)
      BY <1>4, <1>5 DEF Injection, IsInjective
  <2>2. IsFiniteSet(1..RankSize) /\ Cardinality(1..RankSize) = RankSize
      BY <1>1, FS_Interval
  <2>3. place \in Surjection(Items, 1..RankSize)
      BY <1>1, <2>1, <2>2, FS_Injection
  <2> QED
      BY <2>3 DEF Surjection
<1> DEFINE r == [n \in 1..RankSize |-> CHOOSE a \in Items : place[a] = n]
<1>7. \A n \in 1..RankSize : r[n] \in Items /\ place[r[n]] = n
    BY <1>6
<1>8. ASSUME NEW i \in 1..RankSize, NEW j \in 1..RankSize, i < j PROVE Rank!Before(r[i], r[j])
  <2>1. r[i] \in Items /\ r[j] \in Items /\ place[r[i]] = i /\ place[r[j]] = j
      BY <1>7
  <2>2. Cardinality(Preceding(r[i])) < Cardinality(Preceding(r[j]))
      BY <1>1, <1>2, <1>8, <2>1
  <2>3. ~Rank!Before(r[j], r[i])
      BY <1>2, <1>3, <2>1, <2>2
  <2>4. r[i] # r[j]
      BY <1>1, <1>8, <2>1
  <2> QED
      BY <2>1, <2>3, <2>4, BeforeIsOrder
<1> HIDE DEF r
<1>9. IsRanking(r)
  <2>1. r \in [1..RankSize -> Items]
      BY <1>7 DEF r
  <2> QED
      BY <1>8, <2>1 DEF IsRanking
<1> QED
    BY <1>9

(* The ranking has every item, in order.                                    *)
LEMMA RankedRanks ==
  ASSUME rankScores \in Seq(RankScores)
  PROVE  IsRanking(Rank!Ranked) /\ \A a \in Items : \E n \in 1..RankSize : Rank!Ranked[n] = a
<1>1. PICK r : IsRanking(r)
    BY RankingExists
<1>2. r \in [1..RankSize -> Items]
    BY <1>1 DEF IsRanking
<1>3. /\ Rank!Ranked \in [1..RankSize -> Items]
      /\ \A i, j \in 1..RankSize : i < j => Rank!Before(Rank!Ranked[i], Rank!Ranked[j])
  <2>1. \E q \in [1..RankSize -> Items] : \A i, j \in 1..RankSize : i < j => Rank!Before(q[i], q[j])
      BY <1>1, <1>2 DEF IsRanking
  <2>2. Rank!Ranked = CHOOSE q \in [1..RankSize -> Items] :
                        \A i, j \in 1..RankSize : i < j => Rank!Before(q[i], q[j])
      BY DEF Rank!Ranked, Items, RankSize
  <2> QED
      BY <2>1, <2>2, Zenon
<1>4. IsRanking(Rank!Ranked)
    BY <1>3 DEF IsRanking
<1> DEFINE s == Rank!Ranked
<1> HIDE DEF s
<1>5. IsFiniteSet(Items) /\ Cardinality(Items) = RankSize /\ RankSize \in Nat
    BY ItemsCounted
<1>6. \A i, j \in 1..RankSize : s[i] = s[j] => i = j
  <2> SUFFICES ASSUME NEW i \in 1..RankSize, NEW j \in 1..RankSize, s[i] = s[j], i < j PROVE FALSE
      BY <1>5
  <2>1. s[i] \in Items /\ Rank!Before(s[i], s[j])
      BY <1>3 DEF s
  <2> QED
      BY <2>1, BeforeIsOrder
<1>7. s \in Injection(1..RankSize, Items)
    BY <1>3, <1>6 DEF s, Injection, IsInjective
<1>8. IsFiniteSet(1..RankSize) /\ Cardinality(1..RankSize) = RankSize
    BY <1>5, FS_Interval
<1>9. s \in Surjection(1..RankSize, Items)
    BY <1>5, <1>7, <1>8, FS_Injection
<1> QED
    BY <1>4, <1>9 DEF s, Surjection

(* Reranking: the walk.  It is defined, place by place.                     *)
Walks(f, n) ==
  IF n = 0 THEN <<>>
  ELSE IF Rank!PassesOver(f[n - 1], Rank!Ranked[n]) THEN f[n - 1]
  ELSE Append(f[n - 1], Rank!Ranked[n])

LEMMA WalkExists ==
  ASSUME NEW m \in Nat
  PROVE  \E f : f = [n \in 0..m |-> Walks(f, n)]
<1> DEFINE Defined(k) == \E f : f = [n \in 0..k |-> Walks(f, n)]
           Bad == {k \in Nat : ~Defined(k)}
<1>1. Defined(0)
  <2> DEFINE f == [n \in 0..0 |-> <<>>]
  <2>1. \A n \in 0..0 : Walks(f, n) = <<>>
      BY DEF Walks
  <2>2. f = [n \in 0..0 |-> Walks(f, n)]
      BY <2>1
  <2> QED
      BY <2>2
<1>2. ASSUME NEW k \in Nat, Defined(k) PROVE Defined(k + 1)
  <2>1. PICK f : f = [n \in 0..k |-> Walks(f, n)]
      BY <1>2
  <2> DEFINE g == [n \in 0..(k + 1) |-> IF n <= k THEN f[n] ELSE Walks(f, n)]
  <2>2. ASSUME NEW n \in 0..(k + 1) PROVE g[n] = Walks(g, n)
    <3>1. n # 0 => n - 1 \in 0..k /\ g[n - 1] = f[n - 1]
        BY <2>2
    <3>2. Walks(g, n) = Walks(f, n)
        BY <3>1 DEF Walks
    <3>3. n <= k => f[n] = Walks(f, n)
        BY <2>1, <2>2
    <3> QED
        BY <3>2, <3>3
  <2>3. g = [n \in 0..(k + 1) |-> Walks(g, n)]
      BY <2>2
  <2> HIDE DEF g
  <2> QED
      BY <2>3
<1> HIDE DEF Defined
<1>3. Bad = {}
  <2> SUFFICES ASSUME Bad # {} PROVE FALSE
      OBVIOUS
  <2>1. PICK k \in Bad : \A j \in Bad : k <= j
      BY LeastExists
  <2>2. k # 0 /\ k \in Nat
      BY <1>1, <2>1
  <2>3. k - 1 \in Nat /\ k - 1 \notin Bad
      BY <2>1, <2>2
  <2> QED
      BY <1>2, <2>1, <2>2, <2>3
<1> QED
    BY <1>3 DEF Defined

LEMMA WalkIs ==
  ASSUME RankSize \in Nat, NEW n \in 0..RankSize
  PROVE  Rank!Chosen[n] = Walks(Rank!Chosen, n)
<1>1. \E f : f = [k \in 0..RankSize |-> Walks(f, k)]
    BY WalkExists
<1>2. Rank!Chosen = CHOOSE f : f = [k \in 0..RankSize |-> Walks(f, k)]
    BY DEF Rank!Chosen, Walks, RankSize
<1>3. Rank!Chosen = [k \in 0..RankSize |-> Walks(Rank!Chosen, k)]
    BY <1>1, <1>2, Zenon
<1> QED
    BY <1>3

(* What is chosen of the first n items of the ranking: they are in order    *)
(* and fit, and what is not chosen does not, or comes behind enough.        *)
Fit(i) == ~Rank!TooLow(i) /\ ~Rank!Unmatched(i)
Doubled(a, b) ==
  rankStrategy.method = "diversity" /\ Rank!Before(a, b) /\ Rank!Alike(a.index, b.index)

InPart(c, n) == \A i \in 1..Len(c) : \E m \in 1..n : c[i] = Rank!Ranked[m]
Ordered(c) == \A i, j \in 1..Len(c) : i < j => Rank!Before(c[i], c[j])
Within(c) == "top_n" \in DOMAIN Rank!P => Len(c) <= Rank!P["top_n"]
AllFit(c) ==
  \A i \in 1..Len(c) : Fit(c[i]) /\ \A j \in 1..Len(c) : ~Doubled(c[j], c[i])
Reason(c, a) ==
  \/ \E i \in 1..Len(c) : c[i] = a
  \/ ~Fit(a)
  \/ \E i \in 1..Len(c) : Doubled(c[i], a)
  \/ Rank!Full(c) /\ \A i \in 1..Len(c) : Rank!Before(c[i], a)

Selected(c, n) ==
  /\ c \in Seq(Items) /\ InPart(c, n) /\ Ordered(c) /\ Within(c) /\ AllFit(c)
  /\ \A m \in 1..n : Reason(c, Rank!Ranked[m])

Tuned == "top_n" \in DOMAIN Rank!P => Rank!P["top_n"] \in Nat

LEMMA EmptySelected == ASSUME Tuned PROVE Selected(<<>>, 0)
<1>1. <<>> \in Seq(Items) /\ Len(<<>>) = 0
    OBVIOUS
<1> QED
    BY <1>1 DEF Selected, InPart, Ordered, Within, AllFit, Tuned

LEMMA PassedOver ==
  ASSUME rankScores \in Seq(RankScores), NEW n \in 0..(RankSize - 1), NEW c, Selected(c, n),
         Rank!PassesOver(c, Rank!Ranked[n + 1])
  PROVE  Selected(c, n + 1)
<1> DEFINE a == Rank!Ranked[n + 1]
<1>1. RankSize \in Nat /\ n \in Nat /\ n + 1 \in 1..RankSize /\ Len(c) \in Nat
    BY ItemsCounted DEF Selected
<1>2. \A m \in 1..n : m \in 1..RankSize /\ Rank!Before(Rank!Ranked[m], a)
  <2>1. \A m \in 1..n : m \in 1..RankSize /\ m < n + 1
      BY <1>1
  <2> QED
      BY <1>1, <2>1, RankedRanks DEF IsRanking
<1>3. \A i \in 1..Len(c) : Rank!Before(c[i], a)
    BY <1>2 DEF Selected, InPart
<1>4. Reason(c, a)
  <2>1. \/ Rank!Full(c) \/ Rank!TooLow(a) \/ Rank!Unmatched(a)
        \/ rankStrategy.method = "diversity" /\ \E i \in 1..Len(c) : Rank!Alike(c[i].index, a.index)
      BY <1>1 DEF Rank!PassesOver, Rank!Range, Selected
  <2> HIDE DEF a
  <2> QED
      BY <1>3, <2>1 DEF Reason, Fit, Doubled
<1>5. \A m \in 1..(n + 1) : m \in 1..n \/ m = n + 1
    BY <1>1
<1>6. \A m \in 1..(n + 1) : Reason(c, Rank!Ranked[m])
    BY <1>4, <1>5, Zenon DEF Selected
<1>7. InPart(c, n + 1)
  <2>1. \A m \in 1..n : m \in 1..(n + 1)
      BY <1>1
  <2> QED
      BY <2>1 DEF Selected, InPart
<1> QED
    BY <1>6, <1>7 DEF Selected

LEMMA Appended ==
  ASSUME rankScores \in Seq(RankScores), Tuned, NEW n \in 0..(RankSize - 1), NEW c, Selected(c, n),
         ~Rank!PassesOver(c, Rank!Ranked[n + 1])
  PROVE  Selected(Append(c, Rank!Ranked[n + 1]), n + 1)
<1> DEFINE a == Rank!Ranked[n + 1]
           d == Append(c, a)
<1>1. RankSize \in Nat /\ n \in Nat /\ n + 1 \in 1..RankSize /\ Len(c) \in Nat /\ c \in Seq(Items)
    BY ItemsCounted DEF Selected
<1>2. \A m \in 1..n : m \in 1..RankSize /\ Rank!Before(Rank!Ranked[m], a)
  <2>1. \A m \in 1..n : m \in 1..RankSize /\ m < n + 1
      BY <1>1
  <2> QED
      BY <1>1, <2>1, RankedRanks DEF IsRanking
<1>3. \A i \in 1..Len(c) : Rank!Before(c[i], a) /\ c[i] \in Items
  <2>1. \A i \in 1..Len(c) : c[i] \in Items
      BY <1>1
  <2>2. InPart(c, n)
      BY Zenon DEF Selected
  <2>3. \A i \in 1..Len(c) : \E m \in 1..n : c[i] = Rank!Ranked[m]
      BY <2>2, Zenon DEF InPart
  <2> QED
      BY <1>2, <2>1, <2>3, Zenon
<1>4. a \in Items
    BY <1>1, RankedRanks DEF IsRanking
<1>5. ~Rank!Before(a, a) /\ \A i \in 1..Len(c) : ~Rank!Before(a, c[i])
    BY <1>3, <1>4, BeforeIsOrder
<1>6. /\ ~Rank!Full(c) /\ ~Rank!TooLow(a) /\ ~Rank!Unmatched(a)
      /\ rankStrategy.method = "diversity" => \A i \in 1..Len(c) : ~Rank!Alike(c[i].index, a.index)
  <2>1. /\ ~Rank!Full(c) /\ ~Rank!TooLow(a) /\ ~Rank!Unmatched(a)
        /\ rankStrategy.method = "diversity" => \A x \in Rank!Range(c) : ~Rank!Alike(x.index, a.index)
      BY Zenon DEF Rank!PassesOver
  <2>2. \A i \in 1..Len(c) : c[i] \in Rank!Range(c)
      BY <1>1 DEF Rank!Range
  <2> QED
      BY <2>1, <2>2, Zenon
<1> HIDE DEF a
<1>7. /\ d \in Seq(Items) /\ Len(d) = Len(c) + 1 /\ d[Len(c) + 1] = a
      /\ \A i \in 1..Len(c) : d[i] = c[i]
    BY <1>1, <1>4
<1> HIDE DEF d
<1>8. \A i \in 1..Len(d) : (i \in 1..Len(c) /\ d[i] = c[i]) \/ (i = Len(c) + 1 /\ d[i] = a)
    BY <1>1, <1>7
<1>9. \A i \in 1..Len(c) : i \in 1..Len(d)
    BY <1>1, <1>7
<1>10. InPart(d, n + 1)
  <2>1. n + 1 \in 1..(n + 1) /\ \A m \in 1..n : m \in 1..(n + 1)
      BY <1>1
  <2>2. \A i \in 1..Len(c) : \E m \in 1..(n + 1) : c[i] = Rank!Ranked[m]
      BY <2>1 DEF Selected, InPart
  <2> QED
      BY <1>8, <2>1, <2>2 DEF InPart, a
<1>11. Ordered(d)
  <2> SUFFICES ASSUME NEW i \in 1..Len(d), NEW j \in 1..Len(d), i < j PROVE Rank!Before(d[i], d[j])
      BY DEF Ordered
  <2>1. i \in 1..Len(c) /\ d[i] = c[i]
      BY <1>1, <1>7, <1>8
  <2> QED
      BY <1>3, <1>8, <2>1 DEF Selected, Ordered
<1>12. Within(d)
    BY <1>1, <1>6, <1>7 DEF Within, Tuned, Rank!Full
<1>13. AllFit(d)
  <2>1. Fit(a) /\ ~Doubled(a, a) /\ \A i \in 1..Len(c) : ~Doubled(c[i], a) /\ ~Doubled(a, c[i])
      BY <1>5, <1>6 DEF Fit, Doubled
  <2>2. \A i \in 1..Len(c) : Fit(c[i]) /\ \A j \in 1..Len(c) : ~Doubled(c[j], c[i])
      BY DEF Selected, AllFit
  <2>3. ASSUME NEW i \in 1..Len(d) PROVE Fit(d[i])
      BY <1>8, <2>1, <2>2
  <2>4. ASSUME NEW i \in 1..Len(d), NEW j \in 1..Len(d) PROVE ~Doubled(d[j], d[i])
    <3>1. CASE d[i] = a
        BY <1>8, <2>1, <3>1
    <3>2. CASE i \in 1..Len(c) /\ d[i] = c[i]
        BY <1>8, <2>1, <2>2, <3>2
    <3> QED
        BY <1>8, <3>1, <3>2
  <2> QED
      BY <2>3, <2>4 DEF AllFit
<1>14. \A m \in 1..(n + 1) : Reason(d, Rank!Ranked[m])
  <2>1. Reason(d, a)
    <3>1. Len(c) + 1 \in 1..Len(d)
        BY <1>1, <1>7
    <3> QED
        BY <1>7, <3>1 DEF Reason
  <2>2. ASSUME NEW b, Reason(c, b) PROVE Reason(d, b)
      BY <1>6, <1>7, <1>9, <2>2 DEF Reason
  <2>3. \A m \in 1..n : Reason(d, Rank!Ranked[m])
      BY <2>2 DEF Selected
  <2>4. \A m \in 1..(n + 1) : m \in 1..n \/ m = n + 1
      BY <1>1
  <2> QED
      BY <2>1, <2>3, <2>4, Zenon DEF a
<1>15. Selected(d, n + 1)
    BY <1>7, <1>10, <1>11, <1>12, <1>13, <1>14 DEF Selected
<1> QED
    BY <1>15 DEF d, a

LEMMA AllSelected ==
  ASSUME rankScores \in Seq(RankScores), Tuned
  PROVE  Selected(Rank!Chosen[RankSize], RankSize)
<1>1. RankSize \in Nat
    BY ItemsCounted
<1> DEFINE Bad == {n \in 0..RankSize : ~Selected(Rank!Chosen[n], n)}
<1>2. Bad = {}
  <2> SUFFICES ASSUME Bad # {} PROVE FALSE
      OBVIOUS
  <2>1. Bad \in SUBSET Nat
      BY <1>1
  <2>2. PICK k \in Bad : \A j \in Bad : k <= j
      BY <2>1, LeastExists
  <2>3. k \in 0..RankSize /\ ~Selected(Rank!Chosen[k], k)
      BY <2>2
  <2>4. k # 0
    <3>1. 0 \in 0..RankSize
        BY <1>1
    <3>2. Rank!Chosen[0] = <<>>
        BY <1>1, <3>1, WalkIs DEF Walks
    <3> QED
        BY <2>3, <3>2, EmptySelected
  <2>5. k - 1 \in 0..(RankSize - 1) /\ k - 1 \in 0..RankSize /\ (k - 1) + 1 = k /\ ~(k <= k - 1)
      BY <1>1, <2>3, <2>4
  <2> DEFINE n == k - 1
             c == Rank!Chosen[n]
  <2>6. Selected(c, n)
      BY <2>2, <2>5
  <2>7. Rank!Chosen[k] = IF Rank!PassesOver(c, Rank!Ranked[k]) THEN c ELSE Append(c, Rank!Ranked[k])
      BY <1>1, <2>3, <2>4, WalkIs DEF Walks
  <2> HIDE DEF c
  <2>8. CASE Rank!PassesOver(c, Rank!Ranked[k])
    <3>1. Selected(c, n + 1)
        BY <2>5, <2>6, <2>8, PassedOver
    <3> QED
        BY <2>3, <2>5, <2>7, <2>8, <3>1
  <2>9. CASE ~Rank!PassesOver(c, Rank!Ranked[k])
    <3>1. Selected(Append(c, Rank!Ranked[n + 1]), n + 1)
        BY <2>5, <2>6, <2>9, Appended
    <3> QED
        BY <2>3, <2>5, <2>7, <2>9, <3>1
  <2> QED
      BY <2>8, <2>9
<1>3. RankSize \in 0..RankSize
    BY <1>1
<1> QED
    BY <1>2, <1>3
-----------------------------------------------------------------------------
(* Reranking: the request.                                                  *)
Query == rankAsked.request
RankConfig == rankAsked.config
Total == Len(Query.documents)
Working == {"calls", "200"}

RankTyped ==
  /\ rankAsked.request \in Queries /\ rankAsked.config \in Ranks
  /\ rankAsked.database \in Databases
  /\ DOMAIN rankGiven = 1..Total
  /\ rankScores \in Seq(RankScores)

(* The plan that the calls follow is within the limits.                     *)
Planned ==
  rankAt \in {"resolve"} \cup Working =>
    /\ rankPlan.size \in 1..RankConfig.maxSize
    /\ rankPlan.size * rankPlan.length <= RankConfig.batchTokens

(* The documents are scored from the first on, and a lost score is not made *)
(* up for later: when there are as many scores as scored documents, each is *)
(* that of its document.                                                    *)
Scored(k) ==
  /\ \A d \in 1..Total : d <= k <=> rankGiven[d] # None
  /\ Len(rankScores) <= k
  /\ Len(rankScores) = k => \A d \in 1..k : rankScores[d] = rankGiven[d]

InTurn == \E k \in 0..Total : Scored(k)

(* The strategy is the one that was asked for.                              *)
AsAsked ==
  rankAt \in Working =>
    LET d == Rank!Definition(Rank!Name)
    IN rankStrategy.parameters = Rank!Parameters(d) /\ ~Rank!BadParameters(d, Rank!Parameters(d))

(* The answer is the walk through the whole ranking.                        *)
Walked ==
  rankAt = "200" => rankResults = Rank!Chosen[Len(rankScores)] /\ Len(rankScores) = Total

RankInv == RankTyped /\ Planned /\ InTurn /\ AsAsked /\ Walked /\ Rank!OwnScores

LEMMA RankInit == Rank!Init => RankInv
<1> SUFFICES ASSUME Rank!Init PROVE RankInv
    OBVIOUS
<1>1. /\ rankAsked \in [request : Queries, config : Ranks, database : Databases]
      /\ rankAt = "plan" /\ rankScores = <<>>
      /\ rankGiven = [d \in 1..Len(rankAsked.request.documents) |-> None]
    BY DEF Rank!Init, Rank!Documents
<1>2. rankAsked.request \in Queries /\ rankAsked.config \in Ranks /\ rankAsked.database \in Databases
    BY <1>1
<1>3. Total \in Nat
    BY <1>2, RankGiven DEF Total, Query
<1>4. RankTyped
    BY <1>1, <1>2 DEF RankTyped, Total, Query
<1>5. Scored(0)
    BY <1>1, <1>3 DEF Scored, Total, Query
<1>6. InTurn
    BY <1>3, <1>5 DEF InTurn
<1> QED
    BY <1>1, <1>4, <1>6 DEF RankInv, Planned, AsAsked, Walked, Working, Rank!OwnScores, Rank!Answered

(* A batch is within the tokens of a call.                                  *)
LEMMA BatchFits ==
  ASSUME NEW b \in Int, NEW l \in Nat \ {0}, NEW s \in Nat, s <= b \div l
  PROVE  s * l <= b
<1> DEFINE q == b \div l
<1>1. q \in Int /\ q * l <= b
    OBVIOUS
<1> HIDE DEF q
<1>2. \A x, y \in Int : x <= y => x * l <= y * l
    OBVIOUS
<1>3. s * l <= q * l
    BY <1>1, <1>2 DEF q
<1> QED
    BY <1>1, <1>3

LEMMA RefuseKeeps ==
  ASSUME RankInv, NEW status \in {"400", "413", "500", "502", "503"}, Rank!Refuse(status)
  PROVE  RankInv'
<1>1. rankAt' = status /\ UNCHANGED <<rankAsked, rankPlan, rankStrategy, rankScores, rankGiven>>
    BY DEF Rank!Refuse
<1>2. rankAt' \notin {"resolve"} \cup Working
    BY <1>1 DEF Working
<1> QED
    BY <1>1, <1>2 DEF RankInv, RankTyped, Planned, InTurn, Scored, AsAsked, Walked, Total, Query, RankConfig,
                      Working, Rank!OwnScores, Rank!Answered

LEMMA PlanKeeps == ASSUME RankInv, Rank!Plan PROVE RankInv'
<1>1. CASE \E status \in {"400", "413"} : Rank!Refuse(status)
    BY <1>1, RefuseKeeps
<1>2. CASE ~ \E status \in {"400", "413"} : Rank!Refuse(status)
  <2>1. /\ rankAt' = "resolve" /\ ~Rank!BadPlan
        /\ rankPlan' = [size |-> Rank!BatchSize, length |-> Rank!Length]
        /\ UNCHANGED <<rankAsked, rankStrategy, rankScores, rankGiven>>
      BY <1>2 DEF Rank!Plan
  <2>2. Query \in Queries /\ RankConfig \in Ranks
      BY DEF RankInv, RankTyped, Query, RankConfig
  <2> DEFINE l == Rank!Length
             w == Rank!Wanted
             q == RankConfig.batchTokens \div l
  <2>3. l \in Int /\ w \in Int
      BY <2>2, RankGiven DEF Rank!Length, Rank!Wanted, Rank!Or, Query, RankConfig
  <2>4. RankConfig.batchTokens \in Int /\ RankConfig.maxSize \in Int
      BY <2>2, RankGiven
  <2>5. l > 0 /\ w > 0 /\ w <= RankConfig.maxSize /\ q > 0
      BY <2>1, <2>3, <2>4 DEF Rank!BadPlan, Rank!ByTokens, RankConfig
  <2>6. rankPlan'.size = IF w < q THEN w ELSE q
      BY <2>1 DEF Rank!BatchSize, Rank!Smaller, Rank!ByTokens, RankConfig
  <2>7. rankPlan'.length = l
      BY <2>1
  <2> HIDE DEF l, w
  <2>8. q \in Int
      BY <2>3, <2>4, <2>5
  <2>9. rankPlan'.size \in 1..RankConfig.maxSize /\ rankPlan'.size <= q
    <3> HIDE DEF q
    <3> QED
      BY <2>3, <2>4, <2>5, <2>6, <2>8
  <2>10. rankPlan'.size * l <= RankConfig.batchTokens
      BY <2>3, <2>4, <2>5, <2>9, BatchFits
  <2>11. Planned'
      BY <2>1, <2>7, <2>9, <2>10 DEF Planned, RankConfig
  <2> QED
      BY <2>1, <2>11 DEF RankInv, RankTyped, InTurn, Scored, AsAsked, Walked, Total, Query, Working,
                         Rank!OwnScores, Rank!Answered
<1> QED
    BY <1>1, <1>2

(* What a request asks for stays what it was.                               *)
LEMMA RequestStays ==
  ASSUME UNCHANGED rankAsked
  PROVE  LET d == Rank!Definition(Rank!Name)
         IN /\ (Rank!Definition(Rank!Name))' = d
            /\ (Rank!Parameters(Rank!Definition(Rank!Name)))' = Rank!Parameters(d)
            /\ (Rank!BadParameters(Rank!Definition(Rank!Name), Rank!Parameters(Rank!Definition(Rank!Name))))'
               = Rank!BadParameters(d, Rank!Parameters(d))
BY DEF Rank!BadParameters, Rank!Definition, Rank!Name, Rank!Rows, Rank!BadRows, Rank!Configured,
       Rank!Parameters

LEMMA ResolveKeeps == ASSUME RankInv, Rank!Resolve PROVE RankInv'
<1>1. CASE \E status \in {"400", "500", "503"} : Rank!Refuse(status)
    BY <1>1, RefuseKeeps
<1>2. CASE ~ \E status \in {"400", "500", "503"} : Rank!Refuse(status)
  <2> DEFINE d == Rank!Definition(Rank!Name)
  <2>1. /\ rankAt = "resolve" /\ rankAt' = "calls" /\ ~Rank!BadParameters(d, Rank!Parameters(d))
        /\ rankStrategy' = [method |-> d.method, parameters |-> Rank!Parameters(d)]
        /\ UNCHANGED <<rankAsked, rankPlan, rankScores, rankGiven>>
      BY <1>2 DEF Rank!Resolve
  <2>2. rankStrategy'.parameters = Rank!Parameters(d)
      BY <2>1
  <2>3. AsAsked'
      BY <2>1, <2>2, RequestStays DEF AsAsked
  <2> QED
      BY <2>1, <2>3 DEF RankInv, RankTyped, Planned, InTurn, Scored, Walked, Total, Query, RankConfig, Working,
                        Rank!OwnScores, Rank!Answered
<1> QED
    BY <1>1, <1>2

(* A batch is the documents from its start to its end.                      *)
LEMMA RankCallKeeps ==
  ASSUME RankInv, NEW s \in 1..Len(Rank!Documents), Rank!Call(s)
  PROVE  RankInv'
<1> DEFINE b == Rank!Batch(s)
           n == rankPlan.size
<1>1. PICK answer \in [b -> RankScores], kept \in 0..Rank!Cardinality(b) :
        /\ rankGiven' = [d \in DOMAIN rankGiven |-> IF d \in b THEN answer[d] ELSE rankGiven[d]]
        /\ rankScores' = rankScores \o [i \in 1..kept |-> answer[s + i - 1]]
    BY DEF Rank!Call
<1>2. /\ rankAt = "calls" /\ UNCHANGED <<rankAsked, rankAt, rankPlan, rankStrategy>>
      /\ \A d \in 1..Total : (d < s) <=> (rankGiven[d] # None)
    BY DEF Rank!Call, Rank!Documents, Total, Query
<1>3. Total \in Nat /\ s \in 1..Total
    BY RankGiven DEF RankInv, RankTyped, Total, Query, Rank!Documents
<1>4. n \in Nat \ {0}
  <2>1. RankConfig.maxSize \in Int /\ n \in 1..RankConfig.maxSize
      BY <1>2, RankGiven DEF RankInv, RankTyped, Planned, Working, RankConfig
  <2> QED
      BY <2>1
<1>5. PICK end \in s..Total : b = s..end
  <2> DEFINE e == IF s + n - 1 <= Total THEN s + n - 1 ELSE Total
  <2>1. e \in s..Total /\ b = s..e
      BY <1>3, <1>4 DEF Rank!Batch, Rank!Documents, Total, Query
  <2> QED
      BY <2>1
<1> HIDE DEF b, n
<1>6. Rank!Cardinality(b) = end - s + 1
  <2>1. Cardinality(s..end) = end - s + 1
      BY <1>3, <1>5, FS_Interval
  <2>2. Rank!Cardinality(b) = Cardinality(b)
      BY DEF Rank!Cardinality, Cardinality
  <2> QED
      BY <1>5, <2>1, <2>2
<1>7. PICK k \in 0..Total : Scored(k)
    BY DEF RankInv, InTurn
<1>8. k = s - 1
  <2>1. \A d \in 1..Total : d <= k <=> d < s
      BY <1>2, <1>7 DEF Scored
  <2>2. ~(k >= s)
      BY <1>3, <2>1
  <2>3. ~(k + 1 < s)
    <3>1. k + 1 < s => k + 1 \in 1..Total
        BY <1>3
    <3> QED
        BY <1>3, <2>1, <3>1
  <2> QED
      BY <1>3, <2>2, <2>3
<1> DEFINE more == [i \in 1..kept |-> answer[s + i - 1]]
<1>9. kept \in Nat /\ kept <= end - s + 1
    BY <1>1, <1>3, <1>5, <1>6
<1>10. more \in Seq(RankScores) /\ Len(more) = kept
  <2>1. \A i \in 1..kept : s + i - 1 \in b
      BY <1>3, <1>5, <1>9
  <2>2. \A i \in 1..kept : answer[s + i - 1] \in RankScores
      BY <1>1, <2>1
  <2> QED
      BY <1>9, <2>2
<1>11. /\ rankScores \in Seq(RankScores) /\ rankScores' = rankScores \o more
       /\ DOMAIN rankGiven = 1..Total
    BY <1>1 DEF RankInv, RankTyped
<1>12. \A i \in 1..kept : more[i] = answer[s + i - 1]
    OBVIOUS
<1> HIDE DEF more
<1>13. /\ rankScores' \in Seq(RankScores) /\ Len(rankScores') = Len(rankScores) + kept
       /\ \A i \in 1..Len(rankScores) : rankScores'[i] = rankScores[i]
       /\ \A i \in 1..kept : rankScores'[Len(rankScores) + i] = more[i]
  <2>1. /\ rankScores' \in Seq(RankScores) /\ Len(rankScores') = Len(rankScores) + kept
        /\ \A i \in 1..(Len(rankScores) + kept) :
             rankScores'[i] = IF i <= Len(rankScores) THEN rankScores[i] ELSE more[i - Len(rankScores)]
      BY <1>10, <1>11, ConcatProperties
  <2>2. Len(rankScores) \in Nat
      BY <1>11
  <2>3. \A i \in 1..Len(rankScores) : rankScores'[i] = rankScores[i]
      BY <1>9, <2>1, <2>2
  <2>4. \A i \in 1..kept : Len(rankScores) + i \in 1..(Len(rankScores) + kept)
                          /\ ~(Len(rankScores) + i <= Len(rankScores))
                          /\ Len(rankScores) + i - Len(rankScores) = i
      BY <1>9, <2>2
  <2>5. \A i \in 1..kept : rankScores'[Len(rankScores) + i] = more[i]
      BY <2>1, <2>4
  <2> QED
      BY <2>1, <2>3, <2>5
<1>14. /\ DOMAIN rankGiven' = 1..Total
       /\ \A d \in 1..Total : rankGiven'[d] = IF d \in b THEN answer[d] ELSE rankGiven[d]
    BY <1>1, <1>11
<1>15. Total' = Total /\ RankConfig' = RankConfig /\ Query' = Query
    BY <1>2 DEF Total, RankConfig, Query
<1>16. Scored(end)'
  <2>1. ASSUME NEW d \in 1..Total PROVE d <= end <=> rankGiven'[d] # None
    <3>1. CASE d \in b
      <4>1. rankGiven'[d] \in RankScores /\ d <= end
          BY <1>1, <1>3, <1>5, <1>14, <3>1
      <4> QED
          BY <4>1, RankGiven
    <3>2. CASE d \notin b
      <4>1. rankGiven'[d] = rankGiven[d]
          BY <1>14, <3>2
      <4>2. d <= end <=> d < s
          BY <1>3, <1>5, <3>2
      <4> QED
          BY <1>2, <4>1, <4>2
    <3> QED
        BY <3>1, <3>2
  <2>2. Len(rankScores) \in Nat /\ Len(rankScores) <= s - 1
      BY <1>7, <1>8, <1>11 DEF Scored
  <2>3. Len(rankScores') <= end
      BY <1>3, <1>5, <1>9, <1>13, <2>2
  <2>4. ASSUME Len(rankScores') = end, NEW d \in 1..end PROVE rankScores'[d] = rankGiven'[d]
    <3>1. Len(rankScores) = s - 1 /\ kept = end - s + 1
      <4>1. Len(rankScores) + kept = end
          BY <1>13, <2>4
      <4>2. Len(rankScores) >= s - 1 /\ kept >= end - s + 1
          BY <1>3, <1>5, <1>9, <2>2, <4>1
      <4> QED
          BY <1>3, <1>5, <1>9, <2>2, <4>2
    <3>2. CASE d < s
      <4>1. d \in 1..Len(rankScores) /\ d \in 1..k /\ d \in 1..Total /\ d \notin b
          BY <1>3, <1>5, <1>8, <2>4, <3>1, <3>2
      <4>2. rankScores[d] = rankGiven[d]
          BY <1>7, <1>8, <3>1, <4>1 DEF Scored
      <4> QED
          BY <1>13, <1>14, <4>1, <4>2
    <3>3. CASE s <= d
      <4>1. d - s + 1 \in 1..kept /\ d \in b /\ d \in 1..Total /\ Len(rankScores) + (d - s + 1) = d
          BY <1>3, <1>5, <2>4, <3>1, <3>3
      <4>2. rankScores'[d] = more[d - s + 1]
          BY <1>13, <4>1
      <4>3. more[d - s + 1] = answer[s + (d - s + 1) - 1] /\ s + (d - s + 1) - 1 = d
          BY <1>3, <1>12, <2>4, <4>1
      <4> QED
          BY <1>14, <4>1, <4>2, <4>3
    <3> QED
        BY <1>3, <1>5, <2>4, <3>2, <3>3
  <2> QED
      BY <1>15, <2>1, <2>3, <2>4 DEF Scored
<1>17. RankTyped' /\ InTurn'
    BY <1>2, <1>3, <1>5, <1>13, <1>14, <1>15, <1>16 DEF RankInv, RankTyped, InTurn
<1>18. Planned' /\ AsAsked'
  <2>1. Planned'
      BY <1>2, <1>15 DEF RankInv, Planned
  <2>2. AsAsked'
      BY <1>2, RequestStays DEF RankInv, AsAsked
  <2> QED
      BY <2>1, <2>2
<1>19. (Rank!OwnScores)'
    BY <1>2 DEF Rank!OwnScores, Rank!Answered
<1> QED
    BY <1>2, <1>17, <1>18, <1>19 DEF RankInv, Walked

LEMMA WalkStays ==
  ASSUME UNCHANGED <<rankAsked, rankStrategy, rankScores>>
  PROVE  (Rank!Chosen)' = Rank!Chosen
BY DEF Rank!Chosen, Rank!PassesOver, Rank!Ranked, Rank!Item, Rank!Before, Rank!Full, Rank!TooLow,
       Rank!Unmatched, Rank!Alike, Rank!P, Rank!Documents

LEMMA RespondKeeps == ASSUME RankInv, Rank!Respond PROVE RankInv'
<1>1. CASE Rank!Refuse("502")
    BY <1>1, RefuseKeeps
<1>2. CASE ~Rank!Refuse("502")
  <2>1. /\ rankAt = "calls" /\ rankAt' = "200" /\ Len(rankScores) = Total
        /\ \A d \in DOMAIN rankGiven : rankGiven[d] # None
        /\ rankResults' = Rank!Chosen[Len(rankScores)]
        /\ UNCHANGED <<rankAsked, rankPlan, rankStrategy, rankScores, rankGiven>>
      BY <1>2 DEF Rank!Respond, Rank!Documents, Total, Query
  <2>2. Total \in Nat /\ DOMAIN rankGiven = 1..Total
      BY RankGiven DEF RankInv, RankTyped, Total, Query
  <2>3. PICK k \in 0..Total : Scored(k)
      BY DEF RankInv, InTurn
  <2>4. k = Total
      BY <2>1, <2>2, <2>3 DEF Scored
  <2>5. \A d \in DOMAIN rankGiven : rankScores[d] = rankGiven[d]
      BY <2>1, <2>2, <2>3, <2>4 DEF Scored
  <2>6. (Rank!OwnScores)'
      BY <2>1, <2>5 DEF Rank!OwnScores
  <2>7. AsAsked'
      BY <2>1, RequestStays DEF RankInv, AsAsked, Working
  <2>8. Walked'
      BY <2>1, WalkStays DEF Walked, Total, Query
  <2>9. RankTyped' /\ Planned' /\ InTurn'
      BY <2>1 DEF RankInv, RankTyped, Planned, InTurn, Scored, Total, Query, RankConfig, Working
  <2> QED
      BY <2>6, <2>7, <2>8, <2>9 DEF RankInv
<1> QED
    BY <1>1, <1>2

LEMMA RankKeeps == ASSUME RankInv, [Rank!Next]_(Rank!vars) PROVE RankInv'
<1>1. CASE Rank!Next
  <2>1. Rank!Plan \/ Rank!Resolve \/ (\E s \in 1..Len(Rank!Documents) : Rank!Call(s)) \/ Rank!CallFails
          \/ Rank!Respond
      BY <1>1, Zenon DEF Rank!Next
  <2>2. Rank!CallFails => Rank!Refuse("502")
      BY DEF Rank!CallFails
  <2> QED
      BY <2>1, <2>2, PlanKeeps, ResolveKeeps, RankCallKeeps, RefuseKeeps, RespondKeeps
<1>2. CASE UNCHANGED Rank!vars
  <2>1. AsAsked'
      BY <1>2, RequestStays DEF Rank!vars, RankInv, AsAsked
  <2>2. Walked'
      BY <1>2, WalkStays DEF Rank!vars, RankInv, Walked, Total, Query
  <2>3. RankTyped' /\ Planned' /\ InTurn' /\ (Rank!OwnScores)'
      BY <1>2 DEF Rank!vars, RankInv, RankTyped, Planned, InTurn, Scored, Total, Query, RankConfig,
                  Rank!OwnScores, Rank!Answered
  <2> QED
      BY <2>1, <2>2, <2>3 DEF RankInv
<1> QED
    BY <1>1, <1>2

(* A parameter that the request may not set is that of the definition.      *)
LEMMA DefinitionHolds == ASSUME RankInv PROVE Rank!NoOverride
<1> SUFFICES ASSUME rankAt \in Working,
                    NEW p \in DOMAIN rankStrategy.parameters \ (Rank!Definition(Rank!Name).allow \cup {"top_n"})
             PROVE  rankStrategy.parameters[p] = Rank!Definition(Rank!Name).parameters[p]
    BY DEF Rank!NoOverride, Rank!P, Working
<1> DEFINE d == Rank!Definition(Rank!Name)
<1>1. rankStrategy.parameters = Rank!Parameters(d) /\ DOMAIN Query.parameters \subseteq d.allow
    BY DEF RankInv, AsAsked, Rank!BadParameters, Query
<1> HIDE DEF d
<1> DEFINE both == Rank!Over(Query.parameters, d.parameters)
<1>2. p \notin DOMAIN Query.parameters /\ p # "top_n" /\ p \in DOMAIN Rank!Parameters(d)
    BY <1>1 DEF d
<1>3. p \in DOMAIN both /\ Rank!Parameters(d)[p] = both[p]
    BY <1>2 DEF Rank!Parameters, Rank!Over, Query
<1>4. both[p] = d.parameters[p]
    BY <1>2, <1>3 DEF Rank!Over
<1> QED
    BY <1>1, <1>3, <1>4 DEF d

(* Whatever the cap and the threshold come from, they are integers.         *)
LEMMA DefinitionNumeric ==
  ASSUME RankInv PROVE Rank!Numeric(Rank!Definition(Rank!Name).parameters)
<1> DEFINE n == Rank!Name
<1>1. Rank!Numeric(Rank!Empty)
    BY DEF Rank!Numeric, Rank!Empty
<1>2. rankAsked.config \in Ranks /\ rankAsked.database \in Databases
    BY DEF RankInv, RankTyped
<1>3. ASSUME n \in DOMAIN Rank!Rows PROVE Rank!Numeric(Rank!Rows[n].parameters)
  <2>1. Rank!Rows = rankAsked.database /\ rankAsked.database # NoRows
      BY <1>3 DEF Rank!Rows, Rank!Empty
  <2> QED
      BY <1>2, <1>3, <2>1, RankGiven
<1>4. ASSUME n \in DOMAIN Rank!Configured PROVE Rank!Numeric(Rank!Configured[n].parameters)
    BY <1>2, <1>4, RankGiven DEF Rank!Configured
<1>5. Rank!Numeric(Rank!BuiltinDefinition(n).parameters)
    BY <1>1 DEF Rank!BuiltinDefinition
<1> HIDE DEF n
<1> QED
    BY <1>3, <1>4, <1>5 DEF Rank!Definition, n

LEMMA StrategyIsTuned ==
  ASSUME RankInv, rankAt \in Working
  PROVE  Tuned /\ (Query.cap # None => "top_n" \in DOMAIN Rank!P /\ Rank!P["top_n"] = Query.cap)
<1> DEFINE d == Rank!Definition(Rank!Name)
           both == Rank!Over(Query.parameters, d.parameters)
<1>1. /\ Rank!P = Rank!Parameters(d)
      /\ "top_n" \in DOMAIN Rank!P => ~(Rank!P["top_n"] <= 0)
    BY DEF RankInv, AsAsked, Rank!BadParameters, Rank!P
<1>2. Rank!Numeric(d.parameters)
    BY DefinitionNumeric
<1>3. Rank!Numeric(Query.parameters) /\ Query.cap \in Int \cup {None}
    BY RankGiven DEF RankInv, RankTyped, Query
<1> HIDE DEF d
<1>4. Rank!Numeric(both)
    BY <1>2, <1>3 DEF Rank!Numeric, Rank!Over
<1>5. Rank!P = IF Query.cap = None THEN both ELSE Rank!Over([top_n |-> Query.cap], both)
    BY <1>1 DEF Rank!Parameters, Query
<1> HIDE DEF both
<1>6. Query.cap # None => "top_n" \in DOMAIN Rank!P /\ Rank!P["top_n"] = Query.cap
    BY <1>5 DEF Rank!Over
<1>7. "top_n" \in DOMAIN Rank!P => Rank!P["top_n"] \in Int
  <2>1. CASE Query.cap = None
      BY <1>4, <1>5, <2>1 DEF Rank!Numeric
  <2>2. CASE Query.cap # None
      BY <1>3, <1>6, <2>2
  <2> QED
      BY <2>1, <2>2
<1>8. Tuned
    BY <1>1, <1>7 DEF Tuned
<1> QED
    BY <1>6, <1>8

(* What the walk selects, with each document's own score, is sound.         *)
LEMMA AnswerIsSound ==
  ASSUME RankInv, rankAt = "200"
  PROVE  Rank!InOrder /\ Rank!OnlyForAReason /\ Rank!Capped
<1> DEFINE c == rankResults
<1>1. /\ c = Rank!Chosen[RankSize] /\ RankSize = Total /\ rankScores \in Seq(RankScores)
      /\ DOMAIN rankGiven = 1..RankSize
      /\ \A d \in 1..RankSize : rankScores[d] = rankGiven[d]
    BY DEF RankInv, Walked, RankTyped, RankSize, Rank!OwnScores, Rank!Answered
<1>2. Tuned /\ (Query.cap # None => "top_n" \in DOMAIN Rank!P /\ Rank!P["top_n"] = Query.cap)
    BY StrategyIsTuned DEF Working
<1>3. Selected(c, RankSize)
    BY <1>1, <1>2, AllSelected
<1>4. c \in Seq(Items) /\ DOMAIN c = 1..Len(c)
    BY <1>3 DEF Selected
<1> HIDE DEF c
<1>5. \A i \in 1..Len(c) : /\ c[i] \in Items /\ c[i].index \in 1..RankSize
                          /\ c[i] = Rank!Item(c[i].index)
                          /\ c[i].score = rankGiven[c[i].index]
    BY <1>1, <1>4, ItemFields
<1>6. Rank!InOrder
    BY <1>3, <1>4, <1>5 DEF Selected, Ordered, Rank!InOrder, c
<1>7. Rank!Capped
    BY <1>2, <1>3 DEF Selected, Within, Rank!Capped, Query, c
<1>8. ASSUME NEW d \in 1..RankSize
      PROVE  /\ Rank!Item(d) \in Items /\ Rank!Item(d).index = d
             /\ Rank!Fails(d) <=> ~Fit(Rank!Item(d))
             /\ Rank!Resembles(d) <=> \E i \in 1..Len(c) : Doubled(c[i], Rank!Item(d))
  <2>1. Rank!Item(d) \in Items /\ Rank!Item(d).index = d /\ Rank!Item(d).score = rankGiven[d]
      BY <1>1 DEF Items, Rank!Item
  <2>2. Rank!Fails(d) <=> ~Fit(Rank!Item(d))
      BY <2>1 DEF Rank!Fails, Fit, Rank!TooLow, Rank!Unmatched
  <2>3. Rank!Resembles(d) <=> \E i \in 1..Len(c) : Doubled(c[i], Rank!Item(d))
      BY <1>4, <2>1 DEF Rank!Resembles, Doubled, c
  <2> QED
      BY <2>1, <2>2, <2>3
<1>9. ASSUME NEW d \in 1..RankSize, NEW i \in 1..Len(c), c[i].index = d
      PROVE  ~Rank!Fails(d) /\ ~Rank!Resembles(d)
  <2>1. c[i] = Rank!Item(d)
      BY <1>5, <1>9
  <2>2. Fit(c[i]) /\ \A j \in 1..Len(c) : ~Doubled(c[j], c[i])
      BY <1>3 DEF Selected, AllFit
  <2> QED
      BY <1>8, <2>1, <2>2
<1>10. ASSUME NEW d \in 1..RankSize, \A i \in 1..Len(c) : c[i].index # d
       PROVE  \/ Rank!Fails(d) \/ Rank!Resembles(d)
              \/ Rank!Full(c) /\ \A i \in 1..Len(c) : Rank!Before(c[i], Rank!Item(d))
  <2>1. PICK m \in 1..RankSize : Rank!Ranked[m] = Rank!Item(d)
      BY <1>1, <1>8, RankedRanks
  <2>2. Reason(c, Rank!Item(d))
      BY <1>3, <2>1 DEF Selected
  <2>3. ~ \E i \in 1..Len(c) : c[i] = Rank!Item(d)
      BY <1>8, <1>10
  <2> QED
      BY <1>8, <2>2, <2>3 DEF Reason
<1>11. Rank!OnlyForAReason
    BY <1>1, <1>4, <1>9, <1>10 DEF Rank!OnlyForAReason, c
<1> QED
    BY <1>6, <1>7, <1>11

(* Whatever a request asks for, its calls are within the limits, and what   *)
(* the strategy does not open to it is the strategy's.  It is answered only *)
(* with each document's own score, however scores are lost; the results are *)
(* in order and within the cap, and a document is left out only for the     *)
(* threshold, the filter, a better document it resembles, or a cap filled   *)
(* with better ones (plan_rerank_execution, resolve_rerank_strategy,        *)
(* build_rerank_response, apply_rerank_strategy).                           *)
THEOREM RerankIsSound == Rank!Spec => []RerankSound
<1>1. RankInv => RerankSound
  <2> SUFFICES ASSUME RankInv PROVE Rank!RerankSound
      BY DEF RerankSound
  <2>1. Rank!WithinPlan
      BY DEF RankInv, Planned, Working, Rank!WithinPlan, RankConfig
  <2>2. Rank!OwnScores /\ Rank!NoOverride
      BY DefinitionHolds DEF RankInv
  <2>3. Rank!InOrder /\ Rank!OnlyForAReason /\ Rank!Capped
    <3>1. CASE rankAt = "200"
        BY <3>1, AnswerIsSound
    <3>2. CASE rankAt # "200"
        BY <3>2 DEF Rank!InOrder, Rank!OnlyForAReason, Rank!Capped, Rank!Answered
    <3> QED
        BY <3>1, <3>2
  <2> QED
      BY <2>1, <2>2, <2>3 DEF Rank!RerankSound
<1> QED
    BY RankInit, RankKeeps, <1>1, PTL DEF Rank!Spec
-----------------------------------------------------------------------------
(* ChatRequest.  What the constants are.                                    *)
Kinded == {"image", "video", "audio", "pdf"}

LEMMA ChatGiven ==
  /\ IsFiniteSet(DOMAIN MediumKind)
  /\ \A x \in DOMAIN MediumKind : MediumKind[x] \in Kinded
  /\ \A k \in Kinded : Estimate[k] \in Nat /\ Embedded[k] \in Nat
  /\ InstructionTokens \in Nat /\ MarkerTokens \in Nat /\ EvidenceTokens \in Nat \ {0}
  /\ Summaries \subseteq Nat
  /\ \A r \in Chats : Chat!Conversation(r.conversation) /\ r.requested \in Nat
  /\ \A d \in Deployments :
       /\ d.backend \in {"vllm", "vllm_multimodal", "vllm_deepseek", "python", "other"}
       /\ d.mode \in {"disabled", "truncate", "summarize"}
       /\ d.window \in Nat /\ d.margin \in Nat /\ d.images \in Nat
       /\ d.cap \in Nat \ {0} /\ d.default \in Nat \ {0}
<1>1. Chat!IsFiniteSet(DOMAIN MediumKind) => IsFiniteSet(DOMAIN MediumKind)
    BY DEF Chat!IsFiniteSet, IsFiniteSet
<1> QED
    BY <1>1, ServicesAssumption DEF Chat!ChatAssumption, Kinded

LEMMA ChatCount == ASSUME NEW S PROVE Chat!Cardinality(S) = Cardinality(S)
BY DEF Chat!Cardinality, Cardinality

(* ChatRequest: parts of a conversation.  Those that stay keep their order. *)
Thinned(d, c, s) ==
  \E e \in [1..Len(d) -> s] :
    /\ \A i, j \in 1..Len(d) : i < j => e[i] < e[j]
    /\ \A i \in s : \E n \in 1..Len(d) : e[n] = i
    /\ \A n \in 1..Len(d) : d[n] = c[e[n]]

UpTo(s, i) == {j \in s : j <= i}

LEMMA OnlyThins ==
  ASSUME NEW T, NEW c \in Seq(T), NEW s \in SUBSET (1..Len(c))
  PROVE  Chat!Only(c, s) \in Seq(T) /\ Thinned(Chat!Only(c, s), c, s)
<1> DEFINE size == Cardinality(s)
           place == [i \in s |-> Cardinality(UpTo(s, i))]
<1>0. \A i \in s : i \in Int /\ i \in 1..Len(c)
    OBVIOUS
<1>1. IsFiniteSet(s) /\ size \in Nat
  <2>1. IsFiniteSet(1..Len(c))
      BY FS_Interval
  <2> QED
      BY <2>1, CountPart
<1>2. ASSUME NEW i \in s PROVE IsFiniteSet(UpTo(s, i)) /\ Cardinality(UpTo(s, i)) \in 1..size
  <2>1. UpTo(s, i) \in SUBSET s /\ i \in UpTo(s, i)
      BY DEF UpTo
  <2>2. IsFiniteSet(UpTo(s, i)) /\ Cardinality(UpTo(s, i)) \in Nat /\ Cardinality(UpTo(s, i)) <= size
      BY <1>1, <2>1, CountPart
  <2>3. Cardinality(UpTo(s, i)) # 0
      BY <2>1, <2>2, FS_EmptySet
  <2> QED
      BY <1>1, <2>2, <2>3
<1>3. ASSUME NEW i \in s, NEW j \in s, i < j PROVE Cardinality(UpTo(s, i)) < Cardinality(UpTo(s, j))
  <2>1. UpTo(s, i) \in SUBSET UpTo(s, j) /\ j \in UpTo(s, j) /\ j \notin UpTo(s, i)
    <3>1. i \in Int /\ j \in Int /\ i < j /\ j \in s
        BY <1>0, <1>3
    <3>2. \A k \in UpTo(s, i) : k \in s /\ k \in Int /\ k <= i
        BY <1>0 DEF UpTo
    <3>3. \A k \in UpTo(s, i) : k \in UpTo(s, j)
        BY <3>1, <3>2 DEF UpTo
    <3>4. j \in UpTo(s, j) /\ j \notin UpTo(s, i)
        BY <3>1 DEF UpTo
    <3> QED
        BY <3>3, <3>4
  <2>2. /\ Cardinality(UpTo(s, i)) <= Cardinality(UpTo(s, j))
        /\ Cardinality(UpTo(s, j)) = Cardinality(UpTo(s, i)) => UpTo(s, j) = UpTo(s, i)
      BY <1>2, <2>1, FS_Subset
  <2> QED
      BY <1>2, <2>1, <2>2
<1>4. place \in [s -> 1..size]
    BY <1>2
<1>5. \A i, j \in s : place[i] = place[j] => i = j
  <2> SUFFICES ASSUME NEW i \in s, NEW j \in s, i < j PROVE place[i] # place[j]
      OBVIOUS
  <2>1. Cardinality(UpTo(s, i)) < Cardinality(UpTo(s, j))
      BY <1>3
  <2> QED
      BY <1>2, <2>1
<1>6. \A n \in 1..size : \E i \in s : Cardinality(UpTo(s, i)) = n
  <2>1. place \in Injection(s, 1..size)
      BY <1>4, <1>5 DEF Injection, IsInjective
  <2>2. IsFiniteSet(1..size) /\ Cardinality(1..size) = size
      BY <1>1, FS_Interval
  <2>3. place \in Surjection(s, 1..size)
      BY <1>1, <2>1, <2>2, FS_Injection
  <2> QED
      BY <2>3 DEF Surjection
<1> DEFINE e == [n \in 1..size |-> CHOOSE i \in s : Cardinality(UpTo(s, i)) = n]
           d == Chat!Only(c, s)
<1>7. d = [n \in 1..size |-> c[e[n]]]
  <2>1. d = [n \in 1..size |-> c[CHOOSE i \in s : Cardinality(UpTo(s, i)) = n]]
    <3>1. d = [n \in 1..Chat!Cardinality(s) |-> c[CHOOSE i \in s : Chat!Cardinality(UpTo(s, i)) = n]]
        BY Zenon DEF Chat!Only, UpTo
    <3>2. \A S : Chat!Cardinality(S) = Cardinality(S)
        BY ChatCount
    <3>3. \A n : (CHOOSE i \in s : Chat!Cardinality(UpTo(s, i)) = n) = CHOOSE i \in s : Cardinality(UpTo(s, i)) = n
        BY <3>2
    <3> QED
        BY <3>1, <3>2, <3>3
  <2> QED
      BY <2>1
<1>8. \A n \in 1..size : e[n] \in s /\ Cardinality(UpTo(s, e[n])) = n
    BY <1>6
<1> HIDE DEF e, d, place
<1>9. e \in [1..size -> s] /\ d \in Seq(T) /\ Len(d) = size
  <2>1. e \in [1..size -> s]
      BY <1>8 DEF e
  <2>2. \A n \in 1..size : e[n] \in 1..Len(c)
      BY <1>0, <1>8
  <2>3. \A n \in 1..size : c[e[n]] \in T
      BY <2>2
  <2>4. d \in [1..size -> T]
      BY <1>7, <2>3
  <2>5. d \in Seq(T) /\ Len(d) = size
      BY <1>1, <2>4
  <2> QED
      BY <2>1, <2>5
<1>10. ASSUME NEW i \in 1..size, NEW j \in 1..size, i < j PROVE e[i] < e[j]
  <2>1. e[i] \in s /\ e[j] \in s /\ Cardinality(UpTo(s, e[i])) = i /\ Cardinality(UpTo(s, e[j])) = j
      BY <1>8
  <2>2. ~(e[j] < e[i])
    <3>1. e[j] < e[i] => Cardinality(UpTo(s, e[j])) < Cardinality(UpTo(s, e[i]))
        BY <1>3, <2>1
    <3> QED
        BY <1>1, <1>10, <2>1, <3>1
  <2>3. e[i] # e[j]
      BY <1>10, <2>1
  <2>4. e[i] \in Int /\ e[j] \in Int
      BY <1>0, <2>1
  <2> QED
      BY <2>2, <2>3, <2>4
<1>11. ASSUME NEW i \in s PROVE \E n \in 1..size : e[n] = i
  <2> DEFINE n == Cardinality(UpTo(s, i))
  <2>1. n \in 1..size
      BY <1>2
  <2>2. e[n] \in s /\ place[e[n]] = place[i]
      BY <1>8, <2>1 DEF place
  <2> QED
      BY <1>5, <2>1, <2>2
<1>12. Thinned(d, c, s)
    BY <1>7, <1>9, <1>10, <1>11 DEF Thinned
<1> QED
    BY <1>9, <1>12 DEF d

(* The last message of a user.                                              *)
LastUser(c, i) ==
  /\ i \in 1..Len(c) /\ c[i].role = "user"
  /\ \A j \in (i + 1)..Len(c) : c[j].role # "user"

LEMMA LatestIs ==
  ASSUME NEW T, NEW c \in Seq(T)
  PROVE  /\ \A i : LastUser(c, i) => Chat!LatestUser(c) = i
         /\ \/ Chat!LatestUser(c) = 0 /\ \A i \in 1..Len(c) : c[i].role # "user"
            \/ LastUser(c, Chat!LatestUser(c))
<1> DEFINE users == {i \in 1..Len(c) : c[i].role = "user"}
<1>1. ASSUME NEW i, NEW j, LastUser(c, i), LastUser(c, j) PROVE i = j
  <2>1. ~(i < j) /\ ~(j < i)
      BY <1>1 DEF LastUser
  <2> QED
      BY <1>1, <2>1 DEF LastUser
<1>2. users # {} => \E i : LastUser(c, i)
  <2> SUFFICES ASSUME users # {} PROVE \E i : LastUser(c, i)
      OBVIOUS
  <2> DEFINE fromEnd == {Len(c) - i : i \in users}
  <2>1. fromEnd \in SUBSET Nat /\ fromEnd # {}
      OBVIOUS
  <2>2. PICK n \in fromEnd : \A m \in fromEnd : n <= m
      BY <2>1, LeastExists
  <2>3. PICK i \in users : n = Len(c) - i
      BY <2>2
  <2>4. \A j \in (i + 1)..Len(c) : c[j].role # "user"
    <3> SUFFICES ASSUME NEW j \in (i + 1)..Len(c), c[j].role = "user" PROVE FALSE
        OBVIOUS
    <3>1. j \in users /\ Len(c) - j \in fromEnd
        OBVIOUS
    <3>2. n <= Len(c) - j
        BY <2>2, <3>1
    <3> QED
        BY <2>3, <3>2
  <2> QED
      BY <2>3, <2>4 DEF LastUser
<1>3. Chat!LatestUser(c) = IF users # {} THEN CHOOSE i \in 1..Len(c) : LastUser(c, i) ELSE 0
  <2>1. DOMAIN c = 1..Len(c)
      OBVIOUS
  <2> DEFINE last == CHOOSE i \in DOMAIN c : c[i].role = "user" /\ \A j \in (i + 1)..Len(c) : c[j].role # "user"
  <2>2. \A i \in 1..Len(c) : LastUser(c, i) <=> c[i].role = "user" /\ \A j \in (i + 1)..Len(c) : c[j].role # "user"
      BY DEF LastUser
  <2>3. (CHOOSE i \in 1..Len(c) : LastUser(c, i)) = last
      BY <2>1, <2>2
  <2>4. (\E i \in DOMAIN c : c[i].role = "user") <=> users # {}
      BY <2>1
  <2>5. Chat!LatestUser(c) = IF \E i \in DOMAIN c : c[i].role = "user" THEN last ELSE 0
      BY Zenon DEF Chat!LatestUser
  <2> HIDE DEF users, last
  <2> QED
      BY <2>3, <2>4, <2>5, Zenon
<1>4. CASE users = {}
  <2>1. \A i : ~LastUser(c, i)
      BY <1>4 DEF LastUser
  <2> QED
      BY <1>3, <1>4, <2>1
<1>5. CASE users # {}
  <2>1. PICK i : LastUser(c, i)
      BY <1>2, <1>5
  <2>2. i \in 1..Len(c)
      BY <2>1 DEF LastUser
  <2>3. LastUser(c, Chat!LatestUser(c))
      BY <1>3, <1>5, <2>1, <2>2
  <2> QED
      BY <1>1, <2>3
<1> QED
    BY <1>4, <1>5

(* It stays the last one when others go.                                    *)
LastIs(c, m) == \E k : LastUser(c, k) /\ c[k] = m

LEMMA ThinnedLast ==
  ASSUME NEW c, NEW d, NEW s, Len(c) \in Nat, Len(d) \in Nat, s \in SUBSET (1..Len(c)),
         Thinned(d, c, s), NEW i, i \in s, LastUser(c, i)
  PROVE  LastIs(d, c[i])
<1>1. PICK e \in [1..Len(d) -> s] :
        /\ \A m, n \in 1..Len(d) : m < n => e[m] < e[n]
        /\ \A j \in s : \E n \in 1..Len(d) : e[n] = j
        /\ \A n \in 1..Len(d) : d[n] = c[e[n]]
    BY DEF Thinned
<1>2. PICK k \in 1..Len(d) : e[k] = i
    BY <1>1
<1>3. ASSUME NEW n \in (k + 1)..Len(d) PROVE d[n].role # "user"
  <2>1. n \in 1..Len(d) /\ k < n
      BY <1>2
  <2>2. e[n] \in 1..Len(c) /\ e[n] > i
      BY <1>1, <1>2, <2>1
  <2>3. e[n] \in (i + 1)..Len(c)
      BY <2>2
  <2> QED
      BY <1>1, <2>1, <2>3 DEF LastUser
<1> QED
    BY <1>1, <1>2, <1>3 DEF LastUser, LastIs

(* ChatRequest: the tokens of a conversation are a number.                  *)
Adds(c, f, s) ==
  IF s = {} THEN 0
  ELSE LET x == CHOOSE x \in s : TRUE IN c[x].size + f[s \ {x}]

UpToSize(t, k) == {s \in SUBSET t : Cardinality(s) <= k}

LEMMA AddsExists ==
  ASSUME NEW c, NEW t, IsFiniteSet(t)
  PROVE  \E f : f = [s \in SUBSET t |-> Adds(c, f, s)]
<1> DEFINE Defined(k) == \E f : f = [s \in UpToSize(t, k) |-> Adds(c, f, s)]
           Bad == {k \in Nat : ~Defined(k)}
<1>1. \A s \in SUBSET t : IsFiniteSet(s) /\ Cardinality(s) \in Nat /\ Cardinality(s) <= Cardinality(t)
    BY CountPart
<1>2. Defined(0)
  <2> DEFINE f == [s \in UpToSize(t, 0) |-> 0]
  <2>1. \A s \in UpToSize(t, 0) : s = {}
    <3>1. \A s \in UpToSize(t, 0) : IsFiniteSet(s) /\ Cardinality(s) = 0
        BY <1>1 DEF UpToSize
    <3> QED
        BY <3>1, FS_EmptySet
  <2>2. \A s \in UpToSize(t, 0) : Adds(c, f, s) = 0
      BY <2>1 DEF Adds
  <2>3. f = [s \in UpToSize(t, 0) |-> Adds(c, f, s)]
      BY <2>2
  <2> HIDE DEF f
  <2> QED
      BY <2>3
<1>3. ASSUME NEW k \in Nat, Defined(k) PROVE Defined(k + 1)
  <2>1. PICK f : f = [s \in UpToSize(t, k) |-> Adds(c, f, s)]
      BY <1>3
  <2> DEFINE g == [s \in UpToSize(t, k + 1) |-> IF s \in UpToSize(t, k) THEN f[s] ELSE Adds(c, f, s)]
  <2>2. ASSUME NEW s \in UpToSize(t, k + 1) PROVE g[s] = Adds(c, g, s)
    <3> DEFINE x == CHOOSE x \in s : TRUE
    <3>1. s # {} => s \ {x} \in UpToSize(t, k) /\ s \ {x} \in UpToSize(t, k + 1)
      <4> SUFFICES ASSUME s # {} PROVE s \ {x} \in UpToSize(t, k) /\ s \ {x} \in UpToSize(t, k + 1)
          OBVIOUS
      <4>1. x \in s
          OBVIOUS
      <4> HIDE DEF x
      <4>2. s \in SUBSET t /\ Cardinality(s) <= k + 1
          BY DEF UpToSize
      <4>3. IsFiniteSet(s) /\ Cardinality(s) \in Nat
          BY <1>1, <4>2
      <4>4. Cardinality(s \ {x}) = Cardinality(s) - 1
          BY <4>1, <4>3, FS_RemoveElement
      <4>5. Cardinality(s \ {x}) <= k /\ Cardinality(s \ {x}) <= k + 1
          BY <4>2, <4>3, <4>4
      <4>6. s \ {x} \in SUBSET t
          BY <4>2
      <4> QED
          BY <4>5, <4>6 DEF UpToSize
    <3>2. s # {} => g[s \ {x}] = f[s \ {x}]
        BY <3>1
    <3>3. Adds(c, g, s) = Adds(c, f, s)
        BY <3>2 DEF Adds
    <3>4. s \in UpToSize(t, k) => f[s] = Adds(c, f, s)
        BY <2>1
    <3> QED
        BY <3>3, <3>4
  <2>3. g = [s \in UpToSize(t, k + 1) |-> Adds(c, g, s)]
      BY <2>2
  <2> HIDE DEF g
  <2> QED
      BY <2>3
<1> HIDE DEF Defined
<1>4. Bad = {}
  <2> SUFFICES ASSUME Bad # {} PROVE FALSE
      OBVIOUS
  <2>1. PICK k \in Bad : \A j \in Bad : k <= j
      BY LeastExists
  <2>2. k # 0 /\ k \in Nat
      BY <1>2, <2>1
  <2>3. k - 1 \in Nat /\ k - 1 \notin Bad
      BY <2>1, <2>2
  <2> QED
      BY <1>3, <2>1, <2>2, <2>3
<1>5. Defined(Cardinality(t)) /\ UpToSize(t, Cardinality(t)) = SUBSET t
    BY <1>1, <1>4 DEF UpToSize
<1> QED
    BY <1>5 DEF Defined

LEMMA TextCounts ==
  ASSUME NEW c \in Seq(Chat!Messages)
  PROVE  Chat!Text(c) \in Nat
<1> DEFINE t == DOMAIN c
           f == CHOOSE f : f = [s \in SUBSET t |-> Adds(c, f, s)]
<1>1. IsFiniteSet(t)
  <2>1. t = 1..Len(c)
      OBVIOUS
  <2> QED
      BY <2>1, FS_Interval
<1>2. Chat!Text(c) = f[t]
    BY Zenon DEF Chat!Text, Chat!FoldFunction, Chat!FoldFunctionOnSet, Chat!MapThenFoldSet, Adds
<1>3. f = [s \in SUBSET t |-> Adds(c, f, s)]
    BY <1>1, AddsExists, Zenon
<1> HIDE DEF f
<1>4. ASSUME NEW x \in t PROVE c[x].size \in Nat
  <2>1. c[x] \in Chat!Messages
      OBVIOUS
  <2> QED
      BY <2>1 DEF Chat!Messages
<1> DEFINE Bad == {s \in SUBSET t : f[s] \notin Nat}
           Sizes == {Cardinality(s) : s \in Bad}
<1>5. Bad = {}
  <2> SUFFICES ASSUME Bad # {} PROVE FALSE
      OBVIOUS
  <2>1. \A s \in SUBSET t : IsFiniteSet(s) /\ Cardinality(s) \in Nat
      BY <1>1, CountPart
  <2>2. PICK n \in Sizes : \A m \in Sizes : n <= m
    <3>1. Sizes \in SUBSET Nat /\ Sizes # {}
        BY <2>1
    <3> QED
        BY <3>1, LeastExists
  <2>3. PICK s \in Bad : n = Cardinality(s)
      OBVIOUS
  <2>4. s \in SUBSET t /\ f[s] \notin Nat /\ f[s] = Adds(c, f, s)
      BY <1>3, <2>3
  <2>5. s # {}
      BY <2>4 DEF Adds
  <2> DEFINE x == CHOOSE x \in s : TRUE
  <2>6. x \in s
      BY <2>5
  <2>7. f[s] = c[x].size + f[s \ {x}]
      BY <2>4, <2>5 DEF Adds
  <2> HIDE DEF x
  <2>8. s \ {x} \in SUBSET t /\ Cardinality(s \ {x}) = Cardinality(s) - 1
      BY <2>1, <2>4, <2>6, FS_RemoveElement
  <2>9. f[s \ {x}] \in Nat
    <3>1. s \ {x} \in Bad => n <= Cardinality(s \ {x})
        BY <2>2
    <3>2. ~(n <= Cardinality(s \ {x}))
        BY <2>1, <2>3, <2>4, <2>8
    <3> QED
        BY <2>8, <3>1, <3>2
  <2>10. c[x].size \in Nat
      BY <1>4, <2>4, <2>6
  <2> QED
      BY <2>4, <2>7, <2>9, <2>10
<1> QED
    BY <1>2, <1>5

(* ChatRequest: fewer media need no larger reserve, if the template renders *)
(* no medium with more tokens than are reserved for it.                     *)
LEMMA Products ==
  ASSUME NEW a \in Nat, NEW b \in Nat, a <= b, NEW u \in Nat, NEW v \in Nat
  PROVE  /\ a * u \in Nat /\ b * u \in Nat /\ a * u <= b * u
         /\ v <= u \/ b = 0 => a * u - a * v <= b * u - b * v
<1>1. a * u \in Nat /\ b * u \in Nat /\ a * v \in Nat /\ b * v \in Nat
    OBVIOUS
<1>2. (b - a) * u \in Nat /\ b * u = a * u + (b - a) * u /\ b * v = a * v + (b - a) * v
    OBVIOUS
<1>3. v <= u => (b - a) * v <= (b - a) * u /\ (b - a) * v \in Nat
    OBVIOUS
<1>4. v <= u => a * u - a * v <= b * u - b * v
  <2> DEFINE p == (b - a) * u
             q == (b - a) * v
             w == a * u
             x == a * v
             y == b * u
             z == b * v
  <2>1. /\ p \in Nat /\ w \in Nat /\ x \in Nat /\ y \in Nat /\ z \in Nat
        /\ y = w + p /\ z = x + q /\ (v <= u => q <= p /\ q \in Nat)
      BY <1>1, <1>2, <1>3
  <2> HIDE DEF p, q, w, x, y, z
  <2>2. v <= u => w - x <= y - z
      BY <2>1
  <2> QED
      BY <2>2 DEF w, x, y, z
<1>5. b = 0 => a = 0 /\ a * u - a * v <= b * u - b * v
    OBVIOUS
<1>6. a * u <= b * u
  <2> DEFINE p == (b - a) * u
             w == a * u
             y == b * u
  <2>1. p \in Nat /\ w \in Nat /\ y \in Nat /\ y = w + p
      BY <1>1, <1>2
  <2> HIDE DEF p, w, y
  <2>2. w <= y
      BY <2>1
  <2> QED
      BY <2>2 DEF w, y
<1> QED
    BY <1>1, <1>4, <1>5, <1>6

Tokens(of, m, k) == Cardinality(Chat!OfKind(m, k)) * of[k]

LEMMA OneKind ==
  ASSUME NEW n \in SUBSET DOMAIN MediumKind, NEW m \in SUBSET n, NEW k \in Kinded
  PROVE  /\ Tokens(Estimate, m, k) \in Nat /\ Tokens(Estimate, n, k) \in Nat
         /\ Tokens(Embedded, m, k) \in Nat /\ Tokens(Embedded, n, k) \in Nat
         /\ Tokens(Estimate, m, k) <= Tokens(Estimate, n, k)
         /\ (\A j \in Chat!Kinds(n) : Embedded[j] <= Estimate[j]) =>
              Tokens(Estimate, m, k) - Tokens(Embedded, m, k)
                <= Tokens(Estimate, n, k) - Tokens(Embedded, n, k)
<1> DEFINE p == Chat!OfKind(m, k)
           q == Chat!OfKind(n, k)
<1>1. p \in SUBSET q /\ q \in SUBSET DOMAIN MediumKind
    BY DEF Chat!OfKind
<1>2. IsFiniteSet(q)
    BY <1>1, ChatGiven, FS_Subset
<1>3. Cardinality(p) \in Nat /\ Cardinality(q) \in Nat /\ Cardinality(p) <= Cardinality(q)
    BY <1>1, <1>2, CountPart
<1>4. Estimate[k] \in Nat /\ Embedded[k] \in Nat
    BY ChatGiven
<1>5. (\A j \in Chat!Kinds(n) : Embedded[j] <= Estimate[j]) => Embedded[k] <= Estimate[k] \/ Cardinality(q) = 0
  <2>1. k \notin Chat!Kinds(n) => q = {}
      BY DEF Chat!Kinds, Chat!OfKind
  <2> QED
      BY <1>2, <2>1, FS_EmptySet
<1> HIDE DEF p, q
<1>6. /\ Cardinality(p) * Estimate[k] \in Nat /\ Cardinality(q) * Estimate[k] \in Nat
      /\ Cardinality(p) * Estimate[k] <= Cardinality(q) * Estimate[k]
      /\ Embedded[k] <= Estimate[k] \/ Cardinality(q) = 0 =>
           Cardinality(p) * Estimate[k] - Cardinality(p) * Embedded[k]
             <= Cardinality(q) * Estimate[k] - Cardinality(q) * Embedded[k]
    BY <1>3, <1>4, Products
<1>7. Cardinality(p) * Embedded[k] \in Nat /\ Cardinality(q) * Embedded[k] \in Nat
    BY <1>3, <1>4, Products
<1> QED
    BY <1>5, <1>6, <1>7 DEF Tokens, p, q

Reserve(m) ==
  IF Chat!Total(Estimate, m) = 0 THEN 0
  ELSE Chat!Greater(0, Chat!Total(Estimate, m) - Chat!Total(Embedded, m))

LEMMA ReserveShrinks ==
  ASSUME NEW n \in SUBSET DOMAIN MediumKind, NEW m \in SUBSET n
  PROVE  /\ Chat!Total(Embedded, m) \in Nat /\ Reserve(m) \in Nat
         /\ (\A j \in Chat!Kinds(n) : Embedded[j] <= Estimate[j]) => Reserve(m) <= Reserve(n)
<1>1. \A of, x : Chat!Total(of, x) = Tokens(of, x, "image") + Tokens(of, x, "video") + Tokens(of, x, "audio")
                                       + Tokens(of, x, "pdf")
    BY ChatCount DEF Chat!Total, Tokens
<1> DEFINE fair == \A j \in Chat!Kinds(n) : Embedded[j] <= Estimate[j]
<1>2. ASSUME NEW k \in Kinded
      PROVE  /\ Tokens(Estimate, m, k) \in Nat /\ Tokens(Estimate, n, k) \in Nat
             /\ Tokens(Embedded, m, k) \in Nat /\ Tokens(Embedded, n, k) \in Nat
             /\ Tokens(Estimate, m, k) <= Tokens(Estimate, n, k)
             /\ fair => Tokens(Estimate, m, k) - Tokens(Embedded, m, k)
                          <= Tokens(Estimate, n, k) - Tokens(Embedded, n, k)
    BY OneKind
<1> HIDE DEF fair
<1>3. "image" \in Kinded /\ "video" \in Kinded /\ "audio" \in Kinded /\ "pdf" \in Kinded
    BY DEF Kinded
<1> DEFINE a == Chat!Total(Estimate, m)
           b == Chat!Total(Embedded, m)
           c == Chat!Total(Estimate, n)
           d == Chat!Total(Embedded, n)
<1>4. a \in Nat /\ b \in Nat /\ c \in Nat /\ d \in Nat
    BY <1>1, <1>2, <1>3
<1>5. a <= c
    BY <1>1, <1>2, <1>3
<1>6. fair => a - b <= c - d
  <2> SUFFICES ASSUME fair PROVE a - b <= c - d
      OBVIOUS
  <2>1. \A k \in Kinded : /\ Tokens(Estimate, m, k) \in Nat /\ Tokens(Estimate, n, k) \in Nat
                          /\ Tokens(Embedded, m, k) \in Nat /\ Tokens(Embedded, n, k) \in Nat
                          /\ Tokens(Estimate, m, k) - Tokens(Embedded, m, k)
                               <= Tokens(Estimate, n, k) - Tokens(Embedded, n, k)
      BY <1>2
  <2> QED
      BY <1>1, <1>3, <2>1
<1> HIDE DEF a, b, c, d
<1>7. /\ Reserve(m) = IF a = 0 THEN 0 ELSE Chat!Greater(0, a - b)
      /\ Reserve(n) = IF c = 0 THEN 0 ELSE Chat!Greater(0, c - d)
    BY DEF Reserve, a, b, c, d
<1>8. Reserve(m) \in Nat /\ (fair => Reserve(m) <= Reserve(n))
    BY <1>4, <1>5, <1>6, <1>7 DEF Chat!Greater
<1> QED
    BY <1>4, <1>8 DEF b, fair

(* ChatRequest: what a conversation shows of the media, from the request to *)
(* the call.                                                                *)
Asked == chatAsked.request.conversation
Latest == Chat!LatestUser(Asked)
LatestMedia == IF Latest = 0 THEN {} ELSE Asked[Latest].media
ActiveMedia == IF Latest = 0 THEN {} ELSE UNION {Asked[i].media : i \in Latest..Len(Asked)}
Replaced == Chat!Preprocessed(Chat!D, chatMedia)
AboutCurrent ==
  /\ Chat!Chat /\ Latest > 0 /\ (Chat!D.reset \/ Chat!D.focus)
  /\ Chat!D.history = "latest" /\ chatMedia # {}

(* A message before media are replaced by text about them, and after.       *)
Sane(m) ==
  /\ m.media \subseteq chatMedia
  /\ m.role = "user" => m.about = {}
  /\ AboutCurrent /\ m.role = "assistant" => m.about \subseteq ActiveMedia
Fine(m) ==
  /\ m.media \subseteq chatMedia /\ (Replaced => m.media = {}) /\ ~m.old
  /\ m.role = "user" => m.about \subseteq chatMedia
  /\ AboutCurrent /\ m.role = "assistant" => m.about \subseteq ActiveMedia

Faithful(c) ==
  /\ c \in Seq(Chat!Messages)
  /\ \A i \in 1..Len(c) : Sane(c[i])
  /\ Latest > 0 => \E k : LastUser(c, k) /\ LatestMedia \subseteq c[k].media
Ready(c) ==
  /\ c \in Seq(Chat!Messages)
  /\ \A i \in 1..Len(c) : Fine(c[i])
  /\ Latest > 0 => \E k : /\ LastUser(c, k)
                          /\ LatestMedia \subseteq (IF Replaced THEN c[k].about ELSE c[k].media)

LEMMA MediaIs ==
  ASSUME NEW c \in Seq(Chat!Messages)
  PROVE  /\ Chat!MediaOf(c) = UNION {c[i].media : i \in 1..Len(c)}
         /\ Chat!MediaOf(c) \subseteq DOMAIN MediumKind
<1>1. DOMAIN c = 1..Len(c)
    OBVIOUS
<1>2. ASSUME NEW i \in 1..Len(c) PROVE c[i].media \subseteq DOMAIN MediumKind
  <2>1. c[i] \in Chat!Messages
      OBVIOUS
  <2> QED
      BY <2>1 DEF Chat!Messages
<1> QED
    BY <1>1, <1>2 DEF Chat!MediaOf

(* The oldest turn goes; the last message of the user stays.                *)
LEMMA OldestGoes ==
  ASSUME NEW T, NEW c \in Seq(T)
  PROVE  LET d == Chat!WithoutOldest(c)
         IN /\ d \in Seq(T)
            /\ \A n \in 1..Len(d) : \E i \in 1..Len(c) : d[n] = c[i]
            /\ \A i : LastUser(c, i) => \E k : LastUser(d, k) /\ d[k] = c[i]
<1> DEFINE history == {i \in 1..Chat!LatestUser(c) - 1 : c[i].role # "system"}
           first == CHOOSE i \in history : \A j \in history : i <= j
           turn == {i \in history : \A j \in first+1..i : c[j].role # "user"}
           stays == DOMAIN c \ turn
           d == Chat!WithoutOldest(c)
<1>1. d = IF history = {} THEN c ELSE Chat!Only(c, stays)
    BY Zenon DEF Chat!WithoutOldest
<1>2. DOMAIN c = 1..Len(c)
    OBVIOUS
<1>3. turn \subseteq 1..Chat!LatestUser(c) - 1 /\ stays = (1..Len(c)) \ turn
    BY <1>2
<1> HIDE DEF turn, stays, d, history
<1>4. CASE history = {}
    BY <1>1, <1>4 DEF d
<1>5. CASE history # {}
  <2>1. d = Chat!Only(c, stays)
      BY <1>1, <1>5
  <2>2. stays \in SUBSET (1..Len(c))
      BY <1>3
  <2>3. d \in Seq(T) /\ Thinned(d, c, stays)
      BY <2>1, <2>2, OnlyThins
  <2>4. \A n \in 1..Len(d) : \E i \in 1..Len(c) : d[n] = c[i]
      BY <2>2, <2>3 DEF Thinned
  <2>5. ASSUME NEW i, LastUser(c, i) PROVE \E k : LastUser(d, k) /\ d[k] = c[i]
    <3>1. Chat!LatestUser(c) = i /\ i \in 1..Len(c)
        BY <2>5, LatestIs DEF LastUser
    <3>2. i \in stays
        BY <1>3, <3>1
    <3>3. Len(c) \in Nat /\ Len(d) \in Nat
        BY <2>3
    <3>4. Thinned(d, c, stays)
        BY <2>3
    <3>5. LastIs(d, c[i])
        BY <2>2, <2>5, <3>2, <3>3, <3>4, ThinnedLast
    <3> QED
        BY <3>5 DEF LastIs
  <2> QED
      BY <2>3, <2>4, <2>5 DEF d
<1> QED
    BY <1>4, <1>5

LEMMA ReadyWithoutOldest ==
  ASSUME NEW c, Ready(c)
  PROVE  Ready(Chat!WithoutOldest(c)) /\ Chat!MediaOf(Chat!WithoutOldest(c)) \subseteq Chat!MediaOf(c)
<1> DEFINE d == Chat!WithoutOldest(c)
<1>1. /\ d \in Seq(Chat!Messages)
      /\ \A n \in 1..Len(d) : \E i \in 1..Len(c) : d[n] = c[i]
      /\ \A i : LastUser(c, i) => \E k : LastUser(d, k) /\ d[k] = c[i]
    BY OldestGoes DEF Ready
<1> HIDE DEF d
<1>2. \A n \in 1..Len(d) : Fine(d[n])
    BY <1>1 DEF Ready
<1>3. Latest > 0 => \E k : /\ LastUser(d, k)
                           /\ LatestMedia \subseteq (IF Replaced THEN d[k].about ELSE d[k].media)
    BY <1>1 DEF Ready
<1>4. Chat!MediaOf(d) \subseteq Chat!MediaOf(c)
    BY <1>1, MediaIs DEF Ready
<1> QED
    BY <1>1, <1>2, <1>3, <1>4 DEF Ready, d

(* A summary stands behind the system messages, before any user.            *)
LEMMA ReadyInjected ==
  ASSUME NEW c, Ready(c), NEW size \in Nat
  PROVE  Ready(Chat!Injected(c, size)) /\ Chat!MediaOf(Chat!Injected(c, size)) \subseteq Chat!MediaOf(c)
<1> DEFINE system == {i \in DOMAIN c : \A j \in 1..i : c[j].role = "system"}
           n == Cardinality(system)
           a == Chat!Message("system", 1, {})
           b == Chat!Message("assistant", size, {})
           head == SubSeq(c, 1, n)
           tail == SubSeq(c, n + 1, Len(c))
           d == Chat!Injected(c, size)
<1>1. c \in Seq(Chat!Messages) /\ DOMAIN c = 1..Len(c)
    BY DEF Ready
<1>2. IsFiniteSet(system) /\ n \in 0..Len(c)
  <2>1. system \in SUBSET (1..Len(c)) /\ IsFiniteSet(1..Len(c)) /\ Cardinality(1..Len(c)) = Len(c)
      BY <1>1, FS_Interval
  <2> QED
      BY <2>1, CountPart
<1>3. \A k : LastUser(c, k) => n < k
  <2> SUFFICES ASSUME NEW k, LastUser(c, k) PROVE n < k
      OBVIOUS
  <2>1. k \in 1..Len(c) /\ c[k].role = "user"
      BY DEF LastUser
  <2>2. system \in SUBSET (1..(k - 1))
      BY <1>1, <2>1
  <2>3. IsFiniteSet(1..(k - 1)) /\ Cardinality(1..(k - 1)) = k - 1
    <3>1. k \in Int /\ k - 1 \in Int /\ 1 \in Int /\ (1 > k - 1 => k - 1 = 0) /\ (k - 1) - 1 + 1 = k - 1
        BY <1>1, <2>1
    <3>2. /\ IsFiniteSet(1..(k - 1))
          /\ Cardinality(1..(k - 1)) = IF 1 > k - 1 THEN 0 ELSE (k - 1) - 1 + 1
        BY <3>1, FS_Interval
    <3> QED
        BY <3>1, <3>2
  <2>4. n <= k - 1
      BY <2>2, <2>3, CountPart
  <2> QED
      BY <1>2, <2>1, <2>4
<1>4. d = head \o <<a, b>> \o tail
    BY ChatCount, Zenon DEF Chat!Injected
<1> HIDE DEF n, system
<1>5. a \in Chat!Messages /\ b \in Chat!Messages /\ Fine(a) /\ Fine(b) /\ a.media = {} /\ b.media = {}
      /\ a.role = "system" /\ b.role = "assistant"
    BY DEF Chat!Message, Chat!Messages, Fine
<1>6. /\ head \in Seq(Chat!Messages) /\ Len(head) = n
      /\ \A i \in 1..n : head[i] = c[i]
  <2>1. \A i \in 1..n : c[i] \in Chat!Messages
      BY <1>1, <1>2
  <2>2. /\ head \in Seq(Chat!Messages) /\ Len(head) = IF 1 <= n THEN n - 1 + 1 ELSE 0
        /\ \A i \in 1..n - 1 + 1 : head[i] = c[1 + i - 1]
      BY <1>2, <2>1, SubSeqProperties
  <2> QED
      BY <1>2, <2>2
<1>7. /\ tail \in Seq(Chat!Messages) /\ Len(tail) = Len(c) - n
      /\ \A i \in 1..Len(c) - n : tail[i] = c[n + i]
  <2>1. \A i \in (n + 1)..Len(c) : c[i] \in Chat!Messages
      BY <1>1, <1>2
  <2>2. /\ tail \in Seq(Chat!Messages) /\ Len(tail) = IF n + 1 <= Len(c) THEN Len(c) - (n + 1) + 1 ELSE 0
        /\ \A i \in 1..Len(c) - (n + 1) + 1 : tail[i] = c[(n + 1) + i - 1]
    <3>1. n + 1 \in Int /\ Len(c) \in Int
        BY <1>1, <1>2
    <3> QED
        BY <2>1, <3>1, SubSeqProperties
  <2>3. Len(c) - (n + 1) + 1 = Len(c) - n /\ (~(n + 1 <= Len(c)) => Len(c) - n = 0)
    <3>1. Len(c) \in Nat
        BY <1>1
    <3>2. n \in Nat /\ n <= Len(c)
        BY <1>2, <3>1
    <3> HIDE DEF n, system
    <3> QED
        BY <3>1, <3>2
  <2>4. \A i \in 1..Len(c) - n : (n + 1) + i - 1 = n + i
      BY <1>1, <1>2
  <2> QED
      BY <1>1, <1>2, <2>2, <2>3, <2>4
<1> HIDE DEF a, b, head, tail, d
<1> DEFINE start == head \o <<a, b>>
<1>8. /\ start \in Seq(Chat!Messages) /\ Len(start) = n + 2
      /\ \A i \in 1..n + 2 : start[i] = IF i <= n THEN c[i] ELSE IF i = n + 1 THEN a ELSE b
  <2>1. <<a, b>> \in Seq(Chat!Messages) /\ Len(<<a, b>>) = 2 /\ <<a, b>>[1] = a /\ <<a, b>>[2] = b
      BY <1>5
  <2>2. /\ start \in Seq(Chat!Messages) /\ Len(start) = n + 2
        /\ \A i \in 1..n + 2 : start[i] = IF i <= n THEN head[i] ELSE <<a, b>>[i - n]
      BY <1>6, <2>1, ConcatProperties
  <2>3. \A i \in 1..n + 2 :
          /\ i <= n => i \in 1..n
          /\ ~(i <= n) => (i = n + 1 /\ i - n = 1) \/ (i # n + 1 /\ i - n = 2)
      BY <1>2
  <2> QED
      BY <1>6, <2>1, <2>2, <2>3
<1> HIDE DEF start
<1>9. /\ d \in Seq(Chat!Messages) /\ Len(d) = Len(c) + 2
      /\ \A i \in 1..Len(c) + 2 : d[i] = IF i <= n THEN c[i] ELSE IF i = n + 1 THEN a ELSE IF i = n + 2 THEN b
                                         ELSE c[i - 2]
  <2>1. d = start \o tail
      BY <1>4 DEF start
  <2>2. /\ d \in Seq(Chat!Messages) /\ Len(d) = (n + 2) + (Len(c) - n)
        /\ \A i \in 1..(n + 2) + (Len(c) - n) : d[i] = IF i <= n + 2 THEN start[i] ELSE tail[i - (n + 2)]
    <3>1. start \in Seq(Chat!Messages) /\ tail \in Seq(Chat!Messages)
        BY <1>7, <1>8
    <3>2. /\ start \o tail \in Seq(Chat!Messages)
          /\ Len(start \o tail) = Len(start) + Len(tail)
          /\ \A i \in 1..Len(start) + Len(tail) :
               (start \o tail)[i] = IF i <= Len(start) THEN start[i] ELSE tail[i - Len(start)]
        BY <3>1, ConcatProperties
    <3>3. Len(start) = n + 2 /\ Len(tail) = Len(c) - n
        BY <1>7, <1>8
    <3> QED
        BY <2>1, <3>2, <3>3
  <2>3. (n + 2) + (Len(c) - n) = Len(c) + 2
      BY <1>1, <1>2
  <2>4. \A i \in 1..Len(c) + 2 : /\ i <= n => i <= n + 2
                                 /\ i = n + 1 => i <= n + 2 /\ ~(i <= n)
                                 /\ i = n + 2 => i <= n + 2 /\ ~(i <= n) /\ i # n + 1
                                 /\ i <= n + 2 => i \in 1..n + 2 /\ (i <= n \/ i = n + 1 \/ i = n + 2)
                                 /\ ~(i <= n + 2) => i - (n + 2) \in 1..Len(c) - n /\ n + (i - (n + 2)) = i - 2
      BY <1>1, <1>2
  <2> QED
      BY <1>7, <1>8, <2>2, <2>3, <2>4
<1>10. ASSUME NEW i \in 1..Len(d) PROVE d[i] = a \/ d[i] = b \/ \E j \in 1..Len(c) : d[i] = c[j]
  <2>1. /\ i <= n => i \in 1..Len(c)
        /\ ~(i <= n) /\ i # n + 1 /\ i # n + 2 => i - 2 \in 1..Len(c)
      BY <1>1, <1>2, <1>9
  <2> QED
      BY <1>9, <2>1
<1>11. \A i \in 1..Len(d) : Fine(d[i])
    BY <1>5, <1>10 DEF Ready
<1>12. ASSUME NEW k, LastUser(c, k) PROVE LastUser(d, k + 2) /\ d[k + 2] = c[k]
  <2>1. k \in 1..Len(c) /\ n < k
      BY <1>3, <1>12 DEF LastUser
  <2>2. k + 2 \in 1..Len(d) /\ k + 2 \in 1..Len(c) + 2 /\ ~(k + 2 <= n) /\ k + 2 # n + 1 /\ k + 2 # n + 2
        /\ (k + 2) - 2 = k
      BY <1>1, <1>2, <1>9, <2>1
  <2>3. d[k + 2] = c[k]
      BY <1>9, <2>2
  <2>4. ASSUME NEW j \in (k + 2 + 1)..Len(d) PROVE d[j].role # "user"
    <3>1. j \in 1..Len(c) + 2 /\ ~(j <= n) /\ j # n + 1 /\ j # n + 2 /\ j - 2 \in (k + 1)..Len(c)
        BY <1>1, <1>2, <1>9, <2>1
    <3>2. d[j] = c[j - 2]
        BY <1>9, <3>1
    <3> QED
        BY <1>12, <3>1, <3>2 DEF LastUser
  <2> QED
      BY <1>12, <2>2, <2>3, <2>4 DEF LastUser
<1>13. Latest > 0 => \E k : /\ LastUser(d, k)
                            /\ LatestMedia \subseteq (IF Replaced THEN d[k].about ELSE d[k].media)
    BY <1>12 DEF Ready
<1>14. Chat!MediaOf(d) \subseteq Chat!MediaOf(c)
  <2>1. /\ Chat!MediaOf(d) = UNION {d[i].media : i \in 1..Len(d)}
        /\ Chat!MediaOf(c) = UNION {c[i].media : i \in 1..Len(c)}
      BY <1>1, <1>9, MediaIs
  <2>2. \A i \in 1..Len(d) : d[i].media = {} \/ \E j \in 1..Len(c) : d[i].media = c[j].media
      BY <1>5, <1>10
  <2> QED
      BY <2>1, <2>2
<1> QED
    BY <1>9, <1>11, <1>13, <1>14 DEF Ready, d

LEMMA ChatKept ==
  ASSUME NEW c, UNCHANGED <<chatAsked, chatMedia>>
  PROVE  /\ Latest' = Latest /\ LatestMedia' = LatestMedia /\ ActiveMedia' = ActiveMedia
         /\ Replaced' = Replaced /\ AboutCurrent' = AboutCurrent
         /\ Faithful(c)' <=> Faithful(c)
         /\ Ready(c)' <=> Ready(c)
<1>1. Latest' = Latest /\ Asked' = Asked
    BY DEF Latest, Asked
<1>2. LatestMedia' = LatestMedia /\ ActiveMedia' = ActiveMedia
    BY <1>1 DEF LatestMedia, ActiveMedia
<1>3. Replaced' = Replaced
    BY DEF Replaced, Chat!Preprocessed, Chat!D
<1>4. AboutCurrent' = AboutCurrent
    BY <1>1 DEF AboutCurrent, Chat!Chat, Chat!D, Chat!R
<1>5. Faithful(c)' <=> Faithful(c)
    BY <1>1, <1>2, <1>4 DEF Faithful, Sane
<1>6. Ready(c)' <=> Ready(c)
    BY <1>1, <1>2, <1>3, <1>4 DEF Ready, Fine
<1> QED
    BY <1>1, <1>2, <1>3, <1>4, <1>5, <1>6

(* Text about the media takes their place in the last message of the user.  *)
LEMMA ReadyTold ==
  ASSUME NEW c, Faithful(c), \A i \in 1..Len(c) : ~c[i].old, Replaced, chatMedia \subseteq DOMAIN MediumKind
  PROVE  Ready(Chat!Told(c, chatMedia))
<1> DEFINE u == Chat!LatestUser(c)
           more(i) == [c[i] EXCEPT !.media = {},
                                   !.size = @ + (IF i = u THEN EvidenceTokens ELSE 0),
                                   !.about = @ \cup (IF i = u THEN chatMedia ELSE {})]
           plain == [i \in DOMAIN c |-> more(i)]
           stays == {i \in DOMAIN c : plain[i].size > 0 \/ c[i].role \in {"assistant", "tool"}}
           said == Chat!Only(plain, stays)
           new == [Chat!Message("user", EvidenceTokens, {}) EXCEPT !.about = chatMedia]
<1>1. c \in Seq(Chat!Messages) /\ DOMAIN c = 1..Len(c) /\ Len(c) \in Nat /\ EvidenceTokens \in Nat \ {0}
    BY ChatGiven DEF Faithful
<1>2. Chat!Told(c, chatMedia) = IF u > 0 THEN said ELSE Append(said, new)
    BY Zenon DEF Chat!Told
<1>3. \/ u = 0 /\ \A i \in 1..Len(c) : c[i].role # "user"
      \/ LastUser(c, u) /\ u \in 1..Len(c)
    BY <1>1, LatestIs DEF LastUser
<1> HIDE DEF u
<1>4. ASSUME NEW i \in 1..Len(c)
      PROVE  /\ more(i) \in Chat!Messages /\ more(i).role = c[i].role /\ more(i).media = {} /\ ~more(i).old
             /\ more(i).about = c[i].about \cup (IF i = u THEN chatMedia ELSE {})
             /\ i = u => more(i).size > 0
  <2>1. c[i] \in Chat!Messages /\ ~c[i].old
      BY <1>1
  <2>2. c[i].size \in Nat /\ c[i].about \subseteq DOMAIN MediumKind
      BY <2>1 DEF Chat!Messages
  <2>3. PICK size : size = c[i].size + (IF i = u THEN EvidenceTokens ELSE 0)
      OBVIOUS
  <2>4. PICK told : told = c[i].about \cup (IF i = u THEN chatMedia ELSE {})
      OBVIOUS
  <2>5. size \in Nat /\ (i = u => size > 0) /\ told \in SUBSET DOMAIN MediumKind
      BY <1>1, <2>2, <2>3, <2>4
  <2>6. more(i) = [c[i] EXCEPT !.media = {}, !.size = size, !.about = told]
      BY <2>3, <2>4
  <2> HIDE DEF more
  <2>7. /\ more(i) \in Chat!Messages /\ more(i).role = c[i].role /\ (more(i).old <=> c[i].old)
        /\ more(i).media = {} /\ more(i).size = size /\ more(i).about = told
    <3>1. PICK m \in Chat!Messages : m = c[i]
        BY <2>1
    <3>2. PICK x : x = more(i)
        OBVIOUS
    <3>3. x = [m EXCEPT !.media = {}, !.size = size, !.about = told]
        BY <2>6, <3>1, <3>2
    <3>4. /\ x \in Chat!Messages /\ x.role = m.role /\ (x.old <=> m.old)
          /\ x.media = {} /\ x.size = size /\ x.about = told
        BY <2>5, <3>3 DEF Chat!Messages
    <3> QED
        BY <3>1, <3>2, <3>4
  <2> QED
      BY <2>1, <2>4, <2>5, <2>7
<1>5. ASSUME NEW i \in 1..Len(c) PROVE Fine(more(i))
  <2>1. Sane(c[i])
      BY DEF Faithful
  <2>2. i = u => c[i].role = "user"
      BY <1>3 DEF LastUser
  <2>3. /\ more(i).role = c[i].role /\ more(i).media = {} /\ ~more(i).old
        /\ more(i).about = c[i].about \cup (IF i = u THEN chatMedia ELSE {})
      BY <1>4
  <2> HIDE DEF more
  <2> QED
      BY <2>1, <2>2, <2>3 DEF Sane, Fine
<1> HIDE DEF more
<1>6. plain \in Seq(Chat!Messages) /\ Len(plain) = Len(c) /\ \A i \in 1..Len(c) : plain[i] = more(i)
  <2>1. plain = [i \in 1..Len(c) |-> more(i)]
      BY <1>1
  <2> QED
      BY <1>1, <1>4, <2>1
<1>7. stays \in SUBSET (1..Len(plain)) /\ (u > 0 => u \in stays)
  <2>1. \A i \in stays : i \in 1..Len(plain)
      BY <1>1, <1>6
  <2>2. u > 0 => u \in stays
      BY <1>1, <1>3, <1>4, <1>6
  <2> QED
      BY <2>1, <2>2
<1> HIDE DEF plain, stays
<1>8. said \in Seq(Chat!Messages) /\ Thinned(said, plain, stays)
    BY <1>6, <1>7, OnlyThins
<1>9. \A n \in 1..Len(said) : Fine(said[n])
  <2>1. \A n \in 1..Len(said) : \E i \in 1..Len(plain) : said[n] = plain[i]
      BY <1>7, <1>8 DEF Thinned
  <2> QED
      BY <1>5, <1>6, <2>1
<1> HIDE DEF said
<1>10. Latest > 0 => u > 0 /\ LatestMedia \subseteq chatMedia
  <2> SUFFICES ASSUME Latest > 0 PROVE u > 0 /\ LatestMedia \subseteq chatMedia
      OBVIOUS
  <2>1. PICK k : LastUser(c, k) /\ LatestMedia \subseteq c[k].media
      BY DEF Faithful
  <2>2. k \in 1..Len(c) /\ c[k].role = "user"
      BY <2>1 DEF LastUser
  <2>3. Sane(c[k])
      BY <2>2 DEF Faithful
  <2> QED
      BY <1>3, <2>1, <2>2, <2>3 DEF Sane
<1>11. CASE u > 0
  <2>1. LastUser(plain, u)
      BY <1>3, <1>4, <1>6, <1>11 DEF LastUser
  <2>2. PICK k : LastUser(said, k) /\ said[k] = plain[u]
    <3>1. Len(plain) \in Nat /\ Len(said) \in Nat /\ u \in stays /\ stays \in SUBSET (1..Len(plain))
        BY <1>6, <1>7, <1>8, <1>11
    <3>2. Thinned(said, plain, stays)
        BY <1>8
    <3>3. LastIs(said, plain[u])
        BY <2>1, <3>1, <3>2, ThinnedLast
    <3> QED
        BY <3>3 DEF LastIs
  <2>3. chatMedia \subseteq said[k].about
      BY <1>3, <1>4, <1>6, <1>11, <2>2
  <2> QED
      BY <1>2, <1>8, <1>9, <1>10, <1>11, <2>2, <2>3 DEF Ready
<1>12. CASE u = 0
  <2>1. new \in Chat!Messages /\ Fine(new)
      BY <1>1 DEF Chat!Message, Chat!Messages, Fine
  <2> HIDE DEF new
  <2>2. Append(said, new) \in Seq(Chat!Messages) /\ Len(Append(said, new)) = Len(said) + 1
        /\ \A n \in 1..Len(said) + 1 : Append(said, new)[n] = IF n <= Len(said) THEN said[n] ELSE new
      BY <1>8, <2>1
  <2>3. \A n \in 1..Len(said) + 1 : n <= Len(said) => n \in 1..Len(said)
      BY <1>8
  <2>4. \A n \in 1..Len(Append(said, new)) : Fine(Append(said, new)[n])
      BY <1>9, <2>1, <2>2, <2>3
  <2> QED
      BY <1>2, <1>10, <1>12, <2>2, <2>4 DEF Ready
<1> QED
    BY <1>3, <1>11, <1>12

(* The media of the history are removed, and their messages marked.         *)
LEMMA ForgottenIs ==
  ASSUME NEW m \in Chat!Messages
  PROVE  LET x == Chat!Forgotten(m)
         IN /\ x \in Chat!Messages /\ x.role = m.role /\ x.about = m.about /\ x.media = {}
            /\ m.media # {} => x.old
<1> DEFINE y == [m EXCEPT !.media = {}, !.old = TRUE]
<1>1. y \in Chat!Messages /\ y.role = m.role /\ y.about = m.about /\ y.media = {} /\ y.old
    BY DEF Chat!Messages
<1> HIDE DEF y
<1>2. Chat!Forgotten(m) = IF m.media = {} THEN m ELSE y
    BY DEF Chat!Forgotten, y
<1> QED
    BY <1>1, <1>2

LEMMA ScopedIs ==
  ASSUME NEW c \in Seq(Chat!Messages), NEW keep, NEW u, LastUser(c, u), NEW d, d = Chat!Scoped(c, keep)
  PROVE  /\ d \in Seq(Chat!Messages) /\ Len(d) = Len(c) /\ d[u] = c[u]
         /\ \A i \in 1..Len(c) : d[i].role = c[i].role /\ d[i].about = c[i].about
         /\ \A i \in 1..Len(c) : i < u => d[i].media = {} /\ (c[i].media # {} => d[i].old)
         /\ Chat!MediaOf(d) = IF keep THEN UNION {c[i].media : i \in u..Len(c)} ELSE c[u].media
<1>1. DOMAIN c = 1..Len(c) /\ Len(c) \in Nat /\ u \in 1..Len(c) /\ Chat!LatestUser(c) = u
    BY LatestIs DEF LastUser
<1>2. d = [i \in 1..Len(c) |-> IF i = u \/ (keep /\ i > u) THEN c[i] ELSE Chat!Forgotten(c[i])]
    BY <1>1 DEF Chat!Scoped
<1>3. \A i \in 1..Len(c) : /\ c[i] \in Chat!Messages /\ Chat!Forgotten(c[i]) \in Chat!Messages
                           /\ Chat!Forgotten(c[i]).role = c[i].role /\ Chat!Forgotten(c[i]).about = c[i].about
                           /\ Chat!Forgotten(c[i]).media = {} /\ (c[i].media # {} => Chat!Forgotten(c[i]).old)
    BY ForgottenIs
<1>4. d \in Seq(Chat!Messages) /\ Len(d) = Len(c)
    BY <1>1, <1>2, <1>3
<1>5. \A i \in 1..Len(c) : d[i] = IF i = u \/ (keep /\ i > u) THEN c[i] ELSE Chat!Forgotten(c[i])
    BY <1>2
<1>6. \A i \in 1..Len(c) : d[i].role = c[i].role /\ d[i].about = c[i].about
    BY <1>3, <1>5
<1>7. ASSUME NEW i \in 1..Len(c), i < u PROVE d[i].media = {} /\ (c[i].media # {} => d[i].old)
  <2>1. ~(i = u \/ (keep /\ i > u))
      BY <1>1, <1>7
  <2>2. d[i] = Chat!Forgotten(c[i])
      BY <1>5, <2>1
  <2> QED
      BY <1>3, <2>2
<1>8. Chat!MediaOf(d) = IF keep THEN UNION {c[i].media : i \in u..Len(c)} ELSE c[u].media
  <2>1. Chat!MediaOf(d) = UNION {d[i].media : i \in 1..Len(c)}
      BY <1>4, MediaIs
  <2>2. \A i \in 1..Len(c) : d[i].media = IF i = u \/ (keep /\ i > u) THEN c[i].media ELSE {}
      BY <1>3, <1>5
  <2>3. CASE keep
    <3>1. \A i \in 1..Len(c) : d[i].media = IF i \in u..Len(c) THEN c[i].media ELSE {}
      <4>1. \A i \in 1..Len(c) : (i = u \/ i > u) <=> i \in u..Len(c)
          BY <1>1
      <4> QED
          BY <2>2, <2>3, <4>1
    <3>2. \A i \in u..Len(c) : i \in 1..Len(c)
        BY <1>1
    <3>3. \A x : x \in UNION {d[i].media : i \in 1..Len(c)} <=> x \in UNION {c[i].media : i \in u..Len(c)}
      <4>1. \A x : x \in UNION {d[i].media : i \in 1..Len(c)} <=> \E i \in 1..Len(c) : x \in d[i].media
          OBVIOUS
      <4>2. \A x : x \in UNION {c[i].media : i \in u..Len(c)} <=> \E i \in u..Len(c) : x \in c[i].media
          OBVIOUS
      <4> QED
          BY <3>1, <3>2, <4>1, <4>2
    <3> QED
        BY <2>1, <2>3, <3>3
  <2>4. CASE ~keep
    <3>1. \A i \in 1..Len(c) : d[i].media = IF i = u THEN c[i].media ELSE {}
        BY <2>2, <2>4
    <3> QED
        BY <1>1, <2>1, <2>4, <3>1
  <2> QED
      BY <2>3, <2>4
<1> QED
    BY <1>1, <1>4, <1>5, <1>6, <1>7, <1>8

(* ChatRequest: the conversation when its media are extracted, and the      *)
(* request that it comes from.                                              *)
Scope(c) ==
  /\ Chat!Conversation(Asked)
  /\ c = IF Chat!Chat /\ Chat!D.history = "latest" THEN Chat!Scoped(Asked, Chat!DeepSeek) ELSE Asked
Given(c) == Scope(c) /\ chatMedia = Chat!MediaOf(c)

LEMMA ScopeIs ==
  ASSUME NEW c, Scope(c)
  PROVE  /\ c \in Seq(Chat!Messages) /\ Asked \in Seq(Chat!Messages)
         /\ Len(c) = Len(Asked) /\ Chat!LatestUser(c) = Latest
         /\ Latest > 0 => LastUser(Asked, Latest) /\ LastUser(c, Latest) /\ c[Latest].media = LatestMedia
         /\ Latest = 0 => \A i \in 1..Len(c) : c[i].role # "user"
         /\ Latest \in Nat
         /\ \A i \in 1..Len(c) : /\ c[i].role = Asked[i].role /\ c[i].about = Asked[i].about
                                 /\ c[i].role = "user" => c[i].about = {}
         /\ Chat!Chat /\ Chat!D.history = "latest" =>
              /\ \A i \in 1..Len(c) : i < Latest => c[i].media = {} /\ (Asked[i].media # {} => c[i].old)
              /\ Latest > 0 => Chat!MediaOf(c) = IF Chat!DeepSeek THEN ActiveMedia ELSE LatestMedia
<1> DEFINE latest == Chat!Chat /\ Chat!D.history = "latest"
<1>1. /\ Asked \in Seq(Chat!Messages) /\ DOMAIN Asked = 1..Len(Asked) /\ Len(Asked) \in Nat
      /\ \A i \in 1..Len(Asked) : Asked[i].role = "user" => Asked[i].about = {}
  <2>1. Asked \in Seq(Chat!Messages) /\ \A i \in DOMAIN Asked : Asked[i].role = "user" => Asked[i].about = {}
      BY DEF Scope, Chat!Conversation
  <2> QED
      BY <2>1
<1>2. \/ Latest = 0 /\ \A i \in 1..Len(Asked) : Asked[i].role # "user"
      \/ LastUser(Asked, Latest) /\ Latest \in 1..Len(Asked)
    BY <1>1, LatestIs DEF Latest, LastUser
<1>3. latest => c = Chat!Scoped(Asked, Chat!DeepSeek)
    BY DEF Scope
<1>4. ~latest => c = Asked
    BY DEF Scope
<1> HIDE DEF latest
<1>5. CASE Latest = 0
  <2>1. c = Asked
      BY <1>3, <1>4, <1>5 DEF Chat!Scoped, Latest
  <2>2. \A i \in 1..Len(c) : i \in Nat /\ ~(i < 0)
      BY <1>1, <2>1
  <2> QED
      BY <1>1, <1>2, <1>5, <2>1, <2>2 DEF Latest
<1>6. CASE Latest > 0
  <2>1. LastUser(Asked, Latest) /\ Latest \in 1..Len(Asked) /\ Latest # 0
      BY <1>1, <1>2, <1>6
  <2>2. LatestMedia = Asked[Latest].media
      BY <2>1 DEF LatestMedia
  <2>3. CASE latest
    <3>1. /\ c \in Seq(Chat!Messages) /\ Len(c) = Len(Asked) /\ c[Latest] = Asked[Latest]
          /\ \A i \in 1..Len(Asked) : c[i].role = Asked[i].role /\ c[i].about = Asked[i].about
          /\ \A i \in 1..Len(Asked) : i < Latest => c[i].media = {} /\ (Asked[i].media # {} => c[i].old)
          /\ Chat!MediaOf(c) = IF Chat!DeepSeek THEN UNION {Asked[i].media : i \in Latest..Len(Asked)}
                               ELSE Asked[Latest].media
        BY <1>1, <1>3, <2>1, <2>3, ScopedIs
    <3>2. LastUser(c, Latest)
      <4>1. \A i \in (Latest + 1)..Len(c) : i \in 1..Len(Asked)
          BY <1>1, <2>1, <3>1
      <4> QED
          BY <2>1, <3>1, <4>1 DEF LastUser
    <3>3. Chat!LatestUser(c) = Latest
        BY <3>1, <3>2, LatestIs
    <3>4. Chat!MediaOf(c) = IF Chat!DeepSeek THEN ActiveMedia ELSE LatestMedia
        BY <2>1, <2>2, <3>1 DEF ActiveMedia
    <3>5. \A i \in 1..Len(c) : /\ c[i].role = Asked[i].role /\ c[i].about = Asked[i].about
                               /\ c[i].role = "user" => c[i].about = {}
        BY <1>1, <3>1
    <3>6. \A i \in 1..Len(c) : i < Latest => c[i].media = {} /\ (Asked[i].media # {} => c[i].old)
        BY <3>1, Zenon
    <3>7. Latest \in Nat /\ c[Latest].media = LatestMedia
        BY <1>1, <2>1, <2>2, <3>1
    <3> QED
        BY <1>1, <2>1, <3>1, <3>2, <3>3, <3>4, <3>5, <3>6, <3>7, Zenon
  <2>4. CASE ~latest
    <3>1. c = Asked /\ Chat!LatestUser(c) = Latest
        BY <1>4, <2>4 DEF Latest
    <3> QED
        BY <1>1, <1>6, <2>1, <2>2, <2>4, <3>1 DEF latest
  <2> QED
      BY <2>3, <2>4
<1> QED
    BY <1>1, <1>2, <1>5, <1>6

(* An answer of the latest turn is about its media; one of an earlier turn  *)
(* is about media that this turn has brought.                               *)
LEMMA AnswersAbout ==
  ASSUME NEW c, Scope(c), Latest > 0, NEW i \in 1..Len(c), c[i].role = "assistant"
  PROVE  /\ i > Latest => c[i].about \subseteq ActiveMedia
         /\ i < Latest => \A x \in c[i].about :
              \E j \in 1..Latest - 1 : /\ Asked[j].role # "system" /\ x \in Asked[j].media
                                       /\ \A k \in 1..Len(c) : ((i < k /\ k <= j) \/ (j < k /\ k <= i)) => c[k].role # "user"
<1>1. /\ Asked \in Seq(Chat!Messages) /\ Len(c) = Len(Asked) /\ LastUser(Asked, Latest) /\ Latest \in 1..Len(Asked)
      /\ Len(Asked) \in Nat /\ DOMAIN Asked = 1..Len(Asked)
      /\ \A k \in 1..Len(c) : c[k].role = Asked[k].role /\ c[k].about = Asked[k].about
    BY ScopeIs DEF LastUser
<1>2. i \in 1..Len(Asked) /\ Asked[i].role = "assistant"
    BY <1>1
<1> DEFINE turn == {j \in Chat!Turn(Asked, i) : Asked[j].role # "system"}
<1>3. c[i].about \subseteq UNION {Asked[j].media : j \in turn}
    BY <1>1, <1>2 DEF Scope, Chat!Conversation
<1>4. ASSUME NEW j \in turn
      PROVE  /\ j \in 1..Len(Asked) /\ Asked[j].role # "system"
             /\ \A k \in 1..Len(c) : ((i < k /\ k <= j) \/ (j < k /\ k <= i)) => c[k].role # "user"
  <2>1. j \in 1..Len(Asked) /\ Asked[j].role # "system"
        /\ \A k \in (Chat!Smaller(i, j) + 1)..Chat!Greater(i, j) : Asked[k].role # "user"
      BY <1>1 DEF Chat!Turn
  <2>2. ASSUME NEW k \in 1..Len(c), (i < k /\ k <= j) \/ (j < k /\ k <= i) PROVE c[k].role # "user"
    <3>1. k \in (Chat!Smaller(i, j) + 1)..Chat!Greater(i, j)
        BY <1>1, <1>2, <2>1, <2>2 DEF Chat!Smaller, Chat!Greater
    <3> QED
        BY <1>1, <2>1, <3>1
  <2> QED
      BY <2>1, <2>2
<1> HIDE DEF turn
<1>5. Asked[Latest].role = "user" /\ Latest \in 1..Len(c) /\ c[Latest].role = "user"
    BY <1>1 DEF LastUser
<1>6. ASSUME i > Latest PROVE c[i].about \subseteq ActiveMedia
  <2>1. \A j \in turn : j \in Latest..Len(Asked)
    <3>1. \A j \in turn : ~(j < Latest)
        BY <1>1, <1>2, <1>4, <1>5, <1>6
    <3> QED
        BY <1>1, <1>4, <3>1
  <2> QED
      BY <1>3, <2>1 DEF ActiveMedia
<1>7. ASSUME i < Latest, NEW x \in c[i].about
      PROVE  \E j \in 1..Latest - 1 :
               /\ Asked[j].role # "system" /\ x \in Asked[j].media
               /\ \A k \in 1..Len(c) : ((i < k /\ k <= j) \/ (j < k /\ k <= i)) => c[k].role # "user"
  <2>1. PICK j \in turn : x \in Asked[j].media
      BY <1>3
  <2>2. ~(Latest <= j)
    <3>1. (i < Latest /\ Latest <= j) => c[Latest].role # "user"
        BY <1>4, <1>5
    <3> QED
        BY <1>5, <1>7, <3>1
  <2>3. j \in 1..Latest - 1
      BY <1>1, <1>4, <2>2
  <2> QED
      BY <1>4, <2>1, <2>3
<1> QED
    BY <1>6, <1>7

(* ChatRequest: the context of the current media.                           *)
LEMMA GivenSane ==
  ASSUME NEW c, Given(c)
  PROVE  \A i \in 1..Len(c) : (c[i].role # "assistant" \/ ~AboutCurrent \/ i > Latest) => Sane(c[i])
<1> SUFFICES ASSUME NEW i \in 1..Len(c), c[i].role # "assistant" \/ ~AboutCurrent \/ i > Latest PROVE Sane(c[i])
    OBVIOUS
<1>1. c \in Seq(Chat!Messages) /\ Scope(c) /\ chatMedia = Chat!MediaOf(c)
    BY ScopeIs DEF Given
<1>2. c[i].media \subseteq chatMedia
    BY <1>1, MediaIs
<1>3. c[i].role = "user" => c[i].about = {}
    BY <1>1, ScopeIs
<1>4. (AboutCurrent /\ c[i].role = "assistant") => c[i].about \subseteq ActiveMedia
    BY <1>1, AnswersAbout DEF AboutCurrent
<1> QED
    BY <1>2, <1>3, <1>4 DEF Sane

LEMMA SoundWhole ==
  ASSUME NEW c, Given(c), ~AboutCurrent
  PROVE  Faithful(c)
BY GivenSane, ScopeIs DEF Given, Faithful

LEMMA SoundStripped ==
  ASSUME NEW c, Faithful(c), NEW d, d = Chat!Stripped(c)
  PROVE  Faithful(d) /\ \A i \in 1..Len(d) : ~d[i].old
<1>1. c \in Seq(Chat!Messages) /\ DOMAIN c = 1..Len(c) /\ Len(c) \in Nat
    BY DEF Faithful
<1>2. d = [i \in 1..Len(c) |-> [c[i] EXCEPT !.old = FALSE]]
    BY <1>1 DEF Chat!Stripped
<1>3. ASSUME NEW i \in 1..Len(c)
      PROVE  /\ d[i] \in Chat!Messages /\ ~d[i].old
             /\ d[i].role = c[i].role /\ d[i].media = c[i].media /\ d[i].about = c[i].about
  <2>1. PICK m \in Chat!Messages : m = c[i]
      BY <1>1
  <2>2. d[i] = [m EXCEPT !.old = FALSE]
      BY <1>2, <2>1
  <2>3. PICK x : x = d[i]
      OBVIOUS
  <2>4. x \in Chat!Messages /\ ~x.old /\ x.role = m.role /\ x.media = m.media /\ x.about = m.about
      BY <2>2, <2>3 DEF Chat!Messages
  <2> QED
      BY <2>1, <2>3, <2>4
<1>4. d \in Seq(Chat!Messages) /\ Len(d) = Len(c)
  <2>1. \A i \in 1..Len(c) : [c[i] EXCEPT !.old = FALSE] \in Chat!Messages
      BY <1>2, <1>3
  <2> QED
      BY <1>1, <1>2, <2>1
<1>5. \A k : LastUser(c, k) => LastUser(d, k) /\ d[k].media = c[k].media
  <2> SUFFICES ASSUME NEW k, LastUser(c, k) PROVE LastUser(d, k) /\ d[k].media = c[k].media
      OBVIOUS
  <2>1. k \in 1..Len(c) /\ c[k].role = "user" /\ \A j \in (k + 1)..Len(c) : j \in 1..Len(c) /\ c[j].role # "user"
      BY <1>1 DEF LastUser
  <2> QED
      BY <1>3, <1>4, <2>1 DEF LastUser
<1>6. \A i \in 1..Len(d) : Sane(d[i])
    BY <1>3, <1>4 DEF Sane, Faithful
<1> QED
    BY <1>3, <1>4, <1>5, <1>6 DEF Faithful

(* isolate_latest_media_turn.                                               *)
LEMMA SoundIsolated ==
  ASSUME NEW c, Given(c), NEW d, d = Chat!Isolated(c)
  PROVE  Faithful(d)
<1> DEFINE stays == {i \in DOMAIN c : c[i].role = "system" \/ i >= Latest}
<1>1. /\ c \in Seq(Chat!Messages) /\ Len(c) \in Nat /\ DOMAIN c = 1..Len(c) /\ Scope(c)
      /\ Chat!LatestUser(c) = Latest /\ Latest \in Nat
    BY ScopeIs DEF Given
<1>2. d = IF Latest = 0 THEN c ELSE Chat!Only(c, stays)
    BY <1>1 DEF Chat!Isolated
<1>3. stays \in SUBSET (1..Len(c)) /\ \A i \in stays : c[i].role = "system" \/ i > Latest \/ i = Latest
    BY <1>1
<1>4. CASE Latest = 0
    BY <1>2, <1>4, SoundWhole DEF AboutCurrent
<1>5. CASE Latest > 0
  <2>1. LastUser(c, Latest) /\ c[Latest].media = LatestMedia /\ Latest \in 1..Len(c) /\ c[Latest].role = "user"
      BY <1>1, <1>5, ScopeIs DEF LastUser
  <2>2. Latest \in stays
      BY <1>1, <2>1
  <2> HIDE DEF stays
  <2>3. d \in Seq(Chat!Messages) /\ Len(d) \in Nat /\ Thinned(d, c, stays)
      BY <1>1, <1>2, <1>3, <1>5, OnlyThins
  <2>4. \A i \in stays : Sane(c[i])
      BY <1>3, <2>1, GivenSane
  <2>5. \A n \in 1..Len(d) : Sane(d[n])
    <3>1. \A n \in 1..Len(d) : \E i \in stays : d[n] = c[i]
        BY <2>3 DEF Thinned
    <3> QED
        BY <2>4, <3>1
  <2>6. LastIs(d, c[Latest])
      BY <1>1, <1>3, <2>1, <2>2, <2>3, ThinnedLast
  <2> QED
      BY <2>1, <2>3, <2>5, <2>6 DEF Faithful, LastIs
<1> QED
    BY <1>1, <1>4, <1>5

(* _neutralize_historical_media_turns: an answer that stays is about none   *)
(* of the media removed.                                                    *)
LEMMA NeutralIs ==
  ASSUME NEW m \in Chat!Messages
  PROVE  LET x == Chat!Neutral(m)
         IN /\ x \in Chat!Messages
            /\ Sane(m) \/ (m.media \subseteq chatMedia /\ m.role = "assistant") => Sane(x)
<1> DEFINE y == [m EXCEPT !.size = m.size + MarkerTokens, !.media = {}]
           z == [m EXCEPT !.size = MarkerTokens, !.media = {}, !.about = {}]
<1>1. MarkerTokens \in Nat /\ m.size \in Nat /\ m.size + MarkerTokens \in Nat
  <2>1. MarkerTokens \in Nat /\ m.size \in Nat
      BY ChatGiven DEF Chat!Messages
  <2> QED
      BY <2>1
<1>2. y \in Chat!Messages /\ y.role = m.role /\ y.media = {} /\ y.about = m.about
    BY <1>1 DEF Chat!Messages
<1>3. z \in Chat!Messages /\ z.role = m.role /\ z.media = {} /\ z.about = {}
    BY <1>1 DEF Chat!Messages
<1> HIDE DEF y, z
<1>4. /\ m.role = "user" => Chat!Neutral(m) = y
      /\ m.role = "assistant" => Chat!Neutral(m) = z
      /\ m.role # "user" /\ m.role # "assistant" => Chat!Neutral(m) = m
    BY DEF Chat!Neutral, y, z
<1>5. CASE m.role = "user"
    BY <1>2, <1>4, <1>5 DEF Sane
<1>6. CASE m.role = "assistant"
    BY <1>3, <1>4, <1>6 DEF Sane
<1>7. CASE m.role # "user" /\ m.role # "assistant"
    BY <1>4, <1>7
<1> QED
    BY <1>5, <1>6, <1>7

Before(c) == SubSeq(c, 1, Latest - 1)
Turnwise(past) == {i \in 1..Len(past) : past[i].role \in {"user", "assistant", "tool"}}

LEMMA BeforeIs ==
  ASSUME NEW c \in Seq(Chat!Messages), Latest \in 1..Len(c), NEW past, past = Before(c)
  PROVE  /\ past \in Seq(Chat!Messages) /\ Len(past) = Latest - 1
         /\ \A i \in 1..Latest - 1 : past[i] = c[i]
         /\ \A n \in 1..Len(past) : \E i \in 1..Len(c) : past[n] = c[i]
<1>1. \A i \in 1..Latest - 1 : i \in 1..Len(c) /\ c[i] \in Chat!Messages
    OBVIOUS
<1>2. /\ 1 \in Int /\ Latest - 1 \in Int /\ (Latest - 1) - 1 + 1 = Latest - 1
      /\ ~(1 <= Latest - 1) => Latest - 1 = 0
      /\ \A i \in 1..Latest - 1 : 1 + i - 1 = i
  <2>1. Latest \in Int /\ Latest >= 1
      OBVIOUS
  <2> QED
      BY <2>1
<1>3. /\ past \in Seq(Chat!Messages) /\ Len(past) = IF 1 <= Latest - 1 THEN (Latest - 1) - 1 + 1 ELSE 0
      /\ \A i \in 1..(Latest - 1) - 1 + 1 : past[i] = c[1 + i - 1]
    BY <1>1, <1>2, SubSeqProperties DEF Before
<1>4. Len(past) = Latest - 1 /\ \A i \in 1..Latest - 1 : past[i] = c[i]
    BY <1>2, <1>3
<1> QED
    BY <1>1, <1>3, <1>4

LEMMA SoundHistory ==
  ASSUME NEW c, Given(c), Latest > 0, NEW h, h = Chat!OfRole(Before(c), {"user", "assistant", "tool"}),
         NEW d, d = Chat!Neutralized(h)
  PROVE  d \in Seq(Chat!Messages) /\ \A n \in 1..Len(d) : Sane(d[n])
<1> DEFINE past == Before(c)
           s == Turnwise(past)
<1>1. /\ c \in Seq(Chat!Messages) /\ Len(c) \in Nat /\ Scope(c) /\ chatMedia = Chat!MediaOf(c)
      /\ LastUser(c, Latest) /\ Latest \in 1..Len(c)
    BY ScopeIs DEF Given, LastUser
<1>2. past \in Seq(Chat!Messages) /\ Len(past) = Latest - 1 /\ \A i \in 1..Latest - 1 : past[i] = c[i]
    BY <1>1, BeforeIs
<1> HIDE DEF past
<1>3. s \in SUBSET (1..Len(past)) /\ h = Chat!Only(past, s)
  <2>1. h = Chat!Only(past, {i \in DOMAIN past : past[i].role \in {"user", "assistant", "tool"}})
      BY DEF Chat!OfRole, past
  <2>2. DOMAIN past = 1..Len(past)
      BY <1>2
  <2> QED
      BY <2>1, <2>2 DEF Turnwise
<1>4. h \in Seq(Chat!Messages) /\ Len(h) \in Nat /\ DOMAIN h = 1..Len(h) /\ Thinned(h, past, s)
    BY <1>2, <1>3, OnlyThins
<1>5. PICK e \in [1..Len(h) -> s] :
        /\ \A i, j \in 1..Len(h) : i < j => e[i] < e[j]
        /\ \A i \in s : \E n \in 1..Len(h) : e[n] = i
        /\ \A n \in 1..Len(h) : h[n] = past[e[n]]
    BY <1>4 DEF Thinned
<1>6. ASSUME NEW n \in 1..Len(h)
      PROVE  e[n] \in 1..Latest - 1 /\ e[n] \in 1..Len(c) /\ e[n] \in Int /\ e[n] < Latest /\ h[n] = c[e[n]]
             /\ h[n] \in Chat!Messages
  <2>1. e[n] \in s /\ e[n] \in 1..Latest - 1
      BY <1>2, <1>3, <1>5
  <2>2. h[n] = c[e[n]]
      BY <1>2, <1>5, <2>1
  <2> QED
      BY <1>1, <1>4, <2>1, <2>2
<1>7. d = [n \in 1..Len(h) |-> IF \E m \in Chat!Turn(h, n) : h[m].old THEN Chat!Neutral(h[n]) ELSE h[n]]
    BY <1>4 DEF Chat!Neutralized
<1>8. ASSUME NEW n \in 1..Len(h) PROVE d[n] \in Chat!Messages /\ Sane(d[n])
  <2>1. h[n].media \subseteq chatMedia
      BY <1>1, <1>6, MediaIs
  <2>2. h[n].role # "assistant" \/ ~AboutCurrent => Sane(h[n])
      BY <1>6, GivenSane
  <2>3. CASE \E m \in Chat!Turn(h, n) : h[m].old
    <3>1. d[n] = Chat!Neutral(h[n])
        BY <1>7, <2>3
    <3> QED
        BY <1>6, <2>1, <2>2, <3>1, NeutralIs
  <2>4. CASE ~\E m \in Chat!Turn(h, n) : h[m].old
    <3>1. d[n] = h[n]
        BY <1>7, <2>4
    <3>2. ASSUME AboutCurrent, h[n].role = "assistant", NEW x \in h[n].about PROVE FALSE
      <4> DEFINE i == e[n]
      <4>1. i \in 1..Len(c) /\ i \in Int /\ i < Latest /\ c[i].role = "assistant" /\ x \in c[i].about
          BY <1>6, <3>2
      <4> HIDE DEF i
      <4>2. PICK j \in 1..Latest - 1 :
              /\ Asked[j].role # "system" /\ x \in Asked[j].media
              /\ \A k \in 1..Len(c) : ((i < k /\ k <= j) \/ (j < k /\ k <= i)) => c[k].role # "user"
          BY <1>1, <4>1, AnswersAbout
      <4>3. j \in 1..Len(c) /\ j < Latest /\ j \in 1..Len(past) /\ j \in Int
          BY <1>1, <1>2
      <4>4. c[j].role = Asked[j].role /\ c[j].old
        <5>1. Chat!Chat /\ Chat!D.history = "latest"
            BY <3>2 DEF AboutCurrent
        <5> QED
            BY <1>1, <4>2, <4>3, <5>1, ScopeIs
      <4>5. j \in s
        <5>1. past[j] = c[j] /\ c[j] \in Chat!Messages
            BY <1>1, <1>2, <4>3
        <5>2. c[j].role \in {"system", "user", "assistant", "tool"}
            BY <5>1 DEF Chat!Messages
        <5> QED
            BY <4>2, <4>3, <4>4, <5>1, <5>2 DEF Turnwise
      <4>6. PICK m \in 1..Len(h) : e[m] = j
          BY <1>5, <4>5
      <4>7. h[m].old
          BY <1>6, <4>4, <4>6
      <4>8. ASSUME NEW k \in (Chat!Smaller(n, m) + 1)..Chat!Greater(n, m) PROVE h[k].role # "user"
        <5>1. /\ k \in 1..Len(h) /\ k \in Int
              /\ (n < k /\ k <= m) \/ (m < k /\ k <= n)
            BY <1>4 DEF Chat!Smaller, Chat!Greater
        <5>2. e[k] \in 1..Len(c) /\ e[k] \in Int /\ h[k] = c[e[k]]
            BY <1>6, <5>1
        <5>3. k < m => e[k] < e[m]
            BY <1>5, <5>1
        <5>4. k < n => e[k] < e[n]
            BY <1>5, <5>1
        <5>5. (n < k => e[n] < e[k]) /\ (m < k => e[m] < e[k])
            BY <1>5, <5>1
        <5>6. (k <= m => k < m \/ k = m) /\ (k <= n => k < n \/ k = n)
            BY <5>1
        <5>7. k <= m => e[k] <= j
            BY <4>3, <4>6, <5>2, <5>3, <5>6
        <5>8. k <= n => e[k] <= i
            BY <4>1, <5>2, <5>4, <5>6 DEF i
        <5>9. (i < e[k] /\ e[k] <= j) \/ (j < e[k] /\ e[k] <= i)
            BY <4>6, <5>1, <5>5, <5>7, <5>8 DEF i
        <5> QED
            BY <4>2, <5>2, <5>9
      <4>9. m \in Chat!Turn(h, n)
          BY <1>4, <4>8 DEF Chat!Turn
      <4> QED
          BY <2>4, <4>7, <4>9
    <3>3. AboutCurrent /\ h[n].role = "assistant" => h[n].about \subseteq ActiveMedia
        BY <3>2
    <3>4. h[n].role = "user" => h[n].about = {}
        BY <1>1, <1>6, ScopeIs
    <3>5. Sane(h[n])
        BY <2>1, <3>3, <3>4 DEF Sane
    <3> QED
        BY <1>6, <3>1, <3>5
  <2> QED
      BY <2>3, <2>4
<1>9. d \in Seq(Chat!Messages) /\ Len(d) = Len(h)
  <2> DEFINE f(n) == IF \E m \in Chat!Turn(h, n) : h[m].old THEN Chat!Neutral(h[n]) ELSE h[n]
  <2>1. d = [n \in 1..Len(h) |-> f(n)]
      BY <1>7
  <2> HIDE DEF f
  <2>2. \A n \in 1..Len(h) : f(n) \in Chat!Messages
      BY <1>8, <2>1
  <2> QED
      BY <1>4, <2>1, <2>2
<1> QED
    BY <1>8, <1>9

(* The last message of a user stays the last one behind others.             *)
LEMMA LastBehind ==
  ASSUME NEW T, NEW a \in Seq(T), NEW b \in Seq(T), NEW d, d = a \o b
  PROVE  /\ d \in Seq(T)
         /\ \A n \in 1..Len(d) : (\E i \in 1..Len(a) : d[n] = a[i]) \/ (\E i \in 1..Len(b) : d[n] = b[i])
         /\ \A m : LastIs(b, m) => LastIs(d, m)
<1>1. /\ d \in Seq(T) /\ Len(d) = Len(a) + Len(b)
      /\ \A n \in 1..Len(a) + Len(b) : d[n] = IF n <= Len(a) THEN a[n] ELSE b[n - Len(a)]
    BY ConcatProperties
<1>2. Len(a) \in Nat /\ Len(b) \in Nat
    OBVIOUS
<1>3. ASSUME NEW n \in 1..Len(d)
      PROVE  (\E i \in 1..Len(a) : d[n] = a[i]) \/ (\E i \in 1..Len(b) : d[n] = b[i])
  <2>1. n <= Len(a) => n \in 1..Len(a) /\ d[n] = a[n]
      BY <1>1, <1>2
  <2>2. ~(n <= Len(a)) => n - Len(a) \in 1..Len(b) /\ d[n] = b[n - Len(a)]
      BY <1>1, <1>2
  <2> QED
      BY <2>1, <2>2
<1>4. ASSUME NEW m, LastIs(b, m) PROVE LastIs(d, m)
  <2>1. PICK k : LastUser(b, k) /\ b[k] = m
      BY <1>4 DEF LastIs
  <2>2. k \in 1..Len(b) /\ b[k].role = "user"
      BY <2>1 DEF LastUser
  <2>3. Len(a) + k \in 1..Len(d) /\ ~(Len(a) + k <= Len(a)) /\ (Len(a) + k) - Len(a) = k
      BY <1>1, <1>2, <2>2
  <2>4. d[Len(a) + k] = b[k]
      BY <1>1, <2>3
  <2>5. ASSUME NEW j \in (Len(a) + k + 1)..Len(d) PROVE d[j].role # "user"
    <3>1. j \in 1..Len(a) + Len(b) /\ ~(j <= Len(a)) /\ j - Len(a) \in (k + 1)..Len(b)
        BY <1>1, <1>2, <2>2
    <3>2. d[j] = b[j - Len(a)]
        BY <1>1, <3>1
    <3> QED
        BY <2>1, <3>1, <3>2 DEF LastUser
  <2>6. LastUser(d, Len(a) + k)
      BY <2>2, <2>3, <2>4, <2>5 DEF LastUser
  <2> QED
      BY <2>1, <2>4, <2>6 DEF LastIs
<1> QED
    BY <1>1, <1>3, <1>4

From(d, c, i) == \A n \in 1..Len(d) : \E j \in i..Len(c) : d[n] = c[j]

LEMMA SuffixIs ==
  ASSUME NEW T, NEW c \in Seq(T), NEW i \in 1..(Len(c) + 1), NEW d, d = SubSeq(c, i, Len(c))
  PROVE  /\ d \in Seq(T) /\ From(d, c, i)
         /\ LastUser(c, i) => LastIs(d, c[i])
<1>1. Len(c) \in Nat /\ i \in Int /\ Len(c) \in Int /\ 1 <= i /\ i <= Len(c) + 1
    OBVIOUS
<1>2. /\ d \in Seq(T) /\ Len(d) = IF i <= Len(c) THEN Len(c) - i + 1 ELSE 0
      /\ \A n \in 1..Len(c) - i + 1 : d[n] = c[i + n - 1]
  <2>1. \A j \in i..Len(c) : c[j] \in T
      BY <1>1
  <2> QED
      BY <1>1, <2>1, SubSeqProperties
<1>3. Len(d) = Len(c) - i + 1
  <2>1. ~(i <= Len(c)) => Len(c) - i + 1 = 0
      BY <1>1
  <2> QED
      BY <1>2, <2>1
<1>4. \A n \in 1..Len(d) : i + n - 1 \in i..Len(c) /\ d[n] = c[i + n - 1]
    BY <1>1, <1>2, <1>3
<1>5. ASSUME LastUser(c, i) PROVE LastIs(d, c[i])
  <2>1. i \in 1..Len(c) /\ c[i].role = "user"
      BY <1>5 DEF LastUser
  <2>2. 1 \in 1..Len(d) /\ i + 1 - 1 = i
      BY <1>1, <1>3, <2>1
  <2>3. d[1] = c[i]
      BY <1>4, <2>2
  <2>4. ASSUME NEW j \in (1 + 1)..Len(d) PROVE d[j].role # "user"
    <3>1. j \in 1..Len(d) /\ i + j - 1 \in (i + 1)..Len(c)
        BY <1>1, <1>3
    <3> QED
        BY <1>4, <1>5, <3>1 DEF LastUser
  <2> QED
      BY <2>1, <2>2, <2>3, <2>4 DEF LastUser, LastIs
<1>6. From(d, c, i)
    BY <1>4 DEF From
<1> QED
    BY <1>2, <1>5, <1>6

(* focus_current_media_context.                                             *)
LEMMA SoundFocused ==
  ASSUME NEW c, Given(c), NEW max, NEW d, d = Chat!Focused(c, max)
  PROVE  Faithful(d)
<1>1. /\ c \in Seq(Chat!Messages) /\ Len(c) \in Nat /\ DOMAIN c = 1..Len(c) /\ Scope(c)
      /\ Chat!LatestUser(c) = Latest /\ Latest \in Nat
    BY ScopeIs DEF Given
<1> DEFINE past == Before(c)
           system == Chat!OfRole(past, {"system"})
           h == Chat!OfRole(past, {"user", "assistant", "tool"})
           history == Chat!Neutralized(h)
           told == IF system = <<>> THEN <<Chat!Message("system", InstructionTokens, {})>>
                   ELSE [system EXCEPT ![1].size = @ + InstructionTokens]
           kept == Chat!Affordable(history, max)
           rest == SubSeq(c, Latest, Len(c))
<1>2. d = IF Latest = 0 THEN c ELSE told \o kept \o rest
    BY <1>1, Zenon DEF Chat!Focused, Before
<1>3. CASE Latest = 0
    BY <1>2, <1>3, SoundWhole DEF AboutCurrent
<1>4. CASE Latest > 0
  <2>1. LastUser(c, Latest) /\ c[Latest].media = LatestMedia /\ Latest \in 1..Len(c) /\ c[Latest].role = "user"
      BY <1>1, <1>4, ScopeIs DEF LastUser
  <2>2. told \in Seq(Chat!Messages) /\ \A n \in 1..Len(told) : Sane(told[n])
    <3> DEFINE s == {i \in DOMAIN past : past[i].role \in {"system"}}
    <3>1. past \in Seq(Chat!Messages) /\ \A n \in 1..Len(past) : \E i \in 1..Len(c) : past[n] = c[i]
        BY <1>1, <2>1, BeforeIs
    <3> HIDE DEF past
    <3>2. s \in SUBSET (1..Len(past)) /\ system = Chat!Only(past, s)
        BY <3>1 DEF Chat!OfRole
    <3>3. system \in Seq(Chat!Messages) /\ Len(system) \in Nat /\ Thinned(system, past, s)
        BY <3>1, <3>2, OnlyThins
    <3>4. \A i \in s : i \in 1..Len(past) /\ past[i].role = "system"
        BY <3>2
    <3> HIDE DEF s, system
    <3>5. \A n \in 1..Len(system) : system[n].role = "system" /\ Sane(system[n])
      <4>1. \A n \in 1..Len(system) : \E i \in s : system[n] = past[i]
          BY <3>3 DEF Thinned
      <4> QED
          BY <3>1, <3>4, <4>1, GivenSane
    <3>6. InstructionTokens \in Nat
        BY ChatGiven
    <3>7. CASE system = <<>>
      <4> DEFINE x == Chat!Message("system", InstructionTokens, {})
      <4>1. x \in Chat!Messages /\ Sane(x)
          BY <3>6 DEF Chat!Message, Chat!Messages, Sane
      <4>2. told = <<x>>
          BY <3>7
      <4> HIDE DEF x, told
      <4>3. told \in Seq(Chat!Messages) /\ Len(told) = 1 /\ told[1] = x
          BY <4>1, <4>2
      <4> QED
          BY <4>1, <4>3
    <3>8. CASE system # <<>>
      <4>1. told = [system EXCEPT ![1].size = @ + InstructionTokens]
          BY <3>8
      <4> HIDE DEF told
      <4>2. 1 \in 1..Len(system) /\ system[1] \in Chat!Messages
          BY <3>3, <3>8
      <4>3. PICK m \in Chat!Messages : m = system[1]
          BY <4>2
      <4>4. PICK x : x = [m EXCEPT !.size = m.size + InstructionTokens]
          OBVIOUS
      <4>5. x \in Chat!Messages /\ x.role = m.role /\ x.media = m.media /\ x.about = m.about
        <5>1. m.size + InstructionTokens \in Nat
          <6>1. m.size \in Nat
              BY DEF Chat!Messages
          <6> QED
              BY <3>6, <6>1
        <5> QED
            BY <4>4, <5>1 DEF Chat!Messages
      <4>6. told = [system EXCEPT ![1] = x]
          BY <4>1, <4>3, <4>4
      <4>7. told \in Seq(Chat!Messages) /\ Len(told) = Len(system)
            /\ \A n \in 1..Len(system) : told[n] = IF n = 1 THEN x ELSE system[n]
        <5>1. DOMAIN system = 1..Len(system) /\ \A n \in 1..Len(system) : system[n] \in Chat!Messages
            BY <3>3
        <5>2. told = [n \in 1..Len(system) |-> IF n = 1 THEN x ELSE system[n]]
            BY <4>6, <5>1
        <5> QED
            BY <3>3, <4>5, <5>1, <5>2
      <4>8. Sane(x)
          BY <3>5, <4>2, <4>3, <4>5 DEF Sane
      <4> QED
          BY <3>5, <4>7, <4>8
    <3> QED
        BY <3>7, <3>8
  <2>3. kept \in Seq(Chat!Messages) /\ \A n \in 1..Len(kept) : Sane(kept[n])
    <3>1. history \in Seq(Chat!Messages) /\ \A n \in 1..Len(history) : Sane(history[n])
        BY <1>4, SoundHistory
    <3> HIDE DEF history
    <3> DEFINE dear == {i \in DOMAIN history : Chat!Cost(history, i) > max}
               first == 1 + Cardinality(dear)
    <3>2. kept = history \/ kept = SubSeq(history, first, Len(history))
        BY ChatCount DEF Chat!Affordable
    <3>3. first \in 1..(Len(history) + 1)
      <4>1. dear \in SUBSET (1..Len(history)) /\ Len(history) \in Nat
          BY <3>1
      <4>2. IsFiniteSet(1..Len(history)) /\ Cardinality(1..Len(history)) = Len(history)
        <5>1. 1 \in Int /\ Len(history) \in Int /\ (1 > Len(history) => Len(history) = 0) /\ Len(history) - 1 + 1 = Len(history)
            BY <4>1
        <5> QED
            BY <5>1, FS_Interval
      <4>3. Cardinality(dear) \in Nat /\ Cardinality(dear) <= Len(history)
          BY <4>1, <4>2, CountPart
      <4> QED
          BY <4>1, <4>3
    <3> HIDE DEF first, kept
    <3>4. CASE kept = history
        BY <3>1, <3>4
    <3>5. CASE kept = SubSeq(history, first, Len(history))
      <4>1. kept \in Seq(Chat!Messages) /\ From(kept, history, first)
          BY <3>1, <3>3, <3>5, SuffixIs
      <4>2. \A j \in first..Len(history) : j \in 1..Len(history)
          BY <3>1, <3>3
      <4> QED
          BY <3>1, <4>1, <4>2 DEF From
    <3> QED
        BY <3>2, <3>4, <3>5
  <2>4. rest \in Seq(Chat!Messages) /\ LastIs(rest, c[Latest]) /\ \A n \in 1..Len(rest) : Sane(rest[n])
    <3>1. /\ rest \in Seq(Chat!Messages) /\ LastIs(rest, c[Latest])
          /\ From(rest, c, Latest)
      <4>1. Latest \in 1..(Len(c) + 1) /\ rest = SubSeq(c, Latest, Len(c))
          BY <1>1, <2>1
      <4> HIDE DEF rest
      <4>2. /\ rest \in Seq(Chat!Messages)
            /\ From(rest, c, Latest)
            /\ LastUser(c, Latest) => LastIs(rest, c[Latest])
        <5>1. PICK u \in 1..(Len(c) + 1) : u = Latest
            BY <4>1
        <5>2. PICK x : x = rest
            OBVIOUS
        <5>3. x = SubSeq(c, u, Len(c))
            BY <4>1, <5>1, <5>2
        <5>4. x \in Seq(Chat!Messages) /\ From(x, c, u) /\ (LastUser(c, u) => LastIs(x, c[u]))
            BY <1>1, <5>3, SuffixIs
        <5> QED
            BY <5>1, <5>2, <5>4
      <4> QED
          BY <2>1, <4>2
    <3>2. \A j \in Latest..Len(c) : Sane(c[j])
      <4>1. \A j \in Latest..Len(c) : j \in 1..Len(c) /\ (j = Latest \/ j > Latest)
          BY <1>1, <2>1
      <4> QED
          BY <2>1, <4>1, GivenSane
    <3> QED
        BY <3>1, <3>2 DEF From
  <2> HIDE DEF told, kept, rest
  <2> DEFINE start == told \o kept
  <2>5. start \in Seq(Chat!Messages) /\ \A n \in 1..Len(start) : Sane(start[n])
      BY <2>2, <2>3, LastBehind
  <2>6. d = start \o rest
      BY <1>2, <1>4
  <2> HIDE DEF start
  <2>7. /\ d \in Seq(Chat!Messages) /\ LastIs(d, c[Latest])
        /\ \A n \in 1..Len(d) : (\E i \in 1..Len(start) : d[n] = start[i]) \/ (\E i \in 1..Len(rest) : d[n] = rest[i])
    <3>1. start \in Seq(Chat!Messages) /\ rest \in Seq(Chat!Messages)
        BY <2>4, <2>5
    <3>2. /\ d \in Seq(Chat!Messages)
          /\ \A n \in 1..Len(d) : (\E i \in 1..Len(start) : d[n] = start[i]) \/ (\E i \in 1..Len(rest) : d[n] = rest[i])
          /\ \A m : LastIs(rest, m) => LastIs(d, m)
        BY <2>6, <3>1, LastBehind
    <3> QED
        BY <2>4, <3>2
  <2>8. \A n \in 1..Len(d) : Sane(d[n])
      BY <2>4, <2>5, <2>7
  <2> QED
      BY <2>1, <2>7, <2>8 DEF Faithful, LastIs
<1> QED
    BY <1>1, <1>3, <1>4

(* ChatRequest: what is true of a request at each place of the handler.     *)
Ahead == {"measure", "turns", "whole", "truncate", "summarize", "call"}
Fair == \A k \in Chat!Kinds(chatMedia) : Embedded[k] <= Estimate[k]

ChatTyped ==
  /\ chatAsked \in [request : Chats, deployment : Deployments]
  /\ chatMedia \subseteq DOMAIN MediumKind
  /\ Chat!Chat /\ Chat!D.history = "latest" /\ Latest > 0 =>
       chatMedia \subseteq (IF Chat!DeepSeek THEN ActiveMedia ELSE LatestMedia)

ChatPlaced ==
  /\ chatAt \in {"validate", "scope"} => chatConv = Asked
  /\ chatAt = "focus" => Given(chatConv)
  /\ chatAt = "preprocess" => Faithful(chatConv) /\ \A i \in 1..Len(chatConv) : ~chatConv[i].old
  /\ chatAt \in Ahead => Ready(chatConv)
  /\ chatAt = "called" => Ready(chatSent.conv) /\ chatSent.media = Chat!Passed(Chat!MediaOf(chatSent.conv))

ChatBudget ==
  /\ chatAt \in {"focus", "preprocess"} \cup Ahead => ~Chat!TooMuch
  /\ chatAt \in Ahead \ {"measure"} =>
       chatTokens.output \in Nat \ {0} /\ (Chat!R.requested > 0 => chatTokens.output = Chat!R.requested)
  /\ chatAt \in {"whole", "truncate", "summarize"} =>
       chatTokens.media \in Nat /\ (Fair => Chat!MediaTokens(chatConv) <= chatTokens.media)
  /\ chatAt = "call" => (Fair => chatTokens.output <= Chat!Available(chatConv))
  /\ Chat!NoLateRefusal /\ Chat!WithinWindow

ChatChecked ==
  /\ chatAt = "validate" => ~chatSpent
  /\ Chat!DeepSeek /\ (chatSpent \/ chatAt \notin {"validate", "400"}) => Cardinality(ActiveMedia) <= Chat!D.images

ChatInv == ChatTyped /\ ChatPlaced /\ ChatBudget /\ ChatChecked

LEMMA ChatIs ==
  ASSUME chatAsked \in [request : Chats, deployment : Deployments]
  PROVE  /\ Chat!R \in Chats /\ Chat!D \in Deployments
         /\ Chat!Conversation(Asked) /\ Asked \in Seq(Chat!Messages) /\ Chat!R.requested \in Nat
         /\ Chat!D.window \in Nat /\ Chat!D.margin \in Nat /\ Chat!D.images \in Nat
         /\ Chat!D.cap \in Nat \ {0} /\ Chat!D.default \in Nat \ {0}
         /\ Chat!D.mode \in {"disabled", "truncate", "summarize"}
         /\ Chat!D.backend \in {"vllm", "vllm_multimodal", "vllm_deepseek", "python", "other"}
<1>1. Chat!R \in Chats /\ Chat!D \in Deployments /\ Asked = Chat!R.conversation
    BY DEF Chat!R, Chat!D, Asked
<1>2. Chat!Conversation(Asked)
    BY <1>1, ChatGiven
<1> QED
    BY <1>1, <1>2, ChatGiven DEF Chat!Conversation

LEMMA PromptCounts ==
  ASSUME NEW c \in Seq(Chat!Messages)
  PROVE  /\ Chat!PromptTokens(c) \in Nat
         /\ Chat!MediaTokens(c) = Reserve(Chat!MediaOf(c)) /\ Chat!MediaTokens(c) \in Nat
<1>1. Chat!MediaTokens(c) = Reserve(Chat!MediaOf(c))
    BY DEF Chat!MediaTokens, Reserve
<1>2. Chat!MediaOf(c) \in SUBSET DOMAIN MediumKind
    BY MediaIs
<1>3. Chat!Total(Embedded, Chat!MediaOf(c)) \in Nat /\ Reserve(Chat!MediaOf(c)) \in Nat
    BY <1>2, ReserveShrinks
<1>4. Chat!Text(c) \in Nat
    BY TextCounts
<1> QED
    BY <1>1, <1>3, <1>4 DEF Chat!PromptTokens

LEMMA ReserveFits ==
  ASSUME NEW c, NEW d, Ready(c), d \in Seq(Chat!Messages), Chat!MediaOf(d) \subseteq Chat!MediaOf(c), Fair
  PROVE  Chat!MediaTokens(d) <= Chat!MediaTokens(c)
<1>1. c \in Seq(Chat!Messages) /\ Chat!MediaOf(c) \in SUBSET DOMAIN MediumKind
      /\ Chat!MediaOf(d) \in SUBSET Chat!MediaOf(c)
    BY MediaIs DEF Ready
<1>2. Chat!MediaOf(c) \subseteq chatMedia
    BY <1>1, MediaIs DEF Ready, Fine
<1>3. \A j \in Chat!Kinds(Chat!MediaOf(c)) : Embedded[j] <= Estimate[j]
    BY <1>2 DEF Fair, Chat!Kinds
<1> QED
    BY <1>1, <1>3, ReserveShrinks, PromptCounts

LEMMA ChatBegins ==
  ASSUME Chat!Init
  PROVE  ChatInv
<1>1. /\ chatAsked \in [request : Chats, deployment : Deployments] /\ chatAt = "validate"
      /\ chatConv = Asked /\ chatMedia = {} /\ chatSpent = FALSE
    BY DEF Chat!Init, Asked
<1>2. ChatTyped /\ ChatPlaced /\ ChatChecked
    BY <1>1 DEF ChatTyped, ChatPlaced, ChatChecked, Ahead
<1>3. ChatBudget
    BY <1>1 DEF ChatBudget, Ahead, Chat!NoLateRefusal, Chat!WithinWindow, Chat!Called
<1> QED
    BY <1>2, <1>3 DEF ChatInv

LEMMA ChatFrame ==
  ASSUME UNCHANGED <<chatAsked, chatMedia>>
  PROVE  /\ Chat!D' = Chat!D /\ Chat!R' = Chat!R /\ Chat!DeepSeek' = Chat!DeepSeek /\ Chat!Chat' = Chat!Chat
         /\ Fair' = Fair /\ Chat!TooMuch' = Chat!TooMuch /\ Asked' = Asked
         /\ \A c : Chat!Available(c)' = Chat!Available(c)
         /\ \A c : Chat!Passed(c)' = Chat!Passed(c)
<1>1. Chat!D' = Chat!D /\ Chat!R' = Chat!R
    BY DEF Chat!D, Chat!R
<1>2. Asked' = Asked /\ Chat!DeepSeek' = Chat!DeepSeek /\ Chat!Chat' = Chat!Chat /\ Chat!TooMuch' = Chat!TooMuch
    BY <1>1 DEF Asked, Chat!DeepSeek, Chat!Chat, Chat!TooMuch
<1>3. Fair' = Fair
    BY DEF Fair
<1>4. \A c : Chat!Available(c)' = Chat!Available(c)
    BY <1>1 DEF Chat!Available
<1>5. \A c : Chat!Passed(c)' = Chat!Passed(c)
    BY <1>1 DEF Chat!Passed
<1> QED
    BY <1>1, <1>2, <1>3, <1>4, <1>5

LEMMA ChatStays ==
  ASSUME ChatInv, UNCHANGED <<chatAsked, chatMedia>>
  PROVE  /\ ChatTyped'
         /\ chatAt \notin {"validate", "400"} /\ chatAt' # "validate" => ChatChecked'
<1>1. ChatTyped'
    BY ChatFrame, ChatKept DEF ChatInv, ChatTyped
<1>2. ASSUME chatAt \notin {"validate", "400"}, chatAt' # "validate" PROVE ChatChecked'
    BY <1>2, ChatFrame, ChatKept DEF ChatInv, ChatChecked
<1> QED
    BY <1>1, <1>2

LEMMA ChatStops ==
  ASSUME ChatInv, UNCHANGED <<chatAsked, chatMedia>>, chatAt' \in {"400", "media failed", "too many images"}
  PROVE  ChatPlaced' /\ ChatBudget'
<1>1. ChatPlaced'
    BY DEF ChatPlaced, Ahead
<1>2. ChatBudget'
    BY DEF ChatBudget, Ahead, Chat!NoLateRefusal, Chat!WithinWindow, Chat!Called
<1> QED
    BY <1>1, <1>2

LEMMA ChatValidates ==
  ASSUME ChatInv, Chat!Validate
  PROVE  ChatInv'
<1>1. /\ chatAt = "validate" /\ chatAt' \in {"400", "scope"}
      /\ UNCHANGED <<chatAsked, chatConv, chatMedia, chatTokens, chatSpent, chatSent>>
    BY DEF Chat!Validate, Chat!Refuse, Chat!Go
<1>2. chatAt' = "scope" /\ Chat!DeepSeek => ~Chat!TooManyImages(Chat!MediaOf(Chat!Scoped(chatConv, TRUE)))
    BY DEF Chat!Validate, Chat!Refuse, Chat!Go
<1>3. chatConv = Asked /\ ~chatSpent /\ chatAsked \in [request : Chats, deployment : Deployments]
    BY <1>1 DEF ChatInv, ChatPlaced, ChatChecked, ChatTyped
<1>4. chatAt' = "scope" /\ Chat!DeepSeek => Cardinality(ActiveMedia) <= Chat!D.images
  <2> SUFFICES ASSUME chatAt' = "scope", Chat!DeepSeek PROVE Cardinality(ActiveMedia) <= Chat!D.images
      OBVIOUS
  <2>1. Asked \in Seq(Chat!Messages) /\ Chat!D.images \in Nat
      BY <1>3, ChatIs
  <2>2. CASE LastUser(Asked, Latest)
    <3>1. Chat!MediaOf(Chat!Scoped(Asked, TRUE)) = ActiveMedia
      <4>1. Latest # 0
          BY <2>2 DEF LastUser
      <4> QED
          BY <2>1, <2>2, <4>1, ScopedIs DEF ActiveMedia
    <3>2. ActiveMedia \in SUBSET DOMAIN MediumKind
      <4>1. Latest \in 1..Len(Asked) /\ Len(Asked) \in Nat
          BY <2>1, <2>2 DEF LastUser
      <4>2. \A i \in Latest..Len(Asked) : Asked[i] \in Chat!Messages
          BY <2>1, <4>1
      <4>3. \A i \in Latest..Len(Asked) : Asked[i].media \subseteq DOMAIN MediumKind
          BY <4>2 DEF Chat!Messages
      <4> QED
          BY <4>3 DEF ActiveMedia
    <3>3. Cardinality(ActiveMedia) \in Nat
        BY <3>2, ChatGiven, CountPart
    <3>4. ~(Cardinality(ActiveMedia) > Chat!D.images)
        BY <1>2, <1>3, <3>1, ChatCount DEF Chat!TooManyImages
    <3> QED
        BY <2>1, <3>3, <3>4
  <2>3. CASE Latest = 0
    <3>1. ActiveMedia = {} /\ Cardinality({}) = 0
        BY <2>3, FS_EmptySet DEF ActiveMedia
    <3> QED
        BY <2>1, <3>1
  <2> QED
      BY <2>1, <2>2, <2>3, LatestIs DEF Latest
<1>5. ChatTyped'
    BY <1>1, ChatStays
<1>6. ChatPlaced'
    BY <1>1, <1>3, ChatFrame DEF ChatPlaced, Ahead
<1>7. ChatBudget'
    BY <1>1 DEF ChatBudget, Ahead, Chat!NoLateRefusal, Chat!WithinWindow, Chat!Called
<1>8. ChatChecked'
    BY <1>1, <1>3, <1>4, ChatFrame, ChatKept DEF ChatChecked
<1> QED
    BY <1>5, <1>6, <1>7, <1>8 DEF ChatInv

LEMMA AskedKept ==
  ASSUME chatAsked' = chatAsked
  PROVE  /\ Chat!D' = Chat!D /\ Chat!R' = Chat!R /\ Chat!DeepSeek' = Chat!DeepSeek /\ Chat!Chat' = Chat!Chat
         /\ Chat!TooMuch' = Chat!TooMuch /\ Asked' = Asked /\ Latest' = Latest
         /\ LatestMedia' = LatestMedia /\ ActiveMedia' = ActiveMedia
         /\ \A c : Scope(c)' <=> Scope(c)
<1>1. Chat!D' = Chat!D /\ Chat!R' = Chat!R
    BY DEF Chat!D, Chat!R
<1>2. Asked' = Asked /\ Chat!DeepSeek' = Chat!DeepSeek /\ Chat!Chat' = Chat!Chat /\ Chat!TooMuch' = Chat!TooMuch
    BY <1>1 DEF Asked, Chat!DeepSeek, Chat!Chat, Chat!TooMuch
<1>3. Latest' = Latest
    BY <1>2 DEF Latest
<1>4. LatestMedia' = LatestMedia /\ ActiveMedia' = ActiveMedia
    BY <1>2, <1>3 DEF LatestMedia, ActiveMedia
<1>5. \A c : Scope(c)' <=> Scope(c)
    BY <1>1, <1>2 DEF Scope
<1> QED
    BY <1>1, <1>2, <1>3, <1>4, <1>5

LEMMA ChatScopes ==
  ASSUME ChatInv, Chat!Scope
  PROVE  ChatInv'
<1>1. /\ chatAt = "scope" /\ UNCHANGED <<chatAsked, chatTokens, chatSpent, chatSent>>
      /\ chatConv = Asked /\ chatAsked \in [request : Chats, deployment : Deployments]
    BY DEF Chat!Scope, Chat!Refuse, Chat!Go, ChatInv, ChatPlaced, ChatTyped
<1>2. Chat!Conversation(Asked)
    BY <1>1, ChatIs
<1> DEFINE scoped == IF Chat!Chat /\ Chat!D.history = "latest" THEN Chat!Scoped(chatConv, Chat!DeepSeek) ELSE chatConv
<1>3. \/ chatAt' = "400" /\ UNCHANGED <<chatMedia, chatConv>>
      \/ /\ chatConv' = scoped /\ chatMedia' = Chat!MediaOf(scoped) /\ chatAt' = "focus"
         /\ ~Chat!TooMuch
    BY DEF Chat!Scope, Chat!Refuse, Chat!Go
<1>4. CASE chatAt' = "400" /\ UNCHANGED <<chatMedia, chatConv>>
    BY <1>1, <1>4, ChatStays, ChatStops DEF ChatInv
<1>5. CASE /\ chatConv' = scoped /\ chatMedia' = Chat!MediaOf(scoped) /\ chatAt' = "focus"
           /\ ~Chat!TooMuch
  <2>1. PICK c : c = scoped
      OBVIOUS
  <2>2. Scope(c) /\ chatConv' = c /\ chatMedia' = Chat!MediaOf(c)
      BY <1>1, <1>2, <1>5, <2>1 DEF Scope
  <2> HIDE DEF scoped
  <2>3. /\ Chat!MediaOf(c) \subseteq DOMAIN MediumKind
        /\ Chat!Chat /\ Chat!D.history = "latest" /\ Latest > 0 =>
             Chat!MediaOf(c) = IF Chat!DeepSeek THEN ActiveMedia ELSE LatestMedia
      BY <2>2, ScopeIs, MediaIs
  <2>4. ChatTyped'
      BY <1>1, <2>2, <2>3, AskedKept DEF ChatTyped
  <2>5. Given(c)'
      BY <1>1, <2>2, AskedKept DEF Given
  <2>6. ChatPlaced'
      BY <1>5, <2>2, <2>5 DEF ChatPlaced, Ahead
  <2>7. ChatBudget'
      BY <1>1, <1>5, AskedKept DEF ChatBudget, Ahead, Chat!NoLateRefusal, Chat!WithinWindow, Chat!Called
  <2>8. ChatChecked'
      BY <1>1, <1>5, AskedKept DEF ChatInv, ChatChecked
  <2> QED
      BY <2>4, <2>6, <2>7, <2>8 DEF ChatInv
<1> QED
    BY <1>3, <1>4, <1>5

LEMMA ChatFocuses ==
  ASSUME ChatInv, Chat!Focus
  PROVE  ChatInv'
<1>1. /\ chatAt = "focus" /\ chatAt' = "preprocess" /\ UNCHANGED <<chatAsked, chatMedia, chatTokens, chatSpent, chatSent>>
      /\ chatConv' = Chat!Stripped(IF Chat!Chat /\ chatMedia # {} /\ Chat!D.reset THEN Chat!Isolated(chatConv)
                                   ELSE IF Chat!Chat /\ chatMedia # {} /\ Chat!D.focus
                                          THEN Chat!Focused(chatConv, Chat!HistoryBudget)
                                   ELSE chatConv)
    BY DEF Chat!Focus, Chat!Go
<1>2. PICK c : c = chatConv
    OBVIOUS
<1>3. Given(c) /\ ~Chat!TooMuch
    BY <1>1, <1>2 DEF ChatInv, ChatPlaced, ChatBudget
<1> DEFINE shown == IF Chat!Chat /\ chatMedia # {} /\ Chat!D.reset THEN Chat!Isolated(c)
                    ELSE IF Chat!Chat /\ chatMedia # {} /\ Chat!D.focus THEN Chat!Focused(c, Chat!HistoryBudget)
                    ELSE c
<1>4. PICK e : e = shown
    OBVIOUS
<1>5. PICK d : d = Chat!Stripped(e)
    OBVIOUS
<1>6. chatConv' = d
    BY <1>1, <1>2, <1>4, <1>5
<1>7. Faithful(e)
  <2>1. CASE e = Chat!Isolated(c)
      BY <1>3, <2>1, SoundIsolated
  <2>2. CASE e = Chat!Focused(c, Chat!HistoryBudget)
    <3>1. PICK max : max = Chat!HistoryBudget
        OBVIOUS
    <3> QED
        BY <1>3, <2>2, <3>1, SoundFocused
  <2>3. CASE e = c /\ ~(Chat!Chat /\ chatMedia # {} /\ Chat!D.reset) /\ ~(Chat!Chat /\ chatMedia # {} /\ Chat!D.focus)
      BY <1>3, <2>3, SoundWhole DEF AboutCurrent
  <2> QED
      BY <1>4, <2>1, <2>2, <2>3
<1>8. Faithful(d) /\ \A i \in 1..Len(d) : ~d[i].old
    BY <1>5, <1>7, SoundStripped
<1>9. ChatPlaced'
    BY <1>1, <1>6, <1>8, ChatKept DEF ChatPlaced, Ahead
<1>10. ChatBudget'
    BY <1>1, <1>3, AskedKept DEF ChatBudget, Ahead, Chat!NoLateRefusal, Chat!WithinWindow, Chat!Called
<1> QED
    BY <1>1, <1>9, <1>10, ChatStays DEF ChatInv

LEMMA ChatPreprocesses ==
  ASSUME ChatInv, Chat!Preprocess
  PROVE  ChatInv'
<1>1. chatAt = "preprocess" /\ UNCHANGED <<chatAsked, chatMedia, chatTokens, chatSent>>
    BY DEF Chat!Preprocess, Chat!Refuse, Chat!Go
<1>2. PICK c : c = chatConv
    OBVIOUS
<1>3. Faithful(c) /\ (\A i \in 1..Len(c) : ~c[i].old) /\ ~Chat!TooMuch /\ chatMedia \subseteq DOMAIN MediumKind
    BY <1>1, <1>2 DEF ChatInv, ChatPlaced, ChatBudget, ChatTyped
<1>4. \/ ~Replaced /\ chatConv' = c /\ chatAt' = "measure"
      \/ Replaced /\ chatConv' = Chat!Told(c, chatMedia) /\ chatAt' = "measure"
      \/ chatAt' = "media failed"
    BY <1>2 DEF Chat!Preprocess, Chat!Refuse, Chat!Go, Replaced
<1>5. ChatTyped' /\ ChatChecked'
    BY <1>1, <1>4, ChatStays
<1>6. CASE chatAt' = "media failed"
    BY <1>1, <1>5, <1>6, ChatStops DEF ChatInv
<1>7. CASE chatAt' = "measure" /\ ((~Replaced /\ chatConv' = c) \/ (Replaced /\ chatConv' = Chat!Told(c, chatMedia)))
  <2>1. PICK d : d = chatConv'
      OBVIOUS
  <2>2. Ready(d)
    <3>1. CASE ~Replaced /\ d = c
      <4>1. \A i \in 1..Len(c) : Fine(c[i])
        <5>1. \A i \in 1..Len(c) : Sane(c[i])
            BY <1>3 DEF Faithful
        <5> QED
            BY <1>3, <3>1, <5>1 DEF Sane, Fine
      <4> QED
          BY <1>3, <3>1, <4>1 DEF Faithful, Ready
    <3>2. CASE Replaced /\ d = Chat!Told(c, chatMedia)
        BY <1>3, <3>2, ReadyTold
    <3> QED
        BY <1>7, <2>1, <3>1, <3>2
  <2>3. ChatPlaced'
      BY <1>1, <1>7, <2>1, <2>2, ChatKept DEF ChatPlaced, Ahead
  <2>4. ChatBudget'
      BY <1>1, <1>3, <1>7, AskedKept DEF ChatBudget, Ahead, Chat!NoLateRefusal, Chat!WithinWindow, Chat!Called
  <2> QED
      BY <1>5, <2>3, <2>4 DEF ChatInv
<1> QED
    BY <1>4, <1>6, <1>7

LEMMA ChatCalls ==
  ASSUME ChatTyped', ChatChecked', UNCHANGED <<chatAsked, chatMedia, chatTokens>>, chatAt' = "call",
         NEW c, chatConv' = c, Ready(c), ~Chat!TooMuch, chatTokens.output \in Nat \ {0},
         Chat!R.requested > 0 => chatTokens.output = Chat!R.requested,
         Fair => chatTokens.output <= Chat!Available(c)
  PROVE  ChatInv'
<1>1. ChatPlaced'
    BY ChatKept DEF ChatPlaced, Ahead
<1>2. ~Chat!TooMuch' /\ Chat!R'.requested = Chat!R.requested
    BY AskedKept
<1>3. Fair' => chatTokens'.output <= Chat!Available(chatConv)'
    BY ChatFrame
<1>4. ChatBudget'
    BY <1>2, <1>3 DEF ChatBudget, Ahead, Chat!NoLateRefusal, Chat!WithinWindow, Chat!Called
<1> QED
    BY <1>1, <1>4 DEF ChatInv

LEMMA ChatMeasures ==
  ASSUME ChatInv, Chat!Measure
  PROVE  ChatInv'
<1>1. chatAt = "measure" /\ UNCHANGED <<chatAsked, chatConv, chatMedia, chatSpent, chatSent>>
    BY DEF Chat!Measure
<1>2. PICK c : c = chatConv
    OBVIOUS
<1>3. Ready(c) /\ ~Chat!TooMuch /\ chatAsked \in [request : Chats, deployment : Deployments]
    BY <1>1, <1>2 DEF ChatInv, ChatPlaced, ChatBudget, ChatTyped, Ahead
<1>4. c \in Seq(Chat!Messages)
    BY <1>3 DEF Ready
<1> DEFINE left == Chat!Available(c)
           requested == Chat!R.requested
           output == IF requested > 0 THEN requested ELSE Chat!Greater(1, Chat!Smaller(Chat!Default, left))
           whole == requested = 0 /\ left > 0
<1>5. /\ chatTokens' = [media |-> Chat!MediaTokens(c),
                        output |-> IF ~Chat!Chat THEN Chat!Greater(1, requested) ELSE output]
      /\ chatAt' = CASE Chat!ByTurns /\ ~(Chat!Chat /\ whole) -> "turns"
                     [] Chat!D.mode = "disabled" \/ whole -> "whole"
                     [] OTHER -> Chat!D.mode
    BY <1>2 DEF Chat!Measure
<1>6. Chat!PromptTokens(c) \in Nat /\ Chat!MediaTokens(c) \in Nat
    BY <1>4, PromptCounts
<1>7. left \in Int
  <2>1. Chat!D.window \in Nat /\ Chat!D.margin \in Nat
      BY <1>3, ChatIs
  <2> QED
      BY <1>6, <2>1 DEF Chat!Available
<1>8. requested \in Nat /\ Chat!Default \in Nat \ {0}
  <2>1. Chat!D.cap \in Nat \ {0} /\ Chat!D.default \in Nat \ {0}
      BY <1>3, ChatIs
  <2> QED
      BY <1>3, <2>1, ChatIs DEF Chat!Default, Chat!Smaller
<1> HIDE DEF left, requested
<1>9. output \in Nat \ {0} /\ (requested > 0 => output = requested)
      /\ Chat!Greater(1, requested) \in Nat \ {0} /\ (requested > 0 => Chat!Greater(1, requested) = requested)
    BY <1>7, <1>8 DEF Chat!Greater, Chat!Smaller
<1>10. chatTokens'.output \in Nat \ {0} /\ (requested > 0 => chatTokens'.output = requested)
       /\ chatTokens'.media = Chat!MediaTokens(c)
    BY <1>5, <1>9
<1>11. chatAt' \in {"turns", "whole", "truncate", "summarize"}
  <2>1. Chat!D.mode \in {"disabled", "truncate", "summarize"}
      BY <1>3, ChatIs
  <2> HIDE DEF output, whole
  <2>2. CASE Chat!ByTurns /\ ~(Chat!Chat /\ whole)
      BY <1>5, <2>2
  <2>3. CASE ~(Chat!ByTurns /\ ~(Chat!Chat /\ whole)) /\ (Chat!D.mode = "disabled" \/ whole)
      BY <1>5, <2>3
  <2>4. CASE ~(Chat!ByTurns /\ ~(Chat!Chat /\ whole)) /\ ~(Chat!D.mode = "disabled" \/ whole)
    <3>1. chatAt' = Chat!D.mode
        BY <1>5, <2>4
    <3> QED
        BY <2>1, <2>4, <3>1
  <2> QED
      BY <2>2, <2>3, <2>4
<1>12. ChatTyped' /\ ChatChecked'
    BY <1>1, <1>11, ChatStays
<1>13. ChatPlaced'
    BY <1>1, <1>2, <1>3, <1>11, ChatKept DEF ChatPlaced, Ahead
<1>14. ChatBudget'
  <2>1. ~Chat!TooMuch' /\ Chat!R'.requested = requested
      BY <1>1, <1>3, AskedKept DEF requested
  <2>2. chatTokens'.media \in Nat /\ Chat!MediaTokens(chatConv') <= chatTokens'.media
    <3>1. chatConv' = c
        BY <1>1, <1>2
    <3>2. Chat!MediaTokens(c) <= Chat!MediaTokens(c)
        BY <1>6
    <3> QED
        BY <1>6, <1>10, <3>1, <3>2
  <2>3. chatAt' \notin {"call", "late", "called"}
      BY <1>11
  <2> QED
      BY <1>10, <2>1, <2>2, <2>3 DEF ChatBudget, Chat!NoLateRefusal, Chat!WithinWindow, Chat!Called
<1> QED
    BY <1>12, <1>13, <1>14 DEF ChatInv

(* What the limit for the prompt leaves is enough for the answer, if the    *)
(* reserve for the media is.                                                *)
LEMMA LimitLeaves ==
  ASSUME NEW c \in Seq(Chat!Messages), chatAsked \in [request : Chats, deployment : Deployments],
         chatTokens.output \in Nat, chatTokens.media \in Nat,
         Chat!Fits(c), Chat!MediaTokens(c) <= chatTokens.media
  PROVE  chatTokens.output <= Chat!Available(c)
<1>1. Chat!D.window \in Nat /\ Chat!D.margin \in Nat
    BY ChatIs
<1>2. Chat!PromptTokens(c) \in Nat /\ Chat!MediaTokens(c) \in Nat
    BY PromptCounts
<1>3. Chat!PromptTokens(c) <= Chat!D.window - chatTokens.output - chatTokens.media - Chat!D.margin
    BY DEF Chat!Fits, Chat!Limit
<1>4. \A p, q, w, m, o, t \in Nat : p <= w - o - t - m /\ q <= t => o <= w - p - q - m
    OBVIOUS
<1>5. chatTokens.output <= Chat!D.window - Chat!PromptTokens(c) - Chat!MediaTokens(c) - Chat!D.margin
    BY <1>1, <1>2, <1>3, <1>4
<1> QED
    BY <1>5 DEF Chat!Available

LEMMA ChatGoesWhole ==
  ASSUME ChatInv, Chat!Whole
  PROVE  ChatInv'
<1>1. /\ chatAt = "whole" /\ UNCHANGED <<chatAsked, chatConv, chatMedia, chatTokens, chatSpent, chatSent>>
      /\ chatAt' = "400" \/ (chatAt' = "call" /\ Chat!Fits(chatConv))
    BY DEF Chat!Whole, Chat!Refuse, Chat!Go
<1>2. PICK c : c = chatConv
    OBVIOUS
<1>3. /\ Ready(c) /\ ~Chat!TooMuch /\ chatAsked \in [request : Chats, deployment : Deployments]
      /\ chatTokens.output \in Nat \ {0} /\ (Chat!R.requested > 0 => chatTokens.output = Chat!R.requested)
      /\ chatTokens.media \in Nat /\ (Fair => Chat!MediaTokens(c) <= chatTokens.media)
    BY <1>1, <1>2 DEF ChatInv, ChatPlaced, ChatBudget, ChatTyped, Ahead
<1>4. ChatTyped' /\ ChatChecked'
    BY <1>1, ChatStays
<1>5. CASE chatAt' = "400"
    BY <1>1, <1>4, <1>5, ChatStops DEF ChatInv
<1>6. CASE chatAt' = "call" /\ Chat!Fits(chatConv)
  <2>1. Fair => chatTokens.output <= Chat!Available(c)
    <3>1. c \in Seq(Chat!Messages) /\ Chat!Fits(c)
        BY <1>2, <1>3, <1>6 DEF Ready
    <3> QED
        BY <1>3, <3>1, LimitLeaves
  <2> QED
      BY <1>1, <1>2, <1>3, <1>4, <1>6, <2>1, ChatCalls
<1> QED
    BY <1>1, <1>5, <1>6

LEMMA ChatTruncates ==
  ASSUME ChatInv, Chat!Truncate
  PROVE  ChatInv'
<1>1. /\ chatAt = "truncate" /\ UNCHANGED <<chatAsked, chatMedia, chatTokens, chatSpent, chatSent>>
      /\ \/ chatAt' = "400"
         \/ chatAt' = "call" /\ Chat!Fits(chatConv) /\ chatConv' = chatConv
         \/ chatAt' = "truncate" /\ chatConv' = Chat!WithoutOldest(chatConv)
    BY DEF Chat!Truncate, Chat!Refuse, Chat!Go
<1>2. PICK c : c = chatConv
    OBVIOUS
<1>3. /\ Ready(c) /\ ~Chat!TooMuch /\ chatAsked \in [request : Chats, deployment : Deployments]
      /\ chatTokens.output \in Nat \ {0} /\ (Chat!R.requested > 0 => chatTokens.output = Chat!R.requested)
      /\ chatTokens.media \in Nat /\ (Fair => Chat!MediaTokens(c) <= chatTokens.media)
    BY <1>1, <1>2 DEF ChatInv, ChatPlaced, ChatBudget, ChatTyped, Ahead
<1>4. ChatTyped' /\ ChatChecked'
    BY <1>1, ChatStays
<1>5. CASE chatAt' = "400"
    BY <1>1, <1>4, <1>5, ChatStops DEF ChatInv
<1>6. CASE chatAt' = "call" /\ Chat!Fits(chatConv) /\ chatConv' = chatConv
  <2>1. Fair => chatTokens.output <= Chat!Available(c)
    <3>1. c \in Seq(Chat!Messages) /\ Chat!Fits(c)
        BY <1>2, <1>3, <1>6 DEF Ready
    <3> QED
        BY <1>3, <3>1, LimitLeaves
  <2> QED
      BY <1>1, <1>2, <1>3, <1>4, <1>6, <2>1, ChatCalls
<1>7. CASE chatAt' = "truncate" /\ chatConv' = Chat!WithoutOldest(chatConv)
  <2>1. PICK d : d = Chat!WithoutOldest(c)
      OBVIOUS
  <2>2. Ready(d) /\ Chat!MediaOf(d) \subseteq Chat!MediaOf(c) /\ chatConv' = d
      BY <1>2, <1>3, <1>7, <2>1, ReadyWithoutOldest
  <2>3. Fair => Chat!MediaTokens(d) <= chatTokens.media
    <3>1. c \in Seq(Chat!Messages) /\ d \in Seq(Chat!Messages)
        BY <1>3, <2>2 DEF Ready
    <3>2. Chat!MediaTokens(c) \in Nat /\ Chat!MediaTokens(d) \in Nat
        BY <3>1, PromptCounts
    <3>3. Fair => Chat!MediaTokens(d) <= Chat!MediaTokens(c)
        BY <1>3, <2>2, <3>1, ReserveFits
    <3> QED
        BY <1>3, <3>2, <3>3
  <2>4. ChatPlaced'
      BY <1>1, <1>7, <2>2, ChatKept DEF ChatPlaced, Ahead
  <2>5. ChatBudget'
    <3>1. ~Chat!TooMuch' /\ Chat!R'.requested = Chat!R.requested /\ Fair' = Fair
        BY <1>1, <1>3, AskedKept, ChatFrame
    <3>2. Fair' => Chat!MediaTokens(chatConv') <= chatTokens'.media
        BY <1>1, <2>2, <2>3, <3>1
    <3> QED
        BY <1>1, <1>3, <1>7, <3>1, <3>2 DEF ChatBudget, Ahead, Chat!NoLateRefusal, Chat!WithinWindow, Chat!Called
  <2> QED
      BY <1>4, <2>4, <2>5 DEF ChatInv
<1> QED
    BY <1>1, <1>5, <1>6, <1>7

LEMMA ChatTurns ==
  ASSUME ChatInv, Chat!Turns
  PROVE  ChatInv'
<1>1. /\ chatAt = "turns" /\ UNCHANGED <<chatAsked, chatMedia, chatTokens, chatSpent, chatSent>>
      /\ \/ chatAt' = "400"
         \/ chatAt' = "call" /\ chatTokens.output <= Chat!Available(chatConv) /\ chatConv' = chatConv
         \/ chatAt' = "turns" /\ chatConv' = Chat!WithoutOldest(chatConv)
    BY DEF Chat!Turns, Chat!Refuse, Chat!Go
<1>2. PICK c : c = chatConv
    OBVIOUS
<1>3. /\ Ready(c) /\ ~Chat!TooMuch
      /\ chatTokens.output \in Nat \ {0} /\ (Chat!R.requested > 0 => chatTokens.output = Chat!R.requested)
    BY <1>1, <1>2 DEF ChatInv, ChatPlaced, ChatBudget, ChatTyped, Ahead
<1>4. ChatTyped' /\ ChatChecked'
    BY <1>1, ChatStays
<1>5. CASE chatAt' = "400"
    BY <1>1, <1>4, <1>5, ChatStops DEF ChatInv
<1>6. CASE chatAt' = "call" /\ chatTokens.output <= Chat!Available(chatConv) /\ chatConv' = chatConv
    BY <1>1, <1>2, <1>3, <1>4, <1>6, ChatCalls
<1>7. CASE chatAt' = "turns" /\ chatConv' = Chat!WithoutOldest(chatConv)
  <2>1. PICK d : d = Chat!WithoutOldest(c)
      OBVIOUS
  <2>2. Ready(d) /\ chatConv' = d
      BY <1>2, <1>3, <1>7, <2>1, ReadyWithoutOldest
  <2>3. ChatPlaced'
      BY <1>1, <1>7, <2>2, ChatKept DEF ChatPlaced, Ahead
  <2>4. ChatBudget'
    <3>1. ~Chat!TooMuch' /\ Chat!R'.requested = Chat!R.requested
        BY <1>1, <1>3, AskedKept
    <3> QED
        BY <1>1, <1>3, <1>7, <3>1 DEF ChatBudget, Ahead, Chat!NoLateRefusal, Chat!WithinWindow, Chat!Called
  <2> QED
      BY <1>4, <2>3, <2>4 DEF ChatInv
<1> QED
    BY <1>1, <1>5, <1>6, <1>7

(* The request as it becomes while turns are summarized, one after another. *)
Fewer(c, f, i) == IF i = 0 THEN c ELSE Chat!WithoutOldest(f[i - 1])

LEMMA FewerExists ==
  ASSUME NEW c, NEW n \in Nat
  PROVE  \E f : f = [i \in 0..n |-> Fewer(c, f, i)]
<1> DEFINE Defined(k) == \E f : f = [i \in 0..k |-> Fewer(c, f, i)]
           Bad == {k \in Nat : ~Defined(k)}
<1>1. Defined(0)
  <2> DEFINE f == [i \in 0..0 |-> c]
  <2>1. f = [i \in 0..0 |-> Fewer(c, f, i)]
    <3>1. \A i \in 0..0 : Fewer(c, f, i) = c
        BY DEF Fewer
    <3> QED
        BY <3>1
  <2> HIDE DEF f
  <2> QED
      BY <2>1
<1>2. ASSUME NEW k \in Nat, Defined(k) PROVE Defined(k + 1)
  <2>1. PICK f : f = [i \in 0..k |-> Fewer(c, f, i)]
      BY <1>2
  <2> DEFINE g == [i \in 0..k + 1 |-> IF i \in 0..k THEN f[i] ELSE Chat!WithoutOldest(f[k])]
  <2>2. ASSUME NEW i \in 0..k + 1 PROVE g[i] = Fewer(c, g, i)
    <3>1. CASE i \in 0..k
      <4>1. i # 0 => i - 1 \in 0..k /\ g[i - 1] = f[i - 1]
          BY <3>1
      <4>2. Fewer(c, g, i) = Fewer(c, f, i)
          BY <4>1 DEF Fewer
      <4> QED
          BY <2>1, <3>1, <4>2
    <3>2. CASE i = k + 1
      <4>1. i # 0 /\ i - 1 = k /\ i \notin 0..k /\ k \in 0..k /\ k \in 0..k + 1
          BY <3>2
      <4>2. g[i] = Chat!WithoutOldest(f[k]) /\ g[k] = f[k]
          BY <3>2, <4>1
      <4> HIDE DEF g
      <4> QED
          BY <4>1, <4>2 DEF Fewer
    <3> QED
        BY <3>1, <3>2
  <2>3. g = [i \in 0..k + 1 |-> Fewer(c, g, i)]
      BY <2>2
  <2> HIDE DEF g
  <2> QED
      BY <2>3
<1> HIDE DEF Defined
<1>3. Bad = {}
  <2> SUFFICES ASSUME Bad # {} PROVE FALSE
      OBVIOUS
  <2>1. PICK k \in Bad : \A j \in Bad : k <= j
      BY LeastExists
  <2>2. k # 0 /\ k \in Nat
      BY <1>1, <2>1
  <2>3. k - 1 \in Nat /\ k - 1 \notin Bad
      BY <2>1, <2>2
  <2> QED
      BY <1>2, <2>1, <2>2, <2>3
<1> QED
    BY <1>3 DEF Defined

LEMMA FewerReady ==
  ASSUME NEW c, Ready(c), NEW n \in Nat, NEW f, f = [i \in 0..n |-> Fewer(c, f, i)]
  PROVE  Ready(f[n]) /\ Chat!MediaOf(f[n]) \subseteq Chat!MediaOf(c)
<1> DEFINE Holds(i) == Ready(f[i]) /\ Chat!MediaOf(f[i]) \subseteq Chat!MediaOf(c)
           Bad == {i \in 0..n : ~Holds(i)}
<1>1. Bad = {}
  <2> SUFFICES ASSUME Bad # {} PROVE FALSE
      OBVIOUS
  <2>1. PICK i \in Bad : \A j \in Bad : i <= j
    <3>1. Bad \in SUBSET Nat
        OBVIOUS
    <3> QED
        BY <3>1, LeastExists
  <2>2. i \in 0..n /\ f[i] = Fewer(c, f, i)
      OBVIOUS
  <2>3. CASE i = 0
    <3>1. f[i] = c
        BY <2>2, <2>3 DEF Fewer
    <3> QED
        BY <3>1
  <2>4. CASE i # 0
    <3>1. i - 1 \in 0..n /\ ~(i <= i - 1)
        BY <2>2, <2>4
    <3>2. Holds(i - 1)
        BY <2>1, <3>1
    <3>3. PICK d : d = f[i - 1]
        OBVIOUS
    <3>4. f[i] = Chat!WithoutOldest(d)
        BY <2>2, <2>4, <3>3 DEF Fewer
    <3>5. Ready(d) /\ Chat!MediaOf(d) \subseteq Chat!MediaOf(c)
        BY <3>2, <3>3
    <3>6. Ready(Chat!WithoutOldest(d)) /\ Chat!MediaOf(Chat!WithoutOldest(d)) \subseteq Chat!MediaOf(d)
        BY <3>5, ReadyWithoutOldest
    <3> QED
        BY <3>4, <3>5, <3>6
  <2> QED
      BY <2>3, <2>4
<1>2. n \in 0..n
    OBVIOUS
<1> QED
    BY <1>1, <1>2

Shortened(c, n) == CHOOSE f : f = [i \in 0..n |-> Fewer(c, f, i)]

LEMMA ChatSummarizes ==
  ASSUME ChatInv, Chat!Summarize
  PROVE  ChatInv'
<1>1. chatAt = "summarize" /\ UNCHANGED <<chatAsked, chatMedia, chatTokens, chatSent>>
    BY DEF Chat!Summarize, Chat!Refuse, Chat!Go
<1>2. PICK c : c = chatConv
    OBVIOUS
<1>3. /\ Ready(c) /\ ~Chat!TooMuch /\ chatAsked \in [request : Chats, deployment : Deployments]
      /\ chatTokens.output \in Nat \ {0} /\ (Chat!R.requested > 0 => chatTokens.output = Chat!R.requested)
      /\ chatTokens.media \in Nat /\ (Fair => Chat!MediaTokens(c) <= chatTokens.media)
    BY <1>1, <1>2 DEF ChatInv, ChatPlaced, ChatBudget, ChatTyped, Ahead
<1> DEFINE Summarized(n, size) == /\ Chat!Fits(Chat!Injected(Shortened(chatConv, n)[n], size)) /\ chatAt' = "call"
                                  /\ chatConv' = Chat!Injected(Shortened(chatConv, n)[n], size)
<1>4. \/ chatAt' = "400"
      \/ chatAt' = "call" /\ Chat!Fits(chatConv) /\ chatConv' = chatConv
      \/ chatAt' = "truncate" /\ chatConv' = chatConv
      \/ \E n \in 1..Len(chatConv), size \in Summaries : Summarized(n, size)
    BY Zenon DEF Chat!Summarize, Chat!Refuse, Chat!Go, Shortened, Fewer
<1>5. CASE chatAt' = "400"
    BY <1>1, <1>5, ChatStays, ChatStops DEF ChatInv
<1>6. CASE chatAt' = "call" /\ Chat!Fits(chatConv) /\ chatConv' = chatConv
  <2>1. Fair => chatTokens.output <= Chat!Available(c)
    <3>1. c \in Seq(Chat!Messages) /\ Chat!Fits(c)
        BY <1>2, <1>3, <1>6 DEF Ready
    <3> QED
        BY <1>3, <3>1, LimitLeaves
  <2>2. ChatTyped' /\ ChatChecked'
      BY <1>1, <1>6, ChatStays
  <2> QED
      BY <1>1, <1>2, <1>3, <1>6, <2>1, <2>2, ChatCalls
<1>7. CASE chatAt' = "truncate" /\ chatConv' = chatConv
  <2>1. ChatTyped' /\ ChatChecked'
      BY <1>1, <1>7, ChatStays
  <2>2. ChatPlaced'
      BY <1>1, <1>2, <1>3, <1>7, ChatKept DEF ChatPlaced, Ahead
  <2>3. ChatBudget'
    <3>1. ~Chat!TooMuch' /\ Chat!R'.requested = Chat!R.requested /\ Fair' = Fair
        BY <1>1, <1>3, AskedKept, ChatFrame
    <3>2. Fair' => Chat!MediaTokens(chatConv') <= chatTokens'.media
        BY <1>1, <1>2, <1>3, <1>7, <3>1
    <3> QED
        BY <1>1, <1>3, <1>7, <3>1, <3>2 DEF ChatBudget, Ahead, Chat!NoLateRefusal, Chat!WithinWindow, Chat!Called
  <2> QED
      BY <2>1, <2>2, <2>3 DEF ChatInv
<1>8. ASSUME NEW n \in 1..Len(chatConv), NEW size \in Summaries, Summarized(n, size) PROVE ChatInv'
  <2>1. n \in Nat /\ size \in Nat
    <3>1. c \in Seq(Chat!Messages) /\ n \in 1..Len(c)
        BY <1>2, <1>3, <1>8 DEF Ready
    <3> QED
        BY <3>1, ChatGiven
  <2>2. PICK f : f = Shortened(c, n)
      OBVIOUS
  <2>3. f = [i \in 0..n |-> Fewer(c, f, i)]
      BY <2>1, <2>2, FewerExists, Zenon DEF Shortened
  <2>4. Ready(f[n]) /\ Chat!MediaOf(f[n]) \subseteq Chat!MediaOf(c)
      BY <1>3, <2>1, <2>3, FewerReady
  <2>5. PICK e : e = f[n]
      OBVIOUS
  <2>6. PICK d : d = Chat!Injected(e, size)
      OBVIOUS
  <2>7. Ready(d) /\ Chat!MediaOf(d) \subseteq Chat!MediaOf(e)
      BY <2>1, <2>4, <2>5, <2>6, ReadyInjected
  <2>8. chatConv' = d /\ Chat!Fits(d) /\ chatAt' = "call"
      BY <1>2, <1>8, <2>2, <2>5, <2>6
  <2>9. Fair => chatTokens.output <= Chat!Available(d)
    <3>1. c \in Seq(Chat!Messages) /\ d \in Seq(Chat!Messages) /\ Chat!MediaOf(d) \subseteq Chat!MediaOf(c)
        BY <1>3, <2>4, <2>5, <2>7 DEF Ready
    <3>2. Chat!MediaTokens(c) \in Nat /\ Chat!MediaTokens(d) \in Nat
        BY <3>1, PromptCounts
    <3>3. Fair => Chat!MediaTokens(d) <= Chat!MediaTokens(c)
        BY <1>3, <3>1, ReserveFits
    <3>4. Fair => Chat!MediaTokens(d) <= chatTokens.media
        BY <1>3, <3>2, <3>3
    <3> QED
        BY <1>3, <2>8, <3>1, <3>4, LimitLeaves
  <2>10. ChatTyped' /\ ChatChecked'
      BY <1>1, <2>8, ChatStays
  <2> QED
      BY <1>1, <1>3, <2>7, <2>8, <2>9, <2>10, ChatCalls
<1> QED
    BY <1>4, <1>5, <1>6, <1>7, <1>8

LEMMA ChatIsCalled ==
  ASSUME ChatInv, Chat!Call
  PROVE  ChatInv'
<1>1. chatAt = "call" /\ UNCHANGED <<chatAsked, chatMedia, chatTokens, chatConv>>
    BY DEF Chat!Call, Chat!Refuse, Chat!Go
<1>2. PICK c : c = chatConv
    OBVIOUS
<1>3. /\ Ready(c) /\ ~Chat!TooMuch /\ chatAsked \in [request : Chats, deployment : Deployments]
      /\ chatTokens.output \in Nat \ {0} /\ (Chat!R.requested > 0 => chatTokens.output = Chat!R.requested)
      /\ (Fair => chatTokens.output <= Chat!Available(c)) /\ chatMedia \subseteq DOMAIN MediumKind
    BY <1>1, <1>2 DEF ChatInv, ChatPlaced, ChatBudget, ChatTyped, Ahead
<1> DEFINE left == Chat!Available(c)
           max == Chat!Effective(left)
           requested == Chat!R.requested
<1>4. \/ chatAt' = "too many images"
      \/ chatAt' = "late" /\ (max <= 0 \/ max > left)
      \/ /\ chatAt' = "called" /\ ~(max <= 0 \/ max > left)
         /\ chatSent' = [conv |-> c, media |-> Chat!Passed(Chat!MediaOf(c)), max |-> max]
    BY <1>2 DEF Chat!Call, Chat!Refuse, Chat!Go
<1>5. /\ Chat!PromptTokens(c) \in Nat /\ Chat!MediaTokens(c) \in Nat
      /\ left \in Int /\ Chat!D.window \in Nat /\ Chat!D.margin \in Nat
      /\ left = Chat!D.window - Chat!PromptTokens(c) - Chat!MediaTokens(c) - Chat!D.margin
  <2>1. Chat!D.window \in Nat /\ Chat!D.margin \in Nat
      BY <1>3, ChatIs
  <2>2. Chat!PromptTokens(c) \in Nat /\ Chat!MediaTokens(c) \in Nat
      BY <1>3, PromptCounts DEF Ready
  <2> QED
      BY <2>1, <2>2 DEF Chat!Available
<1>6. /\ requested \in Nat /\ Chat!Default \in Nat \ {0} /\ Chat!D.cap \in Nat /\ Chat!Default <= Chat!D.cap
      /\ requested <= Chat!D.cap
  <2>1. Chat!D.cap \in Nat \ {0} /\ Chat!D.default \in Nat \ {0} /\ requested \in Nat
      BY <1>3, ChatIs
  <2>2. ~(requested > Chat!D.cap)
      BY <1>3 DEF Chat!TooMuch
  <2> QED
      BY <2>1, <2>2 DEF Chat!Default, Chat!Smaller
<1>7. max = IF requested > 0 THEN requested ELSE Chat!Smaller(Chat!Default, left)
    BY DEF Chat!Effective
<1> HIDE DEF left, max, requested
<1>8. ChatTyped' /\ ChatChecked'
    BY <1>1, <1>4, ChatStays
<1>9. CASE chatAt' = "too many images"
    BY <1>1, <1>8, <1>9, ChatStops DEF ChatInv
<1>10. CASE chatAt' = "late" /\ (max <= 0 \/ max > left)
  <2>1. ~Fair
    <3> SUFFICES ASSUME Fair PROVE FALSE
        OBVIOUS
    <3>1. chatTokens.output \in Nat \ {0} /\ chatTokens.output <= left
        BY <1>3 DEF left
    <3>2. CASE requested > 0
      <4>1. max = chatTokens.output
          BY <1>3, <1>7, <3>2 DEF requested
      <4> QED
          BY <1>5, <1>10, <3>1, <4>1
    <3>3. CASE ~(requested > 0)
      <4>1. max = Chat!Smaller(Chat!Default, left)
          BY <1>7, <3>3
      <4> QED
          BY <1>5, <1>6, <1>10, <3>1, <4>1 DEF Chat!Smaller
    <3> QED
        BY <3>2, <3>3
  <2>2. \E k \in Chat!Kinds(chatMedia) : Estimate[k] < Embedded[k]
    <3>1. PICK k \in Chat!Kinds(chatMedia) : ~(Embedded[k] <= Estimate[k])
        BY <2>1 DEF Fair
    <3>2. k \in Kinded
        BY <1>3, ChatGiven DEF Chat!Kinds
    <3>3. Estimate[k] \in Nat /\ Embedded[k] \in Nat
        BY <3>2, ChatGiven
    <3>4. Estimate[k] < Embedded[k]
        BY <3>1, <3>3
    <3> QED
        BY <3>4
  <2>3. Chat!NoLateRefusal'
      BY <1>1, <2>2 DEF Chat!NoLateRefusal
  <2>4. ChatPlaced' /\ ChatBudget'
      BY <1>10, <2>3 DEF ChatPlaced, ChatBudget, Ahead, Chat!WithinWindow, Chat!Called
  <2> QED
      BY <1>8, <2>4 DEF ChatInv
<1>11. CASE /\ chatAt' = "called" /\ ~(max <= 0 \/ max > left)
            /\ chatSent' = [conv |-> c, media |-> Chat!Passed(Chat!MediaOf(c)), max |-> max]
  <2>1. chatSent'.conv = c /\ chatSent'.media = Chat!Passed(Chat!MediaOf(c)) /\ chatSent'.max = max
      BY <1>11
  <2>2. max \in Int
      BY <1>5, <1>6, <1>7 DEF Chat!Smaller
  <2>3. /\ Chat!PromptTokens(c) + Chat!MediaTokens(c) + Chat!D.margin + max <= Chat!D.window
        /\ max >= 1
      BY <1>5, <1>11, <2>2
  <2>4. max <= Chat!D.cap
      BY <1>5, <1>6, <1>7 DEF Chat!Smaller
  <2>5. Chat!WithinWindow'
    <3>1. Chat!D' = Chat!D /\ Chat!R' = Chat!R
        BY <1>1, AskedKept
    <3>2. Chat!PromptTokens(c) + Chat!MediaTokens(c) + Chat!D.margin + max <= Chat!D.window
          /\ max \in 1..Chat!D.cap /\ (Chat!R.requested > 0 => max = Chat!R.requested)
        BY <1>6, <1>7, <2>2, <2>3, <2>4 DEF requested
    <3> QED
        BY <2>1, <3>1, <3>2 DEF Chat!WithinWindow
  <2>6. Chat!Passed(Chat!MediaOf(c))' = Chat!Passed(Chat!MediaOf(c))
    <3>1. PICK m : m = Chat!MediaOf(c)
        OBVIOUS
    <3> QED
        BY <1>1, <3>1, ChatFrame
  <2>7. ChatPlaced'
      BY <1>1, <1>3, <1>11, <2>1, <2>6, ChatKept DEF ChatPlaced, Ahead
  <2>8. ChatBudget'
      BY <1>11, <2>5 DEF ChatBudget, Ahead, Chat!NoLateRefusal
  <2> QED
      BY <1>8, <2>7, <2>8 DEF ChatInv
<1> QED
    BY <1>4, <1>9, <1>10, <1>11

LEMMA ChatRests ==
  ASSUME ChatInv, UNCHANGED Chat!vars
  PROVE  ChatInv'
<1>1. UNCHANGED <<chatAsked, chatAt, chatConv, chatMedia, chatTokens, chatSpent, chatSent>>
    BY DEF Chat!vars
<1>2. PICK c : c = chatConv
    OBVIOUS
<1>3. PICK e : e = chatSent.conv
    OBVIOUS
<1>4. ChatTyped'
    BY <1>1, ChatStays
<1>5. ChatPlaced'
  <2>1. chatAt' \in {"validate", "scope"} => chatConv' = Asked'
      BY <1>1, AskedKept DEF ChatInv, ChatPlaced
  <2>2. chatAt' = "focus" => Given(chatConv)'
    <3>1. chatAt = "focus" => Given(c)
        BY <1>2 DEF ChatInv, ChatPlaced
    <3>2. Given(c) => Given(c)'
        BY <1>1, AskedKept DEF Given
    <3> QED
        BY <1>1, <1>2, <3>1, <3>2
  <2>3. chatAt' = "preprocess" => Faithful(chatConv)' /\ \A i \in 1..Len(chatConv') : ~chatConv'[i].old
      BY <1>1, <1>2, ChatKept DEF ChatInv, ChatPlaced
  <2>4. chatAt' \in Ahead => Ready(chatConv)'
      BY <1>1, <1>2, ChatKept DEF ChatInv, ChatPlaced
  <2>5. chatAt' = "called" => Ready(chatSent.conv)' /\ chatSent'.media = Chat!Passed(Chat!MediaOf(chatSent.conv))'
    <3>1. chatAt = "called" => Ready(e) /\ chatSent.media = Chat!Passed(Chat!MediaOf(e))
        BY <1>3 DEF ChatInv, ChatPlaced
    <3>2. PICK m : m = Chat!MediaOf(e)
        OBVIOUS
    <3>3. chatSent'.conv = e /\ chatSent'.media = chatSent.media
        BY <1>1, <1>3
    <3>4. Chat!Passed(m)' = Chat!Passed(m) /\ (Ready(e) => Ready(e)')
        BY <1>1, ChatFrame, ChatKept
    <3> QED
        BY <1>1, <3>1, <3>2, <3>3, <3>4
  <2> QED
      BY <2>1, <2>2, <2>3, <2>4, <2>5 DEF ChatPlaced, Ahead
<1>6. ChatBudget'
  <2>1. Chat!Available(c)' = Chat!Available(c) /\ Fair' = Fair /\ Chat!TooMuch' = Chat!TooMuch /\ Chat!R' = Chat!R
      BY <1>1, ChatFrame
  <2>2. Chat!NoLateRefusal' /\ Chat!WithinWindow'
    <3>1. Chat!NoLateRefusal /\ Chat!WithinWindow
        BY DEF ChatInv, ChatBudget
    <3>2. Chat!D' = Chat!D /\ Chat!R' = Chat!R
        BY <1>1, ChatFrame
    <3>3. Chat!NoLateRefusal'
        BY <1>1, <3>1 DEF Chat!NoLateRefusal
    <3>4. Chat!WithinWindow'
        BY <1>1, <3>1, <3>2 DEF Chat!WithinWindow, Chat!Called
    <3> QED
        BY <3>3, <3>4
  <2> QED
      BY <1>1, <1>2, <2>1, <2>2 DEF ChatInv, ChatBudget, Ahead
<1>7. ChatChecked'
    BY <1>1, AskedKept DEF ChatInv, ChatChecked
<1> QED
    BY <1>4, <1>5, <1>6, <1>7 DEF ChatInv

LEMMA ActiveIs ==
  ASSUME chatAsked \in [request : Chats, deployment : Deployments]
  PROVE  /\ Chat!LatestUser(Chat!Original) = Latest /\ Latest \in Nat /\ Chat!Latest = LatestMedia
         /\ Chat!Active = ActiveMedia
<1>1. Asked \in Seq(Chat!Messages) /\ Len(Asked) \in Nat /\ Chat!Original = Asked
    BY ChatIs DEF Chat!Original, Chat!R, Asked
<1>2. Chat!LatestUser(Chat!Original) = Latest /\ Chat!Latest = LatestMedia
    BY <1>1 DEF Chat!Latest, Latest, LatestMedia
<1>3. Latest = 0 \/ Latest \in 1..Len(Asked)
    BY <1>1, LatestIs DEF Latest, LastUser
<1>4. Chat!Active = IF Latest = 0 THEN {} ELSE Chat!MediaOf(SubSeq(Asked, Latest, Len(Asked)))
    BY <1>1, <1>2 DEF Chat!Active
<1>5. CASE Latest # 0
  <2>1. PICK u : u = Latest
      OBVIOUS
  <2>2. PICK c \in Seq(Chat!Messages) : c = Asked
      BY <1>1
  <2>3. u \in 1..Len(c) /\ u \in Int /\ Len(c) \in Nat
      BY <1>1, <1>3, <1>5, <2>1, <2>2
  <2>4. PICK d : d = SubSeq(c, u, Len(c))
      OBVIOUS
  <2>5. d \in Seq(Chat!Messages) /\ Len(d) = Len(c) - u + 1 /\ \A n \in 1..Len(c) - u + 1 : d[n] = c[u + n - 1]
    <3>1. \A i \in u..Len(c) : c[i] \in Chat!Messages
        BY <2>3
    <3>2. u <= Len(c) /\ Len(c) \in Int
        BY <2>3
    <3> QED
        BY <2>3, <2>4, <3>1, <3>2, SubSeqProperties
  <2>6. Chat!MediaOf(d) = UNION {d[n].media : n \in 1..Len(d)}
      BY <2>5, MediaIs
  <2>7. \A n \in 1..Len(d) : u + n - 1 \in u..Len(c) /\ d[n] = c[u + n - 1]
      BY <2>3, <2>5
  <2>8. \A i \in u..Len(c) : i - u + 1 \in 1..Len(d) /\ d[i - u + 1] = c[i]
    <3>1. \A i \in u..Len(c) : i - u + 1 \in 1..Len(c) - u + 1 /\ u + (i - u + 1) - 1 = i
        BY <2>3
    <3> QED
        BY <2>5, <3>1
  <2>9. UNION {d[n].media : n \in 1..Len(d)} = UNION {c[i].media : i \in u..Len(c)}
    <3>1. \A x : (\E n \in 1..Len(d) : x \in d[n].media) <=> \E i \in u..Len(c) : x \in c[i].media
        BY <2>7, <2>8
    <3>2. \A x : x \in UNION {d[n].media : n \in 1..Len(d)} <=> \E n \in 1..Len(d) : x \in d[n].media
        OBVIOUS
    <3>3. \A x : x \in UNION {c[i].media : i \in u..Len(c)} <=> \E i \in u..Len(c) : x \in c[i].media
        OBVIOUS
    <3>4. \A x : x \in UNION {d[n].media : n \in 1..Len(d)} <=> x \in UNION {c[i].media : i \in u..Len(c)}
        BY <3>1, <3>2, <3>3, Zenon
    <3> QED
        BY <3>4
  <2>10. Chat!Active = Chat!MediaOf(d)
      BY <1>4, <1>5, <2>1, <2>2, <2>4
  <2>11. ActiveMedia = UNION {c[i].media : i \in u..Len(c)}
      BY <1>5, <2>1, <2>2 DEF ActiveMedia
  <2>12. Chat!Active = ActiveMedia
      BY <2>6, <2>9, <2>10, <2>11, Zenon
  <2>13. Latest \in Nat
      BY <2>1, <2>3
  <2> QED
      BY <1>2, <2>12, <2>13
<1>6. CASE Latest = 0
    BY <1>1, <1>2, <1>4, <1>6 DEF ActiveMedia
<1> QED
    BY <1>5, <1>6

LEMMA ChatRight ==
  ASSUME ChatInv, Chat!Called, Chat!Chat, Chat!D.backend # "other", Latest > 0
  PROVE  /\ LatestMedia \subseteq Chat!Known
         /\ Chat!D.history = "latest" => Chat!Known \subseteq (IF Chat!DeepSeek THEN ActiveMedia ELSE LatestMedia)
<1>1. /\ Ready(chatSent.conv) /\ chatSent.media = Chat!Passed(Chat!MediaOf(chatSent.conv))
      /\ chatAsked \in [request : Chats, deployment : Deployments] /\ chatMedia \subseteq DOMAIN MediumKind
      /\ Chat!D.history = "latest" => chatMedia \subseteq (IF Chat!DeepSeek THEN ActiveMedia ELSE LatestMedia)
    BY DEF ChatInv, ChatPlaced, ChatTyped, Chat!Called
<1>2. PICK c : c = chatSent.conv
    OBVIOUS
<1>3. Ready(c) /\ c \in Seq(Chat!Messages) /\ DOMAIN c = 1..Len(c) /\ \A i \in 1..Len(c) : Fine(c[i])
    BY <1>1, <1>2 DEF Ready
<1>4. PICK m : m = Chat!MediaOf(c)
    OBVIOUS
<1>5. m = UNION {c[i].media : i \in 1..Len(c)} /\ m \subseteq chatMedia
    BY <1>3, <1>4, MediaIs DEF Fine
<1>6. chatSent.media = Chat!Passed(m) /\ Chat!Passed(m) \subseteq m
  <2>1. Chat!OfKind(m, "image") \subseteq m
      BY DEF Chat!OfKind
  <2> QED
      BY <1>1, <1>2, <1>4, <2>1 DEF Chat!Passed
<1>7. \A x : x \in Chat!About("user") <=> \E i \in 1..Len(c) : c[i].role = "user" /\ x \in c[i].about
    BY <1>2, <1>3 DEF Chat!About
<1>8. Chat!About("user") \subseteq chatMedia
    BY <1>3, <1>7 DEF Fine
<1>9. Chat!Known \subseteq chatMedia
    BY <1>5, <1>6, <1>8 DEF Chat!Known
<1>10. LatestMedia \subseteq Chat!Known
  <2>1. PICK k : LastUser(c, k) /\ LatestMedia \subseteq (IF Replaced THEN c[k].about ELSE c[k].media)
      BY <1>3 DEF Ready
  <2>2. k \in 1..Len(c) /\ c[k].role = "user"
      BY <2>1 DEF LastUser
  <2>3. CASE Replaced
      BY <1>7, <2>1, <2>2, <2>3 DEF Chat!Known
  <2>4. CASE ~Replaced
    <3>1. LatestMedia \subseteq m
        BY <1>5, <2>1, <2>2, <2>4
    <3>2. m \subseteq Chat!Passed(m)
      <4>1. CASE Chat!D.backend \in {"python", "vllm_multimodal", "vllm_deepseek"}
          BY <4>1 DEF Chat!Passed
      <4>2. CASE Chat!D.backend = "vllm"
        <5>1. Chat!Kinds(chatMedia) \cap {"video", "audio", "pdf"} = {}
            BY <2>4, <4>2 DEF Replaced, Chat!Preprocessed
        <5>2. \A x \in m : MediumKind[x] \in Chat!Kinds(chatMedia) /\ MediumKind[x] \in Kinded
            BY <1>1, <1>5, ChatGiven DEF Chat!Kinds
        <5>3. \A x \in m : MediumKind[x] = "image"
            BY <5>1, <5>2 DEF Kinded
        <5>4. m \subseteq Chat!OfKind(m, "image")
            BY <5>3 DEF Chat!OfKind
        <5> QED
            BY <4>2, <5>4 DEF Chat!Passed
      <4> QED
          BY <1>1, <4>1, <4>2, ChatIs
    <3> QED
        BY <1>6, <3>1, <3>2 DEF Chat!Known
  <2> QED
      BY <2>3, <2>4
<1> QED
    BY <1>1, <1>9, <1>10

LEMMA ChatIsSafe ==
  ASSUME ChatInv
  PROVE  ChatSound
<1>1. chatAsked \in [request : Chats, deployment : Deployments] /\ ChatPlaced /\ ChatBudget /\ ChatChecked
    BY DEF ChatInv, ChatTyped
<1>2. /\ Chat!LatestUser(Chat!Original) = Latest /\ Latest \in Nat /\ Chat!Latest = LatestMedia
      /\ Chat!Active = ActiveMedia
    BY <1>1, ActiveIs
<1>3. Chat!WithinWindow /\ Chat!NoLateRefusal
    BY <1>1 DEF ChatBudget
<1>4. Chat!RightMedia
    BY <1>2, ChatRight DEF Chat!RightMedia
<1>5. Chat!NoOldAnswers
  <2> SUFFICES ASSUME Chat!Called PROVE
           /\ Chat!Chat /\ Latest > 0 /\ (Chat!D.reset \/ Chat!D.focus) /\ Chat!D.history = "latest"
                /\ chatMedia # {} => Chat!About("assistant") \subseteq ActiveMedia
           /\ \A i \in DOMAIN chatSent.conv : ~chatSent.conv[i].old
      BY <1>2 DEF Chat!NoOldAnswers
  <2>1. PICK c : c = chatSent.conv
      OBVIOUS
  <2>2. DOMAIN c = 1..Len(c) /\ \A i \in 1..Len(c) : Fine(c[i])
      BY <1>1, <2>1 DEF ChatPlaced, Chat!Called, Ready
  <2>3. \A i \in DOMAIN c : ~c[i].old
      BY <2>2 DEF Fine
  <2>4. ASSUME AboutCurrent PROVE Chat!About("assistant") \subseteq ActiveMedia
    <3>1. \A i \in 1..Len(c) : c[i].role = "assistant" => c[i].about \subseteq ActiveMedia
        BY <2>2, <2>4 DEF Fine
    <3> QED
        BY <2>1, <2>2, <3>1 DEF Chat!About
  <2> QED
      BY <2>1, <2>3, <2>4 DEF AboutCurrent
<1>6. Chat!EarlyRefusal
  <2>1. Chat!DeepSeek /\ chatSpent => Cardinality(ActiveMedia) <= Chat!D.images
      BY <1>1 DEF ChatChecked
  <2> QED
      BY <1>2, <2>1, ChatCount DEF Chat!EarlyRefusal
<1> QED
    BY <1>3, <1>4, <1>5, <1>6 DEF ChatSound, Chat!ChatSound

(* What the backend is called with fits its window and is what was asked    *)
(* for; the media of the latest message reach it, older ones do not unless  *)
(* gateway.json says so, and no answer about them is left; what the budget  *)
(* refuses it refuses before an inference, for any conversation and any     *)
(* deployment.                                                              *)
THEOREM ChatIsSound == Chat!Spec => []ChatSound
<1>1. Chat!Init => ChatInv
    BY ChatBegins
<1>2. ChatInv /\ [Chat!Next]_Chat!vars => ChatInv'
  <2> SUFFICES ASSUME ChatInv, [Chat!Next]_Chat!vars PROVE ChatInv'
      OBVIOUS
  <2>1. \/ Chat!Validate \/ Chat!Scope \/ Chat!Focus \/ Chat!Preprocess \/ Chat!Measure
        \/ Chat!Whole \/ Chat!Truncate \/ Chat!Summarize \/ Chat!Turns \/ Chat!Call
        \/ UNCHANGED Chat!vars
      BY Zenon DEF Chat!Next
  <2> QED
      BY <2>1, ChatValidates, ChatScopes, ChatFocuses, ChatPreprocesses, ChatMeasures, ChatGoesWhole,
         ChatTruncates, ChatSummarizes, ChatTurns, ChatIsCalled, ChatRests
<1>3. ChatInv => ChatSound
    BY ChatIsSafe
<1> QED
    BY <1>1, <1>2, <1>3, PTL DEF Chat!Spec
-----------------------------------------------------------------------------
(* Batch.                                                                   *)
Took(t, i) == item[t] = i /\ task[t] \in {"calling", "failed", "cancelled"}

(* A call is for an input that has no answer and no other call.             *)
OwnInput ==
  /\ \A t \in Tasks : task[t] = "calling" => item[t] \in Inputs /\ answers[item[t]] = 0
  /\ \A t, u \in Tasks : t # u /\ task[t] = "calling" /\ task[u] = "calling" => item[t] # item[u]
  /\ \A i \in Inputs : answers[i] <= 1

(* What left the iterator is answered or with a task; a worker ends when    *)
(* nothing is left.                                                         *)
Iterated == Pooled =>
  /\ \A t \in Tasks : task[t] = "calling" => item[t] < next
  /\ \A t \in Tasks : task[t] = "done" => next = Count + 1
  /\ \A i \in Inputs : i >= next => answers[i] = 0
  /\ \A i \in Inputs : i < next => answers[i] = 1 \/ \E t \in Tasks : Took(t, i)

Chunked == ~Pooled => \A t \in Tasks :
  /\ task[t] = "calling" => item[t] = t
  /\ task[t] = "ready" => answers[t] = 0
  /\ task[t] = "done" => answers[t] = 1

Work == OwnInput /\ Iterated /\ Chunked

Control ==
  /\ outcome = "none" <=> caller = "waiting"
  /\ caller = "draining" => Drains
  /\ \A t \in Tasks : task[t] = "cancelled" => t \in stopping
  /\ caller = "waiting" /\ ~cancelled => stopping = {}
  /\ Drains /\ cancelled => outcome = "cancelled"
  /\ Drains /\ caller = "returned" => Unfinished = {}
  /\ outcome = "results" => \A t \in Tasks : task[t] = "done"

IInv == TypeOK /\ Work /\ Control
-----------------------------------------------------------------------------
LEMMA TasksAreInputs == Tasks \subseteq Inputs /\ 1 \in Tasks /\ Count \in Nat \ {0}
  BY BatchAssumption DEF Tasks, Inputs, BatchAssumption

LEMMA InitHolds == Init => IInv
<1> SUFFICES ASSUME Init PROVE IInv
    OBVIOUS
<1>1. Tasks \subseteq Inputs /\ Count \in Nat \ {0}
    BY BatchAssumption DEF Tasks, Inputs, BatchAssumption
<1> DEFINE Idle == /\ task = [t \in Tasks |-> "ready"] /\ item = [t \in Tasks |-> 0]
                   /\ answers = [i \in Inputs |-> 0]
<1>2. Idle /\ next = 1 /\ stopping = {}
    BY DEF Init
<1>3. /\ \A t \in Tasks : task[t] = "ready" /\ item[t] = 0
      /\ \A i \in Inputs : answers[i] = 0 /\ i >= 1
    BY <1>1, <1>2 DEF Inputs
<1>4. TypeOK
  <2>1. /\ task \in [Tasks -> {"ready", "calling"} \cup Finished]
        /\ item \in [Tasks -> 0..Count] /\ answers \in [Inputs -> Nat]
      BY <1>1, <1>2
  <2>2. next \in 1..(Count + 1) /\ stopping \subseteq Tasks
      BY <1>1, <1>2
  <2>3. /\ shape \in {"workers", "visual map", "text map"}
        /\ caller \in {"waiting", "draining", "returned"}
        /\ outcome \in {"none", "results", "failed", "cancelled"} /\ cancelled \in BOOLEAN
      BY DEF Init
  <2> QED
      BY <2>1, <2>2, <2>3 DEF TypeOK
<1>5. Work
  <2>1. \A i \in Inputs : ~(i < 1)
      BY <1>1 DEF Inputs
  <2>2. OwnInput /\ Iterated /\ Chunked
      BY <1>1, <1>2, <1>3, <2>1 DEF OwnInput, Iterated, Chunked
  <2> QED
      BY <2>2 DEF Work
<1>6. Control
    BY DEF Init, Control
<1> QED
    BY <1>4, <1>5, <1>6 DEF IInv

(* A task that moves was not finished, so its batch is not over.            *)
LEMMA TaskKeepsControl ==
  ASSUME IInv, TaskStep, NEW t \in Tasks, task[t] \notin Finished,
         NEW s \in {"ready", "calling"} \cup Finished, task' = [task EXCEPT ![t] = s],
         s = "cancelled" => t \in stopping
  PROVE  Control' /\ Tasks' = Tasks /\ Pooled' = Pooled
<1>1. Tasks' = Tasks /\ Drains' = Drains /\ Pooled' = Pooled
    BY DEF TaskStep, Tasks, Drains, Pooled
<1>2. \A u \in Tasks : task'[u] = IF u = t THEN s ELSE task[u]
    BY DEF IInv, TypeOK
<1>3. t \in Unfinished /\ outcome # "results" /\ ~(Drains /\ caller = "returned")
    BY DEF Unfinished, IInv, Control, Finished
<1> QED
    BY <1>1, <1>2, <1>3 DEF IInv, Control, TaskStep

(* A task that fails or unwinds keeps its input to itself.                  *)
LEMMA EndKeeps ==
  ASSUME IInv, NEW t \in Tasks, Fails(t) \/ Unwinds(t)
  PROVE  IInv'
<1>1. PICK s \in {"failed", "cancelled"} :
        /\ task' = [task EXCEPT ![t] = s] /\ task[t] \in {"ready", "calling"}
        /\ UNCHANGED <<item, next, answers>> /\ TaskStep
        /\ s = "cancelled" => t \in stopping
  <2>1. CASE Fails(t)
      BY <2>1 DEF Fails
  <2>2. CASE Unwinds(t)
      BY <2>2 DEF Unwinds, Finished, IInv, TypeOK
  <2> QED
      BY <2>1, <2>2
<1>2. Control' /\ Tasks' = Tasks /\ Pooled' = Pooled
    BY <1>1, TaskKeepsControl DEF Finished
<1>3. \A u \in Tasks : task'[u] = IF u = t THEN s ELSE task[u]
    BY <1>1 DEF IInv, TypeOK
<1>4. TypeOK'
    BY <1>1, <1>2 DEF IInv, TypeOK, TaskStep, Finished
<1>5. OwnInput'
    BY <1>1, <1>2, <1>3 DEF IInv, Work, OwnInput
<1>6. Iterated'
  <2>1. \A i \in Inputs, u \in Tasks : Took(u, i) => Took(u, i)'
      BY <1>1, <1>3 DEF Took
  <2> QED
      BY <1>1, <1>2, <1>3, <2>1 DEF IInv, Work, Iterated
<1>7. Chunked'
    BY <1>1, <1>2, <1>3 DEF IInv, Work, Chunked
<1> QED
    BY <1>2, <1>4, <1>5, <1>6, <1>7 DEF IInv, Work

(* A worker that is ready, or has just been answered, takes the next input  *)
(* or ends; before is what was answered up to then.                         *)
LEMMA TakeInputKeeps ==
  ASSUME IInv, NEW t \in Tasks, task[t] \in {"ready", "calling"}, Pooled, TakeInput(t), TaskStep,
         answers' \in [Inputs -> Nat],
         \A i \in Inputs : answers'[i] = IF task[t] = "calling" /\ i = item[t] THEN 1 ELSE answers[i]
  PROVE  IInv'
<1> DEFINE s == IF next <= Count THEN "calling" ELSE "done"
<1>1. /\ task' = [task EXCEPT ![t] = s]
      /\ item' = IF next <= Count THEN [item EXCEPT ![t] = next] ELSE item
      /\ next' = IF next <= Count THEN next + 1 ELSE next
    BY DEF TakeInput
<1>2. Control' /\ Tasks' = Tasks /\ Pooled' = Pooled
    BY <1>1, TaskKeepsControl DEF Finished
<1>3. /\ Tasks \subseteq Inputs /\ Count \in Nat \ {0}
      /\ next \in 1..(Count + 1) /\ item \in [Tasks -> 0..Count]
      /\ task \in [Tasks -> {"ready", "calling"} \cup Finished] /\ answers \in [Inputs -> Nat]
    BY TasksAreInputs DEF IInv, TypeOK
<1>4. /\ \A u \in Tasks : task'[u] = IF u = t THEN s ELSE task[u]
      /\ \A u \in Tasks : item'[u] = IF u = t /\ next <= Count THEN next ELSE item[u]
    BY <1>1, <1>3
<1>5. TypeOK'
  <2>1. task' \in [Tasks -> {"ready", "calling"} \cup Finished]
      BY <1>1, <1>3 DEF Finished
  <2>2. item' \in [Tasks -> 0..Count] /\ next' \in 1..(Count + 1)
      BY <1>1, <1>3
  <2> QED
      BY <1>2, <2>1, <2>2 DEF IInv, TypeOK, TaskStep
<1>6. \A i \in Inputs : i >= next => answers[i] = 0
    BY DEF IInv, Work, Iterated
<1>7. \A u \in Tasks : task[u] = "calling" => item[u] < next
    BY DEF IInv, Work, Iterated
<1>8. OwnInput'
  <2>1. ASSUME NEW u \in Tasks, task'[u] = "calling"
        PROVE  item'[u] \in Inputs /\ answers'[item'[u]] = 0
    <3>1. CASE u = t
        BY <1>3, <1>4, <1>6, <1>7, <2>1, <3>1 DEF Inputs
    <3>2. CASE u # t
        BY <1>4, <2>1, <3>2 DEF IInv, Work, OwnInput
    <3> QED
        BY <3>1, <3>2
  <2>2. ASSUME NEW u \in Tasks, NEW w \in Tasks, u # w, task'[u] = "calling", task'[w] = "calling"
        PROVE  item'[u] # item'[w]
      BY <1>3, <1>4, <1>7, <2>2 DEF IInv, Work, OwnInput
  <2>3. \A i \in Inputs : answers'[i] <= 1
      BY <1>3 DEF IInv, Work, OwnInput
  <2> QED
      BY <1>2, <2>1, <2>2, <2>3 DEF OwnInput
<1>9. Iterated'
  <2>1. \A u \in Tasks : task'[u] = "calling" => item'[u] < next'
      BY <1>1, <1>3, <1>4, <1>7
  <2>2. \A u \in Tasks : task'[u] = "done" => next' = Count + 1
      BY <1>1, <1>3, <1>4 DEF IInv, Work, Iterated
  <2>3. \A i \in Inputs : i >= next' => answers'[i] = 0
      BY <1>1, <1>3, <1>6, <1>7 DEF Inputs
  <2>4. ASSUME NEW i \in Inputs, i < next' PROVE answers'[i] = 1 \/ \E u \in Tasks : Took(u, i)'
    <3>1. CASE i = next
        BY <1>1, <1>3, <1>4, <2>4, <3>1 DEF Took
    <3>2. CASE i # next
      <4>1. i < next
          BY <1>1, <1>3, <2>4, <3>2 DEF Inputs
      <4>2. CASE answers[i] = 1
          BY <4>2
      <4>3. CASE \E u \in Tasks : Took(u, i)
        <5>1. PICK u \in Tasks : Took(u, i)
            BY <4>3
        <5>2. CASE u = t
            BY <5>1, <5>2 DEF Took
        <5>3. CASE u # t
            BY <1>4, <5>1, <5>3 DEF Took
        <5> QED
            BY <5>2, <5>3
      <4> QED
          BY <4>1, <4>2, <4>3 DEF IInv, Work, Iterated
    <3> QED
        BY <3>1, <3>2
  <2> QED
      BY <1>2, <2>1, <2>2, <2>3, <2>4 DEF Iterated
<1> QED
    BY <1>2, <1>5, <1>8, <1>9 DEF IInv, Work, Chunked

LEMMA StartsKeeps == ASSUME IInv, NEW t \in Tasks, Starts(t) PROVE IInv'
<1>1. task[t] = "ready" /\ TaskStep /\ answers' = answers
    BY DEF Starts
<1>2. CASE Pooled
  <2>1. TakeInput(t)
      BY <1>2 DEF Starts
  <2>2. answers' \in [Inputs -> Nat]
      BY <1>1 DEF IInv, TypeOK
  <2> QED
      BY <1>1, <1>2, <2>1, <2>2, TakeInputKeeps
<1>3. CASE ~Pooled
  <2>1. task' = [task EXCEPT ![t] = "calling"] /\ item' = [item EXCEPT ![t] = t] /\ next' = next
      BY <1>3 DEF Starts, TakeChunk
  <2>2. Control' /\ Tasks' = Tasks /\ Pooled' = Pooled
      BY <1>1, <2>1, TaskKeepsControl DEF Finished
  <2>3. t \in Inputs /\ t \in 0..Count /\ answers[t] = 0
      BY <1>1, <1>3, TasksAreInputs DEF Inputs, IInv, Work, Chunked
  <2>4. /\ \A u \in Tasks : task'[u] = IF u = t THEN "calling" ELSE task[u]
        /\ \A u \in Tasks : item'[u] = IF u = t THEN t ELSE item[u]
      BY <2>1 DEF IInv, TypeOK
  <2>5. TypeOK'
    <3>1. task' \in [Tasks -> {"ready", "calling"} \cup Finished] /\ item' \in [Tasks -> 0..Count]
        BY <2>1, <2>3 DEF IInv, TypeOK
    <3> QED
        BY <1>1, <2>1, <2>2, <3>1 DEF IInv, TypeOK, TaskStep
  <2>6. OwnInput'
    <3>1. ASSUME NEW u \in Tasks, task'[u] = "calling"
          PROVE  item'[u] \in Inputs /\ answers[item'[u]] = 0
        BY <2>3, <2>4, <3>1 DEF IInv, Work, OwnInput
    <3>2. \A u \in Tasks : task'[u] = "calling" => item'[u] = u
        BY <1>3, <2>4 DEF IInv, Work, Chunked
    <3>3. \A i \in Inputs : answers[i] <= 1
        BY DEF IInv, Work, OwnInput
    <3> QED
        BY <1>1, <2>2, <3>1, <3>2, <3>3 DEF OwnInput, Inputs
  <2>7. Chunked'
    <3>1. \A u \in Tasks : /\ task'[u] = "calling" => item'[u] = u
                           /\ task'[u] = "ready" => answers[u] = 0
                           /\ task'[u] = "done" => answers[u] = 1
        BY <1>3, <2>4 DEF IInv, Work, Chunked
    <3> QED
        BY <1>1, <2>2, <3>1 DEF Chunked
  <2> QED
      BY <1>3, <2>2, <2>5, <2>6, <2>7 DEF IInv, Work, Iterated
<1> QED
    BY <1>2, <1>3

LEMMA AnsweredKeeps == ASSUME IInv, NEW t \in Tasks, Answered(t) PROVE IInv'
<1>1. task[t] = "calling" /\ TaskStep /\ answers' = [answers EXCEPT ![item[t]] = @ + 1]
    BY DEF Answered
<1>2. item[t] \in Inputs /\ answers[item[t]] = 0 /\ answers \in [Inputs -> Nat]
    BY <1>1 DEF IInv, TypeOK, Work, OwnInput
<1>3. /\ \A i \in Inputs : answers'[i] = IF i = item[t] THEN 1 ELSE answers[i]
      /\ answers' \in [Inputs -> Nat]
    BY <1>1, <1>2
<1>4. CASE Pooled
  <2>1. TakeInput(t)
      BY <1>4 DEF Answered
  <2> QED
      BY <1>1, <1>3, <1>4, <2>1, TakeInputKeeps
<1>5. CASE ~Pooled
  <2>1. task' = [task EXCEPT ![t] = "done"] /\ UNCHANGED <<item, next>>
      BY <1>5 DEF Answered
  <2>2. Control' /\ Tasks' = Tasks /\ Pooled' = Pooled
      BY <1>1, <2>1, TaskKeepsControl DEF Finished
  <2>3. \A u \in Tasks : task'[u] = IF u = t THEN "done" ELSE task[u]
      BY <2>1 DEF IInv, TypeOK
  <2>4. TypeOK'
    <3>1. task' \in [Tasks -> {"ready", "calling"} \cup Finished]
        BY <2>1 DEF IInv, TypeOK, Finished
    <3> QED
        BY <1>1, <1>3, <2>1, <2>2, <3>1 DEF IInv, TypeOK, TaskStep
  <2>5. item[t] = t /\ Tasks \subseteq Inputs
      BY <1>1, <1>5, TasksAreInputs DEF IInv, Work, Chunked
  <2>6. OwnInput'
    <3>1. ASSUME NEW u \in Tasks, task'[u] = "calling" PROVE answers'[item[u]] = 0 /\ item[u] \in Inputs
        BY <1>1, <1>3, <2>3, <3>1 DEF IInv, Work, OwnInput
    <3> QED
        BY <1>3, <2>1, <2>2, <2>3, <3>1 DEF IInv, Work, OwnInput
  <2>7. Chunked'
      BY <1>3, <2>1, <2>2, <2>3, <2>5 DEF IInv, Work, Chunked
  <2> QED
      BY <1>5, <2>2, <2>4, <2>6, <2>7 DEF IInv, Work, Iterated
<1> QED
    BY <1>4, <1>5

(* The caller touches no input.                                             *)
LEMMA WorkStays ==
  ASSUME Work, UNCHANGED <<shape, task, item, next, answers>> PROVE Work'
  BY DEF Work, OwnInput, Iterated, Chunked, Took, Tasks, Pooled

(* A batch that has its results has them of every task: nothing was         *)
(* cancelled, or the caller would be told so.                               *)
LEMMA ResultsOfAll ==
  ASSUME IInv, Resolved, Verdict = "results", caller = "waiting"
  PROVE  ~cancelled /\ \A t \in Tasks : task[t] = "done"
<1>1. \A t \in Tasks : task[t] # "failed"
    BY DEF Verdict
<1>2. ~cancelled
    BY <1>1 DEF Verdict
<1>3. \A t \in Tasks : task[t] # "cancelled"
    BY <1>2 DEF IInv, Control
<1> QED
    BY <1>1, <1>2, <1>3 DEF Resolved, Unfinished, Finished, IInv, TypeOK

LEMMA CallerKeeps == ASSUME IInv, Cancels \/ Caller PROVE IInv'
<1> USE DEF Drains
<1>1. UNCHANGED <<shape, task, item, next, answers>> /\ Tasks' = Tasks /\ Unfinished' = Unfinished
    BY DEF Cancels, Caller, CancelledShielded, CancelledBare, CancelledLate, CancelledDraining,
           ResumesDrained, ResumesBare, Drained, Tasks, Pooled, Unfinished
<1>2. Work'
    BY <1>1, WorkStays DEF IInv
<1>3. Unfinished \subseteq Tasks
    BY DEF Unfinished
<1>4. Verdict \in {"results", "failed", "cancelled"}
    BY DEF Verdict
<1>5. CASE ResumesDrained
  <2>1. Verdict = "results" => \A t \in Tasks : task[t] = "done"
      BY <1>5, ResultsOfAll DEF ResumesDrained
  <2>2. TypeOK'
      BY <1>1, <1>3, <1>4, <1>5 DEF ResumesDrained, Leave, IInv, TypeOK
  <2>3. ~cancelled
      BY <1>5 DEF ResumesDrained, IInv, Control
  <2>4. Control'
      BY <1>1, <1>4, <1>5, <2>1, <2>3 DEF ResumesDrained, Leave, IInv, Control
  <2> QED
      BY <1>2, <2>2, <2>4 DEF IInv
<1>6. CASE ResumesBare
  <2>1. Verdict = "results" => \A t \in Tasks : task[t] = "done"
      BY <1>6, ResultsOfAll DEF ResumesBare
  <2>2. TypeOK'
      BY <1>1, <1>4, <1>6 DEF ResumesBare, IInv, TypeOK
  <2>3. Control'
      BY <1>1, <1>4, <1>6, <2>1 DEF ResumesBare, IInv, Control
  <2> QED
      BY <1>2, <2>2, <2>3 DEF IInv
<1>7. CASE CancelledShielded
  <2>1. TypeOK'
      BY <1>1, <1>3, <1>7 DEF CancelledShielded, Leave, IInv, TypeOK
  <2>2. Control'
      BY <1>1, <1>7 DEF CancelledShielded, Leave, IInv, Control
  <2> QED
      BY <1>2, <2>1, <2>2 DEF IInv
<1>8. CASE CancelledBare
  <2>1. TypeOK'
      BY <1>1, <1>3, <1>8 DEF CancelledBare, IInv, TypeOK
  <2>2. Control'
      BY <1>1, <1>8 DEF CancelledBare, IInv, Control
  <2> QED
      BY <1>2, <2>1, <2>2 DEF IInv
<1>9. CASE CancelledLate
  <2>1. TypeOK'
      BY <1>1, <1>9 DEF CancelledLate, IInv, TypeOK
  <2>2. Control'
      BY <1>1, <1>9 DEF CancelledLate, IInv, Control
  <2> QED
      BY <1>2, <2>1, <2>2 DEF IInv
<1>10. CASE CancelledDraining
  <2>1. TypeOK'
      BY <1>1, <1>10 DEF CancelledDraining, IInv, TypeOK
  <2>2. Control'
      BY <1>1, <1>10 DEF CancelledDraining, IInv, Control
  <2> QED
      BY <1>2, <2>1, <2>2 DEF IInv
<1>11. CASE Drained
  <2>1. TypeOK'
      BY <1>1, <1>11 DEF Drained, IInv, TypeOK
  <2>2. Control'
      BY <1>1, <1>11 DEF Drained, IInv, Control
  <2> QED
      BY <1>2, <2>1, <2>2 DEF IInv
<1> QED
    BY <1>5, <1>6, <1>7, <1>8, <1>9, <1>10, <1>11 DEF Cancels, Caller

(* Where each input is, and what the caller knows, is an invariant of       *)
(* every batch.                                                             *)
THEOREM Inductive == Spec => []IInv
<1>1. IInv /\ [Next]_vars => IInv'
  <2> SUFFICES ASSUME IInv, [Next]_vars PROVE IInv'
      OBVIOUS
  <2>1. CASE UNCHANGED vars
    <3>1. UNCHANGED <<shape, task, item, next, answers>> /\ UNCHANGED <<stopping, caller, outcome, cancelled>>
        BY <2>1 DEF vars
    <3>2. Work'
        BY <3>1, WorkStays DEF IInv
    <3>3. TypeOK' /\ Control'
        BY <3>1 DEF IInv, TypeOK, Control, Tasks, Pooled, Drains, Unfinished
    <3> QED
        BY <3>2, <3>3 DEF IInv
  <2>2. CASE Next
      BY <2>1, <2>2, StartsKeeps, AnsweredKeeps, EndKeeps, CallerKeeps DEF Next, Calls, GoesOn
  <2> QED
      BY <2>1, <2>2
<1> QED
    BY InitHolds, <1>1, PTL DEF Spec

(* A drained batch that has returned has no call in flight, for any number  *)
(* of inputs and workers, however its calls end.                            *)
THEOREM DrainedBatches == Spec => []DrainedOutright
<1>1. IInv => DrainedOutright
    BY DEF IInv, Control, DrainedOutright, NothingOutlives
<1> QED
    BY <1>1, Inductive, PTL

(* A batch that returns results has one answer for each input, and no input *)
(* is answered twice.                                                       *)
THEOREM ResultsAreComplete == Spec => []ResultsComplete
<1>1. IInv => ResultsComplete
  <2> SUFFICES ASSUME IInv PROVE ResultsComplete
      OBVIOUS
  <2>1. \A i \in Inputs : answers[i] <= 1
      BY DEF IInv, Work, OwnInput
  <2>2. ASSUME outcome = "results", NEW i \in Inputs PROVE answers[i] = 1
    <3>1. \A t \in Tasks : task[t] = "done"
        BY <2>2 DEF IInv, Control
    <3>2. CASE Pooled
      <4>1. next = Count + 1
          BY <3>1, <3>2, TasksAreInputs DEF IInv, Work, Iterated
      <4>2. i < next
          BY <4>1, TasksAreInputs DEF Inputs
      <4>3. ~\E t \in Tasks : Took(t, i)
          BY <3>1 DEF Took
      <4> QED
          BY <3>2, <4>2, <4>3 DEF IInv, Work, Iterated
    <3>3. CASE ~Pooled
      <4>1. i \in Tasks
          BY <3>3 DEF Tasks
      <4> QED
          BY <3>1, <3>3, <4>1 DEF IInv, Work, Chunked
    <3> QED
        BY <3>2, <3>3
  <2> QED
      BY <2>1, <2>2 DEF ResultsComplete
<1> QED
    BY <1>1, Inductive, PTL

(* What cancels a drained batch, at any time and any number of times, is    *)
(* what its caller raises.                                                  *)
THEOREM CancellationIsKept == Spec => []CancellationKept
<1>1. IInv => CancellationKept
    BY DEF IInv, Control, CancellationKept
<1> QED
    BY <1>1, Inductive, PTL
=============================================================================
