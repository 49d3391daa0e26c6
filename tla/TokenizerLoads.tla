----------------------------- MODULE TokenizerLoads -----------------------------
(***************************************************************************)
(* The tokenizer of a model, loaded once for all who ask                   *)
(* (ModelRegistry in src/gateway/registry.py): one task per version of the *)
(* model, which looks into the cache and, one at a time, loads.  Meanwhile *)
(* the model may be replaced by another version, and back.                 *)
(*                                                                         *)
(* Callers are coroutines of one loop; tasks run in threads.               *)
(***************************************************************************)
EXTENDS Naturals, FiniteSets

CONSTANTS
  Callers,
  Versions,     \* directories the model's link may lead to; each has its own tokenizer
  Tasks,        \* bound: loading tasks
  NoTask, NoVersion

TokenizerAssumption == NoTask \notin Tasks /\ NoVersion \notin Versions

VARIABLES
  link,      \* the version in use
  caller,
  task,      \* the loads
  loads,     \* _loads: the task of a version
  lock,      \* _model_locks[model]: the task that holds it
  cache      \* _cache[model]: the version of the tokenizer it holds

vars == <<link, caller, task, loads, lock, cache>>
-----------------------------------------------------------------------------
Idle == [at |-> "idle", version |-> NoVersion, task |-> NoTask, late |-> FALSE,
         answer |-> NoVersion, failed |-> {}]

Unused == [at |-> "unused", version |-> NoVersion]

Init ==
  /\ link \in Versions
  /\ caller = [c \in Callers |-> Idle]
  /\ task = [t \in Tasks |-> Unused]
  /\ loads = [v \in Versions |-> NoTask]
  /\ lock = NoTask /\ cache = NoVersion

Call(c, x) == caller' = [caller EXCEPT ![c] = x]
Move(t, at) == task' = [task EXCEPT ![t].at = at]

New == {t \in Tasks : task[t].at = "unused"}
Ended(t) == task[t].at \in {"loaded", "failed", "finished", "finished_failed"}

(* The operator replaces the model.                                         *)
Replace ==
  /\ link' \in Versions \ {link}
  /\ UNCHANGED <<caller, task, loads, lock, cache>>
-----------------------------------------------------------------------------
(* get_tokenizer_async: resolve the version...                              *)
Locate(c) ==
  /\ caller[c].at = "idle"
  /\ Call(c, [caller[c] EXCEPT !.at = "located", !.version = link])
  /\ UNCHANGED <<link, task, loads, lock, cache>>

(* ...then join its task, or start one.  A task may have ended whose        *)
(* callback, _finish_load, has not run.                                     *)
Flight(v) == loads[v]

Share(c) ==
  LET v == caller[c].version
      t == Flight(v)
  IN
  /\ caller[c].at = "located"
  /\ \/ /\ t # NoTask
        /\ Call(c, [caller[c] EXCEPT !.at = "waiting", !.task = t, !.late = Ended(t)])
        /\ UNCHANGED <<task, loads>>
     \/ /\ t = NoTask /\ New # {}
        /\ LET n == CHOOSE n \in New : TRUE IN
             /\ task' = [task EXCEPT ![n] = [at |-> "created", version |-> v]]
             /\ loads' = [loads EXCEPT ![v] = n]
             /\ Call(c, [caller[c] EXCEPT !.at = "waiting", !.task = n, !.late = FALSE])
  /\ UNCHANGED <<link, lock, cache>>

(* _load_tokenizer: the cache, the lock of the model, the cache once more.  *)
Hit(t) == cache = task[t].version

LookUp(t) ==
  /\ task[t].at = "created"
  /\ Move(t, IF Hit(t) THEN "loaded" ELSE "locking")
  /\ UNCHANGED <<link, caller, loads, lock, cache>>

Lock(t) ==
  /\ task[t].at = "locking" /\ lock = NoTask
  /\ IF Hit(t) THEN Move(t, "loaded") /\ UNCHANGED lock
     ELSE Move(t, "loading") /\ lock' = t
  /\ UNCHANGED <<link, caller, loads, cache>>

Loaded(t) ==
  /\ task[t].at = "loading"
  /\ Move(t, "loaded") /\ lock' = NoTask /\ cache' = task[t].version
  /\ UNCHANGED <<link, caller, loads>>

LoadFailed(t) ==
  /\ task[t].at = "loading"
  /\ Move(t, "failed") /\ lock' = NoTask
  /\ UNCHANGED <<link, caller, loads, cache>>

(* Variant: a failed load stays.                                            *)
LoadsKeepingFailed(t) ==
  [v \in Versions |-> IF loads[v] = t /\ task[t].at = "loaded" THEN NoTask ELSE loads[v]]
LoadsWithout(t) == [v \in Versions |-> IF loads[v] = t THEN NoTask ELSE loads[v]]

(* _finish_load, which runs before those wake that waited.                  *)
FinishLoad(t) ==
  /\ task[t].at \in {"loaded", "failed"}
  /\ Move(t, IF task[t].at = "loaded" THEN "finished" ELSE "finished_failed")
  /\ loads' = LoadsWithout(t)
  /\ UNCHANGED <<link, caller, lock, cache>>

(* The caller gets the tokenizer of the task, or its error and may ask      *)
(* again.                                                                   *)
Return(c) ==
  LET t == caller[c].task IN
  /\ caller[c].at = "waiting"
  /\ Ended(t) /\ (caller[c].late \/ task[t].at \in {"finished", "finished_failed"})
  /\ Call(c, IF task[t].at \in {"loaded", "finished"}
               THEN [caller[c] EXCEPT !.at = "over", !.answer = task[t].version]
               ELSE [Idle EXCEPT !.failed = IF caller[c].late THEN {} ELSE caller[c].failed \cup {t}])
  /\ UNCHANGED <<link, task, loads, lock, cache>>

(* A cancelled waiter leaves the task to the others.                        *)
Cancel(c) ==
  /\ caller[c].at \in {"located", "waiting"}
  /\ Call(c, [Idle EXCEPT !.at = "over"])
  /\ UNCHANGED <<link, task, loads, lock, cache>>

Next ==
  \/ Replace
  \/ \E c \in Callers : Locate(c) \/ Share(c) \/ Return(c) \/ Cancel(c)
  \/ \E t \in Tasks : LookUp(t) \/ Lock(t) \/ Loaded(t) \/ LoadFailed(t) \/ FinishLoad(t)

Spec == Init /\ [][Next]_vars
-----------------------------------------------------------------------------
(* However slow its load and whatever replaced the model since, a caller    *)
(* gets the tokenizer of the version it resolved.                           *)
AnswerFits == \A c \in Callers :
  caller[c].at = "over" /\ caller[c].answer # NoVersion => caller[c].answer = caller[c].version

(* No version is loaded by two tasks, and no two threads load at once.      *)
SingleFlight == \A t, u \in Tasks : t # u =>
  /\ ~(task[t].at = "loading" /\ task[u].at = "loading")
  /\ task[t].version = task[u].version /\ task[t].at # "unused" => Ended(t) \/ Ended(u)

(* Who retries after an error waits for another load.                       *)
RetryLoads == \A c \in Callers : caller[c].at = "waiting" => caller[c].task \notin caller[c].failed

TokenizersSound == AnswerFits /\ SingleFlight /\ RetryLoads
=============================================================================
