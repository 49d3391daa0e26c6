------------------------------ MODULE BackendConfig ------------------------------
(***************************************************************************)
(* Which backend serves a model: get_backend of src/gateway/registry.py    *)
(* remembers what model_config.py read from config.pbtxt, under the time   *)
(* the file was last modified, while the file may be rewritten in place.   *)
(* It is called by the loop and by threads that load tokenizers.           *)
(***************************************************************************)
EXTENDS Naturals

CONSTANTS
  Callers,
  Backends,     \* what the file may say
  Changes,      \* bound: times it is rewritten
  NoAnswer

VARIABLES
  config,    \* the file: its identity (inode, size, times) and what it says
  caller,
  memo       \* the lru_cache of _read_backend, by the identity at the stat

vars == <<config, caller, memo>>
-----------------------------------------------------------------------------
Idle == [at |-> "idle", id |-> 0, fd |-> 0, half |-> NoAnswer, answer |-> NoAnswer,
         seen |-> {}]     \* history: what the file said since the stat

Init ==
  /\ config \in [id : {1}, says : Backends]
  /\ caller = [c \in Callers |-> Idle]
  /\ memo = [i \in {} |-> NoAnswer]

Call(c, x) == caller' = [caller EXCEPT ![c] = x]

Rewrite ==
  /\ config.id <= Changes
  /\ \E b \in Backends \ {config.says} :
       /\ config' = [id |-> config.id + 1, says |-> b]
       /\ caller' = [c \in Callers |-> [caller[c] EXCEPT !.seen = @ \cup {b}]]
  /\ UNCHANGED memo

(* get_backend.                                                             *)
Stat(c) ==
  /\ caller[c].at \in {"idle", "told", "error"}
  /\ Call(c, [Idle EXCEPT !.at = "stated", !.id = config.id, !.seen = {config.says}])
  /\ UNCHANGED <<config, memo>>

Recall(c) ==
  /\ caller[c].at = "stated" /\ caller[c].id \in DOMAIN memo
  /\ Call(c, [caller[c] EXCEPT !.at = "told", !.answer = memo[caller[c].id]])
  /\ UNCHANGED <<config, memo>>

(* _read_config: open and fstat, and the first part of the bytes...         *)
Open(c) ==
  /\ caller[c].at = "stated" /\ caller[c].id \notin DOMAIN memo
  /\ Call(c, [caller[c] EXCEPT !.at = "reading", !.fd = config.id, !.half = config.says])
  /\ UNCHANGED <<config, memo>>

(* ...then the rest, which may be of another text...                        *)
Read(c) ==
  /\ caller[c].at = "reading"
  /\ Call(c, [caller[c] EXCEPT !.at = "checking",
                !.answer = IF config.says = caller[c].half THEN config.says ELSE "torn"])
  /\ UNCHANGED <<config, memo>>

(* ...so that the file must still be the one that was opened.               *)
SameAnyway(c) == TRUE    \* variant
Same(c) == config.id = caller[c].fd

Check(c) ==
  /\ caller[c].at = "checking"
  /\ IF Same(c)
       THEN /\ Call(c, [caller[c] EXCEPT !.at = "told"])
            /\ memo' = [i \in DOMAIN memo \cup {caller[c].id} |->
                          IF i = caller[c].id THEN caller[c].answer ELSE memo[i]]
       ELSE /\ Call(c, [Idle EXCEPT !.at = "error"])
            /\ UNCHANGED memo
  /\ UNCHANGED config

Next ==
  \/ Rewrite
  \/ \E c \in Callers : Stat(c) \/ Recall(c) \/ Open(c) \/ Read(c) \/ Check(c)

Spec == Init /\ [][Next]_vars
-----------------------------------------------------------------------------
(* The backend named is one that config.pbtxt named while it was asked for, *)
(* although what was read is remembered under a stat that preceded it.      *)
BackendOfItsTime == \A c \in Callers : caller[c].at = "told" => caller[c].answer \in caller[c].seen
=============================================================================
