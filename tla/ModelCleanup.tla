------------------------------ MODULE ModelCleanup ------------------------------
(***************************************************************************)
(* Removal of a model checkout that has no version left, and recovery of   *)
(* its metadata (src/gateway/model_cleanup.py), called by the scans of     *)
(* src/watch_triton.sh, while the producer of the checkout goes on.        *)
(*                                                                         *)
(* The helper moves the metadata (config.pbtxt and the like) into a        *)
(* staging directory beside the checkout, under a journal, and tries a     *)
(* plain rmdir.  Whatever happens then, the stage is recovered: its files  *)
(* go back unless the checkout is gone.  A stage that a dead helper left   *)
(* is recovered by the next scan.                                          *)
(*                                                                         *)
(* A step is one system call, or some whose intermediate states recovery   *)
(* does not tell apart.  A crash kills the helper between two steps; what  *)
(* was done before is on disk (the code calls fsync), power failures are   *)
(* not distinguished from it.  One checkout path is modelled; a file is    *)
(* the number of the write that made it, 0 when there is none.             *)
(***************************************************************************)
EXTENDS Integers, FiniteSets

CONSTANTS
  Names, Config,     \* the metadata files, config.pbtxt among them
  Identities,        \* (st_dev, st_ino) of directories; a file system reuses them
  Stages,            \* bound: names of staging directories
  ZeroGrace,         \* WATCHER_CLEANUP_GRACE_SECONDS=0: no grace within a scan
  MaxWrites,         \* bound: writes of metadata by the producer
  MaxFaults,         \* bound: crashes and I/O errors
  MaxCheckouts       \* bound: checkouts made at the path

ASSUME CleanupAssumption ==
  /\ Config \in Names /\ IsFiniteSet(Names)
  /\ 0 \notin Identities
  /\ ZeroGrace \in BOOLEAN
  /\ MaxWrites \in Nat /\ MaxFaults \in Nat /\ MaxCheckouts \in Nat

VARIABLES
  dir,        \* identity of the directory at the checkout's path, 0 if none
  files,      \* the metadata in it
  newest,     \* the last write of each file by its producer
  version,    \* it has a version directory
  retired,    \* its marker's fingerprint is current and older than the grace
  published,  \* an active link leads into it
  stage,      \* the staging directories
  watcher,    \* sleeping, recovering (helper --recover), or scanning
  pending,    \* cleanup_recovery_pending
  todo,       \* stages the recovery has yet to visit
  helper,     \* what the helper does next
  mine,       \* the stage it works at
  expected,   \* the identity and the files of its inventory
  left,       \* files it has yet to move, or to unlink
  gone,       \* recovery found the checkout removed
  writes, faults, checkouts

checkout == <<dir, files, newest, version, published>>
scan == <<watcher, pending, todo>>
work == <<helper, mine, expected, left, gone>>
counts == <<writes, faults, checkouts>>
vars == <<checkout, retired, stage, scan, work, counts>>

Absent == [n \in Names |-> 0]
NoStage == [journal |-> FALSE, identity |-> 0, files |-> Absent, removed |-> FALSE, made |-> FALSE]
Made == {s \in Stages : stage[s].made}
Present(f) == {n \in Names : f[n] # 0}

Helpers == {"idle", "version", "inventory", "staging", "journal", "moving", "removing",
            "marking", "recover", "restoring", "unlinking"}

TypeOK ==
  /\ dir \in Identities \cup {0}
  /\ files \in [Names -> 0..writes] /\ newest \in [Names -> 0..writes]
  /\ dir = 0 => files = Absent /\ newest = Absent /\ ~version
  /\ {version, retired, published, pending, gone} \subseteq BOOLEAN
  /\ stage \in [Stages -> [journal : BOOLEAN, identity : Identities \cup {0},
                           files : [Names -> 0..writes], removed : BOOLEAN, made : BOOLEAN]]
  /\ \A s \in Stages : Present(stage[s].files) # {} => stage[s].journal
  /\ watcher \in {"sleeping", "recovering", "scanning"}
  /\ todo \subseteq Made
  /\ helper \in Helpers
  /\ helper \in Helpers \ {"idle", "version", "inventory", "staging"} => mine \in Made
  /\ left \subseteq Names
  /\ {writes, faults, checkouts} \subseteq Nat

Init ==
  /\ dir = 0 /\ files = Absent /\ newest = Absent
  /\ version = FALSE /\ retired = FALSE /\ published = FALSE
  /\ stage = [s \in Stages |-> NoStage]
  /\ watcher = "sleeping" /\ pending = FALSE /\ todo = {}
  /\ helper = "idle" /\ mine = 0 /\ left = {} /\ gone = FALSE
  /\ expected = [identity |-> 0, files |-> Absent]
  /\ writes = 0 /\ faults = 0 /\ checkouts = 0

-----------------------------------------------------------------------------
(* The producer of checkouts, and the operator who unlinks models.          *)
CheckoutMade(i) ==
  /\ dir = 0 /\ checkouts < MaxCheckouts
  /\ dir' = i
  /\ checkouts' = checkouts + 1
  /\ UNCHANGED <<files, newest, version, published, retired, stage, scan, work, writes, faults>>

CheckoutDeleted ==
  /\ dir # 0
  /\ dir' = 0 /\ files' = Absent /\ newest' = Absent /\ version' = FALSE
  /\ retired' = FALSE
  /\ UNCHANGED <<published, stage, scan, work, counts>>

Write(n) ==
  /\ dir # 0 /\ writes < MaxWrites
  /\ writes' = writes + 1
  /\ files' = [files EXCEPT ![n] = writes']
  /\ newest' = [newest EXCEPT ![n] = writes']
  /\ retired' = FALSE
  /\ UNCHANGED <<dir, version, published, stage, scan, work, faults, checkouts>>

VersionArrives ==
  /\ dir # 0 /\ ~version
  /\ version' = TRUE
  /\ retired' = FALSE
  /\ UNCHANGED <<dir, files, newest, published, stage, scan, work, counts>>

Unpublish ==
  /\ published
  /\ published' = FALSE
  /\ UNCHANGED <<dir, files, newest, version, retired, stage, scan, work, counts>>

(* A retired copy did not change for the grace period, which no scan        *)
(* outlasts.  (retired stands for the marker, its fingerprint and its time; *)
(* a marker that is younger than the grace is not told from none.)          *)
GracePasses ==
  /\ dir # 0 /\ ~retired
  /\ helper = "idle" /\ (ZeroGrace \/ watcher = "sleeping")
  /\ retired' = TRUE
  /\ UNCHANGED <<checkout, stage, scan, work, counts>>
-----------------------------------------------------------------------------
(* The watcher.                                                             *)
Busy == UNCHANGED <<checkout, counts>>

(* recover_pending_cleanup, at the start of a scan.                         *)
ScanStarts ==
  /\ watcher = "sleeping"
  /\ watcher' = IF Made = {} THEN "scanning" ELSE "recovering"
  /\ todo' = Made
  /\ pending' = FALSE
  /\ UNCHANGED <<retired, stage, work>> /\ Busy

RecoverNext(s) ==
  /\ watcher = "recovering" /\ helper = "idle" /\ s \in todo
  /\ todo' = todo \ {s}
  /\ mine' = s /\ helper' = "recover"
  /\ UNCHANGED <<retired, stage, watcher, pending, expected, left, gone>> /\ Busy

RecoveryEnds ==
  /\ watcher = "recovering" /\ helper = "idle" /\ todo = {}
  /\ watcher' = "scanning"
  /\ UNCHANGED <<retired, stage, pending, todo, work>> /\ Busy

(* scan_target publishes a version; without its config only if no recovery  *)
(* is pending.                                                              *)
Publish ==
  /\ watcher = "scanning" /\ helper = "idle"
  /\ version /\ ~retired /\ ~published
  /\ pending => files[Config] # 0
  /\ published' = TRUE
  /\ UNCHANGED <<dir, files, newest, version, retired, stage, scan, work, counts>>

(* cleanup_stale_symlinks: the link leads nowhere any more.                 *)
Unlinked ==
  /\ watcher = "scanning" /\ helper = "idle"
  /\ published /\ ~version
  /\ published' = FALSE
  /\ UNCHANGED <<dir, files, newest, version, retired, stage, scan, work, counts>>

(* cleanup_unlinked_target: retire_model_copy of an old version, or of the  *)
(* empty checkout.                                                          *)
CleanupStarts ==
  /\ watcher = "scanning" /\ helper = "idle"
  /\ ~pending /\ dir # 0 /\ retired /\ ~published
  /\ Made # Stages                       \* bound
  /\ helper' = IF version THEN "version" ELSE "inventory"
  /\ expected' = [identity |-> dir, files |-> Absent]
  /\ UNCHANGED <<retired, stage, scan, mine, left, gone>> /\ Busy

ScanEnds ==
  /\ watcher = "scanning" /\ helper = "idle"
  /\ watcher' = "sleeping"
  /\ UNCHANGED <<retired, stage, pending, todo, work>> /\ Busy
-----------------------------------------------------------------------------
(* The helper's removal of a checkout.                                      *)
HelperTo(h) == helper' = h /\ UNCHANGED <<scan, gone>>

(* rmtree of the retired version, if it is still the one that was admitted. *)
RemoveVersion ==
  /\ helper = "version"
  /\ IF dir = expected.identity /\ version /\ retired /\ ~published
       THEN HelperTo("inventory") /\ version' = FALSE
       ELSE HelperTo("idle") /\ UNCHANGED version
  /\ UNCHANGED <<dir, files, newest, published, retired, stage, mine, expected, left, counts>>

(* _remove_empty_checkout: nothing is staged unless the directory is the    *)
(* one that was admitted, is inactive and holds files only.                 *)
Inventory ==
  /\ helper = "inventory"
  /\ IF dir = expected.identity /\ ~version /\ ~published
       THEN HelperTo("staging") /\ expected' = [expected EXCEPT !.files = files]
       ELSE HelperTo("idle") /\ UNCHANGED expected
  /\ UNCHANGED <<retired, stage, mine, left>> /\ Busy

MakeStage(s) ==
  /\ helper = "staging" /\ s \notin Made
  /\ stage' = [stage EXCEPT ![s].made = TRUE]
  /\ mine' = s
  /\ HelperTo("journal")
  /\ UNCHANGED <<retired, expected, left>> /\ Busy

WriteJournal ==
  /\ helper = "journal"
  /\ stage' = [stage EXCEPT ![mine].journal = TRUE, ![mine].identity = expected.identity]
  /\ left' = Present(expected.files)
  /\ HelperTo("moving")
  /\ UNCHANGED <<retired, mine, expected>> /\ Busy

(* A file that vanished, or was replaced since the inventory, ends the      *)
(* attempt.                                                                 *)
Move(n) ==
  /\ helper = "moving" /\ n \in left
  /\ left' = left \ {n}
  /\ IF dir = expected.identity /\ files[n] # 0
       THEN /\ stage' = [stage EXCEPT ![mine].files[n] = files[n]]
            /\ files' = [files EXCEPT ![n] = 0]
            /\ retired' = FALSE
            /\ HelperTo(IF files[n] = expected.files[n] THEN "moving" ELSE "recover")
       ELSE HelperTo("recover") /\ UNCHANGED <<stage, files, retired>>
  /\ UNCHANGED <<dir, newest, version, published, mine, expected, counts>>

AllMoved ==
  /\ helper = "moving" /\ left = {}
  /\ HelperTo(IF published THEN "recover" ELSE "removing")
  /\ UNCHANGED <<retired, stage, mine, expected, left>> /\ Busy

(* rmdir, by name: it fails unless the directory at the path is empty.      *)
RemoveDirectory ==
  /\ helper = "removing"
  /\ IF dir # 0 /\ ~version /\ files = Absent
       THEN /\ dir' = 0 /\ newest' = Absent /\ retired' = FALSE
            /\ HelperTo("marking")
       ELSE HelperTo("recover") /\ UNCHANGED <<dir, newest, retired>>
  /\ UNCHANGED <<files, version, published, stage, mine, expected, left, counts>>

MarkRemoved ==
  /\ helper = "marking"
  /\ stage' = [stage EXCEPT ![mine].removed = TRUE]
  /\ HelperTo("recover")
  /\ UNCHANGED <<retired, mine, expected, left>> /\ Busy
-----------------------------------------------------------------------------
(* Variants of the definitions that follow, as plausible bugs would have    *)
(* them: a directory that was removed is not told from one replaced; the    *)
(* stage goes back by rename, over what is there.                           *)
RecoverNothingRemoved ==
  /\ helper = "recover"
  /\ \/ Present(stage[mine].files) = {}
        /\ stage' = [stage EXCEPT ![mine] = NoStage] /\ HelperTo("idle")
     \/ /\ Present(stage[mine].files) # {}
        /\ gone' = stage[mine].removed
        /\ IF stage[mine].removed \/ dir = stage[mine].identity
             THEN helper' = "restoring" /\ pending' = pending
             ELSE helper' = "idle" /\ pending' = (pending \/ watcher = "recovering")
        /\ UNCHANGED <<stage, watcher, todo>>
  /\ UNCHANGED <<retired, mine, expected, left>> /\ Busy

RestoreOverwrites(n) ==
  /\ helper = "restoring" /\ stage[mine].files[n] # 0
  /\ files' = IF gone \/ dir # stage[mine].identity THEN files
              ELSE [files EXCEPT ![n] = stage[mine].files[n]]
  /\ retired' = (retired /\ files' = files)
  /\ left' = {n}
  /\ HelperTo("unlinking")
  /\ UNCHANGED <<stage, dir, newest, version, published, mine, expected, counts>>
-----------------------------------------------------------------------------
(* _recover_cleanup_stage, of the helper's own stage or of one it found.    *)
Staged == Present(stage[mine].files)

Dropped == stage' = [stage EXCEPT ![mine] = NoStage]

(* The helper ends with an error, its stage stays.  Only --recover tells    *)
(* the watcher that something is pending.                                   *)
Deferred ==
  /\ helper' = "idle"
  /\ pending' = (pending \/ watcher = "recovering")
  /\ UNCHANGED <<watcher, todo, gone, stage>>

Recover ==
  /\ helper = "recover"
  /\ \/ Staged = {} /\ Dropped /\ HelperTo("idle")
     \/ /\ Staged # {} /\ (stage[mine].removed \/ dir \in {0, stage[mine].identity})
        /\ gone' = (stage[mine].removed \/ dir = 0)
        /\ helper' = "restoring"
        /\ UNCHANGED <<stage, scan>>
     \/ /\ Staged # {} /\ ~stage[mine].removed /\ dir \notin {0, stage[mine].identity}
        /\ Deferred
  /\ UNCHANGED <<retired, mine, expected, left>> /\ Busy

(* link, which leaves a file alone that is already there, and fails in a    *)
(* directory that was removed.                                              *)
Restore(n) ==
  /\ helper = "restoring" /\ n \in Staged
  /\ IF gone \/ dir = stage[mine].identity
       THEN /\ files' = IF gone \/ files[n] # 0 THEN files
                        ELSE [files EXCEPT ![n] = stage[mine].files[n]]
            /\ retired' = (retired /\ files' = files)
            /\ left' = {n}
            /\ HelperTo("unlinking") /\ UNCHANGED stage
       ELSE Deferred /\ UNCHANGED <<files, retired, left>>
  /\ UNCHANGED <<dir, newest, version, published, mine, expected, counts>>

Unlink(n) ==
  /\ helper = "unlinking" /\ n \in left
  /\ stage' = [stage EXCEPT ![mine].files[n] = 0]
  /\ left' = {}
  /\ HelperTo("restoring")
  /\ UNCHANGED <<retired, mine, expected>> /\ Busy

Restored ==
  /\ helper = "restoring" /\ Staged = {}
  /\ Dropped
  /\ HelperTo("idle")
  /\ UNCHANGED <<retired, mine, expected, left>> /\ Busy
-----------------------------------------------------------------------------
(* The helper is killed: its stage stays, a recovery is incomplete.         *)
Crash ==
  /\ helper # "idle" /\ faults < MaxFaults
  /\ faults' = faults + 1
  /\ helper' = "idle" /\ todo' = {}
  /\ pending' = (pending \/ watcher = "recovering")
  /\ UNCHANGED <<checkout, retired, stage, watcher, mine, expected, left, gone, writes, checkouts>>

(* A system call of the removal fails: the finally clause recovers.         *)
Fails ==
  /\ helper \in {"moving", "removing", "marking"} /\ faults < MaxFaults
  /\ faults' = faults + 1
  /\ HelperTo("recover")
  /\ UNCHANGED <<checkout, retired, stage, mine, expected, left, writes, checkouts>>

Producer ==
  \/ \E i \in Identities : CheckoutMade(i)
  \/ \E n \in Names : Write(n)
  \/ CheckoutDeleted \/ VersionArrives \/ Unpublish

Watcher ==
  \/ ScanStarts \/ RecoveryEnds \/ ScanEnds
  \/ \E s \in Stages : RecoverNext(s)

Removal ==
  \/ RemoveVersion \/ Inventory \/ WriteJournal \/ AllMoved \/ RemoveDirectory \/ MarkRemoved
  \/ \E s \in Stages : MakeStage(s)
  \/ \E n \in Names : Move(n)

Recovery == Recover \/ Restored \/ \E n \in Names : Restore(n) \/ Unlink(n)

Next ==
  \/ Producer \/ GracePasses \/ Publish \/ Unlinked \/ CleanupStarts
  \/ Watcher \/ Removal \/ Recovery \/ Crash \/ Fails

Spec == Init /\ [][Next]_vars

(* The watcher scans for ever and the helper does not hang.                 *)
FairSpec == Spec /\ WF_vars(Watcher) /\ WF_vars(Removal \/ Recovery)
-----------------------------------------------------------------------------
(* While a checkout lives, the newest metadata its producer wrote is in it, *)
(* or is held for it in a stage whose journal says so: no interleaving of   *)
(* writes, downloads, failures and crashes with removal and recovery loses  *)
(* a file or lets an older one take its place ("a producer's newer metadata *)
(* always wins").                                                           *)
NewestKept ==
  \A n \in Names : newest[n] # 0 =>
    \/ files[n] = newest[n]
    \/ \E s \in Made :
         /\ stage[s].journal /\ ~stage[s].removed /\ stage[s].identity = dir
         /\ stage[s].files[n] = newest[n]

(* No metadata stays staged for ever for a checkout that is still the one   *)
(* it was taken from, or that is gone.                                      *)
StagesEmptied ==
  \A s \in Stages :
    []<>(stage[s].made => ~stage[s].removed /\ dir \notin {0, stage[s].identity})

(* A version is not published without its config while that is staged ("Do  *)
(* not use the legacy missing-config fallback while files are staged").     *)
NoFallbackWhileStaged ==
  [][~published /\ published' /\ files[Config] = 0 =>
       \A s \in Made : stage[s].files[Config] = 0]_vars
=============================================================================
