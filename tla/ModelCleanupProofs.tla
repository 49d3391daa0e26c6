--------------------------- MODULE ModelCleanupProofs ---------------------------
(***************************************************************************)
(* Proofs about ModelCleanup, for any metadata files, staging directories  *)
(* and identities, and any number of writes, checkouts and faults.         *)
(*                                                                         *)
(* The argument: files are taken out of a checkout only while no other     *)
(* stage has any, so one stage at most is not bare, and what a checkout    *)
(* lacks can only be there.  That nothing is taken while a stage waits for *)
(* its recovery is the work of the watcher: it recovers before it scans,   *)
(* and what a dead helper left in a scan makes the copy young again.  A    *)
(* grace of zero seconds voids that; these proofs assume another.          *)
(***************************************************************************)
EXTENDS ModelCleanup, TLAPS

Grace == ~ZeroGrace

Bare(s) == \A n \in Names : stage[s].files[n] = 0

(* The type invariant, in parts: the checkout, the stages, who is at work.  *)
CheckoutTyped ==
  /\ dir \in Identities \cup {0} /\ writes \in Nat
  /\ files \in [Names -> 0..writes] /\ newest \in [Names -> 0..writes]
  /\ dir = 0 => files = Absent /\ newest = Absent
  /\ faults \in Nat /\ checkouts \in Nat

FlagsTyped ==
  /\ version \in BOOLEAN /\ retired \in BOOLEAN /\ published \in BOOLEAN
  /\ pending \in BOOLEAN /\ gone \in BOOLEAN
  /\ dir = 0 => ~version

StageTyped ==
  /\ stage \in [Stages -> [journal : BOOLEAN, identity : Identities \cup {0},
                           files : [Names -> 0..writes], removed : BOOLEAN, made : BOOLEAN]]
  /\ \A s \in Stages : (stage[s].journal /\ stage[s].identity # 0) \/ Bare(s)

WorkTyped ==
  /\ watcher \in {"sleeping", "recovering", "scanning"} /\ helper \in Helpers
  /\ left \subseteq Names
  /\ expected.identity \in Identities \cup {0} /\ "identity" \in DOMAIN expected

AtWork ==
  /\ \A s \in todo : s \in Stages /\ stage[s].made
  /\ helper \in Helpers \ {"idle", "version", "inventory", "staging"} =>
       mine \in Stages /\ stage[mine].made

Unmade == \A s \in Stages : ~stage[s].made => stage[s] = NoStage

OneStage == \A s, t \in Stages : Bare(s) \/ Bare(t) \/ s = t

(* The removal finds all stages bare, and fills its own.                    *)
Filling == {"moving", "removing", "marking"}
Removals == {"version", "inventory", "staging", "journal"} \cup Filling

AllElseBare ==
  helper \in Removals =>
    watcher = "scanning" /\ \A s \in Stages : Bare(s) \/ (helper \in Filling /\ s = mine)

OwnStage ==
  /\ helper \in Removals => expected.identity # 0
  /\ helper = "journal" => ~stage[mine].removed
  /\ helper \in Filling =>
       stage[mine].journal /\ ~stage[mine].removed /\ stage[mine].identity = expected.identity
  /\ helper = "moving" => \A n \in left : stage[mine].files[n] = 0

(* A recovery that nothing has interrupted yet has emptied what it visited. *)
Visited ==
  watcher = "recovering" /\ ~pending =>
    \A s \in Stages : Bare(s) \/ s \in todo \/ (helper # "idle" /\ s = mine)

(* In a scan an old copy is never without files that a stage has.           *)
OldIsWhole == watcher = "scanning" /\ ~pending /\ retired => \A s \in Stages : Bare(s)

(* The stages to visit, and the one at work.                                *)
Visits ==
  /\ watcher = "scanning" => todo = {}
  /\ helper # "idle" => watcher # "sleeping" /\ mine \notin todo

(* What a checkout has is the newest, and what it lacks is in a stage.      *)
InPlace(n) == newest[n] # 0 => files[n] = newest[n]

HeldFor(n, s) ==
  /\ stage[s].journal /\ ~stage[s].removed /\ stage[s].identity = dir
  /\ stage[s].files[n] = newest[n] /\ stage[s].made

Kept ==
  \A n \in Names : newest[n] # 0 =>
    files[n] = newest[n] \/ (files[n] = 0 /\ \E s \in Stages : HeldFor(n, s))

(* The stage is needed no more.                                             *)
Needless ==
  /\ helper = "marking" \/ (helper \in {"restoring", "unlinking"} /\ gone) =>
       \A n \in Names : InPlace(n)
  /\ helper = "unlinking" => \A n \in left : InPlace(n)

IInv ==
  CheckoutTyped /\ FlagsTyped /\ StageTyped /\ WorkTyped /\ AtWork
    /\ Unmade /\ OneStage /\ AllElseBare /\ OwnStage /\ Visited /\ OldIsWhole /\ Visits
    /\ Kept /\ Needless
-----------------------------------------------------------------------------
LEMMA TypeParts == CheckoutTyped /\ FlagsTyped /\ StageTyped /\ WorkTyped /\ AtWork => TypeOK
<1> SUFFICES ASSUME CheckoutTyped, FlagsTyped, StageTyped, WorkTyped, AtWork PROVE TypeOK
    OBVIOUS
<1>1. \A s \in Stages : Present(stage[s].files) # {} => stage[s].journal
    BY DEF StageTyped, Bare, Present
<1>2. todo \subseteq Made
    BY DEF AtWork, Made
<1>3. helper \in Helpers \ {"idle", "version", "inventory", "staging"} => mine \in Made
    BY DEF AtWork, Made
<1> QED
    BY <1>1, <1>2, <1>3 DEF CheckoutTyped, FlagsTyped, StageTyped, WorkTyped, TypeOK

LEMMA Initial == Init => IInv
<1> SUFFICES ASSUME Init PROVE IInv
    OBVIOUS
<1>1. \A s \in Stages : stage[s] = NoStage /\ Bare(s)
    BY DEF Init, Bare, NoStage, Absent
<1>2. CheckoutTyped /\ FlagsTyped
  <2>1. CheckoutTyped
      BY DEF Init, CheckoutTyped, Absent
  <2>2. FlagsTyped
      BY Zenon DEF Init, FlagsTyped
  <2> QED
      BY <2>1, <2>2
<1>3. StageTyped
  <2>1. NoStage \in [journal : BOOLEAN, identity : Identities \cup {0}, files : [Names -> 0..writes],
                     removed : BOOLEAN, made : BOOLEAN]
      BY DEF Init, NoStage, Absent
  <2> HIDE DEF NoStage
  <2> QED
      BY <1>1, <2>1 DEF Init, StageTyped
<1>4. WorkTyped /\ AtWork
    BY DEF Init, WorkTyped, AtWork, Helpers
<1>5. Unmade /\ OneStage /\ AllElseBare /\ OwnStage /\ Visited /\ OldIsWhole /\ Visits
    BY <1>1 DEF Init, Unmade, OneStage, AllElseBare, OwnStage, Visited, OldIsWhole, Visits,
       Removals, Filling
<1>6. Kept /\ Needless
    BY DEF Init, Kept, Needless, Absent
<1> QED
    BY <1>2, <1>3, <1>4, <1>5, <1>6 DEF IInv
-----------------------------------------------------------------------------
(* The producer, the operator and the publication leave the stages and the  *)
(* helper alone, and make no copy old while the watcher scans.              *)
LEMMA SameWork ==
  ASSUME IInv, UNCHANGED <<stage, scan, work>>, retired' => retired \/ watcher = "sleeping"
  PROVE  /\ WorkTyped' /\ AtWork' /\ Unmade' /\ OneStage' /\ AllElseBare' /\ OwnStage'
         /\ Visited' /\ OldIsWhole' /\ Visits'
<1>1. /\ UNCHANGED <<stage, watcher, pending, todo, helper, mine, expected, left, gone>>
      /\ \A s \in Stages : Bare(s)' <=> Bare(s)
    BY DEF Bare, scan, work
<1>2. WorkTyped' /\ AtWork' /\ Unmade' /\ OneStage' /\ Visits'
    BY <1>1 DEF IInv, WorkTyped, AtWork, Unmade, OneStage, Visits
<1>3. AllElseBare' /\ Visited' /\ OldIsWhole'
    BY <1>1 DEF IInv, AllElseBare, Visited, OldIsWhole, WorkTyped
<1>4. OwnStage'
    BY <1>1 DEF IInv, OwnStage
<1> QED
    BY <1>2, <1>3, <1>4

LEMMA SameStages ==
  ASSUME IInv, UNCHANGED stage, writes' \in Nat, writes <= writes'
  PROVE  StageTyped'
<1>1. 0..writes \subseteq 0..writes'
    BY DEF IInv, CheckoutTyped
<1>2. \A s \in Stages : Bare(s)' <=> Bare(s)
    BY DEF Bare
<1> QED
    BY <1>1, <1>2 DEF IInv, StageTyped

LEMMA NoneWritten ==
  ASSUME WorkTyped', \A n \in Names : newest'[n] = 0
  PROVE  Kept' /\ Needless'
<1>1. \A n \in Names : InPlace(n)'
    BY DEF InPlace
<1>2. Kept'
    BY DEF Kept
<1> QED
    BY <1>1, <1>2 DEF Needless, WorkTyped

LEMMA CheckoutMadeKeeps == ASSUME IInv, NEW i \in Identities, CheckoutMade(i) PROVE IInv'
<1>1. /\ dir = 0 /\ dir' = i /\ checkouts' = checkouts + 1
      /\ UNCHANGED <<files, newest, stage, writes, faults>>
    BY DEF CheckoutMade
<1>2. i # 0
    BY CleanupAssumption DEF CleanupAssumption
<1>3. CheckoutTyped' /\ StageTyped'
    BY <1>1, <1>2, SameStages DEF IInv, CheckoutTyped
<1>4. UNCHANGED <<version, published, retired, scan, work>>
    BY DEF CheckoutMade
<1>5. FlagsTyped'
    BY <1>1, <1>2, <1>4 DEF IInv, FlagsTyped, scan, work
<1>6. \A n \in Names : newest'[n] = 0
    BY <1>1 DEF IInv, CheckoutTyped, Absent
<1> QED
    BY <1>1, <1>3, <1>4, <1>5, <1>6, NoneWritten, SameWork DEF IInv

LEMMA CheckoutDeletedKeeps == ASSUME IInv, CheckoutDeleted PROVE IInv'
<1>1. /\ dir' = 0 /\ files' = Absent /\ newest' = Absent
      /\ UNCHANGED <<stage, writes, faults, checkouts>>
    BY DEF CheckoutDeleted, counts
<1>2. CheckoutTyped' /\ StageTyped'
    BY <1>1, SameStages DEF IInv, CheckoutTyped, Absent
<1>3. version' = FALSE /\ retired' = FALSE /\ UNCHANGED <<published, scan, work>>
    BY DEF CheckoutDeleted
<1>4. FlagsTyped'
    BY <1>3, Zenon DEF IInv, FlagsTyped, scan, work
<1>5. \A n \in Names : newest'[n] = 0
    BY <1>1 DEF Absent
<1> QED
    BY <1>1, <1>2, <1>3, <1>4, <1>5, NoneWritten, SameWork DEF IInv

LEMMA WriteKeeps == ASSUME IInv, NEW n \in Names, Write(n) PROVE IInv'
<1>1. /\ dir # 0 /\ writes' = writes + 1
      /\ files' = [files EXCEPT ![n] = writes'] /\ newest' = [newest EXCEPT ![n] = writes']
      /\ UNCHANGED <<dir, stage, faults, checkouts>>
    BY DEF Write
<1>2. /\ files'[n] = newest'[n]
      /\ \A m \in Names : m # n => files'[m] = files[m] /\ newest'[m] = newest[m]
    BY <1>1 DEF IInv, CheckoutTyped
<1>3. CheckoutTyped'
  <2>1. writes \in Nat /\ writes' \in 0..writes' /\ \A k \in 0..writes : k \in 0..writes'
      BY <1>1 DEF IInv, CheckoutTyped
  <2>2. files' \in [Names -> 0..writes'] /\ newest' \in [Names -> 0..writes']
      BY <1>1, <2>1 DEF IInv, CheckoutTyped
  <2> QED
      BY <1>1, <2>1, <2>2 DEF IInv, CheckoutTyped
<1>4. StageTyped'
    BY <1>1, SameStages DEF IInv, CheckoutTyped
<1>5. retired' = FALSE /\ UNCHANGED <<version, published, scan, work>>
    BY DEF Write
<1>6. FlagsTyped'
    BY <1>1, <1>5, Zenon DEF IInv, FlagsTyped, scan, work
<1>7. UNCHANGED <<helper, left, gone>>
    BY <1>5 DEF work
<1>8. Kept'
    BY <1>1, <1>2 DEF IInv, Kept, HeldFor
<1>9. Needless'
    BY <1>2, <1>7 DEF IInv, Needless, InPlace, WorkTyped
<1> QED
    BY <1>1, <1>3, <1>4, <1>5, <1>6, <1>8, <1>9, SameWork DEF IInv

(* Kept and Needless are about the checkout's files and the stages.         *)
LEMMA SameFiles ==
  ASSUME IInv, UNCHANGED <<dir, files, newest, stage>>
  PROVE  /\ Kept'
         /\ \A n \in Names : InPlace(n)' <=> InPlace(n)
  BY DEF IInv, Kept, HeldFor, InPlace

LEMMA OutsideKeeps ==
  ASSUME IInv, VersionArrives \/ Unpublish \/ (Grace /\ GracePasses) \/ Publish \/ Unlinked
  PROVE  IInv'
<1>1. UNCHANGED <<dir, files, newest, stage, scan, work, writes, faults, checkouts>>
    BY DEF VersionArrives, Unpublish, GracePasses, Publish, Unlinked, checkout, counts
<1>2. retired' => retired \/ watcher = "sleeping"
    BY DEF VersionArrives, Unpublish, GracePasses, Publish, Unlinked, Grace
<1>3. FlagsTyped'
  <2>1. UNCHANGED <<dir, pending, gone>>
      BY <1>1 DEF scan, work
  <2>2. CASE VersionArrives
      BY <2>1, <2>2, Zenon DEF IInv, FlagsTyped, VersionArrives
  <2>3. CASE GracePasses
    <3>1. retired' = TRUE /\ UNCHANGED <<dir, version, published>>
        BY <2>3 DEF GracePasses, checkout
    <3> QED
        BY <2>1, <3>1, Zenon DEF IInv, FlagsTyped
  <2>4. CASE Unpublish \/ Publish \/ Unlinked
    <3>1. published' \in BOOLEAN /\ UNCHANGED <<dir, version, retired>>
        BY <2>4 DEF Unpublish, Publish, Unlinked
    <3> QED
        BY <2>1, <3>1, Zenon DEF IInv, FlagsTyped
  <2> QED
      BY <2>2, <2>3, <2>4
<1>4. CheckoutTyped' /\ StageTyped'
    BY <1>1, SameStages DEF IInv, CheckoutTyped
<1>5. UNCHANGED <<helper, left, gone>>
    BY <1>1 DEF work
<1>6. Kept' /\ Needless'
    BY <1>1, <1>5, SameFiles DEF IInv, Needless, WorkTyped
<1> QED
    BY <1>1, <1>2, <1>3, <1>4, <1>6, SameWork DEF IInv
-----------------------------------------------------------------------------
(* The watcher, and the steps of the helper that leave the checkout or the  *)
(* stages as they are.                                                      *)
LEMMA SameCheckout ==
  ASSUME IInv, Busy, UNCHANGED retired, pending' \in BOOLEAN, gone' \in BOOLEAN
  PROVE  CheckoutTyped' /\ FlagsTyped'
<1>1. UNCHANGED <<dir, files, newest, writes, faults, checkouts>>
    BY DEF Busy, checkout, counts
<1>2. CheckoutTyped'
    BY <1>1 DEF IInv, CheckoutTyped
<1>3. UNCHANGED <<version, published>>
    BY DEF Busy, checkout
<1>4. FlagsTyped'
    BY <1>1, <1>3, Zenon DEF IInv, FlagsTyped
<1> QED
    BY <1>2, <1>4

LEMMA SameStage ==
  ASSUME IInv, UNCHANGED <<stage, writes>>
  PROVE  /\ StageTyped' /\ Unmade' /\ OneStage'
         /\ \A s \in Stages : Bare(s)' <=> Bare(s)
<1>1. \A s \in Stages : Bare(s)' <=> Bare(s)
    BY DEF Bare
<1>2. Unmade' /\ OneStage'
    BY <1>1 DEF IInv, Unmade, OneStage
<1>3. StageTyped'
    BY SameStages DEF IInv, CheckoutTyped
<1> QED
    BY <1>1, <1>2, <1>3

LEMMA FlagsAreBoolean ==
  ASSUME IInv
  PROVE  /\ pending \in BOOLEAN /\ gone \in BOOLEAN /\ retired \in BOOLEAN
         /\ (pending \/ watcher = "recovering") \in BOOLEAN
  BY Zenon DEF IInv, FlagsTyped

LEMMA ScanStartsKeeps == ASSUME IInv, ScanStarts PROVE IInv'
<1>1. /\ watcher = "sleeping" /\ todo' = Made /\ helper = "idle"
      /\ watcher' = IF Made = {} THEN "scanning" ELSE "recovering"
      /\ UNCHANGED <<stage, helper, mine, expected, left>>
    BY DEF ScanStarts, work, IInv, Visits
<1>2. UNCHANGED <<dir, files, newest, stage, writes>> /\ Busy
    BY DEF ScanStarts, Busy, checkout, counts
<1>3. CheckoutTyped' /\ FlagsTyped'
  <2>1. UNCHANGED <<retired, gone>> /\ pending' = FALSE
      BY DEF ScanStarts, work
  <2> QED
      BY <1>2, <2>1, SameCheckout, FlagsAreBoolean
<1>4. StageTyped' /\ Unmade' /\ OneStage' /\ \A s \in Stages : Bare(s)' <=> Bare(s)
    BY <1>2, SameStage
<1>5. \A s \in Stages : Bare(s) \/ s \in Made
    BY DEF IInv, Unmade, Bare, NoStage, Absent, Made
<1>6. WorkTyped' /\ AtWork'
    BY <1>1 DEF IInv, WorkTyped, AtWork, Made
<1>7. AllElseBare' /\ OwnStage' /\ Visited' /\ OldIsWhole' /\ Visits'
    BY <1>1, <1>4, <1>5 DEF AllElseBare, OwnStage, Visited, OldIsWhole, Visits, Removals, Filling
<1>8. Kept' /\ Needless'
    BY <1>1, <1>2, SameFiles DEF Needless
<1> QED
    BY <1>3, <1>4, <1>6, <1>7, <1>8 DEF IInv

LEMMA RecoverNextKeeps == ASSUME IInv, NEW s \in Stages, RecoverNext(s) PROVE IInv'
<1>1. /\ watcher = "recovering" /\ helper = "idle" /\ s \in todo /\ todo' = todo \ {s}
      /\ mine' = s /\ helper' = "recover"
      /\ UNCHANGED <<stage, watcher, expected, left>>
    BY DEF RecoverNext
<1>2. UNCHANGED <<dir, files, newest, stage, writes>> /\ Busy
    BY DEF RecoverNext, Busy, checkout, counts
<1>3. UNCHANGED <<retired, gone, pending>>
    BY DEF RecoverNext
<1>4. CheckoutTyped' /\ FlagsTyped'
    BY <1>2, <1>3, SameCheckout, FlagsAreBoolean
<1>5. StageTyped' /\ Unmade' /\ OneStage' /\ \A t \in Stages : Bare(t)' <=> Bare(t)
    BY <1>2, SameStage
<1>6. WorkTyped' /\ AtWork'
    BY <1>1 DEF IInv, WorkTyped, AtWork, Helpers
<1>7. AllElseBare' /\ OwnStage' /\ OldIsWhole' /\ Visits'
    BY <1>1, <1>5 DEF AllElseBare, OwnStage, OldIsWhole, Visits, Removals, Filling
<1>8. Visited'
    BY <1>1, <1>3, <1>5 DEF IInv, Visited
<1>9. Kept' /\ Needless'
    BY <1>1, <1>2, SameFiles DEF Needless
<1> QED
    BY <1>4, <1>5, <1>6, <1>7, <1>8, <1>9 DEF IInv

(* A scan begins with every stage bare, or with one pending.                *)
LEMMA RecoveryEndsKeeps == ASSUME IInv, RecoveryEnds PROVE IInv'
<1>1. /\ watcher = "recovering" /\ helper = "idle" /\ todo = {} /\ watcher' = "scanning"
      /\ UNCHANGED <<stage, todo, helper, mine, expected, left>>
    BY DEF RecoveryEnds, work
<1>2. UNCHANGED <<dir, files, newest, stage, writes>> /\ Busy
    BY DEF RecoveryEnds, Busy, checkout, counts
<1>3. UNCHANGED <<retired, gone, pending>>
    BY DEF RecoveryEnds, work
<1>4. CheckoutTyped' /\ FlagsTyped'
    BY <1>2, <1>3, SameCheckout, FlagsAreBoolean
<1>5. StageTyped' /\ Unmade' /\ OneStage' /\ \A t \in Stages : Bare(t)' <=> Bare(t)
    BY <1>2, SameStage
<1>6. WorkTyped' /\ AtWork'
    BY <1>1 DEF IInv, WorkTyped, AtWork
<1>7. AllElseBare' /\ OwnStage' /\ Visited' /\ Visits'
    BY <1>1 DEF IInv, AllElseBare, OwnStage, Visited, Visits, Removals, Filling
<1>8. OldIsWhole'
    BY <1>1, <1>3, <1>5 DEF IInv, Visited, OldIsWhole
<1>9. Kept' /\ Needless'
    BY <1>1, <1>2, SameFiles DEF Needless
<1> QED
    BY <1>4, <1>5, <1>6, <1>7, <1>8, <1>9 DEF IInv

LEMMA ScanEndsKeeps == ASSUME IInv, ScanEnds PROVE IInv'
<1>1. /\ watcher = "scanning" /\ helper = "idle" /\ watcher' = "sleeping"
      /\ UNCHANGED <<stage, todo, helper, mine, expected, left>>
    BY DEF ScanEnds, work
<1>2. UNCHANGED <<dir, files, newest, stage, writes>> /\ Busy
    BY DEF ScanEnds, Busy, checkout, counts
<1>3. UNCHANGED <<retired, gone, pending>>
    BY DEF ScanEnds, work
<1>4. CheckoutTyped' /\ FlagsTyped'
    BY <1>2, <1>3, SameCheckout, FlagsAreBoolean
<1>5. StageTyped' /\ Unmade' /\ OneStage'
    BY <1>2, SameStage
<1>6. WorkTyped' /\ AtWork'
    BY <1>1 DEF IInv, WorkTyped, AtWork
<1>7. AllElseBare' /\ OwnStage' /\ Visited' /\ OldIsWhole' /\ Visits'
    BY <1>1 DEF AllElseBare, OwnStage, Visited, OldIsWhole, Visits, Removals, Filling
<1>8. Kept' /\ Needless'
    BY <1>1, <1>2, SameFiles DEF Needless
<1> QED
    BY <1>4, <1>5, <1>6, <1>7, <1>8 DEF IInv

(* The removal starts when every stage is bare: the copy is old.            *)
LEMMA CleanupStartsKeeps == ASSUME IInv, CleanupStarts PROVE IInv'
<1>1. /\ watcher = "scanning" /\ helper = "idle"
      /\ helper' \in {"version", "inventory"}
      /\ expected'.identity = dir /\ "identity" \in DOMAIN expected'
      /\ UNCHANGED <<stage, watcher, todo, mine, left>>
    BY DEF CleanupStarts, scan
<1>2. UNCHANGED <<dir, files, newest, stage, writes>> /\ Busy
    BY DEF CleanupStarts, Busy, checkout, counts
<1>3. UNCHANGED <<retired, gone, pending>>
    BY DEF CleanupStarts, scan
<1>4. CheckoutTyped' /\ FlagsTyped'
    BY <1>2, <1>3, SameCheckout, FlagsAreBoolean
<1>5. StageTyped' /\ Unmade' /\ OneStage' /\ \A t \in Stages : Bare(t)' <=> Bare(t)
    BY <1>2, SameStage
<1>6. WorkTyped' /\ AtWork'
    BY <1>1 DEF IInv, WorkTyped, AtWork, CheckoutTyped, Helpers
<1>7. \A s \in Stages : Bare(s)
    BY DEF CleanupStarts, IInv, OldIsWhole
<1>8. AllElseBare' /\ OldIsWhole'
    BY <1>1, <1>5, <1>7 DEF AllElseBare, OldIsWhole
<1>9. OwnStage' /\ Visited'
    BY <1>1 DEF OwnStage, Visited, Filling, CleanupStarts
<1>10. Visits'
    BY <1>1 DEF IInv, Visits
<1>11. Kept' /\ Needless'
    BY <1>1, <1>2, SameFiles DEF Needless
<1> QED
    BY <1>4, <1>5, <1>6, <1>8, <1>9, <1>10, <1>11 DEF IInv
-----------------------------------------------------------------------------
(* The removal.                                                             *)
LEMMA RemoveVersionKeeps == ASSUME IInv, RemoveVersion PROVE IInv'
<1>1. /\ helper = "version" /\ helper' \in {"inventory", "idle"}
      /\ UNCHANGED <<dir, files, newest, stage, watcher, todo, mine, expected, left, writes, faults,
                     checkouts>>
    BY DEF RemoveVersion, HelperTo, scan, counts
<1>2. UNCHANGED <<published, retired, gone, pending>>
    BY DEF RemoveVersion, HelperTo, scan
<1>3. FlagsTyped'
  <2>1. version' = FALSE \/ version' = version
      BY DEF RemoveVersion
  <2>2. UNCHANGED dir
      BY <1>1
  <2>3. CASE version' = FALSE
      BY <1>2, <2>3, Zenon DEF IInv, FlagsTyped
  <2>4. CASE version' = version
      BY <1>2, <2>2, <2>4, Zenon DEF IInv, FlagsTyped
  <2> QED
      BY <2>1, <2>3, <2>4
<1>4. CheckoutTyped' /\ StageTyped' /\ Unmade' /\ OneStage' /\ \A t \in Stages : Bare(t)' <=> Bare(t)
    BY <1>1, SameStage DEF IInv, CheckoutTyped
<1>5. WorkTyped' /\ AtWork' /\ Visits'
    BY <1>1 DEF IInv, WorkTyped, AtWork, Visits, Helpers
<1>6. \A t \in Stages : Bare(t)
    BY <1>1 DEF IInv, AllElseBare, Removals, Filling
<1>7. AllElseBare' /\ Visited' /\ OldIsWhole'
    BY <1>1, <1>4, <1>6 DEF IInv, AllElseBare, Visited, OldIsWhole, Removals, Filling
<1>8. OwnStage'
    BY <1>1 DEF IInv, OwnStage, Removals, Filling
<1>9. Kept' /\ Needless'
    BY <1>1, SameFiles DEF Needless
<1> QED
    BY <1>3, <1>4, <1>5, <1>7, <1>8, <1>9 DEF IInv

LEMMA InventoryKeeps == ASSUME IInv, Inventory PROVE IInv'
<1>1. /\ helper = "inventory" /\ helper' \in {"staging", "idle"}
      /\ UNCHANGED <<stage, watcher, todo, mine, left>>
    BY DEF Inventory, HelperTo, scan
<1>2. expected'.identity = expected.identity /\ DOMAIN expected' = DOMAIN expected
    BY DEF Inventory, IInv, WorkTyped
<1>3. UNCHANGED <<dir, files, newest, stage, writes>> /\ Busy
    BY DEF Inventory, Busy, checkout, counts
<1>4. UNCHANGED <<retired, gone, pending>>
    BY DEF Inventory, HelperTo, scan
<1>5. CheckoutTyped' /\ FlagsTyped'
    BY <1>3, <1>4, SameCheckout, FlagsAreBoolean
<1>6. StageTyped' /\ Unmade' /\ OneStage' /\ \A t \in Stages : Bare(t)' <=> Bare(t)
    BY <1>3, SameStage
<1>7. WorkTyped' /\ AtWork' /\ Visits'
    BY <1>1, <1>2 DEF IInv, WorkTyped, AtWork, Visits, Helpers
<1>8. \A t \in Stages : Bare(t)
    BY <1>1 DEF IInv, AllElseBare, Removals, Filling
<1>9. AllElseBare' /\ Visited' /\ OldIsWhole'
    BY <1>1, <1>6, <1>8 DEF IInv, AllElseBare, Visited, OldIsWhole, Removals, Filling
<1>10. OwnStage'
    BY <1>1, <1>2 DEF IInv, OwnStage, Removals, Filling
<1>11. Kept' /\ Needless'
    BY <1>1, <1>3, SameFiles DEF Needless
<1> QED
    BY <1>5, <1>6, <1>7, <1>9, <1>10, <1>11 DEF IInv

(* What a step writes into one stage and nobody else's.                     *)
OnlyStage(m) == \A s \in Stages : s # m => stage'[s] = stage[s]

StageType ==
  [journal : BOOLEAN, identity : Identities \cup {0}, files : [Names -> 0..writes],
   removed : BOOLEAN, made : BOOLEAN]

(* Its files stay where they are, or some are taken out.                    *)
Emptied(m) == \A n \in Names : stage'[m].files[n] \in {0, stage[m].files[n]}

LEMMA StageEmptied ==
  ASSUME IInv, NEW m \in Stages, OnlyStage(m), Emptied(m), UNCHANGED writes,
         stage' \in [Stages -> StageType],
         (stage'[m].journal /\ stage'[m].identity # 0) \/ Bare(m)',
         ~stage'[m].made => stage'[m] = NoStage
  PROVE  /\ StageTyped' /\ Unmade' /\ OneStage'
         /\ \A s \in Stages : Bare(s) => Bare(s)'
         /\ \A s \in Stages : s # m => (Bare(s)' <=> Bare(s))
<1>1. /\ \A s \in Stages : Bare(s) => Bare(s)'
      /\ \A s \in Stages : s # m => (Bare(s)' <=> Bare(s))
    BY DEF OnlyStage, Emptied, Bare
<1>2. OneStage'
    BY <1>1 DEF IInv, OneStage
<1>3. Unmade'
    BY DEF IInv, Unmade, OnlyStage, NoStage, Absent
<1>4. StageTyped'
    BY <1>1 DEF IInv, StageTyped, StageType, OnlyStage
<1> QED
    BY <1>1, <1>2, <1>3, <1>4

LEMMA MakeStageKeeps == ASSUME IInv, NEW s \in Stages, MakeStage(s) PROVE IInv'
<1>1. /\ helper = "staging" /\ helper' = "journal" /\ mine' = s /\ s \notin Made
      /\ stage' = [stage EXCEPT ![s].made = TRUE]
      /\ UNCHANGED <<watcher, todo, expected, left>>
    BY DEF MakeStage, HelperTo, scan
<1>2. UNCHANGED <<dir, files, newest, writes>> /\ Busy
    BY DEF MakeStage, Busy, checkout, counts
<1>3. UNCHANGED <<retired, gone, pending>>
    BY DEF MakeStage, HelperTo, scan
<1>4. CheckoutTyped' /\ FlagsTyped'
    BY <1>2, <1>3, SameCheckout, FlagsAreBoolean
<1>5. stage[s] = NoStage
    BY <1>1 DEF IInv, Unmade, Made
<1>5a. Bare(s) /\ ~stage[s].removed
    BY <1>5 DEF Bare, NoStage, Absent
<1>6. /\ stage' \in [Stages -> StageType] /\ OnlyStage(s)
      /\ stage'[s].files = stage[s].files /\ stage'[s].made /\ ~stage'[s].removed
  <2>1. stage \in [Stages -> StageType]
      BY DEF IInv, StageTyped, StageType
  <2>2. stage' \in [Stages -> StageType] /\ OnlyStage(s)
      BY <1>1, <2>1 DEF StageType, OnlyStage
  <2>3. stage'[s].files = stage[s].files /\ stage'[s].made /\ stage'[s].removed = stage[s].removed
      BY <1>1, <2>1 DEF StageType
  <2> QED
      BY <1>5a, <2>2, <2>3
<1>7. Emptied(s) /\ Bare(s)'
    BY <1>5a, <1>6 DEF Emptied, Bare
<1>8. StageTyped' /\ Unmade' /\ OneStage' /\ \A t \in Stages : Bare(t) => Bare(t)'
    BY <1>2, <1>6, <1>7, StageEmptied
<1>9. \A t \in Stages : Bare(t)'
    BY <1>1, <1>8 DEF IInv, AllElseBare, Removals, Filling
<1>10. WorkTyped' /\ AtWork' /\ Visits'
  <2>1. \A t \in Stages : stage[t].made => stage'[t].made
      BY <1>6 DEF OnlyStage
  <2>2. todo = {} /\ watcher = "scanning"
      BY <1>1 DEF IInv, AllElseBare, Visits, Removals
  <2> QED
      BY <1>1, <1>6, <2>1, <2>2 DEF IInv, WorkTyped, AtWork, Visits, Helpers
<1>11. AllElseBare' /\ Visited' /\ OldIsWhole'
    BY <1>1, <1>9 DEF IInv, AllElseBare, Visited, OldIsWhole, Removals, Filling
<1>12. OwnStage'
    BY <1>1, <1>6 DEF IInv, OwnStage, Removals, Filling
<1>13. Kept'
    BY <1>2, <1>5a, <1>6 DEF IInv, Kept, HeldFor, OnlyStage, Bare
<1>14. Needless'
    BY <1>1 DEF Needless
<1> QED
    BY <1>4, <1>8, <1>10, <1>11, <1>12, <1>13, <1>14 DEF IInv

LEMMA WriteJournalKeeps == ASSUME IInv, WriteJournal PROVE IInv'
<1>1. /\ helper = "journal" /\ helper' = "moving" /\ left' = Present(expected.files)
      /\ stage' = [stage EXCEPT ![mine].journal = TRUE, ![mine].identity = expected.identity]
      /\ UNCHANGED <<watcher, todo, mine, expected>>
    BY DEF WriteJournal, HelperTo, scan
<1>2. UNCHANGED <<dir, files, newest, writes>> /\ Busy
    BY DEF WriteJournal, Busy, checkout, counts
<1>3. UNCHANGED <<retired, gone, pending>>
    BY DEF WriteJournal, HelperTo, scan
<1>4. CheckoutTyped' /\ FlagsTyped'
    BY <1>2, <1>3, SameCheckout, FlagsAreBoolean
<1>5. mine \in Stages /\ stage[mine].made /\ ~stage[mine].removed /\ expected.identity # 0
    BY <1>1 DEF IInv, AtWork, OwnStage, Helpers, Removals
<1>6. /\ stage' \in [Stages -> StageType] /\ OnlyStage(mine)
      /\ stage'[mine].files = stage[mine].files /\ stage'[mine].made
      /\ ~stage'[mine].removed /\ stage'[mine].journal
      /\ stage'[mine].identity = expected.identity
  <2>1. stage \in [Stages -> StageType] /\ expected.identity \in Identities \cup {0}
      BY DEF IInv, StageTyped, StageType, WorkTyped
  <2>2. stage' \in [Stages -> StageType] /\ OnlyStage(mine)
      BY <1>1, <1>5, <2>1 DEF StageType, OnlyStage
  <2>3. /\ stage'[mine].files = stage[mine].files /\ stage'[mine].made = stage[mine].made
        /\ stage'[mine].removed = stage[mine].removed /\ stage'[mine].journal
        /\ stage'[mine].identity = expected.identity
      BY <1>1, <1>5, <2>1 DEF StageType
  <2> QED
      BY <1>5, <2>2, <2>3
<1>7. \A t \in Stages : Bare(t)
    BY <1>1 DEF IInv, AllElseBare, Removals, Filling
<1>8. Emptied(mine) /\ Bare(mine)'
    BY <1>1, <1>5, <1>6, <1>7 DEF Emptied, Bare
<1>9. StageTyped' /\ Unmade' /\ OneStage' /\ \A t \in Stages : Bare(t)'
    BY <1>2, <1>5, <1>6, <1>7, <1>8, StageEmptied
<1>10. WorkTyped' /\ AtWork' /\ Visits'
  <2>1. todo = {} /\ watcher = "scanning"
      BY <1>1 DEF IInv, AllElseBare, Visits, Removals
  <2> QED
      BY <1>1, <1>5, <1>6, <2>1 DEF IInv, WorkTyped, AtWork, Visits, Helpers, Present
<1>11. AllElseBare' /\ Visited' /\ OldIsWhole'
    BY <1>1, <1>9 DEF IInv, AllElseBare, Visited, OldIsWhole, Removals, Filling
<1>12. OwnStage'
  <2>1. left' \subseteq Names /\ mine' = mine /\ expected'.identity = expected.identity
      BY <1>1 DEF Present
  <2>2. \A n \in left' : stage'[mine'].files[n] = 0
      BY <1>8, <2>1 DEF Bare
  <2> QED
      BY <1>1, <1>5, <1>6, <2>1, <2>2 DEF OwnStage
<1>13. Kept'
    BY <1>2, <1>7 DEF IInv, Kept, HeldFor, Bare
<1>14. Needless'
    BY <1>1 DEF Needless
<1> QED
    BY <1>4, <1>9, <1>10, <1>11, <1>12, <1>13, <1>14 DEF IInv

LEMMA AllMovedKeeps == ASSUME IInv, AllMoved PROVE IInv'
<1>1. /\ helper = "moving" /\ helper' \in {"recover", "removing"}
      /\ UNCHANGED <<stage, watcher, todo, mine, expected, left>>
    BY DEF AllMoved, HelperTo, scan
<1>2. UNCHANGED <<dir, files, newest, stage, writes>> /\ Busy
    BY DEF AllMoved, Busy, checkout, counts
<1>3. UNCHANGED <<retired, gone, pending>>
    BY DEF AllMoved, HelperTo, scan
<1>4. CheckoutTyped' /\ FlagsTyped'
    BY <1>2, <1>3, SameCheckout, FlagsAreBoolean
<1>5. StageTyped' /\ Unmade' /\ OneStage' /\ \A t \in Stages : Bare(t)' <=> Bare(t)
    BY <1>2, SameStage
<1>6. WorkTyped' /\ AtWork' /\ Visits'
    BY <1>1 DEF IInv, WorkTyped, AtWork, Visits, Helpers
<1>7. AllElseBare' /\ OwnStage'
    BY <1>1, <1>5 DEF IInv, AllElseBare, OwnStage, Removals, Filling
<1>8. Visited' /\ OldIsWhole'
    BY <1>1, <1>3, <1>5 DEF IInv, AllElseBare, Visited, OldIsWhole, Removals, Filling
<1>9. Kept' /\ Needless'
    BY <1>1, <1>2, SameFiles DEF Needless
<1> QED
    BY <1>4, <1>5, <1>6, <1>7, <1>8, <1>9 DEF IInv

LEMMA RemoveDirectoryKeeps == ASSUME IInv, RemoveDirectory PROVE IInv'
<1>1. /\ helper = "removing" /\ helper' \in {"marking", "recover"}
      /\ UNCHANGED <<stage, watcher, todo, mine, expected, left, writes, faults, checkouts>>
    BY DEF RemoveDirectory, HelperTo, scan, counts
<1>2. \/ dir # 0 /\ files = Absent /\ dir' = 0 /\ newest' = Absent /\ UNCHANGED files
      \/ helper' = "recover" /\ UNCHANGED <<dir, newest, files>>
    BY DEF RemoveDirectory, HelperTo
<1>3. UNCHANGED <<published, gone, pending>>
    BY DEF RemoveDirectory, HelperTo, scan
<1>4. FlagsTyped' /\ (retired' => retired)
  <2>1. CASE ~version /\ retired' = FALSE /\ UNCHANGED version
      BY <1>3, <2>1, Zenon DEF IInv, FlagsTyped
  <2>2. CASE UNCHANGED <<dir, version, retired>>
      BY <1>3, <2>2, Zenon DEF IInv, FlagsTyped
  <2> QED
      BY <2>1, <2>2 DEF RemoveDirectory
<1>5. CheckoutTyped'
    BY <1>1, <1>2 DEF IInv, CheckoutTyped, Absent
<1>6. StageTyped' /\ Unmade' /\ OneStage' /\ \A t \in Stages : Bare(t)' <=> Bare(t)
    BY <1>1, SameStage
<1>7. WorkTyped' /\ AtWork' /\ Visits'
    BY <1>1 DEF IInv, WorkTyped, AtWork, Visits, Helpers
<1>8. AllElseBare' /\ OwnStage'
    BY <1>1, <1>6 DEF IInv, AllElseBare, OwnStage, Removals, Filling
<1>9. Visited'
    BY <1>1 DEF IInv, AllElseBare, Visited, Removals, Filling
<1>10. OldIsWhole'
    BY <1>1, <1>3, <1>4, <1>6 DEF IInv, OldIsWhole
<1>11. Kept' /\ Needless'
  <2>1. CASE newest' = Absent
      BY <1>7, <2>1, NoneWritten DEF Absent
  <2>2. CASE helper' = "recover" /\ UNCHANGED <<dir, newest, files>>
      BY <1>1, <2>2, SameFiles DEF Needless
  <2> QED
      BY <1>2, <2>1, <2>2
<1> QED
    BY <1>4, <1>5, <1>6, <1>7, <1>8, <1>9, <1>10, <1>11 DEF IInv

(* One file of a stage is written.                                          *)
Filed(m, n, x) == stage' = [stage EXCEPT ![m].files[n] = x]

LEMMA StageFile ==
  ASSUME IInv, NEW m \in Stages, NEW n \in Names, NEW x \in 0..writes, Filed(m, n, x)
  PROVE  /\ stage' \in [Stages -> StageType] /\ OnlyStage(m)
         /\ stage'[m].files[n] = x
         /\ \A k \in Names : k # n => stage'[m].files[k] = stage[m].files[k]
         /\ stage'[m].journal = stage[m].journal /\ stage'[m].identity = stage[m].identity
         /\ stage'[m].removed = stage[m].removed /\ stage'[m].made = stage[m].made
<1>1. stage \in [Stages -> StageType]
    BY DEF IInv, StageTyped, StageType
<1> DEFINE r == [stage[m] EXCEPT !.files[n] = x]
<1>2. r \in StageType
    BY <1>1 DEF StageType
<1>3. /\ r.files[n] = x /\ \A k \in Names : k # n => r.files[k] = stage[m].files[k]
      /\ r.journal = stage[m].journal /\ r.identity = stage[m].identity
      /\ r.removed = stage[m].removed /\ r.made = stage[m].made
    BY <1>1 DEF StageType
<1>4. stage' = [stage EXCEPT ![m] = r]
    BY DEF Filed
<1> HIDE DEF r
<1>5. stage' \in [Stages -> StageType] /\ OnlyStage(m) /\ stage'[m] = r
    BY <1>1, <1>2, <1>4 DEF OnlyStage
<1> QED
    BY <1>3, <1>5

LEMMA MoveKeeps == ASSUME IInv, NEW n \in Names, Move(n) PROVE IInv'
<1>1. /\ helper = "moving" /\ helper' \in {"moving", "recover"} /\ n \in left
      /\ left' = left \ {n}
      /\ UNCHANGED <<dir, newest, watcher, todo, mine, expected, writes, faults, checkouts>>
    BY DEF Move, HelperTo, scan, counts
<1>2. UNCHANGED <<version, published, gone, pending>>
    BY DEF Move, HelperTo, scan
<1>3. \/ /\ dir = expected.identity /\ files[n] # 0
         /\ stage' = [stage EXCEPT ![mine].files[n] = files[n]]
         /\ files' = [files EXCEPT ![n] = 0]
      \/ helper' = "recover" /\ UNCHANGED <<stage, files>>
    BY DEF Move, HelperTo
<1>4. retired' = FALSE \/ UNCHANGED <<retired, stage>>
    BY DEF Move
<1>5. FlagsTyped'
  <2>1. UNCHANGED dir
      BY <1>1
  <2>2. CASE retired' = FALSE
      BY <1>2, <2>1, <2>2, Zenon DEF IInv, FlagsTyped
  <2>3. CASE UNCHANGED retired
      BY <1>2, <2>1, <2>3, Zenon DEF IInv, FlagsTyped
  <2> QED
      BY <1>4, <2>2, <2>3
<1>6. mine \in Stages /\ stage[mine].made /\ watcher = "scanning" /\ todo = {}
    BY <1>1 DEF IInv, AtWork, AllElseBare, Visits, Helpers, Removals, Filling
<1>7. \A t \in Stages : Bare(t) \/ t = mine
    BY <1>1 DEF IInv, AllElseBare, Removals, Filling
<1>8. /\ stage[mine].journal /\ ~stage[mine].removed /\ stage[mine].identity = expected.identity
      /\ expected.identity # 0
      /\ \A k \in left : stage[mine].files[k] = 0
    BY <1>1 DEF IInv, OwnStage, Removals, Filling
<1>9. OldIsWhole'
  <2>1. CASE retired' = FALSE
      BY <2>1 DEF OldIsWhole
  <2>2. CASE UNCHANGED <<retired, stage>>
      BY <1>1, <1>2, <2>2 DEF IInv, OldIsWhole, Bare
  <2> QED
      BY <1>4, <2>1, <2>2
<1>10. Visited' /\ Needless'
    BY <1>1, <1>6 DEF Visited, Needless
<1>11. CASE helper' = "recover" /\ UNCHANGED <<stage, files>>
  <2>1. CheckoutTyped'
      BY <1>1, <1>11 DEF IInv, CheckoutTyped
  <2>2. StageTyped' /\ Unmade' /\ OneStage'
      BY <1>1, <1>11, SameStage
  <2>3. WorkTyped' /\ AtWork' /\ Visits'
      BY <1>1, <1>11 DEF IInv, WorkTyped, AtWork, Visits, Helpers
  <2>4. AllElseBare' /\ OwnStage'
      BY <1>11 DEF AllElseBare, OwnStage, Removals, Filling
  <2>5. Kept'
      BY <1>1, <1>11, SameFiles
  <2> QED
      BY <1>5, <1>9, <1>10, <2>1, <2>2, <2>3, <2>4, <2>5 DEF IInv
<1>12. CASE /\ dir = expected.identity /\ files[n] # 0
            /\ stage' = [stage EXCEPT ![mine].files[n] = files[n]]
            /\ files' = [files EXCEPT ![n] = 0]
  <2>1. /\ stage' \in [Stages -> StageType] /\ OnlyStage(mine)
        /\ stage'[mine].files[n] = files[n]
        /\ \A k \in Names : k # n => stage'[mine].files[k] = stage[mine].files[k]
        /\ stage'[mine].journal /\ ~stage'[mine].removed /\ stage'[mine].made
        /\ stage'[mine].identity = expected.identity
    <3>1. files[n] \in 0..writes
        BY DEF IInv, CheckoutTyped
    <3>2. /\ stage' \in [Stages -> StageType] /\ OnlyStage(mine)
          /\ stage'[mine].files[n] = files[n]
          /\ \A k \in Names : k # n => stage'[mine].files[k] = stage[mine].files[k]
          /\ stage'[mine].journal = stage[mine].journal
          /\ stage'[mine].identity = stage[mine].identity
          /\ stage'[mine].removed = stage[mine].removed /\ stage'[mine].made = stage[mine].made
      <4> DEFINE x == files[n]
      <4>1. x \in 0..writes /\ Filed(mine, n, x)
          BY <1>12, <3>1 DEF Filed
      <4> HIDE DEF x
      <4>2. /\ stage' \in [Stages -> StageType] /\ OnlyStage(mine)
            /\ stage'[mine].files[n] = x
          BY <1>6, <4>1, StageFile
      <4>3. \A k \in Names : k # n => stage'[mine].files[k] = stage[mine].files[k]
          BY <1>6, <4>1, StageFile
      <4>4. /\ stage'[mine].journal = stage[mine].journal
          /\ stage'[mine].identity = stage[mine].identity
          /\ stage'[mine].removed = stage[mine].removed /\ stage'[mine].made = stage[mine].made
          BY <1>6, <4>1, StageFile
      <4> QED
          BY <4>2, <4>3, <4>4 DEF x
    <3> QED
        BY <1>6, <1>8, <3>2
  <2>2. files'[n] = 0 /\ \A k \in Names : k # n => files'[k] = files[k]
      BY <1>12 DEF IInv, CheckoutTyped
  <2>3. \A t \in Stages : t # mine => Bare(t)' /\ stage'[t] = stage[t]
      BY <1>7, <2>1 DEF OnlyStage, Bare
  <2>4. CheckoutTyped'
    <3>1. files' \in [Names -> 0..writes]
        BY <1>12 DEF IInv, CheckoutTyped
    <3>2. dir # 0
        BY <1>12 DEF IInv, CheckoutTyped, Absent
    <3> QED
        BY <1>1, <3>1, <3>2 DEF IInv, CheckoutTyped
  <2>5. StageTyped' /\ Unmade' /\ OneStage'
    <3>1. StageTyped'
        BY <1>1, <1>8, <2>1, <2>3 DEF StageTyped, StageType
    <3>2. Unmade'
        BY <2>1, <2>3 DEF IInv, Unmade
    <3>3. OneStage'
        BY <2>3 DEF OneStage
    <3> QED
        BY <3>1, <3>2, <3>3
  <2>6. WorkTyped' /\ AtWork' /\ Visits'
      BY <1>1, <1>6, <2>1 DEF IInv, WorkTyped, AtWork, Visits, Helpers
  <2>7. AllElseBare'
      BY <1>1, <1>6, <2>3 DEF AllElseBare, Removals, Filling
  <2>8. OwnStage'
      BY <1>1, <1>8, <2>1 DEF OwnStage, IInv, WorkTyped
  <2>9. Kept'
    <3> SUFFICES ASSUME NEW k \in Names, newest'[k] # 0
                 PROVE  files'[k] = newest'[k]
                        \/ (files'[k] = 0 /\ \E s \in Stages : HeldFor(k, s)')
        BY DEF Kept
    <3>1. newest[k] # 0 /\ (files[k] = newest[k]
                             \/ (files[k] = 0 /\ \E s \in Stages : HeldFor(k, s)))
        BY <1>1 DEF IInv, Kept
    <3>2. CASE k = n
      <4>1. files[k] = newest[k] /\ UNCHANGED <<dir, newest, mine>>
          BY <1>1, <1>12, <3>1, <3>2
      <4>2. HeldFor(k, mine)'
          BY <1>12, <2>1, <3>2, <4>1 DEF HeldFor
      <4> QED
          BY <1>1, <1>6, <2>2, <3>2, <4>2
    <3>3. CASE k # n
      <4>1. \A s \in Stages : HeldFor(k, s) => HeldFor(k, s)'
          BY <1>1, <1>12, <2>1, <2>3, <3>3 DEF HeldFor
      <4> QED
          BY <1>1, <2>2, <3>1, <3>3, <4>1
    <3> QED
        BY <3>2, <3>3
  <2> QED
      BY <1>5, <1>9, <1>10, <2>4, <2>5, <2>6, <2>7, <2>8, <2>9 DEF IInv
<1> QED
    BY <1>3, <1>11, <1>12

LEMMA MarkRemovedKeeps == ASSUME IInv, MarkRemoved PROVE IInv'
<1>1. /\ helper = "marking" /\ helper' = "recover"
      /\ stage' = [stage EXCEPT ![mine].removed = TRUE]
      /\ UNCHANGED <<watcher, todo, mine, expected, left>>
    BY DEF MarkRemoved, HelperTo, scan
<1>2. UNCHANGED <<dir, files, newest, writes>> /\ Busy
    BY DEF MarkRemoved, Busy, checkout, counts
<1>3. UNCHANGED <<retired, gone, pending>>
    BY DEF MarkRemoved, HelperTo, scan
<1>4. CheckoutTyped' /\ FlagsTyped'
    BY <1>2, <1>3, SameCheckout, FlagsAreBoolean
<1>5. /\ mine \in Stages /\ stage[mine].made /\ stage[mine].journal /\ watcher = "scanning"
      /\ stage[mine].identity # 0
    BY <1>1 DEF IInv, AtWork, OwnStage, AllElseBare, Helpers, Removals, Filling
<1>6. /\ stage' \in [Stages -> StageType] /\ OnlyStage(mine)
      /\ stage'[mine].files = stage[mine].files /\ stage'[mine].made /\ stage'[mine].journal
      /\ stage'[mine].identity # 0
  <2>1. stage \in [Stages -> StageType]
      BY DEF IInv, StageTyped, StageType
  <2>2. stage' \in [Stages -> StageType] /\ OnlyStage(mine)
      BY <1>1, <1>5, <2>1 DEF StageType, OnlyStage
  <2>3. /\ stage'[mine].files = stage[mine].files /\ stage'[mine].made = stage[mine].made
        /\ stage'[mine].journal = stage[mine].journal
        /\ stage'[mine].identity = stage[mine].identity
      BY <1>1, <1>5, <2>1 DEF StageType
  <2> QED
      BY <1>5, <2>2, <2>3
<1>7. Emptied(mine) /\ (Bare(mine) <=> Bare(mine)')
    BY <1>1, <1>5, <1>6 DEF Emptied, Bare
<1>8. StageTyped' /\ Unmade' /\ OneStage' /\ \A t \in Stages : Bare(t) => Bare(t)'
    BY <1>2, <1>5, <1>6, <1>7, StageEmptied
<1>9. WorkTyped' /\ AtWork' /\ Visits'
    BY <1>1, <1>5, <1>6 DEF IInv, WorkTyped, AtWork, Visits, Helpers, OnlyStage
<1>10. AllElseBare' /\ OwnStage' /\ Visited'
    BY <1>1, <1>5 DEF AllElseBare, OwnStage, Visited, Removals, Filling
<1>11. OldIsWhole'
    BY <1>1, <1>3, <1>8 DEF IInv, OldIsWhole
<1>12. \A n \in Names : InPlace(n)
    BY <1>1 DEF IInv, Needless
<1>13. Kept'
    BY <1>2, <1>12 DEF Kept, InPlace
<1>14. Needless'
    BY <1>1 DEF Needless
<1> QED
    BY <1>4, <1>8, <1>9, <1>10, <1>11, <1>13, <1>14 DEF IInv
-----------------------------------------------------------------------------
(* The recovery.                                                            *)
LEMMA FailsKeeps == ASSUME IInv, Fails PROVE IInv'
<1>1. /\ helper \in Filling /\ helper' = "recover" /\ faults' = faults + 1
      /\ UNCHANGED <<stage, watcher, todo, mine, expected, left, checkouts>>
    BY DEF Fails, HelperTo, scan, Filling
<1>2. UNCHANGED <<dir, files, newest, stage, writes>>
    BY DEF Fails, checkout
<1>3. UNCHANGED <<retired, gone, pending, version, published>>
    BY DEF Fails, HelperTo, scan, checkout
<1>4. CheckoutTyped'
    BY <1>1, <1>2 DEF IInv, CheckoutTyped
<1>5. FlagsTyped'
    BY <1>2, <1>3, Zenon DEF IInv, FlagsTyped
<1>6. StageTyped' /\ Unmade' /\ OneStage' /\ \A t \in Stages : Bare(t)' <=> Bare(t)
    BY <1>2, SameStage
<1>7. WorkTyped' /\ AtWork' /\ Visits'
    BY <1>1 DEF IInv, WorkTyped, AtWork, Visits, Helpers, Filling
<1>8. AllElseBare' /\ OwnStage'
    BY <1>1 DEF AllElseBare, OwnStage, Removals, Filling
<1>9. Visited' /\ OldIsWhole'
    BY <1>1, <1>3, <1>6 DEF IInv, AllElseBare, Visited, OldIsWhole, Removals, Filling
<1>10. Kept' /\ Needless'
    BY <1>1, <1>2, SameFiles DEF Needless
<1> QED
    BY <1>4, <1>5, <1>6, <1>7, <1>8, <1>9, <1>10 DEF IInv

LEMMA CrashKeeps == ASSUME IInv, Crash PROVE IInv'
<1>1. /\ helper' = "idle" /\ todo' = {} /\ faults' = faults + 1
      /\ UNCHANGED <<stage, watcher, mine, expected, left, checkouts>>
    BY DEF Crash
<1>2. UNCHANGED <<dir, files, newest, stage, writes>>
    BY DEF Crash, checkout
<1>3. UNCHANGED <<retired, gone, version, published>>
    BY DEF Crash, checkout
<1>4. pending' = (pending \/ watcher = "recovering")
    BY DEF Crash
<1>5. CheckoutTyped'
    BY <1>1, <1>2 DEF IInv, CheckoutTyped
<1>6. FlagsTyped'
    BY <1>2, <1>3, <1>4, FlagsAreBoolean, Zenon DEF IInv, FlagsTyped
<1>7. StageTyped' /\ Unmade' /\ OneStage' /\ \A t \in Stages : Bare(t)' <=> Bare(t)
    BY <1>2, SameStage
<1>8. WorkTyped' /\ AtWork' /\ Visits'
    BY <1>1 DEF IInv, WorkTyped, AtWork, Visits, Helpers
<1>9. AllElseBare' /\ OwnStage'
    BY <1>1 DEF AllElseBare, OwnStage, Removals, Filling
<1>10. Visited' /\ OldIsWhole'
    BY <1>1, <1>3, <1>4, <1>7 DEF IInv, Visited, OldIsWhole
<1>11. Kept' /\ Needless'
    BY <1>1, <1>2, SameFiles DEF Needless
<1> QED
    BY <1>5, <1>6, <1>7, <1>8, <1>9, <1>10, <1>11 DEF IInv

(* The stage of a directory that another one replaced stays.                *)
LEMMA DeferredKeeps ==
  ASSUME IInv, Deferred, Busy, UNCHANGED <<retired, mine, expected, left>>
  PROVE  IInv'
<1>1. helper' = "idle" /\ UNCHANGED <<stage, watcher, todo, mine, expected, left>>
    BY DEF Deferred
<1>2. UNCHANGED <<dir, files, newest, stage, writes>>
    BY DEF Deferred, Busy, checkout, counts
<1>3. UNCHANGED <<retired, gone>>
    BY DEF Deferred
<1>3a. pending' = (pending \/ watcher = "recovering")
    BY DEF Deferred
<1>4. CheckoutTyped' /\ FlagsTyped'
    BY <1>3, <1>3a, SameCheckout, FlagsAreBoolean
<1>5. StageTyped' /\ Unmade' /\ OneStage' /\ \A t \in Stages : Bare(t)' <=> Bare(t)
    BY <1>2, SameStage
<1>6. WorkTyped' /\ AtWork' /\ Visits'
    BY <1>1 DEF IInv, WorkTyped, AtWork, Visits, Helpers
<1>7. AllElseBare' /\ OwnStage'
    BY <1>1 DEF AllElseBare, OwnStage, Removals, Filling
<1>8. Visited' /\ OldIsWhole'
  <2>1. (watcher = "recovering" => pending') /\ (pending => pending') /\ (retired' => retired)
      BY Zenon DEF Deferred
  <2> QED
      BY <1>1, <1>5, <2>1 DEF IInv, Visited, OldIsWhole
<1>9. Kept' /\ Needless'
    BY <1>1, <1>2, SameFiles DEF Needless
<1> QED
    BY <1>4, <1>5, <1>6, <1>7, <1>8, <1>9 DEF IInv

(* An empty stage goes.                                                     *)
LEMMA DropKeeps ==
  ASSUME IInv, helper \in {"recover", "restoring"}, Staged = {}, Dropped, HelperTo("idle"),
         Busy, UNCHANGED <<retired, mine, expected, left>>
  PROVE  IInv'
<1>1. /\ helper' = "idle" /\ stage' = [stage EXCEPT ![mine] = NoStage]
      /\ UNCHANGED <<watcher, todo, mine, expected, left>>
    BY DEF Dropped, HelperTo, scan
<1>2. UNCHANGED <<dir, files, newest, writes>>
    BY DEF Busy, checkout, counts
<1>3. UNCHANGED <<retired, gone, pending>>
    BY DEF HelperTo, scan
<1>4. CheckoutTyped' /\ FlagsTyped'
    BY <1>3, SameCheckout, FlagsAreBoolean
<1>5. mine \in Stages /\ mine \notin todo /\ Bare(mine)
    BY DEF IInv, AtWork, Visits, Helpers, Staged, Present, Bare
<1>6. NoStage \in StageType /\ \A k \in Names : NoStage.files[k] = 0
    BY DEF StageType, NoStage, Absent, IInv, CheckoutTyped
<1>7. stage' \in [Stages -> StageType] /\ OnlyStage(mine) /\ stage'[mine] = NoStage
  <2>1. stage \in [Stages -> StageType]
      BY DEF IInv, StageTyped, StageType
  <2> HIDE DEF NoStage, StageType
  <2> QED
      BY <1>1, <1>5, <1>6, <2>1 DEF OnlyStage
<1>8. Emptied(mine) /\ Bare(mine)'
    BY <1>1, <1>6, <1>7 DEF Emptied, Bare
<1>9. StageTyped' /\ Unmade' /\ OneStage' /\ \A t \in Stages : Bare(t) => Bare(t)'
    BY <1>2, <1>5, <1>7, <1>8, StageEmptied
<1>10. WorkTyped' /\ AtWork' /\ Visits'
  <2>1. WorkTyped' /\ Visits'
      BY <1>1 DEF IInv, WorkTyped, Visits, Helpers
  <2>2. AtWork'
      BY <1>1, <1>5, <1>7 DEF IInv, AtWork, OnlyStage
  <2> QED
      BY <2>1, <2>2
<1>11. AllElseBare' /\ OwnStage'
    BY <1>1 DEF AllElseBare, OwnStage, Removals, Filling
<1>12. Visited' /\ OldIsWhole'
    BY <1>1, <1>3, <1>5, <1>9 DEF IInv, Visited, OldIsWhole
<1>13. Kept'
    BY <1>2, <1>5, <1>7 DEF IInv, Kept, HeldFor, OnlyStage, Bare
<1>14. Needless'
    BY <1>1 DEF Needless
<1> QED
    BY <1>4, <1>9, <1>10, <1>11, <1>12, <1>13, <1>14 DEF IInv

LEMMA RecoverKeeps == ASSUME IInv, Recover PROVE IInv'
<1>1. CASE Staged = {} /\ Dropped /\ HelperTo("idle")
    BY <1>1, DropKeeps DEF Recover
<1>2. CASE Staged # {} /\ Deferred
    BY <1>2, DeferredKeeps DEF Recover
<1>3. CASE /\ helper' = "restoring" /\ gone' = (stage[mine].removed \/ dir = 0)
           /\ UNCHANGED <<stage, scan>>
  <2>1. /\ helper = "recover" /\ helper' = "restoring" /\ Staged # {} /\ Busy
        /\ UNCHANGED <<stage, watcher, todo, mine, expected, left>>
      BY <1>3 DEF Recover, Dropped, Deferred, HelperTo, scan
  <2>2. UNCHANGED <<dir, files, newest, stage, writes>>
      BY <2>1 DEF Busy, checkout, counts
  <2>3. UNCHANGED <<retired, pending>>
      BY <1>3 DEF Recover, scan
  <2>4. CheckoutTyped' /\ FlagsTyped'
      BY <1>3, <2>1, <2>3, SameCheckout, FlagsAreBoolean
  <2>5. StageTyped' /\ Unmade' /\ OneStage' /\ \A t \in Stages : Bare(t)' <=> Bare(t)
      BY <2>2, SameStage
  <2>6. WorkTyped' /\ AtWork' /\ Visits'
      BY <2>1 DEF IInv, WorkTyped, AtWork, Visits, Helpers
  <2>7. AllElseBare' /\ OwnStage'
      BY <2>1 DEF AllElseBare, OwnStage, Removals, Filling
  <2>8. Visited' /\ OldIsWhole'
      BY <2>1, <2>3, <2>5 DEF IInv, Visited, OldIsWhole
  <2>9. mine \in Stages /\ ~Bare(mine)
      BY <2>1 DEF IInv, AtWork, Staged, Present, Bare, Helpers
  <2>10. stage[mine].removed \/ dir = 0 => \A n \in Names : InPlace(n)
    <3>1. CASE dir = 0
        BY <3>1 DEF IInv, CheckoutTyped, InPlace, Absent
    <3>2. CASE stage[mine].removed
      <4>1. \A n \in Names, s \in Stages : newest[n] # 0 => ~HeldFor(n, s)
          BY <2>9, <3>2 DEF IInv, OneStage, HeldFor, Bare
      <4> QED
          BY <4>1 DEF IInv, Kept, InPlace
    <3> QED
        BY <3>1, <3>2
  <2>11. gone' => \A n \in Names : InPlace(n)
      BY <1>3, <2>10
  <2>12. Kept' /\ Needless'
      BY <2>1, <2>2, <2>11, SameFiles DEF Needless
  <2> QED
      BY <2>4, <2>5, <2>6, <2>7, <2>8, <2>12 DEF IInv
<1> QED
    BY <1>1, <1>2, <1>3 DEF Recover

LEMMA RestoredKeeps == ASSUME IInv, Restored PROVE IInv'
  BY DropKeeps DEF Restored

LEMMA UnlinkKeeps == ASSUME IInv, NEW n \in Names, Unlink(n) PROVE IInv'
<1>1. /\ helper = "unlinking" /\ helper' = "restoring" /\ n \in left /\ left' = {}
      /\ stage' = [stage EXCEPT ![mine].files[n] = 0]
      /\ UNCHANGED <<watcher, todo, mine, expected>>
    BY DEF Unlink, HelperTo, scan
<1>2. UNCHANGED <<dir, files, newest, writes>> /\ Busy
    BY DEF Unlink, Busy, checkout, counts
<1>3. UNCHANGED <<retired, gone, pending>>
    BY DEF Unlink, HelperTo, scan
<1>4. CheckoutTyped' /\ FlagsTyped'
    BY <1>2, <1>3, SameCheckout, FlagsAreBoolean
<1>5. mine \in Stages /\ stage[mine].made /\ InPlace(n)
    BY <1>1 DEF IInv, AtWork, Helpers, Needless
<1>6. /\ stage' \in [Stages -> StageType] /\ OnlyStage(mine)
      /\ stage'[mine].files[n] = 0
      /\ \A k \in Names : k # n => stage'[mine].files[k] = stage[mine].files[k]
      /\ stage'[mine].journal = stage[mine].journal
      /\ stage'[mine].identity = stage[mine].identity
      /\ stage'[mine].removed = stage[mine].removed /\ stage'[mine].made = stage[mine].made
  <2>1. 0 \in 0..writes /\ Filed(mine, n, 0)
      BY <1>1 DEF IInv, CheckoutTyped, Filed
  <2>2. /\ stage' \in [Stages -> StageType] /\ OnlyStage(mine)
        /\ stage'[mine].files[n] = 0
      BY <1>5, <2>1, StageFile
  <2>3. \A k \in Names : k # n => stage'[mine].files[k] = stage[mine].files[k]
      BY <1>5, <2>1, StageFile
  <2>4. /\ stage'[mine].journal = stage[mine].journal
        /\ stage'[mine].identity = stage[mine].identity
        /\ stage'[mine].removed = stage[mine].removed /\ stage'[mine].made = stage[mine].made
      BY <1>5, <2>1, StageFile
  <2> QED
      BY <2>2, <2>3, <2>4
<1>7. Emptied(mine)
    BY <1>6 DEF Emptied
<1>8. stage'[mine].made /\ ((stage'[mine].journal /\ stage'[mine].identity # 0) \/ Bare(mine)')
    BY <1>1, <1>5, <1>6 DEF IInv, StageTyped, Bare
<1>9. StageTyped' /\ Unmade' /\ OneStage' /\ \A t \in Stages : Bare(t) => Bare(t)'
    BY <1>1, <1>2, <1>5, <1>6, <1>7, <1>8, StageEmptied
<1>10. WorkTyped' /\ AtWork' /\ Visits'
    BY <1>1, <1>5, <1>6 DEF IInv, WorkTyped, AtWork, Visits, Helpers, OnlyStage
<1>11. AllElseBare' /\ OwnStage'
    BY <1>1 DEF AllElseBare, OwnStage, Removals, Filling
<1>12. Visited' /\ OldIsWhole'
    BY <1>1, <1>3, <1>9 DEF IInv, Visited, OldIsWhole
<1>13. Kept'
  <2> SUFFICES ASSUME NEW k \in Names, newest[k] # 0
               PROVE  files[k] = newest[k]
                      \/ (files[k] = 0 /\ \E s \in Stages : HeldFor(k, s)')
      BY <1>2 DEF Kept
  <2>1. CASE k = n
      BY <1>5, <2>1 DEF InPlace
  <2>2. CASE k # n
    <3>1. \A s \in Stages : HeldFor(k, s) => HeldFor(k, s)'
        BY <1>1, <1>2, <1>6, <2>2 DEF HeldFor, OnlyStage
    <3> QED
        BY <3>1 DEF IInv, Kept
  <2> QED
      BY <2>1, <2>2
<1>14. Needless'
  <2>1. gone' => \A k \in Names : InPlace(k)
      BY <1>1, <1>3 DEF IInv, Needless
  <2>2. \A k \in Names : InPlace(k)' <=> InPlace(k)
      BY <1>2 DEF InPlace
  <2> QED
      BY <1>1, <2>1, <2>2 DEF Needless
<1> QED
    BY <1>4, <1>9, <1>10, <1>11, <1>12, <1>13, <1>14 DEF IInv

LEMMA RestoreKeeps == ASSUME IInv, NEW n \in Names, Restore(n) PROVE IInv'
<1>1. helper = "restoring" /\ n \in Staged
    BY DEF Restore
<1>2. mine \in Stages /\ ~Bare(mine) /\ stage[mine].identity # 0
    BY <1>1 DEF IInv, AtWork, StageTyped, Staged, Present, Bare, Helpers
<1>3. CASE Deferred /\ UNCHANGED <<files, retired, left>>
  <2>1. Busy /\ UNCHANGED <<mine, expected>>
      BY <1>3 DEF Restore, Busy, checkout
  <2> QED
      BY <1>3, <2>1, DeferredKeeps
<1>4. CASE /\ gone \/ dir = stage[mine].identity
           /\ files' = IF gone \/ files[n] # 0 THEN files
                       ELSE [files EXCEPT ![n] = stage[mine].files[n]]
           /\ retired' = (retired /\ files' = files)
           /\ left' = {n}
           /\ HelperTo("unlinking") /\ UNCHANGED stage
  <2>1. /\ helper' = "unlinking" /\ left' = {n}
        /\ UNCHANGED <<dir, newest, stage, watcher, todo, mine, expected, writes, faults, checkouts>>
      BY <1>4 DEF Restore, HelperTo, scan, counts
  <2>2. UNCHANGED <<version, published, gone, pending>>
      BY <1>4 DEF Restore, HelperTo, scan
  <2>3. retired' \in BOOLEAN /\ (retired' => retired)
      BY <1>4
  <2>4. FlagsTyped'
      BY <2>1, <2>2, <2>3, Zenon DEF IInv, FlagsTyped
  <2>5. \/ UNCHANGED files /\ (gone \/ files[n] # 0)
        \/ /\ files[n] = 0 /\ dir = stage[mine].identity
           /\ files' = [files EXCEPT ![n] = stage[mine].files[n]]
      BY <1>4
  <2>6. CheckoutTyped' /\ \A k \in Names : k # n => files'[k] = files[k]
    <3>1. stage[mine].files[n] \in 0..writes
        BY <1>2 DEF IInv, StageTyped
    <3> QED
        BY <1>2, <2>1, <2>5, <3>1 DEF IInv, CheckoutTyped
  <2>7. StageTyped' /\ Unmade' /\ OneStage' /\ \A t \in Stages : Bare(t)' <=> Bare(t)
      BY <2>1, SameStage
  <2>8. WorkTyped' /\ AtWork' /\ Visits'
      BY <1>1, <2>1 DEF IInv, WorkTyped, AtWork, Visits, Helpers
  <2>9. AllElseBare' /\ OwnStage'
      BY <2>1 DEF AllElseBare, OwnStage, Removals, Filling
  <2>10. Visited' /\ OldIsWhole'
      BY <1>1, <2>1, <2>2, <2>3, <2>7 DEF IInv, Visited, OldIsWhole
  <2>11. InPlace(n)'
    <3> SUFFICES ASSUME newest[n] # 0 PROVE files'[n] = newest[n]
        BY <2>1 DEF InPlace
    <3>1. CASE UNCHANGED files /\ gone
        BY <1>1, <3>1 DEF IInv, Needless, InPlace
    <3>2. CASE UNCHANGED files /\ files[n] # 0
        BY <3>2 DEF IInv, Kept
    <3>3. CASE files[n] = 0 /\ files' = [files EXCEPT ![n] = stage[mine].files[n]]
      <4>1. PICK s \in Stages : HeldFor(n, s)
          BY <3>3 DEF IInv, Kept
      <4>2. s = mine
          BY <1>2, <4>1 DEF IInv, OneStage, HeldFor, Bare
      <4>3. files'[n] = stage[mine].files[n]
          BY <3>3 DEF IInv, CheckoutTyped
      <4> QED
          BY <4>1, <4>2, <4>3 DEF HeldFor
    <3> QED
        BY <2>5, <3>1, <3>2, <3>3
  <2>12. Kept'
    <3>1. \A k \in Names, s \in Stages : HeldFor(k, s) <=> HeldFor(k, s)'
        BY <2>1 DEF HeldFor
    <3> QED
        BY <2>1, <2>6, <2>11, <3>1 DEF IInv, Kept, InPlace
  <2>13. Needless'
    <3>1. gone => \A k \in Names : InPlace(k)'
        BY <1>1, <2>1, <2>6, <2>11 DEF IInv, Needless, InPlace
    <3> QED
        BY <2>1, <2>2, <2>11, <3>1 DEF Needless
  <2> QED
      BY <2>4, <2>6, <2>7, <2>8, <2>9, <2>10, <2>12, <2>13 DEF IInv
<1> QED
    BY <1>3, <1>4 DEF Restore
-----------------------------------------------------------------------------
LEMMA Invariance == ASSUME Grace, IInv, [Next]_vars PROVE IInv'
<1>1. CASE Producer
    BY <1>1, CheckoutMadeKeeps, WriteKeeps, CheckoutDeletedKeeps, OutsideKeeps DEF Producer
<1>2. CASE GracePasses \/ Publish \/ Unlinked
    BY <1>2, OutsideKeeps
<1>3. CASE CleanupStarts
    BY <1>3, CleanupStartsKeeps
<1>4. CASE Watcher
    BY <1>4, ScanStartsKeeps, RecoveryEndsKeeps, ScanEndsKeeps, RecoverNextKeeps DEF Watcher
<1>5. CASE Removal
    BY <1>5, RemoveVersionKeeps, InventoryKeeps, WriteJournalKeeps, AllMovedKeeps,
       RemoveDirectoryKeeps, MarkRemovedKeeps, MakeStageKeeps, MoveKeeps DEF Removal
<1>6. CASE Recovery
    BY <1>6, RecoverKeeps, RestoredKeeps, RestoreKeeps, UnlinkKeeps DEF Recovery
<1>7. CASE Crash \/ Fails
    BY <1>7, CrashKeeps, FailsKeeps
<1>8. CASE UNCHANGED vars
  <2>1. UNCHANGED <<dir, files, newest, stage, scan, work, writes, faults, checkouts>>
      BY <1>8 DEF vars, checkout, counts
  <2>2. UNCHANGED <<version, retired, published, pending, gone>>
      BY <1>8 DEF vars, checkout, scan, work
  <2>3. FlagsTyped'
      BY <2>1, <2>2, Zenon DEF IInv, FlagsTyped
  <2>4. CheckoutTyped' /\ StageTyped'
      BY <2>1, SameStages DEF IInv, CheckoutTyped
  <2>5. UNCHANGED <<helper, left, gone>>
      BY <2>1 DEF work
  <2>6. Kept' /\ Needless'
      BY <2>1, <2>5, SameFiles DEF IInv, Needless, WorkTyped
  <2> QED
      BY <2>1, <2>2, <2>3, <2>4, <2>6, SameWork DEF IInv
<1> QED
    BY <1>1, <1>2, <1>3, <1>4, <1>5, <1>6, <1>7, <1>8 DEF Next

LEMMA Inductive == ASSUME Grace PROVE Spec => []IInv
<1>1. Init => IInv
    BY Initial
<1>2. IInv /\ [Next]_vars => IInv'
    BY Invariance
<1> QED
    BY <1>1, <1>2, PTL DEF Spec

LEMMA KeptSomewhere == IInv => NewestKept
  BY DEF IInv, Kept, HeldFor, NewestKept, Made

(* The checkout, its stages and the helper have their types, if the grace   *)
(* is not zero seconds.                                                     *)
THEOREM TypeCorrect == ASSUME Grace PROVE Spec => []TypeOK
<1>1. IInv => TypeOK
    BY TypeParts DEF IInv
<1> QED
    BY <1>1, Inductive, PTL

(* The removal of a checkout and the recovery of its metadata lose nothing  *)
(* that its producer wrote and let nothing older take its place, whatever   *)
(* else runs, fails or crashes, and whatever identities the file system     *)
(* uses again: the newest of each file is in the checkout or in a stage     *)
(* that is held for it.                                                     *)
THEOREM NewestNeverLost == ASSUME Grace PROVE Spec => []NewestKept
  BY Inductive, KeptSomewhere, PTL
=============================================================================
