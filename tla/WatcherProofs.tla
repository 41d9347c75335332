---------------------------- MODULE WatcherProofs ----------------------------
(***************************************************************************)
(* What holds of Watcher for any files, paths, goroutines and faults.      *)
(***************************************************************************)
EXTENDS Watcher, TLAPS

-----------------------------------------------------------------------------
(* A path that is waited for has a timer.                                  *)

Waiting(p) == pending[p] # NotPending
Armed(p) == \E t \in 0..StableFor : timers[p][t] > 0

TimerInv ==
  /\ pending \in [Paths -> [file : SUBSET Files, seen : Nat, age : Nat]]
  /\ timers \in [Paths -> [0..StableFor -> Nat]]
  /\ version \in [Files -> Nat]
  /\ PendingHasTimer

(* A timer just set is among the timers, and all others stay.              *)
LEMMA ArmedNow ==
  ASSUME NEW p \in Paths, timers \in [Paths -> [0..StableFor -> Nat]]
  PROVE  /\ Arm(p) \in [0..StableFor -> Nat]
         /\ Arm(p)[StableFor] > 0
BY WatcherAssumption DEF Arm

(* A tick loses no timer.                                                  *)
LEMMA SoonerType ==
  ASSUME TimerInv, NEW p \in Paths, NEW t \in 0..StableFor
  PROVE  OneSooner(p, t) \in Nat
<1>1. timers[p] \in [0..StableFor -> Nat]
  BY DEF TimerInv
<1>2. timers[p][0] \in Nat
  BY <1>1, WatcherAssumption
<1>3. t < StableFor => timers[p][t + 1] \in Nat
  <2>1. t < StableFor => t + 1 \in 0..StableFor
    BY WatcherAssumption
  <2> QED BY <1>1, <2>1
<1> QED BY <1>2, <1>3 DEF OneSooner

LEMMA SoonerKeeps ==
  ASSUME TimerInv, NEW p \in Paths, Armed(p)
  PROVE  \E t \in 0..StableFor : OneSooner(p, t) > 0
<1>1. timers[p] \in [0..StableFor -> Nat]
  BY DEF TimerInv
<1>2. PICK t \in 0..StableFor : timers[p][t] > 0
  BY DEF Armed
<1>3. CASE t = 0
  <2>1. 1 \in 0..StableFor /\ 0 \in 0..StableFor /\ 0 < StableFor
    BY WatcherAssumption
  <2>2. timers[p][1] \in Nat /\ timers[p][0] \in Nat /\ timers[p][0] > 0
    BY <1>1, <1>2, <1>3, <2>1
  <2>3. OneSooner(p, 0) = timers[p][0] + timers[p][1]
    BY <2>1 DEF OneSooner
  <2> QED BY <2>1, <2>2, <2>3
<1>4. CASE t # 0
  <2>1. t - 1 \in 0..StableFor /\ t - 1 < StableFor /\ (t - 1) + 1 = t /\ 0 \in 0..StableFor
    BY <1>4, WatcherAssumption
  <2>2. timers[p][0] \in Nat /\ timers[p][t] \in Nat
    BY <1>1, <2>1
  <2>3. OneSooner(p, t - 1) = (IF t - 1 = 0 THEN timers[p][0] ELSE 0) + timers[p][t]
    BY <2>1 DEF OneSooner
  <2>4. OneSooner(p, t - 1) > 0
    BY <1>2, <2>2, <2>3
  <2> QED BY <2>1, <2>4
<1> QED BY <1>3, <1>4

(* What os.Stat says has its type when there is a file.                    *)
LEMMA LookType ==
  ASSUME NEW p \in Paths, version \in [Files -> Nat], NEW a \in Nat, Occupied(Inbox(p))
  PROVE  Look(p, a) \in [file : SUBSET Files, seen : Nat, age : Nat]
<1>1. \E f \in Files : place[f] = Inbox(p)
  BY DEF Occupied, FilesAt
<1>2. (CHOOSE f \in Files : place[f] = Inbox(p)) \in Files
  BY <1>1
<1>3. version[CHOOSE f \in Files : place[f] = Inbox(p)] \in Nat
  BY <1>2
<1>4. FilesAt(Inbox(p)) \in SUBSET Files
  BY DEF FilesAt
<1> QED BY <1>3, <1>4 DEF Look, Seen

LEMMA NotPendingType == NotPending \in [file : SUBSET Files, seen : Nat, age : Nat]
BY DEF NotPending

(* Forgetting a path while one of its timers goes off.                     *)
LEMMA ForgetKeeps ==
  ASSUME TimerInv, NEW p \in Paths, Due(p), Spend(p), Forget(p)
  PROVE  TimerInv'
<1>1. timers' \in [Paths -> [0..StableFor -> Nat]]
  BY WatcherAssumption DEF Due, Spend, Spent, TimerInv
<1>2. pending' \in [Paths -> [file : SUBSET Files, seen : Nat, age : Nat]]
  BY NotPendingType DEF Forget, TimerInv
<1>3. \A q \in Paths : q # p => pending'[q] = pending[q] /\ timers'[q] = timers[q]
  BY DEF Forget, Spend, TimerInv
<1>4. pending'[p] = NotPending
  BY DEF Forget, TimerInv
<1>5. version' = version
  BY DEF Due, fileVars
<1> QED BY <1>1, <1>2, <1>3, <1>4, <1>5 DEF TimerInv, PendingHasTimer

(* A step that leaves the map and the timers alone.                        *)
LEMMA ElsewhereKeeps ==
  ASSUME TimerInv, UNCHANGED <<pending, timers>>, version' \in [Files -> Nat]
  PROVE  TimerInv'
BY DEF TimerInv, PendingHasTimer

LEMMA TimerInvariant == Spec => []TimerInv
<1>1. Init => TimerInv
  BY NotPendingType DEF Init, TimerInv, PendingHasTimer, NoTimer
<1>2. TimerInv /\ [Next]_vars => TimerInv'
  <2> SUFFICES ASSUME TimerInv, [Next]_vars
               PROVE  TimerInv'
    OBVIOUS
  <2> USE DEF fileVars, watchVars, taskVars, storeVars, keptVars
  <2>1. ASSUME NEW f \in Files, Drop(f) \/ Write(f) \/ Remove(f)
        PROVE  TimerInv'
    <3>1. version' \in [Files -> Nat]
      BY <2>1 DEF Drop, Write, Remove, TimerInv
    <3> QED BY <2>1, <3>1, ElsewhereKeeps DEF Drop, Write, Remove
  <2>2. CASE Tick
    <3>1. timers' = [p \in Paths |-> [t \in 0..StableFor |-> OneSooner(p, t)]]
      BY <2>2 DEF Tick
    <3>2. timers' \in [Paths -> [0..StableFor -> Nat]]
      BY <3>1, SoonerType
    <3>3. \A p \in Paths : pending'[p] \in [file : SUBSET Files, seen : Nat, age : Nat]
      <4>1. TAKE p \in Paths
      <4>2. pending[p] \in [file : SUBSET Files, seen : Nat, age : Nat]
        BY DEF TimerInv
      <4>3. [pending[p] EXCEPT !.age = @ + 1] \in [file : SUBSET Files, seen : Nat, age : Nat]
        BY <4>2
      <4> QED BY <2>2, <4>2, <4>3 DEF Tick
    <3>4. pending' \in [Paths -> [file : SUBSET Files, seen : Nat, age : Nat]]
      BY <2>2, <3>3 DEF Tick
    <3>5. ASSUME NEW p \in Paths, pending'[p] # NotPending
          PROVE  \E t \in 0..StableFor : timers'[p][t] > 0
      <4>1. pending[p] # NotPending
        BY <2>2, <3>5 DEF Tick
      <4>2. Armed(p)
        BY <4>1 DEF TimerInv, PendingHasTimer, Armed
      <4> QED BY <3>1, <4>2, SoonerKeeps
    <3> QED BY <2>2, <3>2, <3>4, <3>5 DEF Tick, TimerInv, PendingHasTimer
  <2>3. CASE Start
    <3>1. \A p \in Paths : Occupied(Inbox(p)) => Look(p, 0) \in [file : SUBSET Files, seen : Nat, age : Nat]
      BY LookType DEF TimerInv
    <3>2. pending' \in [Paths -> [file : SUBSET Files, seen : Nat, age : Nat]]
      BY <2>3, <3>1, NotPendingType DEF Start
    <3>3. timers' \in [Paths -> [0..StableFor -> Nat]]
      BY <2>3, ArmedNow DEF Start, TimerInv
    <3>4. \A p \in Paths : pending'[p] # NotPending => timers'[p][StableFor] > 0
      BY <2>3, ArmedNow DEF Start, TimerInv
    <3>5. StableFor \in 0..StableFor
      BY WatcherAssumption
    <3> QED BY <2>3, <3>2, <3>3, <3>4, <3>5 DEF Start, TimerInv, PendingHasTimer
  <2>4. CASE HandleEvent
    <3> DEFINE p == Head(events)[2]
    <3>1. version' = version
      BY <2>4 DEF HandleEvent
    <3>2. CASE pending' = [pending EXCEPT ![p] = NotPending] /\ UNCHANGED timers
      BY <3>1, <3>2, NotPendingType DEF TimerInv, PendingHasTimer
    <3>3. CASE Debounce(p) /\ Occupied(Inbox(p))
      <4>1. CASE p \in Paths
        <5>1. pending[p].age \in Nat
          BY <4>1 DEF TimerInv
        <5>2. Look(p, pending[p].age) \in [file : SUBSET Files, seen : Nat, age : Nat]
          BY <3>3, <4>1, <5>1, LookType DEF TimerInv
        <5>3. pending' \in [Paths -> [file : SUBSET Files, seen : Nat, age : Nat]]
          BY <3>3, <5>2 DEF Debounce, TimerInv
        <5>4. timers' \in [Paths -> [0..StableFor -> Nat]] /\ timers'[p][StableFor] > 0
          BY <3>3, <4>1, ArmedNow DEF Debounce, TimerInv
        <5>5. \A q \in Paths : q # p => pending'[q] = pending[q] /\ timers'[q] = timers[q]
          BY <3>3 DEF Debounce, TimerInv
        <5>6. StableFor \in 0..StableFor
          BY WatcherAssumption
        <5> QED BY <3>1, <4>1, <5>3, <5>4, <5>5, <5>6 DEF TimerInv, PendingHasTimer
      <4>2. CASE p \notin Paths
        <5>1. pending' \in [Paths -> [file : SUBSET Files, seen : Nat, age : Nat]]
          BY <3>3, <4>2 DEF Debounce, TimerInv
        <5>2. timers' \in [Paths -> [0..StableFor -> Nat]]
          BY <3>3, <4>2 DEF Debounce, TimerInv
        <5>3. \A q \in Paths : pending'[q] = pending[q] /\ timers'[q] = timers[q]
          BY <3>3, <4>2 DEF Debounce, TimerInv
        <5> QED BY <3>1, <5>1, <5>2, <5>3 DEF TimerInv, PendingHasTimer
      <4> QED BY <4>1, <4>2
    <3> QED BY <2>4, <3>2, <3>3 DEF HandleEvent, Debounce
  <2>5. ASSUME NEW p \in Paths, CheckNothing(p)
        PROVE  TimerInv'
    <3>1. CASE Forget(p)
      BY <2>5, <3>1, ForgetKeeps DEF CheckNothing
    <3>2. CASE pending[p] = NotPending /\ UNCHANGED pending
      <4>1. Forget(p)
        BY <3>2 DEF Forget, TimerInv
      <4> QED BY <2>5, <4>1, ForgetKeeps DEF CheckNothing
    <3> QED BY <2>5, <3>1, <3>2 DEF CheckNothing
  <2>6. ASSUME NEW p \in Paths, NEW g \in Goroutines, CheckTooOld(g, p) \/ CheckStable(g, p)
        PROVE  TimerInv'
    BY <2>6, ForgetKeeps DEF CheckTooOld, CheckStable
  <2>7. ASSUME NEW p \in Paths, CheckChanged(p)
        PROVE  TimerInv'
    <3>1. pending[p].age \in Nat
      BY DEF TimerInv
    <3>2. Look(p, pending[p].age) \in [file : SUBSET Files, seen : Nat, age : Nat]
      BY <2>7, <3>1, LookType DEF CheckChanged, TimerInv
    <3>3. pending' \in [Paths -> [file : SUBSET Files, seen : Nat, age : Nat]]
      BY <2>7, <3>2 DEF CheckChanged, TimerInv
    <3>4. timers' \in [Paths -> [0..StableFor -> Nat]] /\ timers'[p][StableFor] > 0
      <4>1. timers[p] \in [0..StableFor -> Nat] /\ timers[p][0] > 0
        BY <2>7 DEF CheckChanged, Due, TimerInv
      <4>2. 0 \in 0..StableFor /\ StableFor \in 0..StableFor /\ StableFor # 0
        BY WatcherAssumption
      <4>3. Spent(p) \in [0..StableFor -> Nat]
        BY <4>1, <4>2 DEF Spent
      <4> DEFINE row == [Spent(p) EXCEPT ![StableFor] = @ + 1]
      <4>4. row \in [0..StableFor -> Nat] /\ row[StableFor] > 0
        BY <4>2, <4>3
      <4>5. timers' = [timers EXCEPT ![p] = row]
        BY <2>7 DEF CheckChanged
      <4> HIDE DEF row
      <4> QED BY <4>4, <4>5 DEF TimerInv
    <3>5. \A q \in Paths : q # p => pending'[q] = pending[q] /\ timers'[q] = timers[q]
      BY <2>7 DEF CheckChanged, TimerInv
    <3>6. StableFor \in 0..StableFor
      BY WatcherAssumption
    <3> QED BY <2>7, <3>3, <3>4, <3>5, <3>6 DEF CheckChanged, Due, TimerInv, PendingHasTimer
  <2>8. ASSUME NEW g \in Goroutines, Call(g) \/ MoveFails(g) \/ StoreFails(g)
        PROVE  TimerInv'
    <3>1. UNCHANGED <<pending, timers, version>>
      BY <2>8 DEF Call, MoveToProcessing, Rename, Detect, CreateOrGet, EnqueueJob,
                  EnqueueSkippedJob, HandlePreQueueFailure, MoveFails, StoreFails
    <3> QED BY <3>1, ElsewhereKeeps DEF TimerInv
  <2>9. ASSUME NEW b \in Bodies, Work(b)
        PROVE  TimerInv'
    <3>1. UNCHANGED <<pending, timers, version>>
      BY <2>9 DEF Work
    <3> QED BY <3>1, ElsewhereKeeps DEF TimerInv
  <2>10. CASE Overflow
    BY <2>10, ElsewhereKeeps DEF Overflow, TimerInv
  <2>11. CASE Crash
    <3>1. /\ pending' \in [Paths -> [file : SUBSET Files, seen : Nat, age : Nat]]
          /\ \A p \in Paths : pending'[p] = NotPending
      BY <2>11, NotPendingType DEF Crash
    <3>2. timers' \in [Paths -> [0..StableFor -> Nat]]
      BY <2>11 DEF Crash, NoTimer
    <3> QED BY <2>11, <3>1, <3>2 DEF Crash, TimerInv, PendingHasTimer
  <2>12. CASE UNCHANGED vars
    BY <2>12, ElsewhereKeeps DEF vars, TimerInv
  <2> QED
    BY <2>1, <2>2, <2>3, <2>4, <2>5, <2>6, <2>7, <2>8, <2>9, <2>10, <2>11, <2>12
       DEF Next, Check
<1> QED BY <1>1, <1>2, PTL DEF Spec

(* However events, checks, writes, restarts and faults interleave, a path  *)
(* the watcher waits for has a timer that will look at it again            *)
(* (watcher.go:221-312).                                                   *)
THEOREM NoPathForgotten == Spec => []PendingHasTimer
<1>1. TimerInv => PendingHasTimer
  BY DEF TimerInv
<1> QED BY <1>1, TimerInvariant, PTL

-----------------------------------------------------------------------------
(* Types, and what a goroutine holds at each of its calls.                 *)

Inboxes == {Inbox(p) : p \in Paths}
Real == Inboxes \cup Folders   \* places a file can be found at

(* A goroutine at work is about a path; a rename has its target, a hash its *)
(* content, a document about to get its job its recorded source.            *)
CallsHaveArguments ==
  \A g \in Goroutines :
    /\ pc[g] # "idle" => at[g] \in Real
    /\ pc[g] = "rename" => dst[g] \in Folders
    /\ pc[g] \in {"create", "job", "skip"} => body[g] \in Bodies
    /\ pc[g] = "job" => source[body[g]] \in Real

SourcesAreReal ==
  \A b \in Bodies : /\ source[b] \in Real \cup {Nowhere}
                    /\ job[b] # "none" => source[b] \in Real

VersionsAreWrites == \A f \in Files : version[f] \in 0..Writes[f]

TypeInv == TypeOK /\ CallsHaveArguments /\ SourcesAreReal /\ VersionsAreWrites

-----------------------------------------------------------------------------
(* Names are not taken twice.                                              *)

(* A target that was free stays free until its rename, and no two renames  *)
(* have the same, unless two moves overlapped.                             *)
TargetsAreFree ==
  \A g \in Goroutines : pc[g] = "rename" =>
    /\ dst[g][1] \in {"processing", "failed"}
    /\ ~ Occupied(dst[g])
    /\ \A h \in Goroutines : h # g /\ pc[h] = "rename" => dst[h] # dst[g]

LossInv == raced \/ ((\A f \in Files : place[f] # Lost) /\ TargetsAreFree)

(* A path in a folder has one file.                                        *)
PlacesAreSingle ==
  \A f \in Files, h \in Files : f # h /\ place[f] = place[h] => place[f] \in {Nowhere, Lost}

-----------------------------------------------------------------------------
(* The archive.                                                            *)

(* The goroutine has its file where it wants it: in the processing folder, *)
(* where nobody else takes it away, or, without one, in the inbox.         *)
Holding(g) ==
  \/ pc[g] \in {"detect", "create", "job", "skip", "giveup"}
  \/ pc[g] = "rename" /\ dst[g][1] = "failed"

(* Nobody else has a file that g holds in the processing folder.           *)
AloneAt(g) ==
  /\ \A h \in Goroutines : h # g /\ Holding(h) => at[h] # at[g]
  /\ \A b \in Bodies : job[b] = "queued" => source[b] # at[g]

HolderHasFile(g) ==
  /\ Holding(g) => at[g][1] \in {"inbox", "processing"}
  /\ Holding(g) /\ at[g][1] = "processing" => Occupied(at[g]) /\ AloneAt(g)
  /\ pc[g] = "move" => at[g] \in Inboxes
  /\ pc[g] = "rename" /\ dst[g][1] # "failed" => at[g] \in Inboxes
  /\ pc[g] = "job" => source[body[g]] = at[g]

(* What waits for the worker in the processing folder waits alone.         *)
QueuedHasPlace(b) ==
  job[b] = "queued" =>
    /\ source[b][1] \in {"inbox", "processing"}
    /\ source[b][1] = "processing" =>
         /\ Occupied(source[b])
         /\ \A c \in Bodies : c # b /\ job[c] = "queued" => source[c] # source[b]

Custody ==
  /\ \A g \in Goroutines : HolderHasFile(g)
  /\ \A b \in Bodies : QueuedHasPlace(b)

(* What is on record, or about to be, is still what was hashed, but for the *)
(* files that a user came back to.                                         *)
Fresh(b) ==
  /\ archive[b] \in {b, NoBody}
  /\ \A pl \in Real : b \in Hashed(pl) => \A f \in FilesAt(pl) : Body(f) = b

CustodyInv == raced \/ (Custody /\ \A b \in Bodies \ late : Fresh(b))

LEMMA PlaceTags ==
  /\ \A p \in Paths : Inbox(p)[1] = "inbox" /\ Inbox(p)[2] = p
  /\ \A pl \in Folders : pl[1] \in {"processing", "processed", "failed"} /\ pl[2] \in {NameOf[p] : p \in Paths}
  /\ Nowhere[1] = "nowhere" /\ Lost[1] = "lost"
BY DEF Inbox, Folders, Nowhere, Lost

LEMMA RealIsNotNowhere ==
  ASSUME NEW pl \in Real
  PROVE  pl \in Places /\ pl # Nowhere /\ pl # Lost
BY PlaceTags, WatcherAssumption DEF Real, Inboxes, Places

(* A file is called in a folder as it was in the inbox.                    *)
LEMMA TargetInFolders ==
  ASSUME NEW pl \in Real, NEW dir \in {"processing", "processed", "failed"}, NEW n \in Copies
  PROVE  <<dir, Name(pl), n>> \in Folders
<1>1. Name(pl) \in {NameOf[p] : p \in Paths}
  BY PlaceTags, WatcherAssumption DEF Name, Real, Inboxes
<1> QED BY <1>1 DEF Folders

LEMMA NotifyType ==
  ASSUME events \in Seq({"change", "remove"} \X Paths), NEW f \in Files,
         NEW kind \in {"change", "remove"}, Notify(kind, PathOf[f])
  PROVE  events' \in Seq({"change", "remove"} \X Paths)
<1>1. <<kind, PathOf[f]>> \in {"change", "remove"} \X Paths
  BY WatcherAssumption
<1> QED BY <1>1 DEF Notify

LEMMA MoveType ==
  ASSUME TypeOK, NEW f \in Files, NEW target \in Folders, MoveTo(f, target)
  PROVE  /\ place' \in [Files -> Places]
         /\ events' \in Seq({"change", "remove"} \X Paths)
<1>1. place' \in [Files -> Places]
  BY DEF TypeOK, MoveTo, Places
<1>2. events' \in Seq({"change", "remove"} \X Paths)
  BY NotifyType DEF TypeOK, MoveTo
<1> QED BY <1>1, <1>2

LEMMA BodyType ==
  ASSUME TypeInv, NEW f \in Files
  PROVE  Body(f) \in Bodies
BY DEF TypeInv, VersionsAreWrites, Body, Bodies

LEMMA LookInRange ==
  ASSUME TypeOK, NEW p \in Paths, NEW a \in Ages, Occupied(Inbox(p))
  PROVE  Look(p, a) \in [file : SUBSET Files, seen : Nat, age : Ages]
<1>1. a \in Nat /\ version \in [Files -> Nat]
  BY WatcherAssumption DEF Ages, TypeOK
<1>2. Look(p, a) \in [file : SUBSET Files, seen : Nat, age : Nat]
  BY <1>1, LookType
<1> QED BY <1>2 DEF Look

LEMMA NotPendingInRange == NotPending \in [file : SUBSET Files, seen : Nat, age : Ages]
BY WatcherAssumption DEF NotPending, Ages

(* The variables of the file system and the map, as TypeOK has them.       *)
WatchTypes ==
  /\ place \in [Files -> Places]
  /\ version \in [Files -> Nat]
  /\ events \in Seq({"change", "remove"} \X Paths)
  /\ pending \in [Paths -> [file : SUBSET Files, seen : Nat, age : Ages]]
  /\ timers \in [Paths -> [0..StableFor -> Nat]]
  /\ up \in BOOLEAN
  /\ VersionsAreWrites

(* Those of the goroutines and the store.                                  *)
TaskTypes ==
  /\ pc \in [Goroutines -> Calls]
  /\ at \in [Goroutines -> Places] /\ dst \in [Goroutines -> Places]
  /\ body \in [Goroutines -> Bodies \cup {NoBody}]
  /\ raced \in BOOLEAN
  /\ source \in [Bodies -> Places]
  /\ job \in [Bodies -> JobStatus]
  /\ archive \in [Bodies -> Bodies \cup {NoBody}]
  /\ CallsHaveArguments /\ SourcesAreReal

(* The rest.                                                               *)
OtherTypes ==
  /\ dirs \in Setups /\ late \subseteq Bodies
  /\ hit \subseteq Files /\ faults \in 0..MaxFaults

LEMMA TypeParts == TypeInv <=> WatchTypes /\ TaskTypes /\ OtherTypes
BY DEF TypeInv, TypeOK, WatchTypes, TaskTypes, OtherTypes

LEMMA WatchTypesInit == Init => WatchTypes /\ TaskTypes /\ OtherTypes
<1> SUFFICES ASSUME Init
             PROVE  WatchTypes /\ TaskTypes /\ OtherTypes
  OBVIOUS
<1>1. Nowhere \in Places
  BY DEF Places
<1>2. WatchTypes
  <2>1. VersionsAreWrites
    BY WatcherAssumption DEF Init, VersionsAreWrites
  <2>2. events \in Seq({"change", "remove"} \X Paths)
    BY DEF Init
  <2> QED BY <1>1, <2>1, <2>2, NotPendingInRange DEF Init, WatchTypes, NoTimer
<1>3. TaskTypes
  BY <1>1 DEF Init, TaskTypes, CallsHaveArguments, SourcesAreReal, Calls, JobStatus
<1>4. OtherTypes
  BY WatcherAssumption DEF Init, OtherTypes
<1> QED BY <1>2, <1>3, <1>4

LEMMA CallStep ==
  ASSUME TypeInv, NEW g \in Goroutines, Call(g)
  PROVE  TypeInv'
<1> USE DEF fileVars, watchVars, taskVars, storeVars, keptVars
<1>1. WatchTypes /\ TaskTypes /\ OtherTypes
  BY TypeParts
<1>2. UNCHANGED <<keptVars, hit, faults>>
  BY DEF Call, MoveToProcessing, Rename, Detect, CreateOrGet, EnqueueJob, EnqueueSkippedJob,
         HandlePreQueueFailure
<1>3. Nowhere \in Places /\ Folders \subseteq Places
  BY DEF Places
<1>4. ASSUME WatchTypes', TaskTypes'
      PROVE  TypeInv'
  BY <1>1, <1>2, <1>4 DEF TypeInv, TypeOK, WatchTypes, TaskTypes, OtherTypes
<1>5. ASSUME UNCHANGED <<fileVars, watchVars>>
      PROVE  WatchTypes'
  BY <1>1, <1>5 DEF WatchTypes, VersionsAreWrites
<1>6. ASSUME Done(g), UNCHANGED <<raced, source, archive>>,
             job' = job \/ (pc[g] = "job" /\ job' = [job EXCEPT ![body[g]] = "queued"])
      PROVE  TaskTypes'
  <2>1. /\ pc' \in [Goroutines -> Calls]
        /\ at' \in [Goroutines -> Places] /\ dst' \in [Goroutines -> Places]
        /\ body' \in [Goroutines -> Bodies \cup {NoBody}]
    BY <1>1, <1>3, <1>6 DEF TaskTypes, Done, Goto, Calls
  <2>2. job' \in [Bodies -> JobStatus] /\ SourcesAreReal'
    BY <1>1, <1>6 DEF TaskTypes, JobStatus, SourcesAreReal, CallsHaveArguments
  <2>3. CallsHaveArguments'
    BY <1>1, <1>6 DEF TaskTypes, CallsHaveArguments, Done, Goto
  <2> QED BY <1>1, <1>6, <2>1, <2>2, <2>3 DEF TaskTypes
<1>7. ASSUME NEW dir \in {"processing", "failed"}, Target(g, dir), pc[g] # "idle", UNCHANGED storeVars
      PROVE  TaskTypes'
  <2>1. PICK n \in Copies : dst' = [dst EXCEPT ![g] = <<dir, Name(at[g]), n>>]
    BY <1>7 DEF Target
  <2>2. <<dir, Name(at[g]), n>> \in Folders
    BY <1>1, <1>7, TargetInFolders DEF TaskTypes, CallsHaveArguments
  <2>3. dst' \in [Goroutines -> Places] /\ dst'[g] \in Folders
    BY <1>1, <1>3, <2>1, <2>2 DEF TaskTypes
  <2>4. pc' = [pc EXCEPT ![g] = "rename"] /\ UNCHANGED <<at, body>>
    BY <1>7 DEF Target, Goto
  <2>5. pc' \in [Goroutines -> Calls]
    BY <1>1, <2>4 DEF TaskTypes, Calls
  <2>6. CallsHaveArguments'
    BY <1>1, <1>7, <2>1, <2>3, <2>4 DEF TaskTypes, CallsHaveArguments
  <2>7. raced' \in BOOLEAN
    BY <1>7 DEF Target
  <2> QED BY <1>1, <1>7, <2>3, <2>4, <2>5, <2>6, <2>7 DEF TaskTypes, SourcesAreReal
<1>8. CASE MoveToProcessing(g)
  <2>1. WatchTypes'
    BY <1>5, <1>8 DEF MoveToProcessing
  <2>2. CASE "processing" \in dirs
    BY <1>4, <1>7, <1>8, <2>1, <2>2 DEF MoveToProcessing
  <2>3. CASE "processing" \notin dirs
    BY <1>1, <1>4, <1>8, <2>1, <2>3 DEF MoveToProcessing, Goto, TaskTypes, CallsHaveArguments,
       SourcesAreReal, Calls
  <2> QED BY <2>2, <2>3
<1>9. CASE Rename(g)
  <2>1. dst[g] \in Folders /\ dst[g] \in Real
    BY <1>1, <1>9 DEF Rename, TaskTypes, CallsHaveArguments, Real
  <2>2. WatchTypes'
    <3>1. CASE Occupied(at[g])
      <4>1. PICK f \in Files : MoveTo(f, dst[g])
        BY <1>9, <3>1 DEF Rename, Occupied, FilesAt
      <4>2. /\ place' \in [Files -> Places]
            /\ events' \in Seq({"change", "remove"} \X Paths)
        BY <2>1, <4>1, MoveType DEF TypeInv
      <4> QED BY <1>1, <1>9, <4>2 DEF Rename, WatchTypes, VersionsAreWrites
    <3>2. CASE ~ Occupied(at[g])
      BY <1>1, <1>9, <3>2 DEF Rename, WatchTypes, VersionsAreWrites
    <3> QED BY <3>1, <3>2
  <2>3. CASE Done(g)
    BY <1>4, <1>6, <1>9, <2>2, <2>3 DEF Rename
  <2>4. CASE at' = [at EXCEPT ![g] = dst[g]] /\ Goto(g, "detect") /\ UNCHANGED <<dst, body>>
    <3>1. at' \in [Goroutines -> Places] /\ pc' \in [Goroutines -> Calls]
      BY <1>1, <1>3, <2>1, <2>4 DEF TaskTypes, Goto, Calls
    <3>2. CallsHaveArguments'
      BY <1>1, <1>9, <2>1, <2>4 DEF Rename, TaskTypes, CallsHaveArguments, Goto
    <3>3. TaskTypes'
      BY <1>1, <1>9, <2>4, <3>1, <3>2 DEF Rename, TaskTypes, SourcesAreReal
    <3> QED BY <1>4, <2>2, <3>3
  <2> QED BY <1>9, <2>3, <2>4 DEF Rename
<1>10. CASE Detect(g)
  <2>1. WatchTypes'
    BY <1>5, <1>10 DEF Detect
  <2>2. body' \in [Goroutines -> Bodies \cup {NoBody}]
    BY <1>1, <1>10, BodyType DEF Detect, TaskTypes, FilesAt
  <2>3. pc' \in [Goroutines -> Calls]
    BY <1>1, <1>10 DEF Detect, TaskTypes, Goto, Calls
  <2>4. CallsHaveArguments'
    <3>1. CASE Goto(g, "giveup") /\ UNCHANGED body
      BY <1>1, <1>10, <3>1 DEF Detect, TaskTypes, CallsHaveArguments, Goto
    <3>2. CASE \E f \in FilesAt(at[g]) : body' = [body EXCEPT ![g] = Body(f)] /\ Goto(g, "create")
      <4>1. body'[g] \in Bodies
        BY <1>1, <3>2, BodyType DEF TaskTypes, FilesAt
      <4> QED BY <1>1, <1>10, <3>2, <4>1 DEF Detect, TaskTypes, CallsHaveArguments, Goto
    <3> QED BY <1>10, <3>1, <3>2 DEF Detect
  <2>5. TaskTypes'
    BY <1>1, <1>10, <2>2, <2>3, <2>4 DEF Detect, TaskTypes, SourcesAreReal
  <2> QED BY <1>4, <2>1, <2>5
<1>11. CASE CreateOrGet(g)
  <2>1. WatchTypes'
    BY <1>5, <1>11 DEF CreateOrGet
  <2>2. body[g] \in Bodies /\ at[g] \in Real /\ at[g] \in Places
    BY <1>1, <1>11, RealIsNotNowhere DEF CreateOrGet, TaskTypes, CallsHaveArguments
  <2>3. pc' \in [Goroutines -> Calls] /\ source' \in [Bodies -> Places]
    BY <1>1, <1>11, <2>2 DEF CreateOrGet, TaskTypes, Goto, Calls
  <2>4. SourcesAreReal'
    BY <1>1, <1>11, <2>2 DEF CreateOrGet, TaskTypes, SourcesAreReal
  <2>5. CallsHaveArguments'
    <3>1. \A b \in Bodies : source[b] \in Real => source'[b] = source[b]
      BY <1>1, <1>11, RealIsNotNowhere DEF CreateOrGet, TaskTypes
    <3>2. pc'[g] = "job" => source'[body[g]] \in Real
      BY <1>1, <1>11, <2>2 DEF CreateOrGet, TaskTypes, Goto
    <3> QED BY <1>1, <1>11, <2>2, <3>1, <3>2 DEF CreateOrGet, TaskTypes, CallsHaveArguments, Goto
  <2>6. TaskTypes'
    BY <1>1, <1>11, <2>3, <2>4, <2>5 DEF CreateOrGet, TaskTypes
  <2> QED BY <1>4, <2>1, <2>6
<1>12. CASE EnqueueJob(g) \/ EnqueueSkippedJob(g)
  <2>1. WatchTypes'
    BY <1>5, <1>12 DEF EnqueueJob, EnqueueSkippedJob
  <2> QED BY <1>4, <1>6, <1>12, <2>1 DEF EnqueueJob, EnqueueSkippedJob
<1>13. CASE HandlePreQueueFailure(g)
  <2>1. WatchTypes'
    BY <1>5, <1>13 DEF HandlePreQueueFailure
  <2> QED BY <1>4, <1>6, <1>7, <1>13, <2>1 DEF HandlePreQueueFailure
<1> QED BY <1>8, <1>9, <1>10, <1>11, <1>12, <1>13 DEF Call

LEMMA EventsLeft ==
  ASSUME events \in Seq({"change", "remove"} \X Paths)
  PROVE  /\ <<>> \in Seq({"change", "remove"} \X Paths)
         /\ events # <<>> => Tail(events) \in Seq({"change", "remove"} \X Paths)
<1> DEFINE E == {"change", "remove"} \X Paths
<1> HIDE DEF E
<1>1. events \in Seq(E) => (<<>> \in Seq(E) /\ (events # <<>> => Tail(events) \in Seq(E)))
  OBVIOUS
<1> QED BY <1>1 DEF E

LEMMA UserStep ==
  ASSUME TypeInv, NEW f \in Files, Drop(f) \/ Write(f) \/ Remove(f)
  PROVE  TypeInv'
<1> USE DEF fileVars, watchVars, taskVars, storeVars, keptVars
<1>1. WatchTypes /\ TaskTypes /\ OtherTypes
  BY TypeParts
<1>2. TaskTypes'
  BY <1>1 DEF Drop, Write, Remove, TaskTypes, CallsHaveArguments, SourcesAreReal
<1>9. OtherTypes'
  <2>1. \A pl : Hashed(pl) \subseteq Bodies
    BY DEF Hashed
  <2> QED BY <1>1, <2>1 DEF Drop, Write, Remove, OtherTypes
<1>3. Inbox(PathOf[f]) \in Places /\ Nowhere \in Places
  BY WatcherAssumption DEF Places
<1>4. place' \in [Files -> Places]
  BY <1>1, <1>3 DEF Drop, Write, Remove, WatchTypes
<1>5. version' \in [Files -> Nat] /\ VersionsAreWrites'
  <2>1. CASE UNCHANGED version
    BY <1>1, <2>1 DEF WatchTypes, VersionsAreWrites
  <2>2. CASE version[f] < Writes[f] /\ version' = [version EXCEPT ![f] = @ + 1]
    <3>1. version[f] \in Nat /\ Writes[f] \in Nat
      BY <1>1, WatcherAssumption DEF WatchTypes
    <3>2. version[f] + 1 \in Nat /\ version[f] + 1 \in 0..Writes[f]
      BY <2>2, <3>1
    <3>3. \A x \in Files : version'[x] = IF x = f THEN version[f] + 1 ELSE version[x]
      BY <1>1, <2>2 DEF WatchTypes
    <3>4. version' \in [Files -> Nat]
      BY <1>1, <2>2, <3>2 DEF WatchTypes
    <3> QED BY <1>1, <3>2, <3>3, <3>4 DEF WatchTypes, VersionsAreWrites
  <2> QED BY <2>1, <2>2 DEF Drop, Write, Remove
<1>6. events' \in Seq({"change", "remove"} \X Paths)
  BY <1>1, NotifyType DEF Drop, Write, Remove, WatchTypes
<1>7. WatchTypes'
  BY <1>1, <1>4, <1>5, <1>6 DEF Drop, Write, Remove, WatchTypes
<1> QED BY <1>2, <1>7, <1>9 DEF TypeInv, TypeOK, WatchTypes, TaskTypes, OtherTypes

(* A look at a path in the map.                                            *)
LEMMA LoopStep ==
  ASSUME TypeInv, TimerInv', Tick \/ Start \/ HandleEvent
  PROVE  TypeInv'
<1> USE DEF fileVars, watchVars, taskVars, storeVars, keptVars
<1>1. WatchTypes /\ TaskTypes /\ OtherTypes
  BY TypeParts
<1>2. TaskTypes' /\ OtherTypes'
  BY <1>1 DEF Tick, Start, HandleEvent, TaskTypes, CallsHaveArguments, SourcesAreReal, OtherTypes
<1>3. timers' \in [Paths -> [0..StableFor -> Nat]]
  BY DEF TimerInv
<1>4. UNCHANGED <<place, version>>
  BY DEF Tick, Start, HandleEvent
<1>5. pending' \in [Paths -> [file : SUBSET Files, seen : Nat, age : Ages]]
  <2>1. CASE Tick
    <3>1. ASSUME NEW p \in Paths, pending[p].age <= MaxAge
          PROVE  [pending[p] EXCEPT !.age = @ + 1] \in [file : SUBSET Files, seen : Nat, age : Ages]
      <4>1. pending[p] \in [file : SUBSET Files, seen : Nat, age : Ages]
        BY <1>1 DEF WatchTypes
      <4>2. pending[p].age + 1 \in Ages
        BY <3>1, <4>1, WatcherAssumption DEF Ages
      <4> QED BY <4>1, <4>2
    <3> QED BY <1>1, <2>1, <3>1 DEF Tick, WatchTypes
  <2>2. CASE Start
    <3>1. 0 \in Ages
      BY WatcherAssumption DEF Ages
    <3>2. \A p \in Paths : Occupied(Inbox(p)) => Look(p, 0) \in [file : SUBSET Files, seen : Nat, age : Ages]
      BY <3>1, LookInRange DEF TypeInv
    <3> QED BY <2>2, <3>2, NotPendingInRange DEF Start
  <2>3. CASE HandleEvent
    <3> DEFINE p == Head(events)[2]
    <3>1. p \in Paths
      BY <1>1, <2>3 DEF HandleEvent, WatchTypes
    <3>2. CASE pending' = [pending EXCEPT ![p] = NotPending]
      BY <1>1, <3>2, NotPendingInRange DEF WatchTypes
    <3>3. CASE Occupied(Inbox(p)) /\ pending' = [pending EXCEPT ![p] = Look(p, pending[p].age)]
      <4>1. pending[p].age \in Ages
        BY <1>1, <3>1 DEF WatchTypes
      <4>2. Look(p, pending[p].age) \in [file : SUBSET Files, seen : Nat, age : Ages]
        BY <3>1, <3>3, <4>1, LookInRange DEF TypeInv
      <4> HIDE DEF p
      <4> QED BY <1>1, <3>3, <4>2 DEF WatchTypes
    <3> QED BY <2>3, <3>2, <3>3 DEF HandleEvent, Debounce
  <2> QED BY <2>1, <2>2, <2>3
<1>6. events' \in Seq({"change", "remove"} \X Paths)
  BY <1>1, EventsLeft DEF Tick, Start, HandleEvent, WatchTypes
<1>7. up' \in BOOLEAN
  BY <1>1 DEF Tick, Start, HandleEvent, WatchTypes
<1>8. WatchTypes'
  BY <1>1, <1>3, <1>4, <1>5, <1>6, <1>7 DEF WatchTypes, VersionsAreWrites
<1> QED BY <1>2, <1>8 DEF TypeInv, TypeOK, WatchTypes, TaskTypes, OtherTypes

LEMMA CheckStep ==
  ASSUME TypeInv, TimerInv', NEW p \in Paths, Check(p)
  PROVE  TypeInv'
<1> USE DEF fileVars, watchVars, taskVars, storeVars, keptVars
<1>1. WatchTypes /\ TaskTypes /\ OtherTypes
  BY TypeParts
<1>2. UNCHANGED <<place, version, events, up, storeVars, keptVars, hit, faults>>
  BY DEF Check, CheckNothing, CheckChanged, CheckTooOld, CheckStable, Due
<1>3. pending' \in [Paths -> [file : SUBSET Files, seen : Nat, age : Ages]]
  <2>1. CASE UNCHANGED pending \/ Forget(p)
    BY <1>1, <2>1, NotPendingInRange DEF WatchTypes, Forget
  <2>2. CASE CheckChanged(p)
    <3>1. pending[p].age \in Ages
      BY <1>1 DEF WatchTypes
    <3>2. Look(p, pending[p].age) \in [file : SUBSET Files, seen : Nat, age : Ages]
      BY <2>2, <3>1, LookInRange DEF CheckChanged, TypeInv
    <3> QED BY <1>1, <2>2, <3>2 DEF CheckChanged, WatchTypes
  <2> QED BY <2>1, <2>2 DEF Check, CheckNothing, CheckTooOld, CheckStable
<1>4. WatchTypes'
  BY <1>1, <1>2, <1>3 DEF WatchTypes, VersionsAreWrites, TimerInv
<1>5. TaskTypes'
  <2>1. CASE UNCHANGED taskVars
    BY <1>1, <1>2, <2>1 DEF TaskTypes, CallsHaveArguments, SourcesAreReal
  <2>2. ASSUME NEW g \in Goroutines, Submit(g, p)
        PROVE  TaskTypes'
    <3>1. Inbox(p) \in Real /\ Inbox(p) \in Places
      BY RealIsNotNowhere DEF Real, Inboxes
    <3>2. pc' \in [Goroutines -> Calls] /\ at' \in [Goroutines -> Places]
      BY <1>1, <2>2, <3>1 DEF Submit, TaskTypes, Calls
    <3>3. CallsHaveArguments'
      BY <1>1, <1>2, <2>2, <3>1 DEF Submit, TaskTypes, CallsHaveArguments
    <3> QED BY <1>1, <1>2, <2>2, <3>2, <3>3 DEF Submit, TaskTypes, SourcesAreReal
  <2> QED BY <2>1, <2>2 DEF Check, CheckNothing, CheckChanged, CheckTooOld, CheckStable
<1> QED BY <1>1, <1>2, <1>4, <1>5 DEF TypeInv, TypeOK, WatchTypes, TaskTypes, OtherTypes

LEMMA WorkStep ==
  ASSUME TypeInv, NEW b \in Bodies, Work(b)
  PROVE  TypeInv'
<1> USE DEF fileVars, watchVars, taskVars, storeVars, keptVars
<1>1. WatchTypes /\ TaskTypes /\ OtherTypes
  BY TypeParts
<1>2. place' \in [Files -> Places] /\ events' \in Seq({"change", "remove"} \X Paths)
  <2>1. CASE UNCHANGED <<place, events>>
    BY <1>1, <2>1 DEF WatchTypes
  <2>2. ASSUME NEW f \in FilesAt(source[b]), NEW n \in Copies, "processed" \in dirs,
               MoveTo(f, <<"processed", Name(place[f]), n>>)
        PROVE  place' \in [Files -> Places] /\ events' \in Seq({"change", "remove"} \X Paths)
    <3>1. f \in Files /\ place[f] = source[b] /\ place[f] \in Real
      BY <1>1 DEF Work, FilesAt, TaskTypes, SourcesAreReal
    <3>2. <<"processed", Name(place[f]), n>> \in Folders
      BY <2>2, <3>1, TargetInFolders
    <3> QED BY <2>2, <3>1, <3>2, MoveType DEF TypeInv
  <2> QED BY <2>1, <2>2 DEF Work
<1>3. WatchTypes'
  BY <1>1, <1>2 DEF Work, WatchTypes, VersionsAreWrites
<1>4. job' \in [Bodies -> JobStatus] /\ SourcesAreReal'
  BY <1>1 DEF Work, TaskTypes, JobStatus, SourcesAreReal
<1>5. archive' \in [Bodies -> Bodies \cup {NoBody}]
  BY <1>1, BodyType DEF Work, TaskTypes, FilesAt
<1>6. TaskTypes'
  BY <1>1, <1>4, <1>5 DEF Work, TaskTypes, CallsHaveArguments
<1>7. OtherTypes'
  BY <1>1 DEF Work, OtherTypes
<1> QED BY <1>3, <1>6, <1>7 DEF TypeInv, TypeOK, WatchTypes, TaskTypes, OtherTypes

LEMMA FaultStep ==
  ASSUME TypeInv, TimerInv',
         Overflow \/ Crash \/ \E g \in Goroutines : MoveFails(g) \/ StoreFails(g)
  PROVE  TypeInv'
<1> USE DEF fileVars, watchVars, taskVars, storeVars, keptVars
<1>1. WatchTypes /\ TaskTypes /\ OtherTypes
  BY TypeParts
<1>2. faults' \in 0..MaxFaults
  BY <1>1, WatcherAssumption DEF Overflow, Crash, MoveFails, StoreFails, Fault, OtherTypes
<1>3. OtherTypes'
  <2>1. hit' \subseteq Files
    BY <1>1 DEF Overflow, Crash, MoveFails, StoreFails, FilesAt, FilesOf, OtherTypes
  <2>2. UNCHANGED keptVars
    BY DEF Overflow, Crash, MoveFails, StoreFails
  <2> QED BY <1>1, <1>2, <2>1, <2>2 DEF OtherTypes
<1>4. Nowhere \in Places
  BY DEF Places
<1>5. WatchTypes'
  <2>1. UNCHANGED <<place, version>> /\ up' \in BOOLEAN
    BY <1>1 DEF Overflow, Crash, MoveFails, StoreFails, WatchTypes
  <2>2. events' \in Seq({"change", "remove"} \X Paths)
    BY <1>1, EventsLeft DEF Overflow, Crash, MoveFails, StoreFails, WatchTypes
  <2>3. pending' \in [Paths -> [file : SUBSET Files, seen : Nat, age : Ages]]
    BY <1>1, NotPendingInRange DEF Overflow, Crash, MoveFails, StoreFails, WatchTypes
  <2> QED BY <1>1, <2>1, <2>2, <2>3 DEF WatchTypes, VersionsAreWrites, TimerInv
<1>6. TaskTypes'
  <2>1. UNCHANGED <<raced, source, job, archive>>
    BY DEF Overflow, Crash, MoveFails, StoreFails
  <2>2. CASE UNCHANGED <<pc, at, dst, body>>
    BY <1>1, <2>1, <2>2 DEF TaskTypes, CallsHaveArguments, SourcesAreReal
  <2>3. ASSUME NEW g \in Goroutines, Done(g)
        PROVE  TaskTypes'
    <3>1. /\ pc' \in [Goroutines -> Calls]
          /\ at' \in [Goroutines -> Places] /\ dst' \in [Goroutines -> Places]
          /\ body' \in [Goroutines -> Bodies \cup {NoBody}]
      BY <1>1, <1>4, <2>3 DEF TaskTypes, Done, Goto, Calls
    <3>2. CallsHaveArguments'
      BY <1>1, <2>1, <2>3 DEF TaskTypes, CallsHaveArguments, Done, Goto
    <3> QED BY <1>1, <2>1, <3>1, <3>2 DEF TaskTypes, SourcesAreReal
  <2>4. ASSUME NEW g \in Goroutines, StoreFails(g)
        PROVE  TaskTypes'
    <3>1. pc' \in [Goroutines -> Calls]
      BY <1>1, <2>4 DEF StoreFails, TaskTypes, Goto, Calls
    <3>2. CallsHaveArguments'
      BY <1>1, <2>4 DEF StoreFails, TaskTypes, CallsHaveArguments, Goto
    <3> QED BY <1>1, <2>1, <2>4, <3>1, <3>2 DEF StoreFails, TaskTypes, SourcesAreReal
  <2>5. CASE Crash
    BY <1>1, <1>4, <2>1, <2>5 DEF Crash, TaskTypes, CallsHaveArguments, SourcesAreReal, Calls
  <2> QED BY <2>2, <2>3, <2>4, <2>5 DEF Overflow, MoveFails
<1> QED BY <1>3, <1>5, <1>6 DEF TypeInv, TypeOK, WatchTypes, TaskTypes, OtherTypes

LEMMA TypeInvariant == Spec => []TypeInv
<1>1. Init => TypeInv
  BY WatchTypesInit, TypeParts
<1>2. TypeInv /\ TimerInv' /\ [Next]_vars => TypeInv'
  <2> SUFFICES ASSUME TypeInv, TimerInv', [Next]_vars
               PROVE  TypeInv'
    OBVIOUS
  <2>1. CASE UNCHANGED vars
    BY <2>1 DEF vars, fileVars, watchVars, taskVars, storeVars, keptVars, TypeInv, TypeOK,
       CallsHaveArguments, SourcesAreReal, VersionsAreWrites
  <2> QED BY <2>1, UserStep, LoopStep, CheckStep, CallStep, WorkStep, FaultStep DEF Next
<1> QED BY <1>1, <1>2, TimerInvariant, PTL DEF Spec

(* Every variable keeps its type: a goroutine at work is about a path, a   *)
(* move has a name in a folder as its target, the store knows no path but  *)
(* those of the inbox and the folders, and no file is written more often   *)
(* than its bound allows (watcher.go:206-432).                             *)
THEOREM WatcherTypes == Spec => []TypeOK
<1>1. TypeInv => TypeOK
  BY DEF TypeInv
<1> QED BY <1>1, TypeInvariant, PTL

-----------------------------------------------------------------------------
(* Losses and the archive.                                                 *)

(* Nothing but the moved file changes its place when the target is free.   *)
LEMMA MoveToFree ==
  ASSUME TypeOK, NEW f \in Files, NEW target, MoveTo(f, target), ~ Occupied(target)
  PROVE  \A x \in Files : place'[x] = IF x = f THEN target ELSE place[x]
BY DEF TypeOK, MoveTo, Occupied, FilesAt

(* A target that is looked up is free, and the race is noticed.            *)
LEMMA TargetLooksFree ==
  ASSUME TypeOK, NEW g \in Goroutines, NEW dir, Target(g, dir)
  PROVE  /\ pc' = [pc EXCEPT ![g] = "rename"]
         /\ dst'[g][1] = dir /\ ~ Occupied(dst'[g])
         /\ \A h \in Goroutines : h # g => dst'[h] = dst[h]
         /\ ~ raced' => /\ ~ raced
                        /\ \A h \in Goroutines : h # g /\ pc[h] = "rename" => dst[h] # dst'[g]
         /\ UNCHANGED <<at, body>>
<1>1. PICK n \in Copies : /\ FirstFree(dir, Name(at[g]), n)
                          /\ dst' = [dst EXCEPT ![g] = <<dir, Name(at[g]), n>>]
  BY DEF Target
<1>2. dst'[g] = <<dir, Name(at[g]), n>> /\ \A h \in Goroutines : h # g => dst'[h] = dst[h]
  BY <1>1 DEF TypeOK
<1>3. dst'[g][1] = dir /\ ~ Occupied(dst'[g])
  BY <1>1, <1>2 DEF FirstFree
<1>4. ~ raced' => ~ raced /\ \A h \in Goroutines : h # g /\ pc[h] = "rename" => dst[h] # dst'[g]
  BY DEF Target
<1> QED BY <1>2, <1>3, <1>4 DEF Target, Goto

(* A race that was seen is not forgotten.                                  *)
LEMMA RacesStay ==
  ASSUME TypeOK, [Next]_vars
  PROVE  raced => raced'
<1>1. raced' = raced \/ \E g \in Goroutines, dir \in {"processing", "failed"} : Target(g, dir)
  BY DEF Next, Drop, Write, Remove, Tick, Start, HandleEvent, Check, CheckNothing, CheckChanged,
         CheckTooOld, CheckStable, Submit, Call, MoveToProcessing, Rename, Detect, CreateOrGet,
         EnqueueJob, EnqueueSkippedJob, HandlePreQueueFailure, MoveFails, StoreFails, Work,
         Overflow, Crash, vars, fileVars, watchVars, taskVars, storeVars, keptVars
<1> QED BY <1>1, TargetLooksFree

(* A target of a rename is in a folder files are moved to before or after  *)
(* the queue, never in the inbox.                                          *)
LEMMA LossStep ==
  ASSUME TypeInv, LossInv, [Next]_vars
  PROVE  LossInv'
<1> USE DEF fileVars, watchVars, taskVars, storeVars, keptVars
<1> SUFFICES ASSUME ~ raced'
             PROVE  (\A f \in Files : place'[f] # Lost) /\ TargetsAreFree'
  BY DEF LossInv
<1> DEFINE Goal == (\A f \in Files : place'[f] # Lost) /\ TargetsAreFree'
<1>1. TypeOK
  BY DEF TypeInv
<1>2. ~ raced
  BY <1>1, RacesStay
<1>3. (\A f \in Files : place[f] # Lost) /\ TargetsAreFree
  BY <1>2 DEF LossInv
<1> USE DEF Goal
<1>4. ASSUME UNCHANGED <<place, dst>>, \A g \in Goroutines : pc'[g] = "rename" => pc[g] = "rename"
      PROVE  Goal
  BY <1>3, <1>4 DEF TargetsAreFree, Occupied, FilesAt
<1>5. ASSUME UNCHANGED place, NEW g \in Goroutines, Done(g)
      PROVE  Goal
  <2>1. \A h \in Goroutines : pc'[h] = "rename" => h # g /\ pc[h] = "rename" /\ dst'[h] = dst[h]
    BY <1>1, <1>5 DEF Done, Goto, TypeOK
  <2> QED BY <1>3, <1>5, <2>1 DEF TargetsAreFree, Occupied, FilesAt
<1>6. ASSUME NEW f \in Files, NEW place1 \in Inboxes \cup {Nowhere}, UNCHANGED <<pc, dst>>,
             place' = [place EXCEPT ![f] = place1]
      PROVE  Goal
  <2>1. place1[1] \in {"inbox", "nowhere"} /\ place1 # Lost
    BY PlaceTags DEF Inboxes
  <2>2. \A g \in Goroutines : pc[g] = "rename" => dst[g] # place1
    BY <1>3, <2>1 DEF TargetsAreFree
  <2>3. \A x \in Files : place'[x] = IF x = f THEN place1 ELSE place[x]
    BY <1>1, <1>6 DEF TypeOK
  <2> QED BY <1>3, <1>6, <2>1, <2>2, <2>3 DEF TargetsAreFree, Occupied, FilesAt
<1>7. ASSUME NEW f \in Files, NEW target \in Folders, MoveTo(f, target), ~ Occupied(target),
             \A g \in Goroutines : pc'[g] = "rename" =>
                pc[g] = "rename" /\ dst'[g] = dst[g] /\ dst[g] # target
      PROVE  Goal
  <2>1. \A x \in Files : place'[x] = IF x = f THEN target ELSE place[x]
    BY <1>1, <1>7, MoveToFree
  <2>2. target # Lost
    BY RealIsNotNowhere DEF Real
  <2> QED BY <1>3, <1>7, <2>1, <2>2 DEF TargetsAreFree, Occupied, FilesAt
<1>8. ASSUME NEW g \in Goroutines, NEW dir \in {"processing", "failed"}, Target(g, dir),
             UNCHANGED place
      PROVE  Goal
  <2>1. \A h \in Goroutines : pc'[h] = "rename" => h = g \/ (pc[h] = "rename" /\ dst'[h] = dst[h])
    <3>1. pc' = [pc EXCEPT ![g] = "rename"] /\ \A h \in Goroutines : h # g => dst'[h] = dst[h]
      BY <1>1, <1>8, TargetLooksFree
    <3>2. \A h \in Goroutines : h # g => pc'[h] = pc[h]
      BY <1>1, <3>1 DEF TypeOK
    <3> QED BY <3>1, <3>2
  <2>2. /\ dst'[g][1] = dir /\ ~ Occupied(dst'[g])
        /\ \A h \in Goroutines : h # g /\ pc[h] = "rename" => dst[h] # dst'[g]
    BY <1>1, <1>8, TargetLooksFree
  <2> QED BY <1>3, <1>8, <2>1, <2>2 DEF TargetsAreFree, Occupied, FilesAt
<1>9. ASSUME NEW f \in Files, Drop(f) \/ Write(f) \/ Remove(f)
      PROVE  Goal
  <2>1. Inbox(PathOf[f]) \in Inboxes
    BY WatcherAssumption DEF Inboxes
  <2> QED BY <1>4, <1>6, <1>9, <2>1 DEF Drop, Write, Remove
<1>10. CASE Tick \/ Start \/ HandleEvent \/ Overflow
  BY <1>4, <1>10 DEF Tick, Start, HandleEvent, Overflow
<1>11. ASSUME NEW p \in Paths, Check(p)
       PROVE  Goal
  <2>1. UNCHANGED <<place, dst>> /\ \A g \in Goroutines : pc'[g] = "rename" => pc[g] = "rename"
    BY <1>1, <1>11 DEF Check, CheckNothing, CheckChanged, CheckTooOld, CheckStable, Due, Submit, TypeOK
  <2> QED BY <1>4, <2>1
<1>12. ASSUME NEW g \in Goroutines, Call(g)
       PROVE  Goal
  <2>1. CASE MoveToProcessing(g)
    <3>1. CASE "processing" \in dirs
      BY <1>8, <2>1, <3>1 DEF MoveToProcessing
    <3>2. CASE "processing" \notin dirs
      BY <1>1, <1>4, <2>1, <3>2 DEF MoveToProcessing, Goto, TypeOK
    <3> QED BY <3>1, <3>2
  <2>2. CASE Rename(g) /\ Occupied(at[g])
    <3>1. PICK f \in Files : MoveTo(f, dst[g])
      BY <2>2 DEF Rename, Occupied, FilesAt
    <3>2. dst[g] \in Folders /\ ~ Occupied(dst[g])
      BY <1>3, <2>2 DEF Rename, TypeInv, CallsHaveArguments, TargetsAreFree
    <3>3. \A h \in Goroutines : pc'[h] = "rename" => h # g /\ pc[h] = "rename" /\ dst'[h] = dst[h]
      BY <1>1, <2>2 DEF Rename, Done, Goto, TypeOK
    <3>4. \A h \in Goroutines : h # g /\ pc[h] = "rename" => dst[h] # dst[g]
      BY <1>3, <2>2 DEF Rename, TargetsAreFree
    <3> QED BY <1>7, <3>1, <3>2, <3>3, <3>4
  <2>3. CASE Rename(g) /\ ~ Occupied(at[g])
    BY <1>5, <2>3 DEF Rename
  <2>4. CASE Detect(g) \/ CreateOrGet(g)
    BY <1>1, <1>4, <2>4 DEF Detect, CreateOrGet, Goto, TypeOK
  <2>5. CASE EnqueueJob(g) \/ EnqueueSkippedJob(g)
    BY <1>5, <2>5 DEF EnqueueJob, EnqueueSkippedJob
  <2>6. CASE HandlePreQueueFailure(g)
    BY <1>5, <1>8, <2>6 DEF HandlePreQueueFailure
  <2> QED BY <1>12, <2>1, <2>2, <2>3, <2>4, <2>5, <2>6 DEF Call
<1>13. ASSUME NEW g \in Goroutines, MoveFails(g) \/ StoreFails(g)
       PROVE  Goal
  <2>1. CASE MoveFails(g)
    BY <1>5, <2>1 DEF MoveFails
  <2>2. CASE StoreFails(g)
    BY <1>1, <1>4, <2>2 DEF StoreFails, Goto, TypeOK
  <2> QED BY <1>13, <2>1, <2>2
<1>14. ASSUME NEW b \in Bodies, Work(b)
       PROVE  Goal
  <2>1. CASE UNCHANGED place
    BY <1>4, <1>14, <2>1 DEF Work
  <2>2. ASSUME NEW f \in FilesAt(source[b]), NEW n \in Copies, "processed" \in dirs,
               FirstFree("processed", Name(place[f]), n),
               MoveTo(f, <<"processed", Name(place[f]), n>>), job[b] = "queued"
        PROVE  Goal
    <3> DEFINE target == <<"processed", Name(place[f]), n>>
    <3>1. f \in Files /\ place[f] \in Real
      BY <2>2 DEF FilesAt, TypeInv, SourcesAreReal
    <3>2. target \in Folders /\ target[1] = "processed" /\ ~ Occupied(target)
      BY <2>2, <3>1, TargetInFolders DEF FirstFree
    <3>3. \A g \in Goroutines : pc[g] = "rename" => dst[g] # target
      BY <1>3, <3>2 DEF TargetsAreFree
    <3>4. UNCHANGED <<pc, dst>>
      BY <1>14 DEF Work
    <3> HIDE DEF target
    <3>5. MoveTo(f, target)
      BY <2>2 DEF target
    <3> QED BY <1>7, <3>1, <3>2, <3>3, <3>4, <3>5
  <2> QED BY <1>14, <2>1, <2>2 DEF Work
<1>15. CASE Crash
  BY <1>3, <1>15 DEF Crash, TargetsAreFree
<1>16. CASE UNCHANGED vars
  BY <1>4, <1>16 DEF vars
<1> QED BY <1>9, <1>10, <1>11, <1>12, <1>13, <1>14, <1>15, <1>16 DEF Next

LEMMA LossInvariant == Spec => []LossInv
<1>1. Init => LossInv
  BY DEF Init, LossInv, TargetsAreFree, Nowhere, Lost
<1>2. TypeInv /\ LossInv /\ [Next]_vars => LossInv'
  BY LossStep
<1> QED BY <1>1, <1>2, TypeInvariant, PTL DEF Spec

(* No order of drops, moves, jobs, crashes and failed moves lets one file  *)
(* replace another on its way through the folders, unless two moves to     *)
(* one name overlapped: moveFileToDir looks for a free name and renames    *)
(* later (watcher.go:410-425).                                             *)
THEOREM OnlyRacesLose == Spec => []LossNeedsRace
<1>1. LossInv => LossNeedsRace
  BY DEF LossInv, LossNeedsRace
<1> QED BY <1>1, LossInvariant, PTL

LEMMA SingleStep ==
  ASSUME TypeInv, PlacesAreSingle, [Next]_vars
  PROVE  PlacesAreSingle'
<1> USE DEF fileVars, watchVars, taskVars, storeVars, keptVars
<1>1. place \in [Files -> Places]
  BY DEF TypeInv, TypeOK
<1>2. ASSUME UNCHANGED place
      PROVE  PlacesAreSingle'
  BY <1>2 DEF PlacesAreSingle
<1>3. ASSUME NEW f \in Files, NEW target, MoveTo(f, target)
      PROVE  PlacesAreSingle'
  BY <1>1, <1>3 DEF PlacesAreSingle, MoveTo
<1>4. ASSUME NEW f \in Files, Drop(f) \/ Write(f) \/ Remove(f)
      PROVE  PlacesAreSingle'
  <2>1. CASE Drop(f)
    BY <1>1, <2>1 DEF PlacesAreSingle, Drop, Occupied, FilesAt
  <2>2. CASE Remove(f)
    BY <1>1, <2>2 DEF PlacesAreSingle, Remove
  <2> QED BY <1>2, <1>4, <2>1, <2>2 DEF Write
<1>5. CASE Tick \/ Start \/ HandleEvent \/ Overflow \/ Crash
  BY <1>2, <1>5 DEF Tick, Start, HandleEvent, Overflow, Crash
<1>6. ASSUME NEW p \in Paths, Check(p)
      PROVE  PlacesAreSingle'
  BY <1>2, <1>6 DEF Check, CheckNothing, CheckChanged, CheckTooOld, CheckStable, Due
<1>7. ASSUME NEW g \in Goroutines, Call(g) \/ MoveFails(g) \/ StoreFails(g)
      PROVE  PlacesAreSingle'
  <2>1. CASE Rename(g) /\ Occupied(at[g])
    BY <1>3, <2>1 DEF Rename, Occupied, FilesAt
  <2>2. CASE Rename(g) /\ ~ Occupied(at[g])
    BY <1>2, <2>2 DEF Rename
  <2> QED BY <1>2, <1>7, <2>1, <2>2 DEF Call, MoveToProcessing, Detect, CreateOrGet, EnqueueJob,
             EnqueueSkippedJob, HandlePreQueueFailure, MoveFails, StoreFails
<1>8. ASSUME NEW b \in Bodies, Work(b)
      PROVE  PlacesAreSingle'
  <2>1. place' = place \/ \E f \in Files, target \in Folders : MoveTo(f, target)
    <3>1. ASSUME NEW f \in FilesAt(source[b]), NEW n \in Copies, "processed" \in dirs,
                 MoveTo(f, <<"processed", Name(place[f]), n>>), job[b] = "queued"
          PROVE  \E x \in Files, target \in Folders : MoveTo(x, target)
      <4>1. f \in Files /\ place[f] \in Real
        BY <3>1 DEF FilesAt, TypeInv, SourcesAreReal
      <4> QED BY <3>1, <4>1, TargetInFolders
    <3> QED BY <1>8, <3>1 DEF Work
  <2> QED BY <1>2, <1>3, <2>1
<1>9. CASE UNCHANGED vars
  BY <1>2, <1>9 DEF vars
<1> QED BY <1>4, <1>5, <1>6, <1>7, <1>8, <1>9 DEF Next

LEMMA SingleInvariant == Spec => []PlacesAreSingle
<1>1. Init => PlacesAreSingle
  BY DEF Init, PlacesAreSingle
<1>2. TypeInv /\ PlacesAreSingle /\ [Next]_vars => PlacesAreSingle'
  BY SingleStep
<1> QED BY <1>1, <1>2, TypeInvariant, PTL DEF Spec

(* A goroutine that a step does not concern.                                *)
LEMMA HolderStays ==
  ASSUME NEW g \in Goroutines, HolderHasFile(g),
         pc'[g] = pc[g], at'[g] = at[g], dst'[g] = dst[g], body'[g] = body[g],
         Holding(g) /\ at[g][1] = "processing" =>
           /\ Occupied(at[g])'
           /\ \A h \in Goroutines : h # g /\ Holding(h)' =>
                at'[h] # at[g] \/ (Holding(h) /\ at'[h] = at[h])
           /\ \A b \in Bodies : job'[b] = "queued" =>
                source'[b] # at[g] \/ (job[b] = "queued" /\ source'[b] = source[b]),
         pc[g] = "job" => source'[body[g]] = source[body[g]]
  PROVE  HolderHasFile(g)'
<1>1. Holding(g)' <=> Holding(g)
  BY DEF Holding
<1>2. ASSUME Holding(g)', at'[g][1] = "processing"
      PROVE  Occupied(at[g])' /\ AloneAt(g)'
  <2>1. Holding(g) /\ at[g][1] = "processing"
    BY <1>1, <1>2
  <2>2. AloneAt(g)
    BY <2>1 DEF HolderHasFile
  <2>3. ASSUME NEW h \in Goroutines, h # g, Holding(h)'
        PROVE  at'[h] # at'[g]
    <3>1. at'[h] # at[g] \/ (Holding(h) /\ at'[h] = at[h])
      BY <2>1, <2>3, Zenon
    <3>2. Holding(h) => at[h] # at[g]
      BY <2>2, <2>3, Zenon DEF AloneAt
    <3> QED BY <3>1, <3>2
  <2>4. ASSUME NEW b \in Bodies, job'[b] = "queued"
        PROVE  source'[b] # at'[g]
    BY <2>1, <2>2, <2>4, Zenon DEF AloneAt
  <2>5. Occupied(at[g])'
    BY <2>1
  <2> QED BY <2>3, <2>4, <2>5, Zenon DEF AloneAt
<1>3. Holding(g)' => at'[g][1] \in {"inbox", "processing"}
  BY <1>1 DEF HolderHasFile
<1>4. /\ pc'[g] = "move" => at'[g] \in Inboxes
      /\ pc'[g] = "rename" /\ dst'[g][1] # "failed" => at'[g] \in Inboxes
      /\ pc'[g] = "job" => source'[body'[g]] = at'[g]
  BY DEF HolderHasFile
<1> QED BY <1>2, <1>3, <1>4 DEF HolderHasFile, Occupied, FilesAt, Inboxes, Inbox

(* A job that a step does not concern.                                      *)
LEMMA QueuedStays ==
  ASSUME NEW b \in Bodies, QueuedHasPlace(b),
         job'[b] = "queued" =>
           /\ job[b] = "queued" /\ source'[b] = source[b]
           /\ source[b][1] = "processing" =>
                /\ Occupied(source[b])'
                /\ \A c \in Bodies : c # b /\ job'[c] = "queued" =>
                     source'[c] # source[b] \/ (job[c] = "queued" /\ source'[c] = source[c])
  PROVE  QueuedHasPlace(b)'
<1> SUFFICES ASSUME job'[b] = "queued"
             PROVE  /\ source'[b][1] \in {"inbox", "processing"}
                    /\ source'[b][1] = "processing" =>
                         /\ Occupied(source[b])'
                         /\ \A c \in Bodies : c # b /\ job'[c] = "queued" => source'[c] # source'[b]
  BY DEF QueuedHasPlace, Occupied, FilesAt
<1>1. /\ source[b][1] \in {"inbox", "processing"} /\ job[b] = "queued" /\ source'[b] = source[b]
      /\ source[b][1] = "processing" =>
           \A c \in Bodies : c # b /\ job[c] = "queued" => source[c] # source[b]
  BY DEF QueuedHasPlace
<1>2. ASSUME source[b][1] = "processing"
      PROVE  \A c \in Bodies : c # b /\ job'[c] = "queued" => source'[c] # source'[b]
  <2>1. TAKE c \in Bodies
  <2> QED BY <1>1, <1>2, Zenon
<1> QED BY <1>1, <1>2

(* A goroutine at the start of a call holds no file in a folder.            *)
LEMMA AtTheInbox ==
  ASSUME NEW g \in Goroutines,
         \/ pc'[g] = "idle"
         \/ pc'[g] = "move" /\ at'[g] \in Inboxes
         \/ pc'[g] = "rename" /\ dst'[g][1] = "processing" /\ at'[g] \in Inboxes
  PROVE  ~ Holding(g)' /\ HolderHasFile(g)'
BY DEF Holding, HolderHasFile, Inboxes, Inbox

(* A step that leaves the processing folder, the calls and the store alone. *)
LEMMA OutsideKeepsCustody ==
  ASSUME Custody, UNCHANGED <<pc, at, dst, body, source, job>>,
         \A pl : pl[1] = "processing" /\ Occupied(pl) => Occupied(pl)'
  PROVE  Custody'
<1>1. ASSUME NEW g \in Goroutines
      PROVE  HolderHasFile(g)'
  <2>1. HolderHasFile(g)
    BY DEF Custody
  <2>2. Holding(g) /\ at[g][1] = "processing" => Occupied(at[g])'
    <3>1. Holding(g) /\ at[g][1] = "processing" => Occupied(at[g])
      BY <2>1 DEF HolderHasFile
    <3> DEFINE pl == at[g]
    <3>2. pl[1] = "processing" /\ Occupied(pl) => Occupied(pl)'
      OBVIOUS
    <3> QED BY <3>1, <3>2 DEF Occupied, FilesAt
  <2>3. \A h \in Goroutines : Holding(h)' => Holding(h) /\ at'[h] = at[h]
    BY DEF Holding
  <2> QED BY <2>1, <2>2, <2>3, HolderStays
<1>2. ASSUME NEW b \in Bodies
      PROVE  QueuedHasPlace(b)'
  <2>1. QueuedHasPlace(b)
    BY DEF Custody
  <2>2. job[b] = "queued" /\ source[b][1] = "processing" => Occupied(source[b])'
    <3>1. job[b] = "queued" /\ source[b][1] = "processing" => Occupied(source[b])
      BY <2>1 DEF QueuedHasPlace
    <3> QED BY <3>1 DEF Occupied, FilesAt
  <2> QED BY <2>1, <2>2, QueuedStays
<1> QED BY <1>1, <1>2 DEF Custody

(* A step of one goroutine that moves no file: what it holds afterwards in  *)
(* the processing folder it held before, and only it may queue the content  *)
(* it was about to queue.                                                   *)
LEMMA OwnStepKeepsCustody ==
  ASSUME TypeInv, Custody, NEW g \in Goroutines, UNCHANGED place,
         \A h \in Goroutines : h # g => pc'[h] = pc[h] /\ at'[h] = at[h] /\ dst'[h] = dst[h]
                                        /\ body'[h] = body[h],
         HolderHasFile(g)',
         Holding(g)' => at'[g][1] # "processing" \/ (Holding(g) /\ at'[g] = at[g]),
         \A b \in Bodies : job'[b] = job[b] \/ (pc[g] = "job" /\ b = body[g] /\ ~ Holding(g)'),
         \A b \in Bodies : source'[b] = source[b] \/ (source[b] = Nowhere /\ job[b] = "none")
  PROVE  Custody'
<1>1. \A pl : Occupied(pl)' <=> Occupied(pl)
  BY DEF Occupied, FilesAt
<1>2. \A h \in Goroutines : Holding(h)' /\ at'[h][1] = "processing" => Holding(h) /\ at'[h] = at[h]
  BY DEF Holding
<1>3. pc[g] = "job" =>
        /\ body[g] \in Bodies /\ source[body[g]] = at[g] /\ source'[body[g]] = at[g]
        /\ at[g][1] \in {"inbox", "processing"}
        /\ at[g][1] = "processing" => Occupied(at[g]) /\ AloneAt(g)
  <2>1. pc[g] = "job" => body[g] \in Bodies /\ source[body[g]] # Nowhere
    BY RealIsNotNowhere DEF TypeInv, CallsHaveArguments
  <2>2. HolderHasFile(g)
    BY DEF Custody
  <2> QED BY <2>1, <2>2 DEF HolderHasFile, Holding
<1>4. ASSUME NEW h \in Goroutines, h # g
      PROVE  HolderHasFile(h)'
  <2>1. HolderHasFile(h)
    BY DEF Custody
  <2>2. ASSUME Holding(h), at[h][1] = "processing", NEW b \in Bodies, job'[b] = "queued"
        PROVE  source'[b] # at[h] \/ (job[b] = "queued" /\ source'[b] = source[b])
    <3>1. CASE job'[b] = job[b]
      BY <2>2, <3>1
    <3>2. CASE pc[g] = "job" /\ b = body[g]
      <4>1. at[h] # at[g]
        BY <1>3, <1>4, <2>2, <3>2 DEF AloneAt
      <4> QED BY <1>3, <3>2, <4>1
    <3> QED BY <3>1, <3>2
  <2>3. pc[h] = "job" => source'[body[h]] = source[body[h]]
    <3>1. pc[h] = "job" => body[h] \in Bodies /\ source[body[h]] # Nowhere
      BY RealIsNotNowhere DEF TypeInv, CallsHaveArguments
    <3> QED BY <3>1
  <2>4. Holding(h) /\ at[h][1] = "processing" => Occupied(at[h])'
    <3>1. Holding(h) /\ at[h][1] = "processing" => Occupied(at[h])
      BY <2>1 DEF HolderHasFile
    <3> QED BY <1>1, <1>4, <3>1 DEF Occupied, FilesAt
  <2>5. ASSUME Holding(h), at[h][1] = "processing", NEW k \in Goroutines, k # h, Holding(k)'
        PROVE  at'[k] # at[h] \/ (Holding(k) /\ at'[k] = at[k])
    BY <1>2, <2>5
  <2> QED BY <1>4, <2>1, <2>2, <2>3, <2>4, <2>5, HolderStays
<1>5. ASSUME NEW b \in Bodies
      PROVE  QueuedHasPlace(b)'
  <2>1. QueuedHasPlace(b)
    BY DEF Custody
  <2>2. CASE job'[b] = job[b]
    <3>1. job[b] = "queued" => source'[b] = source[b]
      OBVIOUS
    <3>2. job[b] = "queued" /\ source[b][1] = "processing" => Occupied(source[b])'
      <4>1. job[b] = "queued" /\ source[b][1] = "processing" => Occupied(source[b])
        BY <2>1 DEF QueuedHasPlace
      <4> QED BY <3>1, <4>1 DEF Occupied, FilesAt
    <3>3. ASSUME job[b] = "queued", source[b][1] = "processing",
                 NEW c \in Bodies, c # b, job'[c] = "queued"
          PROVE  source'[c] # source[b] \/ (job[c] = "queued" /\ source'[c] = source[c])
      <4>1. CASE job'[c] = job[c]
        BY <3>3, <4>1
      <4>2. CASE pc[g] = "job" /\ c = body[g]
        <5>1. source[b] # at[g]
          BY <1>3, <3>3, <4>2 DEF AloneAt
        <5> QED BY <1>3, <4>2, <5>1
      <4> QED BY <4>1, <4>2
    <3> QED BY <2>1, <2>2, <3>1, <3>2, <3>3, QueuedStays
  <2>3. CASE pc[g] = "job" /\ b = body[g]
    <3>1. source'[b] = at[g] /\ at[g][1] \in {"inbox", "processing"}
      BY <1>3, <2>3
    <3>2. at[g][1] = "processing" => Occupied(source[b])'
      <4>1. at[g][1] = "processing" => Occupied(at[g])
        BY <1>3, <2>3
      <4> QED BY <3>1, <4>1 DEF Occupied, FilesAt
    <3>3. ASSUME at[g][1] = "processing", NEW c \in Bodies, c # b, job'[c] = "queued"
          PROVE  source'[c] # source'[b]
      <4>1. job[c] = "queued" /\ source'[c] = source[c]
        BY <2>3, <3>3
      <4>2. source[c] # at[g]
        BY <1>3, <2>3, <3>3, <4>1 DEF AloneAt
      <4> QED BY <3>1, <4>1, <4>2
    <3> QED BY <3>1, <3>2, <3>3 DEF QueuedHasPlace
  <2> QED BY <2>2, <2>3
<1> QED BY <1>4, <1>5 DEF Custody

(* A goroutine's steps other than the rename.                               *)
LEMMA CallKeepsCustody ==
  ASSUME TypeInv, Custody, NEW g \in Goroutines, ~ Rename(g),
         Call(g) \/ MoveFails(g) \/ StoreFails(g)
  PROVE  Custody'
<1> USE DEF fileVars, watchVars, taskVars, storeVars, keptVars
<1>1. TypeOK /\ HolderHasFile(g)
  BY DEF TypeInv, Custody
<1>2. UNCHANGED place
  BY DEF Call, MoveToProcessing, Detect, CreateOrGet, EnqueueJob, EnqueueSkippedJob,
         HandlePreQueueFailure, MoveFails, StoreFails
<1>3. \A h \in Goroutines : h # g => pc'[h] = pc[h] /\ at'[h] = at[h] /\ dst'[h] = dst[h]
                                     /\ body'[h] = body[h]
  BY <1>1, TargetLooksFree DEF TypeOK, Call, MoveToProcessing, Detect, CreateOrGet, EnqueueJob,
     EnqueueSkippedJob, HandlePreQueueFailure, MoveFails, StoreFails, Done, Goto, Target
<1>4. \A b \in Bodies : job'[b] = job[b] \/ (pc[g] = "job" /\ b = body[g] /\ EnqueueJob(g))
  BY <1>1 DEF TypeOK, Call, MoveToProcessing, Detect, CreateOrGet, EnqueueJob, EnqueueSkippedJob,
     HandlePreQueueFailure, MoveFails, StoreFails
<1>5. \A b \in Bodies : source'[b] = source[b] \/ (source[b] = Nowhere /\ job[b] = "none")
  <2>1. \A b \in Bodies : source[b] = Nowhere => job[b] = "none"
    BY RealIsNotNowhere DEF TypeInv, SourcesAreReal
  <2> QED BY <1>1, <2>1 DEF TypeOK, Call, MoveToProcessing, Detect, CreateOrGet, EnqueueJob,
             EnqueueSkippedJob, HandlePreQueueFailure, MoveFails, StoreFails
<1> DEFINE Goal == /\ HolderHasFile(g)'
                   /\ Holding(g)' => at'[g][1] # "processing" \/ (Holding(g) /\ at'[g] = at[g])
                   /\ EnqueueJob(g) => ~ Holding(g)'
<1>6. Goal
  <2>1. ASSUME Done(g)
        PROVE  Goal
    <3>1. pc'[g] = "idle"
      BY <1>1, <2>1 DEF Done, Goto, TypeOK
    <3> QED BY <3>1, AtTheInbox
  <2>2. ASSUME Holding(g), UNCHANGED <<at, job>>, ~ EnqueueJob(g),
               \/ pc'[g] \in {"create", "skip", "giveup"}
               \/ pc'[g] = "job" /\ source'[body'[g]] = at[g]
               \/ pc'[g] = "rename" /\ dst'[g][1] = "failed"
        PROVE  Goal
    <3>1. at'[g][1] \in {"inbox", "processing"}
      BY <1>1, <2>2 DEF HolderHasFile
    <3>2. ASSUME at'[g][1] = "processing"
          PROVE  Occupied(at[g])' /\ AloneAt(g)'
      <4>1. at[g][1] = "processing" /\ Occupied(at[g]) /\ AloneAt(g)
        BY <1>1, <2>2, <3>2 DEF HolderHasFile
      <4>2. Occupied(at[g])'
        BY <1>2, <2>2, <4>1 DEF Occupied, FilesAt
      <4>3. ASSUME NEW h \in Goroutines, h # g, Holding(h)'
            PROVE  at'[h] # at'[g]
        <5>1. Holding(h) /\ at'[h] = at[h]
          BY <1>3, <4>3 DEF Holding
        <5> QED BY <2>2, <4>1, <4>3, <5>1 DEF AloneAt
      <4>4. ASSUME NEW b \in Bodies, job'[b] = "queued"
            PROVE  source'[b] # at'[g]
        <5>1. job[b] = "queued" /\ source'[b] = source[b]
          BY <1>5, <2>2, <4>4
        <5> QED BY <2>2, <4>1, <5>1 DEF AloneAt
      <4> QED BY <4>2, <4>3, <4>4, Zenon DEF AloneAt
    <3>3. pc'[g] # "move" /\ (pc'[g] = "rename" => dst'[g][1] = "failed")
      BY <2>2
    <3>4. pc'[g] = "job" => source'[body'[g]] = at'[g]
      BY <2>2
    <3>5. HolderHasFile(g)'
      BY <3>1, <3>2, <3>3, <3>4 DEF HolderHasFile
    <3> QED BY <2>2, <3>5
  <2>3. CASE MoveToProcessing(g)
    <3>1. CASE "processing" \in dirs
      <4>1. Target(g, "processing") /\ pc[g] = "move"
        BY <2>3, <3>1 DEF MoveToProcessing
      <4>2. pc'[g] = "rename" /\ dst'[g][1] = "processing" /\ at'[g] \in Inboxes
        BY <1>1, <4>1, TargetLooksFree DEF TypeOK, HolderHasFile
      <4>3. ~ EnqueueJob(g)
        BY <4>1 DEF EnqueueJob
      <4> QED BY <4>2, <4>3, AtTheInbox
    <3>2. CASE "processing" \notin dirs
      <4>1. pc'[g] = "detect" /\ at'[g] = at[g] /\ pc[g] = "move"
        BY <1>1, <2>3, <3>2 DEF MoveToProcessing, Goto, TypeOK
      <4>2. at'[g][1] = "inbox"
        BY <1>1, <4>1, PlaceTags DEF HolderHasFile, Inboxes
      <4>3. HolderHasFile(g)'
        BY <4>1, <4>2 DEF HolderHasFile
      <4>4. ~ EnqueueJob(g)
        BY <4>1 DEF EnqueueJob
      <4> QED BY <4>2, <4>3, <4>4
    <3> QED BY <3>1, <3>2
  <2>4. CASE Detect(g)
    <3>1. Holding(g) /\ UNCHANGED <<at, job>> /\ ~ EnqueueJob(g)
      BY <2>4 DEF Detect, Holding, EnqueueJob
    <3>2. pc'[g] \in {"create", "giveup"}
      BY <1>1, <2>4 DEF Detect, Goto, TypeOK
    <3> QED BY <2>2, <3>1, <3>2
  <2>5. CASE CreateOrGet(g)
    <3>1. Holding(g) /\ UNCHANGED <<at, job, body>> /\ ~ EnqueueJob(g)
      BY <2>5 DEF CreateOrGet, Holding, EnqueueJob
    <3>2. body[g] \in Bodies
      BY <2>5 DEF CreateOrGet, TypeInv, CallsHaveArguments
    <3>3. pc'[g] = "skip" \/ (pc'[g] = "job" /\ source'[body'[g]] = at[g])
      BY <1>1, <2>5, <3>2 DEF CreateOrGet, Goto, TypeOK
    <3> QED BY <2>2, <3>1, <3>3
  <2>6. CASE HandlePreQueueFailure(g)
    <3>1. Holding(g) /\ UNCHANGED job /\ ~ EnqueueJob(g)
      BY <2>6 DEF HandlePreQueueFailure, Holding, EnqueueJob
    <3>2. ASSUME Target(g, "failed")
          PROVE  Goal
      <4>1. pc'[g] = "rename" /\ dst'[g][1] = "failed" /\ UNCHANGED at
        BY <1>1, <3>2, TargetLooksFree DEF TypeOK
      <4> QED BY <2>2, <3>1, <4>1
    <3> QED BY <2>1, <2>6, <3>2 DEF HandlePreQueueFailure
  <2>7. CASE StoreFails(g)
    <3>1. Holding(g) /\ UNCHANGED <<at, job>>
      BY <2>7 DEF StoreFails, Holding
    <3>2. pc'[g] = "giveup"
      BY <1>1, <2>7 DEF StoreFails, Goto, TypeOK
    <3>3. ~ EnqueueJob(g)
      BY <1>1, <3>2 DEF EnqueueJob, Done, Goto, TypeOK
    <3> QED BY <2>2, <3>1, <3>2, <3>3
  <2>8. CASE EnqueueJob(g) \/ EnqueueSkippedJob(g) \/ MoveFails(g)
    BY <2>1, <2>8 DEF EnqueueJob, EnqueueSkippedJob, MoveFails
  <2> QED BY <2>3, <2>4, <2>5, <2>6, <2>7, <2>8 DEF Call
<1> QED BY <1>2, <1>3, <1>4, <1>5, <1>6, OwnStepKeepsCustody

(* A move to a free target leaves the other places as they were.            *)
LEMMA MoveOutKeeps ==
  ASSUME TypeOK, NEW f \in Files, NEW target, MoveTo(f, target), ~ Occupied(target),
         NEW pl, pl # place[f], pl # target
  PROVE  \A x \in Files : place'[x] = pl <=> place[x] = pl
<1>1. \A x \in Files : place'[x] = IF x = f THEN target ELSE place[x]
  BY MoveToFree
<1> QED BY <1>1

(* Nobody is at a free place of a folder, and nothing on record is there.   *)
LEMMA NobodyAtFree ==
  ASSUME Custody, NEW target \in Folders, ~ Occupied(target)
  PROVE  /\ \A g \in Goroutines : Holding(g) => at[g] # target
         /\ \A b \in Bodies : job[b] = "queued" => source[b] # target
<1>1. target[1] # "inbox"
  BY PlaceTags
<1>2. ASSUME NEW g \in Goroutines, Holding(g)
      PROVE  at[g] # target
  <2>1. HolderHasFile(g)
    BY DEF Custody
  <2> QED BY <1>1, <1>2, <2>1 DEF HolderHasFile
<1>3. ASSUME NEW b \in Bodies, job[b] = "queued"
      PROVE  source[b] # target
  <2>1. QueuedHasPlace(b)
    BY DEF Custody
  <2> QED BY <1>1, <1>3, <2>1 DEF QueuedHasPlace
<1> QED BY <1>2, <1>3

LEMMA RenameKeepsCustody ==
  ASSUME TypeInv, TargetsAreFree, Custody, NEW g \in Goroutines, Rename(g)
  PROVE  Custody'
<1> USE DEF fileVars, watchVars, taskVars, storeVars, keptVars
<1>1. TypeOK /\ HolderHasFile(g) /\ pc[g] = "rename" /\ dst[g] \in Folders
  BY DEF TypeInv, Custody, Rename, CallsHaveArguments
<1>2. /\ ~ Occupied(dst[g]) /\ dst[g][1] \in {"processing", "failed"}
      /\ at[g] \in Inboxes \/ (dst[g][1] = "failed" /\ Holding(g))
  BY <1>1 DEF TargetsAreFree, HolderHasFile, Holding
<1>3. UNCHANGED <<source, job>>
  BY DEF Rename
<1>4. \A h \in Goroutines : h # g => pc'[h] = pc[h] /\ at'[h] = at[h] /\ dst'[h] = dst[h]
                                     /\ body'[h] = body[h]
  BY <1>1 DEF Rename, Done, Goto, TypeOK
<1>5. CASE ~ Occupied(at[g])
  <2>1. Done(g) /\ UNCHANGED place
    BY <1>5 DEF Rename
  <2>2. pc'[g] = "idle"
    BY <1>1, <2>1 DEF Done, Goto, TypeOK
  <2>3. ~ Holding(g)' /\ HolderHasFile(g)'
    BY <2>2, AtTheInbox
  <2> QED BY <1>3, <1>4, <2>1, <2>3, OwnStepKeepsCustody
<1>6. CASE Occupied(at[g])
  <2>1. PICK f \in Files : place[f] = at[g] /\ MoveTo(f, dst[g])
    BY <1>6 DEF Rename, Occupied, FilesAt
  <2>2. \A x \in Files : place'[x] = IF x = f THEN dst[g] ELSE place[x]
    BY <1>1, <1>2, <2>1, MoveToFree
  <2>3. ASSUME NEW pl, pl[1] = "processing", Occupied(pl), Holding(g) => pl # at[g]
        PROVE  \E x \in Files : place'[x] = pl
    <3>1. pl # at[g]
      BY <1>2, <2>3, PlaceTags DEF Inboxes
    <3>2. PICK x \in Files : place[x] = pl
      BY <2>3 DEF Occupied, FilesAt
    <3> QED BY <2>1, <2>2, <3>1, <3>2
  <2>4. /\ \A h \in Goroutines : Holding(h) => at[h] # dst[g]
        /\ \A b \in Bodies : job[b] = "queued" => source[b] # dst[g]
    BY <1>1, <1>2, NobodyAtFree
  <2>5. Holding(g)' => at'[g] = dst[g]
    BY <1>1, <1>6 DEF Rename, Done, Goto, TypeOK, Holding
  <2>6. HolderHasFile(g)'
    <3>1. CASE dst[g][1] = "processing"
      <4>1. pc'[g] = "detect" /\ at'[g] = dst[g]
        BY <1>1, <1>6, <3>1 DEF Rename, Goto, TypeOK
      <4>2. Occupied(at[g])'
        BY <2>2, <4>1 DEF Occupied, FilesAt
      <4>3. \A h \in Goroutines : h # g /\ Holding(h)' => at'[h] # at'[g]
        BY <1>4, <2>4, <4>1 DEF Holding
      <4>4. \A b \in Bodies : job'[b] = "queued" => source'[b] # at'[g]
        BY <1>3, <2>4, <4>1
      <4> QED BY <3>1, <4>1, <4>2, <4>3, <4>4 DEF HolderHasFile, AloneAt
    <3>2. CASE dst[g][1] = "failed"
      <4>1. pc'[g] = "idle"
        BY <1>1, <1>6, <3>2 DEF Rename, Done, Goto, TypeOK
      <4> QED BY <4>1, AtTheInbox
    <3> QED BY <1>2, <3>1, <3>2
  <2>7. ASSUME NEW h \in Goroutines, h # g
        PROVE  HolderHasFile(h)'
    <3>1. HolderHasFile(h)
      BY DEF Custody
    <3>2. ASSUME Holding(h), at[h][1] = "processing"
          PROVE  Occupied(at[h])'
      <4>1. Occupied(at[h]) /\ AloneAt(h)
        BY <3>1, <3>2 DEF HolderHasFile
      <4>2. Holding(g) => at[h] # at[g]
        BY <2>7, <4>1 DEF AloneAt
      <4>3. \E x \in Files : place'[x] = at[h]
        BY <2>3, <3>2, <4>1, <4>2
      <4> QED BY <1>4, <2>7, <4>3 DEF Occupied, FilesAt
    <3>3. \A k \in Goroutines : k # h /\ Holding(k)' /\ Holding(h) =>
             at'[k] # at[h] \/ (Holding(k) /\ at'[k] = at[k])
      BY <1>4, <2>4, <2>5, <2>7 DEF Holding
    <3> QED BY <1>3, <1>4, <2>7, <3>1, <3>2, <3>3, HolderStays
  <2>8. ASSUME NEW b \in Bodies
        PROVE  QueuedHasPlace(b)'
    <3>1. QueuedHasPlace(b)
      BY DEF Custody
    <3>2. ASSUME job[b] = "queued", source[b][1] = "processing"
          PROVE  Occupied(source[b])'
      <4>1. Occupied(source[b])
        BY <3>1, <3>2 DEF QueuedHasPlace
      <4>2. Holding(g) => source[b] # at[g]
        <5>1. Holding(g) /\ at[g][1] = "processing" => AloneAt(g)
          BY <1>1 DEF HolderHasFile
        <5> QED BY <3>2, <5>1 DEF AloneAt
      <4>3. \E x \in Files : place'[x] = source[b]
        BY <2>3, <3>2, <4>1, <4>2
      <4> QED BY <1>3, <4>3 DEF Occupied, FilesAt
    <3> QED BY <1>3, <3>1, <3>2, QueuedStays
  <2> QED BY <2>6, <2>7, <2>8 DEF Custody
<1> QED BY <1>5, <1>6

LEMMA WorkKeepsCustody ==
  ASSUME TypeInv, Custody, NEW b \in Bodies, Work(b)
  PROVE  Custody'
<1> USE DEF fileVars, watchVars, taskVars, storeVars, keptVars
<1>1. TypeOK /\ QueuedHasPlace(b) /\ job[b] = "queued"
  BY DEF TypeInv, Custody, Work
<1>2. UNCHANGED <<pc, at, dst, body, source>>
  BY DEF Work
<1>3. \A c \in Bodies : (c = b => job'[c] # "queued") /\ (c # b => job'[c] = job[c])
  BY <1>1 DEF Work, TypeOK
<1>4. ASSUME NEW pl, pl[1] = "processing", Occupied(pl), pl # source[b]
      PROVE  \E x \in Files : place'[x] = pl
  <2>1. PICK x \in Files : place[x] = pl
    BY <1>4 DEF Occupied, FilesAt
  <2>2. CASE UNCHANGED place
    BY <2>1, <2>2
  <2>3. ASSUME NEW f \in FilesAt(source[b]), NEW n \in Copies,
               FirstFree("processed", Name(place[f]), n),
               MoveTo(f, <<"processed", Name(place[f]), n>>)
        PROVE  place'[x] = pl
    <3> DEFINE target == <<"processed", Name(place[f]), n>>
    <3>1. target[1] = "processed" /\ ~ Occupied(target) /\ MoveTo(f, target)
      BY <2>3 DEF FirstFree
    <3>2. f \in Files /\ place[f] = source[b]
      BY DEF FilesAt
    <3> HIDE DEF target
    <3> QED BY <1>1, <1>4, <2>1, <3>1, <3>2, MoveOutKeeps
  <2> QED BY <2>1, <2>2, <2>3 DEF Work
<1>5. ASSUME NEW g \in Goroutines
      PROVE  HolderHasFile(g)'
  <2>1. HolderHasFile(g)
    BY DEF Custody
  <2>2. ASSUME Holding(g), at[g][1] = "processing"
        PROVE  Occupied(at[g])'
    <3>1. Occupied(at[g]) /\ source[b] # at[g]
      BY <1>1, <2>1, <2>2 DEF HolderHasFile, AloneAt
    <3>2. \E x \in Files : place'[x] = at[g]
      BY <1>4, <2>2, <3>1
    <3> QED BY <1>2, <3>2 DEF Occupied, FilesAt
  <2>3. \A h \in Goroutines : Holding(h)' <=> Holding(h)
    BY <1>2 DEF Holding
  <2>4. \A c \in Bodies : job'[c] = "queued" => job[c] = "queued"
    BY <1>3
  <2> QED BY <1>2, <2>1, <2>2, <2>3, <2>4, HolderStays
<1>6. ASSUME NEW c \in Bodies
      PROVE  QueuedHasPlace(c)'
  <2>1. QueuedHasPlace(c)
    BY DEF Custody
  <2>2. \A d \in Bodies : job'[d] = "queued" => job[d] = "queued" /\ d # b
    BY <1>3
  <2>3. ASSUME c # b, job[c] = "queued", source[c][1] = "processing"
        PROVE  Occupied(source[c])'
    <3>1. Occupied(source[c]) /\ source[b] # source[c]
      BY <1>1, <2>1, <2>3 DEF QueuedHasPlace
    <3>2. \E x \in Files : place'[x] = source[c]
      BY <1>4, <2>3, <3>1
    <3> QED BY <1>2, <3>2 DEF Occupied, FilesAt
  <2> QED BY <1>2, <2>1, <2>2, <2>3, QueuedStays
<1> QED BY <1>5, <1>6 DEF Custody

LEMMA CheckKeepsCustody ==
  ASSUME TypeInv, Custody, NEW p \in Paths, Check(p)
  PROVE  Custody'
<1> USE DEF fileVars, watchVars, taskVars, storeVars, keptVars
<1>1. UNCHANGED <<place, source, job>>
  BY DEF Check, CheckNothing, CheckChanged, CheckTooOld, CheckStable, Due
<1>2. CASE UNCHANGED taskVars
  BY <1>1, <1>2, OutsideKeepsCustody DEF Occupied, FilesAt
<1>3. ASSUME NEW g \in Goroutines, Submit(g, p)
      PROVE  Custody'
  <2>1. pc'[g] = "move" /\ at'[g] \in Inboxes
    BY <1>3 DEF Submit, TypeInv, TypeOK, Inboxes
  <2>2. ~ Holding(g)' /\ HolderHasFile(g)'
    BY <2>1, AtTheInbox
  <2>3. \A h \in Goroutines : h # g => pc'[h] = pc[h] /\ at'[h] = at[h] /\ dst'[h] = dst[h]
                                       /\ body'[h] = body[h]
    BY <1>3 DEF Submit, TypeInv, TypeOK
  <2> QED BY <1>1, <2>2, <2>3, OwnStepKeepsCustody
<1> QED BY <1>2, <1>3 DEF Check, CheckNothing, CheckChanged, CheckTooOld, CheckStable

(* Users, timers and the event loop leave the processing folder its files.  *)
LEMMA InboxStepKeepsCustody ==
  ASSUME TypeInv, Custody,
         \/ \E f \in Files : Drop(f) \/ Write(f) \/ Remove(f)
         \/ Tick \/ Start \/ HandleEvent \/ Overflow
  PROVE  Custody'
<1> USE DEF fileVars, watchVars, taskVars, storeVars, keptVars
<1>1. UNCHANGED <<pc, at, dst, body, source, job>>
  BY DEF Drop, Write, Remove, Tick, Start, HandleEvent, Overflow
<1>2. ASSUME NEW pl, pl[1] = "processing", Occupied(pl)
      PROVE  Occupied(pl)'
  <2>1. TypeOK /\ pl # Nowhere /\ \A p \in Paths : pl # Inbox(p)
    BY <1>2, PlaceTags DEF TypeInv
  <2>2. PICK x \in Files : place[x] = pl
    BY <1>2 DEF Occupied, FilesAt
  <2>3. place'[x] = pl
    BY <2>1, <2>2, WatcherAssumption
       DEF Drop, Write, Remove, InInbox, Tick, Start, HandleEvent, Overflow, TypeOK
  <2> QED BY <2>3 DEF Occupied, FilesAt
<1> QED BY <1>1, <1>2, OutsideKeepsCustody

LEMMA CrashKeepsCustody ==
  ASSUME Custody, Crash
  PROVE  Custody'
<1>1. /\ \A g \in Goroutines : pc'[g] = "idle"
      /\ UNCHANGED <<place, source, job>>
  BY DEF Crash, fileVars, storeVars
<1>2. \A g \in Goroutines : HolderHasFile(g)'
  BY <1>1, AtTheInbox
<1>3. ASSUME NEW b \in Bodies
      PROVE  QueuedHasPlace(b)'
  <2>1. QueuedHasPlace(b)
    BY DEF Custody
  <2>2. job[b] = "queued" /\ source[b][1] = "processing" => Occupied(source[b])'
    BY <1>1, <2>1 DEF QueuedHasPlace, Occupied, FilesAt
  <2> QED BY <1>1, <2>1, <2>2, QueuedStays
<1> QED BY <1>2, <1>3 DEF Custody

(* A place that gets no file, and none of whose files is written to.        *)
NothingNewAt(pl) ==
  \A f \in Files : place'[f] = pl => place[f] = pl /\ version'[f] = version[f]

LEMMA FreshStays ==
  ASSUME NEW b \in Bodies, b \in late \/ Fresh(b), late \subseteq late',
         archive'[b] \in {archive[b], b} \/ b \in late',
         \A pl \in Real : b \in Hashed(pl)' => b \in late' \/ (b \in Hashed(pl) /\ NothingNewAt(pl))
  PROVE  b \in late' \/ Fresh(b)'
<1> SUFFICES ASSUME b \notin late'
             PROVE  Fresh(b)'
  OBVIOUS
<1>1. Fresh(b)
  OBVIOUS
<1>2. archive'[b] \in {b, NoBody}
  BY <1>1 DEF Fresh
<1>3. ASSUME NEW pl \in Real, b \in Hashed(pl)', NEW f \in Files, place'[f] = pl
      PROVE  Body(f)' = b
  <2>1. b \in Hashed(pl) /\ place[f] = pl /\ version'[f] = version[f]
    BY <1>3 DEF NothingNewAt
  <2> QED BY <1>1, <2>1 DEF Fresh, FilesAt, Body
<1> QED BY <1>2, <1>3 DEF Fresh, FilesAt, Real, Inboxes, Inbox

(* The steps that move and change no file and hash none.                    *)
LEMMA StoreStepKeepsFresh ==
  ASSUME TypeInv, Custody, NEW b \in Bodies, b \in late \/ Fresh(b),
         \/ \E p \in Paths : Check(p)
         \/ \E g \in Goroutines :
              \/ MoveToProcessing(g) \/ CreateOrGet(g) \/ EnqueueJob(g) \/ EnqueueSkippedJob(g)
              \/ HandlePreQueueFailure(g) \/ MoveFails(g) \/ StoreFails(g)
         \/ Tick \/ Start \/ HandleEvent \/ Overflow \/ Crash \/ UNCHANGED vars
  PROVE  b \in late' \/ Fresh(b)'
<1> USE DEF fileVars, watchVars, taskVars, storeVars, keptVars
<1>1. TypeOK
  BY DEF TypeInv
<1>2. UNCHANGED <<place, version, archive, late>>
  BY DEF Check, CheckNothing, CheckChanged, CheckTooOld, CheckStable, Due, MoveToProcessing,
         CreateOrGet, EnqueueJob, EnqueueSkippedJob, HandlePreQueueFailure, MoveFails, StoreFails,
         Tick, Start, HandleEvent, Overflow, Crash, vars
<1>3. \A pl \in Real : NothingNewAt(pl)
  BY <1>2 DEF NothingNewAt
<1> SUFFICES ASSUME NEW pl \in Real, b \in Hashed(pl)'
             PROVE  b \in Hashed(pl)
  BY <1>2, <1>3, FreshStays
<1>4. ASSUME NEW g \in Goroutines, pc'[g] \notin {"create", "job"}, UNCHANGED <<source, job>>,
             \A h \in Goroutines \ {g} : pc'[h] = pc[h] /\ at'[h] = at[h] /\ body'[h] = body[h]
      PROVE  b \in Hashed(pl)
  <2>1. ASSUME NEW h \in Goroutines, body'[h] = b, at'[h] = pl,
               pc'[h] = "job" \/ (pc'[h] = "create" /\ source'[b] = Nowhere)
        PROVE  body[h] = b /\ at[h] = pl /\ (pc[h] = "job" \/ (pc[h] = "create" /\ source[b] = Nowhere))
    BY <1>4, <2>1
  <2> QED BY <1>4, <2>1 DEF Hashed
<1>5. CASE UNCHANGED <<pc, at, body, source, job>>
  BY <1>5 DEF Hashed
<1>6. ASSUME NEW g \in Goroutines, NEW p \in Paths, Submit(g, p), UNCHANGED <<source, job>>
      PROVE  b \in Hashed(pl)
  BY <1>1, <1>4, <1>6 DEF Submit, TypeOK
<1>7. ASSUME NEW g \in Goroutines, Done(g), UNCHANGED <<source, job>>
      PROVE  b \in Hashed(pl)
  BY <1>1, <1>4, <1>7 DEF Done, Goto, TypeOK
<1>8. ASSUME NEW g \in Goroutines, NEW dir, Target(g, dir), UNCHANGED <<source, job>>
      PROVE  b \in Hashed(pl)
  BY <1>1, <1>4, <1>8 DEF Target, Goto, TypeOK
<1>9. ASSUME NEW g \in Goroutines, CreateOrGet(g)
      PROVE  b \in Hashed(pl)
  <2>1. body[g] \in Bodies /\ pc[g] = "create" /\ at[g] # Nowhere
    BY <1>9, RealIsNotNowhere DEF CreateOrGet, TypeInv, CallsHaveArguments
  <2>2. UNCHANGED <<at, body, job>>
    BY <1>9 DEF CreateOrGet
  <2>3. \A h \in Goroutines \ {g} : pc'[h] = pc[h]
    BY <1>1, <1>9 DEF CreateOrGet, Goto, TypeOK
  <2>4. CASE source[body[g]] # Nowhere
    <3>1. pc'[g] = "skip" /\ UNCHANGED source
      BY <1>1, <1>9, <2>4 DEF CreateOrGet, Goto, TypeOK
    <3> QED BY <1>4, <2>2, <2>3, <3>1
  <2>5. CASE source[body[g]] = Nowhere
    <3>1. pc'[g] = "job" /\ \A c \in Bodies : source'[c] = IF c = body[g] THEN at[g] ELSE source[c]
      BY <1>1, <1>9, <2>5 DEF CreateOrGet, Goto, TypeOK
    <3>2. job[body[g]] # "queued"
      BY <2>1, <2>5, RealIsNotNowhere DEF TypeInv, SourcesAreReal
    <3>3. CASE source'[b] = pl /\ job'[b] = "queued"
      BY <2>2, <3>1, <3>2, <3>3 DEF Hashed
    <3>4. ASSUME NEW h \in Goroutines, body'[h] = b, at'[h] = pl,
                 pc'[h] = "job" \/ (pc'[h] = "create" /\ source'[b] = Nowhere)
          PROVE  b \in Hashed(pl)
      <4>1. CASE h = g
        BY <2>1, <2>2, <2>5, <3>4, <4>1 DEF Hashed
      <4>2. CASE h # g
        <5>1. pc'[h] = pc[h]
          BY <2>3, <4>2
        <5>2. source'[b] = Nowhere => source[b] = Nowhere
          BY <2>1, <3>1
        <5> QED BY <2>2, <3>4, <5>1, <5>2 DEF Hashed
      <4> QED BY <4>1, <4>2
    <3> QED BY <3>3, <3>4 DEF Hashed
  <2> QED BY <2>4, <2>5
<1>10. ASSUME NEW g \in Goroutines, EnqueueJob(g)
       PROVE  b \in Hashed(pl)
  <2>1. pc[g] = "job" /\ source[body[g]] = at[g] /\ UNCHANGED source
    BY <1>10 DEF EnqueueJob, Custody, HolderHasFile
  <2>2. pc'[g] = "idle" /\ \A h \in Goroutines \ {g} : pc'[h] = pc[h] /\ at'[h] = at[h] /\ body'[h] = body[h]
    BY <1>1, <1>10 DEF EnqueueJob, Done, Goto, TypeOK
  <2>3. \A c \in Bodies : c # body[g] => job'[c] = job[c]
    BY <1>1, <1>10 DEF EnqueueJob, TypeOK
  <2>4. CASE b # body[g]
    BY <2>1, <2>2, <2>3, <2>4 DEF Hashed
  <2>5. CASE b = body[g] /\ source[b] = pl
    BY <2>1, <2>5 DEF Hashed
  <2>6. CASE b = body[g] /\ source[b] # pl
    BY <2>1, <2>2, <2>6 DEF Hashed
  <2> QED BY <2>4, <2>5, <2>6
<1>11. CASE \E p \in Paths : Check(p)
  BY <1>5, <1>6, <1>11 DEF Check, CheckNothing, CheckChanged, CheckTooOld, CheckStable, Due
<1>12. CASE Tick \/ Start \/ HandleEvent \/ Overflow \/ UNCHANGED vars
  BY <1>5, <1>12 DEF Tick, Start, HandleEvent, Overflow, vars
<1>13. CASE Crash
  BY <1>13 DEF Crash, Hashed
<1>14. ASSUME NEW g \in Goroutines, MoveToProcessing(g)
       PROVE  b \in Hashed(pl)
  <2>1. CASE "processing" \in dirs
    BY <1>8, <1>14, <2>1 DEF MoveToProcessing
  <2>2. CASE "processing" \notin dirs
    BY <1>1, <1>4, <1>14, <2>2 DEF MoveToProcessing, Goto, TypeOK
  <2> QED BY <2>1, <2>2
<1>15. ASSUME NEW g \in Goroutines, StoreFails(g)
       PROVE  b \in Hashed(pl)
  BY <1>1, <1>4, <1>15 DEF StoreFails, Goto, TypeOK
<1>16. ASSUME NEW g \in Goroutines,
              EnqueueSkippedJob(g) \/ HandlePreQueueFailure(g) \/ MoveFails(g)
       PROVE  b \in Hashed(pl)
  BY <1>7, <1>8, <1>16 DEF EnqueueSkippedJob, HandlePreQueueFailure, MoveFails
<1> QED BY <1>9, <1>10, <1>11, <1>12, <1>13, <1>14, <1>15, <1>16

(* A hash is that of the only file at its path.                             *)
LEMMA DetectKeepsFresh ==
  ASSUME TypeInv, PlacesAreSingle, NEW b \in Bodies, b \in late \/ Fresh(b),
         NEW g \in Goroutines, Detect(g)
  PROVE  b \in late' \/ Fresh(b)'
<1> USE DEF fileVars, watchVars, taskVars, storeVars, keptVars
<1>1. TypeOK /\ pc[g] = "detect" /\ at[g] \in Real
  BY DEF TypeInv, CallsHaveArguments, Detect
<1>2. UNCHANGED <<place, version, archive, late, at, source, job>>
  BY DEF Detect
<1>3. \A h \in Goroutines \ {g} : pc'[h] = pc[h] /\ body'[h] = body[h]
  BY <1>1 DEF Detect, Goto, TypeOK
<1>4. pc'[g] # "job" /\ (pc'[g] = "create" => \E f \in FilesAt(at[g]) : body'[g] = Body(f))
  BY <1>1 DEF Detect, Goto, TypeOK
<1> SUFFICES ASSUME b \notin late'
             PROVE  Fresh(b)'
  OBVIOUS
<1>5. Fresh(b)
  BY <1>2
<1>6. ASSUME NEW pl \in Real, b \in Hashed(pl)', NEW x \in Files, place[x] = pl
      PROVE  Body(x) = b
  <2>1. CASE b \in Hashed(pl)
    BY <1>5, <1>6, <2>1 DEF Fresh, FilesAt
  <2>2. CASE b \notin Hashed(pl)
    <3>1. body'[g] = b /\ at[g] = pl /\ pc'[g] = "create"
      BY <1>2, <1>3, <1>4, <1>6, <2>2 DEF Hashed
    <3>2. PICK f \in FilesAt(pl) : Body(f) = b
      BY <1>4, <3>1
    <3>3. x = f
      BY <1>6, <3>2, RealIsNotNowhere DEF PlacesAreSingle, FilesAt
    <3> QED BY <3>2, <3>3
  <2> QED BY <2>1, <2>2
<1>7. \A pl \in Real : b \in Hashed(pl)' => \A x \in FilesAt(pl)' : Body(x)' = b
  BY <1>2, <1>6 DEF FilesAt, Body
<1>8. archive'[b] \in {b, NoBody}
  BY <1>2, <1>5 DEF Fresh
<1> QED BY <1>7, <1>8 DEF Fresh, FilesAt, Real, Inboxes, Inbox

(* A user who changes what is at a hashed path is late.                     *)
LEMMA UserKeepsFresh ==
  ASSUME TypeInv, NEW b \in Bodies, b \in late \/ Fresh(b), NEW f \in Files,
         Drop(f) \/ Write(f) \/ Remove(f)
  PROVE  b \in late' \/ Fresh(b)'
<1> USE DEF fileVars, watchVars, taskVars, storeVars, keptVars
<1>1. TypeOK
  BY DEF TypeInv
<1>2. UNCHANGED <<archive, pc, at, body, source, job>> /\ late \subseteq late'
  BY DEF Drop, Write, Remove
<1>3. ASSUME NEW pl \in Real, b \in Hashed(pl)'
      PROVE  b \in late' \/ (b \in Hashed(pl) /\ NothingNewAt(pl))
  <2>1. b \in Hashed(pl)
    BY <1>2, <1>3 DEF Hashed
  <2>2. CASE Drop(f)
    <3>1. CASE pl = Inbox(PathOf[f])
      BY <2>1, <2>2, <3>1 DEF Drop
    <3>2. CASE pl # Inbox(PathOf[f])
      BY <1>1, <2>1, <2>2, <3>2 DEF Drop, NothingNewAt, TypeOK
    <3> QED BY <3>1, <3>2
  <2>3. CASE Write(f)
    <3>1. CASE pl = place[f]
      BY <2>1, <2>3, <3>1 DEF Write
    <3>2. CASE pl # place[f]
      BY <1>1, <2>1, <2>3, <3>2 DEF Write, NothingNewAt, TypeOK
    <3> QED BY <3>1, <3>2
  <2>4. CASE Remove(f)
    <3>1. pl # Nowhere
      BY RealIsNotNowhere
    <3> QED BY <1>1, <2>1, <2>4, <3>1 DEF Remove, NothingNewAt, TypeOK
  <2> QED BY <2>2, <2>3, <2>4
<1> QED BY <1>2, <1>3, FreshStays

(* A file that is moved to a free name joins no hash.                       *)
LEMMA RenameKeepsFresh ==
  ASSUME TypeInv, TargetsAreFree, Custody, NEW b \in Bodies, b \in late \/ Fresh(b),
         NEW g \in Goroutines, Rename(g)
  PROVE  b \in late' \/ Fresh(b)'
<1> USE DEF fileVars, watchVars, taskVars, storeVars, keptVars
<1>1. TypeOK /\ pc[g] = "rename" /\ dst[g] \in Folders /\ ~ Occupied(dst[g])
  BY DEF TypeInv, Rename, CallsHaveArguments, TargetsAreFree
<1>2. UNCHANGED <<version, archive, late, source, job>>
  BY DEF Rename
<1>3. /\ \A h \in Goroutines \ {g} : pc'[h] = pc[h] /\ at'[h] = at[h] /\ body'[h] = body[h]
      /\ pc'[g] \notin {"create", "job"}
  BY <1>1 DEF Rename, Done, Goto, TypeOK
<1>4. ASSUME NEW pl \in Real, b \in Hashed(pl)'
      PROVE  b \in Hashed(pl) /\ NothingNewAt(pl)
  <2>1. b \in Hashed(pl)
    <3>1. ASSUME NEW h \in Goroutines, body'[h] = b, at'[h] = pl,
                 pc'[h] = "job" \/ (pc'[h] = "create" /\ source'[b] = Nowhere)
          PROVE  body[h] = b /\ at[h] = pl /\ (pc[h] = "job" \/ (pc[h] = "create" /\ source[b] = Nowhere))
      BY <1>2, <1>3, <3>1
    <3> QED BY <1>2, <1>4, <3>1 DEF Hashed
  <2>2. pl # dst[g]
    BY <1>1, <2>1, NobodyAtFree DEF Hashed, Holding
  <2>3. \A f \in Files : place'[f] \in {place[f], dst[g]}
    <3>1. CASE UNCHANGED place
      BY <3>1
    <3>2. ASSUME NEW f \in Files, MoveTo(f, dst[g])
          PROVE  \A x \in Files : place'[x] \in {place[x], dst[g]}
      BY <1>1, <3>2, MoveToFree
    <3> QED BY <3>1, <3>2 DEF Rename, Occupied, FilesAt
  <2> QED BY <1>2, <2>1, <2>2, <2>3 DEF NothingNewAt
<1> QED BY <1>2, <1>4, FreshStays

(* The worker archives what is at the recorded path.                        *)
LEMMA WorkKeepsFresh ==
  ASSUME TypeInv, Custody, NEW b \in Bodies, b \in late \/ Fresh(b),
         NEW c \in Bodies, Work(c)
  PROVE  b \in late' \/ Fresh(b)'
<1> USE DEF fileVars, watchVars, taskVars, storeVars, keptVars
<1>1. TypeOK /\ job[c] = "queued" /\ source[c] \in Real
  BY DEF TypeInv, SourcesAreReal, Work
<1>2. UNCHANGED <<version, late, pc, at, body, source>>
  BY DEF Work
<1>3. archive'[b] \in {archive[b], b} \/ b \in late'
  <2>1. CASE b # c \/ UNCHANGED archive
    BY <1>1, <2>1 DEF Work, TypeOK
  <2>2. ASSUME b = c, NEW f \in FilesAt(source[c]),
               archive' = [archive EXCEPT ![c] = IF @ = NoBody THEN Body(f) ELSE @]
        PROVE  archive'[b] \in {archive[b], b} \/ b \in late'
    <3>1. b \in Hashed(source[c])
      BY <1>1, <2>2 DEF Hashed
    <3>2. b \in late \/ Body(f) = b
      BY <1>1, <2>2, <3>1 DEF Fresh
    <3> QED BY <1>1, <1>2, <2>2, <3>2 DEF TypeOK
  <2> QED BY <2>1, <2>2 DEF Work
<1>4. \A d \in Bodies : job'[d] = "queued" => job[d] = "queued"
  BY <1>1 DEF Work, TypeOK
<1>5. ASSUME NEW pl \in Real, b \in Hashed(pl)'
      PROVE  b \in Hashed(pl) /\ NothingNewAt(pl)
  <2>1. b \in Hashed(pl)
    BY <1>2, <1>4, <1>5 DEF Hashed
  <2>2. CASE UNCHANGED place
    BY <1>2, <2>1, <2>2 DEF NothingNewAt
  <2>3. ASSUME NEW f \in FilesAt(source[c]), NEW n \in Copies,
               FirstFree("processed", Name(place[f]), n),
               MoveTo(f, <<"processed", Name(place[f]), n>>)
        PROVE  NothingNewAt(pl)
    <3> DEFINE target == <<"processed", Name(place[f]), n>>
    <3>1. f \in Files /\ place[f] \in Real
      BY <1>1 DEF FilesAt
    <3>2. target \in Folders /\ ~ Occupied(target) /\ MoveTo(f, target)
      BY <2>3, <3>1, TargetInFolders DEF FirstFree
    <3> HIDE DEF target
    <3>3. pl # target
      BY <2>1, <3>2, NobodyAtFree DEF Hashed, Holding
    <3>4. \A x \in Files : place'[x] = IF x = f THEN target ELSE place[x]
      BY <1>1, <3>1, <3>2, MoveToFree
    <3> QED BY <1>2, <3>3, <3>4 DEF NothingNewAt
  <2> QED BY <2>1, <2>2, <2>3 DEF Work
<1> QED BY <1>2, <1>3, <1>5, FreshStays

LEMMA CustodyStep ==
  ASSUME TypeInv, LossInv, PlacesAreSingle, CustodyInv, [Next]_vars
  PROVE  CustodyInv'
<1> SUFFICES ASSUME ~ raced'
             PROVE  Custody' /\ \A b \in Bodies : b \in late' \/ Fresh(b)'
  BY DEF CustodyInv
<1>1. ~ raced
  BY RacesStay DEF TypeInv
<1>2. Custody /\ TargetsAreFree
  BY <1>1 DEF CustodyInv, LossInv
<1>3. Custody'
  <2>1. CASE UNCHANGED vars
    <3>1. UNCHANGED <<pc, at, dst, body, source, job, place>>
      BY <2>1 DEF vars, fileVars, taskVars, storeVars
    <3> QED BY <1>2, <3>1, OutsideKeepsCustody DEF Occupied, FilesAt
  <2>2. CASE \E g \in Goroutines : Call(g) \/ MoveFails(g) \/ StoreFails(g)
    BY <1>2, <2>2, RenameKeepsCustody, CallKeepsCustody
  <2> QED BY <1>2, <2>1, <2>2, WorkKeepsCustody, CheckKeepsCustody, InboxStepKeepsCustody,
             CrashKeepsCustody DEF Next
<1>4. ASSUME NEW b \in Bodies
      PROVE  b \in late' \/ Fresh(b)'
  <2>1. b \in late \/ Fresh(b)
    BY <1>1 DEF CustodyInv
  <2>2. CASE \E f \in Files : Drop(f) \/ Write(f) \/ Remove(f)
    BY <2>1, <2>2, UserKeepsFresh
  <2>3. CASE \E g \in Goroutines : Detect(g)
    BY <2>1, <2>3, DetectKeepsFresh
  <2>4. CASE \E g \in Goroutines : Rename(g)
    BY <1>2, <2>1, <2>4, RenameKeepsFresh
  <2>5. CASE \E c \in Bodies : Work(c)
    BY <1>2, <2>1, <2>5, WorkKeepsFresh
  <2>6. CASE \/ \E p \in Paths : Check(p)
             \/ \E g \in Goroutines :
                  \/ MoveToProcessing(g) \/ CreateOrGet(g) \/ EnqueueJob(g) \/ EnqueueSkippedJob(g)
                  \/ HandlePreQueueFailure(g) \/ MoveFails(g) \/ StoreFails(g)
             \/ Tick \/ Start \/ HandleEvent \/ Overflow \/ Crash \/ UNCHANGED vars
    BY <1>2, <2>1, <2>6, StoreStepKeepsFresh
  <2> QED BY <2>2, <2>3, <2>4, <2>5, <2>6 DEF Next, Call
<1> QED BY <1>3, <1>4

LEMMA CustodyInvariant == Spec => []CustodyInv
<1>1. Init => CustodyInv
  BY DEF Init, CustodyInv, Custody, HolderHasFile, Holding, QueuedHasPlace, Fresh, Hashed
<1>2. TypeInv /\ LossInv /\ PlacesAreSingle /\ CustodyInv /\ [Next]_vars => CustodyInv'
  BY CustodyStep
<1> QED BY <1>1, <1>2, TypeInvariant, LossInvariant, SingleInvariant, PTL DEF Spec

(* Whatever is dropped, moved, rejected, written or interrupted, with and  *)
(* without each of the folders, what the worker archives under a hash has  *)
(* that hash, unless a user touched the file in that very window, between  *)
(* its hash and its archive, or two moves took one name: neither an early  *)
(* timer, nor a forced enqueue of a file that is still written, nor a name *)
(* that is used again is enough (watcher.go:324-369, pipeline.go:263-277). *)
THEOREM ArchivesAreTheirHash == Spec => []ArchiveIsContent
<1>1. CustodyInv => ArchiveIsContent
  BY DEF CustodyInv, Fresh, ArchiveIsContent
<1> QED BY <1>1, CustodyInvariant, PTL
=============================================================================
