------------------------------- MODULE Watcher -------------------------------
(***************************************************************************)
(* The folder watcher, internal/ingest/watcher.go: events of the file      *)
(* system, timers that check whether a file stands still, and the timers'  *)
(* goroutines, which move a file to the processing folder and enqueue it.  *)
(* The worker is one step here (JobQueue has its steps).                   *)
(*                                                                         *)
(* The event loop and checkStability hold the watcher's mutex, so each is  *)
(* one step; enqueueFile runs without it, one call after the other.        *)
(***************************************************************************)
EXTENDS Integers, Sequences, FiniteSets

CONSTANTS
  Files,        \* files that users may drop
  Paths,        \* paths in the inbox
  PathOf,       \* where each file is dropped
  NameOf,       \* the base name of each path
  DataOf,       \* what each file holds; a write makes another version of it
  Removable,    \* bound: files the user may take back
  Setups,       \* which of "processing", "processed", "failed" may be configured
  Goroutines,   \* bound: enqueueFile calls under way
  StableFor,    \* ticks a file must stand still
  MaxAge,       \* ticks after which a file is enqueued all the same
  Writes,       \* bound: writes to each file after it was dropped
  Faults,       \* which of "overflow", "move", "store", "crash"
  MaxFaults     \* bound: faults

ASSUME WatcherAssumption ==
  /\ PathOf \in [Files -> Paths]
  /\ Setups \subseteq SUBSET {"processing", "processed", "failed"}
  /\ StableFor \in Nat \ {0} /\ MaxAge \in Nat
  /\ Writes \in [Files -> Nat] /\ MaxFaults \in Nat

VARIABLES
  place,     \* where each file is
  version,   \* what its size and modification time say
  events,    \* fsnotify's channel
  pending,   \* the watcher's map, per path: what was last seen, for how long
  timers,    \* per path: timers set, by the ticks they have left
  pc, at, dst, body,   \* per goroutine: next call, file moved, target, hash
  raced,     \* two moves to one target were under way at the same time
  up,        \* the watch process runs
  source,    \* documents, by content: the recorded path
  job,       \* the job of each content
  archive,   \* by content hash: what was copied to the archive
  dirs,      \* the folders that are configured
  late,      \* contents whose file a user touched between its hash and its archive
  hit,       \* files that a fault hit
  faults     \* how much of MaxFaults is used

fileVars == <<place, version>>
watchVars == <<events, pending, timers, up>>
taskVars == <<pc, at, dst, body, raced>>
storeVars == <<source, job, archive>>
keptVars == <<dirs, late>>   \* which the program leaves alone
vars == <<fileVars, watchVars, taskVars, storeVars, keptVars, hit, faults>>

Copies == 1..Cardinality(Files) + 1
Inbox(p) == <<"inbox", p>>
Folders == {"processing", "processed", "failed"} \X {NameOf[p] : p \in Paths} \X Copies
Nowhere == <<"nowhere">>   \* not dropped yet, or taken back by the user
Lost == <<"lost">>         \* replaced by another file
Places == {Inbox(p) : p \in Paths} \cup Folders \cup {Nowhere, Lost}

Bodies == UNION {{<<DataOf[f], v>> : v \in 0..Writes[f]} : f \in Files}
Body(f) == <<DataOf[f], version[f]>>
FilesOf(b) == {f \in Files : \E v \in 0..Writes[f] : b = <<DataOf[f], v>>}
NoBody == <<>>

Ages == 0..MaxAge + 1
NotPending == [file |-> {}, seen |-> 0, age |-> 0]
NoTimer == [t \in 0..StableFor |-> 0]
Calls == {"idle", "move", "rename", "detect", "create", "job", "skip", "giveup"}
JobStatus == {"none", "queued", "completed", "failed"}

TypeOK ==
  /\ place \in [Files -> Places]
  /\ version \in [Files -> Nat]
  /\ events \in Seq({"change", "remove"} \X Paths)
  /\ pending \in [Paths -> [file : SUBSET Files, seen : Nat, age : Ages]]
  /\ timers \in [Paths -> [0..StableFor -> Nat]]
  /\ pc \in [Goroutines -> Calls]
  /\ at \in [Goroutines -> Places] /\ dst \in [Goroutines -> Places]
  /\ body \in [Goroutines -> Bodies \cup {NoBody}]
  /\ raced \in BOOLEAN /\ up \in BOOLEAN
  /\ source \in [Bodies -> Places]
  /\ job \in [Bodies -> JobStatus]
  /\ archive \in [Bodies -> Bodies \cup {NoBody}]
  /\ dirs \in Setups /\ late \subseteq Bodies
  /\ hit \subseteq Files /\ faults \in 0..MaxFaults

Init ==
  /\ place = [f \in Files |-> Nowhere]
  /\ version = [f \in Files |-> 0]
  /\ events = <<>>
  /\ pending = [p \in Paths |-> NotPending]
  /\ timers = [p \in Paths |-> NoTimer]
  /\ pc = [g \in Goroutines |-> "idle"]
  /\ at = [g \in Goroutines |-> Nowhere] /\ dst = [g \in Goroutines |-> Nowhere]
  /\ body = [g \in Goroutines |-> NoBody]
  /\ raced = FALSE /\ up = FALSE
  /\ source = [b \in Bodies |-> Nowhere]
  /\ job = [b \in Bodies |-> "none"]
  /\ archive = [b \in Bodies |-> NoBody]
  /\ dirs \in Setups /\ late = {}
  /\ hit = {} /\ faults = 0

-----------------------------------------------------------------------------
(* The file system.                                                         *)

FilesAt(pl) == {f \in Files : place[f] = pl}
Occupied(pl) == FilesAt(pl) # {}
InInbox(f) == place[f] = Inbox(PathOf[f])

(* An event in the inbox, for a process that listens.                       *)
Notify(kind, p) == events' = IF up THEN Append(events, <<kind, p>>) ELSE events

(* rename(2): what was at the target is replaced.                           *)
MoveTo(f, target) ==
  /\ place' = [x \in Files |->
       IF x = f THEN target ELSE IF place[x] = target THEN Lost ELSE place[x]]
  /\ IF InInbox(f) THEN Notify("remove", PathOf[f]) ELSE UNCHANGED events

(* Mutant: the target is taken without a look.                              *)
FirstName(dir, name, n) == n = 1

(* The first free name of moveFileToDir.                                    *)
FirstFree(dir, name, n) ==
  /\ ~ Occupied(<<dir, name, n>>)
  /\ \A m \in Copies : m < n => Occupied(<<dir, name, m>>)

-----------------------------------------------------------------------------
(* Users and time.                                                          *)

(* The contents on record, or about to be, as that of the file at pl, which *)
(* the worker has not read yet.                                             *)
Hashed(pl) ==
  {b \in Bodies :
     \/ source[b] = pl /\ job[b] = "queued"
     \/ \E g \in Goroutines :
          /\ body[g] = b /\ at[g] = pl
          /\ pc[g] = "job" \/ (pc[g] = "create" /\ source[b] = Nowhere)}

Drop(f) ==
  /\ place[f] = Nowhere /\ version[f] = 0 /\ f \notin hit
  /\ ~ Occupied(Inbox(PathOf[f]))
  /\ place' = [place EXCEPT ![f] = Inbox(PathOf[f])]
  /\ late' = late \cup Hashed(Inbox(PathOf[f]))
  /\ Notify("change", PathOf[f])
  /\ UNCHANGED <<version, pending, timers, up, taskVars, storeVars, dirs, hit, faults>>

(* A writer that has a file open goes on writing to it wherever it is moved. *)
Write(f) ==
  /\ place[f] \notin {Nowhere, Lost}
  /\ version[f] < Writes[f]
  /\ version' = [version EXCEPT ![f] = @ + 1]
  /\ late' = late \cup Hashed(place[f])
  /\ IF InInbox(f) THEN Notify("change", PathOf[f]) ELSE UNCHANGED events
  /\ UNCHANGED <<place, pending, timers, up, taskVars, storeVars, dirs, hit, faults>>

Remove(f) ==
  /\ f \in Removable /\ InInbox(f)
  /\ place' = [place EXCEPT ![f] = Nowhere]
  /\ Notify("remove", PathOf[f])
  /\ hit' = hit \cup {f}
  /\ UNCHANGED <<version, pending, timers, up, taskVars, storeVars, keptVars, faults>>

(* Timers with t ticks left after a tick; what has run down stays due.       *)
OneSooner(p, t) ==
  (IF t = 0 THEN timers[p][0] ELSE 0) + (IF t < StableFor THEN timers[p][t + 1] ELSE 0)

Tick ==
  /\ pending' = [p \in Paths |->
       IF pending[p] # NotPending /\ pending[p].age <= MaxAge
       THEN [pending[p] EXCEPT !.age = @ + 1] ELSE pending[p]]
  /\ timers' = [p \in Paths |-> [t \in 0..StableFor |-> OneSooner(p, t)]]
  /\ UNCHANGED <<place, version, events, up, taskVars, storeVars, keptVars, hit, faults>>

-----------------------------------------------------------------------------
(* The event loop.                                                          *)

(* What os.Stat says of a path.                                             *)
Seen(p) == [file |-> FilesAt(Inbox(p)),
            seen |-> version[CHOOSE f \in Files : place[f] = Inbox(p)]]
Same(p) == pending[p].file = Seen(p).file /\ pending[p].seen = Seen(p).seen

Look(p, age) == [file |-> Seen(p).file, seen |-> Seen(p).seen, age |-> age]
Arm(p) == [timers[p] EXCEPT ![StableFor] = @ + 1]

(* debounceFile.  StopTimer of the real clock stops nothing.                *)
Debounce(p) ==
  IF Occupied(Inbox(p))
  THEN /\ pending' = [pending EXCEPT ![p] = Look(p, pending[p].age)]
       /\ timers' = [timers EXCEPT ![p] = Arm(p)]
  ELSE /\ pending' = [pending EXCEPT ![p] = NotPending]
       /\ UNCHANGED timers

HandleEvent ==
  /\ up /\ events # <<>>
  /\ events' = Tail(events)
  /\ LET p == Head(events)[2] IN
       IF Head(events)[1] = "change"
       THEN Debounce(p)
       ELSE pending' = [pending EXCEPT ![p] = NotPending] /\ UNCHANGED timers
  /\ UNCHANGED <<fileVars, up, taskVars, storeVars, keptVars, hit, faults>>

(* Mutant: files that are there already are left to events.                 *)
StartBlind ==
  /\ ~ up
  /\ up' = TRUE
  /\ UNCHANGED <<fileVars, events, pending, timers, taskVars, storeVars, keptVars, hit, faults>>

(* Start: every file in the inbox is debounced, then events are handled.    *)
Start ==
  /\ ~ up
  /\ up' = TRUE
  /\ pending' = [p \in Paths |-> IF Occupied(Inbox(p)) THEN Look(p, 0) ELSE NotPending]
  /\ timers' = [p \in Paths |-> IF Occupied(Inbox(p)) THEN Arm(p) ELSE timers[p]]
  /\ UNCHANGED <<fileVars, events, taskVars, storeVars, keptVars, hit, faults>>

-----------------------------------------------------------------------------
(* checkStability, when a timer of the path has run down.                   *)

(* Mutant: a timer fires before its time.                                   *)
DueEarly(p) ==
  /\ up /\ \E t \in 0..StableFor : timers[p][t] > 0
  /\ UNCHANGED <<fileVars, events, up, storeVars, keptVars, hit, faults>>

Due(p) ==
  /\ up /\ timers[p][0] > 0
  /\ UNCHANGED <<fileVars, events, up, storeVars, keptVars, hit, faults>>
Spent(p) == [timers[p] EXCEPT ![0] = @ - 1]
Spend(p) == timers' = [timers EXCEPT ![p] = Spent(p)]
Forget(p) == pending' = [pending EXCEPT ![p] = NotPending]

(* The goroutine goes on to enqueueFile.                                    *)
Submit(g, p) ==
  /\ pc[g] = "idle"
  /\ pc' = [pc EXCEPT ![g] = "move"]
  /\ at' = [at EXCEPT ![g] = Inbox(p)]
  /\ UNCHANGED <<dst, body, raced>>

(* Another timer was faster, or the file is gone.                           *)
CheckNothing(p) ==
  /\ Due(p) /\ Spend(p)
  /\ \/ pending[p] = NotPending /\ UNCHANGED pending
     \/ pending[p] # NotPending /\ pending[p].age <= MaxAge /\ ~ Occupied(Inbox(p)) /\ Forget(p)
  /\ UNCHANGED taskVars

CheckTooOld(g, p) ==
  /\ Due(p) /\ Spend(p)
  /\ pending[p] # NotPending /\ pending[p].age > MaxAge
  /\ Forget(p) /\ Submit(g, p)

CheckStable(g, p) ==
  /\ Due(p) /\ Spend(p)
  /\ pending[p] # NotPending /\ pending[p].age <= MaxAge
  /\ Occupied(Inbox(p)) /\ Same(p)
  /\ Forget(p) /\ Submit(g, p)

(* Mutant: the timer is not set again.                                      *)
CheckChangedOnce(p) ==
  /\ Due(p) /\ Spend(p)
  /\ pending[p] # NotPending /\ pending[p].age <= MaxAge
  /\ Occupied(Inbox(p)) /\ ~ Same(p)
  /\ pending' = [pending EXCEPT ![p] = Look(p, @.age)]
  /\ UNCHANGED taskVars

CheckChanged(p) ==
  /\ Due(p)
  /\ pending[p] # NotPending /\ pending[p].age <= MaxAge
  /\ Occupied(Inbox(p)) /\ ~ Same(p)
  /\ pending' = [pending EXCEPT ![p] = Look(p, @.age)]
  /\ timers' = [timers EXCEPT ![p] = [Spent(p) EXCEPT ![StableFor] = @ + 1]]
  /\ UNCHANGED taskVars

-----------------------------------------------------------------------------
(* enqueueFile.                                                             *)

Goto(g, call) == pc' = [pc EXCEPT ![g] = call]

(* The goroutine ends.                                                      *)
Done(g) ==
  /\ Goto(g, "idle")
  /\ at' = [at EXCEPT ![g] = Nowhere] /\ dst' = [dst EXCEPT ![g] = Nowhere]
  /\ body' = [body EXCEPT ![g] = NoBody]

Name(pl) == IF pl[1] = "inbox" THEN NameOf[pl[2]] ELSE pl[2]

(* moveFileToDir up to the rename.                                          *)
Target(g, dir) ==
  /\ \E n \in Copies : /\ FirstFree(dir, Name(at[g]), n)
                       /\ dst' = [dst EXCEPT ![g] = <<dir, Name(at[g]), n>>]
  /\ raced' = (raced \/ \E h \in Goroutines \ {g} : pc[h] = "rename" /\ dst[h] = dst'[g])
  /\ Goto(g, "rename")
  /\ UNCHANGED <<at, body>>

MoveToProcessing(g) ==
  /\ pc[g] = "move"
  /\ IF "processing" \in dirs THEN Target(g, "processing")
                              ELSE Goto(g, "detect") /\ UNCHANGED <<at, dst, body, raced>>
  /\ UNCHANGED <<fileVars, watchVars, storeVars, keptVars, hit, faults>>

(* The rename; it fails when the file has gone.                             *)
Rename(g) ==
  /\ pc[g] = "rename"
  /\ IF Occupied(at[g])
     THEN /\ \A f \in FilesAt(at[g]) : MoveTo(f, dst[g])
          /\ IF dst[g][1] = "processing"
             THEN /\ at' = [at EXCEPT ![g] = dst[g]]
                  /\ Goto(g, "detect") /\ UNCHANGED <<dst, body>>
             ELSE Done(g)
     ELSE Done(g) /\ UNCHANGED <<place, events>>
  /\ UNCHANGED <<version, pending, timers, up, raced, storeVars, keptVars, hit, faults>>

(* extract.Detect and hashFile.                                             *)
Detect(g) ==
  /\ pc[g] = "detect"
  /\ \/ /\ ~ Occupied(at[g])
        /\ Goto(g, "giveup") /\ UNCHANGED body
     \/ \E f \in FilesAt(at[g]) :
          /\ body' = [body EXCEPT ![g] = Body(f)]
          /\ Goto(g, "create")
  /\ UNCHANGED <<at, dst, raced, fileVars, watchVars, storeVars, keptVars, hit, faults>>

CreateOrGet(g) ==
  /\ pc[g] = "create"
  /\ IF source[body[g]] = Nowhere
     THEN source' = [source EXCEPT ![body[g]] = at[g]] /\ Goto(g, "job")
     ELSE UNCHANGED source /\ Goto(g, "skip")
  /\ UNCHANGED <<at, dst, body, raced, fileVars, watchVars, job, archive>>
  /\ UNCHANGED <<keptVars, hit, faults>>

EnqueueJob(g) ==
  /\ pc[g] = "job"
  /\ job' = [job EXCEPT ![body[g]] = "queued"]
  /\ Done(g)
  /\ UNCHANGED <<raced, fileVars, watchVars, source, archive, keptVars, hit, faults>>

EnqueueSkippedJob(g) ==
  /\ pc[g] = "skip"
  /\ Done(g)
  /\ UNCHANGED <<raced, fileVars, watchVars, storeVars, keptVars, hit, faults>>

(* handlePreQueueFailure.                                                   *)
HandlePreQueueFailure(g) ==
  /\ pc[g] = "giveup"
  /\ IF "failed" \in dirs THEN Target(g, "failed")
                          ELSE Done(g) /\ UNCHANGED raced
  /\ UNCHANGED <<fileVars, watchVars, storeVars, keptVars, hit, faults>>

-----------------------------------------------------------------------------
(* The worker takes a job: the archive is written once per hash, the source *)
(* is moved.                                                                *)
Work(b) ==
  /\ up /\ job[b] = "queued"
  /\ IF Occupied(source[b])
     THEN \E f \in FilesAt(source[b]) :
            /\ archive' = [archive EXCEPT ![b] = IF @ = NoBody THEN Body(f) ELSE @]
            /\ job' = [job EXCEPT ![b] = "completed"]
            /\ IF "processed" \in dirs
               THEN \E n \in Copies : /\ FirstFree("processed", Name(place[f]), n)
                                     /\ MoveTo(f, <<"processed", Name(place[f]), n>>)
               ELSE UNCHANGED <<place, events>>
     ELSE job' = [job EXCEPT ![b] = "failed"] /\ UNCHANGED <<archive, place, events>>
  /\ UNCHANGED <<version, pending, timers, up, taskVars, source, keptVars, hit, faults>>

-----------------------------------------------------------------------------
(* Faults.                                                                  *)

Fault(kind) == kind \in Faults /\ faults < MaxFaults /\ faults' = faults + 1

(* The channel overflows: an event is lost, the watcher logs an error.      *)
Overflow ==
  /\ Fault("overflow") /\ up /\ events # <<>>
  /\ events' = Tail(events)
  /\ hit' = hit \cup FilesAt(Inbox(Head(events)[2]))
  /\ UNCHANGED <<fileVars, pending, timers, up, taskVars, storeVars, keptVars>>

(* The move to a folder fails; the file stays where it is.                  *)
MoveFails(g) ==
  /\ Fault("move") /\ pc[g] = "rename"
  /\ hit' = hit \cup FilesAt(at[g])
  /\ Done(g)
  /\ UNCHANGED <<raced, fileVars, watchVars, storeVars, keptVars>>

(* The file is of no supported kind or cannot be read, or the store fails.  *)
StoreFails(g) ==
  /\ Fault("store") /\ pc[g] \in {"detect", "create", "job", "skip"}
  /\ hit' = hit \cup FilesAt(at[g]) \cup FilesOf(body[g])
  /\ Goto(g, "giveup")
  /\ UNCHANGED <<at, dst, body, raced, fileVars, watchVars, storeVars, keptVars>>

(* The process dies, in the middle of some enqueueFile calls.  The next one *)
(* finds the files in the inbox again, but not those in the processing      *)
(* folder, and takes one whose document has no job yet for a duplicate.     *)
Crash ==
  /\ Fault("crash") /\ up
  /\ up' = FALSE /\ events' = <<>>
  /\ pending' = [p \in Paths |-> NotPending] /\ timers' = [p \in Paths |-> NoTimer]
  /\ pc' = [g \in Goroutines |-> "idle"]
  /\ at' = [g \in Goroutines |-> Nowhere] /\ dst' = [g \in Goroutines |-> Nowhere]
  /\ body' = [g \in Goroutines |-> NoBody]
  /\ hit' = hit \cup {f \in Files : \E g \in Goroutines :
                          \/ pc[g] # "idle" /\ place[f] = at[g] /\ ~ InInbox(f)
                          \/ pc[g] = "job" /\ f \in FilesOf(body[g])}
  /\ UNCHANGED <<fileVars, raced, storeVars, keptVars>>

-----------------------------------------------------------------------------
Check(p) ==
  \/ CheckNothing(p) \/ CheckChanged(p)
  \/ \E g \in Goroutines : CheckTooOld(g, p) \/ CheckStable(g, p)

Call(g) ==
  \/ MoveToProcessing(g) \/ Rename(g) \/ Detect(g) \/ CreateOrGet(g) \/ EnqueueJob(g)
  \/ EnqueueSkippedJob(g) \/ HandlePreQueueFailure(g)

Next ==
  \/ \E f \in Files : Drop(f) \/ Write(f) \/ Remove(f)
  \/ Tick \/ Start \/ HandleEvent
  \/ \E p \in Paths : Check(p)
  \/ \E g \in Goroutines : Call(g) \/ MoveFails(g) \/ StoreFails(g)
  \/ \E b \in Bodies : Work(b)
  \/ Overflow \/ Crash

Spec == Init /\ [][Next]_vars

(* Time passes, goroutines run, the service manager restarts the process.   *)
FairSpec ==
  /\ Spec
  /\ WF_vars(Tick) /\ WF_vars(Start) /\ WF_vars(HandleEvent)
  /\ \A p \in Paths : WF_vars(Check(p))
  /\ \A g \in Goroutines : WF_vars(Call(g))
  /\ \A b \in Bodies : WF_vars(Work(b))

-----------------------------------------------------------------------------
(* No file is replaced by another one on its way through the folders, also *)
(* when a name is dropped again and again, unless two moves to the same     *)
(* target overlap: moveFileToDir looks for a free name and then renames     *)
(* (watcher.go:410-425).                                                    *)
LossNeedsRace == (\E f \in Files : place[f] = Lost) => raced

(* A path the watcher waits for always has a timer, set or about to fire:   *)
(* no order of events, checks and restarts leaves a path that nobody looks  *)
(* at again (watcher.go:221-312).                                           *)
PendingHasTimer ==
  \A p \in Paths : pending[p] # NotPending => \E t \in 0..StableFor : timers[p][t] > 0

(* The archive has under a hash the content of that hash, with and without  *)
(* a processing folder: early timers, forced enqueues, names used again,    *)
(* duplicates, failed calls and restarts never put one file in the place of *)
(* another.  Only a user who writes to the hashed file, or drops another    *)
(* where it was, before the worker has archived it, can, and two moves to   *)
(* one target (watcher.go:324-369, pipeline.go:263-277).                    *)
ArchiveIsContent ==
  raced \/ \A b \in Bodies : archive[b] \in {b, NoBody} \/ b \in late

(* A file in the inbox ends in the failed or the processed folder, or with  *)
(* a job for its content, unless a fault hits it, or the user takes it      *)
(* back.  (A fault that hits another file of the same content counts: the   *)
(* second one is a duplicate of a document without a job.)                  *)
Settled(f) ==
  \/ place[f] # Nowhere /\ place[f][1] \in {"processed", "failed"}
  \/ \E v \in 0..Writes[f] : job[<<DataOf[f], v>>] # "none"
  \/ \E x \in hit : DataOf[x] = DataOf[f]

EveryFileSettles == \A f \in Files : InInbox(f) ~> Settled(f) \/ raced
=============================================================================
