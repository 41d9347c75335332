------------------------------ MODULE JobQueue ------------------------------
(***************************************************************************)
(* The durable ingest queue of internal/store and the three kinds of       *)
(* process that drive it: background workers (internal/ingest/worker.go),  *)
(* one-shot calls that ingest or reprocess in the caller's own process     *)
(* (internal/ingest/pipeline.go), and operators that retry jobs.           *)
(*                                                                         *)
(* A store method is one SQL statement or one transaction on a database    *)
(* opened with a single connection, so each is one atomic step here; what  *)
(* a process does between two of them (extract, copy to the archive, write *)
(* the note, move the source) is a step of its own, and any other process  *)
(* may run in between.  A document is identified with its content hash.    *)
(***************************************************************************)
EXTENDS Integers, FiniteSets

CONSTANTS
  Docs,        \* contents that may be ingested; a documents row per content
  Workers,     \* watch processes, one background worker each
  Clients,     \* one-shot processes: ingest, reocr, watcher and mail enqueues
  NoDoc,       \* no document
  Folders,     \* which of the "processed" and "failed" folders are configured
  Retryable,   \* statuses of the jobs an operator asks to retry
  QuietStart,  \* TRUE: a watch process starts only while no other has a job
  Faults,      \* which of "crash", "client_crash", "store_error" may happen
  MaxJobs,     \* bound: rows of the jobs table
  MaxStarts,   \* bound: starts of watch processes
  MaxRetries   \* bound: operator retries

JobIds == 1..MaxJobs
NoJob == 0
Procs == Workers \cup Clients

DocStatus == {"absent", "pending", "done", "failed"}
JobStatus == {"none", "pending", "running", "completed", "failed", "skipped"}
Kinds == {"ingest", "reocr"}
Places == {"recorded", "processed", "failed"}

ASSUME JobQueueAssumption ==
  /\ MaxJobs \in Nat /\ MaxStarts \in Nat /\ MaxRetries \in Nat
  /\ NoDoc \notin Docs
  /\ Workers \cap Clients = {}
  /\ Folders \subseteq {"processed", "failed"}
  /\ Retryable \subseteq JobStatus \ {"none"}
  /\ QuietStart \in BOOLEAN
  /\ Faults \subseteq {"crash", "client_crash", "store_error"}

VARIABLES
  docStatus,   \* documents.status, "absent" where there is no row
  stored,      \* documents whose row has vault_path and archive_path
  archived,    \* documents whose copy is in the archive directory
  noted,       \* documents whose note is in the vault
  origin,      \* the source file: at the path the row records, or moved away
  lastJob,     \* the last id given to a job
  jobDoc, jobKind, jobStatus, attempts,   \* the columns of the jobs table
  cooling,     \* failed jobs whose updated_at is less than ten seconds old
  pc, job,     \* per process: what it does next, and the job it works on
  target,      \* per process: the document it has recorded but not enqueued
  starts, retries   \* how much of the bounds is used

docVars == <<docStatus, stored, archived, noted, origin>>
jobVars == <<lastJob, jobDoc, jobKind, jobStatus, attempts, cooling>>
procVars == <<pc, job, target>>
vars == <<docVars, jobVars, procVars, starts, retries>>

MaxAttempts == 3

(* The steps of a process that holds a job it has claimed.                 *)
Working == {"extract", "archive", "note", "record", "complete", "fail"}
Steps == Working \cup {"down", "idle", "created", "claim", "tidy", "quarantine"}

TypeOK ==
  /\ docStatus \in [Docs -> DocStatus]
  /\ stored \subseteq Docs /\ archived \subseteq Docs /\ noted \subseteq Docs
  /\ origin \in [Docs -> Places]
  /\ lastJob \in 0..MaxJobs
  /\ jobDoc \in [JobIds -> Docs \cup {NoDoc}]
  /\ jobKind \in [JobIds -> Kinds]
  /\ jobStatus \in [JobIds -> JobStatus]
  /\ attempts \in [JobIds -> Nat]
  /\ cooling \subseteq JobIds
  /\ pc \in [Procs -> Steps]
  /\ job \in [Procs -> JobIds \cup {NoJob}]
  /\ target \in [Procs -> Docs \cup {NoDoc}]
  /\ starts \in 0..MaxStarts /\ retries \in 0..MaxRetries

Init ==
  /\ docStatus = [d \in Docs |-> "absent"]
  /\ stored = {} /\ archived = {} /\ noted = {}
  /\ origin = [d \in Docs |-> "recorded"]
  /\ lastJob = 0
  /\ jobDoc = [j \in JobIds |-> NoDoc]
  /\ jobKind = [j \in JobIds |-> "ingest"]
  /\ jobStatus = [j \in JobIds |-> "none"]
  /\ attempts = [j \in JobIds |-> 0]
  /\ cooling = {}
  /\ pc = [p \in Procs |-> IF p \in Workers THEN "down" ELSE "idle"]
  /\ job = [p \in Procs |-> NoJob]
  /\ target = [p \in Procs |-> NoDoc]
  /\ starts = 0 /\ retries = 0

-----------------------------------------------------------------------------
(* Helpers.                                                                *)

(* The document of the job p works on.                                     *)
DocOf(p) == jobDoc[job[p]]

Goto(p, step) == pc' = [pc EXCEPT ![p] = step]

(* p lets go of its job and is at `step' next.                             *)
Release(p, step) ==
  /\ Goto(p, step)
  /\ job' = [job EXCEPT ![p] = NoJob]

(* INSERT INTO jobs.                                                       *)
Insert(d, kind, status) ==
  /\ lastJob < MaxJobs
  /\ lastJob' = lastJob + 1
  /\ jobDoc' = [jobDoc EXCEPT ![lastJob + 1] = d]
  /\ jobKind' = [jobKind EXCEPT ![lastJob + 1] = kind]
  /\ jobStatus' = [jobStatus EXCEPT ![lastJob + 1] = status]
  /\ UNCHANGED <<attempts, cooling>>

(* Mutants: no limit on attempts; a running job is fair game; a failed job  *)
(* is never tried again.                                                    *)
ClaimableForEver(j) ==
  \/ jobStatus[j] = "pending"
  \/ jobStatus[j] = "failed" /\ j \notin cooling
ClaimableWhileRunning(j) == jobStatus[j] \in {"pending", "running"}
ClaimableOnce(j) == jobStatus[j] = "pending"

(* The WHERE clause of ClaimJob and ClaimJobByID.                          *)
Claimable(j) ==
  \/ jobStatus[j] = "pending"
  \/ jobStatus[j] = "failed" /\ attempts[j] < MaxAttempts /\ j \notin cooling

(* The UPDATE of ClaimJob and ClaimJobByID.                                *)
Claim(p, j) ==
  /\ jobStatus' = [jobStatus EXCEPT ![j] = "running"]
  /\ attempts' = [attempts EXCEPT ![j] = @ + 1]
  /\ job' = [job EXCEPT ![p] = j]
  /\ Goto(p, "extract")
  /\ UNCHANGED <<lastJob, jobDoc, jobKind, cooling>>

(* What the job reads is where the job looks for it: an ingest job reads    *)
(* the recorded source path, a reocr job the archived original.             *)
HasInput(j) ==
  IF jobKind[j] = "reocr" THEN jobDoc[j] \in archived
                          ELSE origin[jobDoc[j]] = "recorded"

(* Bound: every document keeps a row free for its ingest job, so that a     *)
(* skipped or a reocr job never takes the last one.                         *)
RoomForExtra ==
  lastJob + Cardinality({d \in Docs : \A j \in 1..lastJob : jobDoc[j] # d}) < MaxJobs

-----------------------------------------------------------------------------
(* One-shot processes.                                                      *)

(* Mutant: the row is replaced when the content is known.                   *)
ReplaceDocument(c, d) ==
  /\ pc[c] = "idle"
  /\ docStatus' = [docStatus EXCEPT ![d] = "pending"]
  /\ stored' = stored \ {d}
  /\ target' = [target EXCEPT ![c] = d]
  /\ Goto(c, "created")
  /\ UNCHANGED <<archived, noted, origin, jobVars, job, starts, retries>>

(* CreateOrGet of content nobody has recorded.                              *)
RecordDocument(c, d) ==
  /\ pc[c] = "idle"
  /\ docStatus[d] = "absent"
  /\ docStatus' = [docStatus EXCEPT ![d] = "pending"]
  /\ target' = [target EXCEPT ![c] = d]
  /\ Goto(c, "created")
  /\ UNCHANGED <<stored, archived, noted, origin, jobVars, job, starts, retries>>

(* CreateOrGet returns an existing row: the second copy is only noted down  *)
(* as a skipped job.                                                        *)
SkipDuplicate(c, d) ==
  /\ pc[c] = "idle"
  /\ docStatus[d] # "absent"
  /\ RoomForExtra
  /\ Insert(d, "ingest", "skipped")
  /\ UNCHANGED <<docVars, procVars, starts, retries>>

(* EnqueueJob by Ingest, which then claims that very job.                   *)
EnqueueAndClaim(c) ==
  /\ pc[c] = "created"
  /\ Insert(target[c], "ingest", "pending")
  /\ job' = [job EXCEPT ![c] = lastJob + 1]
  /\ target' = [target EXCEPT ![c] = NoDoc]
  /\ Goto(c, "claim")
  /\ UNCHANGED <<docVars, starts, retries>>

(* EnqueueJob by the watcher and the mail poller, which leave the job to a  *)
(* background worker.                                                       *)
EnqueueForWorker(c) ==
  /\ pc[c] = "created"
  /\ Insert(target[c], "ingest", "pending")
  /\ target' = [target EXCEPT ![c] = NoDoc]
  /\ Goto(c, "idle")
  /\ UNCHANGED <<docVars, job, starts, retries>>

(* What EnqueueReprocessJob looks for before it inserts.                    *)
ActiveReprocess(d) ==
  \E j \in JobIds : /\ jobDoc[j] = d /\ jobKind[j] = "reocr"
                    /\ jobStatus[j] \in {"pending", "running"}

(* Reprocess up to EnqueueReprocessJob.  With an active reocr job the call  *)
(* returns that job and changes nothing.                                    *)
Reprocess(c, d) ==
  /\ pc[c] = "idle"
  /\ d \in stored /\ d \in archived
  /\ ~ ActiveReprocess(d)
  /\ RoomForExtra
  /\ Insert(d, "reocr", "pending")
  /\ job' = [job EXCEPT ![c] = lastJob + 1]
  /\ Goto(c, "claim")
  /\ UNCHANGED <<docVars, target, starts, retries>>

(* ClaimJobByID finds the job still free.                                   *)
ClaimOwn(c) ==
  /\ pc[c] = "claim"
  /\ Claimable(job[c])
  /\ Claim(c, job[c])
  /\ UNCHANGED <<docVars, target, starts, retries>>

(* ClaimJobByID returns nil, another process was faster: the call fails.    *)
ClaimLost(c) ==
  /\ pc[c] = "claim"
  /\ ~ Claimable(job[c])
  /\ Release(c, "idle")
  /\ UNCHANGED <<docVars, jobVars, target, starts, retries>>

-----------------------------------------------------------------------------
(* Background workers.                                                      *)

(* ClaimJob: the oldest claimable job (ids are given in the order of         *)
(* created_at).                                                             *)
ClaimNext(w) ==
  /\ pc[w] = "idle"
  /\ \E j \in JobIds :
       /\ Claimable(j)
       /\ \A i \in JobIds : Claimable(i) => j <= i
       /\ Claim(w, j)
  /\ UNCHANGED <<docVars, target, starts, retries>>

(* Mutants: the reset also catches completed jobs; there is no reset.       *)
WatchStartResetsAll(w) ==
  /\ pc[w] = "down"
  /\ starts < MaxStarts
  /\ jobStatus' = [j \in JobIds |->
       IF jobStatus[j] \in {"running", "completed"} THEN "pending" ELSE jobStatus[j]]
  /\ Goto(w, "idle")
  /\ starts' = starts + 1
  /\ UNCHANGED <<docVars, lastJob, jobDoc, jobKind, attempts, cooling, job, target, retries>>
WatchStartWithoutReset(w) ==
  /\ pc[w] = "down"
  /\ starts < MaxStarts
  /\ Goto(w, "idle")
  /\ starts' = starts + 1
  /\ UNCHANGED <<docVars, jobVars, job, target, retries>>

(* A watch process comes up: ResetRunningJobs, then the worker loop.        *)
WatchStart(w) ==
  /\ pc[w] = "down"
  /\ starts < MaxStarts
  /\ QuietStart => \A p \in Procs \ {w} : pc[p] \notin Working
  /\ jobStatus' = [j \in JobIds |->
                     IF jobStatus[j] = "running" THEN "pending" ELSE jobStatus[j]]
  /\ Goto(w, "idle")
  /\ starts' = starts + 1
  /\ UNCHANGED <<docVars, lastJob, jobDoc, jobKind, attempts, cooling, job, target, retries>>

(* moveProcessedSource, after the job is completed.                         *)
MoveProcessed(w) ==
  /\ pc[w] = "tidy"
  /\ origin' = [origin EXCEPT ![DocOf(w)] =
                  IF @ = "recorded" /\ "processed" \in Folders THEN "processed" ELSE @]
  /\ Release(w, "idle")
  /\ UNCHANGED <<docStatus, stored, archived, noted, jobVars, target, starts, retries>>

(* moveFailedSource, whatever the number of attempts left.                  *)
MoveFailed(w) ==
  /\ pc[w] = "quarantine"
  /\ origin' = [origin EXCEPT ![DocOf(w)] =
                  IF @ = "recorded" /\ "failed" \in Folders THEN "failed" ELSE @]
  /\ Release(w, "idle")
  /\ UNCHANGED <<docStatus, stored, archived, noted, jobVars, target, starts, retries>>

-----------------------------------------------------------------------------
(* Processing a claimed job: processJob, processSource and what their       *)
(* callers do with the result.                                              *)

(* The text is extracted from an input that is still there.                 *)
Extract(p) ==
  /\ pc[p] = "extract"
  /\ HasInput(job[p])
  /\ Goto(p, IF jobKind[job[p]] = "reocr" THEN "note" ELSE "archive")
  /\ UNCHANGED <<docVars, jobVars, job, target, starts, retries>>

(* Mutant: an error of the copy is swallowed.                               *)
ArchiveOrNot(p) ==
  /\ pc[p] = "archive"
  /\ archived' = IF HasInput(job[p]) THEN archived \cup {DocOf(p)} ELSE archived
  /\ Goto(p, "note")
  /\ UNCHANGED <<docStatus, stored, noted, origin, jobVars, job, target, starts, retries>>

(* atomicCopy: nothing to do where the archive has the content already.     *)
Archive(p) ==
  /\ pc[p] = "archive"
  /\ DocOf(p) \in archived \/ HasInput(job[p])
  /\ archived' = archived \cup {DocOf(p)}
  /\ Goto(p, "note")
  /\ UNCHANGED <<docStatus, stored, noted, origin, jobVars, job, target, starts, retries>>

(* WriteNote or UpdateNote.                                                 *)
WriteNote(p) ==
  /\ pc[p] = "note"
  /\ noted' = noted \cup {DocOf(p)}
  /\ Goto(p, "record")
  /\ UNCHANGED <<docStatus, stored, archived, origin, jobVars, job, target, starts, retries>>

(* Extraction, copying or writing the note returns an error.                *)
ProcessFails(p) ==
  /\ pc[p] \in {"extract", "archive", "note"}
  /\ Goto(p, "fail")
  /\ UNCHANGED <<docVars, jobVars, job, target, starts, retries>>

(* SetVaultAndArchivePath, which also sets the document's status.           *)
SetVaultAndArchivePath(p) ==
  /\ pc[p] = "record"
  /\ stored' = stored \cup {DocOf(p)}
  /\ docStatus' = [docStatus EXCEPT ![DocOf(p)] = "done"]
  /\ Goto(p, "complete")
  /\ UNCHANGED <<archived, noted, origin, jobVars, job, target, starts, retries>>

(* CompleteJob; a worker then moves the source away.                        *)
CompleteJob(p) ==
  /\ pc[p] = "complete"
  /\ jobStatus' = [jobStatus EXCEPT ![job[p]] = "completed"]
  /\ docStatus' = [docStatus EXCEPT ![DocOf(p)] = "done"]
  /\ cooling' = cooling \ {job[p]}
  /\ IF p \in Workers THEN Goto(p, "tidy") /\ UNCHANGED job ELSE Release(p, "idle")
  /\ UNCHANGED <<stored, archived, noted, origin, lastJob, jobDoc, jobKind, attempts,
                 target, starts, retries>>

(* Mutants: terminal one attempt early, or one late; the source tidied away *)
(* as if it were processed.                                                 *)
FailJobWith(p, terminal, step) ==
  /\ pc[p] = "fail"
  /\ jobStatus' = [jobStatus EXCEPT ![job[p]] = "failed"]
  /\ docStatus' = [docStatus EXCEPT ![DocOf(p)] = IF terminal THEN "failed" ELSE @]
  /\ cooling' = cooling \cup {job[p]}
  /\ IF p \in Workers THEN Goto(p, step) /\ UNCHANGED job ELSE Release(p, "idle")
  /\ UNCHANGED <<stored, archived, noted, origin, lastJob, jobDoc, jobKind, attempts,
                 target, starts, retries>>
FailJobEarly(p) == FailJobWith(p, attempts[job[p]] >= MaxAttempts - 1, "quarantine")
FailJobLate(p) == FailJobWith(p, attempts[job[p]] > MaxAttempts, "quarantine")
FailJobTidies(p) == FailJobWith(p, attempts[job[p]] >= MaxAttempts, "tidy")

(* FailJob: terminal for the document once the attempts are used up.        *)
FailJob(p) ==
  /\ pc[p] = "fail"
  /\ jobStatus' = [jobStatus EXCEPT ![job[p]] = "failed"]
  /\ docStatus' = [docStatus EXCEPT ![DocOf(p)] =
                     IF attempts[job[p]] >= MaxAttempts THEN "failed" ELSE @]
  /\ cooling' = cooling \cup {job[p]}
  /\ IF p \in Workers THEN Goto(p, "quarantine") /\ UNCHANGED job ELSE Release(p, "idle")
  /\ UNCHANGED <<stored, archived, noted, origin, lastJob, jobDoc, jobKind, attempts,
                 target, starts, retries>>

-----------------------------------------------------------------------------
(* Operators, time and faults.                                              *)

(* Mutant: a retry gives one attempt back.                                  *)
RetryJobOnce(j) ==
  /\ jobStatus[j] \in Retryable
  /\ retries < MaxRetries
  /\ jobStatus' = [jobStatus EXCEPT ![j] = "pending"]
  /\ attempts' = [attempts EXCEPT ![j] = @ - 1]
  /\ cooling' = cooling \ {j}
  /\ docStatus' = [docStatus EXCEPT ![jobDoc[j]] = "pending"]
  /\ retries' = retries + 1
  /\ UNCHANGED <<stored, archived, noted, origin, lastJob, jobDoc, jobKind, procVars, starts>>

(* RetryJob: no condition on the job's status.                              *)
RetryJob(j) ==
  /\ jobStatus[j] \in Retryable
  /\ retries < MaxRetries
  /\ jobStatus' = [jobStatus EXCEPT ![j] = "pending"]
  /\ attempts' = [attempts EXCEPT ![j] = 0]
  /\ cooling' = cooling \ {j}
  /\ docStatus' = [docStatus EXCEPT ![jobDoc[j]] = "pending"]
  /\ retries' = retries + 1
  /\ UNCHANGED <<stored, archived, noted, origin, lastJob, jobDoc, jobKind, procVars, starts>>

(* Ten seconds have passed since a failed job was touched.                  *)
CoolDown(j) ==
  /\ jobStatus[j] = "failed" /\ j \in cooling
  /\ cooling' = cooling \ {j}
  /\ UNCHANGED <<docVars, lastJob, jobDoc, jobKind, jobStatus, attempts, procVars,
                 starts, retries>>

(* A watch process dies or is stopped.  The bound on starts is kept so that *)
(* it can come up again.                                                    *)
Crash(w) ==
  /\ "crash" \in Faults
  /\ pc[w] # "down"
  /\ starts < MaxStarts
  /\ Release(w, "down")
  /\ UNCHANGED <<docVars, jobVars, target, starts, retries>>

(* A one-shot process dies in the middle of a call.                         *)
ClientCrash(c) ==
  /\ "client_crash" \in Faults
  /\ pc[c] # "idle"
  /\ Release(c, "idle")
  /\ target' = [target EXCEPT ![c] = NoDoc]
  /\ UNCHANGED <<docVars, jobVars, starts, retries>>

(* A store method returns an error (a busy database, a cancelled context).  *)
(* A one-shot call returns at once.  A worker goes on with its loop after   *)
(* ClaimJob's second query or CompleteJob, takes an error of                *)
(* SetVaultAndArchivePath for a failure of the job, and after an error of   *)
(* FailJob still moves the source to the failed folder.                     *)
StoreError(p) ==
  /\ "store_error" \in Faults
  /\ \/ /\ p \in Clients /\ pc[p] \in {"created", "claim", "extract", "record", "complete", "fail"}
        /\ Release(p, "idle")
        /\ target' = [target EXCEPT ![p] = NoDoc]
     \/ /\ p \in Workers /\ pc[p] \in {"extract", "complete"}
        /\ Release(p, "idle")
        /\ UNCHANGED target
     \/ /\ p \in Workers /\ pc[p] \in {"record", "fail"}
        /\ Goto(p, IF pc[p] = "record" THEN "fail" ELSE "quarantine")
        /\ UNCHANGED <<job, target>>
  /\ UNCHANGED <<docVars, jobVars, starts, retries>>

-----------------------------------------------------------------------------
(* What a process does once it has something to do.                         *)
Process(p) ==
  \/ Extract(p) \/ Archive(p) \/ WriteNote(p) \/ ProcessFails(p)
  \/ SetVaultAndArchivePath(p) \/ CompleteJob(p) \/ FailJob(p)

WorkerStep(w) == ClaimNext(w) \/ Process(w) \/ MoveProcessed(w) \/ MoveFailed(w)

ClientStep(c) ==
  EnqueueAndClaim(c) \/ EnqueueForWorker(c) \/ ClaimOwn(c) \/ ClaimLost(c) \/ Process(c)

ClientCall(c, d) == RecordDocument(c, d) \/ SkipDuplicate(c, d) \/ Reprocess(c, d)

Next ==
  \/ \E w \in Workers : WorkerStep(w) \/ WatchStart(w) \/ Crash(w)
  \/ \E c \in Clients : ClientStep(c) \/ ClientCrash(c)
  \/ \E c \in Clients, d \in Docs : ClientCall(c, d)
  \/ \E p \in Procs : StoreError(p)
  \/ \E j \in JobIds : RetryJob(j) \/ CoolDown(j)

Spec == Init /\ [][Next]_vars

(* Running processes keep running, the service manager restarts a dead      *)
(* watch process, time passes.  Nobody has to call, to retry or to fail.    *)
Fairness ==
  /\ \A w \in Workers : WF_vars(WorkerStep(w)) /\ WF_vars(WatchStart(w))
  /\ \A c \in Clients : WF_vars(ClientStep(c))
  /\ \A j \in JobIds : WF_vars(CoolDown(j))

FairSpec == Spec /\ Fairness

-----------------------------------------------------------------------------
(* What the queue promises, whatever fails and whoever interferes.          *)

(* A row never points at a note or an archived original that is not there,  *)
(* and 'done' is never said of a document without them: the files are       *)
(* written before SetVaultAndArchivePath, through every crash, retry and    *)
(* reset (pipeline.go:154-232, worker.go).                                  *)
StoreNeverLies ==
  \A d \in Docs : d \in stored \/ docStatus[d] = "done" => d \in stored \cap archived \cap noted

(* A completed job has left its document stored, also when two processes    *)
(* worked on it or it was retried half way (CompleteJob, store.go:585).     *)
CompletedIsStored ==
  \A j \in JobIds : jobStatus[j] = "completed" => jobDoc[j] \in stored

(* A source leaves for the processed folder only once its content is in the *)
(* archive and the vault: a crash before the move loses nothing             *)
(* (moveProcessedSource comes last in worker.go).                           *)
MovedAfterStored ==
  \A d \in Docs : origin[d] = "processed" => d \in stored

(* A document is given up only for a job that has used its three attempts   *)
(* and still stands as failed (FailJob and RetryJob, store.go:607-701).     *)
GivenUpAfterAttempts ==
  \A d \in Docs : docStatus[d] = "failed" =>
    \E j \in JobIds : /\ jobDoc[j] = d /\ jobStatus[j] = "failed"
                      /\ attempts[j] >= MaxAttempts

(* A document that waits has something to wait for: a job that is claimed   *)
(* or will be, also when its source was moved away with attempts left, a    *)
(* process lost its job to a reset, or an operator retried a job under it.  *)
(* Only one that never got a job has not: its caller is at work, or died,   *)
(* between CreateOrGet and EnqueueJob (store.go:497-701, worker.go:36-70).  *)
Live(j) ==
  \/ jobStatus[j] \in {"pending", "running"}
  \/ jobStatus[j] = "failed" /\ attempts[j] < MaxAttempts

WaitingHasJob ==
  \A d \in Docs : docStatus[d] = "pending" =>
    \/ \E j \in JobIds : jobDoc[j] = d /\ Live(j)
    \/ \A j \in JobIds : jobDoc[j] = d => jobStatus[j] = "skipped"

(* Claims beyond the third need a restart each: ResetRunningJobs makes a    *)
(* job claimable again without looking at its attempts, so a job that kills *)
(* its worker is tried once per restart, and never more often.              *)
AttemptsNeedRestarts ==
  \A j \in JobIds : attempts[j] <= MaxAttempts + starts

(* What a caller sees of a document: absent, accepted, stored, rejected.    *)
Phase ==
  [d \in Docs |->
     IF d \in stored THEN IF d \in archived /\ d \in noted THEN "stored" ELSE "torn"
     ELSE CASE docStatus[d] = "absent" -> "absent"
            [] docStatus[d] = "failed" -> "rejected"
            [] OTHER -> "accepted"]

Caller == INSTANCE Intake WITH phase <- Phase

(* The queue implements the life of a document that Intake promises.        *)
ImplementsIntake == Caller!Spec

-----------------------------------------------------------------------------
(* What it promises to disciplined users: operators retry only what has     *)
(* failed, and a watch process starts while nobody is at work.              *)

(* A job is worked on by one process at a time: the claim is one UPDATE     *)
(* with the status in its WHERE clause (store.go:497-582).                  *)
Exclusive ==
  \A p, q \in Procs : pc[p] \in Working /\ pc[q] \in Working /\ job[p] = job[q] => p = q

(* A completed job is never taken up or failed again.                       *)
CompletedIsFinal ==
  [][\A j \in JobIds : jobStatus[j] = "completed" => jobStatus'[j] = "completed"]_vars

-----------------------------------------------------------------------------
(* What eventually happens.                                                 *)

(* A job that waits ends completed, or failed with its attempts used up.    *)
Settled(j) ==
  jobStatus[j] = "completed" \/ (jobStatus[j] = "failed" /\ attempts[j] >= MaxAttempts)

EveryJobSettles ==
  \A j \in JobIds : jobStatus[j] = "pending" ~> Settled(j)

(* The abstract fairness of Intake follows from the processes' fairness.    *)
ImplementsFairIntake == Caller!FairSpec
=============================================================================
