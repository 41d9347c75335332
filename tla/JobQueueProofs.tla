--------------------------- MODULE JobQueueProofs ---------------------------
(***************************************************************************)
(* Machine-checked proofs about JobQueue, for every set of documents,      *)
(* workers and clients, every bound, every choice of faults and of what    *)
(* operators retry.                                                        *)
(***************************************************************************)
EXTENDS JobQueue, TLAPS

(* The rows of the jobs table are those with an id up to lastJob, and each *)
(* refers to a document.                                                   *)
RowsOK ==
  \A j \in JobIds :
    /\ jobStatus[j] # "none" <=> j <= lastJob
    /\ IF j <= lastJob THEN jobDoc[j] \in Docs ELSE jobDoc[j] = NoDoc
    /\ jobStatus[j] = "none" => attempts[j] = 0

(* The steps at which a process refers to a job.                           *)
Holding == Working \cup {"claim", "tidy", "quarantine"}

(* A process that refers to a job or to a document refers to one that is   *)
(* in the tables.                                                          *)
HoldersOK ==
  \A p \in Procs :
    /\ pc[p] \in Holding => job[p] \in JobIds /\ job[p] <= lastJob
    /\ pc[p] = "created" => target[p] \in Docs

TypeInv == TypeOK /\ RowsOK /\ HoldersOK

(* A process goes on to another step, with or without its job.             *)
LEMMA StepTypes ==
  ASSUME pc \in [Procs -> Steps], job \in [Procs -> JobIds \cup {NoJob}],
         NEW p, NEW step \in Steps, pc' = [pc EXCEPT ![p] = step],
         job' = job \/ job' = [job EXCEPT ![p] = NoJob]
  PROVE  pc' \in [Procs -> Steps] /\ job' \in [Procs -> JobIds \cup {NoJob}]
<1>1. pc' \in [Procs -> Steps]
  OBVIOUS
<1>2. job' \in [Procs -> JobIds \cup {NoJob}]
  OBVIOUS
<1> QED BY <1>1, <1>2

(* A failed job leaves the types of what it writes.                        *)
LEMMA FailTypes ==
  ASSUME docStatus \in [Docs -> DocStatus], jobStatus \in [JobIds -> JobStatus],
         cooling \subseteq JobIds, NEW d, NEW j \in JobIds, NEW terminal,
         docStatus' = [docStatus EXCEPT ![d] = IF terminal THEN "failed" ELSE @],
         jobStatus' = [jobStatus EXCEPT ![j] = "failed"], cooling' = cooling \cup {j}
  PROVE  /\ docStatus' \in [Docs -> DocStatus] /\ jobStatus' \in [JobIds -> JobStatus]
         /\ cooling' \subseteq JobIds
<1>1. docStatus' = docStatus \/ docStatus' = [docStatus EXCEPT ![d] = "failed"]
  OBVIOUS
<1>2. docStatus' \in [Docs -> DocStatus]
  BY <1>1 DEF DocStatus
<1>3. jobStatus' \in [JobIds -> JobStatus] /\ cooling' \subseteq JobIds
  BY DEF JobStatus
<1> QED BY <1>2, <1>3

(* A process goes on with the job it has, or lets go of it.                *)
LEMMA MovesOn ==
  ASSUME TypeInv, NEW p \in Procs, NEW step \in Steps \ {"created"},
         pc' = [pc EXCEPT ![p] = step],
         \/ job' = job /\ (step \in Holding => pc[p] \in Holding)
         \/ job' = [job EXCEPT ![p] = NoJob] /\ step \notin Holding,
         target' = target \/ target' = [target EXCEPT ![p] = NoDoc],
         archived' \subseteq Docs, noted' \subseteq Docs, origin' \in [Docs -> Places],
         UNCHANGED <<docStatus, stored, jobVars, starts, retries>>
  PROVE  TypeInv'
<1>1. pc' \in [Procs -> Steps] /\ job' \in [Procs -> JobIds \cup {NoJob}]
  BY StepTypes DEF TypeInv, TypeOK
<1>2. target' \in [Procs -> Docs \cup {NoDoc}]
  BY DEF TypeInv, TypeOK
<1>3. TypeOK'
  BY <1>1, <1>2 DEF TypeInv, TypeOK, jobVars
<1>4. RowsOK'
  BY DEF TypeInv, RowsOK, jobVars
<1>5. ASSUME NEW q \in Procs
      PROVE  /\ pc'[q] \in Holding => job'[q] \in JobIds /\ job'[q] <= lastJob
             /\ pc'[q] = "created" => target'[q] \in Docs
  <2>1. /\ pc[q] \in Holding => job[q] \in JobIds /\ job[q] <= lastJob
        /\ pc[q] = "created" => target[q] \in Docs
    BY DEF TypeInv, HoldersOK
  <2>2. q # p => pc'[q] = pc[q] /\ job'[q] = job[q] /\ target'[q] = target[q]
    BY Zenon DEF TypeInv, TypeOK
  <2>3. pc'[p] = step /\ (step \in Holding => job'[p] = job[p] /\ pc[p] \in Holding)
    BY Zenon DEF TypeInv, TypeOK
  <2> QED
    BY <2>1, <2>2, <2>3
<1>6. HoldersOK'
  BY <1>5 DEF HoldersOK, jobVars
<1> QED BY <1>3, <1>4, <1>6 DEF TypeInv

LEMMA ProcessTypes ==
  ASSUME TypeInv, NEW p \in Procs,
         \/ Extract(p) \/ Archive(p) \/ WriteNote(p) \/ ProcessFails(p)
         \/ MoveProcessed(p) \/ MoveFailed(p) \/ StoreError(p)
  PROVE  TypeInv'
<1>1. /\ archived \subseteq Docs /\ noted \subseteq Docs /\ origin \in [Docs -> Places]
      /\ pc[p] \in Holding => DocOf(p) \in Docs
  BY DEF TypeInv, TypeOK, RowsOK, HoldersOK, DocOf
<1>2. /\ {"extract", "archive", "note", "record", "fail", "tidy", "quarantine"} \subseteq
           Holding \cap (Steps \ {"created"})
      /\ "idle" \in Steps \ {"created"} /\ "idle" \notin Holding
  BY DEF Holding, Steps, Working
<1>3. CASE Extract(p)
  <2>1. PICK step \in {"archive", "note"} :
          /\ pc[p] = "extract" /\ pc' = [pc EXCEPT ![p] = step]
          /\ UNCHANGED <<docVars, jobVars, job, target, starts, retries>>
    BY <1>3, Zenon DEF Extract, Goto
  <2> QED
    BY <1>1, <1>2, <2>1, MovesOn DEF docVars
<1>4. CASE Archive(p)
  <2>1. /\ pc[p] = "archive" /\ pc' = [pc EXCEPT ![p] = "note"]
        /\ archived' = archived \cup {DocOf(p)}
        /\ UNCHANGED <<docStatus, stored, noted, origin, jobVars, job, target, starts, retries>>
    BY <1>4, Zenon DEF Archive, Goto
  <2> QED
    BY <1>1, <1>2, <2>1, MovesOn
<1>5. CASE WriteNote(p)
  <2>1. /\ pc[p] = "note" /\ pc' = [pc EXCEPT ![p] = "record"]
        /\ noted' = noted \cup {DocOf(p)}
        /\ UNCHANGED <<docStatus, stored, archived, origin, jobVars, job, target, starts, retries>>
    BY <1>5, Zenon DEF WriteNote, Goto
  <2> QED
    BY <1>1, <1>2, <2>1, MovesOn
<1>6. CASE ProcessFails(p)
  <2>1. /\ pc[p] \in {"extract", "archive", "note"} /\ pc' = [pc EXCEPT ![p] = "fail"]
        /\ UNCHANGED <<docVars, jobVars, job, target, starts, retries>>
    BY <1>6, Zenon DEF ProcessFails, Goto
  <2> QED
    BY <1>1, <1>2, <2>1, MovesOn DEF docVars
<1>7. CASE MoveProcessed(p) \/ MoveFailed(p)
  <2>1. PICK place \in {"processed", "failed"} :
          \/ origin' = [origin EXCEPT ![DocOf(p)] = place] \/ origin' = origin
    <3>1. origin' = [origin EXCEPT ![DocOf(p)] = origin[DocOf(p)]] => origin' = origin
      BY <1>1
    <3> QED
      BY <1>7, <3>1 DEF MoveProcessed, MoveFailed
  <2>2. /\ pc' = [pc EXCEPT ![p] = "idle"] /\ job' = [job EXCEPT ![p] = NoJob]
        /\ UNCHANGED <<docStatus, stored, archived, noted, jobVars, target, starts, retries>>
    BY <1>7, Zenon DEF MoveProcessed, MoveFailed, Release, Goto
  <2>3. origin' \in [Docs -> Places]
    BY <1>1, <2>1 DEF Places
  <2> QED
    BY <1>1, <1>2, <2>2, <2>3, MovesOn
<1>8. CASE StoreError(p)
  <2>1. UNCHANGED <<docVars, jobVars, starts, retries>>
    BY <1>8, Zenon DEF StoreError
  <2>2. \/ /\ pc' = [pc EXCEPT ![p] = "idle"] /\ job' = [job EXCEPT ![p] = NoJob]
           /\ target' = target \/ target' = [target EXCEPT ![p] = NoDoc]
        \/ \E step \in {"fail", "quarantine"} :
             /\ pc[p] \in {"record", "fail"} /\ pc' = [pc EXCEPT ![p] = step]
             /\ job' = job /\ target' = target
    BY <1>8, Zenon DEF StoreError, Release, Goto
  <2> QED
    BY <1>1, <1>2, <2>1, <2>2, MovesOn DEF docVars
<1> QED BY <1>3, <1>4, <1>5, <1>6, <1>7, <1>8

(* TypeOK is inductive only together with the two facts above: what a step *)
(* adds to the archive or the vault is a document because the job it works *)
(* on is a row of the table.                                               *)
LEMMA TypeInvariant == Spec => []TypeInv
<1> USE JobQueueAssumption DEF JobIds, NoJob, Procs, MaxAttempts
<1>1. Init => TypeInv
  BY DEF Init, TypeInv, TypeOK, RowsOK, HoldersOK, Holding, Working, Steps, DocStatus,
         JobStatus, Kinds, Places
<1>2. ASSUME TypeInv, [Next]_vars PROVE TypeInv'
  <2>10. ASSUME NEW p \in Procs,
                \/ Extract(p) \/ Archive(p) \/ WriteNote(p) \/ ProcessFails(p)
                \/ MoveProcessed(p) \/ MoveFailed(p) \/ StoreError(p)
         PROVE  TypeInv'
    BY <1>2, <2>10, ProcessTypes
  <2> USE <1>2 DEF TypeInv, TypeOK, RowsOK, HoldersOK, Holding, Working, Steps, DocStatus,
          JobStatus, Kinds, Places, docVars, jobVars, procVars, Goto, Release, DocOf
  <2>1. ASSUME NEW c \in Clients, NEW d \in Docs, RecordDocument(c, d) PROVE TypeInv'
    BY <2>1 DEF RecordDocument
  <2>2. ASSUME NEW c \in Clients, NEW d \in Docs, SkipDuplicate(c, d) PROVE TypeInv'
    BY <2>2 DEF SkipDuplicate, Insert
  <2>3. ASSUME NEW c \in Clients, EnqueueAndClaim(c) PROVE TypeInv'
    BY <2>3 DEF EnqueueAndClaim, Insert
  <2>4. ASSUME NEW c \in Clients, EnqueueForWorker(c) PROVE TypeInv'
    BY <2>4 DEF EnqueueForWorker, Insert
  <2>5. ASSUME NEW c \in Clients, NEW d \in Docs, Reprocess(c, d) PROVE TypeInv'
    BY <2>5 DEF Reprocess, Insert
  <2>6. ASSUME NEW c \in Clients, ClaimOwn(c) PROVE TypeInv'
    <3>1. job[c] \in JobIds /\ job[c] <= lastJob
      BY <2>6 DEF ClaimOwn
    <3>2. UNCHANGED <<docVars, lastJob, jobDoc, jobKind, cooling, target, starts, retries>>
      BY <2>6 DEF ClaimOwn, Claim
    <3>3. /\ jobStatus' = [jobStatus EXCEPT ![job[c]] = "running"]
          /\ attempts' = [attempts EXCEPT ![job[c]] = @ + 1]
          /\ pc' = [pc EXCEPT ![c] = "extract"] /\ job' = [job EXCEPT ![c] = job[c]]
      BY <2>6 DEF ClaimOwn, Claim
    <3>4. TypeOK'
      <4>1. jobStatus' \in [JobIds -> JobStatus] /\ attempts' \in [JobIds -> Nat]
        BY <3>1, <3>3
      <4>2. pc' \in [Procs -> Steps] /\ job' \in [Procs -> JobIds \cup {NoJob}]
        BY <3>1, <3>3
      <4> QED
        BY <3>2, <4>1, <4>2
    <3>5. RowsOK'
      BY <3>1, <3>2, <3>3
    <3>6. HoldersOK'
      BY <3>1, <3>2, <3>3
    <3> QED
      BY <3>4, <3>5, <3>6
  <2>7. ASSUME NEW c \in Clients, ClaimLost(c) PROVE TypeInv'
    BY <2>7 DEF ClaimLost
  <2>8. ASSUME NEW w \in Workers, ClaimNext(w) PROVE TypeInv'
    BY <2>8 DEF ClaimNext, Claim, Claimable
  <2>9. ASSUME NEW w \in Workers, WatchStart(w) PROVE TypeInv'
    BY <2>9 DEF WatchStart
  <2>16. ASSUME NEW p \in Procs, SetVaultAndArchivePath(p) PROVE TypeInv'
    <3>1. job[p] \in JobIds /\ job[p] <= lastJob /\ jobDoc[job[p]] \in Docs
      BY <2>16 DEF SetVaultAndArchivePath
    <3>2. /\ stored' = stored \cup {DocOf(p)} /\ pc' = [pc EXCEPT ![p] = "complete"]
          /\ docStatus' = [docStatus EXCEPT ![DocOf(p)] = "done"]
          /\ UNCHANGED <<archived, noted, origin, jobVars, job, target, starts, retries>>
      BY <2>16 DEF SetVaultAndArchivePath
    <3>3. /\ docStatus' \in [Docs -> DocStatus] /\ stored' \subseteq Docs
          /\ pc' \in [Procs -> Steps]
      BY <3>1, <3>2
    <3>4. TypeOK'
      BY <3>2, <3>3
    <3>5. RowsOK'
      BY <3>2
    <3>6. HoldersOK'
      BY <2>16, <3>1, <3>2 DEF SetVaultAndArchivePath
    <3> QED
      BY <3>4, <3>5, <3>6
  <2>17. ASSUME NEW p \in Procs, CompleteJob(p) PROVE TypeInv'
    <3>1. job[p] \in JobIds /\ job[p] <= lastJob /\ jobDoc[job[p]] \in Docs
      BY <2>17 DEF CompleteJob
    <3>2. \/ pc' = [pc EXCEPT ![p] = "tidy"] /\ job' = job
          \/ pc' = [pc EXCEPT ![p] = "idle"] /\ job' = [job EXCEPT ![p] = NoJob]
      BY <2>17 DEF CompleteJob
    <3>3. pc' \in [Procs -> Steps] /\ job' \in [Procs -> JobIds \cup {NoJob}]
      BY <3>2, StepTypes
    <3>4. /\ docStatus' \in [Docs -> DocStatus] /\ jobStatus' \in [JobIds -> JobStatus]
          /\ cooling' \subseteq JobIds
      BY <2>17, <3>1 DEF CompleteJob
    <3>5. UNCHANGED <<stored, archived, noted, origin, lastJob, jobDoc, jobKind, attempts,
                      target, starts, retries>>
      BY <2>17 DEF CompleteJob
    <3>6. TypeOK'
      BY <3>3, <3>4, <3>5
    <3>7. RowsOK'
      BY <2>17, <3>1 DEF CompleteJob
    <3>8. HoldersOK'
      BY <3>1, <3>2, <3>5
    <3> QED
      BY <3>6, <3>7, <3>8
  <2>18. ASSUME NEW p \in Procs, FailJob(p) PROVE TypeInv'
    <3>1. job[p] \in JobIds /\ job[p] <= lastJob /\ jobDoc[job[p]] \in Docs
      BY <2>18 DEF FailJob
    <3>2. \/ pc' = [pc EXCEPT ![p] = "quarantine"] /\ job' = job
          \/ pc' = [pc EXCEPT ![p] = "idle"] /\ job' = [job EXCEPT ![p] = NoJob]
      BY <2>18 DEF FailJob
    <3>3. pc' \in [Procs -> Steps] /\ job' \in [Procs -> JobIds \cup {NoJob}]
      BY <3>2, StepTypes
    <3>4. /\ docStatus' \in [Docs -> DocStatus] /\ jobStatus' \in [JobIds -> JobStatus]
          /\ cooling' \subseteq JobIds
      BY <2>18, <3>1, FailTypes DEF FailJob
    <3>5. UNCHANGED <<stored, archived, noted, origin, lastJob, jobDoc, jobKind, attempts,
                      target, starts, retries>>
      BY <2>18 DEF FailJob
    <3>6. TypeOK'
      BY <3>3, <3>4, <3>5
    <3>7. RowsOK'
      BY <2>18, <3>1 DEF FailJob
    <3>8. HoldersOK'
      BY <3>1, <3>2, <3>5
    <3> QED
      BY <3>6, <3>7, <3>8
  <2>19. ASSUME NEW j \in JobIds, RetryJob(j) PROVE TypeInv'
    BY <2>19 DEF RetryJob
  <2>20. ASSUME NEW j \in JobIds, CoolDown(j) PROVE TypeInv'
    BY <2>20 DEF CoolDown
  <2>21. ASSUME NEW w \in Workers, Crash(w) PROVE TypeInv'
    BY <2>21 DEF Crash
  <2>22. ASSUME NEW c \in Clients, ClientCrash(c) PROVE TypeInv'
    BY <2>22 DEF ClientCrash
  <2>24. CASE UNCHANGED vars
    BY <2>24 DEF vars
  <2> QED
    BY <2>1, <2>2, <2>3, <2>4, <2>5, <2>6, <2>7, <2>8, <2>9, <2>10, <2>16,
       <2>17, <2>18, <2>19, <2>20, <2>21, <2>22, <2>24
    DEF Next, WorkerStep, ClientStep, ClientCall, Process
<1> QED
  BY <1>1, <1>2, PTL DEF Spec

(* Every variable always has its type.                                     *)
THEOREM TypeCorrect == Spec => []TypeOK
  BY TypeInvariant, PTL DEF TypeInv
-----------------------------------------------------------------------------
(* How far the files are when a process has come to a step: the archived   *)
(* copy before the note, both before the row points at them.               *)
FilesOK ==
  \A p \in Procs :
    /\ pc[p] \in {"note", "record", "complete", "tidy"} => DocOf(p) \in archived
    /\ pc[p] \in {"record", "complete", "tidy"} => DocOf(p) \in noted
    /\ pc[p] \in {"complete", "tidy"} => DocOf(p) \in stored

StorageInv == FilesOK /\ StoreNeverLies /\ CompletedIsStored /\ MovedAfterStored

LEMMA StorageInvariant == Spec => []StorageInv
<1> USE JobQueueAssumption DEF JobIds, NoJob, Procs
<1>1. Init => StorageInv
  BY DEF Init, StorageInv, FilesOK, StoreNeverLies, CompletedIsStored, MovedAfterStored
<1>2. ASSUME TypeInv, StorageInv, [Next]_vars PROVE StorageInv'
  <2> USE <1>2 DEF TypeInv, TypeOK, RowsOK, HoldersOK, Holding, Working, StorageInv, FilesOK,
          StoreNeverLies, CompletedIsStored, MovedAfterStored, docVars, jobVars, procVars,
          Goto, Release, DocOf
  <2>1. ASSUME NEW c \in Clients, NEW d \in Docs, RecordDocument(c, d) PROVE StorageInv'
    BY <2>1 DEF RecordDocument
  <2>2. ASSUME NEW c \in Clients, NEW d \in Docs, SkipDuplicate(c, d) PROVE StorageInv'
    BY <2>2 DEF SkipDuplicate, Insert
  <2>3. ASSUME NEW c \in Clients, EnqueueAndClaim(c) PROVE StorageInv'
    BY <2>3 DEF EnqueueAndClaim, Insert
  <2>4. ASSUME NEW c \in Clients, EnqueueForWorker(c) PROVE StorageInv'
    BY <2>4 DEF EnqueueForWorker, Insert
  <2>5. ASSUME NEW c \in Clients, NEW d \in Docs, Reprocess(c, d) PROVE StorageInv'
    BY <2>5 DEF Reprocess, Insert
  <2>6. ASSUME NEW c \in Clients, ClaimOwn(c) PROVE StorageInv'
    BY <2>6 DEF ClaimOwn, Claim, Claimable
  <2>7. ASSUME NEW c \in Clients, ClaimLost(c) PROVE StorageInv'
    BY <2>7 DEF ClaimLost
  <2>8. ASSUME NEW w \in Workers, ClaimNext(w) PROVE StorageInv'
    BY <2>8 DEF ClaimNext, Claim, Claimable
  <2>9. ASSUME NEW w \in Workers, WatchStart(w) PROVE StorageInv'
    BY <2>9 DEF WatchStart
  <2>10. ASSUME NEW w \in Workers, MoveProcessed(w) PROVE StorageInv'
    BY <2>10 DEF MoveProcessed
  <2>11. ASSUME NEW w \in Workers, MoveFailed(w) PROVE StorageInv'
    BY <2>11 DEF MoveFailed
  <2>12. ASSUME NEW p \in Procs, Extract(p) PROVE StorageInv'
    <3>1. \/ pc' = [pc EXCEPT ![p] = "archive"]
          \/ pc' = [pc EXCEPT ![p] = "note"] /\ DocOf(p) \in archived
      BY <2>12 DEF Extract, HasInput
    <3>2. UNCHANGED <<docVars, jobVars, job>>
      BY <2>12 DEF Extract
    <3> QED
      BY <3>1, <3>2
  <2>13. ASSUME NEW p \in Procs, Archive(p) PROVE StorageInv'
    BY <2>13 DEF Archive
  <2>14. ASSUME NEW p \in Procs, WriteNote(p) PROVE StorageInv'
    BY <2>14 DEF WriteNote
  <2>15. ASSUME NEW p \in Procs, ProcessFails(p) PROVE StorageInv'
    BY <2>15 DEF ProcessFails
  <2>16. ASSUME NEW p \in Procs, SetVaultAndArchivePath(p) PROVE StorageInv'
    BY <2>16 DEF SetVaultAndArchivePath
  <2>17. ASSUME NEW p \in Procs, CompleteJob(p) PROVE StorageInv'
    <3>1. DocOf(p) \in stored \cap archived \cap noted
      BY <2>17 DEF CompleteJob
    <3>2. FilesOK'
      <4>1. CASE p \in Workers
        BY <2>17, <3>1, <4>1 DEF CompleteJob
      <4>2. CASE p \notin Workers
        <5>1. /\ pc' = [pc EXCEPT ![p] = "idle"] /\ job' = [job EXCEPT ![p] = NoJob]
              /\ UNCHANGED <<stored, archived, noted, jobDoc>>
          BY <2>17, <4>2 DEF CompleteJob
        <5> QED
          BY <5>1
      <4> QED
        BY <4>1, <4>2
    <3>3. (StoreNeverLies /\ CompletedIsStored /\ MovedAfterStored)'
      BY <2>17, <3>1 DEF CompleteJob
    <3> QED
      BY <3>2, <3>3
  <2>18. ASSUME NEW p \in Procs, FailJob(p) PROVE StorageInv'
    <3>1. FilesOK'
      <4>1. CASE p \in Workers
        BY <2>18, <4>1 DEF FailJob
      <4>2. CASE p \notin Workers
        <5>1. /\ pc' = [pc EXCEPT ![p] = "idle"] /\ job' = [job EXCEPT ![p] = NoJob]
              /\ UNCHANGED <<stored, archived, noted, jobDoc>>
          BY <2>18, <4>2 DEF FailJob
        <5> QED
          BY <5>1
      <4> QED
        BY <4>1, <4>2
    <3>2. (StoreNeverLies /\ CompletedIsStored /\ MovedAfterStored)'
      BY <2>18 DEF FailJob
    <3> QED
      BY <3>1, <3>2
  <2>19. ASSUME NEW j \in JobIds, RetryJob(j) PROVE StorageInv'
    BY <2>19 DEF RetryJob
  <2>20. ASSUME NEW j \in JobIds, CoolDown(j) PROVE StorageInv'
    BY <2>20 DEF CoolDown
  <2>21. ASSUME NEW w \in Workers, Crash(w) PROVE StorageInv'
    BY <2>21 DEF Crash
  <2>22. ASSUME NEW c \in Clients, ClientCrash(c) PROVE StorageInv'
    BY <2>22 DEF ClientCrash
  <2>23. ASSUME NEW p \in Procs, StoreError(p) PROVE StorageInv'
    <3>1. UNCHANGED <<docVars, jobVars>>
      BY <2>23, Zenon DEF StoreError
    <3>2. \/ pc' = [pc EXCEPT ![p] = "idle"] /\ job' = [job EXCEPT ![p] = NoJob]
          \/ \E step \in {"fail", "quarantine"} : pc' = [pc EXCEPT ![p] = step] /\ job' = job
      BY <2>23, Zenon DEF StoreError
    <3>3. FilesOK'
      BY <3>1, <3>2
    <3>4. (StoreNeverLies /\ CompletedIsStored /\ MovedAfterStored)'
      BY <3>1
    <3> QED
      BY <3>3, <3>4
  <2>24. CASE UNCHANGED vars
    BY <2>24 DEF vars
  <2> QED
    BY <2>1, <2>2, <2>3, <2>4, <2>5, <2>6, <2>7, <2>8, <2>9, <2>10, <2>11,
       <2>12, <2>13, <2>14, <2>15, <2>16, <2>17, <2>18, <2>19, <2>20, <2>21,
       <2>22, <2>23, <2>24
    DEF Next, WorkerStep, ClientStep, ClientCall, Process
<1> QED
  BY TypeInvariant, <1>1, <1>2, PTL DEF Spec

(* A row or the status 'done' never vouches for files that are not there.  *)
THEOREM StoreTruth == Spec => []StoreNeverLies
  BY StorageInvariant, PTL DEF StorageInv

(* A completed job has stored its document, whoever else worked on it.     *)
THEOREM CompletionTruth == Spec => []CompletedIsStored
  BY StorageInvariant, PTL DEF StorageInv

(* The source is moved to the processed folder after its content is safe.  *)
THEOREM SourceCustody == Spec => []MovedAfterStored
  BY StorageInvariant, PTL DEF StorageInv

-----------------------------------------------------------------------------
(* A rejected document still has the exhausted job that rejected it: only  *)
(* a retry or a completion takes a job out of that state, and each of them *)
(* also changes the document's status.                                     *)
THEOREM RejectionTruth == Spec => []GivenUpAfterAttempts
<1> USE JobQueueAssumption DEF JobIds, NoJob, Procs, MaxAttempts
<1>1. Init => GivenUpAfterAttempts
  BY DEF Init, GivenUpAfterAttempts
<1>2. ASSUME TypeInv, GivenUpAfterAttempts, [Next]_vars PROVE GivenUpAfterAttempts'
  <2> USE <1>2 DEF TypeInv, TypeOK, RowsOK, HoldersOK, Holding, Working, GivenUpAfterAttempts,
          docVars, jobVars, procVars, Goto, Release, DocOf
  <2>1. ASSUME NEW c \in Clients, NEW d \in Docs, RecordDocument(c, d) PROVE GivenUpAfterAttempts'
    BY <2>1 DEF RecordDocument
  <2>2. ASSUME NEW c \in Clients, NEW d \in Docs, SkipDuplicate(c, d) PROVE GivenUpAfterAttempts'
    BY <2>2 DEF SkipDuplicate, Insert
  <2>3. ASSUME NEW c \in Clients, EnqueueAndClaim(c) PROVE GivenUpAfterAttempts'
    BY <2>3 DEF EnqueueAndClaim, Insert
  <2>4. ASSUME NEW c \in Clients, EnqueueForWorker(c) PROVE GivenUpAfterAttempts'
    BY <2>4 DEF EnqueueForWorker, Insert
  <2>5. ASSUME NEW c \in Clients, NEW d \in Docs, Reprocess(c, d) PROVE GivenUpAfterAttempts'
    BY <2>5 DEF Reprocess, Insert
  <2>6. ASSUME NEW c \in Clients, ClaimOwn(c) PROVE GivenUpAfterAttempts'
    BY <2>6 DEF ClaimOwn, Claim, Claimable
  <2>7. ASSUME NEW c \in Clients, ClaimLost(c) PROVE GivenUpAfterAttempts'
    BY <2>7 DEF ClaimLost
  <2>8. ASSUME NEW w \in Workers, ClaimNext(w) PROVE GivenUpAfterAttempts'
    BY <2>8 DEF ClaimNext, Claim, Claimable
  <2>9. ASSUME NEW w \in Workers, WatchStart(w) PROVE GivenUpAfterAttempts'
    BY <2>9 DEF WatchStart
  <2>10. ASSUME NEW w \in Workers, MoveProcessed(w) PROVE GivenUpAfterAttempts'
    BY <2>10 DEF MoveProcessed
  <2>11. ASSUME NEW w \in Workers, MoveFailed(w) PROVE GivenUpAfterAttempts'
    BY <2>11 DEF MoveFailed
  <2>12. ASSUME NEW p \in Procs, Extract(p) PROVE GivenUpAfterAttempts'
    BY <2>12 DEF Extract
  <2>13. ASSUME NEW p \in Procs, Archive(p) PROVE GivenUpAfterAttempts'
    BY <2>13 DEF Archive
  <2>14. ASSUME NEW p \in Procs, WriteNote(p) PROVE GivenUpAfterAttempts'
    BY <2>14 DEF WriteNote
  <2>15. ASSUME NEW p \in Procs, ProcessFails(p) PROVE GivenUpAfterAttempts'
    BY <2>15 DEF ProcessFails
  <2>16. ASSUME NEW p \in Procs, SetVaultAndArchivePath(p) PROVE GivenUpAfterAttempts'
    BY <2>16 DEF SetVaultAndArchivePath
  <2>17. ASSUME NEW p \in Procs, CompleteJob(p) PROVE GivenUpAfterAttempts'
    BY <2>17 DEF CompleteJob
  <2>18. ASSUME NEW p \in Procs, FailJob(p) PROVE GivenUpAfterAttempts'
    BY <2>18 DEF FailJob
  <2>19. ASSUME NEW j \in JobIds, RetryJob(j) PROVE GivenUpAfterAttempts'
    BY <2>19 DEF RetryJob
  <2>20. ASSUME NEW j \in JobIds, CoolDown(j) PROVE GivenUpAfterAttempts'
    BY <2>20 DEF CoolDown
  <2>21. ASSUME NEW w \in Workers, Crash(w) PROVE GivenUpAfterAttempts'
    BY <2>21 DEF Crash
  <2>22. ASSUME NEW c \in Clients, ClientCrash(c) PROVE GivenUpAfterAttempts'
    BY <2>22 DEF ClientCrash
  <2>23. ASSUME NEW p \in Procs, StoreError(p) PROVE GivenUpAfterAttempts'
    BY <2>23 DEF StoreError
  <2>24. CASE UNCHANGED vars
    BY <2>24 DEF vars
  <2> QED
    BY <2>1, <2>2, <2>3, <2>4, <2>5, <2>6, <2>7, <2>8, <2>9, <2>10, <2>11,
       <2>12, <2>13, <2>14, <2>15, <2>16, <2>17, <2>18, <2>19, <2>20, <2>21,
       <2>22, <2>23, <2>24
    DEF Next, WorkerStep, ClientStep, ClientCall, Process
<1> QED
  BY TypeInvariant, <1>1, <1>2, PTL DEF Spec

-----------------------------------------------------------------------------
(* AttemptsNeedRestarts is not inductive: a job that waits must have an    *)
(* attempt in hand, which the restart that put it back has paid for.       *)
AttemptsInv ==
  \A j \in JobIds :
    /\ attempts[j] <= MaxAttempts + starts
    /\ jobStatus[j] = "pending" => attempts[j] < MaxAttempts + starts

THEOREM RestartsPayForAttempts == Spec => []AttemptsNeedRestarts
<1> USE JobQueueAssumption DEF JobIds, NoJob, Procs, MaxAttempts
<1>1. Init => AttemptsInv
  BY DEF Init, AttemptsInv
<1>2. ASSUME TypeInv, AttemptsInv, [Next]_vars PROVE AttemptsInv'
  <2> USE <1>2 DEF TypeInv, TypeOK, RowsOK, HoldersOK, Holding, Working, AttemptsInv,
          docVars, jobVars, procVars, Goto, Release, DocOf
  <2>1. ASSUME NEW c \in Clients, NEW d \in Docs, RecordDocument(c, d) PROVE AttemptsInv'
    BY <2>1 DEF RecordDocument
  <2>2. ASSUME NEW c \in Clients, NEW d \in Docs, SkipDuplicate(c, d) PROVE AttemptsInv'
    BY <2>2 DEF SkipDuplicate, Insert
  <2>3. ASSUME NEW c \in Clients, EnqueueAndClaim(c) PROVE AttemptsInv'
    BY <2>3 DEF EnqueueAndClaim, Insert
  <2>4. ASSUME NEW c \in Clients, EnqueueForWorker(c) PROVE AttemptsInv'
    BY <2>4 DEF EnqueueForWorker, Insert
  <2>5. ASSUME NEW c \in Clients, NEW d \in Docs, Reprocess(c, d) PROVE AttemptsInv'
    BY <2>5 DEF Reprocess, Insert
  <2>6. ASSUME NEW c \in Clients, ClaimOwn(c) PROVE AttemptsInv'
    BY <2>6 DEF ClaimOwn, Claim, Claimable
  <2>7. ASSUME NEW c \in Clients, ClaimLost(c) PROVE AttemptsInv'
    BY <2>7 DEF ClaimLost
  <2>8. ASSUME NEW w \in Workers, ClaimNext(w) PROVE AttemptsInv'
    BY <2>8 DEF ClaimNext, Claim, Claimable
  <2>9. ASSUME NEW w \in Workers, WatchStart(w) PROVE AttemptsInv'
    BY <2>9 DEF WatchStart
  <2>10. ASSUME NEW w \in Workers, MoveProcessed(w) PROVE AttemptsInv'
    BY <2>10 DEF MoveProcessed
  <2>11. ASSUME NEW w \in Workers, MoveFailed(w) PROVE AttemptsInv'
    BY <2>11 DEF MoveFailed
  <2>12. ASSUME NEW p \in Procs, Extract(p) PROVE AttemptsInv'
    BY <2>12 DEF Extract
  <2>13. ASSUME NEW p \in Procs, Archive(p) PROVE AttemptsInv'
    BY <2>13 DEF Archive
  <2>14. ASSUME NEW p \in Procs, WriteNote(p) PROVE AttemptsInv'
    BY <2>14 DEF WriteNote
  <2>15. ASSUME NEW p \in Procs, ProcessFails(p) PROVE AttemptsInv'
    BY <2>15 DEF ProcessFails
  <2>16. ASSUME NEW p \in Procs, SetVaultAndArchivePath(p) PROVE AttemptsInv'
    BY <2>16 DEF SetVaultAndArchivePath
  <2>17. ASSUME NEW p \in Procs, CompleteJob(p) PROVE AttemptsInv'
    BY <2>17 DEF CompleteJob
  <2>18. ASSUME NEW p \in Procs, FailJob(p) PROVE AttemptsInv'
    BY <2>18 DEF FailJob
  <2>19. ASSUME NEW j \in JobIds, RetryJob(j) PROVE AttemptsInv'
    BY <2>19 DEF RetryJob
  <2>20. ASSUME NEW j \in JobIds, CoolDown(j) PROVE AttemptsInv'
    BY <2>20 DEF CoolDown
  <2>21. ASSUME NEW w \in Workers, Crash(w) PROVE AttemptsInv'
    BY <2>21 DEF Crash
  <2>22. ASSUME NEW c \in Clients, ClientCrash(c) PROVE AttemptsInv'
    BY <2>22 DEF ClientCrash
  <2>23. ASSUME NEW p \in Procs, StoreError(p) PROVE AttemptsInv'
    BY <2>23 DEF StoreError
  <2>24. CASE UNCHANGED vars
    BY <2>24 DEF vars
  <2> QED
    BY <2>1, <2>2, <2>3, <2>4, <2>5, <2>6, <2>7, <2>8, <2>9, <2>10, <2>11,
       <2>12, <2>13, <2>14, <2>15, <2>16, <2>17, <2>18, <2>19, <2>20, <2>21,
       <2>22, <2>23, <2>24
    DEF Next, WorkerStep, ClientStep, ClientCall, Process
<1>3. AttemptsInv => AttemptsNeedRestarts
  BY DEF AttemptsInv, AttemptsNeedRestarts
<1> QED
  BY TypeInvariant, <1>1, <1>2, <1>3, PTL DEF Spec

-----------------------------------------------------------------------------
(* What keeps claims exclusive: a job somebody works on is running, so no  *)
(* claim takes it.  Only a retry of a running job or a reset under a       *)
(* working process could change that, and the users' discipline excludes   *)
(* both.                                                                   *)
Discipline == QuietStart /\ Retryable \cap {"running", "completed"} = {}

WorkedOnIsRunning ==
  \A p \in Procs : pc[p] \in Working => jobStatus[job[p]] = "running"

ExclusiveInv == WorkedOnIsRunning /\ Exclusive

LEMMA ExclusiveInvariant == ASSUME Discipline PROVE Spec => []ExclusiveInv
<1> USE JobQueueAssumption DEF JobIds, NoJob, Procs, MaxAttempts, Discipline
<1>1. Init => ExclusiveInv
  BY DEF Init, ExclusiveInv, WorkedOnIsRunning, Exclusive, Working
<1>2. ASSUME TypeInv, ExclusiveInv, [Next]_vars PROVE ExclusiveInv'
  <2> USE <1>2 DEF TypeInv, TypeOK, RowsOK, HoldersOK, Holding, Working, ExclusiveInv,
          WorkedOnIsRunning, Exclusive, docVars, jobVars, procVars, Goto, Release, DocOf
  <2>1. ASSUME NEW c \in Clients, NEW d \in Docs, RecordDocument(c, d) PROVE ExclusiveInv'
    BY <2>1 DEF RecordDocument
  <2>2. ASSUME NEW c \in Clients, NEW d \in Docs, SkipDuplicate(c, d) PROVE ExclusiveInv'
    BY <2>2 DEF SkipDuplicate, Insert
  <2>3. ASSUME NEW c \in Clients, EnqueueAndClaim(c) PROVE ExclusiveInv'
    BY <2>3 DEF EnqueueAndClaim, Insert
  <2>4. ASSUME NEW c \in Clients, EnqueueForWorker(c) PROVE ExclusiveInv'
    BY <2>4 DEF EnqueueForWorker, Insert
  <2>5. ASSUME NEW c \in Clients, NEW d \in Docs, Reprocess(c, d) PROVE ExclusiveInv'
    BY <2>5 DEF Reprocess, Insert
  <2>6. ASSUME NEW c \in Clients, ClaimOwn(c) PROVE ExclusiveInv'
    BY <2>6 DEF ClaimOwn, Claim, Claimable
  <2>7. ASSUME NEW c \in Clients, ClaimLost(c) PROVE ExclusiveInv'
    BY <2>7 DEF ClaimLost
  <2>8. ASSUME NEW w \in Workers, ClaimNext(w) PROVE ExclusiveInv'
    BY <2>8 DEF ClaimNext, Claim, Claimable
  <2>9. ASSUME NEW w \in Workers, WatchStart(w) PROVE ExclusiveInv'
    BY <2>9 DEF WatchStart
  <2>10. ASSUME NEW w \in Workers, MoveProcessed(w) PROVE ExclusiveInv'
    BY <2>10 DEF MoveProcessed
  <2>11. ASSUME NEW w \in Workers, MoveFailed(w) PROVE ExclusiveInv'
    BY <2>11 DEF MoveFailed
  <2>12. ASSUME NEW p \in Procs, Extract(p) PROVE ExclusiveInv'
    BY <2>12 DEF Extract
  <2>13. ASSUME NEW p \in Procs, Archive(p) PROVE ExclusiveInv'
    BY <2>13 DEF Archive
  <2>14. ASSUME NEW p \in Procs, WriteNote(p) PROVE ExclusiveInv'
    BY <2>14 DEF WriteNote
  <2>15. ASSUME NEW p \in Procs, ProcessFails(p) PROVE ExclusiveInv'
    BY <2>15 DEF ProcessFails
  <2>16. ASSUME NEW p \in Procs, SetVaultAndArchivePath(p) PROVE ExclusiveInv'
    BY <2>16 DEF SetVaultAndArchivePath
  <2>17. ASSUME NEW p \in Procs, CompleteJob(p) PROVE ExclusiveInv'
    <3>1. pc'[p] \notin Working /\ pc' = [pc EXCEPT ![p] = pc'[p]]
      BY <2>17 DEF CompleteJob
    <3>2. \A q \in Procs : q # p => job'[q] = job[q]
      BY <2>17 DEF CompleteJob
    <3>3. \A q \in Procs : q # p /\ pc[q] \in Working => jobStatus'[job[q]] = jobStatus[job[q]]
      BY <2>17 DEF CompleteJob
    <3> QED
      BY <3>1, <3>2, <3>3
  <2>18. ASSUME NEW p \in Procs, FailJob(p) PROVE ExclusiveInv'
    <3>1. pc'[p] \notin Working /\ pc' = [pc EXCEPT ![p] = pc'[p]]
      BY <2>18 DEF FailJob
    <3>2. \A q \in Procs : q # p => job'[q] = job[q]
      BY <2>18 DEF FailJob
    <3>3. \A q \in Procs : q # p /\ pc[q] \in Working => jobStatus'[job[q]] = jobStatus[job[q]]
      BY <2>18 DEF FailJob
    <3> QED
      BY <3>1, <3>2, <3>3
  <2>19. ASSUME NEW j \in JobIds, RetryJob(j) PROVE ExclusiveInv'
    BY <2>19 DEF RetryJob
  <2>20. ASSUME NEW j \in JobIds, CoolDown(j) PROVE ExclusiveInv'
    BY <2>20 DEF CoolDown
  <2>21. ASSUME NEW w \in Workers, Crash(w) PROVE ExclusiveInv'
    BY <2>21 DEF Crash
  <2>22. ASSUME NEW c \in Clients, ClientCrash(c) PROVE ExclusiveInv'
    BY <2>22 DEF ClientCrash
  <2>23. ASSUME NEW p \in Procs, StoreError(p) PROVE ExclusiveInv'
    <3>1. UNCHANGED jobVars
      BY <2>23 DEF StoreError
    <3>2. ASSUME pc' = [pc EXCEPT ![p] = "idle"], job' = [job EXCEPT ![p] = NoJob]
          PROVE  ExclusiveInv'
      BY <3>1, <3>2
    <3>3. ASSUME NEW step \in {"fail", "quarantine"}, pc[p] \in Working,
                 pc' = [pc EXCEPT ![p] = step], job' = job
          PROVE  ExclusiveInv'
      BY <3>1, <3>3
    <3> QED
      BY <2>23, <3>2, <3>3 DEF StoreError
  <2>24. CASE UNCHANGED vars
    BY <2>24 DEF vars
  <2> QED
    BY <2>1, <2>2, <2>3, <2>4, <2>5, <2>6, <2>7, <2>8, <2>9, <2>10, <2>11,
       <2>12, <2>13, <2>14, <2>15, <2>16, <2>17, <2>18, <2>19, <2>20, <2>21,
       <2>22, <2>23, <2>24
    DEF Next, WorkerStep, ClientStep, ClientCall, Process
<1> QED
  BY TypeInvariant, <1>1, <1>2, PTL DEF Spec

(* Under that discipline no two processes ever work on the same job.       *)
THEOREM ExclusiveClaims == ASSUME Discipline PROVE Spec => []Exclusive
  BY ExclusiveInvariant, PTL DEF ExclusiveInv

(* Under that discipline a completed job is never claimed, failed, reset   *)
(* or retried.                                                             *)
THEOREM CompletionIsFinal == ASSUME Discipline PROVE Spec => CompletedIsFinal
<1> USE JobQueueAssumption DEF JobIds, NoJob, Procs, MaxAttempts, Discipline
<1> DEFINE Kept == \A j \in JobIds : jobStatus[j] = "completed" => jobStatus'[j] = "completed"
<1>1. ASSUME TypeInv, ExclusiveInv, [Next]_vars PROVE Kept
  <2> USE <1>1 DEF TypeInv, TypeOK, RowsOK, HoldersOK, Holding, Working, ExclusiveInv,
          WorkedOnIsRunning, docVars, jobVars, procVars, Goto, Release, DocOf
  <2>1. ASSUME NEW c \in Clients, NEW d \in Docs, RecordDocument(c, d) PROVE Kept
    BY <2>1 DEF RecordDocument
  <2>2. ASSUME NEW c \in Clients, NEW d \in Docs, SkipDuplicate(c, d) PROVE Kept
    BY <2>2 DEF SkipDuplicate, Insert
  <2>3. ASSUME NEW c \in Clients, EnqueueAndClaim(c) PROVE Kept
    BY <2>3 DEF EnqueueAndClaim, Insert
  <2>4. ASSUME NEW c \in Clients, EnqueueForWorker(c) PROVE Kept
    BY <2>4 DEF EnqueueForWorker, Insert
  <2>5. ASSUME NEW c \in Clients, NEW d \in Docs, Reprocess(c, d) PROVE Kept
    BY <2>5 DEF Reprocess, Insert
  <2>6. ASSUME NEW c \in Clients, ClaimOwn(c) PROVE Kept
    BY <2>6 DEF ClaimOwn, Claim, Claimable
  <2>7. ASSUME NEW c \in Clients, ClaimLost(c) PROVE Kept
    BY <2>7 DEF ClaimLost
  <2>8. ASSUME NEW w \in Workers, ClaimNext(w) PROVE Kept
    BY <2>8 DEF ClaimNext, Claim, Claimable
  <2>9. ASSUME NEW w \in Workers, WatchStart(w) PROVE Kept
    BY <2>9 DEF WatchStart
  <2>10. ASSUME NEW w \in Workers, MoveProcessed(w) PROVE Kept
    BY <2>10 DEF MoveProcessed
  <2>11. ASSUME NEW w \in Workers, MoveFailed(w) PROVE Kept
    BY <2>11 DEF MoveFailed
  <2>12. ASSUME NEW p \in Procs, Extract(p) PROVE Kept
    BY <2>12 DEF Extract
  <2>13. ASSUME NEW p \in Procs, Archive(p) PROVE Kept
    BY <2>13 DEF Archive
  <2>14. ASSUME NEW p \in Procs, WriteNote(p) PROVE Kept
    BY <2>14 DEF WriteNote
  <2>15. ASSUME NEW p \in Procs, ProcessFails(p) PROVE Kept
    BY <2>15 DEF ProcessFails
  <2>16. ASSUME NEW p \in Procs, SetVaultAndArchivePath(p) PROVE Kept
    BY <2>16 DEF SetVaultAndArchivePath
  <2>17. ASSUME NEW p \in Procs, CompleteJob(p) PROVE Kept
    BY <2>17 DEF CompleteJob
  <2>18. ASSUME NEW p \in Procs, FailJob(p) PROVE Kept
    BY <2>18 DEF FailJob
  <2>19. ASSUME NEW j \in JobIds, RetryJob(j) PROVE Kept
    BY <2>19 DEF RetryJob
  <2>20. ASSUME NEW j \in JobIds, CoolDown(j) PROVE Kept
    BY <2>20 DEF CoolDown
  <2>21. ASSUME NEW w \in Workers, Crash(w) PROVE Kept
    BY <2>21 DEF Crash
  <2>22. ASSUME NEW c \in Clients, ClientCrash(c) PROVE Kept
    BY <2>22 DEF ClientCrash
  <2>23. ASSUME NEW p \in Procs, StoreError(p) PROVE Kept
    BY <2>23 DEF StoreError
  <2>24. CASE UNCHANGED vars
    BY <2>24 DEF vars
  <2> QED
    BY <2>1, <2>2, <2>3, <2>4, <2>5, <2>6, <2>7, <2>8, <2>9, <2>10, <2>11,
       <2>12, <2>13, <2>14, <2>15, <2>16, <2>17, <2>18, <2>19, <2>20, <2>21,
       <2>22, <2>23, <2>24
    DEF Next, WorkerStep, ClientStep, ClientCall, Process
<1> QED
  BY TypeInvariant, ExclusiveInvariant, <1>1, PTL DEF Spec, CompletedIsFinal

-----------------------------------------------------------------------------
(* While the store tells the truth, a document's phase is a matter of its  *)
(* row alone.                                                              *)
RowPhase ==
  [d \in Docs |->
     IF d \in stored THEN "stored"
     ELSE CASE docStatus[d] = "absent" -> "absent"
            [] docStatus[d] = "failed" -> "rejected"
            [] OTHER -> "accepted"]

LEMMA PhaseOfRow == StoreNeverLies => Phase = RowPhase
  BY DEF StoreNeverLies, Phase, RowPhase

(* The documents a job or a process refers to have a row of their own.     *)
RecordedInv ==
  /\ \A j \in JobIds : j <= lastJob => docStatus[jobDoc[j]] # "absent"
  /\ \A p \in Procs : pc[p] = "created" => docStatus[target[p]] # "absent"
  /\ \A d \in stored : docStatus[d] # "absent"

LEMMA RecordedInvariant == Spec => []RecordedInv
<1> USE JobQueueAssumption DEF JobIds, NoJob, Procs, MaxAttempts
<1>1. Init => RecordedInv
  BY DEF Init, RecordedInv
<1>2. ASSUME TypeInv, RecordedInv, [Next]_vars PROVE RecordedInv'
  <2> USE <1>2 DEF TypeInv, TypeOK, RowsOK, HoldersOK, Holding, Working, RecordedInv,
          docVars, jobVars, procVars, Goto, Release, DocOf
  <2>1. ASSUME NEW c \in Clients, NEW d \in Docs, RecordDocument(c, d) PROVE RecordedInv'
    BY <2>1 DEF RecordDocument
  <2>2. ASSUME NEW c \in Clients, NEW d \in Docs, SkipDuplicate(c, d) PROVE RecordedInv'
    BY <2>2 DEF SkipDuplicate, Insert
  <2>3. ASSUME NEW c \in Clients, EnqueueAndClaim(c) PROVE RecordedInv'
    BY <2>3 DEF EnqueueAndClaim, Insert
  <2>4. ASSUME NEW c \in Clients, EnqueueForWorker(c) PROVE RecordedInv'
    BY <2>4 DEF EnqueueForWorker, Insert
  <2>5. ASSUME NEW c \in Clients, NEW d \in Docs, Reprocess(c, d) PROVE RecordedInv'
    BY <2>5 DEF Reprocess, Insert
  <2>6. ASSUME NEW c \in Clients, ClaimOwn(c) PROVE RecordedInv'
    BY <2>6 DEF ClaimOwn, Claim, Claimable
  <2>7. ASSUME NEW c \in Clients, ClaimLost(c) PROVE RecordedInv'
    BY <2>7 DEF ClaimLost
  <2>8. ASSUME NEW w \in Workers, ClaimNext(w) PROVE RecordedInv'
    BY <2>8 DEF ClaimNext, Claim, Claimable
  <2>9. ASSUME NEW w \in Workers, WatchStart(w) PROVE RecordedInv'
    BY <2>9 DEF WatchStart
  <2>10. ASSUME NEW w \in Workers, MoveProcessed(w) PROVE RecordedInv'
    BY <2>10 DEF MoveProcessed
  <2>11. ASSUME NEW w \in Workers, MoveFailed(w) PROVE RecordedInv'
    BY <2>11 DEF MoveFailed
  <2>12. ASSUME NEW p \in Procs, Extract(p) PROVE RecordedInv'
    BY <2>12 DEF Extract
  <2>13. ASSUME NEW p \in Procs, Archive(p) PROVE RecordedInv'
    BY <2>13 DEF Archive
  <2>14. ASSUME NEW p \in Procs, WriteNote(p) PROVE RecordedInv'
    BY <2>14 DEF WriteNote
  <2>15. ASSUME NEW p \in Procs, ProcessFails(p) PROVE RecordedInv'
    BY <2>15 DEF ProcessFails
  <2>16. ASSUME NEW p \in Procs, SetVaultAndArchivePath(p) PROVE RecordedInv'
    BY <2>16 DEF SetVaultAndArchivePath
  <2>17. ASSUME NEW p \in Procs, CompleteJob(p) PROVE RecordedInv'
    BY <2>17 DEF CompleteJob
  <2>18. ASSUME NEW p \in Procs, FailJob(p) PROVE RecordedInv'
    BY <2>18 DEF FailJob
  <2>19. ASSUME NEW j \in JobIds, RetryJob(j) PROVE RecordedInv'
    BY <2>19 DEF RetryJob
  <2>20. ASSUME NEW j \in JobIds, CoolDown(j) PROVE RecordedInv'
    BY <2>20 DEF CoolDown
  <2>21. ASSUME NEW w \in Workers, Crash(w) PROVE RecordedInv'
    BY <2>21 DEF Crash
  <2>22. ASSUME NEW c \in Clients, ClientCrash(c) PROVE RecordedInv'
    BY <2>22 DEF ClientCrash
  <2>23. ASSUME NEW p \in Procs, StoreError(p) PROVE RecordedInv'
    BY <2>23 DEF StoreError
  <2>24. CASE UNCHANGED vars
    BY <2>24 DEF vars
  <2> QED
    BY <2>1, <2>2, <2>3, <2>4, <2>5, <2>6, <2>7, <2>8, <2>9, <2>10, <2>11,
       <2>12, <2>13, <2>14, <2>15, <2>16, <2>17, <2>18, <2>19, <2>20, <2>21,
       <2>22, <2>23, <2>24
    DEF Next, WorkerStep, ClientStep, ClientCall, Process
<1> QED
  BY TypeInvariant, <1>1, <1>2, PTL DEF Spec

(* The queue implements the life of a document that Intake promises: every *)
(* step is a step of Intake or changes no document's phase.                *)
THEOREM IntakeImplemented == Spec => ImplementsIntake
<1> USE JobQueueAssumption DEF JobIds, NoJob, Procs, MaxAttempts
<1>1. Init => Caller!Init
  BY DEF Init, Caller!Init, Phase
<1>2. ASSUME TypeInv, RecordedInv, StoreNeverLies, StoreNeverLies', [Next]_vars
      PROVE  [Caller!Next]_Phase
  <2>1. Phase = RowPhase /\ Phase' = RowPhase'
    BY <1>2, PhaseOfRow DEF StoreNeverLies, Phase, RowPhase
  <2>0. docStatus \in [Docs -> DocStatus] /\ \A d \in stored : docStatus[d] # "absent"
    BY <1>2 DEF TypeInv, TypeOK, RecordedInv
  <2>2. ASSUME UNCHANGED <<docStatus, stored>> PROVE Phase' = Phase
    BY <2>1, <2>2 DEF RowPhase
  (* What each kind of change of one document's row is to a caller.        *)
  <2>3. ASSUME NEW d \in Docs, docStatus[d] = "absent", UNCHANGED stored,
               docStatus' = [docStatus EXCEPT ![d] = "pending"]
        PROVE  Caller!Accept(d)
    <3>1. d \notin stored
      BY <2>0, <2>3
    <3>2. RowPhase[d] = "absent" /\ RowPhase' = [RowPhase EXCEPT ![d] = "accepted"]
      BY <2>0, <2>3, <3>1 DEF RowPhase, DocStatus
    <3> QED
      BY <2>1, <3>2 DEF Caller!Accept, Caller!Move
  <2>4. ASSUME NEW d \in Docs, docStatus[d] # "absent", UNCHANGED stored,
               docStatus' = [docStatus EXCEPT ![d] = "pending"]
        PROVE  Caller!Reopen(d) \/ Phase' = Phase
    BY <2>0, <2>1, <2>4 DEF RowPhase, Caller!Reopen, Caller!Move, DocStatus
  <2>5. ASSUME NEW d \in Docs, docStatus[d] # "absent", stored' = stored \cup {d},
               docStatus' = [docStatus EXCEPT ![d] = "done"]
        PROVE  Caller!Store(d) \/ Caller!Rescue(d) \/ Phase' = Phase
    <3>1. RowPhase' = [RowPhase EXCEPT ![d] = "stored"]
      BY <2>0, <2>5 DEF RowPhase, DocStatus
    <3>2. RowPhase[d] \in {"stored", "rejected", "accepted"}
      BY <2>0, <2>5 DEF RowPhase, DocStatus
    <3>3. RowPhase[d] = "stored" => RowPhase' = RowPhase
      BY <3>1 DEF RowPhase
    <3> QED
      BY <2>1, <3>1, <3>2, <3>3 DEF Caller!Store, Caller!Rescue, Caller!Move
  <2>6. ASSUME NEW d \in Docs, docStatus[d] # "absent", UNCHANGED stored,
               docStatus' = [docStatus EXCEPT ![d] = "failed"]
        PROVE  Caller!Reject(d) \/ Phase' = Phase
    BY <2>0, <2>1, <2>6 DEF RowPhase, Caller!Reject, Caller!Move, DocStatus
  <2> USE <1>2 DEF TypeInv, TypeOK, RowsOK, HoldersOK, Holding, Working, RecordedInv, DocOf
  (* The steps that change a document's row.                               *)
  <2>7. ASSUME NEW c \in Clients, NEW d \in Docs, RecordDocument(c, d)
        PROVE  Caller!Accept(d)
    BY <2>3, <2>7 DEF RecordDocument
  <2>8. ASSUME NEW j \in JobIds, RetryJob(j) PROVE [Caller!Next]_Phase
    <3>1. jobDoc[j] \in Docs /\ docStatus[jobDoc[j]] # "absent"
      BY <2>8 DEF RetryJob
    <3>2. Caller!Reopen(jobDoc[j]) \/ Phase' = Phase
      BY <2>4, <2>8, <3>1 DEF RetryJob
    <3> QED
      BY <3>1, <3>2 DEF Caller!Next
  <2>9. ASSUME NEW p \in Procs, pc[p] \in Working
        PROVE  DocOf(p) \in Docs /\ docStatus[DocOf(p)] # "absent"
    BY <2>9
  <2>10. ASSUME NEW p \in Procs, SetVaultAndArchivePath(p) PROVE [Caller!Next]_Phase
    <3>1. Caller!Store(DocOf(p)) \/ Caller!Rescue(DocOf(p)) \/ Phase' = Phase
      BY <2>5, <2>9, <2>10 DEF SetVaultAndArchivePath
    <3> QED
      BY <2>9, <2>10, <3>1 DEF Caller!Next, SetVaultAndArchivePath
  <2>11. ASSUME NEW p \in Procs, CompleteJob(p) PROVE [Caller!Next]_Phase
    <3>1. docStatus'[DocOf(p)] = "done"
      BY <2>9, <2>11 DEF CompleteJob
    <3>2. stored' = stored \cup {DocOf(p)}
      BY <2>9, <2>11, <3>1 DEF CompleteJob, StoreNeverLies
    <3>3. Caller!Store(DocOf(p)) \/ Caller!Rescue(DocOf(p)) \/ Phase' = Phase
      BY <2>5, <2>9, <2>11, <3>2 DEF CompleteJob
    <3> QED
      BY <2>9, <2>11, <3>3 DEF Caller!Next, CompleteJob
  <2>12. ASSUME NEW p \in Procs, FailJob(p) PROVE [Caller!Next]_Phase
    <3>1. CASE attempts[job[p]] >= MaxAttempts
      <4>1. Caller!Reject(DocOf(p)) \/ Phase' = Phase
        BY <2>6, <2>9, <2>12, <3>1 DEF FailJob
      <4> QED
        BY <2>9, <2>12, <4>1 DEF Caller!Next, FailJob
    <3>2. CASE ~ (attempts[job[p]] >= MaxAttempts)
      BY <2>2, <2>12, <3>2 DEF FailJob
    <3> QED
      BY <3>1, <3>2
  (* No other step does.                                                   *)
  <2>13. ASSUME NEW c \in Clients, ClientStep(c), ~ Process(c)
         PROVE  UNCHANGED <<docStatus, stored>>
    BY <2>13 DEF ClientStep, EnqueueAndClaim, EnqueueForWorker, ClaimOwn, ClaimLost, docVars
  <2>14. ASSUME NEW w \in Workers, WorkerStep(w), ~ Process(w)
         PROVE  UNCHANGED <<docStatus, stored>>
    BY <2>14 DEF WorkerStep, ClaimNext, MoveProcessed, MoveFailed, docVars
  <2>15. ASSUME NEW p \in Procs, Extract(p) \/ Archive(p) \/ WriteNote(p) \/ ProcessFails(p)
         PROVE  UNCHANGED <<docStatus, stored>>
    BY <2>15 DEF Extract, Archive, WriteNote, ProcessFails, docVars
  <2>16. ASSUME NEW c \in Clients, NEW d \in Docs, SkipDuplicate(c, d) \/ Reprocess(c, d)
         PROVE  UNCHANGED <<docStatus, stored>>
    BY <2>16 DEF SkipDuplicate, Reprocess, docVars
  <2>17. ASSUME \/ \E w \in Workers : WatchStart(w) \/ Crash(w)
                \/ \E c \in Clients : ClientCrash(c)
                \/ \E p \in Procs : StoreError(p)
                \/ \E j \in JobIds : CoolDown(j)
                \/ UNCHANGED vars
         PROVE  UNCHANGED <<docStatus, stored>>
    BY <2>17 DEF WatchStart, Crash, ClientCrash, StoreError, CoolDown, vars, docVars
  <2>18. ASSUME NEW p \in Procs, Process(p) PROVE [Caller!Next]_Phase
    BY <2>2, <2>10, <2>11, <2>12, <2>15, <2>18 DEF Process
  <2>19. ASSUME NEW c \in Clients, NEW d \in Docs, ClientCall(c, d) PROVE [Caller!Next]_Phase
    BY <2>2, <2>7, <2>16, <2>19 DEF ClientCall, Caller!Next
  <2> QED
    BY <2>2, <2>8, <2>13, <2>14, <2>17, <2>18, <2>19 DEF Next
<1> QED
  BY TypeInvariant, RecordedInvariant, StoreTruth, <1>1, <1>2, PTL
  DEF Spec, ImplementsIntake, Caller!Spec

-----------------------------------------------------------------------------
(* What WaitingHasJob says of a document.                                  *)
Waits(d) ==
  \/ \E j \in JobIds : jobDoc[j] = d /\ Live(j)
  \/ \A j \in JobIds : jobDoc[j] = d => jobStatus[j] = "skipped"

(* A new row, skipped or pending, takes nothing from a document.           *)
LEMMA InsertWaits ==
  ASSUME TypeInv, NEW e \in Docs, Waits(e), NEW d \in Docs, NEW kind,
         NEW status \in {"pending", "skipped"}, Insert(d, kind, status)
  PROVE  Waits(e)'
<1> USE JobQueueAssumption DEF JobIds, NoJob, Procs, TypeInv, TypeOK, RowsOK, Insert
<1>1. lastJob + 1 \in JobIds
  OBVIOUS
<1>2. CASE \E j \in JobIds : jobDoc[j] = e /\ Live(j)
  <2>1. PICK j \in JobIds : jobDoc[j] = e /\ Live(j)
    BY <1>2
  <2>2. j # lastJob + 1
    BY <2>1 DEF Live
  <2>3. jobDoc'[j] = e /\ Live(j)'
    BY <1>1, <2>1, <2>2 DEF Live
  <2> QED BY <2>3 DEF Waits
<1>3. CASE /\ \A j \in JobIds : jobDoc[j] = e => jobStatus[j] = "skipped"
           /\ d = e /\ status = "pending"
  <2>1. jobDoc'[lastJob + 1] = e /\ jobStatus'[lastJob + 1] = "pending"
    BY <1>1, <1>3
  <2> QED BY <1>1, <2>1 DEF Waits, Live
<1>4. CASE /\ \A j \in JobIds : jobDoc[j] = e => jobStatus[j] = "skipped"
           /\ d # e \/ status = "skipped"
  <2>1. ASSUME NEW j \in JobIds, jobDoc'[j] = e PROVE jobStatus'[j] = "skipped"
    BY <1>1, <1>4, <2>1
  <2> QED BY <2>1 DEF Waits
<1> QED BY <1>2, <1>3, <1>4 DEF Waits

(* A job that is taken up, or put back, is live; the others stay what they *)
(* are.                                                                    *)
LEMMA TakenUpWaits ==
  ASSUME TypeInv, NEW e \in Docs, Waits(e), NEW k \in JobIds,
         NEW status \in {"pending", "running"},
         jobStatus' = [jobStatus EXCEPT ![k] = status], UNCHANGED jobDoc,
         \A j \in JobIds \ {k} : attempts'[j] = attempts[j]
  PROVE  Waits(e)'
<1> USE DEF TypeInv, TypeOK
<1>1. Live(k)'
  BY DEF Live
<1>2. CASE jobDoc[k] = e
  BY <1>1, <1>2 DEF Waits
<1>3. CASE jobDoc[k] # e /\ \E j \in JobIds : jobDoc[j] = e /\ Live(j)
  <2>1. PICK j \in JobIds : jobDoc[j] = e /\ Live(j)
    BY <1>3
  <2>2. Live(j)'
    BY <1>3, <2>1 DEF Live
  <2> QED BY <2>1, <2>2 DEF Waits
<1>4. CASE jobDoc[k] # e /\ \A j \in JobIds : jobDoc[j] = e => jobStatus[j] = "skipped"
  <2>1. ASSUME NEW j \in JobIds, jobDoc'[j] = e PROVE jobStatus'[j] = "skipped"
    BY <1>4, <2>1
  <2> QED BY <2>1 DEF Waits
<1> QED BY <1>2, <1>3, <1>4 DEF Waits

(* A job that fails is tried again, or its document is given up.           *)
LEMMA FailingWaits ==
  ASSUME TypeInv, WaitingHasJob, NEW p \in Procs, FailJob(p), NEW e \in Docs,
         docStatus'[e] = "pending"
  PROVE  Waits(e)'
<1> USE DEF TypeInv, TypeOK, FailJob, DocOf, MaxAttempts
<1>1. job[p] \in JobIds
  BY DEF HoldersOK, Holding, Working
<1>2. Waits(e)
  BY DEF WaitingHasJob, Waits
<1>3. CASE jobDoc[job[p]] = e
  <2>1. attempts[job[p]] < 3
    BY <1>1, <1>3
  <2>2. jobDoc' = jobDoc /\ attempts' = attempts /\ jobStatus'[job[p]] = "failed"
    BY <1>1
  <2>3. \A k \in JobIds : jobStatus'[k] = "failed" /\ attempts[k] < 3 => Live(k)'
    BY <2>2 DEF Live
  <2>4. PICK k \in JobIds : k = job[p]
    BY <1>1
  <2>5. Live(k)'
    BY <2>1, <2>2, <2>3, <2>4
  <2> HIDE DEF FailJob
  <2> QED BY <1>3, <2>2, <2>4, <2>5 DEF Waits
<1>4. CASE jobDoc[job[p]] # e /\ \E j \in JobIds : jobDoc[j] = e /\ Live(j)
  <2>1. PICK j \in JobIds : jobDoc[j] = e /\ Live(j)
    BY <1>4
  <2>2. Live(j)'
    BY <1>1, <1>4, <2>1 DEF Live
  <2> QED BY <2>1, <2>2 DEF Waits
<1>5. CASE jobDoc[job[p]] # e /\ \A j \in JobIds : jobDoc[j] = e => jobStatus[j] = "skipped"
  <2>1. ASSUME NEW j \in JobIds, jobDoc'[j] = e PROVE jobStatus'[j] = "skipped"
    BY <1>1, <1>5, <2>1
  <2> QED BY <2>1 DEF Waits
<1> QED BY <1>2, <1>3, <1>4, <1>5 DEF Waits

(* A document that waits is never left without a job that can still be     *)
(* claimed, by whatever a failed folder, a reset, a retry, a late answer   *)
(* of a process that lost its job or a crash does: the invariant is        *)
(* inductive with RecordedInv, since a job stops being live only in the    *)
(* step that decides its document.  (store.go:497-701, worker.go:36-70)                      *)
THEOREM WaitingIsNotForgotten == Spec => []WaitingHasJob
<1> USE JobQueueAssumption DEF JobIds, NoJob, Procs
<1>1. Init => WaitingHasJob
  BY DEF Init, WaitingHasJob
<1>2. ASSUME TypeInv, RecordedInv, WaitingHasJob, [Next]_vars PROVE WaitingHasJob'
  <2> SUFFICES ASSUME NEW e \in Docs, docStatus'[e] = "pending" PROVE Waits(e)'
    BY DEF WaitingHasJob, Waits
  <2> USE <1>2
  <2>0. docStatus[e] = "pending" => Waits(e)
    BY DEF WaitingHasJob, Waits
  <2>1. ASSUME NEW c \in Clients, NEW d \in Docs, RecordDocument(c, d) PROVE Waits(e)'
    <3>1. CASE e = d
      <4>1. \A j \in JobIds : jobDoc[j] = e => jobStatus[j] = "skipped"
        BY <2>1, <3>1 DEF RecordDocument, RecordedInv, TypeInv, RowsOK
      <4> QED BY <2>1, <4>1 DEF RecordDocument, jobVars, Waits
    <3>2. CASE e # d
      BY <2>0, <2>1, <3>2 DEF RecordDocument, jobVars, Waits, Live, TypeInv, TypeOK
    <3> QED BY <3>1, <3>2
  <2>2. ASSUME NEW c \in Clients, NEW d \in Docs, SkipDuplicate(c, d) PROVE Waits(e)'
    <3>1. UNCHANGED docStatus /\ Insert(d, "ingest", "skipped")
      BY <2>2 DEF SkipDuplicate, docVars
    <3> QED BY <2>0, <3>1, InsertWaits
  <2>3. ASSUME NEW c \in Clients, EnqueueAndClaim(c) \/ EnqueueForWorker(c) PROVE Waits(e)'
    <3>1. UNCHANGED docStatus /\ Insert(target[c], "ingest", "pending")
      BY <2>3 DEF EnqueueAndClaim, EnqueueForWorker, docVars
    <3>2. target[c] \in Docs
      BY <2>3 DEF EnqueueAndClaim, EnqueueForWorker, TypeInv, HoldersOK
    <3> QED BY <2>0, <3>1, <3>2, InsertWaits
  <2>4. ASSUME NEW c \in Clients, NEW d \in Docs, Reprocess(c, d) PROVE Waits(e)'
    <3>1. UNCHANGED docStatus /\ Insert(d, "reocr", "pending")
      BY <2>4 DEF Reprocess, docVars
    <3> QED BY <2>0, <3>1, InsertWaits
  <2>5. ASSUME NEW p \in Procs, NEW j \in JobIds, Claim(p, j), UNCHANGED docVars PROVE Waits(e)'
    <3>1. /\ UNCHANGED <<docStatus, jobDoc>>
          /\ jobStatus' = [jobStatus EXCEPT ![j] = "running"]
          /\ attempts' = [attempts EXCEPT ![j] = @ + 1]
      BY <2>5 DEF Claim, docVars
    <3>2. \A i \in JobIds \ {j} : attempts'[i] = attempts[i]
      BY <3>1 DEF TypeInv, TypeOK
    <3> QED BY <2>0, <3>1, <3>2, TakenUpWaits
  <2>6. ASSUME NEW j \in JobIds, RetryJob(j) PROVE Waits(e)'
    <3>1. /\ UNCHANGED jobDoc
          /\ jobStatus' = [jobStatus EXCEPT ![j] = "pending"]
          /\ attempts' = [attempts EXCEPT ![j] = 0]
          /\ docStatus' = [docStatus EXCEPT ![jobDoc[j]] = "pending"]
      BY <2>6 DEF RetryJob
    <3>2. \A i \in JobIds \ {j} : attempts'[i] = attempts[i]
      BY <3>1 DEF TypeInv, TypeOK
    <3>3. CASE e = jobDoc[j]
      BY <3>1, <3>3 DEF Waits, Live, TypeInv, TypeOK
    <3>4. CASE e # jobDoc[j]
      <4>1. docStatus[e] = "pending"
        BY <3>1, <3>4 DEF TypeInv, TypeOK
      <4> QED BY <2>0, <3>1, <3>2, <4>1, TakenUpWaits
    <3> QED BY <3>3, <3>4
  <2>7. ASSUME NEW w \in Workers, WatchStart(w) PROVE Waits(e)'
    <3>1. /\ UNCHANGED <<docStatus, jobDoc, attempts>>
          /\ jobStatus' = [j \in JobIds |->
                            IF jobStatus[j] = "running" THEN "pending" ELSE jobStatus[j]]
      BY <2>7 DEF WatchStart, docVars
    <3>2. \A j \in JobIds : (Live(j) => Live(j)')
                           /\ (jobStatus[j] = "skipped" => jobStatus'[j] = "skipped")
      BY <3>1 DEF Live
    <3>3. Waits(e)
      BY <2>0, <3>1
    <3>4. jobDoc' = jobDoc
      BY <3>1
    <3> QED BY <3>2, <3>3, <3>4 DEF Waits
  <2>8. ASSUME NEW p \in Procs, FailJob(p) PROVE Waits(e)'
    BY <2>8, FailingWaits
  <2>9. ASSUME NEW p \in Procs, CompleteJob(p) PROVE Waits(e)'
    <3>1. job[p] \in JobIds /\ jobDoc[job[p]] \in Docs
      BY <2>9 DEF CompleteJob, TypeInv, TypeOK, RowsOK, HoldersOK, Holding, Working
    <3>2. /\ UNCHANGED <<jobDoc, attempts>>
          /\ jobStatus' = [jobStatus EXCEPT ![job[p]] = "completed"]
          /\ docStatus' = [docStatus EXCEPT ![jobDoc[job[p]]] = "done"]
      BY <2>9 DEF CompleteJob, DocOf
    <3>3. e # jobDoc[job[p]] /\ docStatus[e] = "pending"
      BY <3>1, <3>2 DEF TypeInv, TypeOK
    <3>4. \A j \in JobIds : jobDoc[j] = e => jobStatus'[j] = jobStatus[j]
      BY <3>1, <3>2, <3>3 DEF TypeInv, TypeOK
    <3>5. jobDoc' = jobDoc /\ attempts' = attempts /\ Waits(e)
      BY <2>0, <3>2, <3>3
    <3> QED BY <3>4, <3>5 DEF Waits, Live
  <2>10. ASSUME NEW p \in Procs, SetVaultAndArchivePath(p) PROVE Waits(e)'
    <3>1. docStatus[e] = "pending"
      BY <2>10 DEF SetVaultAndArchivePath, TypeInv, TypeOK
    <3> QED BY <2>0, <2>10, <3>1 DEF SetVaultAndArchivePath, jobVars, Waits, Live
  <2>11. ASSUME UNCHANGED <<docStatus, jobDoc, jobStatus, attempts>> PROVE Waits(e)'
    BY <2>0, <2>11 DEF Waits, Live
  <2>12. ASSUME NEW p \in Procs, Process(p) PROVE Waits(e)'
    <3>1. ASSUME Extract(p) \/ Archive(p) \/ WriteNote(p) \/ ProcessFails(p) PROVE Waits(e)'
      BY <2>11, <3>1 DEF Extract, Archive, WriteNote, ProcessFails, docVars, jobVars
    <3> QED BY <2>8, <2>9, <2>10, <2>12, <3>1 DEF Process
  <2>13. ASSUME NEW w \in Workers, WorkerStep(w) PROVE Waits(e)'
    <3>1. ASSUME ClaimNext(w) PROVE Waits(e)'
      BY <2>5, <3>1 DEF ClaimNext
    <3>2. ASSUME MoveProcessed(w) \/ MoveFailed(w) PROVE Waits(e)'
      BY <2>11, <3>2 DEF MoveProcessed, MoveFailed, jobVars
    <3> QED BY <2>12, <2>13, <3>1, <3>2 DEF WorkerStep
  <2>14. ASSUME NEW c \in Clients, ClientStep(c) PROVE Waits(e)'
    <3>1. ASSUME ClaimOwn(c) PROVE Waits(e)'
      <4>1. job[c] \in JobIds
        BY <3>1 DEF ClaimOwn, TypeInv, HoldersOK, Holding
      <4> QED BY <2>5, <3>1, <4>1 DEF ClaimOwn
    <3>2. ASSUME ClaimLost(c) PROVE Waits(e)'
      BY <2>11, <3>2 DEF ClaimLost, docVars, jobVars
    <3> QED BY <2>3, <2>12, <2>14, <3>1, <3>2 DEF ClientStep
  <2>15. ASSUME \/ \E w \in Workers : Crash(w)
                \/ \E c \in Clients : ClientCrash(c)
                \/ \E p \in Procs : StoreError(p)
                \/ \E j \in JobIds : CoolDown(j)
                \/ UNCHANGED vars
         PROVE  Waits(e)'
    <3>1. UNCHANGED <<docStatus, jobDoc, jobStatus, attempts>>
      BY <2>15 DEF Crash, ClientCrash, StoreError, CoolDown, vars, docVars, jobVars
    <3> QED BY <2>11, <3>1
  <2> QED
    BY <2>1, <2>2, <2>4, <2>6, <2>7, <2>13, <2>14, <2>15 DEF Next, ClientCall
<1> QED
  BY TypeInvariant, RecordedInvariant, <1>1, <1>2, PTL DEF Spec

=============================================================================
