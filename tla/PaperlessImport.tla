--------------------------- MODULE PaperlessImport ---------------------------
(***************************************************************************)
(* The migration from Paperless-ngx: Run of internal/paperlessimport, the  *)
(* client it lists and downloads with, the one-shot pipeline as it calls   *)
(* it, the import state in the store and what Verify makes of it all.      *)
(*                                                                         *)
(* A run lists the documents page by page while users change the server.   *)
(* Then a feeder hands their indexes to the workers over an unbuffered     *)
(* channel; with one worker, or one document, the run takes them in turn.  *)
(* Ctrl-C cancels the context of all of them; a kill ends the process.     *)
(* Jobs are left to JobQueue: an import never reads one.                   *)
(***************************************************************************)
EXTENDS Integers, Sequences, FiniteSets

CONSTANTS
  Docs,         \* Paperless documents
  ContentOf,    \* the bytes of each: two documents may hold the same
  Preset,       \* a document's metadata on the server, or None
  RuleFor,      \* what the classification rules say of a content, or None
  None,
  Initial,      \* the documents on the server at first, newest first
  Late,         \* bound: documents users upload later
  Removable,    \* bound: documents users may delete
  IdLists,      \* what --ids may be; <<>> is the whole archive
  Modes,        \* which of "import", "retry-failed", "plan"
  Workers,      \* --concurrency
  PageSize,     \* documents on a page of the server's list
  Faults,       \* which of "list", "read", "import", "store", "cancel", "crash"
  MaxFaults,    \* bound: faults
  MaxRuns       \* bound: runs

Contents == {ContentOf[d] : d \in Docs}

ASSUME ImportAssumption ==
  /\ None \notin Docs
  /\ Initial \in Seq(Docs) /\ Late \subseteq Docs /\ Removable \subseteq Docs
  /\ IdLists \subseteq Seq(Docs)
  /\ Modes \subseteq {"import", "retry-failed", "plan"}
  /\ PageSize \in Nat \ {0} /\ MaxFaults \in Nat /\ MaxRuns \in Nat
  /\ DOMAIN ContentOf = Docs /\ DOMAIN Preset = Docs /\ DOMAIN RuleFor = Contents

VARIABLES
  remote,      \* the server: its list of documents
  run,         \* where the run is
  mode, ids,   \* what it was started with
  selected,    \* the documents listed so far
  page,        \* how many documents or ids were asked for
  next, feed,  \* the feeder: the next index; the state of its channel
  cancelled,   \* the context
  err,         \* Run returns an error
  pc, at, outcome, mine,   \* per worker: next call, index, result, has a job
  recorded, stats,         \* the report: indexes, counts
  rows,        \* paperless_import_state
  document,    \* the store's document of each content: "pending", then "filed"
  archived,    \* contents in the archive
  notes,       \* how many notes each document has in the vault
  owed,        \* documents that were on the server when listing began
  shrunk,      \* some were deleted while the run was listing
  spoiled,     \* documents whose import was cut off, unreadable, or listed twice
  broken,      \* contents whose first import did not get to the end
  runs, faults

runVars == <<run, mode, ids, cancelled, err>>
listVars == <<selected, page, owed, shrunk>>
feedVars == <<next, feed>>
workerVars == <<pc, at, outcome, mine>>
reportVars == <<recorded, stats>>
storeVars == <<rows, document>>
fileVars == <<archived, notes>>
ghosts == <<spoiled, broken>>
bounds == <<runs, faults>>
vars == <<remote, runVars, listVars, feedVars, workerVars, reportVars, storeVars,
          fileVars, ghosts, bounds>>

Phases == {"idle", "listing", "lookups", "running", "ended"}
Calls == {"idle", "check", "download", "create", "extract", "note", "finish",
          "state", "record"}
Outcomes == {"imported", "skipped", "failed"}
Members(s) == {s[i] : i \in DOMAIN s}

TypeOK ==
  /\ remote \in Seq(Docs)
  /\ run \in Phases /\ mode \in {"import", "retry-failed", "plan"} /\ ids \in Seq(Docs)
  /\ cancelled \in BOOLEAN /\ err \in BOOLEAN
  /\ selected \in Seq(Docs) /\ page \in Nat
  /\ next \in Nat \ {0} /\ feed \in {"ready", "offering", "closed"}
  /\ pc \in [Workers -> Calls] /\ at \in [Workers -> Nat]
  /\ outcome \in [Workers -> Outcomes] /\ mine \in [Workers -> BOOLEAN]
  /\ recorded \subseteq DOMAIN selected /\ stats \in [Outcomes -> Nat]
  /\ rows \in [Docs -> {"none", "imported", "failed"}]
  /\ document \in [Contents -> {"none", "pending", "filed"}]
  /\ archived \subseteq Contents /\ notes \in [Docs -> Nat]
  /\ owed \subseteq Docs /\ shrunk \in BOOLEAN
  /\ spoiled \subseteq Docs /\ broken \subseteq Contents
  /\ runs \in 0..MaxRuns /\ faults \in 0..MaxFaults

NoStats == [o \in Outcomes |-> 0]

Init ==
  /\ remote = Initial
  /\ run = "idle" /\ mode = "import" /\ ids = <<>> /\ cancelled = FALSE /\ err = FALSE
  /\ selected = <<>> /\ page = 0 /\ owed = {} /\ shrunk = FALSE
  /\ next = 1 /\ feed = "ready"
  /\ pc = [w \in Workers |-> "idle"] /\ at = [w \in Workers |-> 0]
  /\ outcome = [w \in Workers |-> "skipped"] /\ mine = [w \in Workers |-> FALSE]
  /\ recorded = {} /\ stats = NoStats
  /\ rows = [d \in Docs |-> "none"] /\ document = [c \in Contents |-> "none"]
  /\ archived = {} /\ notes = [d \in Docs |-> 0]
  /\ spoiled = {} /\ broken = {} /\ runs = 0 /\ faults = 0

Fault(kind) == kind \in Faults /\ faults < MaxFaults /\ faults' = faults + 1

-----------------------------------------------------------------------------
(* The server and its users.                                                *)

(* While a run imports an upload makes no difference to it: that is the same *)
(* as an upload after the run.                                              *)
Upload(d) ==
  /\ d \in Late \ Members(remote) /\ run \in {"idle", "listing", "ended"}
  /\ \E i \in 0..Len(remote) :
       remote' = SubSeq(remote, 1, i) \o <<d>> \o SubSeq(remote, i + 1, Len(remote))
  /\ UNCHANGED <<runVars, listVars, feedVars, workerVars, reportVars, storeVars,
                 fileVars, ghosts, bounds>>

Delete(d) ==
  /\ d \in Removable
  /\ \E i \in DOMAIN remote :
       /\ remote[i] = d
       /\ remote' = SubSeq(remote, 1, i - 1) \o SubSeq(remote, i + 1, Len(remote))
  /\ shrunk' = (shrunk \/ run = "listing")
  /\ UNCHANGED <<runVars, selected, page, owed, feedVars, workerVars, reportVars,
                 storeVars, fileVars, ghosts, bounds>>

-----------------------------------------------------------------------------
(* Selection: selectDocuments, ListDocuments, GetDocument, loadLookups.     *)

Start ==
  /\ run \in {"idle", "ended"} /\ runs < MaxRuns
  /\ run' = "listing" /\ runs' = runs + 1
  /\ mode' \in Modes /\ ids' \in IdLists
  /\ cancelled' = FALSE /\ err' = FALSE
  /\ selected' = <<>> /\ page' = 0
  /\ owed' = Members(remote) /\ shrunk' = FALSE
  /\ next' = 1 /\ feed' = "ready"
  /\ recorded' = {} /\ stats' = NoStats
  /\ UNCHANGED <<remote, workerVars, storeVars, fileVars, ghosts, faults>>

Selecting ==
  /\ run = "listing" /\ ~ cancelled
  /\ UNCHANGED <<remote, mode, ids, cancelled, owed, shrunk, feedVars, workerVars,
                 reportVars, storeVars, fileVars, ghosts, bounds>>

PageEnd == IF page + PageSize < Len(remote) THEN page + PageSize ELSE Len(remote)
Page == SubSeq(remote, page + 1, PageEnd)

(* Mutant: the list ends with the page before the last.                     *)
ListPageShort ==
  /\ Selecting /\ ids = <<>> /\ (page = 0 \/ page < Len(remote))
  /\ selected' = selected \o Page
  /\ page' = page + PageSize
  /\ run' = IF page' + 1 < Len(remote) THEN "listing" ELSE "lookups"
  /\ UNCHANGED err

(* One page; the server says whether there is a next one.                   *)
ListPage ==
  /\ Selecting /\ ids = <<>> /\ (page = 0 \/ page < Len(remote))
  /\ selected' = selected \o Page
  /\ page' = page + PageSize
  /\ run' = IF page' < Len(remote) THEN "listing" ELSE "lookups"
  /\ UNCHANGED err

GetDocument ==
  /\ Selecting /\ page < Len(ids) /\ ids[page + 1] \in Members(remote)
  /\ selected' = Append(selected, ids[page + 1])
  /\ page' = page + 1
  /\ run' = IF page' < Len(ids) THEN "listing" ELSE "lookups"
  /\ UNCHANGED err

(* The page is gone by now, the document was deleted.                       *)
NotFound ==
  /\ Selecting
  /\ IF ids = <<>> THEN page > 0 /\ page >= Len(remote)
                   ELSE ids[page + 1] \notin Members(remote)
  /\ run' = "ended" /\ err' = TRUE
  /\ UNCHANGED <<selected, page>>

(* A request fails or times out, or the user interrupts.                    *)
SelectionFails ==
  /\ run \in {"listing", "lookups"}
  /\ \/ cancelled /\ UNCHANGED faults
     \/ ~ cancelled /\ Fault("list")
  /\ run' = "ended" /\ err' = TRUE
  /\ UNCHANGED <<remote, mode, ids, cancelled, listVars, feedVars, workerVars,
                 reportVars, storeVars, fileVars, ghosts, runs>>

ListedTwice == {d \in Docs : \E i, j \in DOMAIN selected :
                               i # j /\ selected[i] = d /\ selected[j] = d}

LoadLookups ==
  /\ run = "lookups" /\ ~ cancelled
  /\ run' = "running"
  /\ spoiled' = spoiled \cup ListedTwice
  /\ UNCHANGED <<remote, mode, ids, cancelled, err, listVars, feedVars, workerVars,
                 reportVars, storeVars, fileVars, broken, bounds>>

-----------------------------------------------------------------------------
(* The plan, the feeder and the workers' loop.                              *)

(* --plan and --dry-run only report.                                        *)
Plan ==
  /\ run = "running" /\ mode = "plan"
  /\ run' = "ended"
  /\ IF cancelled /\ selected # <<>>
     THEN err' = TRUE /\ UNCHANGED reportVars
     ELSE /\ stats' = [stats EXCEPT !["skipped"] = Len(selected)]
          /\ recorded' = DOMAIN selected
          /\ UNCHANGED err
  /\ UNCHANGED <<remote, mode, ids, cancelled, listVars, feedVars, workerVars,
                 storeVars, fileVars, ghosts, bounds>>

Importing == run = "running" /\ mode # "plan"
Parallel == Cardinality(Workers) > 1 /\ Len(selected) > 1

Goto(w, call) == pc' = [pc EXCEPT ![w] = call]
Leave(w) ==
  /\ Goto(w, "idle") /\ at' = [at EXCEPT ![w] = 0]
  /\ outcome' = [outcome EXCEPT ![w] = "skipped"] /\ mine' = [mine EXCEPT ![w] = FALSE]
Pick(w) == at' = [at EXCEPT ![w] = next] /\ next' = next + 1 /\ UNCHANGED <<outcome, mine>>

Feeding ==
  /\ Importing
  /\ UNCHANGED <<remote, run, mode, ids, cancelled, listVars, reportVars, storeVars,
                 fileVars, ghosts, bounds>>

(* for i := range docs { ... jobs <- i }; close(jobs)                       *)
Feed ==
  /\ Feeding /\ Parallel /\ feed = "ready"
  /\ feed' = IF next > Len(selected) \/ cancelled THEN "closed" ELSE "offering"
  /\ err' = (err \/ (cancelled /\ next <= Len(selected)))
  /\ UNCHANGED <<next, workerVars>>

(* Mutant: a worker leaves its loop when the context is cancelled.          *)
TakeOrLeave(w) ==
  /\ Feeding /\ feed = "offering" /\ pc[w] = "idle" /\ ~ cancelled
  /\ feed' = "ready"
  /\ Pick(w) /\ Goto(w, "check") /\ UNCHANGED err

(* A worker receives an index; cancelled, it drops it and goes on receiving. *)
Take(w) ==
  /\ Feeding /\ feed = "offering" /\ pc[w] = "idle"
  /\ feed' = "ready"
  /\ IF cancelled
     THEN next' = next + 1 /\ err' = TRUE /\ UNCHANGED workerVars
     ELSE Pick(w) /\ Goto(w, "check") /\ UNCHANGED err

(* The loop without a channel, until the first error.                       *)
NextInTurn(w) ==
  /\ Feeding /\ ~ Parallel /\ feed = "ready" /\ \A v \in Workers : pc[v] = "idle"
  /\ IF next > Len(selected) \/ err
     THEN feed' = "closed" /\ UNCHANGED <<next, workerVars>>
     ELSE Pick(w) /\ Goto(w, "check") /\ UNCHANGED feed
  /\ UNCHANGED err

(* wg.Wait.                                                                 *)
End ==
  /\ Importing /\ feed = "closed" /\ \A w \in Workers : pc[w] = "idle"
  /\ run' = "ended"
  /\ UNCHANGED <<remote, mode, ids, cancelled, err, listVars, feedVars, workerVars,
                 reportVars, storeVars, fileVars, ghosts, bounds>>

-----------------------------------------------------------------------------
(* processDoc and importOne.                                                *)

Doc(w) == selected[at[w]]
Content(w) == ContentOf[Doc(w)]

At(w, call) ==
  /\ Importing /\ pc[w] = call
  /\ UNCHANGED <<remote, run, mode, ids, cancelled, listVars, feedVars, runs>>

Skip(w) == /\ outcome' = [outcome EXCEPT ![w] = "skipped"]
           /\ Goto(w, "record")
           /\ UNCHANGED <<at, mine>>

CheckCancelled(w) ==
  /\ At(w, "check") /\ cancelled
  /\ err' = TRUE
  /\ Leave(w)
  /\ UNCHANGED <<reportVars, storeVars, fileVars, ghosts, faults>>

(* Mutant: the rows of earlier runs are not looked at.                      *)
CheckNever(w) ==
  /\ At(w, "check") /\ ~ cancelled
  /\ IF mode = "retry-failed" /\ rows[Doc(w)] # "failed"
     THEN Skip(w)
     ELSE Goto(w, "download") /\ UNCHANGED <<at, outcome, mine>>
  /\ UNCHANGED <<err, reportVars, storeVars, fileVars, ghosts, faults>>

(* The row of an earlier run decides.                                       *)
Check(w) ==
  /\ At(w, "check") /\ ~ cancelled
  /\ IF \/ rows[Doc(w)] = "imported"
        \/ mode = "retry-failed" /\ rows[Doc(w)] # "failed"
     THEN Skip(w)
     ELSE Goto(w, "download") /\ UNCHANGED <<at, outcome, mine>>
  /\ UNCHANGED <<err, reportVars, storeVars, fileVars, ghosts, faults>>

(* It cannot be read: a warning, and the document is taken for new.         *)
CheckUnread(w) ==
  /\ At(w, "check") /\ ~ cancelled /\ Fault("read")
  /\ IF mode = "retry-failed" THEN Skip(w)
                              ELSE Goto(w, "download") /\ UNCHANGED <<at, outcome, mine>>
  /\ spoiled' = IF notes[Doc(w)] > 0 THEN spoiled \cup {Doc(w)} ELSE spoiled
  /\ UNCHANGED <<err, reportVars, storeVars, fileVars, broken>>

Download(w) ==
  /\ At(w, "download") /\ ~ cancelled /\ Doc(w) \in Members(remote)
  /\ Goto(w, "create")
  /\ UNCHANGED <<err, at, outcome, mine, reportVars, storeVars, fileVars, ghosts, faults>>

(* Mutant: content that is known is not imported, as without                *)
(* AllowDuplicateContent.                                                   *)
CreateOrSkip(w) ==
  /\ At(w, "create") /\ ~ cancelled
  /\ LET new == document[Content(w)] = "none" IN
       /\ document' = IF new THEN [document EXCEPT ![Content(w)] = "pending"] ELSE document
       /\ mine' = [mine EXCEPT ![w] = new]
       /\ Goto(w, IF new THEN "extract" ELSE "state")
  /\ outcome' = [outcome EXCEPT ![w] = "imported"]
  /\ UNCHANGED <<err, at, reportVars, rows, fileVars, ghosts, faults>>

(* CreateOrGet; the first of a content also has its job enqueued and claimed. *)
Create(w) ==
  /\ At(w, "create") /\ ~ cancelled
  /\ LET new == document[Content(w)] = "none" IN
       /\ document' = IF new THEN [document EXCEPT ![Content(w)] = "pending"] ELSE document
       /\ mine' = [mine EXCEPT ![w] = new]
  /\ Goto(w, "extract")
  /\ UNCHANGED <<err, at, outcome, reportVars, rows, fileVars, ghosts, faults>>

(* The text is extracted, the file copied to the archive.                   *)
Extract(w) ==
  /\ At(w, "extract")
  /\ archived' = archived \cup {Content(w)}
  /\ Goto(w, "note")
  /\ UNCHANGED <<err, at, outcome, mine, reportVars, storeVars, notes, ghosts, faults>>

(* Mutant: SetVaultAndArchivePath is left out.                              *)
WriteNoteOnly(w) ==
  /\ At(w, "note")
  /\ notes' = [notes EXCEPT ![Doc(w)] = @ + 1]
  /\ Goto(w, "state")
  /\ outcome' = [outcome EXCEPT ![w] = "imported"]
  /\ UNCHANGED <<err, at, mine, reportVars, storeVars, archived, ghosts, faults>>

(* WriteNote: a layout's name is never taken, each note is a file of its own. *)
WriteNote(w) ==
  /\ At(w, "note")
  /\ notes' = [notes EXCEPT ![Doc(w)] = @ + 1]
  /\ Goto(w, IF mine[w] THEN "finish" ELSE "state")
  /\ outcome' = [outcome EXCEPT ![w] = "imported"]
  /\ UNCHANGED <<err, at, mine, reportVars, storeVars, archived, ghosts, faults>>

(* SetVaultAndArchivePath and CompleteJob.                                  *)
Finish(w) ==
  /\ At(w, "finish") /\ ~ cancelled
  /\ document' = [document EXCEPT ![Content(w)] = "filed"]
  /\ Goto(w, "state")
  /\ UNCHANGED <<err, at, outcome, mine, reportVars, rows, fileVars, ghosts, faults>>

(* Mutant: a failure is only logged.                                        *)
GiveUpSilently(w) == Leave(w) /\ UNCHANGED err

(* importOne fails.  Is it the context, nothing is recorded.                *)
GiveUp(w) ==
  IF cancelled
  THEN err' = TRUE /\ Leave(w)
  ELSE /\ outcome' = [outcome EXCEPT ![w] = "failed"]
       /\ Goto(w, "state")
       /\ UNCHANGED <<err, at, mine>>

(* The document was deleted; the connection breaks, the disk is full, the   *)
(* file cannot be read.                                                     *)
DownloadFails(w) ==
  /\ At(w, "download")
  /\ \/ (cancelled \/ Doc(w) \notin Members(remote)) /\ UNCHANGED faults
     \/ Fault("import")
  /\ GiveUp(w)
  /\ UNCHANGED <<reportVars, storeVars, fileVars, ghosts>>

(* The insert fails, or after it the job is not there to claim.             *)
CreateFails(w) ==
  /\ At(w, "create")
  /\ \/ cancelled /\ UNCHANGED faults
     \/ Fault("store")
  /\ GiveUp(w)
  /\ \/ UNCHANGED <<document, broken>>
     \/ /\ document[Content(w)] = "none"
        /\ document' = [document EXCEPT ![Content(w)] = "pending"]
        /\ broken' = broken \cup {Content(w)}
  /\ UNCHANGED <<reportVars, rows, fileVars, spoiled>>

Broken(W) == {Content(w) : w \in {v \in W : mine[v] /\ pc[v] \in {"extract", "note", "finish"}}}

(* Extraction obeys the context, the copy and the note do not.              *)
ExtractFails(w) ==
  /\ \/ At(w, "extract") /\ cancelled /\ UNCHANGED faults
     \/ (At(w, "extract") \/ At(w, "note")) /\ Fault("import")
  /\ GiveUp(w)
  /\ broken' = broken \cup Broken({w})
  /\ UNCHANGED <<reportVars, storeVars, fileVars, spoiled>>

(* The note is there, the import counts as failed.                          *)
FinishFails(w) ==
  /\ At(w, "finish")
  /\ \/ cancelled /\ UNCHANGED faults
     \/ Fault("store")
  /\ GiveUp(w)
  /\ spoiled' = spoiled \cup {Doc(w)} /\ broken' = broken \cup Broken({w})
  /\ UNCHANGED <<reportVars, storeVars, fileVars>>

(* UpsertPaperlessImportStateForTarget.                                     *)
State(w) ==
  /\ At(w, "state") /\ ~ cancelled
  /\ rows' = [rows EXCEPT ![Doc(w)] = outcome[w]]
  /\ Goto(w, "record")
  /\ UNCHANGED <<err, at, outcome, mine, reportVars, document, fileVars, ghosts, faults>>

(* It fails: a warning.                                                     *)
StateFails(w) ==
  /\ At(w, "state")
  /\ \/ cancelled /\ UNCHANGED faults
     \/ Fault("store")
  /\ spoiled' = IF outcome[w] = "imported" THEN spoiled \cup {Doc(w)} ELSE spoiled
  /\ Goto(w, "record")
  /\ UNCHANGED <<err, at, outcome, mine, reportVars, storeVars, fileVars, broken>>

(* Mutant: the number that is shown is taken for the index.                 *)
RecordShifted(w) ==
  /\ At(w, "record")
  /\ recorded' = recorded \cup {at[w] + 1}
  /\ stats' = [stats EXCEPT ![outcome[w]] = @ + 1]
  /\ err' = (err \/ (cancelled /\ outcome[w] # "failed"))
  /\ Leave(w)
  /\ UNCHANGED <<storeVars, fileVars, ghosts, faults>>

(* record, and what processDoc returns: a failure is no error.              *)
Record(w) ==
  /\ At(w, "record")
  /\ recorded' = recorded \cup {at[w]}
  /\ stats' = [stats EXCEPT ![outcome[w]] = @ + 1]
  /\ err' = (err \/ (cancelled /\ outcome[w] # "failed"))
  /\ Leave(w)
  /\ UNCHANGED <<storeVars, fileVars, ghosts, faults>>

-----------------------------------------------------------------------------
(* Interrupt and crash.                                                     *)

Cancel ==
  /\ run \in {"listing", "lookups", "running"} /\ ~ cancelled /\ Fault("cancel")
  /\ cancelled' = TRUE
  /\ UNCHANGED <<remote, run, mode, ids, err, listVars, feedVars, workerVars,
                 reportVars, storeVars, fileVars, ghosts, runs>>

Crash ==
  /\ run \in {"listing", "lookups", "running"} /\ Fault("crash")
  /\ run' = "idle"
  /\ selected' = <<>> /\ page' = 0 /\ owed' = {} /\ shrunk' = FALSE
  /\ cancelled' = FALSE /\ err' = FALSE /\ next' = 1 /\ feed' = "ready"
  /\ recorded' = {} /\ stats' = NoStats
  /\ pc' = [w \in Workers |-> "idle"] /\ at' = [w \in Workers |-> 0]
  /\ outcome' = [w \in Workers |-> "skipped"] /\ mine' = [w \in Workers |-> FALSE]
  /\ spoiled' = spoiled \cup {Doc(w) : w \in {v \in Workers :
       pc[v] \in {"finish", "state"} /\ outcome[v] = "imported"}}
  /\ broken' = broken \cup Broken(Workers)
  /\ UNCHANGED <<remote, mode, ids, storeVars, fileVars, runs>>

-----------------------------------------------------------------------------
Work(w) ==
  \/ CheckCancelled(w) \/ Check(w) \/ CheckUnread(w)
  \/ Download(w) \/ Create(w) \/ Extract(w) \/ WriteNote(w) \/ Finish(w)
  \/ DownloadFails(w) \/ CreateFails(w) \/ ExtractFails(w) \/ FinishFails(w)
  \/ State(w) \/ StateFails(w) \/ Record(w)

Select == ListPage \/ GetDocument \/ NotFound \/ SelectionFails \/ LoadLookups

Next ==
  \/ \E d \in Docs : Upload(d) \/ Delete(d)
  \/ Start \/ Select \/ Plan \/ Feed \/ End
  \/ \E w \in Workers : Take(w) \/ NextInTurn(w) \/ Work(w)
  \/ Cancel \/ Crash

Spec == Init /\ [][Next]_vars

(* The run's own goroutines go on.  Requests for lists time out; a download  *)
(* has no limit of time, only the context ends it.                          *)
Prompt(w) == Work(w) /\ (pc[w] = "download" => cancelled)

FairSpec ==
  /\ Spec
  /\ WF_vars(Select) /\ WF_vars(Plan) /\ WF_vars(Feed) /\ WF_vars(End)
  /\ \A w \in Workers : WF_vars(Take(w)) /\ WF_vars(NextInTurn(w)) /\ WF_vars(Prompt(w))

-----------------------------------------------------------------------------
(* Verify.                                                                  *)

(* Mutant: rules win over the server's metadata.                            *)
RulesFirst(d) == IF RuleFor[ContentOf[d]] # None THEN RuleFor[ContentOf[d]] ELSE Preset[d]

(* What processSource puts into the note: the rules fill what is not set.   *)
NoteMeta(d) == IF Preset[d] # None THEN Preset[d] ELSE RuleFor[ContentOf[d]]

Discrepancies(d) ==
  (IF rows[d] = "failed" \/ notes[d] = 0 THEN {"missing"} ELSE {})
  \cup (IF notes[d] > 1 THEN {"duplicate"} ELSE {})
  \cup (IF notes[d] > 0 /\ ContentOf[d] \notin archived THEN {"missing_archive"} ELSE {})
  \cup (IF notes[d] > 0 /\ NoteMeta(d) # Preset[d] THEN {"metadata"} ELSE {})

-----------------------------------------------------------------------------
(* A later run skips what has the row "imported", and Verify takes the row  *)
(* for true: there is a note and the archive holds the content.             *)
RowIsBacked ==
  \A d \in Docs : rows[d] = "imported" => notes[d] > 0 /\ ContentOf[d] \in archived

(* However often and in whatever modes the import is run, a document gets   *)
(* one note, unless an import of it was cut off between the note and its    *)
(* row, the row could not be read, or one run listed the document twice.    *)
OneNoteEach == \A d \in Docs \ spoiled : notes[d] <= 1

(* Users may add documents while the pages are fetched: a list misses none  *)
(* of those that were there before, as long as none is deleted.             *)
ListingIsComplete ==
  (run = "running" /\ ids = <<>> /\ ~ shrunk) => owed \subseteq Members(selected)

(* An import that ends without an error or a failed document has imported   *)
(* whatever it selected, and Verify finds nothing wrong with it.  A document *)
(* without metadata on the server is excepted where a rule gave it some:    *)
(* Verify compares the note with the server, not with what was written.     *)
CleanRunVerifies ==
  (run = "ended" /\ ~ err /\ mode = "import" /\ stats["failed"] = 0) =>
    \A d \in Members(selected) \ spoiled :
      Discrepancies(d) \subseteq (IF Preset[d] = None THEN {"metadata"} ELSE {})

(* A report names each selected document, and its counts add up.            *)
ReportIsComplete ==
  (run = "ended" /\ ~ err) =>
    /\ recorded = DOMAIN selected
    /\ stats["imported"] + stats["skipped"] + stats["failed"] = Len(selected)

(* Documents with the same bytes share the store's document.  The worker    *)
(* that made it files it: it stays without a vault path only when that      *)
(* worker was stopped or failed, whatever the others do.                    *)
DocumentIsFiled ==
  \A c \in Contents : document[c] = "pending" =>
    \/ c \in broken
    \/ \E w \in Workers : mine[w] /\ pc[w] # "idle" /\ Content(w) = c

(* Ctrl-C ends a run, wherever it is: nobody waits for a channel that no    *)
(* one reads, and a download that hangs is given up.                        *)
CancelEndsRun == (run = "running" /\ cancelled) ~> run # "running"
=============================================================================
