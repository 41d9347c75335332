------------------------------ MODULE Migration ------------------------------
(***************************************************************************)
(* The evidence for leaving Paperless-ngx: the dry run with its audit, the *)
(* import, the verifier, the review of their reports and cutover-check,    *)
(* which reads the reports and the vault and says "ready" or "blocked".    *)
(*                                                                         *)
(* Between these commands users go on: they add documents, rename tags,    *)
(* edit, copy, move and delete notes, lose or damage archived files.  Any  *)
(* command may be run again, bounded by --ids or --limit, and write its    *)
(* report over an older one.  A command is a step here; what happens       *)
(* inside an import is in PaperlessImport.                                 *)
(***************************************************************************)
EXTENDS Integers, Sequences, FiniteSets

CONSTANTS
  Docs,         \* Paperless documents: their ids
  Initial,      \* those on the server at first
  FileOf,       \* [name, mime, magic]: the extension of the file name, the one
                \* for its MIME type, whether the bytes tell what it is
  ContentOf,    \* the bytes
  TagOf,        \* [id, name] of its tag: 0 for none, "" when not embedded
  Labels,       \* names a tag may get
  IdLists,      \* what --ids may be
  Limits,       \* what --limit may be; 0 for all
  Minima,       \* what --min-documents may be
  MaxChanges,   \* bound: changes users make
  MaxRuns       \* bound: dry runs, imports and verifications

Contents == {ContentOf[d] : d \in Docs}
Tags == {TagOf[d].id : d \in Docs} \ {0}
Names == Labels \cup {TagOf[d].name : d \in Docs} \cup {"", "id"}

ASSUME MigrationAssumption ==
  /\ Docs \subseteq Nat \ {0} /\ IsFiniteSet(Docs) /\ Initial \subseteq Docs
  /\ FileOf \in [Docs -> [name: STRING, mime: STRING, magic: BOOLEAN]]
  /\ TagOf \in [Docs -> [id: Nat, name: STRING]]
  /\ Labels # {} /\ Labels \subseteq STRING \ {""}
  /\ IdLists \subseteq Seq(Docs) \ {<<>>}
  /\ Limits \subseteq Nat /\ Minima \subseteq Nat
  /\ MaxChanges \in Nat /\ MaxRuns \in Nat

VARIABLES
  docs,      \* the documents on the server
  label,     \* the server's table of tags; "" for an id that is not in it
  vault,     \* the notes made of each document
  archive,   \* the archived file of each content
  rows,      \* paperless_import_state
  dry, imp, verify,   \* the report files
  decision,  \* cutover-check: [status, blockers, min]
  fresh,     \* nothing has changed since the report in verify
  changes, runs

vars == <<docs, label, vault, archive, rows, dry, imp, verify, decision, fresh, changes, runs>>

(* A note: its tag, does it hold the document's id and the hash, can its     *)
(* frontmatter be parsed, is it the file the row names, is its body long     *)
(* enough for --min-body-length.                                             *)
Note == [tag: Names, id: BOOLEAN, sha: BOOLEAN, whole: BOOLEAN, row: BOOLEAN, full: BOOLEAN]

Absent == [kind |-> "absent"]
Undecided == [status |-> "none", blockers |-> {}, min |-> 0]

TypeOK ==
  /\ docs \subseteq Docs
  /\ label \in [Tags -> Labels \cup {""}]
  /\ vault \in [Docs -> Seq(Note)]
  /\ archive \in [Contents -> {"none", "there", "altered"}]
  /\ rows \in [Docs -> {"none", "imported", "failed"}]
  /\ \A r \in {dry, imp} : r # Absent =>
       /\ r.kind = "migration" /\ r.total = Len(r.results)
       /\ r.imported + r.skipped + r.failed = r.total
  /\ verify # Absent => verify.kind = "verify" /\ verify.verified <= Len(verify.selected)
  /\ decision.status \in {"none", "ready", "blocked"}
  /\ fresh \in BOOLEAN /\ changes \in 0..MaxChanges /\ runs \in 0..MaxRuns

Init ==
  /\ docs = Initial
  /\ label = [t \in Tags |-> CHOOSE l \in Labels : TRUE]
  /\ vault = [d \in Docs |-> <<>>] /\ archive = [c \in Contents |-> "none"]
  /\ rows = [d \in Docs |-> "none"]
  /\ dry = Absent /\ imp = Absent /\ verify = Absent
  /\ decision = Undecided /\ fresh = FALSE
  /\ changes = 0 /\ runs = 0

-----------------------------------------------------------------------------
(* Selection and metadata.                                                  *)

(* The list is newest first.                                                *)
Listed == {s \in [1..Cardinality(docs) -> docs] :
             \A i, j \in DOMAIN s : i < j => s[i] > s[j]}

Selections ==
  {s \in IdLists : \A i \in DOMAIN s : s[i] \in docs}
  \cup {IF n > 0 /\ n < Len(s) THEN SubSeq(s, 1, n) ELSE s : s \in Listed, n \in Limits}

Resolved(d) == TagOf[d].name # "" \/ TagOf[d].id = 0 \/ label[TagOf[d].id] # ""

(* The tag a note gets, and the one the verifier expects.                   *)
Tag(d) ==
  IF TagOf[d].name # "" \/ TagOf[d].id = 0 THEN TagOf[d].name
  ELSE IF Resolved(d) THEN label[TagOf[d].id] ELSE "id"

(* supportedFileExtensions, and those Detect knows besides.                 *)
Supported == {"pdf", "txt"}
Detected == Supported \cup {"pptx"}

Extension(d) == IF FileOf[d].name # "" THEN FileOf[d].name ELSE FileOf[d].mime
Unsupported(d) == Extension(d) \notin Supported /\ FileOf[d].mime = ""

(* The pipeline goes by the bytes, then by the extension it was given.      *)
Ingestible(d) == FileOf[d].magic \/ Extension(d) \in Detected

-----------------------------------------------------------------------------
(* The commands.                                                            *)

(* A decision changes nothing: what follows it also follows its undecided   *)
(* state.                                                                   *)
Command == /\ runs < MaxRuns /\ runs' = runs + 1
           /\ decision = Undecided
           /\ UNCHANGED <<docs, label, decision, changes>>

Members(s) == {s[i] : i \in DOMAIN s}
Count(results, status) == Cardinality({i \in DOMAIN results : results[i].status = status})

(* Mutant: what is not imported was skipped.                                *)
ReportRest(mode, results) ==
  [kind |-> "migration", mode |-> mode, total |-> Len(results), results |-> results,
   imported |-> Count(results, "imported"), failed |-> Count(results, "failed"),
   skipped |-> Len(results) - Count(results, "imported"),
   unsupported |-> {}, unresolved |-> {}]

Report(mode, results) ==
  [kind |-> "migration", mode |-> mode, total |-> Len(results), results |-> results,
   imported |-> Count(results, "imported"), failed |-> Count(results, "failed"),
   skipped |-> Len(results) - Count(results, "imported") - Count(results, "failed"),
   unsupported |-> {}, unresolved |-> {}]

(* --dry-run and --plan; the report may go to either file.                  *)
DryRun(sel) ==
  /\ Command
  /\ LET report == [Report("dry-run", [i \in DOMAIN sel |->
                      [id |-> sel[i], status |-> "would-import", mapped |-> FALSE, named |-> TRUE]])
                   EXCEPT !.unsupported = {Extension(d) : d \in {e \in Members(sel) : Unsupported(e)}},
                          !.unresolved = {TagOf[d].id : d \in {e \in Members(sel) : ~ Resolved(e)}}]
     IN \/ dry' = report /\ UNCHANGED imp
        \/ imp' = report /\ UNCHANGED dry
  /\ UNCHANGED <<vault, archive, rows, verify, fresh>>

(* The result of the i-th document: a row of this run counts for a repeated *)
(* id, as does one of an earlier run.                                       *)
Result(sel, retry, i) ==
  LET d == sel[i]
      again == \E j \in 1..(i - 1) : sel[j] = d
      tried == ~ retry \/ rows[d] = "failed"
  IN IF rows[d] = "imported" \/ (again /\ tried /\ Ingestible(d))
     THEN [id |-> d, status |-> "skipped", mapped |-> TRUE, named |-> TRUE]
     ELSE IF ~ tried THEN [id |-> d, status |-> "skipped", mapped |-> FALSE, named |-> TRUE]
     ELSE [id |-> d, status |-> IF Ingestible(d) THEN "imported" ELSE "failed",
           mapped |-> Ingestible(d), named |-> Resolved(d)]

Import(sel, retry) ==
  /\ Command
  /\ LET results == [i \in DOMAIN sel |-> Result(sel, retry, i)]
         With(status) == {results[i].id : i \in {j \in DOMAIN sel : results[j].status = status}}
         report == Report(IF retry THEN "retry-failed" ELSE "import", results)
     IN /\ rows' = [d \in Docs |-> IF d \in With("imported") THEN "imported"
                                  ELSE IF d \in With("failed") THEN "failed" ELSE rows[d]]
        /\ vault' = [d \in Docs |-> IF d \in With("imported")
             THEN Append(vault[d], [tag |-> Tag(d), id |-> TRUE, sha |-> TRUE,
                                    whole |-> TRUE, row |-> TRUE, full |-> TRUE])
             ELSE vault[d]]
        /\ archive' = [c \in Contents |->
             IF archive[c] = "none" /\ \E d \in With("imported") : ContentOf[d] = c
             THEN "there" ELSE archive[c]]
        /\ fresh' = (fresh /\ With("imported") = {} /\ With("failed") = {})
        /\ \/ dry' = report /\ UNCHANGED imp
           \/ imp' = report /\ UNCHANGED dry
  /\ UNCHANGED verify

(* scanVaultNotes: the notes of a document, as far as they can be parsed.   *)
Matches(d) == {i \in DOMAIN vault[d] : vault[d][i].whole /\ vault[d][i].id}
RowNote(d) == \E i \in DOMAIN vault[d] : vault[d][i].row
Stub == [tag |-> "", sha |-> TRUE, id |-> FALSE]

(* Mutant: the date of creation is not compared.                            *)
DifferencesUndated(d, note) == IF note.tag # Tag(d) THEN {"tags"} ELSE {}

(* compareMetadata; a note without Paperless metadata has no date.          *)
Differences(d, note) ==
  (IF note.tag # Tag(d) THEN {"tags"} ELSE {}) \cup (IF note.id THEN {} ELSE {"created"})

(* What the verifier has to say of a document: first by its row, then by    *)
(* the first of its notes, for which the file the row names stands in.      *)
Discrepancies(d) ==
  LET stub == Matches(d) = {} /\ rows[d] = "imported" /\ RowNote(d)
      note == IF stub THEN Stub
              ELSE vault[d][CHOOSE i \in Matches(d) : \A j \in Matches(d) : i <= j]
      file == archive[ContentOf[d]]
      byRow == IF rows[d] = "none" THEN {}
               ELSE IF rows[d] = "failed" THEN {"missing"}
               ELSE (IF RowNote(d) THEN {} ELSE {"missing"})
                    \cup (IF file = "none" THEN {"missing_archive"} ELSE {})
                    \cup (IF file = "there" THEN {} ELSE {"hash_mismatch"})
  IN IF Matches(d) = {} /\ ~ stub THEN IF byRow = {} THEN {"missing"} ELSE byRow
     ELSE byRow
          \cup (IF \E i, j \in Matches(d) : i # j THEN {"duplicate"} ELSE {})
          \cup (IF file = "none" THEN {"missing_archive"} ELSE {})
          \cup (IF note.sha /\ file # "there" THEN {"hash_mismatch"} ELSE {})
          \cup Differences(d, note)

Verify(sel) ==
  /\ Command
  /\ verify' = [kind |-> "verify", selected |-> sel,
                verified |-> Cardinality({i \in DOMAIN sel : Discrepancies(sel[i]) = {}}),
                discrepancies |-> [d \in Members(sel) |-> Discrepancies(d)]]
  /\ fresh' = TRUE
  /\ UNCHANGED <<vault, archive, rows, dry, imp>>

-----------------------------------------------------------------------------
(* The users.                                                               *)

Change == /\ changes < MaxChanges /\ changes' = changes + 1
          /\ decision = Undecided /\ fresh' = FALSE
          /\ UNCHANGED <<rows, dry, imp, verify, decision, runs>>

Upload(d) ==
  /\ Change /\ d \in Docs \ docs
  /\ docs' = docs \cup {d}
  /\ UNCHANGED <<label, vault, archive>>

Remove(d) ==
  /\ Change /\ d \in docs
  /\ docs' = docs \ {d}
  /\ UNCHANGED <<label, vault, archive>>

(* A tag is renamed, or withdrawn from the user of the token.               *)
Rename(t, l) ==
  /\ Change /\ label[t] # l
  /\ label' = [label EXCEPT ![t] = l]
  /\ UNCHANGED <<docs, vault, archive>>

(* What can become of a note: edited, torn, cut short, moved.               *)
Altered(n) ==
  {[n EXCEPT !.tag = l] : l \in Labels}
  \cup {[n EXCEPT !.id = FALSE], [n EXCEPT !.sha = FALSE], [n EXCEPT !.whole = FALSE],
        [n EXCEPT !.full = FALSE], [n EXCEPT !.row = FALSE]}

EditNote(d) ==
  /\ Change
  /\ \E i \in DOMAIN vault[d] :
       \/ \E n \in Altered(vault[d][i]) :
            n # vault[d][i] /\ vault' = [vault EXCEPT ![d][i] = n]
       \/ vault' = [vault EXCEPT ![d] = Append(@, [@[i] EXCEPT !.row = FALSE])]
       \/ vault' = [vault EXCEPT ![d] = SubSeq(@, 1, i - 1) \o SubSeq(@, i + 1, Len(@))]
  /\ UNCHANGED <<docs, label, archive>>

LoseArchive(c) ==
  /\ Change /\ archive[c] # "none"
  /\ \E s \in {"none", "altered"} \ {archive[c]} : archive' = [archive EXCEPT ![c] = s]
  /\ UNCHANGED <<docs, label, vault>>

-----------------------------------------------------------------------------
(* ValidateVaultWithOptions: every Markdown file.                           *)

Files == UNION {{d} \X DOMAIN vault[d] : d \in Docs}
File(f) == vault[f[1]][f[2]]

Failures(f, minBody) ==
  IF ~ File(f).whole THEN {"frontmatter"}
  ELSE (IF minBody /\ ~ File(f).full THEN {"body.min_length"} ELSE {})
       \cup (IF File(f).sha THEN {} ELSE {"required.sha256"})
       \cup (IF archive[ContentOf[f[1]]] = "none" THEN {"archive.exists"}
             ELSE IF File(f).sha /\ archive[ContentOf[f[1]]] = "altered"
             THEN {"archive.hash"} ELSE {})
       \cup (IF \E g \in Files : g[1] = f[1] /\ g[2] < f[2] /\ File(g).whole
                                /\ File(g).id /\ File(f).id
             THEN {"paperless.document_id.unique"} ELSE {})

-----------------------------------------------------------------------------
(* cutover-check.  Each gate stops at its first objection.                  *)

Objection(holds, text) == IF holds THEN {text} ELSE {}
First(objections) ==
  UNION {objections[i] : i \in {k \in DOMAIN objections : \A j \in 1..(k - 1) : objections[j] = {}}}

VaultGate(minBody) ==
  First(<<Objection(\E f \in Files : Failures(f, minBody) # {}, "vault invalid"),
          Objection(Files = {}, "vault empty"),
          Objection(verify # Absent /\ verify.verified > Cardinality(Files), "vault small")>>)

DryRunGate(min) ==
  IF dry = Absent THEN {"dry-run missing"}
  ELSE First(<<Objection(dry.mode # "dry-run", "dry-run mode"),
               Objection(dry.total < min, "dry-run total"),
               Objection(dry.failed # 0, "dry-run failed"),
               Objection(dry.unsupported # {}, "unsupported"),
               Objection(dry.unresolved # {}, "unresolved")>>)

Unmapped(result) == result.status \in {"imported", "skipped"} /\ ~ result.mapped

ImportGate(min) ==
  IF imp = Absent THEN {"import missing"}
  ELSE First(<<Objection(imp.mode = "dry-run", "import mode"),
               Objection(imp.total < min, "import total"),
               Objection(imp.failed # 0, "import failed"),
               Objection(imp.imported + imp.skipped # imp.total, "import counts"),
               Objection(\E i \in DOMAIN imp.results : Unmapped(imp.results[i]),
                         "import mappings")>>)

Complete(report) == \A d \in DOMAIN report.discrepancies : report.discrepancies[d] = {}

VerifyGate(min) ==
  IF verify = Absent THEN {"verify missing"}
  ELSE First(<<Objection(Len(verify.selected) < min, "verify total"),
               Objection(verify.verified # Len(verify.selected), "verified"),
               Objection(~ Complete(verify), "discrepancies")>>)

(* The reports are compared by their counts, not by their documents.        *)
CountGate ==
  LET Total(r) == IF r = Absent THEN {}
                  ELSE IF r.kind = "verify" THEN {Len(r.selected)} ELSE {r.total}
  IN IF Cardinality(Total(dry) \cup Total(imp) \cup Total(verify)) > 1 THEN {"counts"} ELSE {}

(* "search validate": symseek finds what the fixtures ask for, or not; there *)
(* may be none.                                                             *)
SearchOutcomes == {"absent", "no fixtures", "failed", "passed"}

SearchGate(outcome) ==
  CASE outcome = "absent" -> {"search missing"}
    [] outcome = "no fixtures" -> {"search empty"}
    [] outcome = "failed" -> {"search failed"}
    [] outcome = "passed" -> {}

Cutover(min, minBody, search) ==
  /\ decision = Undecided
  /\ LET blockers == VaultGate(minBody) \cup DryRunGate(min) \cup ImportGate(min)
                     \cup VerifyGate(min) \cup SearchGate(search) \cup CountGate
     IN decision' = [status |-> IF blockers = {} THEN "ready" ELSE "blocked",
                     blockers |-> blockers, min |-> min]
  /\ UNCHANGED <<docs, label, vault, archive, rows, dry, imp, verify, fresh, changes, runs>>

-----------------------------------------------------------------------------
(* review-report: what it shows of a report under one of its filters.       *)

(* The chips of a document in a dry run's or an import's report: a failure  *)
(* for its type says so in its error, an extension of an unsupported group  *)
(* is enough.                                                               *)
Chips(report, i) ==
  LET result == report.results[i] IN
  (IF result.status = "failed" THEN {"failed", "warnings", "unsupported"} ELSE {})
  \cup (IF result.mapped THEN {} ELSE {"missing-metadata"})
  \cup (IF Extension(result.id) \in report.unsupported THEN {"unsupported"} ELSE {})
  \cup (IF result.named THEN {} ELSE {"warnings", "unresolved"})

Shown(report, i) == {<<report.results[i].id, chip>> : chip \in Chips(report, i)}

Groups(filter, name, members) ==
  IF filter \in {"none", name} THEN {<<x, name>> : x \in members} ELSE {}

(* Mutant: unsupported groups count as documents, which a dry run maps not. *)
MigrationReviewMapped(report, filter) ==
  UNION {Shown(report, i) : i \in {j \in DOMAIN report.results :
           filter \in {"none"} \cup Chips(report, j) /\ report.results[j].mapped}}
  \cup Groups(filter, "unresolved", report.unresolved)

Documents(report, filter) ==
  UNION {Shown(report, i) : i \in {j \in DOMAIN report.results :
           filter \in {"none"} \cup Chips(report, j)}}

(* Documents with the chip of the filter, the unsupported groups and the    *)
(* unresolved ids.                                                          *)
MigrationReview(report, filter) ==
  Documents(report, filter)
  \cup Groups(filter, "unsupported", report.unsupported)
  \cup Groups(filter, "unresolved", report.unresolved)

VerifyReview(report, filter) ==
  LET shown == (IF filter \in {"none", "missing-metadata", "failed"}
                THEN {"missing", "duplicate", "missing_archive", "hash_mismatch"} ELSE {})
               \cup (IF filter \in {"none", "missing-metadata", "unresolved"}
                     THEN {"tags", "created"} ELSE {})
  IN UNION {{d} \X (report.discrepancies[d] \cap shown) : d \in DOMAIN report.discrepancies}

-----------------------------------------------------------------------------
Next ==
  \/ \E sel \in Selections : DryRun(sel) \/ Verify(sel)
  \/ \E sel \in Selections, retry \in BOOLEAN : Import(sel, retry)
  \/ \E d \in Docs : Upload(d) \/ Remove(d) \/ EditNote(d)
  \/ \E t \in Tags, l \in Labels \cup {""} : Rename(t, l)
  \/ \E c \in Contents : LoseArchive(c)
  \/ \E min \in Minima, minBody \in BOOLEAN,
        search \in SearchOutcomes : Cutover(min, minBody, search)

Spec == Init /\ [][Next]_vars

-----------------------------------------------------------------------------
(* A document is migrated when one note has its id, with the tag the server *)
(* shows, and the archive holds its bytes.                                  *)
Migrated(d) ==
  /\ \E i \in DOMAIN vault[d] :
       /\ vault[d][i].whole /\ vault[d][i].tag = Tag(d)
       /\ {j \in DOMAIN vault[d] : vault[d][j].id} = {i}
  /\ archive[ContentOf[d]] = "there"

Once(s) == Len(s) = Cardinality(Members(s))

(* "Ready" from a verification after which nothing changed means that what  *)
(* it looked at is migrated; with --min-documents at the number of          *)
(* documents it means everything on the server, whatever bounded runs the   *)
(* other reports come from, unless --ids named one document twice.          *)
ReadyMeansMigrated ==
  (decision.status = "ready" /\ fresh) =>
    /\ \A d \in Members(verify.selected) : Migrated(d)
    /\ (decision.min >= Cardinality(docs) /\ Once(verify.selected)) =>
         \A d \in docs : Migrated(d)

Filters == {"none", "failed", "unsupported", "unresolved", "missing-metadata"}

Asked(blocker, filter, name) == blocker \in decision.blockers /\ filter \in {"none", name}

(* Whatever blocks the cutover, review-report shows the documents or ids    *)
(* behind it, under the filter that is named for it and without a filter.   *)
ReviewNamesBlockers ==
  \A filter \in Filters :
    /\ Asked("unsupported", filter, "unsupported") =>
         \E x \in MigrationReview(dry, filter) : x[2] = "unsupported"
    /\ Asked("unresolved", filter, "unresolved") =>
         \E x \in MigrationReview(dry, filter) : x[2] = "unresolved"
    /\ Asked("import failed", filter, "failed") =>
         \E x \in MigrationReview(imp, filter) : x[2] = "failed"
    /\ Asked("import mappings", filter, "missing-metadata") =>
         \E x \in MigrationReview(imp, filter) : x[2] = "missing-metadata"
    /\ Asked("verified", filter, "missing-metadata") =>
         \A d \in DOMAIN verify.discrepancies : verify.discrepancies[d] # {} =>
           \E x \in VerifyReview(verify, filter) : x[1] = d
=============================================================================
