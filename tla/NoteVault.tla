------------------------------ MODULE NoteVault -------------------------------
(***************************************************************************)
(* The notes of a vault and who writes them: processes that ingest and     *)
(* reprocess (internal/writer/writer.go; a mutex orders the calls of one   *)
(* process, nothing orders two), commands that correct frontmatter         *)
(* (internal/vaultreview/vaultreview.go), and the user with an editor.     *)
(***************************************************************************)
EXTENDS Integers, FiniteSets, SequencesExt

CONSTANTS
  Docs,         \* documents, by number
  Laid,         \* those a Paperless import writes, which have a NoteLayout
  Stem(_),      \* the base name of a document's note
  Writers,      \* processes that ingest
  Reviewers,    \* correction commands
  MaxSuffix,    \* bound: notes of one stem
  MaxCalls,     \* bound: calls of writers and reviewers
  MaxEdits,     \* bound: edits by the user
  MaxFaults     \* bound: write errors and crashes

ASSUME NoteVaultAssumption ==
  /\ Docs \subseteq Nat /\ IsFiniteSet(Docs) /\ Laid \subseteq Docs
  /\ Writers \cap Reviewers = {} /\ "user" \notin Writers \cup Reviewers
  /\ MaxSuffix \in Nat \ {0}
  /\ MaxCalls \in Nat /\ MaxEdits \in Nat /\ MaxFaults \in Nat

VARIABLES
  notes,      \* path -> note
  row,        \* document -> the vault path of its row
  task,       \* what each process is doing, with what it has read
  backups,    \* what .symingest-backups holds
  edited,     \* notes the user has edited
  raced,      \* notes written by one process while another had read them
  calls, edits, faults

vars == <<notes, row, task, backups, edited, raced, calls, edits, faults>>

Procs == Writers \cup Reviewers

(* The user's own field; the tag of a correction; the link to a sidecar.     *)
Note == [doc : Docs, mine : BOOLEAN, fixed : BOOLEAN, sidecar : BOOLEAN]
Fresh(d) == [doc |-> d, mine |-> FALSE, fixed |-> FALSE, sidecar |-> FALSE]
Absent == Fresh(-1)     \* there is no file
Torn == Fresh(-2)       \* a file without frontmatter

(* <<stem, 0>> is the flat note, <<stem, 1>> the laid out one, <<stem, 2>>   *)
(* the one with suffix -2.                                                   *)
Paths == {<<Stem(d), i>> : d \in Docs, i \in 0..MaxSuffix}
NoPath == <<>>
Readable(p) == notes[p] \notin {Absent, Torn}

Idle == [pc |-> "idle", doc |-> -1, path |-> NoPath, copy |-> Absent, queue |-> <<>>]

TypeOK ==
  /\ notes \in [Paths -> Note \cup {Absent, Torn}]
  /\ row \in [Docs -> Paths \cup {NoPath}]
  /\ \A w \in Procs :
       /\ task[w].pc \in {"idle", "create", "update", "sidecar", "find", "backup", "truncate", "fill"}
       /\ task[w].pc \in {"update", "sidecar", "backup", "truncate", "fill"} =>
            task[w].copy \in Note /\ task[w].path \in Paths
       /\ task[w].pc \in {"find", "backup", "truncate", "fill"} <=> task[w].queue # <<>>
       /\ Range(task[w].queue) \subseteq Laid
  /\ backups \subseteq [path : Paths, note : Note \cup {Torn}]
  /\ edited \subseteq Paths /\ raced \subseteq Paths
  /\ calls \in 0..MaxCalls /\ edits \in 0..MaxEdits /\ faults \in 0..MaxFaults

Init ==
  /\ notes = [p \in Paths |-> Absent]
  /\ row = [d \in Docs |-> NoPath]
  /\ task = [w \in Procs |-> Idle]
  /\ backups = {} /\ edited = {} /\ raced = {}
  /\ calls = 0 /\ edits = 0 /\ faults = 0

-----------------------------------------------------------------------------
At(w, step) == task[w].pc = step
Do(w, t) == task' = [task EXCEPT ![w] = t]
Goto(w, step) == task' = [task EXCEPT ![w].pc = step]
Call == calls < MaxCalls /\ calls' = calls + 1

(* Whoever writes a note that another process has at hand, read or found to  *)
(* be free, makes a race.                                                    *)
Put(p, note, w) ==
  /\ notes' = [notes EXCEPT ![p] = note]
  /\ raced' = IF \E v \in Procs \ {w} : task[v].path = p THEN raced \cup {p} ELSE raced

-----------------------------------------------------------------------------
(* The writer.                                                              *)

FreeSuffixes(d) == {i \in 1..MaxSuffix : notes[<<Stem(d), i>>] = Absent}

(* Mutant: the loop over the suffixes is not taken.                          *)
ResolveFirst(d) == <<Stem(d), IF d \in Laid THEN 1 ELSE 0>>

(* resolveNotePath: the first free suffix; a flat note has one path.         *)
Resolve(d) ==
  <<Stem(d), IF d \in Laid
             THEN CHOOSE i \in FreeSuffixes(d) : \A j \in FreeSuffixes(d) : i <= j
             ELSE 0>>

WriteNote(w, d) ==
  /\ At(w, "idle") /\ Call
  /\ d \in Laid => FreeSuffixes(d) # {}
  /\ Do(w, [Idle EXCEPT !.pc = "create", !.doc = d, !.path = Resolve(d)])
  /\ UNCHANGED <<notes, row, backups, edited, raced, edits, faults>>

(* AtomicWriteFile: by a rename, over whatever is there by now; then the     *)
(* document's row.                                                           *)
Create(w) ==
  /\ At(w, "create")
  /\ Put(task[w].path, Fresh(task[w].doc), w)
  /\ row' = [row EXCEPT ![task[w].doc] = task[w].path]
  /\ Do(w, Idle)
  /\ UNCHANGED <<backups, edited, calls, edits, faults>>

(* UpdateNote of a reprocessing, UpdateNoteSidecar of an extraction profile. *)
ReadNote(w, d, call) ==
  /\ At(w, "idle") /\ Call
  /\ row[d] # NoPath /\ Readable(row[d])
  /\ Do(w, [Idle EXCEPT !.pc = call, !.doc = d, !.path = row[d], !.copy = notes[row[d]]])
  /\ UNCHANGED <<notes, row, backups, edited, raced, edits, faults>>

(* Mutant: the frontmatter of a reprocessing is written from scratch.        *)
UpdatedAnew(note, d) == [Fresh(d) EXCEPT !.sidecar = note.sidecar]

(* updateMachineFields: tags are the machine's, other fields stay.           *)
Updated(note, d) == [note EXCEPT !.doc = d, !.fixed = FALSE]

UpdateNote(w) ==
  /\ At(w, "update")
  /\ Put(task[w].path, Updated(task[w].copy, task[w].doc), w)
  /\ Do(w, Idle)
  /\ UNCHANGED <<row, backups, edited, calls, edits, faults>>

UpdateNoteSidecar(w) ==
  /\ At(w, "sidecar")
  /\ Put(task[w].path, [task[w].copy EXCEPT !.sidecar = TRUE], w)
  /\ Do(w, Idle)
  /\ UNCHANGED <<row, backups, edited, calls, edits, faults>>

-----------------------------------------------------------------------------
(* Corrections.                                                             *)

(* The selector of a bulk update matches every note of Paperless: the IDs of *)
(* all of them, sorted; two notes of a document give it twice.               *)
BulkIds ==
  LET found == {p \in Paths : Readable(p) /\ notes[p].doc \in Laid}
      Notes(d) == {p \in found : notes[p].doc = d}
  IN {ids \in [1..Cardinality(found) -> Laid] :
        /\ \A i, j \in DOMAIN ids : i <= j => ids[i] <= ids[j]
        /\ \A d \in Laid : Cardinality({i \in DOMAIN ids : ids[i] = d}) = Cardinality(Notes(d))}

ApplyCorrections(r, ids) ==
  /\ At(r, "idle") /\ Call /\ ids # <<>>
  /\ Do(r, [Idle EXCEPT !.pc = "find", !.queue = ids])
  /\ UNCHANGED <<notes, row, backups, edited, raced, edits, faults>>

(* The walk is lexical: "x-2.md" comes before "x.md".                        *)
WalkRank(p) == IF p[2] = 1 THEN MaxSuffix + 1 ELSE p[2]
Found(id) == {p \in Paths : Readable(p) /\ notes[p].doc = id}
FirstFound(id) == CHOOSE p \in Found(id) : \A q \in Found(id) : WalkRank(p) <= WalkRank(q)

(* Mutant: the end of the list is not seen.                                  *)
RestOfMore(r) == [Idle EXCEPT !.pc = "find", !.queue = Tail(task[r].queue)]

Rest(r) ==
  IF Len(task[r].queue) = 1 THEN Idle
  ELSE [Idle EXCEPT !.pc = "find", !.queue = Tail(task[r].queue)]

(* A correction adds its tag; what else it may set is a field like it.       *)
Corrected(note) == [note EXCEPT !.fixed = TRUE]

(* findByPaperlessID; nothing is written when nothing changes.               *)
Find(r) ==
  /\ At(r, "find") /\ Found(Head(task[r].queue)) # {}
  /\ LET id == Head(task[r].queue)
         p == FirstFound(id)
     IN Do(r, IF Corrected(notes[p]) = notes[p] THEN Rest(r)
              ELSE [task[r] EXCEPT !.pc = "backup", !.doc = id, !.path = p, !.copy = notes[p]])
  /\ UNCHANGED <<notes, row, backups, edited, raced, calls, edits, faults>>

(* The first ID that is not found ends the command.                          *)
NotFound(r) ==
  /\ At(r, "find") /\ Found(Head(task[r].queue)) = {}
  /\ Do(r, Idle)
  /\ UNCHANGED <<notes, row, backups, edited, raced, calls, edits, faults>>

(* backupNote copies the file as it is now.                                  *)
BackupNote(r) ==
  /\ At(r, "backup")
  /\ backups' = backups \cup {[path |-> task[r].path, note |-> notes[task[r].path]]}
  /\ Goto(r, "truncate")
  /\ UNCHANGED <<notes, row, edited, raced, calls, edits, faults>>

(* os.WriteFile opens with O_TRUNC ...                                       *)
Truncate(r) ==
  /\ At(r, "truncate")
  /\ Put(task[r].path, Torn, r)
  /\ Goto(r, "fill")
  /\ UNCHANGED <<row, backups, edited, calls, edits, faults>>

(* ... and writes what was found, corrected.                                 *)
Fill(r) ==
  /\ At(r, "fill")
  /\ Put(task[r].path, Corrected(task[r].copy), r)
  /\ Do(r, Rest(r))
  /\ UNCHANGED <<row, backups, edited, calls, edits, faults>>

-----------------------------------------------------------------------------
(* A write error or the end of a process: the command is over.               *)
Fault(w) ==
  /\ ~ At(w, "idle") /\ faults < MaxFaults
  /\ faults' = faults + 1
  /\ Do(w, Idle)
  /\ UNCHANGED <<notes, row, backups, edited, raced, calls, edits>>

(* The user adds a field of his own.                                        *)
Edit(p) ==
  /\ Readable(p) /\ ~ notes[p].mine /\ edits < MaxEdits
  /\ edits' = edits + 1
  /\ Put(p, [notes[p] EXCEPT !.mine = TRUE], "user")
  /\ edited' = edited \cup {p}
  /\ UNCHANGED <<row, task, backups, calls, faults>>

-----------------------------------------------------------------------------
Write(w) ==
  \/ \E d \in Docs : WriteNote(w, d) \/ ReadNote(w, d, "update") \/ ReadNote(w, d, "sidecar")
  \/ Create(w) \/ UpdateNote(w) \/ UpdateNoteSidecar(w)

Review(r) ==
  \/ \E ids \in BulkIds \cup {<<d>> : d \in Laid} : ApplyCorrections(r, ids)
  \/ Find(r) \/ NotFound(r) \/ BackupNote(r) \/ Truncate(r) \/ Fill(r)

Next ==
  \/ \E w \in Writers : Write(w)
  \/ \E r \in Reviewers : Review(r)
  \/ \E w \in Procs : Fault(w)
  \/ \E p \in Paths : Edit(p)

Spec == Init /\ [][Next]_vars

-----------------------------------------------------------------------------
(* What the user added to a laid out note is in the note or in a backup of   *)
(* it, also after a command died half way, unless two processes wrote the    *)
(* note from copies of the same text.  A flat note is excepted: WriteNote    *)
(* replaces it.                                                              *)
EditsAreKept ==
  \A p \in edited \ raced : p[2] > 0 =>
    \/ Readable(p) /\ notes[p].mine
    \/ \E b \in backups : b.path = p /\ b.note # Torn /\ b.note.mine

(* The path of a row leads to a note of its document, or to one a command    *)
(* has left torn.  Excepted are races, and flat notes of one base name,      *)
(* which replace each other.                                                 *)
RowIsItsNote ==
  \A d \in Docs : row[d] \notin raced \cup {NoPath} =>
    \/ notes[row[d]] = Torn
    \/ Readable(row[d]) /\ notes[row[d]].doc = d
    \/ d \notin Laid /\ \E e \in Docs \ {d} : row[e] = row[d]
=============================================================================
