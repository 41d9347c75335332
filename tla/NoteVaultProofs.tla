---------------------------- MODULE NoteVaultProofs ---------------------------
(* Proofs about NoteVault: the row of a document leads to its note, what the   *)
(* user has added is kept, and what each process has at hand keeps its type.   *)
EXTENDS NoteVault, WellFoundedInduction, FiniteSetTheorems, SequenceTheorems, TLAPS

LaidOut(p) == p[2] > 0
Flat(d) == <<Stem(d), 0>>

(* Two documents without a layout that have one base name.                     *)
Shared(d) ==
  d \notin Laid /\ row[d] # NoPath /\ \E e \in Docs \ {d} : row[e] = row[d]

IsPathOf(p, d) ==
  p \in Paths /\ (LaidOut(p) <=> d \in Laid) /\ (d \notin Laid => p = Flat(d))

Reading == {"update", "sidecar", "backup", "truncate"}

Fields == {"pc", "doc", "path", "copy", "queue"}
IsTask(t) == t = [f \in Fields |-> t[f]]

Shape ==
  /\ notes \in [Paths -> Note \cup {Absent, Torn}]
  /\ DOMAIN row = Docs /\ row = [d \in Docs |-> row[d]]
  /\ \A d \in Docs : row[d] # NoPath => IsPathOf(row[d], d) /\ notes[row[d]] # Absent
  /\ task = [w \in Procs |-> task[w]] /\ \A w \in Procs : IsTask(task[w])
  /\ \A p \in edited : p \in Paths /\ notes[p] # Absent

(* What a process has at hand is what the note is, as long as nobody has       *)
(* written it in between.                                                     *)
Honest(w) ==
  LET p == task[w].path
      d == task[w].doc
      c == task[w].copy
  IN /\ At(w, "create") =>
          d \in Docs /\ IsPathOf(p, d) /\ (LaidOut(p) /\ p \notin raced => notes[p] = Absent)
     /\ task[w].pc \in Reading =>
          p \in Paths /\ c \in Note /\ notes[p] # Absent /\ (p \notin raced => notes[p] = c)
     /\ At(w, "update") =>
          d \in Docs /\ \A e \in Docs : row[e] = p /\ p \notin raced => e = d \/ Shared(e)
     /\ At(w, "fill") =>
          /\ p \in Paths /\ c \in Note /\ notes[p] # Absent /\ (p \notin raced => notes[p] = Torn)
          /\ \A e \in Docs : row[e] = p /\ p \notin raced => e = c.doc \/ Shared(e)
     /\ task[w].pc \in {"truncate", "fill"} /\ p \notin raced =>
          \E b \in backups : b.path = p /\ b.note = c

VaultInv == Shape /\ (\A w \in Procs : Honest(w)) /\ RowIsItsNote /\ EditsAreKept

-----------------------------------------------------------------------------
LEMMA Distinct ==
  /\ Absent \notin Note /\ Torn \notin Note /\ Absent # Torn /\ NoPath \notin Paths
  /\ \A d \in Docs : Fresh(d) \in Note /\ Fresh(d).doc = d
  /\ \A n \in Note : n.doc \in Docs /\ n.mine \in BOOLEAN
<1>1. \A d \in Docs : d # -1 /\ d # -2
  BY NoteVaultAssumption
<1>2. Absent.doc = -1 /\ Torn.doc = -2
  BY DEF Absent, Torn, Fresh
<1>3. NoPath \notin Paths
  BY DEF NoPath, Paths
<1>4. \A d \in Docs : Fresh(d) \in Note /\ Fresh(d).doc = d
  BY DEF Fresh, Note
<1>5. \A n \in Note : n.doc \in Docs /\ n.mine \in BOOLEAN
  BY DEF Note
<1>. QED  BY <1>1, <1>2, <1>3, <1>4, <1>5

LEMMA Least == ASSUME NEW S \in SUBSET Nat, S # {} PROVE \E i \in S : \A j \in S : i <= j
<1>1. PICK i \in S : \A j \in S : ~ (<<j, i>> \in OpToRel(<, Nat))
  BY NatLessThanWellFounded, WFMin
<1>2. ASSUME NEW j \in S, j < i PROVE FALSE
  <2>1. <<j, i>> \in OpToRel(<, Nat)
    BY <1>2 DEF OpToRel
  <2>. QED BY <1>1, <2>1
<1>. QED BY <1>2

(* A free name is found, and a note by the number of its document.             *)
LEMMA ResolveIsFree ==
  ASSUME NEW d \in Docs, d \in Laid => FreeSuffixes(d) # {}
  PROVE  IsPathOf(Resolve(d), d) /\ (d \in Laid => notes[Resolve(d)] = Absent)
<1>1. CASE d \in Laid
  <2>. DEFINE i == CHOOSE i \in FreeSuffixes(d) : \A j \in FreeSuffixes(d) : i <= j
  <2>1. \E k \in FreeSuffixes(d) : \A j \in FreeSuffixes(d) : k <= j
    <3>1. FreeSuffixes(d) \in SUBSET Nat
      BY NoteVaultAssumption DEF FreeSuffixes
    <3>. QED  BY <1>1, <3>1, Least
  <2>2. i \in FreeSuffixes(d)
    BY <2>1
  <2>. HIDE DEF i
  <2>3. i \in 1..MaxSuffix /\ notes[<<Stem(d), i>>] = Absent
    BY <2>2 DEF FreeSuffixes
  <2>4. Resolve(d) = <<Stem(d), i>>
    BY <1>1 DEF Resolve, i
  <2>5. <<Stem(d), i>> \in Paths
    BY <2>3, NoteVaultAssumption DEF Paths
  <2>. QED  BY <1>1, <2>3, <2>4, <2>5, NoteVaultAssumption DEF IsPathOf, LaidOut
<1>2. CASE d \notin Laid
  <2>1. Resolve(d) = Flat(d)
    BY <1>2 DEF Resolve, Flat
  <2>2. Flat(d) \in Paths
    BY NoteVaultAssumption DEF Flat, Paths
  <2>. QED  BY <1>2, <2>1, <2>2 DEF IsPathOf, LaidOut, Flat
<1>. QED  BY <1>1, <1>2

LEMMA FirstIsFound ==
  ASSUME NEW id, Found(id) # {}
  PROVE  FirstFound(id) \in Found(id)
<1>. DEFINE Ranks == {WalkRank(p) : p \in Found(id)}
<1>1. \A p \in Found(id) : WalkRank(p) \in Nat
  BY NoteVaultAssumption DEF Found, Paths, WalkRank
<1>2. Ranks \in SUBSET Nat /\ Ranks # {}
  BY <1>1
<1>3. PICK i \in Ranks : \A j \in Ranks : i <= j
  BY <1>2, Least
<1>4. \E p \in Found(id) : \A q \in Found(id) : WalkRank(p) <= WalkRank(q)
  BY <1>3
<1>. QED  BY <1>4 DEF FirstFound

-----------------------------------------------------------------------------
(* The tasks of the processes.                                                 *)

TaskShape ==
  task = [w \in Procs |-> task[w]] /\ \A w \in Procs : IsTask(task[w])
Alone(w) == \A v \in Procs \ {w} : task'[v] = task[v]

LEMMA DoTask ==
  ASSUME TaskShape, NEW w \in Procs, NEW t, IsTask(t), Do(w, t)
  PROVE  TaskShape' /\ task'[w] = t /\ Alone(w)
BY DEF TaskShape, Do, Alone

LEMMA GotoTask ==
  ASSUME TaskShape, NEW w \in Procs, NEW step, Goto(w, step)
  PROVE  /\ TaskShape' /\ Alone(w) /\ task'[w].pc = step
         /\ task'[w].path = task[w].path /\ task'[w].copy = task[w].copy
         /\ task'[w].doc = task[w].doc /\ task'[w].queue = task[w].queue
<1>1. task'[w] = [task[w] EXCEPT !.pc = step] /\ Alone(w) /\ task' = [v \in Procs |-> task'[v]]
  BY DEF TaskShape, Goto, Alone
<1>2. IsTask(task[w])
  BY DEF TaskShape
<1>3. IsTask(task'[w]) /\ task'[w].pc = step /\ task'[w].path = task[w].path
      /\ task'[w].copy = task[w].copy /\ task'[w].doc = task[w].doc
      /\ task'[w].queue = task[w].queue
  BY <1>1, <1>2 DEF IsTask, Fields
<1>. QED  BY <1>1, <1>3 DEF TaskShape, Alone

LEMMA IdleTask ==
  /\ IsTask(Idle) /\ Idle.pc = "idle"
  /\ \A r : IsTask(Rest(r)) /\ Rest(r).pc \in {"idle", "find"}
BY DEF IsTask, Fields, Idle, Rest

LEMMA SharedStays ==
  ASSUME Shape, NEW d \in Docs, Shared(d), UNCHANGED row
  PROVE  Shared(d)'
BY DEF Shared

-----------------------------------------------------------------------------
(* What a step does to the processes that do not take it.                      *)

LEMMA OthersHonest ==
  ASSUME NEW v \in Procs, Honest(v), task'[v] = task[v],
         raced \subseteq raced', backups \subseteq backups',
         \A p \in Paths : notes[p] # Absent => notes'[p] # Absent,
         \A e \in Docs : Shared(e) => Shared(e)',
         task[v].path \in Paths \ raced' =>
           /\ notes'[task[v].path] = notes[task[v].path]
           /\ \A e \in Docs : row'[e] = task[v].path => row[e] = task[v].path
  PROVE  Honest(v)'
<1>. DEFINE p == task[v].path
            d == task[v].doc
            c == task[v].copy
<1>1. ASSUME task[v].pc = "create"
      PROVE  d \in Docs /\ IsPathOf(p, d) /\ (LaidOut(p) /\ p \notin raced' => notes'[p] = Absent)
  BY <1>1 DEF Honest, At, IsPathOf
<1>2. ASSUME task[v].pc \in Reading
      PROVE  p \in Paths /\ c \in Note /\ notes'[p] # Absent /\ (p \notin raced' => notes'[p] = c)
  BY <1>2 DEF Honest
<1>3. ASSUME task[v].pc = "update"
      PROVE  d \in Docs /\ \A e \in Docs : row'[e] = p /\ p \notin raced' => e = d \/ Shared(e)'
  BY <1>2, <1>3 DEF Honest, At, Reading
<1>4. ASSUME task[v].pc = "fill"
      PROVE  /\ p \in Paths /\ c \in Note /\ notes'[p] # Absent
             /\ p \notin raced' => notes'[p] = Torn
             /\ \A e \in Docs : row'[e] = p /\ p \notin raced' => e = c.doc \/ Shared(e)'
  BY <1>4 DEF Honest, At
<1>5. ASSUME task[v].pc \in {"truncate", "fill"}, p \notin raced'
      PROVE  \E b \in backups' : b.path = p /\ b.note = c
  BY <1>5 DEF Honest
<1>6. IsPathOf(p, d)' <=> IsPathOf(p, d)
  BY DEF IsPathOf
<1>. QED  BY <1>1, <1>2, <1>3, <1>4, <1>5, <1>6 DEF Honest, At

(* A step that writes no note.                                                 *)
LEMMA QuietStep ==
  ASSUME VaultInv, NEW w \in Procs, TaskShape', Alone(w),
         UNCHANGED <<notes, row, edited, raced>>, backups \subseteq backups', Honest(w)'
  PROVE  VaultInv'
<1>1. Shape'
  BY DEF VaultInv, Shape, TaskShape, IsTask, IsPathOf, Flat, LaidOut
<1>2. \A v \in Procs \ {w} : Honest(v)'
  BY OthersHonest DEF VaultInv, Alone, Shared
<1>3. RowIsItsNote'
  BY DEF VaultInv, RowIsItsNote, Readable
<1>4. EditsAreKept'
  BY DEF VaultInv, EditsAreKept, Readable
<1>. QED  BY <1>1, <1>2, <1>3, <1>4 DEF VaultInv

LEMMA PutFacts ==
  ASSUME Shape, NEW p \in Paths, NEW n, NEW w, Put(p, n, w)
  PROVE  /\ notes' = [notes EXCEPT ![p] = n]
         /\ notes'[p] = n /\ \A q \in Paths \ {p} : notes'[q] = notes[q]
         /\ raced \subseteq raced' /\ raced' \subseteq raced \cup {p}
         /\ \A v \in Procs \ {w} : task[v].path = p => p \in raced'
BY DEF Put, Shape

(* A step that writes a note which is there.                                   *)
LEMMA WritingStep ==
  ASSUME VaultInv, NEW w, NEW p \in Paths, NEW n \in Note \cup {Torn},
         Put(p, n, w), TaskShape', Alone(w), UNCHANGED <<row, backups>>,
         edited \subseteq edited', edited' \subseteq edited \cup {p},
         notes[p] # Absent,
         \A d \in Docs : row[d] = p /\ p \notin raced' => n = Torn \/ n.doc = d \/ Shared(d),
         p \in edited' \ raced' /\ LaidOut(p) =>
           \/ n # Torn /\ n.mine
           \/ \E b \in backups : b.path = p /\ b.note # Torn /\ b.note.mine,
         w \in Procs => Honest(w)'
  PROVE  VaultInv'
<1>1. /\ notes' = [notes EXCEPT ![p] = n]
      /\ notes'[p] = n /\ \A q \in Paths \ {p} : notes'[q] = notes[q]
      /\ raced \subseteq raced' /\ raced' \subseteq raced \cup {p}
      /\ \A v \in Procs \ {w} : task[v].path = p => p \in raced'
  BY PutFacts DEF VaultInv
<1>2. n # Absent
  BY Distinct
<1>3. \A q \in Paths : notes[q] # Absent => notes'[q] # Absent
  BY <1>1, <1>2
<1>4. Shape'
  <2>1. notes' \in [Paths -> Note \cup {Absent, Torn}]
    BY <1>1 DEF VaultInv, Shape
  <2>2. \A d \in Docs : row'[d] # NoPath => IsPathOf(row[d], d) /\ notes'[row[d]] # Absent
    BY <1>3 DEF VaultInv, Shape, IsPathOf
  <2>3. \A q \in edited' : q \in Paths /\ notes'[q] # Absent
    BY <1>1, <1>2, <1>3 DEF VaultInv, Shape
  <2>. QED
    BY <2>1, <2>2, <2>3 DEF VaultInv, Shape, TaskShape, IsTask, IsPathOf, Flat, LaidOut
<1>5. ASSUME NEW v \in Procs \ {w} PROVE Honest(v)'
  <2>1. task[v].path \in Paths \ raced' => notes'[task[v].path] = notes[task[v].path]
    BY <1>1
  <2>. QED  BY <1>1, <1>3, <2>1, OthersHonest DEF VaultInv, Alone, Shared
<1>6. RowIsItsNote'
  <2>. SUFFICES ASSUME NEW d \in Docs, row[d] \notin raced' \cup {NoPath}
                PROVE  \/ notes'[row[d]] = Torn
                       \/ notes'[row[d]] \notin {Absent, Torn} /\ notes'[row[d]].doc = d
                       \/ Shared(d)
    BY DEF RowIsItsNote, Readable, Shared
  <2>1. row[d] \in Paths
    BY DEF VaultInv, Shape, IsPathOf
  <2>2. CASE row[d] = p
    BY <1>1, <1>2, <2>2
  <2>3. CASE row[d] # p
    BY <1>1, <2>1, <2>3 DEF VaultInv, RowIsItsNote, Readable, Shared
  <2>. QED  BY <2>2, <2>3
<1>7. EditsAreKept'
  <2>. SUFFICES ASSUME NEW q \in edited' \ raced', LaidOut(q)
                PROVE  \/ notes'[q] \notin {Absent, Torn} /\ notes'[q].mine
                       \/ \E b \in backups : b.path = q /\ b.note # Torn /\ b.note.mine
    BY DEF EditsAreKept, Readable, LaidOut
  <2>1. CASE q = p
    BY <1>1, <1>2, <2>1
  <2>2. CASE q # p
    <3>1. q \in edited \ raced /\ q \in Paths
      BY <1>1, <2>2 DEF VaultInv, Shape
    <3>. QED  BY <1>1, <2>2, <3>1 DEF VaultInv, EditsAreKept, Readable, LaidOut
  <2>. QED  BY <2>1, <2>2
<1>. QED  BY <1>4, <1>5, <1>6, <1>7 DEF VaultInv

-----------------------------------------------------------------------------
(* The steps.                                                                  *)

LEMMA InitVault == Init => VaultInv
<1>. SUFFICES ASSUME Init PROVE VaultInv
  OBVIOUS
<1>1. Shape
  BY IdleTask DEF Init, Shape
<1>2. \A w \in Procs : Honest(w)
  BY DEF Init, Honest, At, Reading, Idle
<1>. QED  BY <1>1, <1>2 DEF Init, VaultInv, RowIsItsNote, EditsAreKept

LEMMA AtHand ==
  ASSUME VaultInv, NEW w \in Procs
  PROVE  TaskShape /\ Honest(w) /\ Shape
BY DEF VaultInv, Shape, TaskShape, IsTask

LEMMA RestHonest ==
  ASSUME NEW w \in Procs, task'[w].pc \in {"idle", "find"}
  PROVE  Honest(w)'
BY DEF Honest, At, Reading

LEMMA StepWriteNote ==
  ASSUME VaultInv, NEW w \in Procs, NEW d \in Docs, WriteNote(w, d)
  PROVE  VaultInv'
<1>. DEFINE t == [Idle EXCEPT !.pc = "create", !.doc = d, !.path = Resolve(d)]
<1>1. IsTask(t) /\ t.pc = "create" /\ t.doc = d /\ t.path = Resolve(d)
  <2>1. IsTask(Idle)
    BY IdleTask
  <2>. QED  BY <2>1 DEF IsTask, Fields
<1>. HIDE DEF t
<1>2. Do(w, t)
  BY DEF WriteNote, t
<1>3. TaskShape' /\ task'[w] = t /\ Alone(w)
  BY <1>1, <1>2, AtHand, DoTask
<1>4. IsPathOf(Resolve(d), d) /\ (d \in Laid => notes[Resolve(d)] = Absent)
  BY ResolveIsFree DEF WriteNote
<1>5. UNCHANGED <<notes, row, backups, edited, raced>>
  BY DEF WriteNote
<1>6. Honest(w)'
  <2>1. IsPathOf(Resolve(d), d)'
    BY <1>1, <1>3, <1>4, <1>5 DEF IsPathOf, Resolve, FreeSuffixes
  <2>2. Resolve(d)' = Resolve(d)
    BY <1>5 DEF Resolve, FreeSuffixes
  <2>. QED
    BY <1>1, <1>3, <1>4, <1>5, <2>1, <2>2 DEF Honest, At, Reading, IsPathOf
<1>. QED  BY <1>3, <1>5, <1>6, QuietStep

LEMMA StepCreate ==
  ASSUME VaultInv, NEW w \in Procs, Create(w)
  PROVE  VaultInv'
<1>. DEFINE p == task[w].path
            x == task[w].doc
<1>1. /\ x \in Docs /\ IsPathOf(p, x) /\ p \in Paths
      /\ LaidOut(p) /\ p \notin raced => notes[p] = Absent
  BY AtHand DEF Create, At, Honest, IsPathOf
<1>2. Put(p, Fresh(x), w) /\ row' = [row EXCEPT ![x] = p] /\ Do(w, Idle)
      /\ UNCHANGED <<backups, edited>>
  BY DEF Create
<1>. HIDE DEF p, x
<1>3. TaskShape' /\ task'[w].pc = "idle" /\ Alone(w)
  BY <1>2, AtHand, DoTask, IdleTask
<1>4. /\ notes' = [notes EXCEPT ![p] = Fresh(x)]
      /\ notes'[p] = Fresh(x) /\ \A q \in Paths \ {p} : notes'[q] = notes[q]
      /\ raced \subseteq raced' /\ raced' \subseteq raced \cup {p}
      /\ \A v \in Procs \ {w} : task[v].path = p => p \in raced'
  BY <1>1, <1>2, AtHand, PutFacts
<1>5. Fresh(x) \in Note /\ Fresh(x).doc = x /\ Fresh(x) \notin {Absent, Torn}
  BY <1>1, Distinct
<1>6. /\ row'[x] = p /\ \A d \in Docs \ {x} : row'[d] = row[d]
      /\ DOMAIN row' = Docs /\ row' = [d \in Docs |-> row'[d]]
  BY <1>1, <1>2 DEF VaultInv, Shape
<1>7. \A q \in Paths : notes[q] # Absent => notes'[q] # Absent
  BY <1>4, <1>5
<1>8. Shape'
  <2>1. notes' \in [Paths -> Note \cup {Absent, Torn}]
    BY <1>1, <1>4, <1>5 DEF VaultInv, Shape
  <2>2. ASSUME NEW d \in Docs, row'[d] # NoPath
        PROVE  IsPathOf(row'[d], d) /\ notes'[row'[d]] # Absent
    BY <1>1, <1>4, <1>5, <1>6, <1>7, <2>2 DEF VaultInv, Shape, IsPathOf
  <2>3. \A q \in edited' : q \in Paths /\ notes'[q] # Absent
    BY <1>2, <1>7 DEF VaultInv, Shape
  <2>. QED
    BY <1>3, <1>6, <2>1, <2>2, <2>3 DEF Shape, TaskShape, IsTask, IsPathOf, Flat, LaidOut
(* A flat path stays with its documents; a laid out one is taken once.         *)
<1>9. ASSUME NEW d \in Docs, Shared(d) PROVE Shared(d)'
  <2>1. PICK e \in Docs \ {d} : row[e] = row[d] /\ d \notin Laid /\ row[d] # NoPath
    BY <1>9 DEF Shared
  <2>2. IsPathOf(row[d], d) /\ IsPathOf(row[d], e)
    BY <2>1 DEF VaultInv, Shape
  <2>3. row[d] = Flat(d) /\ row[d] = Flat(e) /\ e \notin Laid
    BY <2>1, <2>2 DEF IsPathOf
  <2>4. x \in {d, e} => p = row[d]
    BY <1>1, <2>1, <2>3 DEF IsPathOf
  <2>5. row'[d] = row[d] /\ row'[e] = row[d]
    BY <1>6, <2>1, <2>4
  <2>. QED  BY <2>1, <2>5 DEF Shared
<1>10. ASSUME NEW v \in Procs \ {w} PROVE Honest(v)'
  <2>1. task[v].path \in Paths \ raced' => task[v].path # p
    BY <1>4
  <2>2. task[v].path \in Paths \ raced' =>
          /\ notes'[task[v].path] = notes[task[v].path]
          /\ \A e \in Docs : row'[e] = task[v].path => row[e] = task[v].path
    BY <1>4, <1>6, <2>1
  <2>. QED  BY <1>2, <1>3, <1>4, <1>7, <1>9, <2>2, OthersHonest DEF VaultInv, Alone
<1>11. RowIsItsNote'
  <2>. SUFFICES ASSUME NEW d \in Docs, row'[d] \notin raced' \cup {NoPath}
                PROVE  \/ notes'[row'[d]] = Torn
                       \/ notes'[row'[d]] \notin {Absent, Torn} /\ notes'[row'[d]].doc = d
                       \/ Shared(d)'
    BY DEF RowIsItsNote, Readable, Shared
  <2>1. CASE d = x
    BY <1>4, <1>5, <1>6, <2>1
  <2>2. CASE d # x /\ row'[d] # p
    <3>1. row'[d] = row[d] /\ row[d] \in Paths /\ row[d] \notin raced
      BY <1>4, <1>6, <2>2 DEF VaultInv, Shape, IsPathOf
    <3>2. \/ notes[row[d]] = Torn
          \/ notes[row[d]] \notin {Absent, Torn} /\ notes[row[d]].doc = d
          \/ Shared(d)
      BY <3>1 DEF VaultInv, RowIsItsNote, Readable, Shared
    <3>. QED  BY <1>4, <1>9, <2>2, <3>1, <3>2
  <2>3. CASE d # x /\ row'[d] = p
    <3>1. row[d] = p /\ IsPathOf(p, d) /\ notes[p] # Absent /\ p \notin raced
      BY <1>4, <1>6, <2>3 DEF VaultInv, Shape
    <3>2. d \notin Laid
      BY <1>1, <3>1 DEF IsPathOf
    <3>. QED  BY <1>1, <1>6, <2>3, <3>2, Distinct DEF Shared
  <2>. QED  BY <2>1, <2>2, <2>3
<1>12. EditsAreKept'
  <2>. SUFFICES ASSUME NEW q \in edited \ raced', LaidOut(q)
                PROVE  \/ notes'[q] \notin {Absent, Torn} /\ notes'[q].mine
                       \/ \E b \in backups : b.path = q /\ b.note # Torn /\ b.note.mine
    BY <1>2 DEF EditsAreKept, Readable, LaidOut
  <2>1. q \in Paths /\ notes[q] # Absent /\ q \notin raced
    BY <1>4 DEF VaultInv, Shape
  <2>2. q # p
    BY <1>1, <2>1
  <2>. QED  BY <1>4, <2>1, <2>2 DEF VaultInv, EditsAreKept, Readable, LaidOut
<1>13. Honest(w)'
  BY <1>3, RestHonest
<1>. QED  BY <1>8, <1>10, <1>11, <1>12, <1>13 DEF VaultInv

LEMMA StepReadNote ==
  ASSUME VaultInv, NEW w \in Procs, NEW d \in Docs, NEW call \in {"update", "sidecar"},
         ReadNote(w, d, call)
  PROVE  VaultInv'
<1>. DEFINE t == [Idle EXCEPT !.pc = call, !.doc = d, !.path = row[d], !.copy = notes[row[d]]]
<1>1. IsTask(t) /\ t.pc = call /\ t.doc = d /\ t.path = row[d] /\ t.copy = notes[row[d]]
  <2>1. IsTask(Idle)
    BY IdleTask
  <2>. QED  BY <2>1 DEF IsTask, Fields
<1>. HIDE DEF t
<1>2. Do(w, t) /\ UNCHANGED <<notes, row, backups, edited, raced>>
  BY DEF ReadNote, t
<1>3. TaskShape' /\ task'[w] = t /\ Alone(w)
  BY <1>1, <1>2, AtHand, DoTask
<1>4. IsPathOf(row[d], d) /\ row[d] \in Paths /\ notes[row[d]] \in Note /\ notes[row[d]] # Absent
  BY DEF ReadNote, Readable, VaultInv, Shape, IsPathOf
<1>5. ASSUME NEW e \in Docs, row[e] = row[d], e # d PROVE Shared(e) \/ e \in Laid
  BY <1>4, <1>5, Distinct DEF Shared
(* Two laid out rows of one path: one of them has been raced.                  *)
<1>6. ASSUME NEW e \in Docs, row[e] = row[d], e # d, row[d] \notin raced PROVE Shared(e)
  <2>1. ~ Shared(d) => notes[row[d]].doc = d
    BY <1>4, <1>6, Distinct DEF VaultInv, RowIsItsNote, Readable, Shared
  <2>2. ~ Shared(e) => notes[row[d]].doc = e
    BY <1>4, <1>6, Distinct DEF VaultInv, RowIsItsNote, Readable, Shared
  <2>3. Shared(d) => Shared(e)
    BY <1>4, <1>6 DEF Shared, VaultInv, Shape, IsPathOf
  <2>. QED  BY <1>6, <2>1, <2>2, <2>3
<1>7. Honest(w)'
  BY <1>1, <1>2, <1>3, <1>4, <1>6 DEF Honest, At, Reading, Shared
<1>. QED  BY <1>2, <1>3, <1>7, QuietStep

LEMMA StepUpdateNote ==
  ASSUME VaultInv, NEW w \in Procs, UpdateNote(w) \/ UpdateNoteSidecar(w)
  PROVE  VaultInv'
<1>. DEFINE p == task[w].path
            d == task[w].doc
            c == task[w].copy
            n == IF UpdateNote(w) THEN Updated(c, d) ELSE [c EXCEPT !.sidecar = TRUE]
<1>1. /\ p \in Paths /\ c \in Note /\ notes[p] # Absent /\ (p \notin raced => notes[p] = c)
      /\ UpdateNote(w) =>
           d \in Docs /\ \A e \in Docs : row[e] = p /\ p \notin raced => e = d \/ Shared(e)
  BY AtHand DEF UpdateNote, UpdateNoteSidecar, At, Honest, Reading
<1>2. /\ n \in Note /\ n.mine = c.mine
      /\ UpdateNote(w) => n.doc = d
      /\ ~ UpdateNote(w) => n.doc = c.doc
  BY <1>1 DEF Updated, Note
<1>3. Put(p, n, w) /\ Do(w, Idle) /\ UNCHANGED <<row, backups, edited>>
  BY DEF UpdateNote, UpdateNoteSidecar
<1>. HIDE DEF p, d, c, n
<1>4. TaskShape' /\ task'[w].pc = "idle" /\ Alone(w)
  BY <1>3, AtHand, DoTask, IdleTask
<1>5. raced \subseteq raced'
  BY <1>1, <1>3, AtHand, PutFacts
<1>6. c # Torn /\ c # Absent
  BY <1>1, Distinct
<1>7. ASSUME NEW e \in Docs, row[e] = p, p \notin raced' PROVE n.doc = e \/ Shared(e)
  <2>1. CASE UpdateNote(w)
    BY <1>1, <1>2, <1>5, <1>7, <2>1
  <2>2. CASE ~ UpdateNote(w)
    <3>1. notes[p] = c /\ n.doc = c.doc /\ row[e] \notin raced \cup {NoPath}
      BY <1>1, <1>2, <1>5, <1>7, <2>2, Distinct
    <3>2. notes[row[e]].doc = e \/ Shared(e)
      BY <1>6, <1>7, <3>1 DEF VaultInv, RowIsItsNote, Readable, Shared
    <3>. QED  BY <1>7, <3>1, <3>2
  <2>. QED  BY <2>1, <2>2
<1>8. ASSUME p \in edited \ raced', LaidOut(p)
      PROVE  \/ n # Torn /\ n.mine
             \/ \E b \in backups : b.path = p /\ b.note # Torn /\ b.note.mine
  <2>1. notes[p] = c /\ p \notin raced
    BY <1>1, <1>5, <1>8
  <2>2. c.mine \/ \E b \in backups : b.path = p /\ b.note # Torn /\ b.note.mine
    BY <1>8, <2>1 DEF VaultInv, EditsAreKept, Readable, LaidOut
  <2>. QED  BY <1>2, <2>2, Distinct
<1>9. Honest(w)'
  BY <1>4, RestHonest
<1>. QED  BY <1>1, <1>2, <1>3, <1>4, <1>7, <1>8, <1>9, WritingStep

LEMMA StepRest ==
  ASSUME VaultInv, NEW w \in Procs, NEW t, IsTask(t), t.pc \in {"idle", "find"}, Do(w, t),
         UNCHANGED <<notes, row, edited, raced, backups>>
  PROVE  VaultInv'
<1>1. TaskShape' /\ task'[w] = t /\ Alone(w)
  BY AtHand, DoTask
<1>2. Honest(w)'
  BY <1>1, RestHonest
<1>. QED  BY <1>1, <1>2, QuietStep

LEMMA StepApply ==
  ASSUME VaultInv, NEW r \in Procs, NEW ids, ApplyCorrections(r, ids)
  PROVE  VaultInv'
<1>. DEFINE t == [Idle EXCEPT !.pc = "find", !.queue = ids]
<1>1. IsTask(t) /\ t.pc = "find"
  <2>1. IsTask(Idle)
    BY IdleTask
  <2>. QED  BY <2>1 DEF IsTask, Fields
<1>. HIDE DEF t
<1>2. Do(r, t) /\ UNCHANGED <<notes, row, edited, raced, backups>>
  BY DEF ApplyCorrections, t
<1>. QED  BY <1>1, <1>2, StepRest

LEMMA StepFind ==
  ASSUME VaultInv, NEW r \in Procs, Find(r) \/ NotFound(r) \/ Fault(r)
  PROVE  VaultInv'
<1>1. UNCHANGED <<notes, row, edited, raced, backups>>
  BY DEF Find, NotFound, Fault
<1>2. CASE Do(r, Idle) \/ Do(r, Rest(r))
  BY <1>1, <1>2, IdleTask, StepRest
<1>3. CASE Find(r) /\ ~ Do(r, Rest(r))
  <2>. DEFINE id == Head(task[r].queue)
              p == FirstFound(id)
              t == [task[r] EXCEPT !.pc = "backup", !.doc = id, !.path = p, !.copy = notes[p]]
  <2>1. Do(r, t)
    BY <1>3 DEF Find
  <2>2. p \in Found(id)
    BY <1>3, FirstIsFound DEF Find
  <2>3. p \in Paths /\ notes[p] \in Note /\ notes[p] # Absent
    BY <2>2 DEF Found, Readable, VaultInv, Shape
  <2>4. IsTask(task[r])
    BY DEF VaultInv, Shape
  <2>. HIDE DEF id, p
  <2>5. IsTask(t) /\ t.pc = "backup" /\ t.path = p /\ t.copy = notes[p]
    BY <2>4 DEF IsTask, Fields
  <2>. HIDE DEF t
  <2>6. TaskShape' /\ task'[r] = t /\ Alone(r)
    BY <2>1, <2>5, AtHand, DoTask
  <2>7. Honest(r)'
    BY <1>1, <2>3, <2>5, <2>6 DEF Honest, At, Reading
  <2>. QED  BY <1>1, <2>6, <2>7, QuietStep
<1>. QED  BY <1>2, <1>3 DEF Find, NotFound, Fault

LEMMA StepBackup ==
  ASSUME VaultInv, NEW r \in Procs, BackupNote(r)
  PROVE  VaultInv'
<1>. DEFINE p == task[r].path
            c == task[r].copy
<1>1. p \in Paths /\ c \in Note /\ notes[p] # Absent /\ (p \notin raced => notes[p] = c)
  BY AtHand DEF BackupNote, At, Honest, Reading
<1>2. /\ backups' = backups \cup {[path |-> p, note |-> notes[p]]}
      /\ Goto(r, "truncate") /\ UNCHANGED <<notes, row, edited, raced>>
  BY DEF BackupNote
<1>. HIDE DEF p, c
<1>3. /\ TaskShape' /\ Alone(r) /\ task'[r].pc = "truncate"
      /\ task'[r].path = p /\ task'[r].copy = c
  BY <1>2, AtHand, GotoTask DEF p, c
<1>4. p \notin raced => \E b \in backups' : b.path = p /\ b.note = c
  <2>. DEFINE b == [path |-> p, note |-> notes[p]]
  <2>1. b \in backups' /\ b.path = p /\ b.note = notes[p]
    BY <1>2
  <2>. QED  BY <1>1, <2>1
<1>5. Honest(r)'
  BY <1>1, <1>2, <1>3, <1>4 DEF Honest, At, Reading
<1>. QED  BY <1>2, <1>3, <1>5, QuietStep

LEMMA StepTruncate ==
  ASSUME VaultInv, NEW r \in Procs, Truncate(r)
  PROVE  VaultInv'
<1>. DEFINE p == task[r].path
            c == task[r].copy
<1>1. /\ p \in Paths /\ c \in Note /\ notes[p] # Absent /\ (p \notin raced => notes[p] = c)
      /\ p \notin raced => \E b \in backups : b.path = p /\ b.note = c
  BY AtHand DEF Truncate, At, Honest, Reading
<1>2. Put(p, Torn, r) /\ Goto(r, "fill") /\ UNCHANGED <<row, backups, edited>>
  BY DEF Truncate
<1>. HIDE DEF p, c
<1>3. /\ TaskShape' /\ Alone(r) /\ task'[r].pc = "fill"
      /\ task'[r].path = p /\ task'[r].copy = c
  BY <1>2, AtHand, GotoTask DEF p, c
<1>4. notes'[p] = Torn /\ raced \subseteq raced'
  BY <1>1, <1>2, AtHand, PutFacts
<1>5. c # Torn /\ c # Absent
  BY <1>1, Distinct
<1>6. ASSUME NEW e \in Docs, row[e] = p, p \notin raced PROVE e = c.doc \/ Shared(e)
  BY <1>1, <1>5, <1>6, Distinct DEF VaultInv, RowIsItsNote, Readable, Shared
<1>7. Honest(r)'
  BY <1>1, <1>2, <1>3, <1>4, <1>6, Distinct DEF Honest, At, Reading, Shared
<1>8. ASSUME p \in edited \ raced', LaidOut(p)
      PROVE  \E b \in backups : b.path = p /\ b.note # Torn /\ b.note.mine
  <2>1. p \notin raced /\ notes[p] = c
    BY <1>1, <1>4, <1>8
  <2>2. c.mine \/ \E b \in backups : b.path = p /\ b.note # Torn /\ b.note.mine
    BY <1>8, <2>1 DEF VaultInv, EditsAreKept, Readable, LaidOut
  <2>. QED  BY <1>1, <1>5, <2>1, <2>2
<1>. QED  BY <1>1, <1>2, <1>3, <1>7, <1>8, WritingStep

LEMMA StepFill ==
  ASSUME VaultInv, NEW r \in Procs, Fill(r)
  PROVE  VaultInv'
<1>. DEFINE p == task[r].path
            c == task[r].copy
            n == Corrected(c)
<1>1. /\ p \in Paths /\ c \in Note /\ notes[p] # Absent /\ (p \notin raced => notes[p] = Torn)
      /\ \A e \in Docs : row[e] = p /\ p \notin raced => e = c.doc \/ Shared(e)
      /\ p \notin raced => \E b \in backups : b.path = p /\ b.note = c
  BY AtHand DEF Fill, At, Honest
<1>2. n \in Note /\ n.mine = c.mine /\ n.doc = c.doc
  BY <1>1 DEF Corrected, Note
<1>3. Put(p, n, r) /\ Do(r, Rest(r)) /\ UNCHANGED <<row, backups, edited>>
  BY DEF Fill
<1>. HIDE DEF p, c, n
<1>4. TaskShape' /\ task'[r] = Rest(r) /\ Alone(r)
  BY <1>3, AtHand, DoTask, IdleTask
<1>5. Honest(r)'
  <2>1. Rest(r).pc \in {"idle", "find"}
    BY IdleTask
  <2>. QED  BY <1>4, <2>1, RestHonest
<1>6. notes'[p] = n /\ raced \subseteq raced'
  BY <1>1, <1>3, AtHand, PutFacts
<1>7. ASSUME p \in edited \ raced', LaidOut(p)
      PROVE  \/ n # Torn /\ n.mine
             \/ \E b \in backups : b.path = p /\ b.note # Torn /\ b.note.mine
  <2>1. (notes[p] \notin {Absent, Torn} /\ notes[p].mine)
          \/ \E b \in backups : b.path = p /\ b.note # Torn /\ b.note.mine
    BY <1>6, <1>7 DEF VaultInv, EditsAreKept, Readable, LaidOut
  <2>. QED  BY <1>1, <1>2, <1>6, <1>7, <2>1, Distinct
<1>. QED  BY <1>1, <1>2, <1>3, <1>4, <1>5, <1>6, <1>7, WritingStep

LEMMA StepEdit ==
  ASSUME VaultInv, NEW p \in Paths, Edit(p)
  PROVE  VaultInv'
<1>. DEFINE n == [notes[p] EXCEPT !.mine = TRUE]
<1>1. notes[p] \in Note /\ notes[p] # Absent /\ notes[p] # Torn
  BY DEF Edit, Readable, VaultInv, Shape
<1>2. n \in Note /\ n.mine /\ n.doc = notes[p].doc
  BY <1>1 DEF Note
<1>3. Put(p, n, "user") /\ edited' = edited \cup {p} /\ UNCHANGED <<row, task, backups>>
  BY DEF Edit
<1>. HIDE DEF n
<1>4. TaskShape' /\ Alone("user")
  BY <1>3, AtHand DEF TaskShape, Alone, VaultInv, Shape
<1>5. raced \subseteq raced'
  BY <1>3, PutFacts DEF VaultInv
<1>6. ASSUME NEW d \in Docs, row[d] = p, p \notin raced' PROVE n.doc = d \/ Shared(d)
  BY <1>1, <1>2, <1>5, <1>6, Distinct DEF VaultInv, RowIsItsNote, Readable, Shared
<1>7. "user" \notin Procs
  BY NoteVaultAssumption DEF Procs
<1>. QED  BY <1>1, <1>2, <1>3, <1>4, <1>6, <1>7, Distinct, WritingStep

LEMMA NextVault == ASSUME VaultInv, [Next]_vars PROVE VaultInv'
<1>1. ASSUME NEW w \in Writers, Write(w) PROVE VaultInv'
  <2>1. w \in Procs
    BY DEF Procs
  <2>. QED
    BY <1>1, <2>1, StepWriteNote, StepCreate, StepReadNote, StepUpdateNote DEF Write
<1>2. ASSUME NEW r \in Reviewers, Review(r) PROVE VaultInv'
  <2>1. r \in Procs
    BY DEF Procs
  <2>. QED
    BY <1>2, <2>1, StepApply, StepFind, StepBackup, StepTruncate, StepFill DEF Review
<1>3. ASSUME UNCHANGED vars PROVE VaultInv'
  BY <1>3
  DEF vars, VaultInv, Shape, Honest, At, IsPathOf, Flat, LaidOut, IsTask, RowIsItsNote,
      EditsAreKept, Readable, Shared
<1>. QED  BY <1>1, <1>2, <1>3, StepFind, StepEdit DEF Next

LEMMA VaultInvariant == Spec => []VaultInv
BY InitVault, NextVault, PTL DEF Spec

(* For any documents, base names, processes and faults: the row of a document  *)
(* leads to its note, to one a command has left torn, or into a race.          *)
THEOREM RowsLeadToNotes == Spec => []RowIsItsNote
<1>1. VaultInv => RowIsItsNote
  BY DEF VaultInv
<1>. QED  BY <1>1, VaultInvariant, PTL

(* What the user has added to a laid out note survives every reprocessing,     *)
(* correction, error and crash, unless two processes wrote from one text.      *)
THEOREM UserEditsAreKept == Spec => []EditsAreKept
<1>1. VaultInv => EditsAreKept
  BY DEF VaultInv
<1>. QED  BY <1>1, VaultInvariant, PTL

-----------------------------------------------------------------------------
(* Types.                                                                      *)

Steps == {"idle", "create", "update", "sidecar", "find", "backup", "truncate", "fill"}
Correcting == {"find", "backup", "truncate", "fill"}

(* A command that corrects has IDs left, and no one else has any.              *)
QueueKnown(t) ==
  /\ t.pc \in Steps /\ (t.pc \in Correcting <=> t.queue # <<>>)
  /\ t.queue \in Seq(Laid)

Backed == backups \subseteq [path : Paths, note : Note \cup {Torn}]

TypeInv ==
  /\ \A w \in Procs : QueueKnown(task[w])
  /\ Backed /\ raced \subseteq Paths
  /\ calls \in 0..MaxCalls /\ edits \in 0..MaxEdits /\ faults \in 0..MaxFaults

LEMMA PathsAreFinite == IsFiniteSet(Paths)
<1>. DEFINE P == Docs \X (0..MaxSuffix)
            f == [x \in P |-> <<Stem(x[1]), x[2]>>]
            Image == {f[x] : x \in P}
<1>1. 0 \in Int /\ MaxSuffix \in Int
  BY NoteVaultAssumption
<1>2. IsFiniteSet(P)
  BY <1>1, NoteVaultAssumption, FS_Interval, FS_Product
<1>3. f \in Surjection(P, Image)
  BY DEF Surjection
<1>4. IsFiniteSet(Image)
  BY <1>2, <1>3, FS_Surjection
<1>5. Paths \subseteq Image
  <2>1. ASSUME NEW d \in Docs, NEW i \in 0..MaxSuffix PROVE <<Stem(d), i>> \in Image
    <3>1. <<d, i>> \in P /\ f[<<d, i>>] = <<Stem(d), i>>
      OBVIOUS
    <3>. QED  BY <3>1
  <2>. QED  BY <2>1 DEF Paths
<1>. QED  BY <1>4, <1>5, FS_Subset

LEMMA BulkTypes == \A ids \in BulkIds : ids \in Seq(Laid)
<1>. DEFINE found == {p \in Paths : Readable(p) /\ notes[p].doc \in Laid}
<1>1. Cardinality(found) \in Nat
  BY PathsAreFinite, FS_Subset, FS_CardinalityType
<1>2. \A ids \in BulkIds : ids \in [1..Cardinality(found) -> Laid]
  BY DEF BulkIds
<1>. HIDE DEF found
<1>. QED  BY <1>1, <1>2

LEMMA RestQueue ==
  ASSUME NEW r \in Procs, QueueKnown(task[r]), task[r].queue # <<>>
  PROVE  QueueKnown(Rest(r))
<1>. DEFINE q == task[r].queue
<1>1. q \in Seq(Laid) /\ q # <<>> /\ Len(q) \in Nat
  BY LenProperties DEF QueueKnown
<1>. HIDE DEF q
<1>2. Tail(q) \in Seq(Laid) /\ Len(Tail(q)) = Len(q) - 1
  BY <1>1, HeadTailProperties
<1>3. Len(q) # 1 => Tail(q) # <<>>
  <2>1. Len(q) # 0
    BY <1>1, EmptySeq
  <2>2. Len(<<>>) = 0
    BY EmptySeq
  <2>3. Len(q) # 1 => Len(Tail(q)) # 0
    BY <1>1, <1>2, <2>1
  <2>. QED  BY <2>2, <2>3
<1>. DEFINE t == [Idle EXCEPT !.pc = "find", !.queue = Tail(q)]
<1>4. t.pc = "find" /\ t.queue = Tail(q)
  BY DEF Idle
<1>5. Idle.pc = "idle" /\ Idle.queue = <<>> /\ <<>> \in Seq(Laid)
  BY DEF Idle
<1>6. QueueKnown(Idle)
  BY <1>5 DEF QueueKnown, Steps, Correcting
<1>7. CASE Len(q) = 1
  BY <1>6, <1>7 DEF Rest, q
<1>8. CASE Len(q) # 1
  <2>1. Rest(r) = t
    BY <1>8 DEF Rest, q
  <2>. HIDE DEF t
  <2>2. QueueKnown(t)
    BY <1>2, <1>3, <1>4, <1>8 DEF QueueKnown, Steps, Correcting
  <2>. QED  BY <2>1, <2>2
<1>. QED  BY <1>7, <1>8

LEMMA IdleQueue == QueueKnown(Idle)
BY DEF QueueKnown, Steps, Correcting, Idle

(* A counter that a step leaves alone or counts up to its bound.           *)
LEMMA Counted ==
  ASSUME NEW Bound \in Nat, NEW n \in 0..Bound, NEW m, m = n \/ (n < Bound /\ m = n + 1)
  PROVE  m \in 0..Bound
OBVIOUS

LEMMA WriterTypes ==
  ASSUME VaultInv, TypeInv, NEW w \in Procs, Write(w)
  PROVE  TypeInv'
<1>1. /\ edits' = edits /\ faults' = faults /\ backups' = backups
      /\ calls' = calls \/ Call
  <2>1. ASSUME NEW d \in Docs, WriteNote(w, d)
        PROVE  /\ edits' = edits /\ faults' = faults /\ backups' = backups
               /\ Call
    BY <2>1, Zenon DEF WriteNote
  <2>2. ASSUME NEW d \in Docs, NEW c, ReadNote(w, d, c)
        PROVE  /\ edits' = edits /\ faults' = faults /\ backups' = backups
               /\ Call
    BY <2>2, Zenon DEF ReadNote
  <2>3. ASSUME Create(w) \/ UpdateNote(w) \/ UpdateNoteSidecar(w)
        PROVE  /\ edits' = edits /\ faults' = faults /\ backups' = backups /\ calls' = calls
    BY <2>3, Zenon DEF Create, UpdateNote, UpdateNoteSidecar
  <2>. QED  BY <2>1, <2>2, <2>3, Zenon DEF Write
<1>0. calls' \in 0..MaxCalls
  <2>1. calls \in 0..MaxCalls /\ MaxCalls \in Nat
    BY NoteVaultAssumption DEF TypeInv
  <2>2. calls' = calls \/ (calls < MaxCalls /\ calls' = calls + 1)
    BY <1>1 DEF Call
  <2>. QED  BY <2>1, <2>2, Counted
<1>2. raced' \subseteq Paths
  <2>1. task[w].pc \in {"create", "update", "sidecar"} => task[w].path \in Paths
    <3>1. Honest(w)
      BY AtHand
    <3>2. At(w, "create") \/ task[w].pc \in Reading => task[w].path \in Paths
      BY <3>1, Zenon DEF Honest, IsPathOf
    <3>. QED  BY <3>2 DEF At, Reading
  <2>2. raced \subseteq Paths
    BY DEF TypeInv
  <2>3. UNCHANGED raced \/ Create(w) \/ UpdateNote(w) \/ UpdateNoteSidecar(w)
    <3>1. ASSUME NEW d \in Docs, WriteNote(w, d) PROVE UNCHANGED raced
      BY <3>1, Zenon DEF WriteNote
    <3>2. ASSUME NEW d \in Docs, NEW c, ReadNote(w, d, c) PROVE UNCHANGED raced
      BY <3>2, Zenon DEF ReadNote
    <3>. QED  BY <3>1, <3>2, Zenon DEF Write
  <2>4. ASSUME Create(w) \/ UpdateNote(w) \/ UpdateNoteSidecar(w)
        PROVE  /\ task[w].pc \in {"create", "update", "sidecar"}
               /\ raced' = raced \/ raced' = raced \cup {task[w].path}
    <3>1. Create(w) \/ UpdateNote(w) \/ UpdateNoteSidecar(w) =>
            task[w].pc \in {"create", "update", "sidecar"} /\ \E n : Put(task[w].path, n, w)
      BY Zenon DEF Create, UpdateNote, UpdateNoteSidecar, At
    <3>. QED  BY <2>4, <3>1, Zenon DEF Put
  <2>. QED  BY <2>1, <2>2, <2>3, <2>4
<1>3. \E t : Do(w, t) /\ IsTask(t) /\ QueueKnown(t)
  <2>1. IsTask(Idle) /\ Idle.queue = <<>> /\ <<>> \in Seq(Laid)
    BY IdleTask DEF Idle
  <2>3. ASSUME NEW d, NEW p
        PROVE  LET t == [Idle EXCEPT !.pc = "create", !.doc = d, !.path = p]
               IN  IsTask(t) /\ t.pc = "create" /\ t.queue = <<>>
    BY <2>1 DEF IsTask, Fields
  <2>4. \A t : t.pc \in {"create", "update", "sidecar"} /\ t.queue = <<>> => QueueKnown(t)
    BY <2>1 DEF QueueKnown, Steps, Correcting
  <2>5. ASSUME NEW d \in Docs, WriteNote(w, d)
        PROVE  \E t : Do(w, t) /\ IsTask(t) /\ QueueKnown(t)
    BY <2>3, <2>4, <2>5 DEF WriteNote
  <2>6. ASSUME NEW d \in Docs, NEW c \in {"update", "sidecar"}, ReadNote(w, d, c)
        PROVE  \E t : Do(w, t) /\ IsTask(t) /\ QueueKnown(t)
    <3>. DEFINE t == [Idle EXCEPT !.pc = c, !.doc = d, !.path = row[d], !.copy = notes[row[d]]]
    <3>1. Do(w, t)
      BY <2>6 DEF ReadNote
    <3>2. IsTask(t) /\ t.pc = c /\ t.queue = <<>>
      BY <2>1, <2>6 DEF IsTask, Fields
    <3>. HIDE DEF t
    <3>. QED  BY <2>4, <3>1, <3>2
  <2>7. Create(w) \/ UpdateNote(w) \/ UpdateNoteSidecar(w) => Do(w, Idle)
    BY DEF Create, UpdateNote, UpdateNoteSidecar
  <2>. QED
    BY <2>1, <2>5, <2>6, <2>7, IdleQueue DEF Write
<1>4. QueueKnown(task'[w]) /\ Alone(w)
  BY <1>3, AtHand, DoTask
<1>5. \A v \in Procs : QueueKnown(task'[v])
  BY <1>4 DEF Alone, TypeInv
<1>6. \A v \in Procs : QueueKnown(task[v])'
  BY <1>5 DEF QueueKnown
<1>7. Backed'
  BY <1>1 DEF TypeInv, Backed
<1>8. edits' \in 0..MaxEdits /\ faults' \in 0..MaxFaults
  BY <1>1 DEF TypeInv
<1>. QED  BY <1>0, <1>2, <1>6, <1>7, <1>8 DEF TypeInv

LEMMA ReviewerTypes ==
  ASSUME VaultInv, TypeInv, NEW r \in Procs, Review(r) \/ Fault(r)
  PROVE  TypeInv'
<1>1. /\ edits' = edits /\ (calls' = calls \/ Call)
      /\ faults' = faults \/ (faults < MaxFaults /\ faults' = faults + 1)
  <2>1. ASSUME NEW ids, ApplyCorrections(r, ids)
        PROVE  edits' = edits /\ Call /\ faults' = faults
    BY <2>1, Zenon DEF ApplyCorrections
  <2>2. Find(r) \/ NotFound(r) => edits' = edits /\ calls' = calls /\ faults' = faults
    BY Zenon DEF Find, NotFound
  <2>3. BackupNote(r) \/ Truncate(r) \/ Fill(r) =>
          edits' = edits /\ calls' = calls /\ faults' = faults
    BY Zenon DEF BackupNote, Truncate, Fill
  <2>4. Fault(r) =>
          edits' = edits /\ calls' = calls /\ faults < MaxFaults /\ faults' = faults + 1
    BY Zenon DEF Fault
  <2>. QED  BY <2>1, <2>2, <2>3, <2>4, Zenon DEF Review
<1>0. faults' \in 0..MaxFaults /\ calls' \in 0..MaxCalls
  <2>1. /\ calls \in 0..MaxCalls /\ MaxCalls \in Nat
        /\ faults \in 0..MaxFaults /\ MaxFaults \in Nat
    BY NoteVaultAssumption DEF TypeInv
  <2>2. calls' = calls \/ (calls < MaxCalls /\ calls' = calls + 1)
    BY <1>1 DEF Call
  <2>3. faults' \in 0..MaxFaults
    BY <1>1, <2>1, Counted
  <2>. QED  BY <2>1, <2>2, <2>3, Counted
<1>2. task[r].pc \in {"backup", "truncate", "fill"} =>
        /\ task[r].path \in Paths
        /\ notes[task[r].path] \in Note \cup {Torn}
  BY AtHand DEF Honest, At, Reading, Shape
<1>3. raced' \subseteq Paths
  <2>1. CASE UNCHANGED raced
    BY <2>1 DEF TypeInv
  <2>2. CASE Truncate(r) \/ Fill(r)
    BY <1>2, <2>2 DEF Truncate, Fill, Put, At, TypeInv
  <2>. QED
    <3>1. \/ \E ids : ApplyCorrections(r, ids)
          \/ Find(r) \/ NotFound(r) \/ BackupNote(r) \/ Truncate(r) \/ Fill(r) \/ Fault(r)
      BY Zenon DEF Review
    <3>2. ASSUME NEW ids, ApplyCorrections(r, ids) PROVE UNCHANGED raced
      BY <3>2, Zenon DEF ApplyCorrections
    <3>3. Find(r) \/ NotFound(r) \/ BackupNote(r) \/ Fault(r) => UNCHANGED raced
      BY Zenon DEF Find, NotFound, BackupNote, Fault
    <3>. QED  BY <2>1, <2>2, <3>1, <3>2, <3>3, Zenon
<1>4. Backed'
  <2>1. CASE UNCHANGED backups
    BY <2>1 DEF TypeInv, Backed
  <2>2. CASE BackupNote(r)
    <3>1. /\ backups' = backups \cup {[path |-> task[r].path, note |-> notes[task[r].path]]}
          /\ task[r].path \in Paths /\ notes[task[r].path] \in Note \cup {Torn}
      BY <1>2, <2>2 DEF BackupNote, At
    <3>. QED  BY <3>1 DEF TypeInv, Backed
  <2>. QED
    <3>1. \/ \E ids : ApplyCorrections(r, ids)
          \/ Find(r) \/ NotFound(r) \/ BackupNote(r) \/ Truncate(r) \/ Fill(r) \/ Fault(r)
      BY Zenon DEF Review
    <3>2. ASSUME NEW ids, ApplyCorrections(r, ids) PROVE UNCHANGED backups
      BY <3>2, Zenon DEF ApplyCorrections
    <3>3. Find(r) \/ NotFound(r) \/ Truncate(r) \/ Fill(r) \/ Fault(r) => UNCHANGED backups
      BY Zenon DEF Find, NotFound, Truncate, Fill, Fault
    <3>. QED  BY <2>1, <2>2, <3>1, <3>2, <3>3, Zenon
<1>5. QueueKnown(task[r]) /\ IsTask(task[r])
  BY AtHand DEF TypeInv, TaskShape
<1>6. ASSUME NEW t, Do(r, t), IsTask(t), QueueKnown(t) PROVE QueueKnown(task'[r]) /\ Alone(r)
  BY <1>6, AtHand, DoTask
<1>7. ASSUME NEW step \in {"truncate", "fill"}, Goto(r, step), task[r].pc \in Correcting
      PROVE  QueueKnown(task'[r]) /\ Alone(r)
  <2>1. Alone(r) /\ task'[r].pc = step /\ task'[r].queue = task[r].queue
    BY <1>7, AtHand, GotoTask
  <2>. QED  BY <1>5, <1>7, <2>1 DEF QueueKnown, Steps, Correcting
<1>8. ASSUME NEW ids, ids \in BulkIds \cup {<<d>> : d \in Laid}, ApplyCorrections(r, ids)
      PROVE  QueueKnown(task'[r]) /\ Alone(r)
  <2>. DEFINE t == [Idle EXCEPT !.pc = "find", !.queue = ids]
  <2>1. ids \in Seq(Laid) /\ ids # <<>>
    <3>1. \A d \in Laid : <<d>> \in Seq(Laid)
      OBVIOUS
    <3>. QED  BY <1>8, <3>1, BulkTypes DEF ApplyCorrections
  <2>2. IsTask(t) /\ t.pc = "find" /\ t.queue = ids
    BY IdleTask DEF IsTask, Fields
  <2>3. Do(r, t)
    BY <1>8 DEF ApplyCorrections
  <2>. HIDE DEF t
  <2>4. QueueKnown(t)
    BY <2>1, <2>2 DEF QueueKnown, Steps, Correcting
  <2>. QED  BY <1>6, <2>2, <2>3, <2>4
<1>9. ASSUME Find(r) PROVE QueueKnown(task'[r]) /\ Alone(r)
  <2>1. task[r].pc = "find" /\ task[r].queue # <<>>
    BY <1>5, <1>9 DEF Find, At, QueueKnown, Correcting
  <2>2. ASSUME NEW d, NEW p, NEW n
        PROVE  /\ IsTask([task[r] EXCEPT !.pc = "backup", !.doc = d, !.path = p, !.copy = n])
               /\ QueueKnown([task[r] EXCEPT !.pc = "backup", !.doc = d, !.path = p, !.copy = n])
    BY <1>5, <2>1 DEF IsTask, Fields, QueueKnown, Steps, Correcting
  <2>3. IsTask(Rest(r)) /\ QueueKnown(Rest(r))
    BY <1>5, <2>1, RestQueue, IdleTask
  <2>. QED  BY <1>6, <1>9, <2>2, <2>3 DEF Find
<1>10. ASSUME NotFound(r) \/ Fault(r) PROVE QueueKnown(task'[r]) /\ Alone(r)
  BY <1>6, <1>10, IdleTask, IdleQueue DEF NotFound, Fault
<1>11. ASSUME BackupNote(r) \/ Truncate(r) PROVE QueueKnown(task'[r]) /\ Alone(r)
  BY <1>7, <1>11 DEF BackupNote, Truncate, At, Correcting
<1>12. ASSUME Fill(r) PROVE QueueKnown(task'[r]) /\ Alone(r)
  <2>1. task[r].queue # <<>>
    BY <1>5, <1>12 DEF Fill, At, QueueKnown, Correcting
  <2>. QED  BY <1>5, <1>6, <1>12, <2>1, RestQueue, IdleTask DEF Fill
<1>13. QueueKnown(task'[r]) /\ Alone(r)
  BY <1>8, <1>9, <1>10, <1>11, <1>12 DEF Review
<1>14. \A v \in Procs : QueueKnown(task'[v])
  BY <1>13 DEF Alone, TypeInv
<1>. QED  BY <1>1, <1>0, <1>3, <1>4, <1>14 DEF TypeInv, QueueKnown

LEMMA NextTypes == ASSUME VaultInv, TypeInv, [Next]_vars PROVE TypeInv'
<1>1. ASSUME NEW p \in Paths, Edit(p) PROVE TypeInv'
  <2>1. /\ task' = task /\ backups' = backups /\ calls' = calls /\ faults' = faults
        /\ edits < MaxEdits /\ edits' = edits + 1
        /\ raced' = raced \/ raced' = raced \cup {p}
    BY <1>1, Zenon DEF Edit, Put
  <2>2. edits \in 0..MaxEdits /\ MaxEdits \in Nat
    BY NoteVaultAssumption DEF TypeInv
  <2>3. edits' \in 0..MaxEdits
    BY <2>1, <2>2, Counted
  <2>4. raced' \subseteq Paths
    BY <2>1 DEF TypeInv
  <2>5. (\A w \in Procs : QueueKnown(task[w]))' /\ Backed'
    BY <2>1, Zenon DEF TypeInv, QueueKnown, Backed
  <2>6. calls' \in 0..MaxCalls /\ faults' \in 0..MaxFaults
    BY <2>1, Zenon DEF TypeInv
  <2>. QED  BY <2>3, <2>4, <2>5, <2>6, Zenon DEF TypeInv
<1>2. ASSUME UNCHANGED vars PROVE TypeInv'
  BY <1>2, Zenon DEF vars, TypeInv, QueueKnown, Backed
<1>. QED  BY <1>1, <1>2, WriterTypes, ReviewerTypes DEF Next, Procs

(* Notes, rows, what each process has at hand and the backups keep their types, *)
(* and a correction command has IDs left exactly while it works on one.        *)
THEOREM VaultTypes == Spec => []TypeOK
<1>1. Init => TypeInv
  <2>1. 0 \in 0..MaxCalls /\ 0 \in 0..MaxEdits /\ 0 \in 0..MaxFaults
    BY NoteVaultAssumption
  <2>2. ASSUME Init PROVE \A w \in Procs : QueueKnown(task[w])
    <3>1. \A w \in Procs : task[w] = Idle
      BY <2>2, Zenon DEF Init
    <3>. QED  BY <3>1, IdleQueue, Zenon
  <2>3. Init => Backed /\ raced \subseteq Paths
    BY Zenon DEF Init, Backed
  <2>. QED  BY <2>1, <2>2, <2>3, Zenon DEF Init, TypeInv
<1>2. ASSUME VaultInv, TypeInv PROVE TypeOK
  <2>1. /\ notes \in [Paths -> Note \cup {Absent, Torn}]
        /\ row \in [Docs -> Paths \cup {NoPath}] /\ edited \subseteq Paths
    BY <1>2 DEF VaultInv, Shape, IsPathOf
  <2>2. ASSUME NEW w \in Procs,
               task[w].pc \in {"update", "sidecar", "backup", "truncate", "fill"}
        PROVE  task[w].copy \in Note /\ task[w].path \in Paths
    BY <1>2, <2>2, AtHand DEF Honest, At, Reading
  <2>3. \A w \in Procs : QueueKnown(task[w])
    BY <1>2 DEF TypeInv
  <2>4. \A w \in Procs : Range(task[w].queue) \subseteq Laid
    <3>1. ASSUME NEW q \in Seq(Laid) PROVE Range(q) \subseteq Laid
      BY ElementOfSeq, LenProperties DEF Range
    <3>. QED  BY <2>3, <3>1 DEF QueueKnown
  <2>. QED
    <3>1. \A w \in Procs :
            /\ task[w].pc \in Steps /\ (task[w].pc \in Correcting <=> task[w].queue # <<>>)
            /\ task[w].pc \in {"update", "sidecar", "backup", "truncate", "fill"} =>
                 task[w].copy \in Note /\ task[w].path \in Paths
      BY <2>2, <2>3, Zenon DEF QueueKnown
    <3>2. /\ backups \subseteq [path : Paths, note : Note \cup {Torn}] /\ raced \subseteq Paths
          /\ calls \in 0..MaxCalls /\ edits \in 0..MaxEdits /\ faults \in 0..MaxFaults
      BY <1>2, Zenon DEF TypeInv, Backed
    <3>. QED  BY <2>1, <2>4, <3>1, <3>2, Zenon DEF TypeOK, Steps, Correcting
<1>3. VaultInv /\ TypeInv /\ [Next]_vars => TypeInv'
  BY NextTypes
<1>. QED  BY <1>1, <1>2, <1>3, VaultInvariant, PTL DEF Spec
==============================================================================
