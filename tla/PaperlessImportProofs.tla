------------------------ MODULE PaperlessImportProofs -------------------------
(* Proofs about PaperlessImport: types; that the rows of the import are true;  *)
(* that a document gets one note; that documents with the same bytes are filed; *)
(* that lists and reports are complete; that a clean import verifies.          *)
EXTENDS PaperlessImport, SequenceTheorems, FiniteSetTheorems, TLAPS

Busy(w) == pc[w] # "idle"

(* Workers are at a document only while a run imports.                         *)
Placed ==
  \A w \in Workers : Busy(w) =>
    run = "running" /\ mode # "plan" /\ at[w] \in DOMAIN selected
Offered == feed = "offering" => next <= Len(selected)
OutcomeKnown ==
  \A w \in Workers :
    /\ pc[w] = "state" => outcome[w] \in {"imported", "failed"}
    /\ pc[w] = "finish" => outcome[w] = "imported"

Shape == TypeOK /\ Placed /\ Offered /\ OutcomeKnown

-----------------------------------------------------------------------------
(* Sequences of documents.                                                     *)

(* What SubSeq cuts out of a list, counted from where the cut begins.          *)
LEMMA SliceIs ==
  ASSUME NEW s \in Seq(Docs), NEW i \in 0..Len(s), NEW j \in i..Len(s)
  PROVE  /\ Len(SubSeq(s, i + 1, j)) = j - i
         /\ \A n \in 1..j - i : SubSeq(s, i + 1, j)[n] = s[i + n]
<1>1. Len(s) \in Nat
  BY LenProperties
<1>2. i + 1 \in Int /\ j \in Int /\ i \in Nat /\ j \in Nat /\ i <= j
  BY <1>1
<1>3. \A n \in i + 1 .. j : s[n] \in Docs
  <2>1. ASSUME NEW n \in i + 1 .. j PROVE n \in 1..Len(s)
    BY <1>1, <1>2, <2>1
  <2>. QED  BY <2>1, ElementOfSeq
<1>. DEFINE t == SubSeq(s, i + 1, j)
<1>4. /\ Len(t) = IF i + 1 <= j THEN j - (i + 1) + 1 ELSE 0
      /\ \A n \in 1..j - (i + 1) + 1 : t[n] = s[i + 1 + n - 1]
  BY <1>2, <1>3, SubSeqProperties
<1>. HIDE DEF t
<1>5. Len(t) = j - i
  BY <1>2, <1>4
<1>6. ASSUME NEW n \in 1..j - i PROVE t[n] = s[i + n]
  <2>1. n \in 1..j - (i + 1) + 1 /\ i + 1 + n - 1 = i + n
    BY <1>2
  <2>. QED  BY <1>4, <2>1
<1>. QED  BY <1>5, <1>6 DEF t

LEMMA CutTypes ==
  ASSUME NEW s \in Seq(Docs), NEW i \in 0..Len(s), NEW j \in Nat, i < j
  PROVE  SubSeq(s, 1, i) \in Seq(Docs) /\ SubSeq(s, j, Len(s)) \in Seq(Docs)
<1>1. \A k \in 1..i : s[k] \in Docs
  BY ElementOfSeq
<1>2. \A k \in j..Len(s) : s[k] \in Docs
  BY ElementOfSeq
<1>3. Len(s) \in Nat /\ i \in Int /\ j \in Int
  BY LenProperties
<1>. QED  BY <1>1, <1>2, <1>3, SubSeqProperties

LEMMA PageTypes ==
  ASSUME TypeOK
  PROVE  Page \in Seq(Docs)
<1>1. remote \in Seq(Docs) /\ page \in Nat /\ PageSize \in Nat /\ Len(remote) \in Nat
  BY ImportAssumption, LenProperties DEF TypeOK
<1>2. PageEnd \in Int /\ PageEnd <= Len(remote) /\ page + 1 \in Int
  BY <1>1 DEF PageEnd
<1>3. \A k \in page + 1 .. PageEnd : remote[k] \in Docs
  BY <1>1, <1>2, ElementOfSeq
<1>. QED  BY <1>2, <1>3, SubSeqProperties DEF Page

LEMMA ContentTypes ==
  ASSUME TypeOK, Placed, NEW w \in Workers, Busy(w)
  PROVE  Doc(w) \in Docs /\ Content(w) \in Contents
BY ElementOfSeq DEF TypeOK, Placed, Doc, Content, Contents

LEMMA BrokenTypes ==
  ASSUME TypeOK, Placed, NEW W \in SUBSET Workers
  PROVE  Broken(W) \subseteq Contents
BY ContentTypes DEF Broken, Busy

-----------------------------------------------------------------------------
(* Types.                                                                      *)

LEMMA InitShape == Init => Shape
<1>. SUFFICES ASSUME Init PROVE Shape
  OBVIOUS
<1>1. cancelled \in BOOLEAN /\ err \in BOOLEAN /\ shrunk \in BOOLEAN
  BY Zenon DEF Init
<1>2. /\ remote \in Seq(Docs) /\ ids \in Seq(Docs) /\ selected \in Seq(Docs)
      /\ page \in Nat /\ next \in Nat \ {0} /\ runs \in 0..MaxRuns /\ faults \in 0..MaxFaults
  BY ImportAssumption DEF Init
<1>3. /\ run \in Phases /\ mode \in {"import", "retry-failed", "plan"}
      /\ feed \in {"ready", "offering", "closed"}
      /\ pc \in [Workers -> Calls] /\ at \in [Workers -> Nat]
      /\ outcome \in [Workers -> Outcomes] /\ mine \in [Workers -> BOOLEAN]
      /\ stats \in [Outcomes -> Nat]
  BY DEF Init, Phases, Calls, Outcomes, NoStats
<1>4. /\ recorded \subseteq DOMAIN selected
      /\ rows \in [Docs -> {"none", "imported", "failed"}]
      /\ document \in [Contents -> {"none", "pending", "filed"}]
      /\ archived \subseteq Contents /\ notes \in [Docs -> Nat]
      /\ owed \subseteq Docs /\ spoiled \subseteq Docs /\ broken \subseteq Contents
  BY DEF Init
<1>5. TypeOK
  BY <1>1, <1>2, <1>3, <1>4 DEF TypeOK
<1>6. Placed /\ Offered /\ OutcomeKnown
  BY DEF Init, Placed, Offered, OutcomeKnown, Busy
<1>. QED  BY <1>5, <1>6 DEF Shape

LEMMA ServerShape ==
  ASSUME Shape, NEW d \in Docs, Upload(d) \/ Delete(d)
  PROVE  Shape'
<1>1. remote \in Seq(Docs) /\ Len(remote) \in Nat
  BY LenProperties DEF Shape, TypeOK
<1>2. remote' \in Seq(Docs)
  <2>1. CASE Upload(d)
    <3>1. PICK i \in 0..Len(remote) :
            remote' = SubSeq(remote, 1, i) \o <<d>> \o SubSeq(remote, i + 1, Len(remote))
      BY <2>1 DEF Upload
    <3>2. SubSeq(remote, 1, i) \in Seq(Docs) /\ SubSeq(remote, i + 1, Len(remote)) \in Seq(Docs)
      BY <1>1, CutTypes
    <3>3. <<d>> \in Seq(Docs)
      OBVIOUS
    <3>. QED  BY <3>1, <3>2, <3>3, ConcatProperties
  <2>2. CASE Delete(d)
    <3>1. PICK i \in DOMAIN remote :
            remote' = SubSeq(remote, 1, i - 1) \o SubSeq(remote, i + 1, Len(remote))
      BY <2>2 DEF Delete
    <3>2. i \in 1..Len(remote)
      BY <1>1, LenProperties
    <3>3. i - 1 \in 0..Len(remote) /\ i + 1 \in Nat /\ i - 1 < i + 1
      BY <1>1, <3>2
    <3>4. SubSeq(remote, 1, i - 1) \in Seq(Docs) /\ SubSeq(remote, i + 1, Len(remote)) \in Seq(Docs)
      BY <1>1, <3>3, CutTypes
    <3>. QED  BY <3>1, <3>4, ConcatProperties
  <2>. QED  BY <2>1, <2>2
<1>3. shrunk' \in BOOLEAN
  BY Zenon DEF Upload, Delete, Shape, TypeOK, listVars
<1>4. UNCHANGED <<runVars, selected, page, owed, feedVars, workerVars, reportVars, storeVars,
                  fileVars, ghosts, bounds>>
  BY DEF Upload, Delete, listVars
<1>. QED
  BY <1>2, <1>3, <1>4
  DEF Shape, TypeOK, Placed, Offered, OutcomeKnown, Busy, runVars, feedVars, workerVars,
      reportVars, storeVars, fileVars, ghosts, bounds

(* A list that grows keeps the workers' places and the report.                 *)
LEMMA GrowthShape ==
  ASSUME Shape, NEW s \in Seq(Docs), selected' = selected \o s, run = "listing",
         run' \in Phases, page' \in Nat, err' \in BOOLEAN,
         UNCHANGED <<remote, mode, ids, cancelled, owed, shrunk, feedVars, workerVars,
                     reportVars, storeVars, fileVars, ghosts, bounds>>
  PROVE  Shape'
<1>1. selected \in Seq(Docs) /\ Len(selected) \in Nat /\ Len(s) \in Nat
  BY LenProperties DEF Shape, TypeOK
<1>2. /\ selected' \in Seq(Docs)
      /\ Len(selected') = Len(selected) + Len(s)
  BY <1>1, ConcatProperties
<1>3. DOMAIN selected = 1..Len(selected) /\ DOMAIN selected' = 1..Len(selected')
  BY <1>1, <1>2, LenProperties
<1>4. DOMAIN selected \subseteq DOMAIN selected'
  BY <1>1, <1>2, <1>3
<1>5. TypeOK'
  BY <1>2, <1>4
  DEF Shape, TypeOK, feedVars, workerVars, reportVars, storeVars, fileVars, ghosts, bounds
<1>6. Placed' /\ OutcomeKnown'
  BY DEF Shape, Placed, OutcomeKnown, Busy, workerVars
<1>7. Offered'
  BY <1>1, <1>2 DEF Shape, TypeOK, Offered, feedVars
<1>. QED  BY <1>5, <1>6, <1>7 DEF Shape

LEMMA StartShape == ASSUME Shape, Start PROVE Shape'
<1>1. mode' \in {"import", "retry-failed", "plan"} /\ ids' \in Seq(Docs)
  BY ImportAssumption DEF Start
<1>2. cancelled' \in BOOLEAN /\ err' \in BOOLEAN /\ shrunk' \in BOOLEAN
  BY Zenon DEF Start
<1>3. owed' \subseteq Docs
  BY ElementOfSeq, LenProperties DEF Start, Members, Shape, TypeOK
<1>4. /\ selected' \in Seq(Docs) /\ page' \in Nat /\ next' \in Nat \ {0}
      /\ recorded' \subseteq DOMAIN selected' /\ runs' \in 0..MaxRuns
      /\ stats' \in [Outcomes -> Nat] /\ run' \in Phases
  BY ImportAssumption DEF Start, NoStats, Outcomes, Phases, Shape, TypeOK
<1>5. /\ feed' = "ready"
      /\ UNCHANGED <<remote, workerVars, storeVars, fileVars, ghosts, faults>>
  BY DEF Start
<1>6. TypeOK'
  BY <1>1, <1>2, <1>3, <1>4, <1>5
  DEF Shape, TypeOK, workerVars, storeVars, fileVars, ghosts
<1>7. \A w \in Workers : ~ Busy(w)
  BY DEF Start, Shape, Placed
<1>. QED
  BY <1>5, <1>6, <1>7 DEF Shape, Placed, Offered, OutcomeKnown, Busy, workerVars

LEMMA SelectShape == ASSUME Shape, Select PROVE Shape'
<1>1. ASSUME ListPage PROVE Shape'
  <2>1. page' \in Nat /\ run' \in Phases /\ err' \in BOOLEAN
    BY <1>1, ImportAssumption DEF ListPage, Shape, TypeOK, Phases
  <2>. QED  BY <1>1, <2>1, PageTypes, GrowthShape DEF ListPage, Selecting, Shape
<1>2. ASSUME GetDocument PROVE Shape'
  <2>1. page' \in Nat /\ run' \in Phases /\ err' \in BOOLEAN
    BY <1>2 DEF GetDocument, Shape, TypeOK, Phases
  <2>2. ids[page + 1] \in Docs
    BY <1>2, ElementOfSeq, LenProperties DEF GetDocument, Shape, TypeOK
  <2>3. selected' = selected \o <<ids[page + 1]>>
    <3>1. selected \in Seq(Docs) /\ selected' = Append(selected, ids[page + 1])
      BY <1>2 DEF GetDocument, Shape, TypeOK
    <3>. QED  BY <2>2, <3>1, AppendIsConcat
  <2>4. <<ids[page + 1]>> \in Seq(Docs)
    BY <2>2
  <2>5. run = "listing" /\ UNCHANGED <<remote, mode, ids, cancelled, owed, shrunk, feedVars,
                    workerVars, reportVars, storeVars, fileVars, ghosts, bounds>>
    BY <1>2 DEF GetDocument, Selecting
  <2>. QED  BY <2>1, <2>3, <2>4, <2>5, GrowthShape
<1>3. ASSUME NotFound \/ SelectionFails \/ LoadLookups PROVE Shape'
  <2>1. err' \in BOOLEAN
    BY <1>3, Zenon DEF NotFound, SelectionFails, LoadLookups, Shape, TypeOK
  <2>2. faults' \in 0..MaxFaults
    BY <1>3, ImportAssumption
    DEF NotFound, Selecting, SelectionFails, Fault, LoadLookups, Shape, TypeOK, bounds
  <2>3. spoiled' \subseteq Docs
    BY <1>3
    DEF NotFound, Selecting, SelectionFails, LoadLookups, ListedTwice, Shape, TypeOK, ghosts
  <2>4. run' \in Phases
    BY <1>3 DEF NotFound, SelectionFails, LoadLookups, Phases
  <2>5. UNCHANGED <<remote, mode, ids, cancelled, listVars, feedVars, workerVars,
                    reportVars, storeVars, fileVars, broken, runs>>
    BY <1>3 DEF NotFound, Selecting, SelectionFails, LoadLookups, ghosts, bounds, listVars
  <2>6. \A w \in Workers : ~ Busy(w)
    BY <1>3 DEF NotFound, Selecting, SelectionFails, LoadLookups, Shape, Placed
  <2>. QED
    BY <2>1, <2>2, <2>3, <2>4, <2>5, <2>6
    DEF Shape, TypeOK, Placed, Offered, OutcomeKnown, Busy, listVars, feedVars, workerVars,
        reportVars, storeVars, fileVars
<1>. QED  BY <1>1, <1>2, <1>3 DEF Select

LEMMA PlanShape == ASSUME Shape, Plan PROVE Shape'
<1>1. err' \in BOOLEAN
  BY Zenon DEF Plan, Shape, TypeOK
<1>2. selected \in Seq(Docs) /\ Len(selected) \in Nat
  BY LenProperties DEF Shape, TypeOK
<1>3. stats' \in [Outcomes -> Nat] /\ recorded' \subseteq DOMAIN selected /\ run' \in Phases
  BY <1>2 DEF Plan, Shape, TypeOK, reportVars, Outcomes, Phases
<1>4. \A w \in Workers : ~ Busy(w)
  BY DEF Plan, Shape, Placed
<1>5. UNCHANGED <<remote, mode, ids, cancelled, listVars, feedVars, workerVars,
                  storeVars, fileVars, ghosts, bounds>>
  BY DEF Plan
<1>. QED
  BY <1>1, <1>3, <1>4, <1>5
  DEF Shape, TypeOK, Placed, Offered, OutcomeKnown, Busy, listVars, feedVars, workerVars,
      storeVars, fileVars, ghosts, bounds

LEMMA FeedShape ==
  ASSUME Shape, Feed \/ End \/ Cancel \/ \E w \in Workers : Take(w) \/ NextInTurn(w)
  PROVE  Shape'
<1>1. selected \in Seq(Docs) /\ Len(selected) \in Nat /\ DOMAIN selected = 1..Len(selected)
  BY LenProperties DEF Shape, TypeOK
<1>2. ASSUME Feed PROVE Shape'
  <2>1. err' \in BOOLEAN
    BY <1>2, Zenon DEF Feed, Shape, TypeOK
  <2>2. UNCHANGED <<remote, run, mode, ids, cancelled, listVars, reportVars, storeVars,
                    fileVars, ghosts, bounds, workerVars, next>>
    BY <1>2 DEF Feed, Feeding
  <2>3. feed' \in {"ready", "offering", "closed"} /\ (feed' = "offering" => next <= Len(selected))
    BY <1>1, <1>2 DEF Feed, Shape, TypeOK, Offered
  <2>4. TypeOK'
    BY <2>1, <2>2, <2>3
    DEF Shape, TypeOK, listVars, workerVars, reportVars, storeVars, fileVars, ghosts, bounds
  <2>5. Offered'
    BY <2>2, <2>3 DEF Offered, listVars
  <2>6. Placed' /\ OutcomeKnown'
    BY <2>2 DEF Shape, Placed, OutcomeKnown, Busy, listVars, workerVars
  <2>. QED  BY <2>4, <2>5, <2>6 DEF Shape
<1>3. ASSUME NEW w \in Workers, Take(w) \/ NextInTurn(w), UNCHANGED workerVars PROVE Shape'
  <2>1. err' \in BOOLEAN
    BY <1>3, Zenon DEF Take, NextInTurn, Shape, TypeOK
  <2>2. next' \in Nat \ {0} /\ feed' \in {"ready", "closed"}
    <3>1. next' = next \/ next' = next + 1
      BY <1>3, Zenon DEF Take, NextInTurn, Pick
    <3>2. feed' = "ready" \/ feed' = "closed"
      BY <1>3 DEF Take, NextInTurn
    <3>3. next \in Nat \ {0}
      BY DEF Shape, TypeOK
    <3>. QED  BY <3>1, <3>2, <3>3
  <2>3. UNCHANGED <<remote, run, mode, ids, cancelled, listVars, reportVars, storeVars,
                    fileVars, ghosts, bounds>>
    BY <1>3 DEF Take, NextInTurn, Feeding
  <2>4. TypeOK'
    <3>1. UNCHANGED workerVars
      BY <1>3
    <3>. QED
      BY <2>1, <2>2, <2>3, <3>1
      DEF Shape, TypeOK, listVars, workerVars, reportVars, storeVars, fileVars, ghosts, bounds
  <2>5. Offered'
    BY <2>2 DEF Offered
  <2>6. Placed' /\ OutcomeKnown'
    BY <1>3, <2>3 DEF Shape, Placed, OutcomeKnown, Busy, listVars, workerVars
  <2>. QED  BY <2>4, <2>5, <2>6 DEF Shape
<1>4. ASSUME NEW w \in Workers, Take(w) \/ NextInTurn(w), ~ UNCHANGED workerVars PROVE Shape'
  <2>1. Pick(w) /\ Goto(w, "check") /\ pc[w] = "idle" /\ feed' = "ready" /\ UNCHANGED err
    BY <1>4 DEF Take, NextInTurn, Shape, Offered
  <2>2. next <= Len(selected) /\ run = "running" /\ mode # "plan"
    BY <1>4 DEF Take, NextInTurn, Feeding, Importing, Shape, Offered, TypeOK
  <2>3. UNCHANGED <<remote, run, mode, ids, cancelled, listVars, reportVars, storeVars,
                    fileVars, ghosts, bounds>>
    BY <1>4 DEF Take, NextInTurn, Feeding
  <2>4. /\ pc' = [pc EXCEPT ![w] = "check"] /\ at' = [at EXCEPT ![w] = next]
        /\ next' = next + 1 /\ UNCHANGED <<outcome, mine, err>> /\ feed' = "ready"
    BY <2>1 DEF Pick, Goto
  <2>5. /\ next \in Nat \ {0} /\ pc \in [Workers -> Calls] /\ at \in [Workers -> Nat]
        /\ Placed /\ OutcomeKnown
    BY DEF Shape, TypeOK
  <2>6. /\ pc' \in [Workers -> Calls] /\ at' \in [Workers -> Nat] /\ next' \in Nat \ {0}
        /\ next \in DOMAIN selected
    BY <1>1, <2>2, <2>4, <2>5 DEF Calls
  <2>7. TypeOK'
    BY <2>1, <2>3, <2>4, <2>6
    DEF Shape, TypeOK, listVars, reportVars, storeVars, fileVars, ghosts, bounds
  <2>8. Placed' /\ OutcomeKnown'
    BY <2>1, <2>2, <2>3, <2>4, <2>5, <2>6 DEF Placed, OutcomeKnown, Busy, listVars
  <2>9. Offered'
    BY <2>1 DEF Offered
  <2>. QED  BY <2>7, <2>8, <2>9 DEF Shape
<1>5. ASSUME End PROVE Shape'
  BY <1>5
  DEF End, Shape, TypeOK, Placed, Offered, OutcomeKnown, Busy, Phases, listVars, feedVars,
      workerVars, reportVars, storeVars, fileVars, ghosts, bounds
<1>6. ASSUME Cancel PROVE Shape'
  <2>1. faults' \in 0..MaxFaults /\ cancelled' = TRUE
    BY <1>6, ImportAssumption DEF Cancel, Fault, Shape, TypeOK
  <2>. QED
    BY <1>6, <2>1
    DEF Cancel, Shape, TypeOK, Placed, Offered, OutcomeKnown, Busy, listVars, feedVars,
        workerVars, reportVars, storeVars, fileVars, ghosts
<1>. QED  BY <1>2, <1>3, <1>4, <1>5, <1>6

LEMMA CrashShape == ASSUME Shape, Crash PROVE Shape'
<1>1. cancelled' \in BOOLEAN /\ err' \in BOOLEAN /\ shrunk' \in BOOLEAN
  BY Zenon DEF Crash
<1>2. faults' \in 0..MaxFaults
  BY ImportAssumption DEF Crash, Fault, Shape, TypeOK
<1>3. spoiled' \subseteq Docs
  <2>1. \A w \in Workers : pc[w] \in {"finish", "state"} => Doc(w) \in Docs
    BY ContentTypes DEF Shape, Busy
  <2>. QED  BY <2>1 DEF Crash, Shape, TypeOK
<1>4. broken' \subseteq Contents
  BY BrokenTypes DEF Crash, Shape, TypeOK
<1>5. /\ selected' \in Seq(Docs) /\ page' \in Nat /\ owed' \subseteq Docs
      /\ next' \in Nat \ {0} /\ feed' = "ready" /\ run' \in Phases
      /\ recorded' \subseteq DOMAIN selected' /\ stats' \in [Outcomes -> Nat]
      /\ pc' \in [Workers -> Calls] /\ at' \in [Workers -> Nat]
      /\ outcome' \in [Workers -> Outcomes] /\ mine' \in [Workers -> BOOLEAN]
  BY DEF Crash, NoStats, Outcomes, Calls, Phases
<1>6. UNCHANGED <<remote, mode, ids, storeVars, fileVars, runs>>
  BY DEF Crash
<1>7. \A w \in Workers : pc'[w] = "idle"
  BY DEF Crash
<1>. QED
  BY <1>1, <1>2, <1>3, <1>4, <1>5, <1>6, <1>7
  DEF Shape, TypeOK, Placed, Offered, OutcomeKnown, Busy, storeVars, fileVars

-----------------------------------------------------------------------------
(* One step of a worker.                                                       *)

LEMMA WorkFrame ==
  ASSUME NEW w \in Workers, Work(w)
  PROVE  /\ Busy(w)
         /\ UNCHANGED <<remote, run, mode, ids, cancelled, listVars, feedVars, runs>>
BY DEF Work, Busy, At, CheckCancelled, Check, CheckUnread, Download, Create, Extract,
       WriteNote, Finish, DownloadFails, CreateFails, ExtractFails, FinishFails, State,
       StateFails, Record

LEMMA WorkShape ==
  ASSUME Shape, NEW w \in Workers, Work(w)
  PROVE  Shape'
<1>1. /\ Busy(w) /\ Doc(w) \in Docs /\ Content(w) \in Contents
      /\ at[w] \in DOMAIN selected
      /\ UNCHANGED <<remote, run, mode, ids, cancelled, listVars, feedVars, runs>>
  BY WorkFrame, ContentTypes DEF Shape, Placed
<1>2. err' \in BOOLEAN
  BY Zenon
  DEF Shape, TypeOK, Work, CheckCancelled, Check, CheckUnread, Download, Create, Extract,
      WriteNote, Finish, DownloadFails, CreateFails, ExtractFails, FinishFails, State,
      StateFails, Record, GiveUp, Goto, Leave, Skip
<1>3. faults' \in 0..MaxFaults
  <2>1. faults' = faults \/ (faults < MaxFaults /\ faults' = faults + 1)
    BY DEF Fault, Work, CheckCancelled, Check, CheckUnread, Download, Create, Extract,
           WriteNote, Finish, DownloadFails, CreateFails, ExtractFails, FinishFails,
           State, StateFails, Record, bounds
  <2>2. faults \in 0..MaxFaults /\ MaxFaults \in Nat
    BY ImportAssumption DEF Shape, TypeOK
  <2>. QED  BY <2>1, <2>2
<1>. DEFINE Acts == /\ pc \in [Workers -> Calls] /\ at \in [Workers -> Nat]
                    /\ outcome \in [Workers -> Outcomes] /\ mine \in [Workers -> BOOLEAN]
                    /\ Placed /\ OutcomeKnown
<1>4. ASSUME Leave(w) PROVE Acts'
  BY <1>1, <1>4
  DEF Leave, Goto, Shape, TypeOK, Placed, OutcomeKnown, Busy, Calls, Outcomes, listVars
<1>5. ASSUME NEW c \in Calls \ {"state", "finish"}, Goto(w, c), UNCHANGED at,
             mine' \in [Workers -> BOOLEAN],
             \E o \in Outcomes : outcome' = [outcome EXCEPT ![w] = o]
      PROVE  Acts'
  BY <1>1, <1>5 DEF Goto, Shape, TypeOK, Placed, OutcomeKnown, Busy, listVars
<1>6. ASSUME NEW c \in {"state", "finish"}, Goto(w, c), UNCHANGED <<at, mine>>,
             \/ outcome' = [outcome EXCEPT ![w] = "imported"]
             \/ outcome' = [outcome EXCEPT ![w] = "failed"] /\ c = "state"
      PROVE  Acts'
  BY <1>1, <1>6
  DEF Goto, Shape, TypeOK, Placed, OutcomeKnown, Busy, Calls, Outcomes, listVars
<1>7. outcome[w] \in Outcomes /\ outcome = [outcome EXCEPT ![w] = outcome[w]]
  BY DEF Shape, TypeOK
<1>8. ASSUME GiveUp(w) PROVE Acts'
  BY <1>4, <1>6, <1>8 DEF GiveUp
<1>9. ASSUME Skip(w) PROVE Acts'
  <2>1. Goto(w, "record") /\ outcome' = [outcome EXCEPT ![w] = "skipped"] /\ UNCHANGED <<at, mine>>
    BY <1>9 DEF Skip
  <2>. QED  BY <1>5, <2>1 DEF Calls, Outcomes, Shape, TypeOK
<1>10. ASSUME Check(w) \/ CheckUnread(w) PROVE Acts'
  <2>1. CASE Goto(w, "download") /\ UNCHANGED <<at, outcome, mine>>
    BY <1>5, <1>7, <2>1 DEF Calls, Shape, TypeOK
  <2>. QED  BY <1>9, <1>10, <2>1 DEF Check, CheckUnread
<1>11. ASSUME Download(w) \/ Extract(w) PROVE Acts'
  <2>1. \E c \in {"create", "note"} : Goto(w, c) /\ UNCHANGED <<at, outcome, mine>>
    BY <1>11 DEF Download, Extract
  <2>. QED  BY <1>5, <1>7, <2>1 DEF Calls, Shape, TypeOK
<1>12. ASSUME Create(w) PROVE Acts'
  <2>1. mine' \in [Workers -> BOOLEAN]
    BY <1>12 DEF Create, Shape, TypeOK
  <2>2. Goto(w, "extract") /\ UNCHANGED <<at, outcome>>
    BY <1>12 DEF Create
  <2>. QED  BY <1>5, <1>7, <2>1, <2>2 DEF Calls
<1>13. ASSUME WriteNote(w) PROVE Acts'
  <2>1. /\ Goto(w, "finish") \/ Goto(w, "state")
        /\ outcome' = [outcome EXCEPT ![w] = "imported"] /\ UNCHANGED <<at, mine>>
    BY <1>13 DEF WriteNote
  <2>. QED  BY <1>6, <2>1
<1>14. ASSUME Finish(w) PROVE Acts'
  <2>1. /\ Goto(w, "state") /\ outcome' = [outcome EXCEPT ![w] = "imported"]
        /\ UNCHANGED <<at, mine>>
    BY <1>7, <1>14 DEF Finish, At, Shape, OutcomeKnown
  <2>. QED  BY <1>6, <2>1
<1>15. ASSUME State(w) \/ StateFails(w) PROVE Acts'
  <2>1. Goto(w, "record") /\ UNCHANGED <<at, outcome, mine>>
    BY <1>15 DEF State, StateFails
  <2>. QED  BY <1>5, <1>7, <2>1 DEF Calls, Shape, TypeOK
<1>. HIDE DEF Acts
<1>16. Acts'
  BY <1>4, <1>8, <1>10, <1>11, <1>12, <1>13, <1>14, <1>15
  DEF Work, CheckCancelled, DownloadFails, CreateFails, ExtractFails, FinishFails, Record
<1>17. /\ rows' \in [Docs -> {"none", "imported", "failed"}]
       /\ document' \in [Contents -> {"none", "pending", "filed"}]
       /\ archived' \subseteq Contents /\ notes' \in [Docs -> Nat]
  <2>1. UNCHANGED rows \/ (rows' = [rows EXCEPT ![Doc(w)] = outcome[w]] /\ pc[w] = "state")
    BY DEF At, storeVars, Work, CheckCancelled, Check, CheckUnread, Download, Create, Extract,
      WriteNote, Finish, DownloadFails, CreateFails, ExtractFails, FinishFails, State,
      StateFails, Record
  <2>2. \/ UNCHANGED document
        \/ \E x \in {"pending", "filed"} : document' = [document EXCEPT ![Content(w)] = x]
    BY DEF storeVars, Work, CheckCancelled, Check, CheckUnread, Download, Create, Extract,
      WriteNote, Finish, DownloadFails, CreateFails, ExtractFails, FinishFails, State,
      StateFails, Record
  <2>3. UNCHANGED archived \/ archived' = archived \cup {Content(w)}
    BY DEF fileVars, Work, CheckCancelled, Check, CheckUnread, Download, Create, Extract,
      WriteNote, Finish, DownloadFails, CreateFails, ExtractFails, FinishFails, State,
      StateFails, Record
  <2>4. UNCHANGED notes \/ notes' = [notes EXCEPT ![Doc(w)] = @ + 1]
    BY DEF fileVars, Work, CheckCancelled, Check, CheckUnread, Download, Create, Extract,
      WriteNote, Finish, DownloadFails, CreateFails, ExtractFails, FinishFails, State,
      StateFails, Record
  <2>5. rows' \in [Docs -> {"none", "imported", "failed"}]
    BY <1>1, <2>1 DEF Shape, TypeOK, OutcomeKnown
  <2>6. document' \in [Contents -> {"none", "pending", "filed"}]
    BY <1>1, <2>2 DEF Shape, TypeOK
  <2>7. archived' \subseteq Contents
    BY <1>1, <2>3 DEF Shape, TypeOK
  <2>8. notes' \in [Docs -> Nat]
    <3>1. notes[Doc(w)] + 1 \in Nat
      BY <1>1 DEF Shape, TypeOK
    <3>2. notes \in [Docs -> Nat]
      BY DEF Shape, TypeOK
    <3>. QED  BY <1>1, <2>4, <3>1, <3>2, Zenon
  <2>. QED  BY <2>5, <2>6, <2>7, <2>8
<1>18. spoiled' \subseteq Docs /\ broken' \subseteq Contents
  <2>1. Broken({w}) \subseteq Contents
    BY BrokenTypes DEF Shape
  <2>. QED
    BY <1>1, <2>1
    DEF Shape, TypeOK, ghosts, Work, CheckCancelled, Check, CheckUnread, Download, Create,
        Extract, WriteNote, Finish, DownloadFails, CreateFails, ExtractFails, FinishFails,
        State, StateFails, Record
<1>19. recorded' \subseteq DOMAIN selected /\ stats' \in [Outcomes -> Nat]
  <2>1. \/ UNCHANGED reportVars
        \/ /\ recorded' = recorded \cup {at[w]}
           /\ stats' = [stats EXCEPT ![outcome[w]] = @ + 1]
    BY DEF Work, CheckCancelled, Check, CheckUnread, Download, Create, Extract,
      WriteNote, Finish, DownloadFails, CreateFails, ExtractFails, FinishFails, State,
      StateFails, Record
  <2>2. recorded' \subseteq DOMAIN selected
    BY <1>1, <2>1 DEF Shape, TypeOK, reportVars
  <2>3. stats' \in [Outcomes -> Nat]
    <3>1. outcome[w] \in Outcomes /\ stats \in [Outcomes -> Nat]
      BY DEF Shape, TypeOK
    <3>2. stats[outcome[w]] + 1 \in Nat
      BY <3>1
    <3>. QED  BY <2>1, <3>1, <3>2, Zenon DEF reportVars
  <2>. QED  BY <2>2, <2>3
<1>. QED
  BY <1>1, <1>2, <1>3, <1>16, <1>17, <1>18, <1>19
  DEF Acts, Shape, TypeOK, Offered, listVars, feedVars

LEMMA NextShape == ASSUME Shape, [Next]_vars PROVE Shape'
<1>1. ASSUME UNCHANGED vars PROVE Shape'
  BY <1>1
  DEF vars, runVars, listVars, feedVars, workerVars, reportVars, storeVars, fileVars, ghosts,
      bounds, Shape, TypeOK, Placed, Offered, OutcomeKnown, Busy
<1>. QED
  BY <1>1, ServerShape, StartShape, SelectShape, PlanShape, FeedShape, CrashShape, WorkShape
  DEF Next

LEMMA ShapeInvariant == Spec => []Shape
BY InitShape, NextShape, PTL DEF Spec

(* The server, the run, the workers, the rows and the files keep their types,  *)
(* for any archive, any number of workers, runs and faults.                    *)
THEOREM ImportTypes == Spec => []TypeOK
<1>1. Shape => TypeOK
  BY DEF Shape
<1>. QED  BY <1>1, ShapeInvariant, PTL

-----------------------------------------------------------------------------
(* What a step leaves alone.                                                   *)

Same(v) ==
  /\ pc'[v] = pc[v] /\ at'[v] = at[v] /\ outcome'[v] = outcome[v] /\ mine'[v] = mine[v]
  /\ Doc(v)' = Doc(v) /\ Content(v)' = Content(v)

LEMMA OthersSame ==
  ASSUME Shape, NEW w \in Workers, Work(w), NEW v \in Workers, v # w
  PROVE  Same(v)
<1>1. UNCHANGED selected
  BY WorkFrame DEF listVars
<1>2. pc'[v] = pc[v] /\ at'[v] = at[v] /\ outcome'[v] = outcome[v] /\ mine'[v] = mine[v]
  BY DEF Shape, TypeOK, Work, CheckCancelled, Check, CheckUnread, Download, Create, Extract,
         WriteNote, Finish, DownloadFails, CreateFails, ExtractFails, FinishFails, State,
         StateFails, Record, GiveUp, Leave, Skip, Goto
<1>. QED  BY <1>1, <1>2 DEF Same, Doc, Content

(* Whoever does not import leaves the rows and the files, and each worker where *)
(* it is, unless it gives it a document or ends it.                            *)
LEMMA ElsewhereSame ==
  ASSUME Shape, [Next]_vars, ~ \E w \in Workers : Work(w)
  PROVE  /\ UNCHANGED <<storeVars, fileVars>>
         /\ \A v \in Workers :
              \/ pc'[v] = "idle" /\ (pc[v] = "idle" \/ Crash)
              \/ pc'[v] = "check" /\ pc[v] = "idle" /\ mine'[v] = mine[v] /\ at'[v] = next
              \/ Busy(v) /\ Same(v)
<1>. DEFINE Rest == \A v \in Workers :
                      \/ pc'[v] = "idle" /\ (pc[v] = "idle" \/ Crash)
                      \/ pc'[v] = "check" /\ pc[v] = "idle" /\ mine'[v] = mine[v] /\ at'[v] = next
                      \/ Busy(v) /\ Same(v)
<1>1. ASSUME UNCHANGED <<workerVars, selected>> PROVE Rest
  BY <1>1 DEF workerVars, Busy, Same, Doc, Content
<1>2. ASSUME NEW w \in Workers, Pick(w), Goto(w, "check"), pc[w] = "idle", UNCHANGED selected
      PROVE  Rest
  BY <1>2 DEF Pick, Goto, Busy, Same, Doc, Content, Shape, TypeOK
<1>3. ASSUME run \in {"listing", "idle", "ended"}, UNCHANGED workerVars PROVE Rest
  BY <1>3 DEF Shape, Placed, Busy, workerVars
<1>4. ASSUME Crash PROVE Rest
  BY <1>4 DEF Crash
<1>. HIDE DEF Rest
<1>5. Rest
  BY <1>1, <1>2, <1>3, <1>4
  DEF Next, vars, Upload, Delete, Start, Select, ListPage, GetDocument, NotFound,
      SelectionFails, LoadLookups, Selecting, Plan, Feed, End, Feeding, Take, NextInTurn,
      Cancel, listVars
<1>6. UNCHANGED <<storeVars, fileVars>>
  BY DEF Next, vars, Upload, Delete, Start, Select, ListPage, GetDocument, NotFound,
      SelectionFails, LoadLookups, Selecting, Plan, Feed, End, Feeding, Take, NextInTurn,
      Cancel, Crash
<1>. QED  BY <1>5, <1>6 DEF Rest

-----------------------------------------------------------------------------
(* Rows.                                                                       *)

(* The copy is made before the note, both before the row.                      *)
Backed ==
  /\ RowIsBacked
  /\ \A w \in Workers :
       /\ pc[w] = "note" => Content(w) \in archived
       /\ pc[w] \in {"finish", "state"} /\ outcome[w] = "imported" =>
            notes[Doc(w)] > 0 /\ Content(w) \in archived

LEMMA NextBacked == ASSUME Shape, Backed, [Next]_vars PROVE Backed'
<1>1. ASSUME ~ \E w \in Workers : Work(w) PROVE Backed'
  BY <1>1, ElsewhereSame DEF Backed, RowIsBacked, Same, storeVars, fileVars
<1>2. ASSUME NEW w \in Workers, Work(w) PROVE Backed'
  <2>. DEFINE Held(v) == /\ pc[v] = "note" => Content(v) \in archived
                         /\ pc[v] \in {"finish", "state"} /\ outcome[v] = "imported" =>
                              notes[Doc(v)] > 0 /\ Content(v) \in archived
  <2>1. /\ Doc(w) \in Docs /\ Content(w) \in Contents /\ Busy(w)
        /\ Content(w) = ContentOf[Doc(w)]
        /\ UNCHANGED selected
    BY <1>2, WorkFrame, ContentTypes DEF Shape, Doc, Content, listVars
  <2>2. archived \subseteq archived' /\ \A d \in Docs : notes[d] > 0 => notes'[d] > 0
    <3>1. UNCHANGED notes \/ notes' = [notes EXCEPT ![Doc(w)] = @ + 1]
      BY <1>2 DEF fileVars, Work, CheckCancelled, Check, CheckUnread, Download, Create, Extract, WriteNote,
      Finish, DownloadFails, CreateFails, ExtractFails, FinishFails, State, StateFails,
      Record
    <3>2. archived \subseteq archived'
      BY <1>2 DEF fileVars, Work, CheckCancelled, Check, CheckUnread, Download, Create, Extract, WriteNote,
      Finish, DownloadFails, CreateFails, ExtractFails, FinishFails, State, StateFails,
      Record
    <3>3. notes \in [Docs -> Nat]
      BY DEF Shape, TypeOK
    <3>4. ASSUME NEW d \in Docs, notes[d] > 0 PROVE notes'[d] > 0
      <4>1. notes'[d] \in {notes[d], notes[d] + 1}
        BY <2>1, <3>1, <3>3
      <4>. QED  BY <3>3, <3>4, <4>1
    <3>. QED  BY <3>2, <3>4
  <2>3. \A v \in Workers \ {w} : Held(v)'
    <3>1. ASSUME NEW v \in Workers \ {w} PROVE Held(v)'
      <4>1. Same(v)
        BY <1>2, OthersSame
      <4>2. Busy(v) => Doc(v) \in Docs
        BY ContentTypes DEF Shape
      <4>. QED  BY <2>2, <4>1, <4>2 DEF Backed, Same, Busy
    <3>. QED  BY <3>1
  <2>4. ASSUME GiveUp(w) PROVE pc'[w] = "idle" \/ outcome'[w] = "failed"
    BY <2>4 DEF GiveUp, Leave, Goto, Shape, TypeOK
  <2>5. Held(w)'
    <3>1. CASE GiveUp(w)
      <4>1. pc'[w] \in {"idle", "state"}
        BY <3>1 DEF GiveUp, Leave, Goto, Shape, TypeOK
      <4>. QED  BY <2>4, <3>1, <4>1
    <3>2. CASE Extract(w) \/ WriteNote(w) \/ Finish(w)
      <4>1. Doc(w)' = Doc(w) /\ Content(w)' = Content(w)
        BY <2>1, <3>2 DEF Extract, WriteNote, Finish, Doc, Content
      <4>2. CASE Extract(w)
        BY <2>1, <4>1, <4>2 DEF Extract, Goto, Shape, TypeOK
      <4>3. CASE WriteNote(w)
        <5>1. notes'[Doc(w)] > 0 /\ Content(w) \in archived'
          BY <2>1, <4>3 DEF WriteNote, At, Backed, Shape, TypeOK
        <5>2. pc'[w] # "note"
          BY <4>3 DEF WriteNote, Goto, Shape, TypeOK
        <5>. QED  BY <4>1, <5>1, <5>2
      <4>4. CASE Finish(w)
        <5>1. notes'[Doc(w)] > 0 /\ Content(w) \in archived'
          BY <2>1, <4>4 DEF Finish, At, Backed, OutcomeKnown, Shape, fileVars
        <5>2. pc'[w] # "note"
          BY <4>4 DEF Finish, Goto, Shape, TypeOK
        <5>. QED  BY <4>1, <5>1, <5>2
      <4>. QED  BY <3>2, <4>2, <4>3, <4>4
    <3>3. CASE ~ (GiveUp(w) \/ Extract(w) \/ WriteNote(w) \/ Finish(w))
      <4>1. pc'[w] \notin {"note", "finish", "state"}
        BY <1>2, <3>3
        DEF Shape, TypeOK, Work, CheckCancelled, Check, CheckUnread, Download, Create,
            DownloadFails, CreateFails, ExtractFails, FinishFails, State, StateFails, Record,
            Leave, Skip, Goto
      <4>. QED  BY <4>1
    <3>. QED  BY <3>1, <3>2, <3>3
  <2>6. RowIsBacked'
    <3>1. CASE UNCHANGED rows
      BY <2>2, <3>1 DEF Backed, RowIsBacked
    <3>2. CASE State(w)
      BY <2>1, <2>2, <3>2 DEF State, At, Backed, RowIsBacked, Shape, TypeOK
    <3>. QED
      BY <1>2, <3>1, <3>2 DEF storeVars, Work, CheckCancelled, Check, CheckUnread, Download, Create, Extract, WriteNote,
      Finish, DownloadFails, CreateFails, ExtractFails, FinishFails, State, StateFails,
      Record
  <2>. QED  BY <2>3, <2>5, <2>6 DEF Backed
<1>. QED  BY <1>1, <1>2

(* A row "imported" is true whatever is interrupted, fails or is run again:    *)
(* the document has its note, and the archive its content.                     *)
THEOREM RowsAreBacked == Spec => []RowIsBacked
<1>1. Init => Backed
  BY DEF Init, Backed, RowIsBacked
<1>2. Backed => RowIsBacked
  BY DEF Backed
<1>. QED  BY <1>1, <1>2, ShapeInvariant, NextBacked, PTL DEF Spec

-----------------------------------------------------------------------------
(* Notes.                                                                      *)

(* The feeder gives each index to one worker; a run that imports has marked    *)
(* what it lists twice.                                                        *)
Places ==
  /\ \A w \in Workers : Busy(w) => at[w] < next
  /\ \A v, w \in Workers : Busy(v) /\ Busy(w) /\ at[v] = at[w] => v = w
  /\ run = "running" =>
       \A i, j \in DOMAIN selected : selected[i] = selected[j] => i = j \/ selected[i] \in spoiled

LEMMA Alone ==
  ASSUME Shape, Places, NEW v \in Workers, NEW w \in Workers, Busy(v), Busy(w), v # w,
         Doc(v) = Doc(w)
  PROVE  Doc(w) \in spoiled
BY DEF Shape, Placed, Places, Doc

LEMMA SpoiledGrows ==
  ASSUME Shape, [Next]_vars
  PROVE  spoiled \subseteq spoiled'
<1>1. ASSUME NEW w \in Workers, Work(w) PROVE spoiled \subseteq spoiled'
  BY <1>1 DEF ghosts, Work, CheckCancelled, Check, CheckUnread, Download, Create, Extract, WriteNote,
      Finish, DownloadFails, CreateFails, ExtractFails, FinishFails, State, StateFails,
      Record
<1>2. CASE Crash \/ LoadLookups
  BY <1>2 DEF Crash, LoadLookups
<1>3. CASE ~ (Crash \/ LoadLookups \/ \E w \in Workers : Work(w))
  BY <1>3
  DEF Next, vars, Upload, Delete, Start, Select, ListPage, GetDocument, NotFound,
      SelectionFails, Selecting, Plan, Feed, End, Feeding, Take, NextInTurn, Cancel, ghosts
<1>. QED  BY <1>1, <1>2, <1>3

LEMMA NextPlaces == ASSUME Shape, Places, [Next]_vars PROVE Places'
<1>. DEFINE Apart == /\ \A w \in Workers : Busy(w) => at[w] < next
                     /\ \A v, w \in Workers : Busy(v) /\ Busy(w) /\ at[v] = at[w] => v = w
            Marked == run = "running" =>
                        \A i, j \in DOMAIN selected :
                          selected[i] = selected[j] => i = j \/ selected[i] \in spoiled
<1>1. ASSUME NEW w \in Workers, Work(w) PROVE Apart'
  <2>1. next' = next
    BY <1>1, WorkFrame DEF feedVars
  <2>2. pc'[w] = "idle" \/ at'[w] = at[w]
    BY <1>1
    DEF Shape, TypeOK, GiveUp, Leave, Skip, Goto, Work, CheckCancelled, Check, CheckUnread, Download, Create, Extract, WriteNote,
      Finish, DownloadFails, CreateFails, ExtractFails, FinishFails, State, StateFails,
      Record
  <2>3. Busy(w)
    BY <1>1, WorkFrame
  <2>4. \A v \in Workers \ {w} : pc'[v] = pc[v] /\ at'[v] = at[v]
    BY <1>1, OthersSame DEF Same
  <2>5. Apart
    BY DEF Places
  <2>6. ASSUME NEW v \in Workers, Busy(v)' PROVE Busy(v) /\ at'[v] = at[v]
    BY <2>2, <2>3, <2>4, <2>6 DEF Busy
  <2>7. \A v \in Workers : Busy(v)' => at'[v] < next'
    BY <2>1, <2>5, <2>6
  <2>8. \A u, v \in Workers : Busy(u)' /\ Busy(v)' /\ at'[u] = at'[v] => u = v
    BY <2>5, <2>6
  <2>. QED  BY <2>7, <2>8
<1>2. ASSUME ~ \E w \in Workers : Work(w) PROVE Apart'
  <2>1. ASSUME NEW w \in Workers, Pick(w), Goto(w, "check"), pc[w] = "idle" PROVE Apart'
    <3>1. /\ next' = next + 1 /\ next \in Nat /\ at'[w] = next
          /\ \A v \in Workers : at[v] \in Nat /\ (v # w => pc'[v] = pc[v] /\ at'[v] = at[v])
      BY <2>1 DEF Pick, Goto, Shape, TypeOK
    <3>2. Apart
      BY DEF Places
    <3>3. ASSUME NEW v \in Workers, v # w, Busy(v)' PROVE at'[v] < next /\ at'[v] = at[v] /\ Busy(v)
      BY <3>1, <3>2, <3>3 DEF Busy
    <3>4. \A v \in Workers : Busy(v)' => at'[v] < next'
      BY <3>1, <3>3
    <3>5. \A u, v \in Workers : Busy(u)' /\ Busy(v)' /\ at'[u] = at'[v] => u = v
      BY <3>1, <3>2, <3>3
    <3>. QED  BY <3>4, <3>5
  <2>2. ASSUME UNCHANGED workerVars, next' = next \/ next' = next + 1 PROVE Apart'
    BY <2>2 DEF workerVars, Places, Busy, Shape, TypeOK
  <2>3. ASSUME Start PROVE Apart'
    BY <2>3 DEF Start, workerVars, Shape, Placed, Busy
  <2>4. ASSUME Crash PROVE Apart'
    BY <2>4 DEF Crash, Busy
  <2>. HIDE DEF Apart
  <2>. QED
    BY <1>2, <2>1, <2>2, <2>3, <2>4
    DEF Next, vars, Upload, Delete, Select, ListPage, GetDocument, NotFound, SelectionFails,
        LoadLookups, Selecting, Plan, Feed, End, Feeding, Take, NextInTurn, Cancel, feedVars
<1>3. Marked'
  <2>1. CASE LoadLookups
    <3>1. selected \in Seq(Docs)
      BY DEF Shape, TypeOK
    <3>2. \A i \in DOMAIN selected : selected[i] \in Docs
      BY <3>1, ElementOfSeq, LenProperties
    <3>. QED  BY <2>1, <3>2 DEF LoadLookups, ListedTwice, listVars
  <2>2. CASE run' # "running"
    BY <2>2
  <2>3. CASE ~ LoadLookups /\ run' = "running"
    <3>1. UNCHANGED selected /\ run = "running"
      <4>1. ASSUME NEW w \in Workers, Work(w) PROVE UNCHANGED selected /\ run = "running"
        BY <2>3, <4>1, WorkFrame DEF listVars
      <4>. QED
        BY <2>3, <4>1
        DEF Next, vars, runVars, Upload, Delete, Start, Select, ListPage, GetDocument,
            NotFound, SelectionFails, Selecting, Plan, Feed, End, Feeding, Importing, Take,
            NextInTurn, Cancel, Crash, listVars
    <3>. QED  BY <3>1, SpoiledGrows DEF Places
  <2>. QED  BY <2>1, <2>2, <2>3
<1>. QED  BY <1>1, <1>2, <1>3 DEF Places

Written(w) == pc[w] \in {"finish", "state"} /\ outcome[w] = "imported"
Unwritten(w) ==
  \/ pc[w] \in {"download", "create", "extract", "note"}
  \/ pc[w] = "state" /\ outcome[w] = "failed"

(* A note belongs to a row or to a worker that is about to write the row, and  *)
(* nobody who may still write one is at a document that has one.               *)
NoteHasRow(d) ==
  notes[d] > 0 => rows[d] = "imported" \/ \E w \in Workers : Written(w) /\ Doc(w) = d
Single ==
  /\ \A d \in Docs \ spoiled : notes[d] <= 1 /\ NoteHasRow(d)
  /\ \A w \in Workers : Unwritten(w) /\ Doc(w) \notin spoiled => notes[Doc(w)] = 0

LEMMA WorkSingle ==
  ASSUME Shape, Places, Single, NEW w \in Workers, Work(w)
  PROVE  Single'
<1>1. /\ Busy(w) /\ Doc(w) \in Docs /\ Content(w) \in Contents /\ UNCHANGED selected
      /\ notes \in [Docs -> Nat]
      /\ rows \in [Docs -> {"none", "imported", "failed"}]
      /\ pc \in [Workers -> Calls] /\ outcome \in [Workers -> Outcomes]
  BY WorkFrame, ContentTypes DEF Shape, TypeOK, listVars
<1>x. PICK x \in Docs : x = Doc(w)
  BY <1>1
<1>2. spoiled \subseteq spoiled'
  BY SpoiledGrows DEF Next
<1>3. ASSUME NEW v \in Workers, v # w
      PROVE  /\ (Written(v)' <=> Written(v)) /\ (Unwritten(v)' <=> Unwritten(v))
             /\ Doc(v)' = Doc(v)
             /\ Written(v) \/ Unwritten(v) => Doc(v) \in Docs /\ (Doc(v) = Doc(w) => Doc(w) \in spoiled)
  <2>1. Same(v)
    BY <1>3, OthersSame
  <2>2. Busy(v) => Doc(v) \in Docs /\ (Doc(v) = Doc(w) => Doc(w) \in spoiled)
    BY <1>1, <1>3, Alone, ContentTypes DEF Shape
  <2>. QED  BY <2>1, <2>2 DEF Same, Written, Unwritten, Busy
<1>4. (\A d \in Docs : notes'[d] = notes[d] /\ (d # Doc(w) => rows'[d] = rows[d]))
        \/ WriteNote(w)
  BY <1>1 DEF At, fileVars, storeVars, Work, CheckCancelled, Check, CheckUnread, Download, Create, Extract, WriteNote,
      Finish, DownloadFails, CreateFails, ExtractFails, FinishFails, State, StateFails,
      Record
(* It is enough to look at the worker and its document.                        *)
<1>5. ASSUME \A d \in Docs \ {Doc(w)} : notes'[d] = notes[d] /\ rows'[d] = rows[d],
             Doc(w) \notin spoiled' => notes'[Doc(w)] <= 1 /\ NoteHasRow(x)',
             Unwritten(w)' => Doc(w)' = Doc(w) /\ (Doc(w) \notin spoiled' => notes'[Doc(w)] = 0),
             Written(w)' \/ ~ Written(w) \/ rows'[Doc(w)] = "imported" \/ Doc(w) \in spoiled'
      PROVE  Single'
  <2>1. ASSUME NEW d \in Docs \ spoiled' PROVE notes'[d] <= 1 /\ NoteHasRow(d)'
    <3>1. CASE d = Doc(w)
      BY <1>x, <1>5, <2>1, <3>1
    <3>2. CASE d # Doc(w)
      BY <1>1, <1>2, <1>3, <1>5, <2>1, <3>2 DEF Single, NoteHasRow
    <3>. QED  BY <3>1, <3>2
  <2>2. ASSUME NEW v \in Workers, Unwritten(v)', Doc(v)' \notin spoiled' PROVE notes'[Doc(v)'] = 0
    <3>1. CASE v = w
      BY <1>5, <2>2, <3>1
    <3>2. CASE v # w
      BY <1>2, <1>3, <1>5, <2>2, <3>2 DEF Single
    <3>. QED  BY <3>1, <3>2
  <2>. QED  BY <2>1, <2>2 DEF Single
<1>6. ASSUME WriteNote(w) PROVE Single'
  <2>1. /\ Doc(w) \notin spoiled => notes[Doc(w)] = 0
        /\ notes' = [notes EXCEPT ![Doc(w)] = notes[Doc(w)] + 1] /\ UNCHANGED <<rows, spoiled, at>>
    BY <1>1, <1>6 DEF WriteNote, At, Single, Unwritten, storeVars, ghosts
  <2>2. Written(w)' /\ ~ Unwritten(w)' /\ Doc(w)' = Doc(w)
    BY <1>1, <1>6 DEF WriteNote, Goto, Written, Unwritten, Doc
  <2>3. Doc(w) \notin spoiled => notes'[Doc(w)] = 1
    BY <1>1, <2>1
  <2>4. NoteHasRow(x)'
    BY <1>x, <2>2 DEF NoteHasRow
  <2>. QED  BY <1>1, <1>5, <2>1, <2>2, <2>3, <2>4
<1>7. ASSUME State(w) PROVE Single'
  <2>1. /\ rows' = [rows EXCEPT ![Doc(w)] = outcome[w]] /\ UNCHANGED <<notes, spoiled>>
        /\ ~ Unwritten(w)' /\ pc[w] = "state"
    BY <1>1, <1>7 DEF State, At, Goto, Unwritten, fileVars, ghosts
  <2>2. outcome[w] = "failed" \/ outcome[w] = "imported"
    BY <2>1 DEF Shape, OutcomeKnown
  <2>3. outcome[w] = "failed" /\ Doc(w) \notin spoiled => notes[Doc(w)] = 0
    BY <2>1 DEF Single, Unwritten
  <2>4. rows'[Doc(w)] = outcome[w]
    BY <1>1, <2>1
  <2>5. Doc(w) \notin spoiled => notes'[Doc(w)] <= 1 /\ NoteHasRow(x)'
    BY <1>1, <1>x, <2>1, <2>2, <2>3, <2>4 DEF Single, NoteHasRow
  <2>. QED  BY <1>1, <1>5, <2>1, <2>2, <2>4, <2>5 DEF Written
<1>8. ASSUME UNCHANGED <<rows, notes>>, ~ Written(w) \/ Written(w)' \/ Doc(w) \in spoiled',
             Doc(w)' = Doc(w) \/ ~ Written(w)', 
             Unwritten(w)' => Doc(w)' = Doc(w) /\ (Doc(w) \notin spoiled' => notes[Doc(w)] = 0)
      PROVE  Single'
  <2>1. Doc(w) \notin spoiled' => notes[Doc(w)] <= 1 /\ NoteHasRow(Doc(w))
    BY <1>1, <1>2 DEF Single
  <2>2. ASSUME Doc(w) \notin spoiled', notes[Doc(w)] > 0, rows[Doc(w)] # "imported"
        PROVE  \E v \in Workers : Written(v)' /\ Doc(v)' = x
    <3>1. PICK v \in Workers : Written(v) /\ Doc(v) = Doc(w)
      BY <2>1, <2>2 DEF NoteHasRow
    <3>2. v = w
      BY <1>2, <1>3, <2>2, <3>1
    <3>3. Written(w)' /\ Doc(w)' = Doc(w)
      BY <1>8, <2>2, <3>1, <3>2
    <3>. QED  BY <1>x, <3>3
  <2>3. Doc(w) \notin spoiled' => NoteHasRow(x)'
    BY <1>8, <1>x, <2>2 DEF NoteHasRow
  <2>4. Doc(w) \notin spoiled' => notes'[Doc(w)] <= 1 /\ NoteHasRow(x)'
    BY <1>8, <2>1, <2>3
  <2>5. /\ \A d \in Docs \ {Doc(w)} : notes'[d] = notes[d] /\ rows'[d] = rows[d]
        /\ Unwritten(w)' => Doc(w)' = Doc(w) /\ (Doc(w) \notin spoiled' => notes'[Doc(w)] = 0)
        /\ Written(w)' \/ ~ Written(w) \/ rows'[Doc(w)] = "imported" \/ Doc(w) \in spoiled'
    BY <1>8
  <2>. QED  BY <1>5, <2>4, <2>5
<1>9. ASSUME Finish(w) PROVE Single'
  <2>1. Written(w)' /\ Written(w) /\ Doc(w)' = Doc(w) /\ ~ Unwritten(w)'
    BY <1>1, <1>9 DEF Finish, At, Goto, Written, Unwritten, Doc, Shape, OutcomeKnown
  <2>. QED  BY <1>8, <1>9, <2>1 DEF Finish, fileVars
<1>10. ASSUME GiveUp(w), Doc(w) \in spoiled' \/ Unwritten(w), UNCHANGED <<rows, notes>>
       PROVE  Single'
  <2>1. ~ Written(w)' /\ (Unwritten(w)' => Doc(w)' = Doc(w))
    BY <1>1, <1>10 DEF GiveUp, Leave, Goto, Written, Unwritten, Doc
  <2>2. Unwritten(w) => ~ Written(w)
    BY DEF Unwritten, Written
  <2>3. Unwritten(w) /\ Doc(w) \notin spoiled' => notes[Doc(w)] = 0
    BY <1>2 DEF Single
  <2>. QED  BY <1>8, <1>10, <2>1, <2>2, <2>3
<1>11. ASSUME pc[w] = "check", notes[Doc(w)] > 0, Doc(w) \notin spoiled
       PROVE  rows[Doc(w)] = "imported"
  <2>1. NoteHasRow(Doc(w))
    BY <1>1, <1>11 DEF Single
  <2>2. SUFFICES ASSUME NEW v \in Workers, Written(v), Doc(v) = Doc(w) PROVE FALSE
    BY <1>11, <2>1 DEF NoteHasRow
  <2>3. v # w
    BY <1>11, <2>2 DEF Written
  <2>. QED  BY <1>3, <1>11, <2>2, <2>3
<1>12. ASSUME Check(w) \/ CheckUnread(w) PROVE Single'
  <2>1. pc[w] = "check" /\ UNCHANGED <<rows, notes>> /\ ~ Written(w)
    BY <1>12 DEF Check, CheckUnread, At, storeVars, fileVars, Written
  <2>2. Unwritten(w)' => Doc(w)' = Doc(w) /\ (rows[Doc(w)] # "imported" \/ CheckUnread(w))
    BY <1>1, <1>12 DEF Check, CheckUnread, Skip, Goto, Unwritten, Doc
  <2>3. ~ Written(w)'
    BY <1>1, <1>12 DEF Check, CheckUnread, Skip, Goto, Written
  <2>4. CheckUnread(w) /\ notes[Doc(w)] > 0 => Doc(w) \in spoiled'
    BY DEF CheckUnread
  <2>5. Unwritten(w)' /\ Doc(w) \notin spoiled' => notes[Doc(w)] = 0
    BY <1>1, <1>2, <1>11, <2>1, <2>2, <2>4
  <2>. QED  BY <1>8, <2>1, <2>2, <2>3, <2>5
<1>13. ASSUME Download(w) \/ Create(w) \/ Extract(w) PROVE Single'
  <2>1. /\ UNCHANGED <<rows, notes, at>> /\ Unwritten(w) /\ ~ Written(w) /\ ~ Written(w)'
    BY <1>1, <1>13
    DEF Download, Create, Extract, At, Goto, storeVars, fileVars, Unwritten, Written
  <2>2. Doc(w)' = Doc(w)
    BY <1>1, <2>1 DEF Doc
  <2>3. Doc(w) \notin spoiled' => notes[Doc(w)] = 0
    BY <1>2, <2>1 DEF Single
  <2>. QED  BY <1>8, <2>1, <2>2, <2>3
<1>14. ASSUME DownloadFails(w) \/ CreateFails(w) \/ ExtractFails(w) \/ FinishFails(w)
       PROVE  Single'
  <2>1. GiveUp(w) /\ UNCHANGED <<rows, notes>>
    BY <1>14
    DEF DownloadFails, CreateFails, ExtractFails, FinishFails, storeVars, fileVars
  <2>2. Doc(w) \in spoiled' \/ Unwritten(w)
    BY <1>14 DEF DownloadFails, CreateFails, ExtractFails, FinishFails, At, Unwritten
  <2>. QED  BY <1>10, <2>1, <2>2
<1>15. ASSUME StateFails(w) \/ CheckCancelled(w) \/ Record(w) PROVE Single'
  <2>1. UNCHANGED <<rows, notes>> /\ ~ Unwritten(w)' /\ ~ Written(w)'
    BY <1>1, <1>15
    DEF StateFails, CheckCancelled, Record, Leave, Goto, storeVars, fileVars, Unwritten, Written
  <2>2. ~ Written(w) \/ Doc(w) \in spoiled'
    BY <1>15 DEF StateFails, CheckCancelled, Record, At, Written
  <2>. QED  BY <1>8, <2>1, <2>2
<1>. QED
  BY <1>6, <1>7, <1>9, <1>12, <1>13, <1>14, <1>15 DEF Work

LEMMA NextSingle == ASSUME Shape, Places, Single, [Next]_vars PROVE Single'
<1>1. ASSUME NEW w \in Workers, Work(w) PROVE Single'
  BY <1>1, WorkSingle
<1>2. ASSUME ~ \E w \in Workers : Work(w), ~ Crash PROVE Single'
  <2>1. \A w \in Workers : (Written(w)' <=> Written(w)) /\ (Unwritten(w)' <=> Unwritten(w))
                             /\ (Written(w) \/ Unwritten(w) => Doc(w)' = Doc(w))
    BY <1>2, ElsewhereSame DEF Same, Written, Unwritten
  <2>2. UNCHANGED <<rows, notes>> /\ spoiled \subseteq spoiled'
    BY <1>2, ElsewhereSame, SpoiledGrows DEF storeVars, fileVars
  <2>. QED  BY <2>1, <2>2 DEF Single, NoteHasRow
<1>3. ASSUME Crash PROVE Single'
  <2>1. \A w \in Workers : ~ Unwritten(w)'
    BY <1>3 DEF Crash, Unwritten
  <2>2. UNCHANGED <<rows, notes>> /\ spoiled \subseteq spoiled'
    BY <1>3, SpoiledGrows DEF Crash, storeVars, fileVars, Next
  <2>3. \A w \in Workers : Written(w) => Doc(w) \in spoiled'
    BY <1>3 DEF Crash, Written
  <2>. QED  BY <2>1, <2>2, <2>3 DEF Single, NoteHasRow
<1>. QED  BY <1>1, <1>2, <1>3

(* However often the import is run, whatever is interrupted and whichever      *)
(* documents share their bytes, a document gets one note, but for the          *)
(* exceptions OneNoteEach names.                                               *)
THEOREM NotesAreSingle == Spec => []OneNoteEach
<1>1. Init => Places /\ Single
  BY DEF Init, Places, Busy, Single, NoteHasRow, Unwritten
<1>2. Shape /\ Single => OneNoteEach
  BY DEF Single, OneNoteEach
<1>3. Shape /\ Places /\ Single /\ [Next]_vars => (Places /\ Single)'
  BY NextPlaces, NextSingle
<1>. QED  BY <1>1, <1>2, <1>3, ShapeInvariant, PTL DEF Spec

-----------------------------------------------------------------------------
(* Documents of the store.                                                     *)

(* The worker that made a content's document keeps it until it is filed or its *)
(* import broken off.                                                          *)
Filing(w) == mine[w] /\ pc[w] \in {"extract", "note", "finish"}
Settled(c) == document[c] = "filed" \/ c \in broken
Filed ==
  /\ \A c \in Contents : document[c] = "pending" =>
       c \in broken \/ \E w \in Workers : Filing(w) /\ Content(w) = c
  /\ \A w \in Workers : mine[w] =>
       Filing(w) \/ (pc[w] \in {"state", "record"} /\ Settled(Content(w)))

LEMMA WorkFiled ==
  ASSUME Shape, Filed, NEW w \in Workers, Work(w)
  PROVE  Filed'
<1>1. /\ Busy(w) /\ Content(w) \in Contents /\ UNCHANGED selected
      /\ document \in [Contents -> {"none", "pending", "filed"}]
      /\ pc \in [Workers -> Calls] /\ mine \in [Workers -> BOOLEAN]
  BY WorkFrame, ContentTypes DEF Shape, TypeOK, listVars
<1>x. PICK x \in Contents : x = Content(w)
  BY <1>1
<1>2. broken \subseteq broken'
  BY DEF ghosts, Work, CheckCancelled, Check, CheckUnread, Download, Create, Extract, WriteNote,
      Finish, DownloadFails, CreateFails, ExtractFails, FinishFails, State, StateFails,
      Record
<1>3. ASSUME NEW v \in Workers, v # w
      PROVE  Same(v) /\ (Filing(v)' <=> Filing(v)) /\ Content(v)' = Content(v)
  BY <1>3, OthersSame DEF Same, Filing
<1>4. \A c \in Contents : document[c] = "filed" => document'[c] = "filed"
  BY <1>1 DEF storeVars, Work, CheckCancelled, Check, CheckUnread, Download, Create, Extract, WriteNote,
      Finish, DownloadFails, CreateFails, ExtractFails, FinishFails, State, StateFails,
      Record
<1>5. ASSUME NEW v \in Workers, v # w, mine'[v]
      PROVE  Filing(v)' \/ (pc'[v] \in {"state", "record"} /\ Settled(Content(v))')
  <2>1. Same(v) /\ (Filing(v)' <=> Filing(v)) /\ Content(v)' = Content(v)
    BY <1>3, <1>5
  <2>2. mine[v] /\ (Filing(v) \/ (pc[v] \in {"state", "record"} /\ Settled(Content(v))))
    BY <1>5, <2>1 DEF Filed, Same
  <2>3. pc[v] \in {"state", "record"} => Content(v) \in Contents
    BY ContentTypes DEF Shape, Busy
  <2>. QED  BY <1>2, <1>4, <2>1, <2>2, <2>3 DEF Settled, Same
(* It is enough to look at the worker and its content.                         *)
<1>6. ASSUME \A c \in Contents \ {x} : document'[c] = document[c],
             document'[x] = "pending" =>
               \/ x \in broken'
               \/ Filing(w)' /\ Content(w)' = x
               \/ document[x] = "pending" /\ ~ Filing(w),
             mine'[w] =>
               \/ Filing(w)'
               \/ pc'[w] \in {"state", "record"} /\ Settled(Content(w))'
      PROVE  Filed'
  <2>1. ASSUME NEW c \in Contents, document'[c] = "pending", c \notin broken'
        PROVE  \E v \in Workers : Filing(v)' /\ Content(v)' = c
    <3>1. CASE Filing(w)' /\ Content(w)' = c
      BY <3>1
    <3>2. CASE ~ (Filing(w)' /\ Content(w)' = c)
      <4>1. document[c] = "pending" /\ (c = x => ~ Filing(w))
        BY <1>6, <2>1, <3>2
      <4>2. PICK v \in Workers : Filing(v) /\ Content(v) = c
        BY <1>2, <2>1, <4>1 DEF Filed
      <4>3. v # w
        BY <1>x, <4>1, <4>2
      <4>. QED  BY <1>3, <4>2, <4>3
    <3>. QED  BY <3>1, <3>2
  <2>. QED  BY <1>5, <1>6, <2>1 DEF Filed
(* A worker without the document does not change what there is of it.          *)
<1>7. ASSUME ~ mine[w], ~ mine'[w], UNCHANGED document PROVE Filed'
  BY <1>6, <1>7 DEF Filing
<1>8. ASSUME Create(w) PROVE Filed'
  <2>1. ~ mine[w]
    BY <1>8 DEF Create, At, Filed, Filing
  <2>2. /\ pc'[w] = "extract" /\ Content(w)' = Content(w)
        /\ mine'[w] <=> document[x] = "none"
        /\ \A c \in Contents \ {x} : document'[c] = document[c]
        /\ document[x] # "none" => document'[x] = document[x]
    BY <1>1, <1>x, <1>8 DEF Create, Goto, Doc, Content
  <2>. QED  BY <1>6, <1>x, <2>1, <2>2 DEF Filing
<1>9. ASSUME Extract(w) \/ WriteNote(w) PROVE Filed'
  <2>1. /\ UNCHANGED <<document, mine>> /\ Content(w)' = Content(w)
        /\ mine[w] => Filing(w) /\ Filing(w)'
    BY <1>1, <1>9
    DEF Extract, WriteNote, At, Goto, storeVars, Filing, Filed, Doc, Content
  <2>. QED  BY <1>6, <1>7, <1>x, <2>1
<1>10. ASSUME Finish(w) PROVE Filed'
  <2>1. /\ document' = [document EXCEPT ![x] = "filed"] /\ pc'[w] = "state"
        /\ Content(w)' = x
    BY <1>1, <1>x, <1>10 DEF Finish, Goto, Doc, Content
  <2>2. document'[x] = "filed" /\ \A c \in Contents \ {x} : document'[c] = document[c]
    BY <1>1, <2>1
  <2>. QED  BY <1>6, <2>1, <2>2 DEF Settled
<1>11. ASSUME GiveUp(w), UNCHANGED document, mine[w] => x \in broken' PROVE Filed'
  <2>1. mine'[w] => mine[w] /\ pc'[w] = "state" /\ Content(w)' = x
    BY <1>1, <1>x, <1>11 DEF GiveUp, Leave, Goto, Doc, Content
  <2>. QED  BY <1>6, <1>11, <2>1 DEF Settled, Filing
<1>12. ASSUME DownloadFails(w) PROVE Filed'
  <2>1. ~ mine[w]
    BY <1>12 DEF DownloadFails, At, Filed, Filing
  <2>. QED  BY <1>11, <1>12, <2>1 DEF DownloadFails, storeVars
<1>13. ASSUME ExtractFails(w) \/ FinishFails(w) PROVE Filed'
  <2>1. mine[w] => x \in broken'
    BY <1>x, <1>13 DEF ExtractFails, FinishFails, At, Broken
  <2>. QED  BY <1>11, <1>13, <2>1 DEF ExtractFails, FinishFails, storeVars
<1>14. ASSUME CreateFails(w) PROVE Filed'
  <2>1. ~ mine[w]
    BY <1>14 DEF CreateFails, At, Filed, Filing
  <2>2. ~ mine'[w]
    BY <1>1, <1>14, <2>1 DEF CreateFails, GiveUp, Leave
  <2>3. \/ UNCHANGED document
        \/ x \in broken' /\ \A c \in Contents \ {x} : document'[c] = document[c]
    BY <1>1, <1>x, <1>14 DEF CreateFails
  <2>. QED  BY <1>6, <1>7, <2>1, <2>2, <2>3
<1>15. ASSUME CheckCancelled(w) \/ Check(w) \/ CheckUnread(w) \/ Download(w) PROVE Filed'
  <2>1. ~ mine[w] /\ UNCHANGED document
    BY <1>15 DEF CheckCancelled, Check, CheckUnread, Download, At, Filed, Filing, storeVars
  <2>2. ~ mine'[w]
    BY <1>1, <1>15, <2>1 DEF CheckCancelled, Check, CheckUnread, Download, Leave, Skip
  <2>. QED  BY <1>7, <2>1, <2>2
<1>16. ASSUME State(w) \/ StateFails(w) PROVE Filed'
  <2>1. /\ UNCHANGED <<document, mine>> /\ ~ Filing(w) /\ pc'[w] = "record"
        /\ Content(w)' = x
    BY <1>1, <1>x, <1>16 DEF State, StateFails, At, Goto, storeVars, Filing, Doc, Content
  <2>2. mine[w] => Settled(x)
    BY <1>x, <2>1 DEF Filed
  <2>. QED  BY <1>2, <1>6, <2>1, <2>2 DEF Settled
<1>17. ASSUME Record(w) PROVE Filed'
  <2>1. ~ mine'[w] /\ ~ Filing(w) /\ UNCHANGED document
    BY <1>1, <1>17 DEF Record, At, Leave, storeVars, Filing
  <2>. QED  BY <1>6, <2>1
<1>. QED
  BY <1>8, <1>9, <1>10, <1>12, <1>13, <1>14, <1>15, <1>16, <1>17 DEF Work

LEMMA NextFiled == ASSUME Shape, Filed, [Next]_vars PROVE Filed'
<1>1. ASSUME NEW w \in Workers, Work(w) PROVE Filed'
  BY <1>1, WorkFiled
<1>2. ASSUME ~ \E w \in Workers : Work(w), ~ Crash PROVE Filed'
  <2>1. UNCHANGED <<document, broken>>
    <3>1. UNCHANGED broken
      BY <1>2
      DEF Next, vars, Upload, Delete, Start, Select, ListPage, GetDocument, NotFound,
          SelectionFails, LoadLookups, Selecting, Plan, Feed, End, Feeding, Take, NextInTurn,
          Cancel, ghosts
    <3>. QED  BY <1>2, <3>1, ElsewhereSame DEF storeVars
  <2>2. \A w \in Workers : Filing(w) => Filing(w)' /\ Content(w)' = Content(w)
    BY <1>2, ElsewhereSame DEF Same, Filing
  <2>3. ASSUME NEW w \in Workers, mine'[w]
        PROVE  Filing(w)' \/ (pc'[w] \in {"state", "record"} /\ Settled(Content(w))')
    <3>1. ~ (pc[w] = "idle" /\ mine[w])
      BY DEF Filed, Filing
    <3>2. CASE Busy(w) /\ Same(w)
      BY <2>1, <2>3, <3>2 DEF Same, Filed, Filing, Settled
    <3>3. CASE pc'[w] = "idle" /\ pc[w] = "idle"
      <4>1. mine'[w] = mine[w]
        BY <1>2, <3>3
        DEF Next, vars, Upload, Delete, Start, Select, ListPage, GetDocument, NotFound,
            SelectionFails, LoadLookups, Selecting, Plan, Feed, End, Feeding, Take,
            NextInTurn, Pick, Cancel, workerVars
      <4>. QED  BY <2>3, <3>1, <3>3, <4>1
    <3>. QED  BY <1>2, <2>3, <3>1, <3>2, <3>3, ElsewhereSame
  <2>. QED  BY <2>1, <2>2, <2>3 DEF Filed
<1>3. ASSUME Crash PROVE Filed'
  <2>1. UNCHANGED document /\ \A w \in Workers : ~ mine'[w]
    BY <1>3 DEF Crash, storeVars
  <2>2. broken \subseteq broken' /\ \A w \in Workers : Filing(w) => Content(w) \in broken'
    BY <1>3 DEF Crash, Broken, Filing
  <2>. QED  BY <2>1, <2>2 DEF Filed
<1>. QED  BY <1>1, <1>2, <1>3

(* Among documents with the same bytes, the store's document is filed by the   *)
(* worker that made it, whatever the others do.                                *)
THEOREM DocumentsAreFiled == Spec => []DocumentIsFiled
<1>1. Init => Filed
  BY DEF Init, Filed
<1>2. Filed => DocumentIsFiled
  BY DEF Filed, DocumentIsFiled, Filing
<1>. QED  BY <1>1, <1>2, ShapeInvariant, NextFiled, PTL DEF Spec

-----------------------------------------------------------------------------
(* The report.                                                                 *)

(* Until documents are taken there is nothing to report; from then on each     *)
(* index the feeder has given away is in the report or with a worker, unless   *)
(* the run returns an error.                                                   *)
Sum == stats["imported"] + stats["skipped"] + stats["failed"]
Begun == run \in {"listing", "lookups"} \/ (run = "running" /\ mode = "plan")
Counted ==
  /\ Begun => next = 1 /\ feed = "ready" /\ recorded = {} /\ stats = NoStats
  /\ run = "running" =>
       /\ Sum = Cardinality(recorded)
       /\ \A i \in recorded : i < next
       /\ \A w \in Workers : Busy(w) => at[w] \notin recorded
       /\ ~ err => \A i \in 1..(next - 1) :
                     i \in recorded \/ \E w \in Workers : Busy(w) /\ at[w] = i
       /\ feed = "closed" /\ ~ err => next > Len(selected)
  /\ ReportIsComplete

(* A worker leaves a document with a report or an error.                       *)
LEMMA WorkReports ==
  ASSUME Shape, NEW w \in Workers, Work(w)
  PROVE  /\ Record(w) \/ (UNCHANGED reportVars /\ (pc'[w] # "idle" \/ err' = TRUE))
         /\ err = TRUE => err' = TRUE
         /\ pc'[w] = "idle" \/ at'[w] = at[w]
<1>. USE DEF Shape, TypeOK
<1>1. ASSUME GiveUp(w)
      PROVE  /\ pc'[w] # "idle" \/ err' = TRUE
             /\ err = TRUE => err' = TRUE
             /\ pc'[w] = "idle" \/ at'[w] = at[w]
  BY <1>1 DEF GiveUp, Leave, Goto
<1>2. CASE DownloadFails(w) \/ CreateFails(w) \/ ExtractFails(w) \/ FinishFails(w)
  BY <1>1, <1>2 DEF DownloadFails, CreateFails, ExtractFails, FinishFails
<1>3. CASE CheckCancelled(w) \/ Check(w) \/ CheckUnread(w) \/ Download(w) \/ Create(w)
  BY <1>3 DEF CheckCancelled, Check, CheckUnread, Download, Create, Skip, Leave, Goto
<1>4. CASE Extract(w) \/ WriteNote(w) \/ Finish(w) \/ State(w) \/ StateFails(w)
  BY <1>4 DEF Extract, WriteNote, Finish, State, StateFails, Goto
<1>5. CASE Record(w)
  BY <1>5 DEF Record, Leave, Goto
<1>. QED  BY <1>2, <1>3, <1>4, <1>5 DEF Work

LEMMA RecordSum ==
  ASSUME Shape, Counted, Places, NEW w \in Workers, Record(w)
  PROVE  Sum' = Cardinality(recorded')
<1>1. /\ Busy(w) /\ run = "running" /\ at[w] \in Nat
      /\ outcome[w] \in Outcomes /\ stats \in [Outcomes -> Nat]
      /\ recorded' = recorded \cup {at[w]} /\ stats' = [stats EXCEPT ![outcome[w]] = @ + 1]
  BY DEF Record, At, Importing, Busy, Shape, TypeOK
<1>2. Sum' = Sum + 1
  BY <1>1 DEF Sum, Outcomes
<1>3. IsFiniteSet(recorded)
  <2>1. recorded \in SUBSET (1..Len(selected)) /\ Len(selected) \in Nat
    BY LenProperties DEF Shape, TypeOK
  <2>2. 1 \in Int /\ Len(selected) \in Int
    BY <2>1
  <2>3. IsFiniteSet(1..Len(selected))
    BY <2>2, FS_Interval
  <2>. QED  BY <2>1, <2>3, FS_Subset
<1>4. Cardinality(recorded') = Cardinality(recorded) + 1
  BY <1>1, <1>3, FS_AddElement DEF Counted
<1>. QED  BY <1>1, <1>2, <1>4 DEF Counted

LEMMA WorkCounted ==
  ASSUME Shape, Places, Counted, NEW w \in Workers, Work(w)
  PROVE  Counted'
<1>1. /\ Busy(w) /\ run = "running" /\ mode # "plan"
      /\ UNCHANGED <<run, mode, selected, next, feed>>
  BY WorkFrame DEF Shape, Placed, listVars, feedVars
<1>2. \A v \in Workers : v # w => pc'[v] = pc[v] /\ at'[v] = at[v]
  BY OthersSame DEF Same
<1>3. /\ Record(w) \/ (UNCHANGED reportVars /\ (pc'[w] # "idle" \/ err' = TRUE))
      /\ err = TRUE => err' = TRUE
      /\ pc'[w] = "idle" \/ at'[w] = at[w]
  BY WorkReports
<1>4. err \in BOOLEAN /\ at[w] < next /\ at[w] \in DOMAIN selected
  BY <1>1 DEF Shape, TypeOK, Placed, Places
<1>5. CASE Record(w)
  <2>1. recorded' = recorded \cup {at[w]} /\ pc'[w] = "idle"
    BY <1>5 DEF Record, Leave, Goto, Shape, TypeOK
  <2>2. \A v \in Workers : Busy(v)' => v # w /\ Busy(v) /\ at'[v] = at[v] /\ at[v] # at[w]
    BY <1>1, <1>2, <2>1 DEF Busy, Places
  <2>3. \A v \in Workers : Busy(v) => v = w \/ (Busy(v)' /\ at'[v] = at[v])
    BY <1>2 DEF Busy
  <2>4. Sum' = Cardinality(recorded')
    BY <1>5, RecordSum
  <2>5. \A i \in recorded' : i < next
    BY <1>1, <1>4, <2>1 DEF Counted
  <2>6. \A v \in Workers : Busy(v)' => at'[v] \notin recorded'
    BY <1>1, <2>1, <2>2 DEF Counted
  <2>7. ASSUME ~ err', NEW i \in 1..(next - 1)
        PROVE  i \in recorded' \/ \E v \in Workers : Busy(v)' /\ at'[v] = i
    <3>1. i \in recorded \/ \E v \in Workers : Busy(v) /\ at[v] = i
      BY <1>1, <1>3, <1>4, <2>7 DEF Counted
    <3>. QED  BY <2>1, <2>3, <3>1
  <2>8. feed = "closed" /\ ~ err' => next > Len(selected)
    BY <1>1, <1>3, <1>4 DEF Counted
  <2>. QED  BY <1>1, <2>4, <2>5, <2>6, <2>7, <2>8 DEF Counted, Begun, ReportIsComplete
<1>6. CASE UNCHANGED reportVars /\ (pc'[w] # "idle" \/ err' = TRUE)
  <2>1. recorded' = recorded /\ stats' = stats /\ Sum' = Sum
    BY <1>6 DEF reportVars, Sum
  <2>2. \A v \in Workers : Busy(v)' => Busy(v) /\ at'[v] = at[v]
    BY <1>1, <1>2, <1>3 DEF Busy
  <2>3. ASSUME ~ err', NEW i \in 1..(next - 1)
        PROVE  i \in recorded' \/ \E v \in Workers : Busy(v)' /\ at'[v] = i
    <3>1. i \in recorded \/ \E v \in Workers : Busy(v) /\ at[v] = i
      BY <1>1, <1>3, <1>4, <2>3 DEF Counted
    <3>2. \A v \in Workers : Busy(v) => Busy(v)' /\ at'[v] = at[v]
      BY <1>2, <1>3, <1>6, <2>3 DEF Busy
    <3>. QED  BY <2>1, <3>1, <3>2
  <2>4. feed = "closed" /\ ~ err' => next > Len(selected)
    BY <1>1, <1>3, <1>4 DEF Counted
  <2>5. \A v \in Workers : Busy(v)' => at'[v] \notin recorded'
    BY <1>1, <2>1, <2>2 DEF Counted
  <2>. QED  BY <1>1, <2>1, <2>3, <2>4, <2>5 DEF Counted, Begun, ReportIsComplete
<1>. QED  BY <1>3, <1>5, <1>6

(* The feeder and the loop.                                                    *)
LEMMA FeedCounted ==
  ASSUME Shape, Places, Counted, Feed \/ \E w \in Workers : Take(w) \/ NextInTurn(w)
  PROVE  Counted'
<1>1. /\ run = "running" /\ mode # "plan"
      /\ UNCHANGED <<run, mode, selected, recorded, stats>> /\ Sum' = Sum
      /\ err \in BOOLEAN /\ next \in Nat \ {0} /\ Len(selected) \in Nat
      /\ recorded \subseteq Nat
  <2>1. DOMAIN selected = 1..Len(selected) /\ Len(selected) \in Nat
    BY LenProperties DEF Shape, TypeOK
  <2>. QED
    BY <2>1 DEF Feed, Take, NextInTurn, Feeding, Importing, listVars, reportVars, Sum, Shape, TypeOK
<1>2. ASSUME Feed PROVE Counted'
  <2>1. /\ UNCHANGED <<next, workerVars>>
        /\ feed' = IF next > Len(selected) \/ cancelled THEN "closed" ELSE "offering"
        /\ err' = (err \/ (cancelled /\ next <= Len(selected)))
    BY <1>2 DEF Feed
  <2>2. ~ err' => ~ err
    BY <2>1
  <2>4. ~ err' /\ feed' = "closed" => next > Len(selected)
    <3>1. CASE next > Len(selected)
      BY <3>1
    <3>2. CASE ~ (next > Len(selected))
      <4>1. next <= Len(selected)
        BY <1>1, <3>2
      <4>2. ~ err' => ~ cancelled
        BY <2>1, <4>1
      <4>. QED  BY <2>1, <3>2, <4>2
    <3>. QED  BY <3>1, <3>2
  <2>3. \A v \in Workers : (Busy(v)' <=> Busy(v)) /\ at'[v] = at[v]
    BY <2>1 DEF Busy, workerVars
  <2>. QED  BY <1>1, <2>1, <2>2, <2>4, <2>3 DEF Counted, Begun, ReportIsComplete
<1>3. ASSUME NEW w \in Workers, Pick(w), Goto(w, "check"), pc[w] = "idle", err' = err,
             feed' = "ready"
      PROVE  Counted'
  <2>1. /\ next' = next + 1 /\ at'[w] = next /\ Busy(w)'
        /\ \A v \in Workers : v # w => (Busy(v)' <=> Busy(v)) /\ at'[v] = at[v]
    BY <1>3 DEF Pick, Goto, Busy, Shape, TypeOK
  <2>2. \A i \in recorded : i < next' /\ i # next
    BY <1>1, <2>1 DEF Counted
  <2>3. \A v \in Workers : Busy(v)' => at'[v] \notin recorded
    BY <1>1, <2>1, <2>2 DEF Counted
  <2>4. ASSUME ~ err', NEW i \in 1..(next' - 1)
        PROVE  i \in recorded \/ \E v \in Workers : Busy(v)' /\ at'[v] = i
    <3>1. CASE i = next
      BY <2>1, <3>1
    <3>2. CASE i # next
      <4>1. i \in 1..(next - 1)
        BY <1>1, <2>1, <2>4, <3>2
      <4>2. i \in recorded \/ \E v \in Workers : Busy(v) /\ at[v] = i
        BY <1>1, <1>3, <2>4, <4>1 DEF Counted
      <4>. QED  BY <1>3, <2>1, <4>2 DEF Busy
    <3>. QED  BY <3>1, <3>2
  <2>. QED  BY <1>1, <1>3, <2>2, <2>3, <2>4 DEF Counted, Begun, ReportIsComplete
<1>4. ASSUME UNCHANGED workerVars, next' = next + 1, err' = TRUE PROVE Counted'
  <2>1. \A i \in recorded : i < next'
    BY <1>1, <1>4 DEF Counted
  <2>2. \A v \in Workers : (Busy(v)' <=> Busy(v)) /\ at'[v] = at[v]
    BY <1>4 DEF Busy, workerVars
  <2>. QED  BY <1>1, <1>4, <2>1, <2>2 DEF Counted, Begun, ReportIsComplete
<1>5. ASSUME UNCHANGED <<workerVars, next, err>>, next > Len(selected) \/ err PROVE Counted'
  <2>1. \A v \in Workers : (Busy(v)' <=> Busy(v)) /\ at'[v] = at[v]
    BY <1>5 DEF Busy, workerVars
  <2>. QED  BY <1>1, <1>5, <2>1 DEF Counted, Begun, ReportIsComplete
<1>. QED  BY <1>2, <1>3, <1>4, <1>5 DEF Take, NextInTurn

LEMMA NextCounted == ASSUME Shape, Places, Counted, [Next]_vars PROVE Counted'
<1>1. ASSUME NEW w \in Workers, Work(w) PROVE Counted'
  BY <1>1, WorkCounted
<1>2. ASSUME Feed \/ \E w \in Workers : Take(w) \/ NextInTurn(w) PROVE Counted'
  BY <1>2, FeedCounted
<1>3. ASSUME UNCHANGED <<run, mode, err, selected, feedVars, workerVars, reportVars>>
      PROVE  Counted'
  BY <1>3
  DEF Counted, Begun, ReportIsComplete, Sum, Busy, feedVars, workerVars, reportVars
<1>4. ASSUME Start PROVE Counted'
  BY <1>4 DEF Start, Counted, Begun, ReportIsComplete
<1>5. ASSUME ListPage \/ GetDocument PROVE Counted'
  BY <1>5
  DEF ListPage, GetDocument, Selecting, Counted, Begun, ReportIsComplete, feedVars, reportVars
<1>6. ASSUME NotFound \/ SelectionFails PROVE Counted'
  BY <1>6 DEF NotFound, SelectionFails, Counted, Begun, ReportIsComplete
<1>7. ASSUME LoadLookups PROVE Counted'
  <2>1. /\ run = "lookups" /\ run' = "running" /\ next = 1 /\ feed = "ready" /\ recorded = {}
        /\ stats = NoStats
        /\ UNCHANGED <<selected, next, feed, workerVars, recorded, stats>>
    BY <1>7 DEF LoadLookups, listVars, feedVars, reportVars, Counted, Begun
  <2>2. Sum' = 0
    BY <2>1 DEF Sum, NoStats, Outcomes
  <2>3. Cardinality(recorded') = 0
    BY <2>1, FS_EmptySet
  <2>. QED  BY <2>1, <2>2, <2>3 DEF Counted, Begun, ReportIsComplete
<1>8. ASSUME Plan PROVE Counted'
  <2>1. run' = "ended" /\ selected' = selected /\ stats = NoStats
    BY <1>8 DEF Plan, listVars, Counted, Begun
  <2>2. \/ err' = TRUE
        \/ /\ stats' = [stats EXCEPT !["skipped"] = Len(selected)]
           /\ recorded' = DOMAIN selected
    BY <1>8 DEF Plan
  <2>3. Len(selected) \in Nat
    BY LenProperties DEF Shape, TypeOK
  <2>4. stats' = [stats EXCEPT !["skipped"] = Len(selected)] =>
          stats'["imported"] + stats'["skipped"] + stats'["failed"] = Len(selected)
    BY <2>1, <2>3 DEF NoStats, Outcomes
  <2>. QED  BY <2>1, <2>2, <2>4 DEF Counted, Begun, ReportIsComplete
<1>9. ASSUME End PROVE Counted'
  <2>1. /\ run = "running" /\ run' = "ended" /\ feed = "closed" /\ mode # "plan"
        /\ \A w \in Workers : ~ Busy(w)
        /\ UNCHANGED <<err, selected, recorded, stats>>
    BY <1>9 DEF End, Importing, Busy, listVars, reportVars
  <2>2. /\ Len(selected) \in Nat /\ DOMAIN selected = 1..Len(selected)
        /\ recorded \subseteq DOMAIN selected /\ next \in Nat
    BY LenProperties DEF Shape, TypeOK
  <2>3. ~ err => recorded = DOMAIN selected
    <3>1. SUFFICES ASSUME ~ err PROVE \A i \in DOMAIN selected : i \in recorded
      BY <2>2
    <3>2. next > Len(selected)
      BY <2>1, <3>1 DEF Counted
    <3>3. \A i \in DOMAIN selected : i \in 1..(next - 1)
      BY <2>2, <3>2
    <3>. QED  BY <2>1, <3>1, <3>3 DEF Counted
  <2>5. 1 \in Int /\ Len(selected) \in Int
    BY <2>2
  <2>6. Cardinality(1..Len(selected)) = Len(selected)
    <3>1. Cardinality(1..Len(selected)) = IF 1 > Len(selected) THEN 0 ELSE Len(selected) - 1 + 1
      BY <2>5, FS_Interval
    <3>. QED  BY <2>2, <3>1
  <2>4. ~ err => Sum = Len(selected)
    BY <2>1, <2>2, <2>3, <2>6 DEF Counted
  <2>. QED  BY <2>1, <2>3, <2>4 DEF Counted, Begun, ReportIsComplete, Sum
<1>10. ASSUME Crash PROVE Counted'
  BY <1>10 DEF Crash, Counted, Begun, ReportIsComplete
<1>. QED
  BY <1>1, <1>2, <1>3, <1>4, <1>5, <1>6, <1>7, <1>8, <1>9, <1>10
  DEF Next, vars, runVars, listVars, Upload, Delete, Select, Cancel

(* A report that ends without an error names each selected document, and its   *)
(* counts add up, however many workers share the list and wherever the context *)
(* is cancelled (import.go, Run and importDocuments).                          *)
THEOREM ReportsAreComplete == Spec => []ReportIsComplete
<1>1. Init => Places /\ Counted
  BY DEF Init, Places, Counted, Begun, ReportIsComplete, Busy
<1>2. Counted => ReportIsComplete
  BY DEF Counted
<1>3. Shape /\ Places /\ Counted /\ [Next]_vars => (Places /\ Counted)'
  BY NextPlaces, NextCounted
<1>. QED  BY <1>1, <1>2, <1>3, ShapeInvariant, PTL DEF Spec

-----------------------------------------------------------------------------
(* The list.                                                                   *)

LEMMA MembersOfConcat ==
  ASSUME NEW s \in Seq(Docs), NEW t \in Seq(Docs)
  PROVE  Members(s \o t) = Members(s) \cup Members(t)
<1>1. Len(s) \in Nat /\ Len(t) \in Nat /\ DOMAIN s = 1..Len(s) /\ DOMAIN t = 1..Len(t)
  BY LenProperties
<1>2. /\ s \o t \in Seq(Docs) /\ Len(s \o t) = Len(s) + Len(t)
      /\ \A i \in 1..Len(s) + Len(t) : (s \o t)[i] = IF i <= Len(s) THEN s[i] ELSE t[i - Len(s)]
  BY ConcatProperties
<1>. DEFINE u == s \o t
<1>3. DOMAIN u = 1..Len(s) + Len(t)
  BY <1>2, LenProperties
<1>4. \A i \in DOMAIN s : u[i] = s[i] /\ i \in DOMAIN u
  BY <1>1, <1>2, <1>3
<1>5. \A i \in DOMAIN t : u[i + Len(s)] = t[i] /\ i + Len(s) \in DOMAIN u
  BY <1>1, <1>2, <1>3
<1>6. \A i \in DOMAIN u : i \in DOMAIN s \/ (i - Len(s) \in DOMAIN t /\ u[i] = t[i - Len(s)])
  BY <1>1, <1>2, <1>3
<1>. HIDE DEF u
<1>7. Members(u) = Members(s) \cup Members(t)
  BY <1>4, <1>5, <1>6 DEF Members
<1>. QED  BY <1>7 DEF u

(* What is put into a list moves the rest of it to the right.                  *)
Inserted(s, i, e) == SubSeq(s, 1, i) \o <<e>> \o SubSeq(s, i + 1, Len(s))

LEMMA InsertKeeps ==
  ASSUME NEW s \in Seq(Docs), NEW i \in 0..Len(s), NEW e \in Docs, NEW k \in DOMAIN s
  PROVE  \E j \in DOMAIN Inserted(s, i, e) : j >= k /\ Inserted(s, i, e)[j] = s[k]
<1>. DEFINE t == Inserted(s, i, e)
            a == SubSeq(s, 1, i)
            b == SubSeq(s, i + 1, Len(s))
            c == a \o <<e>>
<1>1. Len(s) \in Nat /\ DOMAIN s = 1..Len(s) /\ i + 1 \in Nat /\ i < i + 1
  BY LenProperties
<1>2. a \in Seq(Docs) /\ b \in Seq(Docs) /\ <<e>> \in Seq(Docs)
  BY <1>1, CutTypes
<1>3. Len(a) = i /\ \A n \in 1..i : a[n] = s[n]
  <2>1. 0 \in 0..Len(s) /\ i \in 0..Len(s) /\ 0 + 1 = 1 /\ i - 0 = i
    BY <1>1
  <2>2. Len(a) = i /\ \A n \in 1..i : a[n] = s[0 + n]
    BY <2>1, SliceIs
  <2>3. \A n \in 1..i : 0 + n = n
    OBVIOUS
  <2>. QED  BY <2>2, <2>3
<1>4. Len(b) = Len(s) - i /\ \A n \in 1..Len(s) - i : b[n] = s[n + i]
  <2>1. Len(s) \in i..Len(s)
    BY <1>1
  <2>2. Len(b) = Len(s) - i /\ \A n \in 1..Len(s) - i : b[n] = s[i + n]
    BY <2>1, SliceIs
  <2>3. \A n \in 1..Len(s) - i : i + n = n + i
    BY <1>1
  <2>. QED  BY <2>2, <2>3
<1>5. t = c \o b
  BY DEF Inserted
<1>. HIDE DEF a, b, t
<1>6. c \in Seq(Docs) /\ Len(c) = i + 1 /\ \A n \in 1..i : c[n] = a[n]
  <2>1. Len(<<e>>) = 1
    OBVIOUS
  <2>2. /\ c \in Seq(Docs) /\ Len(c) = Len(a) + Len(<<e>>)
        /\ \A n \in 1..Len(a) + Len(<<e>>) :
             c[n] = IF n <= Len(a) THEN a[n] ELSE <<e>>[n - Len(a)]
    BY <1>2, ConcatProperties
  <2>. QED  BY <1>1, <1>3, <2>1, <2>2
<1>. HIDE DEF c
<1>7. /\ t \in Seq(Docs) /\ Len(t) = Len(s) + 1
      /\ \A n \in 1..Len(s) + 1 : t[n] = IF n <= i + 1 THEN c[n] ELSE b[n - (i + 1)]
  <2>1. /\ c \o b \in Seq(Docs) /\ Len(c \o b) = Len(c) + Len(b)
        /\ \A n \in 1..Len(c) + Len(b) :
             (c \o b)[n] = IF n <= Len(c) THEN c[n] ELSE b[n - Len(c)]
    BY <1>2, <1>6, ConcatProperties
  <2>2. Len(c) = i + 1 /\ Len(c) + Len(b) = Len(s) + 1
    BY <1>1, <1>4, <1>6
  <2>3. /\ t \in Seq(Docs) /\ Len(t) = Len(c) + Len(b)
        /\ \A n \in 1..Len(c) + Len(b) : t[n] = IF n <= Len(c) THEN c[n] ELSE b[n - Len(c)]
    BY <1>5, <2>1, Zenon
  <2>. QED  BY <2>2, <2>3, Zenon
<1>8. DOMAIN t = 1..Len(s) + 1
  BY <1>7, LenProperties
<1>9. CASE k <= i
  <2>1. k \in 1..i /\ k \in 1..Len(s) + 1 /\ k <= i + 1 /\ k >= k
    BY <1>1, <1>9
  <2>2. t[k] = s[k]
    <3>1. t[k] = IF k <= i + 1 THEN c[k] ELSE b[k - (i + 1)]
      BY <1>7, <2>1, Zenon
    <3>2. c[k] = a[k] /\ a[k] = s[k]
      BY <1>3, <1>6, <2>1, Zenon
    <3>. QED  BY <2>1, <3>1, <3>2, Zenon
  <2>. QED  BY <1>8, <2>1, <2>2 DEF t
<1>10. CASE ~ (k <= i)
  <2>0. i \in Nat /\ k \in Nat /\ 1 <= k /\ k <= Len(s) /\ i <= Len(s)
    BY <1>1
  <2>1. /\ k - i \in 1..Len(s) - i /\ k + 1 \in 1..Len(s) + 1 /\ ~ (k + 1 <= i + 1)
        /\ k + 1 - (i + 1) = k - i /\ k - i + i = k /\ k + 1 >= k
    <3>1. k - i \in 1..Len(s) - i /\ k + 1 \in 1..Len(s) + 1
      BY <1>1, <1>10, <2>0
    <3>2. ~ (k + 1 <= i + 1) /\ k + 1 - (i + 1) = k - i /\ k - i + i = k /\ k + 1 >= k
      BY <1>10, <2>0
    <3>. QED  BY <3>1, <3>2
  <2>2. t[k + 1] = s[k]
    <3>1. t[k + 1] = IF k + 1 <= i + 1 THEN c[k + 1] ELSE b[k + 1 - (i + 1)]
      <4>. DEFINE m == k + 1
      <4>1. m \in 1..Len(s) + 1
        BY <2>1
      <4>. HIDE DEF m
      <4>2. t[m] = IF m <= i + 1 THEN c[m] ELSE b[m - (i + 1)]
        BY <1>7, <4>1, Zenon
      <4>. QED  BY <4>2 DEF m
    <3>2. b[k - i] = s[k - i + i]
      BY <1>4, <2>1, Zenon
    <3>. QED  BY <2>1, <3>1, <3>2, Zenon
  <2>. QED  BY <1>8, <2>1, <2>2 DEF t
<1>. QED  BY <1>9, <1>10 DEF t

(* What was there when the list began has been listed, or is on a page that is *)
(* still to come.                                                              *)
Coming(d) == \E i \in DOMAIN remote : i > page /\ remote[i] = d
Listed ==
  ids = <<>> /\ ~ shrunk =>
    /\ run = "listing" => \A d \in owed : d \in Members(selected) \/ Coming(d)
    /\ run \in {"lookups", "running"} => owed \subseteq Members(selected)

LEMMA PageListed ==
  ASSUME Shape, Listed, ListPage
  PROVE  Listed'
<1>1. /\ run = "listing" /\ ids = <<>>
      /\ selected' = selected \o Page /\ page' = page + PageSize
      /\ run' = IF page' < Len(remote) THEN "listing" ELSE "lookups"
      /\ UNCHANGED <<remote, ids, owed, shrunk>>
  BY DEF ListPage, Selecting
<1>2. /\ remote \in Seq(Docs) /\ selected \in Seq(Docs) /\ Page \in Seq(Docs)
      /\ page \in Nat /\ PageSize \in Nat \ {0} /\ Len(remote) \in Nat
      /\ DOMAIN remote = 1..Len(remote)
  BY ImportAssumption, PageTypes, LenProperties DEF Shape, TypeOK
<1>3. Members(selected') = Members(selected) \cup Members(Page)
  BY <1>1, <1>2, MembersOfConcat
<1>4. ASSUME NEW i \in DOMAIN remote, i > page, ~ (i > page')
      PROVE  remote[i] \in Members(Page)
  <2>1. PageEnd \in Nat /\ i <= PageEnd /\ PageEnd <= Len(remote)
    BY <1>1, <1>2, <1>4 DEF PageEnd
  <2>3. page \in 0..Len(remote) /\ PageEnd \in page..Len(remote)
    BY <1>2, <1>4, <2>1
  <2>4. /\ Len(Page) = PageEnd - page
        /\ \A n \in 1..PageEnd - page : Page[n] = remote[page + n]
    BY <1>2, <2>3, SliceIs DEF Page
  <2>5. i - page \in 1..PageEnd - page /\ page + (i - page) = i
    BY <1>2, <1>4, <2>1
  <2>6. Page[i - page] = remote[i] /\ i - page \in DOMAIN Page
    BY <1>2, <2>1, <2>4, <2>5, LenProperties
  <2>. QED  BY <2>6 DEF Members
<1>5. ASSUME ~ shrunk, NEW d \in owed, d \notin Members(selected')
      PROVE  \E i \in DOMAIN remote : i > page' /\ remote[i] = d
  BY <1>1, <1>3, <1>4, <1>5 DEF Listed, Coming
<1>6. run' # "listing" => ~ \E i \in DOMAIN remote : i > page'
  BY <1>1, <1>2
<1>. QED  BY <1>1, <1>5, <1>6 DEF Listed, Coming

LEMMA NextListed == ASSUME Shape, Listed, [Next]_vars PROVE Listed'
<1>1. ASSUME ListPage PROVE Listed'
  BY <1>1, PageListed
<1>2. ASSUME NEW d \in Docs, Upload(d) PROVE Listed'
  <2>1. PICK i \in 0..Len(remote) :
          remote' = SubSeq(remote, 1, i) \o <<d>> \o SubSeq(remote, i + 1, Len(remote))
    BY <1>2 DEF Upload
  <2>2. remote \in Seq(Docs)
    BY DEF Shape, TypeOK
  <2>3. \A k \in DOMAIN remote : \E j \in DOMAIN remote' : j >= k /\ remote'[j] = remote[k]
    <3>1. \A k \in DOMAIN remote :
            \E j \in DOMAIN Inserted(remote, i, d) :
              j >= k /\ Inserted(remote, i, d)[j] = remote[k]
      BY <2>2, InsertKeeps
    <3>2. remote' = Inserted(remote, i, d)
      BY <2>1 DEF Inserted
    <3>. QED  BY <3>1, <3>2, Zenon
  <2>4. UNCHANGED <<run, ids, page, owed, shrunk, selected>> /\ page \in Nat
    BY <1>2 DEF Upload, runVars, listVars, Shape, TypeOK
  <2>5. DOMAIN remote \subseteq Nat /\ DOMAIN remote' \subseteq Nat
    <3>1. remote' \in Seq(Docs)
      BY <1>2, ServerShape DEF Shape, TypeOK
    <3>. QED  BY <2>2, <3>1, LenProperties
  <2>6. \A e : Coming(e) => Coming(e)'
    BY <2>3, <2>4, <2>5 DEF Coming
  <2>. QED  BY <2>4, <2>6 DEF Listed
<1>3. ASSUME NEW d \in Docs, Delete(d) PROVE Listed'
  <2>1. UNCHANGED <<run, ids, page, owed, selected>> /\ (shrunk' <=> shrunk \/ run = "listing")
    BY <1>3 DEF Delete, runVars
  <2>. QED  BY <2>1 DEF Listed
<1>4. ASSUME Start PROVE Listed'
  <2>1. /\ run' = "listing" /\ page' = 0 /\ owed' = Members(remote) /\ remote' = remote
    BY <1>4 DEF Start
  <2>2. \A i \in DOMAIN remote : i > 0
    BY LenProperties DEF Shape, TypeOK
  <2>. QED  BY <2>1, <2>2 DEF Listed, Coming, Members
<1>5. ASSUME GetDocument PROVE Listed'
  <2>1. ids # <<>>
    BY <1>5 DEF GetDocument, Shape, TypeOK
  <2>. QED  BY <1>5, <2>1 DEF GetDocument, Selecting, Listed
<1>6. ASSUME LoadLookups PROVE Listed'
  BY <1>6 DEF LoadLookups, listVars, Listed
<1>7. ASSUME run' \in {"idle", "ended"} PROVE Listed'
  BY <1>7 DEF Listed
<1>8. ASSUME UNCHANGED <<remote, run, ids, listVars>> PROVE Listed'
  BY <1>8 DEF listVars, Listed, Coming
<1>9. ASSUME NEW w \in Workers, Work(w) PROVE Listed'
  BY <1>8, <1>9, WorkFrame
<1>10. ASSUME Feed \/ Cancel \/ \E w \in Workers : Take(w) \/ NextInTurn(w) PROVE Listed'
  BY <1>8, <1>10 DEF Feed, Feeding, Cancel, Take, NextInTurn
<1>11. ASSUME NotFound \/ SelectionFails \/ Plan \/ End \/ Crash PROVE Listed'
  BY <1>7, <1>11 DEF NotFound, SelectionFails, Plan, End, Crash
<1>12. ASSUME UNCHANGED vars PROVE Listed'
  BY <1>8, <1>12 DEF vars, runVars
<1>. QED
  BY <1>1, <1>2, <1>3, <1>4, <1>5, <1>6, <1>9, <1>10, <1>11, <1>12 DEF Next, Select

(* A list that is fetched in pages of any size misses none of the documents    *)
(* that were there when it began, whatever users upload between two pages, as  *)
(* long as they delete none.                                                   *)
THEOREM ListingsMissNothing == Spec => []ListingIsComplete
<1>1. Init => Listed
  BY DEF Init, Listed
<1>2. Listed => ListingIsComplete
  BY DEF Listed, ListingIsComplete
<1>. QED  BY <1>1, <1>2, ShapeInvariant, NextListed, PTL DEF Spec

-----------------------------------------------------------------------------
(* A run without failures.                                                     *)

(* What an import has reported, or is about to, without a failure has its row. *)
Good(d) == rows[d] = "imported" \/ d \in spoiled
Clean ==
  mode = "import" =>
    /\ stats["failed"] = 0 => \A i \in recorded : Good(selected[i])
    /\ \A w \in Workers : pc[w] = "record" /\ outcome[w] # "failed" => Good(Doc(w))

LEMMA WorkClean ==
  ASSUME Shape, Places, Counted, Clean, NEW w \in Workers, Work(w)
  PROVE  Clean'
<1>1. /\ Busy(w) /\ Doc(w) \in Docs /\ at[w] \in DOMAIN selected /\ run = "running"
      /\ UNCHANGED <<selected, mode>>
      /\ rows \in [Docs -> {"none", "imported", "failed"}]
      /\ pc \in [Workers -> Calls] /\ outcome \in [Workers -> Outcomes]
      /\ stats \in [Outcomes -> Nat] /\ at \in [Workers -> Nat]
  BY WorkFrame, ContentTypes DEF Shape, Placed, TypeOK, listVars
<1>2. spoiled \subseteq spoiled'
  BY SpoiledGrows DEF Next
<1>3. UNCHANGED rows \/ State(w)
  BY DEF At, storeVars, Work, CheckCancelled, Check, CheckUnread, Download, Create, Extract,
      WriteNote, Finish, DownloadFails, CreateFails, ExtractFails, FinishFails, State,
      StateFails, Record
<1>4. \A d \in Docs : rows'[d] = rows[d] \/ d = Doc(w)
  BY <1>1, <1>3 DEF State
(* The row of another document, or of one that is listed twice.                *)
<1>5. ASSUME NEW i \in recorded, Good(selected[i]) PROVE rows'[selected[i]] = "imported" \/ selected[i] \in spoiled'
  <2>1. i \in DOMAIN selected /\ i # at[w]
    BY <1>1 DEF Counted, Shape, TypeOK
  <2>2. selected[i] \in Docs
    BY <2>1, ElementOfSeq, LenProperties DEF Shape, TypeOK
  <2>3. selected[i] = Doc(w) => selected[i] \in spoiled
    BY <1>1, <2>1 DEF Places, Doc
  <2>. QED  BY <1>2, <1>4, <1>5, <2>2, <2>3 DEF Good
<1>6. ASSUME NEW v \in Workers, v # w, mode = "import", pc'[v] = "record", outcome'[v] # "failed"
      PROVE  rows'[Doc(v)'] = "imported" \/ Doc(v)' \in spoiled'
  <2>1. Same(v) /\ Busy(v)
    BY <1>6, OthersSame DEF Same, Busy
  <2>2. Doc(v) \in Docs /\ (Doc(v) = Doc(w) => Doc(v) \in spoiled)
    BY <1>1, <1>6, <2>1, Alone, ContentTypes DEF Shape
  <2>3. Good(Doc(v))
    BY <1>6, <2>1 DEF Clean, Same
  <2>. QED  BY <1>2, <1>4, <2>1, <2>2, <2>3 DEF Good, Same
<1>7. ASSUME mode = "import", pc'[w] = "record", outcome'[w] # "failed"
      PROVE  rows'[Doc(w)'] = "imported" \/ Doc(w)' \in spoiled'
  <2>1. ASSUME GiveUp(w) PROVE FALSE
    BY <1>1, <1>7, <2>1 DEF GiveUp, Leave, Goto
  <2>2. CASE Check(w)
    <3>1. rows[Doc(w)] = "imported" /\ UNCHANGED <<rows, at>>
      BY <1>1, <1>7, <2>2 DEF Check, Goto, Skip, storeVars
    <3>. QED  BY <1>1, <3>1 DEF Doc
  <2>3. CASE State(w)
    <3>1. rows'[Doc(w)] = outcome[w] /\ UNCHANGED <<outcome, at>> /\ pc[w] = "state"
      BY <1>1, <2>3 DEF State, At
    <3>2. outcome[w] = "imported"
      BY <1>7, <3>1 DEF Shape, OutcomeKnown
    <3>. QED  BY <1>1, <3>1, <3>2 DEF Doc
  <2>4. CASE StateFails(w)
    <3>1. UNCHANGED <<outcome, at>> /\ pc[w] = "state"
      BY <2>4 DEF StateFails, At
    <3>2. outcome[w] = "imported"
      BY <1>7, <3>1 DEF Shape, OutcomeKnown
    <3>. QED  BY <1>1, <2>4, <3>1, <3>2 DEF Doc, StateFails
  <2>5. CASE CheckCancelled(w) \/ Record(w) \/ CheckUnread(w) \/ Download(w) \/ Create(w)
               \/ Extract(w) \/ WriteNote(w) \/ Finish(w)
    <3>1. pc'[w] # "record"
      BY <1>1, <1>7, <2>5
      DEF CheckCancelled, Record, CheckUnread, Download, Create, Extract, WriteNote, Finish,
          Leave, Goto
    <3>. QED  BY <1>7, <3>1
  <2>. QED
    BY <2>1, <2>2, <2>3, <2>4, <2>5
    DEF Work, DownloadFails, CreateFails, ExtractFails, FinishFails
<1>8. ASSUME mode = "import", stats'["failed"] = 0, NEW i \in recorded'
      PROVE  rows'[selected[i]] = "imported" \/ selected[i] \in spoiled'
  <2>1. CASE UNCHANGED reportVars
    BY <1>5, <1>8, <2>1 DEF Clean, reportVars
  <2>2. CASE Record(w)
    <3>1. /\ recorded' = recorded \cup {at[w]} /\ UNCHANGED rows /\ pc[w] = "record"
          /\ stats' = [stats EXCEPT ![outcome[w]] = @ + 1]
      BY <2>2 DEF Record, At, storeVars
    <3>2. outcome[w] # "failed" /\ stats["failed"] = 0
      BY <1>1, <1>8, <3>1 DEF Outcomes
    <3>3. Good(Doc(w)) /\ \A j \in recorded : Good(selected[j])
      BY <1>8, <3>1, <3>2 DEF Clean
    <3>. QED  BY <1>2, <1>5, <1>8, <3>1, <3>3 DEF Good, Doc
  <2>. QED  BY <2>1, <2>2, WorkReports
<1>. QED
  BY <1>1, <1>6, <1>7, <1>8 DEF Clean, Good

LEMMA NextClean == ASSUME Shape, Places, Counted, Clean, [Next]_vars PROVE Clean'
<1>1. ASSUME NEW w \in Workers, Work(w) PROVE Clean'
  BY <1>1, WorkClean
<1>2. spoiled \subseteq spoiled'
  BY SpoiledGrows
<1>3. ASSUME \A w \in Workers : pc'[w] = "idle", recorded' = {} PROVE Clean'
  BY <1>3 DEF Clean
<1>4. ASSUME Start PROVE Clean'
  <2>1. \A w \in Workers : pc[w] = "idle"
    BY <1>4 DEF Start, Shape, Placed, Busy
  <2>. QED  BY <1>3, <1>4, <2>1 DEF Start, workerVars
<1>5. ASSUME Crash PROVE Clean'
  BY <1>3, <1>5 DEF Crash
<1>6. ASSUME Plan PROVE Clean'
  BY <1>6 DEF Plan, Clean
<1>7. ASSUME ListPage \/ GetDocument PROVE Clean'
  <2>1. run = "listing" /\ UNCHANGED <<recorded, workerVars>>
    BY <1>7 DEF ListPage, GetDocument, Selecting, reportVars
  <2>2. \A w \in Workers : pc[w] = "idle"
    BY <2>1 DEF Shape, Placed, Busy
  <2>. QED  BY <1>3, <2>1, <2>2 DEF Counted, Begun, workerVars
<1>8. ASSUME ~ \E w \in Workers : Work(w), UNCHANGED <<mode, selected, recorded, stats>>,
             ~ Crash
      PROVE  Clean'
  <2>1. UNCHANGED rows
    BY <1>8, ElsewhereSame DEF storeVars
  <2>2. \A w \in Workers : pc'[w] = "record" => Same(w)
    BY <1>8, ElsewhereSame
  <2>3. \A i \in recorded : Good(selected[i]) => Good(selected[i])'
    BY <1>2, <1>8, <2>1 DEF Good
  <2>. QED  BY <1>2, <1>8, <2>1, <2>2, <2>3 DEF Clean, Good, Same
<1>9. \/ Start \/ Crash \/ Plan \/ ListPage \/ GetDocument \/ (\E w \in Workers : Work(w))
      \/ UNCHANGED <<mode, selected, recorded, stats>>
  BY DEF Next, vars, runVars, listVars, reportVars, Upload, Delete, Select, NotFound,
         SelectionFails, LoadLookups, Selecting, Feed, End, Feeding, Take, NextInTurn, Cancel
<1>. QED  BY <1>1, <1>4, <1>5, <1>6, <1>7, <1>8, <1>9

(* After an import that reports no error and no failure Verify finds nothing   *)
(* wrong with what it selected, but for the exceptions CleanRunVerifies names: *)
(* whatever earlier runs left behind, with any number of workers.              *)
THEOREM CleanRunsVerify == Spec => []CleanRunVerifies
<1>. DEFINE Inv == Places /\ Counted /\ Clean
<1>1. Init => Inv
  BY DEF Init, Places, Counted, Begun, ReportIsComplete, Busy, Clean
<1>2. ASSUME Shape, Inv, RowIsBacked, OneNoteEach PROVE CleanRunVerifies
  <2>1. SUFFICES ASSUME run = "ended", ~ err, mode = "import", stats["failed"] = 0,
                        NEW d \in Members(selected) \ spoiled
                 PROVE  Discrepancies(d) \subseteq (IF Preset[d] = None THEN {"metadata"} ELSE {})
    BY DEF CleanRunVerifies
  <2>2. PICK i \in DOMAIN selected : selected[i] = d
    BY <2>1 DEF Members
  <2>3. d \in Docs
    BY <1>2, <2>2, ElementOfSeq, LenProperties DEF Shape, TypeOK
  <2>4. i \in recorded
    BY <1>2, <2>1, <2>2 DEF Counted, ReportIsComplete
  <2>5. rows[d] = "imported"
    BY <1>2, <2>1, <2>2, <2>4 DEF Clean, Good
  <2>6. notes[d] > 0 /\ ContentOf[d] \in archived
    BY <1>2, <2>3, <2>5 DEF RowIsBacked
  <2>7. notes[d] <= 1 /\ notes[d] \in Nat
    BY <1>2, <2>1, <2>3 DEF OneNoteEach, Shape, TypeOK
  <2>8. Discrepancies(d) = IF NoteMeta(d) # Preset[d] THEN {"metadata"} ELSE {}
    BY <2>5, <2>6, <2>7 DEF Discrepancies
  <2>9. NoteMeta(d) # Preset[d] => Preset[d] = None
    BY DEF NoteMeta
  <2>. QED  BY <2>8, <2>9
<1>3. Shape /\ Inv /\ [Next]_vars => Inv'
  BY NextPlaces, NextCounted, NextClean
<1>. HIDE DEF Inv
<1>. QED
  BY <1>1, <1>2, <1>3, ShapeInvariant, RowsAreBacked, NotesAreSingle, PTL DEF Spec
=============================================================================
