--------------------------- MODULE MigrationProofs ---------------------------
(* Proofs about Migration: "ready" is said of migrated documents only, and     *)
(* what blocks the cutover is shown by the review of its report.               *)
EXTENDS Migration, WellFoundedInduction, FiniteSetTheorems, TLAPS

(* What dry runs and imports write.                                            *)
Results == [id: Docs, status: {"would-import", "imported", "skipped", "failed"},
            mapped: BOOLEAN, named: BOOLEAN]

IsReport(r) ==
  /\ r.kind = "migration" /\ r.results \in Seq(Results) /\ r.total = Len(r.results)
  /\ r.failed = Count(r.results, "failed")
  /\ r.imported + r.skipped + r.failed = r.total

ReportInv == \A r \in {dry, imp} : r # Absent => IsReport(r)

(* What a verification writes.                                                 *)
Findings == {"missing", "missing_archive", "hash_mismatch", "duplicate", "tags", "created"}
VerifyInv ==
  verify # Absent =>
    /\ verify.kind = "verify" /\ verify.selected \in Seq(Docs)
    /\ verify.verified <= Len(verify.selected)
    /\ verify.discrepancies \in [Members(verify.selected) -> SUBSET Findings]

(* As long as nothing has changed, a verification would say the same again.    *)
Current ==
  fresh =>
    /\ verify # Absent
    /\ Members(verify.selected) \subseteq docs
    /\ \A d \in Members(verify.selected) : verify.discrepancies[d] = Discrepancies(d)

Inv == TypeOK /\ ReportInv /\ VerifyInv /\ Current

-----------------------------------------------------------------------------
(* The operators.                                                              *)

LEMMA Least == ASSUME NEW S \in SUBSET Nat, S # {} PROVE \E i \in S : \A j \in S : i <= j
<1>1. PICK i \in S : \A j \in S : ~ (<<j, i>> \in OpToRel(<, Nat))
  BY NatLessThanWellFounded, WFMin
<1>2. ASSUME NEW j \in S, j < i PROVE FALSE
  <2>1. <<j, i>> \in OpToRel(<, Nat)
    BY <1>2 DEF OpToRel
  <2>. QED BY <1>1, <2>1
<1>. QED BY <1>2

(* A gate with no objection has none in its list, and each objection it makes  *)
(* is one of the list.                                                         *)
LEMMA FirstObjection ==
  ASSUME NEW n \in Nat, NEW s, DOMAIN s = 1..n
  PROVE  /\ \A t \in First(s) : \E i \in 1..n : t \in s[i]
         /\ First(s) = {} => \A i \in 1..n : s[i] = {}
<1>1. \A t \in First(s) : \E i \in 1..n : t \in s[i]
  BY DEF First
<1>2. ASSUME First(s) = {}, NEW k \in 1..n, s[k] # {} PROVE FALSE
  <2>. DEFINE S == {i \in 1..n : s[i] # {}}
  <2>1. S \in SUBSET Nat /\ S # {}
    BY <1>2
  <2>2. PICK i \in S : \A j \in S : i <= j
    BY <2>1, Least
  <2>3. \A j \in 1..(i - 1) : s[j] = {}
    <3>1. SUFFICES ASSUME NEW j \in 1..(i - 1), s[j] # {} PROVE FALSE
      OBVIOUS
    <3>2. j \in S /\ j < i
      BY <2>2, <3>1
    <3>. QED  BY <2>2, <3>2
  <2>4. s[i] \subseteq First(s)
    BY <2>2, <2>3 DEF First
  <2>. QED  BY <1>2, <2>2, <2>4
<1>. QED  BY <1>1, <1>2

LEMMA TagIsName ==
  ASSUME TypeOK, NEW d \in Docs PROVE Tag(d) \in Names
<1>1. TagOf[d].id \in Nat
  BY MigrationAssumption
<1>2. ASSUME TagOf[d].id # 0 PROVE label[TagOf[d].id] \in Labels \cup {""}
  <2>1. TagOf[d].id \in Tags
    BY <1>1, <1>2 DEF Tags
  <2>. QED  BY <2>1 DEF TypeOK
<1>. QED  BY <1>1, <1>2 DEF Tag, Names

LEMMA FindingsOnly ==
  ASSUME NEW d PROVE Discrepancies(d) \subseteq Findings
BY DEF Discrepancies, Differences, Findings

LEMMA SelectionsAreListed ==
  ASSUME TypeOK, NEW sel \in Selections
  PROVE  sel \in Seq(docs) /\ sel \in Seq(Docs) /\ Members(sel) \subseteq docs
<1>0. docs \subseteq Docs /\ IsFiniteSet(docs) /\ Cardinality(docs) \in Nat
  <2>1. docs \subseteq Docs /\ IsFiniteSet(Docs)
    BY MigrationAssumption DEF TypeOK
  <2>2. IsFiniteSet(docs)
    BY <2>1, FS_Subset
  <2>. QED  BY <2>1, <2>2, FS_CardinalityType
<1>1. ASSUME sel \in IdLists, \A i \in DOMAIN sel : sel[i] \in docs PROVE sel \in Seq(docs)
  <2>1. sel \in Seq(Docs)
    BY <1>1, MigrationAssumption
  <2>. QED  BY <1>1, <2>1
<1>2. ASSUME NEW s \in Listed, NEW n \in Limits,
             sel = IF n > 0 /\ n < Len(s) THEN SubSeq(s, 1, n) ELSE s
      PROVE  sel \in Seq(docs)
  <2>1. n \in Nat
    BY MigrationAssumption
  <2>2. s \in [1..Cardinality(docs) -> docs]
    BY DEF Listed
  <2>3. s \in Seq(docs)
    BY <1>0, <2>2
  <2>4. CASE n > 0 /\ n < Len(s)
    BY <1>2, <2>1, <2>3, <2>4
  <2>5. CASE ~ (n > 0 /\ n < Len(s))
    BY <1>2, <2>3, <2>5
  <2>. QED  BY <2>4, <2>5
<1>3. sel \in Seq(docs)
  <2>1. \/ sel \in IdLists /\ \A i \in DOMAIN sel : sel[i] \in docs
        \/ \E s \in Listed, n \in Limits :
             sel = IF n > 0 /\ n < Len(s) THEN SubSeq(s, 1, n) ELSE s
    BY DEF Selections
  <2>. QED  BY <1>1, <1>2, <2>1
<1>4. sel \in Seq(Docs)
  BY <1>0, <1>3
<1>5. Members(sel) \subseteq docs
  BY <1>3 DEF Members
<1>. QED  BY <1>3, <1>4, <1>5

LEMMA CountsAreNumbers ==
  ASSUME NEW S, NEW rs \in Seq(S), NEW status
  PROVE  Count(rs, status) \in Nat /\ (Count(rs, status) # 0 =>
           \E i \in DOMAIN rs : rs[i].status = status)
<1>. DEFINE I == {i \in DOMAIN rs : rs[i].status = status}
<1>1. IsFiniteSet(I)
  <2>1. I \subseteq 1..Len(rs) /\ Len(rs) \in Nat
    OBVIOUS
  <2>2. IsFiniteSet(1..Len(rs))
    BY <2>1, FS_Interval
  <2>. QED  BY <2>1, <2>2, FS_Subset
<1>2. Cardinality(I) \in Nat /\ (I = {} => Cardinality(I) = 0)
  BY <1>1, FS_CardinalityType, FS_EmptySet
<1>. QED  BY <1>2 DEF Count

LEMMA ReportsAreTrue ==
  ASSUME NEW mode, NEW rs \in Seq(Results), NEW u, NEW v
  PROVE  /\ IsReport(Report(mode, rs))
         /\ IsReport([Report(mode, rs) EXCEPT !.unsupported = u, !.unresolved = v])
<1>. DEFINE m == Count(rs, "imported")
            f == Count(rs, "failed")
            k == Len(rs) - m - f
<1>1. m \in Nat /\ f \in Nat /\ Len(rs) \in Nat
  BY CountsAreNumbers
<1>2. m + k + f = Len(rs)
  BY <1>1
<1>. HIDE DEF m, k
<1>3. Report(mode, rs) =
        [kind |-> "migration", mode |-> mode, total |-> Len(rs), results |-> rs,
         imported |-> m, failed |-> f, skipped |-> k, unsupported |-> {}, unresolved |-> {}]
  BY DEF Report, m, k
<1>. QED  BY <1>2, <1>3 DEF IsReport

LEMMA ResultsAreTyped ==
  ASSUME TypeOK, NEW sel \in Seq(Docs), NEW retry \in BOOLEAN
  PROVE  [i \in DOMAIN sel |-> Result(sel, retry, i)] \in Seq(Results)
<1>1. ASSUME NEW i \in DOMAIN sel PROVE Result(sel, retry, i) \in Results
  <2>1. sel[i] \in Docs
    BY <1>1
  <2>2. Ingestible(sel[i]) \in BOOLEAN /\ Resolved(sel[i]) \in BOOLEAN
    BY <2>1, MigrationAssumption DEF Ingestible, Resolved
  <2>. QED  BY <2>1, <2>2 DEF Result, Results
<1>2. DOMAIN sel = 1..Len(sel) /\ Len(sel) \in Nat
  OBVIOUS
<1>. QED  BY <1>1, <1>2

-----------------------------------------------------------------------------
(* The reports.                                                                *)

LEMMA ReportStep ==
  ASSUME TypeOK, ReportInv, [Next]_vars
  PROVE  ReportInv'
<1>1. ASSUME NEW sel \in Selections, DryRun(sel) PROVE ReportInv'
  <2>. DEFINE rs == [i \in DOMAIN sel |->
                      [id |-> sel[i], status |-> "would-import", mapped |-> FALSE, named |-> TRUE]]
              u == {Extension(d) : d \in {e \in Members(sel) : Unsupported(e)}}
              v == {TagOf[d].id : d \in {e \in Members(sel) : ~ Resolved(e)}}
              r == [Report("dry-run", rs) EXCEPT !.unsupported = u, !.unresolved = v]
  <2>1. sel \in Seq(Docs)
    BY SelectionsAreListed
  <2>2. rs \in Seq(Results)
    <3>1. \A i \in DOMAIN sel : rs[i] \in Results
      BY <2>1 DEF Results
    <3>2. DOMAIN rs = 1..Len(sel) /\ Len(sel) \in Nat
      BY <2>1
    <3>3. rs \in [1..Len(sel) -> Results]
      BY <2>1, <3>1, <3>2
    <3>. QED  BY <3>2, <3>3
  <2>3. (dry' = r /\ imp' = imp) \/ (imp' = r /\ dry' = dry)
    BY <1>1 DEF DryRun
  <2>. HIDE DEF rs, u, v
  <2>4. IsReport(r)
    BY <2>2, ReportsAreTrue
  <2>. QED  BY <2>3, <2>4 DEF ReportInv, IsReport
<1>2. ASSUME NEW sel \in Selections, NEW retry \in BOOLEAN, Import(sel, retry) PROVE ReportInv'
  <2>. DEFINE rs == [i \in DOMAIN sel |-> Result(sel, retry, i)]
              r == Report(IF retry THEN "retry-failed" ELSE "import", rs)
  <2>1. rs \in Seq(Results)
    BY SelectionsAreListed, ResultsAreTyped
  <2>2. (dry' = r /\ imp' = imp) \/ (imp' = r /\ dry' = dry)
    BY <1>2 DEF Import
  <2>. HIDE DEF rs
  <2>3. IsReport(r)
    BY <2>1, ReportsAreTrue
  <2>. QED  BY <2>2, <2>3 DEF ReportInv, IsReport
<1>3. ASSUME UNCHANGED <<dry, imp>> PROVE ReportInv'
  BY <1>3 DEF ReportInv, IsReport
<1>4. UNCHANGED <<dry, imp>> \/ \E sel \in Selections :
        DryRun(sel) \/ \E retry \in BOOLEAN : Import(sel, retry)
  BY DEF Next, vars, Verify, Change, Upload, Remove, EditNote, Rename, LoseArchive, Cutover
<1>. QED  BY <1>1, <1>2, <1>3, <1>4

LEMMA VerifyStep ==
  ASSUME TypeOK, VerifyInv, [Next]_vars
  PROVE  VerifyInv'
<1>1. ASSUME NEW sel \in Selections, Verify(sel) PROVE VerifyInv'
  <2>. DEFINE I == {i \in DOMAIN sel : Discrepancies(sel[i]) = {}}
              f == [d \in Members(sel) |-> Discrepancies(d)]
  <2>1. sel \in Seq(Docs) /\ Len(sel) \in Nat
    BY SelectionsAreListed
  <2>2. Cardinality(I) <= Len(sel)
    <3>1. I \subseteq 1..Len(sel)
      BY <2>1
    <3>2. IsFiniteSet(1..Len(sel)) /\ Cardinality(1..Len(sel)) = Len(sel)
      <4>1. 1 \in Int /\ Len(sel) \in Int
        BY <2>1
      <4>2. IsFiniteSet(1..Len(sel))
        BY <4>1, FS_Interval
      <4>3. Cardinality(1..Len(sel)) = IF 1 > Len(sel) THEN 0 ELSE Len(sel) - 1 + 1
        BY <4>1, FS_Interval
      <4>4. Cardinality(1..Len(sel)) = Len(sel)
        BY <2>1, <4>3
      <4>. QED  BY <4>2, <4>4
    <3>. QED  BY <3>1, <3>2, FS_Subset
  <2>3. f \in [Members(sel) -> SUBSET Findings]
    BY FindingsOnly
  <2>4. verify' = [kind |-> "verify", selected |-> sel, verified |-> Cardinality(I),
                   discrepancies |-> f]
    BY <1>1 DEF Verify
  <2>. HIDE DEF I, f
  <2>. QED  BY <2>1, <2>2, <2>3, <2>4 DEF VerifyInv, Members
<1>2. ASSUME UNCHANGED verify PROVE VerifyInv'
  BY <1>2 DEF VerifyInv, Members
<1>3. UNCHANGED verify \/ \E sel \in Selections : Verify(sel)
  <2>1. Change => UNCHANGED verify
    BY Zenon DEF Change
  <2>2. ASSUME NEW sel, DryRun(sel) PROVE UNCHANGED verify
    BY <2>2, Zenon DEF DryRun
  <2>3. ASSUME NEW sel, NEW retry, Import(sel, retry) PROVE UNCHANGED verify
    BY <2>3, Zenon DEF Import
  <2>4. ASSUME NEW d, Upload(d) \/ Remove(d) \/ EditNote(d) PROVE Change
    BY <2>4, Zenon DEF Upload, Remove, EditNote
  <2>5. ASSUME NEW t, NEW l, Rename(t, l) PROVE Change
    BY <2>5, Zenon DEF Rename
  <2>6. ASSUME NEW c, LoseArchive(c) PROVE Change
    BY <2>6, Zenon DEF LoseArchive
  <2>7. ASSUME NEW min, NEW minBody, NEW search, Cutover(min, minBody, search)
        PROVE  UNCHANGED verify
    BY <2>7, Zenon DEF Cutover
  <2>8. UNCHANGED vars => UNCHANGED verify
    BY Zenon DEF vars
  <2>. QED  BY <2>1, <2>2, <2>3, <2>4, <2>5, <2>6, <2>7, <2>8, Zenon DEF Next
<1>. QED  BY <1>1, <1>2, <1>3

-----------------------------------------------------------------------------
(* Types.                                                                      *)

State ==
  /\ docs \subseteq Docs
  /\ label \in [Tags -> Labels \cup {""}]
  /\ vault \in [Docs -> Seq(Note)]
  /\ archive \in [Contents -> {"none", "there", "altered"}]
  /\ rows \in [Docs -> {"none", "imported", "failed"}]

LEMMA ImportKeepsTypes ==
  ASSUME TypeOK, NEW sel \in Selections, NEW retry \in BOOLEAN, Import(sel, retry)
  PROVE  State'
<1>. DEFINE rs == [i \in DOMAIN sel |-> Result(sel, retry, i)]
            done == {rs[i].id : i \in {j \in DOMAIN sel : rs[j].status = "imported"}}
            failed == {rs[i].id : i \in {j \in DOMAIN sel : rs[j].status = "failed"}}
            new(d) == [tag |-> Tag(d), id |-> TRUE, sha |-> TRUE,
                       whole |-> TRUE, row |-> TRUE, full |-> TRUE]
<1>1. /\ rows' = [d \in Docs |-> IF d \in done THEN "imported"
                                  ELSE IF d \in failed THEN "failed" ELSE rows[d]]
      /\ vault' = [d \in Docs |-> IF d \in done THEN Append(vault[d], new(d)) ELSE vault[d]]
      /\ archive' = [c \in Contents |->
             IF archive[c] = "none" /\ \E d \in done : ContentOf[d] = c
             THEN "there" ELSE archive[c]]
      /\ UNCHANGED <<docs, label>>
  BY DEF Import, Command
<1>. HIDE DEF done, failed
<1>2. rows' \in [Docs -> {"none", "imported", "failed"}]
  BY <1>1 DEF TypeOK
<1>3. archive' \in [Contents -> {"none", "there", "altered"}]
  BY <1>1 DEF TypeOK
<1>4. vault' \in [Docs -> Seq(Note)]
  <2>1. ASSUME NEW d \in Docs PROVE new(d) \in Note /\ vault[d] \in Seq(Note)
    BY TagIsName DEF Note, TypeOK
  <2>. HIDE DEF new
  <2>2. ASSUME NEW d \in Docs PROVE Append(vault[d], new(d)) \in Seq(Note)
    <3>. DEFINE n == new(d)
                v == vault[d]
    <3>1. n \in Note /\ v \in Seq(Note)
      BY <2>1
    <3>. HIDE DEF n, v
    <3>2. Append(v, n) \in Seq(Note)
      BY <3>1
    <3>. QED  BY <3>2 DEF n, v
  <2>. QED  BY <1>1, <2>1, <2>2
<1>. QED  BY <1>1, <1>2, <1>3, <1>4 DEF State, TypeOK

LEMMA AlteredIsNote ==
  ASSUME NEW n \in Note PROVE Altered(n) \subseteq Note
<1>1. ASSUME NEW l \in Labels PROVE [n EXCEPT !.tag = l] \in Note
  <2>1. l \in Names
    BY DEF Names
  <2>. QED  BY <2>1 DEF Note
<1>2. [n EXCEPT !.id = FALSE] \in Note /\ [n EXCEPT !.sha = FALSE] \in Note
  BY DEF Note
<1>3. [n EXCEPT !.whole = FALSE] \in Note /\ [n EXCEPT !.full = FALSE] \in Note
  BY DEF Note
<1>4. [n EXCEPT !.row = FALSE] \in Note
  BY DEF Note
<1>. QED  BY <1>1, <1>2, <1>3, <1>4 DEF Altered

LEMMA EditKeepsTypes ==
  ASSUME TypeOK, NEW d \in Docs, EditNote(d)
  PROVE  State'
<1>1. UNCHANGED <<docs, label, archive, rows>>
  BY DEF EditNote, Change
<1>2. vault' \in [Docs -> Seq(Note)]
  <2>. DEFINE v == vault[d]
  <2>1. vault \in [Docs -> Seq(Note)] /\ v \in Seq(Note)
    BY DEF TypeOK
  <2>2. PICK i \in DOMAIN v :
          \/ \E n \in Altered(v[i]) : vault' = [vault EXCEPT ![d][i] = n]
          \/ vault' = [vault EXCEPT ![d] = Append(@, [@[i] EXCEPT !.row = FALSE])]
          \/ vault' = [vault EXCEPT ![d] = SubSeq(@, 1, i - 1) \o SubSeq(@, i + 1, Len(@))]
    BY DEF EditNote
  <2>3. i \in 1..Len(v) /\ v[i] \in Note
    BY <2>1, <2>2
  <2>4. ASSUME NEW w \in Seq(Note), vault' = [vault EXCEPT ![d] = w]
        PROVE  vault' \in [Docs -> Seq(Note)]
    BY <2>1, <2>4
  <2>5. ASSUME NEW n \in Altered(v[i]), vault' = [vault EXCEPT ![d][i] = n]
        PROVE  vault' \in [Docs -> Seq(Note)]
    <3>1. n \in Note
      BY <2>3, AlteredIsNote
    <3>2. vault' = [vault EXCEPT ![d] = [v EXCEPT ![i] = n]]
      BY <2>5
    <3>. HIDE DEF v
    <3>3. [v EXCEPT ![i] = n] \in Seq(Note)
      BY <2>1, <2>3, <3>1
    <3>. QED  BY <2>4, <3>2, <3>3
  <2>6. ASSUME vault' = [vault EXCEPT ![d] = Append(@, [@[i] EXCEPT !.row = FALSE])]
        PROVE  vault' \in [Docs -> Seq(Note)]
    <3>. DEFINE n == [v[i] EXCEPT !.row = FALSE]
    <3>1. n \in Note
      BY <2>3 DEF Note
    <3>2. vault' = [vault EXCEPT ![d] = Append(v, n)]
      BY <2>6
    <3>. HIDE DEF v, n
    <3>3. Append(v, n) \in Seq(Note)
      BY <2>1, <3>1
    <3>. QED  BY <2>4, <3>2, <3>3
  <2>7. ASSUME vault' = [vault EXCEPT ![d] = SubSeq(@, 1, i - 1) \o SubSeq(@, i + 1, Len(@))]
        PROVE  vault' \in [Docs -> Seq(Note)]
    <3>. DEFINE w == SubSeq(v, 1, i - 1) \o SubSeq(v, i + 1, Len(v))
    <3>1. vault' = [vault EXCEPT ![d] = w]
      BY <2>7
    <3>. HIDE DEF v
    <3>2. SubSeq(v, 1, i - 1) \in Seq(Note) /\ SubSeq(v, i + 1, Len(v)) \in Seq(Note)
      BY <2>1, <2>3
    <3>3. w \in Seq(Note)
      BY <3>2
    <3>. HIDE DEF w
    <3>. QED  BY <2>4, <3>1, <3>3
  <2>. QED  BY <2>2, <2>5, <2>6, <2>7
<1>. QED  BY <1>1, <1>2 DEF State, TypeOK

LEMMA StateStep ==
  ASSUME TypeOK, [Next]_vars
  PROVE  State'
<1>1. ASSUME NEW sel \in Selections, DryRun(sel) \/ Verify(sel) PROVE State'
  BY <1>1 DEF DryRun, Verify, Command, State, TypeOK
<1>2. ASSUME NEW sel \in Selections, NEW retry \in BOOLEAN, Import(sel, retry) PROVE State'
  BY <1>2, ImportKeepsTypes
<1>3. ASSUME NEW d \in Docs, Upload(d) \/ Remove(d) PROVE State'
  BY <1>3 DEF Upload, Remove, Change, State, TypeOK
<1>4. ASSUME NEW d \in Docs, EditNote(d) PROVE State'
  BY <1>4, EditKeepsTypes
<1>5. ASSUME NEW t \in Tags, NEW l \in Labels \cup {""}, Rename(t, l) PROVE State'
  BY <1>5 DEF Rename, Change, State, TypeOK
<1>6. ASSUME NEW c \in Contents, LoseArchive(c) PROVE State'
  <2>1. PICK x \in {"none", "altered"} : archive' = [archive EXCEPT ![c] = x]
    BY <1>6 DEF LoseArchive
  <2>2. archive' \in [Contents -> {"none", "there", "altered"}]
    BY <2>1 DEF TypeOK
  <2>3. UNCHANGED <<docs, label, vault, rows>>
    BY <1>6 DEF LoseArchive, Change
  <2>. QED  BY <2>2, <2>3 DEF State, TypeOK
<1>7. ASSUME UNCHANGED <<docs, label, vault, archive, rows>> PROVE State'
  BY <1>7 DEF State, TypeOK
<1>. QED  BY <1>1, <1>2, <1>3, <1>4, <1>5, <1>6, <1>7 DEF Next, vars, Cutover

Counters ==
  /\ decision.status \in {"none", "ready", "blocked"}
  /\ fresh \in BOOLEAN /\ changes \in 0..MaxChanges /\ runs \in 0..MaxRuns

LEMMA CountersStep ==
  ASSUME TypeOK, [Next]_vars
  PROVE  Counters'
<1>. MaxRuns \in Nat /\ MaxChanges \in Nat /\ Counters
  BY MigrationAssumption DEF TypeOK, Counters
<1>1. ASSUME Command, fresh' \in BOOLEAN PROVE Counters'
  BY <1>1 DEF Command, Counters
<1>2. ASSUME Change PROVE Counters'
  <2>1. fresh' \in BOOLEAN
    BY <1>2, Zenon DEF Change
  <2>2. changes' \in 0..MaxChanges /\ runs' = runs /\ decision' = decision
    BY <1>2 DEF Change, Counters
  <2>. QED  BY <2>1, <2>2 DEF Counters
<1>3. ASSUME NEW sel \in Selections, DryRun(sel) \/ Verify(sel) PROVE Counters'
  BY <1>1, <1>3 DEF DryRun, Verify, Counters
<1>4. ASSUME NEW sel \in Selections, NEW retry \in BOOLEAN, Import(sel, retry) PROVE Counters'
  <2>1. Command /\ fresh' \in BOOLEAN
    BY <1>4 DEF Import
  <2>. QED  BY <1>1, <2>1
<1>5. ASSUME NEW min \in Minima, NEW minBody \in BOOLEAN, NEW search \in SearchOutcomes,
             Cutover(min, minBody, search)
      PROVE  Counters'
  <2>1. decision'.status \in {"ready", "blocked"}
    BY <1>5 DEF Cutover
  <2>. QED  BY <1>5, <2>1 DEF Cutover, Counters
<1>6. ASSUME UNCHANGED vars PROVE Counters'
  BY <1>6 DEF Counters, vars
<1>. QED  BY <1>2, <1>3, <1>4, <1>5, <1>6 DEF Next, Upload, Remove, EditNote, Rename, LoseArchive

FullTypes == TypeOK /\ ReportInv /\ VerifyInv

LEMMA TypesStep ==
  ASSUME FullTypes, [Next]_vars
  PROVE  FullTypes'
<1>1. TypeOK /\ ReportInv /\ VerifyInv
  BY DEF FullTypes
<1>2. State' /\ Counters' /\ ReportInv' /\ VerifyInv'
  BY <1>1, StateStep, CountersStep, ReportStep, VerifyStep
<1>3. TypeOK'
  BY <1>2 DEF TypeOK, State, Counters, ReportInv, IsReport, VerifyInv
<1>. QED  BY <1>2, <1>3 DEF FullTypes

LEMMA TypesInit == Init => FullTypes
<1>. SUFFICES ASSUME Init PROVE FullTypes
  OBVIOUS
<1>1. docs \subseteq Docs
  BY MigrationAssumption DEF Init
<1>2. label \in [Tags -> Labels \cup {""}]
  <2>1. (CHOOSE l \in Labels : TRUE) \in Labels
    BY MigrationAssumption
  <2>. QED  BY <2>1 DEF Init
<1>3. vault \in [Docs -> Seq(Note)] /\ rows \in [Docs -> {"none", "imported", "failed"}]
  BY DEF Init
<1>4. archive \in [Contents -> {"none", "there", "altered"}]
  BY DEF Init
<1>5. dry = Absent /\ imp = Absent /\ verify = Absent /\ decision.status = "none"
  BY DEF Init, Undecided
<1>6. changes \in 0..MaxChanges /\ runs \in 0..MaxRuns
  <2>1. changes = 0 /\ runs = 0
    BY Zenon DEF Init
  <2>2. MaxChanges \in Nat /\ MaxRuns \in Nat
    BY MigrationAssumption
  <2>. QED  BY <2>1, <2>2
<1>7. fresh \in BOOLEAN
  BY Zenon DEF Init
<1>. QED  BY <1>1, <1>2, <1>3, <1>4, <1>5, <1>6, <1>7 DEF FullTypes, TypeOK, ReportInv, VerifyInv

(* The commands and the users keep every variable in its type; the counts of   *)
(* every report add up (MigrationReport) and a verification confirms no more   *)
(* documents than it looks at.                                                 *)
THEOREM MigrationTypes == Spec => []TypeOK
<1>1. FullTypes /\ [Next]_vars => FullTypes'
  BY TypesStep
<1>2. FullTypes => TypeOK
  BY DEF FullTypes
<1>. QED  BY <1>1, <1>2, TypesInit, PTL DEF Spec

-----------------------------------------------------------------------------
(* What a fresh verification says is what is there.                            *)

LEMMA SameFindings ==
  ASSUME UNCHANGED <<vault, archive, rows, label>>, NEW d
  PROVE  Discrepancies(d)' = Discrepancies(d)
BY DEF Discrepancies, Matches, RowNote, Differences, Tag, Resolved

LEMMA IdleImport ==
  ASSUME TypeOK, NEW sel \in Selections, NEW retry \in BOOLEAN, Import(sel, retry), fresh' = TRUE
  PROVE  fresh = TRUE /\ UNCHANGED <<vault, archive, rows, label, docs, verify>>
<1>. DEFINE rs == [i \in DOMAIN sel |-> Result(sel, retry, i)]
            done == {rs[i].id : i \in {j \in DOMAIN sel : rs[j].status = "imported"}}
            failed == {rs[i].id : i \in {j \in DOMAIN sel : rs[j].status = "failed"}}
            new(d) == [tag |-> Tag(d), id |-> TRUE, sha |-> TRUE,
                       whole |-> TRUE, row |-> TRUE, full |-> TRUE]
<1>1. /\ rows' = [d \in Docs |-> IF d \in done THEN "imported"
                                  ELSE IF d \in failed THEN "failed" ELSE rows[d]]
      /\ vault' = [d \in Docs |-> IF d \in done THEN Append(vault[d], new(d)) ELSE vault[d]]
      /\ archive' = [c \in Contents |->
             IF archive[c] = "none" /\ \E d \in done : ContentOf[d] = c
             THEN "there" ELSE archive[c]]
      /\ UNCHANGED <<docs, label, verify>>
  BY DEF Import, Command
<1>2. fresh' = (fresh /\ done = {} /\ failed = {})
  BY DEF Import
<1>. HIDE DEF done, failed, new
<1>3. fresh = TRUE /\ done = {} /\ failed = {}
  <2>1. fresh \in BOOLEAN
    BY DEF TypeOK
  <2>. QED  BY <1>2, <2>1, Zenon
<1>4. /\ rows' = [d \in Docs |-> rows[d]]
      /\ vault' = [d \in Docs |-> vault[d]]
      /\ archive' = [c \in Contents |-> archive[c]]
  BY <1>1, <1>3
<1>. QED  BY <1>1, <1>3, <1>4 DEF TypeOK

LEMMA CurrentStep ==
  ASSUME FullTypes, Current, [Next]_vars
  PROVE  Current'
<1>. TypeOK /\ VerifyInv
  BY DEF FullTypes
<1>1. ASSUME fresh = TRUE, UNCHANGED <<vault, archive, rows, label, docs, verify>> PROVE Current'
  <2>1. /\ verify # Absent /\ Members(verify.selected) \subseteq docs
        /\ \A d \in Members(verify.selected) : verify.discrepancies[d] = Discrepancies(d)
    BY <1>1 DEF Current
  <2>2. Members(verify'.selected) = Members(verify.selected)
    BY <1>1
  <2>3. Members(verify.selected)' = Members(verify.selected)
    BY <1>1 DEF Members
  <2>4. \A d : Discrepancies(d)' = Discrepancies(d)
    BY <1>1, SameFindings
  <2>. QED  BY <1>1, <2>1, <2>3, <2>4 DEF Current, Absent
<1>2. ASSUME NEW sel \in Selections, Verify(sel) PROVE Current'
  <2>. DEFINE f == [d \in Members(sel) |-> Discrepancies(d)]
  <2>1. /\ verify'.kind = "verify" /\ verify'.selected = sel
        /\ verify'.discrepancies = f
        /\ UNCHANGED <<vault, archive, rows, label, docs>>
    BY <1>2 DEF Verify, Command
  <2>2. Members(sel) \subseteq docs
    BY SelectionsAreListed
  <2>3. \A d : Discrepancies(d)' = Discrepancies(d)
    BY <2>1, SameFindings
  <2>4. \A d \in Members(sel) : f[d] = Discrepancies(d)
    OBVIOUS
  <2>. HIDE DEF f
  <2>5. Members(verify.selected)' = Members(sel)
    BY <2>1 DEF Members
  <2>6. verify' # Absent
    BY <2>1 DEF Absent
  <2>. QED  BY <2>1, <2>2, <2>3, <2>4, <2>5, <2>6 DEF Current, Absent
<1>3. ASSUME NEW sel \in Selections, NEW retry \in BOOLEAN, Import(sel, retry) PROVE Current'
  <2>1. CASE fresh' = TRUE
    BY <1>1, <1>3, <2>1, IdleImport
  <2>2. CASE fresh' # TRUE
    <3>1. fresh' \in BOOLEAN
      BY <1>3, Zenon DEF Import
    <3>. QED  BY <2>2, <3>1, Zenon DEF Current
  <2>. QED  BY <2>1, <2>2
<1>4. ASSUME Change PROVE Current'
  BY <1>4, Zenon DEF Change, Current
<1>5. ASSUME UNCHANGED <<vault, archive, rows, label, docs, verify, fresh>> PROVE Current'
  <2>1. CASE fresh = TRUE
    BY <1>1, <1>5, <2>1
  <2>2. CASE fresh # TRUE
    <3>1. fresh' = FALSE
      <4>1. fresh \in BOOLEAN
        BY DEF TypeOK
      <4>. QED  BY <1>5, <2>2, <4>1, Zenon
    <3>. QED  BY <3>1, Zenon DEF Current
  <2>. QED  BY <2>1, <2>2
<1>6. ASSUME NEW sel \in Selections, DryRun(sel) PROVE Current'
  BY <1>5, <1>6 DEF DryRun, Command
<1>7. ASSUME NEW min \in Minima, NEW minBody \in BOOLEAN, NEW search \in SearchOutcomes,
             Cutover(min, minBody, search)
      PROVE  Current'
  BY <1>5, <1>7 DEF Cutover
<1>. QED  BY <1>2, <1>3, <1>4, <1>5, <1>6, <1>7
            DEF Next, vars, Upload, Remove, EditNote, Rename, LoseArchive

-----------------------------------------------------------------------------
(* "Ready".                                                                    *)

LEMMA ValidNotes ==
  ASSUME NEW minBody, VaultGate(minBody) = {}, NEW d \in Docs, NEW i \in DOMAIN vault[d]
  PROVE  vault[d][i].whole /\ vault[d][i].sha
<1>. DEFINE a == Objection(\E f \in Files : Failures(f, minBody) # {}, "vault invalid")
            b == Objection(Files = {}, "vault empty")
            c == Objection(verify # Absent /\ verify.verified > Cardinality(Files), "vault small")
<1>1. VaultGate(minBody) = First(<<a, b, c>>)
  BY DEF VaultGate
<1>. HIDE DEF a, b, c
<1>2. a = {}
  <2>1. DOMAIN <<a, b, c>> = 1..3 /\ <<a, b, c>>[1] = a /\ 3 \in Nat /\ 1 \in 1..3
    OBVIOUS
  <2>. DEFINE s == <<a, b, c>>
  <2>. HIDE DEF s
  <2>2. DOMAIN s = 1..3 /\ s[1] = a /\ First(s) = {}
    BY <1>1, <2>1 DEF s
  <2>. QED  BY <2>1, <2>2, FirstObjection
<1>3. ASSUME NEW f \in Files PROVE Failures(f, minBody) = {}
  BY <1>2, <1>3 DEF a, Objection
<1>4. <<d, i>> \in Files
  BY DEF Files
<1>5. Failures(<<d, i>>, minBody) = {}
  BY <1>3, <1>4
<1>. QED  BY <1>5 DEF Failures, File

LEMMA VerifiedReport ==
  ASSUME VerifyInv, NEW min \in Nat, VerifyGate(min) = {}
  PROVE  /\ verify # Absent
         /\ Len(verify.selected) >= min
         /\ \A d \in Members(verify.selected) : verify.discrepancies[d] = {}
<1>. DEFINE a == Objection(Len(verify.selected) < min, "verify total")
            b == Objection(verify.verified # Len(verify.selected), "verified")
            c == Objection(~ Complete(verify), "discrepancies")
            s == <<a, b, c>>
<1>1. verify # Absent /\ First(s) = {}
  BY DEF VerifyGate
<1>. HIDE DEF a, b, c
<1>2. DOMAIN s = 1..3 /\ s[1] = a /\ s[3] = c
  OBVIOUS
<1>. HIDE DEF s
<1>3. \A i \in 1..3 : s[i] = {}
  BY <1>1, <1>2, FirstObjection
<1>4. a = {} /\ c = {}
  BY <1>2, <1>3
<1>5. Len(verify.selected) >= min
  <2>1. Len(verify.selected) \in Nat
    BY <1>1 DEF VerifyInv
  <2>2. ~ (Len(verify.selected) < min)
    BY <1>4 DEF a, Objection
  <2>. QED  BY <2>1, <2>2
<1>6. Complete(verify)
  BY <1>4 DEF c, Objection
<1>7. DOMAIN verify.discrepancies = Members(verify.selected)
  BY <1>1 DEF VerifyInv
<1>. QED  BY <1>1, <1>5, <1>6, <1>7 DEF Complete

LEMMA CleanIsMigrated ==
  ASSUME TypeOK, NEW d \in Docs, Discrepancies(d) = {},
         \A i \in DOMAIN vault[d] : vault[d][i].whole /\ vault[d][i].sha
  PROVE  Migrated(d)
<1>. DEFINE i == CHOOSE k \in Matches(d) : \A j \in Matches(d) : k <= j
            stub == Matches(d) = {} /\ rows[d] = "imported" /\ RowNote(d)
            note == IF stub THEN Stub ELSE vault[d][i]
<1>1. ~ stub
  <2>1. ASSUME stub PROVE FALSE
    <3>1. "created" \in Discrepancies(d)
      BY <2>1 DEF Discrepancies, Differences, Stub
    <3>. QED  BY <3>1
  <2>. QED  BY <2>1
<1>2. Matches(d) # {}
  BY <1>1 DEF Discrepancies
<1>3. i \in Matches(d)
  <2>1. vault[d] \in Seq(Note)
    BY DEF TypeOK
  <2>2. Matches(d) \in SUBSET Nat
    BY <2>1 DEF Matches
  <2>3. \E k \in Matches(d) : \A j \in Matches(d) : k <= j
    BY <1>2, <2>2, Least
  <2>. QED  BY <2>3
<1>4. /\ ~ \E j, k \in Matches(d) : j # k
      /\ archive[ContentOf[d]] # "none"
      /\ vault[d][i].sha => archive[ContentOf[d]] = "there"
      /\ vault[d][i].tag = Tag(d)
  BY <1>1, <1>2 DEF Discrepancies, Differences
<1>. HIDE DEF i
<1>5. i \in DOMAIN vault[d] /\ vault[d][i].whole /\ vault[d][i].sha /\ vault[d][i].id
  BY <1>3 DEF Matches
<1>6. {j \in DOMAIN vault[d] : vault[d][j].id} = {i}
  <2>1. ASSUME NEW j \in DOMAIN vault[d], vault[d][j].id PROVE j = i
    <3>1. j \in Matches(d)
      BY <2>1 DEF Matches
    <3>. QED  BY <1>3, <1>4, <3>1
  <2>. QED  BY <1>5, <2>1
<1>. QED  BY <1>4, <1>5, <1>6 DEF Migrated

LEMMA OncePlusCardinality ==
  ASSUME NEW s \in Seq(docs), docs \subseteq Docs, Once(s), NEW min \in Nat,
         Len(s) >= min, min >= Cardinality(docs)
  PROVE  Members(s) = docs
<1>1. IsFiniteSet(docs)
  BY MigrationAssumption, FS_Subset
<1>2. Members(s) \subseteq docs
  BY DEF Members
<1>3. IsFiniteSet(Members(s))
  BY <1>1, <1>2, FS_Subset
<1>4. Cardinality(docs) \in Nat /\ Cardinality(Members(s)) \in Nat
  BY <1>1, <1>3, FS_CardinalityType
<1>5. Cardinality(Members(s)) <= Cardinality(docs)
  BY <1>1, <1>2, FS_Subset
<1>6. Cardinality(Members(s)) >= Cardinality(docs)
  BY <1>4 DEF Once
<1>7. Cardinality(Members(s)) = Cardinality(docs)
  BY <1>4, <1>5, <1>6
<1>. QED  BY <1>1, <1>2, <1>7, FS_Subset

(* Only Cutover decides, and after it nothing else is done.                    *)
LEMMA DecisionsMade ==
  ASSUME Next
  PROVE  \/ decision' = Undecided
         \/ \E min \in Minima, minBody \in BOOLEAN, search \in SearchOutcomes :
              Cutover(min, minBody, search)
<1>1. Command \/ Change => decision' = Undecided
  BY DEF Command, Change
<1>2. ASSUME NEW sel, DryRun(sel) \/ Verify(sel) PROVE Command
  BY <1>2 DEF DryRun, Verify
<1>3. ASSUME NEW sel, NEW retry, Import(sel, retry) PROVE Command
  BY <1>3 DEF Import
<1>4. ASSUME NEW d, Upload(d) \/ Remove(d) \/ EditNote(d) PROVE Change
  BY <1>4 DEF Upload, Remove, EditNote
<1>5. ASSUME NEW t, NEW l, Rename(t, l) PROVE Change
  BY <1>5 DEF Rename
<1>6. ASSUME NEW c, LoseArchive(c) PROVE Change
  BY <1>6 DEF LoseArchive
<1>. QED  BY <1>1, <1>2, <1>3, <1>4, <1>5, <1>6 DEF Next

LEMMA StillMigrated ==
  ASSUME UNCHANGED <<label, vault, archive>>, NEW d, Migrated(d)
  PROVE  Migrated(d)'
<1>1. Tag(d)' = Tag(d)
  BY DEF Tag, Resolved
<1>2. archive'[ContentOf[d]] = "there" /\ vault' = vault
  BY DEF Migrated
<1>. QED  BY <1>1, <1>2 DEF Migrated

LEMMA ReadyHere ==
  ASSUME FullTypes, Current, NEW min \in Nat, NEW minBody, NEW search,
         Cutover(min, minBody, search)
  PROVE  ReadyMeansMigrated'
<1>. TypeOK /\ VerifyInv
  BY DEF FullTypes
<1>1. SUFFICES ASSUME decision'.status = "ready", fresh' = TRUE
               PROVE  /\ \A d \in Members(verify.selected) : Migrated(d)
                      /\ (decision'.min >= Cardinality(docs) /\ Once(verify.selected)) =>
                            \A d \in docs : Migrated(d)
  <2>1. UNCHANGED <<docs, label, vault, archive, verify>>
    BY DEF Cutover
  <2>2. \A d : Migrated(d) => Migrated(d)'
    BY <2>1, StillMigrated
  <2>3. Members(verify.selected)' = Members(verify.selected)
    BY <2>1 DEF Members
  <2>4. Once(verify.selected)' = Once(verify.selected)
    BY <2>1 DEF Once, Members
  <2>. QED  BY <2>1, <2>2, <2>3, <2>4 DEF ReadyMeansMigrated
<1>2. VaultGate(minBody) = {} /\ VerifyGate(min) = {} /\ decision'.min = min
  BY <1>1 DEF Cutover
<1>3. fresh = TRUE
  BY <1>1, Zenon DEF Cutover
<1>4. /\ verify # Absent /\ Members(verify.selected) \subseteq docs
      /\ \A d \in Members(verify.selected) : verify.discrepancies[d] = Discrepancies(d)
  BY <1>3 DEF Current
<1>5. /\ Len(verify.selected) >= min
      /\ \A d \in Members(verify.selected) : verify.discrepancies[d] = {}
  BY <1>2, VerifiedReport
<1>6. docs \subseteq Docs
  BY DEF TypeOK
<1>7. ASSUME NEW d \in Members(verify.selected) PROVE Migrated(d)
  <2>1. d \in Docs /\ Discrepancies(d) = {}
    BY <1>4, <1>5, <1>6, <1>7
  <2>2. \A i \in DOMAIN vault[d] : vault[d][i].whole /\ vault[d][i].sha
    BY <1>2, <2>1, ValidNotes
  <2>. QED  BY <2>1, <2>2, CleanIsMigrated
<1>8. ASSUME decision'.min >= Cardinality(docs), Once(verify.selected) PROVE Members(verify.selected) = docs
  <2>. DEFINE s == verify.selected
  <2>1. s \in Seq(Docs)
    BY <1>4 DEF VerifyInv
  <2>2. s \in Seq(docs)
    <3>1. \A i \in 1..Len(s) : s[i] \in docs
      BY <1>4, <2>1 DEF Members
    <3>. QED  BY <2>1, <3>1
  <2>. QED  BY <1>2, <1>5, <1>6, <1>8, <2>2, OncePlusCardinality
<1>. QED  BY <1>7, <1>8

(* "Ready", said after a verification since which nothing has changed, means   *)
(* that every document it looked at is migrated: one note with its id and the  *)
(* tag of the server, and its bytes in the archive; and every document of the  *)
(* server, when --min-documents was their number (BuildCutoverReport).         *)
THEOREM ReadyIsMigrated == Spec => []ReadyMeansMigrated
<1>. DEFINE I == FullTypes /\ Current /\ ReadyMeansMigrated
<1>1. Init => I
  <2>. SUFFICES ASSUME Init PROVE I
    OBVIOUS
  <2>1. fresh = FALSE
    BY Zenon DEF Init
  <2>2. Current /\ ReadyMeansMigrated
    BY <2>1, Zenon DEF Current, ReadyMeansMigrated
  <2>. QED  BY <2>2, TypesInit
<1>2. I /\ [Next]_vars => I'
  <2>. SUFFICES ASSUME I, [Next]_vars PROVE I'
    OBVIOUS
  <2>1. FullTypes' /\ Current'
    BY TypesStep, CurrentStep
  <2>2. ASSUME decision' = Undecided PROVE ReadyMeansMigrated'
    BY <2>2 DEF ReadyMeansMigrated, Undecided
  <2>3. ASSUME UNCHANGED vars PROVE ReadyMeansMigrated'
    <3>1. UNCHANGED <<docs, label, vault, archive, verify, decision, fresh>>
      BY <2>3 DEF vars
    <3>2. \A d : Migrated(d) => Migrated(d)'
      BY <3>1, StillMigrated
    <3>3. Members(verify.selected)' = Members(verify.selected)
      BY <3>1 DEF Members
    <3>4. Once(verify.selected)' = Once(verify.selected)
      BY <3>1 DEF Once, Members
    <3>. QED  BY <3>1, <3>2, <3>3, <3>4 DEF ReadyMeansMigrated
  <2>4. ASSUME NEW min \in Minima, NEW minBody \in BOOLEAN, NEW search \in SearchOutcomes,
               Cutover(min, minBody, search)
        PROVE  ReadyMeansMigrated'
    BY <2>4, ReadyHere, MigrationAssumption
  <2>5. CASE UNCHANGED vars
    BY <2>1, <2>3, <2>5
  <2>6. CASE Next
    <3>1. \/ decision' = Undecided
          \/ \E min \in Minima, minBody \in BOOLEAN, search \in SearchOutcomes :
               Cutover(min, minBody, search)
      BY <2>6, DecisionsMade
    <3>. QED  BY <2>1, <2>2, <2>4, <3>1
  <2>. QED  BY <2>5, <2>6
<1>3. I => ReadyMeansMigrated
  OBVIOUS
<1>. QED  BY <1>1, <1>2, <1>3, PTL DEF Spec

-----------------------------------------------------------------------------
(* What blocks the cutover is shown.                                           *)

(* Which gates make which objections.                                          *)
LEMMA VaultObjections ==
  ASSUME NEW minBody
  PROVE  VaultGate(minBody) \subseteq {"vault invalid", "vault empty", "vault small"}
<1>. DEFINE a == Objection(\E f \in Files : Failures(f, minBody) # {}, "vault invalid")
            b == Objection(Files = {}, "vault empty")
            c == Objection(verify # Absent /\ verify.verified > Cardinality(Files), "vault small")
            s == <<a, b, c>>
<1>1. VaultGate(minBody) = First(s)
  BY DEF VaultGate
<1>2. a \subseteq {"vault invalid"} /\ b \subseteq {"vault empty"} /\ c \subseteq {"vault small"}
  BY DEF Objection
<1>. HIDE DEF a, b, c
<1>3. DOMAIN s = 1..3 /\ s[1] = a /\ s[2] = b /\ s[3] = c
  OBVIOUS
<1>. HIDE DEF s
<1>4. \A t \in First(s) : \E i \in 1..3 : t \in s[i]
  BY <1>3, FirstObjection
<1>5. ASSUME NEW t \in First(s) PROVE t \in a \/ t \in b \/ t \in c
  <2>1. PICK i \in 1..3 : t \in s[i]
    BY <1>4, <1>5
  <2>2. i = 1 \/ i = 2 \/ i = 3
    OBVIOUS
  <2>. QED  BY <1>3, <2>1, <2>2
<1>. QED  BY <1>1, <1>2, <1>5

LEMMA DryRunObjections ==
  ASSUME NEW min, NEW t \in DryRunGate(min)
  PROVE  /\ t \in {"dry-run missing", "dry-run mode", "dry-run total", "dry-run failed",
                   "unsupported", "unresolved"}
         /\ t = "unsupported" => dry # Absent /\ dry.unsupported # {}
         /\ t = "unresolved" => dry # Absent /\ dry.unresolved # {}
<1>. DEFINE a == Objection(dry.mode # "dry-run", "dry-run mode")
            b == Objection(dry.total < min, "dry-run total")
            c == Objection(dry.failed # 0, "dry-run failed")
            d == Objection(dry.unsupported # {}, "unsupported")
            e == Objection(dry.unresolved # {}, "unresolved")
            s == <<a, b, c, d, e>>
<1>1. IF dry = Absent THEN t = "dry-run missing" ELSE t \in First(s)
  BY DEF DryRunGate
<1>2. /\ a \subseteq {"dry-run mode"} /\ b \subseteq {"dry-run total"} /\ c \subseteq {"dry-run failed"}
      /\ d \subseteq {"unsupported"} /\ (d # {} => dry.unsupported # {})
      /\ e \subseteq {"unresolved"} /\ (e # {} => dry.unresolved # {})
  BY DEF Objection
<1>. HIDE DEF a, b, c, d, e
<1>3. DOMAIN s = 1..5 /\ s[1] = a /\ s[2] = b /\ s[3] = c /\ s[4] = d /\ s[5] = e
  OBVIOUS
<1>. HIDE DEF s
<1>4. \A x \in First(s) : \E i \in 1..5 : x \in s[i]
  BY <1>3, FirstObjection
<1>5. CASE dry = Absent
  BY <1>1, <1>5
<1>6. CASE dry # Absent
  <2>1. PICK i \in 1..5 : t \in s[i]
    BY <1>1, <1>4, <1>6
  <2>2. i = 1 \/ i = 2 \/ i = 3 \/ i = 4 \/ i = 5
    OBVIOUS
  <2>3. t \in a \/ t \in b \/ t \in c \/ t \in d \/ t \in e
    BY <1>3, <2>1, <2>2
  <2>. QED  BY <1>2, <1>6, <2>3
<1>. QED  BY <1>5, <1>6

LEMMA ImportObjections ==
  ASSUME NEW min, NEW t \in ImportGate(min)
  PROVE  /\ t \in {"import missing", "import mode", "import total", "import failed",
                   "import counts", "import mappings"}
         /\ t = "import failed" => imp # Absent /\ imp.failed # 0
         /\ t = "import mappings" =>
              imp # Absent /\ \E i \in DOMAIN imp.results : Unmapped(imp.results[i])
<1>. DEFINE a == Objection(imp.mode = "dry-run", "import mode")
            b == Objection(imp.total < min, "import total")
            c == Objection(imp.failed # 0, "import failed")
            d == Objection(imp.imported + imp.skipped # imp.total, "import counts")
            e == Objection(\E i \in DOMAIN imp.results : Unmapped(imp.results[i]), "import mappings")
            s == <<a, b, c, d, e>>
<1>1. IF imp = Absent THEN t = "import missing" ELSE t \in First(s)
  BY DEF ImportGate
<1>2. /\ a \subseteq {"import mode"} /\ b \subseteq {"import total"} /\ d \subseteq {"import counts"}
      /\ c \subseteq {"import failed"} /\ (c # {} => imp.failed # 0)
      /\ e \subseteq {"import mappings"}
      /\ (e # {} => \E i \in DOMAIN imp.results : Unmapped(imp.results[i]))
  BY DEF Objection
<1>. HIDE DEF a, b, c, d, e
<1>3. DOMAIN s = 1..5 /\ s[1] = a /\ s[2] = b /\ s[3] = c /\ s[4] = d /\ s[5] = e
  OBVIOUS
<1>. HIDE DEF s
<1>4. \A x \in First(s) : \E i \in 1..5 : x \in s[i]
  BY <1>3, FirstObjection
<1>5. CASE imp = Absent
  BY <1>1, <1>5
<1>6. CASE imp # Absent
  <2>1. PICK i \in 1..5 : t \in s[i]
    BY <1>1, <1>4, <1>6
  <2>2. i = 1 \/ i = 2 \/ i = 3 \/ i = 4 \/ i = 5
    OBVIOUS
  <2>3. t \in a \/ t \in b \/ t \in c \/ t \in d \/ t \in e
    BY <1>3, <2>1, <2>2
  <2>. QED  BY <1>2, <1>6, <2>3
<1>. QED  BY <1>5, <1>6

LEMMA VerifyObjections ==
  ASSUME NEW min, NEW t \in VerifyGate(min)
  PROVE  /\ t \in {"verify missing", "verify total", "verified", "discrepancies"}
         /\ t = "verified" => verify # Absent
<1>. DEFINE a == Objection(Len(verify.selected) < min, "verify total")
            b == Objection(verify.verified # Len(verify.selected), "verified")
            c == Objection(~ Complete(verify), "discrepancies")
            s == <<a, b, c>>
<1>1. IF verify = Absent THEN t = "verify missing" ELSE t \in First(s)
  BY DEF VerifyGate
<1>2. a \subseteq {"verify total"} /\ b \subseteq {"verified"} /\ c \subseteq {"discrepancies"}
  BY DEF Objection
<1>. HIDE DEF a, b, c
<1>3. DOMAIN s = 1..3 /\ s[1] = a /\ s[2] = b /\ s[3] = c
  OBVIOUS
<1>. HIDE DEF s
<1>4. \A x \in First(s) : \E i \in 1..3 : x \in s[i]
  BY <1>3, FirstObjection
<1>5. CASE verify = Absent
  BY <1>1, <1>5
<1>6. CASE verify # Absent
  <2>1. PICK i \in 1..3 : t \in s[i]
    BY <1>1, <1>4, <1>6
  <2>2. i = 1 \/ i = 2 \/ i = 3
    OBVIOUS
  <2>3. t \in a \/ t \in b \/ t \in c
    BY <1>3, <2>1, <2>2
  <2>. QED  BY <1>2, <1>6, <2>3
<1>. QED  BY <1>5, <1>6

LEMMA OtherObjections ==
  ASSUME NEW search \in SearchOutcomes
  PROVE  SearchGate(search) \cup CountGate \subseteq
           {"search missing", "search empty", "search failed", "counts"}
<1>1. SearchGate(search) \subseteq {"search missing", "search empty", "search failed"}
  BY DEF SearchGate, SearchOutcomes
<1>2. CountGate \subseteq {"counts"}
  BY DEF CountGate
<1>. QED  BY <1>1, <1>2

LEMMA GroupsAreShown ==
  ASSUME NEW report, NEW filter
  PROVE  /\ (report.unsupported # {} /\ filter \in {"none", "unsupported"}) =>
              \E x \in MigrationReview(report, filter) : x[2] = "unsupported"
         /\ (report.unresolved # {} /\ filter \in {"none", "unresolved"}) =>
              \E x \in MigrationReview(report, filter) : x[2] = "unresolved"
<1>1. ASSUME NEW e \in report.unsupported, filter \in {"none", "unsupported"}
      PROVE  \E x \in MigrationReview(report, filter) : x[2] = "unsupported"
  <2>1. <<e, "unsupported">> \in {<<x, "unsupported">> : x \in report.unsupported}
    BY <1>1
  <2>2. <<e, "unsupported">> \in MigrationReview(report, filter)
    BY <1>1, <2>1 DEF Groups, MigrationReview
  <2>. QED  BY <2>2
<1>2. ASSUME NEW t \in report.unresolved, filter \in {"none", "unresolved"}
      PROVE  \E x \in MigrationReview(report, filter) : x[2] = "unresolved"
  <2>1. <<t, "unresolved">> \in {<<x, "unresolved">> : x \in report.unresolved}
    BY <1>2
  <2>2. <<t, "unresolved">> \in MigrationReview(report, filter)
    BY <1>2, <2>1 DEF Groups, MigrationReview
  <2>. QED  BY <2>2
<1>. QED  BY <1>1, <1>2

LEMMA ChipsAreShown ==
  ASSUME NEW report, NEW i \in DOMAIN report.results, NEW chip \in Chips(report, i),
         NEW filter \in {"none", chip}
  PROVE  \E x \in MigrationReview(report, filter) : x[2] = chip
<1>1. filter \in {"none"} \cup Chips(report, i)
  OBVIOUS
<1>2. <<report.results[i].id, chip>> \in Shown(report, i)
  BY DEF Shown
<1>3. <<report.results[i].id, chip>> \in MigrationReview(report, filter)
  BY <1>1, <1>2 DEF MigrationReview, Documents
<1>. QED  BY <1>3

LEMMA FindingsAreShown ==
  ASSUME VerifyInv, verify # Absent, NEW filter \in {"none", "missing-metadata"},
         NEW d \in DOMAIN verify.discrepancies, verify.discrepancies[d] # {}
  PROVE  \E x \in VerifyReview(verify, filter) : x[1] = d
<1>1. PICK k \in verify.discrepancies[d] : k \in Findings
  BY DEF VerifyInv
<1>2. <<d, k>> \in VerifyReview(verify, filter)
  BY <1>1 DEF VerifyReview, Findings
<1>. QED  BY <1>2

LEMMA ShownHere ==
  ASSUME FullTypes, NEW min, NEW minBody, NEW search \in SearchOutcomes,
         Cutover(min, minBody, search)
  PROVE  ReviewNamesBlockers'
<1>. ReportInv /\ VerifyInv
  BY DEF FullTypes
<1>1. /\ decision'.blockers = VaultGate(minBody) \cup DryRunGate(min) \cup ImportGate(min)
                               \cup VerifyGate(min) \cup SearchGate(search) \cup CountGate
      /\ dry' = dry /\ imp' = imp /\ verify' = verify
  BY DEF Cutover
<1>2. ASSUME NEW t \in decision'.blockers,
             t \in {"unsupported", "unresolved", "import failed", "import mappings", "verified"}
      PROVE  /\ t \in {"unsupported", "unresolved"} => t \in DryRunGate(min)
             /\ t \in {"import failed", "import mappings"} => t \in ImportGate(min)
             /\ t = "verified" => t \in VerifyGate(min)
  <2>1. t \notin VaultGate(minBody) /\ t \notin SearchGate(search) /\ t \notin CountGate
    BY <1>2, VaultObjections, OtherObjections
  <2>2. t \in DryRunGate(min) => t \in {"unsupported", "unresolved"}
    BY <1>2, DryRunObjections
  <2>3. t \in ImportGate(min) => t \in {"import failed", "import mappings"}
    BY <1>2, ImportObjections
  <2>4. t \in VerifyGate(min) => t = "verified"
    BY <1>2, VerifyObjections
  <2>5. t \in DryRunGate(min) \/ t \in ImportGate(min) \/ t \in VerifyGate(min)
    BY <1>1, <1>2, <2>1
  <2>. QED  BY <2>2, <2>3, <2>4, <2>5
<1>3. ASSUME NEW filter \in {"none", "unsupported"}, "unsupported" \in decision'.blockers
      PROVE  \E x \in MigrationReview(dry, filter) : x[2] = "unsupported"
  BY <1>2, <1>3, DryRunObjections, GroupsAreShown
<1>4. ASSUME NEW filter \in {"none", "unresolved"}, "unresolved" \in decision'.blockers
      PROVE  \E x \in MigrationReview(dry, filter) : x[2] = "unresolved"
  BY <1>2, <1>4, DryRunObjections, GroupsAreShown
<1>5. ASSUME NEW filter \in {"none", "failed"}, "import failed" \in decision'.blockers
      PROVE  \E x \in MigrationReview(imp, filter) : x[2] = "failed"
  <2>1. imp # Absent /\ imp.failed # 0
    <3>1. "import failed" \in ImportGate(min)
      BY <1>2, <1>5
    <3>. QED  BY <3>1, ImportObjections
  <2>2. imp.results \in Seq(Results) /\ imp.failed = Count(imp.results, "failed")
    BY <2>1 DEF ReportInv, IsReport
  <2>3. PICK i \in DOMAIN imp.results : imp.results[i].status = "failed"
    BY <2>1, <2>2, CountsAreNumbers
  <2>4. "failed" \in Chips(imp, i)
    BY <2>3 DEF Chips
  <2>. QED  BY <1>5, <2>4, ChipsAreShown
<1>6. ASSUME NEW filter \in {"none", "missing-metadata"}, "import mappings" \in decision'.blockers
      PROVE  \E x \in MigrationReview(imp, filter) : x[2] = "missing-metadata"
  <2>1. PICK i \in DOMAIN imp.results : Unmapped(imp.results[i])
    <3>1. "import mappings" \in ImportGate(min)
      BY <1>2, <1>6
    <3>. QED  BY <3>1, ImportObjections
  <2>2. "missing-metadata" \in Chips(imp, i)
    BY <2>1 DEF Chips, Unmapped
  <2>. QED  BY <1>6, <2>2, ChipsAreShown
<1>7. ASSUME NEW filter \in {"none", "missing-metadata"}, "verified" \in decision'.blockers,
             NEW d \in DOMAIN verify.discrepancies, verify.discrepancies[d] # {}
      PROVE  \E x \in VerifyReview(verify, filter) : x[1] = d
  <2>1. verify # Absent
    <3>1. "verified" \in VerifyGate(min)
      BY <1>2, <1>7
    <3>. QED  BY <3>1, VerifyObjections
  <2>. QED  BY <1>7, <2>1, FindingsAreShown
<1>. QED  BY <1>1, <1>3, <1>4, <1>5, <1>6, <1>7 DEF ReviewNamesBlockers, Asked, Filters

LEMMA StillShown ==
  ASSUME ReviewNamesBlockers, UNCHANGED <<decision, dry, imp, verify>>
  PROVE  ReviewNamesBlockers'
<1>1. \A b, filter, name : Asked(b, filter, name)' => Asked(b, filter, name)
  BY DEF Asked
<1>. QED  BY <1>1 DEF ReviewNamesBlockers

(* Whatever blocks the cutover, the review of the report behind it shows the   *)
(* documents or ids, unfiltered and under the filter named for it              *)
(* (buildMigrationReviewReport, buildVerifyReviewReport).                      *)
THEOREM ReviewsNameBlockers == Spec => []ReviewNamesBlockers
<1>. DEFINE I == FullTypes /\ ReviewNamesBlockers
<1>1. Init => I
  <2>. SUFFICES ASSUME Init PROVE I
    OBVIOUS
  <2>1. decision = Undecided
    BY Zenon DEF Init
  <2>2. ReviewNamesBlockers
    BY <2>1 DEF ReviewNamesBlockers, Undecided, Asked
  <2>. QED  BY <2>2, TypesInit
<1>2. I /\ [Next]_vars => I'
  <2>. SUFFICES ASSUME I, [Next]_vars PROVE I'
    OBVIOUS
  <2>1. FullTypes'
    BY TypesStep
  <2>2. ASSUME decision' = Undecided PROVE ReviewNamesBlockers'
    BY <2>2 DEF ReviewNamesBlockers, Undecided, Asked
  <2>3. CASE UNCHANGED vars
    <3>1. UNCHANGED <<decision, dry, imp, verify>>
      BY <2>3 DEF vars
    <3>2. ReviewNamesBlockers'
      BY <3>1, StillShown
    <3>. QED  BY <2>1, <3>2
  <2>4. CASE Next
    <3>1. \/ decision' = Undecided
          \/ \E min \in Minima, minBody \in BOOLEAN, search \in SearchOutcomes :
               Cutover(min, minBody, search)
      BY <2>4, DecisionsMade
    <3>. QED  BY <2>1, <2>2, <3>1, ShownHere
  <2>. QED  BY <2>3, <2>4
<1>3. I => ReviewNamesBlockers
  OBVIOUS
<1>. QED  BY <1>1, <1>2, <1>3, PTL DEF Spec
=============================================================================
