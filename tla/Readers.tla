------------------------------- MODULE Readers -------------------------------
(* How one file becomes text without an engine: internal/extract (Detect, the *)
(* archive limits, the readers of structured.go).                             *)
(*                                                                            *)
(* A file is read as it is revealed: each action hands the reader the next    *)
(* element of a well-formed file and updates, beside the reader's own state   *)
(* (p), what the file says to somebody who opens it (doc).  A run of text is  *)
(* one piece, numbered in the order of the document; white space, cell        *)
(* borders and the escaping of cells are left out.  doc.odd names the         *)
(* constructs after which the two are known to differ.                        *)
EXTENDS Naturals, Sequences, FiniteSets, FiniteSetsExt, SequencesExt

CONSTANTS
    Files,       \* the files to read, see FileType
    MaxEntry,    \* maxZipEntryBytes: decompressed bytes of one part
    MaxTotal,    \* maxZipTotalBytes: decompressed bytes of one archive
    MaxEntries,  \* maxZipEntries: parts an archive may have
    MaxTokens,   \* bound: elements of a file of each kind
    MaxRuns      \* bound: runs of text in a Word file

Archives == {"docx", "odf", "xlsx", "pptx", "epub"}
Flat == {"html", "rtf", "eml"}
Engines == {"pdf", "image", "heic"}
Kinds == Archives \union Flat \union Engines
Unknown == "unknown"

(* fmt is what the file is, sig what its first bytes say ("none" when they    *)
(* say nothing), ext what its name says, has the parts an archive identifies  *)
(* itself with, ident their size, usual whether the main part is where it     *)
(* usually is, parts the text parts, each with its size and its place in the  *)
(* order of the names, and spine how many of them are meant to be read, in    *)
(* this order.  After those stand the ones that are text all the same: the    *)
(* navigation document of an EPUB, for one, which repeats its chapters'       *)
(* titles, or a slide that is in the presentation no more.                    *)
FileType == [fmt: Kinds, sig: {"none", "zip"} \union Engines, ext: Kinds \union {Unknown},
             has: SUBSET {"mimetype", "rels", "types", "paths"}, ident: Nat, usual: BOOLEAN,
             entries: Nat, parts: Seq([size: Nat, name: Nat]), spine: Nat]

ASSUME LimitsAssumption == /\ Files \subseteq FileType
                           /\ \A f \in Files : \A i, j \in DOMAIN f.parts :
                                  f.parts[i].name = f.parts[j].name => i = j
                           /\ \A f \in Files : f.spine <= Len(f.parts)
                           /\ {MaxEntry, MaxTotal, MaxEntries, MaxRuns} \subseteq Nat \ {0}
                           /\ MaxTokens \in [Kinds -> Nat]

\* A file whose first bytes say nothing is believed its name, so it has to be
\* right when the name is that of a kind with no container around it.
ASSUME NamesAssumption == \A f \in Files : f.sig = "none" /\ f.ext \in Flat => f.ext = f.fmt

VARIABLES
    file,     \* the file at the path
    kind,     \* what Detect returned
    phase,    \* "detect", "archive", "parse", "done", "failed" or "engine"
    archive,  \* zipArchive: names still to read, total; read and probed are ghosts
    p,        \* the reader's variables and its output
    doc       \* ghost: what the file says so far

readerVars == <<file, kind, phase, archive, p, doc>>

Losing == {"nested table", "rich inline", "html beside text", "part order"}
Leaking == {"nested hidden", "info", "text box", "phonetic", "tracked", "comment", "cut script",
            "rendered twice", "part order", "off the spine"}

NewDoc == [open |-> <<>>, shown |-> <<>>, boxes |-> <<>>, whole |-> FALSE, ways |-> {},
           odd |-> {}, n |-> 0]

NewParser == [out |-> <<>>, table |-> <<>>, row |-> <<>>, cell |-> <<>>, inTable |-> FALSE,
              inCell |-> FALSE, inRow |-> FALSE, shared |-> <<>>, depth |-> 0, ignore |-> 0,
              held |-> <<>>, lists |-> <<>>]

ReaderInit ==
    /\ file \in Files
    /\ kind = Unknown
    /\ phase = "detect"
    /\ archive = [todo |-> <<>>, total |-> 0, read |-> 0, probed |-> 0]
    /\ p = NewParser
    /\ doc = NewDoc

(***************************************************************************)
(* Detection.                                                              *)
(***************************************************************************)

\* The parts an archive's identity is looked up in, in the order Detect asks.
Probes == <<"mimetype", "rels", "types">>

Charge(k) == Cardinality({i \in 1 .. k : Probes[i] \in file.has}) * file.ident

\* readPart hands out the k-th of them: it is there, under the cap of an entry,
\* and the archive's total allows it.
Probed(k) == Probes[k] \in file.has /\ file.ident <= MaxEntry /\ Charge(k) <= MaxTotal

Identifies(k) ==
    /\ Probed(k)
    /\ CASE Probes[k] = "mimetype" -> file.fmt \in {"odf", "epub"}
         [] Probes[k] = "rels" -> file.fmt \in {"docx", "xlsx", "pptx"} /\ file.usual
         [] Probes[k] = "types" -> file.fmt \in {"docx", "xlsx", "pptx"}

ZipKind ==
    IF file.entries > MaxEntries THEN Unknown
    ELSE IF \/ \E k \in 1 .. 3 : Identifies(k)
            \/ "paths" \in file.has /\ file.usual /\ file.fmt \in {"docx", "xlsx", "pptx"}
         THEN file.fmt ELSE Unknown

DetectedKind == CASE file.sig \in Engines -> file.sig
                  [] file.sig = "zip" -> ZipKind
                  [] OTHER -> file.ext

\* How often the lookup reads a part, and at most how much each time.
ProbeBytes ==
    LET last == IF \E k \in 1 .. 3 : Identifies(k) THEN Min({k \in 1 .. 3 : Identifies(k)}) ELSE 3
    IN  Cardinality({k \in 1 .. last : Probes[k] \in file.has}) * Min({file.ident, MaxEntry + 1})

\* The order readers ask for the text parts: by name, and all of them.  A Word
\* file has to have its one part where it usually is.
ByName ==
    CHOOSE s \in [DOMAIN file.parts -> DOMAIN file.parts] :
        \A k, l \in DOMAIN s : k < l => file.parts[s[k]].name < file.parts[s[l]].name

NamesToRead(k) == IF k \notin Archives \/ (k = "docx" /\ ~file.usual) THEN <<>> ELSE ByName

InOrder == \A i, j \in 1 .. file.spine : i < j => file.parts[i].name < file.parts[j].name

PartOdd == (IF InOrder THEN {} ELSE {"part order"})
           \union (IF file.spine < Len(file.parts) THEN {"off the spine"} ELSE {})

\* extractText: Detect, then the reader or the engine of the kind.
Dispatch ==
    /\ phase = "detect"
    /\ kind' = DetectedKind
    /\ phase' = CASE kind' = Unknown -> "failed"
                  [] kind' \in Engines -> "engine"
                  [] kind' \in Flat -> "parse"
                  [] file.sig # "zip" \/ file.entries > MaxEntries -> "failed"
                  [] OTHER -> "archive"
    /\ archive' = [archive EXCEPT !.todo = NamesToRead(kind'),
                                  !.probed = IF file.sig = "zip" /\ file.entries <= MaxEntries
                                             THEN ProbeBytes ELSE 0]
    /\ UNCHANGED <<file, p, doc>>

(***************************************************************************)
(* Archives: zipArchive.readPart and the loops over the parts.             *)
(***************************************************************************)

Fits(size) == size <= MaxEntry /\ archive.total + size <= MaxTotal

\* As Charged, were the size of a part not added to the total.
ChargedNothing(size) ==
    archive' = [archive EXCEPT !.todo = Tail(@), !.read = @ + Min({size, MaxEntry + 1})]

Charged(size) ==
    archive' = [archive EXCEPT !.todo = Tail(@), !.read = @ + Min({size, MaxEntry + 1}),
                               !.total = IF size <= MaxEntry THEN @ + size ELSE @]

\* A slide or a chapter is text of its own; the one part of a Word or an ODF
\* file and the sheet of a workbook are parsed element by element.
ReadPart ==
    /\ phase = "archive" /\ archive.todo # <<>>
    /\ LET i == Head(archive.todo) IN
       /\ Fits(file.parts[i].size)
       /\ Charged(file.parts[i].size)
       /\ IF kind \in {"pptx", "epub"}
          THEN /\ p' = [p EXCEPT !.out = Append(@, i)]
               /\ doc' = [doc EXCEPT !.shown = [j \in 1 .. file.spine |-> j], !.odd = PartOdd]
          ELSE UNCHANGED <<p, doc>>
    /\ UNCHANGED <<file, kind, phase>>

OverLimit ==
    /\ phase = "archive" /\ archive.todo # <<>>
    /\ LET size == file.parts[Head(archive.todo)].size
       IN  ~Fits(size) /\ Charged(size)
    /\ phase' = "failed"
    /\ UNCHANGED <<file, kind, p, doc>>

PartsRead ==
    /\ phase = "archive" /\ archive.todo = <<>>
    /\ phase' = CASE kind \in {"pptx", "epub"} -> "done"
                  [] kind = "docx" /\ ~file.usual -> "failed"
                  [] OTHER -> "parse"
    /\ UNCHANGED <<file, kind, archive, p, doc>>

(***************************************************************************)
(* What is common to the readers of elements.                              *)
(***************************************************************************)

Top == IF doc.open = <<>> THEN "none" ELSE Last(doc.open)
Piece == doc.n + 1

\* The next element is read: the file says d, the reader's variables become q.
Reads(of, d, q) ==
    /\ phase = "parse" /\ kind \in of /\ doc.n < MaxTokens[kind]
    /\ doc' = [d EXCEPT !.n = @ + 1]
    /\ p' = q
    /\ UNCHANGED <<file, kind, phase, archive>>

Opened(tag) == [doc EXCEPT !.open = Append(@, tag)]
Closed == [doc EXCEPT !.open = Front(@)]
Odd(d, o) == [d EXCEPT !.odd = @ \union o]
Says(d, text) == [d EXCEPT !.shown = @ \o text]
Writes(text) == [p EXCEPT !.out = @ \o text]

(***************************************************************************)
(* Word: wordXMLToText.                                                    *)
(***************************************************************************)

WordText(text) ==
    IF p.inCell THEN [p EXCEPT !.cell = @ \o text]
    ELSE IF ~p.inTable THEN Writes(text) ELSE p

WordRun ==
    /\ Top \in {"none", "tc"} /\ Len(doc.shown) < MaxRuns
    /\ Reads({"docx"}, Says(doc, <<Piece>>), WordText(<<Piece>>))

\* A text box is stored twice, once for readers that know shapes and once as
\* the fallback for the others.
WordTextBox ==
    /\ Top \in {"none", "tc"} /\ Len(doc.shown) < MaxRuns
    /\ Reads({"docx"}, Odd(Says(doc, <<Piece>>), {"text box"}), WordText(<<Piece, Piece>>))

WordTable ==
    /\ Top \in {"none", "tc"}
    /\ Reads({"docx"}, Odd(Opened("tbl"), IF Top = "tc" THEN {"nested table"} ELSE {}),
             [p EXCEPT !.inTable = TRUE])

WordRow == Top = "tbl" /\ Reads({"docx"}, Opened("tr"), [p EXCEPT !.row = IF p.inTable THEN <<>> ELSE @])

\* As WordCell, without the reset of the cell's buffer.
WordCellGrows ==
    Top = "tr" /\ Reads({"docx"}, Opened("tc"), [p EXCEPT !.inCell = p.inTable \/ @])

WordCell ==
    /\ Top = "tr"
    /\ Reads({"docx"}, Opened("tc"), [p EXCEPT !.inCell = p.inTable \/ @,
                                               !.cell = IF p.inTable THEN <<>> ELSE @])

WordEndCell ==
    /\ Top = "tc"
    /\ Reads({"docx"}, Closed, IF p.inTable /\ p.inCell
                               THEN [p EXCEPT !.row = @ \o p.cell, !.inCell = FALSE] ELSE p)

WordEndRow ==
    /\ Top = "tr"
    /\ Reads({"docx"}, Closed, IF p.inTable THEN [p EXCEPT !.table = @ \o p.row] ELSE p)

WordEndTable ==
    /\ Top = "tbl"
    /\ Reads({"docx"}, Closed, IF p.inTable THEN [p EXCEPT !.out = @ \o p.table, !.table = <<>>,
                                                           !.inTable = FALSE] ELSE p)

(***************************************************************************)
(* RTF, HTML and ODF: text in regions, some of them not meant to be read.  *)
(***************************************************************************)

\* fonttbl stands for the four kinds of groups rtfToText leaves out, script for
\* the two elements htmlToText does.  A comment is one with markup in it: the
\* pattern of a tag ends at the first ">".  info: the properties of an RTF
\* file, or a picture, whose bytes stand in it as digits.  tracked: the deleted
\* text of an ODF file, or an annotation.
Regions(k) == CASE k = "rtf" -> {"group", "fonttbl", "info"}
                [] k = "html" -> {"element", "script", "comment"}
                [] k = "odf" -> {"element", "tracked"}
                [] OTHER -> {}

Unread == {"fonttbl", "info", "script", "comment", "tracked"}
Hidden == \E i \in DOMAIN doc.open : doc.open[i] \in Unread

RegionOdd(r) ==
    IF r \in Unread \ {"fonttbl", "script"} THEN {r}
    ELSE IF r = "fonttbl" /\ "fonttbl" \in Range(doc.open) THEN {"nested hidden"} ELSE {}

OpenRegion(r) ==
    /\ r \in Regions(kind) /\ Top \notin {"script", "comment"}
    /\ Reads({"rtf", "html", "odf"}, Odd(Opened(r), RegionOdd(r)),
             [p EXCEPT !.depth = @ + 1, !.ignore = IF r = "fonttbl" THEN p.depth + 1 ELSE @])

\* The innermost open region ends.  A script goes when its end is found.
CloseRegion ==
    /\ doc.open # <<>>
    /\ Reads({"rtf", "html", "odf"}, Closed,
             [p EXCEPT !.depth = @ - 1, !.ignore = IF p.ignore = p.depth THEN 0 ELSE @,
                       !.held = IF Top = "script" THEN <<>> ELSE @])

RegionText ==
    Reads({"rtf", "html", "odf"}, IF Hidden THEN doc ELSE Says(doc, <<Piece>>),
          CASE kind = "html" /\ Top = "script" -> [p EXCEPT !.held = Append(@, Piece)]
            [] kind = "rtf" /\ p.ignore # 0 -> p
            [] OTHER -> Writes(<<Piece>>))

(***************************************************************************)
(* Workbooks: readSharedStrings, sheetXMLToText, readCell.                 *)
(***************************************************************************)

\* A shared string of one or two runs; Japanese ones carry their reading too.
SharedString(runs, reading) ==
    /\ doc.open = <<>> /\ p.table = <<>>
    /\ LET text == SubSeq(<<Piece, Piece>>, 1, runs) IN
       Reads({"xlsx"}, Odd(doc, IF reading THEN {"phonetic"} ELSE {}),
             [p EXCEPT !.shared = Append(@, [said |-> text,
                                             kept |-> IF reading THEN text \o <<Piece>> ELSE text])])

Row == Top = "none" /\ Reads({"xlsx"}, Opened("row"), [p EXCEPT !.inRow = TRUE, !.row = <<>>])

Cell(said, kept, odd) ==
    /\ Top = "row"
    /\ Reads({"xlsx"}, Odd(Says(doc, said), odd), [p EXCEPT !.row = IF p.inRow THEN @ \o kept ELSE @])

SharedCell == \E s \in Range(p.shared) : Cell(s.said, s.kept, {})

\* The value of a cell is the last v or t in it.
ValueCell(runs) ==
    Cell(SubSeq(<<Piece, Piece>>, 1, runs), <<Piece>>, IF runs > 1 THEN {"rich inline"} ELSE {})

EndRow ==
    /\ Top = "row"
    /\ Reads({"xlsx"}, Closed, [p EXCEPT !.table = @ \o p.row, !.row = <<>>, !.inRow = FALSE])

(***************************************************************************)
(* Mail: readMailBody.  An open container is [alt, ways]: the ways to read *)
(* what is in it so far, of which each part of a multipart/alternative is  *)
(* one.  The reader keeps [plain, html], the texts of the parts.           *)
(***************************************************************************)

\* What a message may be read as when a part that may be read in ways joins it.
Joined(box, ways) ==
    IF ways = {<<>>} THEN box
    ELSE [box EXCEPT !.ways = IF box.alt THEN (@ \ {<<>>}) \union ways
                              ELSE {a \o b : a \in @, b \in ways}]

\* The text t of a part in the lists of its container.
Kept(parts, t, html) ==
    IF t = <<>> THEN parts
    ELSE IF html THEN [parts EXCEPT !.html = Append(@, t)]
    ELSE [parts EXCEPT !.plain = Append(@, t)]

Chosen(parts) == IF parts.plain # <<>> THEN parts.plain ELSE parts.html

\* An HTML part goes when there is text beside it that is no alternative to it;
\* a multipart counts as text, so it is read beside what it is an alternative to.
MailOdd(box, parts) ==
    IF box.alt THEN IF Len(Chosen(parts)) > 1 THEN {"rendered twice"} ELSE {}
    ELSE IF parts.plain # <<>> /\ parts.html # <<>> THEN {"html beside text"} ELSE {}

WholeMail(d, ways) == [d EXCEPT !.ways = ways, !.whole = TRUE]

MailLeaf(type, attached, blank) ==
    /\ kind = "eml" /\ ~doc.whole
    /\ LET t == IF type = "other" \/ blank THEN <<>> ELSE <<Piece>>
           n == Len(doc.boxes)
       IN  IF n = 0 THEN ~attached /\ Reads({"eml"}, WholeMail(doc, {t}), Writes(t))
           ELSE IF attached THEN Reads({"eml"}, doc, p)
           ELSE Reads({"eml"}, [doc EXCEPT !.boxes[n] = Joined(@, {t})],
                      [p EXCEPT !.lists[n] = Kept(@, t, type = "html")])

MailContainer(alt) ==
    /\ kind = "eml" /\ ~doc.whole
    /\ Reads({"eml"}, [doc EXCEPT !.boxes = Append(@, [alt |-> alt, ways |-> {<<>>}])],
             [p EXCEPT !.lists = Append(@, [plain |-> <<>>, html |-> <<>>])])

MailEndContainer ==
    /\ kind = "eml" /\ doc.boxes # <<>>
    /\ LET n == Len(doc.boxes)
           box == doc.boxes[n]
           t == FlattenSeq(Chosen(p.lists[n]))
           d == Odd([doc EXCEPT !.boxes = Front(@)], MailOdd(box, p.lists[n]))
           q == [p EXCEPT !.lists = Front(@)]
       IN  IF n = 1 THEN Reads({"eml"}, WholeMail(d, box.ways), [q EXCEPT !.out = t])
           ELSE Reads({"eml"}, [d EXCEPT !.boxes[n - 1] = Joined(@, box.ways)],
                      [q EXCEPT !.lists[n - 1] = Kept(@, t, FALSE)])

(***************************************************************************)
(* The end of the file.                                                    *)
(***************************************************************************)

Complete == IF kind = "eml" THEN doc.whole ELSE doc.open = <<>>

\* io.EOF: a workbook's rows become the table, a script that never ended stays.
EndOfFile ==
    /\ phase = "parse"
    /\ Complete \/ kind \in {"rtf", "html"}
    /\ phase' = "done"
    /\ p' = CASE kind = "xlsx" -> Writes(p.table)
              [] kind = "html" -> Writes(p.held)
              [] OTHER -> p
    /\ doc' = Odd(doc, IF p.held # <<>> THEN {"cut script"} ELSE {})
    /\ UNCHANGED <<file, kind, archive>>

\* A file that ends in the middle is an error to the XML and the MIME parsers.
CutOff ==
    /\ phase = "parse" /\ ~Complete /\ kind \notin {"rtf", "html"}
    /\ phase' = "failed"
    /\ UNCHANGED <<file, kind, archive, p, doc>>

ReaderNext ==
    \/ Dispatch \/ ReadPart \/ OverLimit \/ PartsRead \/ EndOfFile \/ CutOff
    \/ WordRun \/ WordTextBox \/ WordTable \/ WordRow \/ WordCell
    \/ WordEndCell \/ WordEndRow \/ WordEndTable
    \/ \E r \in UNION {Regions(k) : k \in Kinds} : OpenRegion(r)
    \/ CloseRegion \/ RegionText
    \/ \E runs \in 1 .. 2, reading \in BOOLEAN : SharedString(runs, reading)
    \/ Row \/ SharedCell \/ EndRow
    \/ \E runs \in 1 .. 2 : ValueCell(runs)
    \/ \E type \in {"plain", "html", "other"}, attached, blank \in BOOLEAN :
           MailLeaf(type, attached, blank)
    \/ \E alt \in BOOLEAN : MailContainer(alt)
    \/ MailEndContainer
=============================================================================
