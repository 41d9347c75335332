------------------------------ MODULE Extraction ------------------------------
(* extractText of internal/ingest: a file is read by a reader of its kind or    *)
(* handed to the engine, where it meets the calls of other workers.  Readers    *)
(* share nothing, so one file at a time shows all they can do.                  *)
EXTENDS Readers, OcrEngine

vars == <<readerVars, ocrVars>>

\* What the engine has is all the same to a file that is read without it.
Init == ReaderInit /\ OcrInit /\ (DetectedKind \notin Engines => ~vlm /\ installed = {})

Next ==
    \/ ReaderNext /\ UNCHANGED ocrVars
    \/ phase = "engine" /\ OcrNext(kind) /\ UNCHANGED readerVars

Spec == Init /\ [][Next]_vars

(***************************************************************************)
(* Properties                                                              *)
(***************************************************************************)

\* What the file may be read as.
Texts == IF kind = "eml" THEN doc.ways ELSE {doc.shown}

\* s is t with pieces left out: t is gone through for the next piece of s.
Within(s, t) ==
    FoldLeft(LAMBDA i, x : IF i < Len(s) /\ s[i + 1] = x THEN i + 1 ELSE i, 0, t) = Len(s)

\* A file that was read was read as what it is, whatever its name says when its
\* first bytes say something, and its text is what the file says, in its order:
\* nothing is lost without one of the constructs in Losing, nothing is there
\* twice or should not be there without one of those in Leaking.  A mail
\* whose parts have text is never read as empty.
TextIsExact ==
    phase = "done" =>
        /\ kind = file.fmt
        /\ doc.odd \intersect Losing = {} => \E t \in Texts : Within(t, p.out)
        /\ doc.odd \intersect Leaking = {} => \E t \in Texts : Within(p.out, t)
        /\ p.out = <<>> => kind = "docx" \/ <<>> \in Texts

\* A reader decompresses at most the total and one part, the lookup of the kind
\* at most a part for each place it looks in; a text that is handed on is that of
\* whole parts; and an archive within the limits is not refused for its size.
Size == MapThenSumSet(LAMBDA i : file.parts[i].size, DOMAIN file.parts)

WithinLimits == /\ file.entries <= MaxEntries /\ Size <= MaxTotal
                /\ \A i \in DOMAIN file.parts : file.parts[i].size <= MaxEntry

ReadsAreBounded ==
    /\ archive.read <= MaxTotal + MaxEntry + 1
    /\ archive.probed <= 3 * (MaxEntry + 1)
    /\ kind \in Archives /\ phase \in {"parse", "done"} => WithinLimits /\ archive.read = Size
    /\ kind \in Archives /\ phase = "failed" /\ doc.n = 0 =>
           ~WithinLimits \/ file.sig # "zip" \/ (kind = "docx" /\ ~file.usual)

\* The calls that share a Runner disturb each other in nothing but the languages:
\* a text is that of all the pages in their order, all texts were read with the
\* same languages, and a call fails for its own cancellation, for a tool of its
\* own, for want of a language, or because tesseract vanished under another.
CallsShareOnlyLanguages ==
    \A c \in Calls :
        /\ call[c].pc = "done" => call[c].results = [i \in DOMAIN call[c].pages |-> i]
        /\ call[c].pc = "failed" =>
               \/ call[c].cancelled \/ call[c].faulty \/ runner.gone
               \/ runner.loaded /\ Usable(runner) = {}
        /\ \A d \in Calls :
               call[c].engine = "tesseract" /\ call[d].engine = "tesseract" =>
                   call[c].lang = call[d].lang
=============================================================================
