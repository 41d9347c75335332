------------------------------ MODULE OcrEngine ------------------------------
(* The engine images and PDF files go to: internal/ocr (VLMRunner over Runner).*)
(* Several callers, the workers of one import for instance, share one Runner   *)
(* and with it what it knows about the languages of tesseract.                 *)
EXTENDS Naturals, Sequences, FiniteSets

CONSTANTS
    Calls,       \* concurrent calls of Extract
    Configured,  \* OCRLang: the languages asked for
    Languages,   \* the languages there are
    MaxPages,    \* bound: pages of a PDF file
    PageLimit,   \* errgroup limit: pages of one file read at once
    MaxFaults    \* bound: tools that fail

ASSUME OcrAssumption == /\ Configured # {} /\ Configured \subseteq Languages
                        /\ {MaxPages, PageLimit, MaxFaults} \subseteq Nat \ {0}

VARIABLES
    vlm,        \* is a vision model configured
    installed,  \* the languages tesseract has
    runner,     \* Runner: langCacheLoaded, langCache (known, langs), validatedLang
                \* (cached, lang); gone is a ghost
    call,       \* the calls
    faults      \* tools that failed so far

ocrVars == <<vlm, installed, runner, call, faults>>

NewCall == [pc |-> "idle", kind |-> "image", cancelled |-> FALSE, faulty |-> FALSE,
            engine |-> "none", lang |-> {}, pages |-> <<>>, results |-> <<>>]

OcrInit ==
    /\ vlm \in BOOLEAN
    /\ installed \in SUBSET Languages
    /\ runner = [loaded |-> FALSE, known |-> FALSE, langs |-> {}, cached |-> FALSE,
                 lang |-> {}, gone |-> FALSE]
    /\ call = [c \in Calls |-> NewCall]
    /\ faults = 0

Set(c, r) == call' = [call EXCEPT ![c] = r]

Working(c) == call[c].pc \notin {"idle", "done", "failed"}

\* What stops c's tools: its own context, or the group's after a page failed.
Stopped(c) == call[c].cancelled \/ \E i \in DOMAIN call[c].pages : call[c].pages[i] = "failed"

\* A tool of c fails; a stopped one needs no other reason.
Fails(c) ==
    \/ Stopped(c) /\ UNCHANGED faults
    \/ ~Stopped(c) /\ faults < MaxFaults /\ faults' = faults + 1

Give(c, r) == Set(c, [r EXCEPT !.pc = "failed", !.faulty = @ \/ ~Stopped(c)])

\* The kinds of images sips does not have to convert go to the model first.
Begin(c, kind) ==
    /\ call[c].pc = "idle"
    /\ Set(c, [NewCall EXCEPT !.kind = kind,
                              !.pc = IF vlm /\ kind = "image" THEN "generate"
                                     ELSE IF kind = "heic" THEN "convert" ELSE "validate"])
    /\ UNCHANGED <<vlm, installed, runner, faults>>

Generate(c) ==
    /\ call[c].pc = "generate" /\ ~call[c].cancelled
    /\ Set(c, [call[c] EXCEPT !.pc = "done", !.engine = "model", !.pages = <<"read">>,
                              !.results = <<1>>])
    /\ UNCHANGED <<vlm, installed, runner, faults>>

\* The image cannot be read: an error of the call, and tesseract is not tried.
ReadFails(c) ==
    /\ call[c].pc = "generate"
    /\ faults < MaxFaults /\ faults' = faults + 1
    /\ Set(c, [call[c] EXCEPT !.pc = "failed", !.faulty = TRUE])
    /\ UNCHANGED <<vlm, installed, runner>>

\* Any error of the model, a cancelled request too: tesseract is tried.
GenerateFails(c) ==
    /\ call[c].pc = "generate"
    /\ Fails(c)
    /\ Set(c, [call[c] EXCEPT !.pc = "validate"])
    /\ UNCHANGED <<vlm, installed, runner>>

Convert(c) ==
    /\ call[c].pc = "convert" /\ ~call[c].cancelled
    /\ Set(c, [call[c] EXCEPT !.pc = "validate"])
    /\ UNCHANGED <<vlm, installed, runner, faults>>

\* A tool is not on the PATH, the conversion or pdftoppm fails.
ToolFails(c) ==
    /\ call[c].pc \in {"validate", "convert", "render"}
    /\ Fails(c)
    /\ Give(c, call[c])
    /\ UNCHANGED <<vlm, installed, runner>>

(***************************************************************************)
(* validateLanguages: once for a Runner, without its lock in between.      *)
(***************************************************************************)

\* The configured languages that may be used; none when none is installed.  A
\* tesseract that cannot list its languages is believed to have them.
Usable(r) == IF r.known THEN Configured \intersect r.langs ELSE Configured

\* The next step of a call that was given these languages.
WithLanguages(c, langs) ==
    [call[c] EXCEPT !.lang = langs, !.pc = IF langs = {} THEN "failed" ELSE "render"]

Validate(c) ==
    /\ call[c].pc = "validate"
    /\ Set(c, IF runner.cached THEN WithLanguages(c, runner.lang)
              ELSE [call[c] EXCEPT !.pc = "list"])
    /\ UNCHANGED <<vlm, installed, runner, faults>>

\* availableLanguages, under langMu: the first call that gets an answer, a
\* failure of tesseract included, answers for all.
List(c) ==
    /\ call[c].pc = "list"
    /\ \/ runner.loaded /\ UNCHANGED <<runner, faults>>
       \/ /\ ~runner.loaded /\ ~call[c].cancelled
          /\ runner' = [runner EXCEPT !.loaded = TRUE, !.known = TRUE, !.langs = installed]
          /\ UNCHANGED faults
       \/ /\ ~runner.loaded /\ ~call[c].cancelled /\ Fails(c)
          /\ runner' = [runner EXCEPT !.loaded = TRUE]
    /\ Set(c, [call[c] EXCEPT !.pc = "publish", !.lang = Usable(runner')])
    /\ UNCHANGED <<vlm, installed>>

ListCancelled(c) ==
    /\ call[c].pc = "list" /\ call[c].cancelled /\ ~runner.loaded
    /\ Set(c, [call[c] EXCEPT !.pc = "publish", !.lang = {}])
    /\ UNCHANGED <<vlm, installed, runner, faults>>

\* tesseract has gone since Available found it: an error of the validation like
\* no language at all, and kept like it.
ListGone(c) ==
    /\ call[c].pc = "list" /\ ~call[c].cancelled /\ ~runner.loaded
    /\ Fails(c)
    /\ runner' = [runner EXCEPT !.gone = TRUE]
    /\ Set(c, [call[c] EXCEPT !.pc = "publish", !.lang = {}])
    /\ UNCHANGED <<vlm, installed>>

\* As Publish, without the check of ctx.Err.
PublishAlways(c) ==
    /\ call[c].pc = "publish"
    /\ runner' = [runner EXCEPT !.cached = TRUE, !.lang = call[c].lang]
    /\ Set(c, WithLanguages(c, call[c].lang))
    /\ UNCHANGED <<vlm, installed, faults>>

\* The answer of a call that was cancelled meanwhile is not kept.
Publish(c) ==
    /\ call[c].pc = "publish"
    /\ runner' = IF call[c].cancelled THEN runner
                 ELSE [runner EXCEPT !.cached = TRUE, !.lang = call[c].lang]
    /\ Set(c, WithLanguages(c, call[c].lang))
    /\ UNCHANGED <<vlm, installed, faults>>

(***************************************************************************)
(* The pages: pdftoppm, then tesseract for up to PageLimit pages at once.  *)
(***************************************************************************)

Render(c, n) ==
    /\ call[c].pc = "render" /\ ~call[c].cancelled
    /\ n = 1 \/ call[c].kind = "pdf"
    /\ Set(c, [call[c] EXCEPT !.pc = "pages", !.engine = "tesseract",
                              !.pages = [i \in 1 .. n |-> "todo"],
                              !.results = [i \in 1 .. n |-> 0]])
    /\ UNCHANGED <<vlm, installed, runner, faults>>

Running(c) == {i \in DOMAIN call[c].pages : call[c].pages[i] = "running"}

\* g.Go in the order of the pages; it goes on after a page has failed.
StartPage(c, i) ==
    /\ call[c].pc = "pages" /\ i \in DOMAIN call[c].pages
    /\ \A j \in DOMAIN call[c].pages : call[c].pages[j] = "todo" <=> j >= i
    /\ Cardinality(Running(c)) < PageLimit
    /\ Set(c, [call[c] EXCEPT !.pages[i] = "running"])
    /\ UNCHANGED <<vlm, installed, runner, faults>>

PageRead(c, i) ==
    /\ call[c].pc = "pages" /\ i \in Running(c)
    /\ Set(c, [call[c] EXCEPT !.pages[i] = "read", !.results[i] = i])
    /\ UNCHANGED <<vlm, installed, runner, faults>>

PageFails(c, i) ==
    /\ call[c].pc = "pages" /\ i \in Running(c)
    /\ Fails(c)
    /\ Set(c, [call[c] EXCEPT !.pages[i] = "failed", !.faulty = @ \/ ~Stopped(c)])
    /\ UNCHANGED <<vlm, installed, runner>>

\* g.Wait.
Wait(c) ==
    /\ call[c].pc = "pages"
    /\ \A i \in DOMAIN call[c].pages : call[c].pages[i] \in {"read", "failed"}
    /\ Set(c, [call[c] EXCEPT !.pc = IF \E i \in DOMAIN call[c].pages : call[c].pages[i] = "failed"
                                     THEN "failed" ELSE "done"])
    /\ UNCHANGED <<vlm, installed, runner, faults>>

Cancel(c) ==
    /\ Working(c) /\ ~call[c].cancelled
    /\ Set(c, [call[c] EXCEPT !.cancelled = TRUE])
    /\ UNCHANGED <<vlm, installed, runner, faults>>

\* A language pack is installed while the process runs.
Install(l) ==
    /\ l \notin installed
    /\ installed' = installed \union {l}
    /\ UNCHANGED <<vlm, runner, call, faults>>

OcrNext(kind) ==
    \/ \E c \in Calls :
           \/ Begin(c, kind) \/ Generate(c) \/ ReadFails(c) \/ GenerateFails(c)
           \/ Convert(c) \/ ToolFails(c)
           \/ Validate(c) \/ List(c) \/ ListCancelled(c) \/ ListGone(c) \/ Publish(c)
           \/ \E n \in 1 .. MaxPages : Render(c, n) \/ StartPage(c, n) \/ PageRead(c, n) \/ PageFails(c, n)
           \/ Wait(c) \/ Cancel(c)
    \/ \E l \in Languages : Install(l)
=============================================================================
