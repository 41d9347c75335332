--------------------------- MODULE ExtractionProofs ---------------------------
(* Proofs about Extraction: calls that share one Runner disturb each other in  *)
(* nothing but the languages; the limits on archives hold and refuse nothing   *)
(* else; and the text of a file is what the file says.                         *)
EXTENDS Extraction, FiniteSetTheorems, SequenceTheorems, WellFoundedInduction, TLAPS

(***************************************************************************)
(* The engine.                                                             *)
(***************************************************************************)

CallFields == {"pc", "kind", "cancelled", "faulty", "engine", "lang", "pages", "results"}
IsCall(r) == r = [f \in CallFields |-> r[f]]

RunnerFields == {"loaded", "known", "langs", "cached", "lang", "gone"}

(* The steps before a call has pages.                                          *)
Before == {"idle", "generate", "convert", "validate", "list", "publish", "render"}

(* Languages that a call or the Runner has are those of the listing that the   *)
(* Runner keeps.                                                               *)
Listed(langs, rn) == langs # {} => rn.loaded /\ langs = Usable(rn)
NoLanguage(rn) == rn.gone \/ (rn.loaded /\ Usable(rn) = {})

PageFailed(r) == \E i \in DOMAIN r.pages : r.pages[i] = "failed"

(* What is true of one call, with what the Runner knows.                       *)
LanguagesOK(r, rn) ==
  /\ Listed(r.lang, rn)
  /\ r.engine = "tesseract" \/ r.pc \in {"render", "pages"} => r.lang # {}
  /\ r.pc = "publish" /\ r.lang = {} => r.cancelled \/ NoLanguage(rn)
PagesOK(r) ==
  /\ r.pc \in Before => r.pages = <<>> /\ r.engine = "none"
  /\ PageFailed(r) => r.cancelled \/ r.faulty
  /\ r.pc = "pages" =>
       /\ r.results = [i \in DOMAIN r.pages |-> r.results[i]]
       /\ \A i \in DOMAIN r.pages : r.pages[i] = "read" => r.results[i] = i
EndOK(r, rn) ==
  /\ r.pc = "done" => r.results = [i \in DOMAIN r.pages |-> i]
  /\ r.pc = "failed" => r.cancelled \/ r.faulty \/ NoLanguage(rn)

CallOK(r, rn) == IsCall(r) /\ LanguagesOK(r, rn) /\ PagesOK(r) /\ EndOK(r, rn)

RunnerOK(rn) ==
  /\ rn = [f \in RunnerFields |-> rn[f]]
  /\ Listed(rn.lang, rn)
  /\ rn.cached /\ rn.lang = {} => NoLanguage(rn)

EngineInv ==
  /\ RunnerOK(runner)
  /\ call = [c \in Calls |-> call[c]]
  /\ \A c \in Calls : CallOK(call[c], runner)

(* What the Runner has learnt it does not forget.                              *)
Grows(rn, new) ==
  /\ rn.loaded => new.loaded /\ Usable(new) = Usable(rn)
  /\ rn.gone => new.gone

LEMMA StillListed ==
  ASSUME NEW langs, NEW rn, NEW new, Grows(rn, new), Listed(langs, rn)
  PROVE  Listed(langs, new)
BY DEF Grows, Listed

LEMMA StillNone ==
  ASSUME NEW rn, NEW new, Grows(rn, new), NoLanguage(rn)
  PROVE  NoLanguage(new)
BY DEF Grows, NoLanguage

LEMMA CallStays ==
  ASSUME NEW r, NEW rn, NEW new, Grows(rn, new), CallOK(r, rn)
  PROVE  CallOK(r, new)
<1>1. LanguagesOK(r, new)
  BY StillListed, StillNone DEF CallOK, LanguagesOK
<1>2. EndOK(r, new)
  BY StillNone DEF CallOK, EndOK
<1>. QED  BY <1>1, <1>2 DEF CallOK

(* A step of call c.                                                           *)
LEMMA CallStep ==
  ASSUME EngineInv, NEW c \in Calls, NEW r, Set(c, r), CallOK(r, runner'),
         RunnerOK(runner'), Grows(runner, runner')
  PROVE  EngineInv'
<1>1. /\ call' = [d \in Calls |-> call'[d]]
      /\ \A d \in Calls : call'[d] = IF d = c THEN r ELSE call[d]
  BY DEF Set, EngineInv
<1>2. \A d \in Calls : CallOK(call'[d], runner')
  BY <1>1, CallStays DEF EngineInv
<1>. QED  BY <1>1, <1>2 DEF EngineInv

LEMMA SameRunner == Grows(runner, runner)
BY DEF Grows

LEMMA NewCallOK == IsCall(NewCall) /\ NewCall.lang = {} /\ NewCall.pages = <<>> /\ NewCall.engine = "none"
BY DEF NewCall, IsCall, CallFields

(* A call goes on to another step, with all it has.                            *)
LEMMA NextStep ==
  ASSUME NEW r, NEW rn, CallOK(r, rn), r.pc \in Before \ {"render"},
         NEW step \in {"validate", "list"}
  PROVE  CallOK([r EXCEPT !.pc = step], rn)
<1>. DEFINE q == [r EXCEPT !.pc = step]
<1>1. /\ IsCall(q) /\ q.pc = step
      /\ q.engine = r.engine /\ q.lang = r.lang /\ q.pages = r.pages
      /\ q.cancelled = r.cancelled /\ q.faulty = r.faulty
  BY Zenon DEF CallOK, IsCall, CallFields
<1>. HIDE DEF q
<1>2. LanguagesOK(q, rn)
  BY <1>1 DEF CallOK, LanguagesOK
<1>3. PagesOK(q)
  BY <1>1 DEF CallOK, PagesOK, Before, PageFailed
<1>4. EndOK(q, rn)
  BY <1>1 DEF EndOK
<1>5. CallOK(q, rn)
  BY <1>1, <1>2, <1>3, <1>4 DEF CallOK
<1>. QED  BY <1>5 DEF q

LEMMA StepBegin ==
  ASSUME EngineInv, NEW c \in Calls, NEW k, Begin(c, k)
  PROVE  EngineInv'
<1>. DEFINE step == IF vlm /\ k = "image" THEN "generate"
                    ELSE IF k = "heic" THEN "convert" ELSE "validate"
            r == [NewCall EXCEPT !.kind = k, !.pc = step]
<1>1. Set(c, r) /\ runner' = runner
  BY Zenon DEF Begin
<1>2. step \in {"generate", "convert", "validate"}
  OBVIOUS
<1>. HIDE DEF step
<1>3. /\ IsCall(r) /\ r.pc = step /\ r.lang = {} /\ r.pages = <<>> /\ r.engine = "none"
  BY DEF NewCall, IsCall, CallFields
<1>. HIDE DEF r
<1>4. CallOK(r, runner)
  BY <1>2, <1>3 DEF CallOK, LanguagesOK, PagesOK, EndOK, Listed, Before, PageFailed
<1>. QED  BY <1>1, <1>4, CallStep, SameRunner DEF EngineInv

LEMMA StepOn ==
  ASSUME EngineInv, NEW c \in Calls, GenerateFails(c) \/ Convert(c)
  PROVE  EngineInv'
<1>1. /\ Set(c, [call[c] EXCEPT !.pc = "validate"]) /\ runner' = runner
      /\ call[c].pc \in Before \ {"render"}
  BY Zenon DEF GenerateFails, Convert, Before
<1>2. CallOK([call[c] EXCEPT !.pc = "validate"], runner)
  BY <1>1, NextStep DEF EngineInv
<1>. QED  BY <1>1, <1>2, CallStep, SameRunner DEF EngineInv

LEMMA StepGenerate ==
  ASSUME EngineInv, NEW c \in Calls, Generate(c)
  PROVE  EngineInv'
<1>. DEFINE r == [call[c] EXCEPT !.pc = "done", !.engine = "model", !.pages = <<"read">>,
                                 !.results = <<1>>]
<1>1. Set(c, r) /\ runner' = runner
  BY Zenon DEF Generate
<1>2. CallOK(call[c], runner)
  BY DEF EngineInv
<1>3. /\ IsCall(r) /\ r.pc = "done" /\ r.engine = "model" /\ r.lang = call[c].lang
      /\ r.pages = <<"read">> /\ r.results = <<1>>
  BY <1>2 DEF CallOK, IsCall, CallFields
<1>. HIDE DEF r
<1>4. /\ DOMAIN <<"read">> = {1} /\ <<"read">>[1] = "read"
      /\ <<1>> = [i \in {1} |-> i]
  OBVIOUS
<1>5. LanguagesOK(r, runner)
  BY <1>2, <1>3 DEF CallOK, LanguagesOK
<1>6. PagesOK(r)
  BY <1>3, <1>4 DEF PagesOK, Before, PageFailed
<1>7. EndOK(r, runner)
  BY <1>3, <1>4 DEF EndOK
<1>8. CallOK(r, runner)
  BY <1>3, <1>5, <1>6, <1>7 DEF CallOK
<1>. QED  BY <1>1, <1>8, CallStep, SameRunner DEF EngineInv

(* A call fails before it has pages.                                           *)
LEMMA StepToolFails ==
  ASSUME EngineInv, NEW c \in Calls, ToolFails(c)
  PROVE  EngineInv'
<1>. DEFINE f == call[c].faulty \/ ~Stopped(c)
            r == [call[c] EXCEPT !.pc = "failed", !.faulty = f]
<1>1. Set(c, r) /\ runner' = runner /\ call[c].pc \in Before
  BY Zenon DEF ToolFails, Give, Before
<1>2. CallOK(call[c], runner)
  BY DEF EngineInv
<1>3. call[c].pages = <<>>
  BY <1>1, <1>2 DEF CallOK, PagesOK
<1>4. Stopped(c) => call[c].cancelled
  BY <1>3 DEF Stopped
<1>5. f \/ call[c].cancelled
  BY <1>4
<1>6. /\ IsCall(r) /\ r.pc = "failed" /\ r.engine = call[c].engine /\ r.lang = call[c].lang
      /\ r.pages = <<>> /\ r.cancelled = call[c].cancelled /\ r.faulty = f
  BY <1>2, <1>3, Zenon DEF CallOK, IsCall, CallFields
<1>7. r.cancelled \/ r.faulty
  BY <1>5, <1>6, Zenon
<1>. HIDE DEF r, f
<1>8. LanguagesOK(r, runner)
  BY <1>2, <1>6 DEF CallOK, LanguagesOK
<1>9. PagesOK(r)
  BY <1>6, <1>7 DEF PagesOK, PageFailed, Before
<1>10. EndOK(r, runner)
  BY <1>6, <1>7 DEF EndOK
<1>11. CallOK(r, runner)
  BY <1>6, <1>8, <1>9, <1>10 DEF CallOK
<1>. QED  BY <1>1, <1>11, CallStep, SameRunner DEF EngineInv

LEMMA StepReadFails ==
  ASSUME EngineInv, NEW c \in Calls, ReadFails(c)
  PROVE  EngineInv'
<1>. DEFINE r == [call[c] EXCEPT !.pc = "failed", !.faulty = TRUE]
<1>1. Set(c, r) /\ runner' = runner /\ call[c].pc \in Before
  BY Zenon DEF ReadFails, Before
<1>2. CallOK(call[c], runner)
  BY DEF EngineInv
<1>3. call[c].pages = <<>>
  BY <1>1, <1>2 DEF CallOK, PagesOK
<1>4. /\ IsCall(r) /\ r.pc = "failed" /\ r.engine = call[c].engine /\ r.lang = call[c].lang
      /\ r.pages = <<>> /\ r.faulty
  BY <1>2, <1>3, Zenon DEF CallOK, IsCall, CallFields
<1>. HIDE DEF r
<1>5. LanguagesOK(r, runner)
  BY <1>2, <1>4 DEF CallOK, LanguagesOK
<1>6. PagesOK(r)
  BY <1>4 DEF PagesOK, PageFailed, Before
<1>7. EndOK(r, runner)
  BY <1>4 DEF EndOK
<1>8. CallOK(r, runner)
  BY <1>4, <1>5, <1>6, <1>7 DEF CallOK
<1>. QED  BY <1>1, <1>8, CallStep, SameRunner DEF EngineInv

(* A call is given languages that were listed, or none with a reason.          *)
LEMMA Given ==
  ASSUME NEW rn, NEW c \in Calls, CallOK(call[c], rn), call[c].pc \in Before,
         NEW langs, Listed(langs, rn), langs = {} => call[c].cancelled \/ NoLanguage(rn)
  PROVE  CallOK(WithLanguages(c, langs), rn)
<1>. DEFINE step == IF langs = {} THEN "failed" ELSE "render"
            r == [call[c] EXCEPT !.lang = langs, !.pc = step]
<1>1. /\ IsCall(r) /\ r.pc = step /\ r.lang = langs /\ r.engine = call[c].engine
      /\ r.pages = call[c].pages /\ r.cancelled = call[c].cancelled /\ r.faulty = call[c].faulty
  BY Zenon DEF CallOK, IsCall, CallFields
<1>2. call[c].pages = <<>> /\ call[c].engine = "none"
  BY DEF CallOK, PagesOK
<1>3. step \in {"failed", "render"} /\ (step = "failed" <=> langs = {})
  OBVIOUS
<1>4. WithLanguages(c, langs) = r
  BY DEF WithLanguages
<1>. HIDE DEF r, step
<1>6. PagesOK(r)
  BY <1>1, <1>2, <1>3 DEF PagesOK, PageFailed, Before
<1>7. EndOK(r, rn)
  BY <1>1, <1>3, Zenon DEF EndOK
<1>5. LanguagesOK(r, rn)
  BY <1>1, <1>2, <1>3 DEF LanguagesOK
<1>8. CallOK(r, rn)
  BY <1>1, <1>5, <1>6, <1>7 DEF CallOK
<1>. QED  BY <1>4, <1>8

LEMMA StepValidate ==
  ASSUME EngineInv, NEW c \in Calls, Validate(c)
  PROVE  EngineInv'
<1>1. CallOK(call[c], runner) /\ RunnerOK(runner)
  BY DEF EngineInv
<1>2. call[c].pc = "validate" /\ runner' = runner
  BY Zenon DEF Validate
<1>3. CASE runner.cached
  <2>1. Set(c, WithLanguages(c, runner.lang))
    BY <1>3, Zenon DEF Validate
  <2>2. CallOK(WithLanguages(c, runner.lang), runner)
    BY <1>1, <1>2, <1>3, Given DEF RunnerOK, Before
  <2>. QED  BY <1>1, <1>2, <2>1, <2>2, CallStep, SameRunner
<1>4. CASE ~ runner.cached
  <2>1. Set(c, [call[c] EXCEPT !.pc = "list"])
    BY <1>4, Zenon DEF Validate
  <2>2. CallOK([call[c] EXCEPT !.pc = "list"], runner)
    BY <1>1, <1>2, NextStep DEF Before
  <2>. QED  BY <1>1, <1>2, <2>1, <2>2, CallStep, SameRunner
<1>. QED  BY <1>3, <1>4

(* The answer of a listing is what is about to be published.                   *)
LEMMA ToPublish ==
  ASSUME NEW r, NEW rn, CallOK(r, rn), r.pc = "list",
         NEW langs, Listed(langs, rn), langs = {} => r.cancelled \/ NoLanguage(rn)
  PROVE  CallOK([r EXCEPT !.pc = "publish", !.lang = langs], rn)
<1>. DEFINE q == [r EXCEPT !.pc = "publish", !.lang = langs]
<1>1. /\ IsCall(q) /\ q.pc = "publish" /\ q.lang = langs /\ q.engine = r.engine
      /\ q.pages = r.pages /\ q.cancelled = r.cancelled /\ q.faulty = r.faulty
  BY Zenon DEF CallOK, IsCall, CallFields
<1>2. r.pages = <<>> /\ r.engine = "none"
  BY DEF CallOK, PagesOK, Before
<1>. HIDE DEF q
<1>3. LanguagesOK(q, rn)
  BY <1>1, <1>2, Zenon DEF LanguagesOK
<1>4. PagesOK(q)
  BY <1>1, <1>2 DEF PagesOK, PageFailed
<1>5. EndOK(q, rn)
  BY <1>1 DEF EndOK
<1>6. CallOK(q, rn)
  BY <1>1, <1>3, <1>4, <1>5 DEF CallOK
<1>. QED  BY <1>6 DEF q

(* The Runner learns what it did not know: all languages so far are none.      *)
LEMMA Learns ==
  ASSUME NEW rn, RunnerOK(rn), ~ rn.loaded, NEW new,
         new = [f \in RunnerFields |-> new[f]],
         new.lang = rn.lang, new.cached = rn.cached, new.loaded \/ new.gone, rn.gone => new.gone
  PROVE  RunnerOK(new) /\ Grows(rn, new)
<1>1. rn.lang = {}
  BY DEF RunnerOK, Listed
<1>2. Listed(new.lang, new)
  BY <1>1 DEF Listed
<1>3. rn.cached => rn.gone
  BY <1>1 DEF RunnerOK, NoLanguage
<1>4. new.cached => NoLanguage(new)
  BY <1>3 DEF NoLanguage
<1>. QED  BY <1>2, <1>4 DEF RunnerOK, Grows

LEMMA StepList ==
  ASSUME EngineInv, NEW c \in Calls, List(c)
  PROVE  EngineInv'
<1>1. CallOK(call[c], runner) /\ RunnerOK(runner)
  BY DEF EngineInv
<1>2. /\ call[c].pc = "list"
      /\ Set(c, [call[c] EXCEPT !.pc = "publish", !.lang = Usable(runner')])
      /\ \/ runner.loaded /\ runner' = runner
         \/ /\ ~ runner.loaded
            /\ \/ runner' = [runner EXCEPT !.loaded = TRUE, !.known = TRUE, !.langs = installed]
               \/ runner' = [runner EXCEPT !.loaded = TRUE]
  BY Zenon DEF List
<1>3. runner' = [f \in RunnerFields |-> runner'[f]] /\ runner'.loaded
      /\ runner'.lang = runner.lang /\ runner'.cached = runner.cached /\ runner'.gone = runner.gone
  BY <1>1, <1>2 DEF RunnerOK, RunnerFields
<1>4. RunnerOK(runner') /\ Grows(runner, runner')
  <2>1. CASE ~ runner.loaded
    BY <1>1, <1>3, <2>1, Learns
  <2>2. CASE runner' = runner
    BY <1>1, <2>2, SameRunner
  <2>. QED  BY <1>2, <2>1, <2>2
<1>5. Listed(Usable(runner'), runner') /\ (Usable(runner') = {} => NoLanguage(runner'))
  BY <1>3 DEF Listed, NoLanguage
<1>6. CallOK(call[c], runner')
  BY <1>1, <1>4, CallStays
<1>7. CallOK([call[c] EXCEPT !.pc = "publish", !.lang = Usable(runner')], runner')
  BY <1>2, <1>5, <1>6, ToPublish
<1>. QED  BY <1>2, <1>4, <1>7, CallStep

LEMMA StepListFails ==
  ASSUME EngineInv, NEW c \in Calls, ListCancelled(c) \/ ListGone(c)
  PROVE  EngineInv'
<1>1. CallOK(call[c], runner) /\ RunnerOK(runner)
  BY DEF EngineInv
<1>2. /\ call[c].pc = "list" /\ ~ runner.loaded
      /\ Set(c, [call[c] EXCEPT !.pc = "publish", !.lang = {}])
      /\ \/ call[c].cancelled /\ runner' = runner
         \/ runner' = [runner EXCEPT !.gone = TRUE]
  BY Zenon DEF ListCancelled, ListGone
<1>3. runner' = [runner EXCEPT !.gone = TRUE] =>
        /\ runner' = [f \in RunnerFields |-> runner'[f]]
        /\ runner'.gone /\ runner'.lang = runner.lang /\ runner'.cached = runner.cached
  BY <1>1 DEF RunnerOK, RunnerFields
<1>4. RunnerOK(runner') /\ Grows(runner, runner')
  <2>1. CASE runner' = [runner EXCEPT !.gone = TRUE]
    BY <1>1, <1>2, <1>3, <2>1, Learns
  <2>2. CASE runner' = runner
    BY <1>1, <2>2, SameRunner
  <2>. QED  BY <1>2, <2>1, <2>2
<1>5. Listed({}, runner') /\ (call[c].cancelled \/ NoLanguage(runner'))
  BY <1>2, <1>3 DEF Listed, NoLanguage
<1>6. CallOK(call[c], runner')
  BY <1>1, <1>4, CallStays
<1>7. CallOK([call[c] EXCEPT !.pc = "publish", !.lang = {}], runner')
  BY <1>2, <1>5, <1>6, ToPublish
<1>. QED  BY <1>2, <1>4, <1>7, CallStep

LEMMA StepPublish ==
  ASSUME EngineInv, NEW c \in Calls, Publish(c)
  PROVE  EngineInv'
<1>. DEFINE langs == call[c].lang
<1>1. CallOK(call[c], runner) /\ RunnerOK(runner)
  BY DEF EngineInv
<1>2. /\ call[c].pc = "publish" /\ Set(c, WithLanguages(c, langs))
      /\ runner' = IF call[c].cancelled THEN runner
                   ELSE [runner EXCEPT !.cached = TRUE, !.lang = langs]
  BY Zenon DEF Publish
<1>3. Listed(langs, runner) /\ (langs = {} => call[c].cancelled \/ NoLanguage(runner))
  BY <1>1, <1>2 DEF CallOK, LanguagesOK
<1>. HIDE DEF langs
<1>4. RunnerOK(runner') /\ Grows(runner, runner')
  <2>1. CASE call[c].cancelled
    BY <1>1, <1>2, <2>1, SameRunner
  <2>2. CASE ~ call[c].cancelled
    <3>. DEFINE new == [runner EXCEPT !.cached = TRUE, !.lang = langs]
    <3>1. runner' = new
      BY <1>2, <2>2
    <3>2. /\ new = [f \in RunnerFields |-> new[f]]
          /\ new.lang = langs /\ new.loaded = runner.loaded /\ new.known = runner.known
          /\ new.langs = runner.langs /\ new.gone = runner.gone
      BY <1>1, Zenon DEF RunnerOK, RunnerFields
    <3>. HIDE DEF new
    <3>3. Usable(new) = Usable(runner)
      BY <3>2 DEF Usable
    <3>4. Grows(runner, new)
      BY <3>2, <3>3 DEF Grows
    <3>5. Listed(langs, new) /\ (langs = {} => NoLanguage(new))
      BY <1>3, <2>2, <3>4, StillListed, StillNone
    <3>6. RunnerOK(new)
      BY <3>2, <3>5 DEF RunnerOK
    <3>. QED  BY <3>1, <3>4, <3>6
  <2>. QED  BY <2>1, <2>2
<1>5. CallOK(call[c], runner')
  BY <1>1, <1>4, CallStays
<1>6. Listed(langs, runner') /\ (langs = {} => call[c].cancelled \/ NoLanguage(runner'))
  BY <1>3, <1>4, StillListed, StillNone
<1>7. CallOK(WithLanguages(c, langs), runner')
  BY <1>2, <1>5, <1>6, Given DEF Before
<1>. QED  BY <1>2, <1>4, <1>7, CallStep

LEMMA StepRender ==
  ASSUME EngineInv, NEW c \in Calls, NEW n \in Nat, Render(c, n)
  PROVE  EngineInv'
<1>. DEFINE todo == [i \in 1..n |-> "todo"]
            none == [i \in 1..n |-> 0]
            r == [call[c] EXCEPT !.pc = "pages", !.engine = "tesseract",
                                 !.pages = todo, !.results = none]
<1>1. call[c].pc = "render" /\ Set(c, r) /\ runner' = runner
  BY Zenon DEF Render
<1>2. CallOK(call[c], runner)
  BY DEF EngineInv
<1>3. /\ DOMAIN todo = 1..n /\ (\A i \in 1..n : todo[i] = "todo")
      /\ none = [i \in DOMAIN todo |-> none[i]]
  OBVIOUS
<1>. HIDE DEF todo, none
<1>4. /\ IsCall(r) /\ r.pc = "pages" /\ r.lang = call[c].lang /\ r.pages = todo
      /\ r.results = none
  BY <1>2, Zenon DEF CallOK, IsCall, CallFields
<1>. HIDE DEF r
<1>5. LanguagesOK(r, runner)
  BY <1>1, <1>2, <1>4 DEF CallOK, LanguagesOK
<1>6. PagesOK(r)
  BY <1>3, <1>4 DEF PagesOK, Before, PageFailed
<1>7. EndOK(r, runner)
  BY <1>4 DEF EndOK
<1>8. CallOK(r, runner)
  BY <1>4, <1>5, <1>6, <1>7 DEF CallOK
<1>. QED  BY <1>1, <1>8, CallStep, SameRunner DEF EngineInv

(* A page goes on: what it says of itself, its text and the call's failure.    *)
LEMMA PageStep ==
  ASSUME EngineInv, NEW c \in Calls, call[c].pc = "pages", runner' = runner,
         NEW i \in DOMAIN call[c].pages, NEW how \in {"running", "read", "failed"},
         NEW r, Set(c, r), IsCall(r), r.pc = "pages", r.lang = call[c].lang,
         r.engine = call[c].engine, r.cancelled = call[c].cancelled,
         r.pages = [call[c].pages EXCEPT ![i] = how],
         how = "read" => r.results = [call[c].results EXCEPT ![i] = i],
         how # "read" => r.results = call[c].results,
         call[c].faulty => r.faulty,
         how = "failed" => r.faulty \/ r.cancelled
  PROVE  EngineInv'
<1>1. CallOK(call[c], runner)
  BY DEF EngineInv
<1>. DEFINE ps == call[c].pages
            rs == call[c].results
<1>2. /\ rs = [j \in DOMAIN ps |-> rs[j]]
      /\ \A j \in DOMAIN ps : ps[j] = "read" => rs[j] = j
      /\ PageFailed(call[c]) => call[c].cancelled \/ call[c].faulty
  BY <1>1 DEF CallOK, PagesOK
<1>. DEFINE qs == [ps EXCEPT ![i] = how]
<1>3. DOMAIN qs = DOMAIN ps /\ \A j \in DOMAIN ps : qs[j] = IF j = i THEN how ELSE ps[j]
  OBVIOUS
<1>4. r.pages = qs
  OBVIOUS
<1>. HIDE DEF qs
<1>5. /\ r.results = [j \in DOMAIN ps |-> r.results[j]]
      /\ \A j \in DOMAIN ps : r.results[j] = IF j = i /\ how = "read" THEN i ELSE rs[j]
  <2>1. DOMAIN rs = DOMAIN ps
    BY <1>2
  <2>2. CASE how = "read"
    <3>1. r.results = [rs EXCEPT ![i] = i]
      BY <2>2
    <3>. QED  BY <2>1, <2>2, <3>1
  <2>3. CASE how # "read"
    <3>1. r.results = rs
      BY <2>3
    <3>. QED  BY <1>2, <2>3, <3>1
  <2>. QED  BY <2>2, <2>3
<1>6. \A j \in DOMAIN ps : qs[j] = "read" => r.results[j] = j
  BY <1>2, <1>3, <1>5
<1>7. PageFailed(r) => r.cancelled \/ r.faulty
  <2>1. CASE how = "failed"
    BY <2>1
  <2>2. CASE how # "failed"
    <3>1. PageFailed(r) => PageFailed(call[c])
      BY <1>3, <1>4, <2>2 DEF PageFailed
    <3>. QED  BY <1>2, <3>1
  <2>. QED  BY <2>1, <2>2
<1>8. PagesOK(r)
  BY <1>3, <1>4, <1>5, <1>6, <1>7 DEF PagesOK, Before
<1>9. LanguagesOK(r, runner)
  BY <1>1 DEF CallOK, LanguagesOK
<1>10. EndOK(r, runner)
  BY DEF EndOK
<1>11. CallOK(r, runner)
  BY <1>8, <1>9, <1>10 DEF CallOK
<1>. QED  BY <1>11, CallStep, SameRunner DEF EngineInv

LEMMA StepStartPage ==
  ASSUME EngineInv, NEW c \in Calls, NEW i, StartPage(c, i)
  PROVE  EngineInv'
<1>. DEFINE r == [call[c] EXCEPT !.pages[i] = "running"]
<1>1. Set(c, r) /\ runner' = runner /\ call[c].pc = "pages" /\ i \in DOMAIN call[c].pages
  BY Zenon DEF StartPage
<1>2. /\ IsCall(r) /\ r.pc = "pages" /\ r.lang = call[c].lang /\ r.engine = call[c].engine
      /\ r.cancelled = call[c].cancelled /\ r.faulty = call[c].faulty
      /\ r.pages = [call[c].pages EXCEPT ![i] = "running"] /\ r.results = call[c].results
  <2>1. IsCall(call[c])
    BY DEF EngineInv, CallOK
  <2>. QED  BY <1>1, <2>1, Zenon DEF IsCall, CallFields
<1>. HIDE DEF r
<1>. QED  BY <1>1, <1>2, PageStep

LEMMA StepPageRead ==
  ASSUME EngineInv, NEW c \in Calls, NEW i, PageRead(c, i)
  PROVE  EngineInv'
<1>. DEFINE r == [call[c] EXCEPT !.pages[i] = "read", !.results[i] = i]
<1>1. Set(c, r) /\ runner' = runner /\ call[c].pc = "pages" /\ i \in DOMAIN call[c].pages
  BY Zenon DEF PageRead, Running
<1>2. /\ IsCall(r) /\ r.pc = "pages" /\ r.lang = call[c].lang /\ r.engine = call[c].engine
      /\ r.cancelled = call[c].cancelled /\ r.faulty = call[c].faulty
      /\ r.pages = [call[c].pages EXCEPT ![i] = "read"]
      /\ r.results = [call[c].results EXCEPT ![i] = i]
  <2>1. IsCall(call[c])
    BY DEF EngineInv, CallOK
  <2>. QED  BY <1>1, <2>1, Zenon DEF IsCall, CallFields
<1>. HIDE DEF r
<1>. QED  BY <1>1, <1>2, PageStep

LEMMA StepPageFails ==
  ASSUME EngineInv, NEW c \in Calls, NEW i, PageFails(c, i)
  PROVE  EngineInv'
<1>. DEFINE f == call[c].faulty \/ ~Stopped(c)
            r == [call[c] EXCEPT !.pages[i] = "failed", !.faulty = f]
<1>1. Set(c, r) /\ runner' = runner /\ call[c].pc = "pages" /\ i \in DOMAIN call[c].pages
  BY Zenon DEF PageFails, Running
<1>2. IsCall(call[c]) /\ (Stopped(c) => call[c].cancelled \/ call[c].faulty)
  BY DEF EngineInv, CallOK, PagesOK, PageFailed, Stopped
<1>3. f \/ call[c].cancelled
  BY <1>2, Zenon
<1>4. call[c].faulty => f
  OBVIOUS
<1>. HIDE DEF f
<1>5. /\ IsCall(r) /\ r.pc = "pages" /\ r.lang = call[c].lang /\ r.engine = call[c].engine
      /\ r.cancelled = call[c].cancelled /\ r.faulty = f
      /\ r.pages = [call[c].pages EXCEPT ![i] = "failed"] /\ r.results = call[c].results
  BY <1>1, <1>2, Zenon DEF IsCall, CallFields
<1>6. (r.faulty \/ r.cancelled) /\ (call[c].faulty => r.faulty)
  BY <1>3, <1>4, <1>5, Zenon
<1>. HIDE DEF r
<1>. QED  BY <1>1, <1>5, <1>6, PageStep

LEMMA StepWait ==
  ASSUME EngineInv, NEW c \in Calls, Wait(c)
  PROVE  EngineInv'
<1>. DEFINE step == IF PageFailed(call[c]) THEN "failed" ELSE "done"
            r == [call[c] EXCEPT !.pc = step]
<1>1. /\ Set(c, r) /\ runner' = runner /\ call[c].pc = "pages"
      /\ \A i \in DOMAIN call[c].pages : call[c].pages[i] \in {"read", "failed"}
  BY Zenon DEF Wait, PageFailed
<1>2. CallOK(call[c], runner)
  BY DEF EngineInv
<1>3. /\ step \in {"failed", "done"} /\ (step = "failed" <=> PageFailed(call[c]))
  OBVIOUS
<1>. HIDE DEF step
<1>4. /\ IsCall(r) /\ r.pc = step /\ r.lang = call[c].lang /\ r.engine = call[c].engine
      /\ r.cancelled = call[c].cancelled /\ r.faulty = call[c].faulty
      /\ r.pages = call[c].pages /\ r.results = call[c].results
  BY <1>2, Zenon DEF CallOK, IsCall, CallFields
<1>. HIDE DEF r
<1>5. /\ call[c].results = [i \in DOMAIN call[c].pages |-> call[c].results[i]]
      /\ \A i \in DOMAIN call[c].pages : call[c].pages[i] = "read" => call[c].results[i] = i
      /\ PageFailed(call[c]) => call[c].cancelled \/ call[c].faulty
  BY <1>1, <1>2 DEF CallOK, PagesOK
<1>6. ~ PageFailed(call[c]) => call[c].results = [i \in DOMAIN call[c].pages |-> i]
  BY <1>1, <1>5 DEF PageFailed
<1>7. LanguagesOK(r, runner)
  BY <1>2, <1>3, <1>4 DEF CallOK, LanguagesOK
<1>8. PagesOK(r)
  BY <1>3, <1>4, <1>5 DEF PagesOK, PageFailed, Before
<1>9. EndOK(r, runner)
  BY <1>3, <1>4, <1>5, <1>6 DEF EndOK
<1>10. CallOK(r, runner)
  BY <1>4, <1>7, <1>8, <1>9 DEF CallOK
<1>. QED  BY <1>1, <1>10, CallStep, SameRunner DEF EngineInv

LEMMA StepCancel ==
  ASSUME EngineInv, NEW c \in Calls, Cancel(c)
  PROVE  EngineInv'
<1>. DEFINE r == [call[c] EXCEPT !.cancelled = TRUE]
<1>1. Set(c, r) /\ runner' = runner
  BY Zenon DEF Cancel
<1>2. CallOK(call[c], runner)
  BY DEF EngineInv
<1>3. /\ IsCall(r) /\ r.pc = call[c].pc /\ r.lang = call[c].lang /\ r.engine = call[c].engine
      /\ r.cancelled /\ r.faulty = call[c].faulty
      /\ r.pages = call[c].pages /\ r.results = call[c].results
  BY <1>2, Zenon DEF CallOK, IsCall, CallFields
<1>. HIDE DEF r
<1>4. LanguagesOK(r, runner)
  BY <1>2, <1>3 DEF CallOK, LanguagesOK
<1>5. PagesOK(r)
  BY <1>2, <1>3 DEF CallOK, PagesOK
<1>6. EndOK(r, runner)
  BY <1>2, <1>3 DEF CallOK, EndOK
<1>7. CallOK(r, runner)
  BY <1>3, <1>4, <1>5, <1>6 DEF CallOK
<1>. QED  BY <1>1, <1>7, CallStep, SameRunner DEF EngineInv

LEMMA EngineStays ==
  ASSUME EngineInv, UNCHANGED <<runner, call>>
  PROVE  EngineInv'
BY DEF EngineInv

LEMMA EngineInitial == Init => EngineInv
<1>. SUFFICES ASSUME Init PROVE EngineInv
  OBVIOUS
<1>1. /\ runner = [loaded |-> FALSE, known |-> FALSE, langs |-> {}, cached |-> FALSE,
                   lang |-> {}, gone |-> FALSE]
      /\ call = [c \in Calls |-> NewCall]
  BY Zenon DEF Init, OcrInit
<1>2. RunnerOK(runner)
  BY <1>1 DEF RunnerOK, RunnerFields, Listed
<1>3. CallOK(NewCall, runner)
  <2>1. NewCall.pc = "idle"
    BY DEF NewCall
  <2>. QED
    BY <2>1, NewCallOK DEF CallOK, LanguagesOK, PagesOK, EndOK, Listed, Before, PageFailed
<1>. QED  BY <1>1, <1>2, <1>3 DEF EngineInv

LEMMA EngineStep == EngineInv /\ [Next]_vars => EngineInv'
<1>. SUFFICES ASSUME EngineInv, [Next]_vars PROVE EngineInv'
  OBVIOUS
<1>1. CASE UNCHANGED ocrVars \/ UNCHANGED vars
  <2>1. UNCHANGED <<runner, call>>
    BY <1>1, Zenon DEF ocrVars, vars
  <2>. QED  BY <2>1, EngineStays
<1>2. ASSUME OcrNext(kind) PROVE EngineInv'
  <2>1. ASSUME NEW n \in 1..MaxPages PROVE n \in Nat
    BY <2>1, OcrAssumption
  <2>2. ASSUME NEW l \in Languages, Install(l) PROVE EngineInv'
    <3>1. UNCHANGED <<runner, call>>
      BY <2>2, Zenon DEF Install
    <3>. QED  BY <3>1, EngineStays
  <2>. QED
    BY <1>2, <2>1, <2>2, StepBegin, StepOn, StepGenerate, StepReadFails, StepToolFails, StepValidate, StepList,
       StepListFails, StepPublish, StepRender, StepStartPage, StepPageRead, StepPageFails,
       StepWait, StepCancel, Zenon
    DEF OcrNext
<1>. QED  BY <1>1, <1>2 DEF Next

LEMMA EngineInvariant == Spec => []EngineInv
BY EngineInitial, EngineStep, PTL DEF Spec

(* Whatever the calls of one Runner do at the same time, which tools fail,     *)
(* which calls are cancelled and which languages are installed meanwhile: a    *)
(* text is that of all its pages in their order, all texts were read with one  *)
(* set of languages, and no call fails for what another one did.               *)
THEOREM CallsAreApart == Spec => []CallsShareOnlyLanguages
<1>1. ASSUME EngineInv PROVE CallsShareOnlyLanguages
  <2>1. ASSUME NEW c \in Calls
        PROVE  /\ call[c].pc = "done" => call[c].results = [i \in DOMAIN call[c].pages |-> i]
               /\ call[c].pc = "failed" =>
                    \/ call[c].cancelled \/ call[c].faulty \/ runner.gone
                    \/ runner.loaded /\ Usable(runner) = {}
    BY <1>1 DEF EngineInv, CallOK, EndOK, NoLanguage
  <2>2. ASSUME NEW c \in Calls, call[c].engine = "tesseract"
        PROVE  call[c].lang = Usable(runner)
    BY <1>1, <2>2 DEF EngineInv, CallOK, LanguagesOK, Listed
  <2>. QED  BY <2>1, <2>2 DEF CallsShareOnlyLanguages
<1>. QED  BY <1>1, EngineInvariant, PTL

(***************************************************************************)
(* The size of some parts of a file.                                       *)
(***************************************************************************)

Total(parts, S) == MapThenSumSet(LAMBDA i : parts[i].size, S)

(* Induction over the subsets of a finite set, for a set of them.              *)
LEMMA SubsetInduction ==
  ASSUME NEW D, IsFiniteSet(D), NEW G \in SUBSET SUBSET D,
         \A s \in SUBSET D : (\A t \in SUBSET s : t # s => t \in G) => s \in G
  PROVE  G = SUBSET D
<1>1. IsWellFoundedOn(StrictSubsetOrdering(D), SUBSET D)
  <2>1. FiniteSubsetsOf(D) = SUBSET D
    BY FS_FiniteSubsetsOfFinite
  <2>. QED  BY <2>1, FS_StrictSubsetOrderingWellFounded, Zenon
<1>2. ASSUME NEW s \in SUBSET D, s \notin G PROVE FALSE
  <2>. DEFINE T == (SUBSET D) \ G
  <2>1. T # {} /\ T \subseteq SUBSET D
    BY <1>2
  <2>. HIDE DEF T
  <2>2. PICK x \in T : \A y \in T : ~ (<<y, x>> \in StrictSubsetOrdering(D))
    BY <1>1, <2>1, WFMin
  <2>. USE DEF T
  <2>3. ASSUME NEW t \in SUBSET x, t # x PROVE t \in G
    <3>1. t \in SUBSET D /\ x \in SUBSET D
      BY <2>3
    <3>2. <<t, x>> \in StrictSubsetOrdering(D)
      BY <2>3, <3>1 DEF StrictSubsetOrdering
    <3>. QED  BY <2>2, <3>1, <3>2
  <2>. QED  BY <2>2, <2>3
<1>. QED  BY <1>2

LEMMA GrowingInduction ==
  ASSUME NEW D, IsFiniteSet(D), NEW G \in SUBSET SUBSET D, {} \in G,
         \A s \in G : \A x \in D \ s : s \cup {x} \in G
  PROVE  G = SUBSET D
<1>1. ASSUME NEW s \in SUBSET D, \A t \in SUBSET s : t # s => t \in G PROVE s \in G
  <2>1. CASE s = {}
    BY <2>1
  <2>2. CASE s # {}
    <3>1. PICK x \in s : TRUE
      BY <2>2
    <3>2. s \ {x} \in G /\ x \in D \ (s \ {x})
      BY <1>1, <3>1
    <3>3. (s \ {x}) \cup {x} = s
      BY <3>1
    <3>. QED  BY <3>2, <3>3
  <2>. QED  BY <2>1, <2>2
<1>. QED  BY <1>1, SubsetInduction

(* A function that adds up f over the subsets of D.                            *)
Adds(h, f, D) ==
  /\ h \in [SUBSET D -> Nat] /\ h[{}] = 0
  /\ \A s \in SUBSET D : \A x \in D \ s : h[s \cup {x}] = h[s] + f[x]

LEMMA SumExists ==
  ASSUME NEW D, IsFiniteSet(D), NEW f \in [D -> Nat]
  PROVE  \E h : Adds(h, f, D)
<1>. DEFINE G == {s \in SUBSET D : \E h : Adds(h, f, s)}
<1>1. {} \in G
  <2>. DEFINE h == [s \in SUBSET {} |-> 0]
  <2>1. Adds(h, f, {})
    BY DEF Adds
  <2>. QED  BY <2>1
<1>2. ASSUME NEW s \in G, NEW x \in D \ s PROVE s \cup {x} \in G
  <2>1. PICK h : Adds(h, f, s)
    BY <1>2
  <2>. DEFINE g == [t \in SUBSET (s \cup {x}) |-> h[t \ {x}] + IF x \in t THEN f[x] ELSE 0]
  <2>2. \A t \in SUBSET (s \cup {x}) : t \ {x} \in SUBSET s
    OBVIOUS
  <2>3. h \in [SUBSET s -> Nat] /\ h[{}] = 0 /\ f[x] \in Nat
    BY <2>1 DEF Adds
  <2>4. g \in [SUBSET (s \cup {x}) -> Nat] /\ g[{}] = 0
    <3>1. ASSUME NEW t \in SUBSET (s \cup {x})
          PROVE  h[t \ {x}] + (IF x \in t THEN f[x] ELSE 0) \in Nat
      <4>1. h[t \ {x}] \in Nat
        BY <2>2, <2>3
      <4>. QED  BY <4>1, <2>3
    <3>2. {} \ {x} = {} /\ {} \in SUBSET (s \cup {x}) /\ x \notin {}
      OBVIOUS
    <3>3. g[{}] = 0
      BY <2>3, <3>2
    <3>. QED  BY <3>1, <3>3
  <2>5. ASSUME NEW t \in SUBSET (s \cup {x}), NEW y \in (s \cup {x}) \ t
        PROVE  g[t \cup {y}] = g[t] + f[y]
    <3>1. h[t \ {x}] \in Nat /\ t \ {x} \in SUBSET s /\ t \cup {y} \in SUBSET (s \cup {x})
      BY <2>2, <2>3, <2>5
    <3>4. /\ g[t] = h[t \ {x}] + IF x \in t THEN f[x] ELSE 0
          /\ g[t \cup {y}] = h[(t \cup {y}) \ {x}] + IF x \in t \cup {y} THEN f[x] ELSE 0
      BY <3>1, Zenon
    <3>. HIDE DEF g
    <3>2. CASE y = x
      <4>1. (t \cup {y}) \ {x} = t \ {x} /\ x \in t \cup {y} /\ x \notin t
        BY <2>5, <3>2
      <4>2. g[t] = h[t \ {x}] + 0 /\ g[t \cup {y}] = h[t \ {x}] + f[x]
        BY <3>4, <4>1, Zenon
      <4>. QED  BY <2>3, <3>1, <3>2, <4>2
    <3>3. CASE y # x
      <4>1. (t \cup {y}) \ {x} = (t \ {x}) \cup {y} /\ (x \in t \cup {y} <=> x \in t)
        BY <2>5, <3>3
      <4>2. y \in s \ (t \ {x}) /\ f[y] \in Nat
        BY <2>5, <3>3
      <4>3. h[(t \ {x}) \cup {y}] = h[t \ {x}] + f[y]
        BY <2>1, <3>1, <4>2 DEF Adds
      <4>4. g[t \cup {y}] = h[(t \ {x}) \cup {y}] + IF x \in t THEN f[x] ELSE 0
        BY <3>4, <4>1, Zenon
      <4>. QED  BY <2>3, <3>1, <3>4, <4>2, <4>3, <4>4
    <3>. QED  BY <3>2, <3>3
  <2>6. Adds(g, f, s \cup {x})
    BY <2>4, <2>5 DEF Adds
  <2>. QED  BY <1>2, <2>6
<1>3. G \in SUBSET SUBSET D
  OBVIOUS
<1>4. D \in G => \E h : Adds(h, f, D)
  OBVIOUS
<1>. HIDE DEF G
<1>5. G = SUBSET D
  BY <1>1, <1>2, <1>3, GrowingInduction, Zenon
<1>6. D \in SUBSET D
  OBVIOUS
<1>. QED  BY <1>4, <1>5, <1>6, Zenon

LEMMA SumIs ==
  ASSUME NEW D, IsFiniteSet(D), NEW parts, \A x \in D : parts[x].size \in Nat,
         NEW h, Adds(h, [x \in D |-> parts[x].size], D)
  PROVE  Total(parts, D) = h[D]
<1>. DEFINE Pick(s) == CHOOSE x \in s : TRUE
            Sums(g) == g = [s \in SUBSET D |-> IF s = {} THEN 0
                                               ELSE parts[Pick(s)].size + g[s \ {Pick(s)}]]
            iter == CHOOSE g : Sums(g)
<1>1. Total(parts, D) = iter[D]
  BY Zenon DEF Total, MapThenSumSet, MapThenFoldSet
<1>2. ASSUME NEW s \in SUBSET D, s # {}
      PROVE  /\ h[s] = parts[Pick(s)].size + h[s \ {Pick(s)}]
             /\ s \ {Pick(s)} \in SUBSET s /\ s \ {Pick(s)} # s
  <2>. DEFINE x == Pick(s)
  <2>1. x \in s
    BY <1>2
  <2>. HIDE DEF x
  <2>2. s \ {x} \in SUBSET D /\ x \in D \ (s \ {x}) /\ (s \ {x}) \cup {x} = s
    BY <2>1
  <2>3. h[s] = h[s \ {x}] + parts[x].size /\ h[s \ {x}] \in Nat /\ parts[x].size \in Nat
    <3>. DEFINE f == [y \in D |-> parts[y].size]
                r == s \ {x}
    <3>1. x \in D /\ f[x] = parts[x].size /\ parts[x].size \in Nat
      BY <2>2
    <3>2. r \in SUBSET D /\ x \in D \ r /\ r \cup {x} = s
      BY <2>2
    <3>. HIDE DEF f, r
    <3>3. h[r \cup {x}] = h[r] + f[x] /\ h[r] \in Nat
      BY <3>2 DEF Adds, f
    <3>. QED  BY <3>1, <3>2, <3>3 DEF r
  <2>4. h[s] = parts[x].size + h[s \ {x}] /\ s \ {x} \in SUBSET s /\ s \ {x} # s
    BY <2>1, <2>3
  <2>. QED  BY <2>4 DEF x
<1>3. h = [s \in SUBSET D |-> h[s]] /\ h[{}] = 0
  BY DEF Adds
<1>4. Sums(h)
  <2>. HIDE DEF Pick
  <2>1. \A s \in SUBSET D : h[s] = IF s = {} THEN 0 ELSE parts[Pick(s)].size + h[s \ {Pick(s)}]
    BY <1>2, <1>3, Zenon
  <2>. QED  BY <1>3, <2>1, Zenon
<1>5. Sums(iter)
  BY <1>4, Zenon
<1>. HIDE DEF iter
<1>6. \A s \in SUBSET D : iter[s] = IF s = {} THEN 0 ELSE parts[Pick(s)].size + iter[s \ {Pick(s)}]
  BY <1>5, Zenon
<1>. DEFINE G == {s \in SUBSET D : iter[s] = h[s]}
<1>7. ASSUME NEW s \in SUBSET D, \A t \in SUBSET s : t # s => t \in G
      PROVE  s \in G
  <2>1. CASE s = {}
    BY <1>3, <1>6, <2>1, Zenon
  <2>2. CASE s # {}
    <3>1. s \ {Pick(s)} \in G
      BY <1>2, <1>7, <2>2, Zenon
    <3>2. iter[s \ {Pick(s)}] = h[s \ {Pick(s)}]
      BY <3>1
    <3>3. iter[s] = parts[Pick(s)].size + iter[s \ {Pick(s)}]
      BY <1>6, <2>2, Zenon
    <3>4. h[s] = parts[Pick(s)].size + h[s \ {Pick(s)}]
      BY <1>2, <2>2, Zenon
    <3>. QED  BY <3>2, <3>3, <3>4, Zenon
  <2>. QED  BY <2>1, <2>2
<1>8. G = SUBSET D
  <2>1. G \in SUBSET SUBSET D
    OBVIOUS
  <2>. HIDE DEF G
  <2>. QED  BY <1>7, <2>1, SubsetInduction, Zenon
<1>9. D \in G
  <2>1. D \in SUBSET D
    OBVIOUS
  <2>. QED  BY <1>8, <2>1, Zenon
<1>. QED  BY <1>1, <1>9, Zenon

(* What the reader needs to know of sums.                                      *)
LEMMA SumLaws ==
  ASSUME NEW D, IsFiniteSet(D), NEW parts, \A x \in D : parts[x].size \in Nat
  PROVE  /\ Total(parts, {}) = 0
         /\ \A S \in SUBSET D : Total(parts, S) \in Nat /\ Total(parts, S) <= Total(parts, D)
         /\ \A S \in SUBSET D : \A x \in D \ S :
               Total(parts, S \cup {x}) = Total(parts, S) + parts[x].size
<1>. DEFINE f == [x \in D |-> parts[x].size]
<1>1. PICK h : Adds(h, f, D)
  BY SumExists
<1>2. ASSUME NEW S \in SUBSET D PROVE Total(parts, S) = h[S]
  <2>. DEFINE e == [x \in S |-> parts[x].size]
              g == [s \in SUBSET S |-> h[s]]
  <2>1. IsFiniteSet(S) /\ \A x \in S : parts[x].size \in Nat
    BY FS_Subset
  <2>2. Adds(g, e, S)
    <3>1. g \in [SUBSET S -> Nat] /\ g[{}] = 0
      BY <1>1 DEF Adds
    <3>2. ASSUME NEW s \in SUBSET S, NEW x \in S \ s PROVE g[s \cup {x}] = g[s] + e[x]
      <4>1. s \in SUBSET D /\ x \in D \ s /\ s \cup {x} \in SUBSET S /\ e[x] = f[x]
        BY <3>2
      <4>2. h[s \cup {x}] = h[s] + f[x]
        BY <1>1, <4>1 DEF Adds
      <4>3. g[s \cup {x}] = h[s \cup {x}] /\ g[s] = h[s]
        BY <4>1, Zenon
      <4>. QED  BY <4>1, <4>2, <4>3, Zenon
    <3>. QED  BY <3>1, <3>2 DEF Adds
  <2>3. g[S] = h[S]
    OBVIOUS
  <2>. HIDE DEF g
  <2>. QED  BY <2>1, <2>2, <2>3, SumIs
<1>3. Total(parts, {}) = 0
  BY <1>1, <1>2 DEF Adds
<1>4. ASSUME NEW S \in SUBSET D, NEW x \in D \ S
      PROVE  Total(parts, S \cup {x}) = Total(parts, S) + parts[x].size
  <2>1. h[S \cup {x}] = h[S] + f[x] /\ S \cup {x} \in SUBSET D
    BY <1>1 DEF Adds
  <2>. QED  BY <1>2, <2>1
<1>5. ASSUME NEW S \in SUBSET D PROVE h[S] \in Nat /\ h[S] <= h[D]
  <2>. DEFINE G == {s \in SUBSET D : h[S] <= h[S \cup s]}
  <2>1. h[S] \in Nat /\ G \in SUBSET SUBSET D
    BY <1>1 DEF Adds
  <2>2. {} \in G
    <3>1. S \cup {} = S
      OBVIOUS
    <3>. QED  BY <2>1, <3>1
  <2>3. ASSUME NEW s \in G, NEW x \in D \ s PROVE s \cup {x} \in G
    <3>1. S \cup s \in SUBSET D /\ h[S \cup s] \in Nat /\ s \cup {x} \in SUBSET D
          /\ h[S] <= h[S \cup s]
      BY <1>1 DEF Adds
    <3>2. CASE x \in S
      <4>1. S \cup (s \cup {x}) = S \cup s
        BY <3>2
      <4>. QED  BY <3>1, <4>1
    <3>3. CASE x \notin S
      <4>1. S \cup (s \cup {x}) = (S \cup s) \cup {x} /\ x \in D \ (S \cup s)
        BY <2>3, <3>3
      <4>2. h[(S \cup s) \cup {x}] = h[S \cup s] + f[x] /\ f[x] \in Nat
        BY <1>1, <3>1, <4>1 DEF Adds
      <4>3. h[S] <= h[S \cup s] + f[x]
        <5>. HIDE DEF f
        <5>. QED  BY <2>1, <3>1, <4>2
      <4>4. h[S] <= h[S \cup (s \cup {x})]
        BY <4>1, <4>2, <4>3, Zenon
      <4>. QED  BY <3>1, <4>4
    <3>. QED  BY <3>2, <3>3
  <2>4. D \in G => h[S] <= h[D]
    <3>1. S \cup D = D
      OBVIOUS
    <3>. QED  BY <3>1
  <2>. HIDE DEF G
  <2>5. G = SUBSET D
    BY <2>1, <2>2, <2>3, GrowingInduction, Zenon
  <2>6. D \in SUBSET D
    OBVIOUS
  <2>. QED  BY <2>1, <2>4, <2>5, <2>6, Zenon
<1>6. D \in SUBSET D
  OBVIOUS
<1>. QED  BY <1>2, <1>3, <1>4, <1>5, <1>6

(***************************************************************************)
(* The reader's invariant.                                                 *)
(***************************************************************************)

Parts == DOMAIN file.parts

(* The one part of a Word file that is not where it usually is is not found.   *)
Lost == kind = "docx" /\ ~file.usual
Taken == IF Lost THEN {} ELSE Parts \ Range(archive.todo)

Bounds ==
  /\ archive = [f \in {"todo", "total", "read", "probed"} |-> archive[f]]
  /\ archive.read \in 0..(MaxTotal + MaxEntry + 1)
  /\ archive.probed \in 0..(3 * (MaxEntry + 1))

Counting == {"n", "open"} \subseteq DOMAIN doc /\ doc.n \in Nat /\ (doc.n = 0 => doc.open = <<>>)

Queue(todo) ==
  /\ todo \in Seq(Parts)
  /\ \A k, l \in DOMAIN todo : todo[k] = todo[l] => k = l
  /\ Lost => todo = <<>>

(* While the parts are read, the total is that of the ones taken.              *)
Reading ==
  /\ kind \in Archives /\ file.sig = "zip" /\ file.entries <= MaxEntries /\ doc.n = 0
  /\ Queue(archive.todo)
  /\ archive.total = Total(file.parts, Taken) /\ archive.read = archive.total
  /\ archive.total <= MaxTotal /\ \A i \in Taken : file.parts[i].size <= MaxEntry

Accepted == WithinLimits /\ archive.read = Size
Refused == ~WithinLimits \/ file.sig # "zip" \/ Lost

ReaderInv ==
  /\ file \in Files
  /\ Bounds
  /\ Counting
  /\ phase = "detect" => archive.read = 0 /\ archive.total = 0 /\ doc.n = 0
  /\ phase = "archive" => Reading
  /\ kind \in Archives /\ phase \in {"parse", "done"} => Accepted
  /\ kind \in Archives /\ phase = "failed" /\ doc.n = 0 => Refused

LEMMA FileTypes ==
  ASSUME file \in Files
  PROVE  /\ file.parts \in Seq([size: Nat, name: Nat]) /\ Parts = 1..Len(file.parts)
         /\ Len(file.parts) \in Nat /\ IsFiniteSet(Parts) /\ Cardinality(Parts) = Len(file.parts)
         /\ \A i \in Parts : file.parts[i].size \in Nat /\ file.parts[i].name \in Nat
         /\ \A i, j \in Parts : file.parts[i].name = file.parts[j].name => i = j
         /\ file.sig \in {"none", "zip"} \union Engines /\ file.fmt \in Kinds
         /\ file.ext \in Kinds \union {Unknown} /\ file.entries \in Nat /\ file.ident \in Nat
         /\ {MaxEntry, MaxTotal, MaxEntries} \subseteq Nat
         /\ file.spine \in 0..Len(file.parts)
<1>1. file \in FileType
  BY LimitsAssumption
<1>2. file.parts \in Seq([size: Nat, name: Nat])
  BY <1>1 DEF FileType
<1>3. /\ Parts = 1..Len(file.parts) /\ Len(file.parts) \in Nat
      /\ \A i \in Parts : file.parts[i].size \in Nat /\ file.parts[i].name \in Nat
  <2>. DEFINE T == [size: Nat, name: Nat]
              q == file.parts
  <2>1. \A r \in T : r.size \in Nat /\ r.name \in Nat
    OBVIOUS
  <2>2. q \in Seq(T)
    BY <1>2
  <2>. HIDE DEF T, q
  <2>3. DOMAIN q = 1..Len(q) /\ Len(q) \in Nat /\ \A i \in DOMAIN q : q[i] \in T
    BY <2>2
  <2>. QED  BY <2>1, <2>3, Zenon DEF Parts, q
<1>4. IsFiniteSet(Parts) /\ Cardinality(Parts) = Len(file.parts)
  <2>1. 1 \in Int /\ Len(file.parts) \in Int
    BY <1>3
  <2>2. /\ IsFiniteSet(1..Len(file.parts))
        /\ Cardinality(1..Len(file.parts)) =
              IF 1 > Len(file.parts) THEN 0 ELSE Len(file.parts) - 1 + 1
    BY <2>1, FS_Interval
  <2>. QED  BY <1>3, <2>2
<1>5. \A i, j \in Parts : file.parts[i].name = file.parts[j].name => i = j
  BY LimitsAssumption DEF Parts
<1>6. /\ file.sig \in {"none", "zip"} \union Engines /\ file.fmt \in Kinds
      /\ file.ext \in Kinds \union {Unknown} /\ file.entries \in Nat /\ file.ident \in Nat
  BY <1>1 DEF FileType
<1>7. file.spine \in Nat /\ file.spine <= Len(file.parts)
  BY <1>1, LimitsAssumption DEF FileType
<1>. QED  BY <1>2, <1>3, <1>4, <1>5, <1>6, <1>7, LimitsAssumption

(* The parts have an order by name, and it has each of them once.              *)
LEMMA ByNameIsOrder ==
  ASSUME file \in Files
  PROVE  /\ ByName \in Seq(Parts)
         /\ \A k, l \in DOMAIN ByName : ByName[k] = ByName[l] => k = l
         /\ Range(ByName) = Parts /\ DOMAIN ByName = Parts
         /\ \A k, l \in Parts :
               k < l => file.parts[ByName[k]].name < file.parts[ByName[l]].name
<1>. DEFINE name(i) == file.parts[i].name
            below(i) == {j \in Parts : name(j) <= name(i)}
            rank == [i \in Parts |-> Cardinality(below(i))]
            Ascends(s) == \A k, l \in DOMAIN s : k < l => name(s[k]) < name(s[l])
<1>1. /\ Parts = 1..Len(file.parts) /\ Len(file.parts) \in Nat
      /\ IsFiniteSet(Parts) /\ Cardinality(Parts) = Len(file.parts)
      /\ \A i \in Parts : name(i) \in Nat
      /\ \A i, j \in Parts : name(i) = name(j) => i = j
  BY FileTypes
<1>. HIDE DEF name
<1>2. ASSUME NEW i \in Parts
      PROVE  /\ IsFiniteSet(below(i)) /\ Cardinality(below(i)) \in Parts
  <2>1. below(i) \in SUBSET Parts /\ i \in below(i)
    BY <1>1
  <2>. HIDE DEF below
  <2>2. IsFiniteSet(below(i)) /\ Cardinality(below(i)) <= Cardinality(Parts)
    BY <1>1, <2>1, FS_Subset
  <2>3. Cardinality(below(i)) \in Nat /\ Cardinality(below(i)) # 0
    <3>1. below(i) # {}
      BY <2>1
    <3>. QED  BY <2>2, <3>1, FS_EmptySet, FS_CardinalityType
  <2>. QED  BY <1>1, <2>2, <2>3
<1>3. ASSUME NEW i \in Parts, NEW j \in Parts, name(i) < name(j)
      PROVE  Cardinality(below(i)) < Cardinality(below(j))
  <2>1. below(i) \in SUBSET below(j) /\ j \in below(j) /\ j \notin below(i)
    <3>1. \A m \in Parts : name(m) <= name(i) => name(m) <= name(j)
      BY <1>1, <1>3
    <3>. QED  BY <1>1, <1>3, <3>1
  <2>2. IsFiniteSet(below(j)) /\ Cardinality(below(i)) \in Parts /\ Cardinality(below(j)) \in Parts
    BY <1>2
  <2>. HIDE DEF below
  <2>3. /\ Cardinality(below(i)) <= Cardinality(below(j))
        /\ Cardinality(below(j)) = Cardinality(below(i)) => below(j) = below(i)
    BY <2>1, <2>2, FS_Subset
  <2>. QED  BY <1>1, <2>1, <2>2, <2>3
<1>. HIDE DEF below
<1>4. rank \in Injection(Parts, Parts)
  <2>1. rank \in [Parts -> Parts]
    BY <1>2
  <2>2. ASSUME NEW i \in Parts, NEW j \in Parts, rank[i] = rank[j] PROVE i = j
    <3>1. Cardinality(below(i)) = Cardinality(below(j)) /\ Cardinality(below(i)) \in Nat
      BY <1>1, <1>2, <2>2
    <3>2. ~ (name(i) < name(j)) /\ ~ (name(j) < name(i))
      BY <1>3, <3>1
    <3>. QED  BY <1>1, <3>2
  <2>. HIDE DEF rank
  <2>. QED  BY <2>1, <2>2 DEF Injection, IsInjective
<1>5. \A i \in Parts : rank[i] = Cardinality(below(i)) /\ rank[i] \in Parts
  BY <1>2
<1>. HIDE DEF rank
<1>6. rank \in Surjection(Parts, Parts)
  BY <1>1, <1>4, FS_Injection
<1>7. \A k \in Parts : \E i \in Parts : rank[i] = k
  BY <1>6 DEF Surjection
<1>. DEFINE s == [k \in Parts |-> CHOOSE i \in Parts : rank[i] = k]
<1>8. s \in [Parts -> Parts] /\ \A k \in Parts : rank[s[k]] = k
  BY <1>7
<1>. HIDE DEF s
<1>9. Ascends(s)
  <2>1. SUFFICES ASSUME NEW k \in Parts, NEW l \in Parts, k < l PROVE name(s[k]) < name(s[l])
    BY <1>8
  <2>2. s[k] \in Parts /\ s[l] \in Parts /\ rank[s[k]] = k /\ rank[s[l]] = l
    BY <1>8
  <2>3. ~ (name(s[l]) < name(s[k]))
    <3>1. SUFFICES ASSUME name(s[l]) < name(s[k]) PROVE FALSE
      OBVIOUS
    <3>2. Cardinality(below(s[l])) < Cardinality(below(s[k]))
      BY <1>3, <2>2, <3>1
    <3>3. l < k
      BY <1>5, <2>2, <3>2
    <3>. QED  BY <1>1, <2>1, <3>3
  <2>4. s[k] # s[l]
    BY <1>1, <2>1, <2>2
  <2>. QED  BY <1>1, <2>2, <2>3, <2>4
<1>10. ByName \in [Parts -> Parts] /\ Ascends(ByName)
  <2>1. ByName = CHOOSE t \in [Parts -> Parts] : Ascends(t)
    BY DEF ByName, Parts, name
  <2>. HIDE DEF Ascends
  <2>. QED  BY <1>8, <1>9, <2>1
<1>. DEFINE b == ByName
<1>11. b \in [Parts -> Parts] /\ \A k, l \in Parts : b[k] = b[l] => k = l
  <2>1. b \in [Parts -> Parts]
    BY <1>10
  <2>2. ASSUME NEW k \in Parts, NEW l \in Parts, b[k] = b[l] PROVE k = l
    <3>1. ~ (k < l) /\ ~ (l < k)
      <4>1. name(b[k]) \in Nat /\ name(b[l]) = name(b[k]) /\ DOMAIN b = Parts
        BY <1>1, <2>1, <2>2
      <4>2. k < l => name(b[k]) < name(b[l])
        BY <1>10, <4>1
      <4>3. l < k => name(b[l]) < name(b[k])
        BY <1>10, <4>1
      <4>. QED  BY <4>1, <4>2, <4>3
    <3>. QED  BY <1>1, <3>1
  <2>. QED  BY <2>1, <2>2
<1>. HIDE DEF b
<1>12. b \in Injection(Parts, Parts)
  BY <1>11 DEF Injection, IsInjective
<1>13. b \in Surjection(Parts, Parts)
  BY <1>1, <1>12, FS_Injection
<1>14. Range(b) = Parts
  BY <1>11, <1>13 DEF Surjection, Range
<1>15. b \in Seq(Parts) /\ DOMAIN b = Parts
  BY <1>1, <1>11
<1>16. \A k, l \in Parts : k < l => file.parts[b[k]].name < file.parts[b[l]].name
  BY <1>10, <1>15 DEF b, name
<1>. QED  BY <1>11, <1>14, <1>15, <1>16 DEF b

LEMMA SmallerOf ==
  ASSUME NEW a \in Nat, NEW b \in Nat
  PROVE  Min({a, b}) \in Nat /\ Min({a, b}) <= b /\ (a <= b => Min({a, b}) = a)
<1>. DEFINE Smallest(x) == x \in {a, b} /\ \A y \in {a, b} : x <= y
<1>1. Smallest(a) \/ Smallest(b)
  OBVIOUS
<1>2. Min({a, b}) = CHOOSE x : Smallest(x)
  <2>1. Min({a, b}) = CHOOSE x \in {a, b} : \A y \in {a, b} : x <= y
    BY Zenon DEF Min
  <2>. QED  BY <2>1
<1>3. Smallest(Min({a, b}))
  <2>. HIDE DEF Smallest
  <2>. QED  BY <1>1, <1>2, Zenon
<1>. HIDE DEF Smallest
<1>4. \A x : Smallest(x) => x \in {a, b} /\ x <= a /\ x <= b
  BY DEF Smallest
<1>. QED  BY <1>3, <1>4

(* The lookup of the kind reads at most three parts.                           *)
LEMMA ProbesAreBounded ==
  ASSUME file \in Files
  PROVE  ProbeBytes \in 0..(3 * (MaxEntry + 1))
<1>. DEFINE W == {k \in 1..3 : Identifies(k)}
            last == IF \E k \in 1..3 : Identifies(k) THEN Min(W) ELSE 3
            S == {k \in 1..last : Probes[k] \in file.has}
            m == Min({file.ident, MaxEntry + 1})
            c == Cardinality(S)
<1>1. last \in 1..3
  <2>1. ASSUME W # {} PROVE Min(W) \in W
    <3>. HIDE DEF W
    <3>1. W \subseteq 1..3
      BY DEF W
    <3>2. \E x \in W : \A y \in W : x <= y
      <4>0. \A y \in W : y \in Nat /\ (y = 1 \/ y = 2 \/ y = 3)
        BY <3>1
      <4>1. CASE 1 \in W
        <5>1. \A y \in W : 1 <= y
          BY <4>0
        <5>. QED  BY <4>1, <5>1
      <4>2. CASE 1 \notin W /\ 2 \in W
        <5>1. \A y \in W : 2 <= y
          BY <4>0, <4>2
        <5>. QED  BY <4>2, <5>1
      <4>3. CASE 1 \notin W /\ 2 \notin W
        <5>1. 3 \in W /\ \A y \in W : 3 <= y
          BY <2>1, <4>0, <4>3
        <5>. QED  BY <5>1
      <4>. QED  BY <4>1, <4>2, <4>3
    <3>. QED  BY <3>2, Zenon DEF Min
  <2>. QED  BY <2>1
<1>. HIDE DEF last
<1>2. c \in 0..3
  <2>1. S \in SUBSET (1..3)
    BY <1>1
  <2>2. IsFiniteSet(1..3) /\ Cardinality(1..3) = 3
    <3>1. 1 \in Int /\ 3 \in Int
      OBVIOUS
    <3>2. IsFiniteSet(1..3) /\ Cardinality(1..3) = IF 1 > 3 THEN 0 ELSE 3 - 1 + 1
      BY <3>1, FS_Interval
    <3>. QED  BY <3>2
  <2>. HIDE DEF S
  <2>3. IsFiniteSet(S) /\ Cardinality(S) <= Cardinality(1..3)
    BY <2>1, <2>2, FS_Subset
  <2>4. Cardinality(S) \in Nat
    BY <2>3, FS_CardinalityType
  <2>. QED  BY <2>2, <2>3, <2>4
<1>3. m \in 0..(MaxEntry + 1) /\ MaxEntry \in Nat
  <2>1. file.ident \in Nat /\ MaxEntry \in Nat /\ MaxEntry + 1 \in Nat
    BY FileTypes
  <2>2. m \in Nat /\ m <= MaxEntry + 1
    BY <2>1, SmallerOf
  <2>. HIDE DEF m
  <2>. QED  BY <2>1, <2>2
<1>4. ProbeBytes = c * m
  BY Zenon DEF ProbeBytes, last
<1>. HIDE DEF c, m
<1>5. /\ c = 0 => ProbeBytes = 0 
      /\ c = 1 => ProbeBytes = m
      /\ c = 2 => ProbeBytes = m + m
      /\ c = 3 => ProbeBytes = m + m + m
  BY <1>3, <1>4
<1>. QED  BY <1>2, <1>3, <1>5

LEMMA KindsDetected ==
  ASSUME file \in Files
  PROVE  /\ DetectedKind \in Kinds \union {Unknown}
         /\ DetectedKind \notin Engines \union Flat \union {Unknown} => DetectedKind \in Archives
<1>1. ZipKind \in Kinds \union {Unknown}
  BY FileTypes DEF ZipKind
<1>2. DetectedKind \in {file.sig, ZipKind, file.ext} /\ (file.sig \in Engines \/ DetectedKind # file.sig \/ DetectedKind \in {ZipKind, file.ext})
  BY DEF DetectedKind
<1>3. DetectedKind \in Kinds \union {Unknown}
  BY <1>1, <1>2, FileTypes DEF Kinds
<1>. QED  BY <1>3 DEF Kinds

(***************************************************************************)
(* The steps.                                                              *)
(***************************************************************************)

LEMMA StepDispatch ==
  ASSUME ReaderInv, Dispatch
  PROVE  ReaderInv'
<1>1. /\ phase = "detect" /\ kind' = DetectedKind /\ UNCHANGED <<file, p, doc>>
      /\ archive' = [archive EXCEPT !.todo = NamesToRead(kind'),
                                    !.probed = IF file.sig = "zip" /\ file.entries <= MaxEntries
                                               THEN ProbeBytes ELSE 0]
      /\ phase' = CASE kind' = Unknown -> "failed"
                    [] kind' \in Engines -> "engine"
                    [] kind' \in Flat -> "parse"
                    [] file.sig # "zip" \/ file.entries > MaxEntries -> "failed"
                    [] OTHER -> "archive"
  BY Zenon DEF Dispatch
<1>2. /\ file \in Files /\ Bounds /\ Counting
      /\ archive.read = 0 /\ archive.total = 0 /\ doc.n = 0
  BY <1>1 DEF ReaderInv
<1>3. /\ archive' = [f \in {"todo", "total", "read", "probed"} |-> archive'[f]]
      /\ archive'.todo = NamesToRead(kind') /\ archive'.read = 0 /\ archive'.total = 0
      /\ archive'.probed = IF file.sig = "zip" /\ file.entries <= MaxEntries THEN ProbeBytes ELSE 0
  <2>1. archive = [f \in {"todo", "total", "read", "probed"} |-> archive[f]]
    BY <1>2 DEF Bounds
  <2>. QED  BY <1>1, <1>2, <2>1, Zenon
<1>4. Bounds'
  <2>1. MaxTotal \in Nat /\ MaxEntry \in Nat
    BY <1>2, FileTypes
  <2>2. archive'.read \in 0..(MaxTotal + MaxEntry + 1)
    BY <1>3, <2>1
  <2>3. archive'.probed \in 0..(3 * (MaxEntry + 1))
    BY <1>2, <1>3, <2>1, ProbesAreBounded
  <2>. QED  BY <1>3, <2>2, <2>3 DEF Bounds
<1>5. kind' \in Kinds \union {Unknown}
      /\ (kind' \notin Engines \union Flat \union {Unknown} => kind' \in Archives)
  BY <1>1, <1>2, KindsDetected
<1>6. ASSUME phase' = "archive" PROVE Reading'
  <2>1. kind' \in Archives /\ file.sig = "zip" /\ ~ (file.entries > MaxEntries)
    BY <1>1, <1>5, <1>6
  <2>2. file.entries <= MaxEntries
    BY <1>2, <2>1, FileTypes
  <2>3. CASE kind' = "docx" /\ ~file.usual
    <3>1. NamesToRead(kind') = <<>> /\ Lost'
      BY <1>1, <2>3 DEF NamesToRead, Lost
    <3>2. Queue(archive.todo)' /\ Taken' = {}
      BY <1>3, <3>1 DEF Queue, Taken
    <3>3. Total(file.parts, Taken)' = 0
      BY <1>1, <1>2, <3>2, FileTypes, SumLaws DEF Parts
    <3>. QED  BY <1>1, <1>2, <1>3, <2>1, <2>2, <3>2, <3>3, FileTypes DEF Reading
  <2>4. CASE ~ (kind' = "docx" /\ ~file.usual)
    <3>1. NamesToRead(kind') = ByName /\ ~ Lost'
      BY <1>1, <2>1, <2>4 DEF NamesToRead, Lost
    <3>2. Parts' = Parts
      BY <1>1 DEF Parts
    <3>3. Queue(archive.todo)' /\ Taken' = {}
      BY <1>2, <1>3, <3>1, <3>2, ByNameIsOrder DEF Queue, Taken
    <3>4. Total(file.parts, Taken)' = 0
      BY <1>1, <1>2, <3>3, FileTypes, SumLaws DEF Parts
    <3>. QED  BY <1>1, <1>2, <1>3, <2>1, <2>2, <3>3, <3>4, FileTypes DEF Reading
  <2>. QED  BY <2>3, <2>4
<1>7. ASSUME kind' \in Archives PROVE phase' \notin {"detect", "parse", "done"}
  <2>1. kind' # Unknown /\ kind' \notin Engines /\ kind' \notin Flat
    BY <1>7 DEF Archives, Unknown, Engines, Flat
  <2>. QED  BY <1>1, <2>1
<1>8. phase' # "detect"
  BY <1>1
<1>9. ASSUME kind' \in Archives, phase' = "failed" PROVE Refused'
  <2>1. kind' # Unknown /\ kind' \notin Engines /\ kind' \notin Flat
    BY <1>9 DEF Archives, Unknown, Engines, Flat
  <2>2. file.sig # "zip" \/ file.entries > MaxEntries
    BY <1>1, <1>9, <2>1
  <2>3. file.entries > MaxEntries => ~ (file.entries <= MaxEntries)
    BY <1>2, FileTypes
  <2>. QED  BY <1>1, <2>2, <2>3 DEF Refused, WithinLimits
<1>10. file' \in Files /\ Counting'
  BY <1>1, <1>2 DEF Counting
<1>. QED  BY <1>4, <1>6, <1>7, <1>8, <1>9, <1>10, Zenon DEF ReaderInv

LEMMA SizeIsTotal == Size = Total(file.parts, Parts)
BY Zenon DEF Size, Total, Parts

(* A part that is read is charged and no longer to be read.                    *)
LEMMA OneTaken ==
  ASSUME Reading, archive.todo # <<>>, file \in Files
  PROVE  LET i == Head(archive.todo)
             rest == Tail(archive.todo)
         IN  /\ i \in Parts /\ Queue(rest) /\ ~Lost
             /\ Parts \ Range(rest) = Taken \union {i}
             /\ Total(file.parts, Taken \union {i}) = archive.total + file.parts[i].size
             /\ archive.total + file.parts[i].size <= Size
             /\ archive.total \in Nat /\ file.parts[i].size \in Nat
<1>. DEFINE i == Head(archive.todo)
            t == archive.todo
            rest == Tail(archive.todo)
<1>1. /\ t \in Seq(Parts) /\ t # <<>> /\ ~Lost
      /\ \A k, l \in DOMAIN t : t[k] = t[l] => k = l
  BY DEF Reading, Queue
<1>2. /\ i = t[1] /\ 1 \in DOMAIN t /\ Len(t) \in Nat /\ DOMAIN t = 1..Len(t)
      /\ rest \in Seq(Parts) /\ Len(rest) = Len(t) - 1 /\ DOMAIN rest = 1..Len(rest)
      /\ \A k \in DOMAIN rest : rest[k] = t[k + 1] /\ k + 1 \in DOMAIN t
  <2>. HIDE DEF t
  <2>. QED  BY <1>1 DEF t
<1>. HIDE DEF rest, i
<1>3. i \in Parts
  BY <1>1, <1>2
<1>4. \A k, l \in DOMAIN rest : rest[k] = rest[l] => k = l
  <2>1. SUFFICES ASSUME NEW k \in DOMAIN rest, NEW l \in DOMAIN rest, rest[k] = rest[l]
                 PROVE k = l
    OBVIOUS
  <2>2. k + 1 = l + 1
    <3>1. t[k + 1] = t[l + 1] /\ k + 1 \in DOMAIN t /\ l + 1 \in DOMAIN t
      BY <1>2, <2>1
    <3>. HIDE DEF t
    <3>. QED  BY <1>1, <3>1
  <2>3. k \in Nat /\ l \in Nat
    BY <1>2
  <2>. QED  BY <2>2, <2>3
<1>5. \A k \in DOMAIN rest : rest[k] # i
  <2>1. ASSUME NEW k \in DOMAIN rest, rest[k] = i PROVE FALSE
    <3>1. k + 1 = 1
      <4>1. t[k + 1] = t[1] /\ k + 1 \in DOMAIN t /\ 1 \in DOMAIN t
        BY <1>2, <2>1
      <4>. HIDE DEF t
      <4>. QED  BY <1>1, <4>1
    <3>2. k \in Nat /\ 1 <= k
      BY <1>2
    <3>. QED  BY <3>1, <3>2
  <2>. QED  BY <2>1
<1>6. Range(t) = Range(rest) \union {i}
  <2>1. ASSUME NEW k \in DOMAIN t PROVE t[k] = i \/ \E l \in DOMAIN rest : rest[l] = t[k]
    <3>1. CASE k = 1
      BY <1>2, <3>1
    <3>2. CASE k # 1
      <4>1. k - 1 \in DOMAIN rest /\ (k - 1) + 1 = k
        BY <1>2, <3>2
      <4>2. rest[k - 1] = t[k]
        BY <1>2, <4>1
      <4>. QED  BY <4>1, <4>2
    <3>. QED  BY <3>1, <3>2
  <2>2. \A l \in DOMAIN rest : rest[l] = t[l + 1] /\ l + 1 \in DOMAIN t
    BY <1>2
  <2>3. i = t[1] /\ 1 \in DOMAIN t
    BY <1>2
  <2>4. Range(t) = {t[k] : k \in DOMAIN t} /\ Range(rest) = {rest[k] : k \in DOMAIN rest}
    BY Zenon DEF Range
  <2>. HIDE DEF t
  <2>. QED  BY <2>1, <2>2, <2>3, <2>4
<1>7. Taken = Parts \ Range(t) /\ i \notin Range(rest)
  BY <1>1, <1>5 DEF Taken, Range
<1>8. Parts \ Range(rest) = Taken \union {i} /\ i \in Parts \ Taken /\ Taken \in SUBSET Parts
      /\ Taken \union {i} \in SUBSET Parts
  BY <1>3, <1>6, <1>7
<1>9. /\ Total(file.parts, Taken \union {i}) = Total(file.parts, Taken) + file.parts[i].size
      /\ Total(file.parts, Taken) \in Nat /\ file.parts[i].size \in Nat
      /\ Total(file.parts, Taken \union {i}) <= Total(file.parts, Parts)
  <2>1. IsFiniteSet(Parts) /\ \A x \in Parts : file.parts[x].size \in Nat
    BY FileTypes
  <2>. QED  BY <1>8, <2>1, SumLaws
<1>10. Size = Total(file.parts, Parts) /\ archive.total = Total(file.parts, Taken)
  BY SizeIsTotal, Zenon DEF Reading
<1>11. Queue(rest)
  BY <1>1, <1>2, <1>4 DEF Queue
<1>12. /\ Total(file.parts, Taken \union {i}) = archive.total + file.parts[i].size
       /\ archive.total + file.parts[i].size <= Size
       /\ archive.total \in Nat /\ file.parts[i].size \in Nat
  BY <1>9, <1>10, Zenon
<1>. QED  BY <1>1, <1>3, <1>8, <1>11, <1>12, Zenon DEF rest, i

(* What Charged does to the record.                                            *)
LEMMA ChargedIs ==
  ASSUME Bounds, NEW size \in Nat, MaxEntry \in Nat, Charged(size)
  PROVE  /\ archive' = [f \in {"todo", "total", "read", "probed"} |-> archive'[f]]
         /\ archive'.todo = Tail(archive.todo) /\ archive'.probed = archive.probed
         /\ archive'.read = archive.read + Min({size, MaxEntry + 1})
         /\ archive'.total = IF size <= MaxEntry THEN archive.total + size ELSE archive.total
         /\ size <= MaxEntry => archive'.read = archive.read + size
         /\ Min({size, MaxEntry + 1}) \in Nat /\ Min({size, MaxEntry + 1}) <= MaxEntry + 1
<1>1. archive = [f \in {"todo", "total", "read", "probed"} |-> archive[f]]
  BY DEF Bounds
<1>2. /\ archive' = [f \in {"todo", "total", "read", "probed"} |-> archive'[f]]
      /\ archive'.todo = Tail(archive.todo) /\ archive'.probed = archive.probed
      /\ archive'.read = archive.read + Min({size, MaxEntry + 1})
      /\ archive'.total = IF size <= MaxEntry THEN archive.total + size ELSE archive.total
  BY <1>1, Zenon DEF Charged
<1>3. /\ Min({size, MaxEntry + 1}) \in Nat /\ Min({size, MaxEntry + 1}) <= MaxEntry + 1
      /\ size <= MaxEntry + 1 => Min({size, MaxEntry + 1}) = size
  <2>1. MaxEntry + 1 \in Nat
    OBVIOUS
  <2>. QED  BY <2>1, SmallerOf
<1>4. size <= MaxEntry => size <= MaxEntry + 1
  OBVIOUS
<1>. QED  BY <1>2, <1>3, <1>4, Zenon

LEMMA OtherFields ==
  ASSUME NEW d, NEW e, NEW x, NEW y, {"n", "open"} \subseteq DOMAIN d,
         e = d \/ e = [d EXCEPT !.odd = x] \/ e = [d EXCEPT !.shown = y, !.odd = x]
  PROVE  e.n = d.n /\ e.open = d.open /\ DOMAIN e = DOMAIN d
<1>0. "n" \in DOMAIN d /\ "open" \in DOMAIN d
  OBVIOUS
<1>1. LET o == [d EXCEPT !.odd = x] IN o.n = d.n /\ o.open = d.open /\ DOMAIN o = DOMAIN d
  BY <1>0, Zenon
<1>2. LET o == [d EXCEPT !.shown = y, !.odd = x]
      IN  o.n = d.n /\ o.open = d.open /\ DOMAIN o = DOMAIN d
  BY <1>0, Zenon
<1>. QED  BY <1>1, <1>2, Zenon

LEMMA StepReadPart ==
  ASSUME ReaderInv, ReadPart
  PROVE  ReaderInv'
<1>. DEFINE i == Head(archive.todo)
            size == file.parts[i].size
<1>1. /\ phase = "archive" /\ archive.todo # <<>> /\ Fits(size) /\ Charged(size)
      /\ UNCHANGED <<file, kind, phase>>
      /\ doc'.n = doc.n /\ doc'.open = doc.open /\ DOMAIN doc' = DOMAIN doc
  <2>1. /\ phase = "archive" /\ archive.todo # <<>> /\ Fits(size) /\ Charged(size)
        /\ UNCHANGED <<file, kind, phase>>
    BY Zenon DEF ReadPart
  <2>2. \/ doc' = doc
        \/ doc' = [doc EXCEPT !.shown = [j \in 1..file.spine |-> j], !.odd = PartOdd]
    BY Zenon DEF ReadPart
  <2>3. doc'.n = doc.n /\ doc'.open = doc.open /\ DOMAIN doc' = DOMAIN doc
    <3>1. {"n", "open"} \subseteq DOMAIN doc
      BY DEF ReaderInv, Counting
    <3>. QED  BY <2>2, <3>1, OtherFields, Zenon
  <2>. QED  BY <2>1, <2>3
<1>2. file \in Files /\ Bounds /\ Counting /\ Reading
  BY <1>1 DEF ReaderInv
<1>3. /\ i \in Parts /\ Queue(Tail(archive.todo)) /\ ~Lost
      /\ Parts \ Range(Tail(archive.todo)) = Taken \union {i}
      /\ Total(file.parts, Taken \union {i}) = archive.total + size
      /\ archive.total \in Nat /\ size \in Nat
  BY <1>1, <1>2, OneTaken
<1>4. MaxEntry \in Nat /\ MaxTotal \in Nat
  BY <1>2, FileTypes
<1>5. size <= MaxEntry /\ archive.total + size <= MaxTotal
  BY <1>1 DEF Fits
<1>. HIDE DEF size
<1>6. /\ archive' = [f \in {"todo", "total", "read", "probed"} |-> archive'[f]]
      /\ archive'.todo = Tail(archive.todo) /\ archive'.probed = archive.probed
      /\ archive'.read = archive.read + size
      /\ archive'.total = archive.total + size
  BY <1>1, <1>2, <1>3, <1>4, <1>5, ChargedIs
<1>. HIDE DEF i
<1>7. archive.read = archive.total
  BY <1>2 DEF Reading
<1>8. Bounds'
  <2>1. archive'.read \in 0..(MaxTotal + MaxEntry + 1)
    BY <1>3, <1>4, <1>5, <1>6, <1>7
  <2>. QED  BY <1>2, <1>6, <2>1 DEF Bounds
<1>9. doc'.n = doc.n /\ doc'.open = doc.open /\ DOMAIN doc' = DOMAIN doc
  BY <1>1
<1>10. Counting'
  BY <1>2, <1>9 DEF Counting
<1>11. Parts' = Parts /\ ~Lost'
  BY <1>1, <1>3 DEF Parts, Lost
<1>12. Taken' = Taken \union {i}
  BY <1>3, <1>6, <1>11 DEF Taken
<1>13. Queue(archive.todo)'
  BY <1>3, <1>6, <1>11 DEF Queue
<1>14. \A j \in Taken' : file'.parts[j].size <= MaxEntry
  BY <1>1, <1>2, <1>5, <1>12 DEF Reading, size
<1>15. /\ archive'.total = Total(file.parts, Taken)' /\ archive'.read = archive'.total
       /\ archive'.total <= MaxTotal
  <2>1. Total(file.parts, Taken)' = Total(file.parts, Taken \union {i})
    BY <1>1, <1>12
  <2>. QED  BY <1>3, <1>5, <1>6, <1>7, <2>1
<1>16. Reading'
  <2>1. /\ kind' \in Archives /\ file'.sig = "zip" /\ file'.entries <= MaxEntries /\ doc'.n = 0
    BY <1>1, <1>2, <1>9 DEF Reading
  <2>. QED  BY <1>13, <1>14, <1>15, <2>1, Zenon DEF Reading
<1>. QED  BY <1>1, <1>2, <1>8, <1>10, <1>16, Zenon DEF ReaderInv

LEMMA SameLimits ==
  ASSUME file' = file
  PROVE  Size' = Size /\ (WithinLimits' <=> WithinLimits)
<1>1. (Size = Total(file.parts, Parts))'
  BY SizeIsTotal, PTL
<1>2. Size' = Size
  BY <1>1, SizeIsTotal DEF Parts
<1>3. WithinLimits' <=> WithinLimits
  <2>. DEFINE Under(fl, n) == /\ fl.entries <= MaxEntries /\ n <= MaxTotal
                              /\ \A i \in DOMAIN fl.parts : fl.parts[i].size <= MaxEntry
  <2>1. (WithinLimits <=> Under(file, Size)) /\ (WithinLimits' <=> Under(file', Size'))
    BY Zenon DEF WithinLimits
  <2>. HIDE DEF Under
  <2>. QED  BY <1>2, <2>1, Zenon
<1>. QED  BY <1>2, <1>3

LEMMA SameReading ==
  ASSUME file' = file, archive' = archive, Bounds
  PROVE  Bounds' /\ (Accepted' <=> Accepted)
<1>1. Bounds'
  BY DEF Bounds
<1>2. Accepted' <=> Accepted
  BY SameLimits, Zenon DEF Accepted
<1>. QED  BY <1>1, <1>2

LEMMA StepOverLimit ==
  ASSUME ReaderInv, OverLimit
  PROVE  ReaderInv'
<1>. DEFINE i == Head(archive.todo)
            size == file.parts[i].size
<1>1. /\ phase = "archive" /\ archive.todo # <<>> /\ ~Fits(size) /\ Charged(size)
      /\ phase' = "failed" /\ UNCHANGED <<file, kind, p, doc>>
  BY Zenon DEF OverLimit
<1>2. file \in Files /\ Bounds /\ Counting /\ Reading
  BY <1>1 DEF ReaderInv
<1>3. /\ i \in Parts /\ archive.total + size <= Size
      /\ archive.total \in Nat /\ size \in Nat
  BY <1>1, <1>2, OneTaken
<1>4. MaxEntry \in Nat /\ MaxTotal \in Nat /\ Size \in Nat
  <2>1. MaxEntry \in Nat /\ MaxTotal \in Nat
    BY <1>2, FileTypes
  <2>2. Size = Total(file.parts, Parts)
    BY SizeIsTotal
  <2>3. IsFiniteSet(Parts) /\ (\A x \in Parts : file.parts[x].size \in Nat) /\ Parts \in SUBSET Parts
    BY <1>2, FileTypes
  <2>4. Total(file.parts, Parts) \in Nat
    BY <2>3, SumLaws
  <2>. QED  BY <2>1, <2>2, <2>4
<1>5. size > MaxEntry \/ archive.total + size > MaxTotal
  <2>1. ~ (size <= MaxEntry /\ archive.total + size <= MaxTotal)
    BY <1>1 DEF Fits
  <2>. HIDE DEF size
  <2>. QED  BY <1>3, <1>4, <2>1
<1>6. ~WithinLimits
  <2>1. WithinLimits => size <= MaxEntry /\ Size <= MaxTotal
    BY <1>3 DEF WithinLimits, Parts
  <2>. HIDE DEF size
  <2>. QED  BY <1>3, <1>4, <1>5, <2>1
<1>. HIDE DEF size
<1>7. Bounds'
  <2>1. /\ archive' = [f \in {"todo", "total", "read", "probed"} |-> archive'[f]]
        /\ archive'.probed = archive.probed
        /\ archive'.read = archive.read + Min({size, MaxEntry + 1})
        /\ Min({size, MaxEntry + 1}) \in Nat /\ Min({size, MaxEntry + 1}) <= MaxEntry + 1
    BY <1>1, <1>2, <1>3, <1>4, ChargedIs
  <2>2. archive.read = archive.total /\ archive.total <= MaxTotal
    BY <1>2 DEF Reading
  <2>3. archive'.read \in 0..(MaxTotal + MaxEntry + 1)
    BY <1>3, <1>4, <2>1, <2>2
  <2>. QED  BY <1>2, <2>1, <2>3 DEF Bounds
<1>8. Counting' /\ (WithinLimits' <=> WithinLimits)
  BY <1>1, <1>2, SameLimits DEF Counting
<1>. QED  BY <1>1, <1>2, <1>6, <1>7, <1>8, Zenon DEF ReaderInv, Refused

LEMMA StepPartsRead ==
  ASSUME ReaderInv, PartsRead
  PROVE  ReaderInv'
<1>1. /\ phase = "archive" /\ archive.todo = <<>>
      /\ phase' = CASE kind \in {"pptx", "epub"} -> "done"
                    [] kind = "docx" /\ ~file.usual -> "failed"
                    [] OTHER -> "parse"
      /\ UNCHANGED <<file, kind, archive, p, doc>>
  BY Zenon DEF PartsRead
<1>2. file \in Files /\ Bounds /\ Counting /\ Reading
  BY <1>1 DEF ReaderInv
<1>3. Bounds' /\ Counting' /\ (Accepted' <=> Accepted)
  BY <1>1, <1>2, SameReading DEF Counting
<1>4. phase' \in {"done", "failed", "parse"} /\ (phase' = "failed" <=> Lost)
  BY <1>1 DEF Lost
<1>5. ASSUME ~Lost PROVE Accepted
  <2>1. Taken = Parts
    BY <1>1, <1>5 DEF Taken, Range
  <2>2. Size = Total(file.parts, Parts)
    BY SizeIsTotal
  <2>3. archive.read = Size /\ Size <= MaxTotal /\ file.entries <= MaxEntries
        /\ \A j \in Parts : file.parts[j].size <= MaxEntry
    BY <1>2, <2>1, <2>2 DEF Reading
  <2>. QED  BY <2>3, Zenon DEF Accepted, WithinLimits, Parts
<1>6. Lost => Refused'
  BY <1>1 DEF Refused, Lost
<1>7. ~Lost => Accepted'
  BY <1>3, <1>5
<1>. QED  BY <1>1, <1>2, <1>3, <1>4, <1>6, <1>7, Zenon DEF ReaderInv

(* An element is read: the file says d, which is one element more.             *)
Counted(d) == DOMAIN d = DOMAIN doc /\ d.n = doc.n

LEMMA ElementRead ==
  ASSUME ReaderInv, NEW of, NEW d, NEW q, Reads(of, d, q), Counting => Counted(d)
  PROVE  ReaderInv'
<1>1. /\ phase = "parse" /\ doc' = [d EXCEPT !.n = @ + 1]
      /\ UNCHANGED <<file, kind, phase, archive>>
  BY Zenon DEF Reads
<1>2. file \in Files /\ Bounds /\ Counting /\ (kind \in Archives => Accepted)
  BY <1>1 DEF ReaderInv
<1>3. doc.n \in Nat /\ "n" \in DOMAIN doc /\ DOMAIN d = DOMAIN doc /\ d.n = doc.n
  BY <1>2 DEF Counted, Counting
<1>4. doc'.n = doc.n + 1 /\ DOMAIN doc' = DOMAIN doc
  BY <1>1, <1>3, Zenon
<1>6. doc'.n \in Nat /\ doc'.n # 0
  BY <1>3, <1>4
<1>7. Counting'
  BY <1>2, <1>4, <1>6 DEF Counting
<1>5. Bounds' /\ (Accepted' <=> Accepted)
  BY <1>1, <1>2, SameReading
<1>. QED  BY <1>1, <1>2, <1>5, <1>7, Zenon DEF ReaderInv

LEMMA StepEndOfFile ==
  ASSUME ReaderInv, EndOfFile \/ CutOff
  PROVE  ReaderInv'
<1>1. /\ phase = "parse" /\ UNCHANGED <<file, kind, archive>>
      /\ \/ phase' = "done" /\ doc' = Odd(doc, IF p.held # <<>> THEN {"cut script"} ELSE {})
         \/ phase' = "failed" /\ doc' = doc /\ ~Complete
  BY Zenon DEF EndOfFile, CutOff
<1>2. file \in Files /\ Bounds /\ Counting /\ (kind \in Archives => Accepted)
  BY <1>1 DEF ReaderInv
<1>3. Bounds' /\ (Accepted' <=> Accepted)
  BY <1>1, <1>2, SameReading
<1>4. doc'.n = doc.n /\ doc'.open = doc.open /\ DOMAIN doc' = DOMAIN doc
  <2>1. doc' = doc \/ \E x : doc' = [doc EXCEPT !.odd = x]
    BY <1>1, Zenon DEF Odd
  <2>2. {"n", "open"} \subseteq DOMAIN doc
    BY <1>2 DEF Counting
  <2>. QED  BY <2>1, <2>2, OtherFields, Zenon
<1>5. Counting'
  BY <1>2, <1>4 DEF Counting
<1>6. ASSUME phase' = "failed", kind' \in Archives PROVE doc'.n # 0
  <2>1. ~Complete /\ kind # "eml"
    BY <1>1, <1>6 DEF Archives
  <2>2. doc.open # <<>>
    BY <2>1 DEF Complete
  <2>. QED  BY <1>2, <1>4, <2>2 DEF Counting
<1>. QED  BY <1>1, <1>2, <1>3, <1>5, <1>6, Zenon DEF ReaderInv

(* What an element changes in doc leaves its number of elements alone.         *)
LEMMA CountKept ==
  ASSUME Counting, NEW d, Counted(d)
  PROVE  /\ \A o : Counted(Odd(d, o))
         /\ \A t : Counted(Says(d, t))
         /\ \A w : Counted(WholeMail(d, w))
         /\ \A b : Counted([d EXCEPT !.boxes = b])
         /\ \A n, b : Counted([d EXCEPT !.boxes[n] = b])
         /\ \A b : Counted([d EXCEPT !.open = b])
<1>0. "n" \in DOMAIN d /\ DOMAIN d = DOMAIN doc /\ d.n = doc.n
  BY DEF Counted, Counting
<1>1. \A o : Counted(Odd(d, o))
  BY <1>0, Zenon DEF Counted, Odd
<1>2. \A t : Counted(Says(d, t))
  BY <1>0, Zenon DEF Counted, Says
<1>3. \A w : Counted(WholeMail(d, w))
  <2>1. ASSUME NEW w, NEW e, e = [d EXCEPT !.ways = w] PROVE Counted(e)
    BY <1>0, <2>1, Zenon DEF Counted
  <2>2. ASSUME NEW w, NEW e, e = [d EXCEPT !.ways = w, !.whole = TRUE] PROVE Counted(e)
    BY <1>0, <2>2, Zenon DEF Counted
  <2>. QED  BY <2>2, Zenon DEF WholeMail
<1>4. \A b : Counted([d EXCEPT !.boxes = b]) /\ Counted([d EXCEPT !.open = b])
  BY <1>0, Zenon DEF Counted
<1>5. \A n, b : Counted([d EXCEPT !.boxes[n] = b])
  BY <1>0, Zenon DEF Counted
<1>. QED  BY <1>1, <1>2, <1>3, <1>4, <1>5

LEMMA DocCounted ==
  ASSUME Counting
  PROVE  Counted(doc) /\ Counted(Closed) /\ \A tag : Counted(Opened(tag))
<1>1. Counted(doc)
  BY DEF Counted, Counting
<1>2. Counted(Closed)
  BY <1>1, CountKept, Zenon DEF Closed
<1>3. \A tag : Counted(Opened(tag))
  BY <1>1, CountKept, Zenon DEF Opened
<1>. QED  BY <1>1, <1>2, <1>3

LEMMA StepWord ==
  ASSUME ReaderInv,
         \/ WordRun \/ WordTextBox \/ WordTable \/ WordRow \/ WordCell
         \/ WordEndCell \/ WordEndRow \/ WordEndTable
  PROVE  ReaderInv'
<1>1. \E d, q : Reads({"docx"}, d, q) /\ (Counting => Counted(d))
  <2>1. ASSUME WordRun PROVE \E q : Reads({"docx"}, Says(doc, <<Piece>>), q)
    BY <2>1, Zenon DEF WordRun
  <2>2. ASSUME WordTextBox
        PROVE  \E q : Reads({"docx"}, Odd(Says(doc, <<Piece>>), {"text box"}), q)
    BY <2>2, Zenon DEF WordTextBox
  <2>3. ASSUME WordTable PROVE \E o, q : Reads({"docx"}, Odd(Opened("tbl"), o), q)
    BY <2>3, Zenon DEF WordTable
  <2>4. ASSUME WordRow \/ WordCell PROVE \E tag, q : Reads({"docx"}, Opened(tag), q)
    BY <2>4, Zenon DEF WordRow, WordCell
  <2>5. ASSUME WordEndCell \/ WordEndRow \/ WordEndTable
        PROVE  \E q : Reads({"docx"}, Closed, q)
    BY <2>5, Zenon DEF WordEndCell, WordEndRow, WordEndTable
  <2>6. Counting => /\ Counted(Says(doc, <<Piece>>))
                    /\ Counted(Odd(Says(doc, <<Piece>>), {"text box"}))
                    /\ \A o : Counted(Odd(Opened("tbl"), o))
                    /\ \A tag : Counted(Opened(tag))
                    /\ Counted(Closed)
    BY DocCounted, CountKept, Zenon
  <2>. QED  BY <2>1, <2>2, <2>3, <2>4, <2>5, <2>6, Zenon
<1>. QED  BY <1>1, ElementRead, Zenon

LEMMA StepRegion ==
  ASSUME ReaderInv, (\E r : OpenRegion(r)) \/ CloseRegion \/ RegionText
  PROVE  ReaderInv'
<1>1. \E of, d, q : Reads(of, d, q) /\ (Counting => Counted(d))
  <2>1. ASSUME NEW r, OpenRegion(r)
        PROVE  \E of, o, q : Reads(of, Odd(Opened(r), o), q)
    BY <2>1, Zenon DEF OpenRegion
  <2>2. ASSUME CloseRegion PROVE \E of, q : Reads(of, Closed, q)
    BY <2>2, Zenon DEF CloseRegion
  <2>3. ASSUME RegionText
        PROVE  \E of, q : Reads(of, IF Hidden THEN doc ELSE Says(doc, <<Piece>>), q)
    BY <2>3, Zenon DEF RegionText
  <2>4. Counting => /\ \A r, o : Counted(Odd(Opened(r), o))
                    /\ Counted(Closed)
                    /\ Counted(IF Hidden THEN doc ELSE Says(doc, <<Piece>>))
    BY DocCounted, CountKept, Zenon
  <2>. QED  BY <2>1, <2>2, <2>3, <2>4, Zenon
<1>. QED  BY <1>1, ElementRead, Zenon

LEMMA StepWorkbook ==
  ASSUME ReaderInv,
         \/ \E runs, reading : SharedString(runs, reading)
         \/ Row \/ SharedCell \/ EndRow \/ \E runs : ValueCell(runs)
  PROVE  ReaderInv'
<1>1. \E of, d, q : Reads(of, d, q) /\ (Counting => Counted(d))
  <2>1. ASSUME NEW runs, NEW reading, SharedString(runs, reading)
        PROVE  \E of, o, q : Reads(of, Odd(doc, o), q)
    BY <2>1, Zenon DEF SharedString
  <2>2. ASSUME Row PROVE \E of, q : Reads(of, Opened("row"), q)
    BY <2>2, Zenon DEF Row
  <2>3. ASSUME SharedCell \/ \E runs : ValueCell(runs)
        PROVE  \E of, t, o, q : Reads(of, Odd(Says(doc, t), o), q)
    <3>1. \E said, kept, odd : Cell(said, kept, odd)
      BY <2>3, Zenon DEF SharedCell, ValueCell
    <3>. QED  BY <3>1, Zenon DEF Cell
  <2>4. ASSUME EndRow PROVE \E of, q : Reads(of, Closed, q)
    BY <2>4, Zenon DEF EndRow
  <2>5. Counting => /\ \A o : Counted(Odd(doc, o))
                    /\ Counted(Opened("row"))
                    /\ \A t, o : Counted(Odd(Says(doc, t), o))
                    /\ Counted(Closed)
    BY DocCounted, CountKept, Zenon
  <2>. QED  BY <2>1, <2>2, <2>3, <2>4, <2>5, Zenon
<1>. QED  BY <1>1, ElementRead, Zenon

LEMMA StepMail ==
  ASSUME ReaderInv,
         \/ \E type, attached, blank : MailLeaf(type, attached, blank)
         \/ (\E alt : MailContainer(alt)) \/ MailEndContainer
  PROVE  ReaderInv'
<1>1. \E of, d, q : Reads(of, d, q) /\ (Counting => Counted(d))
  <2>1. ASSUME NEW type, NEW attached, NEW blank, MailLeaf(type, attached, blank)
        PROVE  \/ \E of, w, q : Reads(of, WholeMail(doc, w), q)
               \/ \E of, q : Reads(of, doc, q)
               \/ \E of, n, b, q : Reads(of, [doc EXCEPT !.boxes[n] = b], q)
    BY <2>1, Zenon DEF MailLeaf
  <2>2. ASSUME NEW alt, MailContainer(alt)
        PROVE  \E of, b, q : Reads(of, [doc EXCEPT !.boxes = b], q)
    BY <2>2, Zenon DEF MailContainer
  <2>3. ASSUME MailEndContainer
        PROVE  \/ \E of, b, o, w, q :
                     Reads(of, WholeMail(Odd([doc EXCEPT !.boxes = b], o), w), q)
               \/ \E of, b, o, n, c, q :
                     Reads(of, [Odd([doc EXCEPT !.boxes = b], o) EXCEPT !.boxes[n] = c], q)
    BY <2>3, Zenon DEF MailEndContainer
  <2>4. Counting =>
          /\ \A w : Counted(WholeMail(doc, w))
          /\ Counted(doc)
          /\ \A n, b : Counted([doc EXCEPT !.boxes[n] = b])
          /\ \A b : Counted([doc EXCEPT !.boxes = b])
    BY DocCounted, CountKept, Zenon
  <2>5. Counting =>
          /\ \A b, o, w : Counted(WholeMail(Odd([doc EXCEPT !.boxes = b], o), w))
          /\ \A b, o, n, c : Counted([Odd([doc EXCEPT !.boxes = b], o) EXCEPT !.boxes[n] = c])
    BY <2>4, CountKept, Zenon
  <2>. QED  BY <2>1, <2>2, <2>3, <2>4, <2>5, Zenon
<1>. QED  BY <1>1, ElementRead, Zenon

LEMMA ReaderInitial == Init => ReaderInv
<1>. SUFFICES ASSUME Init PROVE ReaderInv
  OBVIOUS
<1>1. /\ file \in Files /\ kind = Unknown /\ phase = "detect" /\ doc = NewDoc
      /\ archive = [todo |-> <<>>, total |-> 0, read |-> 0, probed |-> 0]
  BY Zenon DEF Init, ReaderInit
<1>2. Counting
  BY <1>1 DEF Counting, NewDoc
<1>3. Bounds
  <2>1. MaxTotal \in Nat /\ MaxEntry \in Nat
    BY <1>1, FileTypes
  <2>. QED  BY <1>1, <2>1 DEF Bounds
<1>4. doc.n = 0 /\ archive.read = 0 /\ archive.total = 0
  BY <1>1 DEF NewDoc
<1>. QED  BY <1>1, <1>2, <1>3, <1>4 DEF ReaderInv

LEMMA ReaderStays ==
  ASSUME ReaderInv, UNCHANGED readerVars
  PROVE  ReaderInv'
<1>1. UNCHANGED <<file, kind, phase, archive, p, doc>>
  BY Zenon DEF readerVars
<1>2. /\ Bounds' /\ (Accepted' <=> Accepted) /\ (WithinLimits' <=> WithinLimits)
  BY <1>1, SameReading, SameLimits DEF ReaderInv
<1>3. Counting' /\ (Refused' <=> Refused)
  BY <1>1, <1>2 DEF ReaderInv, Counting, Refused, Lost
<1>4. Reading => Reading'
  <2>1. Parts' = Parts /\ Lost' = Lost
    BY <1>1 DEF Parts, Lost
  <2>2. Taken' = Taken
    BY <1>1, <2>1 DEF Taken
  <2>. QED  BY <1>1, <2>1, <2>2 DEF Reading, Queue
<1>. QED  BY <1>1, <1>2, <1>3, <1>4, Zenon DEF ReaderInv

LEMMA ReaderStep == ReaderInv /\ [Next]_vars => ReaderInv'
<1>. SUFFICES ASSUME ReaderInv, [Next]_vars PROVE ReaderInv'
  OBVIOUS
<1>1. CASE UNCHANGED readerVars \/ UNCHANGED vars
  <2>1. UNCHANGED readerVars
    BY <1>1, Zenon DEF vars
  <2>. QED  BY <2>1, ReaderStays
<1>2. CASE ReaderNext
  BY <1>2, StepDispatch, StepReadPart, StepOverLimit, StepPartsRead, StepEndOfFile, StepWord,
     StepRegion, StepWorkbook, StepMail, Zenon DEF ReaderNext
<1>. QED  BY <1>1, <1>2, Zenon DEF Next

LEMMA ReaderInvariant == Spec => []ReaderInv
BY ReaderInitial, ReaderStep, PTL DEF Spec

(* Whatever the sizes, names and kinds of a file's parts: a reader never       *)
(* decompresses more than the total and one part, the lookup of the kind       *)
(* never more than three parts; a text is that of whole parts within all       *)
(* limits; and an archive is refused for its size only when it exceeds one.    *)
THEOREM LimitsHold == Spec => []ReadsAreBounded
<1>1. ASSUME ReaderInv PROVE ReadsAreBounded
  <2>1. archive.read <= MaxTotal + MaxEntry + 1 /\ archive.probed <= 3 * (MaxEntry + 1)
    <3>1. MaxTotal \in Nat /\ MaxEntry \in Nat
      BY <1>1, FileTypes DEF ReaderInv
    <3>. QED  BY <1>1, <3>1 DEF ReaderInv, Bounds
  <2>. QED  BY <1>1, <2>1, Zenon DEF ReaderInv, ReadsAreBounded, Accepted, Refused, Lost
<1>. QED  BY <1>1, ReaderInvariant, PTL

(***************************************************************************)
(* Induction over the numbers, for a set of them.                          *)
(***************************************************************************)

(* The principle of induction, for a set instead of a predicate.               *)
LEMMA NumberInduction ==
  ASSUME NEW G \in SUBSET Nat, 0 \in G, \A n \in G : n + 1 \in G
  PROVE  G = Nat
<1>1. ASSUME NEW n \in Nat, n \notin G PROVE FALSE
  <2>. DEFINE T == Nat \ G
  <2>1. T # {} /\ T \subseteq Nat
    BY <1>1
  <2>. HIDE DEF T
  <2>2. PICK x \in T : \A y \in T : ~ (<<y, x>> \in OpToRel(<, Nat))
    BY <2>1, NatLessThanWellFounded, WFMin
  <2>3. x \in Nat /\ x \notin G
    BY DEF T
  <2>4. x # 0 /\ x - 1 \in Nat /\ (x - 1) + 1 = x
    BY <2>3
  <2>5. x - 1 \notin T
    <3>1. <<x - 1, x>> \in OpToRel(<, Nat)
      BY <2>3, <2>4 DEF OpToRel
    <3>. QED  BY <2>2, <3>1
  <2>. QED  BY <2>3, <2>4, <2>5 DEF T
<1>. QED  BY <1>1

(***************************************************************************)
(* A text within another.                                                  *)
(***************************************************************************)

Text == Seq(Nat)

(* The pieces of s stand in t at the places e.                                 *)
Places(e, s, t) ==
  /\ e \in [1..Len(s) -> 1..Len(t)]
  /\ \A i, j \in 1..Len(s) : i < j => e[i] < e[j]
  /\ \A i \in 1..Len(s) : t[e[i]] = s[i]

Sub(s, t) == s \in Text /\ t \in Text /\ \E e : Places(e, s, t)

(* Being a part of, keeping the order: of itself, and of whatever is put       *)
(* together from parts.                                                        *)
LEMMA SubOfItself == ASSUME NEW s \in Text PROVE Sub(s, s)
<1>. DEFINE e == [i \in 1..Len(s) |-> i]
<1>1. Places(e, s, s)
  BY DEF Places
<1>. QED  BY <1>1 DEF Sub

LEMMA EmptySub == ASSUME NEW s \in Text PROVE Sub(<<>>, s)
<1>. DEFINE e == [i \in 1..0 |-> i]
<1>1. <<>> \in Text /\ Len(<<>>) = 0
  BY DEF Text
<1>2. Places(e, <<>>, s)
  BY <1>1 DEF Places
<1>. QED  BY <1>1, <1>2 DEF Sub

(* Places counted from the end of a text of length n.                          *)
LEMMA Shifted ==
  ASSUME NEW n \in Nat, NEW m \in Nat, NEW x \in 1..m
  PROVE  /\ n + x \in 1..(n + m) /\ ~ (n + x <= n) /\ (n + x) - n = x
         /\ \A y \in 1..n : y \in 1..(n + m) /\ y <= n /\ y < n + x
         /\ \A y \in 1..m : y < x => n + y < n + x
OBVIOUS

LEMMA SubJoined ==
  ASSUME NEW s, NEW t, NEW u, NEW v, Sub(s, t), Sub(u, v)
  PROVE  Sub(s \o u, t \o v)
<1>1. PICK e : Places(e, s, t)
  BY DEF Sub
<1>2. PICK d : Places(d, u, v)
  BY DEF Sub
<1>. DEFINE a == Len(s)
            b == Len(u)
            g == [i \in 1..(a + b) |-> IF i <= a THEN e[i] ELSE Len(t) + d[i - a]]
<1>3. /\ s \in Seq(Nat) /\ t \in Seq(Nat) /\ u \in Seq(Nat) /\ v \in Seq(Nat)
      /\ a \in Nat /\ b \in Nat /\ Len(t) \in Nat /\ Len(v) \in Nat
  BY DEF Sub, Text
<1>4. /\ s \o u \in Seq(Nat) /\ Len(s \o u) = a + b
      /\ t \o v \in Seq(Nat) /\ Len(t \o v) = Len(t) + Len(v)
      /\ \A i \in 1..(a + b) : (s \o u)[i] = IF i <= a THEN s[i] ELSE u[i - a]
      /\ \A i \in 1..(Len(t) + Len(v)) : (t \o v)[i] = IF i <= Len(t) THEN t[i] ELSE v[i - Len(t)]
  BY <1>3
<1>5. ASSUME NEW i \in 1..a
      PROVE  i \in 1..(a + b) /\ g[i] = e[i] /\ e[i] \in 1..Len(t) /\ t[e[i]] = s[i]
  <2>1. i \in 1..(a + b) /\ i <= a
    <3>. HIDE DEF a, b
    <3>. QED  BY <1>3, <1>5
  <2>2. g[i] = e[i]
    <3>. HIDE DEF a, b
    <3>. QED  BY <2>1
  <2>3. e[i] \in 1..Len(t) /\ t[e[i]] = s[i]
    BY <1>1 DEF Places
  <2>. QED  BY <2>1, <2>2, <2>3
<1>6. ASSUME NEW i \in 1..(a + b), ~ (i <= a)
      PROVE  /\ i - a \in 1..b /\ g[i] = Len(t) + d[i - a] /\ d[i - a] \in 1..Len(v)
             /\ v[d[i - a]] = u[i - a]
  <2>1. i - a \in 1..b
    BY <1>3, <1>6
  <2>. QED  BY <1>2, <1>6, <2>1 DEF Places
<1>. HIDE DEF g
<1>7. ASSUME NEW i \in 1..(a + b)
      PROVE  g[i] \in 1..(Len(t) + Len(v)) /\ (t \o v)[g[i]] = (s \o u)[i]
  <2>1. CASE i <= a
    <3>1. i \in 1..a
      BY <1>3, <2>1
    <3>. HIDE DEF a, b
    <3>2. g[i] = e[i] /\ e[i] \in 1..Len(t) /\ t[e[i]] = s[i]
      BY <1>5, <3>1
    <3>3. g[i] \in 1..(Len(t) + Len(v)) /\ g[i] <= Len(t)
      BY <1>3, <3>2
    <3>. QED  BY <1>4, <2>1, <3>2, <3>3
  <2>2. CASE ~ (i <= a)
    <3>1. /\ i - a \in 1..b /\ g[i] = Len(t) + d[i - a] /\ d[i - a] \in 1..Len(v)
          /\ v[d[i - a]] = u[i - a]
      BY <1>6, <2>2
    <3>. DEFINE x == d[i - a]
    <3>. HIDE DEF a, b
    <3>2. g[i] \in 1..(Len(t) + Len(v)) /\ ~ (g[i] <= Len(t)) /\ g[i] - Len(t) = d[i - a]
      <4>1. x \in 1..Len(v) /\ g[i] = Len(t) + x
        BY <3>1
      <4>. HIDE DEF x
      <4>2. /\ Len(t) + x \in 1..(Len(t) + Len(v)) /\ ~ (Len(t) + x <= Len(t))
            /\ (Len(t) + x) - Len(t) = x
        BY <1>3, <4>1, Shifted
      <4>3. g[i] \in 1..(Len(t) + Len(v)) /\ ~ (g[i] <= Len(t)) /\ g[i] - Len(t) = x
        BY <4>1, <4>2, Zenon
      <4>. QED  BY <4>3 DEF x
    <3>. QED  BY <1>4, <2>2, <3>1, <3>2
  <2>. QED  BY <2>1, <2>2
<1>8. ASSUME NEW i \in 1..(a + b), NEW j \in 1..(a + b), i < j
      PROVE  g[i] < g[j]
  <2>1. CASE j <= a
    <3>1. i \in 1..a /\ j \in 1..a
      BY <1>3, <1>8, <2>1
    <3>2. e[i] < e[j]
      BY <1>1, <1>8, <3>1 DEF Places
    <3>. QED  BY <1>5, <3>1, <3>2
  <2>2. CASE ~ (j <= a) /\ i <= a
    <3>1. i \in 1..a
      BY <1>3, <2>2
    <3>2. g[i] \in 1..Len(t)
      BY <1>5, <3>1
    <3>3. g[j] = Len(t) + d[j - a] /\ d[j - a] \in 1..Len(v)
      BY <1>6, <2>2
    <3>. DEFINE x == d[j - a]
    <3>4. x \in 1..Len(v) /\ g[j] = Len(t) + x
      BY <3>3
    <3>. HIDE DEF x, g, a, b
    <3>5. g[i] < Len(t) + x
      BY <1>3, <3>2, <3>4, Shifted
    <3>. QED  BY <3>4, <3>5
  <2>3. CASE ~ (j <= a) /\ ~ (i <= a)
    <3>1. /\ i - a \in 1..b /\ g[i] = Len(t) + d[i - a] /\ d[i - a] \in 1..Len(v)
          /\ j - a \in 1..b /\ g[j] = Len(t) + d[j - a] /\ d[j - a] \in 1..Len(v)
      BY <1>6, <2>3
    <3>2. i - a < j - a
      BY <1>3, <1>8
    <3>3. d[i - a] < d[j - a]
      BY <1>2, <3>1, <3>2 DEF Places
    <3>. DEFINE x == d[i - a]
                y == d[j - a]
    <3>4. /\ x \in 1..Len(v) /\ y \in 1..Len(v) /\ x < y
          /\ g[i] = Len(t) + x /\ g[j] = Len(t) + y
      BY <3>1, <3>3
    <3>. HIDE DEF a, b, x, y
    <3>5. Len(t) + x < Len(t) + y
      BY <1>3, <3>4, Shifted
    <3>. QED  BY <3>4, <3>5
  <2>. QED  BY <2>1, <2>2, <2>3
<1>9. g \in [1..(a + b) -> 1..(Len(t) + Len(v))]
  <2>1. g = [i \in 1..(a + b) |-> g[i]]
    BY DEF g
  <2>. QED  BY <1>7, <2>1
<1>10. Places(g, s \o u, t \o v)
  <2>. HIDE DEF a, b
  <2>. QED  BY <1>4, <1>7, <1>8, <1>9 DEF Places
<1>. QED  BY <1>4, <1>10 DEF Sub, Text

(* What begins what is within a text is within it.                             *)
LEMMA SubBegins ==
  ASSUME NEW s \in Text, NEW u \in Text, NEW t, Sub(s \o u, t)
  PROVE  Sub(s, t)
<1>1. PICK e : Places(e, s \o u, t)
  BY DEF Sub
<1>. DEFINE d == [i \in 1..Len(s) |-> e[i]]
<1>2. /\ Len(s) \in Nat /\ Len(s \o u) = Len(s) + Len(u) /\ Len(u) \in Nat
      /\ \A i \in 1..Len(s) : i \in 1..Len(s \o u) /\ (s \o u)[i] = s[i]
  BY DEF Text
<1>3. Places(d, s, t)
  <2>1. d \in [1..Len(s) -> 1..Len(t)]
    BY <1>1, <1>2 DEF Places
  <2>2. \A i \in 1..Len(s) : d[i] = e[i]
    OBVIOUS
  <2>. HIDE DEF d
  <2>. QED  BY <1>1, <1>2, <2>1, <2>2 DEF Places
<1>. QED  BY <1>3 DEF Sub

(***************************************************************************)
(* Within finds every such place.                                          *)
(***************************************************************************)

(* The maximum the fold over a text takes, one element at a time.              *)
LEMMA LargestIs ==
  ASSUME NEW S \in SUBSET Nat, NEW x \in S, \A y \in S : y <= x
  PROVE  Max(S) = x
<1>. DEFINE Largest(z) == z \in S /\ \A y \in S : z >= y
<1>1. Largest(x)
  OBVIOUS
<1>2. Max(S) = CHOOSE z : Largest(z)
  <2>1. Max(S) = CHOOSE z \in S : \A y \in S : z >= y
    BY Zenon DEF Max
  <2>. QED  BY <2>1
<1>3. Largest(Max(S))
  <2>. HIDE DEF Largest
  <2>. QED  BY <1>1, <1>2, Zenon
<1>4. \A z : Largest(z) => z \in Nat /\ z >= x /\ x \in Nat /\ x >= z
  OBVIOUS
<1>5. Max(S) \in Nat /\ Max(S) >= x /\ x \in Nat /\ x >= Max(S)
  <2>. HIDE DEF Largest
  <2>. QED  BY <1>3, <1>4, Zenon
<1>. HIDE DEF Largest
<1>. QED  BY <1>5

(* How many pieces of s have been found when another one, x, is looked at.     *)
Found(s, i, x) == IF i < Len(s) /\ s[i + 1] = x THEN i + 1 ELSE i

FoundIn(g, s, t, n) ==
  g = [S \in SUBSET (1..n) |-> IF S = {} THEN 0 ELSE Found(s, g[S \ {Max(S)}], t[Max(S)])]

(* The fold in Within as a function of the text read so far.                   *)
LEMMA FoundExists ==
  ASSUME NEW s, NEW t, NEW n \in Nat
  PROVE  \E g : FoundIn(g, s, t, n)
<1>. DEFINE G == {m \in Nat : \E g : FoundIn(g, s, t, m)}
<1>1. 0 \in G
  <2>. DEFINE g == [S \in SUBSET (1..0) |-> 0]
  <2>1. \A S \in SUBSET (1..0) : S = {}
    OBVIOUS
  <2>2. FoundIn(g, s, t, 0)
    BY <2>1 DEF FoundIn
  <2>. QED  BY <2>2
<1>2. ASSUME NEW m \in G PROVE m + 1 \in G
  <2>1. PICK g : FoundIn(g, s, t, m)
    BY <1>2
  <2>2. m \in Nat
    BY <1>2
  <2>. DEFINE h == [S \in SUBSET (1..(m + 1)) |-> IF m + 1 \in S THEN Found(s, g[S \ {m + 1}], t[m + 1])
                                                 ELSE g[S]]
              Value(S) == IF S = {} THEN 0 ELSE Found(s, h[S \ {Max(S)}], t[Max(S)])
  <2>3. \A S \in SUBSET (1..m) :
          g[S] = IF S = {} THEN 0 ELSE Found(s, g[S \ {Max(S)}], t[Max(S)])
    BY <2>1, Zenon DEF FoundIn
  <2>4. ASSUME NEW S \in SUBSET (1..(m + 1)), m + 1 \in S PROVE h[S] = Value(S)
    <3>1. S \in SUBSET Nat /\ \A y \in S : y <= m + 1
      BY <2>2
    <3>2. Max(S) = m + 1
      BY <2>4, <3>1, LargestIs
    <3>3. S \ {m + 1} \in SUBSET (1..(m + 1)) /\ m + 1 \notin S \ {m + 1} /\ S # {}
      BY <2>4
    <3>4. h[S \ {m + 1}] = g[S \ {m + 1}] /\ h[S] = Found(s, g[S \ {m + 1}], t[m + 1])
      BY <2>4, <3>3, Zenon
    <3>. HIDE DEF h
    <3>. QED  BY <3>2, <3>3, <3>4, Zenon
  <2>5. ASSUME NEW S \in SUBSET (1..(m + 1)), m + 1 \notin S PROVE h[S] = Value(S)
    <3>0. \A y \in S : y \in 1..m
      <4>1. \A y \in S : y \in 1..(m + 1) /\ y # m + 1
        BY <2>5
      <4>. QED  BY <2>2, <4>1
    <3>1. /\ S \in SUBSET (1..m) /\ S \ {Max(S)} \in SUBSET (1..(m + 1))
          /\ m + 1 \notin S \ {Max(S)}
      BY <2>5, <3>0
    <3>2. h[S] = g[S] /\ h[S \ {Max(S)}] = g[S \ {Max(S)}]
      BY <2>5, <3>1, Zenon
    <3>. HIDE DEF h
    <3>. QED  BY <2>3, <3>1, <3>2, Zenon
  <2>6. FoundIn(h, s, t, m + 1)
    <3>1. h = [S \in SUBSET (1..(m + 1)) |-> h[S]]
      OBVIOUS
    <3>. HIDE DEF h
    <3>2. \A S \in SUBSET (1..(m + 1)) : h[S] = Value(S)
      BY <2>4, <2>5
    <3>. QED  BY <3>1, <3>2, Zenon DEF FoundIn
  <2>. QED  BY <2>2, <2>6
<1>3. G \in SUBSET Nat
  OBVIOUS
<1>4. n \in G => \E g : FoundIn(g, s, t, n)
  OBVIOUS
<1>. HIDE DEF G
<1>5. G = Nat
  BY <1>1, <1>2, <1>3, NumberInduction
<1>. QED  BY <1>4, <1>5

(* A text whose pieces stand in another one in their order is found in it by   *)
(* Within: taking the first place that fits never misses a later piece.        *)
LEMMA SubIsWithin ==
  ASSUME NEW s, NEW t, Sub(s, t)
  PROVE  Within(s, t)
<1>. DEFINE n == Len(t)
            g == CHOOSE f : FoundIn(f, s, t, n)
<1>1. s \in Seq(Nat) /\ t \in Seq(Nat) /\ Len(s) \in Nat /\ n \in Nat /\ DOMAIN t = 1..n
  BY DEF Sub, Text
<1>2. Within(s, t) <=> g[DOMAIN t] = Len(s)
  <2>1. g = CHOOSE f : f = [S \in SUBSET DOMAIN t |-> IF S = {} THEN 0
                                   ELSE Found(s, f[S \ {Max(S)}], t[Max(S)])]
    BY <1>1, Zenon DEF FoundIn
  <2>. HIDE DEF g
  <2>. QED  BY <2>1, Zenon DEF Within, FoldLeft, MapThenFoldSet, Found
<1>3. FoundIn(g, s, t, n)
  BY <1>1, FoundExists, Zenon
<1>. HIDE DEF g
<1>. DEFINE c(k) == g[1..k]
<1>4. \A S \in SUBSET (1..n) : g[S] = IF S = {} THEN 0 ELSE Found(s, g[S \ {Max(S)}], t[Max(S)])
  BY <1>3, Zenon DEF FoundIn
<1>5. c(0) = 0
  <2>1. 1..0 = {} /\ {} \in SUBSET (1..n)
    OBVIOUS
  <2>. QED  BY <1>4, <2>1
<1>6. ASSUME NEW k \in Nat, k < n PROVE c(k + 1) = Found(s, c(k), t[k + 1])
  <2>. DEFINE S == 1..(k + 1)
  <2>1. S \in SUBSET (1..n) /\ S # {} /\ S \in SUBSET Nat /\ k + 1 \in S /\ \A y \in S : y <= k + 1
    <3>1. \A y \in S : y \in 1..n /\ y \in Nat /\ y <= k + 1
      BY <1>1, <1>6
    <3>2. k + 1 \in S
      OBVIOUS
    <3>. QED  BY <3>1, <3>2
  <2>2. S \ {k + 1} = 1..k
    OBVIOUS
  <2>. HIDE DEF S
  <2>3. Max(S) = k + 1
    BY <2>1, LargestIs
  <2>4. g[S] = Found(s, g[S \ {k + 1}], t[k + 1])
    BY <1>4, <2>1, <2>3, Zenon
  <2>. QED  BY <2>2, <2>4, Zenon DEF S
<1>. HIDE DEF c
<1>7. PICK e : Places(e, s, t)
  BY DEF Sub
<1>. DEFINE Good(k) == /\ c(k) \in 0..Len(s)
                      /\ \A i \in 1..Len(s) : e[i] <= k => i <= c(k)
            G == {k \in Nat : k <= n => Good(k)}
<1>13. \A i \in 1..Len(s) : e[i] \in 1..n /\ e[i] \in Nat /\ i \in Nat /\ t[e[i]] = s[i]
  <2>1. ASSUME NEW i \in 1..Len(s) PROVE e[i] \in 1..n /\ t[e[i]] = s[i]
    <3>. HIDE DEF n
    <3>. QED  BY <1>7 DEF Places, n
  <2>2. (\A i \in 1..n : i \in Nat) /\ (\A i \in 1..Len(s) : i \in Nat)
    BY <1>1
  <2>. HIDE DEF n
  <2>. QED  BY <2>1, <2>2
<1>14. \A i, j \in 1..Len(s) : i < j => e[i] < e[j]
  BY <1>7 DEF Places
<1>8. 0 \in G
  <2>1. \A i \in 1..Len(s) : e[i] \in Nat /\ e[i] >= 1
    BY <1>1, <1>7 DEF Places
  <2>. QED  BY <1>1, <1>5, <2>1
<1>9. ASSUME NEW k \in G PROVE k + 1 \in G
  <2>1. k \in Nat
    BY <1>9
  <2>2. ASSUME k + 1 <= n PROVE Good(k + 1)
    <3>1. k < n /\ k <= n
      BY <1>1, <2>1, <2>2
    <3>2. Good(k)
      BY <1>9, <3>1
    <3>3. c(k + 1) = Found(s, c(k), t[k + 1])
      BY <1>6, <2>1, <3>1
    <3>4. c(k + 1) \in 0..Len(s) /\ c(k) <= c(k + 1) /\ c(k) \in Nat
      BY <1>1, <3>2, <3>3 DEF Found
    <3>5. ASSUME NEW i \in 1..Len(s), e[i] <= k + 1 PROVE i <= c(k + 1)
      <4>0. e[i] \in Nat /\ i \in Nat /\ c(k + 1) \in Nat /\ t[e[i]] = s[i]
        BY <1>1, <1>13, <3>4, <3>5
      <4>1. CASE e[i] <= k
        <5>1. i <= c(k)
          BY <3>2, <4>1
        <5>. QED  BY <3>4, <4>0, <5>1
      <4>2. CASE e[i] = k + 1
        <5>1. i - 1 <= c(k)
          <6>1. CASE i = 1
            BY <3>4, <6>1
          <6>2. CASE i # 1
            <7>1. i - 1 \in 1..Len(s) /\ i - 1 < i
              BY <1>1, <6>2
            <7>2. e[i - 1] < e[i] /\ e[i - 1] \in Nat
              BY <1>13, <1>14, <7>1, <3>5
            <7>3. e[i - 1] <= k
              BY <2>1, <4>2, <7>2
            <7>. QED  BY <3>2, <7>1, <7>3
          <6>. QED  BY <6>1, <6>2
        <5>2. CASE i <= c(k)
          BY <3>4, <4>0, <5>2
        <5>3. CASE ~ (i <= c(k))
          <6>1. c(k) = i - 1 /\ c(k) < Len(s) /\ c(k) + 1 = i
            BY <1>1, <3>4, <4>0, <5>1, <5>3
          <6>2. s[c(k) + 1] = t[k + 1]
            BY <4>0, <4>2, <6>1
          <6>3. c(k + 1) = c(k) + 1
            BY <3>3, <6>1, <6>2 DEF Found
          <6>. QED  BY <4>0, <6>1, <6>3
        <5>. QED  BY <5>2, <5>3
      <4>. QED  BY <2>1, <3>5, <4>0, <4>1, <4>2
    <3>. QED  BY <3>4, <3>5
  <2>. HIDE DEF Good
  <2>. QED  BY <2>1, <2>2
<1>10. G \in SUBSET Nat /\ (n \in G => Good(n))
  <2>. HIDE DEF Good
  <2>. QED  BY <1>1
<1>. HIDE DEF G
<1>11. Good(n)
  BY <1>1, <1>8, <1>9, <1>10, NumberInduction
<1>12. c(n) = Len(s)
  <2>1. CASE Len(s) = 0
    BY <1>11, <2>1
  <2>2. CASE Len(s) # 0
    <3>1. Len(s) \in 1..Len(s)
      BY <1>1, <2>2
    <3>2. e[Len(s)] <= n
      BY <1>1, <1>7, <3>1 DEF Places
    <3>3. Len(s) <= c(n)
      BY <1>11, <3>1, <3>2
    <3>. QED  BY <1>1, <1>11, <3>3
  <2>. QED  BY <2>1, <2>2
<1>. QED  BY <1>1, <1>2, <1>12 DEF c

(***************************************************************************)
(* Texts put one behind the other.                                         *)
(***************************************************************************)

Pieces == Text \ {<<>>}

Joins(f, ts, n) == f = [i \in 1..n |-> IF i = 1 THEN ts[i] ELSE f[i - 1] \o ts[i]]

(* What FlattenSeq computes, as a function of the number of texts joined.      *)
LEMMA JoinsExists ==
  ASSUME NEW n \in Nat, NEW ts
  PROVE  \E f : Joins(f, ts, n)
<1>. DEFINE G == {m \in Nat : \E f : Joins(f, ts, m)}
<1>1. 0 \in G
  <2>. DEFINE f == [i \in 1..0 |-> 0]
  <2>1. Joins(f, ts, 0)
    BY DEF Joins
  <2>. QED  BY <2>1
<1>2. ASSUME NEW m \in G PROVE m + 1 \in G
  <2>1. PICK f : Joins(f, ts, m)
    BY <1>2
  <2>2. m \in Nat
    BY <1>2
  <2>. DEFINE g == [i \in 1..(m + 1) |-> IF i = m + 1 THEN (IF i = 1 THEN ts[i] ELSE f[i - 1] \o ts[i])
                                        ELSE f[i]]
              Value(i) == IF i = 1 THEN ts[i] ELSE g[i - 1] \o ts[i]
  <2>3. \A i \in 1..m : f[i] = IF i = 1 THEN ts[i] ELSE f[i - 1] \o ts[i]
    BY <2>1, Zenon DEF Joins
  <2>4. ASSUME NEW i \in 1..(m + 1) PROVE g[i] = Value(i)
    <3>1. i - 1 # m + 1 /\ (i # 1 => i - 1 \in 1..(m + 1)) /\ (i # m + 1 => i \in 1..m)
      BY <2>2
    <3>2. /\ i # 1 => g[i - 1] = f[i - 1]
          /\ i # m + 1 => g[i] = f[i]
          /\ i = m + 1 => g[i] = IF i = 1 THEN ts[i] ELSE f[i - 1] \o ts[i]
      BY <3>1, Zenon
    <3>. HIDE DEF g
    <3>. QED  BY <2>3, <3>1, <3>2, Zenon
  <2>5. g = [i \in 1..(m + 1) |-> g[i]]
    OBVIOUS
  <2>6. Joins(g, ts, m + 1)
    <3>. HIDE DEF g
    <3>. QED  BY <2>4, <2>5, Zenon DEF Joins
  <2>. QED  BY <2>2, <2>6
<1>3. G \in SUBSET Nat /\ (n \in G => \E f : Joins(f, ts, n))
  OBVIOUS
<1>. HIDE DEF G
<1>4. G = Nat
  BY <1>1, <1>2, <1>3, NumberInduction
<1>. QED  BY <1>3, <1>4

LEMMA FlattenIs ==
  ASSUME NEW ts \in Seq(Text)
  PROVE  /\ ts = <<>> => FlattenSeq(ts) = <<>>
         /\ \E f : /\ Joins(f, ts, Len(ts)) /\ (ts # <<>> => FlattenSeq(ts) = f[Len(ts)])
                  /\ f \in [1..Len(ts) -> Text]
<1>. DEFINE n == Len(ts)
            f == CHOOSE h : Joins(h, ts, n)
<1>1. n \in Nat /\ (ts = <<>> <=> n = 0) /\ \A i \in 1..n : ts[i] \in Text
  OBVIOUS
<1>2. ts = <<>> => FlattenSeq(ts) = <<>>
  BY <1>1 DEF FlattenSeq
<1>3. ts # <<>> => FlattenSeq(ts) = f[n]
  <2>1. f = CHOOSE h : h = [i \in 1..n |-> IF i = 1 THEN ts[i] ELSE h[i - 1] \o ts[i]]
    BY Zenon DEF Joins
  <2>. HIDE DEF f
  <2>. QED  BY <1>1, <2>1, Zenon DEF FlattenSeq
<1>4. Joins(f, ts, n)
  BY <1>1, JoinsExists, Zenon
<1>. HIDE DEF f
<1>5. \A i \in 1..n : f[i] = IF i = 1 THEN ts[i] ELSE f[i - 1] \o ts[i]
  BY <1>4, Zenon DEF Joins
<1>. DEFINE G == {i \in Nat : i \in 1..n => f[i] \in Text}
<1>6. 0 \in G
  OBVIOUS
<1>7. ASSUME NEW i \in G PROVE i + 1 \in G
  <2>1. i \in Nat /\ (i \in 1..n => f[i] \in Text)
    BY <1>7
  <2>2. ASSUME i + 1 \in 1..n PROVE f[i + 1] \in Text
    <3>. HIDE DEF n
    <3>1. CASE i = 0
      <4>1. i + 1 = 1
        BY <3>1
      <4>. QED  BY <1>1, <1>5, <2>2, <4>1, Zenon
    <3>2. CASE i # 0
      <4>1. i \in 1..n /\ i + 1 # 1 /\ (i + 1) - 1 = i
        BY <1>1, <2>1, <2>2, <3>2
      <4>2. f[i + 1] = f[i] \o ts[i + 1]
        BY <1>5, <2>2, <4>1, Zenon
      <4>3. f[i] \in Text /\ ts[i + 1] \in Text
        BY <1>1, <2>1, <2>2, <4>1
      <4>. QED  BY <4>2, <4>3 DEF Text
    <3>. QED  BY <3>1, <3>2
  <2>. QED  BY <2>1, <2>2
<1>8. G \in SUBSET Nat /\ (G = Nat => \A i \in 1..n : f[i] \in Text)
  OBVIOUS
<1>. HIDE DEF G
<1>9. \A i \in 1..n : f[i] \in Text
  BY <1>6, <1>7, <1>8, NumberInduction
<1>10. f \in [1..n -> Text]
  <2>1. f = [i \in 1..n |-> f[i]]
    BY <1>4, <1>5, Zenon DEF Joins
  <2>. QED  BY <1>9, <2>1
<1>. QED  BY <1>2, <1>3, <1>4, <1>10

(* Joining texts gives a text, and a text joined last comes last.              *)
LEMMA FlattenLaws ==
  ASSUME NEW ts \in Seq(Text)
  PROVE  /\ FlattenSeq(ts) \in Text /\ (ts = <<>> => FlattenSeq(ts) = <<>>)
         /\ \A t \in Text : FlattenSeq(Append(ts, t)) = FlattenSeq(ts) \o t
<1>. DEFINE n == Len(ts)
<1>1. n \in Nat /\ (ts = <<>> <=> n = 0)
  OBVIOUS
<1>2. ts = <<>> => FlattenSeq(ts) = <<>>
  BY FlattenIs
<1>3. PICK f : /\ Joins(f, ts, n) /\ (ts # <<>> => FlattenSeq(ts) = f[n])
               /\ f \in [1..n -> Text]
  BY FlattenIs
<1>4. FlattenSeq(ts) \in Text
  <2>1. <<>> \in Text
    BY DEF Text
  <2>2. n # 0 => n \in 1..n
    BY <1>1
  <2>. QED  BY <1>1, <1>2, <1>3, <2>1, <2>2
<1>5. ASSUME NEW t \in Text PROVE FlattenSeq(Append(ts, t)) = FlattenSeq(ts) \o t
  <2>. DEFINE us == Append(ts, t)
              m == Len(us)
  <2>1. /\ us \in Seq(Text) /\ us # <<>> /\ m = n + 1 /\ us[n + 1] = t
        /\ \A i \in 1..n : us[i] = ts[i]
    OBVIOUS
  <2>. HIDE DEF us
  <2>2. PICK g : Joins(g, us, m) /\ FlattenSeq(us) = g[m]
    BY <2>1, FlattenIs
  <2>3. \A i \in 1..m : g[i] = IF i = 1 THEN us[i] ELSE g[i - 1] \o us[i]
    BY <2>2, Zenon DEF Joins
  <2>4. \A i \in 1..n : f[i] = IF i = 1 THEN ts[i] ELSE f[i - 1] \o ts[i]
    BY <1>3, Zenon DEF Joins
  <2>. HIDE DEF n, m
  <2>. DEFINE G == {i \in Nat : i \in 1..n => g[i] = f[i]}
  <2>5. 0 \in G
    OBVIOUS
  <2>6. ASSUME NEW i \in G PROVE i + 1 \in G
    <3>1. i \in Nat /\ (i \in 1..n => g[i] = f[i])
      BY <2>6
    <3>2. ASSUME i + 1 \in 1..n PROVE g[i + 1] = f[i + 1]
      <4>1. i + 1 \in 1..m /\ us[i + 1] = ts[i + 1]
        BY <1>1, <2>1, <3>2
      <4>2. CASE i + 1 = 1
        BY <2>3, <2>4, <3>2, <4>1, <4>2
      <4>3. CASE i + 1 # 1
        <5>1. i \in 1..n /\ (i + 1) - 1 = i
          BY <1>1, <3>1, <3>2, <4>3
        <5>2. g[i + 1] = g[i] \o us[i + 1] /\ f[i + 1] = f[i] \o ts[i + 1]
          BY <2>3, <2>4, <3>2, <4>1, <4>3, <5>1, Zenon
        <5>. QED  BY <3>1, <4>1, <5>1, <5>2
      <4>. QED  BY <4>2, <4>3
    <3>. QED  BY <3>1, <3>2
  <2>7. G \in SUBSET Nat /\ (G = Nat /\ n \in 1..n => g[n] = f[n])
    BY <1>1
  <2>. HIDE DEF G
  <2>8. n \in 1..n => g[n] = f[n]
    BY <2>5, <2>6, <2>7, NumberInduction
  <2>9. CASE n = 0
    <3>1. m \in 1..m /\ m = 1 /\ g[m] = us[m]
      BY <2>1, <2>3, <2>9
    <3>2. FlattenSeq(us) = t
      BY <2>1, <2>2, <2>9, <3>1
    <3>3. FlattenSeq(ts) = <<>>
      BY <1>1, <1>2, <2>9
    <3>. QED  BY <3>2, <3>3 DEF us, Text
  <2>10. CASE n # 0
    <3>1. n \in 1..n /\ m \in 1..m /\ m # 1 /\ m - 1 = n
      BY <1>1, <2>1, <2>10
    <3>2. g[m] = g[m - 1] \o us[m]
      BY <2>3, <3>1, Zenon
    <3>3. g[m] = f[n] \o t
      BY <2>1, <2>8, <3>1, <3>2
    <3>. QED  BY <1>1, <1>3, <2>2, <2>10, <3>3 DEF us
  <2>. QED  BY <2>9, <2>10
<1>. QED  BY <1>2, <1>4, <1>5

(***************************************************************************)
(* What a reader's output has to do with what the file says.               *)
(***************************************************************************)

Keeps(d) == d.odd \intersect Losing = {}
Clean(d) == d.odd \intersect Leaking = {}

(* The text out is what the file says, with one of the ways to read it.        *)
Renders(d, ways, out) ==
  /\ Keeps(d) => \E w \in ways : Sub(w, out)
  /\ Clean(d) => \E w \in ways : Sub(out, w)

DocFields == {"open", "shown", "boxes", "whole", "ways", "odd", "n"}
ParserFields == {"out", "table", "row", "cell", "inTable", "inCell", "inRow", "shared", "depth",
                 "ignore", "held", "lists"}

(* Tables, rows and cells lie within each other.                               *)
Nested(open) ==
  /\ open \in Seq({"tbl", "tr", "tc"})
  /\ \A i \in DOMAIN open : /\ open[i] = "tr" => i > 1 /\ open[i - 1] = "tbl"
                            /\ open[i] = "tc" => i > 1 /\ open[i - 1] = "tr"
                            /\ open[i] = "tbl" /\ i > 1 => open[i - 1] = "tc"

TopOf(open) == IF open = <<>> THEN "none" ELSE Last(open)

(* What a Word reader has and has not dropped: the table's rows, the row's     *)
(* cells and the cell's text, while they are open.                             *)
TableOf(q) == IF q.inTable THEN q.table ELSE <<>>
RowOf(d, q) == IF q.inTable /\ TopOf(d.open) \in {"tr", "tc"} THEN q.row ELSE <<>>
CellOf(d, q) == IF q.inTable /\ TopOf(d.open) = "tc" /\ q.inCell THEN q.cell ELSE <<>>

Has(d, q) == ((q.out \o TableOf(q)) \o RowOf(d, q)) \o CellOf(d, q)

WordShape(d, q) ==
  /\ Nested(d.open) /\ d.shown \in Text
  /\ q.out \in Text /\ q.table \in Text /\ q.row \in Text /\ q.cell \in Text /\ q.held = <<>>
  /\ q.inTable \in BOOLEAN /\ q.inCell \in BOOLEAN
  /\ q.inTable => d.open # <<>>
  /\ ~q.inTable => q.table = <<>>

(* Where there are no tables within tables, the flags say where the reader is. *)
WordPlain(d, q) ==
  /\ Len(d.open) <= 3
  /\ q.inTable <=> d.open # <<>>
  /\ q.inCell <=> TopOf(d.open) = "tc"

WordOK(d, q) ==
  /\ WordShape(d, q)
  /\ Keeps(d) => WordPlain(d, q) /\ Sub(d.shown, Has(d, q))
  /\ Clean(d) => Sub(Has(d, q), d.shown)

(* Regions: which are open, and what is not to be read in them.                *)
Covered(open) == \E i \in DOMAIN open : open[i] \in Unread

RegionOK(k, d, q) ==
  /\ d.open \in Seq(Regions(k)) /\ d.shown \in Text
  /\ \A i \in DOMAIN d.open : d.open[i] \in {"script", "comment"} => i = Len(d.open)
  /\ q.out \in Text /\ q.held \in Text
  /\ q.depth = Len(d.open)
  /\ k = "rtf" => /\ q.ignore \in 0..Len(d.open)
                  /\ q.ignore # 0 => d.open[q.ignore] = "fonttbl"
                  /\ Clean(d) => \A i \in DOMAIN d.open : d.open[i] \in Unread => i = q.ignore
  /\ k = "html" /\ Clean(d) => \A i \in DOMAIN d.open : d.open[i] # "comment"
  /\ k = "odf" /\ Clean(d) => d.open \in Seq({"element"})
  /\ Sub(d.shown, q.out)
  /\ Clean(d) => Sub(q.out, d.shown)

SheetOK(d, q) ==
  /\ d.open \in {<<>>, <<"row">>} /\ d.shown \in Text
  /\ q.out = <<>> /\ q.table \in Text /\ q.row \in Text /\ q.held = <<>>
  /\ d.open # <<>> => q.inRow = TRUE
  /\ d.open = <<>> => q.row = <<>>
  /\ q.shared \in Seq([said : Text, kept : Text])
  /\ \A i \in DOMAIN q.shared : /\ Sub(q.shared[i].said, q.shared[i].kept) /\ q.shared[i].kept # <<>>
                                /\ Clean(d) => Sub(q.shared[i].kept, q.shared[i].said)
  /\ Keeps(d) => Sub(d.shown, q.table \o q.row)
  /\ Clean(d) => Sub(q.table \o q.row, d.shown)
  /\ d.shown # <<>> => q.table # <<>> \/ q.row # <<>>

SlidesOK(d, q) ==
  /\ q.out \in Seq(Parts) /\ archive.todo \in Seq(Parts)
  /\ Len(q.out) + Len(archive.todo) = Len(ByName)
  /\ \A i \in DOMAIN q.out : q.out[i] = ByName[i]
  /\ \A i \in DOMAIN archive.todo : archive.todo[i] = ByName[Len(q.out) + i]
  /\ q.out # <<>> => d.shown = [j \in 1..file.spine |-> j] /\ d.odd = PartOdd
  /\ q.out = <<>> => d.shown = <<>>

(* Mail: what the ways of a container have to do with the texts of its parts.  *)
Ways(ways) == ways \in SUBSET Text /\ ways # {}

(* The texts of one list, while there are none in the other.                   *)
OneOf(d, ways, these, others) ==
  /\ Keeps(d) /\ others = <<>> => \E w \in ways : Sub(w, FlattenSeq(these))
  /\ Clean(d) => \E w \in ways : Sub(FlattenSeq(these), w)

EachOf(d, ways, these) == \A i \in DOMAIN these : Renders(d, ways, these[i])

BoxOK(d, box, parts) ==
  /\ Ways(box.ways) /\ box.alt \in BOOLEAN
  /\ parts.plain \in Seq(Pieces) /\ parts.html \in Seq(Pieces)
  /\ parts.plain = <<>> /\ parts.html = <<>> => box.ways = {<<>>}
  /\ parts.plain # <<>> \/ parts.html # <<>> => <<>> \notin box.ways
  /\ box.alt => EachOf(d, box.ways, parts.plain) /\ EachOf(d, box.ways, parts.html)
  /\ ~box.alt => /\ OneOf(d, box.ways, parts.plain, parts.html)
                 /\ OneOf(d, box.ways, parts.html, parts.plain)

BoxType == [alt: BOOLEAN, ways: SUBSET Text]
ListType == [plain: Seq(Pieces), html: Seq(Pieces)]

BoxesOK(d, boxes, lists) ==
  /\ boxes \in Seq(BoxType) /\ lists \in Seq(ListType) /\ Len(boxes) = Len(lists)
  /\ \A i \in DOMAIN boxes : BoxOK(d, boxes[i], lists[i])

MailOK(d, q) ==
  /\ q.held = <<>> /\ q.out \in Text
  /\ BoxesOK(d, d.boxes, q.lists)
  /\ d.whole \in BOOLEAN /\ (~d.whole => q.out = <<>>)
  /\ d.whole => /\ d.boxes = <<>> /\ Ways(d.ways) /\ Renders(d, d.ways, q.out)
                /\ q.out = <<>> => <<>> \in d.ways

ParseOK ==
  /\ kind = "docx" => WordOK(doc, p)
  /\ kind \in {"rtf", "html", "odf"} => RegionOK(kind, doc, p)
  /\ kind = "xlsx" => SheetOK(doc, p)
  /\ kind = "eml" => MailOK(doc, p)
  /\ kind \in Kinds /\ kind \notin Engines \union {"pptx", "epub"}

TextInv ==
  /\ file \in Files
  /\ DOMAIN doc = DocFields /\ DOMAIN p = ParserFields
  /\ phase = "detect" => kind = Unknown /\ p = NewParser /\ doc = NewDoc
  /\ phase \in {"archive", "parse", "done"} => kind = file.fmt
  /\ phase = "archive" => /\ kind \in Archives
                          /\ kind \in {"pptx", "epub"} => SlidesOK(doc, p)
                          /\ kind \notin {"pptx", "epub"} => p = NewParser /\ doc = NewDoc
  /\ phase = "parse" => ParseOK
  /\ phase = "done" => TextIsExact

(***************************************************************************)
(* Laws of texts.                                                          *)
(***************************************************************************)

(* Texts put together are texts, and the empty one changes nothing.            *)
LEMMA TextLaws ==
  /\ <<>> \in Text
  /\ \A n \in Nat : <<n>> \in Text /\ <<n, n>> \in Text /\ <<n>> # <<>> /\ <<n, n>> # <<>>
  /\ \A a, b \in Text : a \o b \in Text
  /\ \A a \in Text : a \o <<>> = a /\ <<>> \o a = a
  /\ \A a, b \in Text : a \o b = <<>> => a = <<>> /\ b = <<>>
<1>1. <<>> \in Text /\ (\A n \in Nat : <<n>> \in Text /\ <<n, n>> \in Text /\ <<n>> # <<>> /\ <<n, n>> # <<>>)
  BY DEF Text
<1>2. \A a, b \in Text : a \o b \in Text
  BY DEF Text
<1>3. \A a \in Text : a \o <<>> = a /\ <<>> \o a = a
  BY DEF Text
<1>5. \A a, b \in Text : a \o b = <<>> => a = <<>> /\ b = <<>>
  BY DEF Text
<1>. QED  BY <1>1, <1>2, <1>3, <1>5

LEMMA Regroup ==
  ASSUME NEW a \in Text, NEW b \in Text, NEW c \in Text
  PROVE  (a \o b) \o c = a \o (b \o c)
BY DEF Text

LEMMA SubTypes == ASSUME NEW s, NEW t, Sub(s, t) PROVE s \in Text /\ t \in Text
BY DEF Sub

LEMMA SubOfEmpty == ASSUME NEW s, Sub(s, <<>>) PROVE s = <<>>
<1>1. PICK e : Places(e, s, <<>>)
  BY DEF Sub
<1>2. s \in Seq(Nat) /\ Len(s) \in Nat
  BY DEF Sub, Text
<1>3. ASSUME Len(s) # 0 PROVE FALSE
  <2>1. 1 \in 1..Len(s)
    BY <1>2, <1>3
  <2>2. e[1] \in 1..0
    BY <1>1, <2>1 DEF Places
  <2>. QED  BY <2>2
<1>. QED  BY <1>2, <1>3

(* What is part of a text is part of what it grows to.                         *)
LEMMA SubGrows ==
  ASSUME NEW s, NEW t, NEW u \in Text, Sub(s, t)
  PROVE  Sub(s, t \o u)
<1>1. s \in Text /\ Sub(<<>>, u)
  BY SubTypes, EmptySub
<1>2. s \o <<>> = s
  BY <1>1, TextLaws
<1>3. Sub(s \o <<>>, t \o u)
  BY <1>1, SubJoined
<1>. QED  BY <1>2, <1>3

(***************************************************************************)
(* The fields of the two records after each change.                        *)
(***************************************************************************)

IsDoc(d) == DOMAIN d = DocFields

Fields(d, open, shown, boxes, whole, ways, odd) ==
  /\ IsDoc(d)
  /\ d.open = open /\ d.shown = shown /\ d.boxes = boxes /\ d.whole = whole
  /\ d.ways = ways /\ d.odd = odd

LEMMA InDoc ==
  ASSUME NEW d, IsDoc(d)
  PROVE  /\ "open" \in DOMAIN d /\ "shown" \in DOMAIN d /\ "boxes" \in DOMAIN d
         /\ "whole" \in DOMAIN d /\ "ways" \in DOMAIN d /\ "odd" \in DOMAIN d /\ "n" \in DOMAIN d
BY DEF IsDoc, DocFields

(* Each way to change what the file says changes what its name says and        *)
(* nothing else.                                                               *)
LEMMA DocOdd ==
  ASSUME NEW d, IsDoc(d), NEW o
  PROVE  Fields(Odd(d, o), d.open, d.shown, d.boxes, d.whole, d.ways, d.odd \union o)
BY InDoc, Zenon DEF Odd, IsDoc, Fields

LEMMA DocSays ==
  ASSUME NEW d, IsDoc(d), NEW t
  PROVE  Fields(Says(d, t), d.open, d.shown \o t, d.boxes, d.whole, d.ways, d.odd)
BY InDoc, Zenon DEF Says, IsDoc, Fields

LEMMA DocOpen ==
  ASSUME NEW d, IsDoc(d), NEW x
  PROVE  Fields([d EXCEPT !.open = x], x, d.shown, d.boxes, d.whole, d.ways, d.odd)
BY InDoc, Zenon DEF IsDoc, Fields

LEMMA DocBoxes ==
  ASSUME NEW d, IsDoc(d), NEW x
  PROVE  Fields([d EXCEPT !.boxes = x], d.open, d.shown, x, d.whole, d.ways, d.odd)
BY InDoc, Zenon DEF IsDoc, Fields

LEMMA DocWhole ==
  ASSUME NEW d, IsDoc(d), NEW w
  PROVE  Fields(WholeMail(d, w), d.open, d.shown, d.boxes, TRUE, w, d.odd)
<1>. DEFINE c == [d EXCEPT !.ways = w]
<1>1. Fields(c, d.open, d.shown, d.boxes, d.whole, w, d.odd)
  BY InDoc, Zenon DEF IsDoc, Fields
<1>2. WholeMail(d, w) = [c EXCEPT !.whole = TRUE]
  BY Zenon DEF WholeMail
<1>. HIDE DEF c
<1>3. IsDoc(c)
  BY <1>1 DEF Fields
<1>. QED  BY <1>1, <1>2, <1>3, InDoc, Zenon DEF IsDoc, Fields

LEMMA DocOpened ==
  ASSUME IsDoc(doc), NEW tag
  PROVE  Fields(Opened(tag), Append(doc.open, tag), doc.shown, doc.boxes, doc.whole, doc.ways, doc.odd)
<1>1. Opened(tag) = [doc EXCEPT !.open = Append(doc.open, tag)]
  BY Zenon DEF Opened
<1>. QED  BY <1>1, DocOpen

LEMMA DocClosed ==
  ASSUME IsDoc(doc)
  PROVE  Fields(Closed, Front(doc.open), doc.shown, doc.boxes, doc.whole, doc.ways, doc.odd)
<1>1. Closed = [doc EXCEPT !.open = Front(doc.open)]
  BY Zenon DEF Closed
<1>. QED  BY <1>1, DocOpen

(* An element is counted, and nothing else of what the file says.              *)
LEMMA ElementIs ==
  ASSUME NEW of, NEW d, NEW q, Reads(of, d, q), IsDoc(d)
  PROVE  /\ phase = "parse" /\ kind \in of /\ UNCHANGED <<file, kind, phase, archive>> /\ p' = q
         /\ IsDoc(doc') /\ doc'.open = d.open /\ doc'.shown = d.shown /\ doc'.odd = d.odd
         /\ doc'.boxes = d.boxes /\ doc'.whole = d.whole /\ doc'.ways = d.ways
<1>1. /\ phase = "parse" /\ kind \in of /\ UNCHANGED <<file, kind, phase, archive>> /\ p' = q
      /\ doc' = [d EXCEPT !.n = @ + 1]
  BY Zenon DEF Reads
<1>3. ASSUME NEW e, NEW x, e = [d EXCEPT !.n = x]
      PROVE  /\ DOMAIN e = DOMAIN d /\ e.open = d.open /\ e.shown = d.shown
             /\ e.odd = d.odd /\ e.boxes = d.boxes /\ e.whole = d.whole /\ e.ways = d.ways
  BY InDoc, <1>3, Zenon
<1>2. doc' = [d EXCEPT !.n = d.n + 1]
  BY <1>1, Zenon
<1>. QED  BY <1>1, <1>2, <1>3, Zenon DEF IsDoc

(* A construct that is odd takes promises back, it makes none.                 *)
LEMMA MoreOdd ==
  ASSUME NEW d, NEW e, d.odd \subseteq e.odd
  PROVE  (Keeps(e) => Keeps(d)) /\ (Clean(e) => Clean(d))
BY DEF Keeps, Clean

(***************************************************************************)
(* Stacks.                                                                 *)
(***************************************************************************)

(* A sequence with one element more, and with the last one less.               *)
LEMMA Pushed ==
  ASSUME NEW S, NEW s \in Seq(S), NEW x \in S
  PROVE  LET t == Append(s, x)
         IN  /\ t \in Seq(S) /\ Len(t) = Len(s) + 1 /\ t[Len(s) + 1] = x /\ Last(t) = x
             /\ t # <<>> /\ DOMAIN t = 1..(Len(s) + 1)
             /\ \A i \in 1..Len(s) : t[i] = s[i]
BY DEF Last

LEMMA Popped ==
  ASSUME NEW S, NEW s \in Seq(S), s # <<>>
  PROVE  LET t == Front(s)
         IN  /\ t \in Seq(S) /\ Len(t) = Len(s) - 1 /\ DOMAIN t = 1..(Len(s) - 1)
             /\ Len(s) \in Nat \ {0} /\ DOMAIN s = 1..Len(s)
             /\ \A i \in 1..(Len(s) - 1) : t[i] = s[i]
             /\ Last(s) = s[Len(s)] /\ Last(s) \in S
<1>1. Len(s) \in Nat \ {0} /\ DOMAIN s = 1..Len(s)
  OBVIOUS
<1>2. Last(s) = s[Len(s)] /\ Last(s) \in S
  BY <1>1 DEF Last
<1>3. /\ Front(s) \in Seq(S) /\ Len(Front(s)) = Len(s) - 1 /\ DOMAIN Front(s) = 1..(Len(s) - 1)
      /\ \A i \in 1..(Len(s) - 1) : Front(s)[i] = s[i]
  BY <1>1 DEF Front
<1>. QED  BY <1>1, <1>2, <1>3

(***************************************************************************)
(* RTF, HTML and ODF.                                                      *)
(***************************************************************************)

IsParser(q) == DOMAIN q = ParserFields

(* The invariant does not look at the number of elements.                      *)
LEMMA SameRegions ==
  ASSUME NEW k, NEW d, NEW e, NEW q, RegionOK(k, d, q),
         e.open = d.open, e.shown = d.shown, e.odd = d.odd
  PROVE  RegionOK(k, e, q)
BY DEF RegionOK, Clean

(* A region opens: the depth is counted, and RTF remembers where a group       *)
(* begins that it ignores.                                                     *)
LEMMA RegionOpens ==
  ASSUME IsDoc(doc), IsParser(p), NEW k, kind = k, k \in {"rtf", "html", "odf"},
         RegionOK(k, doc, p), NEW r, OpenRegion(r)
  PROVE  RegionOK(k, doc', p') /\ IsParser(p') /\ IsDoc(doc') /\ phase' = "parse"
<1>. DEFINE o == RegionOdd(r)
            c == Opened(r)
            d == Odd(c, o)
            q == [p EXCEPT !.depth = @ + 1, !.ignore = IF r = "fonttbl" THEN p.depth + 1 ELSE @]
            open == doc.open
            m == Len(open)
<1>1. r \in Regions(k) /\ Top \notin {"script", "comment"} /\ Reads({"rtf", "html", "odf"}, d, q)
  BY Zenon DEF OpenRegion
<1>2. /\ IsDoc(d) /\ d.open = Append(open, r) /\ d.shown = doc.shown /\ d.odd = doc.odd \union o
  <2>1. IsDoc(c) /\ c.open = Append(open, r) /\ c.shown = doc.shown /\ c.odd = doc.odd
    BY DocOpened DEF Fields
  <2>. HIDE DEF c
  <2>. QED  BY <2>1, DocOdd DEF Fields
<1>. HIDE DEF d, q, c
<1>3. /\ p' = q /\ phase' = "parse" /\ IsDoc(doc') /\ doc'.open = d.open /\ doc'.shown = d.shown
      /\ doc'.odd = d.odd
  BY <1>1, <1>2, ElementIs, Zenon
<1>4. /\ IsParser(q) /\ q.out = p.out /\ q.held = p.held /\ q.depth = p.depth + 1
      /\ q.ignore = IF r = "fonttbl" THEN p.depth + 1 ELSE p.ignore
  <2>. DEFINE b == [p EXCEPT !.depth = p.depth + 1]
  <2>1. "depth" \in DOMAIN p /\ "out" \in DOMAIN p /\ "held" \in DOMAIN p /\ "ignore" \in DOMAIN p
    BY DEF IsParser, ParserFields
  <2>2. /\ DOMAIN b = DOMAIN p /\ b.out = p.out /\ b.held = p.held /\ b.depth = p.depth + 1
        /\ b.ignore = p.ignore
    BY <2>1, Zenon
  <2>3. q = [b EXCEPT !.ignore = IF r = "fonttbl" THEN p.depth + 1 ELSE p.ignore]
    BY <2>1, Zenon DEF q
  <2>. HIDE DEF b
  <2>. QED  BY <2>1, <2>2, <2>3, Zenon DEF IsParser
<1>5. /\ open \in Seq(Regions(k)) /\ doc.shown \in Text /\ p.out \in Text /\ p.held \in Text
      /\ p.depth = m
  BY DEF RegionOK
<1>6. /\ d.open \in Seq(Regions(k)) /\ Len(d.open) = m + 1 /\ d.open[m + 1] = r
      /\ \A i \in 1..m : d.open[i] = open[i]
      /\ DOMAIN d.open = 1..(m + 1) /\ DOMAIN open = 1..m /\ m \in Nat
  BY <1>1, <1>2, <1>5, Pushed
<1>. HIDE DEF o, open, m
<1>7. Clean(d) => Clean(doc) /\ o \intersect Leaking = {}
  BY <1>2 DEF Clean
<1>8. \A i \in DOMAIN d.open : d.open[i] \in {"script", "comment"} => i = Len(d.open)
  <2>1. ASSUME NEW i \in 1..m PROVE open[i] \notin {"script", "comment"}
    <3>1. CASE i = m
      <4>1. Top = open[i]
        BY <1>5, <1>6, <3>1 DEF Top, Last, open, m
      <4>. QED  BY <1>1, <4>1
    <3>2. CASE i # m
      BY <1>6, <3>2 DEF RegionOK, open, m
    <3>. QED  BY <3>1, <3>2
  <2>. QED  BY <1>6, <2>1
<1>9. r = "info" \/ r = "comment" \/ r = "tracked" => o \intersect Leaking # {}
  <2>1. r \in Unread \ {"fonttbl", "script"} => o = {r}
    BY DEF o, RegionOdd
  <2>. QED  BY <2>1 DEF Unread, Leaking
<1>10. r = "fonttbl" /\ (\E i \in DOMAIN open : open[i] = "fonttbl") => o \intersect Leaking # {}
  <2>1. r = "fonttbl" /\ (\E i \in DOMAIN open : open[i] = "fonttbl") => o = {"nested hidden"}
    BY DEF o, RegionOdd, Range, open, Unread
  <2>. QED  BY <2>1 DEF Leaking
<1>11. ASSUME k = "rtf"
       PROVE  /\ q.ignore \in 0..Len(d.open)
              /\ q.ignore # 0 => d.open[q.ignore] = "fonttbl"
              /\ Clean(d) => \A i \in DOMAIN d.open : d.open[i] \in Unread => i = q.ignore
  <2>1. /\ p.ignore \in 0..m
        /\ p.ignore # 0 => open[p.ignore] = "fonttbl"
        /\ Clean(doc) => \A i \in DOMAIN open : open[i] \in Unread => i = p.ignore
    BY <1>11 DEF RegionOK, open, m
  <2>2. CASE r = "fonttbl"
    <3>1. q.ignore = m + 1
      BY <1>4, <1>5, <2>2
    <3>2. ASSUME Clean(d) PROVE \A i \in DOMAIN open : open[i] \notin Unread
      <4>1. \A i \in DOMAIN open : open[i] # "fonttbl"
        BY <1>7, <1>10, <2>2, <3>2
      <4>2. p.ignore = 0
        BY <1>6, <2>1, <4>1
      <4>. QED  BY <1>6, <1>7, <2>1, <3>2, <4>2
    <3>. QED  BY <1>6, <2>2, <3>1, <3>2
  <2>3. CASE r # "fonttbl"
    <3>1. q.ignore = p.ignore
      BY <1>4, <2>3
    <3>2. r \in {"group", "info"}
      BY <1>1, <1>11, <2>3 DEF Regions
    <3>3. Clean(d) => r \notin Unread
      BY <1>7, <1>9, <3>2 DEF Unread
    <3>. QED  BY <1>6, <1>7, <2>1, <3>1, <3>3
  <2>. QED  BY <2>2, <2>3
<1>12. k = "html" /\ Clean(d) => \A i \in DOMAIN d.open : d.open[i] # "comment"
  <2>1. k = "html" /\ Clean(doc) => \A i \in DOMAIN open : open[i] # "comment"
    BY DEF RegionOK, open
  <2>. QED  BY <1>6, <1>7, <1>9, <2>1
<1>13. k = "odf" /\ Clean(d) => d.open \in Seq({"element"})
  <2>1. ASSUME k = "odf", Clean(d) PROVE d.open \in Seq({"element"})
    <3>1. open \in Seq({"element"})
      BY <1>7, <2>1 DEF RegionOK, open
    <3>2. r = "element"
      BY <1>1, <1>7, <1>9, <2>1 DEF Regions
    <3>. QED  BY <1>2, <3>1, <3>2
  <2>. QED  BY <2>1
<1>14. Sub(doc.shown, p.out) /\ (Clean(doc) => Sub(p.out, doc.shown))
  BY DEF RegionOK
<1>15. RegionOK(k, d, q)
  BY <1>2, <1>4, <1>5, <1>6, <1>7, <1>8, <1>11, <1>12, <1>13, <1>14 DEF RegionOK
<1>16. RegionOK(k, doc', q)
  BY <1>3, <1>15, SameRegions
<1>. QED  BY <1>3, <1>4, <1>16

(* A region closes: what RTF ignores ends where it began, and a script is      *)
(* thrown away.                                                                *)
LEMMA RegionCloses ==
  ASSUME IsDoc(doc), IsParser(p), NEW k, kind = k, k \in {"rtf", "html", "odf"},
         RegionOK(k, doc, p), CloseRegion
  PROVE  RegionOK(k, doc', p') /\ IsParser(p') /\ IsDoc(doc') /\ phase' = "parse"
<1>. DEFINE d == Closed
            ignore == IF p.ignore = p.depth THEN 0 ELSE p.ignore
            held == IF Top = "script" THEN <<>> ELSE p.held
            q == [p EXCEPT !.depth = @ - 1, !.ignore = IF p.ignore = p.depth THEN 0 ELSE @,
                           !.held = IF Top = "script" THEN <<>> ELSE @]
            open == doc.open
            m == Len(open)
<1>1. open # <<>> /\ Reads({"rtf", "html", "odf"}, d, q)
  BY Zenon DEF CloseRegion
<1>2. IsDoc(d) /\ d.open = Front(open) /\ d.shown = doc.shown /\ d.odd = doc.odd
  BY DocClosed DEF Fields
<1>. HIDE DEF d, q
<1>3. /\ p' = q /\ phase' = "parse" /\ IsDoc(doc') /\ doc'.open = d.open /\ doc'.shown = d.shown
      /\ doc'.odd = d.odd
  BY <1>1, <1>2, ElementIs, Zenon
<1>4. /\ IsParser(q) /\ q.out = p.out /\ q.held = held /\ q.depth = p.depth - 1
      /\ q.ignore = ignore
  <2>. DEFINE b == [p EXCEPT !.depth = p.depth - 1]
              c == [b EXCEPT !.ignore = ignore]
  <2>1. "depth" \in DOMAIN p /\ "out" \in DOMAIN p /\ "held" \in DOMAIN p /\ "ignore" \in DOMAIN p
    BY DEF IsParser, ParserFields
  <2>. HIDE DEF ignore, held
  <2>2. /\ DOMAIN b = DOMAIN p /\ b.out = p.out /\ b.held = p.held /\ b.depth = p.depth - 1
        /\ b.ignore = p.ignore
    BY <2>1, Zenon
  <2>4. q = [c EXCEPT !.held = held]
    BY <2>1, Zenon DEF q, ignore, held
  <2>. HIDE DEF b
  <2>3. /\ DOMAIN c = DOMAIN p /\ c.out = p.out /\ c.held = p.held /\ c.depth = p.depth - 1
        /\ c.ignore = ignore
    BY <2>1, <2>2, Zenon
  <2>. HIDE DEF c
  <2>. QED  BY <2>1, <2>3, <2>4, Zenon DEF IsParser
<1>5. /\ open \in Seq(Regions(k)) /\ doc.shown \in Text /\ p.out \in Text /\ p.held \in Text
      /\ p.depth = m
  BY DEF RegionOK
<1>6. /\ d.open \in Seq(Regions(k)) /\ Len(d.open) = m - 1
      /\ \A i \in 1..(m - 1) : d.open[i] = open[i]
      /\ DOMAIN d.open = 1..(m - 1) /\ DOMAIN open = 1..m /\ m \in Nat \ {0}
  BY <1>1, <1>2, <1>5, Popped
<1>. HIDE DEF open, m
<1>7. Clean(d) => Clean(doc)
  BY <1>2 DEF Clean
<1>8. \A i \in DOMAIN d.open : d.open[i] \notin {"script", "comment"}
  <2>1. \A i \in 1..m : open[i] \in {"script", "comment"} => i = m
    BY <1>6 DEF RegionOK, open, m
  <2>. QED  BY <1>6, <2>1
<1>9. q.held \in Text
  BY <1>4, <1>5, TextLaws
<1>10. q.depth = Len(d.open)
  BY <1>4, <1>5, <1>6
<1>11. ASSUME k = "rtf"
       PROVE  /\ q.ignore \in 0..Len(d.open)
              /\ q.ignore # 0 => d.open[q.ignore] = "fonttbl"
              /\ Clean(d) => \A i \in DOMAIN d.open : d.open[i] \in Unread => i = q.ignore
  <2>1. /\ p.ignore \in 0..m
        /\ p.ignore # 0 => open[p.ignore] = "fonttbl"
        /\ Clean(doc) => \A i \in DOMAIN open : open[i] \in Unread => i = p.ignore
    BY <1>11 DEF RegionOK, open, m
  <2>2. CASE p.ignore = m
    <3>1. q.ignore = 0
      BY <1>4, <1>5, <2>2
    <3>2. \A i \in DOMAIN d.open : i # m /\ i \in DOMAIN open /\ d.open[i] = open[i]
      BY <1>6
    <3>. QED  BY <1>6, <1>7, <2>1, <2>2, <3>1, <3>2
  <2>3. CASE p.ignore # m
    <3>1. q.ignore = p.ignore
      BY <1>4, <1>5, <2>3
    <3>2. \A i \in DOMAIN d.open : i \in DOMAIN open /\ d.open[i] = open[i]
      BY <1>6
    <3>3. p.ignore \in 0..(m - 1) /\ (p.ignore # 0 => p.ignore \in 1..(m - 1))
      BY <1>6, <2>1, <2>3
    <3>. QED  BY <1>6, <1>7, <2>1, <3>1, <3>2, <3>3
  <2>. QED  BY <2>2, <2>3
<1>12. k = "html" /\ Clean(d) => \A i \in DOMAIN d.open : d.open[i] # "comment"
  BY <1>8
<1>13. k = "odf" /\ Clean(d) => d.open \in Seq({"element"})
  <2>1. ASSUME k = "odf", Clean(d) PROVE d.open \in Seq({"element"})
    <3>1. open \in Seq({"element"})
      BY <1>7, <2>1 DEF RegionOK, open
    <3>. QED  BY <1>1, <1>2, <3>1, Popped
  <2>. QED  BY <2>1
<1>14. Sub(doc.shown, p.out) /\ (Clean(doc) => Sub(p.out, doc.shown))
  BY DEF RegionOK
<1>15. RegionOK(k, d, q)
  BY <1>2, <1>4, <1>5, <1>6, <1>7, <1>8, <1>9, <1>10, <1>11, <1>12, <1>13, <1>14 DEF RegionOK
<1>16. RegionOK(k, doc', q)
  BY <1>3, <1>15, SameRegions
<1>. QED  BY <1>3, <1>4, <1>16

(* What is read is what is to be read, unless the file has one of the          *)
(* constructs that leak.                                                       *)
LEMMA RegionReads ==
  ASSUME IsDoc(doc), IsParser(p), NEW k, kind = k, k \in {"rtf", "html", "odf"},
         RegionOK(k, doc, p), RegionText, doc.n \in Nat
  PROVE  RegionOK(k, doc', p') /\ IsParser(p') /\ IsDoc(doc') /\ phase' = "parse"
<1>. DEFINE t == <<Piece>>
            d == IF Hidden THEN doc ELSE Says(doc, t)
            said == IF Hidden THEN <<>> ELSE t
            drops == k = "rtf" /\ p.ignore # 0
            holds == k = "html" /\ Top = "script"
            writes == ~drops /\ ~holds
            written == IF writes THEN t ELSE <<>>
            q == CASE k = "html" /\ Top = "script" -> [p EXCEPT !.held = Append(@, Piece)]
                   [] k = "rtf" /\ p.ignore # 0 -> p
                   [] OTHER -> Writes(t)
            open == doc.open
<1>1. Reads({"rtf", "html", "odf"}, d, q)
  BY Zenon DEF RegionText
<1>2. t \in Text /\ Piece \in Nat
  <2>1. Piece \in Nat
    BY DEF Piece
  <2>. QED  BY <2>1, TextLaws
<1>3. /\ open \in Seq(Regions(k)) /\ doc.shown \in Text /\ p.out \in Text /\ p.held \in Text
      /\ Sub(doc.shown, p.out) /\ (Clean(doc) => Sub(p.out, doc.shown))
  BY DEF RegionOK
<1>4. IsDoc(d) /\ d.open = open /\ d.shown = doc.shown \o said /\ d.odd = doc.odd
  <2>1. CASE Hidden
    BY <1>3, <2>1, TextLaws
  <2>2. CASE ~Hidden
    BY <2>2, DocSays DEF Fields
  <2>. QED  BY <2>1, <2>2
<1>. HIDE DEF d
<1>5. /\ IsParser(q) /\ q.out = p.out \o written /\ q.held \in Text
      /\ q.depth = p.depth /\ q.ignore = p.ignore
  <2>1. /\ "depth" \in DOMAIN p /\ "out" \in DOMAIN p /\ "held" \in DOMAIN p
        /\ "ignore" \in DOMAIN p
    BY DEF IsParser, ParserFields
  <2>2. CASE holds
    <3>. DEFINE b == [p EXCEPT !.held = Append(p.held, Piece)]
    <3>1. q = b
      BY <2>1, <2>2, Zenon
    <3>2. /\ DOMAIN b = DOMAIN p /\ b.out = p.out /\ b.held = Append(p.held, Piece)
          /\ b.depth = p.depth /\ b.ignore = p.ignore
      BY <2>1, Zenon
    <3>3. Append(p.held, Piece) \in Text
      BY <1>2, <1>3 DEF Text
    <3>4. written = <<>> /\ p.out \o <<>> = p.out
      BY <1>3, <2>2, TextLaws
    <3>. HIDE DEF b, written, q
    <3>. QED  BY <3>1, <3>2, <3>3, <3>4 DEF IsParser
  <2>3. CASE drops
    <3>1. q = p /\ written = <<>> /\ p.out \o <<>> = p.out
      BY <1>3, <2>3, TextLaws
    <3>. HIDE DEF written, q
    <3>. QED  BY <1>3, <3>1
  <2>4. CASE writes
    <3>. DEFINE b == [p EXCEPT !.out = p.out \o t]
    <3>1. q = b
      BY <2>1, <2>4, Zenon DEF Writes
    <3>2. /\ DOMAIN b = DOMAIN p /\ b.out = p.out \o t /\ b.held = p.held
          /\ b.depth = p.depth /\ b.ignore = p.ignore
      BY <2>1, Zenon
    <3>3. written = t
      BY <2>4
    <3>. HIDE DEF b, written, q
    <3>. QED  BY <1>3, <3>1, <3>2, <3>3 DEF IsParser
  <2>. QED  BY <2>2, <2>3, <2>4
<1>. HIDE DEF q
<1>6. /\ p' = q /\ phase' = "parse" /\ IsDoc(doc') /\ doc'.open = d.open /\ doc'.shown = d.shown
      /\ doc'.odd = d.odd
  BY <1>1, <1>4, ElementIs, Zenon
<1>7. Hidden => ~writes \/ ~Clean(doc)
  <2>1. ASSUME Hidden, writes, Clean(doc) PROVE FALSE
    <3>1. PICK i \in DOMAIN open : open[i] \in Unread
      BY <2>1, Zenon DEF Hidden
    <3>2. CASE k = "rtf"
      <4>1. p.ignore = 0
        BY <2>1, <3>2
      <4>2. i = p.ignore
        BY <2>1, <3>1, <3>2 DEF RegionOK
      <4>3. i \in 1..Len(open)
        BY <1>3, <3>1
      <4>. QED  BY <4>1, <4>2, <4>3
    <3>3. CASE k = "html"
      <4>1. open[i] \in Regions("html") /\ open[i] # "comment"
        BY <1>3, <2>1, <3>1, <3>3 DEF RegionOK
      <4>2. open[i] = "script"
        BY <3>1, <4>1 DEF Regions, Unread
      <4>3. i = Len(open)
        BY <3>1, <4>2 DEF RegionOK
      <4>4. open # <<>>
        BY <1>3, <3>1
      <4>5. Top = "script"
        BY <1>3, <4>2, <4>3, <4>4 DEF Top, Last
      <4>. QED  BY <2>1, <3>3, <4>5
    <3>4. CASE k = "odf"
      <4>1. open \in Seq({"element"})
        BY <2>1, <3>4 DEF RegionOK
      <4>2. open[i] = "element"
        BY <3>1, <4>1
      <4>. QED  BY <3>1, <4>2 DEF Unread
    <3>. QED  BY <3>2, <3>3, <3>4
  <2>. QED  BY <2>1
<1>8. ~Hidden => writes
  <2>1. ASSUME drops PROVE Hidden
    <3>1. p.ignore \in 1..Len(open) /\ open[p.ignore] = "fonttbl"
      BY <1>3, <2>1 DEF RegionOK
    <3>2. p.ignore \in DOMAIN doc.open
      BY <1>3, <3>1
    <3>. QED  BY <3>1, <3>2 DEF Hidden, Unread
  <2>2. ASSUME holds PROVE Hidden
    <3>1. open # <<>> /\ Top = Last(open)
      BY <2>2 DEF Top
    <3>2. open[Len(open)] = "script" /\ Len(open) \in DOMAIN doc.open
      BY <1>3, <2>2, <3>1 DEF Last
    <3>. QED  BY <3>2 DEF Hidden, Unread
  <2>. QED  BY <2>1, <2>2
<1>. HIDE DEF t, said, written, writes, drops, holds, open
<1>9. /\ said \in Text /\ written \in Text /\ Sub(said, written)
      /\ Clean(doc) => Sub(written, said)
  <2>1. Sub(t, t) /\ Sub(<<>>, t) /\ Sub(<<>>, <<>>) /\ <<>> \in Text
    BY <1>2, TextLaws, SubOfItself, EmptySub
  <2>2. /\ said = IF Hidden THEN <<>> ELSE t
        /\ written = IF writes THEN t ELSE <<>>
    BY DEF said, written
  <2>. QED  BY <1>2, <1>7, <1>8, <2>1, <2>2, Zenon
<1>10. /\ Sub(d.shown, q.out) /\ (Clean(d) => Sub(q.out, d.shown))
       /\ d.shown \in Text /\ q.out \in Text
  <2>1. Sub(doc.shown \o said, p.out \o written)
    BY <1>3, <1>9, SubJoined
  <2>2. Clean(doc) => Sub(p.out \o written, doc.shown \o said)
    BY <1>3, <1>9, SubJoined
  <2>3. Clean(d) => Clean(doc)
    BY <1>4 DEF Clean
  <2>4. doc.shown \o said \in Text /\ p.out \o written \in Text
    BY <2>1, SubTypes
  <2>. QED  BY <1>4, <1>5, <2>1, <2>2, <2>3, <2>4
<1>11. RegionOK(k, d, q)
  BY <1>4, <1>5, <1>10 DEF RegionOK, Clean, open
<1>12. RegionOK(k, doc', q)
  BY <1>6, <1>11, SameRegions
<1>. QED  BY <1>5, <1>6, <1>12

(***************************************************************************)
(* The end of a file.                                                      *)
(***************************************************************************)

(* What a reader does at the end of a file.                                    *)
LEMMA EndIs ==
  ASSUME IsDoc(doc), IsParser(p), EndOfFile
  PROVE  /\ phase' = "done" /\ UNCHANGED <<file, kind, archive>>
         /\ IsDoc(doc') /\ doc'.shown = doc.shown /\ doc'.ways = doc.ways
         /\ doc'.odd = doc.odd \union (IF p.held # <<>> THEN {"cut script"} ELSE {})
         /\ Complete \/ kind \in {"rtf", "html"}
         /\ IsParser(p')
         /\ p'.out = CASE kind = "xlsx" -> p.out \o p.table
                       [] kind = "html" -> p.out \o p.held
                       [] OTHER -> p.out
<1>. DEFINE o == IF p.held # <<>> THEN {"cut script"} ELSE {}
<1>1. /\ phase' = "done" /\ UNCHANGED <<file, kind, archive>>
      /\ Complete \/ kind \in {"rtf", "html"}
      /\ doc' = Odd(doc, IF p.held # <<>> THEN {"cut script"} ELSE {})
      /\ p' = CASE kind = "xlsx" -> Writes(p.table)
                [] kind = "html" -> Writes(p.held)
                [] OTHER -> p
  BY Zenon DEF EndOfFile
<1>2. /\ IsDoc(doc') /\ doc'.shown = doc.shown /\ doc'.ways = doc.ways
      /\ doc'.odd = doc.odd \union o
  <2>1. doc' = Odd(doc, o)
    BY <1>1
  <2>. HIDE DEF o
  <2>. QED  BY <2>1, DocOdd, Zenon DEF Fields
<1>3. \A t : IsParser(Writes(t)) /\ Writes(t).out = p.out \o t
  <2>1. "out" \in DOMAIN p
    BY DEF IsParser, ParserFields
  <2>. QED  BY <2>1, Zenon DEF Writes, IsParser
<1>4. /\ IsParser(p')
      /\ p'.out = CASE kind = "xlsx" -> p.out \o p.table
                    [] kind = "html" -> p.out \o p.held
                    [] OTHER -> p.out
  BY <1>1, <1>3, Zenon
<1>. QED  BY <1>1, <1>2, <1>4, Zenon

(* A text that renders what the file says is exact.                            *)
LEMMA RenderedIsExact ==
  (/\ kind = file.fmt /\ Renders(doc, Texts, p.out)
   /\ p.out = <<>> => kind = "docx" \/ <<>> \in Texts) => TextIsExact
BY SubIsWithin DEF Renders, Keeps, Clean, TextIsExact

(* For all but a mail, the text is compared with the one text the file says.   *)
LEMMA ShownIsExact ==
  (/\ kind = file.fmt /\ kind # "eml"
   /\ Keeps(doc) => Sub(doc.shown, p.out)
   /\ Clean(doc) => Sub(p.out, doc.shown)
   /\ p.out = <<>> => kind = "docx" \/ doc.shown = <<>>) => TextIsExact
<1>1. kind # "eml" => Texts = {doc.shown}
  BY DEF Texts
<1>. QED  BY <1>1, RenderedIsExact DEF Renders

(* At the end of a file of regions, whichever are still open.                  *)
LEMMA RegionEnds ==
  ASSUME IsDoc(doc), IsParser(p), kind = file.fmt, kind \in {"rtf", "html", "odf"},
         RegionOK(kind, doc, p), EndOfFile
  PROVE  TextIsExact'
<1>. DEFINE rest == IF kind = "html" THEN p.held ELSE <<>>
<1>1. /\ UNCHANGED <<file, kind>> /\ doc'.shown = doc.shown
      /\ doc'.odd = doc.odd \union (IF p.held # <<>> THEN {"cut script"} ELSE {})
  BY EndIs, Zenon
<1>2. /\ p.out \in Text /\ p.held \in Text /\ Sub(doc.shown, p.out)
      /\ Clean(doc) => Sub(p.out, doc.shown)
  BY DEF RegionOK
<1>3. rest \in Text /\ p'.out = p.out \o rest
  <2>1. kind = "html" => p'.out = p.out \o p.held
    BY EndIs
  <2>2. kind # "html" => p'.out = p.out /\ p.out \o <<>> = p.out
    BY <1>2, EndIs, TextLaws
  <2>. QED  BY <1>2, <2>1, <2>2, TextLaws
<1>4. Clean(doc') => Clean(doc) /\ rest = <<>>
  <2>1. Clean(doc') => Clean(doc)
    BY <1>1 DEF Clean
  <2>2. Clean(doc') => p.held = <<>>
    BY <1>1 DEF Clean, Leaking
  <2>. QED  BY <2>1, <2>2
<1>. HIDE DEF rest
<1>5. Sub(doc'.shown, p'.out)
  <2>1. Sub(doc.shown, p.out \o rest)
    BY <1>2, <1>3, SubGrows
  <2>. QED  BY <1>1, <1>3, <2>1
<1>6. Clean(doc') => Sub(p'.out, doc'.shown)
  BY <1>1, <1>2, <1>3, <1>4, TextLaws
<1>7. p'.out = <<>> => doc'.shown = <<>>
  BY <1>5, SubOfEmpty
<1>8. kind' = file'.fmt /\ kind' # "eml"
  BY <1>1
<1>9. (/\ kind = file.fmt /\ kind # "eml"
       /\ Keeps(doc) => Sub(doc.shown, p.out)
       /\ Clean(doc) => Sub(p.out, doc.shown)
       /\ p.out = <<>> => kind = "docx" \/ doc.shown = <<>>)' => TextIsExact'
  BY ShownIsExact, PTL
<1>. QED  BY <1>5, <1>6, <1>7, <1>8, <1>9

(***************************************************************************)
(* Workbooks.                                                              *)
(***************************************************************************)

(* A workbook: the invariant does not look at the number of elements.          *)
LEMMA SameSheet ==
  ASSUME NEW d, NEW e, NEW q, SheetOK(d, q),
         e.open = d.open, e.shown = d.shown, e.odd = d.odd
  PROVE  SheetOK(e, q)
BY DEF SheetOK, Clean, Keeps

(* A shared string of one run or two.                                          *)
LEMMA TextOfRuns ==
  ASSUME NEW n \in Nat
  PROVE  /\ SubSeq(<<n, n>>, 1, 1) = <<n>> /\ SubSeq(<<n, n>>, 1, 2) = <<n, n>>
         /\ <<n>> \o <<n>> = <<n, n>>
<1>. DEFINE s == <<n, n>>
            t == SubSeq(s, 1, 1)
<1>1. s \in Seq(Nat) /\ Len(s) = 2 /\ s[1] = n /\ s[2] = n /\ <<n>> \in Seq(Nat) /\ Len(<<n>>) = 1
  OBVIOUS
<1>. HIDE DEF s
<1>2. SubSeq(s, 1, 2) = s
  BY <1>1, SubSeqFull
<1>3. t = <<n>>
  <2>1. \A i \in 1..1 : s[i] \in Nat
    BY <1>1
  <2>2. t \in Seq(Nat) /\ Len(t) = 1 /\ t[1] = s[1]
    BY <2>1, SubSeqProperties
  <2>. HIDE DEF t
  <2>3. \A i \in 1..Len(t) : t[i] = <<n>>[i]
    BY <1>1, <2>2
  <2>. QED  BY <1>1, <2>2, <2>3, SeqEqual
<1>4. <<n>> \o <<n>> = s
  <2>. DEFINE one == <<n>>
              two == one \o one
  <2>1. one \in Seq(Nat) /\ Len(one) = 1 /\ one[1] = n
    OBVIOUS
  <2>. HIDE DEF one
  <2>2. two \in Seq(Nat) /\ Len(two) = 2 /\ two[1] = n /\ two[2] = n
    <3>1. /\ two \in Seq(Nat) /\ Len(two) = Len(one) + Len(one)
          /\ \A i \in 1..(Len(one) + Len(one)) :
                two[i] = IF i <= Len(one) THEN one[i] ELSE one[i - Len(one)]
      BY <2>1, ConcatProperties
    <3>. HIDE DEF two
    <3>2. 1 \in 1..(Len(one) + Len(one)) /\ 2 \in 1..(Len(one) + Len(one)) /\ 2 - Len(one) = 1
      BY <2>1
    <3>. QED  BY <2>1, <3>1, <3>2
  <2>. HIDE DEF two
  <2>3. \A i \in 1..Len(two) : two[i] = s[i]
    BY <1>1, <2>2
  <2>4. two = s
    BY <1>1, <2>2, <2>3, SeqEqual
  <2>. QED  BY <2>4 DEF two, one
<1>. QED  BY <1>2, <1>3, <1>4 DEF s

(* A shared string is kept, with its reading if it has one.                    *)
LEMMA StringShared ==
  ASSUME IsDoc(doc), IsParser(p), SheetOK(doc, p), doc.n \in Nat,
         NEW runs \in 1..2, NEW reading \in BOOLEAN, SharedString(runs, reading)
  PROVE  SheetOK(doc', p') /\ IsParser(p') /\ IsDoc(doc') /\ phase' = "parse"
<1>. DEFINE said == SubSeq(<<Piece, Piece>>, 1, runs)
            kept == IF reading THEN said \o <<Piece>> ELSE said
            o == IF reading THEN {"phonetic"} ELSE {}
            s == [said |-> said, kept |-> kept]
            d == Odd(doc, o)
            q == [p EXCEPT !.shared = Append(@, s)]
            m == Len(p.shared)
<1>1. Reads({"xlsx"}, d, q)
  BY Zenon DEF SharedString
<1>2. IsDoc(d) /\ d.open = doc.open /\ d.shown = doc.shown /\ d.odd = doc.odd \union o
  BY DocOdd DEF Fields
<1>3. /\ IsParser(q) /\ q.shared = Append(p.shared, s) /\ q.out = p.out /\ q.table = p.table
      /\ q.row = p.row /\ q.held = p.held /\ q.inRow = p.inRow
  <2>1. /\ "shared" \in DOMAIN p /\ "out" \in DOMAIN p /\ "table" \in DOMAIN p
        /\ "row" \in DOMAIN p /\ "held" \in DOMAIN p /\ "inRow" \in DOMAIN p
    BY DEF IsParser, ParserFields
  <2>. HIDE DEF s
  <2>. QED  BY <2>1, Zenon DEF IsParser
<1>. HIDE DEF d, q
<1>4. Piece \in Nat
  BY DEF Piece
<1>5. said \in Text /\ said # <<>>
  <2>1. runs = 1 \/ runs = 2
    OBVIOUS
  <2>2. runs = 1 => said = <<Piece>>
    BY <1>4, TextOfRuns
  <2>3. runs = 2 => said = <<Piece, Piece>>
    BY <1>4, TextOfRuns
  <2>. HIDE DEF said
  <2>. QED  BY <1>4, <2>1, <2>2, <2>3, TextLaws
<1>. HIDE DEF said
<1>6. /\ kept \in Text /\ kept # <<>> /\ Sub(said, kept) /\ (~reading => kept = said)
      /\ Sub(said, said)
  <2>1. <<Piece>> \in Text /\ Sub(said, said)
    BY <1>4, <1>5, TextLaws, SubOfItself
  <2>2. Sub(said, said \o <<Piece>>) /\ said \o <<Piece>> \in Text /\ said \o <<Piece>> # <<>>
    BY <1>5, <2>1, TextLaws, SubGrows
  <2>. QED  BY <1>5, <2>1, <2>2
<1>7. s \in [said : Text, kept : Text] /\ s.said = said /\ s.kept = kept
  BY <1>5, <1>6
<1>. HIDE DEF kept, s
<1>8. /\ q.shared \in Seq([said : Text, kept : Text]) /\ DOMAIN q.shared = 1..(m + 1)
      /\ DOMAIN p.shared = 1..m /\ m \in Nat
      /\ q.shared[m + 1] = s /\ \A i \in 1..m : q.shared[i] = p.shared[i]
  <2>1. p.shared \in Seq([said : Text, kept : Text])
    BY DEF SheetOK
  <2>. QED  BY <1>3, <1>7, <2>1, Pushed
<1>. HIDE DEF m
<1>9. /\ Clean(d) => Clean(doc) /\ ~reading
      /\ Keeps(d) => Keeps(doc)
  BY <1>2 DEF Clean, Keeps, Leaking
<1>10. ASSUME NEW i \in DOMAIN q.shared
       PROVE  /\ Sub(q.shared[i].said, q.shared[i].kept) /\ q.shared[i].kept # <<>>
              /\ Clean(d) => Sub(q.shared[i].kept, q.shared[i].said)
  <2>1. CASE i = m + 1
    BY <1>6, <1>7, <1>8, <1>9, <2>1
  <2>2. CASE i # m + 1
    <3>1. i \in DOMAIN p.shared /\ q.shared[i] = p.shared[i]
      BY <1>8, <2>2
    <3>. QED  BY <1>9, <3>1 DEF SheetOK
  <2>. QED  BY <2>1, <2>2
<1>11. SheetOK(d, q)
  BY <1>2, <1>3, <1>8, <1>9, <1>10 DEF SheetOK
<1>12. /\ p' = q /\ phase' = "parse" /\ IsDoc(doc') /\ doc'.open = d.open /\ doc'.shown = d.shown
       /\ doc'.odd = d.odd
  BY <1>1, <1>2, ElementIs, Zenon
<1>13. SheetOK(doc', q)
  BY <1>11, <1>12, SameSheet
<1>. QED  BY <1>3, <1>8, <1>12, <1>13

(* A row begins, cells are read, and the row joins the table.                  *)
LEMMA RowOpens ==
  ASSUME IsDoc(doc), IsParser(p), SheetOK(doc, p), Row
  PROVE  SheetOK(doc', p') /\ IsParser(p') /\ IsDoc(doc') /\ phase' = "parse"
<1>. DEFINE d == Opened("row")
            q == [p EXCEPT !.inRow = TRUE, !.row = <<>>]
<1>1. Top = "none" /\ Reads({"xlsx"}, d, q)
  BY Zenon DEF Row
<1>2. doc.open = <<>> /\ p.row = <<>>
  <2>1. doc.open = <<"row">> => Top = "row"
    BY DEF Top, Last
  <2>. QED  BY <1>1, <2>1 DEF SheetOK
<1>3. IsDoc(d) /\ d.open = <<"row">> /\ d.shown = doc.shown /\ d.odd = doc.odd
  <2>1. Append(<<>>, "row") = <<"row">>
    OBVIOUS
  <2>. QED  BY <1>2, <2>1, DocOpened DEF Fields
<1>4. /\ IsParser(q) /\ q.shared = p.shared /\ q.out = p.out /\ q.table = p.table
      /\ q.row = <<>> /\ q.held = p.held /\ q.inRow = TRUE
  <2>. DEFINE b == [p EXCEPT !.inRow = TRUE]
  <2>1. /\ "shared" \in DOMAIN p /\ "out" \in DOMAIN p /\ "table" \in DOMAIN p
        /\ "row" \in DOMAIN p /\ "held" \in DOMAIN p /\ "inRow" \in DOMAIN p
    BY DEF IsParser, ParserFields
  <2>2. /\ DOMAIN b = DOMAIN p /\ b.shared = p.shared /\ b.out = p.out /\ b.table = p.table
        /\ b.held = p.held /\ b.inRow = TRUE
    BY <2>1, Zenon
  <2>3. q = [b EXCEPT !.row = <<>>]
    BY Zenon
  <2>. HIDE DEF b, q
  <2>. QED  BY <2>1, <2>2, <2>3, Zenon DEF IsParser
<1>. HIDE DEF d, q
<1>5. SheetOK(d, q)
  BY <1>2, <1>3, <1>4, TextLaws DEF SheetOK, Clean, Keeps
<1>6. /\ p' = q /\ phase' = "parse" /\ IsDoc(doc') /\ doc'.open = d.open /\ doc'.shown = d.shown
      /\ doc'.odd = d.odd
  BY <1>1, <1>3, ElementIs, Zenon
<1>7. SheetOK(doc', q)
  BY <1>5, <1>6, SameSheet
<1>. QED  BY <1>4, <1>6, <1>7

(* A cell says a text of which kept is what the reader makes of it.            *)
LEMMA CellRead ==
  ASSUME IsDoc(doc), IsParser(p), SheetOK(doc, p), NEW said, NEW kept, NEW o,
         Cell(said, kept, o),
         said \in Text, kept \in Text, kept # <<>>,
         o \intersect Losing = {} /\ Keeps(doc) => Sub(said, kept),
         Clean(doc) => Sub(kept, said)
  PROVE  SheetOK(doc', p') /\ IsParser(p') /\ IsDoc(doc') /\ phase' = "parse"
<1>. DEFINE c == Says(doc, said)
            d == Odd(c, o)
            q == [p EXCEPT !.row = IF p.inRow THEN @ \o kept ELSE @]
<1>1. Top = "row" /\ Reads({"xlsx"}, d, q)
  BY Zenon DEF Cell
<1>2. doc.open = <<"row">> /\ p.inRow = TRUE
  <2>1. doc.open = <<>> => Top = "none"
    BY DEF Top
  <2>. QED  BY <1>1, <2>1 DEF SheetOK
<1>3. IsDoc(d) /\ d.open = doc.open /\ d.shown = doc.shown \o said /\ d.odd = doc.odd \union o
  <2>1. IsDoc(c) /\ c.open = doc.open /\ c.shown = doc.shown \o said /\ c.odd = doc.odd
    BY DocSays DEF Fields
  <2>. HIDE DEF c
  <2>. QED  BY <2>1, DocOdd DEF Fields
<1>4. /\ IsParser(q) /\ q.shared = p.shared /\ q.out = p.out /\ q.table = p.table
      /\ q.row = p.row \o kept /\ q.held = p.held /\ q.inRow = p.inRow
  <2>1. /\ "shared" \in DOMAIN p /\ "out" \in DOMAIN p /\ "table" \in DOMAIN p
        /\ "row" \in DOMAIN p /\ "held" \in DOMAIN p /\ "inRow" \in DOMAIN p
    BY DEF IsParser, ParserFields
  <2>. QED  BY <1>2, <2>1, Zenon DEF IsParser
<1>. HIDE DEF d, q, c
<1>5. /\ Clean(d) => Clean(doc)
      /\ Keeps(d) => Keeps(doc) /\ o \intersect Losing = {}
  BY <1>3 DEF Clean, Keeps
<1>6. /\ doc.shown \in Text /\ p.table \in Text /\ p.row \in Text
      /\ Keeps(doc) => Sub(doc.shown, p.table \o p.row)
      /\ Clean(doc) => Sub(p.table \o p.row, doc.shown)
  BY DEF SheetOK
<1>7. /\ p.row \o kept \in Text /\ p.row \o kept # <<>> /\ doc.shown \o said \in Text
      /\ (p.table \o p.row) \o kept = p.table \o (p.row \o kept)
  <2>1. p.row \o kept \in Text /\ doc.shown \o said \in Text
    BY <1>6, TextLaws
  <2>2. p.row \o kept # <<>>
    BY <1>6, TextLaws, Zenon
  <2>3. (p.table \o p.row) \o kept = p.table \o (p.row \o kept)
    <3>1. p.table \in Text /\ p.row \in Text /\ kept \in Text
      BY <1>6
    <3>. QED  BY <3>1, Regroup, Zenon
  <2>. QED  BY <2>1, <2>2, <2>3
<1>8. Keeps(d) => Sub(d.shown, q.table \o q.row)
  <2>1. ASSUME Keeps(d) PROVE Sub(doc.shown \o said, (p.table \o p.row) \o kept)
    BY <1>5, <1>6, <2>1, SubJoined
  <2>. QED  BY <1>3, <1>4, <1>7, <2>1
<1>9. Clean(d) => Sub(q.table \o q.row, d.shown)
  <2>1. ASSUME Clean(d) PROVE Sub((p.table \o p.row) \o kept, doc.shown \o said)
    BY <1>5, <1>6, <2>1, SubJoined
  <2>. QED  BY <1>3, <1>4, <1>7, <2>1
<1>10. SheetOK(d, q)
  BY <1>2, <1>3, <1>4, <1>5, <1>7, <1>8, <1>9 DEF SheetOK
<1>11. /\ p' = q /\ phase' = "parse" /\ IsDoc(doc') /\ doc'.open = d.open /\ doc'.shown = d.shown
       /\ doc'.odd = d.odd
  BY <1>1, <1>3, ElementIs, Zenon
<1>12. SheetOK(doc', q)
  BY <1>10, <1>11, SameSheet
<1>. QED  BY <1>4, <1>11, <1>12

(* The two kinds of cells.                                                     *)
LEMMA CellsRead ==
  ASSUME IsDoc(doc), IsParser(p), SheetOK(doc, p), doc.n \in Nat,
         SharedCell \/ \E runs \in 1..2 : ValueCell(runs)
  PROVE  SheetOK(doc', p') /\ IsParser(p') /\ IsDoc(doc') /\ phase' = "parse"
<1>1. CASE SharedCell
  <2>1. PICK i \in DOMAIN p.shared : Cell(p.shared[i].said, p.shared[i].kept, {})
    BY <1>1, Zenon DEF SharedCell, Range
  <2>2. /\ Sub(p.shared[i].said, p.shared[i].kept) /\ p.shared[i].kept # <<>>
        /\ Clean(doc) => Sub(p.shared[i].kept, p.shared[i].said)
    BY DEF SheetOK
  <2>. QED  BY <2>1, <2>2, SubTypes, CellRead
<1>2. ASSUME NEW runs \in 1..2, ValueCell(runs)
      PROVE  SheetOK(doc', p') /\ IsParser(p') /\ IsDoc(doc') /\ phase' = "parse"
  <2>. DEFINE said == SubSeq(<<Piece, Piece>>, 1, runs)
              o == IF runs > 1 THEN {"rich inline"} ELSE {}
              one == <<Piece>>
  <2>1. Cell(said, one, o)
    BY <1>2, Zenon DEF ValueCell
  <2>2. Piece \in Nat
    BY DEF Piece
  <2>3. runs = 1 \/ runs = 2
    OBVIOUS
  <2>4. /\ runs = 1 => said = one
        /\ runs = 2 => said = <<Piece, Piece>>
    BY <2>2, TextOfRuns
  <2>. HIDE DEF said
  <2>5. one \in Text /\ one # <<>> /\ <<Piece, Piece>> \in Text /\ Sub(one, one)
    BY <2>2, TextLaws, SubOfItself
  <2>6. Sub(one, <<Piece, Piece>>)
    <3>1. Sub(one, one \o one)
      BY <2>5, SubGrows
    <3>2. one \o one = <<Piece, Piece>>
      BY <2>2, TextOfRuns
    <3>. QED  BY <3>1, <3>2
  <2>7. runs = 2 => o \intersect Losing # {}
    BY DEF Losing
  <2>. HIDE DEF one, o
  <2>. QED  BY <2>1, <2>3, <2>4, <2>5, <2>6, <2>7, CellRead
<1>. QED  BY <1>1, <1>2

LEMMA RowEnds ==
  ASSUME IsDoc(doc), IsParser(p), SheetOK(doc, p), EndRow
  PROVE  SheetOK(doc', p') /\ IsParser(p') /\ IsDoc(doc') /\ phase' = "parse"
<1>. DEFINE d == Closed
            q == [p EXCEPT !.table = @ \o p.row, !.row = <<>>, !.inRow = FALSE]
<1>1. Top = "row" /\ Reads({"xlsx"}, d, q)
  BY Zenon DEF EndRow
<1>2. doc.open = <<"row">>
  <2>1. doc.open = <<>> => Top = "none"
    BY DEF Top
  <2>. QED  BY <1>1, <2>1 DEF SheetOK
<1>3. IsDoc(d) /\ d.open = <<>> /\ d.shown = doc.shown /\ d.odd = doc.odd
  <2>1. Front(<<"row">>) = <<>>
    BY DEF Front
  <2>. QED  BY <1>2, <2>1, DocClosed DEF Fields
<1>4. /\ IsParser(q) /\ q.shared = p.shared /\ q.out = p.out /\ q.table = p.table \o p.row
      /\ q.row = <<>> /\ q.held = p.held /\ q.inRow = FALSE
  <2>. DEFINE b == [p EXCEPT !.table = p.table \o p.row]
              c == [b EXCEPT !.row = <<>>]
  <2>1. /\ "shared" \in DOMAIN p /\ "out" \in DOMAIN p /\ "table" \in DOMAIN p
        /\ "row" \in DOMAIN p /\ "held" \in DOMAIN p /\ "inRow" \in DOMAIN p
    BY DEF IsParser, ParserFields
  <2>2. /\ DOMAIN b = DOMAIN p /\ b.shared = p.shared /\ b.out = p.out
        /\ b.table = p.table \o p.row /\ b.held = p.held
    BY <2>1, Zenon
  <2>4. q = [c EXCEPT !.inRow = FALSE]
    BY Zenon
  <2>. HIDE DEF b, q
  <2>3. /\ DOMAIN c = DOMAIN p /\ c.shared = p.shared /\ c.out = p.out
        /\ c.table = p.table \o p.row /\ c.held = p.held /\ c.row = <<>>
    BY <2>1, <2>2, Zenon
  <2>. HIDE DEF c
  <2>. QED  BY <2>1, <2>3, <2>4, Zenon DEF IsParser
<1>. HIDE DEF d, q
<1>5. /\ q.table \in Text /\ q.table \o q.row = p.table \o p.row
      /\ p.table # <<>> \/ p.row # <<>> => q.table # <<>>
  <2>1. p.table \in Text /\ p.row \in Text
    BY DEF SheetOK
  <2>. QED  BY <1>4, <2>1, TextLaws
<1>6. SheetOK(d, q)
  BY <1>3, <1>4, <1>5, TextLaws DEF SheetOK, Clean, Keeps
<1>7. /\ p' = q /\ phase' = "parse" /\ IsDoc(doc') /\ doc'.open = d.open /\ doc'.shown = d.shown
      /\ doc'.odd = d.odd
  BY <1>1, <1>3, ElementIs, Zenon
<1>8. SheetOK(doc', q)
  BY <1>6, <1>7, SameSheet
<1>. QED  BY <1>4, <1>7, <1>8

(* At the end of a workbook every row is in its table.                         *)
LEMMA SheetEnds ==
  ASSUME IsDoc(doc), IsParser(p), kind = file.fmt, kind = "xlsx", SheetOK(doc, p), EndOfFile
  PROVE  TextIsExact'
<1>1. /\ UNCHANGED <<file, kind>> /\ doc'.shown = doc.shown
      /\ doc'.odd = doc.odd \union (IF p.held # <<>> THEN {"cut script"} ELSE {})
      /\ Complete
  BY EndIs, Zenon
<1>2. doc.open = <<>>
  BY <1>1 DEF Complete
<1>3. /\ p.out = <<>> /\ p.table \in Text /\ p.row = <<>> /\ doc.shown \in Text
      /\ Keeps(doc) => Sub(doc.shown, p.table \o p.row)
      /\ Clean(doc) => Sub(p.table \o p.row, doc.shown)
      /\ doc.shown # <<>> => p.table # <<>>
  BY <1>2 DEF SheetOK
<1>4. p'.out = p.table
  <2>1. p'.out = p.out \o p.table
    BY EndIs
  <2>. QED  BY <1>3, <2>1, TextLaws
<1>5. p.table \o p.row = p.table
  BY <1>3, TextLaws
<1>6. (Keeps(doc') => Keeps(doc)) /\ (Clean(doc') => Clean(doc))
  BY <1>1 DEF Keeps, Clean
<1>7. (/\ kind = file.fmt /\ kind # "eml"
       /\ Keeps(doc) => Sub(doc.shown, p.out)
       /\ Clean(doc) => Sub(p.out, doc.shown)
       /\ p.out = <<>> => kind = "docx" \/ doc.shown = <<>>)' => TextIsExact'
  BY ShownIsExact, PTL
<1>. QED  BY <1>1, <1>3, <1>4, <1>5, <1>6, <1>7

(***************************************************************************)
(* Word.                                                                   *)
(***************************************************************************)

(* Word: the invariant does not look at the number of elements.                *)
LEMMA SameWord ==
  ASSUME NEW d, NEW e, NEW q, WordOK(d, q),
         e.open = d.open, e.shown = d.shown, e.odd = d.odd
  PROVE  WordOK(e, q)
<1>1. Has(e, q) = Has(d, q)
  BY DEF Has, TableOf, RowOf, CellOf
<1>2. WordShape(e, q) /\ (WordPlain(d, q) => WordPlain(e, q))
  BY DEF WordOK, WordShape, WordPlain
<1>3. (Keeps(e) <=> Keeps(d)) /\ (Clean(e) <=> Clean(d))
  BY DEF Keeps, Clean
<1>. QED  BY <1>1, <1>2, <1>3 DEF WordOK

Tags == {"tbl", "tr", "tc"}

(* What surrounds the innermost open tag, and how deep it is.                  *)
LEMMA NestedTypes ==
  ASSUME NEW open, Nested(open)
  PROVE  /\ open \in Seq(Tags) /\ Len(open) \in Nat /\ DOMAIN open = 1..Len(open)
         /\ open = <<>> <=> Len(open) = 0
         /\ open # <<>> => TopOf(open) = open[Len(open)] /\ TopOf(open) \in Tags
         /\ open = <<>> => TopOf(open) = "none"
         /\ TopOf(open) = "tr" => Len(open) > 1 /\ open[Len(open) - 1] = "tbl"
         /\ TopOf(open) = "tc" => Len(open) > 2 /\ open[Len(open) - 1] = "tr"
         /\ TopOf(open) = "tbl" /\ Len(open) > 1 => open[Len(open) - 1] = "tc" /\ Len(open) > 3
<1>. DEFINE m == Len(open)
<1>1. /\ open \in Seq(Tags) /\ m \in Nat /\ DOMAIN open = 1..m /\ (open = <<>> <=> m = 0)
  BY DEF Nested, Tags
<1>2. \A i \in 1..m : /\ open[i] = "tr" => i > 1 /\ open[i - 1] = "tbl"
                      /\ open[i] = "tc" => i > 1 /\ open[i - 1] = "tr"
                      /\ open[i] = "tbl" /\ i > 1 => open[i - 1] = "tc"
  BY <1>1 DEF Nested
<1>3. open = <<>> => TopOf(open) = "none"
  BY DEF TopOf
<1>4. open # <<>> => TopOf(open) = open[m] /\ TopOf(open) \in Tags /\ m \in 1..m
  BY <1>1 DEF TopOf, Last
<1>. HIDE DEF m
<1>5. TopOf(open) \in Tags => open # <<>> /\ m \in 1..m /\ open[m] = TopOf(open)
  BY <1>3, <1>4 DEF Tags
<1>6. \A i \in 1..m : i > 1 => i - 1 \in 1..m
  BY <1>1
<1>7. TopOf(open) = "tr" => m > 1 /\ open[m - 1] = "tbl"
  BY <1>2, <1>5 DEF Tags
<1>8. TopOf(open) = "tc" => m > 2 /\ open[m - 1] = "tr"
  <2>1. ASSUME TopOf(open) = "tc" PROVE m > 2 /\ open[m - 1] = "tr"
    <3>1. m \in 1..m /\ m > 1 /\ open[m - 1] = "tr"
      BY <1>2, <1>5, <2>1 DEF Tags
    <3>2. m - 1 \in 1..m /\ m - 1 > 1
      BY <1>2, <1>6, <3>1
    <3>. QED  BY <1>1, <3>1, <3>2
  <2>. QED  BY <2>1
<1>9. TopOf(open) = "tbl" /\ m > 1 => open[m - 1] = "tc" /\ m > 3
  <2>1. ASSUME TopOf(open) = "tbl", m > 1 PROVE open[m - 1] = "tc" /\ m > 3
    <3>1. m \in 1..m /\ open[m - 1] = "tc"
      BY <1>2, <1>5, <2>1 DEF Tags
    <3>2. m - 1 \in 1..m /\ m - 1 > 1 /\ open[(m - 1) - 1] = "tr"
      BY <1>2, <1>6, <2>1, <3>1
    <3>3. (m - 1) - 1 \in 1..m /\ (m - 1) - 1 > 1
      BY <1>2, <1>6, <3>2
    <3>. QED  BY <1>1, <3>1, <3>3
  <2>. QED  BY <2>1
<1>. QED  BY <1>1, <1>3, <1>4, <1>7, <1>8, <1>9 DEF m

LEMMA NestedOpens ==
  ASSUME NEW open, Nested(open), NEW tag \in Tags,
         tag = "tbl" => TopOf(open) \in {"none", "tc"},
         tag = "tr" => TopOf(open) = "tbl",
         tag = "tc" => TopOf(open) = "tr"
  PROVE  /\ Nested(Append(open, tag)) /\ TopOf(Append(open, tag)) = tag
         /\ Append(open, tag) # <<>> /\ Len(Append(open, tag)) = Len(open) + 1
<1>. DEFINE m == Len(open)
            new == Append(open, tag)
<1>1. /\ open \in Seq(Tags) /\ m \in Nat /\ DOMAIN open = 1..m /\ (open = <<>> <=> m = 0)
      /\ open # <<>> => TopOf(open) = open[m]
      /\ open = <<>> => TopOf(open) = "none"
  BY NestedTypes
<1>2. /\ new \in Seq(Tags) /\ Len(new) = m + 1 /\ new[m + 1] = tag /\ Last(new) = tag
      /\ new # <<>> /\ DOMAIN new = 1..(m + 1) /\ \A i \in 1..m : new[i] = open[i]
  BY <1>1, Pushed
<1>. HIDE DEF m, new
<1>3. TopOf(new) = tag
  BY <1>2 DEF TopOf
<1>4. ASSUME NEW i \in 1..(m + 1)
      PROVE  /\ new[i] = "tr" => i > 1 /\ new[i - 1] = "tbl"
             /\ new[i] = "tc" => i > 1 /\ new[i - 1] = "tr"
             /\ new[i] = "tbl" /\ i > 1 => new[i - 1] = "tc"
  <2>1. CASE i = m + 1
    <3>1. CASE m = 0
      <4>1. TopOf(open) = "none"
        BY <1>1, <3>1
      <4>2. tag = "tbl" /\ ~(i > 1)
        BY <2>1, <3>1, <4>1 DEF Tags
      <4>. QED  BY <1>2, <2>1, <4>2
    <3>2. CASE m # 0
      <4>1. i > 1 /\ i - 1 = m /\ m \in 1..m
        BY <1>1, <2>1, <3>2
      <4>2. new[i - 1] = TopOf(open) /\ new[i] = tag /\ open[m] \in Tags
        BY <1>1, <1>2, <2>1, <3>2, <4>1
      <4>3. TopOf(open) \in Tags
        BY <1>1, <3>2, <4>2
      <4>. QED  BY <4>1, <4>2, <4>3 DEF Tags
    <3>. QED  BY <3>1, <3>2
  <2>2. CASE i # m + 1
    <3>1. i \in 1..m /\ (i > 1 => i - 1 \in 1..m)
      BY <1>1, <2>2
    <3>2. new[i] = open[i] /\ (i > 1 => new[i - 1] = open[i - 1])
      BY <1>2, <3>1
    <3>. QED  BY <1>1, <3>1, <3>2 DEF Nested
  <2>. QED  BY <2>1, <2>2
<1>5. Nested(new)
  BY <1>2, <1>4 DEF Nested, Tags
<1>. QED  BY <1>2, <1>3, <1>5 DEF new, m

LEMMA NestedCloses ==
  ASSUME NEW open, Nested(open), open # <<>>
  PROVE  /\ Nested(Front(open)) /\ Len(Front(open)) = Len(open) - 1
         /\ TopOf(open) = "tc" => TopOf(Front(open)) = "tr"
         /\ TopOf(open) = "tr" => TopOf(Front(open)) = "tbl"
         /\ Front(open) = <<>> <=> Len(open) = 1
<1>. DEFINE m == Len(open)
            new == Front(open)
<1>1. /\ open \in Seq(Tags) /\ m \in Nat /\ DOMAIN open = 1..m
      /\ TopOf(open) = "tr" => m > 1 /\ open[m - 1] = "tbl"
      /\ TopOf(open) = "tc" => m > 2 /\ open[m - 1] = "tr"
  BY NestedTypes
<1>2. /\ new \in Seq(Tags) /\ Len(new) = m - 1 /\ DOMAIN new = 1..(m - 1)
      /\ m \in Nat \ {0} /\ \A i \in 1..(m - 1) : new[i] = open[i]
  <2>1. open \in Seq(Tags) /\ open # <<>>
    BY <1>1
  <2>. QED  BY <2>1, Popped, Zenon
<1>. HIDE DEF m, new
<1>3. Nested(new)
  <2>1. \A i \in 1..(m - 1) : i \in DOMAIN open /\ (i > 1 => i - 1 \in 1..(m - 1))
    BY <1>1, <1>2
  <2>. QED  BY <1>2, <2>1 DEF Nested, Tags
<1>4. m > 1 => TopOf(new) = open[m - 1] /\ new # <<>>
  <2>1. ASSUME m > 1 PROVE TopOf(new) = open[m - 1] /\ new # <<>>
    <3>1. m - 1 \in 1..(m - 1) /\ new # <<>>
      BY <1>2, <2>1
    <3>. QED  BY <1>2, <1>3, <3>1, NestedTypes
  <2>. QED  BY <2>1
<1>5. new = <<>> <=> m = 1
  BY <1>2
<1>6. TopOf(open) = "tc" => TopOf(new) = "tr"
  BY <1>1, <1>4
<1>7. TopOf(open) = "tr" => TopOf(new) = "tbl"
  BY <1>1, <1>4
<1>. QED  BY <1>2, <1>3, <1>5, <1>6, <1>7 DEF new, m

(* The step of a Word reader, from what it makes of the two records.           *)
LEMMA WordStep ==
  ASSUME NEW d, NEW q, Reads({"docx"}, d, q), IsDoc(d), IsParser(q), WordOK(d, q)
  PROVE  WordOK(doc', p') /\ IsParser(p') /\ IsDoc(doc') /\ phase' = "parse"
<1>1. /\ p' = q /\ phase' = "parse" /\ IsDoc(doc') /\ doc'.open = d.open /\ doc'.shown = d.shown
      /\ doc'.odd = d.odd
  BY ElementIs, Zenon
<1>2. WordOK(doc', q)
  BY <1>1, SameWord
<1>. QED  BY <1>1, <1>2

Buffers(q, out, table, row, cell, inTable, inCell) ==
  /\ IsParser(q) /\ q.out = out /\ q.table = table /\ q.row = row /\ q.cell = cell
  /\ q.inTable = inTable /\ q.inCell = inCell /\ q.held = p.held

LEMMA InParser ==
  ASSUME NEW q, IsParser(q)
  PROVE  /\ "out" \in DOMAIN q /\ "table" \in DOMAIN q /\ "row" \in DOMAIN q /\ "cell" \in DOMAIN q
         /\ "inTable" \in DOMAIN q /\ "inCell" \in DOMAIN q /\ "held" \in DOMAIN q
BY DEF IsParser, ParserFields

(* What the reader has, part by part.                                          *)
LEMMA HasParts ==
  ASSUME NEW d, NEW q, WordShape(d, q)
  PROVE  /\ TableOf(q) \in Text /\ RowOf(d, q) \in Text /\ CellOf(d, q) \in Text /\ q.out \in Text
         /\ q.out \o TableOf(q) \in Text /\ (q.out \o TableOf(q)) \o RowOf(d, q) \in Text
         /\ ~q.inTable => TableOf(q) = <<>> /\ RowOf(d, q) = <<>> /\ CellOf(d, q) = <<>>
         /\ TopOf(d.open) \notin {"tr", "tc"} => RowOf(d, q) = <<>> /\ CellOf(d, q) = <<>>
         /\ TopOf(d.open) # "tc" \/ ~q.inCell => CellOf(d, q) = <<>>
<1>. DEFINE t == TableOf(q)
            r == RowOf(d, q)
            c == CellOf(d, q)
<1>1. <<>> \in Text /\ q.out \in Text /\ q.table \in Text /\ q.row \in Text /\ q.cell \in Text
  BY TextLaws DEF WordShape
<1>2. t \in Text /\ r \in Text /\ c \in Text
  BY <1>1 DEF TableOf, RowOf, CellOf
<1>3. q.out \o t \in Text /\ (q.out \o t) \o r \in Text
  <2>. HIDE DEF t, r
  <2>. QED  BY <1>1, <1>2, TextLaws
<1>5. ~q.inTable => t = <<>> /\ r = <<>> /\ c = <<>>
  BY DEF TableOf, RowOf, CellOf
<1>6. TopOf(d.open) \notin {"tr", "tc"} => r = <<>> /\ c = <<>>
  BY DEF RowOf, CellOf
<1>7. TopOf(d.open) # "tc" \/ ~q.inCell => c = <<>>
  BY DEF CellOf
<1>. QED  BY <1>1, <1>2, <1>3, <1>5, <1>6, <1>7

(* A text that is said, of which the reader writes another one.                *)
LEMMA WordSays ==
  ASSUME IsDoc(doc), IsParser(p), WordOK(doc, p), Top \in {"none", "tc"},
         NEW said \in Text, NEW written \in Text, NEW o,
         Sub(said, written), o \intersect Leaking = {} => Sub(written, said),
         NEW d, IsDoc(d), d.open = doc.open, d.shown = doc.shown \o said, d.odd = doc.odd \union o,
         Reads({"docx"}, d, WordText(written))
  PROVE  WordOK(doc', p') /\ IsParser(p') /\ IsDoc(doc') /\ phase' = "parse"
<1>. DEFINE q == WordText(written)
            t == TableOf(p)
            r == RowOf(doc, p)
            c == CellOf(doc, p)
            e == CellOf(d, q)
            front == (p.out \o t) \o r
<1>0. WordShape(doc, p) /\ TopOf(doc.open) = Top /\ TopOf(d.open) = Top
  BY DEF WordOK, TopOf, Top
<1>1. /\ t \in Text /\ r \in Text /\ c \in Text /\ p.out \in Text /\ front \in Text
      /\ Has(doc, p) = front \o c
      /\ ~p.inTable => t = <<>> /\ r = <<>> /\ c = <<>>
      /\ Top \notin {"tr", "tc"} => r = <<>> /\ c = <<>>
      /\ Top # "tc" \/ ~p.inCell => c = <<>>
  BY <1>0, HasParts DEF Has
<1>2. /\ p.cell \in Text /\ p.inCell \in BOOLEAN /\ p.inTable \in BOOLEAN /\ p.table \in Text
      /\ p.row \in Text /\ doc.shown \in Text
      /\ p.cell \o written \in Text /\ p.out \o written \in Text
  <2>1. p.cell \in Text /\ p.out \in Text /\ p.table \in Text /\ p.row \in Text
    BY <1>0 DEF WordShape
  <2>. QED  BY <1>0, <2>1, TextLaws DEF WordShape
<1>3. /\ p.inCell => Buffers(q, p.out, p.table, p.row, p.cell \o written, p.inTable, p.inCell)
      /\ ~p.inCell /\ ~p.inTable =>
            Buffers(q, p.out \o written, p.table, p.row, p.cell, p.inTable, p.inCell)
      /\ ~p.inCell /\ p.inTable => Buffers(q, p.out, p.table, p.row, p.cell, p.inTable, p.inCell)
  <2>1. ASSUME p.inCell
        PROVE  Buffers(q, p.out, p.table, p.row, p.cell \o written, p.inTable, p.inCell)
    <3>1. q = [p EXCEPT !.cell = p.cell \o written]
      BY <2>1, Zenon DEF WordText
    <3>. HIDE DEF q
    <3>. QED  BY <3>1, InParser, Zenon DEF Buffers, IsParser
  <2>2. ASSUME ~p.inCell, ~p.inTable
        PROVE  Buffers(q, p.out \o written, p.table, p.row, p.cell, p.inTable, p.inCell)
    <3>1. q = [p EXCEPT !.out = p.out \o written]
      BY <2>2, Zenon DEF WordText, Writes
    <3>. HIDE DEF q
    <3>. QED  BY <3>1, InParser, Zenon DEF Buffers, IsParser
  <2>3. ASSUME ~p.inCell, p.inTable
        PROVE  Buffers(q, p.out, p.table, p.row, p.cell, p.inTable, p.inCell)
    <3>1. q = p
      BY <2>3, Zenon DEF WordText, Writes
    <3>. QED  BY <3>1, Zenon DEF Buffers
  <2>. QED  BY <2>1, <2>2, <2>3
<1>. HIDE DEF q
<1>4. /\ IsParser(q) /\ q.inTable = p.inTable /\ q.inCell = p.inCell /\ q.table = p.table
      /\ q.row = p.row /\ q.held = p.held /\ q.out \in Text /\ q.cell \in Text
  BY <1>1, <1>2, <1>3, Zenon DEF Buffers
<1>5. WordShape(d, q)
  <2>1. doc.shown \o said \in Text
    BY <1>2, TextLaws
  <2>. QED  BY <1>0, <1>4, <2>1 DEF WordShape
<1>6. Has(d, q) = ((q.out \o t) \o r) \o e
  <2>1. TableOf(q) = t /\ RowOf(d, q) = r
    BY <1>0, <1>4 DEF TableOf, RowOf
  <2>. QED  BY <2>1 DEF Has
<1>7. \/ Has(d, q) = Has(doc, p) \o written
      \/ Has(d, q) = Has(doc, p) /\ p.inTable # (Top = "tc")
      \/ Has(d, q) = Has(doc, p) /\ p.inCell # (Top = "tc")
  <2>1. CASE p.inCell /\ p.inTable /\ Top = "tc"
    <3>1. q.out = p.out /\ q.cell = p.cell \o written
      BY <1>3, <2>1 DEF Buffers
    <3>2. c = p.cell /\ e = p.cell \o written
      BY <1>0, <1>4, <2>1, <3>1 DEF CellOf
    <3>. HIDE DEF c, e, front
    <3>3. (front \o c) \o written = front \o (p.cell \o written)
      <4>1. (front \o p.cell) \o written = front \o (p.cell \o written)
        <5>1. front \in Text /\ p.cell \in Text
          BY <1>1, <1>2
        <5>2. written \in Text
          OBVIOUS
        <5>. QED  BY <5>1, <5>2, Regroup, Zenon
      <4>. QED  BY <3>2, <4>1
    <3>. QED  BY <1>1, <1>6, <3>1, <3>2, <3>3 DEF front
  <2>2. CASE ~p.inCell /\ ~p.inTable
    <3>1. q.out = p.out \o written
      BY <1>3, <2>2 DEF Buffers
    <3>2. t = <<>> /\ r = <<>> /\ c = <<>> /\ e = <<>>
      BY <1>1, <1>4, <2>2 DEF CellOf
    <3>. HIDE DEF c, e, t, r
    <3>3. Has(doc, p) = p.out
      BY <1>1, <3>2, TextLaws
    <3>4. Has(d, q) = q.out
      BY <1>4, <1>6, <3>2, TextLaws
    <3>. QED  BY <3>1, <3>3, <3>4
  <2>3. CASE p.inCell /\ ~(p.inTable /\ Top = "tc")
    <3>1. q.out = p.out /\ c = <<>> /\ e = <<>>
      BY <1>0, <1>3, <1>4, <2>3 DEF Buffers, CellOf
    <3>2. Has(d, q) = Has(doc, p)
      <4>. HIDE DEF c, e, t, r
      <4>. QED  BY <1>1, <1>6, <3>1
    <3>. QED  BY <1>2, <2>3, <3>2
  <2>4. CASE ~p.inCell /\ p.inTable
    <3>1. q.out = p.out /\ c = <<>> /\ e = <<>>
      BY <1>0, <1>3, <1>4, <2>4 DEF Buffers, CellOf
    <3>2. Has(d, q) = Has(doc, p)
      <4>. HIDE DEF c, e, t, r
      <4>. QED  BY <1>1, <1>6, <3>1
    <3>. QED  BY <1>2, <2>4, <3>2
  <2>. QED  BY <1>2, <2>1, <2>2, <2>3, <2>4
<1>. HIDE DEF t, r, c, e, front
<1>8. /\ Keeps(d) => Keeps(doc)
      /\ Clean(d) => Clean(doc) /\ Sub(written, said)
  BY DEF Keeps, Clean
<1>9. Keeps(d) => WordPlain(d, q) /\ Sub(d.shown, Has(d, q))
  <2>1. ASSUME Keeps(d) PROVE WordPlain(d, q) /\ Sub(d.shown, Has(d, q))
    <3>1. WordPlain(doc, p) /\ Sub(doc.shown, Has(doc, p))
      BY <1>8, <2>1 DEF WordOK
    <3>2. (p.inTable <=> Top = "tc") /\ (p.inCell <=> Top = "tc")
      <4>1. Top = "none" <=> doc.open = <<>>
        BY <1>0, NestedTypes DEF WordShape, Tags
      <4>. QED  BY <1>0, <3>1, <4>1 DEF WordPlain
    <3>3. Has(d, q) = Has(doc, p) \o written
      BY <1>2, <1>7, <3>2
    <3>4. Sub(doc.shown \o said, Has(doc, p) \o written)
      BY <3>1, SubJoined
    <3>5. WordPlain(d, q)
      BY <1>0, <1>4, <3>1 DEF WordPlain
    <3>. QED  BY <3>3, <3>4, <3>5
  <2>. QED  BY <2>1
<1>10. Clean(d) => Sub(Has(d, q), d.shown)
  <2>1. ASSUME Clean(d) PROVE Sub(Has(d, q), d.shown)
    <3>1. Sub(Has(doc, p), doc.shown) /\ Sub(written, said)
      BY <1>8, <2>1 DEF WordOK
    <3>2. Sub(Has(doc, p) \o written, doc.shown \o said)
      BY <3>1, SubJoined
    <3>3. Sub(Has(doc, p), doc.shown \o said)
      BY <3>1, SubGrows
    <3>. QED  BY <1>7, <3>2, <3>3
  <2>. QED  BY <2>1
<1>11. WordOK(d, q)
  BY <1>5, <1>9, <1>10 DEF WordOK
<1>. QED  BY <1>4, <1>11, WordStep DEF q

(* A run of text, or a text box, which is read twice.                          *)
LEMMA WordText1 ==
  ASSUME IsDoc(doc), IsParser(p), WordOK(doc, p), doc.n \in Nat, WordRun \/ WordTextBox
  PROVE  WordOK(doc', p') /\ IsParser(p') /\ IsDoc(doc') /\ phase' = "parse"
<1>. DEFINE t == <<Piece>>
            two == <<Piece, Piece>>
            c == Says(doc, t)
<1>1. Piece \in Nat
  BY DEF Piece
<1>2. t \in Text /\ two \in Text /\ Sub(t, t) /\ Sub(t, two)
  <2>1. t \in Text /\ two \in Text /\ Sub(t, t)
    BY <1>1, TextLaws, SubOfItself
  <2>2. Sub(t, t \o t)
    BY <2>1, SubGrows
  <2>3. t \o t = two
    BY <1>1, TextOfRuns
  <2>. QED  BY <2>1, <2>2, <2>3
<1>3. IsDoc(c) /\ c.open = doc.open /\ c.shown = doc.shown \o t /\ c.odd = doc.odd
  BY DocSays DEF Fields
<1>4. CASE WordRun
  <2>1. Top \in {"none", "tc"} /\ Reads({"docx"}, c, WordText(t))
    BY <1>4, Zenon DEF WordRun
  <2>2. c.odd = doc.odd \union {}
    BY <1>3
  <2>. HIDE DEF c, t, two
  <2>. QED  BY <1>2, <1>3, <2>1, <2>2, WordSays
<1>5. CASE WordTextBox
  <2>. DEFINE o == {"text box"}
              d == Odd(c, o)
  <2>1. Top \in {"none", "tc"} /\ Reads({"docx"}, d, WordText(two))
    BY <1>5, Zenon DEF WordTextBox
  <2>. HIDE DEF c, t, two, o
  <2>2. IsDoc(d) /\ d.open = doc.open /\ d.shown = doc.shown \o t /\ d.odd = doc.odd \union o
    BY <1>3, DocOdd DEF Fields
  <2>3. o \intersect Leaking # {}
    BY DEF Leaking, o
  <2>. HIDE DEF d
  <2>. QED  BY <1>2, <2>1, <2>2, <2>3, WordSays
<1>. QED  BY <1>4, <1>5

(* A table begins, maybe within a cell: then the flags of the outer one go on. *)
LEMMA TableOpens ==
  ASSUME IsDoc(doc), IsParser(p), WordOK(doc, p), WordTable
  PROVE  WordOK(doc', p') /\ IsParser(p') /\ IsDoc(doc') /\ phase' = "parse"
<1>. DEFINE o == IF Top = "tc" THEN {"nested table"} ELSE {}
            b == Opened("tbl")
            d == Odd(b, o)
            q == [p EXCEPT !.inTable = TRUE]
            t == TableOf(p)
            r == RowOf(doc, p)
            c == CellOf(doc, p)
<1>1. Top \in {"none", "tc"} /\ Reads({"docx"}, d, q)
  BY Zenon DEF WordTable
<1>2. IsDoc(d) /\ d.open = Append(doc.open, "tbl") /\ d.shown = doc.shown /\ d.odd = doc.odd \union o
  <2>1. IsDoc(b) /\ b.open = Append(doc.open, "tbl") /\ b.shown = doc.shown /\ b.odd = doc.odd
    BY DocOpened DEF Fields
  <2>. HIDE DEF b, o
  <2>. QED  BY <2>1, DocOdd DEF Fields
<1>3. Buffers(q, p.out, p.table, p.row, p.cell, TRUE, p.inCell)
  BY InParser, Zenon DEF Buffers, IsParser
<1>. HIDE DEF d, q
<1>4. WordShape(doc, p) /\ TopOf(doc.open) = Top /\ Nested(doc.open)
  BY DEF WordOK, TopOf, Top, WordShape
<1>5. /\ Nested(d.open) /\ TopOf(d.open) = "tbl" /\ d.open # <<>>
      /\ Len(d.open) = Len(doc.open) + 1
  BY <1>1, <1>2, <1>4, NestedOpens DEF Tags
<1>6. WordShape(d, q)
  BY <1>2, <1>3, <1>4, <1>5 DEF WordShape, Buffers
<1>7. /\ t \in Text /\ r \in Text /\ c \in Text /\ p.out \o t \in Text /\ (p.out \o t) \o r \in Text
      /\ Has(doc, p) = ((p.out \o t) \o r) \o c
      /\ Top \notin {"tr", "tc"} => r = <<>> /\ c = <<>>
  BY <1>4, HasParts DEF Has
<1>8. Has(d, q) = p.out \o t
  <2>1. TableOf(q) = p.table /\ RowOf(d, q) = <<>> /\ CellOf(d, q) = <<>> /\ q.out = p.out
    BY <1>3, <1>5 DEF TableOf, RowOf, CellOf, Buffers
  <2>2. t = p.table
    BY <1>4 DEF TableOf, WordShape
  <2>. HIDE DEF t
  <2>3. Has(d, q) = ((p.out \o t) \o <<>>) \o <<>>
    BY <2>1, <2>2 DEF Has
  <2>. QED  BY <1>7, <2>3, TextLaws
<1>. HIDE DEF t, r, c, o
<1>9. /\ Keeps(d) => Keeps(doc) /\ Top = "none"
      /\ Clean(d) => Clean(doc)
  <2>1. Top = "tc" => ~Keeps(d)
    BY <1>2 DEF Keeps, Losing, o
  <2>. QED  BY <1>1, <1>2, <2>1 DEF Keeps, Clean
<1>10. Keeps(d) => WordPlain(d, q) /\ Sub(d.shown, Has(d, q))
  <2>1. ASSUME Keeps(d) PROVE WordPlain(d, q) /\ Sub(d.shown, Has(d, q))
    <3>1. WordPlain(doc, p) /\ Sub(doc.shown, Has(doc, p)) /\ Top = "none"
      BY <1>9, <2>1 DEF WordOK
    <3>2. Len(doc.open) = 0
      BY <1>4, <3>1, NestedTypes DEF Tags
    <3>3. WordPlain(d, q)
      BY <1>3, <1>4, <1>5, <3>1, <3>2 DEF WordPlain, Buffers
    <3>4. Has(doc, p) = p.out \o t
      BY <1>7, <3>1, TextLaws
    <3>. QED  BY <1>2, <1>8, <3>1, <3>3, <3>4
  <2>. QED  BY <2>1
<1>11. Clean(d) => Sub(Has(d, q), d.shown)
  <2>1. ASSUME Clean(d) PROVE Sub(Has(d, q), d.shown)
    <3>1. Sub(((p.out \o t) \o r) \o c, doc.shown)
      BY <1>7, <1>9, <2>1 DEF WordOK
    <3>2. Sub((p.out \o t) \o r, doc.shown)
      BY <1>7, <3>1, SubBegins
    <3>3. Sub(p.out \o t, doc.shown)
      BY <1>7, <3>2, SubBegins
    <3>. QED  BY <1>2, <1>8, <3>3
  <2>. QED  BY <2>1
<1>12. WordOK(d, q)
  BY <1>6, <1>10, <1>11 DEF WordOK
<1>. QED  BY <1>1, <1>2, <1>3, <1>12, WordStep DEF Buffers

(* A step after which the reader has what it had.                              *)
LEMMA WordHasSame ==
  ASSUME WordOK(doc, p), NEW d, NEW q, WordShape(d, q), d.shown = doc.shown, d.odd = doc.odd,
         Has(d, q) = Has(doc, p), WordPlain(doc, p) => WordPlain(d, q)
  PROVE  WordOK(d, q)
<1>1. (Keeps(d) <=> Keeps(doc)) /\ (Clean(d) <=> Clean(doc))
  BY DEF Keeps, Clean
<1>2. Keeps(d) => WordPlain(d, q) /\ Sub(d.shown, Has(d, q))
  BY <1>1 DEF WordOK
<1>3. Clean(d) => Sub(Has(d, q), d.shown)
  BY <1>1 DEF WordOK
<1>. QED  BY <1>2, <1>3 DEF WordOK

(* A row or a cell begins: only buffers that have been handed on are emptied.  *)
LEMMA RowAndCellOpen ==
  ASSUME IsDoc(doc), IsParser(p), WordOK(doc, p), WordRow \/ WordCell
  PROVE  WordOK(doc', p') /\ IsParser(p') /\ IsDoc(doc') /\ phase' = "parse"
<1>. DEFINE t == TableOf(p)
            r == RowOf(doc, p)
            c == CellOf(doc, p)
<1>1. WordShape(doc, p) /\ TopOf(doc.open) = Top /\ Nested(doc.open)
  BY DEF WordOK, TopOf, Top, WordShape
<1>2. /\ t \in Text /\ r \in Text /\ c \in Text /\ p.out \o t \in Text /\ (p.out \o t) \o r \in Text
      /\ Has(doc, p) = ((p.out \o t) \o r) \o c
      /\ Top \notin {"tr", "tc"} => r = <<>> /\ c = <<>>
      /\ Top # "tc" => c = <<>>
  BY <1>1, HasParts DEF Has
<1>3. <<>> \in Text
  BY TextLaws
<1>4. CASE WordRow
  <2>. DEFINE d == Opened("tr")
              row == IF p.inTable THEN <<>> ELSE p.row
              q == [p EXCEPT !.row = IF p.inTable THEN <<>> ELSE @]
  <2>1. Top = "tbl" /\ Reads({"docx"}, d, q)
    BY <1>4, Zenon DEF WordRow
  <2>2. IsDoc(d) /\ d.open = Append(doc.open, "tr") /\ d.shown = doc.shown /\ d.odd = doc.odd
    BY DocOpened DEF Fields
  <2>3. Buffers(q, p.out, p.table, row, p.cell, p.inTable, p.inCell)
    BY InParser, Zenon DEF Buffers, IsParser
  <2>. HIDE DEF d, q
  <2>4. /\ Nested(d.open) /\ TopOf(d.open) = "tr" /\ d.open # <<>>
        /\ Len(d.open) = Len(doc.open) + 1
    BY <1>1, <2>1, <2>2, NestedOpens DEF Tags
  <2>5. WordShape(d, q)
    BY <1>1, <1>3, <2>2, <2>3, <2>4 DEF WordShape, Buffers
  <2>6. Has(d, q) = Has(doc, p)
    <3>1. TableOf(q) = t /\ RowOf(d, q) = <<>> /\ CellOf(d, q) = <<>> /\ q.out = p.out
      BY <2>3, <2>4 DEF TableOf, RowOf, CellOf, Buffers
    <3>2. r = <<>> /\ c = <<>>
      BY <1>2, <2>1
    <3>. QED  BY <1>2, <3>1, <3>2 DEF Has
  <2>7. WordPlain(doc, p) => WordPlain(d, q)
    <3>1. ASSUME WordPlain(doc, p) PROVE WordPlain(d, q)
      <4>1. Len(doc.open) \in Nat /\ ~(Len(doc.open) > 1) /\ doc.open # <<>>
        BY <1>1, <2>1, <3>1, NestedTypes DEF WordPlain
      <4>. QED  BY <1>1, <2>1, <2>3, <2>4, <3>1, <4>1 DEF WordPlain, Buffers
    <3>. QED  BY <3>1
  <2>8. WordOK(d, q)
    BY <2>2, <2>5, <2>6, <2>7, WordHasSame
  <2>. QED  BY <2>1, <2>2, <2>3, <2>8, WordStep DEF Buffers
<1>5. CASE WordCell
  <2>. DEFINE d == Opened("tc")
              inCell == p.inTable \/ p.inCell
              cell == IF p.inTable THEN <<>> ELSE p.cell
              q == [p EXCEPT !.inCell = p.inTable \/ @, !.cell = IF p.inTable THEN <<>> ELSE @]
  <2>1. Top = "tr" /\ Reads({"docx"}, d, q)
    BY <1>5, Zenon DEF WordCell
  <2>2. IsDoc(d) /\ d.open = Append(doc.open, "tc") /\ d.shown = doc.shown /\ d.odd = doc.odd
    BY DocOpened DEF Fields
  <2>3. Buffers(q, p.out, p.table, p.row, cell, p.inTable, inCell)
    <3>. DEFINE b == [p EXCEPT !.inCell = inCell]
    <3>. HIDE DEF inCell, cell
    <3>1. Buffers(b, p.out, p.table, p.row, p.cell, p.inTable, inCell)
      BY InParser, Zenon DEF Buffers, IsParser
    <3>2. q = [b EXCEPT !.cell = cell]
      BY InParser, Zenon DEF q, cell, inCell
    <3>. HIDE DEF b, q
    <3>3. IsParser(b)
      BY <3>1 DEF Buffers
    <3>. QED  BY <3>1, <3>2, <3>3, InParser, Zenon DEF Buffers, IsParser
  <2>. HIDE DEF d, q
  <2>4. /\ Nested(d.open) /\ TopOf(d.open) = "tc" /\ d.open # <<>>
        /\ Len(d.open) = Len(doc.open) + 1
    BY <1>1, <2>1, <2>2, NestedOpens DEF Tags
  <2>5. WordShape(d, q)
    <3>1. inCell \in BOOLEAN /\ cell \in Text
      BY <1>1, <1>3 DEF WordShape
    <3>. HIDE DEF inCell, cell
    <3>. QED  BY <1>1, <2>2, <2>3, <2>4, <3>1 DEF WordShape, Buffers
  <2>6. Has(d, q) = Has(doc, p)
    <3>1. TableOf(q) = t /\ RowOf(d, q) = r /\ q.out = p.out
      BY <1>1, <2>1, <2>3, <2>4 DEF TableOf, RowOf, Buffers
    <3>2. CellOf(d, q) = <<>>
      BY <2>3 DEF CellOf, Buffers
    <3>3. c = <<>>
      BY <1>2, <2>1
    <3>. QED  BY <1>2, <3>1, <3>2, <3>3 DEF Has
  <2>7. WordPlain(doc, p) => WordPlain(d, q)
    <3>1. ASSUME WordPlain(doc, p) PROVE WordPlain(d, q)
      <4>1. Len(doc.open) \in Nat /\ Len(doc.open) > 1 /\ doc.open # <<>>
        BY <1>1, <2>1, NestedTypes
      <4>2. Len(doc.open) < 3
        <5>1. Len(doc.open) # 3
          <6>1. ASSUME Len(doc.open) = 3 PROVE FALSE
            <7>1. doc.open[3] = "tr" /\ doc.open[2] = "tbl"
              BY <1>1, <2>1, <4>1, <6>1, NestedTypes
            <7>2. 2 \in DOMAIN doc.open /\ 1 \in DOMAIN doc.open
              BY <1>1, <6>1, NestedTypes
            <7>3. doc.open[1] = "tc"
              BY <1>1, <7>1, <7>2 DEF Nested
            <7>. QED  BY <1>1, <7>2, <7>3 DEF Nested
          <6>. QED  BY <6>1
        <5>2. Len(doc.open) <= 3
          BY <3>1, Zenon DEF WordPlain
        <5>3. \A m \in Nat : m <= 3 /\ m # 3 => m < 3
          OBVIOUS
        <5>. QED  BY <4>1, <5>1, <5>2, <5>3, Zenon
      <4>3. p.inTable
        BY <3>1, <4>1 DEF WordPlain
      <4>4. Len(d.open) <= 3
        BY <2>4, <4>1, <4>2
      <4>5. q.inTable /\ q.inCell
        BY <2>3, <4>3, Zenon DEF Buffers
      <4>. QED  BY <2>4, <4>4, <4>5 DEF WordPlain
    <3>. QED  BY <3>1
  <2>8. WordOK(d, q)
    BY <2>2, <2>5, <2>6, <2>7, WordHasSame
  <2>. QED  BY <2>1, <2>2, <2>3, <2>8, WordStep DEF Buffers
<1>. QED  BY <1>4, <1>5

(* A cell goes to its row, a row to its table and a table to the text: what    *)
(* the reader has stays the same.                                              *)
LEMMA WordCloses ==
  ASSUME IsDoc(doc), IsParser(p), WordOK(doc, p), WordEndCell \/ WordEndRow \/ WordEndTable
  PROVE  WordOK(doc', p') /\ IsParser(p') /\ IsDoc(doc') /\ phase' = "parse"
<1>. DEFINE t == TableOf(p)
            r == RowOf(doc, p)
            c == CellOf(doc, p)
            d == Closed
            m == Len(doc.open)
<1>1. WordShape(doc, p) /\ TopOf(doc.open) = Top /\ Nested(doc.open)
  BY DEF WordOK, TopOf, Top, WordShape
<1>2. /\ t \in Text /\ r \in Text /\ c \in Text /\ p.out \o t \in Text /\ (p.out \o t) \o r \in Text
      /\ p.out \in Text
      /\ Has(doc, p) = ((p.out \o t) \o r) \o c
      /\ ~p.inTable => t = <<>> /\ r = <<>> /\ c = <<>>
      /\ Top \notin {"tr", "tc"} => r = <<>> /\ c = <<>>
      /\ Top # "tc" \/ ~p.inCell => c = <<>>
  BY <1>1, HasParts DEF Has
<1>3. <<>> \in Text
  BY TextLaws
<1>4. IsDoc(d) /\ d.open = Front(doc.open) /\ d.shown = doc.shown /\ d.odd = doc.odd
  BY DocClosed DEF Fields
<1>. HIDE DEF d
<1>5. Top \in {"tc", "tr", "tbl"}
  BY DEF WordEndCell, WordEndRow, WordEndTable
<1>6. /\ doc.open # <<>> /\ m \in Nat
      /\ Top = "tr" => m > 1
      /\ Top = "tc" => m > 2
      /\ Top = "tbl" /\ m > 1 => m > 3
  <2>1. doc.open = <<>> => Top = "none"
    BY DEF Top
  <2>. QED  BY <1>1, <1>5, <2>1, NestedTypes
<1>7. /\ Nested(d.open) /\ Len(d.open) = m - 1
      /\ Top = "tc" => TopOf(d.open) = "tr"
      /\ Top = "tr" => TopOf(d.open) = "tbl"
      /\ d.open = <<>> <=> m = 1
  BY <1>1, <1>4, <1>6, NestedCloses
<1>. HIDE DEF m
<1>8. WordPlain(doc, p) => Len(d.open) <= 3
  <2>1. ASSUME WordPlain(doc, p) PROVE Len(d.open) <= 3
    <3>1. m <= 3
      BY <2>1, Zenon DEF WordPlain, m
    <3>. QED  BY <1>6, <1>7, <3>1
  <2>. QED  BY <2>1
<1>9. CASE WordEndCell
  <2>. DEFINE q == IF p.inTable /\ p.inCell
                   THEN [p EXCEPT !.row = @ \o p.cell, !.inCell = FALSE] ELSE p
  <2>1. Top = "tc" /\ Reads({"docx"}, d, q)
    BY <1>9, Zenon DEF WordEndCell, d
  <2>2. IF p.inTable /\ p.inCell
        THEN Buffers(q, p.out, p.table, p.row \o p.cell, p.cell, p.inTable, FALSE)
        ELSE Buffers(q, p.out, p.table, p.row, p.cell, p.inTable, p.inCell)
    <3>1. ASSUME p.inTable /\ p.inCell
          PROVE  Buffers(q, p.out, p.table, p.row \o p.cell, p.cell, p.inTable, FALSE)
      <4>. DEFINE b == [p EXCEPT !.row = p.row \o p.cell]
      <4>1. Buffers(b, p.out, p.table, p.row \o p.cell, p.cell, p.inTable, p.inCell)
        BY InParser, Zenon DEF Buffers, IsParser
      <4>2. q = [b EXCEPT !.inCell = FALSE]
        BY <3>1, Zenon
      <4>. HIDE DEF b, q
      <4>3. IsParser(b)
        BY <4>1 DEF Buffers
      <4>. QED  BY <4>1, <4>2, <4>3, InParser, Zenon DEF Buffers, IsParser
    <3>2. ASSUME ~(p.inTable /\ p.inCell)
          PROVE  Buffers(q, p.out, p.table, p.row, p.cell, p.inTable, p.inCell)
      <4>1. q = p
        BY <3>2
      <4>. QED  BY <4>1, Zenon DEF Buffers
    <3>. HIDE DEF q
    <3>. QED  BY <3>1, <3>2, Zenon
  <2>. HIDE DEF q
  <2>3. /\ p.row \in Text /\ p.cell \in Text /\ p.row \o p.cell \in Text
        /\ p.inTable \in BOOLEAN /\ p.inCell \in BOOLEAN
    BY <1>1, TextLaws DEF WordShape
  <2>4. /\ IsParser(q) /\ q.out = p.out /\ q.table = p.table /\ q.row \in Text /\ q.cell = p.cell
        /\ q.inTable = p.inTable /\ q.inCell \in BOOLEAN /\ q.held = p.held
        /\ q.inCell => ~p.inTable
    BY <2>2, <2>3, Zenon DEF Buffers
  <2>5. TopOf(d.open) = "tr" /\ d.open # <<>>
    BY <1>6, <1>7, <2>1
  <2>6. WordShape(d, q)
    BY <1>1, <1>4, <1>7, <2>4, <2>5 DEF WordShape
  <2>7. Has(d, q) = Has(doc, p)
    <3>1. TableOf(q) = t /\ CellOf(d, q) = <<>>
      BY <2>4, <2>5 DEF TableOf, CellOf
    <3>2. CASE p.inTable /\ p.inCell
      <4>1. RowOf(d, q) = p.row \o p.cell /\ r = p.row /\ c = p.cell
        BY <1>1, <2>1, <2>2, <2>5, <3>2 DEF RowOf, CellOf, Buffers
      <4>. DEFINE front == p.out \o t
      <4>2. front \in Text
        BY <1>2
      <4>. HIDE DEF front, t, r, c
      <4>3. (front \o p.row) \o p.cell = front \o (p.row \o p.cell)
        <5>1. front \in Text /\ p.row \in Text /\ p.cell \in Text
          BY <2>3, <4>2
        <5>. QED  BY <5>1, Regroup, Zenon
      <4>4. front \o (p.row \o p.cell) \in Text
        BY <2>3, <4>2, TextLaws
      <4>5. Has(d, q) = (front \o (p.row \o p.cell)) \o <<>>
        BY <2>4, <3>1, <4>1 DEF Has, front
      <4>. QED  BY <1>2, <4>1, <4>3, <4>4, <4>5, TextLaws DEF front
    <3>3. CASE ~(p.inTable /\ p.inCell)
      <4>1. RowOf(d, q) = r
        BY <1>1, <2>1, <2>2, <2>5, <3>3 DEF RowOf, Buffers
      <4>2. c = <<>>
        BY <1>2, <2>3, <3>3
      <4>. QED  BY <1>2, <2>4, <3>1, <4>1, <4>2 DEF Has
    <3>. QED  BY <3>2, <3>3
  <2>8. WordPlain(doc, p) => WordPlain(d, q)
    <3>1. ASSUME WordPlain(doc, p) PROVE WordPlain(d, q)
      <4>1. p.inTable
        BY <1>6, <3>1 DEF WordPlain
      <4>2. q.inTable /\ ~q.inCell
        BY <2>4, <4>1, Zenon
      <4>. QED  BY <1>8, <2>5, <3>1, <4>2 DEF WordPlain
    <3>. QED  BY <3>1
  <2>9. WordOK(d, q)
    BY <1>4, <2>6, <2>7, <2>8, WordHasSame
  <2>. QED  BY <1>4, <2>1, <2>4, <2>9, WordStep
<1>10. CASE WordEndRow
  <2>. DEFINE q == IF p.inTable THEN [p EXCEPT !.table = @ \o p.row] ELSE p
  <2>1. Top = "tr" /\ Reads({"docx"}, d, q)
    BY <1>10, Zenon DEF WordEndRow, d
  <2>2. IF p.inTable
        THEN Buffers(q, p.out, p.table \o p.row, p.row, p.cell, p.inTable, p.inCell)
        ELSE Buffers(q, p.out, p.table, p.row, p.cell, p.inTable, p.inCell)
    <3>1. ASSUME p.inTable
          PROVE  Buffers(q, p.out, p.table \o p.row, p.row, p.cell, p.inTable, p.inCell)
      <4>1. q = [p EXCEPT !.table = p.table \o p.row]
        BY <3>1, Zenon
      <4>. HIDE DEF q
      <4>. QED  BY <4>1, InParser, Zenon DEF Buffers, IsParser
    <3>2. ASSUME ~p.inTable
          PROVE  Buffers(q, p.out, p.table, p.row, p.cell, p.inTable, p.inCell)
      <4>1. q = p
        BY <3>2
      <4>. QED  BY <4>1, Zenon DEF Buffers
    <3>. HIDE DEF q
    <3>. QED  BY <3>1, <3>2, Zenon
  <2>. HIDE DEF q
  <2>3. /\ p.row \in Text /\ p.table \in Text /\ p.table \o p.row \in Text
        /\ p.inTable \in BOOLEAN /\ (~p.inTable => p.table = <<>>)
    BY <1>1, TextLaws DEF WordShape
  <2>4. /\ IsParser(q) /\ q.out = p.out /\ q.table \in Text /\ q.row = p.row /\ q.cell = p.cell
        /\ q.inTable = p.inTable /\ q.inCell = p.inCell /\ q.held = p.held
        /\ ~p.inTable => q.table = <<>>
    BY <2>2, <2>3, Zenon DEF Buffers
  <2>5. TopOf(d.open) = "tbl" /\ d.open # <<>>
    BY <1>6, <1>7, <2>1
  <2>6. WordShape(d, q)
    BY <1>1, <1>4, <1>7, <2>4, <2>5 DEF WordShape
  <2>7. Has(d, q) = Has(doc, p)
    <3>1. RowOf(d, q) = <<>> /\ CellOf(d, q) = <<>>
      BY <2>5 DEF RowOf, CellOf
    <3>2. c = <<>>
      BY <1>2, <2>1
    <3>3. CASE p.inTable
      <4>1. TableOf(q) = p.table \o p.row /\ t = p.table /\ r = p.row
        BY <1>1, <2>1, <2>2, <3>3 DEF TableOf, RowOf, Buffers
      <4>. HIDE DEF t, r, c
      <4>2. (p.out \o p.table) \o p.row = p.out \o (p.table \o p.row)
        <5>1. p.out \in Text /\ p.table \in Text /\ p.row \in Text
          BY <1>2, <2>3
        <5>. QED  BY <5>1, Regroup, Zenon
      <4>3. p.out \o (p.table \o p.row) \in Text
        BY <1>2, <2>3, TextLaws
      <4>4. Has(d, q) = ((p.out \o (p.table \o p.row)) \o <<>>) \o <<>>
        BY <2>4, <3>1, <4>1 DEF Has
      <4>5. Has(d, q) = p.out \o (p.table \o p.row)
        BY <4>3, <4>4, TextLaws
      <4>6. Has(doc, p) = ((p.out \o p.table) \o p.row) \o <<>>
        BY <1>2, <3>2, <4>1
      <4>. QED  BY <4>2, <4>3, <4>5, <4>6, TextLaws
    <3>4. CASE ~p.inTable
      <4>1. TableOf(q) = <<>> /\ t = <<>> /\ r = <<>>
        BY <1>2, <2>3, <2>4, <3>4 DEF TableOf
      <4>. QED  BY <1>2, <2>4, <3>1, <3>2, <4>1 DEF Has
    <3>. QED  BY <3>3, <3>4
  <2>8. WordPlain(doc, p) => WordPlain(d, q)
    BY <1>1, <1>6, <1>8, <2>1, <2>4, <2>5 DEF WordPlain
  <2>9. WordOK(d, q)
    BY <1>4, <2>6, <2>7, <2>8, WordHasSame
  <2>. QED  BY <1>4, <2>1, <2>4, <2>9, WordStep
<1>11. CASE WordEndTable
  <2>. DEFINE q == IF p.inTable THEN [p EXCEPT !.out = @ \o p.table, !.table = <<>>,
                                                !.inTable = FALSE] ELSE p
  <2>1. Top = "tbl" /\ Reads({"docx"}, d, q)
    BY <1>11, Zenon DEF WordEndTable, d
  <2>2. IF p.inTable
        THEN Buffers(q, p.out \o p.table, <<>>, p.row, p.cell, FALSE, p.inCell)
        ELSE Buffers(q, p.out, p.table, p.row, p.cell, p.inTable, p.inCell)
    <3>1. ASSUME p.inTable
          PROVE  Buffers(q, p.out \o p.table, <<>>, p.row, p.cell, FALSE, p.inCell)
      <4>. DEFINE a == [p EXCEPT !.out = p.out \o p.table]
                  b == [a EXCEPT !.table = <<>>]
      <4>1. Buffers(a, p.out \o p.table, p.table, p.row, p.cell, p.inTable, p.inCell)
        BY InParser, Zenon DEF Buffers, IsParser
      <4>2. q = [b EXCEPT !.inTable = FALSE]
        BY <3>1, Zenon
      <4>. HIDE DEF a, q
      <4>3. IsParser(a)
        BY <4>1 DEF Buffers
      <4>4. Buffers(b, p.out \o p.table, <<>>, p.row, p.cell, p.inTable, p.inCell)
        BY <4>1, <4>3, InParser, Zenon DEF Buffers, IsParser
      <4>. HIDE DEF b
      <4>5. IsParser(b)
        BY <4>4 DEF Buffers
      <4>. QED  BY <4>2, <4>4, <4>5, InParser, Zenon DEF Buffers, IsParser
    <3>2. ASSUME ~p.inTable
          PROVE  Buffers(q, p.out, p.table, p.row, p.cell, p.inTable, p.inCell)
      <4>1. q = p
        BY <3>2
      <4>. QED  BY <4>1, Zenon DEF Buffers
    <3>. HIDE DEF q
    <3>. QED  BY <3>1, <3>2, Zenon
  <2>. HIDE DEF q
  <2>3. /\ p.table \in Text /\ p.out \o p.table \in Text
        /\ p.inTable \in BOOLEAN /\ (~p.inTable => p.table = <<>>)
    BY <1>1, TextLaws DEF WordShape
  <2>4. /\ IsParser(q) /\ q.out \in Text /\ q.table = <<>> /\ q.row = p.row /\ q.cell = p.cell
        /\ q.inTable = FALSE /\ q.inCell = p.inCell /\ q.held = p.held
        /\ q.out = p.out \o t
    <3>1. CASE p.inTable
      <4>1. t = p.table
        BY <3>1 DEF TableOf
      <4>. QED  BY <2>2, <2>3, <3>1, <4>1 DEF Buffers
    <3>2. CASE ~p.inTable
      <4>1. p.out \o t = p.out
        BY <1>2, <3>2, TextLaws
      <4>2. p.inTable = FALSE
        BY <2>3, <3>2
      <4>. QED  BY <1>2, <2>2, <2>3, <3>2, <4>1, <4>2 DEF Buffers
    <3>. QED  BY <3>1, <3>2
  <2>5. WordShape(d, q)
    BY <1>1, <1>3, <1>4, <1>7, <2>4 DEF WordShape
  <2>6. Has(d, q) = Has(doc, p)
    <3>1. TableOf(q) = <<>> /\ RowOf(d, q) = <<>> /\ CellOf(d, q) = <<>>
      BY <2>4 DEF TableOf, RowOf, CellOf
    <3>2. r = <<>> /\ c = <<>>
      BY <1>2, <2>1
    <3>. HIDE DEF t, r, c
    <3>3. Has(d, q) = (((p.out \o t) \o <<>>) \o <<>>) \o <<>>
      BY <2>4, <3>1 DEF Has
    <3>. QED  BY <1>2, <3>2, <3>3, TextLaws
  <2>7. WordPlain(doc, p) => WordPlain(d, q)
    <3>1. ASSUME WordPlain(doc, p) PROVE WordPlain(d, q)
      <4>1. m <= 3
        BY <3>1, Zenon DEF WordPlain, m
      <4>2. d.open = <<>>
        BY <1>6, <1>7, <2>1, <4>1
      <4>3. ~p.inCell
        BY <1>1, <2>1, <3>1 DEF WordPlain
      <4>4. TopOf(d.open) = "none"
        BY <4>2 DEF TopOf
      <4>. QED  BY <1>8, <2>4, <3>1, <4>2, <4>3, <4>4 DEF WordPlain
    <3>. QED  BY <3>1
  <2>8. WordOK(d, q)
    BY <1>4, <2>5, <2>6, <2>7, WordHasSame
  <2>. QED  BY <1>4, <2>1, <2>4, <2>8, WordStep
<1>. QED  BY <1>9, <1>10, <1>11

(* At the end of a Word file no buffer holds anything.                         *)
LEMMA WordEnds ==
  ASSUME IsDoc(doc), IsParser(p), kind = file.fmt, kind = "docx", WordOK(doc, p), EndOfFile
  PROVE  TextIsExact'
<1>1. /\ UNCHANGED <<file, kind>> /\ doc'.shown = doc.shown
      /\ doc'.odd = doc.odd \union (IF p.held # <<>> THEN {"cut script"} ELSE {})
      /\ Complete
  BY EndIs, Zenon
<1>2. doc.open = <<>>
  BY <1>1 DEF Complete
<1>3. p'.out = p.out
  BY EndIs
<1>4. WordShape(doc, p)
  BY DEF WordOK
<1>5. ~p.inTable
  BY <1>2, <1>4 DEF WordShape
<1>6. p.out \in Text /\ TableOf(p) = <<>> /\ RowOf(doc, p) = <<>> /\ CellOf(doc, p) = <<>>
  BY <1>4, <1>5, HasParts
<1>7. Has(doc, p) = p.out
  BY <1>6, TextLaws DEF Has
<1>8. (Keeps(doc') => Keeps(doc)) /\ (Clean(doc') => Clean(doc))
  BY <1>1 DEF Keeps, Clean
<1>9. (Keeps(doc) => Sub(doc.shown, p.out)) /\ (Clean(doc) => Sub(p.out, doc.shown))
  BY <1>7 DEF WordOK
<1>10. (/\ kind = file.fmt /\ kind # "eml"
        /\ Keeps(doc) => Sub(doc.shown, p.out)
        /\ Clean(doc) => Sub(p.out, doc.shown)
        /\ p.out = <<>> => kind = "docx" \/ doc.shown = <<>>)' => TextIsExact'
  BY ShownIsExact, PTL
<1>. QED  BY <1>1, <1>3, <1>8, <1>9, <1>10

(***************************************************************************)
(* Slides and chapters.                                                    *)
(***************************************************************************)

LEMMA UpTo ==
  ASSUME NEW n \in Nat, NEW id, id = [j \in 1..n |-> j]
  PROVE  id \in Seq(Nat) /\ Len(id) = n /\ \A k \in 1..n : id[k] = k
OBVIOUS

(* If the order of the names is the one the parts are meant to be read in, the *)
(* ones that are meant to be read are read in their order, and nothing else is *)
(* if there is nothing else.                                                   *)
LEMMA NamesInOrder ==
  ASSUME file \in Files, NEW id, id = [j \in 1..file.spine |-> j]
  PROVE  /\ id \in Text /\ ByName \in Text /\ Len(ByName) = Len(file.parts)
         /\ InOrder => Sub(id, ByName)
         /\ InOrder /\ file.spine = Len(file.parts) => Sub(ByName, id)
<1>. DEFINE m == Len(file.parts)
            n == file.spine
            s == ByName
            name(i) == file.parts[i].name
<1>1. /\ Parts = 1..m /\ m \in Nat /\ n \in 0..m
      /\ \A i \in Parts : name(i) \in Nat
  BY FileTypes
<1>2. /\ s \in Seq(Parts) /\ DOMAIN s = Parts /\ Range(s) = Parts
      /\ \A k, l \in Parts : k < l => name(s[k]) < name(s[l])
  BY ByNameIsOrder
<1>0. id = [j \in 1..n |-> j]
  OBVIOUS
<1>7. InOrder => \A i, j \in 1..n : i < j => name(i) < name(j)
  BY DEF InOrder
<1>. HIDE DEF m, s, n
<1>3. Len(s) = m /\ \A k \in 1..m : s[k] \in 1..m
  BY <1>1, <1>2
<1>4. id \in Seq(Nat) /\ Len(id) = n /\ \A k \in 1..n : id[k] = k
  <2>1. n \in Nat
    BY <1>1
  <2>. QED  BY <1>0, <2>1, UpTo, Zenon
<1>5. id \in Text /\ s \in Text
  BY <1>1, <1>2, <1>4 DEF Text
<1>. HIDE DEF name
(* What is meant to be read is read in its order.                              *)
<1>6. ASSUME InOrder,
             NEW k \in 1..m, NEW l \in 1..m, s[k] \in 1..n, s[l] \in 1..n, k < l
      PROVE  s[k] < s[l]
  <2>1. s[k] \in Parts /\ s[l] \in Parts /\ s[k] \in Nat /\ s[l] \in Nat
    BY <1>1, <1>3
  <2>2. name(s[k]) < name(s[l]) /\ name(s[k]) \in Nat /\ name(s[l]) \in Nat
    BY <1>1, <1>2, <1>6, <2>1
  <2>3. ~ (s[l] < s[k])
    <3>1. s[l] < s[k] => name(s[l]) < name(s[k])
      BY <1>6, <1>7
    <3>. QED  BY <2>2, <3>1
  <2>4. s[l] # s[k]
    BY <2>2
  <2>. QED  BY <2>1, <2>3, <2>4
<1>8. ASSUME InOrder, n = m PROVE Sub(s, id)
  <2>. DEFINE e == [k \in 1..m |-> s[k]]
  <2>1. e \in [1..m -> 1..m] /\ \A k \in 1..m : e[k] = s[k]
    BY <1>3
  <2>. HIDE DEF e
  <2>2. \A k, l \in 1..m : k < l => e[k] < e[l]
    BY <1>3, <1>6, <1>8, <2>1
  <2>3. \A k \in 1..m : id[e[k]] = s[k]
    BY <1>3, <1>4, <1>8, <2>1
  <2>4. Places(e, s, id)
    BY <1>3, <1>4, <1>8, <2>1, <2>2, <2>3 DEF Places
  <2>. QED  BY <1>5, <2>4 DEF Sub
<1>9. ASSUME InOrder PROVE Sub(id, s)
  <2>1. \A i \in 1..n : \E k \in 1..m : s[k] = i
    <3>1. \A i \in 1..n : i \in Parts
      BY <1>1
    <3>2. \A i \in Parts : \E k \in Parts : s[k] = i
      BY <1>2, Zenon DEF Range
    <3>. QED  BY <1>1, <3>1, <3>2
  <2>. DEFINE e == [i \in 1..n |-> CHOOSE k \in 1..m : s[k] = i]
  <2>2. e \in [1..n -> 1..m] /\ \A i \in 1..n : s[e[i]] = i
    BY <2>1
  <2>. HIDE DEF e
  <2>3. ASSUME NEW i \in 1..n, NEW j \in 1..n, i < j PROVE e[i] < e[j]
    <3>1. e[i] \in 1..m /\ e[j] \in 1..m /\ s[e[i]] = i /\ s[e[j]] = j
      BY <2>2
    <3>2. e[j] < e[i] => j < i
      BY <1>6, <1>9, <3>1
    <3>3. e[i] # e[j] /\ e[i] \in Nat /\ e[j] \in Nat /\ ~ (j < i)
      BY <1>1, <2>3, <3>1
    <3>. QED  BY <3>2, <3>3
  <2>4. Places(e, id, s)
    BY <1>3, <1>4, <2>2, <2>3 DEF Places
  <2>. QED  BY <1>5, <2>4 DEF Sub
<1>. QED  BY <1>3, <1>5, <1>8, <1>9 DEF s, m, n

(* A slide or a chapter is read.                                               *)
LEMMA SlideRead ==
  ASSUME file \in Files, IsDoc(doc), IsParser(p), kind \in {"pptx", "epub"}, SlidesOK(doc, p),
         archive = [f \in {"todo", "total", "read", "probed"} |-> archive[f]], ReadPart
  PROVE  SlidesOK(doc, p)' /\ IsParser(p') /\ IsDoc(doc') /\ UNCHANGED <<file, kind, phase>>
<1>. DEFINE i == Head(archive.todo)
            id == [j \in 1..file.spine |-> j]
            odd == PartOdd
            todo == archive.todo
            k == Len(p.out)
<1>1. /\ todo # <<>> /\ UNCHANGED <<file, kind, phase>> /\ Charged(file.parts[i].size)
      /\ p' = [p EXCEPT !.out = Append(p.out, i)]
      /\ doc' = [doc EXCEPT !.shown = id, !.odd = odd]
  BY Zenon DEF ReadPart
<1>. HIDE DEF id, odd, i
<1>2. IsParser(p') /\ p'.out = Append(p.out, i)
  BY <1>1, InParser, Zenon DEF IsParser
<1>3. IsDoc(doc') /\ doc'.shown = id /\ doc'.odd = odd
  <2>. DEFINE c == [doc EXCEPT !.shown = id]
  <2>1. DOMAIN c = DOMAIN doc /\ c.shown = id
    BY InDoc, Zenon
  <2>2. doc' = [c EXCEPT !.odd = odd]
    BY <1>1, Zenon
  <2>. HIDE DEF c
  <2>3. "odd" \in DOMAIN c /\ "shown" \in DOMAIN c
    BY <2>1, InDoc
  <2>. QED  BY <2>1, <2>2, <2>3, Zenon DEF IsDoc
<1>4. archive'.todo = Tail(todo)
  <2>. DEFINE a == [archive EXCEPT !.todo = Tail(todo)]
  <2>0. /\ "todo" \in DOMAIN archive /\ "read" \in DOMAIN archive /\ "total" \in DOMAIN archive
    OBVIOUS
  <2>. DEFINE x == archive.read + Min({file.parts[i].size, MaxEntry + 1})
              y == IF file.parts[i].size <= MaxEntry THEN archive.total + file.parts[i].size
                   ELSE archive.total
              b == [a EXCEPT !.read = x]
  <2>1. DOMAIN a = DOMAIN archive /\ a.todo = Tail(todo) /\ a.read = archive.read /\ a.total = archive.total
    BY <2>0, Zenon
  <2>3. archive' = [b EXCEPT !.total = y]
    BY <1>1, <2>0, Zenon DEF Charged
  <2>. HIDE DEF a, x, y
  <2>2. DOMAIN b = DOMAIN archive /\ b.todo = Tail(todo)
    BY <2>0, <2>1, Zenon
  <2>. HIDE DEF b
  <2>. QED  BY <2>0, <2>2, <2>3, Zenon
<1>5. /\ p.out \in Seq(Parts) /\ todo \in Seq(Parts) /\ k + Len(todo) = Len(ByName)
      /\ \A j \in DOMAIN p.out : p.out[j] = ByName[j]
      /\ \A j \in DOMAIN todo : todo[j] = ByName[k + j]
  BY DEF SlidesOK
<1>6. /\ i \in Parts /\ i = todo[1] /\ 1 \in DOMAIN todo /\ Len(todo) \in Nat \ {0}
      /\ Tail(todo) \in Seq(Parts) /\ Len(Tail(todo)) = Len(todo) - 1
      /\ \A j \in 1..Len(Tail(todo)) : Tail(todo)[j] = todo[j + 1]
      /\ DOMAIN todo = 1..Len(todo) /\ DOMAIN Tail(todo) = 1..(Len(todo) - 1)
  <2>1. /\ Head(todo) \in Parts /\ Tail(todo) \in Seq(Parts) /\ Len(Tail(todo)) = Len(todo) - 1
        /\ \A j \in 1..Len(Tail(todo)) : Tail(todo)[j] = todo[j + 1]
    BY <1>1, <1>5, HeadTailProperties
  <2>2. Len(todo) \in Nat \ {0} /\ DOMAIN todo = 1..Len(todo) /\ Head(todo) = todo[1]
    BY <1>1, <1>5
  <2>. QED  BY <2>1, <2>2 DEF i
<1>7. /\ p'.out \in Seq(Parts) /\ Len(p'.out) = k + 1 /\ p'.out[k + 1] = i
      /\ DOMAIN p'.out = 1..(k + 1) /\ p'.out # <<>> /\ k \in Nat /\ DOMAIN p.out = 1..k
      /\ \A j \in 1..k : p'.out[j] = p.out[j]
  BY <1>2, <1>5, <1>6, Pushed
<1>8. i = ByName[k + 1]
  BY <1>5, <1>6
<1>. HIDE DEF k, todo
<1>9. Len(p'.out) + Len(archive'.todo) = Len(ByName)
  BY <1>4, <1>5, <1>6, <1>7
<1>10. \A j \in DOMAIN p'.out : p'.out[j] = ByName[j]
  <2>1. ASSUME NEW j \in 1..(k + 1) PROVE p'.out[j] = ByName[j]
    <3>1. j = k + 1 \/ j \in 1..k
      BY <1>7
    <3>. QED  BY <1>5, <1>7, <1>8, <3>1
  <2>. QED  BY <1>7, <2>1
<1>11. \A j \in DOMAIN archive'.todo : archive'.todo[j] = ByName[Len(p'.out) + j]
  <2>1. ASSUME NEW j \in 1..(Len(todo) - 1) PROVE Tail(todo)[j] = ByName[(k + 1) + j]
    <3>0. k \in Nat /\ Len(todo) \in Nat /\ j \in 1..Len(Tail(todo))
          /\ DOMAIN todo = 1..Len(todo)
      BY <1>6, <1>7
    <3>1. j + 1 \in DOMAIN todo /\ k + (j + 1) = (k + 1) + j /\ j \in 1..Len(Tail(todo))
      BY <3>0
    <3>2. Tail(todo)[j] = todo[j + 1]
      BY <1>6, <3>1
    <3>3. todo[j + 1] = ByName[k + (j + 1)]
      BY <1>5, <3>1
    <3>. QED  BY <3>1, <3>2, <3>3
  <2>. QED  BY <1>4, <1>6, <1>7, <2>1
<1>12. Parts' = Parts /\ ByName' = ByName /\ PartOdd' = PartOdd /\ file' = file
  BY <1>1 DEF Parts, ByName, InOrder, PartOdd
<1>13. doc'.shown = [j \in 1..file.spine |-> j] /\ doc'.odd = PartOdd
  BY <1>3, Zenon DEF id, odd
<1>14. SlidesOK(doc, p)'
  BY <1>4, <1>6, <1>7, <1>9, <1>10, <1>11, <1>12, <1>13 DEF SlidesOK
<1>. QED  BY <1>1, <1>2, <1>3, <1>14

(* All slides are read, in the order of their names.                           *)
LEMMA SlidesEnd ==
  ASSUME file \in Files, kind = file.fmt, kind \in {"pptx", "epub"}, SlidesOK(doc, p),
         archive.todo = <<>>, UNCHANGED <<file, kind, p, doc>>
  PROVE  TextIsExact'
<1>. DEFINE id == [j \in 1..file.spine |-> j]
            m == Len(file.parts)
<1>1. /\ id \in Text /\ ByName \in Text /\ Len(ByName) = m
      /\ InOrder => Sub(id, ByName)
      /\ InOrder /\ file.spine = m => Sub(ByName, id)
  BY NamesInOrder
<1>2. p.out = ByName
  <2>1. /\ p.out \in Seq(Parts) /\ Len(p.out) = Len(ByName)
        /\ \A j \in 1..Len(p.out) : p.out[j] = ByName[j]
    <3>1. /\ p.out \in Seq(Parts) /\ Len(p.out) + Len(archive.todo) = Len(ByName)
          /\ \A j \in DOMAIN p.out : p.out[j] = ByName[j]
      BY DEF SlidesOK
    <3>2. Len(archive.todo) = 0 /\ Len(p.out) \in Nat /\ DOMAIN p.out = 1..Len(p.out)
      BY <3>1
    <3>. QED  BY <3>1, <3>2
  <2>2. ByName \in Seq(Parts)
    BY ByNameIsOrder
  <2>. QED  BY <2>1, <2>2, SeqEqual
<1>. HIDE DEF id
<1>3. (/\ kind = file.fmt /\ kind # "eml"
       /\ Keeps(doc) => Sub(doc.shown, p.out)
       /\ Clean(doc) => Sub(p.out, doc.shown)
       /\ p.out = <<>> => kind = "docx" \/ doc.shown = <<>>)' => TextIsExact'
  BY ShownIsExact, PTL
<1>4. CASE p.out = <<>>
  <2>1. doc.shown = <<>> /\ <<>> \in Text
    BY <1>4, TextLaws DEF SlidesOK
  <2>2. Sub(doc.shown, p.out) /\ Sub(p.out, doc.shown)
    BY <1>4, <2>1, SubOfItself
  <2>. QED  BY <1>3, <2>1, <2>2
<1>5. CASE p.out # <<>>
  <2>1. doc.shown = id /\ doc.odd = PartOdd
    BY <1>5 DEF SlidesOK, id
  <2>2. (Keeps(doc) => InOrder) /\ (Clean(doc) => InOrder /\ ~(file.spine < m))
    BY <2>1 DEF Keeps, Clean, Losing, Leaking, PartOdd
  <2>4. Clean(doc) => file.spine = m
    BY <2>2, FileTypes
  <2>3. (Keeps(doc) => Sub(doc.shown, p.out)) /\ (Clean(doc) => Sub(p.out, doc.shown))
    BY <1>1, <1>2, <2>1, <2>2, <2>4
  <2>. QED  BY <1>3, <1>5, <2>3
<1>. QED  BY <1>4, <1>5

(***************************************************************************)
(* Mail: the ways to read a container.                                     *)
(***************************************************************************)

Together(ways, w) == {a \o b : a \in ways, b \in w}

(* The ways to read two parts one after the other.                             *)
LEMMA WaysTogether ==
  ASSUME NEW ways, Ways(ways), NEW w, Ways(w)
  PROVE  /\ Ways(Together(ways, w)) /\ (<<>> \notin w => <<>> \notin Together(ways, w))
         /\ \A a \in ways, b \in w : a \o b \in Together(ways, w)
<1>1. ways \subseteq Text /\ w \subseteq Text /\ ways # {} /\ w # {}
  BY DEF Ways
<1>2. \A a \in ways, b \in w : a \o b \in Together(ways, w)
  BY DEF Together
<1>3. \A c \in Together(ways, w) : \E a \in ways, b \in w : c = a \o b
  BY DEF Together
<1>. HIDE DEF Together
<1>4. \A a \in ways, b \in w : a \in Text /\ b \in Text
  BY <1>1
<1>5. Together(ways, w) \subseteq Text
  <2>1. ASSUME NEW c \in Together(ways, w) PROVE c \in Text
    <3>1. PICK a \in ways, b \in w : c = a \o b
      BY <1>3
    <3>2. a \in Text /\ b \in Text
      BY <1>4
    <3>3. a \o b \in Text
      BY <3>2, TextLaws
    <3>. QED  BY <3>1, <3>3
  <2>. QED  BY <2>1
<1>6. Together(ways, w) # {}
  BY <1>1, <1>2
<1>7. ASSUME <<>> \notin w PROVE <<>> \notin Together(ways, w)
  <2>1. SUFFICES ASSUME <<>> \in Together(ways, w) PROVE FALSE
    OBVIOUS
  <2>2. PICK a \in ways, b \in w : <<>> = a \o b
    BY <1>3, <2>1
  <2>3. b = <<>>
    BY <1>4, <2>2, TextLaws
  <2>. QED  BY <1>7, <2>3
<1>. QED  BY <1>2, <1>5, <1>6, <1>7 DEF Ways

LEMMA PiecesAreTexts ==
  ASSUME NEW these \in Seq(Pieces)
  PROVE  these \in Seq(Text) /\ FlattenSeq(these) \in Text
<1>1. these \in Seq(Text)
  BY DEF Pieces
<1>. QED  BY <1>1, FlattenLaws

(* A text joins the list.                                                      *)
LEMMA OneGrows ==
  ASSUME NEW d, NEW ways, Ways(ways), NEW w, Ways(w), NEW these \in Seq(Pieces), NEW others,
         NEW t \in Text, OneOf(d, ways, these, others), Renders(d, w, t)
  PROVE  OneOf(d, Together(ways, w), Append(these, t), others)
<1>. DEFINE s == FlattenSeq(these)
            more == FlattenSeq(Append(these, t))
<1>1. more = s \o t
  BY PiecesAreTexts, FlattenLaws
<1>2. \A a \in ways, b \in w : a \o b \in Together(ways, w)
  BY WaysTogether
<1>3. /\ Keeps(d) /\ others = <<>> => \E a \in ways : Sub(a, s)
      /\ Clean(d) => \E a \in ways : Sub(s, a)
      /\ Keeps(d) => \E b \in w : Sub(b, t)
      /\ Clean(d) => \E b \in w : Sub(t, b)
  BY Zenon DEF OneOf, Renders
<1>. HIDE DEF s, more
<1>4. ASSUME Keeps(d), others = <<>> PROVE \E c \in Together(ways, w) : Sub(c, more)
  <2>1. PICK a \in ways : Sub(a, s)
    BY <1>3, <1>4
  <2>2. PICK b \in w : Sub(b, t)
    BY <1>3, <1>4
  <2>3. Sub(a \o b, s \o t)
    BY <2>1, <2>2, SubJoined
  <2>. QED  BY <1>1, <1>2, <2>3
<1>5. ASSUME Clean(d) PROVE \E c \in Together(ways, w) : Sub(more, c)
  <2>1. PICK a \in ways : Sub(s, a)
    BY <1>3, <1>5
  <2>2. PICK b \in w : Sub(t, b)
    BY <1>3, <1>5
  <2>3. Sub(s \o t, a \o b)
    BY <2>1, <2>2, SubJoined
  <2>. QED  BY <1>1, <1>2, <2>3
<1>. QED  BY <1>4, <1>5, Zenon DEF OneOf, more

(* A text joins the other list.                                                *)
LEMMA OtherGrows ==
  ASSUME NEW d, NEW ways, Ways(ways), NEW w, Ways(w), NEW these, NEW others,
         NEW more, more # <<>>, OneOf(d, ways, these, others)
  PROVE  OneOf(d, Together(ways, w), these, more)
<1>. DEFINE s == FlattenSeq(these)
<1>1. \A a \in ways, b \in w : a \o b \in Together(ways, w)
  BY WaysTogether
<1>2. Clean(d) => \E a \in ways : Sub(s, a)
  BY Zenon DEF OneOf
<1>. HIDE DEF s
<1>3. PICK b \in w : b \in Text
  BY DEF Ways
<1>4. ASSUME Clean(d) PROVE \E c \in Together(ways, w) : Sub(s, c)
  <2>1. PICK a \in ways : Sub(s, a)
    BY <1>2, <1>4
  <2>2. Sub(s, a \o b)
    BY <1>3, <2>1, SubGrows
  <2>. QED  BY <1>1, <1>3, <2>2
<1>. QED  BY <1>4, Zenon DEF OneOf, s

(* A way more does not disturb the others.                                     *)
LEMMA EachStays ==
  ASSUME NEW d, NEW ways, NEW more, NEW these, EachOf(d, ways, these), ways \subseteq more
  PROVE  EachOf(d, more, these)
BY Zenon DEF EachOf, Renders

(* One more text, rendered like the others.                                    *)
LEMMA EachGrows ==
  ASSUME NEW d, NEW ways, NEW these \in Seq(Pieces), EachOf(d, ways, these),
         NEW t \in Pieces, Renders(d, ways, t)
  PROVE  EachOf(d, ways, Append(these, t))
<1>. DEFINE new == Append(these, t)
<1>1. /\ DOMAIN new = 1..(Len(these) + 1) /\ new[Len(these) + 1] = t
      /\ DOMAIN these = 1..Len(these) /\ Len(these) \in Nat
      /\ \A i \in 1..Len(these) : new[i] = these[i]
  BY Pushed
<1>. HIDE DEF new
<1>2. ASSUME NEW i \in DOMAIN new PROVE Renders(d, ways, new[i])
  <2>1. i = Len(these) + 1 \/ i \in 1..Len(these)
    BY <1>1
  <2>2. CASE i = Len(these) + 1
    BY <1>1, <2>2
  <2>3. CASE i \in 1..Len(these)
    <3>1. new[i] = these[i] /\ i \in DOMAIN these
      BY <1>1, <2>3
    <3>. QED  BY <3>1, Zenon DEF EachOf
  <2>. QED  BY <2>1, <2>2, <2>3
<1>. QED  BY <1>2, Zenon DEF EachOf, new

(* A part joins its container: the file's, and the reader's lists.             *)
LEMMA PartJoins ==
  ASSUME NEW d, NEW box, NEW parts, BoxOK(d, box, parts),
         DOMAIN box = {"alt", "ways"}, DOMAIN parts = {"plain", "html"},
         NEW w, Ways(w), NEW t \in Text, NEW html \in BOOLEAN, Renders(d, w, t),
         t = <<>> => w = {<<>>}, t # <<>> => <<>> \notin w
  PROVE  BoxOK(d, Joined(box, w), Kept(parts, t, html))
<1>1. CASE t = <<>>
  <2>1. Joined(box, w) = box /\ Kept(parts, t, html) = parts
    <3>1. w = {<<>>}
      BY <1>1
    <3>2. Joined(box, w) = box
      BY <3>1 DEF Joined
    <3>3. Kept(parts, t, html) = parts
      BY <1>1, Zenon DEF Kept
    <3>. QED  BY <3>2, <3>3
  <2>. QED  BY <2>1, Zenon
<1>2. CASE t # <<>>
  <2>. DEFINE more == Together(box.ways, w)
              alts == (box.ways \ {<<>>}) \union w
              new == Joined(box, w)
              kept == Kept(parts, t, html)
  <2>1. /\ Ways(box.ways) /\ box.alt \in BOOLEAN
        /\ parts.plain \in Seq(Pieces) /\ parts.html \in Seq(Pieces)
        /\ parts.plain # <<>> \/ parts.html # <<>> => <<>> \notin box.ways
    BY Zenon DEF BoxOK
  <2>2. t \in Pieces /\ <<>> \notin w /\ w # {<<>>}
    <3>1. <<>> \notin w
      BY <1>2
    <3>. QED  BY <1>2, <3>1 DEF Pieces
  <2>3. /\ new.alt = box.alt /\ (box.alt => new.ways = alts) /\ (~box.alt => new.ways = more)
    <3>1. "alt" \in DOMAIN box /\ "ways" \in DOMAIN box
      OBVIOUS
    <3>2. new = [box EXCEPT !.ways = IF box.alt THEN alts ELSE more]
      BY <2>2 DEF Joined, Together
    <3>. HIDE DEF new, alts, more
    <3>. QED  BY <3>1, <3>2, Zenon
  <2>4. /\ kept.plain = IF html THEN parts.plain ELSE Append(parts.plain, t)
        /\ kept.html = IF html THEN Append(parts.html, t) ELSE parts.html
    <3>1. "plain" \in DOMAIN parts /\ "html" \in DOMAIN parts
      OBVIOUS
    <3>. QED  BY <1>2, <3>1, Zenon DEF Kept
  <2>. HIDE DEF new, kept
  <2>5. Ways(more) /\ <<>> \notin more
    BY <2>1, <2>2, WaysTogether
  <2>6. Ways(alts) /\ <<>> \notin alts
    BY <2>1, <2>2 DEF Ways
  <2>. HIDE DEF more, alts
  <2>7. /\ Ways(new.ways) /\ <<>> \notin new.ways /\ new.alt \in BOOLEAN
    <3>1. CASE box.alt
      BY <2>1, <2>3, <2>6, <3>1
    <3>2. CASE ~box.alt
      BY <2>1, <2>3, <2>5, <3>2
    <3>. QED  BY <3>1, <3>2
  <2>8. /\ Append(parts.plain, t) \in Seq(Pieces) /\ Append(parts.plain, t) # <<>>
        /\ Append(parts.html, t) \in Seq(Pieces) /\ Append(parts.html, t) # <<>>
    BY <2>1, <2>2, Pushed
  <2>9. /\ kept.plain \in Seq(Pieces) /\ kept.html \in Seq(Pieces)
        /\ kept.plain # <<>> \/ kept.html # <<>>
    <3>1. CASE html
      BY <2>1, <2>4, <2>8, <3>1
    <3>2. CASE ~html
      BY <2>1, <2>4, <2>8, <3>2
    <3>. QED  BY <3>1, <3>2
  <2>10. ASSUME box.alt PROVE EachOf(d, new.ways, kept.plain) /\ EachOf(d, new.ways, kept.html)
    <3>1. EachOf(d, box.ways, parts.plain) /\ EachOf(d, box.ways, parts.html)
      BY <2>10, Zenon DEF BoxOK
    <3>2. ASSUME NEW these, EachOf(d, box.ways, these), these # <<>> => <<>> \notin box.ways
          PROVE  EachOf(d, alts, these)
      <4>1. CASE these = <<>>
        BY <4>1 DEF EachOf
      <4>2. CASE these # <<>>
        <5>1. box.ways \subseteq alts
          BY <3>2, <4>2 DEF alts
        <5>. QED  BY <3>2, <5>1, EachStays
      <4>. QED  BY <4>1, <4>2
    <3>3. EachOf(d, alts, parts.plain) /\ EachOf(d, alts, parts.html)
      BY <2>1, <3>1, <3>2
    <3>4. Renders(d, alts, t)
      <4>1. w \subseteq alts
        BY DEF alts
      <4>. QED  BY <4>1, Zenon DEF Renders
    <3>5. EachOf(d, alts, Append(parts.plain, t))
      BY <2>1, <2>2, <3>3, <3>4, EachGrows
    <3>6. EachOf(d, alts, Append(parts.html, t))
      BY <2>1, <2>2, <3>3, <3>4, EachGrows
    <3>7. EachOf(d, alts, kept.plain) /\ EachOf(d, alts, kept.html)
      <4>1. CASE html
        BY <2>4, <3>3, <3>6, <4>1, Zenon
      <4>2. CASE ~html
        BY <2>4, <3>3, <3>5, <4>2, Zenon
      <4>. QED  BY <4>1, <4>2
    <3>. QED  BY <2>3, <2>10, <3>7, Zenon
  <2>11. ASSUME ~box.alt
         PROVE  /\ OneOf(d, new.ways, kept.plain, kept.html)
                /\ OneOf(d, new.ways, kept.html, kept.plain)
    <3>1. OneOf(d, box.ways, parts.plain, parts.html) /\ OneOf(d, box.ways, parts.html, parts.plain)
      BY <2>11, Zenon DEF BoxOK
    <3>2. CASE html
      <4>1. OneOf(d, Together(box.ways, w), Append(parts.html, t), parts.plain)
        BY <2>1, <3>1, OneGrows
      <4>2. OneOf(d, Together(box.ways, w), parts.plain, Append(parts.html, t))
        BY <2>1, <2>8, <3>1, OtherGrows
      <4>. QED  BY <2>3, <2>4, <2>11, <3>2, <4>1, <4>2, Zenon DEF more
    <3>3. CASE ~html
      <4>1. OneOf(d, Together(box.ways, w), Append(parts.plain, t), parts.html)
        BY <2>1, <3>1, OneGrows
      <4>2. OneOf(d, Together(box.ways, w), parts.html, Append(parts.plain, t))
        BY <2>1, <2>8, <3>1, OtherGrows
      <4>. QED  BY <2>3, <2>4, <2>11, <3>3, <4>1, <4>2, Zenon DEF more
    <3>. QED  BY <3>2, <3>3
  <2>12. BoxOK(d, new, kept)
    <3>1. kept.plain = <<>> /\ kept.html = <<>> => new.ways = {<<>>}
      BY <2>9
    <3>. QED  BY <2>3, <2>7, <2>9, <2>10, <2>11, <3>1, Zenon DEF BoxOK
  <2>. QED  BY <2>12, Zenon DEF new, kept
<1>. QED  BY <1>1, <1>2

(* What the container of some texts is read as.                                *)
LEMMA BoxReads ==
  ASSUME NEW d, NEW box, NEW parts, BoxOK(d, box, parts), NEW e, IsDoc(d),
         e.odd = d.odd \union MailOdd(box, parts)
  PROVE  LET t == FlattenSeq(Chosen(parts))
         IN  /\ t \in Text /\ Ways(box.ways) /\ Renders(e, box.ways, t)
             /\ t = <<>> => box.ways = {<<>>}
             /\ t # <<>> => <<>> \notin box.ways
<1>. DEFINE c == Chosen(parts)
            t == FlattenSeq(c)
<1>1. /\ Ways(box.ways) /\ box.alt \in BOOLEAN
      /\ parts.plain \in Seq(Pieces) /\ parts.html \in Seq(Pieces)
      /\ parts.plain = <<>> /\ parts.html = <<>> => box.ways = {<<>>}
      /\ parts.plain # <<>> \/ parts.html # <<>> => <<>> \notin box.ways
  BY Zenon DEF BoxOK
<1>2. /\ c \in Seq(Pieces)
      /\ c = <<>> => parts.plain = <<>> /\ parts.html = <<>>
      /\ c # <<>> => parts.plain # <<>> \/ parts.html # <<>>
      /\ parts.plain # <<>> => c = parts.plain
      /\ parts.plain = <<>> => c = parts.html
  BY <1>1 DEF Chosen
<1>3. (Keeps(e) => Keeps(d)) /\ (Clean(e) => Clean(d))
  BY MoreOdd
<1>4. CASE c = <<>>
  <2>1. t = <<>>
    BY <1>4, <1>2, PiecesAreTexts, FlattenLaws
  <2>2. t \in Text /\ Sub(t, t) /\ box.ways = {<<>>}
    BY <1>1, <1>2, <1>4, <2>1, TextLaws, SubOfItself
  <2>. HIDE DEF t
  <2>3. Renders(e, box.ways, t)
    BY <2>1, <2>2 DEF Renders
  <2>. QED  BY <1>1, <2>1, <2>2, <2>3 DEF t
<1>5. CASE c # <<>>
  <2>. DEFINE f == Front(c)
              x == Last(c)
              s == FlattenSeq(f)
  <2>1. f \in Seq(Pieces) /\ x \in Pieces /\ c = Append(f, x) /\ Len(c) \in Nat \ {0}
        /\ x = c[Len(c)] /\ Len(f) = Len(c) - 1
    <3>1. /\ f \in Seq(Pieces) /\ x \in Pieces /\ Len(f) = Len(c) - 1 /\ Len(c) \in Nat \ {0}
          /\ x = c[Len(c)] /\ \A i \in 1..(Len(c) - 1) : f[i] = c[i]
      BY <1>2, <1>5, Popped
    <3>. HIDE DEF f, x, c
    <3>2. c = Append(f, x)
      <4>1. /\ Append(f, x) \in Seq(Pieces) /\ Len(Append(f, x)) = Len(f) + 1
            /\ Append(f, x)[Len(f) + 1] = x
            /\ \A i \in 1..Len(f) : Append(f, x)[i] = f[i]
        BY <3>1, Pushed
      <4>2. Len(Append(f, x)) = Len(c) /\ Len(f) + 1 = Len(c)
        BY <3>1, <4>1
      <4>3. ASSUME NEW i \in 1..Len(c) PROVE Append(f, x)[i] = c[i]
        <5>1. i = Len(c) \/ i \in 1..Len(f)
          BY <3>1
        <5>. QED  BY <3>1, <4>1, <4>2, <5>1
      <4>. QED  BY <1>2, <4>1, <4>2, <4>3, SeqEqual
    <3>. QED  BY <3>1, <3>2
  <2>2. s \in Text /\ x \in Text /\ x # <<>> /\ Append(f, x) \in Seq(Pieces)
    BY <2>1, PiecesAreTexts, Pushed DEF Pieces
  <2>3. t = s \o x
    <3>1. FlattenSeq(Append(f, x)) = s \o x
      BY <2>1, <2>2, PiecesAreTexts, FlattenLaws
    <3>. QED  BY <2>1, <3>1
  <2>4. t \in Text /\ t # <<>>
    <3>. HIDE DEF s, x, t
    <3>. QED  BY <2>2, <2>3, TextLaws
  <2>5. <<>> \notin box.ways
    BY <1>1, <1>2, <1>5
  <2>6. Renders(e, box.ways, t)
    <3>1. CASE box.alt
      <4>1. EachOf(d, box.ways, c)
        BY <1>2, <3>1, Zenon DEF BoxOK
      <4>. HIDE DEF t, s, x, f
      <4>2. Renders(d, box.ways, x)
        <5>1. x = c[Len(c)] /\ Len(c) \in DOMAIN c
          BY <1>2, <2>1
        <5>. QED  BY <4>1, <5>1, Zenon DEF EachOf
      <4>3. ASSUME Keeps(e) PROVE \E w \in box.ways : Sub(w, t)
        <5>1. PICK w \in box.ways : Sub(w, x)
          BY <1>3, <4>2, <4>3, Zenon DEF Renders
        <5>2. Sub(<<>> \o w, s \o x)
          BY <2>2, <5>1, EmptySub, SubJoined
        <5>3. w \in Text
          BY <5>1, SubTypes
        <5>4. <<>> \o w = w
          BY <5>3, TextLaws, Zenon
        <5>. QED  BY <2>3, <5>1, <5>2, <5>4
      <4>4. ASSUME Clean(e) PROVE \E w \in box.ways : Sub(t, w)
        <5>1. ~ (Len(c) > 1)
          <6>1. Len(c) > 1 => "rendered twice" \in e.odd
            BY <3>1 DEF MailOdd
          <6>. QED  BY <4>4, <6>1 DEF Clean, Leaking
        <5>2. Len(f) = 0
          BY <2>1, <5>1
        <5>3. s = <<>>
          <6>1. f = <<>>
            BY <2>1, <5>2
          <6>. QED  BY <2>1, <6>1, PiecesAreTexts, FlattenLaws DEF s
        <5>4. t = x
          <6>1. <<>> \o x = x
            BY <2>2, TextLaws, Zenon
          <6>. QED  BY <2>3, <5>3, <6>1
        <5>. QED  BY <1>3, <4>2, <4>4, <5>4, Zenon DEF Renders
      <4>. QED  BY <4>3, <4>4, Zenon DEF Renders
    <3>2. CASE ~box.alt
      <4>1. /\ OneOf(d, box.ways, parts.plain, parts.html)
            /\ OneOf(d, box.ways, parts.html, parts.plain)
        BY <3>2, Zenon DEF BoxOK
      <4>2. Keeps(e) => parts.plain = <<>> \/ parts.html = <<>>
        <5>1. parts.plain # <<>> /\ parts.html # <<>> => "html beside text" \in e.odd
          BY <3>2 DEF MailOdd
        <5>. QED  BY <5>1 DEF Keeps, Losing
      <4>3. CASE parts.plain = <<>>
        <5>1. t = FlattenSeq(parts.html)
          BY <1>2, <4>3
        <5>. HIDE DEF t
        <5>. QED  BY <1>3, <4>1, <4>3, <5>1, Zenon DEF OneOf, Renders
      <4>4. CASE parts.plain # <<>>
        <5>1. t = FlattenSeq(parts.plain)
          BY <1>2, <4>4
        <5>. HIDE DEF t
        <5>. QED  BY <1>3, <4>1, <4>2, <4>4, <5>1, Zenon DEF OneOf, Renders
      <4>. QED  BY <4>3, <4>4
    <3>. QED  BY <3>1, <3>2
  <2>. HIDE DEF t
  <2>. QED  BY <1>1, <2>4, <2>5, <2>6 DEF t
<1>. QED  BY <1>4, <1>5

(***************************************************************************)
(* Mail: the open containers.                                              *)
(***************************************************************************)

(* One container is changed, one is opened, and one is closed.                 *)
LEMMA OneReplaced ==
  ASSUME NEW d, NEW boxes, NEW lists, BoxesOK(d, boxes, lists), NEW n \in DOMAIN boxes,
         NEW b \in BoxType, NEW l \in ListType, BoxOK(d, b, l)
  PROVE  BoxesOK(d, [boxes EXCEPT ![n] = b], [lists EXCEPT ![n] = l])
<1>. DEFINE bs == [boxes EXCEPT ![n] = b]
            ls == [lists EXCEPT ![n] = l]
<1>1. /\ boxes \in Seq(BoxType) /\ lists \in Seq(ListType) /\ Len(boxes) = Len(lists)
      /\ DOMAIN boxes = 1..Len(boxes) /\ DOMAIN lists = 1..Len(boxes)
  BY DEF BoxesOK
<1>2. bs \in Seq(BoxType) /\ Len(bs) = Len(boxes) /\ DOMAIN bs = DOMAIN boxes
  BY <1>1
<1>3. ls \in Seq(ListType) /\ Len(ls) = Len(boxes)
  BY <1>1
<1>4. ASSUME NEW i \in DOMAIN boxes PROVE BoxOK(d, bs[i], ls[i])
  <2>1. CASE i = n
    <3>1. bs[i] = b /\ ls[i] = l
      BY <1>1, <2>1
    <3>. QED  BY <3>1
  <2>2. CASE i # n
    <3>1. bs[i] = boxes[i] /\ ls[i] = lists[i]
      BY <1>1, <2>2
    <3>. HIDE DEF bs, ls
    <3>. QED  BY <3>1, Zenon DEF BoxesOK
  <2>. QED  BY <2>1, <2>2
<1>. HIDE DEF bs, ls
<1>5. BoxesOK(d, bs, ls)
  BY <1>2, <1>3, <1>4, Zenon DEF BoxesOK
<1>. QED  BY <1>5 DEF bs, ls

LEMMA OneMore ==
  ASSUME NEW d, NEW boxes, NEW lists, BoxesOK(d, boxes, lists),
         NEW b \in BoxType, NEW l \in ListType, BoxOK(d, b, l)
  PROVE  BoxesOK(d, Append(boxes, b), Append(lists, l))
<1>. DEFINE bs == Append(boxes, b)
            ls == Append(lists, l)
            n == Len(boxes)
<1>1. /\ boxes \in Seq(BoxType) /\ lists \in Seq(ListType) /\ n = Len(lists) /\ n \in Nat
      /\ DOMAIN boxes = 1..n
  BY DEF BoxesOK
<1>2. /\ bs \in Seq(BoxType) /\ Len(bs) = n + 1 /\ DOMAIN bs = 1..(n + 1) /\ bs[n + 1] = b
      /\ \A i \in 1..n : bs[i] = boxes[i]
  BY <1>1, Pushed
<1>3. /\ ls \in Seq(ListType) /\ Len(ls) = n + 1 /\ ls[n + 1] = l
      /\ \A i \in 1..n : ls[i] = lists[i]
  BY <1>1, Pushed
<1>. HIDE DEF bs, ls, n
<1>4. ASSUME NEW i \in DOMAIN bs PROVE BoxOK(d, bs[i], ls[i])
  <2>1. i = n + 1 \/ i \in 1..n
    BY <1>1, <1>2
  <2>2. CASE i = n + 1
    BY <1>2, <1>3, <2>2
  <2>3. CASE i \in 1..n
    <3>1. bs[i] = boxes[i] /\ ls[i] = lists[i] /\ i \in DOMAIN boxes
      BY <1>1, <1>2, <1>3, <2>3
    <3>. QED  BY <3>1, Zenon DEF BoxesOK
  <2>. QED  BY <2>1, <2>2, <2>3
<1>5. BoxesOK(d, bs, ls)
  <2>1. Len(bs) = Len(ls)
    BY <1>2, <1>3
  <2>. QED  BY <1>2, <1>3, <1>4, <2>1, Zenon DEF BoxesOK
<1>. QED  BY <1>5 DEF bs, ls

LEMMA OneLess ==
  ASSUME NEW d, NEW boxes, NEW lists, BoxesOK(d, boxes, lists), boxes # <<>>
  PROVE  BoxesOK(d, Front(boxes), Front(lists))
<1>. DEFINE bs == Front(boxes)
            ls == Front(lists)
            n == Len(boxes)
<1>1. boxes \in Seq(BoxType) /\ lists \in Seq(ListType) /\ n = Len(lists)
  BY DEF BoxesOK
<1>2. /\ bs \in Seq(BoxType) /\ Len(bs) = n - 1 /\ DOMAIN bs = 1..(n - 1)
      /\ n \in Nat \ {0} /\ DOMAIN boxes = 1..n
      /\ \A i \in 1..(n - 1) : bs[i] = boxes[i]
  BY <1>1, Popped
<1>3. lists # <<>>
  BY <1>1, <1>2
<1>4. ls \in Seq(ListType) /\ Len(ls) = n - 1 /\ \A i \in 1..(n - 1) : ls[i] = lists[i]
  BY <1>1, <1>3, Popped
<1>. HIDE DEF bs, ls, n
<1>5. ASSUME NEW i \in DOMAIN bs PROVE BoxOK(d, bs[i], ls[i])
  <2>1. bs[i] = boxes[i] /\ ls[i] = lists[i] /\ i \in DOMAIN boxes
    BY <1>2, <1>4
  <2>. QED  BY <2>1, Zenon DEF BoxesOK
<1>6. BoxesOK(d, bs, ls)
  <2>1. Len(bs) = Len(ls)
    BY <1>2, <1>4
  <2>. QED  BY <1>2, <1>4, <1>5, <2>1, Zenon DEF BoxesOK
<1>. QED  BY <1>6 DEF bs, ls

(* A construct that is odd takes promises back, and makes none.                *)
LEMMA OddBoxes ==
  ASSUME NEW d, NEW e, d.odd \subseteq e.odd, NEW boxes, NEW lists, BoxesOK(d, boxes, lists)
  PROVE  BoxesOK(e, boxes, lists)
<1>1. (Keeps(e) => Keeps(d)) /\ (Clean(e) => Clean(d))
  BY MoreOdd
<1>2. ASSUME NEW ways, NEW these, NEW others, OneOf(d, ways, these, others)
      PROVE  OneOf(e, ways, these, others)
  BY <1>1, <1>2, Zenon DEF OneOf
<1>3. ASSUME NEW ways, NEW these, EachOf(d, ways, these) PROVE EachOf(e, ways, these)
  BY <1>1, <1>3, Zenon DEF EachOf, Renders
<1>4. ASSUME NEW b, NEW l, BoxOK(d, b, l) PROVE BoxOK(e, b, l)
  BY <1>2, <1>3, <1>4, Zenon DEF BoxOK
<1>. QED  BY <1>4, Zenon DEF BoxesOK

(* Types of a container that a part joins.                                     *)
LEMMA PartTypes ==
  ASSUME NEW box \in BoxType, NEW parts \in ListType, NEW w, Ways(w), NEW t \in Text,
         NEW html \in BOOLEAN
  PROVE  Joined(box, w) \in BoxType /\ Kept(parts, t, html) \in ListType
<1>. DEFINE alts == (box.ways \ {<<>>}) \union w
            more == Together(box.ways, w)
            x == IF box.alt THEN alts ELSE more
<1>1. box.ways \in SUBSET Text /\ box.alt \in BOOLEAN
  BY DEF BoxType
<1>2. alts \in SUBSET Text
  BY <1>1 DEF Ways
<1>3. ASSUME NEW c \in more PROVE c \in Text
  <2>1. PICK a \in box.ways, b \in w : c = a \o b
    BY DEF Together
  <2>2. a \in Text /\ b \in Text
    BY <1>1 DEF Ways
  <2>. QED  BY <2>1, <2>2, TextLaws
<1>4. w = {<<>>} \/ Joined(box, w) = [box EXCEPT !.ways = x]
  BY DEF Joined, Together
<1>5. w = {<<>>} => Joined(box, w) = box
  BY DEF Joined
<1>. HIDE DEF alts, more
<1>6. x \in SUBSET Text
  BY <1>2, <1>3
<1>. HIDE DEF x
<1>7. Joined(box, w) \in BoxType
  BY <1>4, <1>5, <1>6 DEF BoxType
<1>8. Kept(parts, t, html) \in ListType
  <2>1. parts.plain \in Seq(Pieces) /\ parts.html \in Seq(Pieces)
    BY DEF ListType
  <2>2. CASE t = <<>>
    BY <2>2 DEF Kept
  <2>3. CASE t # <<>>
    <3>1. Append(parts.plain, t) \in Seq(Pieces) /\ Append(parts.html, t) \in Seq(Pieces)
      BY <2>1, <2>3, Pushed DEF Pieces
    <3>2. Kept(parts, t, html) = IF html THEN [parts EXCEPT !.html = Append(parts.html, t)]
                                 ELSE [parts EXCEPT !.plain = Append(parts.plain, t)]
      BY <2>3, Zenon DEF Kept
    <3>. QED  BY <3>1, <3>2 DEF ListType
  <2>. QED  BY <2>2, <2>3
<1>. QED  BY <1>7, <1>8

LEMMA BoxFields ==
  ASSUME NEW box \in BoxType, NEW parts \in ListType
  PROVE  DOMAIN box = {"alt", "ways"} /\ DOMAIN parts = {"plain", "html"}
BY DEF BoxType, ListType

(* The changes of a mail reader.                                               *)
LEMMA ListsSet ==
  ASSUME NEW q, IsParser(q), NEW x
  PROVE  LET r == [q EXCEPT !.lists = x]
         IN  IsParser(r) /\ r.lists = x /\ r.out = q.out /\ r.held = q.held
<1>1. "lists" \in DOMAIN q /\ "out" \in DOMAIN q /\ "held" \in DOMAIN q
  BY DEF IsParser, ParserFields
<1>. QED  BY <1>1, Zenon DEF IsParser

LEMMA OutSet ==
  ASSUME NEW q, IsParser(q), NEW x
  PROVE  LET r == [q EXCEPT !.out = x]
         IN  IsParser(r) /\ r.out = x /\ r.lists = q.lists /\ r.held = q.held
<1>1. "lists" \in DOMAIN q /\ "out" \in DOMAIN q /\ "held" \in DOMAIN q
  BY DEF IsParser, ParserFields
<1>. QED  BY <1>1, Zenon DEF IsParser

(* A mail: the invariant does not look at the number of elements.              *)
LEMMA SameMail ==
  ASSUME NEW d, NEW e, NEW q, MailOK(d, q), e.boxes = d.boxes, e.whole = d.whole,
         e.ways = d.ways, e.odd = d.odd
  PROVE  MailOK(e, q)
<1>1. d.odd \subseteq e.odd
  OBVIOUS
<1>2. BoxesOK(e, e.boxes, q.lists)
  BY <1>1, OddBoxes DEF MailOK
<1>3. ASSUME NEW ways, NEW out, Renders(d, ways, out) PROVE Renders(e, ways, out)
  BY <1>3, Zenon DEF Renders, Keeps, Clean
<1>. QED  BY <1>2, <1>3, Zenon DEF MailOK

(***************************************************************************)
(* Mail: the actions.                                                      *)
(***************************************************************************)

(* A container in which there is nothing yet.                                  *)
LEMMA EmptyBoxIsOK ==
  ASSUME NEW d, NEW alt \in BOOLEAN
  PROVE  LET b == [alt |-> alt, ways |-> {<<>>}]
             l == [plain |-> <<>>, html |-> <<>>]
         IN  b \in BoxType /\ l \in ListType /\ BoxOK(d, b, l)
<1>. DEFINE b == [alt |-> alt, ways |-> {<<>>}]
            l == [plain |-> <<>>, html |-> <<>>]
<1>1. <<>> \in Text /\ <<>> \in Seq(Pieces) /\ Ways({<<>>}) /\ Sub(<<>>, <<>>)
  BY TextLaws, SubOfItself DEF Ways
<1>2. b.alt = alt /\ b.ways = {<<>>} /\ l.plain = <<>> /\ l.html = <<>>
  OBVIOUS
<1>3. b \in BoxType /\ l \in ListType
  BY <1>1, TextLaws DEF BoxType, ListType
<1>4. FlattenSeq(<<>>) = <<>>
  BY <1>1, PiecesAreTexts, FlattenLaws
<1>5. OneOf(d, {<<>>}, <<>>, <<>>)
  BY <1>1, <1>4, Zenon DEF OneOf
<1>6. EachOf(d, {<<>>}, <<>>)
  BY DEF EachOf
<1>. HIDE DEF b, l
<1>7. BoxOK(d, b, l)
  <2>1. <<>> \in b.ways /\ ~ (l.plain # <<>> \/ l.html # <<>>)
    BY <1>2
  <2>. QED  BY <1>1, <1>2, <1>5, <1>6, <2>1, Zenon DEF BoxOK
<1>. QED  BY <1>3, <1>7 DEF b, l

(* A multipart begins.                                                         *)
LEMMA MailOpens ==
  ASSUME IsDoc(doc), IsParser(p), MailOK(doc, p), NEW alt \in BOOLEAN, MailContainer(alt)
  PROVE  MailOK(doc', p') /\ IsParser(p') /\ IsDoc(doc') /\ phase' = "parse"
<1>. DEFINE b == [alt |-> alt, ways |-> {<<>>}]
            l == [plain |-> <<>>, html |-> <<>>]
            bs == Append(doc.boxes, b)
            ls == Append(p.lists, l)
            d == [doc EXCEPT !.boxes = bs]
            q == [p EXCEPT !.lists = ls]
<1>1. ~doc.whole /\ Reads({"eml"}, d, q)
  BY Zenon DEF MailContainer
<1>2. b \in BoxType /\ l \in ListType /\ BoxOK(d, b, l)
  BY EmptyBoxIsOK
<1>. HIDE DEF b, l
<1>3. IsDoc(d) /\ d.boxes = bs /\ d.whole = doc.whole /\ d.odd = doc.odd /\ d.ways = doc.ways
  <2>. HIDE DEF bs
  <2>. QED  BY DocBoxes DEF Fields
<1>4. IsParser(q) /\ q.lists = ls /\ q.out = p.out /\ q.held = p.held
  <2>. HIDE DEF ls
  <2>. QED  BY ListsSet
<1>. HIDE DEF d, q
<1>5. BoxesOK(d, doc.boxes, p.lists)
  <2>1. BoxesOK(doc, doc.boxes, p.lists) /\ doc.odd \subseteq d.odd
    BY <1>3 DEF MailOK
  <2>. QED  BY <2>1, OddBoxes
<1>6. BoxesOK(d, bs, ls)
  BY <1>2, <1>5, OneMore
<1>. HIDE DEF bs, ls
<1>7. MailOK(d, q)
  <2>1. BoxesOK(d, d.boxes, q.lists)
    BY <1>3, <1>4, <1>6, Zenon
  <2>2. /\ p.held = <<>> /\ p.out \in Text /\ doc.whole \in BOOLEAN /\ (~doc.whole => p.out = <<>>)
    BY DEF MailOK
  <2>. QED  BY <1>1, <1>3, <1>4, <2>1, <2>2, Zenon DEF MailOK
<1>8. /\ phase = "parse" /\ phase' = phase /\ p' = q /\ IsDoc(doc') /\ doc'.boxes = d.boxes
      /\ doc'.whole = d.whole /\ doc'.ways = d.ways /\ doc'.odd = d.odd
  BY <1>1, <1>3, ElementIs
<1>9. MailOK(doc', q)
  BY <1>7, <1>8, SameMail
<1>. QED  BY <1>4, <1>8, <1>9

(* A part joins the innermost of the containers that are open in d.            *)
LEMMA JoinsLast ==
  ASSUME NEW d, NEW boxes, NEW lists, BoxesOK(d, boxes, lists), NEW n, n = Len(boxes), n # 0,
         NEW w, Ways(w), NEW t \in Text, NEW html \in BOOLEAN, Renders(d, w, t),
         t = <<>> => w = {<<>>}, t # <<>> => <<>> \notin w
  PROVE  BoxesOK(d, [boxes EXCEPT ![n] = Joined(boxes[n], w)],
                    [lists EXCEPT ![n] = Kept(lists[n], t, html)])
<1>1. /\ boxes \in Seq(BoxType) /\ lists \in Seq(ListType) /\ Len(lists) = n
      /\ \A i \in DOMAIN boxes : BoxOK(d, boxes[i], lists[i])
  BY DEF BoxesOK
<1>2. n \in DOMAIN boxes /\ n \in DOMAIN lists
  BY <1>1
<1>3. boxes[n] \in BoxType /\ lists[n] \in ListType /\ BoxOK(d, boxes[n], lists[n])
  BY <1>1, <1>2
<1>4. /\ Joined(boxes[n], w) \in BoxType /\ Kept(lists[n], t, html) \in ListType
  BY <1>3, PartTypes
<1>5. DOMAIN boxes[n] = {"alt", "ways"} /\ DOMAIN lists[n] = {"plain", "html"}
  BY <1>3, BoxFields
<1>6. BoxOK(d, Joined(boxes[n], w), Kept(lists[n], t, html))
  BY <1>3, <1>5, PartJoins
<1>. QED  BY <1>2, <1>4, <1>6, OneReplaced

(* A part that is no multipart: the whole mail, an attachment, or one in a     *)
(* container.                                                                  *)
LEMMA MailReads ==
  ASSUME IsDoc(doc), IsParser(p), MailOK(doc, p), doc.n \in Nat,
         NEW type, NEW attached \in BOOLEAN, NEW blank \in BOOLEAN, MailLeaf(type, attached, blank)
  PROVE  MailOK(doc', p') /\ IsParser(p') /\ IsDoc(doc') /\ phase' = "parse"
<1>. DEFINE t == IF type = "other" \/ blank THEN <<>> ELSE <<Piece>>
            n == Len(doc.boxes)
            html == type = "html"
<1>1. /\ ~doc.whole /\ p.held = <<>> /\ p.out = <<>> /\ BoxesOK(doc, doc.boxes, p.lists)
      /\ doc.whole \in BOOLEAN /\ p.out \in Text
  BY Zenon DEF MailOK, MailLeaf
<1>2. \/ n = 0 /\ Reads({"eml"}, WholeMail(doc, {t}), Writes(t))
      \/ n # 0 /\ Reads({"eml"}, doc, p)
      \/ n # 0 /\ Reads({"eml"}, [doc EXCEPT !.boxes[n] = Joined(@, {t})],
                                 [p EXCEPT !.lists[n] = Kept(@, t, html)])
  BY Zenon DEF MailLeaf
<1>3. t \in Text
  <2>1. Piece \in Nat
    BY DEF Piece
  <2>. QED  BY <2>1, TextLaws
<1>. HIDE DEF t, n, html
<1>4. Ways({t}) /\ Sub(t, t) /\ \A d : Renders(d, {t}, t)
  <2>1. Sub(t, t) /\ Ways({t})
    BY <1>3, SubOfItself DEF Ways
  <2>. QED  BY <2>1 DEF Renders
<1>5. ASSUME NEW d, NEW q, Reads({"eml"}, d, q), MailOK(d, q), IsDoc(d), IsParser(q)
      PROVE  MailOK(doc', p') /\ IsParser(p') /\ IsDoc(doc') /\ phase' = "parse"
  <2>1. /\ phase = "parse" /\ phase' = phase /\ p' = q /\ IsDoc(doc') /\ doc'.boxes = d.boxes
        /\ doc'.whole = d.whole /\ doc'.ways = d.ways /\ doc'.odd = d.odd
    BY <1>5, ElementIs
  <2>2. MailOK(doc', q)
    BY <1>5, <2>1, SameMail
  <2>. QED  BY <1>5, <2>1, <2>2
<1>6. CASE n = 0 /\ Reads({"eml"}, WholeMail(doc, {t}), Writes(t))
  <2>. DEFINE d == WholeMail(doc, {t})
              q == Writes(t)
  <2>1. IsDoc(d) /\ d.boxes = doc.boxes /\ d.whole = TRUE /\ d.ways = {t} /\ d.odd = doc.odd
    BY DocWhole, Zenon DEF Fields
  <2>2. IsParser(q) /\ q.out = t /\ q.lists = p.lists /\ q.held = <<>>
    <3>1. q = [p EXCEPT !.out = p.out \o t]
      BY Zenon DEF Writes
    <3>2. p.out \o t = t
      BY <1>1, <1>3, TextLaws
    <3>. HIDE DEF q
    <3>3. IsParser(q) /\ q.out = p.out \o t /\ q.lists = p.lists /\ q.held = p.held
      BY <3>1, OutSet, Zenon
    <3>. QED  BY <1>1, <3>2, <3>3
  <2>3. Reads({"eml"}, d, q)
    BY <1>6
  <2>. HIDE DEF d, q
  <2>4. doc.boxes = <<>>
    <3>1. doc.boxes \in Seq(BoxType)
      BY <1>1 DEF BoxesOK
    <3>. QED  BY <1>6, <3>1 DEF n
  <2>5. BoxesOK(d, d.boxes, q.lists)
    <3>1. doc.odd \subseteq d.odd
      BY <2>1
    <3>. QED  BY <1>1, <2>1, <2>2, <3>1, OddBoxes
  <2>6. MailOK(d, q)
    <3>1. q.out = <<>> => <<>> \in d.ways
      BY <2>1, <2>2
    <3>2. Ways(d.ways) /\ Renders(d, d.ways, q.out) /\ d.boxes = <<>> /\ q.out \in Text
      BY <1>3, <1>4, <2>1, <2>2, <2>4
    <3>. QED  BY <2>1, <2>2, <2>5, <3>1, <3>2, Zenon DEF MailOK
  <2>. QED  BY <1>5, <2>1, <2>2, <2>3, <2>6
<1>7. CASE Reads({"eml"}, doc, p)
  BY <1>5, <1>7
<1>8. CASE n # 0 /\ Reads({"eml"}, [doc EXCEPT !.boxes[n] = Joined(@, {t})],
                                   [p EXCEPT !.lists[n] = Kept(@, t, html)])
  <2>. DEFINE bs == [doc.boxes EXCEPT ![n] = Joined(doc.boxes[n], {t})]
              ls == [p.lists EXCEPT ![n] = Kept(p.lists[n], t, html)]
              d == [doc EXCEPT !.boxes = bs]
              q == [p EXCEPT !.lists = ls]
  <2>1. Reads({"eml"}, d, q)
    BY <1>8, Zenon
  <2>2. BoxesOK(doc, bs, ls)
    <3>1. n = Len(doc.boxes) /\ html \in BOOLEAN
      BY DEF n, html
    <3>2. (t = <<>> => {t} = {<<>>}) /\ (t # <<>> => <<>> \notin {t})
      OBVIOUS
    <3>. QED  BY <1>1, <1>3, <1>4, <1>8, <3>1, <3>2, JoinsLast
  <2>. HIDE DEF bs, ls
  <2>3. IsDoc(d) /\ d.boxes = bs /\ d.whole = doc.whole /\ d.odd = doc.odd /\ d.ways = doc.ways
    BY DocBoxes DEF Fields
  <2>4. IsParser(q) /\ q.lists = ls /\ q.out = p.out /\ q.held = p.held
    BY ListsSet
  <2>. HIDE DEF d, q
  <2>5. BoxesOK(d, d.boxes, q.lists)
    <3>1. doc.odd \subseteq d.odd
      BY <2>3
    <3>. QED  BY <2>2, <2>3, <2>4, <3>1, OddBoxes
  <2>6. MailOK(d, q)
    BY <1>1, <2>3, <2>4, <2>5, Zenon DEF MailOK
  <2>. QED  BY <1>5, <2>1, <2>3, <2>4, <2>6
<1>. QED  BY <1>2, <1>6, <1>7, <1>8

(* A multipart ends: it becomes the text of the mail, or a part of what it is  *)
(* in.                                                                         *)
LEMMA MailCloses ==
  ASSUME IsDoc(doc), IsParser(p), MailOK(doc, p), MailEndContainer
  PROVE  MailOK(doc', p') /\ IsParser(p') /\ IsDoc(doc') /\ phase' = "parse"
<1>. DEFINE n == Len(doc.boxes)
            box == doc.boxes[n]
            parts == p.lists[n]
            t == FlattenSeq(Chosen(parts))
            o == MailOdd(box, parts)
            bs == Front(doc.boxes)
            ls == Front(p.lists)
            c == [doc EXCEPT !.boxes = bs]
            d == Odd(c, o)
            q == [p EXCEPT !.lists = ls]
<1>1. /\ doc.boxes # <<>>
      /\ \/ n = 1 /\ Reads({"eml"}, WholeMail(d, box.ways), [q EXCEPT !.out = t])
         \/ n # 1 /\ Reads({"eml"}, [d EXCEPT !.boxes[n - 1] = Joined(@, box.ways)],
                                    [q EXCEPT !.lists[n - 1] = Kept(@, t, FALSE)])
  BY Zenon DEF MailEndContainer
<1>2. BoxesOK(doc, doc.boxes, p.lists) /\ p.held = <<>> /\ p.out \in Text /\ doc.whole \in BOOLEAN
      /\ (~doc.whole => p.out = <<>>) /\ (doc.whole => doc.boxes = <<>>)
  BY Zenon DEF MailOK
<1>3. ~doc.whole /\ p.out = <<>>
  BY <1>1, <1>2, Zenon
<1>4. BoxesOK(doc, bs, ls)
  BY <1>1, <1>2, OneLess
<1>5. BoxOK(doc, box, parts) /\ n \in Nat \ {0} /\ Len(bs) = n - 1 /\ Len(ls) = n - 1
      /\ bs \in Seq(BoxType) /\ ls \in Seq(ListType)
  <2>1. /\ doc.boxes \in Seq(BoxType) /\ p.lists \in Seq(ListType) /\ Len(p.lists) = n
        /\ \A i \in DOMAIN doc.boxes : BoxOK(doc, doc.boxes[i], p.lists[i])
    BY <1>2 DEF BoxesOK
  <2>2. n \in Nat \ {0} /\ n \in DOMAIN doc.boxes /\ Len(bs) = n - 1 /\ bs \in Seq(BoxType)
    <3>1. doc.boxes \in Seq(BoxType) /\ doc.boxes # <<>>
      BY <1>1, <2>1
    <3>2. /\ bs \in Seq(BoxType) /\ Len(bs) = n - 1 /\ n \in Nat \ {0}
          /\ DOMAIN doc.boxes = 1..n
      BY <3>1, Popped
    <3>. HIDE DEF bs, n
    <3>. QED  BY <3>2
  <2>3. p.lists # <<>>
    BY <2>1, <2>2
  <2>4. Len(ls) = n - 1 /\ ls \in Seq(ListType)
    BY <2>1, <2>3, Popped
  <2>. QED  BY <2>1, <2>2, <2>4
<1>. HIDE DEF bs, ls, o
<1>6. IsDoc(c) /\ c.boxes = bs /\ c.whole = doc.whole /\ c.ways = doc.ways /\ c.odd = doc.odd
  BY DocBoxes DEF Fields
<1>. HIDE DEF c
<1>7. IsDoc(d) /\ d.boxes = bs /\ d.whole = doc.whole /\ d.ways = doc.ways /\ d.odd = doc.odd \union o
  <2>1. IsDoc(d) /\ d.boxes = c.boxes /\ d.whole = c.whole /\ d.ways = c.ways /\ d.odd = c.odd \union o
    BY <1>6, DocOdd DEF Fields
  <2>. QED  BY <1>6, <2>1, Zenon
<1>8. IsParser(q) /\ q.lists = ls /\ q.out = p.out /\ q.held = p.held
  BY ListsSet
<1>. HIDE DEF d, q
<1>9. /\ t \in Text /\ Ways(box.ways) /\ Renders(d, box.ways, t)
      /\ t = <<>> => box.ways = {<<>>}
      /\ t # <<>> => <<>> \notin box.ways
  <2>1. d.odd = doc.odd \union MailOdd(box, parts)
    BY <1>7 DEF o
  <2>. QED  BY <1>5, <2>1, BoxReads
<1>10. BoxesOK(d, bs, ls)
  <2>1. doc.odd \subseteq d.odd
    BY <1>7
  <2>. QED  BY <1>4, <2>1, OddBoxes
<1>. HIDE DEF t, n, box, parts
<1>11. ASSUME NEW e, NEW r, Reads({"eml"}, e, r), MailOK(e, r), IsDoc(e), IsParser(r)
       PROVE  MailOK(doc', p') /\ IsParser(p') /\ IsDoc(doc') /\ phase' = "parse"
  <2>1. /\ phase = "parse" /\ phase' = phase /\ p' = r /\ IsDoc(doc') /\ doc'.boxes = e.boxes
        /\ doc'.whole = e.whole /\ doc'.ways = e.ways /\ doc'.odd = e.odd
    BY <1>11, ElementIs
  <2>2. MailOK(doc', r)
    BY <1>11, <2>1, SameMail
  <2>. QED  BY <1>11, <2>1, <2>2
<1>12. CASE n = 1 /\ Reads({"eml"}, WholeMail(d, box.ways), [q EXCEPT !.out = t])
  <2>. DEFINE e == WholeMail(d, box.ways)
              r == [q EXCEPT !.out = t]
  <2>1. Reads({"eml"}, e, r)
    BY <1>12
  <2>2. IsDoc(e) /\ e.boxes = d.boxes /\ e.whole = TRUE /\ e.ways = box.ways /\ e.odd = d.odd
    BY <1>7, DocWhole DEF Fields
  <2>3. IsParser(r) /\ r.out = t /\ r.lists = q.lists /\ r.held = q.held
    BY <1>8, OutSet
  <2>. HIDE DEF e, r
  <2>4. BoxesOK(e, e.boxes, r.lists)
    <3>1. d.odd \subseteq e.odd
      BY <2>2
    <3>. QED  BY <1>7, <1>8, <1>10, <2>2, <2>3, <3>1, OddBoxes
  <2>5. e.boxes = <<>>
    <3>1. bs = <<>>
      BY <1>5, <1>12
    <3>. QED  BY <1>7, <2>2, <3>1
  <2>6. Renders(e, e.ways, r.out) /\ Ways(e.ways)
    <3>1. Renders(e, box.ways, t)
      BY <1>9, <2>2, Zenon DEF Renders, Keeps, Clean
    <3>. QED  BY <1>9, <2>2, <2>3, <3>1
  <2>7. r.out = <<>> => <<>> \in e.ways
    BY <1>9, <2>2, <2>3
  <2>8. r.held = <<>> /\ r.out \in Text
    BY <1>2, <1>8, <1>9, <2>3
  <2>9. MailOK(e, r)
    BY <2>2, <2>4, <2>5, <2>6, <2>7, <2>8, Zenon DEF MailOK
  <2>. QED  BY <1>11, <2>1, <2>2, <2>3, <2>9
<1>13. CASE n # 1 /\ Reads({"eml"}, [d EXCEPT !.boxes[n - 1] = Joined(@, box.ways)],
                                    [q EXCEPT !.lists[n - 1] = Kept(@, t, FALSE)])
  <2>. DEFINE m == n - 1
              bt == [bs EXCEPT ![m] = Joined(bs[m], box.ways)]
              lt == [ls EXCEPT ![m] = Kept(ls[m], t, FALSE)]
              e == [d EXCEPT !.boxes = bt]
              r == [q EXCEPT !.lists = lt]
  <2>1. Reads({"eml"}, e, r)
    <3>1. e = [d EXCEPT !.boxes[m] = Joined(@, box.ways)]
      BY <1>7, Zenon
    <3>2. r = [q EXCEPT !.lists[m] = Kept(@, t, FALSE)]
      BY <1>8, Zenon
    <3>. HIDE DEF e, r
    <3>. QED  BY <1>13, <3>1, <3>2
  <2>. HIDE DEF m
  <2>2. BoxesOK(d, bt, lt)
    <3>1. m = Len(bs) /\ m # 0
      BY <1>5, <1>13 DEF m
    <3>. QED  BY <1>9, <1>10, <3>1, JoinsLast
  <2>. HIDE DEF bt, lt
  <2>3. IsDoc(e) /\ e.boxes = bt /\ e.whole = d.whole /\ e.odd = d.odd /\ e.ways = d.ways
    BY <1>7, DocBoxes DEF Fields
  <2>4. IsParser(r) /\ r.lists = lt /\ r.out = q.out /\ r.held = q.held
    BY <1>8, ListsSet
  <2>. HIDE DEF e, r
  <2>5. BoxesOK(e, e.boxes, r.lists)
    <3>1. d.odd \subseteq e.odd
      BY <2>3
    <3>. QED  BY <2>2, <2>3, <2>4, <3>1, OddBoxes
  <2>6. MailOK(e, r)
    <3>1. e.whole = doc.whole /\ r.out = p.out /\ r.held = p.held
      BY <1>7, <1>8, <2>3, <2>4, Zenon
    <3>. QED  BY <1>2, <1>3, <2>5, <3>1, Zenon DEF MailOK
  <2>. QED  BY <1>11, <2>1, <2>3, <2>4, <2>6
<1>. QED  BY <1>1, <1>12, <1>13

(* At the end of a mail.                                                       *)
LEMMA MailEnds ==
  ASSUME IsDoc(doc), IsParser(p), kind = file.fmt, kind = "eml", MailOK(doc, p), EndOfFile
  PROVE  TextIsExact'
<1>1. /\ UNCHANGED <<file, kind>> /\ doc'.shown = doc.shown /\ doc'.ways = doc.ways
      /\ doc'.odd = doc.odd \union (IF p.held # <<>> THEN {"cut script"} ELSE {})
      /\ Complete
  BY EndIs, Zenon
<1>2. p'.out = p.out
  BY EndIs
<1>3. p.held = <<>> /\ doc.whole
  BY <1>1 DEF MailOK, Complete
<1>4. Renders(doc, doc.ways, p.out) /\ (p.out = <<>> => <<>> \in doc.ways)
  BY <1>3, Zenon DEF MailOK
<1>5. (/\ kind = file.fmt /\ Renders(doc, Texts, p.out)
       /\ p.out = <<>> => kind = "docx" \/ <<>> \in Texts)' => TextIsExact'
  BY RenderedIsExact, PTL
<1>6. Texts' = doc.ways
  BY <1>1 DEF Texts
<1>7. doc'.odd = doc.odd
  BY <1>1, <1>3
<1>8. Renders(doc, Texts, p.out)'
  BY <1>2, <1>4, <1>6, <1>7, Zenon DEF Renders, Keeps, Clean
<1>. QED  BY <1>1, <1>2, <1>4, <1>5, <1>6, <1>8

(***************************************************************************)
(* The steps of a reader, all kinds together.                              *)
(***************************************************************************)

(* Before the first element there is nothing to have lost.                     *)
LEMMA FreshReader ==
  ASSUME p = NewParser, doc = NewDoc
  PROVE  /\ IsDoc(doc) /\ IsParser(p) /\ WordOK(doc, p) /\ SheetOK(doc, p) /\ MailOK(doc, p)
         /\ \A k \in {"rtf", "html", "odf"} : RegionOK(k, doc, p)
         /\ p.out = <<>> /\ doc.shown = <<>>
<1>1. /\ p.out = <<>> /\ p.table = <<>> /\ p.row = <<>> /\ p.cell = <<>> /\ p.inTable = FALSE
      /\ p.inCell = FALSE /\ p.shared = <<>> /\ p.depth = 0 /\ p.ignore = 0 /\ p.held = <<>>
      /\ p.lists = <<>> /\ IsParser(p)
  BY DEF NewParser, IsParser, ParserFields
<1>2. /\ doc.open = <<>> /\ doc.shown = <<>> /\ doc.boxes = <<>> /\ doc.whole = FALSE
      /\ doc.odd = {} /\ IsDoc(doc)
  BY DEF NewDoc, IsDoc, DocFields
<1>3. <<>> \in Text /\ Sub(<<>>, <<>>) /\ <<>> \o <<>> = <<>>
  BY TextLaws, SubOfItself
<1>4. SheetOK(doc, p)
  <2>1. p.shared \in Seq([said : Text, kept : Text]) /\ DOMAIN p.shared = {}
    BY <1>1
  <2>. QED  BY <1>1, <1>2, <1>3, <2>1 DEF SheetOK
<1>5. MailOK(doc, p)
  <2>1. BoxesOK(doc, doc.boxes, p.lists)
    BY <1>1, <1>2 DEF BoxesOK
  <2>. QED  BY <1>1, <1>2, <1>3, <2>1 DEF MailOK
<1>6. ASSUME NEW k \in {"rtf", "html", "odf"} PROVE RegionOK(k, doc, p)
  <2>1. DOMAIN doc.open = {} /\ Len(doc.open) = 0
    BY <1>2
  <2>2. doc.open \in Seq(Regions(k)) /\ doc.open \in Seq({"element"})
    BY <1>2
  <2>. QED  BY <1>1, <1>2, <1>3, <2>1, <2>2 DEF RegionOK
<1>7. WordOK(doc, p)
  <2>1. Nested(doc.open)
    BY <1>2 DEF Nested
  <2>2. WordShape(doc, p)
    BY <1>1, <1>2, <1>3, <2>1 DEF WordShape
  <2>3. TopOf(doc.open) = "none"
    BY <1>2 DEF TopOf
  <2>4. WordPlain(doc, p)
    <3>1. Len(doc.open) <= 3
      BY <1>2
    <3>2. (p.inTable <=> doc.open # <<>>) /\ (p.inCell <=> TopOf(doc.open) = "tc")
      BY <1>1, <1>2, <2>3
    <3>. QED  BY <3>1, <3>2 DEF WordPlain
  <2>5. Has(doc, p) = <<>>
    <3>1. TableOf(p) = <<>> /\ RowOf(doc, p) = <<>> /\ CellOf(doc, p) = <<>>
      BY <1>1 DEF TableOf, RowOf, CellOf
    <3>. QED  BY <1>1, <1>3, <3>1 DEF Has
  <2>6. Sub(doc.shown, Has(doc, p)) /\ Sub(Has(doc, p), doc.shown)
    BY <1>2, <1>3, <2>5
  <2>. QED  BY <2>2, <2>4, <2>6, Zenon DEF WordOK
<1>. QED  BY <1>1, <1>2, <1>4, <1>5, <1>6, <1>7

(* What Detect returns for a file that a reader then reads.                    *)
LEMMA DetectedIs ==
  ASSUME file \in Files
  PROVE  /\ file.sig = "zip" => DetectedKind \in {file.fmt, Unknown}
         /\ DetectedKind \in Flat /\ file.sig # "zip" => DetectedKind = file.fmt
         /\ DetectedKind \in Archives \union Flat \union Engines \union {Unknown}
<1>1. file.sig = "zip" => DetectedKind = ZipKind
  BY DEF DetectedKind, Engines
<1>2. ZipKind \in {file.fmt, Unknown}
  BY DEF ZipKind
<1>3. ASSUME DetectedKind \in Flat, file.sig # "zip" PROVE DetectedKind = file.fmt
  <2>1. file.sig \in Engines => DetectedKind = file.sig
    BY DEF DetectedKind, Engines
  <2>2. file.sig \notin Engines
    BY <1>3, <2>1 DEF Engines, Flat
  <2>3. file.sig = "none" /\ DetectedKind = file.ext
    BY <1>3, <2>2, FileTypes DEF DetectedKind
  <2>. QED  BY <1>3, <2>3, NamesAssumption
<1>4. DetectedKind \in Archives \union Flat \union Engines \union {Unknown}
  BY KindsDetected
<1>. QED  BY <1>1, <1>2, <1>3, <1>4

(* The parts to read after Detect.                                             *)
LEMMA TodoIs ==
  ASSUME NEW a, "todo" \in DOMAIN a, NEW x, NEW y
  PROVE  [a EXCEPT !.todo = x, !.probed = y].todo = x
<1>. DEFINE b == [a EXCEPT !.todo = x]
<1>1. b.todo = x /\ "todo" \in DOMAIN b
  BY Zenon
<1>2. [a EXCEPT !.todo = x, !.probed = y] = [b EXCEPT !.probed = y]
  BY Zenon
<1>. HIDE DEF b
<1>3. [b EXCEPT !.probed = y].todo = x
  BY <1>1, Zenon
<1>. QED  BY <1>2, <1>3

(* A file gets to the reader of what it is.                                    *)
LEMMA TextDispatch ==
  ASSUME TextInv, Dispatch, "todo" \in DOMAIN archive
  PROVE  TextInv'
<1>1. /\ phase = "detect" /\ kind' = DetectedKind /\ UNCHANGED <<file, p, doc>>
      /\ phase' = CASE kind' = Unknown -> "failed"
                    [] kind' \in Engines -> "engine"
                    [] kind' \in Flat -> "parse"
                    [] file.sig # "zip" \/ file.entries > MaxEntries -> "failed"
                    [] OTHER -> "archive"
      /\ archive' = [archive EXCEPT !.todo = NamesToRead(kind'),
                                    !.probed = IF file.sig = "zip" /\ file.entries <= MaxEntries
                                               THEN ProbeBytes ELSE 0]
  BY Zenon DEF Dispatch
<1>2. file \in Files /\ IsDoc(doc) /\ IsParser(p) /\ p = NewParser /\ doc = NewDoc
  BY <1>1 DEF TextInv, IsDoc, IsParser
<1>3. /\ kind' \in Archives \union Flat \union Engines \union {Unknown}
      /\ file.sig = "zip" => kind' \in {file.fmt, Unknown}
      /\ kind' \in Flat /\ file.sig # "zip" => kind' = file.fmt
  BY <1>1, <1>2, DetectedIs
<1>4. phase' \in {"failed", "engine", "parse", "archive"}
  BY <1>1
<1>5. ASSUME phase' = "parse" PROVE ParseOK' /\ kind' = file.fmt
  <2>1. kind' \in Flat /\ kind' # Unknown
    <3>1. phase' = CASE kind' = Unknown -> "failed"
                     [] kind' \in Engines -> "engine"
                     [] kind' \in Flat -> "parse"
                     [] file.sig # "zip" \/ file.entries > MaxEntries -> "failed"
                     [] OTHER -> "archive"
      BY <1>1
    <3>2. Unknown \notin Flat
      BY DEF Unknown, Flat
    <3>. QED  BY <1>5, <3>1, <3>2
  <2>2. kind' = file.fmt
    BY <1>3, <2>1
  <2>3. kind' \in Kinds /\ kind' \notin Engines \union {"pptx", "epub"}
    BY <2>1 DEF Flat, Kinds, Engines
  <2>4. /\ WordOK(doc', p') /\ SheetOK(doc', p') /\ MailOK(doc', p')
        /\ \A k \in {"rtf", "html", "odf"} : RegionOK(k, doc', p')
    <3>1. p' = p /\ doc' = doc
      BY <1>1
    <3>2. /\ WordOK(doc, p) /\ SheetOK(doc, p) /\ MailOK(doc, p)
          /\ \A k \in {"rtf", "html", "odf"} : RegionOK(k, doc, p)
      BY <1>2, FreshReader
    <3>. QED  BY <3>1, <3>2, Zenon
  <2>. QED  BY <2>2, <2>3, <2>4 DEF ParseOK
<1>6. ASSUME phase' = "archive"
      PROVE  /\ kind' \in Archives /\ kind' = file.fmt
             /\ kind' \in {"pptx", "epub"} => SlidesOK(doc, p)'
  <2>1. kind' \in Archives /\ file.sig = "zip" /\ kind' # Unknown
    BY <1>1, <1>3, <1>6
  <2>2. kind' = file.fmt
    BY <1>3, <2>1
  <2>3. ASSUME kind' \in {"pptx", "epub"} PROVE SlidesOK(doc, p)'
    <3>1. archive'.todo = ByName
      <4>1. NamesToRead(kind') = ByName
        BY <2>1, <2>3 DEF NamesToRead
      <4>. QED  BY <1>1, <2>3, <4>1, TodoIs
    <3>2. p'.out = <<>> /\ doc'.shown = <<>>
      BY <1>1, <1>2, FreshReader
    <3>3. Parts' = Parts /\ ByName' = ByName
      BY <1>1 DEF Parts, ByName
    <3>4. ByName \in Seq(Parts)
      BY <1>2, ByNameIsOrder
    <3>. HIDE DEF Parts, ByName
    <3>5. Len(ByName) \in Nat /\ \A i \in DOMAIN ByName : ByName[i] = ByName[0 + i]
      BY <3>4
    <3>. QED  BY <3>1, <3>2, <3>3, <3>4, <3>5 DEF SlidesOK
  <2>. QED  BY <2>1, <2>2, <2>3
<1>7. DOMAIN doc' = DocFields /\ DOMAIN p' = ParserFields /\ p' = NewParser /\ doc' = NewDoc
      /\ file' \in Files /\ file'.fmt = file.fmt
  BY <1>1, <1>2 DEF IsDoc, IsParser
<1>. QED  BY <1>4, <1>5, <1>6, <1>7, Zenon DEF TextInv

LEMMA TextReadPart ==
  ASSUME TextInv, archive = [f \in {"todo", "total", "read", "probed"} |-> archive[f]], ReadPart
  PROVE  TextInv'
<1>1. phase = "archive" /\ UNCHANGED <<file, kind, phase>>
      /\ (kind \notin {"pptx", "epub"} => UNCHANGED <<p, doc>>)
  BY Zenon DEF ReadPart
<1>2. /\ file \in Files /\ IsDoc(doc) /\ IsParser(p) /\ kind = file.fmt /\ kind \in Archives
      /\ kind \in {"pptx", "epub"} => SlidesOK(doc, p)
      /\ kind \notin {"pptx", "epub"} => p = NewParser /\ doc = NewDoc
  BY <1>1, Zenon DEF TextInv, IsDoc, IsParser
<1>3. CASE kind \in {"pptx", "epub"}
  <2>1. SlidesOK(doc, p)' /\ IsParser(p') /\ IsDoc(doc')
    BY <1>2, <1>3, SlideRead
  <2>. QED  BY <1>1, <1>2, <1>3, <2>1 DEF TextInv, IsDoc, IsParser
<1>4. CASE kind \notin {"pptx", "epub"}
  BY <1>1, <1>2, <1>4 DEF TextInv, IsDoc, IsParser
<1>. QED  BY <1>3, <1>4

(* Slides and chapters are done, and the other kinds are parsed.               *)
LEMMA TextPartsRead ==
  ASSUME TextInv, PartsRead
  PROVE  TextInv'
<1>1. /\ phase = "archive" /\ archive.todo = <<>> /\ UNCHANGED <<file, kind, archive, p, doc>>
      /\ phase' = CASE kind \in {"pptx", "epub"} -> "done"
                    [] kind = "docx" /\ ~file.usual -> "failed"
                    [] OTHER -> "parse"
  BY Zenon DEF PartsRead
<1>2. /\ file \in Files /\ IsDoc(doc) /\ IsParser(p) /\ kind = file.fmt /\ kind \in Archives
      /\ kind \in {"pptx", "epub"} => SlidesOK(doc, p)
      /\ kind \notin {"pptx", "epub"} => p = NewParser /\ doc = NewDoc
  BY <1>1, Zenon DEF TextInv, IsDoc, IsParser
<1>3. CASE kind \in {"pptx", "epub"}
  <2>1. TextIsExact'
    BY <1>1, <1>2, <1>3, SlidesEnd
  <2>2. phase' = "done"
    BY <1>1, <1>3
  <2>. QED  BY <1>1, <1>2, <2>1, <2>2 DEF TextInv, IsDoc, IsParser
<1>4. CASE kind \notin {"pptx", "epub"}
  <2>1. phase' \in {"failed", "parse"}
    BY <1>1, <1>4
  <2>2. kind \in Kinds /\ kind \notin Engines
    BY <1>2 DEF Archives, Kinds, Engines
  <2>3. /\ WordOK(doc, p) /\ SheetOK(doc, p) /\ MailOK(doc, p)
        /\ \A k \in {"rtf", "html", "odf"} : RegionOK(k, doc, p)
    BY <1>2, <1>4, FreshReader
  <2>4. /\ WordOK(doc', p') /\ SheetOK(doc', p') /\ MailOK(doc', p')
        /\ \A k \in {"rtf", "html", "odf"} : RegionOK(k, doc', p')
    <3>1. p' = p /\ doc' = doc
      BY <1>1
    <3>. QED  BY <2>3, <3>1, Zenon
  <2>5. ParseOK'
    BY <1>1, <1>4, <2>2, <2>4 DEF ParseOK
  <2>. QED  BY <1>1, <1>2, <2>1, <2>5 DEF TextInv, IsDoc, IsParser
<1>. QED  BY <1>3, <1>4

LEMMA TextStops ==
  ASSUME TextInv, OverLimit \/ CutOff
  PROVE  TextInv'
<1>1. phase' = "failed" /\ UNCHANGED <<file, kind, p, doc>>
  BY Zenon DEF OverLimit, CutOff
<1>. QED  BY <1>1 DEF TextInv

(* A step of one reader does not concern the others.                           *)
LEMMA TextGoesOn ==
  ASSUME TextInv, phase = "parse", phase' = "parse", UNCHANGED <<file, kind>>,
         IsDoc(doc'), IsParser(p'),
         kind = "docx" => WordOK(doc', p'),
         kind \in {"rtf", "html", "odf"} => RegionOK(kind, doc', p'),
         kind = "xlsx" => SheetOK(doc', p'),
         kind = "eml" => MailOK(doc', p')
  PROVE  TextInv'
<1>1. file \in Files /\ kind = file.fmt /\ kind \in Kinds /\ kind \notin Engines \union {"pptx", "epub"}
  BY DEF TextInv, ParseOK
<1>2. ParseOK'
  BY <1>1 DEF ParseOK
<1>. QED  BY <1>1, <1>2 DEF TextInv, IsDoc, IsParser

(* What a step of a reader finds.                                              *)
LEMMA AtElement ==
  ASSUME TextInv, phase = "parse"
  PROVE  /\ IsDoc(doc) /\ IsParser(p) /\ kind = file.fmt /\ file \in Files
         /\ kind = "docx" => WordOK(doc, p)
         /\ kind \in {"rtf", "html", "odf"} => RegionOK(kind, doc, p)
         /\ kind = "xlsx" => SheetOK(doc, p)
         /\ kind = "eml" => MailOK(doc, p)
         /\ kind \in {"docx", "rtf", "html", "odf", "xlsx", "eml"}
<1>1. /\ IsDoc(doc) /\ IsParser(p) /\ kind = file.fmt /\ file \in Files /\ ParseOK
  BY DEF TextInv, IsDoc, IsParser
<1>2. kind \in {"docx", "rtf", "html", "odf", "xlsx", "eml"}
  BY <1>1 DEF ParseOK, Kinds, Archives, Flat
<1>. QED  BY <1>1, <1>2, Zenon DEF ParseOK

LEMMA TextEnds ==
  ASSUME TextInv, EndOfFile
  PROVE  TextInv'
<1>1. phase = "parse" /\ phase' = "done" /\ UNCHANGED <<file, kind>>
  BY Zenon DEF EndOfFile
<1>2. /\ IsDoc(doc) /\ IsParser(p) /\ kind = file.fmt /\ file \in Files
      /\ kind = "docx" => WordOK(doc, p)
      /\ kind \in {"rtf", "html", "odf"} => RegionOK(kind, doc, p)
      /\ kind = "xlsx" => SheetOK(doc, p)
      /\ kind = "eml" => MailOK(doc, p)
      /\ kind \in {"docx", "rtf", "html", "odf", "xlsx", "eml"}
  BY <1>1, AtElement
<1>3. TextIsExact'
  <2>1. kind = "docx" => TextIsExact'
    BY <1>2, WordEnds
  <2>2. kind \in {"rtf", "html", "odf"} => TextIsExact'
    BY <1>2, RegionEnds
  <2>3. kind = "xlsx" => TextIsExact'
    BY <1>2, SheetEnds
  <2>4. kind = "eml" => TextIsExact'
    BY <1>2, MailEnds
  <2>. QED  BY <1>2, <2>1, <2>2, <2>3, <2>4
<1>4. IsDoc(doc') /\ IsParser(p')
  BY <1>2, EndIs
<1>. QED  BY <1>1, <1>2, <1>3, <1>4 DEF TextInv, IsDoc, IsParser

(* The steps of each reader, put together.                                     *)
LEMMA TextWord ==
  ASSUME TextInv, doc.n \in Nat,
         \/ WordRun \/ WordTextBox \/ WordTable \/ WordRow \/ WordCell
         \/ WordEndCell \/ WordEndRow \/ WordEndTable
  PROVE  TextInv'
<1>1. \E d, q : Reads({"docx"}, d, q)
  BY Zenon DEF WordRun, WordTextBox, WordTable, WordRow, WordCell, WordEndCell, WordEndRow, WordEndTable
<1>2. phase = "parse" /\ kind \in {"docx"} /\ UNCHANGED <<file, kind>>
  BY <1>1, Zenon DEF Reads
<1>3. kind = "docx" /\ IsDoc(doc) /\ IsParser(p) /\ WordOK(doc, p)
  BY <1>2, AtElement
<1>4. WordOK(doc', p') /\ IsParser(p') /\ IsDoc(doc') /\ phase' = "parse"
  <2>1. CASE WordRun \/ WordTextBox
    BY <1>3, <2>1, WordText1
  <2>2. CASE WordTable
    BY <1>3, <2>2, TableOpens
  <2>3. CASE WordRow \/ WordCell
    BY <1>3, <2>3, RowAndCellOpen
  <2>4. CASE WordEndCell \/ WordEndRow \/ WordEndTable
    BY <1>3, <2>4, WordCloses
  <2>. QED  BY <2>1, <2>2, <2>3, <2>4, Zenon
<1>. QED  BY <1>2, <1>3, <1>4, TextGoesOn

LEMMA TextRegion ==
  ASSUME TextInv, doc.n \in Nat, (\E r : OpenRegion(r)) \/ CloseRegion \/ RegionText
  PROVE  TextInv'
<1>1. \E d, q : Reads({"rtf", "html", "odf"}, d, q)
  BY Zenon DEF OpenRegion, CloseRegion, RegionText
<1>2. phase = "parse" /\ kind \in {"rtf", "html", "odf"} /\ UNCHANGED <<file, kind>>
  BY <1>1, Zenon DEF Reads
<1>3. IsDoc(doc) /\ IsParser(p) /\ RegionOK(kind, doc, p)
  BY <1>2, AtElement
<1>4. RegionOK(kind, doc', p') /\ IsParser(p') /\ IsDoc(doc') /\ phase' = "parse"
  <2>1. ASSUME NEW r, OpenRegion(r)
        PROVE  RegionOK(kind, doc', p') /\ IsParser(p') /\ IsDoc(doc') /\ phase' = "parse"
    BY <1>2, <1>3, <2>1, RegionOpens
  <2>2. CASE CloseRegion
    BY <1>2, <1>3, <2>2, RegionCloses
  <2>3. CASE RegionText
    BY <1>2, <1>3, <2>3, RegionReads
  <2>. QED  BY <2>1, <2>2, <2>3, Zenon
<1>. QED  BY <1>2, <1>3, <1>4, TextGoesOn

LEMMA TextWorkbook ==
  ASSUME TextInv, doc.n \in Nat,
         \/ \E runs \in 1..2, reading \in BOOLEAN : SharedString(runs, reading)
         \/ Row \/ SharedCell \/ EndRow \/ \E runs \in 1..2 : ValueCell(runs)
  PROVE  TextInv'
<1>1. \E d, q : Reads({"xlsx"}, d, q)
  <2>1. ASSUME NEW runs, NEW reading, SharedString(runs, reading) PROVE \E d, q : Reads({"xlsx"}, d, q)
    BY <2>1, Zenon DEF SharedString
  <2>2. ASSUME NEW said, NEW kept, NEW o, Cell(said, kept, o) PROVE \E d, q : Reads({"xlsx"}, d, q)
    BY <2>2, Zenon DEF Cell
  <2>3. ASSUME SharedCell \/ \E runs \in 1..2 : ValueCell(runs) PROVE \E said, kept, o : Cell(said, kept, o)
    BY <2>3, Zenon DEF SharedCell, ValueCell
  <2>4. ASSUME Row \/ EndRow PROVE \E d, q : Reads({"xlsx"}, d, q)
    BY <2>4, Zenon DEF Row, EndRow
  <2>. QED  BY <2>1, <2>2, <2>3, <2>4, Zenon
<1>2. phase = "parse" /\ kind \in {"xlsx"} /\ UNCHANGED <<file, kind>>
  BY <1>1, Zenon DEF Reads
<1>3. kind = "xlsx" /\ IsDoc(doc) /\ IsParser(p) /\ SheetOK(doc, p)
  BY <1>2, AtElement
<1>4. SheetOK(doc', p') /\ IsParser(p') /\ IsDoc(doc') /\ phase' = "parse"
  <2>1. ASSUME NEW runs \in 1..2, NEW reading \in BOOLEAN, SharedString(runs, reading)
        PROVE  SheetOK(doc', p') /\ IsParser(p') /\ IsDoc(doc') /\ phase' = "parse"
    BY <1>3, <2>1, StringShared
  <2>2. CASE Row
    BY <1>3, <2>2, RowOpens
  <2>3. CASE SharedCell \/ \E runs \in 1..2 : ValueCell(runs)
    BY <1>3, <2>3, CellsRead
  <2>4. CASE EndRow
    BY <1>3, <2>4, RowEnds
  <2>. QED  BY <2>1, <2>2, <2>3, <2>4, Zenon
<1>. QED  BY <1>2, <1>3, <1>4, TextGoesOn

LEMMA TextMail ==
  ASSUME TextInv, doc.n \in Nat,
         \/ \E type \in {"plain", "html", "other"}, attached, blank \in BOOLEAN :
                MailLeaf(type, attached, blank)
         \/ (\E alt \in BOOLEAN : MailContainer(alt)) \/ MailEndContainer
  PROVE  TextInv'
<1>1. \E d, q : Reads({"eml"}, d, q)
  <2>1. ASSUME NEW type, NEW attached, NEW blank, MailLeaf(type, attached, blank)
        PROVE  \E d, q : Reads({"eml"}, d, q)
    BY <2>1, Zenon DEF MailLeaf
  <2>2. ASSUME NEW alt, MailContainer(alt) PROVE \E d, q : Reads({"eml"}, d, q)
    BY <2>2, Zenon DEF MailContainer
  <2>3. ASSUME MailEndContainer PROVE \E d, q : Reads({"eml"}, d, q)
    BY <2>3, Zenon DEF MailEndContainer
  <2>. QED  BY <2>1, <2>2, <2>3, Zenon
<1>2. phase = "parse" /\ kind \in {"eml"} /\ UNCHANGED <<file, kind>>
  BY <1>1, Zenon DEF Reads
<1>3. kind = "eml" /\ IsDoc(doc) /\ IsParser(p) /\ MailOK(doc, p)
  BY <1>2, AtElement
<1>4. MailOK(doc', p') /\ IsParser(p') /\ IsDoc(doc') /\ phase' = "parse"
  <2>1. ASSUME NEW type, NEW attached \in BOOLEAN, NEW blank \in BOOLEAN, MailLeaf(type, attached, blank)
        PROVE  MailOK(doc', p') /\ IsParser(p') /\ IsDoc(doc') /\ phase' = "parse"
    BY <1>3, <2>1, MailReads
  <2>2. ASSUME NEW alt \in BOOLEAN, MailContainer(alt)
        PROVE  MailOK(doc', p') /\ IsParser(p') /\ IsDoc(doc') /\ phase' = "parse"
    BY <1>3, <2>2, MailOpens
  <2>3. CASE MailEndContainer
    BY <1>3, <2>3, MailCloses
  <2>. QED  BY <2>1, <2>2, <2>3, Zenon
<1>. QED  BY <1>2, <1>3, <1>4, TextGoesOn

LEMMA TextInitial == Init => TextInv
<1>. SUFFICES ASSUME Init PROVE TextInv
  OBVIOUS
<1>1. file \in Files /\ kind = Unknown /\ phase = "detect" /\ p = NewParser /\ doc = NewDoc
  BY Zenon DEF Init, ReaderInit
<1>2. DOMAIN doc = DocFields /\ DOMAIN p = ParserFields
  BY <1>1, FreshReader, Zenon DEF IsDoc, IsParser
<1>. QED  BY <1>1, <1>2 DEF TextInv

LEMMA TextStays ==
  ASSUME TextInv, UNCHANGED readerVars
  PROVE  TextInv'
<1>1. UNCHANGED <<file, kind, phase, archive, p, doc>>
  BY Zenon DEF readerVars
<1>2. SlidesOK(doc, p) => SlidesOK(doc, p)'
  <2>1. Parts' = Parts /\ ByName' = ByName /\ PartOdd' = PartOdd
    BY <1>1 DEF Parts, ByName, PartOdd, InOrder
  <2>. QED  BY <1>1, <2>1 DEF SlidesOK
<1>3. TextIsExact => TextIsExact'
  <2>1. Texts' = Texts
    BY <1>1 DEF Texts
  <2>. QED  BY <1>1, <2>1 DEF TextIsExact
<1>4. ParseOK => ParseOK'
  BY <1>1 DEF ParseOK
<1>. QED  BY <1>1, <1>2, <1>3, <1>4 DEF TextInv

(* That elements are counted, and what an archive is, ReaderInv says.          *)
LEMMA TextStep == ReaderInv /\ TextInv /\ [Next]_vars => TextInv'
<1>. SUFFICES ASSUME ReaderInv, TextInv, [Next]_vars PROVE TextInv'
  OBVIOUS
<1>1. /\ doc.n \in Nat
      /\ archive = [f \in {"todo", "total", "read", "probed"} |-> archive[f]]
  BY DEF ReaderInv, Counting, Bounds
<1>2. "todo" \in DOMAIN archive
  BY <1>1
<1>3. CASE UNCHANGED readerVars \/ UNCHANGED vars
  <2>1. UNCHANGED readerVars
    BY <1>3, Zenon DEF vars
  <2>. QED  BY <2>1, TextStays
<1>4. CASE ReaderNext
  <2>1. \/ Dispatch \/ ReadPart \/ (OverLimit \/ CutOff) \/ PartsRead \/ EndOfFile
        \/ (\/ WordRun \/ WordTextBox \/ WordTable \/ WordRow \/ WordCell
            \/ WordEndCell \/ WordEndRow \/ WordEndTable)
        \/ ((\E r : OpenRegion(r)) \/ CloseRegion \/ RegionText)
        \/ (\/ \E runs \in 1..2, reading \in BOOLEAN : SharedString(runs, reading)
            \/ Row \/ SharedCell \/ EndRow \/ \E runs \in 1..2 : ValueCell(runs))
        \/ (\/ \E type \in {"plain", "html", "other"}, attached, blank \in BOOLEAN :
                MailLeaf(type, attached, blank)
            \/ (\E alt \in BOOLEAN : MailContainer(alt)) \/ MailEndContainer)
    BY <1>4, Zenon DEF ReaderNext
  <2>2. Dispatch => TextInv'
    BY <1>2, TextDispatch, Zenon
  <2>3. ReadPart => TextInv'
    BY <1>1, TextReadPart, Zenon
  <2>. QED  BY <1>1, <2>1, <2>2, <2>3, TextStops, TextPartsRead, TextEnds, TextWord, TextRegion,
               TextWorkbook, TextMail, Zenon
<1>. QED  BY <1>3, <1>4, Zenon DEF Next

(* Whatever the elements of a file, their number and their order: a file that  *)
(* was read was read as what it is, and its text is what the file says, in its *)
(* order; nothing is lost without one of the constructs in Losing, nothing is  *)
(* there twice or should not be there without one of those in Leaking, and a   *)
(* mail whose parts have text is not read as empty.                            *)
THEOREM TextsAreExact == Spec => []TextIsExact
<1>1. TextInv => TextIsExact
  BY DEF TextInv, TextIsExact
<1>2. Spec => []TextInv
  BY TextInitial, TextStep, ReaderInvariant, PTL DEF Spec
<1>. QED  BY <1>1, <1>2, PTL
===============================================================================
