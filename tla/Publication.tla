------------------------------ MODULE Publication ------------------------------
(***************************************************************************)
(* From an answer of the served model to a published verdict: a benchmark  *)
(* judges answers and writes a report (src/benchmarks), the report, or an  *)
(* older one of another form, is sanitized (tools/sanitize_results.py), and*)
(* verify_directory looks at what is in the public directory, which is not *)
(* always what the sanitizer has put there.                                *)
(*                                                                         *)
(* A report has one verdict of its own and a section with more of them.    *)
(* Of a verdict's entry the model keeps                                    *)
(*   label      what it is about: a fixture, a marker, a context; or none  *)
(*   passed, correct, validated                                            *)
(*              the boolean of that key.  Text under "validated" is either *)
(*              the "marker" of the entry or "other"                       *)
(*   shown      whether the answer itself is in the file                   *)
(*   answer     what the model had answered, known here if not in the file *)
(*   measured   whether it has any of the measurements                     *)
(***************************************************************************)
CONSTANTS
    Slot,         \* places in the section of a report
    Retained      \* reports of before the programs in src/benchmarks

Bool == {"true", "false"}
Flag == Bool \cup {"none"}
Text == {"marker", "other"}
Fixture == {"factual", "json", "tool"}       \* code is as factual, vision as json
Label == Fixture \cup {"marker", "context", "none"}
Answer == {"right", "garbled", "name", "wrong", "none"}
Section == {"functional", "streams", "probes", "samples", "none"}

Entry == [label : Label, passed : Flag, correct : Flag, validated : Flag \cup Text,
          shown : BOOLEAN, answer : Answer, measured : BOOLEAN]

Report(r) ==
    /\ r = [file |-> r.file, by |-> r.by, model |-> r.model, sampler |-> r.sampler,
            top |-> r.top, section |-> r.section, entries |-> r.entries]
    /\ r.file \in {"report", "summary"} /\ r.by \in {"benchmark", "others"}
    /\ r.model \in {"public", "other", "none"} /\ r.sampler \in {"profile", "other", "none"}
    /\ r.top \in Entry
    /\ r.section \in Section
    /\ DOMAIN r.entries \subseteq Slot
    /\ r.entries \in [DOMAIN r.entries -> Entry]
    /\ r.section = "none" => DOMAIN r.entries = {}

ASSUME RetainedAssumption == \A r \in Retained : Report(r) /\ r.by = "others"

(* No file, and a file whose writer was killed.                            *)
Nothing == [file |-> "nothing"]
Torn == [file |-> "torn"]

VARIABLES
    trusted,      \* summary.json has the revision and profile of the target
    raw,          \* the report to be published
    public,       \* the file of its name in the public directory
    writer        \* who made that

vars == <<trusted, raw, public, writer>>

AsFlag(b) == IF b THEN "true" ELSE "false"
--------------------------------------------------------------------------------
Bare == [label |-> "none", passed |-> "none", correct |-> "none", validated |-> "none",
         shown |-> FALSE, answer |-> "none", measured |-> TRUE]

(* functional.py: a tool call is judged by its name.                       *)
Validate(fixture, a) == a = "right" \/ (fixture = "tool" /\ a = "name")

(* What is asked for as JSON and is none ends the program.                 *)
Raises(fixture, a) == fixture = "json" /\ a = "garbled"

Measured(section, top, entries) ==
    [file |-> "report", by |-> "benchmark", model |-> "none", sampler |-> "profile",
     top |-> top, section |-> section, entries |-> entries]

FunctionalReport(fixture, a) ==
    Measured("functional", Bare,
        [i \in Slot |-> [Bare EXCEPT !.label = fixture[i], !.answer = a[i],
                                     !.passed = AsFlag(Validate(fixture[i], a[i]))]])

(* concurrency.py: each stream's answer is compared with its marker.       *)
StreamsReport(a) ==
    Measured("streams", Bare,
        [i \in Slot |-> [Bare EXCEPT !.answer = a[i], !.correct = AsFlag(a[i] = "right")]])

(* stability.py                                                            *)
ProbesReport(a) ==
    Measured("probes", Bare,
        [i \in Slot |-> [Bare EXCEPT !.answer = a[i], !.passed = AsFlag(a[i] = "right")]])

(* long_context.py                                                         *)
LongContextReport(a) ==
    Measured("none", [Bare EXCEPT !.label = "context", !.answer = a,
                                  !.validated = AsFlag(a = "right")], <<>>)
--------------------------------------------------------------------------------
(* Faulty: the text of a verdict goes through.                             *)
MappingAny(e) ==
    [label |-> "none", passed |-> e.passed, correct |-> e.correct, validated |-> e.validated,
     shown |-> FALSE, answer |-> "none", measured |-> e.measured]

(* _measurement_mapping: measurements and booleans stay, no text does.     *)
Mapping(e) ==
    [label |-> "none", passed |-> e.passed, correct |-> e.correct,
     validated |-> IF e.validated \in Flag THEN e.validated ELSE "none",
     shown |-> FALSE, answer |-> "none", measured |-> e.measured]

(* The evidence rules of the sanitizer, section by section: an answer that *)
(* is in the file decides, and text that nothing bears out is refused.     *)
FunctionalRefused(e) ==
    /\ e.label \in Fixture
    /\ IF e.shown THEN e.passed \in Bool \ {AsFlag(e.answer = "right")}
       ELSE e.passed = "none" /\ e.validated \in Text

Functional(e) ==
    [Mapping(e) EXCEPT !.label = e.label, !.validated = "none",
                       !.passed = IF e.shown THEN AsFlag(e.answer = "right") ELSE @]

StreamRefused(e) ==
    e.validated \in Text /\ (e.label # "marker" \/ ~e.shown \/ e.validated # "marker")

(* Faulty: a marker that was claimed is believed.                          *)
StreamBelieved(e) ==
    [Mapping(e) EXCEPT !.passed = "none", !.validated = "none",
        !.correct = IF e.validated = "none" THEN @
                    ELSE AsFlag(e.validated \in {"true", "marker"})]

Stream(e) ==
    [Mapping(e) EXCEPT !.passed = "none", !.validated = "none",
        !.correct = CASE e.validated \in Bool -> e.validated
                      [] e.validated \in Text -> AsFlag(e.answer = "right")
                      [] OTHER -> @]

Probe(e) ==
    [Mapping(e) EXCEPT !.passed = IF e.shown THEN AsFlag(e.answer = "right") ELSE @]

TopRefused(e) == e.validated \in Text /\ (e.label # "context" \/ ~e.shown)

Top(e) ==
    LET verdict == AsFlag(e.answer = "right")
        kept == [Mapping(e) EXCEPT !.label = IF e.label = "context" THEN e.label ELSE @]
    IN  IF e.validated \in Text
        THEN [kept EXCEPT !.passed = verdict, !.validated = verdict]
        ELSE kept

EntryRefused(section, e) ==
    CASE section = "functional" -> FunctionalRefused(e)
      [] section = "streams" -> StreamRefused(e)
      [] OTHER -> FALSE

EntryCleaned(section, e) ==
    CASE section = "functional" -> Functional(e)
      [] section = "streams" -> Stream(e)
      [] section = "probes" -> Probe(e)
      [] OTHER -> Mapping(e)
--------------------------------------------------------------------------------
Refused(r) ==
    \/ r.sampler = "other"
    \/ TopRefused(r.top)
    \/ \E i \in DOMAIN r.entries : EntryRefused(r.section, r.entries[i])

(* An entry that nothing is left of is dropped, a fixture that is not known*)
(* also.                                                                   *)
Kept(section, e) ==
    LET c == EntryCleaned(section, e) IN
      /\ section = "functional" => e.label \in Fixture
      /\ c.measured \/ {c.passed, c.correct, c.validated} # {"none"}

(* sanitize_data, where it does not raise.                                 *)
Clean(r) ==
    LET kept == {i \in DOMAIN r.entries : Kept(r.section, r.entries[i])} IN
      [file |-> "report", by |-> "others", model |-> "none", sampler |-> r.sampler,
       top |-> Top(r.top),
       section |-> IF kept = {} THEN "none" ELSE r.section,
       entries |-> [i \in kept |-> EntryCleaned(r.section, r.entries[i])]]

(* _validate_source_provenance: asked of every source but the summary.     *)
Provenance(r) == r.file = "report" => r.model = "public" /\ r.sampler = "profile"

(* verify_directory: does it report the file?                              *)
Finding(p) == p = Torn \/ Refused(p) \/ Clean(p) # p

(* What there is to read in a file.                                        *)
Read(r) ==
    LET Blind(e) == [e EXCEPT !.answer = IF e.shown THEN @ ELSE "none"] IN
      [file |-> "report", by |-> "others", model |-> r.model, sampler |-> r.sampler,
       top |-> Blind(r.top), section |-> r.section,
       entries |-> [i \in DOMAIN r.entries |-> Blind(r.entries[i])]]
--------------------------------------------------------------------------------
Init ==
    /\ trusted \in BOOLEAN
    /\ raw \in Retained
    /\ public = Nothing
    /\ writer = "nobody"

(* A benchmark runs to its end and writes its report over the old one.     *)
(* Bound: not when that was published, which would change nothing of it.   *)
Measure ==
    /\ public = Nothing
    /\ \/ \E a \in [Slot -> Answer \ {"none"}], fixture \in [Slot -> Fixture] :
            /\ \A i \in Slot : ~Raises(fixture[i], a[i])
            /\ raw' = FunctionalReport(fixture, a)
       \/ \E a \in [Slot -> Answer \ {"none"}] : raw' \in {StreamsReport(a), ProbesReport(a)}
       \/ \E a \in Answer \ {"none"} : raw' = LongContextReport(a)
    /\ UNCHANGED <<trusted, public, writer>>

(* None of these names the model it was asked of, as the sanitizer demands.*)
(* Somebody writes it in.                                                  *)
NameModel ==
    /\ raw' = [raw EXCEPT !.model = "public"]
    /\ UNCHANGED <<trusted, public, writer>>

(* sanitize_result: all is checked before the destination is opened.       *)
Sanitize ==
    /\ trusted /\ Provenance(raw) /\ ~Refused(raw)
    /\ public' = Clean(raw)
    /\ writer' = "sanitizer"
    /\ UNCHANGED <<trusted, raw>>

(* It is killed while it writes.                                           *)
Killed ==
    /\ trusted /\ Provenance(raw) /\ ~Refused(raw)
    /\ public' = Torn
    /\ writer' = "nobody"
    /\ UNCHANGED <<trusted, raw>>

(* Somebody puts the report into the public directory as it is.            *)
Copy ==
    /\ public' = Read(raw)
    /\ writer' = "hand"
    /\ UNCHANGED <<trusted, raw>>

Next == Measure \/ NameModel \/ Sanitize \/ Killed \/ Copy

Spec == Init /\ [][Next]_vars
--------------------------------------------------------------------------------
(* The verdict an entry of a section is read for; "none" has the report's  *)
(* own.                                                                    *)
Succeeds(section, e) ==
    "true" \in CASE section \in {"functional", "probes"} -> {e.passed}
                 [] section = "none" -> {e.passed, e.validated}
                 [] OTHER -> {e.correct}

(* The sanitizer goes by an answer in the file.  Beside a boolean verdict  *)
(* of a stream or of the report itself it does not look at one, even if it *)
(* says the contrary, and never at the answer of a sample: the boolean is  *)
(* kept, which tests/test_sanitize_results.py asks for.                    *)
Evidence(section, e) ==
    \/ (section \in {"functional", "probes"} /\ e.shown)
    \/ (section \in {"streams", "none"} /\ e.validated \in Text)

Claims(e) == "true" \in {e.passed, e.correct, e.validated}

Founded(section, e) ==
    \/ e.answer = "right"
    \/ raw.by = "others" /\ Claims(e) /\ ~Evidence(section, e)
    \/ raw.by = "benchmark" /\ e.label = "tool" /\ e.answer = "name"

(* tests/test_sanitize_results.py: the sanitizer "does not turn false      *)
(* answers into success".  A success that the sanitizer published goes     *)
(* back to a right answer, or to a boolean of the report it came from that *)
(* the sanitizer does not hold against an answer (Evidence): a success is  *)
(* never made out of text.  And the booleans of this repository's          *)
(* benchmarks stand for right answers, but for a call of the right tool    *)
(* with any arguments.                                                     *)
NoFalseSuccess ==
    writer = "sanitizer" =>
        /\ Succeeds("none", public.top) => Founded("none", raw.top)
        /\ \A i \in DOMAIN public.entries :
              Succeeds(public.section, public.entries[i]) => Founded(raw.section, raw.entries[i])

Private(e) == e.shown \/ e.validated \in Text \/ e.label = "marker"

(* verify_directory runs the sanitizer on its own output.  It has nothing  *)
(* to say of a file the sanitizer wrote, although the answers by which the *)
(* verdicts were decided are gone from it; and of any other file it only   *)
(* passes what has no answer, no text for a verdict and no name of the     *)
(* model in it, so neither a report that was put there as it was nor the   *)
(* half of a file.                                                         *)
VerifyDecides ==
    public # Nothing =>
        /\ writer = "sanitizer" => ~Finding(public)
        /\ ~Finding(public) =>
              /\ public # Torn
              /\ public.model = "none" /\ public.sampler # "other"
              /\ ~Private(public.top)
              /\ \A i \in DOMAIN public.entries : ~Private(public.entries[i])
================================================================================
