--------------------------- MODULE PublicationProofs ---------------------------
(***************************************************************************)
(* For every set of retained reports: verify_directory agrees with the     *)
(* sanitizer, and no false answer is published as a success.               *)
(***************************************************************************)
EXTENDS Publication, TLAPS

LEMMA MappingFields ==
    ASSUME NEW e \in Entry
    PROVE  /\ Mapping(e) \in Entry
           /\ Mapping(e).label = "none"
           /\ Mapping(e).passed = e.passed
           /\ Mapping(e).correct = e.correct
           /\ Mapping(e).validated \in Flag
           /\ e.validated \in Flag => Mapping(e).validated = e.validated
           /\ Mapping(e).shown = FALSE
           /\ Mapping(e).answer = "none"
           /\ Mapping(e).measured = e.measured
BY DEF Mapping, Entry, Flag, Bool, Label, Answer

(* An entry is the record of its fields.                                   *)
LEMMA SameFields ==
    ASSUME NEW e \in Entry, NEW f \in Entry,
           e.label = f.label, e.passed = f.passed, e.correct = f.correct,
           e.validated = f.validated, e.shown = f.shown, e.answer = f.answer,
           e.measured = f.measured
    PROVE  e = f
BY DEF Entry

LEMMA FunctionalFields ==
    ASSUME NEW e \in Entry
    PROVE  /\ Functional(e) \in Entry
           /\ Functional(e).label = e.label
           /\ Functional(e).passed = IF e.shown THEN AsFlag(e.answer = "right") ELSE e.passed
           /\ Functional(e).correct = e.correct
           /\ Functional(e).validated = "none"
           /\ Functional(e).shown = FALSE
           /\ Functional(e).answer = "none"
           /\ Functional(e).measured = e.measured
BY MappingFields DEF Functional, Entry, Flag, Bool, AsFlag

LEMMA StreamFields ==
    ASSUME NEW e \in Entry
    PROVE  /\ Stream(e) \in Entry
           /\ Stream(e).label = "none"
           /\ Stream(e).passed = "none"
           /\ Stream(e).correct = IF e.validated \in Bool THEN e.validated
                                  ELSE IF e.validated \in Text THEN AsFlag(e.answer = "right")
                                  ELSE e.correct
           /\ Stream(e).validated = "none"
           /\ Stream(e).shown = FALSE
           /\ Stream(e).answer = "none"
           /\ Stream(e).measured = e.measured
BY MappingFields DEF Stream, Entry, Flag, Bool, Text, AsFlag

LEMMA ProbeFields ==
    ASSUME NEW e \in Entry
    PROVE  /\ Probe(e) \in Entry
           /\ Probe(e).label = "none"
           /\ Probe(e).passed = IF e.shown THEN AsFlag(e.answer = "right") ELSE e.passed
           /\ Probe(e).correct = e.correct
           /\ Probe(e).validated = Mapping(e).validated
           /\ Probe(e).shown = FALSE
           /\ Probe(e).answer = "none"
           /\ Probe(e).measured = e.measured
BY MappingFields DEF Probe, Entry, Flag, Bool, AsFlag

(* What the sanitizer makes of one verdict it makes of that again, refuses *)
(* no more, and shows nothing of.                                          *)
LEMMA EntryIsSettled ==
    ASSUME NEW section \in Section, NEW e \in Entry
    PROVE  LET c == EntryCleaned(section, e) IN
             /\ c \in Entry
             /\ ~EntryRefused(section, c)
             /\ EntryCleaned(section, c) = c
             /\ Kept(section, e) => Kept(section, c) /\ ~Private(c)
<1> DEFINE c == EntryCleaned(section, e)
<1> HIDE DEF c
<1> SUFFICES /\ c \in Entry
             /\ ~EntryRefused(section, c)
             /\ EntryCleaned(section, c) = c
             /\ Kept(section, e) => Kept(section, c) /\ ~Private(c)
  BY DEF c
<1>1. CASE section = "functional"
  <2>1. c = Functional(e) /\ EntryCleaned(section, c) = Functional(c)
    BY <1>1 DEF EntryCleaned, c
  <2>2. c \in Entry
    BY <2>1, FunctionalFields
  <2>3. ~EntryRefused(section, c)
    BY <2>1, <1>1, FunctionalFields DEF EntryRefused, FunctionalRefused, Flag, Bool, Text
  <2>4. Functional(c) = c
    <3>1. c.validated = "none" /\ c.shown = FALSE /\ c.answer = "none"
      BY <2>1, FunctionalFields
    <3>2. Functional(c) \in Entry
      BY <2>2, FunctionalFields
    <3>3. /\ Functional(c).label = c.label /\ Functional(c).passed = c.passed
          /\ Functional(c).correct = c.correct /\ Functional(c).validated = c.validated
          /\ Functional(c).shown = c.shown /\ Functional(c).answer = c.answer
          /\ Functional(c).measured = c.measured
      BY <2>2, <3>1, <3>2, FunctionalFields
    <3> QED
      BY <2>2, <3>2, <3>3, SameFields
  <2>5. Kept(section, e) => Kept(section, c)
    BY <2>1, <2>4, <1>1, FunctionalFields DEF Kept, c
  <2>6. Kept(section, e) => ~Private(c)
    BY <2>1, <1>1, FunctionalFields, MappingFields DEF Kept, Private, Flag, Bool, Text, Fixture
  <2> QED
    BY <2>1, <2>2, <2>3, <2>4, <2>5, <2>6
<1>2. CASE section = "streams"
  <2>1. c = Stream(e) /\ EntryCleaned(section, c) = Stream(c)
    BY <1>2 DEF EntryCleaned, c
  <2>2. c \in Entry
    BY <2>1, StreamFields
  <2>3. ~EntryRefused(section, c)
    BY <2>1, <1>2, StreamFields DEF EntryRefused, StreamRefused, Flag, Bool, Text
  <2>4. Stream(c) = c
    <3>1. /\ c.label = "none" /\ c.passed = "none" /\ c.validated = "none"
          /\ c.shown = FALSE /\ c.answer = "none"
      BY <2>1, StreamFields
    <3>2. Stream(c) \in Entry /\ Stream(c).correct = c.correct
      BY <2>2, <3>1, StreamFields DEF Bool, Text
    <3>3. /\ Stream(c).label = c.label /\ Stream(c).passed = c.passed
          /\ Stream(c).correct = c.correct /\ Stream(c).validated = c.validated
          /\ Stream(c).shown = c.shown /\ Stream(c).answer = c.answer
          /\ Stream(c).measured = c.measured
      BY <2>2, <3>1, <3>2, StreamFields
    <3> QED
      BY <2>2, <3>2, <3>3, SameFields
  <2>5. Kept(section, e) => Kept(section, c)
    BY <2>1, <2>4, <1>2, StreamFields DEF Kept, c
  <2>6. Kept(section, e) => ~Private(c)
    BY <2>1, <1>2, StreamFields, MappingFields DEF Kept, Private, Flag, Bool, Text, Fixture
  <2> QED
    BY <2>1, <2>2, <2>3, <2>4, <2>5, <2>6
<1>3. CASE section = "probes"
  <2>1. c = Probe(e) /\ EntryCleaned(section, c) = Probe(c)
    BY <1>3 DEF EntryCleaned, c
  <2>2. c \in Entry
    BY <2>1, ProbeFields
  <2>3. ~EntryRefused(section, c)
    BY <2>1, <1>3, ProbeFields DEF EntryRefused, Flag, Bool, Text
  <2>4. Probe(c) = c
    <3>1. c.label = "none" /\ c.validated \in Flag /\ c.shown = FALSE /\ c.answer = "none"
      BY <2>1, ProbeFields, MappingFields
    <3>2. Probe(c) \in Entry /\ Probe(c).validated = c.validated
      BY <2>2, <3>1, ProbeFields, MappingFields
    <3>3. /\ Probe(c).label = c.label /\ Probe(c).passed = c.passed
          /\ Probe(c).correct = c.correct /\ Probe(c).validated = c.validated
          /\ Probe(c).shown = c.shown /\ Probe(c).answer = c.answer
          /\ Probe(c).measured = c.measured
      BY <2>2, <3>1, <3>2, ProbeFields
    <3> QED
      BY <2>2, <3>2, <3>3, SameFields
  <2>5. Kept(section, e) => Kept(section, c)
    BY <2>1, <2>4, <1>3, ProbeFields DEF Kept, c
  <2>6. Kept(section, e) => ~Private(c)
    BY <2>1, <1>3, ProbeFields, MappingFields DEF Kept, Private, Flag, Bool, Text, Fixture
  <2> QED
    BY <2>1, <2>2, <2>3, <2>4, <2>5, <2>6
<1>4. CASE section \in {"samples", "none"}
  <2>1. c = Mapping(e) /\ EntryCleaned(section, c) = Mapping(c)
    BY <1>4 DEF EntryCleaned, c
  <2>2. c \in Entry
    BY <2>1, MappingFields
  <2>3. ~EntryRefused(section, c)
    BY <2>1, <1>4, MappingFields DEF EntryRefused, Flag, Bool, Text
  <2>4. Mapping(c) = c
    <3>1. c.label = "none" /\ c.validated \in Flag /\ c.shown = FALSE /\ c.answer = "none"
      BY <2>1, MappingFields
    <3>2. Mapping(c) \in Entry /\ Mapping(c).validated = c.validated
      BY <2>2, <3>1, MappingFields
    <3>3. /\ Mapping(c).label = c.label /\ Mapping(c).passed = c.passed
          /\ Mapping(c).correct = c.correct /\ Mapping(c).validated = c.validated
          /\ Mapping(c).shown = c.shown /\ Mapping(c).answer = c.answer
          /\ Mapping(c).measured = c.measured
      BY <2>2, <3>1, <3>2, MappingFields
    <3> QED
      BY <2>2, <3>2, <3>3, SameFields
  <2>5. Kept(section, e) => Kept(section, c)
    BY <2>1, <2>4, <1>4, MappingFields DEF Kept, c
  <2>6. Kept(section, e) => ~Private(c)
    BY <2>1, <1>4, MappingFields, MappingFields DEF Kept, Private, Flag, Bool, Text, Fixture
  <2> QED
    BY <2>1, <2>2, <2>3, <2>4, <2>5, <2>6
<1> QED
  BY <1>1, <1>2, <1>3, <1>4 DEF Section

LEMMA TopFields ==
    ASSUME NEW e \in Entry
    PROVE  /\ Top(e) \in Entry
           /\ Top(e).label = IF e.label = "context" THEN "context" ELSE "none"
           /\ Top(e).passed = IF e.validated \in Text THEN AsFlag(e.answer = "right") ELSE e.passed
           /\ Top(e).correct = e.correct
           /\ Top(e).validated = IF e.validated \in Text THEN AsFlag(e.answer = "right")
                                 ELSE e.validated
           /\ Top(e).shown = FALSE
           /\ Top(e).answer = "none"
           /\ Top(e).measured = e.measured
<1> DEFINE kept == [Mapping(e) EXCEPT !.label = IF e.label = "context" THEN e.label ELSE @]
<1>1. /\ kept \in Entry
      /\ kept.label = IF e.label = "context" THEN "context" ELSE "none"
      /\ kept.passed = e.passed /\ kept.correct = e.correct
      /\ e.validated \in Flag => kept.validated = e.validated
      /\ kept.shown = FALSE /\ kept.answer = "none" /\ kept.measured = e.measured
  BY MappingFields DEF Entry, Label
<1>2. CASE e.validated \in Text
  <2>1. Top(e) = [kept EXCEPT !.passed = AsFlag(e.answer = "right"),
                              !.validated = AsFlag(e.answer = "right")]
    BY <1>2 DEF Top
  <2> HIDE DEF kept
  <2> QED
    BY <2>1, <1>1, <1>2 DEF Entry, AsFlag, Flag, Bool
<1>3. CASE e.validated \notin Text
  <2>1. Top(e) = kept
    BY <1>3 DEF Top
  <2>2. e.validated \in Flag
    BY <1>3 DEF Entry
  <2> HIDE DEF kept
  <2> QED
    BY <2>1, <2>2, <1>1, <1>3
<1> QED
  BY <1>2, <1>3

(* The same of the report's own verdict.                                   *)
LEMMA TopIsSettled ==
    ASSUME NEW e \in Entry
    PROVE  /\ Top(e) \in Entry
           /\ ~TopRefused(Top(e))
           /\ Top(Top(e)) = Top(e)
           /\ ~Private(Top(e))
<1>1. Top(e) \in Entry /\ Top(e).validated \in Flag
  BY TopFields DEF Entry, AsFlag, Flag, Bool
<1>2. ~TopRefused(Top(e)) /\ ~Private(Top(e))
  BY <1>1, TopFields DEF TopRefused, Private, Text, Flag, Bool
<1>3. Top(e).validated \notin Text
  BY <1>1 DEF Text, Flag, Bool
<1>4. Top(Top(e)) = Top(e)
  <2> DEFINE t == Top(e)
  <2>1. Top(t) \in Entry /\ t \in Entry
    BY <1>1, TopFields
  <2>2. t.label \in {"context", "none"} /\ t.shown = FALSE /\ t.answer = "none"
    BY TopFields
  <2>3. t.validated \notin Text
    BY <1>3
  <2> HIDE DEF t
  <2>4. /\ Top(t).label = t.label /\ Top(t).passed = t.passed
        /\ Top(t).correct = t.correct /\ Top(t).validated = t.validated
        /\ Top(t).shown = t.shown /\ Top(t).answer = t.answer
        /\ Top(t).measured = t.measured
    BY <2>1, <2>2, <2>3, TopFields
  <2>5. Top(t) = t
    BY <2>1, <2>4, SameFields
  <2> QED
    BY <2>5 DEF t
<1> QED
  BY <1>1, <1>2, <1>4
--------------------------------------------------------------------------------
(* Nothing in a file is for the author's eyes only.                        *)
Bared(p) ==
    /\ p.model = "none" /\ p.sampler # "other"
    /\ ~Private(p.top)
    /\ \A i \in DOMAIN p.entries : ~Private(p.entries[i])

KeptOf(r) == {i \in DOMAIN r.entries : Kept(r.section, r.entries[i])}

(* Clean, field by field.                                                  *)
LEMMA CleanFields ==
    ASSUME NEW r, Report(r)
    PROVE  /\ Report(Clean(r))
           /\ Clean(r).file = "report" /\ Clean(r).by = "others" /\ Clean(r).model = "none"
           /\ Clean(r).sampler = r.sampler
           /\ Clean(r).top = Top(r.top)
           /\ Clean(r).section = IF KeptOf(r) = {} THEN "none" ELSE r.section
           /\ Clean(r).entries = [i \in KeptOf(r) |-> EntryCleaned(r.section, r.entries[i])]
<1>1. Clean(r) =
        [file |-> "report", by |-> "others", model |-> "none", sampler |-> r.sampler,
         top |-> Top(r.top), section |-> IF KeptOf(r) = {} THEN "none" ELSE r.section,
         entries |-> [i \in KeptOf(r) |-> EntryCleaned(r.section, r.entries[i])]]
  BY DEF Clean, KeptOf
<1>2. Top(r.top) \in Entry
  BY TopIsSettled DEF Report
<1>3. \A i \in KeptOf(r) : EntryCleaned(r.section, r.entries[i]) \in Entry
  BY EntryIsSettled DEF Report, KeptOf
<1>4. KeptOf(r) \subseteq Slot /\ (r.section = "none" => KeptOf(r) = {})
  BY DEF Report, KeptOf
<1> QED
  BY <1>1, <1>2, <1>3, <1>4 DEF Report, Section

(* What the sanitizer has made, verify_directory leaves alone.             *)
LEMMA CleanIsSettled ==
    ASSUME NEW r, Report(r), ~Refused(r)
    PROVE  /\ ~Finding(Clean(r))
           /\ Bared(Clean(r))
<1> DEFINE c == Clean(r)
<1>1. /\ Report(c) /\ c.file = "report" /\ c.by = "others" /\ c.model = "none"
      /\ c.sampler = r.sampler /\ c.top = Top(r.top)
      /\ c.section = IF KeptOf(r) = {} THEN "none" ELSE r.section
      /\ c.entries = [i \in KeptOf(r) |-> EntryCleaned(r.section, r.entries[i])]
  BY CleanFields
<1> HIDE DEF c
<1>2. r.top \in Entry /\ r.section \in Section /\ c.sampler # "other"
  BY <1>1 DEF Report, Refused
<1>3. \A i \in KeptOf(r) : r.entries[i] \in Entry /\ Kept(r.section, r.entries[i])
  BY DEF Report, KeptOf
<1>4. ASSUME NEW i \in DOMAIN c.entries
      PROVE  /\ ~EntryRefused(c.section, c.entries[i])
             /\ EntryCleaned(c.section, c.entries[i]) = c.entries[i]
             /\ Kept(c.section, c.entries[i])
             /\ ~Private(c.entries[i])
  <2>1. i \in KeptOf(r) /\ c.section = r.section
        /\ c.entries[i] = EntryCleaned(r.section, r.entries[i])
    BY <1>1
  <2> QED
    BY <2>1, <1>2, <1>3, EntryIsSettled
<1>5. ~TopRefused(c.top) /\ Top(c.top) = c.top /\ ~Private(c.top)
  BY <1>1, <1>2, TopIsSettled
<1>6. ~Refused(c)
  BY <1>2, <1>4, <1>5 DEF Refused
<1>7. KeptOf(c) = DOMAIN c.entries
  BY <1>4 DEF KeptOf
<1>8. Clean(c) = c
  <2>1. /\ Report(Clean(c)) /\ Clean(c).file = "report" /\ Clean(c).by = "others"
        /\ Clean(c).model = "none" /\ Clean(c).sampler = c.sampler
        /\ Clean(c).top = Top(c.top)
        /\ Clean(c).section = IF KeptOf(c) = {} THEN "none" ELSE c.section
        /\ Clean(c).entries = [i \in KeptOf(c) |-> EntryCleaned(c.section, c.entries[i])]
    BY <1>1, CleanFields
  <2>2. Clean(c).section = c.section
    BY <2>1, <1>1, <1>7
  <2>3. Clean(c).entries = c.entries
    BY <2>1, <1>1, <1>4, <1>7
  <2> QED
    BY <2>1, <2>2, <2>3, <1>1, <1>5 DEF Report
<1>9. c # Torn
  BY <1>1 DEF Torn
<1> QED
  BY <1>1, <1>2, <1>4, <1>5, <1>6, <1>8, <1>9 DEF Finding, Bared, c

(* And what it leaves alone of other files is bared too.                   *)
LEMMA NoFindingIsBared ==
    ASSUME NEW p, Report(p), ~Finding(p)
    PROVE  Bared(p)
<1>1. ~Refused(p) /\ Clean(p) = p
  BY DEF Finding
<1> QED
  BY <1>1, CleanIsSettled

(* A success that comes out went in: with a right answer, or as a boolean  *)
(* where no answer is to be gone by.                                       *)
LEMMA EntryFounded ==
    ASSUME NEW section \in Section, NEW e \in Entry, section # "none",
           ~EntryRefused(section, e), Kept(section, e),
           Succeeds(section, EntryCleaned(section, e))
    PROVE  e.answer = "right" \/ (Claims(e) /\ ~Evidence(section, e))
<1>1. CASE section = "functional"
  BY <1>1, FunctionalFields DEF EntryCleaned, Succeeds, Claims, Evidence, AsFlag
<1>2. CASE section = "streams"
  BY <1>2, StreamFields DEF EntryCleaned, Succeeds, Claims, Evidence, AsFlag, Bool, Text
<1>3. CASE section = "probes"
  BY <1>3, ProbeFields DEF EntryCleaned, Succeeds, Claims, Evidence, AsFlag
<1>4. CASE section = "samples"
  BY <1>4, MappingFields DEF EntryCleaned, Succeeds, Claims, Evidence
<1> QED
  BY <1>1, <1>2, <1>3, <1>4 DEF Section

LEMMA TopFounded ==
    ASSUME NEW e \in Entry, Succeeds("none", Top(e))
    PROVE  e.answer = "right" \/ (Claims(e) /\ ~Evidence("none", e))
BY TopFields DEF Succeeds, Claims, Evidence, AsFlag, Text
--------------------------------------------------------------------------------
(* A boolean of one of this repository's benchmarks.                       *)
Honest(e) == Claims(e) => e.answer = "right" \/ (e.label = "tool" /\ e.answer = "name")

IInv ==
    /\ Report(raw)
    /\ raw.by = "benchmark" =>
          Honest(raw.top) /\ \A i \in DOMAIN raw.entries : Honest(raw.entries[i])
    /\ writer \in {"nobody", "sanitizer", "hand"}
    /\ writer = "nobody" => public \in {Nothing, Torn}
    /\ writer = "sanitizer" => public = Clean(raw) /\ ~Refused(raw)
    /\ writer = "hand" => Report(public)

(* The reports of the benchmarks are reports, and honest.                  *)
LEMMA MeasureIsHonest ==
    ASSUME Measure
    PROVE  /\ Report(raw')
           /\ Honest(raw'.top) /\ \A i \in DOMAIN raw'.entries : Honest(raw'.entries[i])
<1> DEFINE Fine(r) == /\ Report(r) /\ Honest(r.top)
                      /\ \A i \in DOMAIN r.entries : Honest(r.entries[i])
<1>1. Bare \in Entry /\ Honest(Bare)
  BY DEF Bare, Entry, Honest, Claims, Label, Flag, Bool, Answer
<1>2. ASSUME NEW section \in Section \ {"none"}, NEW entries \in [Slot -> Entry],
             \A i \in Slot : Honest(entries[i])
      PROVE  Fine(Measured(section, Bare, entries))
  BY <1>1, <1>2 DEF Measured, Report
<1>3. ASSUME NEW a \in [Slot -> Answer \ {"none"}], NEW fixture \in [Slot -> Fixture]
      PROVE  Fine(FunctionalReport(fixture, a))
  <2> DEFINE f == [i \in Slot |-> [Bare EXCEPT !.label = fixture[i], !.answer = a[i],
                                       !.passed = AsFlag(Validate(fixture[i], a[i]))]]
  <2>1. ASSUME NEW i \in Slot PROVE f[i] \in Entry /\ Honest(f[i])
    <3>1. fixture[i] \in Label /\ a[i] \in Answer
      BY DEF Label
    <3>2. f[i] = [label |-> fixture[i], passed |-> AsFlag(Validate(fixture[i], a[i])),
                  correct |-> "none", validated |-> "none", shown |-> FALSE,
                  answer |-> a[i], measured |-> TRUE]
      BY DEF Bare
    <3> HIDE DEF f
    <3>3. f[i] \in Entry
      BY <3>1, <3>2 DEF Entry, AsFlag, Flag, Bool
    <3> QED
      BY <3>2, <3>3 DEF Honest, Claims, AsFlag, Validate
  <2>2. f \in [Slot -> Entry]
    BY <2>1
  <2>3. FunctionalReport(fixture, a) = Measured("functional", Bare, f)
    BY DEF FunctionalReport
  <2> HIDE DEF f
  <2> QED
    BY <1>2, <2>1, <2>2, <2>3 DEF Section
<1>4. ASSUME NEW a \in [Slot -> Answer \ {"none"}]
      PROVE  Fine(StreamsReport(a))
  <2> DEFINE f == [i \in Slot |-> [Bare EXCEPT !.answer = a[i],
                                              !.correct = AsFlag(a[i] = "right")]]
  <2>1. ASSUME NEW i \in Slot PROVE f[i] \in Entry /\ Honest(f[i])
    BY DEF Bare, Entry, Honest, Claims, AsFlag, Label, Flag, Bool
  <2>2. f \in [Slot -> Entry]
    BY <2>1
  <2>3. StreamsReport(a) = Measured("streams", Bare, f)
    BY DEF StreamsReport
  <2> HIDE DEF f
  <2> QED
    BY <1>2, <2>1, <2>2, <2>3 DEF Section
<1>5. ASSUME NEW a \in [Slot -> Answer \ {"none"}]
      PROVE  Fine(ProbesReport(a))
  <2> DEFINE f == [i \in Slot |-> [Bare EXCEPT !.answer = a[i],
                                              !.passed = AsFlag(a[i] = "right")]]
  <2>1. ASSUME NEW i \in Slot PROVE f[i] \in Entry /\ Honest(f[i])
    BY DEF Bare, Entry, Honest, Claims, AsFlag, Label, Flag, Bool
  <2>2. f \in [Slot -> Entry]
    BY <2>1
  <2>3. ProbesReport(a) = Measured("probes", Bare, f)
    BY DEF ProbesReport
  <2> HIDE DEF f
  <2> QED
    BY <1>2, <2>1, <2>2, <2>3 DEF Section
<1>6. ASSUME NEW a \in Answer \ {"none"}
      PROVE  Fine(LongContextReport(a))
  <2> DEFINE e == [Bare EXCEPT !.label = "context", !.answer = a,
                               !.validated = AsFlag(a = "right")]
  <2>1. e \in Entry /\ Honest(e)
    BY DEF Bare, Entry, Honest, Claims, AsFlag, Label, Flag, Bool, Text
  <2>2. LongContextReport(a) = Measured("none", e, <<>>)
    BY DEF LongContextReport
  <2> HIDE DEF e
  <2> QED
    BY <2>1, <2>2 DEF Measured, Report, Section
<1> QED
  BY <1>3, <1>4, <1>5, <1>6 DEF Measure

LEMMA InvInit == Init => IInv
<1> SUFFICES ASSUME Init PROVE IInv
  OBVIOUS
<1>1. Report(raw)
  BY RetainedAssumption DEF Init
<1>2. raw.by # "benchmark"
  BY RetainedAssumption DEF Init, Report
<1> QED
  BY <1>1, <1>2 DEF Init, IInv

LEMMA InvStep == IInv /\ [Next]_vars => IInv'
<1> SUFFICES ASSUME IInv, [Next]_vars PROVE IInv'
  OBVIOUS
<1>1. CASE Measure
  <2>1. public' = public /\ writer' = writer /\ public = Nothing
    BY <1>1 DEF Measure
  <2>2. writer = "nobody"
    <3>1. Clean(raw) # Nothing
      <4>1. Report(raw)
        BY DEF IInv
      <4>2. Clean(raw).file = "report" /\ Nothing.file = "nothing"
        BY <4>1, CleanFields DEF Nothing
      <4> QED
        BY <4>2
    <3>2. ~Report(Nothing)
      BY DEF Report, Nothing
    <3> QED
      BY <2>1, <3>1, <3>2 DEF IInv
  <2> QED
    BY <1>1, <2>1, <2>2, MeasureIsHonest DEF IInv
<1>2. CASE NameModel
  <2>1. raw' = [file |-> raw.file, by |-> raw.by, model |-> "public",
                sampler |-> raw.sampler, top |-> raw.top, section |-> raw.section,
                entries |-> raw.entries]
    BY <1>2 DEF NameModel, IInv, Report
  <2>2. Report(raw')
    BY <2>1 DEF IInv, Report
  <2>3. Clean(raw') = Clean(raw) /\ Refused(raw') = Refused(raw)
    BY <2>1 DEF Clean, Refused
  <2> QED
    BY <1>2, <2>1, <2>2, <2>3 DEF NameModel, IInv
<1>3. CASE Sanitize
  BY <1>3 DEF Sanitize, IInv
<1>4. CASE Killed
  BY <1>4 DEF Killed, IInv
<1>5. CASE Copy
  <2> DEFINE Blind(e) == [e EXCEPT !.answer = IF e.shown THEN @ ELSE "none"]
  <2>1. \A e \in Entry : Blind(e) \in Entry
    BY DEF Entry, Answer
  <2>2. Read(raw) =
          [file |-> "report", by |-> "others", model |-> raw.model, sampler |-> raw.sampler,
           top |-> Blind(raw.top), section |-> raw.section,
           entries |-> [i \in DOMAIN raw.entries |-> Blind(raw.entries[i])]]
    BY DEF Read
  <2>3. Report(Read(raw))
    <3> HIDE DEF Blind
    <3> QED
      BY <2>1, <2>2 DEF IInv, Report
  <2> QED
    BY <1>5, <2>3 DEF Copy, IInv
<1>6. CASE UNCHANGED vars
  BY <1>6 DEF vars, IInv
<1> QED
  BY <1>1, <1>2, <1>3, <1>4, <1>5, <1>6 DEF Next

LEMMA InvHolds == Spec => []IInv
BY InvInit, InvStep, PTL DEF Spec

(* verify_directory says nothing of what the sanitizer wrote, and of other *)
(* files it lets pass only those with nothing to hide (VerifyDecides).     *)
THEOREM VerifyAgrees == Spec => []VerifyDecides
<1>1. IInv => VerifyDecides
  <2> SUFFICES ASSUME IInv, public # Nothing PROVE VerifyDecides
    BY DEF VerifyDecides
  <2>1. CASE writer = "sanitizer"
    <3>1. Report(raw) /\ ~Refused(raw) /\ public = Clean(raw)
      BY <2>1 DEF IInv
    <3>2. ~Finding(public) /\ Bared(public)
      BY <3>1, CleanIsSettled
    <3>3. public # Torn
      BY <3>2 DEF Finding
    <3> QED
      BY <3>2, <3>3 DEF VerifyDecides, Bared
  <2>2. CASE writer = "hand"
    <3>1. public # Torn
      BY <2>2 DEF IInv, Torn, Report
    <3>2. ~Finding(public) => Bared(public)
      BY <2>2, NoFindingIsBared DEF IInv
    <3> QED
      BY <2>2, <3>1, <3>2 DEF VerifyDecides, Bared
  <2>3. CASE writer = "nobody"
    BY <2>3 DEF IInv, VerifyDecides, Finding
  <2> QED
    BY <2>1, <2>2, <2>3 DEF IInv
<1> QED
  BY <1>1, InvHolds, PTL

(* The sanitizer publishes no success that is not founded on an answer or  *)
(* on a boolean that nothing speaks against (NoFalseSuccess).              *)
THEOREM SuccessIsFounded == Spec => []NoFalseSuccess
<1>1. IInv => NoFalseSuccess
  <2> SUFFICES ASSUME IInv, writer = "sanitizer" PROVE NoFalseSuccess
    BY DEF NoFalseSuccess
  <2>1. public = Clean(raw) /\ ~Refused(raw) /\ Report(raw)
    BY DEF IInv
  <2>2. raw.by = "benchmark" \/ raw.by = "others"
    BY <2>1 DEF Report
  <2>3. Succeeds("none", public.top) => Founded("none", raw.top)
    <3>1. raw.top \in Entry /\ public.top = Top(raw.top)
      BY <2>1, CleanFields DEF Report
    <3> QED
      BY <2>2, <3>1, TopFounded DEF IInv, Honest, Founded
  <2>4. ASSUME NEW i \in DOMAIN public.entries,
               Succeeds(public.section, public.entries[i])
        PROVE  Founded(raw.section, raw.entries[i])
    <3>1. /\ i \in KeptOf(raw) /\ public.section = raw.section
          /\ public.entries[i] = EntryCleaned(raw.section, raw.entries[i])
      <4>1. /\ public.section = IF KeptOf(raw) = {} THEN "none" ELSE raw.section
            /\ public.entries =
                 [j \in KeptOf(raw) |-> EntryCleaned(raw.section, raw.entries[j])]
        BY <2>1, CleanFields
      <4>2. i \in KeptOf(raw)
        BY <2>4, <4>1
      <4> QED
        BY <4>1, <4>2
    <3>2. /\ i \in DOMAIN raw.entries /\ raw.entries[i] \in Entry
          /\ raw.section \in Section \ {"none"}
          /\ Kept(raw.section, raw.entries[i])
      BY <2>1, <3>1 DEF Report, KeptOf
    <3>3. ~EntryRefused(raw.section, raw.entries[i])
      BY <2>1, <3>2 DEF Refused
    <3>4. raw.entries[i].answer = "right"
          \/ (Claims(raw.entries[i]) /\ ~Evidence(raw.section, raw.entries[i]))
      BY <2>4, <3>1, <3>2, <3>3, EntryFounded
    <3> QED
      BY <2>2, <3>2, <3>4 DEF IInv, Honest, Founded
  <2> QED
    BY <2>3, <2>4 DEF NoFalseSuccess
<1> QED
  BY <1>1, InvHolds, PTL
================================================================================
