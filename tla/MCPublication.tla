----------------------------- MODULE MCPublication -----------------------------
(* Reports of before: one entry of any kind, in any section, beside one that *)
(* is in order or one that has to be refused.                              *)
EXTENDS Publication

InOrder == [Bare EXCEPT !.label = "factual", !.passed = "true", !.correct = "true",
                        !.answer = "right"]
OutOfOrder == [Bare EXCEPT !.label = "factual", !.validated = "other"]

Old(section, top, entries) ==
    [file |-> "report", by |-> "others", model |-> "public", sampler |-> "profile",
     top |-> top, section |-> section, entries |-> entries]

Entries ==
    {e \in Entry :
        /\ e.label \in {"factual", "marker", "none", "context"}
        /\ e.answer \in IF e.shown THEN {"right", "name"} ELSE {"wrong"}}

InSections ==
    {Old(s, Bare, [i \in Slot |-> IF i = 1 THEN e ELSE other]) :
        s \in Section \ {"none"}, e \in Entries, other \in {InOrder, OutOfOrder}}

AtTop == {Old("none", e, <<>>) : e \in Entries}

Tagged ==
    LET ok == Old("probes", Bare, [i \in Slot |-> InOrder]) IN
      {[ok EXCEPT !.file = f, !.model = m, !.sampler = p] :
          f \in {"report", "summary"}, m \in {"public", "other", "none"},
          p \in {"profile", "other", "none"}}

MCRetained == InSections \cup AtTop \cup Tagged
================================================================================
