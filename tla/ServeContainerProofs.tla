-------------------------- MODULE ServeContainerProofs --------------------------
(***************************************************************************)
(* The safety properties of ServeContainer for any number of invocations   *)
(* and targets.  ForeignKept holds under a condition, which is the one     *)
(* that the run serve_foreign breaks; SecondNeedsOverride names in itself  *)
(* what the run serve_two_ports shows.                                     *)
(***************************************************************************)
EXTENDS ServeContainer, TLAPS

LEMMA Names ==
    \A s \in Server : Name(s) \in Target /\ PortOf[s] \in Ports /\ BindOf[s] \in Address
BY ServersAssumption, AddressAssumption DEF Name, Ports

LEMMA TypeStep == TypeOK /\ [Next]_vars => TypeOK'
<1> SUFFICES ASSUME TypeOK, [Next]_vars PROVE TypeOK'
  OBVIOUS
<1>1. ASSUME NEW s \in Server, NEW l \in Location, Goto(s, l)
      PROVE  pc' \in [Server -> Location]
  BY <1>1 DEF Goto, TypeOK
<1>2. ASSUME NEW s \in Server, Options(s) \/ Inspect(s) \/ Label(s) \/ Gate(s)
      PROVE  TypeOK'
  <2>1. \E l \in Location : Goto(s, l)
    BY <1>2 DEF Options, Inspect, Label, Gate, Location
  <2> QED
    BY <1>1, <1>2, <2>1 DEF Options, Inspect, Label, Gate, TypeOK
<1>3. ASSUME NEW s \in Server, Remove(s)
      PROVE  TypeOK'
  <2>1. \E l \in Location : Goto(s, l)
    BY <1>3 DEF Remove, Location
  <2>2. slot' \in [Target -> {Free} \cup Container]
    BY <1>3 DEF Remove, TypeOK
  <2> QED
    BY <1>1, <1>3, <2>1, <2>2 DEF Remove, TypeOK
<1>4. ASSUME NEW s \in Server, Run(s)
      PROVE  TypeOK'
  <2>1. \E l \in Location : Goto(s, l)
    BY <1>4 DEF Run, Location
  <2>2. \A phase \in {"created", "loading"} :
          [owner |-> "recipe", phase |-> phase, bind |-> BindOf[s], port |-> PortOf[s],
             by |-> s] \in Container
    BY Names DEF Container, Owner, Phase
  <2>3. slot' \in [Target -> {Free} \cup Container]
    BY <1>4, <2>2 DEF Run, TypeOK
  <2> QED
    BY <1>1, <1>4, <2>1, <2>3 DEF Run, TypeOK
<1>5. ASSUME NEW t \in Target, Load(t) \/ Exit(t) \/ ForeignTakes(t)
      PROVE  TypeOK'
  <2>1. slot[t] # Free => \A phase \in Phase : [slot[t] EXCEPT !.phase = phase] \in Container
    BY DEF TypeOK, Container
  <2>2. slot' \in [Target -> {Free} \cup Container]
    <3>1. CASE Load(t)
      BY <2>1, <3>1 DEF Load, TypeOK, Phase
    <3>2. CASE Exit(t)
      BY <2>1, <3>2 DEF Exit, Up, TypeOK, Phase
    <3>3. CASE ForeignTakes(t)
      BY <3>3 DEF ForeignTakes, TypeOK, Container, Owner, Phase
    <3> QED
      BY <1>5, <3>1, <3>2, <3>3
  <2> QED
    BY <1>5, <2>2 DEF Load, Exit, ForeignTakes, TypeOK
<1>6. CASE DiskFills \/ UNCHANGED vars
  BY <1>6 DEF DiskFills, vars, TypeOK
<1> QED
  BY <1>2, <1>3, <1>4, <1>5, <1>6 DEF Next, Proceed, Environment

(* Types of the state (TypeOK).                                            *)
THEOREM ServeTypeCorrect == Spec => []TypeOK
<1>1. Init => TypeOK
  BY DEF Init, TypeOK, Container, Owner, Phase, Location
<1> QED
  BY <1>1, TypeStep, PTL DEF Spec
--------------------------------------------------------------------------------
(* What holds of every invocation that came past its options, and of every *)
(* container: without the override the address is the loopback.  A model   *)
(* that was up before is in memory, so nobody comes past the gate beside   *)
(* it without the override.                                                *)
PastOptions ==
    \A s \in Server : pc[s] \notin {"options", "refused"} => s \in Overriding \/ BindOf[s] = Loopback

(* A container that an invocation without the override made and that is up.*)
Guarded(c) == Up(c) /\ c.by \in Server \ Overriding

OnLoopback == \A t \in Target : Guarded(slot[t]) => slot[t].bind = Loopback

OlderUp(c) == Up(c) /\ c.by = Older

OlderLoaded == \A t \in Target : OlderUp(slot[t]) => slot[t].phase = "loaded"

OneOlder == \A t, u \in Target : OlderUp(slot[t]) /\ OlderUp(slot[u]) => t = u

NoneBesideOlder ==
    \A t \in Target : OlderUp(slot[t]) =>
        /\ \A u \in Target : ~Guarded(slot[u])
        /\ \A s \in Server \ Overriding : pc[s] # "run"

OnePort ==
    \A t, u \in Target :
        Guarded(slot[t]) /\ Guarded(slot[u]) /\ slot[t].port = slot[u].port => t = u

UpInv == PastOptions /\ OnLoopback /\ OlderLoaded /\ OneOlder /\ NoneBesideOlder /\ OnePort

LEMMA UpInvImplies == TypeOK /\ UpInv => SecondNeedsOverride
<1> SUFFICES ASSUME TypeOK, UpInv, NEW t \in Target, NEW u \in Target, t # u,
                    Up(slot[t]), Up(slot[u]),
                    slot[t].by \notin Overriding, slot[u].by \notin Overriding
             PROVE  {slot[t].by, slot[u].by} \subseteq Server /\ slot[t].port # slot[u].port
  BY DEF SecondNeedsOverride
<1>1. slot[t] \in Container /\ slot[u] \in Container
  BY DEF TypeOK, Up
<1>2. slot[t].by \in Server \cup {Older} /\ slot[u].by \in Server \cup {Older}
  BY <1>1 DEF Container
<1>3. OlderUp(slot[t]) \/ Guarded(slot[t])
  BY <1>2 DEF OlderUp, Guarded
<1>4. OlderUp(slot[u]) \/ Guarded(slot[u])
  BY <1>2 DEF OlderUp, Guarded
<1>5. Guarded(slot[t]) /\ Guarded(slot[u])
  BY <1>3, <1>4 DEF UpInv, OneOlder, NoneBesideOlder
<1> QED
  BY <1>5 DEF UpInv, OnePort, Guarded

(* A step that brings nothing up, moves nobody to run and lets nobody past *)
(* the options who may not pass.                                           *)
LEMMA NothingComesUp ==
    ASSUME UpInv, PastOptions',
           \A t \in Target : Up(slot'[t]) =>
              /\ Up(slot[t]) /\ slot'[t].by = slot[t].by /\ slot'[t].bind = slot[t].bind
              /\ slot'[t].port = slot[t].port
              /\ slot[t].phase = "loaded" => slot'[t].phase = "loaded",
           \A s \in Server : pc'[s] = "run" =>
              \/ pc[s] = "run"
              \/ s \in Overriding
              \/ \A t \in Target : ~OlderUp(slot[t])
    PROVE  UpInv'
<1>1. \A t \in Target : Guarded(slot'[t]) =>
         Guarded(slot[t]) /\ slot'[t].bind = slot[t].bind /\ slot'[t].port = slot[t].port
  BY DEF Guarded
<1>2. \A t \in Target : OlderUp(slot'[t]) =>
         OlderUp(slot[t]) /\ (slot[t].phase = "loaded" => slot'[t].phase = "loaded")
  BY DEF OlderUp
<1>3. OnLoopback' /\ OnePort'
  BY <1>1 DEF UpInv, OnLoopback, OnePort
<1>4. OlderLoaded' /\ OneOlder'
  BY <1>2 DEF UpInv, OlderLoaded, OneOlder
<1>5. NoneBesideOlder'
  BY <1>1, <1>2 DEF UpInv, NoneBesideOlder
<1> QED
  BY <1>3, <1>4, <1>5 DEF UpInv

(* docker run: the port was free on the address, and without the override  *)
(* no older model is up, since the invocation came past the gate.          *)
LEMMA RunKeeps ==
    ASSUME TypeOK, UpInv, PastOptions', NEW s \in Server, Run(s)
    PROVE  UpInv'
<1> DEFINE n == Name(s)
           taken == PortTaken(BindOf[s], PortOf[s])
<1>1. pc[s] = "run" /\ pc'[s] # "run" /\ \A r \in Server \ {s} : pc'[r] = pc[r]
  BY DEF Run, Goto, TypeOK
<1>2. CASE slot' = slot
  BY <1>1, <1>2, NothingComesUp
<1>3. CASE slot' # slot
  <2>1. slot' = [slot EXCEPT ![n] = [owner |-> "recipe",
                   phase |-> IF taken THEN "created" ELSE "loading",
                   bind |-> BindOf[s], port |-> PortOf[s], by |-> s]]
    BY <1>3 DEF Run
  <2>2. n \in Target
    BY Names
  <2>3. /\ slot'[n].phase = IF taken THEN "created" ELSE "loading"
        /\ slot'[n].bind = BindOf[s] /\ slot'[n].port = PortOf[s] /\ slot'[n].by = s
        /\ \A t \in Target \ {n} : slot'[t] = slot[t]
    BY <2>1, <2>2 DEF TypeOK
  <2>4. CASE taken
    <3>1. ~Up(slot'[n])
      BY <2>3, <2>4 DEF Up
    <3> QED
      BY <1>1, <2>3, <3>1, NothingComesUp
  <2>5. CASE ~taken
    <3>1. ~OlderUp(slot'[n])
      BY <2>3, ServersAssumption DEF OlderUp
    <3>2. \A t \in Target : OlderUp(slot'[t]) => t # n /\ OlderUp(slot[t]) /\ slot'[t] = slot[t]
      BY <2>3, <3>1
    <3>3. OlderLoaded' /\ OneOlder'
      BY <3>2 DEF UpInv, OlderLoaded, OneOlder
    <3>4. CASE s \in Overriding
      <4>1. ~Guarded(slot'[n])
        BY <2>3, <3>4 DEF Guarded
      <4>2. \A t \in Target : Guarded(slot'[t]) => Guarded(slot[t]) /\ slot'[t] = slot[t]
        BY <2>3, <4>1
      <4> QED
        BY <1>1, <3>2, <3>3, <3>4, <4>2
           DEF UpInv, OnLoopback, NoneBesideOlder, OnePort
    <3>5. CASE s \notin Overriding
      <4>1. \A t \in Target : ~OlderUp(slot[t])
        BY <1>1, <3>5 DEF UpInv, NoneBesideOlder
      <4>2. \A t \in Target : ~OlderUp(slot'[t])
        BY <3>2, <4>1
      <4>3. BindOf[s] = Loopback
        BY <1>1, <3>5 DEF UpInv, PastOptions
      <4>4. OnLoopback'
        BY <2>3, <4>3 DEF UpInv, OnLoopback
      <4>5. \A t \in Target \ {n} : Guarded(slot[t]) => slot[t].port # PortOf[s]
        BY <2>5, <4>3 DEF UpInv, OnLoopback, PortTaken, Guarded
      <4>6. OnePort'
        BY <2>3, <4>5 DEF UpInv, OnePort
      <4> QED
        BY <3>3, <4>2, <4>4, <4>6 DEF UpInv, NoneBesideOlder
    <3> QED
      BY <3>4, <3>5
  <2> QED
    BY <2>4, <2>5
<1> QED
  BY <1>2, <1>3

LEMMA PastOptionsStep == TypeOK /\ PastOptions /\ [Next]_vars => PastOptions'
<1> SUFFICES ASSUME TypeOK, PastOptions, [Next]_vars PROVE PastOptions'
  OBVIOUS
<1>1. ASSUME NEW s \in Server, Proceed(s) PROVE PastOptions'
  <2>1. \A r \in Server \ {s} : pc'[r] = pc[r]
    BY <1>1 DEF Proceed, Options, Inspect, Label, Remove, Gate, Run, Goto, TypeOK
  <2>2. pc'[s] \notin {"options", "refused"} => s \in Overriding \/ BindOf[s] = Loopback
    <3>1. CASE Options(s)
      BY <3>1 DEF Options, Goto, TypeOK
    <3>2. CASE ~Options(s)
      <4>1. pc[s] \notin {"options", "refused"}
        BY <1>1, <3>2 DEF Proceed, Inspect, Label, Remove, Gate, Run
      <4> QED
        BY <4>1 DEF PastOptions
    <3> QED
      BY <3>1, <3>2
  <2> QED
    BY <2>1, <2>2 DEF PastOptions
<1>2. CASE Environment \/ UNCHANGED vars
  BY <1>2 DEF Environment, DiskFills, Load, Exit, ForeignTakes, vars, PastOptions
<1> QED
  BY <1>1, <1>2 DEF Next

LEMMA UpStep == TypeOK /\ UpInv /\ [Next]_vars => UpInv'
<1> SUFFICES ASSUME TypeOK, UpInv, [Next]_vars PROVE UpInv'
  OBVIOUS
<1>1. PastOptions'
  BY PastOptionsStep DEF UpInv
<1>2. ASSUME NEW s \in Server, Options(s) \/ Inspect(s) \/ Label(s)
      PROVE  UpInv'
  <2>1. slot' = slot /\ \A r \in Server : pc'[r] = "run" => pc[r] = "run"
    BY <1>2 DEF Options, Inspect, Label, Goto, TypeOK
  <2> QED
    BY <1>1, <2>1, NothingComesUp
<1>3. ASSUME NEW s \in Server, Remove(s)
      PROVE  UpInv'
  <2>1. \A r \in Server : pc'[r] = "run" => pc[r] = "run"
    BY <1>3 DEF Remove, Goto, TypeOK
  <2>2. \A t \in Target : slot'[t] = slot[t] \/ slot'[t] = Free
    BY <1>3 DEF Remove, TypeOK
  <2>3. \A t \in Target : Up(slot'[t]) => slot'[t] = slot[t]
    BY <2>2 DEF Up
  <2> QED
    BY <1>1, <2>1, <2>3, NothingComesUp
<1>4. ASSUME NEW s \in Server, Gate(s)
      PROVE  UpInv'
  <2>1. slot' = slot /\ \A r \in Server \ {s} : pc'[r] = pc[r]
    BY <1>4 DEF Gate, Goto, TypeOK
  <2>2. pc'[s] = "run" => s \in Overriding \/ MemAvailable
    BY <1>4 DEF Gate, Goto, TypeOK
  <2>3. MemAvailable => \A t \in Target : ~OlderUp(slot[t])
    BY DEF MemAvailable, UpInv, OlderLoaded, OlderUp, Up
  <2> QED
    BY <1>1, <2>1, <2>2, <2>3, NothingComesUp
<1>5. ASSUME NEW s \in Server, Run(s)
      PROVE  UpInv'
  BY <1>1, <1>5, RunKeeps
<1>6. ASSUME NEW u \in Target, Load(u) \/ Exit(u) \/ ForeignTakes(u)
      PROVE  UpInv'
  <2>1. pc' = pc /\ \A t \in Target \ {u} : slot'[t] = slot[t]
    BY <1>6 DEF Load, Exit, ForeignTakes, TypeOK
  <2>2. Up(slot'[u]) =>
           /\ Up(slot[u]) /\ slot'[u].by = slot[u].by /\ slot'[u].bind = slot[u].bind
           /\ slot'[u].port = slot[u].port /\ slot'[u].phase = "loaded"
    <3>1. CASE Load(u)
      BY <3>1 DEF Load, Up, TypeOK, Container
    <3>2. CASE Exit(u)
      BY <3>2 DEF Exit, Up, TypeOK, Container
    <3>3. CASE ForeignTakes(u)
      BY <3>3 DEF ForeignTakes, Up, TypeOK
    <3> QED
      BY <1>6, <3>1, <3>2, <3>3
  <2> QED
    BY <1>1, <2>1, <2>2, NothingComesUp
<1>7. CASE DiskFills \/ UNCHANGED vars
  <2>1. slot' = slot /\ pc' = pc
    BY <1>7 DEF DiskFills, vars
  <2> QED
    BY <1>1, <2>1, NothingComesUp
<1> QED
  BY <1>2, <1>3, <1>4, <1>5, <1>6, <1>7 DEF Next, Proceed, Environment

(* Beside a model that is up, another comes up only with the override, or  *)
(* on a second port while the first is still loading (SecondNeedsOverride):*)
(* for any number of invocations, targets, ports and addresses.  Beside an *)
(* older model it is the memory gate that keeps the others out, among the  *)
(* new ones the port of the loopback, to which the options confine them.   *)
THEOREM SecondModelByOverride == Spec => []SecondNeedsOverride
<1>1. Init => UpInv
  <2> SUFFICES ASSUME Init PROVE UpInv
    OBVIOUS
  <2>1. \A t \in Target : slot[t] # Free => slot[t].by = Older /\ slot[t].phase # "loading"
    BY DEF Init, Phase
  <2>2. \A t \in Target : ~Guarded(slot[t])
    BY <2>1, ServersAssumption DEF Guarded, Up
  <2>3. OlderLoaded
    BY <2>1 DEF OlderLoaded, OlderUp, Up
  <2> QED
    BY <2>2, <2>3 DEF Init, UpInv, PastOptions, OnLoopback, OneOlder, OlderUp,
       NoneBesideOlder, OnePort
<1>2. TypeOK /\ UpInv /\ [Next]_vars => UpInv'
  BY UpStep
<1> QED
  BY <1>1, <1>2, UpInvImplies, ServeTypeCorrect, PTL DEF Spec
--------------------------------------------------------------------------------
(* What an invocation is about to remove is still the recipe's.            *)
RemovesOwn ==
    \A s \in Server : pc[s] = "remove" =>
        /\ s \in Replacing
        /\ slot[Name(s)] # Free => slot[Name(s)].owner = "recipe"
        /\ slot[Name(s)] = Free => ~ForeignArrives

Labelled == \A s \in Server : pc[s] = "label" => s \in Replacing

(* Nobody else's container is removed (ForeignKept), if no other user of   *)
(* the daemon takes a name that came free, or if no two invocations        *)
(* replace the container of one target.                                    *)
THEOREM ReplaceSparesForeign ==
    ASSUME \/ ~ForeignArrives
           \/ \A r, s \in Replacing : TargetOf[r] = TargetOf[s] => r = s
    PROVE  Spec => ForeignKept
<1> DEFINE Inv == TypeOK /\ Labelled /\ RemovesOwn
<1>1. Init => Inv
  BY DEF Init, TypeOK, Labelled, RemovesOwn, Container, Owner, Phase, Location
<1>2. Inv /\ [Next]_vars => Inv'
  <2> SUFFICES ASSUME Inv, [Next]_vars PROVE Inv'
    OBVIOUS
  <2>1. TypeOK'
    BY TypeStep
  <2>2. ASSUME NEW s \in Server, Inspect(s) PROVE Labelled' /\ RemovesOwn'
    <3>1. pc'[s] # "remove" /\ (pc'[s] = "label" => s \in Replacing)
      BY <2>2 DEF Inspect, Goto, TypeOK
    <3>2. \A r \in Server \ {s} : pc'[r] = pc[r]
      BY <2>2 DEF Inspect, Goto, TypeOK
    <3> QED
      BY <2>2, <3>1, <3>2 DEF Inspect, Labelled, RemovesOwn
  <2>3. ASSUME NEW s \in Server, Label(s) PROVE Labelled' /\ RemovesOwn'
    <3>1. /\ pc'[s] # "label" /\ s \in Replacing
          /\ pc'[s] = "remove" => slot[Name(s)] # Free /\ slot[Name(s)].owner = "recipe"
      BY <2>3 DEF Label, Goto, TypeOK, Labelled
    <3>2. \A r \in Server \ {s} : pc'[r] = pc[r]
      BY <2>3 DEF Label, Goto, TypeOK
    <3> QED
      BY <2>3, <3>1, <3>2 DEF Label, Labelled, RemovesOwn
  <2>4. ASSUME NEW s \in Server, Options(s) \/ Gate(s) PROVE Labelled' /\ RemovesOwn'
    <3>1. pc'[s] \notin {"label", "remove"} /\ \A r \in Server \ {s} : pc'[r] = pc[r]
      BY <2>4 DEF Options, Gate, Goto, TypeOK
    <3> QED
      BY <2>4, <3>1 DEF Options, Gate, Labelled, RemovesOwn
  <2>5. ASSUME NEW s \in Server, Remove(s) PROVE Labelled' /\ RemovesOwn'
    <3>1. pc[s] = "remove" /\ pc'[s] \notin {"label", "remove"}
          /\ \A r \in Server \ {s} : pc'[r] = pc[r]
      BY <2>5 DEF Remove, Goto, TypeOK
    <3>2. \A r \in Server : \/ slot'[Name(r)] = slot[Name(r)]
                            \/ Name(r) = Name(s) /\ slot'[Name(r)] = Free
      <4>1. slot' = [slot EXCEPT ![Name(s)] = Free]
        BY <2>5 DEF Remove
      <4> QED
        BY <4>1, Names DEF TypeOK
    <3>3. \A r \in Server : pc'[r] = "remove" =>
             r \in Replacing /\ s \in Replacing /\ r # s /\ pc[r] = "remove"
      BY <3>1 DEF RemovesOwn
    <3>4. RemovesOwn'
      BY <3>2, <3>3 DEF RemovesOwn, Name
    <3> QED
      BY <3>1, <3>4 DEF Labelled
  <2>6. ASSUME NEW s \in Server, Run(s) PROVE Labelled' /\ RemovesOwn'
    <3>1. pc'[s] \notin {"label", "remove"} /\ \A r \in Server \ {s} : pc'[r] = pc[r]
      BY <2>6 DEF Run, Goto, TypeOK
    <3>2. \A r \in Server : \/ slot'[Name(r)] = slot[Name(r)]
                            \/ slot'[Name(r)].owner = "recipe" /\ slot'[Name(r)] # Free
      <4>1. CASE slot' = slot
        BY <4>1
      <4>2. CASE slot' # slot
        <5>1. PICK phase \in Phase : slot' = [slot EXCEPT ![Name(s)] =
                [owner |-> "recipe", phase |-> phase, bind |-> BindOf[s], port |-> PortOf[s],
             by |-> s]]
          BY <2>6, <4>2 DEF Run, Phase
        <5>2. [owner |-> "recipe", phase |-> phase, bind |-> BindOf[s], port |-> PortOf[s],
             by |-> s] # Free
          BY Names, FreeAssumption DEF Container, Owner
        <5> QED
          BY <5>1, <5>2, Names DEF TypeOK
      <4> QED
        BY <4>1, <4>2
    <3> QED
      BY <3>1, <3>2 DEF Labelled, RemovesOwn
  <2>7. ASSUME NEW t \in Target, Load(t) \/ Exit(t) PROVE Labelled' /\ RemovesOwn'
    <3>1. /\ pc' = pc /\ slot[t] # Free
          /\ \E phase \in Phase : slot' = [slot EXCEPT ![t].phase = phase]
      BY <2>7 DEF Load, Exit, Up, Phase
    <3>2. slot[t] \in Container /\ slot'[t].owner = slot[t].owner
      BY <3>1 DEF TypeOK, Container
    <3>3. \A u \in Target \ {t} : slot'[u] = slot[u]
      BY <3>1 DEF TypeOK
    <3>4. slot'[t] \in Container
      BY <3>1, <3>2 DEF TypeOK, Container
    <3>5. slot'[t] # Free
      BY <3>4, FreeAssumption
    <3> QED
      BY <3>1, <3>2, <3>3, <3>5, Names DEF Labelled, RemovesOwn
  <2>8. ASSUME NEW t \in Target, ForeignTakes(t) PROVE Labelled' /\ RemovesOwn'
    <3>1. pc' = pc /\ ForeignArrives /\ slot[t] = Free
          /\ \A u \in Target \ {t} : slot'[u] = slot[u]
      BY <2>8 DEF ForeignTakes, TypeOK
    <3>2. \A s \in Server : pc[s] = "remove" => Name(s) # t
      BY <3>1 DEF RemovesOwn
    <3> QED
      BY <3>1, <3>2, Names DEF Labelled, RemovesOwn
  <2>9. CASE DiskFills \/ UNCHANGED vars
    BY <2>1, <2>9 DEF DiskFills, vars, Labelled, RemovesOwn
  <2>10. Labelled' /\ RemovesOwn'
    BY <2>2, <2>3, <2>4, <2>5, <2>6, <2>7, <2>8, <2>9 DEF Next, Proceed, Environment
  <2> QED
    BY <2>1, <2>10
<1>3. Inv /\ [Next]_vars =>
        [\A t \in Target : slot[t] # Free /\ slot[t].owner = "foreign" => slot'[t] # Free]_vars
  <2> SUFFICES ASSUME Inv, [Next]_vars, NEW t \in Target,
                      slot[t] # Free, slot[t].owner = "foreign", slot'[t] = Free
               PROVE  FALSE
    BY DEF vars
  <2>1. ASSUME NEW s \in Server, Remove(s) PROVE FALSE
    <3>1. t = Name(s) /\ pc[s] = "remove"
      BY <2>1 DEF Remove, TypeOK
    <3> QED
      BY <3>1 DEF RemovesOwn
  <2>2. TypeOK'
    BY TypeStep
  <2>3. ASSUME NEW s \in Server, Run(s) PROVE FALSE
    BY <2>3 DEF Run, TypeOK
  <2>4. ASSUME NEW u \in Target, Load(u) \/ Exit(u) \/ ForeignTakes(u) PROVE FALSE
    <3>1. \E phase \in Phase : slot' = [slot EXCEPT ![u].phase = phase]
      BY <2>4 DEF Load, Exit, ForeignTakes, Phase, TypeOK
    <3> QED
      BY <3>1, FreeAssumption DEF TypeOK, Container
  <2>5. ASSUME NEW s \in Server, Options(s) \/ Inspect(s) \/ Label(s) \/ Gate(s) PROVE FALSE
    BY <2>5 DEF Options, Inspect, Label, Gate
  <2> QED
    BY <2>1, <2>3, <2>4, <2>5 DEF Next, Proceed, Environment, DiskFills, vars
<1> QED
  BY <1>1, <1>2, <1>3, PTL DEF Spec, ForeignKept
================================================================================
