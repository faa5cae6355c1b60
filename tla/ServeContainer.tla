---------------------------- MODULE ServeContainer -----------------------------
(***************************************************************************)
(* The serve command but for its audit: build_docker_command,              *)
(* start_container and validate_environment (src/recipe/runtime.py)        *)
(* against the Docker daemon.                                              *)
(*                                                                         *)
(* An invocation checks its options and then makes up to five calls, each  *)
(* an own process: inspect the name, read the label, remove, look at       *)
(* memory and disk, run.  Between any two of them other invocations, other *)
(* users of the daemon and the containers themselves move on.  The daemon  *)
(* guarantees two things only: a name is held by one container, and a port *)
(* of an address is published by one running container.                    *)
(***************************************************************************)
EXTENDS Naturals

CONSTANTS
    Server,          \* invocations of serve, each made once
    Target,          \* targets; each names its own container
    TargetOf,        \* invocation -> target
    PortOf,          \* invocation -> --port
    BindOf,          \* invocation -> --bind
    Address,         \* addresses of the host a port can be published on
    Loopback,        \* 127.0.0.1, the only one of the validated profile
    AnyAddress,      \* 0.0.0.0, which takes the port of every address
    Replacing,       \* the invocations with --replace
    Overriding,      \* the invocations with --unsafe-override
    Free,            \* a container name nobody holds
    ForeignArrives   \* TRUE: others may take a free name at any time

Owner == {"recipe", "foreign"}

(* created  docker run failed after the container was made                 *)
(* loading  running, the model is not in memory yet                        *)
(* loaded   running, the model's memory is taken                           *)
(* exited   stopped; --restart no                                          *)
Phase == {"created", "loading", "loaded", "exited"}

Ports == {PortOf[s] : s \in Server}
Older == "older"           \* started by an invocation before these

Container == [owner : Owner, phase : Phase, bind : Address, port : Ports,
              by : Server \cup {Older}]

ASSUME ServersAssumption ==
    /\ TargetOf \in [Server -> Target]
    /\ Replacing \subseteq Server /\ Overriding \subseteq Server
    /\ ForeignArrives \in BOOLEAN
    /\ Older \notin Server
ASSUME AddressAssumption == {Loopback, AnyAddress} \subseteq Address /\ BindOf \in [Server -> Address]
ASSUME FreeAssumption == Free \notin Container

VARIABLES
    slot,            \* target -> the container that holds its name, or Free
    disk,            \* the disk has minimum_free_bytes left
    pc               \* where each invocation is

vars == <<slot, disk, pc>>

Location == {"options", "inspect", "label", "remove", "gate", "run", "started", "refused"}

Name(s) == TargetOf[s]

Up(c) == c # Free /\ c.phase \in {"loading", "loaded"}

(* MemAvailable counts what is taken now: a model that is still loading    *)
(* has not taken its share, and one model leaves no room for a second.     *)
MemAvailable == \A t \in Target : slot[t] # Free => slot[t].phase # "loaded"

PortTaken(bind, port) ==
    \E t \in Target :
        /\ Up(slot[t]) /\ slot[t].port = port
        /\ slot[t].bind = bind \/ AnyAddress \in {slot[t].bind, bind}
--------------------------------------------------------------------------------
Init ==
    /\ slot \in [Target -> {Free} \cup
                   [owner : Owner, phase : Phase \ {"loading"}, bind : Address, port : Ports,
                    by : {Older}]]
    /\ \A t, u \in Target : Up(slot[t]) /\ Up(slot[u]) => t = u
    /\ disk \in BOOLEAN
    /\ pc = [s \in Server |-> "options"]

Goto(s, label) == pc' = [pc EXCEPT ![s] = label]

(* build_docker_command: outside the validated profile, of which only the  *)
(* address matters here, nothing is served without --unsafe-override.      *)
Options(s) ==
    /\ pc[s] = "options"
    /\ Goto(s, IF BindOf[s] = Loopback \/ s \in Overriding THEN "inspect" ELSE "refused")
    /\ UNCHANGED <<slot, disk>>

(* docker container inspect <name>                                         *)
Inspect(s) ==
    /\ pc[s] = "inspect"
    /\ Goto(s, CASE slot[Name(s)] = Free -> "gate"
                 [] slot[Name(s)] # Free /\ s \notin Replacing -> "refused"
                 [] OTHER -> "label")
    /\ UNCHANGED <<slot, disk>>

(* Faulty: whatever holds the name is replaced.                            *)
LabelIgnored(s) ==
    /\ pc[s] = "label"
    /\ Goto(s, IF slot[Name(s)] # Free THEN "remove" ELSE "refused")
    /\ UNCHANGED <<slot, disk>>

(* Faulty: capacity is asked for before the old container is unloaded.     *)
LabelThenGate(s) ==
    /\ pc[s] = "label"
    /\ Goto(s, IF slot[Name(s)] # Free /\ slot[Name(s)].owner = "recipe" /\ MemAvailable
               THEN "remove" ELSE "refused")
    /\ UNCHANGED <<slot, disk>>

(* docker container inspect --format <label>; fails when the container has *)
(* gone since the first call.                                              *)
Label(s) ==
    /\ pc[s] = "label"
    /\ Goto(s, IF slot[Name(s)] # Free /\ slot[Name(s)].owner = "recipe"
               THEN "remove" ELSE "refused")
    /\ UNCHANGED <<slot, disk>>

(* docker rm -f <name>: by name.  When nothing has the name any more,      *)
(* versions of the client differ in whether that is an error.              *)
Remove(s) ==
    /\ pc[s] = "remove"
    /\ slot' = [slot EXCEPT ![Name(s)] = Free]
    /\ \/ Goto(s, "gate")
       \/ slot[Name(s)] = Free /\ Goto(s, "refused")
    /\ UNCHANGED disk

(* Faulty: free memory is reported and no longer asked for.                *)
GateOnDisk(s) ==
    /\ pc[s] = "gate"
    /\ Goto(s, IF s \in Overriding \/ disk THEN "run" ELSE "refused")
    /\ UNCHANGED <<slot, disk>>

(* pre_start: validate_environment, after the old container is gone.       *)
Gate(s) ==
    /\ pc[s] = "gate"
    /\ Goto(s, IF s \in Overriding \/ (MemAvailable /\ disk) THEN "run" ELSE "refused")
    /\ UNCHANGED <<slot, disk>>

(* Faulty: the container is labelled after it has been started.            *)
RunUnlabelled(s) ==
    /\ pc[s] = "run"
    /\ slot[Name(s)] = Free
    /\ slot' = [slot EXCEPT ![Name(s)] =
                  [phase |-> "loading", bind |-> BindOf[s], port |-> PortOf[s], by |-> s]]
    /\ Goto(s, "started")
    /\ UNCHANGED disk

(* docker run -d --name <name> -p <bind>:<port>:8000.  A taken name makes  *)
(* nothing; a taken port leaves a container that never started.            *)
Run(s) ==
    /\ pc[s] = "run"
    /\ LET taken == PortTaken(BindOf[s], PortOf[s]) IN
         IF slot[Name(s)] # Free
         THEN Goto(s, "refused") /\ UNCHANGED slot
         ELSE /\ slot' = [slot EXCEPT ![Name(s)] =
                    [owner |-> "recipe", phase |-> IF taken THEN "created" ELSE "loading",
                     bind |-> BindOf[s], port |-> PortOf[s], by |-> s]]
              /\ Goto(s, IF taken THEN "refused" ELSE "started")
    /\ UNCHANGED disk
--------------------------------------------------------------------------------
(* The model of a running container is in memory.                          *)
Load(t) ==
    /\ slot[t] # Free /\ slot[t].phase = "loading"
    /\ slot' = [slot EXCEPT ![t].phase = "loaded"]
    /\ UNCHANGED <<disk, pc>>

(* A running container stops.                                              *)
Exit(t) ==
    /\ Up(slot[t])
    /\ slot' = [slot EXCEPT ![t].phase = "exited"]
    /\ UNCHANGED <<disk, pc>>

(* Someone else takes a free name.                                         *)
ForeignTakes(t) ==
    /\ ForeignArrives
    /\ slot[t] = Free
    /\ \E bind \in Address, port \in Ports : slot' = [slot EXCEPT ![t] =
          [owner |-> "foreign", phase |-> "exited", bind |-> bind, port |-> port, by |-> Older]]
    /\ UNCHANGED <<disk, pc>>

(* The disk fills up.                                                      *)
DiskFills ==
    /\ disk
    /\ disk' = FALSE
    /\ UNCHANGED <<slot, pc>>
--------------------------------------------------------------------------------
Proceed(s) == Options(s) \/ Inspect(s) \/ Label(s) \/ Remove(s) \/ Gate(s) \/ Run(s)

Environment == DiskFills \/ \E t \in Target : Load(t) \/ Exit(t) \/ ForeignTakes(t)

Next == (\E s \in Server : Proceed(s)) \/ Environment

Spec == Init /\ [][Next]_vars

(* Every invocation runs to its end.                                       *)
FairSpec == Spec /\ \A s \in Server : WF_vars(Proceed(s))
--------------------------------------------------------------------------------
(* Types of the state.                                                     *)
TypeOK ==
    /\ slot \in [Target -> {Free} \cup Container]
    /\ disk \in BOOLEAN
    /\ pc \in [Server -> Location]

(* What the options, the memory gate and the daemon's rule come to         *)
(* together: two models are up at once only if one was started with        *)
(* --unsafe-override, or if both were started by these invocations, on two *)
(* ports, one while the other was still loading.  Beside a model that was  *)
(* up before, none comes up without the override, on whatever port.        *)
SecondNeedsOverride ==
    \A t, u \in Target :
        t # u /\ Up(slot[t]) /\ Up(slot[u]) =>
            \/ slot[t].by \in Overriding \/ slot[u].by \in Overriding
            \/ {slot[t].by, slot[u].by} \subseteq Server /\ slot[t].port # slot[u].port

(* validate_environment: "Fail closed when host capacity or options are    *)
(* outside the safe profile."  Two models are never up together, for there *)
(* is memory for one.                                                      *)
OneModelUp == \A t, u \in Target : Up(slot[t]) /\ Up(slot[u]) => t = u

(* docs/HOW-IT-WORKS.md: "Existing containers can be replaced only when    *)
(* they carry this recipe's label."  Nobody else's container is removed.   *)
ForeignKept ==
    [][\A t \in Target : slot[t] # Free /\ slot[t].owner = "foreign" => slot'[t] # Free]_vars

(* While the disk is not full and no other target is up, a --replace on a  *)
(* recipe container, also on one that never started, ends with that one    *)
(* gone and its name held anew, by a container that one of these           *)
(* invocations started or by whoever was faster: the gate does not count   *)
(* the memory of what it is there to replace.                              *)
HeldAnew(t) ==
    /\ slot[t] # Free
    /\ (slot[t].by \in Server /\ slot[t].phase # "created") \/ slot[t].owner = "foreign"

ReplacementTakesPlace ==
    \A t \in Target :
        [](disk /\ \A u \in Target \ {t} : ~Up(slot[u])) =>
            ((/\ slot[t] # Free /\ slot[t].owner = "recipe"
              /\ \E s \in Replacing : TargetOf[s] = t /\ pc[s] = "inspect") ~> HeldAnew(t))
================================================================================
