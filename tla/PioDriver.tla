------------------------------- MODULE PioDriver -------------------------------
(***************************************************************************)
(* The pin driver (pin/a64): declarations of pins in the configuration,    *)
(* sessions that use the pins, and the pins themselves.                    *)
(*                                                                         *)
(* The handler of the configuration updates one declaration after the      *)
(* other, destroys those that vanished, and re-assigns the sessions.  It   *)
(* takes a step for each of them, during which nothing else is served,     *)
(* because whatever is connected to the pins observes each write.          *)
(*                                                                         *)
(* Sessions are those of the base library: a session holds the pin that    *)
(* assigned_pin returns, acquires it and releases it.  A name of the model *)
(* is a name and a direction, the two things Pin_declaration::matches      *)
(* compares; <in> and <select> nodes are well-formed.                      *)
(***************************************************************************)
EXTENDS Integers, Sequences, FiniteSets

CONSTANTS
    Locations,   \* Pin_id: bank and index
    Names,       \* names of declared pins
    Sessions,    \* potential sessions
    Kind,        \* kind of each session: "state", "control", or "irq"
    Configs,     \* configurations the user switches between
    RefModulus,  \* 'unsigned' reference counts count modulo this value
    None,        \* no pin
    Closed       \* no session

Levels    == {"LOW", "HIGH"}
Functions == {"INPUT", "OUTPUT", "FN", "IRQ", "DISABLE"}
Defaults  == Levels \union {"HIGH_IMPEDANCE"}    \* out_on_demand has the last one
Nodes     == [name : Names, fn : Functions \ {"DISABLE"}, default : Defaults,
              id : Locations \union {None}]      \* None: malformed declaration

Direction(fn) == IF fn = "OUTPUT" THEN "OUT" ELSE "IN"
SessionDirection(s) == IF Kind[s] = "control" THEN "OUT" ELSE "IN"

NamesOf(c) == {c.nodes[i].name : i \in 1 .. Len(c.nodes)}

ASSUME KindAssumption == Kind \in [Sessions -> {"state", "control", "irq"}]
ASSUME ConfigsAssumption ==
    \A c \in Configs :
        /\ c.nodes \in Seq(Nodes) /\ c.policy \in [Sessions -> Names \union {None}]
        /\ \A i, j \in 1 .. Len(c.nodes) :
              i # j => /\ c.nodes[i].name # c.nodes[j].name
                       /\ c.nodes[i].id # None => c.nodes[i].id # c.nodes[j].id
ASSUME RefAssumption  == RefModulus \in Nat \ {0, 1}
ASSUME NoneAssumption == None # Closed /\ {None, Closed} \intersect (Locations \union Names) = {}

VARIABLES
    config,    \* the configuration handled last
    stage,     \* [phase, nodes, todo] of _handle_config
    pins,      \* declared pins; those that are not declared or malformed have no id
    hw,        \* function and output level of each location
    target     \* location of each open session, None if it has no pin

pioVars == <<config, stage, pins, hw, target>>

Undeclared == [id |-> None, fn |-> "DISABLE", default |-> "HIGH_IMPEDANCE", ref_count |-> 0]

Users(id, dir) == {s \in Sessions : target[s] = id /\ SessionDirection(s) = dir}

--------------------------------------------------------------------------------
(* Pio *)

Configure(h, id, fn) == [h EXCEPT ![id].fn = fn]

State(h, id, level) ==
    IF level = "HIGH_IMPEDANCE" THEN [h EXCEPT ![id].fn = "INPUT"]
    ELSE [h EXCEPT ![id] = [fn |-> "OUTPUT", level |-> level]]

--------------------------------------------------------------------------------
(* Acquiring and releasing pins.  m has the components pins and hw.           *)

OnDemand(pin) == pin.fn = "OUTPUT" /\ pin.default = "HIGH_IMPEDANCE"

\* Pins for which Pin_declaration::matches
Matching(m, id, dir) == {n \in Names : m.pins[n].id = id /\ Direction(m.pins[n].fn) = dir}

\* The location when its first session comes, or its last one goes
InUse(h, id, pin) ==
    CASE pin.fn = "OUTPUT" /\ ~OnDemand(pin) -> State(h, id, pin.default)
      [] OnDemand(pin) \/ pin.fn = "IRQ"     -> Configure(h, id, pin.fn)
      [] OTHER                               -> h
Unused_KeepsLevel(h, id, pin) ==
    CASE pin.fn = "OUTPUT" /\ ~OnDemand(pin) -> h
      [] OnDemand(pin) \/ pin.fn = "IRQ"     -> Configure(h, id, "DISABLE")
      [] OTHER                               -> h
Unused(h, id, pin) ==
    CASE pin.fn = "OUTPUT" /\ ~OnDemand(pin) -> State(h, id, pin.default)
      [] OnDemand(pin) \/ pin.fn = "IRQ"     -> Configure(h, id, "DISABLE")
      [] OTHER                               -> h

Acquired(m, id, dir) ==
    IF Matching(m, id, dir) = {} THEN m
    ELSE LET n == CHOOSE n \in Matching(m, id, dir) : TRUE
         IN  [pins |-> [m.pins EXCEPT ![n].ref_count = (@ + 1) % RefModulus],
              hw   |-> InUse(m.hw, id, m.pins[n])]

Released(m, id, dir) ==
    IF Matching(m, id, dir) = {} THEN m
    ELSE LET n == CHOOSE n \in Matching(m, id, dir) : TRUE
             count == (m.pins[n].ref_count - 1) % RefModulus
         IN  [pins |-> [m.pins EXCEPT ![n].ref_count = count],
              hw   |-> IF count > 0 THEN m.hw ELSE Unused(m.hw, id, m.pins[n])]

\* assigned_pin, None if the service is denied
AssignedPin(p, s) ==
    LET n == config.policy[s]
    IN  IF n # None /\ p[n].id # None /\ Direction(p[n].fn) = SessionDirection(s)
        THEN p[n].id ELSE None

\* A session adopts what it is assigned
Reassigned_KeepsOld(m, s, id) ==
    IF id = target[s] \/ id = None THEN m ELSE Acquired(m, id, SessionDirection(s))
Reassigned(m, s, id) ==
    LET dir == SessionDirection(s)
        released == IF target[s] = None THEN m ELSE Released(m, target[s], dir)
    IN  IF id = target[s] THEN m
        ELSE IF id = None THEN released ELSE Acquired(released, id, dir)

--------------------------------------------------------------------------------
(* Configuration *)

NewConfig(c) ==
    /\ stage.phase = "idle"
    /\ config' = c
    /\ stage' = [phase |-> "update", nodes |-> c.nodes, todo |-> {}]
    /\ UNCHANGED <<pins, hw, target>>

\* Pin_declaration::update_from_node of the next node, with a declaration
\* created for a new name
Malformed(n) ==
    /\ pins' = [pins EXCEPT ![n].id = None, ![n].fn = "DISABLE",
                            ![n].default = "HIGH_IMPEDANCE", ![n].ref_count = 0]
    /\ hw' = IF pins[n].id = None THEN hw ELSE Configure(hw, pins[n].id, "DISABLE")

Moved(h, pin, id) == IF pin.id \in {None, id} THEN h ELSE Configure(h, pin.id, "DISABLE")

WellFormed_DropsUse(node) ==
    LET pin == [id |-> node.id, fn |-> node.fn, default |-> node.default,
                ref_count |-> pins[node.name].ref_count]
        h == Moved(hw, pins[node.name], node.id)
        configured == IF OnDemand(pin) THEN h ELSE Configure(h, node.id, node.fn)
    IN  /\ pins' = [pins EXCEPT ![node.name] = pin]
        /\ hw' = IF pin.fn = "OUTPUT" /\ ~OnDemand(pin)
                 THEN State(configured, node.id, pin.default) ELSE configured
WellFormed(node) ==
    LET pin == [id |-> node.id, fn |-> node.fn, default |-> node.default,
                ref_count |-> pins[node.name].ref_count]
        h == Moved(hw, pins[node.name], node.id)
        configured == IF OnDemand(pin) THEN h ELSE Configure(h, node.id, node.fn)
    IN  /\ pins' = [pins EXCEPT ![node.name] = pin]
        /\ hw' = IF pin.fn = "OUTPUT" /\ ~OnDemand(pin) /\ pin.ref_count = 0
                 THEN State(configured, node.id, pin.default) ELSE configured

UpdateFromNode ==
    /\ stage.phase = "update" /\ stage.nodes # <<>>
    /\ LET node == Head(stage.nodes)
       IN  IF node.id = None THEN Malformed(node.name) ELSE WellFormed(node)
    /\ stage' = [stage EXCEPT !.nodes = Tail(@)]
    /\ UNCHANGED <<config, target>>

\* The declarations of names that are gone
DestroyVanished ==
    /\ stage.phase = "update" /\ stage.nodes = <<>>
    /\ LET gone == {n \in Names \ NamesOf(config) : pins[n].id # None}
       IN  /\ pins' = [n \in Names |-> IF n \in gone THEN Undeclared ELSE pins[n]]
           /\ hw' = [l \in Locations |-> IF \E n \in gone : pins[n].id = l
                                         THEN [hw[l] EXCEPT !.fn = "DISABLE"] ELSE hw[l]]
    /\ stage' = [phase |-> "assign", nodes |-> <<>>,
                 todo |-> {s \in Sessions : target[s] # Closed}]
    /\ UNCHANGED <<config, target>>

\* update_assignments of the three roots in this order
Rank == [state |-> 1, control |-> 2, irq |-> 3]

UpdateAssignment(s) ==
    /\ stage.phase = "assign" /\ s \in stage.todo
    /\ \A t \in stage.todo : Rank[Kind[s]] <= Rank[Kind[t]]
    /\ LET id == AssignedPin(pins, s)
           m  == Reassigned([pins |-> pins, hw |-> hw], s, id)
       IN  pins' = m.pins /\ hw' = m.hw /\ target' = [target EXCEPT ![s] = id]
    /\ stage' = [stage EXCEPT !.todo = @ \ {s}]
    /\ UNCHANGED config

Assigned ==
    /\ stage.phase = "assign" /\ stage.todo = {}
    /\ stage' = [stage EXCEPT !.phase = "idle"]
    /\ UNCHANGED <<config, pins, hw, target>>

--------------------------------------------------------------------------------
(* Sessions *)

Open(s) ==
    /\ stage.phase = "idle" /\ target[s] = Closed
    /\ LET id == AssignedPin(pins, s)
           m  == Acquired([pins |-> pins, hw |-> hw], id, SessionDirection(s))
       IN  /\ id # None
           /\ pins' = m.pins /\ hw' = m.hw /\ target' = [target EXCEPT ![s] = id]
    /\ UNCHANGED <<config, stage>>

Close(s) ==
    /\ stage.phase = "idle" /\ target[s] # Closed
    /\ LET m == IF target[s] = None THEN [pins |-> pins, hw |-> hw]
                ELSE Released([pins |-> pins, hw |-> hw], target[s], SessionDirection(s))
       IN  pins' = m.pins /\ hw' = m.hw
    /\ target' = [target EXCEPT ![s] = Closed]
    /\ UNCHANGED <<config, stage>>

\* Pin_control::Session: state and, for HIGH_IMPEDANCE, yield
SetState(s, level) ==
    /\ stage.phase = "idle" /\ Kind[s] = "control" /\ target[s] \in Locations
    /\ hw' = State(hw, target[s], level)
    /\ UNCHANGED <<config, stage, pins, target>>

Init ==
    /\ config = [nodes |-> <<>>, policy |-> [s \in Sessions |-> None]]
    /\ stage = [phase |-> "idle", nodes |-> <<>>, todo |-> {}]
    /\ pins = [n \in Names |-> Undeclared]
    /\ hw = [l \in Locations |-> [fn |-> "DISABLE", level |-> "LOW"]]
    /\ target = [s \in Sessions |-> Closed]

Next ==
    \/ \E c \in Configs : NewConfig(c)
    \/ UpdateFromNode \/ DestroyVanished \/ Assigned
    \/ \E s \in Sessions :
          \/ UpdateAssignment(s) \/ Open(s) \/ Close(s)
          \/ \E level \in Defaults : SetState(s, level)

Spec == Init /\ [][Next]_pioVars

--------------------------------------------------------------------------------
(* Properties *)

\* Configurations in which each declaration has a location of its own, loc, and
\* a direction, dir.  The driver counts a session at the declaration it finds by
\* location: one that moves would keep the count of its old place.
StableNode(loc, dir, node) ==
    /\ node.id \in {None, loc[node.name]}
    /\ Direction(node.fn) = dir[node.name]

Stable(loc, dir) ==
    /\ loc \in [Names -> Locations] /\ dir \in [Names -> {"IN", "OUT"}]
    /\ \A m, n \in Names : loc[m] = loc[n] => m = n
    /\ \A c \in Configs : \A i \in 1 .. Len(c.nodes) : StableNode(loc, dir, c.nodes[i])

\* No reference count overflows.
Countable == IsFiniteSet(Sessions) /\ Cardinality(Sessions) < RefModulus

Idle == stage.phase = "idle"

\* The reference count of a declared pin is the number of sessions that hold it,
\* whatever has been declared, assigned and closed in between (acquire_pin,
\* release_pin), and no session holds a pin that is not declared.
RefCountsSessions ==
    Idle =>
      /\ \A n \in Names : pins[n].id # None =>
            pins[n].ref_count = Cardinality(Users(pins[n].id, Direction(pins[n].fn)))
      /\ \A s \in Sessions : target[s] \in Locations =>
            \E n \in Names : /\ pins[n].id = target[s]
                             /\ Direction(pins[n].fn) = SessionDirection(s)

\* An output pin that nobody uses has the level of its declaration: after the
\* last session has gone in whatever state, and after the level was changed
\* (README: "driving pins without a client").
DefaultRestored ==
    Idle => \A n \in Names :
        pins[n].id # None /\ pins[n].fn = "OUTPUT" /\ ~OnDemand(pins[n])
          /\ Users(pins[n].id, "OUT") = {}
            => hw[pins[n].id] = [fn |-> "OUTPUT", level |-> pins[n].default]

\* A pin without a default level that no session has is not driven ("depends on
\* the lifetime of a corresponding 'Pin_control' session", main.cc:81), unless it
\* has just lost its default and is driven since before.
Exposed(n) == /\ pins[n].id # None /\ OnDemand(pins[n]) /\ Users(pins[n].id, "OUT") = {}
              /\ hw[pins[n].id].fn = "OUTPUT"
OnDemandReleased ==
    [][\A n \in Names : Exposed(n)' =>
          Exposed(n) \/ pins[n].default \in Levels]_pioVars

\* A location that is declared as an input, or no longer declared at all, is
\* never driven, not even while a configuration is being handled: its level
\* would be fought over with the peripheral.
InputNotDriven ==
    \A l \in Locations :
        hw[l].fn = "OUTPUT" => \E n \in Names : pins[n].id = l /\ pins[n].fn = "OUTPUT"

\* An interrupt pin is armed as long as a session has it.
IrqPinArmed ==
    Idle => \A n \in Names :
        pins[n].fn = "IRQ" /\ Users(pins[n].id, "IN") # {} => hw[pins[n].id].fn = "IRQ"

\* The declared state of the pins is that of the hardware.
DrivenAsDeclared == DefaultRestored /\ InputNotDriven /\ IrqPinArmed

\* A configuration does not change the level a client has set, unless the pin
\* is taken from the client or declared as malformed or another client gets it.
ClientLevelKept ==
    [][\A s \in Sessions, n \in Names :
          (/\ stage.phase # "idle" /\ Kind[s] = "control"
           /\ target[s] # None /\ target[s] = pins[n].id /\ hw[pins[n].id].fn = "OUTPUT"
           /\ target'[s] = target[s] /\ pins'[n].id = pins[n].id
           /\ Users(target[s], "OUT")' = Users(target[s], "OUT"))
              => hw'[target[s]] = hw[target[s]]]_pioVars

\* Sessions keep the level they have set, and take the drive with them.
SessionsRespected == ClientLevelKept /\ OnDemandReleased

================================================================================
