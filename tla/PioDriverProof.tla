----------------------------- MODULE PioDriverProof ------------------------------
(***************************************************************************)
(* Proofs about PioDriver for any number of pins and sessions, and for     *)
(* configurations in which each declaration keeps its location (Stable);   *)
(* and about pin_pulse, one of its clients.                                *)
(*                                                                         *)
(* The argument for the driver: what is declared, counted and driven       *)
(* agrees after each step, also while a configuration is being handled,    *)
(* pin by pin (PinInv).                                                    *)
(* StageInv names what does not agree in between: a session may hold a pin *)
(* that has just been withdrawn, as long as the declaration is not going   *)
(* to be updated again and the session is going to be re-assigned.         *)
(***************************************************************************)
EXTENDS PioDriver, PinPulse, FiniteSetTheorems, TLAPS

PinType == [id : Locations \union {None}, fn : Functions, default : Defaults, ref_count : Nat]
HwType  == [fn : Functions, level : Levels]

NoPin == {None, Closed}

\* The sessions that hold the pin of declaration n, if their targets are tg
Holders(loc, dir, tg, n) ==
    {s \in Sessions : tg[s] = loc[n] /\ SessionDirection(s) = dir[n]}

\* A declaration of location id and direction d, its location as the hardware
\* has it, and the set H of the sessions that hold it
PinInv(id, d, pin, place, H) ==
    /\ IF pin.id = None THEN pin = Undeclared
       ELSE pin.id = id /\ Direction(pin.fn) = d /\ pin.fn # "DISABLE"
    /\ pin.id # None => pin.ref_count = Cardinality(H)
    /\ pin.fn = "OUTPUT" /\ pin.default # "HIGH_IMPEDANCE" /\ H = {}
         => place = [fn |-> "OUTPUT", level |-> pin.default]
    /\ place.fn = "OUTPUT" => pin.fn = "OUTPUT"
    /\ pin.fn = "IRQ" /\ H # {} => place.fn = "IRQ"

\* Pins p, locations h and targets tg agree.  A re-assignment establishes it
\* for the intermediate state between releasing a pin and acquiring another.
Agree(loc, dir, p, h, tg) ==
    /\ p \in [Names -> PinType]
    /\ h \in [Locations -> HwType]
    /\ tg \in [Sessions -> Locations \union {None, Closed}]
    /\ \A s \in Sessions : tg[s] \in Locations =>
          \E n \in Names : tg[s] = loc[n] /\ SessionDirection(s) = dir[n]
    /\ \A l \in Locations : h[l].fn = "OUTPUT" => \E n \in Names : loc[n] = l
    /\ \A n \in Names : PinInv(loc[n], dir[n], p[n], h[loc[n]], Holders(loc, dir, tg, n))

\* Pins q are declared as pins p are, and locations g are as h but for a and b.
SameDeclarations(p, q) ==
    \A n \in Names : q[n].id = p[n].id /\ q[n].fn = p[n].fn /\ q[n].default = p[n].default
SameElsewhere(h, g, a, b) == \A l \in Locations : l # a /\ l # b => g[l] = h[l]

\* An on-demand pin given up by session s is not driven, if s was the last.
LastReleases(loc, dir, s, p, tg, g, tg2) ==
    \A n \in Names :
        /\ tg[s] = loc[n] /\ p[n].id # None /\ OnDemand(p[n])
        /\ Holders(loc, dir, tg2, n) = {}
        => g[loc[n]].fn # "OUTPUT"

StageType == [phase : {"idle", "update", "assign"}, nodes : Seq(Nodes), todo : SUBSET Sessions]

\* The declarations to be updated have different names.
NodesInv(loc, dir, nodes) ==
    /\ nodes \in Seq(Nodes)
    /\ \A i \in 1 .. Len(nodes) : StableNode(loc, dir, nodes[i])
    /\ \A i, j \in 1 .. Len(nodes) : i # j => nodes[i].name # nodes[j].name

StageInv(loc, dir) ==
    /\ config.policy \in [Sessions -> Names \union {None}]
    /\ stage \in StageType
    /\ NodesInv(loc, dir, stage.nodes)
    /\ \A n \in Names : pins[n].id = None => \A s \in Holders(loc, dir, target, n) :
          \/ stage.phase = "update" /\ \A i \in 1 .. Len(stage.nodes) : stage.nodes[i].name # n
          \/ stage.phase = "assign" /\ s \in stage.todo

IInv(loc, dir) == Agree(loc, dir, pins, hw, target) /\ StageInv(loc, dir)

--------------------------------------------------------------------------------
(* Counting *)

LEMMA Modulo == ASSUME NEW M \in Nat, NEW k \in 0 .. M - 1 PROVE k % M = k
  BY Z3

LEMMA CountOf ==
    ASSUME Countable, NEW H \in SUBSET Sessions
    PROVE  /\ IsFiniteSet(H) /\ Cardinality(H) \in Nat
           /\ Cardinality(H) < RefModulus
           /\ Cardinality(H) = 0 <=> H = {}
<1>1. IsFiniteSet(H) /\ Cardinality(H) <= Cardinality(Sessions)
  BY FS_Subset DEF Countable
<1>2. Cardinality(H) \in Nat /\ Cardinality(Sessions) \in Nat
  BY <1>1, FS_CardinalityType DEF Countable
<1>3. Cardinality(H) = 0 <=> H = {}
  BY <1>1, FS_EmptySet
<1> QED
  BY <1>1, <1>2, <1>3, RefAssumption DEF Countable

LEMMA CountUp ==
    ASSUME Countable, NEW H \in SUBSET Sessions, NEW s \in Sessions, s \notin H
    PROVE  (Cardinality(H) + 1) % RefModulus = Cardinality(H \union {s})
<1>1. Cardinality(H \union {s}) = Cardinality(H) + 1
  BY CountOf, FS_AddElement
<1>2. H \union {s} \in SUBSET Sessions
  OBVIOUS
<1>3. Cardinality(H) + 1 \in 0 .. RefModulus - 1
  BY <1>1, <1>2, CountOf, RefAssumption
<1> QED
  BY <1>1, <1>3, Modulo, RefAssumption

LEMMA CountDown ==
    ASSUME Countable, NEW H \in SUBSET Sessions, NEW s \in H
    PROVE  (Cardinality(H) - 1) % RefModulus = Cardinality(H \ {s})
<1>1. Cardinality(H \ {s}) = Cardinality(H) - 1
  BY CountOf, FS_RemoveElement
<1>2. H \ {s} \in SUBSET Sessions
  OBVIOUS
<1>3. Cardinality(H) - 1 \in 0 .. RefModulus - 1
  BY <1>1, <1>2, CountOf, RefAssumption
<1> QED
  BY <1>1, <1>3, Modulo, RefAssumption

--------------------------------------------------------------------------------
(* Sessions and the declarations they hold *)

\* A step that changes pins p, locations h and targets tg to q, g and tg2
\* affects declaration n only.
OnlyAt(loc, dir, n, p, h, tg, q, g, tg2) ==
    /\ q \in [Names -> PinType] /\ g \in [Locations -> HwType]
    /\ tg2 \in [Sessions -> Locations \union {None, Closed}]
    /\ \A k \in Names \ {n} :
          /\ q[k] = p[k]
          /\ Holders(loc, dir, tg2, k) = Holders(loc, dir, tg, k)
    /\ \A l \in Locations \ {loc[n]} : g[l] = h[l]
    /\ \A s \in Sessions : tg2[s] \in Locations =>
          tg2[s] = tg[s] \/ (tg2[s] = loc[n] /\ SessionDirection(s) = dir[n])

LEMMA LocalChange ==
    ASSUME NEW loc, NEW dir, Stable(loc, dir),
           NEW p, NEW h, NEW tg, Agree(loc, dir, p, h, tg),
           NEW q, NEW g, NEW tg2, NEW n \in Names,
           OnlyAt(loc, dir, n, p, h, tg, q, g, tg2),
           PinInv(loc[n], dir[n], q[n], g[loc[n]], Holders(loc, dir, tg2, n))
    PROVE  Agree(loc, dir, q, g, tg2)
<1>1. \A k \in Names \ {n} : loc[k] \in Locations \ {loc[n]}
  BY DEF Stable
<1>2. ASSUME NEW k \in Names
      PROVE  PinInv(loc[k], dir[k], q[k], g[loc[k]], Holders(loc, dir, tg2, k))
  <2>1. CASE k = n
    BY <2>1
  <2>2. CASE k # n
    <3>1. q[k] = p[k] /\ g[loc[k]] = h[loc[k]]
      BY <1>1, <2>2 DEF OnlyAt
    <3>2. Holders(loc, dir, tg2, k) = Holders(loc, dir, tg, k)
      BY <2>2 DEF OnlyAt
    <3>3. PinInv(loc[k], dir[k], p[k], h[loc[k]], Holders(loc, dir, tg, k))
      BY DEF Agree
    <3> QED
      BY <3>1, <3>2, <3>3
  <2> QED
    BY <2>1, <2>2
<1>3. ASSUME NEW l \in Locations, g[l].fn = "OUTPUT" PROVE \E k \in Names : loc[k] = l
  BY <1>3 DEF Agree, OnlyAt, Stable
<1>4. ASSUME NEW s \in Sessions, tg2[s] \in Locations
      PROVE  \E k \in Names : tg2[s] = loc[k] /\ SessionDirection(s) = dir[k]
  BY <1>4 DEF Agree, OnlyAt
<1> QED
  BY <1>2, <1>3, <1>4 DEF Agree, OnlyAt

--------------------------------------------------------------------------------
(* Acquiring and releasing *)

LEMMA StateIs ==
    ASSUME NEW h \in [Locations -> HwType], NEW id \in Locations, NEW level \in Defaults
    PROVE  /\ State(h, id, level) \in [Locations -> HwType]
           /\ level # "HIGH_IMPEDANCE" =>
                State(h, id, level)[id] = [fn |-> "OUTPUT", level |-> level]
           /\ level = "HIGH_IMPEDANCE" => State(h, id, level)[id].fn = "INPUT"
           /\ \A l \in Locations \ {id} : State(h, id, level)[l] = h[l]
<1>1. CASE level = "HIGH_IMPEDANCE"
  BY <1>1 DEF State, HwType, Functions
<1>2. CASE level # "HIGH_IMPEDANCE"
  BY <1>2 DEF State, HwType, Functions, Defaults
<1> QED
  BY <1>1, <1>2

\* The location of a pin whose first session comes
LEMMA InUseIs ==
    ASSUME NEW h \in [Locations -> HwType], NEW id \in Locations, NEW pin \in PinType,
           NEW g, g = InUse(h, id, pin)
    PROVE  /\ g \in [Locations -> HwType]
           /\ pin.fn = "OUTPUT" /\ pin.default # "HIGH_IMPEDANCE" =>
                g[id] = [fn |-> "OUTPUT", level |-> pin.default]
           /\ pin.fn = "OUTPUT" /\ pin.default = "HIGH_IMPEDANCE" => g[id].fn = "OUTPUT"
           /\ pin.fn = "IRQ" => g[id].fn = "IRQ"
           /\ pin.fn \notin {"OUTPUT", "IRQ"} => g[id] = h[id]
           /\ \A l \in Locations \ {id} : g[l] = h[l]
<1>0. pin.fn \in Functions /\ pin.default \in Defaults
  BY DEF PinType
<1>1. CASE pin.fn = "OUTPUT" /\ pin.default # "HIGH_IMPEDANCE"
  <2>1. g = State(h, id, pin.default)
    BY <1>1 DEF InUse, OnDemand
  <2> QED
    BY <1>0, <1>1, <2>1, StateIs
<1>2. CASE pin.fn = "IRQ" \/ (pin.fn = "OUTPUT" /\ pin.default = "HIGH_IMPEDANCE")
  <2>1. g = Configure(h, id, pin.fn)
    BY <1>2 DEF InUse, OnDemand
  <2>2. /\ g \in [Locations -> HwType] /\ \A l \in Locations \ {id} : g[l] = h[l]
        /\ g[id].fn = pin.fn
    BY <1>0, <2>1 DEF Configure, HwType
  <2> QED
    BY <1>2, <2>2
<1>3. CASE pin.fn \notin {"OUTPUT", "IRQ"}
  <2>1. g = h
    BY <1>3 DEF InUse, OnDemand
  <2> QED
    BY <1>3, <2>1
<1> QED
  BY <1>1, <1>2, <1>3

\* The location of a pin whose last session goes
LEMMA UnusedIs ==
    ASSUME NEW h \in [Locations -> HwType], NEW id \in Locations, NEW pin \in PinType,
           NEW g, g = Unused(h, id, pin)
    PROVE  /\ g \in [Locations -> HwType]
           /\ pin.fn = "OUTPUT" /\ pin.default # "HIGH_IMPEDANCE" =>
                g[id] = [fn |-> "OUTPUT", level |-> pin.default]
           /\ pin.fn = "OUTPUT" /\ pin.default = "HIGH_IMPEDANCE" => g[id].fn = "DISABLE"
           /\ pin.fn = "IRQ" => g[id].fn = "DISABLE"
           /\ pin.fn \notin {"OUTPUT", "IRQ"} => g[id] = h[id]
           /\ \A l \in Locations \ {id} : g[l] = h[l]
<1>0. pin.fn \in Functions /\ pin.default \in Defaults /\ "DISABLE" \in Functions
  BY DEF PinType, Functions
<1>1. CASE pin.fn = "OUTPUT" /\ pin.default # "HIGH_IMPEDANCE"
  <2>1. g = State(h, id, pin.default)
    BY <1>1 DEF Unused, OnDemand
  <2> QED
    BY <1>0, <1>1, <2>1, StateIs
<1>2. CASE pin.fn = "IRQ" \/ (pin.fn = "OUTPUT" /\ pin.default = "HIGH_IMPEDANCE")
  <2>1. g = Configure(h, id, "DISABLE")
    BY <1>2 DEF Unused, OnDemand
  <2>2. /\ g \in [Locations -> HwType] /\ \A l \in Locations \ {id} : g[l] = h[l]
        /\ g[id].fn = "DISABLE"
    BY <1>0, <2>1 DEF Configure, HwType
  <2> QED
    BY <1>2, <2>2
<1>3. CASE pin.fn \notin {"OUTPUT", "IRQ"}
  <2>1. g = h
    BY <1>3 DEF Unused, OnDemand
  <2> QED
    BY <1>3, <2>1
<1> QED
  BY <1>1, <1>2, <1>3

\* The declaration found by location and direction is the one of this location.
LEMMA MatchingIs ==
    ASSUME NEW loc, NEW dir, Stable(loc, dir), NEW p, NEW h, NEW tg, Agree(loc, dir, p, h, tg),
           NEW n \in Names
    PROVE  /\ p[n].id = None => Matching([pins |-> p, hw |-> h], loc[n], dir[n]) = {}
           /\ p[n].id # None => Matching([pins |-> p, hw |-> h], loc[n], dir[n]) = {n}
<1>1. \A k \in Names : p[k].id # None => p[k].id = loc[k] /\ Direction(p[k].fn) = dir[k]
  BY DEF Agree, PinInv
<1>2. \A k \in Names : loc[k] # None
  BY NoneAssumption DEF Stable
<1> QED
  BY <1>1, <1>2 DEF Matching, Stable

\* A session acquires the pin of declaration n.
LEMMA AcquiredAgrees ==
    ASSUME NEW loc, NEW dir, Stable(loc, dir), Countable,
           NEW p, NEW h, NEW tg, Agree(loc, dir, p, h, tg),
           NEW s \in Sessions, tg[s] \in NoPin,
           NEW n \in Names, p[n].id # None, SessionDirection(s) = dir[n],
           NEW m, m = Acquired([pins |-> p, hw |-> h], loc[n], SessionDirection(s)),
           NEW tg2, tg2 = [tg EXCEPT ![s] = loc[n]]
    PROVE  /\ Agree(loc, dir, m.pins, m.hw, tg2)
           /\ SameDeclarations(p, m.pins)
           /\ SameElsewhere(h, m.hw, loc[n], loc[n])
<1> DEFINE H == Holders(loc, dir, tg, n)
<1>1. /\ m.pins = [p EXCEPT ![n].ref_count = (@ + 1) % RefModulus]
      /\ m.hw = InUse(h, loc[n], p[n])
  <2>1. Matching([pins |-> p, hw |-> h], loc[n], SessionDirection(s)) = {n}
    BY MatchingIs
  <2>2. (CHOOSE k \in {n} : TRUE) = n
    OBVIOUS
  <2> QED
    BY <2>1, <2>2 DEF Acquired
<1>2. /\ p \in [Names -> PinType] /\ h \in [Locations -> HwType]
      /\ tg \in [Sessions -> Locations \union {None, Closed}] /\ loc[n] \in Locations
      /\ p[n] \in PinType
  BY DEF Agree, Stable
<1>3. PinInv(loc[n], dir[n], p[n], h[loc[n]], H)
  BY DEF Agree
<1>4. s \notin H /\ Holders(loc, dir, tg2, n) = H \union {s}
      /\ \A k \in Names \ {n} : Holders(loc, dir, tg2, k) = Holders(loc, dir, tg, k)
  BY <1>2, NoneAssumption DEF H, Stable, Holders, NoPin
<1>5. H \in SUBSET Sessions
  BY DEF Holders
<1> HIDE DEF H
<1>6. p[n].ref_count = Cardinality(H)
  BY <1>3 DEF PinInv
<1>7. (p[n].ref_count + 1) % RefModulus = Cardinality(H \union {s})
  BY <1>4, <1>5, <1>6, CountUp
<1>8. Cardinality(H \union {s}) \in Nat /\ H \union {s} # {}
  BY <1>5, CountOf
<1>9. /\ m.pins[n] = [p[n] EXCEPT !.ref_count = Cardinality(H \union {s})]
      /\ \A k \in Names \ {n} : m.pins[k] = p[k]
  BY <1>1, <1>2, <1>7
<1>10. /\ m.pins[n] \in PinType /\ m.pins[n].id = p[n].id /\ m.pins[n].fn = p[n].fn
       /\ m.pins[n].default = p[n].default /\ m.pins[n].ref_count = Cardinality(H \union {s})
  BY <1>2, <1>8, <1>9 DEF PinType
<1>11. m.pins \in [Names -> PinType]
  BY <1>1, <1>2, <1>7, <1>8 DEF PinType
<1>12. /\ m.hw \in [Locations -> HwType] /\ \A l \in Locations \ {loc[n]} : m.hw[l] = h[l]
       /\ p[n].fn = "OUTPUT" /\ p[n].default # "HIGH_IMPEDANCE" =>
            m.hw[loc[n]] = [fn |-> "OUTPUT", level |-> p[n].default]
       /\ p[n].fn = "OUTPUT" /\ p[n].default = "HIGH_IMPEDANCE" => m.hw[loc[n]].fn = "OUTPUT"
       /\ p[n].fn = "IRQ" => m.hw[loc[n]].fn = "IRQ"
       /\ p[n].fn \notin {"OUTPUT", "IRQ"} => m.hw[loc[n]] = h[loc[n]]
  <2>1. m.hw = InUse(h, loc[n], p[n])
    BY <1>1
  <2> QED
    BY <1>2, <2>1, InUseIs
<1>13. /\ tg2 \in [Sessions -> Locations \union {None, Closed}]
       /\ \A t \in Sessions : tg2[t] = tg[t] \/ (tg2[t] = loc[n] /\ SessionDirection(t) = dir[n])
  BY <1>2
<1>14. PinInv(loc[n], dir[n], m.pins[n], m.hw[loc[n]], H \union {s})
  BY <1>3, <1>8, <1>10, <1>12 DEF PinInv
<1>15. PinInv(loc[n], dir[n], m.pins[n], m.hw[loc[n]], Holders(loc, dir, tg2, n))
  BY <1>4, <1>14
<1>16. Agree(loc, dir, m.pins, m.hw, tg2)
  <2>1. OnlyAt(loc, dir, n, p, h, tg, m.pins, m.hw, tg2)
    BY <1>4, <1>9, <1>11, <1>12, <1>13 DEF OnlyAt
  <2> QED
    BY <1>15, <2>1, LocalChange
<1>17. ASSUME NEW k \in Names
       PROVE  /\ m.pins[k].id = p[k].id /\ m.pins[k].fn = p[k].fn
              /\ m.pins[k].default = p[k].default
  BY <1>9, <1>10
<1> QED
  BY <1>12, <1>16, <1>17 DEF SameDeclarations, SameElsewhere

\* A session releases its pin, that of declaration n, which may be withdrawn.
LEMMA ReleasedAgrees ==
    ASSUME NEW loc, NEW dir, Stable(loc, dir), Countable,
           NEW p, NEW h, NEW tg, Agree(loc, dir, p, h, tg),
           NEW s \in Sessions, NEW n \in Names, tg[s] = loc[n], SessionDirection(s) = dir[n],
           NEW x \in NoPin,
           NEW m, m = Released([pins |-> p, hw |-> h], loc[n], SessionDirection(s)),
           NEW tg2, tg2 = [tg EXCEPT ![s] = x]
    PROVE  /\ Agree(loc, dir, m.pins, m.hw, tg2)
           /\ SameDeclarations(p, m.pins)
           /\ SameElsewhere(h, m.hw, loc[n], loc[n])
           /\ LastReleases(loc, dir, s, p, tg, m.hw, tg2)
<1> DEFINE H == Holders(loc, dir, tg, n)
<1>2. /\ p \in [Names -> PinType] /\ h \in [Locations -> HwType]
      /\ tg \in [Sessions -> Locations \union {None, Closed}] /\ loc[n] \in Locations
      /\ p[n] \in PinType
  BY DEF Agree, Stable
<1>3. PinInv(loc[n], dir[n], p[n], h[loc[n]], H)
  BY DEF Agree
<1>4. s \in H /\ Holders(loc, dir, tg2, n) = H \ {s}
      /\ \A k \in Names \ {n} : Holders(loc, dir, tg2, k) = Holders(loc, dir, tg, k)
  BY <1>2, NoneAssumption DEF H, Stable, Holders, NoPin
<1>5. tg2 \in [Sessions -> Locations \union {None, Closed}]
       /\ \A t \in Sessions : tg2[t] \in Locations => tg2[t] = tg[t]
  BY <1>2, NoneAssumption DEF NoPin
<1>6. H \in SUBSET Sessions
  BY DEF Holders
<1>9. \A k \in Names : tg[s] = loc[k] => k = n
  BY DEF Stable
<1> HIDE DEF H
<1>7. CASE p[n].id = None
  <2>1. Matching([pins |-> p, hw |-> h], loc[n], SessionDirection(s)) = {}
    BY <1>7, MatchingIs
  <2>2. m.pins = p /\ m.hw = h
    BY <2>1 DEF Released
  <2>3. p[n] = Undeclared
    BY <1>3, <1>7 DEF PinInv
  <2>4. PinInv(loc[n], dir[n], p[n], h[loc[n]], H \ {s})
    BY <1>3, <1>7, <2>3 DEF PinInv, Undeclared
  <2>5. PinInv(loc[n], dir[n], p[n], h[loc[n]], Holders(loc, dir, tg2, n))
    BY <1>4, <2>4
  <2>6. OnlyAt(loc, dir, n, p, h, tg, p, h, tg2)
    BY <1>2, <1>4, <1>5 DEF OnlyAt
  <2>7. Agree(loc, dir, p, h, tg2)
    BY <2>5, <2>6, LocalChange
  <2> QED
    BY <1>7, <1>9, <2>2, <2>7 DEF SameDeclarations, SameElsewhere, LastReleases
<1>8. CASE p[n].id # None
  <2> DEFINE count == (p[n].ref_count - 1) % RefModulus
  <2>1. /\ m.pins = [p EXCEPT ![n].ref_count = count]
        /\ m.hw = IF count > 0 THEN h ELSE Unused(h, loc[n], p[n])
    <3>1. Matching([pins |-> p, hw |-> h], loc[n], SessionDirection(s)) = {n}
      BY <1>8, MatchingIs
    <3>2. (CHOOSE k \in {n} : TRUE) = n
      OBVIOUS
    <3>3. m.pins = [p EXCEPT ![n].ref_count = count]
      BY <1>8, <3>1, <3>2 DEF Released
    <3>4. m.hw = IF count > 0 THEN h ELSE Unused(h, loc[n], p[n])
      BY <1>8, <3>1, <3>2 DEF Released
    <3> QED
      BY <3>3, <3>4
  <2>2. p[n].ref_count = Cardinality(H)
    BY <1>3, <1>8 DEF PinInv
  <2>3. count = Cardinality(H \ {s})
    BY <1>4, <1>6, <2>2, CountDown
  <2> HIDE DEF count
  <2>4. Cardinality(H \ {s}) \in Nat /\ (Cardinality(H \ {s}) = 0 <=> H \ {s} = {})
    BY <1>6, CountOf
  <2>5. /\ m.pins[n] = [p[n] EXCEPT !.ref_count = Cardinality(H \ {s})]
        /\ \A k \in Names \ {n} : m.pins[k] = p[k]
    BY <1>2, <2>1, <2>3
  <2>6. /\ m.pins[n] \in PinType /\ m.pins[n].id = p[n].id /\ m.pins[n].fn = p[n].fn
        /\ m.pins[n].default = p[n].default /\ m.pins[n].ref_count = Cardinality(H \ {s})
    BY <1>2, <2>4, <2>5 DEF PinType
  <2>7. m.pins \in [Names -> PinType]
    BY <1>2, <2>1, <2>3, <2>4 DEF PinType
  <2>8. /\ PinInv(loc[n], dir[n], m.pins[n], m.hw[loc[n]], H \ {s})
        /\ m.hw \in [Locations -> HwType]
        /\ \A l \in Locations \ {loc[n]} : m.hw[l] = h[l]
        /\ OnDemand(p[n]) /\ H \ {s} = {} => m.hw[loc[n]].fn # "OUTPUT"
    <3>1. CASE H \ {s} # {}
      <4>1. m.hw = h
        BY <2>1, <2>3, <2>4, <3>1
      <4>2. H # {}
        BY <3>1
      <4>3. PinInv(loc[n], dir[n], m.pins[n], h[loc[n]], H \ {s})
        BY <1>3, <1>8, <2>6, <3>1, <4>2 DEF PinInv
      <4> QED
        BY <1>2, <3>1, <4>1, <4>3
    <3>2. CASE H \ {s} = {}
      <4>1. m.hw = Unused(h, loc[n], p[n])
        BY <2>1, <2>3, <2>4, <3>2
      <4>2. /\ p[n].fn = "OUTPUT" /\ p[n].default # "HIGH_IMPEDANCE" =>
                 m.hw[loc[n]] = [fn |-> "OUTPUT", level |-> p[n].default]
            /\ p[n].fn = "OUTPUT" /\ p[n].default = "HIGH_IMPEDANCE" => m.hw[loc[n]].fn = "DISABLE"
            /\ p[n].fn = "IRQ" => m.hw[loc[n]].fn = "DISABLE"
            /\ p[n].fn \notin {"OUTPUT", "IRQ"} => m.hw[loc[n]] = h[loc[n]]
            /\ m.hw \in [Locations -> HwType] /\ \A l \in Locations \ {loc[n]} : m.hw[l] = h[l]
        BY <1>2, <4>1, UnusedIs
      <4>3. PinInv(loc[n], dir[n], m.pins[n], m.hw[loc[n]], H \ {s})
        BY <1>3, <1>8, <2>6, <3>2, <4>2 DEF PinInv
      <4>4. OnDemand(p[n]) => m.hw[loc[n]].fn # "OUTPUT"
        BY <4>2 DEF OnDemand
      <4> QED
        BY <4>2, <4>3, <4>4
    <3> QED
      BY <3>1, <3>2
  <2>9. PinInv(loc[n], dir[n], m.pins[n], m.hw[loc[n]], Holders(loc, dir, tg2, n))
    BY <1>4, <2>8
  <2>10. Agree(loc, dir, m.pins, m.hw, tg2)
    <3>1. OnlyAt(loc, dir, n, p, h, tg, m.pins, m.hw, tg2)
      BY <1>4, <1>5, <2>5, <2>7, <2>8 DEF OnlyAt
    <3> QED
      BY <2>9, <3>1, LocalChange
  <2>11. ASSUME NEW k \in Names
         PROVE  /\ m.pins[k].id = p[k].id /\ m.pins[k].fn = p[k].fn
                /\ m.pins[k].default = p[k].default
    BY <2>5, <2>6
  <2> QED
    <3>1. LastReleases(loc, dir, s, p, tg, m.hw, tg2)
      BY <1>4, <1>9, <2>8 DEF LastReleases
    <3> QED
      BY <2>8, <2>10, <2>11, <3>1 DEF SameDeclarations, SameElsewhere
<1> QED
  BY <1>7, <1>8

--------------------------------------------------------------------------------
(* Re-assignment *)

\* What the invariant says about a single declaration
LEMMA DeclarationFacts ==
    ASSUME NEW loc, NEW dir, Stable(loc, dir), IInv(loc, dir), NEW n \in Names
    PROVE  /\ loc[n] \in Locations /\ loc[n] # None /\ loc[n] # Closed
           /\ pins[n] \in PinType /\ hw[loc[n]] \in HwType
           /\ pins[n].id # None => pins[n].id = loc[n] /\ Direction(pins[n].fn) = dir[n]
           /\ pins[n].id = None => pins[n] = Undeclared
           /\ PinInv(loc[n], dir[n], pins[n], hw[loc[n]], Holders(loc, dir, target, n))
<1>1. loc[n] \in Locations /\ loc[n] # None /\ loc[n] # Closed
  BY NoneAssumption DEF Stable
<1>2. PinInv(loc[n], dir[n], pins[n], hw[loc[n]], Holders(loc, dir, target, n))
  BY DEF IInv, Agree
<1> QED
  BY <1>1, <1>2 DEF IInv, Agree, PinInv

\* assigned_pin returns the location of a declaration of the session's direction.
LEMMA AssignedPinIs ==
    ASSUME NEW loc, NEW dir, Stable(loc, dir), IInv(loc, dir), NEW s \in Sessions,
           AssignedPin(pins, s) # None
    PROVE  \E n \in Names : /\ pins[n].id = loc[n] /\ AssignedPin(pins, s) = loc[n]
                            /\ SessionDirection(s) = dir[n]
<1> DEFINE n == config.policy[s]
<1>1. n # None /\ pins[n].id # None /\ Direction(pins[n].fn) = SessionDirection(s)
      /\ AssignedPin(pins, s) = pins[n].id
  BY DEF AssignedPin
<1>2. n \in Names
  BY <1>1 DEF IInv, StageInv
<1> QED
  BY <1>1, <1>2, DeclarationFacts

\* A session without a pin of its own holds none.
LEMMA ReleasedNothing ==
    ASSUME NEW loc, NEW dir, Stable(loc, dir), IInv(loc, dir), NEW d
    PROVE  Released([pins |-> pins, hw |-> hw], Closed, d) = [pins |-> pins, hw |-> hw]
<1>1. \A n \in Names : pins[n].id # Closed
  BY NoneAssumption, DeclarationFacts
<1>2. Matching([pins |-> pins, hw |-> hw], Closed, d) = {}
  BY <1>1 DEF Matching
<1> QED
  BY <1>2 DEF Released

\* A session that gives up nothing
LEMMA NothingHeld ==
    ASSUME NEW loc, NEW dir, Stable(loc, dir), NEW p, NEW h, NEW tg, Agree(loc, dir, p, h, tg),
           NEW s \in Sessions, tg[s] \in NoPin, NEW x \in NoPin,
           NEW tg2, tg2 = [tg EXCEPT ![s] = x]
    PROVE  Agree(loc, dir, p, h, tg2)
<1>1. tg \in [Sessions -> Locations \union {None, Closed}]
  BY DEF Agree
<1>2. \A n \in Names : Holders(loc, dir, tg2, n) = Holders(loc, dir, tg, n)
  BY <1>1, NoneAssumption DEF Holders, Stable, NoPin
<1>3. /\ tg2 \in [Sessions -> Locations \union {None, Closed}]
      /\ \A t \in Sessions : tg2[t] \in Locations => tg2[t] = tg[t]
  BY <1>1, NoneAssumption DEF NoPin
<1>4. ASSUME NEW n \in Names
      PROVE  PinInv(loc[n], dir[n], p[n], h[loc[n]], Holders(loc, dir, tg2, n))
  BY <1>2 DEF Agree
<1>5. ASSUME NEW t \in Sessions, tg2[t] \in Locations
      PROVE  \E n \in Names : tg2[t] = loc[n] /\ SessionDirection(t) = dir[n]
  BY <1>3, <1>5 DEF Agree
<1> QED
  BY <1>3, <1>4, <1>5 DEF Agree

GiveUp(s) ==
    IF target[s] = None THEN [pins |-> pins, hw |-> hw]
    ELSE Released([pins |-> pins, hw |-> hw], target[s], SessionDirection(s))

\* A session gives up what it holds, or nothing, on behalf of update_assignments
\* or of its destruction.
LEMMA GivenUp ==
    ASSUME NEW loc, NEW dir, Stable(loc, dir), Countable, IInv(loc, dir),
           NEW s \in Sessions, NEW x \in NoPin,
           NEW m, m = GiveUp(s),
           NEW tg2, tg2 = [target EXCEPT ![s] = x]
    PROVE  /\ Agree(loc, dir, m.pins, m.hw, tg2)
           /\ SameDeclarations(pins, m.pins)
           /\ SameElsewhere(hw, m.hw, target[s], target[s])
           /\ LastReleases(loc, dir, s, pins, target, m.hw, tg2)
<1>0. Agree(loc, dir, pins, hw, target) /\ target[s] \in Locations \union {None, Closed}
  BY DEF IInv, Agree
<1>1. CASE target[s] \notin Locations
  <2>1. m.pins = pins /\ m.hw = hw
    BY <1>0, <1>1, ReleasedNothing DEF GiveUp
  <2>2. Agree(loc, dir, pins, hw, tg2)
    BY <1>0, <1>1, NothingHeld DEF NoPin
  <2>3. \A n \in Names : target[s] # loc[n]
    BY <1>1 DEF Stable
  <2> QED
    BY <2>1, <2>2, <2>3 DEF SameDeclarations, SameElsewhere, LastReleases
<1>2. CASE target[s] \in Locations
  <2>1. PICK n \in Names : target[s] = loc[n] /\ SessionDirection(s) = dir[n]
    BY <1>0, <1>2 DEF Agree
  <2>2. m = Released([pins |-> pins, hw |-> hw], loc[n], SessionDirection(s))
    BY <1>2, <2>1, NoneAssumption DEF GiveUp
  <2>3. /\ Agree(loc, dir, m.pins, m.hw, tg2)
        /\ SameDeclarations(pins, m.pins)
        /\ SameElsewhere(hw, m.hw, loc[n], loc[n])
        /\ LastReleases(loc, dir, s, pins, target, m.hw, tg2)
    <3>0. Agree(loc, dir, pins, hw, target)
      BY <1>0
    <3>1. Agree(loc, dir, m.pins, m.hw, tg2)
      BY <2>1, <2>2, <3>0, ReleasedAgrees, Zenon
    <3>2. SameDeclarations(pins, m.pins)
      BY <2>1, <2>2, <3>0, ReleasedAgrees, Zenon
    <3>3. SameElsewhere(hw, m.hw, loc[n], loc[n])
      BY <2>1, <2>2, <3>0, ReleasedAgrees, Zenon
    <3>4. LastReleases(loc, dir, s, pins, target, m.hw, tg2)
      BY <2>1, <2>2, <3>0, ReleasedAgrees, Zenon
    <3> QED
      BY <3>1, <3>2, <3>3, <3>4
  <2> QED
    BY <2>1, <2>3
<1> QED
  BY <1>1, <1>2

\* A session is assigned id, a pin or none, in place of the one it holds: m has
\* the pins and locations, and tg2 the targets afterwards.
Reassignment(loc, dir, s, id, m, tg2) ==
    /\ Agree(loc, dir, m.pins, m.hw, tg2)
    /\ SameDeclarations(pins, m.pins)
    /\ SameElsewhere(hw, m.hw, target[s], id)
    /\ id = target[s] => m.hw = hw
    /\ id # target[s] => LastReleases(loc, dir, s, pins, target, m.hw, tg2)

LEMMA ReassignedAgrees ==
    ASSUME NEW loc, NEW dir, Stable(loc, dir), Countable, IInv(loc, dir), NEW s \in Sessions
    PROVE  Reassignment(loc, dir, s, AssignedPin(pins, s),
                        Reassigned([pins |-> pins, hw |-> hw], s, AssignedPin(pins, s)),
                        [target EXCEPT ![s] = AssignedPin(pins, s)])
<1> DEFINE id  == AssignedPin(pins, s)
           m   == Reassigned([pins |-> pins, hw |-> hw], s, id)
           tg2 == [target EXCEPT ![s] = id]
<1> SUFFICES Reassignment(loc, dir, s, id, m, tg2)
  OBVIOUS
<1>3. m = Reassigned([pins |-> pins, hw |-> hw], s, id) /\ tg2 = [target EXCEPT ![s] = id]
  OBVIOUS
<1>4. id # None => \E n \in Names : /\ pins[n].id = loc[n] /\ id = loc[n]
                                    /\ SessionDirection(s) = dir[n]
  BY AssignedPinIs
<1> HIDE DEF id, m, tg2
<1>0. /\ Agree(loc, dir, pins, hw, target)
      /\ target \in [Sessions -> Locations \union {None, Closed}]
  BY DEF IInv, Agree
<1>1. CASE id = target[s]
  <2>1. tg2 = target
    BY <1>0, <1>1, <1>3
  <2>2. m.pins = pins /\ m.hw = hw
    BY <1>1, <1>3 DEF Reassigned
  <2> QED
    BY <1>0, <1>1, <2>1, <2>2 DEF Reassignment, SameDeclarations, SameElsewhere
<1>2. CASE id # target[s]
  <2> DEFINE r == GiveUp(s)
             tg1 == [target EXCEPT ![s] = None]
  <2>1. m = IF id = None THEN r ELSE Acquired(r, id, SessionDirection(s))
    BY <1>2, <1>3 DEF Reassigned, GiveUp
  <2>2. r = [pins |-> r.pins, hw |-> r.hw]
    BY DEF GiveUp, Released
  <2>3. tg1[s] = None /\ tg2 = [tg1 EXCEPT ![s] = id]
    BY <1>0, <1>3
  <2>4. /\ Agree(loc, dir, r.pins, r.hw, tg1)
        /\ SameDeclarations(pins, r.pins)
        /\ SameElsewhere(hw, r.hw, target[s], target[s])
        /\ LastReleases(loc, dir, s, pins, target, r.hw, tg1)
    <3>1. r = GiveUp(s) /\ tg1 = [target EXCEPT ![s] = None] /\ None \in NoPin
      BY DEF NoPin
    <3> HIDE DEF r, tg1
    <3> QED
      BY <3>1, GivenUp, Zenon
  <2> HIDE DEF r, tg1
  <2>5. CASE id = None
    <3>1. m = r /\ tg2 = tg1
      BY <1>0, <1>3, <2>1, <2>5 DEF tg1
    <3> QED
      BY <1>2, <2>4, <2>5, <3>1 DEF SameElsewhere, Reassignment
  <2>6. CASE id # None
    <3>1. PICK n \in Names : pins[n].id = loc[n] /\ id = loc[n] /\ SessionDirection(s) = dir[n]
      BY <1>4, <2>6
    <3>2. r.pins[n].id # None
      BY <2>4, <2>6, <3>1 DEF SameDeclarations
    <3>3. m = Acquired([pins |-> r.pins, hw |-> r.hw], loc[n], SessionDirection(s))
      BY <2>1, <2>2, <2>6, <3>1
    <3>4. /\ Agree(loc, dir, m.pins, m.hw, tg2)
          /\ SameDeclarations(r.pins, m.pins)
          /\ SameElsewhere(r.hw, m.hw, loc[n], loc[n])
      <4>1. Agree(loc, dir, r.pins, r.hw, tg1) /\ tg1[s] \in NoPin
        BY <2>3, <2>4 DEF NoPin
      <4>2. tg2 = [tg1 EXCEPT ![s] = loc[n]]
        BY <2>3, <3>1
      <4>3. SessionDirection(s) = dir[n]
        BY <3>1
      <4>4. Agree(loc, dir, m.pins, m.hw, tg2)
        BY <3>2, <3>3, <4>1, <4>2, <4>3, AcquiredAgrees, Zenon
      <4>5. SameDeclarations(r.pins, m.pins)
        BY <3>2, <3>3, <4>1, <4>2, <4>3, AcquiredAgrees, Zenon
      <4>6. SameElsewhere(r.hw, m.hw, loc[n], loc[n])
        BY <3>2, <3>3, <4>1, <4>2, <4>3, AcquiredAgrees, Zenon
      <4> QED
        BY <4>4, <4>5, <4>6
    <3>5. SameDeclarations(pins, m.pins)
      BY <2>4, <3>4 DEF SameDeclarations
    <3>6. SameElsewhere(hw, m.hw, target[s], id)
      BY <2>4, <3>1, <3>4 DEF SameElsewhere
    <3>7. LastReleases(loc, dir, s, pins, target, m.hw, tg2)
      <4> SUFFICES ASSUME NEW k \in Names, target[s] = loc[k], OnDemand(pins[k]) = TRUE,
                          pins[k].id # None, Holders(loc, dir, tg2, k) = {}
                   PROVE  m.hw[loc[k]].fn # "OUTPUT"
        BY DEF LastReleases, OnDemand
      <4>1. loc[k] \in Locations /\ loc[k] # loc[n]
        BY <1>2, <3>1 DEF Stable
      <4>2. Holders(loc, dir, tg1, k) = {}
        BY <1>0, <2>3, DeclarationFacts DEF Holders, tg1
      <4>3. r.hw[loc[k]].fn # "OUTPUT"
        BY <2>4, <4>2 DEF LastReleases
      <4> QED
        BY <3>4, <4>1, <4>3 DEF SameElsewhere
    <3> QED
      BY <1>2, <3>4, <3>5, <3>6, <3>7 DEF Reassignment
  <2> QED
    BY <2>5, <2>6
<1> QED
  BY <1>1, <1>2

--------------------------------------------------------------------------------
(* The steps *)

LEMMA InitAgrees ==
    ASSUME NEW loc, NEW dir, Stable(loc, dir), Init
    PROVE  IInv(loc, dir)
<1>1. \A n \in Names : Holders(loc, dir, target, n) = {}
  BY NoneAssumption DEF Init, Holders, Stable
<1>2. ASSUME NEW n \in Names
      PROVE  PinInv(loc[n], dir[n], pins[n], hw[loc[n]], Holders(loc, dir, target, n))
  BY DEF Init, PinInv, Undeclared, Stable
<1>3. pins \in [Names -> PinType] /\ hw \in [Locations -> HwType]
  BY DEF Init, PinType, HwType, Undeclared, Functions, Levels, Defaults
<1>4. \A s \in Sessions : target[s] \notin Locations
  BY NoneAssumption DEF Init
<1>5. target \in [Sessions -> Locations \union {None, Closed}]
  BY DEF Init
<1>6. \A l \in Locations : hw[l].fn # "OUTPUT"
  BY DEF Init
<1>7. StageInv(loc, dir)
  BY <1>1 DEF Init, StageInv, NodesInv, StageType
<1> QED
  BY <1>2, <1>3, <1>4, <1>5, <1>6, <1>7 DEF IInv, Agree

\* Without a configuration being handled, only declared pins are held.
LEMMA IdleHoldsDeclared ==
    ASSUME NEW loc, NEW dir, Stable(loc, dir), IInv(loc, dir), Idle,
           NEW n \in Names, pins[n].id = None
    PROVE  Holders(loc, dir, target, n) = {}
BY DEF IInv, StageInv, Idle, Holders

LEMMA NewConfigKeeps ==
    ASSUME NEW loc, NEW dir, Stable(loc, dir), IInv(loc, dir), NEW c \in Configs, NewConfig(c)
    PROVE  IInv(loc, dir)'
<1>1. Agree(loc, dir, pins, hw, target)'
  BY DEF IInv, NewConfig
<1>2. config'.policy \in [Sessions -> Names \union {None}]
  BY ConfigsAssumption DEF NewConfig
<1>3. NodesInv(loc, dir, stage'.nodes)
  <2>1. stage'.nodes = c.nodes
    BY DEF NewConfig
  <2>2. c.nodes \in Seq(Nodes) /\ \A i \in 1 .. Len(c.nodes) : StableNode(loc, dir, c.nodes[i])
    BY ConfigsAssumption DEF Stable
  <2>3. \A i, j \in 1 .. Len(c.nodes) : i # j => c.nodes[i].name # c.nodes[j].name
    BY ConfigsAssumption
  <2> QED
    BY <2>1, <2>2, <2>3 DEF NodesInv
<1>4. ASSUME NEW n \in Names, pins'[n].id = None PROVE Holders(loc, dir, target', n) = {}
  BY <1>4, IdleHoldsDeclared DEF NewConfig, Idle
<1>5. stage' \in StageType
  BY <1>3 DEF NewConfig, NodesInv, StageType
<1> QED
  BY <1>1, <1>2, <1>3, <1>4, <1>5 DEF IInv, StageInv

\* The next declaration to be updated
LEMMA NextNode ==
    ASSUME NEW loc, NEW dir, Stable(loc, dir), IInv(loc, dir), stage.nodes # <<>>
    PROVE  /\ Head(stage.nodes) \in Nodes
           /\ StableNode(loc, dir, Head(stage.nodes))
           /\ Head(stage.nodes) = stage.nodes[1] /\ 1 \in 1 .. Len(stage.nodes)
           /\ NodesInv(loc, dir, Tail(stage.nodes))
           /\ \A i \in 1 .. Len(Tail(stage.nodes)) :
                 /\ Tail(stage.nodes)[i].name # Head(stage.nodes).name
                 /\ i + 1 \in 1 .. Len(stage.nodes) /\ Tail(stage.nodes)[i] = stage.nodes[i + 1]
<1> DEFINE nodes == stage.nodes
<1>1. /\ nodes \in Seq(Nodes) /\ nodes # <<>>
      /\ \A i \in 1 .. Len(nodes) : StableNode(loc, dir, nodes[i])
      /\ \A i, j \in 1 .. Len(nodes) : i # j => nodes[i].name # nodes[j].name
  BY DEF IInv, StageInv, NodesInv
<1> HIDE DEF nodes
<1>2. /\ Head(nodes) = nodes[1] /\ 1 \in 1 .. Len(nodes) /\ Head(nodes) \in Nodes
      /\ Tail(nodes) \in Seq(Nodes)
      /\ Len(Tail(nodes)) = Len(nodes) - 1 /\ Len(nodes) \in Nat
      /\ \A i \in 1 .. Len(Tail(nodes)) : Tail(nodes)[i] = nodes[i + 1]
  BY <1>1
<1>3. \A i \in 1 .. Len(Tail(nodes)) : i + 1 \in 1 .. Len(nodes) /\ i + 1 # 1
  BY <1>2
<1>4. \A i \in 1 .. Len(Tail(nodes)) : Tail(nodes)[i].name # Head(nodes).name
  BY <1>1, <1>2, <1>3
<1>5. \A i, j \in 1 .. Len(Tail(nodes)) : i # j => Tail(nodes)[i].name # Tail(nodes)[j].name
  <2> SUFFICES ASSUME NEW i \in 1 .. Len(Tail(nodes)), NEW j \in 1 .. Len(Tail(nodes)), i # j
               PROVE  Tail(nodes)[i].name # Tail(nodes)[j].name
    OBVIOUS
  <2>1. i + 1 # j + 1
    OBVIOUS
  <2> QED
    BY <1>1, <1>2, <1>3, <2>1
<1>6. \A i \in 1 .. Len(Tail(nodes)) : StableNode(loc, dir, Tail(nodes)[i])
  BY <1>1, <1>2, <1>3
<1> QED
  BY <1>1, <1>2, <1>3, <1>4, <1>5, <1>6 DEF NodesInv, nodes

\* An update affects declaration n and its location only.
Updated(loc, dir, node, n) ==
    /\ node.id = None => pins'[n] = Undeclared /\ hw'[loc[n]].fn # "OUTPUT"
    /\ node.id # None =>
         /\ pins'[n] = [id |-> loc[n], fn |-> node.fn, default |-> node.default,
                        ref_count |-> Cardinality(Holders(loc, dir, target, n))]
         /\ IF OnDemand(node) THEN hw'[loc[n]] = hw[loc[n]]
            ELSE hw'[loc[n]] =
                   IF node.fn = "OUTPUT" /\ Holders(loc, dir, target, n) = {}
                   THEN [fn |-> "OUTPUT", level |-> node.default]
                   ELSE [fn |-> node.fn, level |-> hw[loc[n]].level]
    /\ pins' \in [Names -> PinType] /\ hw' \in [Locations -> HwType]
    /\ \A k \in Names \ {n} : pins'[k] = pins[k] /\ hw'[loc[k]] = hw[loc[k]]
    /\ \A l \in Locations \ {loc[n]} : hw'[l] = hw[l]
    /\ target' = target

LEMMA UpdateFromNodeIs ==
    ASSUME NEW loc, NEW dir, Stable(loc, dir), Countable, IInv(loc, dir), UpdateFromNode,
           NEW node, node = Head(stage.nodes), NEW n, n = node.name
    PROVE  /\ n \in Names /\ node \in Nodes /\ StableNode(loc, dir, node)
           /\ Updated(loc, dir, node, n)
<1> DEFINE H == Holders(loc, dir, target, n)
<1>1. stage.phase = "update" /\ stage.nodes # <<>> /\ target' = target
  BY DEF UpdateFromNode
<1>2. /\ node \in Nodes /\ StableNode(loc, dir, node) /\ n \in Names
      /\ stage.nodes[1].name = n /\ 1 \in 1 .. Len(stage.nodes)
  BY <1>1, NextNode DEF Nodes
<1>3. /\ loc[n] \in Locations /\ loc[n] # None /\ hw[loc[n]] \in HwType /\ pins[n] \in PinType
      /\ pins[n].id \in {None, loc[n]}
      /\ PinInv(loc[n], dir[n], pins[n], hw[loc[n]], H)
  BY <1>2, DeclarationFacts
<1>4. pins \in [Names -> PinType] /\ hw \in [Locations -> HwType]
  BY DEF IInv, Agree
<1>5. \A k \in Names \ {n} : loc[k] \in Locations \ {loc[n]}
  BY <1>2 DEF Stable
<1>6. Cardinality(H) \in Nat /\ (Cardinality(H) = 0 <=> H = {})
  BY CountOf DEF Holders
<1>7. pins[n].id = None => H = {}
  BY <1>1, <1>2 DEF IInv, StageInv
<1>8. pins[n].ref_count = Cardinality(H)
  BY <1>3, <1>6, <1>7 DEF PinInv, Undeclared
<1> HIDE DEF H
<1>9. CASE node.id = None
  <2>1. Malformed(n)
    BY <1>9 DEF UpdateFromNode
  <2>2. pins'[n] = Undeclared /\ pins' \in [Names -> PinType]
        /\ \A k \in Names \ {n} : pins'[k] = pins[k]
    BY <1>2, <1>4, <2>1 DEF Malformed, PinType, Undeclared, Functions, Defaults
  <2>3. CASE pins[n].id = None
    <3>1. hw' = hw
      BY <2>1, <2>3 DEF Malformed
    <3>2. hw[loc[n]].fn # "OUTPUT"
      BY <1>3, <2>3 DEF PinInv, Undeclared
    <3> QED
      BY <1>1, <1>2, <1>4, <1>9, <2>2, <3>1, <3>2 DEF Updated
  <2>4. CASE pins[n].id # None
    <3>1. hw' = [hw EXCEPT ![loc[n]].fn = "DISABLE"]
      BY <1>3, <2>1, <2>4 DEF Malformed, Configure
    <3>2. hw' \in [Locations -> HwType] /\ hw'[loc[n]].fn = "DISABLE"
          /\ \A l \in Locations \ {loc[n]} : hw'[l] = hw[l]
      BY <1>3, <1>4, <3>1 DEF HwType, Functions
    <3> QED
      BY <1>1, <1>2, <1>5, <1>9, <2>2, <3>2 DEF Updated
  <2> QED
    BY <2>3, <2>4
<1>10. CASE node.id # None
  <2>1. node.id = loc[n]
    BY <1>2, <1>10 DEF StableNode
  <2>2. WellFormed(node) /\ Moved(hw, pins[n], node.id) = hw
    BY <1>3, <1>10, <2>1 DEF UpdateFromNode, Moved
  <2> DEFINE pin == [id |-> loc[n], fn |-> node.fn, default |-> node.default,
                     ref_count |-> Cardinality(H)]
             configured == IF OnDemand(pin) THEN hw ELSE Configure(hw, loc[n], node.fn)
  <2>3. /\ pins' = [pins EXCEPT ![n] = pin]
        /\ hw' = IF pin.fn = "OUTPUT" /\ ~OnDemand(pin) /\ pin.ref_count = 0
                 THEN State(configured, loc[n], pin.default) ELSE configured
    BY <1>8, <2>1, <2>2 DEF WellFormed
  <2>4. /\ node.fn \in Functions /\ node.default \in Defaults
        /\ OnDemand(pin) <=> OnDemand(node)
    BY <1>2 DEF Nodes, OnDemand
  <2>5. /\ configured \in [Locations -> HwType]
        /\ \A l \in Locations \ {loc[n]} : configured[l] = hw[l]
        /\ OnDemand(node) => configured = hw
        /\ ~OnDemand(node) => configured[loc[n]] = [fn |-> node.fn, level |-> hw[loc[n]].level]
    BY <1>3, <1>4, <2>4 DEF Configure, HwType
  <2> HIDE DEF configured
  <2>6. pin \in PinType
    BY <1>3, <1>6, <2>4 DEF PinType
  <2>7. pins'[n] = pin /\ pins' \in [Names -> PinType]
        /\ \A k \in Names \ {n} : pins'[k] = pins[k]
    BY <1>2, <1>4, <2>3, <2>6
  <2>8. CASE OnDemand(node)
    <3>1. hw' = hw
      BY <2>3, <2>4, <2>5, <2>8
    <3> QED
      BY <1>1, <1>2, <1>4, <1>10, <2>7, <2>8, <3>1 DEF H, Updated
  <2>9. CASE ~OnDemand(node) /\ node.fn = "OUTPUT" /\ H = {}
    <3>1. hw' = State(configured, loc[n], node.default) /\ node.default # "HIGH_IMPEDANCE"
      BY <1>6, <2>3, <2>4, <2>9 DEF OnDemand
    <3>2. /\ hw' \in [Locations -> HwType]
          /\ hw'[loc[n]] = [fn |-> "OUTPUT", level |-> node.default]
          /\ \A l \in Locations \ {loc[n]} : hw'[l] = hw[l]
      BY <1>3, <2>4, <2>5, <3>1, StateIs
    <3> QED
      BY <1>1, <1>2, <1>5, <1>10, <2>7, <2>9, <3>2 DEF H, Updated
  <2>10. CASE ~OnDemand(node) /\ ~(node.fn = "OUTPUT" /\ H = {})
    <3>1. hw' = configured
      BY <1>6, <2>3, <2>4, <2>10
    <3> QED
      BY <1>1, <1>2, <1>5, <1>10, <2>5, <2>7, <2>10, <3>1 DEF H, Updated
  <2> QED
    BY <2>8, <2>9, <2>10
<1> QED
  BY <1>9, <1>10

LEMMA UpdateFromNodeKeeps ==
    ASSUME NEW loc, NEW dir, Stable(loc, dir), Countable, IInv(loc, dir), UpdateFromNode
    PROVE  IInv(loc, dir)'
<1> DEFINE node == Head(stage.nodes)
           n    == node.name
           H    == Holders(loc, dir, target, n)
<1>1. /\ n \in Names /\ node \in Nodes /\ StableNode(loc, dir, node)
      /\ node.id = None => pins'[n] = Undeclared /\ hw'[loc[n]].fn # "OUTPUT"
      /\ node.id # None =>
           /\ pins'[n] = [id |-> loc[n], fn |-> node.fn, default |-> node.default,
                          ref_count |-> Cardinality(H)]
           /\ IF OnDemand(node) THEN hw'[loc[n]] = hw[loc[n]]
              ELSE hw'[loc[n]] = IF node.fn = "OUTPUT" /\ H = {}
                                 THEN [fn |-> "OUTPUT", level |-> node.default]
                                 ELSE [fn |-> node.fn, level |-> hw[loc[n]].level]
      /\ pins' \in [Names -> PinType] /\ hw' \in [Locations -> HwType]
      /\ \A k \in Names \ {n} : pins'[k] = pins[k]
      /\ \A l \in Locations \ {loc[n]} : hw'[l] = hw[l]
      /\ target' = target
  <2>1. n \in Names /\ node \in Nodes /\ StableNode(loc, dir, node) /\ Updated(loc, dir, node, n)
    BY UpdateFromNodeIs
  <2> QED
    BY <2>1 DEF Updated
<1>2. /\ stage.phase = "update" /\ stage'.phase = "update" /\ stage.nodes # <<>>
      /\ stage'.nodes = Tail(stage.nodes) /\ config' = config
  BY DEF UpdateFromNode, IInv, StageInv, StageType
<1>3. /\ NodesInv(loc, dir, Tail(stage.nodes))
      /\ \A i \in 1 .. Len(Tail(stage.nodes)) :
            /\ Tail(stage.nodes)[i].name # n
            /\ i + 1 \in 1 .. Len(stage.nodes) /\ Tail(stage.nodes)[i] = stage.nodes[i + 1]
  BY <1>2, NextNode
<1> HIDE DEF node, n
<1>4. PinInv(loc[n], dir[n], pins'[n], hw'[loc[n]], H)
  <2>1. CASE node.id = None
    BY <1>1, <2>1 DEF PinInv, Undeclared
  <2>2. CASE node.id # None
    <3>1. /\ node.fn # "DISABLE" /\ Direction(node.fn) = dir[n] /\ loc[n] # None
      BY <1>1, DeclarationFacts DEF Nodes, StableNode, n
    <3> QED
      BY <1>1, <2>2, <3>1 DEF PinInv, OnDemand
  <2> QED
    BY <2>1, <2>2
<1>5. Agree(loc, dir, pins', hw', target')
  <2>1. OnlyAt(loc, dir, n, pins, hw, target, pins', hw', target')
    BY <1>1 DEF OnlyAt, IInv, Agree
  <2> QED
    BY <1>1, <1>4, <2>1, LocalChange DEF IInv
<1>6. ASSUME NEW k \in Names, pins'[k].id = None, NEW s \in Holders(loc, dir, target', k)
      PROVE  \A i \in 1 .. Len(stage'.nodes) : stage'.nodes[i].name # k
  <2>1. CASE k = n
    BY <1>2, <1>3, <2>1
  <2>2. CASE k # n
    <3>1. \A i \in 1 .. Len(stage.nodes) : stage.nodes[i].name # k
      BY <1>1, <1>2, <1>6, <2>2 DEF IInv, StageInv
    <3> QED
      BY <1>2, <1>3, <3>1
  <2> QED
    BY <2>1, <2>2
<1>7. stage' \in StageType
  BY <1>3 DEF UpdateFromNode, IInv, StageInv, NodesInv, StageType
<1> QED
  BY <1>2, <1>3, <1>5, <1>6, <1>7 DEF IInv, StageInv

LEMMA DestroyVanishedKeeps ==
    ASSUME NEW loc, NEW dir, Stable(loc, dir), IInv(loc, dir), DestroyVanished
    PROVE  IInv(loc, dir)'
<1> DEFINE gone == {n \in Names \ NamesOf(config) : pins[n].id # None}
<1>1. /\ pins' = [n \in Names |-> IF n \in gone THEN Undeclared ELSE pins[n]]
      /\ hw' = [l \in Locations |-> IF \E n \in gone : pins[n].id = l
                                    THEN [hw[l] EXCEPT !.fn = "DISABLE"] ELSE hw[l]]
      /\ target' = target
  BY DEF DestroyVanished
<1>2. gone \subseteq Names /\ \A n \in gone : pins[n].id = loc[n]
  BY DeclarationFacts
<1> HIDE DEF gone
<1>3. \A n \in Names : loc[n] \in Locations /\ ((\E k \in gone : pins[k].id = loc[n]) <=> n \in gone)
  BY <1>2 DEF Stable
<1>4. /\ pins \in [Names -> PinType] /\ hw \in [Locations -> HwType]
      /\ Undeclared \in PinType
  BY DEF IInv, Agree, Undeclared, PinType, Functions, Defaults
<1>5. pins' \in [Names -> PinType]
  BY <1>1, <1>4
<1>6. /\ hw' \in [Locations -> HwType]
      /\ \A l \in Locations : hw'[l] = hw[l] \/ hw'[l].fn = "DISABLE"
  BY <1>1, <1>4 DEF HwType, Functions
<1>7. \A n \in Names :
         /\ n \in gone => pins'[n] = Undeclared /\ hw'[loc[n]].fn = "DISABLE"
         /\ n \notin gone => pins'[n] = pins[n] /\ hw'[loc[n]] = hw[loc[n]]
  BY <1>1, <1>3, <1>4 DEF HwType
<1>8. ASSUME NEW n \in Names
      PROVE  PinInv(loc[n], dir[n], pins'[n], hw'[loc[n]], Holders(loc, dir, target, n))
  <2>1. CASE n \in gone
    BY <1>7, <2>1 DEF PinInv, Undeclared
  <2>2. CASE n \notin gone
    <3>1. pins'[n] = pins[n] /\ hw'[loc[n]] = hw[loc[n]]
      BY <1>7, <2>2
    <3> QED
      BY <3>1, DeclarationFacts
  <2> QED
    BY <2>1, <2>2
<1>9. Agree(loc, dir, pins', hw', target')
  BY <1>1, <1>5, <1>6, <1>8 DEF IInv, Agree
<1>10. /\ stage' = [phase |-> "assign", nodes |-> <<>>,
                    todo |-> {s \in Sessions : target[s] # Closed}]
       /\ config' = config
  BY DEF DestroyVanished
<1>11. \A n \in Names : \A s \in Holders(loc, dir, target', n) : s \in stage'.todo
  BY <1>1, <1>10, NoneAssumption DEF Holders, Stable
<1>12. StageInv(loc, dir)'
  BY <1>10, <1>11 DEF IInv, StageInv, NodesInv, StageType
<1> QED
  BY <1>9, <1>12 DEF IInv

\* What UpdateAssignment does, in terms of ReassignedAgrees
LEMMA UpdateAssignmentIs ==
    ASSUME NEW loc, NEW dir, Stable(loc, dir), Countable, IInv(loc, dir),
           NEW s \in Sessions, UpdateAssignment(s),
           NEW id, id = AssignedPin(pins, s)
    PROVE  /\ Agree(loc, dir, pins', hw', target')
           /\ SameDeclarations(pins, pins')
           /\ SameElsewhere(hw, hw', target[s], id)
           /\ id = target[s] => hw' = hw
           /\ id # target[s] => LastReleases(loc, dir, s, pins, target, hw', target')
           /\ target' = [target EXCEPT ![s] = id]
<1> DEFINE m == Reassigned([pins |-> pins, hw |-> hw], s, AssignedPin(pins, s))
<1>1. pins' = m.pins /\ hw' = m.hw /\ target' = [target EXCEPT ![s] = AssignedPin(pins, s)]
  BY DEF UpdateAssignment
<1>2. Reassignment(loc, dir, s, AssignedPin(pins, s), m, target')
  <2>1. Reassignment(loc, dir, s, AssignedPin(pins, s), m,
                     [target EXCEPT ![s] = AssignedPin(pins, s)])
    BY ReassignedAgrees
  <2> QED
    BY <1>1, <2>1
<1> HIDE DEF m
<1> QED
  BY <1>1, <1>2 DEF Reassignment

LEMMA UpdateAssignmentKeeps ==
    ASSUME NEW loc, NEW dir, Stable(loc, dir), Countable, IInv(loc, dir),
           NEW s \in Sessions, UpdateAssignment(s)
    PROVE  IInv(loc, dir)'
<1> DEFINE id == AssignedPin(pins, s)
<1>1. /\ Agree(loc, dir, pins', hw', target')
      /\ SameDeclarations(pins, pins')
      /\ target' = [target EXCEPT ![s] = id]
  BY UpdateAssignmentIs
<1>2. /\ stage.phase = "assign" /\ stage' = [stage EXCEPT !.todo = @ \ {s}]
      /\ config' = config
  BY DEF UpdateAssignment
<1>3. stage \in StageType
  BY DEF IInv, StageInv
<1>4. /\ stage'.phase = "assign" /\ stage'.nodes = stage.nodes /\ stage'.todo = stage.todo \ {s}
      /\ stage' \in StageType
  BY <1>2, <1>3 DEF StageType
<1>5. ASSUME NEW n \in Names, pins'[n].id = None, NEW t \in Holders(loc, dir, target', n)
      PROVE  t \in stage'.todo
  <2>1. pins[n].id = None /\ t \in Sessions /\ target'[t] = loc[n] /\ SessionDirection(t) = dir[n]
    BY <1>1, <1>5 DEF SameDeclarations, Holders
  <2>2. target \in [Sessions -> Locations \union {None, Closed}]
    BY DEF IInv, Agree
  <2>3. t # s
    <3> SUFFICES ASSUME t = s PROVE FALSE
      OBVIOUS
    <3>1. id = loc[n] /\ id # None
      BY <1>1, <2>1, <2>2, DeclarationFacts
    <3>2. \E k \in Names : pins[k].id = loc[k] /\ id = loc[k]
      BY <3>1, AssignedPinIs
    <3> QED
      BY <2>1, <3>1, <3>2 DEF Stable
  <2>4. t \in Holders(loc, dir, target, n)
    BY <1>1, <2>1, <2>2, <2>3 DEF Holders
  <2> QED
    BY <1>2, <1>4, <2>1, <2>3, <2>4 DEF IInv, StageInv
<1> QED
  BY <1>1, <1>2, <1>4, <1>5 DEF IInv, StageInv

LEMMA AssignedKeeps ==
    ASSUME NEW loc, NEW dir, IInv(loc, dir), Assigned
    PROVE  IInv(loc, dir)'
<1>1. Agree(loc, dir, pins', hw', target')
  BY DEF IInv, Assigned
<1>2. /\ stage.phase = "assign" /\ stage.todo = {} /\ stage' = [stage EXCEPT !.phase = "idle"]
      /\ config' = config /\ pins' = pins /\ target' = target
  BY DEF Assigned
<1>3. /\ stage' \in StageType
      /\ stage'.nodes = stage.nodes
  BY <1>2 DEF IInv, StageInv, StageType
<1>4. \A n \in Names : pins[n].id = None => Holders(loc, dir, target, n) = {}
  BY <1>2 DEF IInv, StageInv, Holders
<1> QED
  BY <1>1, <1>2, <1>3, <1>4 DEF IInv, StageInv

\* Steps of sessions: the declarations do not change, and each session that has a
\* pin has a declared one.
LEMMA SessionKeeps ==
    ASSUME NEW loc, NEW dir, Stable(loc, dir), IInv(loc, dir), Idle, config' = config, stage' = stage,
           Agree(loc, dir, pins', hw', target'), SameDeclarations(pins, pins'),
           \A n \in Names : pins[n].id = None => Holders(loc, dir, target', n) = {}
    PROVE  IInv(loc, dir)'
BY DEF IInv, StageInv, SameDeclarations

LEMMA OpenIs ==
    ASSUME NEW loc, NEW dir, Stable(loc, dir), Countable, IInv(loc, dir),
           NEW s \in Sessions, Open(s)
    PROVE  \E n \in Names :
              /\ pins[n].id # None /\ SessionDirection(s) = dir[n]
              /\ target' = [target EXCEPT ![s] = loc[n]]
              /\ Agree(loc, dir, pins', hw', target')
              /\ SameDeclarations(pins, pins')
              /\ SameElsewhere(hw, hw', loc[n], loc[n])
<1>1. target[s] \in NoPin /\ AssignedPin(pins, s) # None
  BY DEF Open, NoPin
<1>2. PICK n \in Names : /\ pins[n].id = loc[n] /\ AssignedPin(pins, s) = loc[n]
                         /\ SessionDirection(s) = dir[n]
  BY <1>1, AssignedPinIs
<1> DEFINE m == Acquired([pins |-> pins, hw |-> hw], loc[n], SessionDirection(s))
<1>3. pins' = m.pins /\ hw' = m.hw /\ target' = [target EXCEPT ![s] = loc[n]]
  BY <1>2 DEF Open
<1>4. pins[n].id # None
  BY <1>2, DeclarationFacts
<1>5. Agree(loc, dir, pins, hw, target) /\ m = Acquired([pins |-> pins, hw |-> hw], loc[n], SessionDirection(s))
  BY DEF IInv
<1> HIDE DEF m
<1>6. Agree(loc, dir, m.pins, m.hw, target')
  BY <1>1, <1>2, <1>3, <1>4, <1>5, AcquiredAgrees, Zenon
<1>7. SameDeclarations(pins, m.pins)
  BY <1>1, <1>2, <1>3, <1>4, <1>5, AcquiredAgrees, Zenon
<1>8. SameElsewhere(hw, m.hw, loc[n], loc[n])
  BY <1>1, <1>2, <1>3, <1>4, <1>5, AcquiredAgrees, Zenon
<1> QED
  BY <1>2, <1>3, <1>4, <1>6, <1>7, <1>8

LEMMA OpenKeeps ==
    ASSUME NEW loc, NEW dir, Stable(loc, dir), Countable, IInv(loc, dir),
           NEW s \in Sessions, Open(s)
    PROVE  IInv(loc, dir)'
<1>1. PICK n \in Names :
              /\ pins[n].id # None
              /\ target' = [target EXCEPT ![s] = loc[n]]
              /\ Agree(loc, dir, pins', hw', target')
              /\ SameDeclarations(pins, pins')
  BY OpenIs
<1>2. Idle /\ config' = config /\ stage' = stage
  BY DEF Open, Idle
<1>3. target \in [Sessions -> Locations \union {None, Closed}]
  BY DEF IInv, Agree
<1>4. ASSUME NEW k \in Names, pins[k].id = None PROVE Holders(loc, dir, target', k) = {}
  <2>1. Holders(loc, dir, target, k) = {} /\ loc[k] # loc[n]
    BY <1>1, <1>2, <1>4, IdleHoldsDeclared DEF Stable
  <2> QED
    BY <1>1, <1>3, <2>1 DEF Holders
<1> QED
  BY <1>1, <1>2, <1>4, SessionKeeps

LEMMA CloseIs ==
    ASSUME NEW loc, NEW dir, Stable(loc, dir), Countable, IInv(loc, dir),
           NEW s \in Sessions, Close(s)
    PROVE  /\ Agree(loc, dir, pins', hw', target')
           /\ SameDeclarations(pins, pins')
           /\ SameElsewhere(hw, hw', target[s], target[s])
           /\ LastReleases(loc, dir, s, pins, target, hw', target')
           /\ target' = [target EXCEPT ![s] = Closed]
<1> DEFINE m == GiveUp(s)
<1>1. pins' = m.pins /\ hw' = m.hw /\ target' = [target EXCEPT ![s] = Closed]
  BY DEF Close, GiveUp
<1>2. m = GiveUp(s) /\ Closed \in NoPin
  BY DEF NoPin
<1> HIDE DEF m
<1>3. Agree(loc, dir, m.pins, m.hw, target')
  BY <1>1, <1>2, GivenUp, Zenon
<1>4. SameDeclarations(pins, m.pins)
  BY <1>1, <1>2, GivenUp, Zenon
<1>5. SameElsewhere(hw, m.hw, target[s], target[s])
  BY <1>1, <1>2, GivenUp, Zenon
<1>6. LastReleases(loc, dir, s, pins, target, m.hw, target')
  BY <1>1, <1>2, GivenUp, Zenon
<1> QED
  BY <1>1, <1>3, <1>4, <1>5, <1>6

LEMMA CloseKeeps ==
    ASSUME NEW loc, NEW dir, Stable(loc, dir), Countable, IInv(loc, dir),
           NEW s \in Sessions, Close(s)
    PROVE  IInv(loc, dir)'
<1>1. /\ Agree(loc, dir, pins', hw', target')
      /\ SameDeclarations(pins, pins')
      /\ target' = [target EXCEPT ![s] = Closed]
  BY CloseIs
<1>2. Idle /\ config' = config /\ stage' = stage
  BY DEF Close, Idle
<1>3. target \in [Sessions -> Locations \union {None, Closed}]
  BY DEF IInv, Agree
<1>4. ASSUME NEW k \in Names, pins[k].id = None PROVE Holders(loc, dir, target', k) = {}
  <2>1. Holders(loc, dir, target, k) = {} /\ loc[k] # Closed
    BY <1>2, <1>4, IdleHoldsDeclared, DeclarationFacts
  <2> QED
    BY <1>1, <1>3, <2>1 DEF Holders
<1> QED
  BY <1>1, <1>2, <1>4, SessionKeeps

LEMMA SetStateIs ==
    ASSUME NEW loc, NEW dir, Stable(loc, dir), IInv(loc, dir),
           NEW s \in Sessions, NEW level \in Defaults, SetState(s, level)
    PROVE  \E n \in Names :
              /\ s \in Holders(loc, dir, target, n)
              /\ SameElsewhere(hw, hw', loc[n], loc[n])
              /\ Agree(loc, dir, pins', hw', target')
<1>1. target[s] \in Locations /\ Idle /\ SessionDirection(s) = "OUT"
      /\ hw' = State(hw, target[s], level) /\ pins' = pins /\ target' = target
  BY DEF SetState, Idle, SessionDirection
<1>2. Agree(loc, dir, pins, hw, target) /\ hw \in [Locations -> HwType]
      /\ pins \in [Names -> PinType] /\ target \in [Sessions -> Locations \union {None, Closed}]
  BY DEF IInv, Agree
<1>3. PICK n \in Names : target[s] = loc[n] /\ SessionDirection(s) = dir[n]
  BY <1>1, <1>2 DEF Agree
<1>4. s \in Holders(loc, dir, target, n)
  BY <1>3 DEF Holders
<1>5. pins[n].id # None
  BY <1>1, <1>4, IdleHoldsDeclared
<1>6. PinInv(loc[n], dir[n], pins[n], hw[loc[n]], Holders(loc, dir, target, n)) /\ loc[n] \in Locations
  BY DeclarationFacts
<1>7. pins[n].fn = "OUTPUT"
  BY <1>1, <1>3, <1>5, <1>6 DEF PinInv, Direction
<1>8. hw' \in [Locations -> HwType] /\ \A l \in Locations \ {loc[n]} : hw'[l] = hw[l]
  <2>1. hw' = State(hw, loc[n], level) /\ loc[n] \in Locations
    BY <1>1, <1>3
  <2>2. hw \in [Locations -> HwType] /\ loc[n] \in Locations
    BY <1>2, <2>1
  <2>3. State(hw, loc[n], level) \in [Locations -> HwType]
    BY <2>2, StateIs, Zenon
  <2>4. \A l \in Locations \ {loc[n]} : hw'[l] = hw[l]
    BY <2>1, <2>2 DEF State
  <2> QED
    BY <2>1, <2>3, <2>4
<1>9. PinInv(loc[n], dir[n], pins[n], hw'[loc[n]], Holders(loc, dir, target, n))
  BY <1>4, <1>5, <1>6, <1>7 DEF PinInv
<1>10. OnlyAt(loc, dir, n, pins, hw, target, pins, hw', target)
  BY <1>2, <1>8 DEF OnlyAt
<1>11. Agree(loc, dir, pins, hw', target)
  BY <1>2, <1>9, <1>10, LocalChange
<1> QED
  BY <1>1, <1>4, <1>8, <1>11 DEF SameElsewhere

LEMMA SetStateKeeps ==
    ASSUME NEW loc, NEW dir, Stable(loc, dir), IInv(loc, dir),
           NEW s \in Sessions, NEW level \in Defaults, SetState(s, level)
    PROVE  IInv(loc, dir)'
<1>1. Agree(loc, dir, pins', hw', target')
  BY SetStateIs
<1>2. Idle /\ config' = config /\ stage' = stage /\ pins' = pins /\ target' = target
  BY DEF SetState, Idle
<1>3. SameDeclarations(pins, pins')
  BY <1>2 DEF SameDeclarations
<1> QED
  BY <1>1, <1>2, <1>3, IdleHoldsDeclared, SessionKeeps

LEMMA NextKeeps ==
    ASSUME NEW loc, NEW dir, Stable(loc, dir), Countable, IInv(loc, dir), [Next]_pioVars
    PROVE  IInv(loc, dir)'
<1>1. ASSUME NEW c \in Configs, NewConfig(c) PROVE IInv(loc, dir)'
  BY <1>1, NewConfigKeeps
<1>2. CASE UpdateFromNode
  BY <1>2, UpdateFromNodeKeeps
<1>3. CASE DestroyVanished
  BY <1>3, DestroyVanishedKeeps
<1>4. CASE Assigned
  BY <1>4, AssignedKeeps
<1>5. ASSUME NEW s \in Sessions, UpdateAssignment(s) PROVE IInv(loc, dir)'
  BY <1>5, UpdateAssignmentKeeps
<1>6. ASSUME NEW s \in Sessions, Open(s) PROVE IInv(loc, dir)'
  BY <1>6, OpenKeeps
<1>7. ASSUME NEW s \in Sessions, Close(s) PROVE IInv(loc, dir)'
  BY <1>7, CloseKeeps
<1>8. ASSUME NEW s \in Sessions, NEW level \in Defaults, SetState(s, level) PROVE IInv(loc, dir)'
  BY <1>8, SetStateKeeps
<1>9. CASE UNCHANGED pioVars
  BY <1>9 DEF pioVars, IInv, StageInv
<1> QED
  BY <1>1, <1>2, <1>3, <1>4, <1>5, <1>6, <1>7, <1>8, <1>9 DEF Next

--------------------------------------------------------------------------------
(* Theorems *)

\* The inductive invariant of the driver: after each step, also while a
\* configuration is handled, declarations, counts, locations and sessions agree.
THEOREM InvariantHolds ==
    ASSUME NEW loc, NEW dir, Stable(loc, dir), Countable
    PROVE  Spec => []IInv(loc, dir)
<1>1. Init => IInv(loc, dir)
  BY InitAgrees
<1>2. IInv(loc, dir) /\ [Next]_pioVars => IInv(loc, dir)'
  BY NextKeeps
<1> QED
  BY <1>1, <1>2, PTL DEF Spec

\* The sessions that use a declared pin are those that hold its declaration.
LEMMA UsersAreHolders ==
    ASSUME NEW loc, NEW dir, Stable(loc, dir), IInv(loc, dir),
           NEW n \in Names, pins[n].id # None
    PROVE  /\ pins[n].id = loc[n]
           /\ Users(pins[n].id, Direction(pins[n].fn)) = Holders(loc, dir, target, n)
<1>1. pins[n].id = loc[n] /\ Direction(pins[n].fn) = dir[n]
  BY DeclarationFacts
<1> QED
  BY <1>1 DEF Users, Holders

\* Reference counts are the numbers of sessions that hold the pins, and the pin of
\* a session is declared, whenever no configuration is being handled (acquire_pin,
\* release_pin, update_assignments).
THEOREM CountsSessions ==
    ASSUME NEW loc, NEW dir, Stable(loc, dir), Countable
    PROVE  Spec => []RefCountsSessions
<1>1. IInv(loc, dir) => RefCountsSessions
  <2> SUFFICES ASSUME IInv(loc, dir), Idle PROVE RefCountsSessions
    BY DEF RefCountsSessions
  <2>1. ASSUME NEW n \in Names, pins[n].id # None
        PROVE  pins[n].ref_count = Cardinality(Users(pins[n].id, Direction(pins[n].fn)))
    <3>1. pins[n].ref_count = Cardinality(Holders(loc, dir, target, n))
      <4>1. PinInv(loc[n], dir[n], pins[n], hw[loc[n]], Holders(loc, dir, target, n))
        BY DeclarationFacts
      <4> QED
        BY <2>1, <4>1 DEF PinInv
    <3> QED
      BY <2>1, <3>1, UsersAreHolders
  <2>2. ASSUME NEW s \in Sessions, target[s] \in Locations
        PROVE  \E n \in Names : /\ pins[n].id = target[s]
                                /\ Direction(pins[n].fn) = SessionDirection(s)
    <3>1. PICK n \in Names : target[s] = loc[n] /\ SessionDirection(s) = dir[n]
      BY <2>2 DEF IInv, Agree
    <3>2. pins[n].id # None
      BY <3>1, IdleHoldsDeclared DEF Holders
    <3> QED
      BY <3>1, <3>2, DeclarationFacts
  <2> QED
    BY <2>1, <2>2 DEF RefCountsSessions
<1> QED
  BY <1>1, InvariantHolds, PTL

\* An output without a session has its default, an input or an undeclared location
\* is not driven at any time, and the interrupt of a session is armed
\* (Pin_declaration::update_from_node, _handle_config, acquire_pin, release_pin).
THEOREM DeclaredStateHolds ==
    ASSUME NEW loc, NEW dir, Stable(loc, dir), Countable
    PROVE  Spec => []DrivenAsDeclared
<1>1. IInv(loc, dir) => DrivenAsDeclared
  <2> SUFFICES ASSUME IInv(loc, dir) PROVE DrivenAsDeclared
    OBVIOUS
  <2>1. DefaultRestored
    <3> SUFFICES ASSUME NEW n \in Names, pins[n].id # None, pins[n].fn = "OUTPUT",
                        ~OnDemand(pins[n]), Users(pins[n].id, "OUT") = {}
                 PROVE  hw[pins[n].id] = [fn |-> "OUTPUT", level |-> pins[n].default]
      BY DEF DefaultRestored
    <3>1. pins[n].id = loc[n] /\ Holders(loc, dir, target, n) = {}
      BY UsersAreHolders DEF Direction
    <3> QED
      BY <3>1, DeclarationFacts DEF PinInv, OnDemand
  <2>2. InputNotDriven
    <3> SUFFICES ASSUME NEW l \in Locations, hw[l].fn = "OUTPUT"
                 PROVE  \E n \in Names : pins[n].id = l /\ pins[n].fn = "OUTPUT"
      BY DEF InputNotDriven
    <3>1. PICK n \in Names : loc[n] = l
      BY DEF IInv, Agree
    <3>2. pins[n].fn = "OUTPUT"
      BY <3>1, DeclarationFacts DEF PinInv
    <3> QED
      BY <3>1, <3>2, DeclarationFacts DEF Undeclared
  <2>3. IrqPinArmed
    <3> SUFFICES ASSUME NEW n \in Names, pins[n].fn = "IRQ", Users(pins[n].id, "IN") # {}
                 PROVE  hw[pins[n].id].fn = "IRQ"
      BY DEF IrqPinArmed
    <3>1. pins[n].id # None
      BY DeclarationFacts DEF Undeclared
    <3>2. pins[n].id = loc[n] /\ Holders(loc, dir, target, n) # {}
      BY <3>1, UsersAreHolders DEF Direction
    <3>3. PinInv(loc[n], dir[n], pins[n], hw[loc[n]], Holders(loc, dir, target, n))
      BY DeclarationFacts
    <3> QED
      BY <3>2, <3>3 DEF PinInv
  <2> QED
    BY <2>1, <2>2, <2>3 DEF DrivenAsDeclared
<1> QED
  BY <1>1, InvariantHolds, PTL

--------------------------------------------------------------------------------
(* What a step does to the level of a client, and to a pin that nobody has *)

\* The step of ClientLevelKept, for one session and declaration
LevelKept(s, n) ==
    (/\ stage.phase # "idle" /\ Kind[s] = "control"
     /\ target[s] # None /\ target[s] = pins[n].id /\ hw[pins[n].id].fn = "OUTPUT"
     /\ target'[s] = target[s] /\ pins'[n].id = pins[n].id
     /\ Users(target[s], "OUT")' = Users(target[s], "OUT"))
        => hw'[target[s]] = hw[target[s]]

LEMMA LevelIsKept ==
    ASSUME NEW loc, NEW dir, Stable(loc, dir), Countable, IInv(loc, dir), [Next]_pioVars,
           NEW s \in Sessions, NEW n \in Names
    PROVE  LevelKept(s, n)
<1> SUFFICES ASSUME stage.phase # "idle", SessionDirection(s) = "OUT",
                    target[s] # None, target[s] = pins[n].id, hw[pins[n].id].fn = "OUTPUT",
                    target'[s] = target[s], pins'[n].id = pins[n].id,
                    \A t \in Sessions : target'[t] = target[s] /\ SessionDirection(t) = "OUT"
                                          <=> target[t] = target[s] /\ SessionDirection(t) = "OUT"
             PROVE  hw'[target[s]] = hw[target[s]]
  BY DEF LevelKept, Users, SessionDirection
<1>1. /\ target[s] = loc[n] /\ loc[n] \in Locations /\ loc[n] # None
      /\ pins[n].fn = "OUTPUT" /\ dir[n] = "OUT" /\ hw[loc[n]] \in HwType
      /\ hw[loc[n]].fn = "OUTPUT"
  <2>1. /\ PinInv(loc[n], dir[n], pins[n], hw[loc[n]], Holders(loc, dir, target, n))
        /\ loc[n] \in Locations /\ loc[n] # None /\ hw[loc[n]] \in HwType
        /\ pins[n].id # None => pins[n].id = loc[n] /\ Direction(pins[n].fn) = dir[n]
    BY DeclarationFacts
  <2>2. pins[n].id = loc[n] /\ Direction(pins[n].fn) = dir[n]
    BY <2>1
  <2> QED
    BY <2>1, <2>2 DEF PinInv, Direction
<1>2. s \in Holders(loc, dir, target, n)
  BY <1>1 DEF Holders
<1>3. CASE UpdateFromNode
  <2> DEFINE node == Head(stage.nodes)
  <2>1. node.name \in Names /\ node \in Nodes /\ StableNode(loc, dir, node)
        /\ Updated(loc, dir, node, node.name)
    BY <1>3, UpdateFromNodeIs
  <2> HIDE DEF node
  <2>2. CASE n # node.name
    BY <1>1, <2>1, <2>2 DEF Updated
  <2>3. CASE n = node.name
    <3>1. node.id # None
      BY <1>1, <2>1, <2>3 DEF Updated, Undeclared
    <3>2. node.fn = "OUTPUT"
      BY <1>1, <2>1, <2>3 DEF StableNode, Direction
    <3>3. OnDemand(node) \/ hw'[loc[n]] = [fn |-> "OUTPUT", level |-> hw[loc[n]].level]
      BY <1>2, <2>1, <2>3, <3>1, <3>2 DEF Updated
    <3>4. hw[loc[n]] = [fn |-> "OUTPUT", level |-> hw[loc[n]].level]
      BY <1>1 DEF HwType
    <3> QED
      BY <1>1, <2>1, <2>3, <3>1, <3>3, <3>4 DEF Updated
  <2> QED
    BY <2>2, <2>3
<1>4. CASE DestroyVanished
  <2> DEFINE gone == {k \in Names \ NamesOf(config) : pins[k].id # None}
  <2>1. /\ pins' = [k \in Names |-> IF k \in gone THEN Undeclared ELSE pins[k]]
        /\ hw' = [l \in Locations |-> IF \E k \in gone : pins[k].id = l
                                      THEN [hw[l] EXCEPT !.fn = "DISABLE"] ELSE hw[l]]
    BY <1>4 DEF DestroyVanished
  <2>2. gone \subseteq Names /\ \A k \in gone : pins[k].id = loc[k]
    BY DeclarationFacts
  <2> HIDE DEF gone
  <2>3. n \notin gone
    BY <1>1, <2>1 DEF Undeclared
  <2>4. \A k \in gone : pins[k].id # loc[n]
    BY <2>2, <2>3 DEF Stable
  <2> QED
    BY <1>1, <2>1, <2>4
<1>5. ASSUME NEW t \in Sessions, UpdateAssignment(t) PROVE hw'[target[s]] = hw[target[s]]
  <2> DEFINE id == AssignedPin(pins, t)
  <2>1. /\ SameElsewhere(hw, hw', target[t], id)
        /\ id = target[t] => hw' = hw
        /\ target' = [target EXCEPT ![t] = id]
    BY <1>5, UpdateAssignmentIs
  <2>2. id # None => \E k \in Names : id = loc[k] /\ SessionDirection(t) = dir[k]
    BY AssignedPinIs
  <2>3. target[t] \in Locations => \E k \in Names : target[t] = loc[k] /\ SessionDirection(t) = dir[k]
    BY DEF IInv, Agree
  <2>4. target'[t] = id
    BY <2>1 DEF IInv, Agree
  <2> HIDE DEF id
  <2>5. ASSUME id # target[t] PROVE id # loc[n] /\ target[t] # loc[n]
    <3>1. ASSUME id = loc[n] PROVE FALSE
      <4>1. SessionDirection(t) = "OUT"
        BY <1>1, <2>2, <3>1 DEF Stable
      <4> QED
        BY <1>1, <2>4, <2>5, <3>1, <4>1
    <3>2. ASSUME target[t] = loc[n] PROVE FALSE
      <4>1. SessionDirection(t) = "OUT"
        BY <1>1, <2>3, <3>2 DEF Stable
      <4> QED
        BY <1>1, <2>4, <2>5, <3>2, <4>1
    <3> QED
      BY <3>1, <3>2
  <2> QED
    BY <1>1, <2>1, <2>5 DEF SameElsewhere
<1>6. CASE Assigned
  BY <1>6 DEF Assigned
<1>7. CASE UNCHANGED pioVars
  BY <1>7 DEF pioVars
<1> QED
  BY <1>3, <1>4, <1>5, <1>6, <1>7 DEF Next, NewConfig, Open, Close, SetState

\* Where nothing has changed, a pin that nobody has is driven as before.
LEMMA StillExposed ==
    ASSUME NEW loc, NEW dir, Stable(loc, dir), IInv(loc, dir), IInv(loc, dir)', NEW n \in Names,
           Exposed(n)', SameDeclarations(pins, pins'), hw'[loc[n]] = hw[loc[n]],
           Holders(loc, dir, target, n) = Holders(loc, dir, target', n)
    PROVE  Exposed(n)
<1>1. /\ pins'[n].id # None /\ OnDemand(pins'[n]) = TRUE /\ pins'[n].fn = "OUTPUT"
      /\ {s \in Sessions : target'[s] = pins'[n].id /\ SessionDirection(s) = "OUT"} = {}
      /\ hw'[pins'[n].id].fn = "OUTPUT"
  BY DEF Exposed, OnDemand, Users
<1>2. pins[n].id # None /\ pins[n].fn = "OUTPUT" /\ OnDemand(pins[n]) = TRUE
      /\ pins'[n].id = pins[n].id
  BY <1>1 DEF SameDeclarations, OnDemand
<1>3. pins[n].id = loc[n] /\ dir[n] = "OUT"
  BY <1>2, DeclarationFacts DEF Direction
<1>4. Holders(loc, dir, target', n) = {}
  BY <1>1, <1>2, <1>3 DEF Holders
<1>5. Users(pins[n].id, "OUT") = {}
  BY <1>3, <1>4 DEF Users, Holders
<1> QED
  BY <1>1, <1>2, <1>3, <1>5 DEF Exposed

\* A pin that is driven though nobody has it
LEMMA ExposedMeans ==
    ASSUME NEW loc, NEW dir, Stable(loc, dir), IInv(loc, dir)', NEW n \in Names, Exposed(n)'
    PROVE  /\ pins'[n].id = loc[n] /\ pins'[n].fn = "OUTPUT" /\ dir[n] = "OUT"
           /\ pins'[n].default = "HIGH_IMPEDANCE"
           /\ Holders(loc, dir, target', n) = {} /\ hw'[loc[n]].fn = "OUTPUT"
<1>1. /\ pins'[n].id # None /\ pins'[n].fn = "OUTPUT" /\ pins'[n].default = "HIGH_IMPEDANCE"
      /\ {s \in Sessions : target'[s] = pins'[n].id /\ SessionDirection(s) = "OUT"} = {}
      /\ hw'[pins'[n].id].fn = "OUTPUT"
  BY DEF Exposed, OnDemand, Users
<1>2. PinInv(loc[n], dir[n], pins'[n], hw'[loc[n]], Holders(loc, dir, target', n))
  BY DEF IInv, Agree
<1>3. pins'[n].id = loc[n] /\ dir[n] = "OUT"
  BY <1>1, <1>2 DEF PinInv, Direction
<1> QED
  BY <1>1, <1>3 DEF Holders

LEMMA ReleasesOnDemand ==
    ASSUME NEW loc, NEW dir, Stable(loc, dir), Countable, IInv(loc, dir), [Next]_pioVars,
           NEW n \in Names, Exposed(n)'
    PROVE  Exposed(n) \/ pins[n].default \in Levels
<1> SUFFICES ASSUME pins[n].default \notin Levels PROVE Exposed(n)
  OBVIOUS
<1>1. IInv(loc, dir)'
  BY NextKeeps
<1>2. /\ pins'[n].id = loc[n] /\ pins'[n].fn = "OUTPUT" /\ dir[n] = "OUT"
      /\ Holders(loc, dir, target', n) = {} /\ hw'[loc[n]].fn = "OUTPUT"
      /\ pins'[n].default = "HIGH_IMPEDANCE"
  BY <1>1, ExposedMeans
<1>3. /\ loc[n] \in Locations /\ loc[n] # None /\ loc[n] # Closed /\ pins[n] \in PinType
      /\ target \in [Sessions -> Locations \union {None, Closed}]
  BY DeclarationFacts DEF IInv, Agree
<1>4. ASSUME UNCHANGED <<pins, hw, target>> PROVE Exposed(n)
  <2>1. SameDeclarations(pins, pins')
    BY <1>4 DEF SameDeclarations
  <2> QED
    BY <1>1, <1>4, <2>1, StillExposed
<1>5. CASE UpdateFromNode
  <2> DEFINE node == Head(stage.nodes)
  <2>1. /\ node.name \in Names /\ node \in Nodes /\ Updated(loc, dir, node, node.name)
        /\ target' = target
    BY <1>5, UpdateFromNodeIs DEF Updated
  <2> HIDE DEF node
  <2>2. hw'[loc[n]] = hw[loc[n]]
    <3>1. CASE n # node.name
      BY <2>1, <3>1 DEF Updated
    <3>2. CASE n = node.name
      <4>1. node.id # None /\ node.fn = "OUTPUT" /\ node.default = "HIGH_IMPEDANCE"
        BY <1>2, <2>1, <3>2 DEF Updated, Undeclared
      <4> QED
        BY <2>1, <3>2, <4>1 DEF Updated, OnDemand
    <3> QED
      BY <3>1, <3>2
  <2>3. pins[n].fn = "OUTPUT" /\ pins[n].id = loc[n]
    <3>1. pins[n].fn = "OUTPUT"
      <4>1. PinInv(loc[n], dir[n], pins[n], hw[loc[n]], Holders(loc, dir, target, n))
        BY DeclarationFacts
      <4> QED
        BY <1>2, <2>2, <4>1 DEF PinInv
    <3> QED
      BY <3>1, DeclarationFacts DEF Undeclared
  <2>4. pins[n].default = "HIGH_IMPEDANCE"
    BY <1>3 DEF PinType, Defaults
  <2>5. Users(pins[n].id, "OUT") = {}
    BY <1>2, <2>1, <2>3 DEF Users, Holders
  <2> QED
    BY <1>2, <1>3, <2>2, <2>3, <2>4, <2>5 DEF Exposed, OnDemand
<1>6. CASE DestroyVanished
  <2> DEFINE gone == {k \in Names \ NamesOf(config) : pins[k].id # None}
  <2>1. /\ pins' = [k \in Names |-> IF k \in gone THEN Undeclared ELSE pins[k]]
        /\ hw' = [l \in Locations |-> IF \E k \in gone : pins[k].id = l
                                      THEN [hw[l] EXCEPT !.fn = "DISABLE"] ELSE hw[l]]
        /\ target' = target
    BY <1>6 DEF DestroyVanished
  <2>2. gone \subseteq Names /\ \A k \in gone : pins[k].id = loc[k]
    BY DeclarationFacts
  <2> HIDE DEF gone
  <2>3. n \notin gone
    BY <1>2, <1>3, <2>1 DEF Undeclared
  <2>4. \A k \in gone : pins[k].id # loc[n]
    BY <2>2, <2>3 DEF Stable
  <2>5. pins'[n] = pins[n] /\ hw'[loc[n]] = hw[loc[n]]
    BY <1>3, <2>1, <2>3, <2>4
  <2>6. Users(pins[n].id, "OUT") = {}
    BY <1>2, <2>1, <2>5 DEF Users, Holders
  <2> QED
    BY <1>2, <1>3, <2>5, <2>6 DEF Exposed, OnDemand
<1>7. ASSUME NEW s \in Sessions, UpdateAssignment(s) PROVE Exposed(n)
  <2> DEFINE id == AssignedPin(pins, s)
  <2>1. /\ SameDeclarations(pins, pins')
        /\ SameElsewhere(hw, hw', target[s], id)
        /\ id = target[s] => hw' = hw
        /\ id # target[s] => LastReleases(loc, dir, s, pins, target, hw', target')
        /\ target' = [target EXCEPT ![s] = id]
    BY <1>7, UpdateAssignmentIs
  <2>2. id # None => \E k \in Names : id = loc[k] /\ SessionDirection(s) = dir[k]
    BY AssignedPinIs
  <2> HIDE DEF id
  <2>3. id # loc[n]
    <3> SUFFICES ASSUME id = loc[n] PROVE FALSE
      OBVIOUS
    <3>1. SessionDirection(s) = dir[n]
      BY <1>3, <2>2 DEF Stable
    <3>2. s \in Holders(loc, dir, target', n)
      BY <1>3, <2>1, <3>1 DEF Holders
    <3> QED
      BY <1>2, <3>2
  <2>4. pins[n].id # None /\ OnDemand(pins[n]) = TRUE
    BY <1>2, <1>3, <2>1 DEF SameDeclarations, OnDemand
  <2>5. target[s] = loc[n] => id = target[s]
    BY <1>2, <2>1, <2>4 DEF LastReleases
  <2>6. target[s] # loc[n]
    BY <2>3, <2>5
  <2>7. hw'[loc[n]] = hw[loc[n]]
    BY <1>3, <2>1, <2>3, <2>6 DEF SameElsewhere
  <2>8. Holders(loc, dir, target, n) = Holders(loc, dir, target', n)
    BY <1>3, <2>1, <2>3, <2>6 DEF Holders
  <2> QED
    BY <1>1, <2>1, <2>7, <2>8, StillExposed
<1>8. ASSUME NEW s \in Sessions, Open(s) PROVE Exposed(n)
  <2>1. PICK k \in Names :
              /\ SessionDirection(s) = dir[k]
              /\ target' = [target EXCEPT ![s] = loc[k]]
              /\ SameDeclarations(pins, pins')
              /\ SameElsewhere(hw, hw', loc[k], loc[k])
    BY <1>8, OpenIs
  <2>2. k # n
    <3> SUFFICES ASSUME k = n PROVE FALSE
      OBVIOUS
    <3>1. s \in Holders(loc, dir, target', n)
      BY <1>3, <2>1 DEF Holders
    <3> QED
      BY <1>2, <3>1
  <2>3. loc[k] # loc[n] /\ target[s] = Closed
    BY <1>8, <2>2 DEF Stable, Open
  <2>4. hw'[loc[n]] = hw[loc[n]]
    BY <1>3, <2>1, <2>3 DEF SameElsewhere
  <2>5. Holders(loc, dir, target, n) = Holders(loc, dir, target', n)
    BY <1>3, <2>1, <2>3 DEF Holders
  <2> QED
    BY <1>1, <2>1, <2>4, <2>5, StillExposed
<1>9. ASSUME NEW s \in Sessions, Close(s) PROVE Exposed(n)
  <2>1. /\ SameDeclarations(pins, pins')
        /\ SameElsewhere(hw, hw', target[s], target[s])
        /\ LastReleases(loc, dir, s, pins, target, hw', target')
        /\ target' = [target EXCEPT ![s] = Closed]
    BY <1>9, CloseIs
  <2>2. pins[n].id # None /\ OnDemand(pins[n]) = TRUE
    BY <1>2, <1>3, <2>1 DEF SameDeclarations, OnDemand
  <2>3. target[s] # loc[n]
    BY <1>2, <2>1, <2>2 DEF LastReleases
  <2>4. hw'[loc[n]] = hw[loc[n]]
    BY <1>3, <2>1, <2>3 DEF SameElsewhere
  <2>5. Holders(loc, dir, target, n) = Holders(loc, dir, target', n)
    BY <1>3, <2>1, <2>3 DEF Holders
  <2> QED
    BY <1>1, <2>1, <2>4, <2>5, StillExposed
<1>10. ASSUME NEW s \in Sessions, NEW level \in Defaults, SetState(s, level) PROVE Exposed(n)
  <2>1. PICK k \in Names :
              /\ s \in Holders(loc, dir, target, k)
              /\ SameElsewhere(hw, hw', loc[k], loc[k])
    BY <1>10, SetStateIs
  <2>2. target' = target /\ pins' = pins
    BY <1>10 DEF SetState
  <2>3. loc[k] # loc[n]
    BY <1>2, <2>1, <2>2 DEF Stable
  <2>4. hw'[loc[n]] = hw[loc[n]]
    BY <1>3, <2>1, <2>3 DEF SameElsewhere
  <2>5. SameDeclarations(pins, pins')
    BY <2>2 DEF SameDeclarations
  <2> QED
    BY <1>1, <2>2, <2>4, <2>5, StillExposed
<1>11. ASSUME NEW c \in Configs, NewConfig(c) PROVE Exposed(n)
  BY <1>4, <1>11 DEF NewConfig
<1>12. CASE Assigned
  BY <1>4, <1>12 DEF Assigned
<1>13. CASE UNCHANGED pioVars
  BY <1>4, <1>13 DEF pioVars
<1> QED
  BY <1>5, <1>6, <1>7, <1>8, <1>9, <1>10, <1>11, <1>12, <1>13 DEF Next

\* A configuration leaves the level of a client alone, and an on-demand pin is
\* driven no longer than its last session exists (update_from_node, release_pin).
THEOREM SessionsAreRespected ==
    ASSUME NEW loc, NEW dir, Stable(loc, dir), Countable
    PROVE  Spec => SessionsRespected
<1>1. IInv(loc, dir) /\ [Next]_pioVars =>
        [\A s \in Sessions, n \in Names : LevelKept(s, n)]_pioVars
  BY LevelIsKept
<1>2. IInv(loc, dir) /\ [Next]_pioVars =>
        [\A n \in Names : Exposed(n)' => Exposed(n) \/ pins[n].default \in Levels]_pioVars
  BY ReleasesOnDemand
<1>3. Spec => [][\A s \in Sessions, n \in Names : LevelKept(s, n)]_pioVars
  BY <1>1, InvariantHolds, PTL DEF Spec
<1>4. Spec => ClientLevelKept
  BY <1>3 DEF ClientLevelKept, LevelKept
<1>5. Spec => OnDemandReleased
  BY <1>2, InvariantHolds, PTL DEF Spec, OnDemandReleased
<1> QED
  BY <1>4, <1>5 DEF SessionsRespected

--------------------------------------------------------------------------------
\* pin_pulse: what the timer is given is in range, for every configuration
PulseInv ==
    /\ RatioInRange
    /\ periods \in Nat \union {Invalid}

\* The step may exceed the whole range
LEMMA StepIsInt == \A n \in Nat : _ratio_step(n) \in Int
<1>1. ASSUME NEW n \in Nat PROVE _ratio_step(n) \in Int
  <2>1. Unit \in Int
        BY UnitAssumption
  <2>   QED BY <2>1 DEF _ratio_step
<1>   QED BY <1>1

\* Whichever edge is next, it leaves ratio and time in range
LEMMA EdgeInRange ==
    ASSUME RatioInRange, NEW n \in Nat \union {Invalid}, HandleTimer(n)
    PROVE  RatioInRange'
<1>1. Unit \in Nat /\ Unit > 0 /\ ratio \in 0 .. Unit /\ delay \in 0 .. Unit
      BY UnitAssumption DEF RatioInRange
<1>2. CASE n = Invalid
      BY <1>2 DEF HandleTimer, RatioInRange
<1>3. CASE n # Invalid /\ signal
  <2>1. ratio' = ratio /\ delay' = Unit - ratio
        BY <1>3 DEF HandleTimer, FallingEdge
  <2>   QED BY <1>1, <2>1 DEF RatioInRange
<1>4. CASE n # Invalid /\ ~signal
  <2>   DEFINE r == ratio + (IF direction = "UP" THEN _ratio_step(n) ELSE -_ratio_step(n))
  <2>1. r \in Int
        BY <1>1, <1>4, StepIsInt
  <2>2. ratio' = (IF r > Unit THEN Unit ELSE IF r < 0 THEN 0 ELSE r) /\ delay' = ratio'
        BY <1>4 DEF HandleTimer, RisingEdge
  <2>   HIDE DEF r
  <2>   QED BY <1>1, <2>1, <2>2 DEF RatioInRange
<1>   QED BY <1>2, <1>3, <1>4

\* Whatever periods are configured, and in whatever phase a configuration comes, the timer
\* of pin_pulse is never given a negative time (pin_pulse/main.cc:112).
THEOREM RatioStaysInRange == PulseSpec => []RatioInRange
<1>1. PulseInit => PulseInv
      BY UnitAssumption DEF PulseInit, PulseInv, RatioInRange
<1>2. PulseInv /\ [PulseNext]_pulseVars => PulseInv'
  <2>   SUFFICES ASSUME PulseInv, [PulseNext]_pulseVars PROVE PulseInv'
        OBVIOUS
  <2>   USE DEF PulseInv
  <2>1. CASE Timeout
    <3>1. CASE periods = Invalid
          BY <2>1, <3>1 DEF Timeout, RatioInRange
    <3>2. CASE periods # Invalid
          BY <2>1, <3>2, EdgeInRange DEF Timeout
    <3>   QED BY <3>1, <3>2
  <2>2. ASSUME NEW c \in PulseConfigs, HandleConfig(c) PROVE PulseInv'
        BY <2>2, EdgeInRange, PulseConfigsAssumption DEF HandleConfig
  <2>3. CASE UNCHANGED pulseVars
        BY <2>3 DEF pulseVars, RatioInRange
  <2>   QED BY <2>1, <2>2, <2>3 DEF PulseNext
<1>3. PulseInv => RatioInRange
      BY DEF PulseInv
<1>   QED BY <1>1, <1>2, <1>3, PTL DEF PulseSpec

================================================================================
