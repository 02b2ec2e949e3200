------------------------------ MODULE GoodixInput ------------------------------
(***************************************************************************)
(* The touchscreen driver: the events of a multi-touch frame are collected *)
(* by input_event; input_mt_sync_frame turns them into the presses, motions *)
(* and releases that Genode's event session needs.  The kernel's goodix    *)
(* driver, which names per frame the slots in use and their positions, is  *)
(* external, and so is the client of the event session.                    *)
(***************************************************************************)
EXTENDS Integers, Sequences, FiniteSets

CONSTANTS
    NumSlots,     \* dev->mt->num_slots
    MaxVals,      \* dev->max_vals
    Positions     \* coordinates

Absent == <<>>   \* no position
NoSlot == -1

Slots == 0 .. NumSlots - 1

\* Events of one touch: slot, x, y
ASSUME InputAssumption ==
    /\ NumSlots \in Nat \ {0} /\ Positions \subseteq Nat /\ 0 \in Positions
    /\ MaxVals \in Nat /\ MaxVals >= 3 * NumSlots

VARIABLES
    frame,     \* touches the hardware has reported: slot |-> <<x, y>> or Absent
    pending,   \* calls of the goodix driver still to come in this frame
    vals,      \* dev->vals, the events collected
    present,   \* MT_KEY_PRESENT_FLAG of the slots
    abs,       \* slot->abs: <<x, y>>
    fingers    \* what the event client knows: slot |-> <<x, y>> or Absent

inputVars == <<frame, pending, vals, present, abs, fingers>>

(* External: goodix_process_events *)

Event(code, value) == [type |-> "EV_ABS", code |-> code, value |-> value]

Touches(f) == {s \in Slots : f[s] # Absent}

\* The touches of a frame, in whatever order the controller lists them
Orders(f) ==
    {order \in [1 .. Cardinality(Touches(f)) -> Touches(f)] :
        \A s \in Touches(f) : \E i \in DOMAIN order : order[i] = s}

\* Three calls for each touch
Calls(f, order) ==
    [i \in 1 .. 3 * Cardinality(Touches(f)) |->
        LET s == order[(i - 1) \div 3 + 1]
        IN  CASE i % 3 = 1 -> Event("SLOT", s)
              [] i % 3 = 2 -> Event("X", f[s][1])
              [] OTHER     -> Event("Y", f[s][2])]

Key  == [type |-> "EV_KEY", code |-> "KEY", value |-> 0]
Sync == [type |-> "SYN", code |-> "SYNC", value |-> 0]

ReportFrame(f, order, key) ==
    /\ pending = <<>> /\ vals = <<>>
    /\ frame' = f
    /\ pending' = (IF key THEN <<Key>> ELSE <<>>) \o Calls(f, order) \o <<Sync>>
    /\ UNCHANGED <<vals, present, abs, fingers>>

(* Driver *)

input_event ==
    /\ pending # <<>> /\ Head(pending) # Sync
    /\ vals' = IF Len(vals) = MaxVals \/ Head(pending).type # "EV_ABS"
               THEN vals ELSE Append(vals, Head(pending))
    /\ pending' = Tail(pending)
    /\ UNCHANGED <<frame, present, abs, fingers>>

\* The slot an event is about: the last one named before, or NoSlot
SlotOf(i) ==
    LET named == {j \in 1 .. i : vals[j].code = "SLOT"}
    IN  IF named = {} THEN NoSlot ELSE vals[CHOOSE j \in named : \A k \in named : k <= j].value

\* Values of a slot, after the events
Captured(s, code, old) ==
    LET given == {i \in DOMAIN vals : SlotOf(i) = s /\ vals[i].code = code}
    IN  IF given = {} THEN old ELSE vals[CHOOSE i \in given : \A j \in given : j <= i].value

\* MT_KEY_UPDATED_FLAG and MT_KEY_CHANGED_FLAG
Updated(s) == \E i \in DOMAIN vals : SlotOf(i) = s /\ vals[i].code # "SLOT"
NewAbs(s)  == <<Captured(s, "X", abs[s][1]), Captured(s, "Y", abs[s][2])>>
Changed(s) == NewAbs(s) # abs[s]

Touch_ChangedOnly(s) == Updated(s) /\ Changed(s)
Touch(s)   == Updated(s) /\ (~present[s] \/ Changed(s))
Release(s) == present[s] /\ ~Updated(s)

\* event_generator
input_mt_sync_frame ==
    /\ pending = <<Sync>>
    /\ pending' = <<>>
    /\ abs' = [s \in Slots |-> NewAbs(s)]
    /\ present' = [s \in Slots |-> Touch(s) \/ (present[s] /\ ~Release(s))]
    /\ fingers' = [s \in Slots |-> IF Touch(s) THEN NewAbs(s)
                                   ELSE IF Release(s) THEN Absent ELSE fingers[s]]
    /\ vals' = <<>>
    /\ UNCHANGED frame

InputInit ==
    /\ frame = [s \in Slots |-> Absent] /\ pending = <<>> /\ vals = <<>>
    /\ present = [s \in Slots |-> FALSE] /\ abs = [s \in Slots |-> <<0, 0>>]
    /\ fingers = frame

InputNext ==
    \/ \E f \in [Slots -> {Absent} \union (Positions \X Positions)], key \in BOOLEAN :
          \E order \in Orders(f) : ReportFrame(f, order, key)
    \/ input_event
    \/ input_mt_sync_frame

InputSpec == InputInit /\ [][InputNext]_inputVars

(* Properties *)

\* Between two frames the client knows exactly the touches of the last one, each at
\* its last position, although only changes are submitted: an unmoved finger stays, a
\* new finger at the place of an earlier one is a press, a missing one is released.
FingersAgree == pending = <<>> => fingers = frame

================================================================================
