----------------------------- MODULE DevicesProof ------------------------------
(***************************************************************************)
(* Proofs about three drivers that share no state:                         *)
(*                                                                         *)
(*   - the power driver never runs the processor too fast for its voltage, *)
(*   - the camera driver never lets the GUI server show a torn picture,    *)
(*   - the client of the touchscreen driver knows the fingers that touch.  *)
(***************************************************************************)
EXTENDS PowerMain, Camera, GoodixInput, FiniteSetTheorems, SequenceTheorems, TLAPS

(***************************************************************************)
(* The power driver.  What is left of the handler's register writes is     *)
(* compatible with what the board was programmed to.                       *)
(***************************************************************************)
Clocks == {"fast", "slow"}

Voltages == {"high", "mid", "low"}

Steps ==
    Clocks \union Voltages \union
    {"reset", "off", "brightness", "report", "report_now", "read_pok", "clear_pok",
     "clear_pmic_irqs", "ack", "power_info", "limit", "gauge"}

\* The step at a place may be executed after those before it
Follows(s, i) ==
    /\ s[i] = "fast" => s[i - 1] = "high"
    /\ s[i] = "mid"  => s[i - 1] = "slow"
    /\ s[i] = "low"  => s[i - 1] = "mid"

\* The first step of a list needs no other step before it
Unconditional(step) == step \notin {"fast", "mid", "low"}

\* Lists of steps that are compatible whatever was executed before
Compatible(s) ==
    \A i \in 1 .. Len(s) : IF i = 1 THEN Unconditional(s[1]) ELSE Follows(s, i)

\* The first of the remaining steps may be executed now
HeadAllowed(step, b) ==
    /\ step = "fast" => b.voltage = "high"
    /\ step \in {"mid", "low"} => b.clock # "fast"

TypeInv ==
    /\ todo \in Seq(Steps)
    /\ board \in [power : {"running", "reset", "off"}, clock : Clocks, voltage : Voltages]

TodoInv(s, b) ==
    \A i \in 1 .. Len(s) : IF i = 1 THEN HeadAllowed(s[1], b) ELSE Follows(s, i)

PowerInv == TypeInv /\ TodoInv(todo, board) /\ FastNeedsVoltage

-------------------------------------------------------------------------------

LEMMA CompatibleConcat ==
    ASSUME NEW s \in Seq(Steps), NEW t \in Seq(Steps), Compatible(s), Compatible(t)
    PROVE  Compatible(s \o t) /\ s \o t \in Seq(Steps)
<1>1. s \o t \in Seq(Steps)
      OBVIOUS
<1>2. ASSUME NEW i \in 1 .. Len(s \o t)
      PROVE  IF i = 1 THEN Unconditional((s \o t)[1]) ELSE Follows(s \o t, i)
  <2>0. Len(s \o t) = Len(s) + Len(t) /\ Len(s) \in Nat /\ Len(t) \in Nat
        OBVIOUS
  <2>1. CASE i <= Len(s)
    <3>1. (s \o t)[i] = s[i] /\ (i > 1 => (s \o t)[i - 1] = s[i - 1])
          BY <2>0, <2>1
    <3>2. IF i = 1 THEN Unconditional(s[1]) ELSE Follows(s, i)
          BY <2>0, <2>1 DEF Compatible
    <3>   QED BY <2>0, <3>1, <3>2 DEF Follows, Unconditional
  <2>2. CASE i > Len(s)
    <3>   DEFINE j == i - Len(s)
    <3>1. j \in 1 .. Len(t) /\ (s \o t)[i] = t[j]
          BY <2>0, <2>2
    <3>2. CASE j = 1
          BY <2>0, <3>1, <3>2 DEF Compatible, Unconditional, Follows
    <3>3. CASE j # 1
      <4>1. i # 1 /\ (s \o t)[i - 1] = t[j - 1]
            BY <2>0, <2>2, <3>1, <3>3
      <4>   QED BY <3>1, <3>3, <4>1 DEF Compatible, Follows
    <3>   QED BY <3>2, <3>3
  <2>   QED BY <2>0, <2>1, <2>2
<1>   QED BY <1>1, <1>2 DEF Compatible

LEMMA StepsCompatible ==
    ASSUME NEW state, NEW profile
    PROVE  /\ Compatible(PowerSteps(state)) /\ PowerSteps(state) \in Seq(Steps)
           /\ Compatible(ProfileSteps(profile)) /\ ProfileSteps(profile) \in Seq(Steps)
           /\ Compatible(<<"brightness", "report">>)
           /\ <<"brightness", "report">> \in Seq(Steps)
           /\ Compatible(<<>>) /\ <<>> \in Seq(Steps)
<1>   DEFINE Both(s) == Compatible(s) /\ s \in Seq(Steps)
<1>1. Both(<<>>)
      BY DEF Compatible
<1>2. Both(<<"reset">>) /\ Both(<<"off">>)
      BY DEF Compatible, Unconditional, Steps
<1>3. Both(<<"high", "fast">>) /\ Both(<<"brightness", "report">>)
  <2>1. ASSUME NEW a, NEW b, Unconditional(a), a \in Steps, b \in Steps,
               Unconditional(b) \/ (a = "high" /\ b = "fast")
        PROVE  Both(<<a, b>>)
    <3>   DEFINE s == <<a, b>>
    <3>1. Len(s) = 2 /\ s[1] = a /\ s[2] = b /\ s \in Seq(Steps)
          BY <2>1
    <3>   HIDE DEF s
    <3>2. \A i \in 1 .. 2 : i = 1 \/ (i = 2 /\ i - 1 = 1)
          OBVIOUS
    <3>3. Compatible(s)
          BY <2>1, <3>1, <3>2 DEF Compatible, Unconditional, Follows
    <3>   QED BY <3>1, <3>3 DEF s
  <2>2. {"high", "fast", "brightness", "report"} \subseteq Steps
        BY DEF Steps, Clocks, Voltages
  <2>   QED BY <2>1, <2>2 DEF Unconditional
<1>4. Both(<<"slow", "mid", "low">>)
  <2>   DEFINE s == <<"slow", "mid", "low">>
  <2>0. {"slow", "mid", "low"} \subseteq Steps
        BY DEF Steps, Clocks, Voltages
  <2>1. Len(s) = 3 /\ s[1] = "slow" /\ s[2] = "mid" /\ s[3] = "low" /\ s \in Seq(Steps)
        BY <2>0
  <2>   HIDE DEF s
  <2>2. \A i \in 1 .. 3 : i = 1 \/ (i = 2 /\ i - 1 = 1) \/ (i = 3 /\ i - 1 = 2)
        OBVIOUS
  <2>3. Compatible(s)
        BY <2>1, <2>2 DEF Compatible, Unconditional, Follows
  <2>   QED BY <2>1, <2>3 DEF s
<1>5. Both(PowerSteps(state))
      BY <1>1, <1>2 DEF PowerSteps
<1>6. Both(ProfileSteps(profile))
      BY <1>1, <1>3, <1>4 DEF ProfileSteps
<1>   QED BY <1>1, <1>3, <1>5, <1>6

LEMMA UnconditionalCompatible ==
    ASSUME NEW s \in Seq(Steps), \A i \in 1 .. Len(s) : Unconditional(s[i])
    PROVE  Compatible(s)
BY DEF Compatible, Unconditional, Follows

LEMMA CompatibleAllowed ==
    ASSUME NEW s \in Seq(Steps), NEW b, Compatible(s)
    PROVE  TodoInv(s, b)
BY DEF Compatible, TodoInv, Unconditional, HeadAllowed

\* After a step whose successors do not wait for it, the rest may go on
LEMMA TailAllowed ==
    ASSUME NEW s \in Seq(Steps), s # <<>>, NEW b, NEW c, TodoInv(s, b),
           Len(s) > 1 => (Follows(s, 2) => HeadAllowed(s[2], c))
    PROVE  TodoInv(Tail(s), c) /\ Tail(s) \in Seq(Steps)
<1>1. /\ Tail(s) \in Seq(Steps) /\ Len(Tail(s)) = Len(s) - 1 /\ Len(s) \in Nat
      /\ \A i \in 1 .. Len(Tail(s)) : Tail(s)[i] = s[i + 1]
      BY HeadTailProperties
<1>2. ASSUME NEW i \in 1 .. Len(Tail(s))
      PROVE  IF i = 1 THEN HeadAllowed(Tail(s)[1], c) ELSE Follows(Tail(s), i)
  <2>1. Follows(s, i + 1) /\ i + 1 \in 1 .. Len(s)
        BY <1>1 DEF TodoInv
  <2>2. CASE i = 1
        BY <1>1, <2>1, <2>2
  <2>3. CASE i # 1
    <3>1. Tail(s)[i] = s[i + 1] /\ Tail(s)[i - 1] = s[(i + 1) - 1]
          BY <1>1, <2>3
    <3>   QED BY <2>1, <2>3, <3>1 DEF Follows
  <2>   QED BY <2>2, <2>3
<1>   QED BY <1>1, <1>2 DEF TodoInv

-------------------------------------------------------------------------------

LEMMA InitInv == PowerInit => PowerInv
<1>   SUFFICES ASSUME PowerInit PROVE PowerInv
      OBVIOUS
<1>1. todo = <<>> /\ board = [power |-> "running", clock |-> "slow", voltage |-> "mid"]
      BY DEF PowerInit
<1>2. TypeInv /\ FastNeedsVoltage
      BY <1>1 DEF TypeInv, FastNeedsVoltage, Clocks, Voltages
<1>3. TodoInv(todo, board)
      BY <1>1 DEF TodoInv
<1>   QED BY <1>2, <1>3 DEF PowerInv

LEMMA ConfigInv == PowerInv /\ HandleConfig => PowerInv'
<1>   SUFFICES ASSUME PowerInv, HandleConfig PROVE PowerInv'
      OBVIOUS
<1>   DEFINE power == PowerSteps(system.state)
             profile == IF system.profile # main.profile THEN ProfileSteps(system.profile)
                        ELSE <<>>
             brightness == IF system.brightness # main.brightness
                           THEN <<"brightness", "report">> ELSE <<>>
<1>1. CASE ~configured
      BY <1>1 DEF HandleConfig, PowerInv, TypeInv, TodoInv, FastNeedsVoltage
<1>2. CASE configured
  <2>1. todo' = power \o profile \o brightness /\ board' = board
        BY <1>2 DEF HandleConfig, ApplySystem
  <2>2. /\ Compatible(power) /\ power \in Seq(Steps)
        /\ Compatible(profile) /\ profile \in Seq(Steps)
        /\ Compatible(brightness) /\ brightness \in Seq(Steps)
        BY StepsCompatible
  <2>   HIDE DEF power, profile, brightness
  <2>3. Compatible(power \o profile) /\ power \o profile \in Seq(Steps)
        BY <2>2, CompatibleConcat
  <2>4. Compatible(todo') /\ todo' \in Seq(Steps)
        BY <2>1, <2>2, <2>3, CompatibleConcat
  <2>5. TodoInv(todo', board')
        BY <2>4, CompatibleAllowed
  <2>   QED BY <2>1, <2>4, <2>5 DEF PowerInv, TypeInv, FastNeedsVoltage, TodoInv
<1>   QED BY <1>1, <1>2

LEMMA StepInv == PowerInv /\ Step => PowerInv'
<1>   SUFFICES ASSUME PowerInv, Step PROVE PowerInv'
      OBVIOUS
<1>1. todo \in Seq(Steps) /\ todo # <<>> /\ TodoInv(todo, board)
      BY DEF Step, Idle, PowerInv, TypeInv
<1>2. Head(todo) = todo[1] /\ Len(todo) \in Nat /\ Len(todo) > 0
      BY <1>1, EmptySeq
<1>3. HeadAllowed(Head(todo), board)
      BY <1>1, <1>2 DEF TodoInv
<1>4. CASE ReadPok
  <2>1. board' = board
        BY <1>4 DEF ReadPok
  <2>2. /\ todo' \in Seq(Steps) /\ TodoInv(todo', board)
    <3>1. /\ Tail(todo) \in Seq(Steps) /\ TodoInv(Tail(todo), board)
      <4>1. todo[1] = "read_pok"
            BY <1>2, <1>4 DEF ReadPok
      <4>2. Follows(todo, 2) => HeadAllowed(todo[2], board)
            BY <4>1 DEF Follows, HeadAllowed
      <4>   QED BY <1>1, <4>2, TailAllowed
    <3>   DEFINE s == <<"clear_pok">> \o Tail(todo)
    <3>2. CASE todo' = Tail(todo)
          BY <3>1, <3>2
    <3>3. CASE todo' = s
      <4>1. /\ s \in Seq(Steps) /\ Len(s) = Len(todo) /\ s[1] = "clear_pok"
            /\ \A i \in 2 .. Len(s) : s[i] = todo[i]
        <5>1. /\ Tail(todo) \in Seq(Steps) /\ Len(Tail(todo)) = Len(todo) - 1
              /\ \A i \in 1 .. Len(Tail(todo)) : Tail(todo)[i] = todo[i + 1]
              BY <1>1, HeadTailProperties
        <5>2. s \in Seq(Steps) /\ Len(s) = 1 + Len(Tail(todo)) /\ s[1] = "clear_pok"
              BY <5>1 DEF Steps
        <5>3. \A i \in 1 .. Len(Tail(todo)) : s[i + 1] = Tail(todo)[i]
              BY <5>1
        <5>   HIDE DEF s
        <5>4. ASSUME NEW i \in 2 .. Len(s) PROVE s[i] = todo[i]
          <6>1. i - 1 \in 1 .. Len(Tail(todo)) /\ (i - 1) + 1 = i
                BY <1>2, <5>1, <5>2, <5>4
          <6>   QED BY <5>1, <5>3, <6>1
        <5>   QED BY <1>2, <5>1, <5>2, <5>4
      <4>   HIDE DEF s
      <4>2. ASSUME NEW i \in 2 .. Len(s) PROVE Follows(s, i)
        <5>1. Follows(todo, i) /\ s[i] = todo[i]
              BY <1>1, <1>2, <4>1, <4>2 DEF TodoInv
        <5>2. CASE i = 2
              BY <1>2, <1>4, <5>1, <5>2 DEF ReadPok, Follows
        <5>3. CASE i # 2
          <6>1. s[i - 1] = todo[i - 1]
                BY <4>1, <4>2, <5>3
          <6>   QED BY <5>1, <6>1 DEF Follows
        <5>   QED BY <5>2, <5>3
      <4>3. TodoInv(s, board)
            BY <4>1, <4>2, <1>2 DEF TodoInv, HeadAllowed
      <4>   QED BY <3>3, <4>1, <4>3
    <3>   QED BY <1>4, <3>2, <3>3 DEF ReadPok
  <2>   QED BY <2>1, <2>2 DEF PowerInv, TypeInv, FastNeedsVoltage, TodoInv
<1>5. CASE ClearPok \/ ClearPmicIrqs \/ Ack \/ UpdateReport \/ PowerInfo \/ RaiseLimit
           \/ EnableGauge \/ WriteBrightness
  <2>1. /\ todo' = Tail(todo) /\ board' = board
        /\ Head(todo) \notin {"high", "slow", "mid"}
        BY <1>5 DEF ClearPok, ClearPmicIrqs, Ack, UpdateReport, PowerInfo, RaiseLimit,
                    EnableGauge, WriteBrightness
  <2>2. Tail(todo) \in Seq(Steps) /\ TodoInv(Tail(todo), board)
    <3>1. Follows(todo, 2) => HeadAllowed(todo[2], board)
          BY <1>2, <2>1 DEF Follows, HeadAllowed
    <3>   QED BY <1>1, <3>1, TailAllowed
  <2>   QED BY <2>1, <2>2 DEF PowerInv, TypeInv, FastNeedsVoltage, TodoInv
<1>6. CASE WriteBoard
  <2>   DEFINE r == Register(Head(todo))
  <2>1. /\ todo' = Tail(todo) /\ board' = [board EXCEPT ![r] = Head(todo)]
        /\ r # "none" /\ Head(todo) \in Steps
        BY <1>1, <1>2, <1>6 DEF WriteBoard
  <2>2. r \in {"power", "clock", "voltage"}
        BY <2>1 DEF Register
  <2>3. /\ (r = "power")   = (Head(todo) \in {"reset", "off"})
        /\ (r = "clock")   = (Head(todo) \in {"fast", "slow"})
        /\ (r = "voltage") = (Head(todo) \in {"high", "mid", "low"})
        BY <2>2 DEF Register
  <2>   HIDE DEF r
  <2>4. /\ board' \in [power : {"running", "reset", "off"}, clock : Clocks, voltage : Voltages]
        /\ board'.clock = IF r = "clock" THEN Head(todo) ELSE board.clock
        /\ board'.voltage = IF r = "voltage" THEN Head(todo) ELSE board.voltage
        BY <2>1, <2>2, <2>3 DEF PowerInv, TypeInv, Clocks, Voltages
  <2>5. board'.clock = "fast" => board'.voltage = "high"
        BY <1>3, <2>3, <2>4 DEF HeadAllowed, PowerInv, FastNeedsVoltage
  <2>6. Len(todo) > 1 => (Follows(todo, 2) => HeadAllowed(todo[2], board'))
        BY <1>2, <1>3, <2>3, <2>4 DEF HeadAllowed, Follows
  <2>7. Tail(todo) \in Seq(Steps) /\ TodoInv(Tail(todo), board')
        BY <1>1, <2>6, TailAllowed
  <2>   QED BY <2>1, <2>4, <2>5, <2>7 DEF PowerInv, TypeInv, FastNeedsVoltage, TodoInv
<1>   QED BY <1>4, <1>5, <1>6 DEF Step

LEMMA NextInv == PowerInv /\ [PowerNext]_powerVars => PowerInv'
<1>   SUFFICES ASSUME PowerInv, [PowerNext]_powerVars PROVE PowerInv'
      OBVIOUS
<1>1. CASE PlugOrUnplug \/ StartCharging \/ ShortPress \/ SignalRintc \/ SetConfigured
           \/ \E s \in Systems : SetSystem(s)
      BY <1>1 DEF PlugOrUnplug, StartCharging, ShortPress, SignalRintc, SetConfigured,
                  SetSystem, PowerInv, TypeInv, TodoInv, FastNeedsVoltage
<1>2. CASE HandleRintc
  <2>1. /\ todo' = <<"read_pok", "clear_pmic_irqs", "ack", "report_now">> /\ board' = board
        BY <1>2 DEF HandleRintc
  <2>2. todo' \in Seq(Steps) /\ Compatible(todo')
    <3>0. {"read_pok", "clear_pmic_irqs", "ack", "report_now"} \subseteq Steps
          BY DEF Steps
    <3>1. /\ todo' \in Seq(Steps) /\ Len(todo') = 4
          /\ todo'[1] = "read_pok" /\ todo'[2] = "clear_pmic_irqs"
          /\ todo'[3] = "ack" /\ todo'[4] = "report_now"
          BY <2>1, <3>0
    <3>2. \A i \in 1 .. 4 : i = 1 \/ i = 2 \/ i = 3 \/ i = 4
          OBVIOUS
    <3>3. \A i \in 1 .. Len(todo') : Unconditional(todo'[i])
          BY <3>1, <3>2 DEF Unconditional
    <3>   QED BY <3>1, <3>3, UnconditionalCompatible
  <2>3. TodoInv(todo', board')
        BY <2>2, CompatibleAllowed
  <2>   QED BY <2>1, <2>2, <2>3 DEF PowerInv, TypeInv, FastNeedsVoltage, TodoInv
<1>3. CASE HandlePollTimer
  <2>1. /\ todo' = <<"power_info", "report", "limit", "gauge">> /\ board' = board
        BY <1>3 DEF HandlePollTimer
  <2>2. todo' \in Seq(Steps) /\ Compatible(todo')
    <3>0. {"power_info", "report", "limit", "gauge"} \subseteq Steps
          BY DEF Steps
    <3>1. /\ todo' \in Seq(Steps) /\ Len(todo') = 4
          /\ todo'[1] = "power_info" /\ todo'[2] = "report"
          /\ todo'[3] = "limit" /\ todo'[4] = "gauge"
          BY <2>1, <3>0
    <3>2. \A i \in 1 .. 4 : i = 1 \/ i = 2 \/ i = 3 \/ i = 4
          OBVIOUS
    <3>3. \A i \in 1 .. Len(todo') : Unconditional(todo'[i])
          BY <3>1, <3>2 DEF Unconditional
    <3>   QED BY <3>1, <3>3, UnconditionalCompatible
  <2>3. TodoInv(todo', board')
        BY <2>2, CompatibleAllowed
  <2>   QED BY <2>1, <2>2, <2>3 DEF PowerInv, TypeInv, FastNeedsVoltage, TodoInv
<1>4. CASE HandleConfig
      BY <1>4, ConfigInv
<1>5. CASE Step
      BY <1>5, StepInv
<1>6. CASE UNCHANGED powerVars
      BY <1>6 DEF powerVars, PowerInv, TypeInv, TodoInv, FastNeedsVoltage
<1>   QED BY <1>1, <1>2, <1>3, <1>4, <1>5, <1>6 DEF PowerNext

\* Whatever settings follow each other, and whichever handlers run in between, the
\* processor is at the high frequency only while the voltage is increased: each
\* step of a list of register writes stands behind the one it needs.
THEOREM VoltageSufficient == PowerSpec => []FastNeedsVoltage
<1>1. PowerSpec => []PowerInv
      BY InitInv, NextInv, PTL DEF PowerSpec
<1>   QED BY <1>1, PTL DEF PowerInv

-------------------------------------------------------------------------------
(***************************************************************************)
(* The camera driver.  The buffers the driver works on exist, because the  *)
(* setup queues exactly num_buffer of them.  Of the two halves of the GUI  *)
(* buffer the one the view shows holds the frame last shown; the other one *)
(* holds, down to the line reached, the frame that is being painted.       *)
(***************************************************************************)
BufferSet == 0 .. MAX_BUFFER - 1

Configurations ==
    [width : 1 .. MAX_WIDTH, height : 1 .. MAX_HEIGHT, num_buffer : 1 .. MAX_BUFFER,
     skip_frames : Int, rotate : BOOLEAN]

Operations ==
    {"topology", "rear link", "front link", "open capture", "open bridge", "capabilities",
     "open sensor", "frame interval", "sensor format", "bridge format", "capture format",
     "request buffers", "map buffer", "queue buffer"}

CameraTypeInv ==
    /\ pc \in {"start", "devices", "setup", "stream on", "get", "swap", "paint", "put",
               "stream off", "dead", "fault"}
    /\ lx_config \in Configurations \union {NoRom}
    /\ pc \notin {"start", "dead"} => lx_config \in Configurations
    /\ queued \in Seq(BufferSet) /\ filled \in Seq(BufferSet)
    /\ memory \in [BufferSet -> Nat] /\ cache \in [BufferSet -> Nat]
    /\ next \in Nat
    /\ pc \in {"swap", "paint", "put"} => held \in BufferSet
    /\ viewFlip \in BOOLEAN
    /\ line \in Nat

SetupInv ==
    LET n == lx_config.num_buffer
    IN  /\ pc \in {"start", "devices"} => queued = <<>>
        /\ pc = "setup" =>
             /\ ioctls \in Seq(Operations)
             /\ \A i \in 1 .. Len(ioctls) : ioctls[i] = "queue buffer" <=> i > Len(ioctls) - n
             /\ Len(queued) = IF Len(ioctls) > n THEN 0 ELSE n - Len(ioctls)

Part(start, n, f) ==
    \A l \in 0 .. n - 1, h \in 0 .. lx_config.height - 1 :
        gui[start + l * lx_config.height + h].frame = f

Half(flip) == IF flip THEN Pixels ELSE 0

FirstView  == <<0, 0>>
SecondView == <<0, lx_config.width>>
ShownHalf == IF offset = FirstView THEN 0 ELSE Pixels

Prologue == {"start", "devices", "setup"}

BeforeGui ==
    /\ pc \in Prologue \union {"dead", "fault"}
    /\ gui = <<>> /\ offset = FirstView /\ viewFlip = TRUE
    /\ painting = Blank /\ shown = Blank

ViewInv ==
    /\ DOMAIN gui = 0 .. 2 * Pixels - 1
    /\ lx_config \in Configurations
    /\ lx_config.rotate =>
        /\ offset \in {FirstView, SecondView}
        /\ Part(ShownHalf, lx_config.width, shown)
        /\ pc # "paint" => Part(Half(~viewFlip), lx_config.width, painting)
        /\ pc = "paint" =>
             /\ line <= lx_config.width
             /\ ShownHalf = Half(~viewFlip)
             /\ Part(Half(viewFlip), line, painting)
             /\ cache[held] = painting

GuiInv == BeforeGui \/ (pc \notin Prologue /\ ViewInv)

CameraInv == CameraTypeInv /\ SetupInv /\ GuiInv

\* A pixel of a picture lies within the half it is painted to
LEMMA PixelWithin ==
    ASSUME NEW w \in Nat, NEW h \in Nat, NEW l \in 0 .. w - 1, NEW x \in 0 .. h - 1
    PROVE  /\ l * h + x \in 0 .. w * h - 1
           /\ w * h \in Nat
<1>1. (l + 1) * h + (w - (l + 1)) * h = w * h
      OBVIOUS
<1>2. (w - (l + 1)) * h >= 0 /\ l * h >= 0
      OBVIOUS
<1>3. (l + 1) * h = l * h + h
      OBVIOUS
<1>4. /\ l * h \in Nat /\ w * h \in Nat /\ (l + 1) * h \in Nat /\ (w - (l + 1)) * h \in Nat
      OBVIOUS
<1>5. (l + 1) * h <= w * h
      BY <1>1, <1>2, <1>4
<1>   QED BY <1>2, <1>3, <1>4, <1>5

LEMMA ConstrainedConfig ==
    ASSUME NEW rom \in CameraRoms, rom # NoRom
    PROVE  Constrained(rom) \in Configurations
<1>1. /\ rom.width \in Int /\ rom.height \in Int /\ rom.fps \in Int /\ rom.num_buffer \in Int
      /\ rom.skip_frames \in Int /\ rom.rotate \in BOOLEAN
      BY RomsAssumption
<1>   DEFINE w == check_and_constrain_value(rom.width, MIN_WIDTH, MAX_WIDTH)
             h == check_and_constrain_value(rom.height, MIN_HEIGHT, MAX_HEIGHT)
             n == check_and_constrain_value(rom.num_buffer, MIN_BUFFER, MAX_BUFFER)
             f == check_and_constrain_value(rom.fps, MIN_FPS, MAX_FPS)
             s == check_and_constrain_value(rom.skip_frames, 0, f)
<1>2. w \in 1 .. MAX_WIDTH
      BY <1>1, CameraLimits DEF check_and_constrain_value
<1>3. h \in 1 .. MAX_HEIGHT
      BY <1>1, CameraLimits DEF check_and_constrain_value
<1>4. n \in 1 .. MAX_BUFFER
      BY <1>1, CameraLimits DEF check_and_constrain_value
<1>5. f \in 1 .. MAX_FPS
      BY <1>1, CameraLimits DEF check_and_constrain_value
<1>   HIDE DEF f
<1>6. s \in Int
      BY <1>1, <1>5 DEF check_and_constrain_value
<1>   HIDE DEF w, h, n, s
<1>7. Constrained(rom) = [width |-> w, height |-> h, num_buffer |-> n, skip_frames |-> s,
                          rotate |-> rom.rotate]
      BY DEF Constrained, w, h, n, s, f
<1>   QED BY <1>1, <1>2, <1>3, <1>4, <1>6, <1>7 DEF Configurations

-------------------------------------------------------------------------------

Others == Operations \ {"queue buffer"}

\* The operations of the setup: the buffers are queued at the end
LEMMA SetupShape ==
    ASSUME NEW n \in Nat \ {0}
    PROVE  /\ Setup(n) \in Seq(Operations)
           /\ Len(Setup(n)) > n
           /\ \A i \in 1 .. Len(Setup(n)) :
                 Setup(n)[i] = "queue buffer" <=> i > Len(Setup(n)) - n
<1>1. _configure_capture \in Seq(Others)
  <2>1. /\ _query_media_device \in Seq(Others) /\ _setup_link \in Seq(Others)
        BY DEF _query_media_device, _setup_link, Operations, Others
  <2>2. /\ _open_video_device \in Seq(Others) /\ _query_video_device \in Seq(Others)
        BY DEF _open_video_device, _query_video_device, Operations, Others
  <2>3. _setup_subdev_fmt \in Seq(Others)
        BY DEF _setup_subdev_fmt, Operations, Others
  <2>4. _setup_video_fmt \in Seq(Others)
        BY DEF _setup_video_fmt, Operations, Others
  <2>5. _query_media_device \o _setup_link \o _open_video_device \in Seq(Others)
        BY <2>1, <2>2
  <2>6. _query_media_device \o _setup_link \o _open_video_device \o _query_video_device
            \in Seq(Others)
        BY <2>2, <2>5
  <2>   QED BY <2>3, <2>4, <2>6 DEF _configure_capture
<1>2. _request_buffers(n) \in Seq(Others) /\ Len(_request_buffers(n)) >= 1
  <2>   DEFINE maps == [i \in 1 .. n |-> "map buffer"]
               request == <<"request buffers">>
  <2>1. maps \in Seq(Others)
        BY DEF Operations, Others
  <2>2. request \in Seq(Others) /\ Len(request) = 1
        BY DEF Operations, Others
  <2>   HIDE DEF maps, request
  <2>3. Len(maps) \in Nat
        BY <2>1
  <2>4. request \o maps \in Seq(Others) /\ Len(request \o maps) = Len(request) + Len(maps)
        BY <2>1, <2>2, ConcatProperties
  <2>5. _request_buffers(n) = request \o maps
        BY Zenon DEF _request_buffers, maps, request
  <2>   QED BY <2>2, <2>3, <2>4, <2>5
<1>   DEFINE first == _configure_capture \o _request_buffers(n)
<1>3. first \in Seq(Others) /\ Len(first) >= 1
      BY <1>1, <1>2
<1>   HIDE DEF first
<1>4. /\ _queue_buffers(n) \in Seq(Operations) /\ Len(_queue_buffers(n)) = n
      /\ \A i \in 1 .. n : _queue_buffers(n)[i] = "queue buffer"
  <2>1. [i \in 1 .. n |-> "queue buffer"] \in Seq(Operations)
        BY DEF Operations
  <2>2. Len([i \in 1 .. n |-> "queue buffer"]) = n
        OBVIOUS
  <2>   QED BY <2>1, <2>2 DEF _queue_buffers
<1>5. Setup(n) = first \o _queue_buffers(n)
      BY DEF Setup, first
<1>6. first \in Seq(Operations) /\ Len(first) \in Nat
  <2>1. Others \subseteq Operations
        BY DEF Others
  <2>   QED BY <1>3, <2>1, SeqMonotonic
<1>7. \A i \in 1 .. Len(first) : first[i] # "queue buffer"
  <2>1. \A i \in 1 .. Len(first) : first[i] \in Others
        BY <1>3
  <2>   QED BY <2>1 DEF Others
<1>   DEFINE queues == _queue_buffers(n)
<1>   HIDE DEF queues
<1>8. /\ Setup(n) \in Seq(Operations) /\ Len(Setup(n)) = Len(first) + n
      /\ \A i \in 1 .. Len(first) + n :
            Setup(n)[i] = IF i <= Len(first) THEN first[i] ELSE queues[i - Len(first)]
  <2>1. queues \in Seq(Operations) /\ Len(queues) = n
        BY <1>4 DEF queues
  <2>2. Setup(n) = first \o queues
        BY <1>5 DEF queues
  <2>3. /\ first \o queues \in Seq(Operations) /\ Len(first \o queues) = Len(first) + Len(queues)
        /\ \A i \in 1 .. Len(first) + Len(queues) :
              (first \o queues)[i] = IF i <= Len(first) THEN first[i] ELSE queues[i - Len(first)]
        BY <1>6, <2>1, ConcatProperties, Zenon
  <2>   QED BY <2>1, <2>2, <2>3, Zenon
<1>   DEFINE setup == Setup(n)
<1>   HIDE DEF setup
<1>9. /\ setup \in Seq(Operations) /\ Len(setup) = Len(first) + n
      /\ \A i \in 1 .. Len(first) + n :
            setup[i] = IF i <= Len(first) THEN first[i] ELSE queues[i - Len(first)]
      BY <1>8, Zenon DEF setup
<1>10. \A i \in 1 .. n : queues[i] = "queue buffer"
      BY <1>4, Zenon DEF queues
<1>11. ASSUME NEW i \in 1 .. Len(setup)
       PROVE  setup[i] = "queue buffer" <=> i > Len(setup) - n
  <2>1. CASE i <= Len(first)
    <3>1. i \in 1 .. Len(first) /\ i \in 1 .. Len(first) + n
          BY <1>6, <1>9, <2>1
    <3>2. setup[i] = first[i]
          BY <1>9, <2>1, <3>1
    <3>3. ~(i > Len(setup) - n)
          BY <1>6, <1>9, <2>1, <3>1
    <3>   QED BY <1>7, <3>1, <3>2, <3>3
  <2>2. CASE i > Len(first)
    <3>1. i - Len(first) \in 1 .. n
          BY <1>6, <1>9, <2>2
    <3>2. setup[i] = queues[i - Len(first)]
          BY <1>6, <1>9, <2>2
    <3>3. i > Len(setup) - n
          BY <1>6, <1>9, <2>2, <3>1
    <3>   QED BY <1>10, <3>1, <3>2, <3>3
  <2>3. i <= Len(first) \/ i > Len(first)
        BY <1>6, <1>9
  <2>   QED BY <2>1, <2>2, <2>3
<1>12. Len(setup) > n
      BY <1>3, <1>6, <1>9
<1>   QED BY <1>9, <1>11, <1>12 DEF setup

-------------------------------------------------------------------------------

LEMMA CameraInitInv == CameraInit => CameraInv
<1>   SUFFICES ASSUME CameraInit PROVE CameraInv
      OBVIOUS
<1>1. /\ pc = "start" /\ ioctls = <<>> /\ queued = <<>> /\ filled = <<>>
      /\ memory = [b \in 0 .. MAX_BUFFER - 1 |-> Blank] /\ cache = memory
      /\ next = 1 /\ line = 0 /\ viewFlip = TRUE /\ offset = <<0, 0>> /\ gui = <<>>
      /\ painting = Blank /\ shown = Blank
      BY DEF CameraInit
<1>2. lx_config \in Configurations \union {NoRom}
      BY ConstrainedConfig DEF CameraInit
<1>3. CameraTypeInv
      BY <1>1, <1>2 DEF CameraTypeInv, BufferSet, Blank
<1>4. SetupInv
      BY <1>1 DEF SetupInv
<1>5. BeforeGui
      BY <1>1 DEF BeforeGui, FirstView, Prologue
<1>   QED BY <1>3, <1>4, <1>5 DEF CameraInv, GuiInv

ViewKept == UNCHANGED <<lx_config, viewFlip, offset, gui, painting, shown>>

\* Steps that leave the view alone
LEMMA ViewStays ==
    ASSUME ViewKept, GuiInv, pc # "paint", pc' # "paint",
           \/ pc \in Prologue /\ pc' \in Prologue \union {"dead", "fault"}
           \/ pc \notin Prologue \union {"dead", "fault"} /\ pc' \notin Prologue
    PROVE  GuiInv'
<1>1. CASE pc \in Prologue
  <2>1. BeforeGui
        BY <1>1 DEF GuiInv
  <2>   QED BY <1>1, <2>1 DEF ViewKept, BeforeGui, GuiInv, FirstView
<1>2. CASE pc \notin Prologue
  <2>1. ViewInv
        BY <1>2 DEF GuiInv, BeforeGui
  <2>2. ViewInv'
        BY <2>1 DEF ViewKept, ViewInv, Part, Half, ShownHalf, FirstView, SecondView, Pixels
  <2>   QED BY <1>2, <2>2 DEF GuiInv
<1>   QED BY <1>1, <1>2

LEMMA CheckInv ==
    CameraInv /\ (CheckConfig \/ \E asked \in {"all", "missing", "no video0"} : setup_camera(asked))
        => CameraInv'
<1>0. SUFFICES ASSUME CameraInv,
                      CheckConfig \/ \E asked \in {"all", "missing", "no video0"} :
                                        setup_camera(asked)
      PROVE  CameraInv'
      OBVIOUS
<1>1. CASE CheckConfig
  <2>1. /\ pc = "start" /\ pc' \in {"devices", "dead"} /\ (pc' = "devices" => lx_config # NoRom)
        /\ UNCHANGED <<lx_config, ioctls, queued, filled, memory, cache, next, held, lost,
                       viewFlip, skipCount, offset, gui, line, painting, shown>>
        BY <1>0, <1>1 DEF CheckConfig, idle, sleep_forever
  <2>2. CameraTypeInv'
        BY <1>0, <2>1 DEF CameraInv, CameraTypeInv
  <2>3. SetupInv'
        BY <1>0, <2>1 DEF CameraInv, SetupInv
  <2>4. GuiInv'
        BY <1>0, <2>1, ViewStays DEF CameraInv, ViewKept, Prologue
  <2>   QED BY <2>2, <2>3, <2>4 DEF CameraInv
<1>2. CASE \E asked \in {"all", "missing", "no video0"} : setup_camera(asked)
  <2>1. /\ pc = "devices" /\ pc' \in {"setup", "dead", "fault"}
        /\ pc' = "setup" => ioctls' = Setup(lx_config.num_buffer)
        /\ UNCHANGED <<lx_config, queued, filled, memory, cache, next, held, lost,
                       viewFlip, skipCount, offset, gui, line, painting, shown>>
        BY <1>0, <1>2 DEF setup_camera, idle, sleep_forever
  <2>2. CameraTypeInv'
        BY <1>0, <2>1 DEF CameraInv, CameraTypeInv
  <2>3. SetupInv'
    <3>1. lx_config \in Configurations /\ queued = <<>>
          BY <1>0, <2>1 DEF CameraInv, CameraTypeInv, SetupInv
    <3>   DEFINE n == lx_config.num_buffer
    <3>2. n \in Nat \ {0}
      <4>1. n \in 1 .. MAX_BUFFER
            BY <3>1 DEF Configurations
      <4>2. MAX_BUFFER \in Nat
            BY CameraLimits
      <4>   HIDE DEF n
      <4>3. n \in Nat /\ n > 0
            BY <4>1, <4>2
      <4>   QED BY <4>3
    <3>   HIDE DEF n
    <3>3. /\ Setup(n) \in Seq(Operations) /\ Len(Setup(n)) > n
          /\ \A i \in 1 .. Len(Setup(n)) :
                Setup(n)[i] = "queue buffer" <=> i > Len(Setup(n)) - n
          BY <3>2, SetupShape
    <3>4. pc' = "setup" => ioctls' = Setup(n)
          BY <2>1, Zenon DEF n
    <3>5. Len(queued') = 0
          BY <2>1, <3>1
    <3>6. lx_config'.num_buffer = n
          BY <2>1 DEF n
    <3>7. pc' = "setup" =>
            /\ ioctls' \in Seq(Operations) /\ Len(ioctls') > n
            /\ \A i \in 1 .. Len(ioctls') : ioctls'[i] = "queue buffer" <=> i > Len(ioctls') - n
          BY <3>3, <3>4, Zenon
    <3>8. pc' \notin {"start", "devices"}
          BY <2>1
    <3>   QED BY <3>5, <3>6, <3>7, <3>8 DEF SetupInv
  <2>4. GuiInv'
        BY <1>0, <2>1, ViewStays DEF CameraInv, ViewKept, Prologue
  <2>   QED BY <2>2, <2>3, <2>4 DEF CameraInv
<1>   QED BY <1>0, <1>1, <1>2

LEMMA SetupStepInv ==
    ASSUME NEW ok \in BOOLEAN
    PROVE  CameraInv /\ SetupStep(ok) => CameraInv'
<1>0. SUFFICES ASSUME CameraInv, SetupStep(ok) PROVE CameraInv'
      OBVIOUS
<1>1. /\ pc = "setup" /\ ioctls # <<>>
      /\ UNCHANGED <<lx_config, filled, memory, cache, next, held, lost,
                     viewFlip, skipCount, offset, gui, line, painting, shown>>
      BY <1>0 DEF SetupStep, idle
<1>   DEFINE n == lx_config.num_buffer
<1>2. n \in Nat /\ MAX_BUFFER \in Nat /\ n <= MAX_BUFFER
  <2>1. n \in 1 .. MAX_BUFFER
        BY <1>0, <1>1 DEF CameraInv, CameraTypeInv, Configurations
  <2>2. MAX_BUFFER \in Nat
        BY CameraLimits
  <2>   HIDE DEF n
  <2>   QED BY <2>1, <2>2
<1>3. /\ ioctls \in Seq(Operations)
      /\ \A i \in 1 .. Len(ioctls) : ioctls[i] = "queue buffer" <=> i > Len(ioctls) - n
      /\ Len(queued) = IF Len(ioctls) > n THEN 0 ELSE n - Len(ioctls)
      BY <1>0, <1>1 DEF CameraInv, SetupInv
<1>   HIDE DEF n
<1>4. CASE ok
  <2>1. /\ ioctls' = Tail(ioctls) /\ pc' = pc
        /\ queued' = IF Head(ioctls) = "queue buffer" THEN Append(queued, Len(queued)) ELSE queued
        BY <1>0, <1>4 DEF SetupStep
  <2>2. /\ Tail(ioctls) \in Seq(Operations) /\ Len(Tail(ioctls)) = Len(ioctls) - 1
        /\ \A i \in 1 .. Len(Tail(ioctls)) : Tail(ioctls)[i] = ioctls[i + 1]
        BY <1>1, <1>3, HeadTailProperties
  <2>3. Len(ioctls) \in Nat /\ Len(ioctls) > 0 /\ Head(ioctls) = ioctls[1]
    <3>1. ioctls \in Seq(Operations)
          BY <1>3
    <3>   QED BY <1>1, <3>1
  <2>   DEFINE len == Len(ioctls)
  <2>   HIDE DEF len
  <2>4. len \in Nat /\ len > 0 /\ Len(Tail(ioctls)) = len - 1
        BY <2>2, <2>3, Zenon DEF len
  <2>5. Head(ioctls) = "queue buffer" <=> len <= n
    <3>1. 1 \in 1 .. len
          BY <2>4
    <3>2. 1 > len - n <=> len <= n
          BY <1>2, <2>4
    <3>3. ioctls[1] = "queue buffer" <=> 1 > len - n
          BY <1>3, <3>1, Zenon DEF len
    <3>   QED BY <2>3, <3>2, <3>3, Zenon
  <2>6. queued \in Seq(BufferSet)
        BY <1>0 DEF CameraInv, CameraTypeInv
  <2>   DEFINE QueuesAgree ==
               /\ queued' \in Seq(BufferSet)
               /\ (len - 1 > n => Len(queued') = 0) /\ (~(len - 1 > n) => Len(queued') = n - (len - 1))
  <2>7. ASSUME Head(ioctls) = "queue buffer"
        PROVE  QueuesAgree
    <3>1. len <= n
          BY <2>5, <2>7
    <3>2. Len(queued) = n - len
      <4>1. ~(len > n)
            BY <1>2, <2>4, <3>1
      <4>   QED BY <1>3, <4>1, Zenon DEF len
    <3>3. n - len \in BufferSet
          BY <1>2, <2>4, <3>1 DEF BufferSet
    <3>4. queued' \in Seq(BufferSet) /\ Len(queued') = (n - len) + 1
      <4>1. queued' = Append(queued, n - len)
            BY <2>1, <2>7, <3>2
      <4>   QED BY <2>6, <3>2, <3>3, <4>1
    <3>5. ~(len - 1 > n) /\ (n - len) + 1 = n - (len - 1)
          BY <1>2, <2>4, <3>1
    <3>   QED BY <3>4, <3>5
  <2>8. ASSUME Head(ioctls) # "queue buffer"
        PROVE  QueuesAgree
    <3>0. ~(len <= n)
          BY <2>5, <2>8, Zenon
    <3>1. len > n
          BY <1>2, <2>4, <3>0
    <3>2. Len(queued) = 0 /\ queued' = queued
          BY <1>3, <2>1, <2>8, <3>1, Zenon DEF len
    <3>3. len - 1 > n \/ n - (len - 1) = 0
          BY <1>2, <2>4, <3>1
    <3>   QED BY <2>6, <3>2, <3>3
  <2>9. QueuesAgree
        BY <2>7, <2>8
  <2>10. ASSUME NEW i \in 1 .. len - 1
        PROVE  ioctls'[i] = "queue buffer" <=> i > (len - 1) - n
    <3>1. i + 1 \in 1 .. len /\ (i + 1 > len - n <=> i > (len - 1) - n)
          BY <1>2, <2>4
    <3>2. ioctls'[i] = ioctls[i + 1]
          BY <2>1, <2>2, <2>4, Zenon
    <3>3. ioctls[i + 1] = "queue buffer" <=> i + 1 > len - n
          BY <1>3, <3>1, Zenon DEF len
    <3>   QED BY <3>1, <3>2, <3>3, Zenon
  <2>11. CameraTypeInv'
        BY <1>0, <1>1, <2>1, <2>9 DEF CameraInv, CameraTypeInv
  <2>12. SetupInv'
    <3>1. lx_config'.num_buffer = n /\ pc' = "setup" /\ ioctls' \in Seq(Operations)
          BY <1>1, <2>1, <2>2 DEF n
    <3>2. Len(ioctls') = len - 1
          BY <2>1, <2>4
    <3>   QED BY <2>9, <2>10, <3>1, <3>2 DEF SetupInv
  <2>13. GuiInv'
        BY <1>0, <1>1, <2>1, ViewStays DEF CameraInv, ViewKept, Prologue
  <2>   QED BY <2>11, <2>12, <2>13 DEF CameraInv
<1>5. CASE ~ok
  <2>1. pc' = "dead" /\ queued' = queued
        BY <1>0, <1>5 DEF SetupStep, sleep_forever
  <2>2. CameraTypeInv'
        BY <1>0, <1>1, <2>1 DEF CameraInv, CameraTypeInv
  <2>3. SetupInv'
        BY <2>1 DEF SetupInv
  <2>4. GuiInv'
        BY <1>0, <1>1, <2>1, ViewStays DEF CameraInv, ViewKept, Prologue
  <2>   QED BY <2>2, <2>3, <2>4 DEF CameraInv
<1>   QED BY <1>4, <1>5

LEMMA CreateGuiInv ==
    ASSUME NEW ok \in BOOLEAN
    PROVE  CameraInv /\ create_gui(ok) => CameraInv'
<1>0. SUFFICES ASSUME CameraInv, create_gui(ok) PROVE CameraInv'
      OBVIOUS
<1>1. /\ pc = "setup" /\ pc' \in {"stream on", "dead"}
      /\ gui' = [i \in 0 .. 2 * Pixels - 1 |-> [frame |-> Blank, source |-> i % Pixels]]
      /\ UNCHANGED <<lx_config, ioctls, queued, filled, memory, cache, next, held, lost,
                     viewFlip, skipCount, offset, line, painting, shown>>
      BY <1>0 DEF create_gui, sleep_forever
<1>2. CameraTypeInv' /\ SetupInv'
      BY <1>0, <1>1 DEF CameraInv, CameraTypeInv, SetupInv
<1>3. lx_config \in Configurations
      BY <1>0, <1>1 DEF CameraInv, CameraTypeInv
<1>4. BeforeGui
      BY <1>0, <1>1 DEF CameraInv, GuiInv, Prologue
<1>5. Part(0, lx_config.width, Blank)'
  <2>   DEFINE w == lx_config.width
               v == lx_config.height
  <2>1. w \in Nat /\ v \in Nat
        BY <1>3, CameraLimits DEF Configurations
  <2>2. Pixels = w * v
        BY DEF Pixels
  <2>3. \A i \in 0 .. 2 * Pixels - 1 : gui'[i].frame = Blank
        BY <1>1
  <2>   HIDE DEF w, v
  <2>4. ASSUME NEW l \in 0 .. w - 1, NEW h \in 0 .. v - 1
        PROVE  gui'[0 + l * v + h].frame = Blank
    <3>1. l * v + h \in 0 .. w * v - 1 /\ w * v \in Nat
          BY <2>1, PixelWithin
    <3>2. l * v \in Nat /\ h \in Nat
          BY <2>1
    <3>3. 0 + l * v + h \in 0 .. 2 * Pixels - 1
          BY <2>2, <3>1, <3>2
    <3>   QED BY <2>3, <3>3
  <2>   QED BY <1>1, <2>4 DEF Part, w, v
<1>6. ViewInv'
  <2>1. /\ offset' = FirstView /\ painting' = Blank /\ shown' = Blank /\ (viewFlip' = TRUE)
        /\ lx_config' \in Configurations /\ pc' # "paint"
        BY <1>1, <1>3, <1>4 DEF BeforeGui
  <2>2. FirstView' = FirstView
        BY DEF FirstView
  <2>3. Half(~viewFlip)' = 0 /\ ShownHalf' = 0
        BY <2>1, <2>2 DEF Half, ShownHalf
  <2>4. DOMAIN gui' = (0 .. 2 * Pixels - 1)'
        BY <1>1 DEF Pixels
  <2>5. Part(ShownHalf, lx_config.width, shown)'
        BY <1>5, <2>1, <2>3 DEF Part
  <2>6. Part(Half(~viewFlip), lx_config.width, painting)'
        BY <1>5, <2>1, <2>3 DEF Part
  <2>   QED BY <2>1, <2>2, <2>4, <2>5, <2>6 DEF ViewInv
<1>   QED BY <1>1, <1>2, <1>6 DEF CameraInv, GuiInv, Prologue

LEMMA ControlInv ==
    ASSUME NEW start \in BOOLEAN, NEW ok \in BOOLEAN
    PROVE  CameraInv /\ control_camera(start, ok) => CameraInv'
<1>0. SUFFICES ASSUME CameraInv, control_camera(start, ok) PROVE CameraInv'
      OBVIOUS
<1>1. /\ pc \in {"stream on", "stream off"} /\ pc' \in {"get", "dead"}
      /\ (queued' = queued /\ filled' = filled) \/ (queued' = <<>> /\ filled' = <<>>)
      /\ UNCHANGED <<lx_config, ioctls, memory, cache, next, held, lost,
                     viewFlip, skipCount, offset, gui, line, painting, shown>>
      BY <1>0 DEF control_camera, sleep_forever
<1>2. queued' \in Seq(BufferSet) /\ filled' \in Seq(BufferSet)
  <2>1. queued \in Seq(BufferSet) /\ filled \in Seq(BufferSet)
        BY <1>0 DEF CameraInv, CameraTypeInv
  <2>2. <<>> \in Seq(BufferSet)
        BY EmptySeq
  <2>   QED BY <1>1, <2>1, <2>2, Zenon
<1>3. CameraTypeInv'
      BY <1>0, <1>1, <1>2 DEF CameraInv, CameraTypeInv
<1>4. SetupInv'
      BY <1>1 DEF SetupInv
<1>5. GuiInv'
  <2>1. GuiInv /\ ViewKept
        BY <1>0, <1>1 DEF CameraInv, ViewKept
  <2>   QED BY <1>1, <2>1, ViewStays DEF Prologue
<1>   QED BY <1>3, <1>4, <1>5 DEF CameraInv

LEMMA SensorInv == CameraInv /\ SensorFrame => CameraInv'
<1>0. SUFFICES ASSUME CameraInv, SensorFrame PROVE CameraInv'
      OBVIOUS
<1>1. /\ Streaming /\ Len(queued) > Reserve
      /\ memory' = [memory EXCEPT ![Head(queued)] = next]
      /\ filled' = Append(filled, Head(queued))
      /\ queued' = Tail(queued)
      /\ next' = (next % FrameModulus) + 1
      /\ UNCHANGED <<lx_config, pc, ioctls, cache, held, lost, viewFlip, skipCount, offset, gui,
                     line, painting, shown>>
      BY <1>0 DEF SensorFrame
<1>2. /\ queued \in Seq(BufferSet) /\ filled \in Seq(BufferSet) /\ next \in Nat
      /\ memory \in [BufferSet -> Nat]
      BY <1>0 DEF CameraInv, CameraTypeInv
<1>3. queued # <<>>
      BY <1>1, <1>2, CameraLimits
<1>4. Head(queued) \in BufferSet /\ Tail(queued) \in Seq(BufferSet)
      BY <1>2, <1>3, HeadTailProperties
<1>5. filled' \in Seq(BufferSet)
      BY <1>1, <1>2, <1>4
<1>6. next' \in Nat
      BY <1>1, <1>2, CameraLimits
<1>7. memory' \in [BufferSet -> Nat]
      BY <1>1, <1>2, <1>4
<1>8. CameraTypeInv'
      BY <1>0, <1>1, <1>4, <1>5, <1>6, <1>7 DEF CameraInv, CameraTypeInv
<1>9. SetupInv'
      BY <1>1 DEF SetupInv, Streaming
<1>10. GuiInv'
  <2>1. ViewInv /\ pc \notin Prologue
        BY <1>0, <1>1 DEF CameraInv, GuiInv, BeforeGui, Streaming, Prologue
  <2>   QED BY <1>1, <2>1 DEF GuiInv, Prologue, ViewInv, Part, Half, ShownHalf, FirstView, SecondView, Pixels
<1>   QED BY <1>8, <1>9, <1>10 DEF CameraInv

LEMMA GetInv ==
    ASSUME NEW ok \in BOOLEAN
    PROVE  CameraInv /\ get_buffer(ok) => CameraInv'
<1>0. SUFFICES ASSUME CameraInv, get_buffer(ok) PROVE CameraInv'
      OBVIOUS
<1>1. /\ pc = "get"
      /\ \/ /\ filled # <<>> /\ held' = Head(filled) /\ filled' = Tail(filled)
            /\ pc' \in {"swap", "put"}
         \/ pc' = "stream off" /\ UNCHANGED <<held, filled>>
      /\ UNCHANGED <<lx_config, ioctls, queued, memory, cache, next, lost, viewFlip, skipCount,
                     offset, gui, line, painting, shown>>
      BY <1>0 DEF get_buffer
<1>2. filled \in Seq(BufferSet)
      BY <1>0 DEF CameraInv, CameraTypeInv
<1>3. filled' \in Seq(BufferSet) /\ (pc' \in {"swap", "put"} => held' \in BufferSet)
      BY <1>1, <1>2, HeadTailProperties
<1>4. CameraTypeInv'
      BY <1>0, <1>1, <1>3 DEF CameraInv, CameraTypeInv
<1>5. SetupInv'
      BY <1>1 DEF SetupInv
<1>6. GuiInv'
  <2>1. GuiInv /\ ViewKept
        BY <1>0, <1>1 DEF CameraInv, ViewKept
  <2>   QED BY <1>1, <2>1, ViewStays DEF Prologue
<1>   QED BY <1>4, <1>5, <1>6 DEF CameraInv

LEMMA PutInv ==
    ASSUME NEW ok \in BOOLEAN
    PROVE  CameraInv /\ put_buffer(ok) => CameraInv'
<1>0. SUFFICES ASSUME CameraInv, put_buffer(ok) PROVE CameraInv'
      OBVIOUS
<1>1. /\ pc = "put" /\ pc' = "get"
      /\ queued' = Append(queued, held) \/ queued' = queued
      /\ UNCHANGED <<lx_config, ioctls, filled, memory, cache, next, viewFlip, offset, gui, line,
                     painting, shown>>
      BY <1>0 DEF put_buffer, Requeue
<1>2. queued \in Seq(BufferSet) /\ held \in BufferSet
      BY <1>0, <1>1 DEF CameraInv, CameraTypeInv
<1>3. queued' \in Seq(BufferSet)
      BY <1>1, <1>2
<1>4. CameraTypeInv'
      BY <1>0, <1>1, <1>3 DEF CameraInv, CameraTypeInv
<1>5. SetupInv'
      BY <1>1 DEF SetupInv
<1>6. GuiInv'
  <2>1. GuiInv /\ ViewKept
        BY <1>0, <1>1 DEF CameraInv, ViewKept
  <2>   QED BY <1>1, <2>1, ViewStays DEF Prologue
<1>   QED BY <1>4, <1>5, <1>6 DEF CameraInv

\* The half that gets visible is the one painted before
LEMMA SwapInv == CameraInv /\ swap_view => CameraInv'
<1>0. SUFFICES ASSUME CameraInv, swap_view PROVE CameraInv'
      OBVIOUS
<1>1. /\ pc = "swap" /\ pc' = "paint" /\ line' = 0
      /\ offset' = _gui_set_view(viewFlip)
      /\ cache' = [cache EXCEPT ![held] = memory[held]]
      /\ shown' = painting /\ painting' = memory[held]
      /\ UNCHANGED <<lx_config, ioctls, queued, filled, memory, next, held, lost, viewFlip,
                     skipCount, gui>>
      BY <1>0 DEF swap_view
<1>2. /\ held \in BufferSet /\ memory \in [BufferSet -> Nat] /\ cache \in [BufferSet -> Nat]
      /\ lx_config \in Configurations /\ viewFlip \in BOOLEAN
      BY <1>0, <1>1 DEF CameraInv, CameraTypeInv
<1>3. cache' \in [BufferSet -> Nat] /\ cache'[held] = painting'
      BY <1>1, <1>2
<1>4. CameraTypeInv'
      BY <1>0, <1>1, <1>3 DEF CameraInv, CameraTypeInv
<1>5. SetupInv'
      BY <1>1 DEF SetupInv
<1>6. ViewInv
      BY <1>0, <1>1 DEF CameraInv, GuiInv, BeforeGui, Prologue
<1>7. ASSUME (lx_config.rotate = TRUE)
      PROVE  /\ offset' \in {FirstView, SecondView}
             /\ ShownHalf' = Half(~viewFlip)
             /\ Part(Half(~viewFlip), lx_config.width, painting)
  <2>1. lx_config.width \in Nat \ {0}
        BY <1>2, CameraLimits DEF Configurations
  <2>2. FirstView # SecondView
        BY <2>1 DEF FirstView, SecondView
  <2>3. ASSUME viewFlip = TRUE
        PROVE  offset' \in {FirstView, SecondView} /\ ShownHalf' = Half(~viewFlip)
    <3>1. offset' = FirstView
          BY <1>1, <2>3 DEF _gui_set_view, FirstView
    <3>2. ShownHalf' = 0 /\ Half(~viewFlip) = 0
          BY <2>3, <3>1 DEF ShownHalf, Half, FirstView
    <3>   QED BY <3>1, <3>2
  <2>4. ASSUME viewFlip = FALSE
        PROVE  offset' \in {FirstView, SecondView} /\ ShownHalf' = Half(~viewFlip)
    <3>1. offset' = SecondView
          BY <1>1, <1>7, <2>4 DEF _gui_set_view, SecondView
    <3>2. Half(~viewFlip) = Pixels
          BY <2>4 DEF Half
    <3>3. ShownHalf' = Pixels
      <4>1. offset' # FirstView /\ FirstView' = FirstView /\ Pixels' = Pixels
            BY <1>1, <2>2, <3>1 DEF FirstView, Pixels
      <4>   QED BY <4>1 DEF ShownHalf
    <3>   QED BY <3>1, <3>2, <3>3
  <2>5. Part(Half(~viewFlip), lx_config.width, painting)
        BY <1>1, <1>6, <1>7 DEF ViewInv
  <2>   QED BY <1>2, <2>3, <2>4, <2>5
<1>8. ViewInv'
  <2>1. DOMAIN gui' = (0 .. 2 * Pixels - 1)' /\ lx_config' \in Configurations
        BY <1>1, <1>6 DEF ViewInv, Pixels
  <2>2. ASSUME lx_config.rotate = TRUE
        PROVE  /\ (offset \in {FirstView, SecondView})'
               /\ Part(ShownHalf, lx_config.width, shown)'
               /\ (line <= lx_config.width)'
               /\ (ShownHalf = Half(~viewFlip))'
               /\ Part(Half(viewFlip), line, painting)'
    <3>1. (offset \in {FirstView, SecondView})'
          BY <1>1, <1>7, <2>2 DEF FirstView, SecondView
    <3>2. (ShownHalf = Half(~viewFlip))'
          BY <1>1, <1>7, <2>2 DEF Half, Pixels
    <3>3. Part(ShownHalf, lx_config.width, shown)'
          BY <1>1, <1>7, <2>2 DEF Part
    <3>4. (line <= lx_config.width)'
          BY <1>1, <1>2, CameraLimits DEF Configurations
    <3>5. Part(Half(viewFlip), line, painting)'
          BY <1>1 DEF Part
    <3>   QED BY <3>1, <3>2, <3>3, <3>4, <3>5
  <2>3. lx_config'.rotate = TRUE => lx_config.rotate = TRUE
        BY <1>1
  <2>   QED BY <1>1, <1>2, <1>3, <2>1, <2>2, <2>3 DEF ViewInv, Configurations
<1>   QED BY <1>1, <1>4, <1>5, <1>8 DEF CameraInv, GuiInv, Prologue

\* A line is painted to the half that is not visible
LEMMA PaintsHalf ==
    ASSUME lx_config \in Configurations, lx_config.rotate = TRUE,
           DOMAIN gui = 0 .. 2 * Pixels - 1, line \in Nat, line < lx_config.width,
           gui' = [i \in DOMAIN gui |->
                     IF \E p \in Range(PaintedLine(line)) : p.pixel = i
                     THEN [frame  |-> cache[held],
                           source |-> (CHOOSE p \in Range(PaintedLine(line)) : p.pixel = i).source]
                     ELSE gui[i]],
           viewFlip \in BOOLEAN
    PROVE  \A l \in 0 .. lx_config.width - 1, h \in 0 .. lx_config.height - 1 :
              /\ gui'[Half(~viewFlip) + l * lx_config.height + h]
                    = gui[Half(~viewFlip) + l * lx_config.height + h]
              /\ l = line => gui'[Half(viewFlip) + l * lx_config.height + h].frame = cache[held]
              /\ \/ gui'[Half(viewFlip) + l * lx_config.height + h].frame = cache[held]
                 \/ gui'[Half(viewFlip) + l * lx_config.height + h]
                       = gui[Half(viewFlip) + l * lx_config.height + h]
<1>   DEFINE w == lx_config.width
             v == lx_config.height
             start == Half(viewFlip)
             other == Half(~viewFlip)
             painted == Range(PaintedLine(line))
<1>1. w \in Nat /\ v \in Nat /\ line \in 0 .. w - 1
      BY CameraLimits DEF Configurations
<1>2. Pixels = w * v /\ w * v \in Nat
      BY <1>1 DEF Pixels
<1>3. \/ start = 0 /\ other = w * v
      \/ start = w * v /\ other = 0
      BY <1>2 DEF Half
<1>4. /\ \A p \in painted : \E x \in 0 .. v - 1 : p.pixel = start + line * v + x
      /\ \A x \in 0 .. v - 1 : \E p \in painted : p.pixel = start + line * v + x
  <2>1. PaintedLine(line) = [h \in 0 .. v - 1 |->
            [pixel |-> start + line * v + h, source |-> (w - line) + h * w]]
        BY DEF PaintedLine, Half
  <2>   HIDE DEF start, w, v
  <2>   QED BY <2>1 DEF Range
<1>5. \A i \in 0 .. 2 * (w * v) - 1 :
         /\ (\E p \in painted : p.pixel = i) => gui'[i].frame = cache[held]
         /\ ~(\E p \in painted : p.pixel = i) => gui'[i] = gui[i]
      BY <1>2
<1>   HIDE DEF w, v, start, other, painted
<1>6. ASSUME NEW l \in 0 .. w - 1, NEW h \in 0 .. v - 1
      PROVE  /\ gui'[other + l * v + h] = gui[other + l * v + h]
             /\ l = line => gui'[start + l * v + h].frame = cache[held]
             /\ \/ gui'[start + l * v + h].frame = cache[held]
                \/ gui'[start + l * v + h] = gui[start + l * v + h]
  <2>1. l * v + h \in 0 .. w * v - 1 /\ l * v \in Nat /\ h \in Nat
        BY <1>1, PixelWithin
  <2>2. /\ other + l * v + h \in 0 .. 2 * (w * v) - 1
        /\ start + l * v + h \in 0 .. 2 * (w * v) - 1
        BY <1>2, <1>3, <2>1
  <2>3. \A x \in 0 .. v - 1 : start + line * v + x # other + l * v + h
    <3>1. ASSUME NEW x \in 0 .. v - 1 PROVE start + line * v + x # other + l * v + h
      <4>1. line * v + x \in 0 .. w * v - 1 /\ line * v \in Nat
            BY <1>1, PixelWithin
      <4>   QED BY <1>2, <1>3, <2>1, <4>1
    <3>   QED BY <3>1
  <2>4. ~(\E p \in painted : p.pixel = other + l * v + h)
        BY <1>4, <2>3
  <2>5. l = line => \E p \in painted : p.pixel = start + l * v + h
        BY <1>4
  <2>   QED BY <1>5, <2>2, <2>4, <2>5
<1>   QED BY <1>6 DEF w, v, start, other

LEMMA ShowInv == CameraInv /\ _gui_show => CameraInv'
<1>0. SUFFICES ASSUME CameraInv, _gui_show PROVE CameraInv'
      OBVIOUS
<1>1. /\ pc = "paint"
      /\ UNCHANGED <<lx_config, ioctls, queued, filled, memory, cache, next, held, lost, offset,
                     painting, shown>>
      BY <1>0 DEF _gui_show
<1>2. /\ lx_config \in Configurations /\ viewFlip \in BOOLEAN /\ line \in Nat
      BY <1>0, <1>1 DEF CameraInv, CameraTypeInv
<1>3. ViewInv
      BY <1>0, <1>1 DEF CameraInv, GuiInv, BeforeGui, Prologue
<1>4. lx_config.width \in Nat
      BY <1>2, CameraLimits DEF Configurations
<1>5. CASE line < Lines
  <2>1. /\ gui' = [i \in DOMAIN gui |->
                     IF \E p \in Range(PaintedLine(line)) : p.pixel = i
                     THEN [frame  |-> cache[held],
                           source |-> (CHOOSE p \in Range(PaintedLine(line)) : p.pixel = i).source]
                     ELSE gui[i]]
        /\ line' = line + 1 /\ UNCHANGED <<pc, viewFlip>>
        BY <1>0, <1>5 DEF _gui_show
  <2>2. CameraTypeInv'
        BY <1>0, <1>1, <2>1 DEF CameraInv, CameraTypeInv
  <2>3. SetupInv'
        BY <1>1, <2>1 DEF SetupInv
  <2>4. ASSUME lx_config.rotate = TRUE
        PROVE  /\ Part(ShownHalf, lx_config.width, shown)'
               /\ (line <= lx_config.width)'
               /\ Part(Half(viewFlip), line, painting)'
    <3>1. line < lx_config.width
          BY <1>5, <2>4 DEF Lines
    <3>2. DOMAIN gui = 0 .. 2 * Pixels - 1
          BY <1>3 DEF ViewInv
    <3>3. \A l \in 0 .. lx_config.width - 1, h \in 0 .. lx_config.height - 1 :
              /\ gui'[Half(~viewFlip) + l * lx_config.height + h]
                    = gui[Half(~viewFlip) + l * lx_config.height + h]
              /\ l = line => gui'[Half(viewFlip) + l * lx_config.height + h].frame = cache[held]
              /\ \/ gui'[Half(viewFlip) + l * lx_config.height + h].frame = cache[held]
                 \/ gui'[Half(viewFlip) + l * lx_config.height + h]
                       = gui[Half(viewFlip) + l * lx_config.height + h]
          BY <1>2, <2>1, <2>4, <3>1, <3>2, PaintsHalf
    <3>4. /\ ShownHalf = Half(~viewFlip) /\ cache[held] = painting
          /\ Part(ShownHalf, lx_config.width, shown)
          /\ Part(Half(viewFlip), line, painting)
          BY <1>1, <1>3, <2>4 DEF ViewInv
    <3>5. ShownHalf' = ShownHalf /\ Half(viewFlip)' = Half(viewFlip)
          BY <1>1, <2>1 DEF ShownHalf, Half, Pixels, FirstView
    <3>6. Part(ShownHalf, lx_config.width, shown)'
      <4>1. \A l \in 0 .. lx_config.width - 1, h \in 0 .. lx_config.height - 1 :
               gui'[ShownHalf + l * lx_config.height + h].frame = shown
            BY <3>3, <3>4 DEF Part
      <4>   QED BY <1>1, <3>5, <4>1 DEF Part
    <3>7. Part(Half(viewFlip), line, painting)'
      <4>1. ASSUME NEW l \in 0 .. line, NEW h \in 0 .. lx_config.height - 1
            PROVE  gui'[Half(viewFlip) + l * lx_config.height + h].frame = painting
        <5>1. l \in 0 .. lx_config.width - 1
              BY <1>2, <1>4, <3>1
        <5>2. CASE l = line
              BY <3>3, <3>4, <5>1, <5>2
        <5>3. CASE l # line
          <6>1. l \in 0 .. line - 1
                BY <1>2, <5>3
          <6>2. gui[Half(viewFlip) + l * lx_config.height + h].frame = painting
                BY <3>4, <6>1 DEF Part
          <6>   QED BY <3>3, <3>4, <5>1, <6>2
        <5>   QED BY <5>2, <5>3
      <4>2. 0 .. line' - 1 = 0 .. line
            BY <1>2, <2>1
      <4>3. \A l \in 0 .. line' - 1, h \in 0 .. lx_config.height - 1 :
               gui'[Half(viewFlip)' + l * lx_config.height + h].frame = painting
            BY <3>5, <4>1, <4>2, Zenon
      <4>   QED BY <1>1, <3>5, <4>3 DEF Part
    <3>8. (line <= lx_config.width)'
          BY <1>1, <1>2, <1>4, <2>1, <3>1
    <3>   QED BY <3>6, <3>7, <3>8
  <2>5. DOMAIN gui' = (0 .. 2 * Pixels - 1)'
        BY <1>1, <1>3, <2>1 DEF ViewInv, Pixels
  <2>6. /\ UNCHANGED <<pc, offset, FirstView, SecondView, ShownHalf, cache, held, painting,
                       lx_config>>
        /\ Half(~viewFlip)' = Half(~viewFlip)
        BY <1>1, <2>1 DEF FirstView, SecondView, ShownHalf, Half, Pixels
  <2>7. ViewInv'
        BY <1>1, <1>3, <2>4, <2>5, <2>6 DEF ViewInv
  <2>   QED BY <1>1, <2>1, <2>2, <2>3, <2>7 DEF CameraInv, GuiInv, Prologue
<1>6. CASE ~(line < Lines)
  <2>1. pc' = "put" /\ (viewFlip' = ~viewFlip) /\ UNCHANGED <<gui, line>>
        BY <1>0, <1>6 DEF _gui_show
  <2>2. CameraTypeInv'
        BY <1>0, <1>1, <2>1 DEF CameraInv, CameraTypeInv
  <2>3. SetupInv'
        BY <2>1 DEF SetupInv
  <2>4. UNCHANGED <<lx_config, offset, FirstView, SecondView, ShownHalf>>
        BY <1>1 DEF FirstView, SecondView, ShownHalf, Pixels
  <2>5. Half(~viewFlip)' = Half(viewFlip)
        BY <1>1, <1>2, <2>1 DEF Half, Pixels
  <2>6. ASSUME lx_config.rotate = TRUE
        PROVE  /\ Part(ShownHalf, lx_config.width, shown)'
               /\ Part(Half(~viewFlip), lx_config.width, painting)'
    <3>1. /\ Part(ShownHalf, lx_config.width, shown)
          /\ Part(Half(viewFlip), line, painting) /\ line <= lx_config.width
          BY <1>1, <1>3, <2>6 DEF ViewInv
    <3>2. line = lx_config.width
          BY <1>2, <1>4, <1>6, <2>6, <3>1 DEF Lines
    <3>3. Part(ShownHalf, lx_config.width, shown)'
          BY <1>1, <2>1, <2>4, <3>1 DEF Part
    <3>4. Part(Half(~viewFlip), lx_config.width, painting)'
          BY <1>1, <2>1, <2>5, <3>1, <3>2 DEF Part
    <3>   QED BY <3>3, <3>4
  <2>7. DOMAIN gui' = (0 .. 2 * Pixels - 1)'
        BY <1>1, <1>3, <2>1 DEF ViewInv, Pixels
  <2>8. ViewInv'
        BY <1>3, <2>1, <2>4, <2>6, <2>7 DEF ViewInv
  <2>   QED BY <2>1, <2>2, <2>3, <2>8 DEF CameraInv, GuiInv, Prologue
<1>   QED BY <1>5, <1>6

LEMMA CameraNextInv == CameraInv /\ [CameraNext]_cameraVars => CameraInv'
<1>0. SUFFICES ASSUME CameraInv, [CameraNext]_cameraVars PROVE CameraInv'
      OBVIOUS
<1>1. CASE UNCHANGED cameraVars
      BY <1>0, <1>1 DEF cameraVars, CameraInv, CameraTypeInv, SetupInv, GuiInv, BeforeGui, Prologue,
                        ViewInv, Part, Half, ShownHalf, FirstView, SecondView, Pixels
<1>2. CASE CaptureTask
  <2>1. CASE CheckConfig \/ \E asked \in {"all", "missing", "no video0"} : setup_camera(asked)
        BY <1>0, <2>1, CheckInv
  <2>2. ASSUME NEW ok \in BOOLEAN,
               SetupStep(ok) \/ create_gui(ok) \/ control_camera(TRUE, ok)
                   \/ control_camera(FALSE, ok) \/ put_buffer(ok)
        PROVE  CameraInv'
        BY <1>0, <2>2, SetupStepInv, CreateGuiInv, ControlInv, PutInv, Zenon
  <2>3. CASE get_buffer(TRUE)
        BY <1>0, <2>3, GetInv, Zenon
  <2>4. CASE swap_view \/ _gui_show
        BY <1>0, <2>4, SwapInv, ShowInv
  <2>   QED BY <1>2, <2>1, <2>2, <2>3, <2>4, Zenon DEF CaptureTask
<1>3. CASE get_buffer(FALSE)
      BY <1>0, <1>3, GetInv, Zenon
<1>4. CASE SensorFrame
      BY <1>0, <1>4, SensorInv
<1>5. CASE Dead
      BY <1>1, <1>5 DEF Dead
<1>   QED BY <1>0, <1>1, <1>2, <1>3, <1>4, <1>5, Zenon DEF CameraNext

\* What the GUI server reads lies in the half that is shown
LEMMA InvShows == CameraInv => FrameShownWhole
<1>0. SUFFICES ASSUME CameraInv, gui # <<>>, lx_config.rotate = TRUE,
                      NEW x \in 0 .. ViewWidth - 1, NEW y \in 0 .. ViewHeight - 1
               PROVE  Viewed(x, y).frame = shown
      BY DEF FrameShownWhole
<1>1. ViewInv
      BY <1>0 DEF CameraInv, GuiInv, BeforeGui
<1>   DEFINE w == lx_config.width
             v == lx_config.height
<1>2. w \in Nat \ {0} /\ v \in Nat
      BY <1>1, CameraLimits DEF ViewInv, Configurations
<1>3. x \in 0 .. v - 1 /\ y \in 0 .. w - 1 /\ GuiWidth = v /\ Pixels = w * v
      BY <1>0 DEF ViewWidth, ViewHeight, GuiWidth, Pixels
<1>4. offset \in {FirstView, SecondView} /\ Part(ShownHalf, w, shown)
      BY <1>0, <1>1 DEF ViewInv
<1>5. gui[ShownHalf + y * v + x].frame = shown
      BY <1>3, <1>4 DEF Part
<1>6. FirstView # SecondView
      BY <1>2 DEF FirstView, SecondView
<1>7. (y + offset[2]) * GuiWidth + x + offset[1] = ShownHalf + y * v + x
  <2>   HIDE DEF w, v
  <2>1. CASE offset = FirstView
    <3>1. ShownHalf = 0 /\ offset[1] = 0 /\ offset[2] = 0
          BY <2>1 DEF FirstView, ShownHalf
    <3>   QED BY <1>2, <1>3, <3>1
  <2>2. CASE offset = SecondView
    <3>1. ShownHalf = w * v /\ offset[1] = 0 /\ offset[2] = w
          BY <1>3, <1>6, <2>2 DEF SecondView, ShownHalf, w
    <3>2. (y + w) * v = w * v + y * v
          BY <1>2, <1>3
    <3>   QED BY <1>2, <1>3, <3>1, <3>2
  <2>   QED BY <1>4, <2>1, <2>2
<1>   QED BY <1>5, <1>7 DEF Viewed

\* The GUI server never reads a torn picture from the rotating camera driver, whatever
\* the size of the pictures, the number of buffers and the failures of the setup.
THEOREM ShowsWholeFrames == CameraSpec => []FrameShownWhole
<1>1. CameraSpec => []CameraInv
      BY CameraInitInv, CameraNextInv, PTL DEF CameraSpec
<1>   QED BY <1>1, InvShows, PTL

-------------------------------------------------------------------------------
(***************************************************************************)
(* The touchscreen driver.  For every slot the driver remembers what the   *)
(* client was told; while a frame is handled, the calls collected so far   *)
(* are a prefix of the frame's calls and those pending are the rest.       *)
(***************************************************************************)
Places == {Absent} \union (Positions \X Positions)

CallEvents == {Event(code, value) : code \in {"SLOT", "X", "Y"}, value \in Nat}
Events == CallEvents \union {Key, Sync}

InputTypeInv ==
    /\ frame \in [Slots -> Places] /\ fingers \in [Slots -> Places]
    /\ present \in [Slots -> BOOLEAN]
    /\ abs \in [Slots -> Nat \X Nat]
    /\ pending \in Seq(Events) /\ vals \in Seq(Events)

\* The driver remembers for each slot what the client knows
Known(s) == /\ present[s] = (fingers[s] # Absent)
            /\ fingers[s] # Absent => fingers[s] = abs[s]

KeyFirst(calls) ==
    /\ vals = <<>>
    /\ Len(pending) = Len(calls) + 2
    /\ pending[1] = Key /\ pending[Len(calls) + 2] = Sync
    /\ \A i \in 1 .. Len(calls) : pending[i + 1] = calls[i]

\* k of the calls have been collected
Collected(calls, k) ==
    /\ Len(vals) = k /\ Len(pending) = Len(calls) - k + 1
    /\ \A i \in 1 .. k : vals[i] = calls[i]
    /\ \A i \in 1 .. Len(calls) - k : pending[i] = calls[k + i]
    /\ pending[Len(calls) - k + 1] = Sync

FrameInv ==
    \/ pending = <<>> /\ vals = <<>> /\ fingers = frame
    \/ \E order \in Orders(frame) :
          \/ KeyFirst(Calls(frame, order))
          \/ \E k \in 0 .. Len(Calls(frame, order)) : Collected(Calls(frame, order), k)

InputInv == InputTypeInv /\ (\A s \in Slots : Known(s)) /\ FrameInv

LEMMA TouchesFinite ==
    ASSUME NEW f
    PROVE  /\ IsFiniteSet(Touches(f)) /\ Cardinality(Touches(f)) \in Nat
           /\ Cardinality(Touches(f)) <= NumSlots
<1>1. IsFiniteSet(Slots) /\ Cardinality(Slots) = NumSlots
  <2>1. 0 \in Int /\ NumSlots - 1 \in Int /\ ~(0 > NumSlots - 1) /\ (NumSlots - 1) - 0 + 1 = NumSlots
        BY InputAssumption
  <2>   QED BY <2>1, FS_Interval DEF Slots
<1>2. Touches(f) \in SUBSET Slots
      BY DEF Touches
<1>   QED BY <1>1, <1>2, FS_Subset, FS_CardinalityType

\* Each touch has its place in the list, and only one
LEMMA OrderOnce ==
    ASSUME NEW f, NEW order \in Orders(f)
    PROVE  /\ order \in [1 .. Cardinality(Touches(f)) -> Touches(f)]
           /\ \A s \in Touches(f) : \E i \in 1 .. Cardinality(Touches(f)) : order[i] = s
           /\ \A i, j \in 1 .. Cardinality(Touches(f)) : order[i] = order[j] => i = j
<1>   DEFINE n == Cardinality(Touches(f))
<1>1. n \in Nat /\ IsFiniteSet(1 .. n) /\ Cardinality(1 .. n) = n
  <2>1. n \in Nat
        BY TouchesFinite
  <2>   HIDE DEF n
  <2>2. 1 \in Int /\ n \in Int /\ (IF 1 > n THEN 0 ELSE n - 1 + 1) = n
        BY <2>1
  <2>   QED BY <2>1, <2>2, FS_Interval
<1>2. order \in Surjection(1 .. n, Touches(f))
      BY DEF Orders, Surjection
<1>3. order \in Injection(1 .. n, Touches(f))
      BY <1>1, <1>2, FS_SurjSameCardinalityImpliesInj
<1>   QED BY <1>2, <1>3 DEF Surjection, Injection, IsInjective

LEMMA EventFields ==
    ASSUME NEW code, NEW value
    PROVE  /\ Event(code, value).type = "EV_ABS" /\ Event(code, value).code = code
           /\ Event(code, value).value = value
           /\ Event(code, value) # Key /\ Event(code, value) # Sync
<1>1. Event(code, value).type = "EV_ABS" /\ Key.type = "EV_KEY" /\ Sync.type = "SYN"
      BY DEF Event, Key, Sync
<1>2. Event(code, value).code = code /\ Event(code, value).value = value
      BY DEF Event
<1>   QED BY <1>1, <1>2

LEMMA Places3 ==
    ASSUME NEW n \in Nat, NEW i \in 1 .. 3 * n
    PROVE  \E q \in 0 .. n - 1 : i \in {3 * q + 1, 3 * q + 2, 3 * q + 3}
<1>   DEFINE q == (i - 1) \div 3
<1>1. q \in 0 .. n - 1 /\ i \in {3 * q + 1, 3 * q + 2, 3 * q + 3}
      OBVIOUS
<1>   QED BY <1>1

LEMMA DivMod3 ==
    ASSUME NEW q \in Nat
    PROVE  /\ (3 * q + 1 - 1) \div 3 = q /\ (3 * q + 2 - 1) \div 3 = q /\ (3 * q + 3 - 1) \div 3 = q
           /\ (3 * q + 1) % 3 = 1 /\ (3 * q + 2) % 3 = 2 /\ (3 * q + 3) % 3 = 0
OBVIOUS

\* One of the three calls for a touch
Call(f, s, r) ==
    CASE r = 1 -> Event("SLOT", s)
      [] r = 2 -> Event("X", f[s][1])
      [] OTHER -> Event("Y", f[s][2])

\* The calls for a frame
LEMMA CallsShape ==
    ASSUME NEW f \in [Slots -> Places], NEW order \in Orders(f)
    PROVE  /\ Calls(f, order) \in Seq(CallEvents)
           /\ Len(Calls(f, order)) = 3 * Cardinality(Touches(f))
           /\ \A q \in 0 .. Cardinality(Touches(f)) - 1 :
                 /\ Calls(f, order)[3 * q + 1] = Event("SLOT", order[q + 1])
                 /\ Calls(f, order)[3 * q + 2] = Event("X", f[order[q + 1]][1])
                 /\ Calls(f, order)[3 * q + 3] = Event("Y", f[order[q + 1]][2])
<1>   DEFINE n == Cardinality(Touches(f))
             calls == Calls(f, order)
<1>1. n \in Nat
      BY TouchesFinite
<1>2. order \in [1 .. n -> Touches(f)]
      BY OrderOnce
<1>3. \A s \in Touches(f) : s \in Nat /\ f[s][1] \in Nat /\ f[s][2] \in Nat
  <2>1. ASSUME NEW s \in Touches(f) PROVE s \in Nat /\ f[s][1] \in Nat /\ f[s][2] \in Nat
    <3>1. s \in Slots /\ f[s] \in Positions \X Positions
          BY DEF Touches, Places
    <3>2. f[s][1] \in Positions /\ f[s][2] \in Positions
          BY <3>1
    <3>3. s \in Nat
          BY <3>1, InputAssumption DEF Slots
    <3>   QED BY <3>2, <3>3, InputAssumption, Zenon
  <2>   QED BY <2>1
<1>4. calls = [i \in 1 .. 3 * n |-> Call(f, order[(i - 1) \div 3 + 1], i % 3)]
      BY DEF Calls, Call
<1>5. \A i \in 1 .. 3 * n : calls[i] = Call(f, order[(i - 1) \div 3 + 1], i % 3)
  <2>   HIDE DEF calls, n
  <2>   QED BY <1>4, Zenon
<1>   HIDE DEF n, calls
<1>6. ASSUME NEW j \in 1 .. 3 * n, NEW q, NEW r, (j - 1) \div 3 = q, j % 3 = r
      PROVE  calls[j] = Call(f, order[q + 1], r)
      BY <1>5, <1>6, Zenon
<1>7. ASSUME NEW q \in 0 .. n - 1
      PROVE  /\ calls[3 * q + 1] = Event("SLOT", order[q + 1])
             /\ calls[3 * q + 2] = Event("X", f[order[q + 1]][1])
             /\ calls[3 * q + 3] = Event("Y", f[order[q + 1]][2])
  <2>1. /\ 3 * q + 1 \in 1 .. 3 * n /\ 3 * q + 2 \in 1 .. 3 * n /\ 3 * q + 3 \in 1 .. 3 * n
        /\ q \in Nat
        BY <1>1
  <2>2. /\ (3 * q + 1 - 1) \div 3 = q /\ (3 * q + 2 - 1) \div 3 = q /\ (3 * q + 3 - 1) \div 3 = q
        /\ (3 * q + 1) % 3 = 1 /\ (3 * q + 2) % 3 = 2 /\ (3 * q + 3) % 3 = 0
        BY <2>1, DivMod3
  <2>3. calls[3 * q + 1] = Event("SLOT", order[q + 1])
    <3>1. calls[3 * q + 1] = Call(f, order[q + 1], 1)
          BY <1>6, <2>1, <2>2
    <3>   QED BY <3>1 DEF Call
  <2>4. calls[3 * q + 2] = Event("X", f[order[q + 1]][1])
    <3>1. calls[3 * q + 2] = Call(f, order[q + 1], 2)
          BY <1>6, <2>1, <2>2
    <3>   QED BY <3>1 DEF Call
  <2>5. calls[3 * q + 3] = Event("Y", f[order[q + 1]][2])
    <3>1. calls[3 * q + 3] = Call(f, order[q + 1], 0)
          BY <1>6, <2>1, <2>2
    <3>   QED BY <3>1 DEF Call
  <2>   QED BY <2>3, <2>4, <2>5
<1>8. ASSUME NEW i \in 1 .. 3 * n PROVE calls[i] \in CallEvents
  <2>1. PICK q \in 0 .. n - 1 : i \in {3 * q + 1, 3 * q + 2, 3 * q + 3}
        BY <1>1, Places3
  <2>2. order[q + 1] \in Touches(f)
        BY <1>1, <1>2
  <2>   QED BY <1>3, <1>7, <2>1, <2>2 DEF CallEvents
<1>9. calls \in Seq(CallEvents) /\ Len(calls) = 3 * n
  <2>1. calls \in [1 .. 3 * n -> CallEvents] /\ 3 * n \in Nat
        BY <1>1, <1>4, <1>8
  <2>   QED BY <2>1
<1>   QED BY <1>7, <1>9 DEF n, calls

-------------------------------------------------------------------------------

\* The events of a whole frame have been collected
Complete(order) ==
    /\ order \in Orders(frame)
    /\ Len(vals) = Len(Calls(frame, order))
    /\ \A i \in 1 .. Len(vals) : vals[i] = Calls(frame, order)[i]
    /\ vals \in Seq(Events) /\ frame \in [Slots -> Places]

LEMMA CompleteShape ==
    ASSUME NEW order, Complete(order)
    PROVE  /\ Len(vals) = 3 * Cardinality(Touches(frame))
           /\ DOMAIN vals = 1 .. 3 * Cardinality(Touches(frame))
           /\ \A q \in 0 .. Cardinality(Touches(frame)) - 1 :
                 /\ vals[3 * q + 1] = Event("SLOT", order[q + 1])
                 /\ vals[3 * q + 2] = Event("X", frame[order[q + 1]][1])
                 /\ vals[3 * q + 3] = Event("Y", frame[order[q + 1]][2])
<1>   DEFINE n == Cardinality(Touches(frame))
             calls == Calls(frame, order)
<1>1. n \in Nat
      BY TouchesFinite
<1>2. /\ Len(calls) = 3 * n
      /\ \A q \in 0 .. n - 1 :
            /\ calls[3 * q + 1] = Event("SLOT", order[q + 1])
            /\ calls[3 * q + 2] = Event("X", frame[order[q + 1]][1])
            /\ calls[3 * q + 3] = Event("Y", frame[order[q + 1]][2])
      BY CallsShape DEF Complete
<1>3. /\ Len(vals) = Len(calls) /\ (\A i \in 1 .. Len(vals) : vals[i] = calls[i])
      /\ vals \in Seq(Events)
      BY DEF Complete
<1>   HIDE DEF n, calls
<1>4. ASSUME NEW q \in 0 .. n - 1
      PROVE  3 * q + 1 \in 1 .. 3 * n /\ 3 * q + 2 \in 1 .. 3 * n /\ 3 * q + 3 \in 1 .. 3 * n
      BY <1>1
<1>5. Len(vals) = 3 * n /\ DOMAIN vals = 1 .. 3 * n
      BY <1>2, <1>3
<1>   QED BY <1>2, <1>3, <1>4, <1>5 DEF n

\* Every event is taken for the slot that has been named last
LEMMA SlotOfEvent ==
    ASSUME NEW order, Complete(order), NEW q \in 0 .. Cardinality(Touches(frame)) - 1,
           NEW r \in 1 .. 3
    PROVE  SlotOf(3 * q + r) = order[q + 1]
<1>   DEFINE n == Cardinality(Touches(frame))
             i == 3 * q + r
             b == 3 * q + 1
             named == {j \in 1 .. i : vals[j].code = "SLOT"}
             m == CHOOSE j \in named : \A k \in named : k <= j
<1>0. n \in Nat /\ q \in 0 .. n - 1
      BY TouchesFinite
<1>1. \A p \in 0 .. n - 1 :
         /\ vals[3 * p + 1] = Event("SLOT", order[p + 1])
         /\ vals[3 * p + 2] = Event("X", frame[order[p + 1]][1])
         /\ vals[3 * p + 3] = Event("Y", frame[order[p + 1]][2])
      BY CompleteShape
<1>   HIDE DEF n
<1>2. \A p \in 0 .. n - 1 :
         /\ vals[3 * p + 1].code = "SLOT" /\ vals[3 * p + 1].value = order[p + 1]
         /\ vals[3 * p + 2].code # "SLOT" /\ vals[3 * p + 3].code # "SLOT"
      BY <1>1, EventFields
<1>3. i \in Nat /\ b \in 1 .. i /\ i <= 3 * n
      BY <1>0
<1>4. b \in named
      BY <1>0, <1>2, <1>3
<1>5. ASSUME NEW j \in named PROVE j <= b
  <2>1. j \in 1 .. i /\ vals[j].code = "SLOT"
        OBVIOUS
  <2>2. j \in 1 .. 3 * n
        BY <1>0, <1>3, <2>1
  <2>3. PICK p \in 0 .. n - 1 : j \in {3 * p + 1, 3 * p + 2, 3 * p + 3}
        BY <1>0, <2>2, Places3
  <2>4. j = 3 * p + 1
        BY <1>2, <2>1, <2>3
  <2>   HIDE DEF named
  <2>5. p <= q
        BY <1>0, <2>1, <2>4
  <2>   QED BY <1>0, <2>4, <2>5
<1>6. \A j \in named : j \in Int
      BY <1>3
<1>   HIDE DEF named
<1>7. m \in named /\ \A k \in named : k <= m
      BY <1>4, <1>5
<1>8. m = b
  <2>   HIDE DEF m
  <2>1. b <= m /\ m <= b /\ m \in Int /\ b \in Int
        BY <1>3, <1>4, <1>5, <1>6, <1>7
  <2>   QED BY <2>1
<1>9. named # {}
      BY <1>4
<1>10. SlotOf(i) = vals[m].value
       BY <1>9 DEF SlotOf, named
<1>    QED BY <1>0, <1>2, <1>8, <1>10

\* A slot is updated by the events of its touch, and by no other
LEMMA UpdatedTouches ==
    ASSUME NEW order, Complete(order), NEW s \in Slots
    PROVE  Updated(s) <=> s \in Touches(frame)
<1>   DEFINE n == Cardinality(Touches(frame))
<1>0. n \in Nat /\ DOMAIN vals = 1 .. 3 * n
      BY TouchesFinite, CompleteShape
<1>1. \A q \in 0 .. n - 1 : \A r \in 1 .. 3 : SlotOf(3 * q + r) = order[q + 1]
      BY SlotOfEvent
<1>2. order \in [1 .. n -> Touches(frame)] /\ \A t \in Touches(frame) : \E i \in 1 .. n : order[i] = t
      BY OrderOnce DEF Complete
<1>3. \A p \in 0 .. n - 1 : vals[3 * p + 2] = Event("X", frame[order[p + 1]][1])
      BY CompleteShape
<1>   HIDE DEF n
<1>4. ASSUME s \in Touches(frame) PROVE Updated(s)
  <2>1. PICK i \in 1 .. n : order[i] = s
        BY <1>2, <1>4
  <2>2. i - 1 \in 0 .. n - 1 /\ (i - 1) + 1 = i /\ 3 * (i - 1) + 2 \in 1 .. 3 * n /\ 2 \in 1 .. 3
        BY <1>0
  <2>3. SlotOf(3 * (i - 1) + 2) = s
        BY <1>1, <2>1, <2>2
  <2>4. vals[3 * (i - 1) + 2].code = "X"
        BY <1>3, <2>2, EventFields
  <2>   QED BY <1>0, <2>2, <2>3, <2>4 DEF Updated
<1>5. ASSUME Updated(s) PROVE s \in Touches(frame)
  <2>1. PICK i \in 1 .. 3 * n : SlotOf(i) = s
        BY <1>0, <1>5 DEF Updated
  <2>2. PICK q \in 0 .. n - 1 : i \in {3 * q + 1, 3 * q + 2, 3 * q + 3}
        BY <1>0, Places3
  <2>3. s = order[q + 1]
        BY <1>1, <2>1, <2>2
  <2>4. q + 1 \in 1 .. n
        BY <1>0
  <2>   QED BY <1>2, <2>3, <2>4
<1>   QED BY <1>4, <1>5

\* The values of a slot after a frame
LEMMA CapturedValues ==
    ASSUME NEW order, Complete(order), NEW s \in Slots, NEW old
    PROVE  /\ s \in Touches(frame) => /\ Captured(s, "X", old) = frame[s][1]
                                      /\ Captured(s, "Y", old) = frame[s][2]
           /\ s \notin Touches(frame) => /\ Captured(s, "X", old) = old
                                         /\ Captured(s, "Y", old) = old
<1>   DEFINE n == Cardinality(Touches(frame))
             given(code) == {i \in DOMAIN vals : SlotOf(i) = s /\ vals[i].code = code}
<1>0. n \in Nat /\ DOMAIN vals = 1 .. 3 * n
      BY TouchesFinite, CompleteShape
<1>1. \A q \in 0 .. n - 1 : \A r \in 1 .. 3 : SlotOf(3 * q + r) = order[q + 1]
      BY SlotOfEvent
<1>2. /\ order \in [1 .. n -> Touches(frame)]
      /\ \A t \in Touches(frame) : \E i \in 1 .. n : order[i] = t
      /\ \A i, j \in 1 .. n : order[i] = order[j] => i = j
      BY OrderOnce DEF Complete
<1>3. \A p \in 0 .. n - 1 : /\ vals[3 * p + 1] = Event("SLOT", order[p + 1])
                             /\ vals[3 * p + 2] = Event("X", frame[order[p + 1]][1])
                             /\ vals[3 * p + 3] = Event("Y", frame[order[p + 1]][2])
      BY CompleteShape
<1>   HIDE DEF n
<1>4. ASSUME s \notin Touches(frame), NEW code PROVE Captured(s, code, old) = old
  <2>1. ASSUME NEW i \in given(code) PROVE FALSE
    <3>1. i \in 1 .. 3 * n /\ SlotOf(i) = s
          BY <1>0
    <3>2. PICK q \in 0 .. n - 1 : i \in {3 * q + 1, 3 * q + 2, 3 * q + 3}
          BY <1>0, <3>1, Places3
    <3>3. s = order[q + 1] /\ q + 1 \in 1 .. n
          BY <1>0, <1>1, <3>1, <3>2
    <3>   QED BY <1>2, <1>4, <3>3
  <2>2. given(code) = {}
        BY <2>1
  <2>   QED BY <2>2 DEF Captured
<1>5. ASSUME s \in Touches(frame),
             NEW code \in {"X", "Y"}, NEW r \in {2, 3}, r = IF code = "X" THEN 2 ELSE 3
      PROVE  Captured(s, code, old) = frame[s][r - 1]
  <2>1. PICK j \in 1 .. n : order[j] = s
        BY <1>2, <1>5
  <2>   DEFINE q == j - 1
               i == 3 * q + r
  <2>2. q \in 0 .. n - 1 /\ order[q + 1] = s /\ i \in 1 .. 3 * n
        BY <1>0, <2>1
  <2>   HIDE DEF q
  <2>3. SlotOf(i) = s
        BY <1>1, <2>2
  <2>4. vals[i].code = code /\ vals[i].value = frame[s][r - 1]
    <3>1. CASE code = "X"
          BY <1>3, <1>5, <2>2, <3>1, EventFields
    <3>2. CASE code = "Y"
          BY <1>3, <1>5, <2>2, <3>2, EventFields
    <3>   QED BY <3>1, <3>2
  <2>5. i \in given(code)
        BY <1>0, <2>2, <2>3, <2>4
  <2>6. ASSUME NEW k \in given(code) PROVE k = i
    <3>1. k \in 1 .. 3 * n /\ SlotOf(k) = s /\ vals[k].code = code
          BY <1>0
    <3>2. PICK p \in 0 .. n - 1 : k \in {3 * p + 1, 3 * p + 2, 3 * p + 3}
          BY <1>0, <3>1, Places3
    <3>3. order[p + 1] = s /\ p + 1 \in 1 .. n /\ q + 1 \in 1 .. n
          BY <1>0, <1>1, <2>2, <3>1, <3>2
    <3>4. p = q
          BY <1>2, <2>2, <3>3
    <3>5. vals[3 * p + 1].code = "SLOT" /\ vals[3 * p + 2].code = "X" /\ vals[3 * p + 3].code = "Y"
          BY <1>3, EventFields
    <3>6. k = 3 * p + r
          BY <1>5, <3>1, <3>2, <3>5
    <3>   QED BY <3>4, <3>6
  <2>7. i \in Int
        BY <2>2
  <2>   HIDE DEF i
  <2>8. (CHOOSE k \in given(code) : \A l \in given(code) : l <= k) = i
    <3>1. given(code) = {i}
          BY <2>5, <2>6
    <3>2. i <= i
          BY <2>7
    <3>   QED BY <3>1, <3>2
  <2>9. given(code) # {}
        BY <2>5
  <2>   QED BY <2>4, <2>8, <2>9 DEF Captured
<1>6. ASSUME s \in Touches(frame) PROVE Captured(s, "X", old) = frame[s][1]
  <2>1. 2 \in {2, 3} /\ 2 = (IF "X" = "X" THEN 2 ELSE 3) /\ 2 - 1 = 1
        OBVIOUS
  <2>   QED BY <1>5, <1>6, <2>1
<1>7. ASSUME s \in Touches(frame) PROVE Captured(s, "Y", old) = frame[s][2]
  <2>1. 3 \in {2, 3} /\ 3 = (IF "Y" = "X" THEN 2 ELSE 3) /\ 3 - 1 = 2
        OBVIOUS
  <2>   QED BY <1>5, <1>7, <2>1
<1>   QED BY <1>4, <1>6, <1>7

-------------------------------------------------------------------------------

LEMMA InputInitInv == InputInit => InputInv
<1>0. SUFFICES ASSUME InputInit PROVE InputInv
      OBVIOUS
<1>1. /\ frame = [s \in Slots |-> Absent] /\ pending = <<>> /\ vals = <<>>
      /\ present = [s \in Slots |-> FALSE] /\ abs = [s \in Slots |-> <<0, 0>>]
      /\ fingers = frame
      BY <1>0 DEF InputInit
<1>2. <<>> \in Seq(Events)
      BY EmptySeq
<1>3. InputTypeInv
      BY <1>1, <1>2 DEF InputTypeInv, Places
<1>4. \A s \in Slots : Known(s)
      BY <1>1 DEF Known
<1>5. FrameInv
      BY <1>1 DEF FrameInv
<1>   QED BY <1>3, <1>4, <1>5 DEF InputInv

LEMMA CallsAreEvents ==
    ASSUME NEW f \in [Slots -> Places], NEW order \in Orders(f)
    PROVE  /\ Calls(f, order) \in Seq(Events)
           /\ Len(Calls(f, order)) \in Nat /\ Len(Calls(f, order)) <= MaxVals
           /\ \A i \in 1 .. Len(Calls(f, order)) : /\ Calls(f, order)[i].type = "EV_ABS"
                                                    /\ Calls(f, order)[i] # Sync
<1>   DEFINE calls == Calls(f, order)
<1>1. calls \in Seq(CallEvents)
      BY CallsShape
<1>2. calls \in Seq(Events)
  <2>   HIDE DEF calls
  <2>   QED BY <1>1, SeqMonotonic DEF Events
<1>3. Len(calls) \in Nat /\ Len(calls) <= MaxVals
  <2>   DEFINE n == Cardinality(Touches(f))
  <2>1. n \in Nat /\ n <= NumSlots /\ Len(calls) = 3 * n
        BY TouchesFinite, CallsShape
  <2>2. MaxVals \in Nat /\ NumSlots \in Nat /\ MaxVals >= 3 * NumSlots
        BY InputAssumption
  <2>   HIDE DEF n, calls
  <2>   QED BY <2>1, <2>2
<1>4. ASSUME NEW i \in 1 .. Len(calls) PROVE calls[i].type = "EV_ABS" /\ calls[i] # Sync
  <2>1. calls[i] \in CallEvents
        BY <1>1, ElementOfSeq
  <2>   HIDE DEF calls
  <2>2. PICK code \in {"SLOT", "X", "Y"}, value \in Nat : calls[i] = Event(code, value)
        BY <2>1 DEF CallEvents
  <2>   QED BY <2>2, EventFields
<1>   QED BY <1>2, <1>3, <1>4

LEMMA ReportInv ==
    ASSUME NEW f \in [Slots -> Places], NEW order \in Orders(f), NEW key \in BOOLEAN
    PROVE  InputInv /\ ReportFrame(f, order, key) => InputInv'
<1>0. SUFFICES ASSUME InputInv, ReportFrame(f, order, key) PROVE InputInv'
      OBVIOUS
<1>   DEFINE calls == Calls(f, order)
             keys  == IF key THEN <<Key>> ELSE <<>>
             sync  == <<Sync>>
             n     == Len(calls)
<1>1. /\ pending' = keys \o calls \o sync /\ frame' = f /\ vals' = <<>>
      /\ UNCHANGED <<present, abs, fingers>>
      BY <1>0 DEF ReportFrame
<1>2. calls \in Seq(Events) /\ n \in Nat
      BY CallsAreEvents
<1>3. sync \in Seq(Events) /\ Len(sync) = 1 /\ sync[1] = Sync
      BY DEF Events
<1>4. /\ keys \in Seq(Events)
      /\ \/ key = TRUE /\ Len(keys) = 1 /\ keys[1] = Key
         \/ key = FALSE /\ Len(keys) = 0
  <2>1. CASE key = TRUE
        BY <2>1 DEF Events
  <2>2. CASE key = FALSE
        BY <2>2, EmptySeq
  <2>   QED BY <2>1, <2>2
<1>   HIDE DEF keys, sync, calls
<1>5. /\ keys \o calls \in Seq(Events) /\ Len(keys \o calls) = Len(keys) + n
      /\ \A i \in 1 .. Len(keys) + n :
            (keys \o calls)[i] = IF i <= Len(keys) THEN keys[i] ELSE calls[i - Len(keys)]
      BY <1>2, <1>4, ConcatProperties
<1>6. /\ pending' \in Seq(Events) /\ Len(pending') = Len(keys) + n + 1
      /\ \A i \in 1 .. Len(keys) + n : pending'[i] = (keys \o calls)[i]
      /\ pending'[Len(keys) + n + 1] = Sync
  <2>   DEFINE front == keys \o calls
  <2>1. front \in Seq(Events) /\ Len(front) \in Nat /\ pending' = front \o sync
        BY <1>1, <1>5
  <2>   HIDE DEF front
  <2>2. /\ pending' \in Seq(Events) /\ Len(pending') = Len(front) + 1
        /\ \A i \in 1 .. Len(front) : pending'[i] = front[i]
        /\ pending'[Len(front) + 1] = Sync
    <3>1. /\ front \o sync \in Seq(Events) /\ Len(front \o sync) = Len(front) + Len(sync)
          /\ \A i \in 1 .. Len(front) + Len(sync) :
                (front \o sync)[i] = IF i <= Len(front) THEN front[i] ELSE sync[i - Len(front)]
          BY <1>3, <2>1, ConcatProperties
    <3>2. /\ Len(front) + 1 \in 1 .. Len(front) + 1 /\ ~(Len(front) + 1 <= Len(front))
          /\ (Len(front) + 1) - Len(front) = 1
          /\ \A i \in 1 .. Len(front) : i \in 1 .. Len(front) + 1 /\ i <= Len(front)
          BY <2>1
    <3>   QED BY <1>3, <2>1, <3>1, <3>2
  <2>3. Len(front) = Len(keys) + n
        BY <1>5 DEF front
  <2>   QED BY <2>2, <2>3 DEF front
<1>7. InputTypeInv'
  <2>1. <<>> \in Seq(Events)
        BY EmptySeq
  <2>   QED BY <1>0, <1>1, <1>6, <2>1 DEF InputInv, InputTypeInv
<1>8. \A s \in Slots : Known(s)'
      BY <1>0, <1>1 DEF InputInv, Known
<1>9. KeyFirst(calls)' \/ Collected(calls, 0)'
  <2>1. CASE key = TRUE
    <3>1. Len(keys) = 1 /\ keys[1] = Key
          BY <1>4, <2>1
    <3>2. Len(pending') = n + 2 /\ pending'[n + 2] = Sync
          BY <1>2, <1>6, <3>1
    <3>3. pending'[1] = Key
          BY <1>2, <1>5, <1>6, <3>1
    <3>4. ASSUME NEW i \in 1 .. n PROVE pending'[i + 1] = calls[i]
      <4>1. i + 1 \in 1 .. Len(keys) + n /\ ~(i + 1 <= Len(keys)) /\ (i + 1) - Len(keys) = i
            BY <1>2, <3>1
      <4>   QED BY <1>5, <1>6, <4>1
    <3>5. KeyFirst(calls)'
      <4>1. calls' = calls
            BY DEF calls
      <4>   QED BY <1>1, <3>2, <3>3, <3>4, <4>1 DEF KeyFirst
    <3>   QED BY <3>5
  <2>2. CASE key = FALSE
    <3>1. Len(keys) = 0
          BY <1>4, <2>2
    <3>2. Len(pending') = n - 0 + 1 /\ pending'[n - 0 + 1] = Sync
          BY <1>2, <1>6, <3>1
    <3>3. ASSUME NEW i \in 1 .. n PROVE pending'[i] = calls[i]
      <4>1. i \in 1 .. Len(keys) + n /\ ~(i <= Len(keys)) /\ i - Len(keys) = i
            BY <1>2, <3>1
      <4>   QED BY <1>5, <1>6, <4>1
    <3>4. \A i \in 1 .. n - 0 : pending'[i] = calls[0 + i]
      <4>1. n - 0 = n /\ \A i \in 1 .. n : 0 + i = i
            BY <1>2
      <4>   QED BY <3>3, <4>1
    <3>5. Len(vals') = 0
          BY <1>1
    <3>6. Collected(calls, 0)'
      <4>1. calls' = calls
            BY DEF calls
      <4>2. \A i \in 1 .. 0 : vals'[i] = calls[i]
            OBVIOUS
      <4>   QED BY <3>2, <3>4, <3>5, <4>1, <4>2 DEF Collected
    <3>   QED BY <3>6
  <2>   QED BY <2>1, <2>2
<1>10. FrameInv'
  <2>1. order \in Orders(frame') /\ calls = Calls(frame', order)
        BY <1>1 DEF calls
  <2>2. 0 \in 0 .. Len(calls)
        BY <1>2
  <2>3. KeyFirst(Calls(frame, order))' \/ \E k \in 0 .. Len(Calls(frame', order)) : Collected(Calls(frame, order), k)'
        BY <1>9, <2>1, <2>2 DEF KeyFirst, Collected
  <2>4. order \in Orders(frame)'
        BY <2>1
  <2>   QED BY <2>3, <2>4 DEF FrameInv
<1>   QED BY <1>7, <1>8, <1>10 DEF InputInv

LEMMA EventInv == InputInv /\ input_event => InputInv'
<1>0. SUFFICES ASSUME InputInv, input_event PROVE InputInv'
      OBVIOUS
<1>1. /\ pending # <<>> /\ Head(pending) # Sync
      /\ vals' = IF Len(vals) = MaxVals \/ Head(pending).type # "EV_ABS"
                 THEN vals ELSE Append(vals, Head(pending))
      /\ pending' = Tail(pending)
      /\ UNCHANGED <<frame, present, abs, fingers>>
      BY <1>0 DEF input_event
<1>2. /\ pending \in Seq(Events) /\ vals \in Seq(Events) /\ frame \in [Slots -> Places]
      BY <1>0 DEF InputInv, InputTypeInv
<1>3. /\ Len(pending) \in Nat /\ Head(pending) \in Events /\ Head(pending) = pending[1]
      /\ Tail(pending) \in Seq(Events) /\ Len(Tail(pending)) = Len(pending) - 1
      /\ \A i \in 1 .. Len(pending) - 1 : Tail(pending)[i] = pending[i + 1]
      BY <1>1, <1>2
<1>4. InputTypeInv'
  <2>1. vals' \in Seq(Events)
        BY <1>1, <1>2, <1>3
  <2>   QED BY <1>0, <1>1, <1>3, <2>1 DEF InputInv, InputTypeInv
<1>5. \A s \in Slots : Known(s)'
      BY <1>0, <1>1 DEF InputInv, Known
<1>6. PICK order \in Orders(frame) :
          KeyFirst(Calls(frame, order))
          \/ \E k \in 0 .. Len(Calls(frame, order)) : Collected(Calls(frame, order), k)
      BY <1>0, <1>1 DEF InputInv, FrameInv
<1>   DEFINE calls == Calls(frame, order)
             n     == Len(calls)
<1>7. /\ n \in Nat /\ n <= MaxVals /\ MaxVals \in Nat
      /\ \A i \in 1 .. n : calls[i].type = "EV_ABS" /\ calls[i] # Sync
      BY <1>2, CallsAreEvents, InputAssumption
<1>8. calls' = calls /\ order \in Orders(frame')
      BY <1>1
<1>   HIDE DEF calls
<1>9. \E k \in 0 .. n : Collected(calls, k)'
  <2>1. CASE KeyFirst(calls)
    <3>1. /\ vals = <<>> /\ Len(pending) = n + 2 /\ pending[1] = Key /\ pending[n + 2] = Sync
          /\ \A i \in 1 .. n : pending[i + 1] = calls[i]
          BY <2>1 DEF KeyFirst
    <3>2. vals' = <<>>
      <4>1. Head(pending).type # "EV_ABS"
            BY <1>3, <3>1 DEF Key
      <4>   QED BY <1>1, <3>1, <4>1
    <3>3. /\ Len(pending') = n - 0 + 1 /\ pending'[n - 0 + 1] = Sync
          /\ \A i \in 1 .. n - 0 : pending'[i] = calls[0 + i]
      <4>1. \A i \in 1 .. n + 1 : pending'[i] = pending[i + 1]
            BY <1>1, <1>3, <1>7, <3>1
      <4>2. n + 1 \in 1 .. n + 1 /\ (n + 1) + 1 = n + 2 /\ n - 0 = n /\ (n + 2) - 1 = n + 1
            BY <1>7
      <4>3. pending'[n + 1] = Sync
            BY <3>1, <4>1, <4>2
      <4>4. \A i \in 1 .. n : pending'[i] = calls[i] /\ 0 + i = i
            BY <1>7, <3>1, <4>1
      <4>5. Len(pending') = n + 1
            BY <1>1, <1>3, <3>1, <4>2
      <4>   QED BY <4>2, <4>3, <4>4, <4>5
    <3>4. Len(vals') = 0
          BY <3>2
    <3>5. Collected(calls, 0)'
      <4>1. \A i \in 1 .. 0 : vals'[i] = calls[i]
            OBVIOUS
      <4>   QED BY <1>8, <3>3, <3>4, <4>1 DEF Collected
    <3>   QED BY <1>7, <3>5
  <2>2. ASSUME NEW k \in 0 .. n, Collected(calls, k)
        PROVE  \E j \in 0 .. n : Collected(calls, j)'
    <3>1. /\ Len(vals) = k /\ Len(pending) = n - k + 1 /\ pending[n - k + 1] = Sync
          /\ \A i \in 1 .. k : vals[i] = calls[i]
          /\ \A i \in 1 .. n - k : pending[i] = calls[k + i]
          BY <2>2 DEF Collected
    <3>2. k < n
      <4>1. k = n => pending[1] = Sync
            BY <1>7, <3>1
      <4>   QED BY <1>1, <1>3, <1>7, <4>1
    <3>3. Head(pending) = calls[k + 1] /\ k + 1 \in 1 .. n
          BY <1>3, <1>7, <3>1, <3>2
    <3>4. vals' = Append(vals, calls[k + 1])
      <4>1. Len(vals) # MaxVals
            BY <1>7, <3>1, <3>2
      <4>   QED BY <1>1, <1>7, <3>3, <4>1
    <3>5. Len(vals') = k + 1 /\ \A i \in 1 .. k + 1 : vals'[i] = calls[i]
          BY <1>2, <3>1, <3>4
    <3>6. /\ Len(pending') = n - (k + 1) + 1 /\ pending'[n - (k + 1) + 1] = Sync
          /\ \A i \in 1 .. n - (k + 1) : pending'[i] = calls[(k + 1) + i]
      <4>1. \A i \in 1 .. n - k : pending'[i] = pending[i + 1]
            BY <1>1, <1>3, <1>7, <3>1
      <4>2. n - k \in 1 .. n - k /\ n - (k + 1) + 1 = n - k /\ (n - k + 1) - 1 = n - k
            BY <1>7, <3>2
      <4>3. pending'[n - k] = Sync
            BY <3>1, <4>1, <4>2
      <4>4. ASSUME NEW i \in 1 .. n - (k + 1) PROVE pending'[i] = calls[(k + 1) + i]
        <5>1. i \in 1 .. n - k /\ i + 1 \in 1 .. n - k /\ k + (i + 1) = (k + 1) + i
              BY <1>7
        <5>   QED BY <3>1, <4>1, <5>1
      <4>5. Len(pending') = n - k
            BY <1>1, <1>3, <3>1, <4>2
      <4>   QED BY <4>2, <4>3, <4>4, <4>5
    <3>7. Collected(calls, k + 1)'
          BY <1>8, <3>5, <3>6 DEF Collected
    <3>8. k + 1 \in 0 .. n
          BY <1>7, <3>2
    <3>   QED BY <3>7, <3>8
  <2>   QED BY <1>6, <2>1, <2>2 DEF calls
<1>10. FrameInv'
  <2>1. \E k \in 0 .. Len(Calls(frame', order)) : Collected(Calls(frame, order), k)'
        BY <1>8, <1>9 DEF calls
  <2>   QED BY <1>8, <2>1 DEF FrameInv
<1>   QED BY <1>4, <1>5, <1>10 DEF InputInv

LEMMA SyncInv == InputInv /\ input_mt_sync_frame => InputInv'
<1>0. SUFFICES ASSUME InputInv, input_mt_sync_frame PROVE InputInv'
      OBVIOUS
<1>1. /\ pending = <<Sync>> /\ pending' = <<>> /\ vals' = <<>> /\ frame' = frame
      /\ abs' = [s \in Slots |-> NewAbs(s)]
      /\ present' = [s \in Slots |-> Touch(s) \/ (present[s] /\ ~Release(s))]
      /\ fingers' = [s \in Slots |-> IF Touch(s) THEN NewAbs(s)
                                     ELSE IF Release(s) THEN Absent ELSE fingers[s]]
      BY <1>0 DEF input_mt_sync_frame
<1>2. /\ frame \in [Slots -> Places] /\ fingers \in [Slots -> Places]
      /\ present \in [Slots -> BOOLEAN] /\ abs \in [Slots -> Nat \X Nat]
      /\ vals \in Seq(Events) /\ \A s \in Slots : Known(s)
      BY <1>0 DEF InputInv, InputTypeInv
<1>3. PICK order \in Orders(frame) : Complete(order)
  <2>1. Len(pending) = 1 /\ pending # <<>>
        BY <1>1
  <2>2. PICK order \in Orders(frame) :
            KeyFirst(Calls(frame, order))
            \/ \E k \in 0 .. Len(Calls(frame, order)) : Collected(Calls(frame, order), k)
        BY <1>0, <2>1 DEF InputInv, FrameInv
  <2>   DEFINE calls == Calls(frame, order)
               n     == Len(calls)
  <2>3. n \in Nat
        BY <1>2, CallsAreEvents
  <2>   HIDE DEF calls
  <2>4. ~KeyFirst(calls)
        BY <2>1, <2>3 DEF KeyFirst
  <2>5. PICK k \in 0 .. n : Collected(calls, k)
        BY <2>2, <2>4 DEF calls
  <2>6. k = n /\ Len(vals) = n /\ \A i \in 1 .. n : vals[i] = calls[i]
    <3>1. k \in Int /\ Len(vals) = k /\ n - k + 1 = 1 /\ \A i \in 1 .. k : vals[i] = calls[i]
      <4>1. /\ Len(vals) = k /\ Len(pending) = n - k + 1
            /\ \A i \in 1 .. k : vals[i] = calls[i]
            BY <2>5 DEF Collected
      <4>2. k \in Int
            BY <2>3
      <4>   QED BY <2>1, <4>1, <4>2
    <3>2. k = n
          BY <2>3, <3>1
    <3>   QED BY <3>1, <3>2
  <2>   QED BY <1>2, <2>6 DEF Complete, calls
<1>4. ASSUME NEW s \in Slots
      PROVE  /\ NewAbs(s) \in Nat \X Nat
             /\ fingers'[s] = frame[s] /\ present'[s] = (frame[s] # Absent)
             /\ frame[s] # Absent => abs'[s] = frame[s]
  <2>1. abs[s] \in Nat \X Nat /\ abs[s] = <<abs[s][1], abs[s][2]>>
        BY <1>2
  <2>2. Known(s) /\ present[s] \in BOOLEAN
        BY <1>2
  <2>3. abs'[s] = NewAbs(s)
        BY <1>1
  <2>4. CASE s \in Touches(frame)
    <3>1. Updated(s)
          BY <1>3, <2>4, UpdatedTouches
    <3>2. NewAbs(s) = <<frame[s][1], frame[s][2]>>
          BY <1>3, <2>4, CapturedValues DEF NewAbs
    <3>3. frame[s] \in Positions \X Positions /\ frame[s] # Absent
          BY <1>2, <2>4 DEF Touches, Places
    <3>4. NewAbs(s) = frame[s] /\ frame[s] \in Nat \X Nat
      <4>1. Positions \subseteq Nat
            BY InputAssumption
      <4>2. frame[s] = <<frame[s][1], frame[s][2]>>
            BY <3>3
      <4>   QED BY <3>2, <3>3, <4>1, <4>2
    <3>5. CASE Touch(s)
          BY <1>1, <2>3, <3>3, <3>4, <3>5
    <3>6. CASE ~Touch(s)
      <4>1. (present[s] = TRUE) /\ frame[s] = abs[s] /\ ~Release(s)
            BY <2>2, <3>1, <3>4, <3>6 DEF Touch, Changed, Release
      <4>2. fingers[s] = abs[s]
            BY <2>2, <4>1 DEF Known
      <4>3. fingers'[s] = fingers[s]
            BY <1>1, <3>6, <4>1
      <4>4. present'[s] = TRUE
            BY <1>1, <4>1
      <4>   QED BY <2>3, <3>3, <3>4, <4>1, <4>2, <4>3, <4>4
    <3>   QED BY <3>5, <3>6
  <2>5. CASE s \notin Touches(frame)
    <3>1. ~Updated(s) /\ ~Touch(s)
          BY <1>3, <2>5, UpdatedTouches DEF Touch
    <3>2. NewAbs(s) = abs[s]
      <4>1. Captured(s, "X", abs[s][1]) = abs[s][1] /\ Captured(s, "Y", abs[s][2]) = abs[s][2]
            BY <1>3, <2>5, CapturedValues
      <4>   QED BY <2>1, <4>1 DEF NewAbs
    <3>3. frame[s] = Absent
          BY <2>5 DEF Touches
    <3>4. CASE present[s] = TRUE
      <4>1. Release(s)
            BY <3>1, <3>4 DEF Release
      <4>2. fingers'[s] = Absent /\ present'[s] = FALSE
            BY <1>1, <3>1, <4>1
      <4>   QED BY <2>1, <3>2, <3>3, <4>2
    <3>5. CASE present[s] = FALSE
      <4>1. ~Release(s) /\ fingers[s] = Absent
            BY <2>2, <3>5 DEF Release, Known
      <4>2. fingers'[s] = Absent /\ present'[s] = FALSE
            BY <1>1, <3>1, <3>5, <4>1
      <4>   QED BY <2>1, <3>2, <3>3, <4>2
    <3>   QED BY <2>2, <3>4, <3>5
  <2>   QED BY <2>4, <2>5
<1>5. fingers' = frame
  <2>1. DOMAIN fingers' = Slots
        BY <1>1
  <2>2. \A s \in Slots : fingers'[s] = frame[s]
        BY <1>4
  <2>3. fingers' = [s \in Slots |-> fingers'[s]] /\ frame = [s \in Slots |-> frame[s]]
        BY <1>1, <1>2
  <2>   QED BY <2>2, <2>3
<1>6. InputTypeInv'
  <2>1. present' \in [Slots -> BOOLEAN]
        BY <1>1
  <2>2. abs' \in [Slots -> Nat \X Nat]
        BY <1>1, <1>4
  <2>3. <<>> \in Seq(Events)
        BY EmptySeq
  <2>   QED BY <1>1, <1>2, <1>5, <2>1, <2>2, <2>3 DEF InputTypeInv
<1>7. \A s \in Slots : Known(s)'
      BY <1>4, <1>5 DEF Known
<1>8. FrameInv'
      BY <1>1, <1>5 DEF FrameInv
<1>   QED BY <1>6, <1>7, <1>8 DEF InputInv

LEMMA InputNextInv == InputInv /\ [InputNext]_inputVars => InputInv'
<1>0. SUFFICES ASSUME InputInv, [InputNext]_inputVars PROVE InputInv'
      OBVIOUS
<1>1. ASSUME NEW f \in [Slots -> {Absent} \union (Positions \X Positions)], NEW key \in BOOLEAN,
             NEW order \in Orders(f), ReportFrame(f, order, key)
      PROVE  InputInv'
  <2>1. f \in [Slots -> Places]
        BY DEF Places
  <2>   QED BY <1>0, <1>1, <2>1, ReportInv, Zenon
<1>2. CASE input_event
      BY <1>0, <1>2, EventInv
<1>3. CASE input_mt_sync_frame
      BY <1>0, <1>3, SyncInv
<1>4. CASE UNCHANGED inputVars
      BY <1>0, <1>4 DEF inputVars, InputInv, InputTypeInv, Known, FrameInv, KeyFirst, Collected
<1>   QED BY <1>0, <1>1, <1>2, <1>3, <1>4, Zenon DEF InputNext

\* Whatever the number of slots and in whatever order the controller lists the touches,
\* the client of the event session knows, between two frames, exactly the fingers on the
\* screen, each at its position.
THEOREM FingersFollow == InputSpec => []FingersAgree
<1>1. InputSpec => []InputInv
      BY InputInitInv, InputNextInv, PTL DEF InputSpec
<1>2. InputInv => FingersAgree
  <2>1. ASSUME NEW order \in Orders(frame), frame \in [Slots -> Places], pending = <<>>,
               KeyFirst(Calls(frame, order))
               \/ \E k \in 0 .. Len(Calls(frame, order)) : Collected(Calls(frame, order), k)
        PROVE  FALSE
    <3>1. Len(Calls(frame, order)) \in Nat /\ Len(pending) = 0
          BY <2>1, CallsAreEvents
    <3>   QED BY <2>1, <3>1 DEF KeyFirst, Collected
  <2>   QED BY <2>1 DEF InputInv, InputTypeInv, FrameInv, FingersAgree
<1>   QED BY <1>1, <1>2, PTL

===============================================================================
