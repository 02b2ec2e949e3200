------------------------------ MODULE AudioCodec ------------------------------
(***************************************************************************)
(* The control of the PinePhone's audio codec.  The analog part has eight- *)
(* bit registers, each shared by several settings; whatever ran before has *)
(* left its values in them.                                                *)
(***************************************************************************)
EXTENDS Integers, Sequences

CONSTANTS
    Volumes,     \* volumes of the outputs in a configuration, in per cent
    MicVolumes,  \* and of the microphone
    Leftovers    \* what the registers may contain when the driver starts

Registers == [0 .. 14 -> 0 .. 255]

ASSUME VolumesAssumption ==
    Volumes \union MicVolumes \subseteq Nat /\ Leftovers \subseteq Registers

Outputs == {"earpiece", "speaker", "headphone"}

AudioConfigs == {[mic |-> m, target |-> t, out |-> o] :
                    m \in MicVolumes, t \in {"soc", "modem"}, o \in [Outputs -> Volumes]}

VARIABLES
    analog,        \* the analog registers, by their opcodes of the access register Ac_pr
    _codec_state,  \* "NONE", "SOC", "MODEM"
    codec_config,  \* the platform device acquired for the routing, or "none"
    audio_config   \* the last configuration applied, its target "none" before the first

audioVars == <<analog, _codec_state, codec_config, audio_config>>

-------------------------------------------------------------------------------
(* Bit fields: register, weight of the lowest bit, number of values *)

Field == [HpVolume    |-> <<0, 1, 64>>,  HpEnable    |-> <<0, 32, 2>>,
          MuteLeft    |-> <<1, 2, 2>>,   MuteRight   |-> <<2, 2, 2>>,
          EarSource   |-> <<3, 1, 4>>,   EarEnable   |-> <<4, 128, 2>>,
          EarMuteOff  |-> <<4, 64, 2>>,  EarVolume   |-> <<4, 1, 32>>,
          LineRight   |-> <<5, 16, 2>>,  LineLeft    |-> <<5, 32, 2>>,
          LineEnable  |-> <<5, 64, 4>>,  LineVolume  |-> <<6, 1, 32>>,
          MicBoost    |-> <<7, 1, 8>>,   MicAmp      |-> <<7, 8, 2>>,
          MicGain     |-> <<7, 16, 8>>,  HpMute      |-> <<10, 4, 4>>,
          MixerEnable |-> <<10, 16, 4>>, DacEnable   |-> <<10, 64, 4>>,
          AdcMicLeft  |-> <<11, 64, 2>>, AdcMicRight |-> <<12, 64, 2>>,
          AdcLeft     |-> <<13, 64, 2>>, AdcRight    |-> <<13, 128, 2>>,
          MasterMic   |-> <<14, 128, 2>>]

\* A field of a register with content n
Bits(n, f) == (n \div Field[f][2]) % Field[f][3]

Get(reg, f) == Bits(reg[Field[f][1]], f)

\* write<Bitfield>: the register is read, the bits of the field are replaced, and
\* the register is written
Put(n, f, value) == n + ((value % Field[f][3]) - Bits(n, f)) * Field[f][2]

reg ++ write == [reg EXCEPT ![Field[write[1]][1]] = Put(@, write[1], write[2])]

_volume(volume, max) == (max * (IF volume > 100 THEN 100 ELSE volume)) \div 100

If(enabled, value) == IF enabled THEN value ELSE 0

-------------------------------------------------------------------------------
(* Settings: the fields written, in this order *)

Mic1Enabled(reg, v) == LET on == If(v # 0, 1) IN
    reg ++ <<"MicAmp", on>> ++ <<"MicBoost", 3>> ++ <<"MicGain", _volume(v, 7)>>
        ++ <<"AdcMicLeft", on>> ++ <<"AdcMicRight", on>> ++ <<"AdcLeft", on>>
        ++ <<"AdcRight", on>> ++ <<"MasterMic", on>>

EarpieceEnabled(reg, v) == LET on == If(v # 0, 1) IN
    reg ++ <<"EarSource", 1>> ++ <<"EarEnable", on>> ++ <<"EarMuteOff", on>>
        ++ <<"EarVolume", _volume(v, 31)>>

SpeakerEnabled(reg, v) == LET on == If(v # 0, 1) IN
    reg ++ <<"LineVolume", _volume(v, 31)>> ++ <<"LineRight", 1>> ++ <<"LineLeft", 1>>
        ++ <<"LineEnable", 3 * on>> ++ <<"MuteLeft", on>> ++ <<"MuteRight", on>>

\* The highest bit of the volume is the enable bit
HeadphoneEnabled_EnableFirst(reg, v) == LET on == If(v # 0, 1) IN
    reg ++ <<"HpEnable", on>> ++ <<"HpVolume", _volume(v, 63)>> ++ <<"HpMute", 3 * on>>
HeadphoneEnabled(reg, v) == LET on == If(v # 0, 1) IN
    reg ++ <<"HpVolume", _volume(v, 63)>> ++ <<"HpEnable", on>> ++ <<"HpMute", 3 * on>>

DacMixerEnabled(reg, enabled) ==
    reg ++ <<"DacEnable", If(enabled, 3)>> ++ <<"MixerEnable", If(enabled, 3)>>

\* The routing device is exchanged only when the target changes
Route(target) ==
    LET state == IF target = "soc" THEN "SOC" ELSE "MODEM" IN
    /\ _codec_state' = state
    /\ codec_config' = IF _codec_state = state THEN codec_config
                       ELSE IF state = "SOC" THEN "audio_codec_soc" ELSE "audio_codec_modem"

ApplyAudioConfig(c) ==
    /\ Route(c.target)
    /\ LET mic     == Mic1Enabled(analog, c.mic)
           ear     == EarpieceEnabled(mic, c.out["earpiece"])
           speaker == SpeakerEnabled(ear, c.out["speaker"])
           hp      == HeadphoneEnabled(speaker, c.out["headphone"])
       IN  analog' = DacMixerEnabled(hp, \E o \in Outputs : c.out[o] # 0)
    /\ audio_config' = c

AudioControlInit ==
    /\ analog \in Leftovers
    /\ _codec_state = "NONE" /\ codec_config = "none"
    /\ audio_config = [mic |-> 0, target |-> "none", out |-> [o \in Outputs |-> 0]]

AudioControlNext == \E c \in AudioConfigs : ApplyAudioConfig(c)

AudioControlSpec == AudioControlInit /\ [][AudioControlNext]_audioVars

-------------------------------------------------------------------------------
(* Properties *)

\* Everything on the way from the DAC to an output is switched on, and its volume
\* is none that mutes it (comments at the volume fields)
Audible(reg, output) ==
    LET Has(f, v) == Get(reg, f) = v IN
    /\ Has("DacEnable", 3) /\ Has("MixerEnable", 3)
    /\ CASE output = "earpiece" ->
              Has("EarSource", 1) /\ Has("EarEnable", 1) /\ Has("EarMuteOff", 1)
              /\ Get(reg, "EarVolume") > 1
         [] output = "speaker" ->
              Has("LineEnable", 3) /\ Has("LineLeft", 1) /\ Has("LineRight", 1)
              /\ Has("MuteLeft", 1) /\ Has("MuteRight", 1) /\ Get(reg, "LineVolume") > 1
         [] output = "headphone" ->
              Has("HpEnable", 1) /\ Has("HpMute", 3) /\ Get(reg, "HpVolume") > 0

Recording(reg) ==
    \A f \in {"MicAmp", "AdcMicLeft", "AdcMicRight", "AdcLeft", "AdcRight", "MasterMic"} :
        Get(reg, f) = 1

\* The least volume that is heard: 31 steps, of which 0 and 1 mute
Heard == [earpiece |-> 7, speaker |-> 7, headphone |-> 1]

\* Whatever was set before, by this driver or another program, after each
\* configuration exactly the outputs it gives a volume are heard, the microphone
\* records only if it says so, and calls or the SoC own the codec as it says:
\* settings that share a register do not disturb each other (apply_config).
OutputsFollowConfig ==
    audio_config.target # "none" =>
        /\ \A o \in Outputs : Audible(analog, o) <=> audio_config.out[o] >= Heard[o]
        /\ Recording(analog) <=> audio_config.mic # 0
        /\ codec_config = IF audio_config.target = "soc" THEN "audio_codec_soc"
                          ELSE "audio_codec_modem"
===============================================================================
