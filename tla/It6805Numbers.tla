---------------------------- MODULE It6805Numbers ----------------------------
(***************************************************************************)
(* What the IT6805 driver computes from what it measures                   *)
(* (gc573-it6805-core.c): the oscillator's dividers, the frame rate, the   *)
(* audio rate, and the description of the video signal.  One measurement   *)
(* per step; the next one starts anew.  The chip reads clock and rate of a *)
(* source with the same error.                                             *)
(***************************************************************************)
EXTENDS Integers, Sequences, SequencesExt, FiniteSetsExt

CONSTANTS
    Readings,      \* readings of the oscillator: <<24 bit count, scaled>>
    Percent,       \* what the chip reads of the true clock and rate, in percent
    Sources,       \* video sources: <<clock in kHz, rate in 1/100 Hz, VIC or 0>>
    AudioRates,    \* audio sources: rates in Hz that have a code of their own
    AudioPercent,  \* what is measured of them, in percent
    Sizes, Clocks  \* sizes <<w, h>> and pixel clocks (kHz) of the signals

VARIABLES kind, input, result
vars == <<kind, input, result>>

RoundDiv(a, b) == (a + b \div 2) \div b
Distance(a, b) == IF a > b THEN a - b ELSE b - a
\* The first element of a sequence that is nearest to v.
Nearest(v, seq) ==
    LET best == Min({Distance(v, x) : x \in ToSet(seq)}) IN
    SelectSeq(seq, LAMBDA x : Distance(v, x) = best)[1]

-----------------------------------------------------------------------------
(* The oscillator                                                           *)

MinKhz == 28500
MaxKhz == 47500
DefaultKhz == 38000

\* A reading out of range is replaced by the default.
OclkOf(count, scaled) ==
    LET khz == IF scaled THEN count \div 100 ELSE count IN
    IF khz < MinKhz \/ khz > MaxKhz THEN DefaultKhz ELSE khz

\* The dividers, before they are stored in a byte.
Dividers(khz) ==
    LET timer == khz \div 20 + khz \div 2 IN
    [reg91 |-> timer \div 1000, reg92 |-> ((timer % 1000) * 256) \div 1000,
     regfd |-> (khz \div 8) \div 25, reg45 |-> (khz \div 8) \div 39,
     reg44 |-> khz \div 1560, reg46 |-> khz \div 2320, reg47 |-> khz \div 5312]

-----------------------------------------------------------------------------
(* The frame rate                                                           *)

StdKhz == <<25200, 27000, 74250, 148500, 241500, 297000, 483400, 594000>>
StdFps == <<24, 25, 30, 50, 60, 120, 144, 180, 240>>
NominalRates == <<24, 25, 30, 50, 60, 75, 100, 120, 144, 180, 240>>

\* Mutant: only a reading around 85 percent counts as too low.
Rescaled_Narrow(rate, clock) ==
    LET ref == Nearest(clock, StdKhz)
        scaled == (rate * ref + clock \div 2) \div clock
        close == SelectSeq(StdFps, LAMBDA r : Distance(scaled, r) * 100 <= r * 5) IN
    IF rate \in ToSet(StdFps) THEN {rate}
    ELSE IF clock * 100 < ref * 84 \/ clock * 100 > ref * 86 \/ close = <<>> THEN {}
    ELSE {close[1]}

\* it6805_rescale_frame_rate, as the set of the one rate it finds or none.
Rescaled(rate, clock) ==
    LET ref == Nearest(clock, StdKhz)
        scaled == (rate * ref + clock \div 2) \div clock
        close == SelectSeq(StdFps, LAMBDA r : Distance(scaled, r) * 100 <= r * 5) IN
    IF rate \in ToSet(StdFps) THEN {rate}
    ELSE IF clock * 100 < ref * 80 \/ clock * 100 > ref * 92 \/ close = <<>> THEN {}
    ELSE {close[1]}

\* it6805_normalize_frame_rate
Normalized(x100, clock) ==
    LET rescaled == Rescaled(RoundDiv(x100, 100), clock)
        best == Nearest(x100, [i \in DOMAIN NominalRates |-> NominalRates[i] * 100]) IN
    IF x100 = 0 THEN 0
    ELSE IF rescaled # {} THEN CHOOSE r \in rescaled : TRUE
    ELSE IF Distance(x100, best) <= (best \div 100) * 3 THEN best \div 100
    ELSE Min({RoundDiv(x100, 100), 255})

\* it6805_vic_frame_rate: the rates of the CEA formats in the AVI infoframe.
VicRate(vic) ==
    IF vic \in {32, 93, 98, 103} THEN 24
    ELSE IF vic \in {33, 94, 99, 104} THEN 25
    ELSE IF vic \in {34, 95, 100, 105} THEN 30
    ELSE IF vic \in {17, 18, 19, 20, 31, 96, 101, 106} THEN 50
    ELSE IF vic \in {1, 2, 3, 4, 5, 16, 97, 102, 107} THEN 60
    ELSE IF vic \in {41, 64} THEN 100
    ELSE IF vic \in {47, 63} THEN 120
    ELSE 0

-----------------------------------------------------------------------------
(* The audio rate                                                           *)

\* it6805_audio_rate_code: lowest and highest kHz of each code, named by its rate.
Ranges == << <<26, 38, 32000>>, <<39, 45, 44100>>, <<46, 58, 48000>>, <<59, 78, 64000>>,
    <<79, 92, 88200>>, <<93, 106, 96000>>, <<107, 166, 128000>>, <<167, 182, 176400>>,
    <<183, 202, 192000>>, <<225, 320, 256000>>, <<321, 448, 384000>>, <<449, 638, 512000>>,
    <<639, 894, 768000>> >>

RateCode(khz) ==
    LET in == {i \in DOMAIN Ranges : khz >= Ranges[i][1] /\ khz <= Ranges[i][2]} IN
    IF in = {} THEN 1024000 ELSE Ranges[CHOOSE i \in in : TRUE][3]

\* it6805_nominal_audio_rate: of the common codes the rate, else what is measured.
NominalRate(khz) ==
    IF RateCode(khz) \in {32000, 44100, 48000} THEN RateCode(khz) ELSE khz * 1000

-----------------------------------------------------------------------------
(* The video signal                                                         *)

Spaces == {"rgb", "ycbcr422", "ycbcr444", "ycbcr420"}

\* A chip reading: active size, clock, interlaced, color space, quantization,
\* colorimetry (BT.2020 or not), EOTF of the DRM infoframe.
Signals == [w : {s[1] : s \in Sizes}, h : {s[2] : s \in Sizes}, clock : Clocks,
            interlaced : BOOLEAN, space : Spaces, limited : BOOLEAN, bt2020 : BOOLEAN,
            eotf : {"none", "pq", "hlg"}]

\* The end of it6805_refresh_video_timing_locked refuses what cannot be a mode.
Plausible(s) ==
    /\ ~(s.w = 1440 /\ s.h = 900 /\ (s.clock < 95000 \/ s.clock >= 120000))
    /\ s.w >= 320 /\ s.h * (IF s.interlaced THEN 2 ELSE 1) >= 240 /\ s.clock > 0

ActiveWidth(s) == IF s.space = "ycbcr420" THEN 2 * s.w ELSE s.w
ActiveHeight(s) == IF s.interlaced THEN 2 * s.h ELSE s.h

HighBandwidthKhz == 150000
\* it6805_use_high_bandwidth_output
HighBandwidth(s) ==
    s.space # "ycbcr420" /\ (ActiveWidth(s) > 1920 \/ s.clock > HighBandwidthKhz)

\* it6805_configure_video_output_locked: <<TTL pixel mode, LVDS pixel mode>>
OutputModes(s) ==
    IF s.space = "ycbcr420" THEN <<0, 1>> ELSE IF HighBandwidth(s) THEN <<1, 1>> ELSE <<0, 0>>

\* it6805_classify_hdr
Hdr(s) ==
    IF s.eotf = "none" THEN "sdr"
    ELSE IF s.eotf = "hlg" THEN "hlg"
    ELSE IF s.bt2020 THEN "pq_bt2020" ELSE "pq"

\* it6805_video_input_class
InputClass(w, h) ==
    IF w >= 1920 /\ h >= 2160 THEN "uhd"
    ELSE IF h > 576 THEN "hd" ELSE "sd"

\* it6805_video_colorimetry
Colorimetry(s, w, h) ==
    IF s.bt2020 THEN "bt2020" ELSE IF InputClass(w, h) = "sd" THEN "bt601" ELSE "bt709"

\* gc555_it6805_get_video_signal
SignalOf(s) ==
    LET w == ActiveWidth(s)
        h == ActiveHeight(s) IN
    [width |-> w, height |-> h, class |-> InputClass(w, h), sampling |-> s.space,
     encoding |-> IF s.space # "rgb" THEN "yuv" ELSE IF s.limited THEN "limited" ELSE "full",
     colorimetry |-> Colorimetry(s, w, h), hdr |-> Hdr(s),
     dual_pixel |-> OutputModes(s)[2] = 1, ddr |-> OutputModes(s)[1] = 1]

-----------------------------------------------------------------------------
Init == kind = "none" /\ input = <<>> /\ result = <<>>

CalibrateOclk ==
    /\ kind = "none" /\ kind' = "oclk"
    /\ \E r \in Readings : input' = [reading |-> r] /\ result' = Dividers(OclkOf(r[1], r[2]))

MeasureRate ==
    /\ kind = "none" /\ kind' = "rate"
    /\ \E s \in Sources, p \in Percent :
        /\ input' = [source |-> s, percent |-> p]
        /\ result' = [rate |-> Normalized((s[2] * p) \div 100, (s[1] * p) \div 100)]

\* The refreshed AVI infoframe overrides the rate if it names a known format.
MeasureVic ==
    /\ kind = "rate" /\ kind' = "vic"
    /\ \E vic \in 0 .. 127 :
        /\ input' = [source |-> input.source, vic |-> vic]
        /\ result' = [rate |-> IF VicRate(vic) # 0 THEN VicRate(vic) ELSE result.rate]

MeasureAudio ==
    /\ kind = "none" /\ kind' = "audio"
    /\ \E r \in AudioRates, p \in AudioPercent :
        LET khz == (r * p) \div 100000 IN
        input' = [rate |-> r] /\ result' = [code |-> RateCode(khz), rate |-> NominalRate(khz)]

ReadSignal ==
    /\ kind = "none" /\ kind' = "signal"
    /\ \E s \in Signals : Plausible(s) /\ input' = s /\ result' = SignalOf(s)

Again == kind # "none" /\ kind' = "none" /\ input' = <<>> /\ result' = <<>>

Next == CalibrateOclk \/ MeasureRate \/ MeasureVic \/ MeasureAudio \/ ReadSignal \/ Again

Spec == Init /\ [][Next]_vars

-----------------------------------------------------------------------------
(* Properties                                                               *)

\* Every divider fits its byte, register 0x91 its six bits, whatever the chip
\* reads as its clock.
DividersFit ==
    kind = "oclk" =>
        /\ \A r \in DOMAIN result : result[r] \in 0 .. 255
        /\ result.reg91 < 64

\* A rate read with its clock 8 to 20 percent too low is repaired, and one read
\* right is kept; except where the low rate is itself a standard one, or the low
\* clock nearer to another standard clock.
RateRepaired ==
    kind = "rate" =>
        LET true == RoundDiv(input.source[2], 100)
            read == RoundDiv((input.source[2] * input.percent) \div 100, 100)
            clock == (input.source[1] * input.percent) \div 100 IN
        read \notin ToSet(StdFps) \ {true} /\ Nearest(clock, StdKhz) = input.source[1]
            => result.rate = true

\* A source that names its format has the rate of the format, however its clock
\* was read.
VicDecides ==
    kind = "vic" /\ input.vic = input.source[3] /\ input.vic # 0 =>
        result.rate = RoundDiv(input.source[2], 100)

\* A source measured twice with an error of a few percent has one code, its own:
\* the monitor that compares codes does not restart the audio again and again.
CodeIsStable ==
    kind = "audio" =>
        result.code = input.rate /\ (input.rate <= 48000 => result.rate = input.rate)

\* What needs more than 150 MHz, or more than 1920 pixels, comes with two pixels
\* a clock; DDR comes with dual pixel only.
FastIsDual ==
    kind = "signal" =>
        /\ input.clock > HighBandwidthKhz \/ result.width > 1920 => result.dual_pixel
        /\ result.ddr => result.dual_pixel

\* HDR PQ is reported with BT.2020 primaries exactly if the colorimetry says so.
HdrMatchesColors ==
    kind = "signal" =>
        /\ result.hdr = "pq_bt2020" => result.colorimetry = "bt2020"
        /\ result.hdr = "pq" => result.colorimetry # "bt2020"
=============================================================================
