------------------------------ MODULE FpgaModes ------------------------------
(***************************************************************************)
(* Which video modes start (gc573-fpga.c, gc573-video.c).  STREAMON asks   *)
(* two judges one after the other: the mode table of the capture device    *)
(* (VideoFormats) and the list of native modes of the FPGA (Accepts).      *)
(* The signal both see is the receiver's (It6805Numbers).  Both callers of *)
(* the FPGA pass the size and rate of the signal as the output's, so that  *)
(* the comparisons of input and output are left out.                       *)
(***************************************************************************)
EXTENDS Integers, FiniteSets, TLC

CONSTANT Sources    \* <<width, height, interlaced, frame rate, clock in kHz>>

VARIABLES
    chip,       \* what the receiver reads of its input; none before
    signal,     \* what it reports
    format,     \* the format of the application
    verdict     \* of STREAMON
vars == <<chip, signal, format, verdict>>

Table == INSTANCE VideoFormats WITH
    Rates <- {60}, Slack <- {0}, pix <- 0, frame_rate_hz <- 0, timings <- 0, last <- 0
Receiver == INSTANCE It6805Numbers WITH
    Readings <- {}, Percent <- {}, AudioRates <- {}, AudioPercent <- {}, Sizes <- {},
    Clocks <- {}, Sources <- {}, kind <- 0, input <- 0, result <- 0

-----------------------------------------------------------------------------
(* The native modes                                                         *)

RateIn(r, ranges) == \E i \in ranges : r >= i[1] /\ r <= i[2]

Film == {<<23, 25>>, <<29, 31>>}
Broadcast == {<<48, 52>>, <<57, 63>>}

Is(c, class, w, h, ranges) ==
    c.class = class /\ c.width = w /\ c.height = h /\ RateIn(c.rate, ranges)

Native4kHigh(c) == Is(c, "uhd", 3840, 2160, Broadcast)
Native4kLow(c) == Is(c, "uhd", 3840, 2160, Film)
Native2880x2160(c) == Is(c, "uhd", 2880, 2160, Film \cup Broadcast)
\* Mutant: the upper end of the high rates of 1440 lines is 120 Hz.
Native1440High_To120(c) == Is(c, "hd", 2560, 1440, {<<95, 121>>})
Native1440High(c) == Is(c, "hd", 2560, 1440, {<<95, 150>>})
Native1440p60(c) == Is(c, "hd", 2560, 1440, {<<48, 61>>})
Native1440Yuv444(c) ==
    /\ Native1440High(c) /\ c.rate = 144
    /\ c.encoding = "yuv" /\ c.sampling = "ycbcr444" /\ c.colorimetry = "bt709"
Native3440x1440(c) == Is(c, "hd", 3440, 1440, Broadcast \cup {<<98, 102>>})
Native3840x1080(c) == Is(c, "hd", 3840, 1080, Broadcast \cup {<<115, 125>>})
Native1920x1200(c) == Is(c, "hd", 1920, 1200, {<<57, 63>>})
Native1080High(c) ==
    Is(c, "hd", 1920, 1080,
       {<<94, 105>>, <<115, 125>>, <<140, 148>>, <<175, 185>>, <<235, 245>>})
Native2560x1080p60(c) == Is(c, "hd", 2560, 1080, {<<57, 61>>})
Native2560x1080p144(c) == Is(c, "hd", 2560, 1080, {<<144, 144>>})
Native1080Low(c) == Is(c, "hd", 1920, 1080, {<<23, 61>>}) /\ ~c.interlaced

\* The modes whose transport is two pixels a clock on both edges.
DualModes(c) ==
    \/ Native4kHigh(c) \/ Native4kLow(c) \/ Native2880x2160(c)
    \/ Native1440High(c) \/ Native1440p60(c) \/ Native3440x1440(c)
    \/ Native3840x1080(c) \/ Native1920x1200(c) \/ Native1080High(c)
    \/ Native2560x1080p60(c) \/ Native2560x1080p144(c)

Rgb == {"full", "limited"}

\* Mutant: only HDR passes, not SDR with wide colors.
Bt2020_HdrOnly(c) ==
    /\ (DualModes(c) \/ Native1080Low(c)) /\ ~c.interlaced
    /\ c.colorimetry = "bt2020" /\ c.hdr = "pq_bt2020"
    /\ c.sampling \in {"rgb", "ycbcr422"}

\* gc555_fpga_is_native_bt2020_passthrough, which includes native_hdr_p010
Bt2020(c) ==
    /\ (DualModes(c) \/ Native1080Low(c)) /\ ~c.interlaced
    /\ c.colorimetry = "bt2020"
    /\ (c.encoding \in Rgb /\ c.sampling = "rgb") \/ (c.encoding = "yuv" /\ c.sampling = "ycbcr422")

Native1080iLimited(c) ==
    Is(c, "hd", 1920, 1080, {<<25, 25>>, <<30, 30>>}) /\ c.interlaced /\ c.encoding = "limited"
Native720Limited(c) == Is(c, "hd", 1280, 720, {<<49, 61>>}) /\ c.encoding = "limited"
Native640x480(c) ==
    Is(c, "sd", 640, 480, {<<60, 60>>, <<75, 75>>}) /\ c.encoding \in Rgb

\* Sizes and rates of broadcast SD, shared by RGB and YUV.
Sd480(c) ==
    /\ c.width \in {720, 1440} /\ c.height = 480
    /\ RateIn(c.rate, IF c.interlaced THEN {<<28, 31>>} ELSE {<<57, 63>>, <<48, 52>>, <<23, 31>>})
Sd576(c) ==
    /\ c.width \in {720, 1440} /\ c.height = 576
    /\ RateIn(c.rate, IF c.interlaced THEN {<<24, 26>>} ELSE {<<48, 52>>, <<57, 63>>, <<24, 26>>})
Sd240(c) ==
    /\ c.width \in {1440, 1920, 2880} /\ c.height = 240
    /\ ~c.interlaced /\ c.rate >= 48 /\ c.rate <= 63
SdSize(c) == Sd480(c) \/ Sd576(c) \/ Sd240(c)

\* gc555_fpga_is_native_broadcast_sd
BroadcastSd(c) == c.class = "sd" /\ SdSize(c) /\ c.encoding \in Rgb
NativeSd(c) == Native640x480(c) \/ BroadcastSd(c)

\* gc555_fpga_is_native_cea_yuv
CeaYuv(c) ==
    LET uhd == c.width \in {3840, 2880} /\ c.height = 2160 /\ ~c.interlaced
               /\ RateIn(c.rate, Film \cup Broadcast)
        fhd == c.width = 1920 /\ c.height = 1080 /\
               IF c.interlaced
               THEN RateIn(c.rate, {<<24, 26>>, <<29, 31>>}) /\ c.sampling # "ycbcr420"
               ELSE RateIn(c.rate, Film \cup Broadcast \cup {<<94, 105>>, <<115, 125>>})
        hd == c.width = 1280 /\ c.height = 720 /\ ~c.interlaced /\ RateIn(c.rate, Broadcast) IN
    /\ c.encoding = "yuv" /\ c.sampling \in {"ycbcr422", "ycbcr444", "ycbcr420"}
    /\ c.colorimetry \in (IF SdSize(c) THEN {"bt601", "bt709"} ELSE {"bt709"})
    /\ c.class = (IF SdSize(c) THEN "sd" ELSE IF uhd THEN "uhd" ELSE "hd")
    /\ uhd \/ fhd \/ hd \/ SdSize(c)

-----------------------------------------------------------------------------
(* gc555_fpga_validate_config                                               *)

\* The transport the mode needs. Mutant: 240 lines always want one pixel a clock.
Transport_Single240(c) ==
    IF CeaYuv(c) /\ c.sampling = "ycbcr420" THEN c.dual_pixel /\ ~c.ddr
    ELSE IF c.height # 240 /\ DualModes(c) THEN c.dual_pixel /\ c.ddr
    ELSE ~c.dual_pixel /\ ~c.ddr

Transport(c) ==
    IF CeaYuv(c) /\ c.sampling = "ycbcr420" THEN c.dual_pixel /\ ~c.ddr
    ELSE IF c.height = 240 /\ c.width \in {1440, 1920, 2880} THEN c.dual_pixel = c.ddr
    ELSE IF DualModes(c) THEN c.dual_pixel /\ c.ddr
    ELSE ~c.dual_pixel /\ ~c.ddr

\* Modes that take another encoding than full range RGB.
OtherEncoding(c) ==
    \/ Native1440Yuv444(c) \/ Bt2020(c)
    \/ (Native1440High(c) \/ Native1440p60(c)) /\ c.encoding = "limited"
    \/ Native2560x1080p60(c) /\ c.encoding \in Rgb
    \/ Native1080Low(c) /\ c.encoding = "limited"
    \/ Native1080High(c) \/ Native3840x1080(c) \/ Native1920x1200(c)
    \/ Native3440x1440(c) \/ Native2560x1080p144(c)
    \/ Native4kHigh(c) \/ Native4kLow(c) \/ Native2880x2160(c)
    \/ Native1080iLimited(c) \/ Native720Limited(c)
    \/ NativeSd(c) /\ c.encoding = "limited"

MaxWidth == 4096
MaxHeight == 2160

Accepts(c, f) ==
    /\ c.width \in 1 .. MaxWidth /\ c.height \in 1 .. MaxHeight
    /\ f \in {"bgr24", "rgb32"} => c.encoding \in Rgb /\ c.sampling = "rgb"
    /\ c.interlaced => Native1080iLimited(c) \/ BroadcastSd(c) \/ CeaYuv(c)
    /\ \/ c.class = "hd" \/ NativeSd(c) \/ CeaYuv(c)
       \/ Native4kHigh(c) \/ Native4kLow(c) \/ Native2880x2160(c)
    /\ c.hdr \in {"sdr", "hlg"} \/ Bt2020(c)
    /\ Transport(c)
    /\ \/ CeaYuv(c)
       \/ /\ c.encoding = "full" \/ OtherEncoding(c)
          /\ c.sampling = "rgb" \/ Native1440Yuv444(c) \/ Bt2020(c)
          /\ \/ c.colorimetry = "bt709" \/ Bt2020(c)
             \/ NativeSd(c) /\ c.colorimetry = "bt601"
    /\ c.width < 721 /\ c.height < 577 => NativeSd(c) \/ CeaYuv(c)

-----------------------------------------------------------------------------
(* STREAMON                                                                 *)

\* What the receiver reads of a source; 4:2:0 halves the line, a field the lines.
Input(s, space, limited, bt2020, eotf) ==
    [w |-> IF space = "ycbcr420" THEN s[1] \div 2 ELSE s[1],
     h |-> IF s[3] THEN s[2] \div 2 ELSE s[2],
     clock |-> s[5], interlaced |-> s[3], space |-> space, limited |-> limited,
     bt2020 |-> bt2020, eotf |-> eotf]

\* What it reports of it.
Report(input, rate) ==
    Receiver!SignalOf(input) @@ [interlaced |-> input.interlaced, rate |-> rate]

\* The table's question, of a signal and a format.
InTable(s, f) ==
    Table!SupportsSignal(f, [w |-> s.width, h |-> s.height, rate |-> s.rate, il |-> s.interlaced])

Unknown == [none |-> TRUE]
Init == chip = Unknown /\ signal = Unknown /\ format = "yuyv" /\ verdict = "none"

\* A source is sensed, with a rate up to 2 Hz off its own.
Sense(s, off) ==
    /\ verdict = "none" /\ chip = Unknown
    /\ \E space \in Receiver!Spaces, limited, bt2020 \in BOOLEAN, eotf \in {"none", "pq", "hlg"} :
        /\ chip' = Input(s, space, limited, bt2020, eotf)
        /\ Receiver!Plausible(chip')
        /\ signal' = Report(chip', Receiver!Normalized((s[4] + off) * 100, s[5]))
    /\ UNCHANGED <<format, verdict>>

\* gc555_video_start_streaming in the format of the application
Start(f) ==
    /\ verdict = "none" /\ chip # Unknown
    /\ format' = f
    /\ verdict' = IF ~InTable(signal, f) THEN "table" ELSE IF ~Accepts(signal, f) THEN "fpga" ELSE "ok"
    /\ UNCHANGED <<chip, signal>>

\* A change of HDR or colors that the running stream follows (the monitor reprograms
\* the color path and nothing else); the application then starts anew.
Recolor ==
    /\ verdict = "ok"
    /\ \E bt2020 \in BOOLEAN, eotf \in {"none", "pq", "hlg"} :
        /\ chip' = [chip EXCEPT !.bt2020 = bt2020, !.eotf = eotf]
        /\ signal' = Report(chip', signal.rate)
    /\ verdict' = IF ~InTable(signal', format) THEN "table"
                  ELSE IF ~Accepts(signal', format) THEN "fpga" ELSE "ok"
    /\ UNCHANGED format

Again == verdict # "none" /\ chip' = Unknown /\ signal' = Unknown /\ verdict' = "none" /\ format' = "yuyv"

Next ==
    \/ \E s \in Sources, off \in -2 .. 2 : Sense(s, off)
    \/ \E f \in Table!FormatSet : Start(f)
    \/ Recolor \/ Again

Spec == Init /\ [][Next]_vars

-----------------------------------------------------------------------------
(* Properties                                                               *)

Plain == signal.encoding = "full" /\ signal.colorimetry # "bt2020" /\ signal.hdr = "sdr"
Mode == <<signal.width, signal.height, signal.rate>>
NearMode(d) ==
    \E m \in Table!FindMode(signal.width, signal.height) :
        \E i \in DOMAIN m.rates : Table!Near(m.rates[i], signal.rate, d)

\* The table offers 2560x1080 at two rates that the FPGA has no native mode for.
NoNative == {<<2560, 1080, 50>>, <<2560, 1080, 100>>}

\* Any other progressive mode of the table, at its own rate and in plain full range
\* RGB, is one the FPGA takes, in every format and on the bus the receiver chose:
\* STREAMON does not refuse what the application negotiated.
NominalStarts ==
    verdict = "fpga" /\ Plain /\ ~signal.interlaced /\ NearMode(0) => Mode \in NoNative

\* The presets of the hub (everlive_viewer.py).
Presets == {
    <<3840, 2160, 60>>, <<3840, 2160, 30>>, <<3840, 2160, 24>>, <<2880, 2160, 60>>,
    <<3840, 1080, 120>>, <<3840, 1080, 60>>, <<2560, 1440, 144>>, <<2560, 1440, 120>>,
    <<2560, 1440, 100>>, <<2560, 1440, 60>>, <<2560, 1080, 144>>, <<2560, 1080, 60>>,
    <<1920, 1080, 240>>, <<1920, 1080, 180>>, <<1920, 1080, 144>>, <<1920, 1080, 120>>,
    <<1920, 1080, 100>>, <<1920, 1080, 60>>, <<1920, 1080, 50>>, <<1280, 720, 60>>,
    <<720, 480, 60>>, <<720, 576, 50>>, <<1920, 240, 60>>, <<1440, 240, 60>>, <<2880, 240, 60>>}

\* A source that sends the mode of a preset of the hub in RGB of either range, up to
\* 1 Hz off, is captured in the preset's YUYV whatever its HDR, except PQ without its
\* colors and wide colors below 1080 lines.
PresetsStart ==
    verdict \in {"table", "fpga"} /\ format = "yuyv" /\ ~signal.interlaced
        /\ signal.sampling = "rgb" /\ signal.hdr # "pq"
        /\ (signal.colorimetry = "bt2020" => signal.height >= 1080)
        => Mode \notin Presets

\* Within 1 Hz of a mode of the table, a change of HDR or colors of a progressive RGB
\* source while a stream runs leaves a signal with which the stream can start again,
\* except PQ without its colors, and wide colors below 1080 lines.
RecolorRestarts ==
    [][Recolor /\ verdict' # "ok" /\ NearMode(1)
           /\ signal.sampling = "rgb" /\ ~signal.interlaced =>
        signal'.hdr = "pq" \/ (signal'.colorimetry = "bt2020" /\ signal.height < 1080)]_vars
=============================================================================
