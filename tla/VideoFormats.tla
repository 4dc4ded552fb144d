---------------------------- MODULE VideoFormats ----------------------------
(***************************************************************************)
(* The mode table of the capture device and what negotiation makes of it   *)
(* (gc573-video.c): which formats, sizes and rates are offered, what a     *)
(* signal turns the format into, which timings are accepted, the memory    *)
(* layout of a frame and the sizes its DMA transfers have                  *)
(* (gc573-video-dma.c).  One signal is present while an application        *)
(* negotiates; VideoSignal lets it change.                                 *)
(***************************************************************************)
EXTENDS Integers, Sequences, FiniteSets, SequencesExt

CONSTANTS
    Rates,      \* the rates a source may have, in Hz
    Slack       \* how far the measured pixel clock is off, in Hz of the rate

Formats == <<"yuyv", "nv12", "p010", "bgr24", "rgb32">>
FormatSet == ToSet(Formats)
Packed == {"yuyv", "bgr24", "rgb32"}

\* gc555_video_modes
Mode(w, h, rates) == [w |-> w, h |-> h, rates |-> rates]
ModeTable == <<
    Mode(640, 480, <<60, 75>>),
    Mode(720, 480, <<24, 25, 30, 50, 60>>),
    Mode(720, 576, <<25, 50, 60>>),
    Mode(800, 600, <<60>>),
    Mode(1024, 768, <<60, 75>>),
    Mode(1280, 800, <<60>>),
    Mode(1280, 960, <<60>>),
    Mode(1280, 720, <<50, 60, 100, 120>>),
    Mode(1280, 1024, <<60, 75>>),
    Mode(1360, 765, <<60>>),
    Mode(1440, 240, <<50, 60>>),
    Mode(1440, 480, <<24, 25, 30, 50, 60>>),
    Mode(1440, 576, <<25, 50, 60>>),
    Mode(1440, 900, <<60>>),
    Mode(1680, 1050, <<60>>),
    Mode(1920, 240, <<50, 60>>),
    Mode(1920, 1080, <<24, 25, 30, 50, 60, 96, 100, 120, 144, 180, 240>>),
    Mode(1920, 1200, <<60>>),
    Mode(2560, 1080, <<50, 60, 100, 144>>),
    Mode(2560, 1440, <<50, 60, 100, 120, 144>>),
    Mode(2880, 240, <<50, 60>>),
    Mode(2880, 2160, <<24, 25, 30, 50, 60>>),
    Mode(3440, 1440, <<50, 60, 100>>),
    Mode(3840, 1080, <<60, 120>>),
    Mode(3840, 2160, <<24, 25, 30, 50, 60>>) >>
ModeSet == ToSet(ModeTable)
Default == <<1920, 1080>>

Near(a, b, d) == a - b <= d /\ b - a <= d

\* Modes that P010 leaves out, and those it has at 60 Hz only.
NoP010 == {<<1280, 960>>, <<1360, 765>>}
P010At60 == {<<640, 480>>, <<1024, 768>>, <<1280, 1024>>}

\* A size is in the table at most once.
FindMode(w, h) == {m \in ModeSet : m.w = w /\ m.h = h}

ModeSupportsRate(m, rate) == \E i \in DOMAIN m.rates : Near(m.rates[i], rate, 2)

SupportsFormat(m, f) ==
    CASE f \in {"yuyv", "nv12"} -> TRUE
      [] f = "p010" -> <<m.w, m.h>> \notin NoP010
      [] OTHER -> <<m.w, m.h>> = <<1920, 1080>>

SupportsRate(m, f, rate) ==
    /\ SupportsFormat(m, f)
    /\ IF f \in {"bgr24", "rgb32"} \/ (f = "p010" /\ <<m.w, m.h>> \in P010At60)
       THEN Near(rate, 60, 2)
       ELSE ModeSupportsRate(m, rate)

\* gc555_video_supports_signal
SupportsSignal(f, s) ==
    /\ \E m \in FindMode(s.w, s.h) : SupportsRate(m, f, s.rate)
    /\ f = "yuyv" \/ ~s.il

-----------------------------------------------------------------------------
(* Layout of a frame                                                        *)

Half(n) == n \div 2

\* gc555_video_layout: bytes of luma (or of all, when packed) and of chroma
Luma(f, w, h) ==
    CASE f = "yuyv" -> 2 * w * h
      [] f = "nv12" -> w * h
      [] f = "p010" -> 2 * w * h
      [] f = "bgr24" -> 3 * w * h
      [] f = "rgb32" -> 4 * w * h

Chroma(f, w, h) ==
    CASE f = "nv12" -> Half(w * h)
      [] f = "p010" -> w * h
      [] f \in Packed -> 0

SizeImage(f, w, h) ==
    CASE f = "nv12" -> w * h + Half(w * h)
      [] f = "p010" -> 3 * w * h
      [] f \in Packed -> Luma(f, w, h)

\* Mutant: the transfer is as long as the luma in memory.
LumaTransfer_Unpacked(f, w, h) == Luma(f, w, h) + 4

\* gc555_video_dma_prepare: P010 luma arrives packed, four bytes as three.
LumaTransfer(f, w, h) ==
    IF f = "p010" THEN (Luma(f, w, h) \div 4) * 3 ELSE Luma(f, w, h)

\* gc555_video_dma_build_table: lengths and offsets in units of 8 bytes
Transferable(f, w, h) ==
    /\ LumaTransfer(f, w, h) % 8 = 0
    /\ Luma(f, w, h) % 8 = 0 /\ Chroma(f, w, h) % 8 = 0
    /\ f = "p010" => Luma(f, w, h) % 4 = 0

-----------------------------------------------------------------------------
(* Offers: the enumerations count down an index over the table              *)

\* gc555_video_enum_framesizes, gc555_video_mode_by_index
FrameSizes(f) == SelectSeq(ModeTable, LAMBDA m : SupportsFormat(m, f))

\* Mutant: P010 is offered at all rates of its modes.
FrameIntervals_All(f, m) ==
    IF f \in {"bgr24", "rgb32"} THEN <<60>> ELSE m.rates

\* gc555_video_enum_frameintervals
FrameIntervals(f, m) ==
    IF f \in {"bgr24", "rgb32"} THEN <<60>>
    ELSE SelectSeq(m.rates, LAMBDA r : SupportsRate(m, f, r))

Offered(f, w, h, rate) ==
    \E i \in DOMAIN FrameSizes(f) :
        LET m == FrameSizes(f)[i]
        IN  /\ m.w = w /\ m.h = h
            /\ \E k \in DOMAIN FrameIntervals(f, m) :
                   Near(FrameIntervals(f, m)[k], rate, 2)

-----------------------------------------------------------------------------

Sizes == {<<m.w, m.h>> : m \in ModeSet} \cup {<<1600, 900>>}
Signals == [w : {s[1] : s \in Sizes}, h : {s[2] : s \in Sizes}, rate : Rates,
            il : BOOLEAN]

VARIABLES
    signal,     \* what the receiver reports
    format, pix, frame_rate_hz,
    timings,    \* rate of the configured timings, 0 if there are none
    last        \* the last call and what it returned

vars == <<signal, format, pix, frame_rate_hz, timings, last>>

Pix(w, h, il) == [w |-> w, h |-> h, il |-> il]

Init ==
    /\ signal \in {s \in Signals : <<s.w, s.h>> \in Sizes}
    /\ format \in FormatSet /\ pix = Pix(Default[1], Default[2], FALSE)
    /\ frame_rate_hz = 60 /\ timings = 0 /\ last = <<"none", "none">>

\* Mutant: the format of the application stays whatever the signal is.
UpdateFormat_Keep ==
    /\ pix' = Pix(signal.w, signal.h, signal.il)
    /\ frame_rate_hz' = signal.rate /\ UNCHANGED format

\* gc555_video_update_format_locked, when buffers and timings permit
UpdateFormat ==
    LET f == IF SupportsSignal(format, signal) THEN format ELSE "yuyv"
    IN  IF SupportsSignal(f, signal)
        THEN /\ format' = f /\ pix' = Pix(signal.w, signal.h, signal.il)
             /\ frame_rate_hz' = signal.rate
        ELSE UNCHANGED <<format, pix, frame_rate_hz>>

\* gc555_video_get_format
GetFormat ==
    /\ IF timings # 0 THEN UNCHANGED <<format, pix, frame_rate_hz>>
       ELSE UpdateFormat
    /\ last' = <<"get", "ok">>
    /\ UNCHANGED <<signal, timings>>

\* gc555_video_set_format, gc555_video_try_format: a signal of a known size
\* decides the size, else the application if the format has that size.
SetFormat(f, w, h) ==
    LET known == FindMode(signal.w, signal.h) # {}
        size == IF known THEN <<signal.w, signal.h>>
                ELSE IF \E m \in FindMode(w, h) : SupportsFormat(m, f)
                     THEN <<w, h>> ELSE Default
    IN  /\ format' = IF known /\ ~SupportsSignal(f, signal) THEN "yuyv" ELSE f
        /\ pix' = Pix(size[1], size[2], signal.il)
        /\ frame_rate_hz' = IF size = <<signal.w, signal.h>>
                            THEN signal.rate ELSE frame_rate_hz
        /\ last' = <<"set", "ok">>
        /\ UNCHANGED <<signal, timings>>

\* gc555_video_signal_to_dv_timings: a pixel clock that is off by more than 1 Hz
\* of the frame rate is replaced.
QueriedRate(measured) ==
    IF ~signal.il /\ ~Near(measured, signal.rate, 1) THEN signal.rate
    ELSE measured

\* Mutant: only the rates of the table.
CheckTimings_Exact(w, h, rate) ==
    \E m \in FindMode(w, h) : ModeSupportsRate(m, rate)

\* gc555_video_check_dv_timings
CheckTimings(w, h, rate) ==
    \E m \in FindMode(w, h) :
        \/ ModeSupportsRate(m, rate) \/ ModeSupportsRate(m, rate + 1)
        \/ rate # 0 /\ ModeSupportsRate(m, rate - 1)

\* VIDIOC_QUERY_DV_TIMINGS followed by gc555_video_set_dv_timings
SetQueriedTimings(measured) ==
    LET rate == QueriedRate(measured)
    IN  IF CheckTimings(signal.w, signal.h, rate)
        THEN /\ timings' = rate /\ frame_rate_hz' = rate
             /\ pix' = Pix(signal.w, signal.h, signal.il)
             /\ last' = <<"timings", "ok">>
             /\ UNCHANGED <<signal, format>>
        ELSE /\ last' = <<"timings", "range">>
             /\ UNCHANGED <<signal, format, pix, frame_rate_hz, timings>>

\* The checks of gc555_video_start_streaming
Start ==
    /\ last' = <<"start",
                 IF ~SupportsSignal(format, signal) THEN "unsupported"
                 ELSE IF pix # Pix(signal.w, signal.h, signal.il) THEN "pipe"
                 ELSE "ok">>
    /\ UNCHANGED <<signal, format, pix, frame_rate_hz, timings>>

Next ==
    \/ GetFormat \/ Start
    \/ \E f \in FormatSet, s \in {<<1280, 720>>, <<1600, 900>>} :
           SetFormat(f, s[1], s[2])
    \/ \E d \in Slack : SetQueriedTimings(signal.rate + d)

Spec == Init /\ [][Next]_vars

-----------------------------------------------------------------------------
(* Properties *)

\* The types of the variables, among them that the size is one of the table's.
TypeOK ==
    /\ signal \in Signals /\ format \in FormatSet
    /\ <<pix.w, pix.h>> \in Sizes \ {<<1600, 900>>} /\ pix.il \in BOOLEAN
    /\ frame_rate_hz \in Nat /\ timings \in Nat

\* What is offered by enumeration is what start accepts: a progressive signal
\* is unsupported exactly if no size and interval of the format match it.
OfferedStarts ==
    ~signal.il =>
        (SupportsSignal(format, signal)
         <=> Offered(format, signal.w, signal.h, signal.rate))

\* A format that was just negotiated for a signal the device can capture at all
\* starts: every other format gives way to YUYV.
NegotiatedStarts ==
    [][last[1] = "set" \/ (last[1] = "get" /\ timings = 0) =>
           (Start /\ SupportsSignal("yuyv", signal) => last'[2] = "ok")]_vars

\* The timings queried from a signal the device captures can be set, as the
\* tools do, though pixel clock and frame rate are measured independently.
QueriedTimingsAccepted ==
    last = <<"timings", "range">> =>
        signal.il \/ ~SupportsSignal("yuyv", signal)

\* Every frame that can stream is one the DMA tables can describe, each of its
\* planes within its part of the buffer; P010 rows unpack in groups of eight.
TransferFits ==
    last = <<"start", "ok">> =>
        /\ Transferable(format, pix.w, pix.h)
        /\ LumaTransfer(format, pix.w, pix.h) <= Luma(format, pix.w, pix.h)
        /\ Luma(format, pix.w, pix.h) + Chroma(format, pix.w, pix.h)
             = SizeImage(format, pix.w, pix.h)
        /\ format = "p010" => pix.w % 8 = 0
=============================================================================
