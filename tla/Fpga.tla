-------------------------------- MODULE Fpga --------------------------------
(***************************************************************************)
(* The video input processor of the FPGA (gc573-fpga.c) and those who      *)
(* program it: the start of a stream, the DMA engine that turns its output *)
(* on and off, the signal monitor that follows HDR, colors and rate of a   *)
(* running stream, the picture controls, suspend and removal.  A call runs *)
(* under fpga->lock and is one step: a register access fails only when the *)
(* card is gone, and then nobody sees what was written before.  The size   *)
(* of the picture stays: a source of another size is VideoSignal's.        *)
(***************************************************************************)
EXTENDS Integers, FiniteSets

CONSTANTS
    Transports,     \* encodings of the source
    Colors,         \* its colorimetries
    Rates,          \* its frame rates
    Formats,        \* formats of applications
    Controls,       \* picture controls
    MaxSleeps       \* suspends in a behavior

Source == [transport : Transports, color : Colors, rate : Rates]

VARIABLES
    hw,             \* the registers, by their fields
    configured,     \* fpga->configured
    picture,        \* the cached picture controls; TRUE is off the default
    source,         \* what the receiver reports
    stream,         \* stream_signal
    format,         \* format of the stream
    phase,          \* of the stream: idle, configured, on, dead
    sampled,        \* what the monitor has read and not yet used, as a set
    seen,           \* what it used last
    programmed,     \* the sample the color path was programmed from
    card            \* on, asleep, gone (unplugged), removed
vars == <<hw, configured, picture, source, stream, format, phase, sampled, seen,
          programmed, card>>

VARIABLE sleeps
allVars == <<vars, sleeps>>

Ready == card = "on"

-----------------------------------------------------------------------------
(* Registers                                                                *)

Yuv(s) == s.transport \in {"yuv422", "yuv444"}
OutputRgb(f) == f = "bgr24"

\* gc555_fpga_rgb_to_yuv_selector
Selector(s) == <<s.color, s.transport = "limited">>

\* Which conversion gc555_fpga_program_color_path sets up in registers h; fields it
\* leaves keep what they had.  Mutant: a YUV source leaves the conversion on.
Conversion_YuvKeeps(h, s, f) ==
    IF OutputRgb(f)
    THEN IF s.transport = "limited"
         THEN [h EXCEPT !.matrix = "expand", !.select = "expand", !.convert = TRUE]
         ELSE [h EXCEPT !.convert = FALSE]
    ELSE IF Yuv(s) THEN h
    ELSE [h EXCEPT !.matrix = Selector(s), !.select = Selector(s), !.convert = TRUE]

Conversion(h, s, f) ==
    IF OutputRgb(f)
    THEN IF s.transport = "limited"
         THEN [h EXCEPT !.matrix = "expand", !.select = "expand", !.convert = TRUE]
         ELSE [h EXCEPT !.convert = FALSE]
    ELSE IF Yuv(s) THEN [h EXCEPT !.convert = FALSE]
    ELSE [h EXCEPT !.matrix = Selector(s), !.select = Selector(s), !.convert = TRUE]

\* gc555_fpga_program_color_path
ColorPath(h, s, f) ==
    [Conversion(h, s, f) EXCEPT
        !.input = IF s.transport = "yuv422" THEN "422" ELSE "444",
        !.yuv = Yuv(s), !.rgb = OutputRgb(f)]

\* gc555_fpga_program_color_adjustment
Adjustment(h, p) == [h EXCEPT !.controls = p, !.adjust = \E c \in Controls : p[c]]

Neutral == [c \in Controls |-> FALSE]
PowerOn ==
    [output |-> FALSE, format |-> "none", rate |-> "none", input |-> "none", yuv |-> FALSE,
     rgb |-> FALSE, matrix |-> "none", select |-> "none", convert |-> FALSE,
     controls |-> Neutral, adjust |-> FALSE]

\* What the color path makes of a picture: the matrix counts if it is applied.
Effect(h) ==
    <<h.input, h.yuv, h.rgb, h.convert, IF h.convert THEN <<h.matrix, h.select>> ELSE <<>>>>

-----------------------------------------------------------------------------
(* The calls                                                                *)

\* Mutant: the controls are left to gc555_fpga_set_color_control.
Configured_NoAdjustment(s, f) ==
    [ColorPath(hw, s, f) EXCEPT !.output = FALSE, !.format = f, !.rate = s.rate]

\* gc555_fpga_configure_locked, when every access works
Configured(s, f) ==
    [ColorPath(Adjustment(hw, picture), s, f) EXCEPT
        !.output = FALSE, !.format = f, !.rate = s.rate]

\* gc555_fpga_configure, as gc555_video_start_streaming calls it
Configure(f) ==
    /\ phase = "idle" /\ card \in {"on", "gone"}
    /\ OutputRgb(f) => ~Yuv(source)
    /\ IF Ready
       THEN /\ hw' = Configured(source, f) /\ configured' = TRUE /\ phase' = "configured"
            /\ stream' = source /\ seen' = source /\ programmed' = source /\ format' = f
       ELSE /\ configured' = FALSE
            /\ UNCHANGED <<hw, phase, stream, seen, programmed, format>>
    /\ UNCHANGED <<picture, source, sampled, card, sleeps>>

\* gc555_fpga_set_output_enabled, which may fail
SetOutput(on) ==
    IF Ready /\ (on => configured) THEN hw' = [hw EXCEPT !.output = on] ELSE UNCHANGED hw

\* gc555_video_dma_start turns the output on last; a rollback turns it off.
StartDma ==
    /\ phase = "configured"
    /\ \/ SetOutput(TRUE) /\ phase' = IF hw'.output THEN "on" ELSE "idle"
       \/ SetOutput(FALSE) /\ phase' = "idle"
    /\ UNCHANGED <<configured, picture, source, stream, format, sampled, seen, programmed,
                   card, sleeps>>

\* STREAMOFF
Stop ==
    /\ phase \in {"on", "dead"} /\ card # "asleep"
    /\ phase' = "idle" /\ SetOutput(FALSE)
    /\ UNCHANGED <<configured, picture, source, stream, format, sampled, seen, programmed,
                   card, sleeps>>

\* Mutant: the watchdog relies on the reset to turn the output off.
WatchdogStop_ResetOnly ==
    /\ phase = "on" /\ card \in {"on", "gone"}
    /\ phase' = "dead"
    /\ configured' \in (IF Ready THEN {FALSE} ELSE {FALSE, configured})
    /\ UNCHANGED <<hw, picture, source, stream, format, sampled, seen, programmed, card, sleeps>>

\* The watchdog stops a stalled stream and resets the processor (gc555_fpga_reset_vip).
WatchdogStop ==
    /\ phase = "on" /\ card \in {"on", "gone"}
    /\ phase' = "dead" /\ SetOutput(FALSE)
    /\ configured' \in (IF Ready THEN {FALSE} ELSE {FALSE, configured})
    /\ UNCHANGED <<picture, source, stream, format, sampled, seen, programmed, card, sleeps>>

\* gc555_fpga_set_color_control: the old value comes back if the card does not take it.
SetColorControl(c) ==
    LET p == [picture EXCEPT ![c] = ~@]
        fails == ~Ready /\ configured IN
    /\ card \in {"on", "gone"}
    /\ picture' = IF fails THEN picture ELSE p
    /\ hw' = IF Ready /\ configured THEN Adjustment(hw, p) ELSE hw
    /\ UNCHANGED <<configured, source, stream, format, phase, sampled, seen, programmed, card,
                   sleeps>>

-----------------------------------------------------------------------------
(* The signal monitor                                                       *)

Retune ==
    /\ source' \in Source \ {source}
    /\ UNCHANGED <<hw, configured, picture, stream, format, phase, sampled, seen, programmed,
                   card, sleeps>>

\* gc555_video_monitor_work reads the signal before it takes video->lock.
Sample ==
    /\ sampled = {} /\ card \in {"on", "gone"}
    /\ sampled' = {source}
    /\ UNCHANGED <<hw, configured, picture, source, stream, format, phase, seen, programmed,
                   card, sleeps>>

\* gc555_fpga_set_frame_rate does not ask whether the FPGA is configured.
FrameRate(s) ==
    IF s.rate # stream.rate /\ Ready THEN [hw EXCEPT !.rate = s.rate] ELSE hw

\* Mutant: a change of color that comes with a change of rate is only noted.
Recolored_NotWithRate(s) == s.color # stream.color /\ s.rate = stream.rate

Recolored(s) == s.color # stream.color

\* The monitor adapts a running stream: first the rate, then the color path of the
\* whole sample (gc555_fpga_update_color_path).
Adapt ==
    /\ sampled # {} /\ phase # "configured" /\ card \in {"on", "gone"}
    /\ \E s \in sampled :
        LET update == Recolored(s) /\ configured /\ Ready IN
        IF phase = "idle" THEN UNCHANGED <<hw, stream, programmed, seen>>
        ELSE /\ hw' = IF update THEN ColorPath(FrameRate(s), s, format) ELSE FrameRate(s)
             /\ programmed' = IF update THEN s ELSE programmed
             /\ stream' = [stream EXCEPT !.rate = s.rate, !.color = s.color]
             /\ seen' = s
    /\ sampled' = {}
    /\ UNCHANGED <<configured, picture, source, format, phase, card, sleeps>>

-----------------------------------------------------------------------------
(* The card                                                                 *)

Unplug ==
    /\ card = "on" /\ card' = "gone"
    /\ UNCHANGED <<hw, configured, picture, source, stream, format, phase, sampled, seen,
                   programmed, sleeps>>

\* Suspend stops the monitor and the stream, whose application finds an error; the
\* registers lose their values, and configured stays.
Suspend ==
    /\ card = "on" /\ phase # "configured" /\ sleeps < MaxSleeps
    /\ card' = "asleep" /\ sampled' = {} /\ hw' = PowerOn /\ sleeps' = sleeps + 1
    /\ phase' = IF phase = "on" THEN "dead" ELSE phase
    /\ UNCHANGED <<configured, picture, source, stream, format, seen, programmed>>

Resume ==
    /\ card = "asleep" /\ card' = "on"
    /\ UNCHANGED <<hw, configured, picture, source, stream, format, phase, sampled, seen,
                   programmed, sleeps>>

\* gc555_fpga_cleanup, after the monitor and the stream have ended
Cleanup ==
    /\ card \in {"on", "gone"} /\ phase = "idle"
    /\ SetOutput(FALSE) /\ configured' = FALSE /\ card' = "removed" /\ sampled' = {}
    /\ UNCHANGED <<picture, source, stream, format, phase, seen, programmed, sleeps>>

-----------------------------------------------------------------------------

\* gc555_fpga_init
Init ==
    /\ hw = PowerOn /\ configured = FALSE /\ picture = Neutral
    /\ source \in Source /\ stream = source /\ seen = source /\ programmed = source
    /\ format \in Formats /\ phase = "idle" /\ sampled = {} /\ card = "on" /\ sleeps = 0

Next ==
    \/ \E f \in Formats : Configure(f)
    \/ StartDma \/ Stop \/ WatchdogStop
    \/ \E c \in Controls : SetColorControl(c)
    \/ Retune \/ Sample \/ Adapt
    \/ Unplug \/ Suspend \/ Resume \/ Cleanup

Spec == Init /\ [][Next]_allVars

-----------------------------------------------------------------------------
(* Properties                                                               *)

\* The types of the variables.
TypeOK ==
    /\ DOMAIN hw = DOMAIN PowerOn /\ hw.output \in BOOLEAN /\ configured \in BOOLEAN
    /\ picture \in [Controls -> BOOLEAN]
    /\ {source, stream, seen, programmed} \cup sampled \subseteq Source
    /\ Cardinality(sampled) <= 1 /\ format \in Formats
    /\ phase \in {"idle", "configured", "on", "dead"}
    /\ card \in {"on", "asleep", "gone", "removed"} /\ sleeps \in 0 .. MaxSleeps

\* Frames flow only through a configured processor, and only for a stream: neither
\* stop, watchdog, rollback, suspend nor removal leaves the output of a card on.
OutputOwned == Ready /\ hw.output => configured /\ phase = "on"

\* While frames flow the processor has the picture controls the application last set,
\* also those set before the stream, in another one or before a suspend.
PictureCurrent == Ready /\ hw.output => hw.controls = picture /\ hw.adjust = (picture # Neutral)

\* While frames flow the color path is that of one sample of the source, and nothing
\* of an earlier path is left in it: as if it was set up on a card just powered on.
PathFresh ==
    Ready /\ hw.output => Effect(hw) = Effect(ColorPath(PowerOn, programmed, format))

\* Frames that pass as compatible with the stream (gc555_video_stream_compatible, which
\* ignores HDR and colorimetry) are converted as the source is encoded now: of HDR and
\* colorimetry, "the monitor updates the color matrix only".  The exception: a sample of
\* another encoding that came with other colors has set the path up since.
ColorsFollow ==
    /\ Ready /\ hw.output /\ seen = source
    /\ stream.transport = seen.transport /\ stream.transport = programmed.transport
    => Effect(hw) = Effect(ColorPath(PowerOn, source, format))
=============================================================================
