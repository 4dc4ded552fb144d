---------------------------- MODULE It6805Audio ----------------------------
(***************************************************************************)
(* HDMI audio in the IT6805 receiver driver (gc573-it6805-core.c): every   *)
(* poll of runtime_work serves the audio state machine, which requests the *)
(* packets, waits for them, opens the output, measures clock and format,   *)
(* watches both, and publishes a format to the sound device.               *)
(*                                                                         *)
(* A source is its clock (N and CTS: the rate), its form (channels and     *)
(* encoding) and whether its channel status tells the true rate.  Video    *)
(* (It6805Signal) is reduced to what it does to audio.                     *)
(***************************************************************************)
EXTENDS Naturals

CONSTANTS
    Sources,          \* set of [clk, form, honest]
    None,             \* no audio packets; a clock or form that is not known
    RequestDelay,     \* IT6805_AUDIO_REQUEST_DELAY_POLLS
    MonitorDelay,     \* IT6805_AUDIO_MONITOR_DELAY_POLLS
    MismatchLimit,    \* IT6805_AUDIO_RATE_MISMATCH_LIMIT
    MaxChanges,       \* bound on the changes of source and video
    MaxFailures       \* bound on the failing register accesses

Silent == [clk |-> None, form |-> None, honest |-> TRUE]
Clocks == {s.clk : s \in Sources} \cup {None}
Forms  == {s.form : s \in Sources} \cup {None}
Limit  == MonitorDelay + 1

VARIABLES
    \* the source; the audio flag in the chip; whether video is enabled
    source, irq, video,
    \* the chip's audio output is open, with a rate forced on it
    open, forced,
    \* struct it6805_audio_runtime
    state, clk, rate, form, format_valid, refresh_pending, change_pending,
    request_delay, monitor_delay, mismatches,
    \* reported_audio_format, None if not valid
    reported,
    \* the poll: place, clock read by the monitor
    pc, seen,
    \* history: polls a wrong format has been reported for a steady source
    wrong,
    changes, failures

hwVars    == <<source, irq, video, open, forced>>
timeVars  == <<request_delay, monitor_delay, mismatches>>
formVars  == <<form, format_valid, refresh_pending>>
audioVars == <<state, clk, rate, formVars, change_pending, timeVars>>
boundVars == <<changes, failures>>
vars == <<hwVars, audioVars, reported, pc, seen, wrong, boundVars>>

States == {"OFF", "REQUEST", "WAIT_READY", "ON"}

\* The types of every variable.
TypeOK ==
    /\ source \in Sources \cup {Silent} /\ irq \in BOOLEAN /\ video \in BOOLEAN
    /\ open \in BOOLEAN /\ forced \in BOOLEAN
    /\ state \in States /\ clk \in Clocks /\ rate \in Clocks /\ form \in Forms
    /\ format_valid \in BOOLEAN /\ refresh_pending \in BOOLEAN
    /\ change_pending \in BOOLEAN
    /\ request_delay \in 0 .. RequestDelay /\ monitor_delay \in 0 .. MonitorDelay
    /\ mismatches \in 0 .. MismatchLimit - 1
    /\ reported \in {None} \cup ((Clocks \ {None}) \X Forms)
    /\ pc \in {"idle", "serve", "clock", "open", "monitor", "compare", "publish"}
    /\ seen \in Clocks /\ wrong \in 0 .. Limit + 1
    /\ changes \in 0 .. MaxChanges /\ failures \in 0 .. MaxFailures

Init ==
    /\ source \in Sources \cup {Silent} /\ irq = FALSE /\ video = FALSE
    /\ open = FALSE /\ forced = FALSE
    /\ state = "OFF" /\ clk = None /\ rate = None /\ form = None
    /\ format_valid = FALSE /\ refresh_pending = FALSE /\ change_pending = FALSE
    /\ request_delay = 0 /\ monitor_delay = 0 /\ mismatches = 0
    /\ reported = None /\ pc = "idle" /\ seen = None /\ wrong = 0
    /\ changes = 0 /\ failures = 0

-----------------------------------------------------------------------------
(* Around the audio state machine                                           *)

Change == changes < MaxChanges /\ changes' = changes + 1

\* The source changes its audio; the chip may or may not flag it (external).
Retune(s, flag) ==
    /\ Change /\ s # source
    /\ source' = s /\ irq' = (irq \/ flag) /\ wrong' = 0
    /\ UNCHANGED <<video, open, forced, audioVars, reported, pc, seen, failures>>

\* audio_runtime zeroed, in state s.
ResetTo(s) ==
    /\ state' = s /\ clk' = None /\ rate' = None /\ form' = None
    /\ format_valid' = FALSE /\ refresh_pending' = FALSE /\ change_pending' = FALSE
    /\ request_delay' = 0 /\ monitor_delay' = 0 /\ mismatches' = 0

\* Video is lost: with SCDT the output is closed, with the clock ratio or the
\* 5 V it is not.
VideoLost(close) ==
    /\ pc = "idle" /\ video /\ Change
    /\ video' = FALSE /\ ResetTo("OFF")
    /\ open' = (open /\ ~close) /\ forced' = (forced /\ ~close)
    /\ UNCHANGED <<source, irq, reported, pc, seen, wrong, failures>>

\* it6805_enable_video_output_locked: closes the output, requests audio.
VideoEnabled ==
    /\ pc = "idle" /\ ~video
    /\ video' = TRUE /\ ResetTo("REQUEST")
    /\ open' = FALSE /\ forced' = FALSE
    /\ UNCHANGED <<source, irq, reported, pc, seen, wrong, boundVars>>

\* The HDMI mode changed: video is set up afresh; audio is off for DVI and
\* requested again for HDMI.  Closing the output may fail.
ModeChange(dvi, fails) ==
    /\ pc = "idle" /\ video /\ Change
    /\ fails => failures < MaxFailures
    /\ failures' = IF fails THEN failures + 1 ELSE failures
    /\ video' = FALSE
    /\ IF state # (IF dvi THEN "OFF" ELSE "REQUEST")
       THEN /\ state' = (IF dvi THEN "OFF" ELSE "REQUEST") /\ mismatches' = 0
            /\ open' = (open /\ fails) /\ forced' = (forced /\ fails)
       ELSE UNCHANGED <<state, mismatches, open, forced>>
    /\ UNCHANGED <<source, irq, clk, rate, formVars, change_pending, request_delay,
                   monitor_delay, reported, pc, seen, wrong>>

Around ==
    \/ \E s \in Sources \cup {Silent}, f \in BOOLEAN : Retune(s, f)
    \/ \E c \in BOOLEAN : VideoLost(c)
    \/ VideoEnabled
    \/ \E d, f \in BOOLEAN : ModeChange(d, f)

-----------------------------------------------------------------------------
(* One poll                                                                 *)

\* it6805_ack_common_irq_locked takes the flag; without video audio is not
\* served.
PollAck ==
    /\ pc = "idle"
    /\ irq' = FALSE /\ change_pending' = (change_pending \/ irq)
    /\ pc' = IF video THEN "serve" ELSE "publish"
    /\ UNCHANGED <<source, video, open, forced, state, clk, rate, formVars, timeVars,
                   reported, seen, wrong, boundVars>>

\* it6805_request_audio_locked
Request ==
    /\ pc = "serve" /\ state = "REQUEST"
    /\ state' = "WAIT_READY" /\ request_delay' = RequestDelay
    /\ form' = None /\ format_valid' = FALSE /\ refresh_pending' = TRUE
    /\ pc' = "publish"
    /\ UNCHANGED <<hwVars, clk, rate, change_pending, monitor_delay, mismatches, reported,
                   seen, wrong, boundVars>>

Off ==
    /\ pc = "serve" /\ state = "OFF" /\ pc' = "publish"
    /\ UNCHANGED <<hwVars, audioVars, reported, seen, wrong, boundVars>>

\* it6805_probe_audio_ready_locked, up to the start of the output.
WaitReady ==
    /\ pc = "serve" /\ state = "WAIT_READY"
    /\ IF request_delay > 0
       THEN request_delay' = request_delay - 1 /\ pc' = "publish"
       ELSE IF source = Silent \/ irq
            THEN request_delay' = RequestDelay /\ pc' = "publish"
            ELSE pc' = "clock" /\ UNCHANGED request_delay
    /\ UNCHANGED <<hwVars, state, clk, rate, formVars, change_pending, monitor_delay,
                   mismatches, reported, seen, wrong, boundVars>>

\* it6805_update_audio_clock_locked: the clock is read and the rate computed; a
\* channel status that says otherwise MismatchLimit times is overruled.
UpdateClock ==
    /\ clk' = source.clk /\ rate' = source.clk
    /\ IF source = Silent THEN UNCHANGED <<mismatches, forced>>
       ELSE IF source.honest THEN mismatches' = 0 /\ forced' = FALSE
       ELSE IF mismatches + 1 < MismatchLimit
            THEN mismatches' = mismatches + 1 /\ UNCHANGED forced
            ELSE mismatches' = 0 /\ forced' = TRUE

\* it6805_start_audio_output_locked measures the clock ...
StartClock ==
    /\ pc = "clock"
    /\ UpdateClock /\ pc' = "open"
    /\ UNCHANGED <<source, irq, video, open, state, formVars, change_pending,
                   request_delay, monitor_delay, reported, seen, wrong, boundVars>>

\* ... and opens the output; failing, it closes it.
StartOpen ==
    /\ pc = "open"
    /\ open' = TRUE /\ state' = "ON" /\ monitor_delay' = MonitorDelay
    /\ change_pending' = FALSE /\ pc' = "publish"
    /\ UNCHANGED <<source, irq, video, forced, clk, rate, formVars, request_delay,
                   mismatches, reported, seen, wrong, boundVars>>

StartFails ==
    /\ pc \in {"clock", "open"} /\ failures < MaxFailures
    /\ failures' = failures + 1
    /\ open' = FALSE /\ forced' = FALSE /\ pc' = "publish"
    /\ UNCHANGED <<source, irq, video, audioVars, reported, seen, wrong, changes>>

\* it6805_restart_audio_locked
Restart == open' = FALSE /\ forced' = FALSE /\ ResetTo("REQUEST")

\* it6805_handle_audio_change_locked: the flagged change is measured; a clock
\* that moved restarts audio.
HandleChange ==
    /\ pc = "serve" /\ state = "ON"
    /\ IF ~change_pending
       THEN pc' = "monitor" /\ UNCHANGED <<audioVars, open, forced>>
       ELSE IF source.clk # clk
            THEN Restart /\ pc' = "publish"
            ELSE /\ UpdateClock /\ change_pending' = FALSE /\ pc' = "monitor"
                 /\ UNCHANGED <<open, state, formVars, request_delay, monitor_delay>>
    /\ UNCHANGED <<source, irq, video, reported, seen, wrong, boundVars>>

\* it6805_monitor_audio_locked: every MonitorDelay polls the format is read
\* (refresh_audio_format_locked) or, once known, clock and format compared.
Monitor ==
    /\ pc = "monitor"
    /\ monitor_delay' = IF monitor_delay > 0 THEN monitor_delay - 1 ELSE MonitorDelay
    /\ IF monitor_delay > 0 THEN pc' = "publish" /\ UNCHANGED <<formVars, seen>>
       ELSE IF refresh_pending
       THEN /\ form' = source.form /\ format_valid' = TRUE
            /\ refresh_pending' = FALSE /\ pc' = "publish" /\ UNCHANGED seen
       ELSE seen' = source.clk /\ pc' = "compare" /\ UNCHANGED formVars
    /\ UNCHANGED <<hwVars, state, clk, rate, change_pending, request_delay, mismatches,
                   reported, wrong, boundVars>>

\* Mutant: only the format is compared.
Compare_FormOnly ==
    /\ pc = "compare" /\ pc' = "publish"
    /\ IF source.form # form THEN Restart
       ELSE UNCHANGED <<audioVars, open, forced>>
    /\ UNCHANGED <<source, irq, video, reported, seen, wrong, boundVars>>

\* The bridge measures the rate of the open output on its own.
Compare ==
    /\ pc = "compare" /\ pc' = "publish"
    /\ IF seen # clk \/ source.form # form \/ source.clk # rate
       THEN Restart
       ELSE UNCHANGED <<audioVars, open, forced>>
    /\ UNCHANGED <<source, irq, video, reported, seen, wrong, boundVars>>

\* Any other access fails: the poll goes on with publishing.
ServeFails ==
    /\ pc \in {"serve", "monitor", "compare"} /\ failures < MaxFailures
    /\ failures' = failures + 1 /\ pc' = "publish"
    /\ UNCHANGED <<hwVars, audioVars, reported, seen, wrong, changes>>

\* it6805_snapshot_audio_format_locked
Snapshot ==
    IF state = "ON" /\ format_valid /\ rate # None THEN <<rate, form>> ELSE None

\* it6805_publish_audio_format
Publish ==
    /\ pc = "publish" /\ pc' = "idle"
    /\ reported' = Snapshot
    /\ wrong' = IF Snapshot \in {None, <<source.clk, source.form>>} THEN 0
                ELSE IF wrong <= Limit THEN wrong + 1 ELSE wrong
    /\ UNCHANGED <<hwVars, audioVars, seen, boundVars>>

Poll ==
    \/ PollAck \/ Off \/ Request \/ WaitReady \/ StartClock \/ StartOpen
    \/ HandleChange \/ Monitor \/ Compare \/ Publish

Next == Around \/ Poll \/ StartFails \/ ServeFails

\* The worker runs; video that can be enabled is.
Spec == Init /\ [][Next]_vars
-----------------------------------------------------------------------------
(* Properties                                                               *)

\* A format that is not, or no longer, that of a steady source is published by
\* at most MonitorDelay + 1 polls, with or without a flag of the chip and
\* whenever between the reads of a poll the source changed.
WrongIsBrief == wrong <= Limit

\* While video is enabled the chip sends audio, or a forced rate, only in state
\* ON: also when opening fails half way, or closing for a mode change does.
SilentUnlessOn == video /\ pc \in {"idle", "publish"} /\ (open \/ forced) => state = "ON"
=============================================================================
