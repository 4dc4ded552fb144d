---------------------------- MODULE VideoSignal ----------------------------
(***************************************************************************)
(* How the capture device (gc573-video.c) follows the HDMI signal: the     *)
(* monitor work samples it, adapts stream and FPGA, and reports changes;   *)
(* the completion callback adapts them too; applications negotiate the     *)
(* format, start and stop; suspend and removal end all of it.              *)
(*                                                                         *)
(* A signal is its mode (size and bus layout), frame rate and color (HDR   *)
(* mode and colorimetry).  Buffers are those of VideoCapture and left out. *)
(* lock is the owner of video->lock; a step is a critical section of       *)
(* queue_lock, or a call into FPGA, engine or receiver.                    *)
(***************************************************************************)
EXTENDS Integers

CONSTANTS
    Modes, Rates, Colors,
    P010Modes,      \* the modes P010 is available in
    NoSignal,       \* the receiver has no video signal
    MaxChanges,     \* bound on the changes of the source
    CanSleep        \* TRUE: suspend, resume and removal are explored

ASSUME ModesAssumption == P010Modes \subseteq Modes
ASSUME ChangesAssumption == MaxChanges \in Nat /\ CanSleep \in BOOLEAN

Signals == [mode : Modes, rate : Rates, color : Colors]
Formats == {"yuyv", "p010"}

ASSUME NoSignalAssumption == NoSignal \notin Signals

VARIABLES
    \* what the receiver reports
    signal, changes,
    \* struct gc555_video
    signal_valid, cached, stream, pix, format, explicit, starting, streaming,
    detaching,
    \* video->lock; vb2: buffers allocated, streaming; SOURCE_CHANGE pending
    lock, busy, vb, event,
    \* the engine runs; the configuration of the FPGA
    engine, fpga,
    \* monitor_work: armed, place, sample, change to report
    armed, mPc, mSig, mChanged,
    \* completion callback: place, copies of cached_signal and stream_signal
    cPc, cCur, cStr,
    \* power management and removal: the state reached, the place
    power, pPc,
    \* history: a rate was programmed that was no longer the stream's; the
    \* callback armed the monitor that suspend or removal had canceled
    overtaken, rearmed

srcVars == <<signal, changes>>
sigVars == <<signal_valid, cached>>
fmtVars == <<pix, format, explicit>>
runVars == <<starting, streaming, engine>>
vbVars  == <<lock, busy, vb, event>>
monVars == <<armed, mPc, mSig, mChanged>>
cbVars  == <<cPc, cCur, cStr>>
pmVars  == <<power, pPc, detaching>>
hisVars == <<overtaken, rearmed>>
vars == <<srcVars, sigVars, fmtVars, runVars, vbVars, monVars, cbVars, pmVars,
          hisVars, stream, fpga>>

\* The types of every variable.
TypeOK ==
    /\ signal \in Signals \cup {NoSignal} /\ changes \in 0 .. MaxChanges
    /\ signal_valid \in BOOLEAN
    /\ cached \in Signals /\ stream \in Signals /\ fpga \in Signals
    /\ pix \in Modes /\ format \in Formats /\ explicit \in BOOLEAN
    /\ starting \in BOOLEAN /\ streaming \in BOOLEAN /\ engine \in BOOLEAN
    /\ detaching \in BOOLEAN /\ overtaken \in BOOLEAN /\ rearmed \in BOOLEAN
    /\ lock \in {"free", "mon", "app", "pm"}
    /\ busy \in BOOLEAN /\ vb \in BOOLEAN /\ event \in BOOLEAN
    /\ armed \in BOOLEAN /\ mChanged \in BOOLEAN
    /\ mPc \in {"idle", "lock", "adapt", "rate", "color", "path", "report"}
    /\ mSig \in Signals \cup {NoSignal}
    /\ cPc \in {"idle", "adapt", "rate", "arm", "publish"}
    /\ cCur \in Signals /\ cStr \in Signals
    /\ power \in {"on", "asleep", "freed"}
    /\ pPc \in {"idle", "cancel", "flush", "lock", "stop", "put"}

Supports(f, m) == f = "yuyv" \/ m \in P010Modes

Init ==
    /\ signal \in Signals \cup {NoSignal} /\ changes = 0
    /\ cached \in {s \in Signals : signal \in {s, NoSignal}}
    /\ signal_valid = (signal # NoSignal)
    /\ stream = cached /\ fpga = cached /\ pix = cached.mode
    /\ format = "yuyv" /\ explicit = FALSE
    /\ starting = FALSE /\ streaming = FALSE /\ engine = FALSE
    /\ detaching = FALSE
    /\ lock = "free" /\ busy = FALSE /\ vb = FALSE /\ event = FALSE
    /\ armed = TRUE /\ mPc = "idle" /\ mSig = NoSignal /\ mChanged = FALSE
    /\ cPc = "idle" /\ cCur = cached /\ cStr = cached
    /\ power = "on" /\ pPc = "idle"
    /\ overtaken = FALSE /\ rearmed = FALSE

\* Applications run until they are frozen or the device is gone.
Running == power = "on" /\ pPc = "idle"

\* The source changes its output (external).
Retune(s) ==
    /\ changes < MaxChanges /\ s # signal
    /\ signal' = s /\ changes' = changes + 1
    /\ UNCHANGED <<sigVars, fmtVars, runVars, vbVars, monVars, cbVars, pmVars,
                   hisVars, stream, fpga>>

-----------------------------------------------------------------------------
(* gc555_video_monitor_work                                                 *)

MonitorRead ==
    /\ armed /\ mPc = "idle"
    /\ armed' = FALSE
    /\ IF detaching THEN UNCHANGED <<mPc, mSig>>
       ELSE mPc' = "lock" /\ mSig' = signal
    /\ UNCHANGED <<srcVars, sigVars, fmtVars, runVars, vbVars, mChanged, cbVars,
                   pmVars, hisVars, stream, fpga>>

\* Mutant: buffers do not keep the format from following the signal.
UpdateFormat_Busy(s) ==
    /\ pix' = s.mode
    /\ format' = IF Supports(format, s.mode) THEN format ELSE "yuyv"

\* gc555_video_update_format_locked: without buffers, and unless an application
\* has set the timings, the format follows the signal s.
UpdateFormat(s) ==
    IF explicit \/ busy THEN UNCHANGED <<pix, format>>
    ELSE /\ pix' = s.mode
         /\ format' = IF Supports(format, s.mode) THEN format ELSE "yuyv"

MonitorCache ==
    /\ mPc = "lock" /\ lock = "free"
    /\ lock' = "mon"
    /\ mChanged' = (signal_valid # (mSig # NoSignal)
                    \/ (mSig # NoSignal /\ mSig # cached))
    /\ signal_valid' = (mSig # NoSignal)
    /\ IF mSig = NoSignal
       THEN mPc' = "report" /\ UNCHANGED <<cached, pix, format>>
       ELSE /\ cached' = mSig /\ UpdateFormat(mSig)
            /\ mPc' = IF vb THEN "adapt" ELSE "report"
    /\ UNCHANGED <<srcVars, explicit, runVars, busy, vb, event, armed, mSig,
                   cbVars, pmVars, hisVars, stream, fpga>>

\* A new rate in the same mode is adopted first ...
MonitorAdapt ==
    /\ mPc = "adapt"
    /\ IF mSig.rate # stream.rate /\ mSig.mode = stream.mode
       THEN stream' = [stream EXCEPT !.rate = mSig.rate] /\ mPc' = "rate"
       ELSE mPc' = "color" /\ UNCHANGED stream
    /\ UNCHANGED <<srcVars, sigVars, fmtVars, runVars, vbVars, armed, mSig,
                   mChanged, cbVars, pmVars, hisVars, fpga>>

\* ... and programmed without the lock.
MonitorRate ==
    /\ mPc = "rate"
    /\ fpga' = [fpga EXCEPT !.rate = mSig.rate] /\ mPc' = "color"
    /\ overtaken' = (overtaken \/ stream.rate # mSig.rate)
    /\ UNCHANGED <<srcVars, sigVars, fmtVars, runVars, vbVars, armed, mSig,
                   mChanged, cbVars, pmVars, rearmed, stream>>

MonitorColor ==
    /\ mPc = "color"
    /\ IF mSig.color # stream.color /\ mSig.mode = stream.mode
       THEN stream' = [stream EXCEPT !.color = mSig.color] /\ mPc' = "path"
       ELSE mPc' = "report" /\ UNCHANGED stream
    /\ UNCHANGED <<srcVars, sigVars, fmtVars, runVars, vbVars, armed, mSig,
                   mChanged, cbVars, pmVars, hisVars, fpga>>

MonitorPath ==
    /\ mPc = "path"
    /\ fpga' = [fpga EXCEPT !.color = mSig.color] /\ mPc' = "report"
    /\ UNCHANGED <<srcVars, sigVars, fmtVars, runVars, vbVars, armed, mSig,
                   mChanged, cbVars, pmVars, hisVars, stream>>

\* The change is reported, and the work comes back unless the device goes.  A
\* work that is being canceled is not queued again.
MonitorReport ==
    /\ mPc = "report"
    /\ event' = (event \/ mChanged)
    /\ lock' = "free" /\ mPc' = "idle"
    /\ armed' = (armed \/ (~detaching /\ pPc # "flush"))
    /\ UNCHANGED <<srcVars, sigVars, fmtVars, runVars, busy, vb, mSig, mChanged,
                   cbVars, pmVars, hisVars, stream, fpga>>

-----------------------------------------------------------------------------
(* gc555_video_buffer_complete                                              *)

Compatible(s) == s.mode = stream.mode

CallbackEnter ==
    /\ engine /\ cPc = "idle"
    /\ ~starting /\ streaming /\ signal_valid /\ Compatible(cached)
    /\ cCur' = cached /\ cStr' = stream
    /\ cPc' = "adapt"
    /\ UNCHANGED <<srcVars, sigVars, fmtVars, runVars, vbVars, monVars, pmVars,
                   hisVars, stream, fpga>>

CallbackAdapt ==
    /\ cPc = "adapt"
    /\ IF cCur.rate # cStr.rate
       THEN stream' = [stream EXCEPT !.rate = cCur.rate] /\ cPc' = "rate"
       ELSE cPc' = "arm" /\ UNCHANGED stream
    /\ UNCHANGED <<srcVars, sigVars, fmtVars, runVars, vbVars, monVars, cCur,
                   cStr, pmVars, hisVars, fpga>>

\* Mutant: the rate is adopted, not programmed.
CallbackRate_Forgets ==
    /\ cPc = "rate" /\ cPc' = "arm"
    /\ UNCHANGED <<srcVars, sigVars, fmtVars, runVars, vbVars, monVars, cCur,
                   cStr, pmVars, hisVars, stream, fpga>>

CallbackRate ==
    /\ cPc = "rate"
    /\ fpga' = [fpga EXCEPT !.rate = cCur.rate] /\ cPc' = "arm"
    /\ overtaken' = (overtaken \/ stream.rate # cCur.rate)
    /\ UNCHANGED <<srcVars, sigVars, fmtVars, runVars, vbVars, monVars, cCur,
                   cStr, pmVars, rearmed, stream>>

\* mod_delayed_work: another color is the monitor's business, at once.
CallbackArm ==
    /\ cPc = "arm"
    /\ LET arm == cCur.color # cStr.color /\ pPc # "flush"
       IN  /\ armed' = (armed \/ arm)
           /\ rearmed' = (rearmed \/ (arm /\ pPc \in {"lock", "stop", "put"}))
    /\ cPc' = "publish"
    /\ UNCHANGED <<srcVars, sigVars, fmtVars, runVars, vbVars, mPc, mSig,
                   mChanged, cCur, cStr, pmVars, overtaken, stream, fpga>>

CallbackPublish ==
    /\ cPc = "publish" /\ cPc' = "idle"
    /\ UNCHANGED <<srcVars, sigVars, fmtVars, runVars, vbVars, monVars, cCur,
                   cStr, pmVars, hisVars, stream, fpga>>

-----------------------------------------------------------------------------
(* Calls of applications, under video->lock                                 *)

\* gc555_video_get_format
GetFormat ==
    /\ Running /\ lock = "free" /\ signal # NoSignal
    /\ UpdateFormat(signal)
    /\ UNCHANGED <<srcVars, sigVars, explicit, runVars, vbVars, monVars, cbVars,
                   pmVars, hisVars, stream, fpga>>

\* gc555_video_set_format: the size is that of the signal, if there is one.
SetFormat(f, m) ==
    /\ Running /\ lock = "free" /\ ~busy
    /\ LET size == IF signal = NoSignal THEN m ELSE signal.mode
       IN  /\ pix' = size
           /\ format' = IF Supports(f, size) THEN f ELSE "yuyv"
    /\ UNCHANGED <<srcVars, sigVars, explicit, runVars, vbVars, monVars, cbVars,
                   pmVars, hisVars, stream, fpga>>

\* gc555_video_set_dv_timings
SetTimings(m) ==
    /\ Running /\ lock = "free" /\ ~busy
    /\ pix' = m /\ explicit' = TRUE
    /\ UNCHANGED <<srcVars, sigVars, format, runVars, vbVars, monVars, cbVars,
                   pmVars, hisVars, stream, fpga>>

\* vb2_ioctl_reqbufs
RequestBuffers(n) ==
    /\ Running /\ lock = "free" /\ ~vb
    /\ busy' = n
    /\ UNCHANGED <<srcVars, sigVars, fmtVars, runVars, lock, vb, event, monVars,
                   cbVars, pmVars, hisVars, stream, fpga>>

\* v4l2_event_dequeue
TakeEvent ==
    /\ Running /\ event
    /\ event' = FALSE
    /\ UNCHANGED <<srcVars, sigVars, fmtVars, runVars, lock, busy, vb, monVars,
                   cbVars, pmVars, hisVars, stream, fpga>>

\* gc555_video_start_streaming: the signal must be what was negotiated; ...
Startable ==
    /\ signal # NoSignal /\ pix = signal.mode /\ Supports(format, pix)

StartMark ==
    /\ Running /\ lock = "free" /\ busy /\ ~vb
    /\ Startable
    /\ lock' = "app"
    /\ fpga' = signal /\ stream' = signal
    /\ starting' = TRUE /\ streaming' = FALSE
    /\ UNCHANGED <<srcVars, sigVars, fmtVars, engine, busy, vb, event, monVars,
                   cbVars, pmVars, hisVars>>

\* ... frames may come before it goes live, unless the engine does not start.
StartEngine ==
    /\ lock = "app" /\ starting /\ ~engine
    /\ engine' = TRUE
    /\ UNCHANGED <<srcVars, sigVars, fmtVars, starting, streaming, vbVars,
                   monVars, cbVars, pmVars, hisVars, stream, fpga>>

StartLive ==
    /\ lock = "app" /\ starting
    /\ starting' = FALSE
    /\ streaming' = engine /\ vb' = engine
    /\ lock' = "free"
    /\ UNCHANGED <<srcVars, sigVars, fmtVars, engine, busy, event, monVars,
                   cbVars, pmVars, hisVars, stream, fpga>>

\* gc555_video_stop_streaming: flags first, then the engine ...
StopFlags ==
    /\ Running /\ lock = "free" /\ vb
    /\ lock' = "app"
    /\ starting' = FALSE /\ streaming' = FALSE
    /\ vb' = FALSE
    /\ UNCHANGED <<srcVars, sigVars, fmtVars, engine, busy, event, monVars,
                   cbVars, pmVars, hisVars, stream, fpga>>

\* Mutant: the callback is not waited for.
StopEngine_NoWait ==
    /\ lock = "app" /\ ~starting
    /\ engine' = FALSE /\ lock' = "free"
    /\ UNCHANGED <<srcVars, sigVars, fmtVars, starting, streaming, busy, vb,
                   event, monVars, cbVars, pmVars, hisVars, stream, fpga>>

\* ... which waits for the callback.
StopEngine ==
    /\ lock = "app" /\ ~starting /\ cPc = "idle"
    /\ engine' = FALSE /\ lock' = "free"
    /\ UNCHANGED <<srcVars, sigVars, fmtVars, starting, streaming, busy, vb,
                   event, monVars, cbVars, pmVars, hisVars, stream, fpga>>

-----------------------------------------------------------------------------
(* gc555_video_suspend, gc555_video_resume and gc555_video_cleanup          *)

\* Suspend finds applications frozen, removal finds them anywhere; calls in
\* progress hold the lock and end first.
PowerBegin(remove) ==
    /\ CanSleep /\ Running /\ (remove \/ lock # "app")
    /\ detaching' = remove
    /\ pPc' = "cancel"
    /\ UNCHANGED <<srcVars, sigVars, fmtVars, runVars, vbVars, monVars, cbVars,
                   power, hisVars, stream, fpga>>

\* cancel_delayed_work_sync(&video->monitor_work)
PowerCancel ==
    /\ pPc = "cancel"
    /\ armed' = FALSE /\ pPc' = "flush"
    /\ UNCHANGED <<srcVars, sigVars, fmtVars, runVars, vbVars, mPc, mSig,
                   mChanged, cbVars, power, detaching, hisVars, stream, fpga>>

\* Mutant: the work is canceled, not waited for.
PowerFlush_NoSync ==
    /\ pPc = "flush" /\ pPc' = "lock"
    /\ UNCHANGED <<srcVars, sigVars, fmtVars, runVars, vbVars, monVars, cbVars,
                   power, detaching, hisVars, stream, fpga>>

PowerFlush ==
    /\ pPc = "flush" /\ mPc = "idle"
    /\ pPc' = "lock"
    /\ UNCHANGED <<srcVars, sigVars, fmtVars, runVars, vbVars, monVars, cbVars,
                   power, detaching, hisVars, stream, fpga>>

\* A removed device is unregistered, which stops its stream for good.
PowerStop ==
    /\ pPc = "lock" /\ lock = "free"
    /\ lock' = "pm"
    /\ starting' = FALSE /\ streaming' = FALSE
    /\ signal_valid' = (signal_valid /\ detaching)
    /\ vb' = (vb /\ ~detaching)
    /\ pPc' = "stop"
    /\ UNCHANGED <<srcVars, cached, fmtVars, engine, busy, event, monVars,
                   cbVars, power, detaching, hisVars, stream, fpga>>

PowerEnd ==
    /\ pPc = "stop" /\ cPc = "idle"
    /\ engine' = FALSE /\ lock' = "free"
    /\ pPc' = IF detaching THEN "put" ELSE "idle"
    /\ power' = IF detaching THEN power ELSE "asleep"
    /\ UNCHANGED <<srcVars, sigVars, fmtVars, starting, streaming, busy, vb,
                   event, monVars, cbVars, detaching, hisVars, stream, fpga>>

\* The last reference is put.
PowerFree ==
    /\ pPc = "put"
    /\ power' = "freed" /\ pPc' = "idle"
    /\ UNCHANGED <<srcVars, sigVars, fmtVars, runVars, vbVars, monVars, cbVars,
                   detaching, hisVars, stream, fpga>>

Resume ==
    /\ power = "asleep"
    /\ power' = "on" /\ armed' = TRUE
    /\ UNCHANGED <<srcVars, sigVars, fmtVars, runVars, vbVars, mPc, mSig,
                   mChanged, cbVars, pPc, detaching, hisVars, stream, fpga>>

-----------------------------------------------------------------------------

Monitor ==
    \/ MonitorRead \/ MonitorCache \/ MonitorAdapt \/ MonitorRate
    \/ MonitorColor \/ MonitorPath \/ MonitorReport

CallbackRest == CallbackAdapt \/ CallbackRate \/ CallbackArm \/ CallbackPublish

Finish == StartEngine \/ StartLive \/ StopEngine

Power ==
    \/ PowerCancel \/ PowerFlush \/ PowerStop \/ PowerEnd \/ PowerFree

Application ==
    \/ GetFormat \/ StartMark \/ StopFlags \/ TakeEvent
    \/ \E m \in Modes : SetTimings(m) \/ \E f \in Formats : SetFormat(f, m)
    \/ \E n \in BOOLEAN : RequestBuffers(n)

Next ==
    \/ \E s \in Signals \cup {NoSignal} : Retune(s)
    \/ (power # "freed" /\ Monitor) \/ CallbackEnter \/ CallbackRest
    \/ Application \/ Finish
    \/ (\E r \in BOOLEAN : PowerBegin(r)) \/ Power \/ Resume

Spec == Init /\ [][Next]_vars

-----------------------------------------------------------------------------
(* Properties *)

\* Frames that are stored have the size the buffers were made for: in no order
\* of calls, samples and starts do format, stream and FPGA part.
FrameFitsBuffer ==
    vb /\ engine =>
        pix = stream.mode /\ fpga.mode = stream.mode /\ Supports(format, pix)

\* The FPGA runs at the stream's rate unless somebody is about to program it:
\* monitor and callback both adopt a rate under the lock and program it after.
\* The one exception: one of them was overtaken by the other in between.
RateAgrees ==
    engine /\ streaming /\ fpga.rate # stream.rate =>
        mPc = "rate" \/ cPc = "rate" \/ overtaken

\* After a stop nobody touches the FPGA for the stream that was.
StoppedStill == ~engine => cPc = "idle"

\* A sleeping device is not polled and a freed one has no work left, unless the
\* callback armed the monitor again after it had been canceled.
QuietMonitor ==
    power # "on" => rearmed \/ (~armed /\ mPc = "idle")
=============================================================================
