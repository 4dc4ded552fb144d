---------------------------- MODULE EverDisplay ----------------------------
(***************************************************************************)
(* The display engine (everlive_display.c) as an application of the        *)
(* capture device of VideoSignal: it waits in standby for a signal,        *)
(* negotiates, streams into a texture of the size it was told, and goes    *)
(* back to standby when the source changes, frames stop or the user asks.  *)
(* Each ioctl is a step; the monitor work and the source run in between,   *)
(* and another program reads the format (everlive_viewer.py).              *)
(* Times are left out: frames stop when the driver has none to give.       *)
(***************************************************************************)
EXTENDS VideoSignal

CONSTANTS
    Refused,    \* modes with a rate that is not captured: S_DV_TIMINGS and
                \* start refuse them (the format follows them all the same)
    TextureFails, MapFails, \* bounds: textures, buffers that are not created
    MaxKeys     \* bound: re-syncs by the user

ASSUME RefusedAssumption == Refused \subseteq Modes
ASSUME FailsAssumption == TextureFails \in Nat /\ MapFails \in Nat /\ MaxKeys \in Nat

VARIABLES
    at,         \* the place in main, stream_start or stream_stop
    active,     \* ctx.active
    wanted,     \* the timings that were queried
    size,       \* ctx.width and ctx.height
    texture,    \* the size of ctx.texture
    subscribed, \* to V4L2_EVENT_SOURCE_CHANGE
    texFails, mapFails, keys

None == "none"
dispVars == <<at, active, wanted, size, texture, subscribed>>
faults == <<texFails, mapFails, keys>>
allVars == <<vars, dispVars, faults>>

DisplayTypeOK ==
    /\ TypeOK
    /\ at \in {"open", "standby", "dv", "fmt", "get", "req", "map", "on", "wait", "texture",
               "play", "off", "release", "free"}
    /\ active \in BOOLEAN /\ subscribed \in BOOLEAN
    /\ wanted \in Modes \cup {None} /\ size \in Modes \cup {None} /\ texture \in Modes \cup {None}

DisplayInit ==
    /\ Init
    /\ at = "open" /\ active = FALSE /\ wanted = None /\ size = None /\ texture = None
    /\ subscribed = FALSE /\ texFails = 0 /\ mapFails = 0 /\ keys = 0

GoTo(place) == at' = place /\ UNCHANGED <<active, wanted, size, texture, subscribed, faults>>

\* VIDIOC_S_DV_TIMINGS and VIDIOC_S_FMT may fail, which the display does not look at.
TrySetTimings(m) ==
    IF ~busy /\ m \notin Refused THEN SetTimings(m)
    ELSE lock = "free" /\ UNCHANGED vars
TrySetFormat(m) ==
    IF ~busy THEN SetFormat("yuyv", m) ELSE lock = "free" /\ UNCHANGED vars

-----------------------------------------------------------------------------
(* main, before its loop, and stream_start                                  *)

Open ==
    /\ at = "open"
    /\ IF signal = NoSignal THEN UNCHANGED vars ELSE TrySetTimings(signal.mode)
    /\ GoTo("standby")

QueryTimings ==
    /\ at = "standby" /\ lock = "free" /\ signal # NoSignal
    /\ at' = "dv" /\ wanted' = signal.mode
    /\ UNCHANGED <<vars, active, size, texture, subscribed, faults>>

\* Mutant: the format alone is set.
SetQueried_Skip == at = "dv" /\ UNCHANGED vars /\ GoTo("fmt")
SetQueried == at = "dv" /\ TrySetTimings(wanted) /\ GoTo("fmt")
SetYuyv == at = "fmt" /\ TrySetFormat(wanted) /\ GoTo("get")

ReadFormat ==
    /\ at = "get"
    /\ IF signal = NoSignal THEN lock = "free" /\ UNCHANGED vars ELSE GetFormat
    /\ size' = pix' /\ at' = "req"
    /\ UNCHANGED <<active, wanted, texture, subscribed, faults>>

\* VIDIOC_REQBUFS is refused while the queue streams.
Allocate ==
    /\ at = "req"
    /\ \/ RequestBuffers(TRUE) /\ GoTo("map")
       \/ vb /\ lock = "free" /\ UNCHANGED vars /\ GoTo("standby")

MapBuffers ==
    /\ at = "map"
    /\ \/ GoTo("on") /\ UNCHANGED vars
       \/ /\ mapFails < MapFails /\ mapFails' = mapFails + 1 /\ at' = "off"
          /\ UNCHANGED <<vars, active, wanted, size, texture, subscribed, texFails, keys>>

StreamOn ==
    /\ at = "on" /\ lock = "free"
    /\ IF Startable /\ signal.mode \notin Refused THEN StartMark /\ GoTo("wait") ELSE UNCHANGED vars /\ GoTo("off")
StreamOnEnds ==
    /\ at = "wait" /\ lock # "app" /\ UNCHANGED vars
    /\ GoTo(IF vb THEN "texture" ELSE "off")

\* After the first stream the display subscribes: what was reported before is lost.
CreateTexture ==
    /\ at = "texture"
    /\ \/ /\ at' = "play" /\ active' = TRUE /\ texture' = size /\ subscribed' = TRUE
          /\ event' = (event /\ subscribed)
          /\ UNCHANGED faults
       \/ /\ texFails < TextureFails /\ texFails' = texFails + 1 /\ at' = "off"
          /\ UNCHANGED <<event, active, texture, subscribed, mapFails, keys>>
    /\ UNCHANGED <<wanted, size, srcVars, sigVars, fmtVars, runVars, lock, busy, vb, monVars,
                   cbVars, pmVars, hisVars, stream, fpga>>

-----------------------------------------------------------------------------
(* The loop of main, and stream_stop                                        *)

\* Frames come while the driver takes the signal for the stream's.
Frames == streaming /\ signal_valid /\ Compatible(cached) /\ signal # NoSignal /\ Compatible(signal)

\* Mutant: frames are waited for while there is a signal.
Stall_Waits == at = "play" /\ ~signal_valid /\ UNCHANGED vars /\ GoTo("off")
Stall == at = "play" /\ ~Frames /\ UNCHANGED vars /\ GoTo("off")
SourceChange == at = "play" /\ TakeEvent /\ GoTo("off")
Resync ==
    /\ at \in {"play", "standby"} /\ keys < MaxKeys
    /\ at' = (IF at = "play" THEN "off" ELSE at) /\ keys' = keys + 1
    /\ UNCHANGED <<vars, active, wanted, size, texture, subscribed, texFails, mapFails>>

\* Mutant: the buffers are freed before the stream is off.
StreamOff_Late ==
    /\ at = "off" /\ UNCHANGED vars
    /\ at' = "free" /\ active' = FALSE
    /\ UNCHANGED <<wanted, size, texture, subscribed, faults>>
\* VIDIOC_STREAMOFF, if the stream was active; it waits for the driver.
StreamOff ==
    /\ at = "off"
    /\ IF active THEN StopFlags ELSE UNCHANGED vars
    /\ at' = "release" /\ active' = FALSE
    /\ UNCHANGED <<wanted, size, texture, subscribed, faults>>
StreamOffEnds == at = "release" /\ lock # "app" /\ UNCHANGED vars /\ GoTo("free")

Release ==
    /\ at = "free"
    /\ IF vb THEN lock = "free" /\ UNCHANGED vars ELSE RequestBuffers(FALSE)
    /\ at' = "standby" /\ texture' = None
    /\ UNCHANGED <<active, wanted, size, subscribed, faults>>

-----------------------------------------------------------------------------
Start ==
    \/ Open \/ QueryTimings \/ SetQueried \/ SetYuyv \/ ReadFormat \/ Allocate \/ MapBuffers
    \/ StreamOn \/ StreamOnEnds \/ CreateTexture
Stop == StreamOff \/ StreamOffEnds \/ Release
Display == Start \/ Stall \/ SourceChange \/ Stop

\* get_active_format of the hub
OtherProgram == GetFormat
Driver == (\E s \in Signals \cup {NoSignal} : Retune(s)) \/ Monitor \/ CallbackEnter \/ CallbackRest
          \/ Finish \/ OtherProgram

DisplayNext == Display \/ Resync \/ (Driver /\ UNCHANGED <<dispVars, faults>>)

DisplaySpec == DisplayInit /\ [][DisplayNext]_allVars

-----------------------------------------------------------------------------
\* What is copied to the texture has the texture's size: buffers are made for
\* the format that was read, whatever the source does between these calls.
\* "do not attempt streaming with stale format" (everlive_display.c:445)
TextureFits == at = "play" => vb /\ texture = size /\ pix = size

\* In standby nothing is left of a stream, so the next one can be negotiated.
StandbyFree == at = "standby" /\ texFails = 0 => ~vb /\ ~busy

\* Frames, buffers, texture and programmed rate are those of one signal, in
\* whatever order source, monitor, callback and application act, and nobody
\* touches the card for a stream that ended or a device that sleeps or is gone
\* (gc573-video.c:571, everlive_display.c:445).
SignalSound ==
    /\ DisplayTypeOK /\ FrameFitsBuffer /\ RateAgrees /\ TextureFits /\ StandbyFree
    /\ StoppedStill /\ QuietMonitor

\* The display plays in the end what the source settles on: "seamlessly
\* transitions into active video playback once the HDMI handshake completes"
\* (README.md:59).
PictureReturns ==
    \A m \in Modes \ Refused :
        <>[](signal # NoSignal /\ signal.mode = m) => <>[](at = "play" /\ texture = m)
=============================================================================
