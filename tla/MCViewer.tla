------------------------------ MODULE MCViewer ------------------------------
(***************************************************************************)
(* The programs that watch the capture device, for TLC: EverLive, that is  *)
(* the display engine on the device with its audio and the hub, and the    *)
(* modes that are offered and accepted (VideoFormats, FpgaModes).  Each is *)
(* explored by itself.                                                     *)
(***************************************************************************)
EXTENDS EverLive

CONSTANTS
    m1, m2, r1, r2, c1, c2, auto, fixed

VARIABLE subject

\* Modes with the clocks of their CEA and CVT timings.
Progressive(w, h, rate, khz) == <<w, h, FALSE, rate, khz>>
ModeSources == {
    Progressive(640, 480, 60, 25175), Progressive(640, 480, 75, 31500),
    Progressive(720, 480, 60, 27000), Progressive(720, 576, 50, 27000),
    Progressive(800, 600, 60, 40000), Progressive(1024, 768, 75, 78750),
    Progressive(1280, 720, 50, 74250), Progressive(1280, 720, 60, 74250),
    Progressive(1280, 720, 100, 148500), Progressive(1280, 720, 120, 148500),
    Progressive(1280, 960, 60, 108000), Progressive(1280, 1024, 75, 135000),
    Progressive(1360, 765, 60, 85500), Progressive(1440, 240, 60, 27000),
    Progressive(1440, 480, 60, 54000), Progressive(1440, 576, 50, 54000),
    Progressive(1440, 900, 60, 106500), Progressive(1680, 1050, 60, 146250),
    Progressive(1920, 240, 60, 36000), Progressive(1920, 1080, 24, 74250),
    Progressive(1920, 1080, 30, 74250), Progressive(1920, 1080, 50, 148500),
    Progressive(1920, 1080, 60, 148500), Progressive(1920, 1080, 96, 237600),
    Progressive(1920, 1080, 100, 297000), Progressive(1920, 1080, 120, 297000),
    Progressive(1920, 1080, 144, 325000), Progressive(1920, 1080, 180, 445500),
    Progressive(1920, 1080, 240, 594000), Progressive(1920, 1200, 60, 154000),
    Progressive(2560, 1080, 50, 185625), Progressive(2560, 1080, 60, 198000),
    Progressive(2560, 1080, 100, 371250), Progressive(2560, 1080, 144, 494000),
    Progressive(2560, 1440, 50, 201000), Progressive(2560, 1440, 60, 241500),
    Progressive(2560, 1440, 100, 400000), Progressive(2560, 1440, 120, 497750),
    Progressive(2560, 1440, 144, 586000), Progressive(2880, 240, 60, 54000),
    Progressive(2880, 2160, 30, 222750), Progressive(2880, 2160, 60, 445500),
    Progressive(3440, 1440, 50, 265250), Progressive(3440, 1440, 60, 319750),
    Progressive(3440, 1440, 100, 543500), Progressive(3840, 1080, 60, 266500),
    Progressive(3840, 1080, 120, 560000), Progressive(3840, 2160, 24, 297000),
    Progressive(3840, 2160, 30, 297000), Progressive(3840, 2160, 50, 594000),
    Progressive(3840, 2160, 60, 594000),
    <<1440, 480, TRUE, 30, 27000>>, <<1440, 576, TRUE, 25, 27000>>,
    <<1920, 1080, TRUE, 25, 74250>>, <<1920, 1080, TRUE, 30, 74250>>}

\* Rates at and off those of the table, and a measured clock that is off.
PlainSignal == [w |-> 640, h |-> 480, rate |-> 60, il |-> FALSE]
VARIABLES
    formats_signal, formats_format, formats_pix, frame_rate_hz, timings, last
formatsVars ==
    <<formats_signal, formats_format, formats_pix, frame_rate_hz, timings, last>>
FormatTable == INSTANCE VideoFormats WITH
    Rates <- {22, 24, 27, 30, 48, 50, 57, 58, 60, 62, 75, 77, 98, 121, 142, 180, 242, 243},
    Slack <- {-2, -1, 0, 1, 3}, signal <- formats_signal,
    format <- formats_format, pix <- formats_pix

\* Mode table and FPGA, asked one after the other.
VARIABLES
    chip, modes_signal, modes_format, verdict
modesVars ==
    <<chip, modes_signal, modes_format, verdict>>
Judges == INSTANCE FpgaModes WITH
    Sources <- ModeSources, signal <- modes_signal, format <- modes_format

\* The display on a device with one rate and one color: with buffers that are not
\* created, and with a texture that is not created and a key of the user.
Watcher == INSTANCE EverDisplay WITH
    Rates <- {r1}, Colors <- {c1}, TextureFails <- 0, MaxKeys <- 0
Faulty == INSTANCE EverDisplay WITH
    Rates <- {r1}, Colors <- {c1}

\* The device with any application, at two rates in two colors.
Device == INSTANCE VideoSignal WITH
    MaxChanges <- 1
\* The device in one mode with two colors, through suspend, resume and removal.
Sleeper == INSTANCE VideoSignal WITH
    Modes <- {m1}, Rates <- {r1}, MaxChanges <- 1, CanSleep <- TRUE

allParts == <<subject, allVars, formatsVars, modesVars, audioVars, hubVars>>

\* The component that is explored; the others rest in an initial state.
ViewerInit ==
    /\ subject \in {"display", "faulty", "device", "sleeper", "formats", "modes",
                    "audio", "hub"}
    /\ Watcher!DisplayInit
    /\ subject = "sleeper" => Sleeper!Init
    /\ subject \notin {"display", "faulty", "device", "sleeper"} =>
           signal = NoSignal /\ cached.mode = m1
    /\ FormatTable!Init
    /\ subject # "formats" => formats_signal = PlainSignal /\ formats_format = "yuyv"
    /\ Judges!Init
    /\ Audio!Init
    /\ subject # "audio" => volume = 0
    /\ Hub!Init
    /\ subject # "hub" => hub = "cli" /\ combo = auto /\ device /\ native

ViewerNext ==
    /\ UNCHANGED subject
    /\ IF subject = "display" THEN Watcher!DisplayNext
       ELSE IF subject = "faulty" THEN Faulty!DisplayNext
       ELSE IF subject = "device" THEN Device!Next /\ UNCHANGED <<dispVars, faults>>
       ELSE IF subject = "sleeper" THEN Sleeper!Next /\ UNCHANGED <<dispVars, faults>>
       ELSE UNCHANGED allVars
    /\ IF subject = "formats" THEN FormatTable!Next ELSE UNCHANGED formatsVars
    /\ IF subject = "modes" THEN Judges!Next ELSE UNCHANGED modesVars
    /\ IF subject = "audio" THEN Audio!Next ELSE UNCHANGED audioVars
    /\ IF subject = "hub" THEN Hub!Next ELSE UNCHANGED hubVars

\* A step of the display and its device, where fairness is about these.
Watched(A) == subject = "display" /\ A

ViewerSpec ==
    /\ ViewerInit /\ [][ViewerNext]_allParts
    /\ WF_allVars(Watched(Watcher!Monitor /\ UNCHANGED <<dispVars, faults>>))
    /\ SF_allVars(Watched(Watcher!MonitorCache /\ UNCHANGED <<dispVars, faults>>))
    /\ WF_allVars(Watched(Watcher!CallbackRest /\ UNCHANGED <<dispVars, faults>>))
    /\ SF_allVars(Watched(Watcher!StartEngine /\ UNCHANGED <<dispVars, faults>>))
    /\ WF_allVars(Watched((Watcher!StartLive \/ Watcher!StopEngine) /\ UNCHANGED <<dispVars, faults>>))
    /\ SF_allVars(Watched(Watcher!Start)) /\ SF_allVars(Watched(Watcher!Stop))
    /\ WF_allVars(Watched(Watcher!Stall)) /\ WF_allVars(Watched(Watcher!SourceChange))

\* The display plays in the end what the source settles on.
PictureComes == subject = "display" => Watcher!PictureReturns

\* A mode that is offered, queried or preset starts, in table and FPGA, and a
\* change of colors does not end that.
ModesStart ==
    /\ [](subject = "formats" =>
              /\ FormatTable!TypeOK /\ FormatTable!OfferedStarts
              /\ FormatTable!QueriedTimingsAccepted /\ FormatTable!TransferFits)
    /\ FormatTable!NegotiatedStarts
    /\ [](subject = "modes" => Judges!NominalStarts /\ Judges!PresetsStart)
    /\ Judges!RecolorRestarts
=============================================================================
