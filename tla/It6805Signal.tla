---------------------------- MODULE It6805Signal ----------------------------
(***************************************************************************)
(* How the IT6805 receiver driver (gc573-it6805-core.c) finds the signal   *)
(* on the HDMI input.  The chip has no interrupt line: runtime_work polls  *)
(* its latched interrupt flags, writes them back to clear them, and drives *)
(* the video state machine from what it reads afterwards.                  *)
(*                                                                         *)
(* A step is a group of register accesses between which source and chip    *)
(* may change; any of them may fail, which ends the poll.  A video mode    *)
(* stands for all timings; avi for the color space of the AVI infoframe.   *)
(* The audio part of the poll is in It6805Audio.                           *)
(***************************************************************************)
EXTENDS Naturals

CONSTANTS
    Modes, Avis,      \* video modes; contents of the AVI infoframe
    Hdmi2Modes,       \* the modes above 340 MHz, which need the HDMI 2.0 PHY
    None,
    ConfirmPolls,     \* IT6805_VIDEO_CONFIRM_POLLS
    StablePolls,      \* IT6805_DRM_STABLE_POLLS
    EccErrors, EccRecoveries,   \* 12 and 3 in handle_ecc_error
    SlowSource,       \* TRUE: a lost signal stays lost until a poll has seen it
    MaxChanges,       \* bound on the changes of the source
    MaxFailures       \* bound on the failing register accesses

ASSUME ModesAssumption == Hdmi2Modes \subseteq Modes /\ None \notin Modes \cup Avis
ASSUME CountsAssumption ==
    /\ ConfirmPolls \in Nat \ {0} /\ StablePolls \in Nat \ {0}
    /\ EccErrors \in Nat \ {0} /\ EccRecoveries \in Nat \ {0}
    /\ MaxChanges \in Nat /\ MaxFailures \in Nat
ASSUME SourceAssumption == SlowSource \in BOOLEAN

SysIrqs    == {"5v", "mode", "ecc", "ratio"}
CommonIrqs == {"scdt", "avi", "mute"}
VideoStates == {"WAIT_5V", "WAIT_SYNC", "CONFIRM_SYNC", "ACTIVE"}

VARIABLES
    \* the source: 5 V, mode sent, infoframe, HDR packets, AVMUTE
    power, mode, avi, hdr, muted,
    \* the chip: HPD line, PHY, SCDT (sync detected), interrupt flags
    hpd, phy, lock, irq,
    \* struct it6805_runtime: system.hdmi2_phy, scdt and scdt_valid,
    \* video_state, its delay; timing, avi and avi_change_pending
    hdmi2, scdt, video_state, delay, timing, seen, pending,
    \* output: off, configured, enabled, unmuted; what it is configured for
    out, outFor,
    \* drm.stable_polls, StablePolls once present; ecc_errors, ecc_recoveries
    drm, ecc, recoveries,
    \* the poll: place, saved flags, common_irq_pending
    pc, snap, common,
    changes, failures

srcVars  == <<power, mode, avi, hdr, muted, changes>>
chipVars == <<hpd, phy, lock, irq>>
infoVars == <<timing, seen, pending, out, outFor, drm>>
syncVars == <<scdt, video_state, delay>>
eccVars  == <<ecc, recoveries>>
pollVars == <<pc, snap, common>>
vars == <<srcVars, chipVars, hdmi2, syncVars, infoVars, eccVars, pollVars, failures>>

PollSteps == {"ack", "mode", "ecc", "5v", "hpd", "quiet", "ratio", "common",
              "scdt", "sync", "timing", "avi", "configure", "enable", "drm", "unmute"}

\* The types of every variable.
TypeOK ==
    /\ power \in BOOLEAN /\ mode \in Modes \cup {None} /\ avi \in Avis
    /\ hdr \in BOOLEAN /\ muted \in BOOLEAN
    /\ hpd \in BOOLEAN /\ phy \in BOOLEAN /\ lock \in BOOLEAN
    /\ irq \subseteq SysIrqs \cup CommonIrqs
    /\ hdmi2 \in BOOLEAN /\ scdt \in {"unknown", "low", "high"}
    /\ video_state \in VideoStates /\ delay \in 0 .. ConfirmPolls
    /\ timing \in Modes \cup {None} /\ seen \in Avis \cup {None} /\ pending \in BOOLEAN
    /\ out \in {"off", "configured", "enabled", "unmuted"}
    /\ outFor \in {<<None, None>>} \cup Modes \X Avis
    /\ drm \in 0 .. StablePolls
    /\ ecc \in 0 .. EccErrors - 1 /\ recoveries \in 0 .. EccRecoveries - 1
    /\ pc \in {"idle"} \cup PollSteps /\ snap \subseteq SysIrqs /\ common \in BOOLEAN
    /\ changes \in 0 .. MaxChanges /\ failures \in 0 .. MaxFailures

\* initialize_input_path has read the 5 V status and set HPD by it.
Init ==
    /\ power \in BOOLEAN /\ mode \in Modes /\ avi \in Avis
    /\ hdr = FALSE /\ muted = FALSE
    /\ hpd = power /\ phy = FALSE /\ lock = FALSE /\ irq = {}
    /\ hdmi2 = FALSE /\ scdt = "unknown" /\ delay = 0
    /\ video_state = IF power THEN "WAIT_SYNC" ELSE "WAIT_5V"
    /\ timing = None /\ seen = None /\ pending = FALSE
    /\ out = "off" /\ outFor = <<None, None>> /\ drm = 0
    /\ ecc = 0 /\ recoveries = 0
    /\ pc = "idle" /\ snap = {} /\ common = FALSE
    /\ changes = 0 /\ failures = 0

-----------------------------------------------------------------------------
(* The source and the chip (external)                                       *)

driverVars == <<hdmi2, syncVars, infoVars, eccVars, pollVars, failures>>

\* The chip loses the signal.
Unlock(flags) ==
    /\ lock' = FALSE
    /\ irq' = irq \cup flags \cup (IF lock THEN {"scdt"} ELSE {})

Change == changes < MaxChanges /\ changes' = changes + 1

\* The cable is plugged or pulled, the source wakes up or is switched off.
TogglePower ==
    /\ Change
    /\ power' = ~power
    /\ Unlock({"5v"})
    /\ UNCHANGED <<mode, avi, hdr, muted, hpd, phy, driverVars>>

\* Another mode, or none; the flags that may come with it differ by source.
SwitchMode(m, a, flags) ==
    /\ Change /\ power /\ m # mode
    /\ mode' = m /\ avi' = a
    /\ Unlock(flags)
    /\ UNCHANGED <<power, hdr, muted, hpd, phy, driverVars>>

\* Sync is detected if the source sends, sees HPD and has the right PHY.
Lock ==
    /\ ~lock /\ power /\ hpd /\ mode # None
    /\ mode \in Hdmi2Modes => phy
    /\ SlowSource => scdt # "high"
    /\ lock' = TRUE /\ irq' = irq \cup {"scdt", "avi"}
    /\ UNCHANGED <<srcVars, hpd, phy, driverVars>>

ChangeInfo(a, h) ==
    /\ Change /\ lock /\ <<a, h>> # <<avi, hdr>>
    /\ avi' = a /\ hdr' = h
    /\ irq' = IF a # avi THEN irq \cup {"avi"} ELSE irq
    /\ UNCHANGED <<power, mode, muted, hpd, phy, lock, driverVars>>

ToggleMute ==
    /\ Change /\ lock
    /\ muted' = ~muted /\ irq' = irq \cup {"mute"}
    /\ UNCHANGED <<power, mode, avi, hdr, hpd, phy, lock, driverVars>>

LinkError ==
    /\ Change /\ lock /\ "ecc" \notin irq
    /\ irq' = irq \cup {"ecc"}
    /\ UNCHANGED <<power, mode, avi, hdr, muted, hpd, phy, lock, driverVars>>

Source ==
    \/ TogglePower \/ Lock \/ ToggleMute \/ LinkError
    \/ \E m \in Modes \cup {None}, a \in Avis, f \in {{}, {"ratio"}, {"mode"}} :
          SwitchMode(m, a, f)
    \/ \E a \in Avis, h \in BOOLEAN : ChangeInfo(a, h)

-----------------------------------------------------------------------------
(* Helpers                                                                  *)

\* it6805_invalidate_signal_state
Invalidate ==
    /\ timing' = None /\ seen' = None /\ pending' = FALSE
    /\ out' = "off" /\ outFor' = <<None, None>> /\ drm' = 0

\* Mutant: what was measured survives the loss of sync.
ApplyScdt_Keep(asserted) ==
    IF scdt = (IF asserted THEN "high" ELSE "low")
    THEN UNCHANGED <<syncVars, infoVars>>
    ELSE /\ scdt' = IF asserted THEN "high" ELSE "low"
         /\ video_state' = IF asserted THEN "CONFIRM_SYNC" ELSE "WAIT_SYNC"
         /\ delay' = IF asserted THEN ConfirmPolls ELSE 0
         /\ UNCHANGED infoVars

\* it6805_apply_scdt_locked: does nothing when SCDT is what it was.
ApplyScdt(asserted) ==
    IF scdt = (IF asserted THEN "high" ELSE "low")
    THEN UNCHANGED <<syncVars, infoVars>>
    ELSE /\ scdt' = IF asserted THEN "high" ELSE "low"
         /\ video_state' = IF asserted THEN "CONFIRM_SYNC" ELSE "WAIT_SYNC"
         /\ delay' = IF asserted THEN ConfirmPolls ELSE 0
         /\ IF asserted THEN UNCHANGED infoVars ELSE Invalidate

\* it6805_set_hdmi2_phy_locked
SetPhy(on) ==
    /\ hdmi2' = on
    /\ phy' = IF hdmi2 = on THEN phy ELSE on

Goto(step) == pc' = step

-----------------------------------------------------------------------------
(* One poll: it6805_handle_port0_system_irq                                 *)

\* Mutant: the PHY follows the last measured mode only.
PollStart_OldPhy ==
    /\ pc = "idle"
    /\ snap' = irq \cap SysIrqs /\ common' = (irq \cap CommonIrqs # {})
    /\ SetPhy(IF timing # None THEN timing \in Hdmi2Modes ELSE hdmi2)
    /\ Goto("ack")
    /\ UNCHANGED <<srcVars, hpd, lock, irq, syncVars, infoVars, eccVars, failures>>

\* The flags are saved; the PHY follows the clock ratio the source announces.
PollStart ==
    /\ pc = "idle"
    /\ snap' = irq \cap SysIrqs /\ common' = (irq \cap CommonIrqs # {})
    /\ SetPhy(IF power /\ mode \in Hdmi2Modes THEN TRUE
              ELSE IF timing # None THEN timing \in Hdmi2Modes ELSE hdmi2)
    /\ Goto("ack")
    /\ UNCHANGED <<srcVars, hpd, lock, irq, syncVars, infoVars, eccVars, failures>>

\* The saved flags are cleared, with what was latched since.
PollAck ==
    /\ pc = "ack"
    /\ irq' = irq \ snap
    /\ Goto(IF snap = {} THEN "common" ELSE "mode")
    /\ UNCHANGED <<srcVars, hpd, phy, lock, hdmi2, syncVars, infoVars, eccVars, snap,
                   common, failures>>

PollMode ==
    /\ pc = "mode"
    /\ IF "mode" \in snap /\ video_state = "ACTIVE"
       THEN out' = "off" /\ outFor' = <<None, None>>
       ELSE UNCHANGED <<out, outFor>>
    /\ Goto("ecc")
    /\ UNCHANGED <<srcVars, chipVars, hdmi2, syncVars, timing, seen, pending, drm,
                   eccVars, snap, common, failures>>

\* it6805_handle_ecc_error_locked: after EccErrors errors HPD is pulsed; instead
\* of the last pulse all logic is reset and the 5 V status handled afresh.
PollEcc ==
    /\ pc = "ecc"
    /\ IF "ecc" \notin snap \/ ecc + 1 < EccErrors
       THEN /\ ecc' = IF "ecc" \in snap THEN ecc + 1 ELSE ecc
            /\ Goto("5v") /\ UNCHANGED <<recoveries, lock, irq, snap>>
       ELSE /\ ecc' = 0 /\ Unlock({})
            /\ IF recoveries + 1 < EccRecoveries
               THEN recoveries' = recoveries + 1 /\ UNCHANGED snap
               ELSE recoveries' = 0 /\ snap' = snap \cup {"5v"}
            /\ Goto("5v")
    /\ UNCHANGED <<srcVars, hpd, phy, hdmi2, syncVars, infoVars, common, failures>>

\* it6805_handle_5v_port0_locked: all that is known is forgotten ...
Poll5v ==
    /\ pc = "5v"
    /\ IF "5v" \in snap
       THEN /\ scdt' = "unknown" /\ delay' = 0
            /\ video_state' = IF power THEN "WAIT_SYNC" ELSE "WAIT_5V"
            /\ Invalidate /\ Goto("hpd")
       ELSE Goto("ratio") /\ UNCHANGED <<syncVars, infoVars>>
    /\ UNCHANGED <<srcVars, chipVars, hdmi2, eccVars, snap, common, failures>>

\* Mutant: HPD is raised when the 5 V comes and never lowered.
PollHpd_Up ==
    /\ pc = "hpd"
    /\ hpd' = (hpd \/ video_state = "WAIT_SYNC")
    /\ Goto(IF video_state = "WAIT_SYNC" THEN "ratio" ELSE "quiet")
    /\ UNCHANGED <<srcVars, phy, lock, irq, hdmi2, syncVars, infoVars, eccVars, snap,
                   common, failures>>

\* ... then HPD is set by the status read before; unless the port reports 5 V
\* and HPD, which makes it6805_set_port0_hpd_locked leave the line alone.
PollHpd ==
    /\ pc = "hpd"
    /\ hpd' = IF power /\ hpd THEN hpd ELSE video_state = "WAIT_SYNC"
    /\ Goto(IF video_state = "WAIT_SYNC" THEN "ratio" ELSE "quiet")
    /\ UNCHANGED <<srcVars, phy, lock, irq, hdmi2, syncVars, infoVars, eccVars, snap,
                   common, failures>>

\* it6805_enter_no_signal_locked and it6805_reset_eq_port0_locked
PollQuiet ==
    /\ pc = "quiet"
    /\ Unlock({}) /\ Goto("ratio")
    /\ UNCHANGED <<srcVars, hpd, phy, hdmi2, syncVars, infoVars, eccVars, snap, common,
                   failures>>

\* The clock ratio was lost: wait for sync again, with the equalizer restarted.
\* scdt is not touched.
PollRatio ==
    /\ pc = "ratio"
    /\ IF "ratio" \in snap
       THEN /\ video_state' = "WAIT_SYNC" /\ delay' = 0
            /\ Invalidate /\ Unlock({})
       ELSE UNCHANGED <<video_state, delay, infoVars, lock, irq>>
    /\ Goto("common")
    /\ UNCHANGED <<srcVars, hpd, phy, hdmi2, scdt, eccVars, snap, common, failures>>

-----------------------------------------------------------------------------
(* The same poll: it6805_service_common_runtime                             *)

\* it6805_ack_common_irq_locked and handle_avmute_irq_locked: the flags are
\* read again and cleared.
PollCommon ==
    /\ pc = "common"
    /\ IF ~common THEN Goto("sync") /\ UNCHANGED <<irq, pending, out>>
       ELSE LET got == irq \cap CommonIrqs IN
            /\ irq' = irq \ got
            /\ pending' = (pending \/ "avi" \in got)
            /\ out' = IF "mute" \in got /\ out = "unmuted" THEN "enabled" ELSE out
            /\ Goto(IF "scdt" \in got THEN "scdt" ELSE "sync")
    /\ UNCHANGED <<srcVars, hpd, phy, lock, hdmi2, syncVars, timing, seen, outFor, drm,
                   eccVars, snap, common, failures>>

\* it6805_handle_scdt_change_locked
PollScdt ==
    /\ pc = "scdt"
    /\ ApplyScdt(lock) /\ Goto("sync")
    /\ UNCHANGED <<srcVars, chipVars, hdmi2, eccVars, snap, common, failures>>

\* it6805_tick_video_state
Tick ==
    /\ delay' = IF video_state = "CONFIRM_SYNC" /\ delay > 0 THEN delay - 1 ELSE delay
    /\ video_state' = IF video_state = "CONFIRM_SYNC" /\ delay <= 1 THEN "ACTIVE"
                      ELSE video_state
    /\ UNCHANGED <<scdt, infoVars>>

\* it6805_probe_wait_sync_locked, then the tick of the state it leaves.
PollSync ==
    /\ pc = "sync"
    /\ IF video_state = "WAIT_SYNC" /\ lock /\ scdt # "high"
       THEN /\ scdt' = "high" /\ delay' = ConfirmPolls - 1
            /\ video_state' = IF ConfirmPolls = 1 THEN "ACTIVE" ELSE "CONFIRM_SYNC"
            /\ UNCHANGED infoVars
       ELSE Tick
    /\ Goto("timing")
    /\ UNCHANGED <<srcVars, chipVars, hdmi2, eccVars, snap, common, failures>>

\* it6805_refresh_video_timing_locked: mode measured (any value without sync,
\* or none that makes sense), the PHY follows it.
PollTiming ==
    /\ pc = "timing"
    /\ IF video_state = "ACTIVE" /\ timing = None
       THEN \/ \E m \in Modes :
                 /\ lock => m = mode
                 /\ timing' = m /\ SetPhy((power /\ mode \in Hdmi2Modes) \/ m \in Hdmi2Modes)
                 /\ Goto("avi")
            \/ ~lock /\ Goto("idle") /\ UNCHANGED <<timing, hdmi2, phy>>
       ELSE Goto("avi") /\ UNCHANGED <<timing, hdmi2, phy>>
    /\ UNCHANGED <<srcVars, hpd, lock, irq, syncVars, seen, pending, out, outFor, drm,
                   eccVars, snap, common, failures>>

\* Mutant: a new infoframe does not lead to a new configuration of the output.
PollAvi_NoReconfigure ==
    /\ pc = "avi"
    /\ IF timing # None /\ (seen = None \/ pending)
       THEN seen' = avi /\ pending' = FALSE
       ELSE UNCHANGED <<seen, pending>>
    /\ Goto("configure")
    /\ UNCHANGED <<srcVars, chipVars, hdmi2, syncVars, timing, out, outFor, drm, eccVars,
                   snap, common, failures>>

\* it6805_refresh_avi_info_locked
PollAvi ==
    /\ pc = "avi"
    /\ IF timing # None /\ (seen = None \/ pending)
       THEN /\ seen' = avi /\ pending' = FALSE
            /\ IF pending /\ seen # None /\ out # "off" /\ avi # seen
               THEN out' = "off" /\ outFor' = <<None, None>>
               ELSE UNCHANGED <<out, outFor>>
       ELSE UNCHANGED <<seen, pending, out, outFor>>
    /\ Goto("configure")
    /\ UNCHANGED <<srcVars, chipVars, hdmi2, syncVars, timing, drm, eccVars, snap, common,
                   failures>>

\* it6805_configure_video_output_locked
PollConfigure ==
    /\ pc = "configure"
    /\ IF seen # None /\ out = "off"
       THEN out' = "configured" /\ outFor' = <<timing, seen>>
       ELSE UNCHANGED <<out, outFor>>
    /\ Goto("enable")
    /\ UNCHANGED <<srcVars, chipVars, hdmi2, syncVars, timing, seen, pending, drm, eccVars,
                   snap, common, failures>>

\* it6805_enable_video_output_locked
PollEnable ==
    /\ pc = "enable"
    /\ out' = IF out = "configured" THEN "enabled" ELSE out
    /\ Goto(IF out = "off" THEN "unmute" ELSE "drm")
    /\ UNCHANGED <<srcVars, chipVars, hdmi2, syncVars, timing, seen, pending, outFor, drm,
                   eccVars, snap, common, failures>>

\* it6805_refresh_drm_info_locked: HDR counts once its packets are stable.
PollDrm ==
    /\ pc = "drm"
    /\ drm' = IF ~hdr THEN 0 ELSE IF drm < StablePolls THEN drm + 1 ELSE drm
    /\ Goto("unmute")
    /\ UNCHANGED <<srcVars, chipVars, hdmi2, syncVars, timing, seen, pending, out, outFor,
                   eccVars, snap, common, failures>>

\* it6805_unmute_video_locked: -EAGAIN while the source mutes.
PollUnmute ==
    /\ pc = "unmute"
    /\ out' = IF out = "enabled" /\ ~muted THEN "unmuted" ELSE out
    /\ Goto("idle") /\ snap' = {} /\ common' = FALSE
    /\ UNCHANGED <<srcVars, chipVars, hdmi2, syncVars, timing, seen, pending, outFor, drm,
                   eccVars, failures>>

\* An access fails: the poll ends.  Only the HDR packets' failure is put off
\* to the end of the poll.
PollFail ==
    /\ pc # "idle" /\ failures < MaxFailures
    /\ failures' = failures + 1
    /\ pc' = IF pc = "drm" THEN "unmute" ELSE "idle"
    /\ UNCHANGED <<srcVars, chipVars, hdmi2, syncVars, infoVars, eccVars, snap, common>>

Poll ==
    \/ PollStart \/ PollAck \/ PollMode \/ PollEcc \/ Poll5v \/ PollHpd \/ PollQuiet
    \/ PollRatio \/ PollCommon \/ PollScdt \/ PollSync \/ PollTiming \/ PollAvi
    \/ PollConfigure \/ PollEnable \/ PollDrm \/ PollUnmute

Next == Source \/ Poll \/ PollFail

Spec == Init /\ [][Next]_vars
-----------------------------------------------------------------------------
(* Properties                                                               *)

\* gc555_it6805_get_video_signal succeeds.
Reported ==
    /\ scdt = "high" /\ video_state = "ACTIVE"
    /\ timing # None /\ seen # None /\ out = "unmuted"

\* What get_video_signal reports between polls is the signal on the input,
\* unless flags wait in the chip that make the next poll look again.
ReportedIsCurrent ==
    pc = "idle" /\ Reported /\ irq \cap {"5v", "scdt"} = {}
       => lock /\ timing = mode /\ ("avi" \in irq \/ seen = avi)

\* The output the FPGA captures from is set up for the timings and the color
\* space that are reported with it, even when accesses fail on the way.
OutputMatches ==
    out # "off" => outFor = <<timing, seen>>

\* A source that mutes is not passed on as a picture without a flag pending.
MuteNoticed ==
    pc = "idle" /\ Reported /\ muted => irq \cap {"mute", "scdt", "5v"} # {}

\* A source that is on and stays as it is ends up reported as it is, with its
\* HDR packets; nothing is left waiting for a flag that was cleared.
Steady == power /\ mode # None /\ ~muted
SignalReported ==
    <>[]Steady => <>[](Reported /\ timing = mode /\ seen = avi /\ (drm = StablePolls) = hdr)

\* HPD ends up as the 5 V of the source is.
HpdFollows == <>[](hpd = power)
=============================================================================
