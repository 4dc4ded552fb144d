---------------------------- MODULE It6805Proofs ----------------------------
(***************************************************************************)
(* The IT6805, for any modes, sources, limits and number of failing        *)
(* accesses: what is reported of signal and audio is what the input has,   *)
(* the bring-up leaves the chip as it should wherever it fails, and the    *)
(* remembered bank agrees with the chip, so that registers are accessed in *)
(* the bank they were meant in.                                            *)
(***************************************************************************)
EXTENDS It6805Core, TLAPS

-----------------------------------------------------------------------------
(* The signal on the input                                                  *)

\* TypeOK, part by part.
SourceTypes ==
    /\ power \in BOOLEAN /\ mode \in Modes \cup {None} /\ avi \in Avis
    /\ hdr \in BOOLEAN /\ muted \in BOOLEAN
ChipTypes ==
    /\ hpd \in BOOLEAN /\ phy \in BOOLEAN /\ lock \in BOOLEAN /\ hdmi2 \in BOOLEAN
    /\ irq \subseteq SysIrqs \cup CommonIrqs
SyncTypes ==
    /\ scdt \in {"unknown", "low", "high"} /\ video_state \in VideoStates
    /\ delay \in 0 .. ConfirmPolls
InfoTypes ==
    /\ timing \in Modes \cup {None} /\ seen \in Avis \cup {None} /\ pending \in BOOLEAN
    /\ out \in {"off", "configured", "enabled", "unmuted"}
OutputTypes == outFor \in {<<None, None>>} \cup Modes \X Avis
CounterTypes ==
    /\ drm \in 0 .. StablePolls
    /\ ecc \in 0 .. EccErrors - 1 /\ recoveries \in 0 .. EccRecoveries - 1
PollTypes ==
    /\ pc \in {"idle"} \cup PollSteps /\ snap \subseteq SysIrqs /\ common \in BOOLEAN
BoundTypes == changes \in 0 .. MaxChanges /\ failures \in 0 .. MaxFailures
Typed ==
    /\ SourceTypes /\ ChipTypes /\ SyncTypes /\ InfoTypes /\ OutputTypes /\ CounterTypes
    /\ PollTypes /\ BoundTypes

\* What was measured belongs to a sync that is there, and the output to it.
Measured ==
    /\ video_state \in {"CONFIRM_SYNC", "ACTIVE"} => scdt = "high"
    /\ timing # None => video_state = "ACTIVE"
    /\ seen # None => timing # None
    /\ out # "off" => seen # None /\ outFor = <<timing, seen>>

\* A mute that the output does not know of has its flag in the chip.
MuteFlagged == out = "unmuted" /\ muted => "mute" \in irq

\* While no access has failed: a lost sync has its flag in the chip or is about
\* to be noticed, what was measured is what is sent, and a new infoframe has its
\* flag or is about to be read.
LossFlagged == scdt = "high" /\ ~lock => "scdt" \in irq \/ pc = "scdt"
ModeKept == lock /\ timing # None => timing = mode
InfoFlagged ==
    /\ lock /\ seen # None => seen = avi \/ "avi" \in irq \/ pending
    /\ pending /\ seen # None => pc \in {"scdt", "sync", "timing", "avi"}
Followed == LossFlagged /\ ModeKept /\ InfoFlagged

SignalInv == Typed /\ Measured /\ MuteFlagged /\ (SlowSource /\ failures = 0 => Followed)

\* The two groups of flags are apart, no mode is none, and limits are numbers.
LEMMA Flags ==
    /\ SysIrqs \cap {"scdt", "avi", "mute"} = {}
    /\ CommonIrqs = {"scdt", "avi", "mute"}
    /\ None \notin Modes /\ None \notin Avis
    /\ 0 \in 0 .. ConfirmPolls /\ ConfirmPolls \in 0 .. ConfirmPolls
    /\ ConfirmPolls \in Nat /\ ConfirmPolls - 1 \in 0 .. ConfirmPolls /\ StablePolls \in Nat
    /\ EccErrors \in Nat \ {0} /\ EccRecoveries \in Nat \ {0}
    /\ MaxChanges \in Nat /\ MaxFailures \in Nat
  BY ModesAssumption, CountsAssumption DEF SysIrqs, CommonIrqs

\* The initial states satisfy the invariant.
LEMMA SignalInit == Init => SignalInv
<1> SUFFICES ASSUME Init PROVE SignalInv
  OBVIOUS
<1> USE Flags DEF Init
<1>1. SourceTypes /\ ChipTypes
  BY DEF SourceTypes, ChipTypes
<1>2. SyncTypes /\ InfoTypes /\ OutputTypes
  BY DEF SyncTypes, InfoTypes, OutputTypes, VideoStates
<1>4. CounterTypes
  BY DEF CounterTypes
<1>5. PollTypes
  BY DEF PollTypes
<1>6. BoundTypes
  BY DEF BoundTypes
<1>3. Measured /\ MuteFlagged /\ Followed
  BY DEF Init, Measured, MuteFlagged, Followed, LossFlagged, ModeKept, InfoFlagged
<1> QED BY <1>1, <1>2, <1>3, <1>4, <1>5, <1>6 DEF SignalInv, Typed

\* The 5 V comes or goes.
LEMMA TogglePowerKeeps == ASSUME SignalInv, TogglePower PROVE SignalInv'
<1> USE Flags DEF SignalInv, Typed, TogglePower, Unlock, Change, Goto, srcVars, chipVars, syncVars,
       infoVars, eccVars, pollVars, driverVars
<1>1. Typed'
  <2>1. SourceTypes' /\ ChipTypes'
    BY DEF SourceTypes, ChipTypes, PollTypes, SysIrqs, CommonIrqs
  <2>2. SyncTypes' /\ InfoTypes'
    BY DEF SyncTypes, InfoTypes, SourceTypes, VideoStates
  <2>3. OutputTypes'
    BY DEF OutputTypes, InfoTypes, Measured
  <2>4. CounterTypes'
    BY DEF CounterTypes
  <2>5. PollTypes' /\ BoundTypes'
    BY DEF PollTypes, BoundTypes, PollSteps, SysIrqs
  <2> QED BY <2>1, <2>2, <2>3, <2>4, <2>5
<1>2. Measured' /\ MuteFlagged'
  BY DEF SourceTypes, ChipTypes, SyncTypes, InfoTypes, PollTypes, Measured, MuteFlagged, SysIrqs,
         CommonIrqs
<1>3. SlowSource /\ failures' = 0 => Followed'
  BY DEF SourceTypes, ChipTypes, SyncTypes, InfoTypes, PollTypes, BoundTypes, Measured, Followed,
         LossFlagged, ModeKept, InfoFlagged, SysIrqs, CommonIrqs
<1> QED BY <1>1, <1>2, <1>3

\* Sync is found.
LEMMA LockKeeps == ASSUME SignalInv, Lock PROVE SignalInv'
<1> USE Flags DEF SignalInv, Typed, Lock, Goto, srcVars, chipVars, syncVars, infoVars, eccVars,
       pollVars, driverVars
<1>1. Typed'
  <2>1. SourceTypes' /\ ChipTypes'
    BY DEF SourceTypes, ChipTypes, PollTypes, SysIrqs, CommonIrqs
  <2>2. SyncTypes' /\ InfoTypes'
    BY DEF SyncTypes, InfoTypes, SourceTypes, VideoStates
  <2>3. OutputTypes'
    BY DEF OutputTypes, InfoTypes, Measured
  <2>4. CounterTypes'
    BY DEF CounterTypes
  <2>5. PollTypes' /\ BoundTypes'
    BY DEF PollTypes, BoundTypes, PollSteps, SysIrqs
  <2> QED BY <2>1, <2>2, <2>3, <2>4, <2>5
<1>2. Measured' /\ MuteFlagged'
  BY DEF SourceTypes, ChipTypes, SyncTypes, InfoTypes, PollTypes, Measured, MuteFlagged, SysIrqs,
         CommonIrqs
<1>3. SlowSource /\ failures' = 0 => Followed'
  BY DEF SourceTypes, ChipTypes, SyncTypes, InfoTypes, PollTypes, BoundTypes, Measured, Followed,
         LossFlagged, ModeKept, InfoFlagged, SysIrqs, CommonIrqs
<1> QED BY <1>1, <1>2, <1>3

\* The source mutes.
LEMMA ToggleMuteKeeps == ASSUME SignalInv, ToggleMute PROVE SignalInv'
<1> USE Flags DEF SignalInv, Typed, ToggleMute, Change, Goto, srcVars, chipVars, syncVars,
       infoVars, eccVars, pollVars, driverVars
<1>1. Typed'
  <2>1. SourceTypes' /\ ChipTypes'
    BY DEF SourceTypes, ChipTypes, PollTypes, SysIrqs, CommonIrqs
  <2>2. SyncTypes' /\ InfoTypes'
    BY DEF SyncTypes, InfoTypes, SourceTypes, VideoStates
  <2>3. OutputTypes'
    BY DEF OutputTypes, InfoTypes, Measured
  <2>4. CounterTypes'
    BY DEF CounterTypes
  <2>5. PollTypes' /\ BoundTypes'
    BY DEF PollTypes, BoundTypes, PollSteps, SysIrqs
  <2> QED BY <2>1, <2>2, <2>3, <2>4, <2>5
<1>2. Measured' /\ MuteFlagged'
  BY DEF SourceTypes, ChipTypes, SyncTypes, InfoTypes, PollTypes, Measured, MuteFlagged, SysIrqs,
         CommonIrqs
<1>3. SlowSource /\ failures' = 0 => Followed'
  BY DEF SourceTypes, ChipTypes, SyncTypes, InfoTypes, PollTypes, BoundTypes, Measured, Followed,
         LossFlagged, ModeKept, InfoFlagged, SysIrqs, CommonIrqs
<1> QED BY <1>1, <1>2, <1>3

\* An error of the link.
LEMMA LinkErrorKeeps == ASSUME SignalInv, LinkError PROVE SignalInv'
<1> USE Flags DEF SignalInv, Typed, LinkError, Change, Goto, srcVars, chipVars, syncVars, infoVars,
       eccVars, pollVars, driverVars
<1>1. Typed'
  <2>1. SourceTypes' /\ ChipTypes'
    BY DEF SourceTypes, ChipTypes, PollTypes, SysIrqs, CommonIrqs
  <2>2. SyncTypes' /\ InfoTypes'
    BY DEF SyncTypes, InfoTypes, SourceTypes, VideoStates
  <2>3. OutputTypes'
    BY DEF OutputTypes, InfoTypes, Measured
  <2>4. CounterTypes'
    BY DEF CounterTypes
  <2>5. PollTypes' /\ BoundTypes'
    BY DEF PollTypes, BoundTypes, PollSteps, SysIrqs
  <2> QED BY <2>1, <2>2, <2>3, <2>4, <2>5
<1>2. Measured' /\ MuteFlagged'
  BY DEF SourceTypes, ChipTypes, SyncTypes, InfoTypes, PollTypes, Measured, MuteFlagged, SysIrqs,
         CommonIrqs
<1>3. SlowSource /\ failures' = 0 => Followed'
  BY DEF SourceTypes, ChipTypes, SyncTypes, InfoTypes, PollTypes, BoundTypes, Measured, Followed,
         LossFlagged, ModeKept, InfoFlagged, SysIrqs, CommonIrqs
<1> QED BY <1>1, <1>2, <1>3

\* Another mode: sync is lost.
LEMMA SwitchModeKeeps ==
    ASSUME SignalInv, NEW m \in Modes \cup {None}, NEW a \in Avis,
           NEW f \in {{}, {"ratio"}, {"mode"}}, SwitchMode(m, a, f)
    PROVE  SignalInv'
<1> USE Flags DEF SignalInv, Typed, SwitchMode, Unlock, Change, Goto, srcVars, chipVars, syncVars,
       infoVars, eccVars, pollVars, driverVars
<1>1. Typed'
  <2>1. SourceTypes' /\ ChipTypes'
    BY DEF SourceTypes, ChipTypes, PollTypes, SysIrqs, CommonIrqs
  <2>2. SyncTypes' /\ InfoTypes'
    BY DEF SyncTypes, InfoTypes, SourceTypes, VideoStates
  <2>3. OutputTypes'
    BY DEF OutputTypes, InfoTypes, Measured
  <2>4. CounterTypes'
    BY DEF CounterTypes
  <2>5. PollTypes' /\ BoundTypes'
    BY DEF PollTypes, BoundTypes, PollSteps, SysIrqs
  <2> QED BY <2>1, <2>2, <2>3, <2>4, <2>5
<1>2. Measured' /\ MuteFlagged'
  BY DEF SourceTypes, ChipTypes, SyncTypes, InfoTypes, PollTypes, Measured, MuteFlagged, SysIrqs,
         CommonIrqs
<1>3. SlowSource /\ failures' = 0 => Followed'
  BY DEF SourceTypes, ChipTypes, SyncTypes, InfoTypes, PollTypes, BoundTypes, Measured, Followed,
         LossFlagged, ModeKept, InfoFlagged, SysIrqs, CommonIrqs
<1> QED BY <1>1, <1>2, <1>3

\* Another infoframe.
LEMMA ChangeInfoKeeps ==
    ASSUME SignalInv, NEW a \in Avis, NEW h \in BOOLEAN, ChangeInfo(a, h)
    PROVE  SignalInv'
<1> USE Flags DEF SignalInv, Typed, ChangeInfo, Change, Goto, srcVars, chipVars, syncVars,
       infoVars, eccVars, pollVars, driverVars
<1>1. Typed'
  <2>1. SourceTypes' /\ ChipTypes'
    BY DEF SourceTypes, ChipTypes, PollTypes, SysIrqs, CommonIrqs
  <2>2. SyncTypes' /\ InfoTypes'
    BY DEF SyncTypes, InfoTypes, SourceTypes, VideoStates
  <2>3. OutputTypes'
    BY DEF OutputTypes, InfoTypes, Measured
  <2>4. CounterTypes'
    BY DEF CounterTypes
  <2>5. PollTypes' /\ BoundTypes'
    BY DEF PollTypes, BoundTypes, PollSteps, SysIrqs
  <2> QED BY <2>1, <2>2, <2>3, <2>4, <2>5
<1>2. Measured' /\ MuteFlagged'
  BY DEF SourceTypes, ChipTypes, SyncTypes, InfoTypes, PollTypes, Measured, MuteFlagged, SysIrqs,
         CommonIrqs
<1>3. SlowSource /\ failures' = 0 => Followed'
  BY DEF SourceTypes, ChipTypes, SyncTypes, InfoTypes, PollTypes, BoundTypes, Measured, Followed,
         LossFlagged, ModeKept, InfoFlagged, SysIrqs, CommonIrqs
<1> QED BY <1>1, <1>2, <1>3

\* A poll saves the flags; the PHY follows the source.
LEMMA PollStartKeeps == ASSUME SignalInv, PollStart PROVE SignalInv'
<1> USE Flags DEF SignalInv, Typed, PollStart, SetPhy, Goto, srcVars, chipVars, syncVars, infoVars,
       eccVars, pollVars, driverVars
<1>1. Typed'
  <2>1. SourceTypes' /\ ChipTypes'
    <3> DEFINE on == IF power /\ mode \in Hdmi2Modes THEN TRUE
                     ELSE IF timing # None THEN timing \in Hdmi2Modes ELSE hdmi2
    <3> DEFINE measured == timing \in Hdmi2Modes
    <3>1. on \in BOOLEAN
      <4>1. measured \in BOOLEAN /\ hdmi2 \in BOOLEAN
        BY DEF ChipTypes
      <4>2. on = TRUE \/ on = measured \/ on = hdmi2
        BY Zenon
      <4> QED BY <4>1, <4>2, Zenon
    <3>2. hdmi2' = on /\ phy' = IF hdmi2 = on THEN phy ELSE on
      BY Zenon
    <3> HIDE DEF on
    <3>3. phy' \in BOOLEAN
      BY <3>1, <3>2, Zenon DEF ChipTypes
    <3>4. hdmi2' \in BOOLEAN
      BY <3>1, <3>2, Zenon
    <3> QED BY <3>3, <3>4 DEF SourceTypes, ChipTypes
  <2>2. SyncTypes' /\ InfoTypes'
    BY DEF SyncTypes, InfoTypes, SourceTypes, VideoStates
  <2>3. OutputTypes'
    BY DEF OutputTypes, InfoTypes, Measured
  <2>4. CounterTypes'
    BY DEF CounterTypes
  <2>5. PollTypes' /\ BoundTypes'
    BY DEF PollTypes, BoundTypes, PollSteps, SysIrqs
  <2> QED BY <2>1, <2>2, <2>3, <2>4, <2>5
<1>2. Measured' /\ MuteFlagged'
  BY DEF SourceTypes, ChipTypes, SyncTypes, InfoTypes, PollTypes, Measured, MuteFlagged, SysIrqs,
         CommonIrqs
<1>3. SlowSource /\ failures' = 0 => Followed'
  BY DEF SourceTypes, ChipTypes, SyncTypes, InfoTypes, PollTypes, BoundTypes, Measured, Followed,
         LossFlagged, ModeKept, InfoFlagged, SysIrqs, CommonIrqs
<1> QED BY <1>1, <1>2, <1>3

\* ... clears the flags it saved.
LEMMA PollAckKeeps == ASSUME SignalInv, PollAck PROVE SignalInv'
<1> USE Flags DEF SignalInv, Typed, PollAck, Goto, srcVars, chipVars, syncVars, infoVars, eccVars,
       pollVars, driverVars
<1>1. Typed'
  <2>1. SourceTypes' /\ ChipTypes'
    BY DEF SourceTypes, ChipTypes, PollTypes, SysIrqs, CommonIrqs
  <2>2. SyncTypes' /\ InfoTypes'
    BY DEF SyncTypes, InfoTypes, SourceTypes, VideoStates
  <2>3. OutputTypes'
    BY DEF OutputTypes, InfoTypes, Measured
  <2>4. CounterTypes'
    BY DEF CounterTypes
  <2>5. PollTypes' /\ BoundTypes'
    BY DEF PollTypes, BoundTypes, PollSteps, SysIrqs
  <2> QED BY <2>1, <2>2, <2>3, <2>4, <2>5
<1>2. Measured' /\ MuteFlagged'
  BY DEF SourceTypes, ChipTypes, SyncTypes, InfoTypes, PollTypes, Measured, MuteFlagged, SysIrqs,
         CommonIrqs
<1>3. SlowSource /\ failures' = 0 => Followed'
  BY DEF SourceTypes, ChipTypes, SyncTypes, InfoTypes, PollTypes, BoundTypes, Measured, Followed,
         LossFlagged, ModeKept, InfoFlagged, SysIrqs, CommonIrqs
<1> QED BY <1>1, <1>2, <1>3

\* ... turns the output off when the mode changed.
LEMMA PollModeKeeps == ASSUME SignalInv, PollMode PROVE SignalInv'
<1> USE Flags DEF SignalInv, Typed, PollMode, Goto, srcVars, chipVars, syncVars, infoVars, eccVars,
       pollVars, driverVars
<1>1. Typed'
  <2>1. SourceTypes' /\ ChipTypes'
    BY DEF SourceTypes, ChipTypes, PollTypes, SysIrqs, CommonIrqs
  <2>2. SyncTypes' /\ InfoTypes'
    BY DEF SyncTypes, InfoTypes, SourceTypes, VideoStates
  <2>3. OutputTypes'
    BY DEF OutputTypes, InfoTypes, Measured
  <2>4. CounterTypes'
    BY DEF CounterTypes
  <2>5. PollTypes' /\ BoundTypes'
    BY DEF PollTypes, BoundTypes, PollSteps, SysIrqs
  <2> QED BY <2>1, <2>2, <2>3, <2>4, <2>5
<1>2. Measured' /\ MuteFlagged'
  BY DEF SourceTypes, ChipTypes, SyncTypes, InfoTypes, PollTypes, Measured, MuteFlagged, SysIrqs,
         CommonIrqs
<1>3. SlowSource /\ failures' = 0 => Followed'
  BY DEF SourceTypes, ChipTypes, SyncTypes, InfoTypes, PollTypes, BoundTypes, Measured, Followed,
         LossFlagged, ModeKept, InfoFlagged, SysIrqs, CommonIrqs
<1> QED BY <1>1, <1>2, <1>3

\* ... counts the errors of the link.
LEMMA PollEccKeeps == ASSUME SignalInv, PollEcc PROVE SignalInv'
<1> USE Flags DEF SignalInv, Typed, PollEcc, Unlock, Goto, srcVars, chipVars, syncVars, infoVars,
       eccVars, pollVars, driverVars
<1>1. Typed'
  <2>1. SourceTypes' /\ ChipTypes'
    BY DEF SourceTypes, ChipTypes, PollTypes, SysIrqs, CommonIrqs
  <2>2. SyncTypes' /\ InfoTypes'
    BY DEF SyncTypes, InfoTypes, SourceTypes, VideoStates
  <2>3. OutputTypes'
    BY DEF OutputTypes, InfoTypes, Measured
  <2>4. CounterTypes'
    BY DEF CounterTypes
  <2>5. PollTypes' /\ BoundTypes'
    BY DEF PollTypes, BoundTypes, PollSteps, SysIrqs
  <2> QED BY <2>1, <2>2, <2>3, <2>4, <2>5
<1>2. Measured' /\ MuteFlagged'
  BY DEF SourceTypes, ChipTypes, SyncTypes, InfoTypes, PollTypes, Measured, MuteFlagged, SysIrqs,
         CommonIrqs
<1>3. SlowSource /\ failures' = 0 => Followed'
  BY DEF SourceTypes, ChipTypes, SyncTypes, InfoTypes, PollTypes, BoundTypes, Measured, Followed,
         LossFlagged, ModeKept, InfoFlagged, SysIrqs, CommonIrqs
<1> QED BY <1>1, <1>2, <1>3

\* ... forgets all when the 5 V changed,
LEMMA Poll5vKeeps == ASSUME SignalInv, Poll5v PROVE SignalInv'
<1> USE Flags DEF SignalInv, Typed, Poll5v, Invalidate, Goto, srcVars, chipVars, syncVars,
       infoVars, eccVars, pollVars, driverVars
<1>1. Typed'
  <2>1. SourceTypes' /\ ChipTypes'
    BY DEF SourceTypes, ChipTypes, PollTypes, SysIrqs, CommonIrqs
  <2>2. SyncTypes' /\ InfoTypes'
    <3>1. SyncTypes'
      BY DEF SyncTypes, VideoStates
    <3>2. InfoTypes'
      BY DEF InfoTypes
    <3> QED BY <3>1, <3>2
  <2>3. OutputTypes'
    BY DEF OutputTypes, InfoTypes, Measured
  <2>4. CounterTypes'
    BY DEF CounterTypes
  <2>5. PollTypes' /\ BoundTypes'
    BY DEF PollTypes, BoundTypes, PollSteps, SysIrqs
  <2> QED BY <2>1, <2>2, <2>3, <2>4, <2>5
<1>2. Measured' /\ MuteFlagged'
  BY DEF SourceTypes, ChipTypes, SyncTypes, InfoTypes, PollTypes, Measured, MuteFlagged, SysIrqs,
         CommonIrqs
<1>3. SlowSource /\ failures' = 0 => Followed'
  BY DEF SourceTypes, ChipTypes, SyncTypes, InfoTypes, PollTypes, BoundTypes, Measured, Followed,
         LossFlagged, ModeKept, InfoFlagged, SysIrqs, CommonIrqs
<1> QED BY <1>1, <1>2, <1>3

\* ... sets HPD,
LEMMA PollHpdKeeps == ASSUME SignalInv, PollHpd PROVE SignalInv'
<1> USE Flags DEF SignalInv, Typed, PollHpd, Goto, srcVars, chipVars, syncVars, infoVars, eccVars,
       pollVars, driverVars
<1>1. Typed'
  <2>1. SourceTypes' /\ ChipTypes'
    BY DEF SourceTypes, ChipTypes, PollTypes, SysIrqs, CommonIrqs
  <2>2. SyncTypes' /\ InfoTypes'
    BY DEF SyncTypes, InfoTypes, SourceTypes, VideoStates
  <2>3. OutputTypes'
    BY DEF OutputTypes, InfoTypes, Measured
  <2>4. CounterTypes'
    BY DEF CounterTypes
  <2>5. PollTypes' /\ BoundTypes'
    BY DEF PollTypes, BoundTypes, PollSteps, SysIrqs
  <2> QED BY <2>1, <2>2, <2>3, <2>4, <2>5
<1>2. Measured' /\ MuteFlagged'
  BY DEF SourceTypes, ChipTypes, SyncTypes, InfoTypes, PollTypes, Measured, MuteFlagged, SysIrqs,
         CommonIrqs
<1>3. SlowSource /\ failures' = 0 => Followed'
  BY DEF SourceTypes, ChipTypes, SyncTypes, InfoTypes, PollTypes, BoundTypes, Measured, Followed,
         LossFlagged, ModeKept, InfoFlagged, SysIrqs, CommonIrqs
<1> QED BY <1>1, <1>2, <1>3

\* ... and resets the equalizer.
LEMMA PollQuietKeeps == ASSUME SignalInv, PollQuiet PROVE SignalInv'
<1> USE Flags DEF SignalInv, Typed, PollQuiet, Unlock, Goto, srcVars, chipVars, syncVars, infoVars,
       eccVars, pollVars, driverVars
<1>1. Typed'
  <2>1. SourceTypes' /\ ChipTypes'
    BY DEF SourceTypes, ChipTypes, PollTypes, SysIrqs, CommonIrqs
  <2>2. SyncTypes' /\ InfoTypes'
    BY DEF SyncTypes, InfoTypes, SourceTypes, VideoStates
  <2>3. OutputTypes'
    BY DEF OutputTypes, InfoTypes, Measured
  <2>4. CounterTypes'
    BY DEF CounterTypes
  <2>5. PollTypes' /\ BoundTypes'
    BY DEF PollTypes, BoundTypes, PollSteps, SysIrqs
  <2> QED BY <2>1, <2>2, <2>3, <2>4, <2>5
<1>2. Measured' /\ MuteFlagged'
  BY DEF SourceTypes, ChipTypes, SyncTypes, InfoTypes, PollTypes, Measured, MuteFlagged, SysIrqs,
         CommonIrqs
<1>3. SlowSource /\ failures' = 0 => Followed'
  BY DEF SourceTypes, ChipTypes, SyncTypes, InfoTypes, PollTypes, BoundTypes, Measured, Followed,
         LossFlagged, ModeKept, InfoFlagged, SysIrqs, CommonIrqs
<1> QED BY <1>1, <1>2, <1>3

\* ... waits for sync when the clock ratio was lost.
LEMMA PollRatioKeeps == ASSUME SignalInv, PollRatio PROVE SignalInv'
<1> USE Flags DEF SignalInv, Typed, PollRatio, Unlock, Invalidate, Goto, srcVars, chipVars,
       syncVars, infoVars, eccVars, pollVars, driverVars
<1>1. Typed'
  <2>1. SourceTypes' /\ ChipTypes'
    BY DEF SourceTypes, ChipTypes, PollTypes, SysIrqs, CommonIrqs
  <2>2. SyncTypes' /\ InfoTypes'
    <3>1. SyncTypes'
      BY DEF SyncTypes, VideoStates
    <3>2. InfoTypes'
      BY DEF InfoTypes
    <3> QED BY <3>1, <3>2
  <2>3. OutputTypes'
    BY DEF OutputTypes, InfoTypes, Measured
  <2>4. CounterTypes'
    BY DEF CounterTypes
  <2>5. PollTypes' /\ BoundTypes'
    BY DEF PollTypes, BoundTypes, PollSteps, SysIrqs
  <2> QED BY <2>1, <2>2, <2>3, <2>4, <2>5
<1>2. Measured' /\ MuteFlagged'
  BY DEF SourceTypes, ChipTypes, SyncTypes, InfoTypes, PollTypes, Measured, MuteFlagged, SysIrqs,
         CommonIrqs
<1>3. SlowSource /\ failures' = 0 => Followed'
  BY DEF SourceTypes, ChipTypes, SyncTypes, InfoTypes, PollTypes, BoundTypes, Measured, Followed,
         LossFlagged, ModeKept, InfoFlagged, SysIrqs, CommonIrqs
<1> QED BY <1>1, <1>2, <1>3

\* ... takes the flags of sync, infoframe and mute.
LEMMA PollCommonKeeps == ASSUME SignalInv, PollCommon PROVE SignalInv'
<1> USE Flags DEF SignalInv, Typed, PollCommon, Goto, srcVars, chipVars, syncVars, infoVars,
       eccVars, pollVars, driverVars
<1>1. Typed'
  <2>1. SourceTypes' /\ ChipTypes'
    BY DEF SourceTypes, ChipTypes, PollTypes, SysIrqs, CommonIrqs
  <2>2. SyncTypes' /\ InfoTypes'
    BY DEF SyncTypes, InfoTypes, SourceTypes, VideoStates
  <2>3. OutputTypes'
    BY DEF OutputTypes, InfoTypes, Measured
  <2>4. CounterTypes'
    BY DEF CounterTypes
  <2>5. PollTypes' /\ BoundTypes'
    BY DEF PollTypes, BoundTypes, PollSteps, SysIrqs
  <2> QED BY <2>1, <2>2, <2>3, <2>4, <2>5
<1>2. Measured' /\ MuteFlagged'
  BY DEF SourceTypes, ChipTypes, SyncTypes, InfoTypes, PollTypes, Measured, MuteFlagged, SysIrqs,
         CommonIrqs
<1>3. SlowSource /\ failures' = 0 => Followed'
  BY DEF SourceTypes, ChipTypes, SyncTypes, InfoTypes, PollTypes, BoundTypes, Measured, Followed,
         LossFlagged, ModeKept, InfoFlagged, SysIrqs, CommonIrqs
<1> QED BY <1>1, <1>2, <1>3

\* ... looks at the sync whose flag it took.
LEMMA PollScdtKeeps == ASSUME SignalInv, PollScdt PROVE SignalInv'
<1> USE Flags DEF SignalInv, Typed, PollScdt, ApplyScdt, Invalidate, Goto, srcVars, chipVars,
       syncVars, infoVars, eccVars, pollVars, driverVars
<1>1. Typed'
  <2>1. SourceTypes' /\ ChipTypes'
    BY DEF SourceTypes, ChipTypes, PollTypes, SysIrqs, CommonIrqs
  <2>2. SyncTypes' /\ InfoTypes'
    <3>1. SyncTypes'
      BY DEF SyncTypes, VideoStates
    <3>2. InfoTypes'
      BY DEF InfoTypes
    <3> QED BY <3>1, <3>2
  <2>3. OutputTypes'
    BY DEF OutputTypes, InfoTypes, Measured
  <2>4. CounterTypes'
    BY DEF CounterTypes
  <2>5. PollTypes' /\ BoundTypes'
    BY DEF PollTypes, BoundTypes, PollSteps, SysIrqs
  <2> QED BY <2>1, <2>2, <2>3, <2>4, <2>5
<1>2. Measured' /\ MuteFlagged'
  BY DEF SourceTypes, ChipTypes, SyncTypes, InfoTypes, PollTypes, Measured, MuteFlagged, SysIrqs,
         CommonIrqs
<1>3. SlowSource /\ failures' = 0 => Followed'
  BY DEF SourceTypes, ChipTypes, SyncTypes, InfoTypes, PollTypes, BoundTypes, Measured, Followed,
         LossFlagged, ModeKept, InfoFlagged, SysIrqs, CommonIrqs
<1> QED BY <1>1, <1>2, <1>3

\* ... looks for sync, or counts down to the active state.
LEMMA PollSyncKeeps == ASSUME SignalInv, PollSync PROVE SignalInv'
<1> USE Flags DEF SignalInv, Typed, PollSync, Tick, Goto, srcVars, chipVars, syncVars, infoVars,
       eccVars, pollVars, driverVars
<1>1. Typed'
  <2>1. SourceTypes' /\ ChipTypes'
    BY DEF SourceTypes, ChipTypes, PollTypes, SysIrqs, CommonIrqs
  <2>2. SyncTypes' /\ InfoTypes'
    BY DEF SyncTypes, InfoTypes, SourceTypes, VideoStates
  <2>3. OutputTypes'
    BY DEF OutputTypes, InfoTypes, Measured
  <2>4. CounterTypes'
    BY DEF CounterTypes
  <2>5. PollTypes' /\ BoundTypes'
    BY DEF PollTypes, BoundTypes, PollSteps, SysIrqs
  <2> QED BY <2>1, <2>2, <2>3, <2>4, <2>5
<1>2. Measured' /\ MuteFlagged'
  BY DEF SourceTypes, ChipTypes, SyncTypes, InfoTypes, PollTypes, Measured, MuteFlagged, SysIrqs,
         CommonIrqs
<1>3. SlowSource /\ failures' = 0 => Followed'
  BY DEF SourceTypes, ChipTypes, SyncTypes, InfoTypes, PollTypes, BoundTypes, Measured, Followed,
         LossFlagged, ModeKept, InfoFlagged, SysIrqs, CommonIrqs
<1> QED BY <1>1, <1>2, <1>3

\* ... measures the mode.
LEMMA PollTimingKeeps == ASSUME SignalInv, PollTiming PROVE SignalInv'
<1> USE Flags DEF SignalInv, Typed, PollTiming, SetPhy, Goto, srcVars, chipVars, syncVars,
       infoVars, eccVars, pollVars, driverVars
<1>1. Typed'
  <2>1. SourceTypes' /\ ChipTypes'
    BY DEF SourceTypes, ChipTypes, PollTypes, SysIrqs, CommonIrqs
  <2>2. SyncTypes' /\ InfoTypes'
    BY DEF SyncTypes, InfoTypes, SourceTypes, VideoStates
  <2>3. OutputTypes'
    BY DEF OutputTypes, InfoTypes, Measured
  <2>4. CounterTypes'
    BY DEF CounterTypes
  <2>5. PollTypes' /\ BoundTypes'
    BY DEF PollTypes, BoundTypes, PollSteps, SysIrqs
  <2> QED BY <2>1, <2>2, <2>3, <2>4, <2>5
<1>2. Measured' /\ MuteFlagged'
  BY DEF SourceTypes, ChipTypes, SyncTypes, InfoTypes, PollTypes, Measured, MuteFlagged, SysIrqs,
         CommonIrqs
<1>3. SlowSource /\ failures' = 0 => Followed'
  BY DEF SourceTypes, ChipTypes, SyncTypes, InfoTypes, PollTypes, BoundTypes, Measured, Followed,
         LossFlagged, ModeKept, InfoFlagged, SysIrqs, CommonIrqs
<1> QED BY <1>1, <1>2, <1>3

\* ... reads the infoframe.
LEMMA PollAviKeeps == ASSUME SignalInv, PollAvi PROVE SignalInv'
<1> USE Flags DEF SignalInv, Typed, PollAvi, Goto, srcVars, chipVars, syncVars, infoVars, eccVars,
       pollVars, driverVars
<1>1. Typed'
  <2>1. SourceTypes' /\ ChipTypes'
    BY DEF SourceTypes, ChipTypes, PollTypes, SysIrqs, CommonIrqs
  <2>2. SyncTypes' /\ InfoTypes'
    BY DEF SyncTypes, InfoTypes, SourceTypes, VideoStates
  <2>3. OutputTypes'
    BY DEF OutputTypes, InfoTypes, Measured
  <2>4. CounterTypes'
    BY DEF CounterTypes
  <2>5. PollTypes' /\ BoundTypes'
    BY DEF PollTypes, BoundTypes, PollSteps, SysIrqs
  <2> QED BY <2>1, <2>2, <2>3, <2>4, <2>5
<1>2. Measured' /\ MuteFlagged'
  BY DEF SourceTypes, ChipTypes, SyncTypes, InfoTypes, PollTypes, Measured, MuteFlagged, SysIrqs,
         CommonIrqs
<1>3. SlowSource /\ failures' = 0 => Followed'
  BY DEF SourceTypes, ChipTypes, SyncTypes, InfoTypes, PollTypes, BoundTypes, Measured, Followed,
         LossFlagged, ModeKept, InfoFlagged, SysIrqs, CommonIrqs
<1> QED BY <1>1, <1>2, <1>3

\* ... sets up the output,
LEMMA PollConfigureKeeps == ASSUME SignalInv, PollConfigure PROVE SignalInv'
<1> USE Flags DEF SignalInv, Typed, PollConfigure, Goto, srcVars, chipVars, syncVars, infoVars,
       eccVars, pollVars, driverVars
<1>1. Typed'
  <2>1. SourceTypes' /\ ChipTypes'
    BY DEF SourceTypes, ChipTypes, PollTypes, SysIrqs, CommonIrqs
  <2>2. SyncTypes' /\ InfoTypes'
    BY DEF SyncTypes, InfoTypes, SourceTypes, VideoStates
  <2>3. OutputTypes'
    BY DEF OutputTypes, InfoTypes, Measured
  <2>4. CounterTypes'
    BY DEF CounterTypes
  <2>5. PollTypes' /\ BoundTypes'
    BY DEF PollTypes, BoundTypes, PollSteps, SysIrqs
  <2> QED BY <2>1, <2>2, <2>3, <2>4, <2>5
<1>2. Measured' /\ MuteFlagged'
  BY DEF SourceTypes, ChipTypes, SyncTypes, InfoTypes, PollTypes, Measured, MuteFlagged, SysIrqs,
         CommonIrqs
<1>3. SlowSource /\ failures' = 0 => Followed'
  BY DEF SourceTypes, ChipTypes, SyncTypes, InfoTypes, PollTypes, BoundTypes, Measured, Followed,
         LossFlagged, ModeKept, InfoFlagged, SysIrqs, CommonIrqs
<1> QED BY <1>1, <1>2, <1>3

\* ... enables it,
LEMMA PollEnableKeeps == ASSUME SignalInv, PollEnable PROVE SignalInv'
<1> USE Flags DEF SignalInv, Typed, PollEnable, Goto, srcVars, chipVars, syncVars, infoVars,
       eccVars, pollVars, driverVars
<1>1. Typed'
  <2>1. SourceTypes' /\ ChipTypes'
    BY DEF SourceTypes, ChipTypes, PollTypes, SysIrqs, CommonIrqs
  <2>2. SyncTypes' /\ InfoTypes'
    BY DEF SyncTypes, InfoTypes, SourceTypes, VideoStates
  <2>3. OutputTypes'
    BY DEF OutputTypes, InfoTypes, Measured
  <2>4. CounterTypes'
    BY DEF CounterTypes
  <2>5. PollTypes' /\ BoundTypes'
    BY DEF PollTypes, BoundTypes, PollSteps, SysIrqs
  <2> QED BY <2>1, <2>2, <2>3, <2>4, <2>5
<1>2. Measured' /\ MuteFlagged'
  BY DEF SourceTypes, ChipTypes, SyncTypes, InfoTypes, PollTypes, Measured, MuteFlagged, SysIrqs,
         CommonIrqs
<1>3. SlowSource /\ failures' = 0 => Followed'
  BY DEF SourceTypes, ChipTypes, SyncTypes, InfoTypes, PollTypes, BoundTypes, Measured, Followed,
         LossFlagged, ModeKept, InfoFlagged, SysIrqs, CommonIrqs
<1> QED BY <1>1, <1>2, <1>3

\* ... counts the HDR packets,
LEMMA PollDrmKeeps == ASSUME SignalInv, PollDrm PROVE SignalInv'
<1> USE Flags DEF SignalInv, Typed, PollDrm, Goto, srcVars, chipVars, syncVars, infoVars, eccVars,
       pollVars, driverVars
<1>1. Typed'
  <2>1. SourceTypes' /\ ChipTypes'
    BY DEF SourceTypes, ChipTypes, PollTypes, SysIrqs, CommonIrqs
  <2>2. SyncTypes' /\ InfoTypes'
    BY DEF SyncTypes, InfoTypes, SourceTypes, VideoStates
  <2>3. OutputTypes'
    BY DEF OutputTypes, InfoTypes, Measured
  <2>4. CounterTypes'
    BY DEF CounterTypes
  <2>5. PollTypes' /\ BoundTypes'
    BY DEF PollTypes, BoundTypes, PollSteps, SysIrqs
  <2> QED BY <2>1, <2>2, <2>3, <2>4, <2>5
<1>2. Measured' /\ MuteFlagged'
  BY DEF SourceTypes, ChipTypes, SyncTypes, InfoTypes, PollTypes, Measured, MuteFlagged, SysIrqs,
         CommonIrqs
<1>3. SlowSource /\ failures' = 0 => Followed'
  BY DEF SourceTypes, ChipTypes, SyncTypes, InfoTypes, PollTypes, BoundTypes, Measured, Followed,
         LossFlagged, ModeKept, InfoFlagged, SysIrqs, CommonIrqs
<1> QED BY <1>1, <1>2, <1>3

\* ... and unmutes.
LEMMA PollUnmuteKeeps == ASSUME SignalInv, PollUnmute PROVE SignalInv'
<1> USE Flags DEF SignalInv, Typed, PollUnmute, Goto, srcVars, chipVars, syncVars, infoVars,
       eccVars, pollVars, driverVars
<1>1. Typed'
  <2>1. SourceTypes' /\ ChipTypes'
    BY DEF SourceTypes, ChipTypes, PollTypes, SysIrqs, CommonIrqs
  <2>2. SyncTypes' /\ InfoTypes'
    BY DEF SyncTypes, InfoTypes, SourceTypes, VideoStates
  <2>3. OutputTypes'
    BY DEF OutputTypes, InfoTypes, Measured
  <2>4. CounterTypes'
    BY DEF CounterTypes
  <2>5. PollTypes' /\ BoundTypes'
    BY DEF PollTypes, BoundTypes, PollSteps, SysIrqs
  <2> QED BY <2>1, <2>2, <2>3, <2>4, <2>5
<1>2. Measured' /\ MuteFlagged'
  BY DEF SourceTypes, ChipTypes, SyncTypes, InfoTypes, PollTypes, Measured, MuteFlagged, SysIrqs,
         CommonIrqs
<1>3. SlowSource /\ failures' = 0 => Followed'
  BY DEF SourceTypes, ChipTypes, SyncTypes, InfoTypes, PollTypes, BoundTypes, Measured, Followed,
         LossFlagged, ModeKept, InfoFlagged, SysIrqs, CommonIrqs
<1> QED BY <1>1, <1>2, <1>3

\* An access fails, which ends the poll.
LEMMA PollFailKeeps == ASSUME SignalInv, PollFail PROVE SignalInv'
<1> USE Flags DEF SignalInv, Typed, PollFail, Goto, srcVars, chipVars, syncVars, infoVars, eccVars,
       pollVars, driverVars
<1>1. Typed'
  <2>1. SourceTypes' /\ ChipTypes'
    BY DEF SourceTypes, ChipTypes, PollTypes, SysIrqs, CommonIrqs
  <2>2. SyncTypes' /\ InfoTypes'
    BY DEF SyncTypes, InfoTypes, SourceTypes, VideoStates
  <2>3. OutputTypes'
    BY DEF OutputTypes, InfoTypes, Measured
  <2>4. CounterTypes'
    BY DEF CounterTypes
  <2>5. PollTypes' /\ BoundTypes'
    BY DEF PollTypes, BoundTypes, PollSteps, SysIrqs
  <2> QED BY <2>1, <2>2, <2>3, <2>4, <2>5
<1>2. Measured' /\ MuteFlagged'
  BY DEF SourceTypes, ChipTypes, SyncTypes, InfoTypes, PollTypes, Measured, MuteFlagged, SysIrqs,
         CommonIrqs
<1>3. SlowSource /\ failures' = 0 => Followed'
  BY DEF SourceTypes, ChipTypes, SyncTypes, InfoTypes, PollTypes, BoundTypes, Measured, Followed,
         LossFlagged, ModeKept, InfoFlagged, SysIrqs, CommonIrqs
<1> QED BY <1>1, <1>2, <1>3

\* Every step of source, chip and poll preserves the invariant.
LEMMA SignalStep == SignalInv /\ [Next]_vars => SignalInv'
<1> SUFFICES ASSUME SignalInv, [Next]_vars PROVE SignalInv'
  OBVIOUS
<1>1. CASE Source
  BY <1>1, TogglePowerKeeps, LockKeeps, ToggleMuteKeeps, LinkErrorKeeps, SwitchModeKeeps,
         ChangeInfoKeeps DEF Source
<1>2. CASE Poll
  BY <1>2, PollStartKeeps, PollAckKeeps, PollModeKeeps, PollEccKeeps, Poll5vKeeps, PollHpdKeeps,
         PollQuietKeeps, PollRatioKeeps, PollCommonKeeps, PollScdtKeeps, PollSyncKeeps,
         PollTimingKeeps, PollAviKeeps, PollConfigureKeeps, PollEnableKeeps, PollDrmKeeps,
         PollUnmuteKeeps DEF Poll
<1>3. CASE PollFail
  BY <1>3, PollFailKeeps
<1>4. CASE UNCHANGED vars
  BY <1>4 DEF vars, srcVars, chipVars, syncVars, infoVars, eccVars, pollVars, SignalInv, Typed,
         SourceTypes, ChipTypes, SyncTypes,
     InfoTypes, OutputTypes, CounterTypes, PollTypes, BoundTypes, Measured, MuteFlagged,
     Followed, LossFlagged, ModeKept, InfoFlagged
<1> QED BY <1>1, <1>2, <1>3, <1>4 DEF Next

\* The invariant of the signal, for any modes, limits and number of changes and failures.
THEOREM SignalInvariant == Spec => []SignalInv
  BY SignalInit, SignalStep, PTL DEF Spec

\* A signal that is reported between polls is the one on the input unless a flag is
\* pending, while no access failed and the source waits until its loss was seen
\* (gc573-it6805-core.c:3893).
THEOREM SignalCurrent == Spec => [](SlowSource /\ failures = 0 => ReportedIsCurrent)
<1>1. SignalInv => (SlowSource /\ failures = 0 => ReportedIsCurrent)
  BY DEF SignalInv, Measured, Followed, LossFlagged, ModeKept, InfoFlagged, ReportedIsCurrent,
         Reported
<1> QED BY <1>1, SignalInvariant, PTL

\* Whichever accesses fail: the output is set up for the timings and colors that are
\* reported with it, and a mute is noticed or its flag is pending
\* (gc573-it6805-core.c:2860).
THEOREM OutputTheorem == Spec => [](TypeOK /\ OutputMatches /\ MuteNoticed)
<1>1. SignalInv => TypeOK /\ OutputMatches /\ MuteNoticed
  BY DEF SignalInv, Typed, SourceTypes, ChipTypes, SyncTypes, InfoTypes, OutputTypes, CounterTypes,
         PollTypes,
     BoundTypes, TypeOK, Measured, MuteFlagged, OutputMatches, MuteNoticed, Reported
<1> QED BY <1>1, SignalInvariant, PTL

-----------------------------------------------------------------------------
(* The audio of the input                                                   *)

\* The types of audio, part by part.
InputTypes ==
    /\ source \in AudioSources \cup {Audio!Silent} /\ audio_irq \in BOOLEAN /\ video \in BOOLEAN
    /\ open \in BOOLEAN /\ forced \in BOOLEAN /\ change_pending \in BOOLEAN
FormatTypes ==
    /\ state \in Audio!States /\ clk \in Audio!Clocks /\ rate \in Audio!Clocks
    /\ form \in Audio!Forms /\ format_valid \in BOOLEAN /\ refresh_pending \in BOOLEAN
    /\ audio_seen \in Audio!Clocks
DelayTypes ==
    /\ request_delay \in 0 .. RequestDelay /\ monitor_delay \in 0 .. MonitorDelay
    /\ mismatches \in 0 .. MismatchLimit - 1
ReportTypes == reported \in {None} \cup ((Audio!Clocks \ {None}) \X Audio!Forms)
ServeTypes ==
    /\ audio_pc \in {"idle", "serve", "clock", "open", "monitor", "compare", "publish"}
    /\ wrong \in 0 .. Audio!Limit + 1
    /\ audio_changes \in 0 .. AudioChanges /\ audio_failures \in 0 .. AudioFailures
AudioTyped == InputTypes /\ FormatTypes /\ DelayTypes /\ ReportTypes /\ ServeTypes

\* Where a poll serves which state; the format is known or is yet to be read.
Served ==
    /\ state = "ON" \/ audio_pc \in {"serve", "clock", "open", "monitor", "compare"} => video
    /\ audio_pc \in {"clock", "open"} => state = "WAIT_READY"
    /\ audio_pc \in {"monitor", "compare"} => state = "ON"
    /\ state = "WAIT_READY" => ~format_valid /\ refresh_pending
    /\ state = "ON" => (refresh_pending <=> ~format_valid)

\* Only the start opens the output before the state says so.
Closed == video /\ audio_pc # "open" /\ (open \/ forced) => state = "ON"

\* While no access has failed: every poll that publishes a wrong format brings
\* the next comparison nearer.
Wrong == format_valid /\ rate # None /\ <<rate, form>> # <<source.clk, source.form>>
Nearing ==
    /\ wrong <= Audio!Limit
    /\ state = "ON" /\ audio_pc \in {"idle", "serve", "monitor"} =>
          wrong + monitor_delay <= Audio!Limit /\ (~format_valid => wrong = 0)
    /\ state = "ON" /\ audio_pc = "publish" /\ Wrong => wrong + 1 + monitor_delay <= Audio!Limit

AudioInv == AudioTyped /\ Served /\ Closed /\ (audio_failures = 0 => Nearing)

\* The limits, and what a source is.
LEMMA AudioLimits ==
    /\ RequestDelay \in Nat /\ MonitorDelay \in Nat /\ MismatchLimit \in Nat \ {0}
    /\ AudioChanges \in Nat /\ AudioFailures \in Nat /\ Audio!Limit = MonitorDelay + 1
    /\ \A s \in AudioSources \cup {Audio!Silent} : s.clk \in Audio!Clocks /\ s.form \in Audio!Forms
    /\ None \in Audio!Clocks /\ None \in Audio!Forms
    /\ Audio!States = {"OFF", "REQUEST", "WAIT_READY", "ON"}
  BY AudioAssumption DEF Audio!Limit, Audio!Silent, Audio!Clocks, Audio!Forms, Audio!States

\* The initial states satisfy the invariant.
LEMMA AudioInit == Audio!Init => AudioInv
<1> SUFFICES ASSUME Audio!Init PROVE AudioInv
  OBVIOUS
<1> USE AudioLimits DEF Audio!Init
<1>1. InputTypes /\ FormatTypes
  BY DEF InputTypes, FormatTypes
<1>2. DelayTypes
  BY DEF DelayTypes
<1>3. ReportTypes
  BY DEF ReportTypes
<1>4. ServeTypes
  BY DEF ServeTypes
<1>5. Served /\ Closed /\ Nearing
  BY DEF Served, Closed, Nearing
<1> QED BY <1>1, <1>2, <1>3, <1>4, <1>5 DEF AudioInv, AudioTyped

\* The source changes.
LEMMA AudioRetuneKeeps ==
    ASSUME AudioInv, NEW s \in AudioSources \cup {Audio!Silent}, NEW f \in BOOLEAN, Audio!Retune(s, f)
    PROVE  AudioInv'
<1> USE AudioLimits DEF AudioInv, AudioTyped, Audio!Retune, Audio!Change, Audio!hwVars,
       Audio!timeVars, Audio!formVars, Audio!audioVars, Audio!boundVars
<1>1. InputTypes'
  BY DEF InputTypes
<1>2. FormatTypes'
  BY DEF FormatTypes, InputTypes
<1>3. DelayTypes'
  BY DEF DelayTypes
<1>4. ReportTypes'
  BY DEF ReportTypes, FormatTypes
<1>5. ServeTypes'
  BY DEF ServeTypes, Nearing
<1>6. Served' /\ Closed'
  BY DEF InputTypes, FormatTypes, Served, Closed
<1>7. audio_failures' = 0 => Nearing'
  BY DEF InputTypes, FormatTypes, DelayTypes, ServeTypes, Served, Nearing, Wrong
<1> QED BY <1>1, <1>2, <1>3, <1>4, <1>5, <1>6, <1>7

\* Video is lost.
LEMMA AudioVideoLostKeeps == ASSUME AudioInv, NEW c \in BOOLEAN, Audio!VideoLost(c) PROVE AudioInv'
<1> USE AudioLimits DEF AudioInv, AudioTyped, Audio!VideoLost, Audio!Change, Audio!ResetTo,
       Audio!hwVars, Audio!timeVars, Audio!formVars, Audio!audioVars, Audio!boundVars
<1>1. InputTypes'
  BY DEF InputTypes
<1>2. FormatTypes'
  BY DEF FormatTypes, InputTypes
<1>3. DelayTypes'
  BY DEF DelayTypes
<1>4. ReportTypes'
  BY DEF ReportTypes, FormatTypes
<1>5. ServeTypes'
  BY DEF ServeTypes, Nearing
<1>6. Served' /\ Closed'
  BY DEF InputTypes, FormatTypes, Served, Closed
<1>7. audio_failures' = 0 => Nearing'
  BY DEF InputTypes, FormatTypes, DelayTypes, ServeTypes, Served, Nearing, Wrong
<1> QED BY <1>1, <1>2, <1>3, <1>4, <1>5, <1>6, <1>7

\* Video is enabled.
LEMMA AudioVideoEnabledKeeps == ASSUME AudioInv, Audio!VideoEnabled PROVE AudioInv'
<1> USE AudioLimits DEF AudioInv, AudioTyped, Audio!VideoEnabled, Audio!ResetTo, Audio!hwVars,
       Audio!timeVars, Audio!formVars, Audio!audioVars, Audio!boundVars
<1>1. InputTypes'
  BY DEF InputTypes
<1>2. FormatTypes'
  BY DEF FormatTypes, InputTypes
<1>3. DelayTypes'
  BY DEF DelayTypes
<1>4. ReportTypes'
  BY DEF ReportTypes, FormatTypes
<1>5. ServeTypes'
  BY DEF ServeTypes, Nearing
<1>6. Served' /\ Closed'
  BY DEF InputTypes, FormatTypes, Served, Closed
<1>7. audio_failures' = 0 => Nearing'
  BY DEF InputTypes, FormatTypes, DelayTypes, ServeTypes, Served, Nearing, Wrong
<1> QED BY <1>1, <1>2, <1>3, <1>4, <1>5, <1>6, <1>7

\* HDMI and DVI change.
LEMMA AudioModeChangeKeeps ==
    ASSUME AudioInv, NEW d \in BOOLEAN, NEW f \in BOOLEAN, Audio!ModeChange(d, f)
    PROVE  AudioInv'
<1> USE AudioLimits DEF AudioInv, AudioTyped, Audio!ModeChange, Audio!Change, Audio!hwVars,
       Audio!timeVars, Audio!formVars, Audio!audioVars, Audio!boundVars
<1>1. InputTypes'
  BY DEF InputTypes
<1>2. FormatTypes'
  BY DEF FormatTypes, InputTypes
<1>3. DelayTypes'
  BY DEF DelayTypes
<1>4. ReportTypes'
  BY DEF ReportTypes, FormatTypes
<1>5. ServeTypes'
  BY DEF ServeTypes, Nearing
<1>6. Served' /\ Closed'
  BY DEF InputTypes, FormatTypes, Served, Closed
<1>7. audio_failures' = 0 => Nearing'
  BY DEF InputTypes, FormatTypes, DelayTypes, ServeTypes, Served, Nearing, Wrong
<1> QED BY <1>1, <1>2, <1>3, <1>4, <1>5, <1>6, <1>7

\* A poll takes the flag.
LEMMA AudioPollAckKeeps == ASSUME AudioInv, Audio!PollAck PROVE AudioInv'
<1> USE AudioLimits DEF AudioInv, AudioTyped, Audio!PollAck, Audio!hwVars, Audio!timeVars,
       Audio!formVars, Audio!audioVars, Audio!boundVars
<1>1. InputTypes'
  BY DEF InputTypes
<1>2. FormatTypes'
  BY DEF FormatTypes, InputTypes
<1>3. DelayTypes'
  BY DEF DelayTypes
<1>4. ReportTypes'
  BY DEF ReportTypes, FormatTypes
<1>5. ServeTypes'
  BY DEF ServeTypes, Nearing
<1>6. Served' /\ Closed'
  BY DEF InputTypes, FormatTypes, Served, Closed
<1>7. audio_failures' = 0 => Nearing'
  BY DEF InputTypes, FormatTypes, DelayTypes, ServeTypes, Served, Nearing, Wrong
<1> QED BY <1>1, <1>2, <1>3, <1>4, <1>5, <1>6, <1>7

\* Audio is off.
LEMMA AudioOffKeeps == ASSUME AudioInv, Audio!Off PROVE AudioInv'
<1> USE AudioLimits DEF AudioInv, AudioTyped, Audio!Off, Audio!hwVars, Audio!timeVars,
       Audio!formVars, Audio!audioVars, Audio!boundVars
<1>1. InputTypes'
  BY DEF InputTypes
<1>2. FormatTypes'
  BY DEF FormatTypes, InputTypes
<1>3. DelayTypes'
  BY DEF DelayTypes
<1>4. ReportTypes'
  BY DEF ReportTypes, FormatTypes
<1>5. ServeTypes'
  BY DEF ServeTypes, Nearing
<1>6. Served' /\ Closed'
  BY DEF InputTypes, FormatTypes, Served, Closed
<1>7. audio_failures' = 0 => Nearing'
  BY DEF InputTypes, FormatTypes, DelayTypes, ServeTypes, Served, Nearing, Wrong
<1> QED BY <1>1, <1>2, <1>3, <1>4, <1>5, <1>6, <1>7

\* The packets are requested.
LEMMA AudioRequestKeeps == ASSUME AudioInv, Audio!Request PROVE AudioInv'
<1> USE AudioLimits DEF AudioInv, AudioTyped, Audio!Request, Audio!hwVars, Audio!timeVars,
       Audio!formVars, Audio!audioVars, Audio!boundVars
<1>1. InputTypes'
  BY DEF InputTypes
<1>2. FormatTypes'
  BY DEF FormatTypes, InputTypes
<1>3. DelayTypes'
  BY DEF DelayTypes
<1>4. ReportTypes'
  BY DEF ReportTypes, FormatTypes
<1>5. ServeTypes'
  BY DEF ServeTypes, Nearing
<1>6. Served' /\ Closed'
  BY DEF InputTypes, FormatTypes, Served, Closed
<1>7. audio_failures' = 0 => Nearing'
  BY DEF InputTypes, FormatTypes, DelayTypes, ServeTypes, Served, Nearing, Wrong
<1> QED BY <1>1, <1>2, <1>3, <1>4, <1>5, <1>6, <1>7

\* ... waited for.
LEMMA AudioWaitReadyKeeps == ASSUME AudioInv, Audio!WaitReady PROVE AudioInv'
<1> USE AudioLimits DEF AudioInv, AudioTyped, Audio!WaitReady, Audio!hwVars, Audio!timeVars,
       Audio!formVars, Audio!audioVars, Audio!boundVars
<1>1. InputTypes'
  BY DEF InputTypes
<1>2. FormatTypes'
  BY DEF FormatTypes, InputTypes
<1>3. DelayTypes'
  BY DEF DelayTypes
<1>4. ReportTypes'
  BY DEF ReportTypes, FormatTypes
<1>5. ServeTypes'
  BY DEF ServeTypes, Nearing
<1>6. Served' /\ Closed'
  BY DEF InputTypes, FormatTypes, Served, Closed
<1>7. audio_failures' = 0 => Nearing'
  BY DEF InputTypes, FormatTypes, DelayTypes, ServeTypes, Served, Nearing, Wrong
<1> QED BY <1>1, <1>2, <1>3, <1>4, <1>5, <1>6, <1>7

\* The clock is measured.
LEMMA AudioStartClockKeeps == ASSUME AudioInv, Audio!StartClock PROVE AudioInv'
<1> USE AudioLimits DEF AudioInv, AudioTyped, Audio!StartClock, Audio!UpdateClock, Audio!hwVars,
       Audio!timeVars, Audio!formVars, Audio!audioVars, Audio!boundVars
<1>1. InputTypes'
  BY DEF InputTypes
<1>2. FormatTypes'
  BY DEF FormatTypes, InputTypes
<1>3. DelayTypes'
  BY DEF DelayTypes
<1>4. ReportTypes'
  BY DEF ReportTypes, FormatTypes
<1>5. ServeTypes'
  BY DEF ServeTypes, Nearing
<1>6. Served' /\ Closed'
  BY DEF InputTypes, FormatTypes, Served, Closed
<1>7. audio_failures' = 0 => Nearing'
  BY DEF InputTypes, FormatTypes, DelayTypes, ServeTypes, Served, Nearing, Wrong
<1> QED BY <1>1, <1>2, <1>3, <1>4, <1>5, <1>6, <1>7

\* The output is opened.
LEMMA AudioStartOpenKeeps == ASSUME AudioInv, Audio!StartOpen PROVE AudioInv'
<1> USE AudioLimits DEF AudioInv, AudioTyped, Audio!StartOpen, Audio!hwVars, Audio!timeVars,
       Audio!formVars, Audio!audioVars, Audio!boundVars
<1>1. InputTypes'
  BY DEF InputTypes
<1>2. FormatTypes'
  BY DEF FormatTypes, InputTypes
<1>3. DelayTypes'
  BY DEF DelayTypes
<1>4. ReportTypes'
  BY DEF ReportTypes, FormatTypes
<1>5. ServeTypes'
  BY DEF ServeTypes, Nearing
<1>6. Served' /\ Closed'
  BY DEF InputTypes, FormatTypes, Served, Closed
<1>7. audio_failures' = 0 => Nearing'
  BY DEF InputTypes, FormatTypes, DelayTypes, ServeTypes, Served, Nearing, Wrong
<1> QED BY <1>1, <1>2, <1>3, <1>4, <1>5, <1>6, <1>7

\* A flagged change is measured.
LEMMA AudioHandleChangeKeeps == ASSUME AudioInv, Audio!HandleChange PROVE AudioInv'
<1> USE AudioLimits DEF AudioInv, AudioTyped, Audio!HandleChange, Audio!UpdateClock, Audio!Restart,
       Audio!ResetTo, Audio!hwVars, Audio!timeVars, Audio!formVars, Audio!audioVars, Audio!boundVars
<1>1. InputTypes'
  BY DEF InputTypes
<1>2. FormatTypes'
  BY DEF FormatTypes, InputTypes
<1>3. DelayTypes'
  BY DEF DelayTypes
<1>4. ReportTypes'
  BY DEF ReportTypes, FormatTypes
<1>5. ServeTypes'
  BY DEF ServeTypes, Nearing
<1>6. Served' /\ Closed'
  BY DEF InputTypes, FormatTypes, Served, Closed
<1>7. audio_failures' = 0 => Nearing'
  BY DEF InputTypes, FormatTypes, DelayTypes, ServeTypes, Served, Nearing, Wrong
<1> QED BY <1>1, <1>2, <1>3, <1>4, <1>5, <1>6, <1>7

\* The format is read, or the clock to compare.
LEMMA AudioMonitorKeeps == ASSUME AudioInv, Audio!Monitor PROVE AudioInv'
<1> USE AudioLimits DEF AudioInv, AudioTyped, Audio!Monitor, Audio!hwVars, Audio!timeVars,
       Audio!formVars, Audio!audioVars, Audio!boundVars
<1>1. InputTypes'
  BY DEF InputTypes
<1>2. FormatTypes'
  BY DEF FormatTypes, InputTypes
<1>3. DelayTypes'
  BY DEF DelayTypes
<1>4. ReportTypes'
  BY DEF ReportTypes, FormatTypes
<1>5. ServeTypes'
  BY DEF ServeTypes, Nearing
<1>6. Served' /\ Closed'
  BY DEF InputTypes, FormatTypes, Served, Closed
<1>7. audio_failures' = 0 => Nearing'
  BY DEF InputTypes, FormatTypes, DelayTypes, ServeTypes, Served, Nearing, Wrong
<1> QED BY <1>1, <1>2, <1>3, <1>4, <1>5, <1>6, <1>7

\* Clock and format are compared.
LEMMA AudioCompareKeeps == ASSUME AudioInv, Audio!Compare PROVE AudioInv'
<1> USE AudioLimits DEF AudioInv, AudioTyped, Audio!Compare, Audio!Restart, Audio!ResetTo,
       Audio!hwVars, Audio!timeVars, Audio!formVars, Audio!audioVars, Audio!boundVars
<1>1. InputTypes'
  BY DEF InputTypes
<1>2. FormatTypes'
  BY DEF FormatTypes, InputTypes
<1>3. DelayTypes'
  BY DEF DelayTypes
<1>4. ReportTypes'
  BY DEF ReportTypes, FormatTypes
<1>5. ServeTypes'
  BY DEF ServeTypes, Nearing
<1>6. Served' /\ Closed'
  BY DEF InputTypes, FormatTypes, Served, Closed
<1>7. audio_failures' = 0 => Nearing'
  BY DEF InputTypes, FormatTypes, DelayTypes, ServeTypes, Served, Nearing, Wrong
<1> QED BY <1>1, <1>2, <1>3, <1>4, <1>5, <1>6, <1>7

\* The format is published.
LEMMA AudioPublishKeeps == ASSUME AudioInv, Audio!Publish PROVE AudioInv'
<1> USE AudioLimits DEF AudioInv, AudioTyped, Audio!Publish, Audio!Snapshot, Audio!hwVars,
       Audio!timeVars, Audio!formVars, Audio!audioVars, Audio!boundVars
<1>1. InputTypes'
  BY DEF InputTypes
<1>2. FormatTypes'
  BY DEF FormatTypes, InputTypes
<1>3. DelayTypes'
  BY DEF DelayTypes
<1>4. ReportTypes'
  BY DEF ReportTypes, FormatTypes
<1>5. ServeTypes'
  BY DEF ServeTypes, Nearing
<1>6. Served' /\ Closed'
  BY DEF InputTypes, FormatTypes, Served, Closed
<1>7. audio_failures' = 0 => Nearing'
  BY DEF InputTypes, FormatTypes, DelayTypes, ServeTypes, Served, Nearing, Wrong
<1> QED BY <1>1, <1>2, <1>3, <1>4, <1>5, <1>6, <1>7

\* An access of the start fails.
LEMMA AudioStartFailsKeeps == ASSUME AudioInv, Audio!StartFails PROVE AudioInv'
<1> USE AudioLimits DEF AudioInv, AudioTyped, Audio!StartFails, Audio!hwVars, Audio!timeVars,
       Audio!formVars, Audio!audioVars, Audio!boundVars
<1>1. InputTypes'
  BY DEF InputTypes
<1>2. FormatTypes'
  BY DEF FormatTypes, InputTypes
<1>3. DelayTypes'
  BY DEF DelayTypes
<1>4. ReportTypes'
  BY DEF ReportTypes, FormatTypes
<1>5. ServeTypes'
  BY DEF ServeTypes, Nearing
<1>6. Served' /\ Closed'
  BY DEF InputTypes, FormatTypes, Served, Closed
<1>7. audio_failures' = 0 => Nearing'
  BY DEF InputTypes, FormatTypes, DelayTypes, ServeTypes, Served, Nearing, Wrong
<1> QED BY <1>1, <1>2, <1>3, <1>4, <1>5, <1>6, <1>7

\* Any other access fails.
LEMMA AudioServeFailsKeeps == ASSUME AudioInv, Audio!ServeFails PROVE AudioInv'
<1> USE AudioLimits DEF AudioInv, AudioTyped, Audio!ServeFails, Audio!hwVars, Audio!timeVars,
       Audio!formVars, Audio!audioVars, Audio!boundVars
<1>1. InputTypes'
  BY DEF InputTypes
<1>2. FormatTypes'
  BY DEF FormatTypes, InputTypes
<1>3. DelayTypes'
  BY DEF DelayTypes
<1>4. ReportTypes'
  BY DEF ReportTypes, FormatTypes
<1>5. ServeTypes'
  BY DEF ServeTypes, Nearing
<1>6. Served' /\ Closed'
  BY DEF InputTypes, FormatTypes, Served, Closed
<1>7. audio_failures' = 0 => Nearing'
  BY DEF InputTypes, FormatTypes, DelayTypes, ServeTypes, Served, Nearing, Wrong
<1> QED BY <1>1, <1>2, <1>3, <1>4, <1>5, <1>6, <1>7

\* Every step preserves the invariant.
LEMMA AudioStep == AudioInv /\ [Audio!Next]_(Audio!vars) => AudioInv'
<1> SUFFICES ASSUME AudioInv, [Audio!Next]_(Audio!vars) PROVE AudioInv'
  OBVIOUS
<1>1. CASE Audio!Around
  BY <1>1, AudioRetuneKeeps, AudioVideoLostKeeps, AudioVideoEnabledKeeps,
         AudioModeChangeKeeps DEF Audio!Around
<1>2. CASE Audio!Poll
  BY <1>2, AudioPollAckKeeps, AudioOffKeeps, AudioRequestKeeps, AudioWaitReadyKeeps,
         AudioStartClockKeeps, AudioStartOpenKeeps, AudioHandleChangeKeeps, AudioMonitorKeeps,
         AudioCompareKeeps, AudioPublishKeeps DEF Audio!Poll
<1>3. CASE Audio!StartFails \/ Audio!ServeFails
  BY <1>3, AudioStartFailsKeeps, AudioServeFailsKeeps
<1>4. CASE UNCHANGED Audio!vars
  BY <1>4 DEF Audio!vars, Audio!hwVars, Audio!timeVars, Audio!formVars, Audio!audioVars,
         Audio!boundVars, AudioInv, AudioTyped, InputTypes, FormatTypes, DelayTypes,
     ReportTypes, ServeTypes, Served, Closed, Nearing, Wrong
<1> QED BY <1>1, <1>2, <1>3, <1>4 DEF Audio!Next

\* The invariant of audio, for any sources, limits and number of changes and failures.
THEOREM AudioInvariant == Audio!Spec => []AudioInv
  BY AudioInit, AudioStep, PTL DEF Audio!Spec

\* Audio leaves the chip only when it is served, whichever accesses fail; and while
\* none did, a wrong format is published by at most MonitorDelay + 1 polls
\* (gc573-it6805-core.c:3270).
THEOREM AudioTheorem ==
    Audio!Spec => [](Audio!TypeOK /\ Audio!SilentUnlessOn /\ (audio_failures = 0 => Audio!WrongIsBrief))
<1>1. AudioInv => Audio!TypeOK
  BY AudioLimits DEF AudioInv, AudioTyped, InputTypes, FormatTypes, DelayTypes, ReportTypes,
         ServeTypes, Audio!TypeOK
<1>2. AudioInv => Audio!SilentUnlessOn /\ (audio_failures = 0 => Audio!WrongIsBrief)
  BY DEF AudioInv, Closed, Nearing, Audio!SilentUnlessOn, Audio!WrongIsBrief
<1> QED BY <1>1, <1>2, AudioInvariant, PTL

-----------------------------------------------------------------------------
(* The banks of the registers                                               *)

\* What the two properties rest on: no call is under way while the card sleeps,
\* and a call that has its bank has it remembered.
BankInv ==
    /\ Registers!TypeOK
    /\ Registers!BankAgrees
    /\ Registers!AccessInBank
    /\ bank_pc # "idle" => ~asleep
    /\ bank_pc = "access" => bank_valid /\ bank = want

\* The initial states satisfy the invariant: no bank is remembered yet.
LEMMA BankInit == ASSUME Registers!Init PROVE BankInv
<1>1. bank_failures \in 0 .. BankFailures
  BY BankAssumption DEF Registers!Init
<1>2. Registers!TypeOK
  BY <1>1, BankAssumption DEF Registers!Init, Registers!TypeOK
<1>3. ~bank_valid /\ bank_pc = "idle"
  BY DEF Registers!Init
<1> QED
  BY <1>2, <1>3 DEF BankInv, Registers!BankAgrees, Registers!AccessInBank

\* Every call and every failure preserves the invariant.
LEMMA BankStep == ASSUME BankInv, [Registers!Next]_(Registers!vars) PROVE BankInv'
<1> USE DEF BankInv, Registers!TypeOK, Registers!BankAgrees, Registers!AccessInBank,
       Registers!regVars, Registers!Unchanged
<1>1. ASSUME NEW b \in RegisterBanks, Registers!SelectBank(b) PROVE BankInv'
  BY <1>1 DEF Registers!SelectBank
<1>2. ASSUME NEW b \in RegisterBanks, Registers!SetBank(b) PROVE BankInv'
  BY <1>2 DEF Registers!SetBank
<1>3. CASE Registers!SelectRead
  BY <1>3 DEF Registers!SelectRead
<1>4. CASE Registers!SetRead
  BY <1>4 DEF Registers!SetRead
<1>5. CASE Registers!Write
  BY <1>5 DEF Registers!Write
<1>6. CASE Registers!TransferFails
  <2>1. bank_failures' \in 0 .. BankFailures
    BY <1>6, BankAssumption DEF Registers!TransferFails
  <2>2. hw' \in RegisterBanks
    BY <1>6 DEF Registers!TransferFails
  <2> QED
    BY <1>6, <2>1, <2>2 DEF Registers!TransferFails
<1>7. CASE Registers!Done
  BY <1>7 DEF Registers!Done
<1>8. CASE Registers!Suspend
  BY <1>8 DEF Registers!Suspend
<1>9. CASE Registers!Resume
  BY <1>9 DEF Registers!Resume
<1>10. CASE UNCHANGED Registers!vars
  BY <1>10 DEF Registers!vars
<1> QED
  BY <1>1, <1>2, <1>3, <1>4, <1>5, <1>6, <1>7, <1>8, <1>9, <1>10 DEF Registers!Next

\* The inductive invariant holds in every reachable state.
THEOREM BankInvariant == Registers!Spec => []BankInv
<1>1. Registers!Init => BankInv
  BY BankInit
<1>2. BankInv /\ [Registers!Next]_(Registers!vars) => BankInv'
  BY BankStep
<1> QED
  BY <1>1, <1>2, PTL DEF Registers!Spec

\* Every variable keeps its type.
THEOREM BankTypes == Registers!Spec => []Registers!TypeOK
<1>1. BankInv => Registers!TypeOK
  BY DEF BankInv
<1> QED
  BY BankInvariant, <1>1, PTL

\* The remembered bank is the chip's, whatever transfer fails
\* (it6805_read_locked, it6805_write_locked and it6805_bulk_read).
THEOREM BankAgreement == Registers!Spec => []Registers!BankAgrees
<1>1. BankInv => Registers!BankAgrees
  BY DEF BankInv
<1> QED
  BY BankInvariant, <1>1, PTL

\* Registers are accessed in the bank that was selected or set for them.
THEOREM AccessCorrect == Registers!Spec => []Registers!AccessInBank
<1>1. BankInv => Registers!AccessInBank
  BY DEF BankInv
<1> QED
  BY BankInvariant, <1>1, PTL

-----------------------------------------------------------------------------
(* The bring-up                                                             *)

\* From the whole EDID to the worker, and where only a failure leads.
Loaded == {"verify", "port", "eq", "handle5v", "after", "irq", "start"}
Undone == {"caofEnd", "oclkEnd", "restore", "release", "failed", "gone"}

\* The types, of the places and numbers, and of the flags.
StepTypes ==
    /\ calibrating \subseteq BringUp!Ports /\ retried \subseteq BringUp!Ports
    /\ edid \in {"none", "half", "full"} /\ done \subseteq BringUp!Ports
    /\ bringup_pc \in BringUp!Steps \cup {"up", "asleep", "failed", "gone"}
    /\ failing \in BringUp!Steps \cup {"none", "cleanup"}
CountTypes ==
    /\ restarts \in 0 .. MaxRestarts /\ polls \in 0 .. PulseAfter /\ reads \in Nat
    /\ status_polls \in 0 .. MaxPolls
    /\ bringup_failures \in 0 .. BringupFailures /\ sleeps \in 0 .. MaxSleeps
ChipFlags ==
    /\ oclk \in BOOLEAN /\ bringup_hpd \in BOOLEAN /\ bringup_power \in BOOLEAN
    /\ clients \in BOOLEAN /\ published \in BOOLEAN /\ worker \in BOOLEAN
    /\ before \in BOOLEAN /\ resuming \in BOOLEAN

\* A failure is remembered only on the way out, and a failing cleanup is the
\* last thing that is done.
Failed ==
    /\ failing # "none" => bringup_pc \in Undone
    /\ failing = "cleanup" => bringup_pc \in {"release", "failed", "gone"}

\* The modes of the chip are those of the step under way, or what a cleanup that
\* failed left of them.
ModesOwned ==
    /\ calibrating # {} => bringup_pc \in {"wait", "force", "caofEnd"} \/ failing = "cleanup"
    /\ oclk => bringup_pc \in {"oclkWait", "oclkEnd"} \/ failing = "cleanup"

\* HPD is as it was, once it is restored.
Restored == failing \in BringUp!InputSteps /\ bringup_pc # "restore" => bringup_hpd = before

\* Clients and EDID come before the worker, which runs only on a chip that is up.
Ready ==
    /\ bringup_pc \notin {"clients", "release", "gone"} => clients
    /\ bringup_pc = "clients" => ~resuming
    /\ bringup_pc \in Loaded => edid = "full"
    /\ worker => bringup_pc \in {"up", "release"} /\ failing = "none"

\* The reads of the completion: one before the wait, then a round of PulseAfter
\* for each pulse.
Counted ==
    /\ bringup_pc = "caof" => restarts = 0 /\ polls = 0
    /\ bringup_pc = "wait" /\ restarts < MaxRestarts => reads = 1 + restarts * PulseAfter + polls

BringUpInv ==
    /\ StepTypes /\ CountTypes /\ ChipFlags /\ Failed /\ ModesOwned /\ Restored /\ Ready
    /\ BringUp!WorkerIsSafe /\ Counted /\ BringUp!CaofBounded

\* The limit of the reads is a number, and what is read in a round fits it.
LEMMA ReadsLimit ==
    /\ BringUp!MaxReads \in Nat
    /\ \A r \in Nat : r < MaxRestarts =>
           /\ r * PulseAfter \in Nat /\ (r + 1) * PulseAfter = r * PulseAfter + PulseAfter
           /\ (r + 1) * PulseAfter + 2 <= BringUp!MaxReads
<1> DEFINE P == PulseAfter
<1>1. P \in Nat /\ MaxRestarts \in Nat
    BY BringupAssumption
<1> HIDE DEF P
<1>2. \A a, b \in Nat : a * P \in Nat /\ (a + b) * P = a * P + b * P /\ b * P \in Nat
    BY <1>1
<1>3. MaxRestarts * P + 2 \in Nat
    BY <1>1, <1>2
<1>4. ASSUME NEW r \in Nat, r < MaxRestarts
      PROVE  r * P \in Nat /\ (r + 1) * P = r * P + P /\ (r + 1) * P <= MaxRestarts * P
    <2>1. MaxRestarts - (r + 1) \in Nat /\ r + 1 \in Nat
          /\ MaxRestarts = (r + 1) + (MaxRestarts - (r + 1))
        BY <1>1, <1>4
    <2>2. MaxRestarts * P = (r + 1) * P + (MaxRestarts - (r + 1)) * P
          /\ (MaxRestarts - (r + 1)) * P \in Nat /\ (r + 1) * P \in Nat
        BY <1>2, <2>1
    <2>3. (r + 1) * P = r * P + 1 * P /\ r * P \in Nat
        BY <1>2
    <2> QED BY <1>1, <2>2, <2>3
<1> QED BY <1>1, <1>3, <1>4 DEF P, BringUp!MaxReads

\* The bring-up begins with probe.
LEMMA BringUpInit == BringUp!Init => BringUpInv
<1> SUFFICES ASSUME BringUp!Init PROVE BringUpInv
    OBVIOUS
<1> USE BringupAssumption DEF BringUp!Init
<1>1. StepTypes
    BY DEF StepTypes, BringUp!Steps
<1>2. CountTypes
    BY DEF CountTypes
<1>5. ChipFlags
    BY DEF ChipFlags
<1>3. Failed /\ ModesOwned /\ Restored /\ Ready /\ BringUp!WorkerIsSafe
    BY DEF Failed, ModesOwned, Restored, Ready, BringUp!WorkerIsSafe, BringUp!InputSteps, Loaded
<1>4. Counted /\ BringUp!CaofBounded
    BY ReadsLimit DEF Counted, BringUp!CaofBounded
<1> QED BY <1>1, <1>2, <1>3, <1>4, <1>5 DEF BringUpInv

\* Every step keeps it.
LEMMA BringUpStep ==
    ASSUME BringUpInv, [BringUp!Next]_(BringUp!vars)
    PROVE  BringUpInv'
<1> USE BringupAssumption
    DEF BringUp!chipVars, BringUp!caofVars, BringUp!lifeVars, BringUp!stepVars, BringUp!Go,
        BringUp!Abort, BringUpInv
<1>1. CASE BringUp!Clients
    <2>1. StepTypes'
        BY <1>1 DEF BringUp!Clients, StepTypes, BringUp!Steps, BringUp!InputSteps, BringUp!Ports
    <2>2. CountTypes'
        BY <1>1 DEF BringUp!Clients, CountTypes
    <2>3. ChipFlags'
        BY <1>1 DEF BringUp!Clients, ChipFlags
    <2>4. Failed' /\ ModesOwned' /\ Restored' /\ Ready' /\ BringUp!WorkerIsSafe'
        BY <1>1 DEF BringUp!Clients, StepTypes, Failed, ModesOwned, Restored, Ready,
               BringUp!WorkerIsSafe, BringUp!InputSteps, BringUp!Steps, BringUp!Ports, Loaded,
               Undone
    <2>5. Counted' /\ BringUp!CaofBounded'
        BY <1>1 DEF BringUp!Clients, Counted, BringUp!CaofBounded
    <2> QED BY <2>1, <2>2, <2>3, <2>4, <2>5
<1>2. CASE BringUp!Identity
    <2>1. StepTypes'
        BY <1>2 DEF BringUp!Identity, StepTypes, BringUp!Steps, BringUp!InputSteps, BringUp!Ports
    <2>2. CountTypes'
        BY <1>2 DEF BringUp!Identity, CountTypes
    <2>3. ChipFlags'
        BY <1>2 DEF BringUp!Identity, ChipFlags
    <2>4. Failed' /\ ModesOwned' /\ Restored' /\ Ready' /\ BringUp!WorkerIsSafe'
        BY <1>2 DEF BringUp!Identity, StepTypes, Failed, ModesOwned, Restored, Ready,
               BringUp!WorkerIsSafe, BringUp!InputSteps, BringUp!Steps, BringUp!Ports, Loaded,
               Undone
    <2>5. Counted' /\ BringUp!CaofBounded'
        BY <1>2 DEF BringUp!Identity, Counted, BringUp!CaofBounded
    <2> QED BY <2>1, <2>2, <2>3, <2>4, <2>5
<1>3. CASE BringUp!Sequence
    <2>1. StepTypes'
        BY <1>3 DEF BringUp!Sequence, StepTypes, BringUp!Steps, BringUp!InputSteps, BringUp!Ports
    <2>2. CountTypes'
        BY <1>3 DEF BringUp!Sequence, CountTypes
    <2>3. ChipFlags'
        BY <1>3 DEF BringUp!Sequence, ChipFlags
    <2>4. Failed' /\ ModesOwned' /\ Restored' /\ Ready' /\ BringUp!WorkerIsSafe'
        BY <1>3 DEF BringUp!Sequence, StepTypes, Failed, ModesOwned, Restored, Ready,
               BringUp!WorkerIsSafe, BringUp!InputSteps, BringUp!Steps, BringUp!Ports, Loaded,
               Undone
    <2>5. Counted' /\ BringUp!CaofBounded'
        <3>1. reads' \in {0, 1} /\ reads' <= BringUp!MaxReads
            BY <1>3, ReadsLimit DEF BringUp!Sequence, BringUp!MaxReads
        <3>2. Counted'
            BY <1>3 DEF BringUp!Sequence, Counted
        <3> QED BY <3>1, <3>2 DEF BringUp!CaofBounded
    <2> QED BY <2>1, <2>2, <2>3, <2>4, <2>5
<1>4. CASE BringUp!CaofPrepare
    <2>1. StepTypes'
        BY <1>4 DEF BringUp!CaofPrepare, StepTypes, BringUp!Steps, BringUp!InputSteps, BringUp!Ports
    <2>2. CountTypes'
        BY <1>4 DEF BringUp!CaofPrepare, CountTypes
    <2>3. ChipFlags'
        BY <1>4 DEF BringUp!CaofPrepare, ChipFlags
    <2>4. Failed' /\ ModesOwned' /\ Restored' /\ Ready' /\ BringUp!WorkerIsSafe'
        BY <1>4 DEF BringUp!CaofPrepare, StepTypes, Failed, ModesOwned, Restored, Ready,
               BringUp!WorkerIsSafe, BringUp!InputSteps, BringUp!Steps, BringUp!Ports, Loaded,
               Undone
    <2>5. Counted' /\ BringUp!CaofBounded'
        <3>1. reads' \in {0, 1} /\ reads' <= BringUp!MaxReads
            BY <1>4, ReadsLimit DEF BringUp!CaofPrepare, BringUp!MaxReads
        <3>2. Counted'
            BY <1>4 DEF BringUp!CaofPrepare, Counted
        <3> QED BY <3>1, <3>2 DEF BringUp!CaofBounded
    <2> QED BY <2>1, <2>2, <2>3, <2>4, <2>5
<1>5. CASE BringUp!CaofPoll
    <2>1. StepTypes'
        BY <1>5 DEF BringUp!CaofPoll, StepTypes, BringUp!Steps, BringUp!InputSteps, BringUp!Ports
    <2>2. CountTypes'
        BY <1>5 DEF BringUp!CaofPoll, CountTypes
    <2>3. ChipFlags'
        BY <1>5 DEF BringUp!CaofPoll, ChipFlags
    <2>4. Failed' /\ ModesOwned' /\ Restored' /\ Ready' /\ BringUp!WorkerIsSafe'
        BY <1>5 DEF BringUp!CaofPoll, StepTypes, Failed, ModesOwned, Restored, Ready,
               BringUp!WorkerIsSafe, BringUp!InputSteps, BringUp!Steps, BringUp!Ports, Loaded,
               Undone
    <2>5. Counted' /\ BringUp!CaofBounded'
        <3> DEFINE Before == restarts * PulseAfter
                   After == (restarts + 1) * PulseAfter
        <3>1. /\ Before \in Nat /\ After = Before + PulseAfter
              /\ After + 2 <= BringUp!MaxReads /\ BringUp!MaxReads \in Nat
            BY <1>5, ReadsLimit DEF BringUp!CaofPoll, CountTypes
        <3>2. reads = 1 + Before + polls /\ reads' = reads + 1
              /\ restarts \in Nat /\ polls \in 0 .. PulseAfter /\ bringup_pc' = bringup_pc
            BY <1>5 DEF BringUp!CaofPoll, Counted, CountTypes
        <3>3. CASE polls >= PulseAfter
            <4>1. polls = PulseAfter /\ restarts' = restarts + 1
                BY <1>5, <3>2, <3>3 DEF BringUp!CaofPoll
            <4>2. restarts' < MaxRestarts => polls' = 1
                BY <1>5, <3>2, <3>3, <4>1 DEF BringUp!CaofPoll
            <4>3. restarts' * PulseAfter = After
                BY <4>1
            <4> HIDE DEF Before, After
            <4>4. reads' = After + 2 /\ reads' <= BringUp!MaxReads
                BY <3>1, <3>2, <4>1
            <4>5. restarts' < MaxRestarts => reads' = 1 + restarts' * PulseAfter + polls'
                BY ONLY <3>1, <3>2, <4>2, <4>3, <4>4, BringupAssumption
            <4> QED BY <1>5, <4>4, <4>5 DEF BringUp!CaofPoll, Counted, BringUp!CaofBounded
        <3>4. CASE ~(polls >= PulseAfter)
            <4>1. restarts' = restarts /\ polls' = polls + 1 /\ polls < PulseAfter
                BY <1>5, <3>2, <3>4 DEF BringUp!CaofPoll
            <4>3. restarts' * PulseAfter = Before
                BY <4>1
            <4> HIDE DEF Before, After
            <4>4. reads' = 1 + Before + polls' /\ reads' <= BringUp!MaxReads
                BY <3>1, <3>2, <4>1
            <4>5. reads' = 1 + restarts' * PulseAfter + polls'
                BY ONLY <4>3, <4>4
            <4> QED BY <1>5, <4>4, <4>5 DEF BringUp!CaofPoll, Counted, BringUp!CaofBounded
        <3> QED BY <3>3, <3>4
    <2> QED BY <2>1, <2>2, <2>3, <2>4, <2>5
<1>6. CASE BringUp!CaofWaited
    <2>1. StepTypes'
        BY <1>6 DEF BringUp!CaofWaited, StepTypes, BringUp!Steps, BringUp!InputSteps, BringUp!Ports
    <2>2. CountTypes'
        BY <1>6 DEF BringUp!CaofWaited, CountTypes
    <2>3. ChipFlags'
        BY <1>6 DEF BringUp!CaofWaited, ChipFlags
    <2>4. Failed' /\ ModesOwned' /\ Restored' /\ Ready' /\ BringUp!WorkerIsSafe'
        BY <1>6 DEF BringUp!CaofWaited, StepTypes, Failed, ModesOwned, Restored, Ready,
               BringUp!WorkerIsSafe, BringUp!InputSteps, BringUp!Steps, BringUp!Ports, Loaded,
               Undone
    <2>5. Counted' /\ BringUp!CaofBounded'
        BY <1>6 DEF BringUp!CaofWaited, Counted, BringUp!CaofBounded
    <2> QED BY <2>1, <2>2, <2>3, <2>4, <2>5
<1>7. CASE BringUp!CaofForce
    <2>1. StepTypes'
        BY <1>7 DEF BringUp!CaofForce, StepTypes, BringUp!Steps, BringUp!InputSteps, BringUp!Ports
    <2>2. CountTypes'
        BY <1>7 DEF BringUp!CaofForce, CountTypes
    <2>3. ChipFlags'
        BY <1>7 DEF BringUp!CaofForce, ChipFlags
    <2>4. Failed' /\ ModesOwned' /\ Restored' /\ Ready' /\ BringUp!WorkerIsSafe'
        BY <1>7 DEF BringUp!CaofForce, StepTypes, Failed, ModesOwned, Restored, Ready,
               BringUp!WorkerIsSafe, BringUp!InputSteps, BringUp!Steps, BringUp!Ports, Loaded,
               Undone
    <2>5. Counted' /\ BringUp!CaofBounded'
        BY <1>7 DEF BringUp!CaofForce, Counted, BringUp!CaofBounded
    <2> QED BY <2>1, <2>2, <2>3, <2>4, <2>5
<1>8. CASE BringUp!Output
    <2>1. StepTypes'
        BY <1>8 DEF BringUp!Output, StepTypes, BringUp!Steps, BringUp!InputSteps, BringUp!Ports
    <2>2. CountTypes'
        BY <1>8 DEF BringUp!Output, CountTypes
    <2>3. ChipFlags'
        BY <1>8 DEF BringUp!Output, ChipFlags
    <2>4. Failed' /\ ModesOwned' /\ Restored' /\ Ready' /\ BringUp!WorkerIsSafe'
        BY <1>8 DEF BringUp!Output, StepTypes, Failed, ModesOwned, Restored, Ready,
               BringUp!WorkerIsSafe, BringUp!InputSteps, BringUp!Steps, BringUp!Ports, Loaded,
               Undone
    <2>5. Counted' /\ BringUp!CaofBounded'
        BY <1>8 DEF BringUp!Output, Counted, BringUp!CaofBounded
    <2> QED BY <2>1, <2>2, <2>3, <2>4, <2>5
<1>9. CASE BringUp!OclkOpen
    <2>1. StepTypes'
        BY <1>9 DEF BringUp!OclkOpen, StepTypes, BringUp!Steps, BringUp!InputSteps, BringUp!Ports
    <2>2. CountTypes'
        BY <1>9 DEF BringUp!OclkOpen, CountTypes
    <2>3. ChipFlags'
        BY <1>9 DEF BringUp!OclkOpen, ChipFlags
    <2>4. Failed' /\ ModesOwned' /\ Restored' /\ Ready' /\ BringUp!WorkerIsSafe'
        BY <1>9 DEF BringUp!OclkOpen, StepTypes, Failed, ModesOwned, Restored, Ready,
               BringUp!WorkerIsSafe, BringUp!InputSteps, BringUp!Steps, BringUp!Ports, Loaded,
               Undone
    <2>5. Counted' /\ BringUp!CaofBounded'
        BY <1>9 DEF BringUp!OclkOpen, Counted, BringUp!CaofBounded
    <2> QED BY <2>1, <2>2, <2>3, <2>4, <2>5
<1>10. CASE BringUp!OclkPoll
    <2>1. StepTypes'
        BY <1>10 DEF BringUp!OclkPoll, StepTypes, BringUp!Steps, BringUp!InputSteps, BringUp!Ports
    <2>2. CountTypes'
        BY <1>10 DEF BringUp!OclkPoll, CountTypes
    <2>3. ChipFlags'
        BY <1>10 DEF BringUp!OclkPoll, ChipFlags
    <2>4. Failed' /\ ModesOwned' /\ Restored' /\ Ready' /\ BringUp!WorkerIsSafe'
        BY <1>10 DEF BringUp!OclkPoll, StepTypes, Failed, ModesOwned, Restored, Ready,
               BringUp!WorkerIsSafe, BringUp!InputSteps, BringUp!Steps, BringUp!Ports, Loaded,
               Undone
    <2>5. Counted' /\ BringUp!CaofBounded'
        BY <1>10 DEF BringUp!OclkPoll, Counted, BringUp!CaofBounded
    <2> QED BY <2>1, <2>2, <2>3, <2>4, <2>5
<1>11. CASE BringUp!Program
    <2>1. StepTypes'
        BY <1>11 DEF BringUp!Program, StepTypes, BringUp!Steps, BringUp!InputSteps, BringUp!Ports
    <2>2. CountTypes'
        BY <1>11 DEF BringUp!Program, CountTypes
    <2>3. ChipFlags'
        BY <1>11 DEF BringUp!Program, ChipFlags
    <2>4. Failed' /\ ModesOwned' /\ Restored' /\ Ready' /\ BringUp!WorkerIsSafe'
        BY <1>11 DEF BringUp!Program, StepTypes, Failed, ModesOwned, Restored, Ready,
               BringUp!WorkerIsSafe, BringUp!InputSteps, BringUp!Steps, BringUp!Ports, Loaded,
               Undone
    <2>5. Counted' /\ BringUp!CaofBounded'
        BY <1>11 DEF BringUp!Program, Counted, BringUp!CaofBounded
    <2> QED BY <2>1, <2>2, <2>3, <2>4, <2>5
<1>12. CASE BringUp!Input
    <2>1. StepTypes'
        BY <1>12 DEF BringUp!Input, StepTypes, BringUp!Steps, BringUp!InputSteps, BringUp!Ports
    <2>2. CountTypes'
        BY <1>12 DEF BringUp!Input, CountTypes
    <2>3. ChipFlags'
        BY <1>12 DEF BringUp!Input, ChipFlags
    <2>4. Failed' /\ ModesOwned' /\ Restored' /\ Ready' /\ BringUp!WorkerIsSafe'
        BY <1>12 DEF BringUp!Input, StepTypes, Failed, ModesOwned, Restored, Ready,
               BringUp!WorkerIsSafe, BringUp!InputSteps, BringUp!Steps, BringUp!Ports, Loaded,
               Undone
    <2>5. Counted' /\ BringUp!CaofBounded'
        BY <1>12 DEF BringUp!Input, Counted, BringUp!CaofBounded
    <2> QED BY <2>1, <2>2, <2>3, <2>4, <2>5
<1>13. CASE BringUp!EdidLow
    <2>1. StepTypes'
        BY <1>13 DEF BringUp!EdidLow, BringUp!SetHpd, StepTypes, BringUp!Steps, BringUp!InputSteps,
               BringUp!Ports
    <2>2. CountTypes'
        BY <1>13 DEF BringUp!EdidLow, BringUp!SetHpd, CountTypes
    <2>3. ChipFlags'
        BY <1>13 DEF BringUp!EdidLow, BringUp!SetHpd, ChipFlags
    <2>4. Failed' /\ ModesOwned' /\ Restored' /\ Ready' /\ BringUp!WorkerIsSafe'
        BY <1>13 DEF BringUp!EdidLow, BringUp!SetHpd, StepTypes, Failed, ModesOwned, Restored,
               Ready, BringUp!WorkerIsSafe, BringUp!InputSteps, BringUp!Steps, BringUp!Ports,
               Loaded, Undone
    <2>5. Counted' /\ BringUp!CaofBounded'
        BY <1>13 DEF BringUp!EdidLow, BringUp!SetHpd, Counted, BringUp!CaofBounded
    <2> QED BY <2>1, <2>2, <2>3, <2>4, <2>5
<1>14. CASE BringUp!Edid0
    <2>1. StepTypes'
        BY <1>14 DEF BringUp!Edid0, StepTypes, BringUp!Steps, BringUp!InputSteps, BringUp!Ports
    <2>2. CountTypes'
        BY <1>14 DEF BringUp!Edid0, CountTypes
    <2>3. ChipFlags'
        BY <1>14 DEF BringUp!Edid0, ChipFlags
    <2>4. Failed' /\ ModesOwned' /\ Restored' /\ Ready' /\ BringUp!WorkerIsSafe'
        BY <1>14 DEF BringUp!Edid0, StepTypes, Failed, ModesOwned, Restored, Ready,
               BringUp!WorkerIsSafe, BringUp!InputSteps, BringUp!Steps, BringUp!Ports, Loaded,
               Undone
    <2>5. Counted' /\ BringUp!CaofBounded'
        BY <1>14 DEF BringUp!Edid0, Counted, BringUp!CaofBounded
    <2> QED BY <2>1, <2>2, <2>3, <2>4, <2>5
<1>15. CASE BringUp!Edid1
    <2>1. StepTypes'
        BY <1>15 DEF BringUp!Edid1, StepTypes, BringUp!Steps, BringUp!InputSteps, BringUp!Ports
    <2>2. CountTypes'
        BY <1>15 DEF BringUp!Edid1, CountTypes
    <2>3. ChipFlags'
        BY <1>15 DEF BringUp!Edid1, ChipFlags
    <2>4. Failed' /\ ModesOwned' /\ Restored' /\ Ready' /\ BringUp!WorkerIsSafe'
        BY <1>15 DEF BringUp!Edid1, StepTypes, Failed, ModesOwned, Restored, Ready,
               BringUp!WorkerIsSafe, BringUp!InputSteps, BringUp!Steps, BringUp!Ports, Loaded,
               Undone
    <2>5. Counted' /\ BringUp!CaofBounded'
        BY <1>15 DEF BringUp!Edid1, Counted, BringUp!CaofBounded
    <2> QED BY <2>1, <2>2, <2>3, <2>4, <2>5
<1>16. CASE BringUp!Verify
    <2>1. StepTypes'
        BY <1>16 DEF BringUp!Verify, StepTypes, BringUp!Steps, BringUp!InputSteps, BringUp!Ports
    <2>2. CountTypes'
        BY <1>16 DEF BringUp!Verify, CountTypes
    <2>3. ChipFlags'
        BY <1>16 DEF BringUp!Verify, ChipFlags
    <2>4. Failed' /\ ModesOwned' /\ Restored' /\ Ready' /\ BringUp!WorkerIsSafe'
        BY <1>16 DEF BringUp!Verify, StepTypes, Failed, ModesOwned, Restored, Ready,
               BringUp!WorkerIsSafe, BringUp!InputSteps, BringUp!Steps, BringUp!Ports, Loaded,
               Undone
    <2>5. Counted' /\ BringUp!CaofBounded'
        BY <1>16 DEF BringUp!Verify, Counted, BringUp!CaofBounded
    <2> QED BY <2>1, <2>2, <2>3, <2>4, <2>5
<1>17. CASE BringUp!SelectPort
    <2>1. StepTypes'
        BY <1>17 DEF BringUp!SelectPort, StepTypes, BringUp!Steps, BringUp!InputSteps, BringUp!Ports
    <2>2. CountTypes'
        BY <1>17 DEF BringUp!SelectPort, CountTypes
    <2>3. ChipFlags'
        BY <1>17 DEF BringUp!SelectPort, ChipFlags
    <2>4. Failed' /\ ModesOwned' /\ Restored' /\ Ready' /\ BringUp!WorkerIsSafe'
        BY <1>17 DEF BringUp!SelectPort, StepTypes, Failed, ModesOwned, Restored, Ready,
               BringUp!WorkerIsSafe, BringUp!InputSteps, BringUp!Steps, BringUp!Ports, Loaded,
               Undone
    <2>5. Counted' /\ BringUp!CaofBounded'
        BY <1>17 DEF BringUp!SelectPort, Counted, BringUp!CaofBounded
    <2> QED BY <2>1, <2>2, <2>3, <2>4, <2>5
<1>18. CASE BringUp!ResetEq
    <2>1. StepTypes'
        BY <1>18 DEF BringUp!ResetEq, StepTypes, BringUp!Steps, BringUp!InputSteps, BringUp!Ports
    <2>2. CountTypes'
        BY <1>18 DEF BringUp!ResetEq, CountTypes
    <2>3. ChipFlags'
        BY <1>18 DEF BringUp!ResetEq, ChipFlags
    <2>4. Failed' /\ ModesOwned' /\ Restored' /\ Ready' /\ BringUp!WorkerIsSafe'
        BY <1>18 DEF BringUp!ResetEq, StepTypes, Failed, ModesOwned, Restored, Ready,
               BringUp!WorkerIsSafe, BringUp!InputSteps, BringUp!Steps, BringUp!Ports, Loaded,
               Undone
    <2>5. Counted' /\ BringUp!CaofBounded'
        BY <1>18 DEF BringUp!ResetEq, Counted, BringUp!CaofBounded
    <2> QED BY <2>1, <2>2, <2>3, <2>4, <2>5
<1>19. CASE BringUp!Handle5v
    <2>1. StepTypes'
        BY <1>19 DEF BringUp!Handle5v, BringUp!SetHpd, StepTypes, BringUp!Steps,
               BringUp!InputSteps, BringUp!Ports
    <2>2. CountTypes'
        BY <1>19 DEF BringUp!Handle5v, BringUp!SetHpd, CountTypes
    <2>3. ChipFlags'
        BY <1>19 DEF BringUp!Handle5v, BringUp!SetHpd, ChipFlags
    <2>4. Failed' /\ ModesOwned' /\ Restored' /\ Ready' /\ BringUp!WorkerIsSafe'
        BY <1>19 DEF BringUp!Handle5v, BringUp!SetHpd, StepTypes, Failed, ModesOwned, Restored,
               Ready, BringUp!WorkerIsSafe, BringUp!InputSteps, BringUp!Steps, BringUp!Ports,
               Loaded, Undone
    <2>5. Counted' /\ BringUp!CaofBounded'
        BY <1>19 DEF BringUp!Handle5v, BringUp!SetHpd, Counted, BringUp!CaofBounded
    <2> QED BY <2>1, <2>2, <2>3, <2>4, <2>5
<1>20. CASE BringUp!After
    <2>1. StepTypes'
        BY <1>20 DEF BringUp!After, StepTypes, BringUp!Steps, BringUp!InputSteps, BringUp!Ports
    <2>2. CountTypes'
        BY <1>20 DEF BringUp!After, CountTypes
    <2>3. ChipFlags'
        BY <1>20 DEF BringUp!After, ChipFlags
    <2>4. Failed' /\ ModesOwned' /\ Restored' /\ Ready' /\ BringUp!WorkerIsSafe'
        BY <1>20 DEF BringUp!After, StepTypes, Failed, ModesOwned, Restored, Ready,
               BringUp!WorkerIsSafe, BringUp!InputSteps, BringUp!Steps, BringUp!Ports, Loaded,
               Undone
    <2>5. Counted' /\ BringUp!CaofBounded'
        BY <1>20 DEF BringUp!After, Counted, BringUp!CaofBounded
    <2> QED BY <2>1, <2>2, <2>3, <2>4, <2>5
<1>21. CASE BringUp!Irq
    <2>1. StepTypes'
        BY <1>21 DEF BringUp!Irq, StepTypes, BringUp!Steps, BringUp!InputSteps, BringUp!Ports
    <2>2. CountTypes'
        BY <1>21 DEF BringUp!Irq, CountTypes
    <2>3. ChipFlags'
        BY <1>21 DEF BringUp!Irq, ChipFlags
    <2>4. Failed' /\ ModesOwned' /\ Restored' /\ Ready' /\ BringUp!WorkerIsSafe'
        BY <1>21 DEF BringUp!Irq, StepTypes, Failed, ModesOwned, Restored, Ready,
               BringUp!WorkerIsSafe, BringUp!InputSteps, BringUp!Steps, BringUp!Ports, Loaded,
               Undone
    <2>5. Counted' /\ BringUp!CaofBounded'
        BY <1>21 DEF BringUp!Irq, Counted, BringUp!CaofBounded
    <2> QED BY <2>1, <2>2, <2>3, <2>4, <2>5
<1>22. CASE BringUp!Start
    <2>1. StepTypes'
        BY <1>22 DEF BringUp!Start, StepTypes, BringUp!Steps, BringUp!InputSteps, BringUp!Ports
    <2>2. CountTypes'
        BY <1>22 DEF BringUp!Start, CountTypes
    <2>3. ChipFlags'
        BY <1>22 DEF BringUp!Start, ChipFlags
    <2>4. Failed' /\ ModesOwned' /\ Restored' /\ Ready' /\ BringUp!WorkerIsSafe'
        BY <1>22 DEF BringUp!Start, StepTypes, Failed, ModesOwned, Restored, Ready,
               BringUp!WorkerIsSafe, BringUp!InputSteps, BringUp!Steps, BringUp!Ports, Loaded,
               Undone
    <2>5. Counted' /\ BringUp!CaofBounded'
        BY <1>22 DEF BringUp!Start, Counted, BringUp!CaofBounded
    <2> QED BY <2>1, <2>2, <2>3, <2>4, <2>5
<1>23. CASE BringUp!Release
    <2>1. StepTypes'
        BY <1>23 DEF BringUp!Release, StepTypes, BringUp!Steps, BringUp!InputSteps, BringUp!Ports
    <2>2. CountTypes'
        BY <1>23 DEF BringUp!Release, CountTypes
    <2>3. ChipFlags'
        BY <1>23 DEF BringUp!Release, ChipFlags
    <2>4. Failed' /\ ModesOwned' /\ Restored' /\ Ready' /\ BringUp!WorkerIsSafe'
        BY <1>23 DEF BringUp!Release, StepTypes, Failed, ModesOwned, Restored, Ready,
               BringUp!WorkerIsSafe, BringUp!InputSteps, BringUp!Steps, BringUp!Ports, Loaded,
               Undone
    <2>5. Counted' /\ BringUp!CaofBounded'
        BY <1>23 DEF BringUp!Release, Counted, BringUp!CaofBounded
    <2> QED BY <2>1, <2>2, <2>3, <2>4, <2>5
<1>24. CASE BringUp!Fail
    <2>1. StepTypes'
        BY <1>24 DEF BringUp!Fail, BringUp!Cleanup, StepTypes, BringUp!Steps, BringUp!InputSteps,
               BringUp!Ports
    <2>2. CountTypes'
        BY <1>24 DEF BringUp!Fail, BringUp!Cleanup, CountTypes
    <2>3. ChipFlags'
        BY <1>24 DEF BringUp!Fail, BringUp!Cleanup, ChipFlags
    <2>4. Failed' /\ ModesOwned' /\ Restored' /\ Ready' /\ BringUp!WorkerIsSafe'
        <3>0. bringup_pc \in BringUp!Steps \ {"release", "caofEnd", "oclkEnd", "restore"}
               /\ failing' = bringup_pc /\ failing = "none"
            BY <1>24 DEF BringUp!Fail, BringUp!Cleanup, Failed, Undone, BringUp!Steps
        <3>1. Failed'
            BY <1>24, <3>0 DEF BringUp!Fail, BringUp!Cleanup, Failed, Undone, BringUp!Steps,
                   BringUp!InputSteps
        <3>2. calibrating' # {} => bringup_pc' = "caofEnd"
            <4>1. calibrating' # {} => bringup_pc \in {"caof", "wait", "force"}
                BY <1>24, <3>0 DEF BringUp!Fail, ModesOwned
            <4>2. bringup_pc \in {"caof", "wait", "force"} => bringup_pc' = "caofEnd"
                BY <1>24 DEF BringUp!Fail, BringUp!Cleanup, BringUp!InputSteps
            <4> QED BY <4>1, <4>2
        <3>3. oclk' => bringup_pc' = "oclkEnd"
            <4>1. oclk' => bringup_pc = "oclk" \/ oclk
                BY <1>24 DEF BringUp!Fail
            <4>2. oclk => bringup_pc \in {"oclk", "oclkWait"}
                BY <3>0 DEF ModesOwned
            <4>3. bringup_pc \in {"oclk", "oclkWait"} => bringup_pc' = "oclkEnd"
                BY <1>24 DEF BringUp!Fail, BringUp!Cleanup, BringUp!InputSteps
            <4> QED BY <4>1, <4>2, <4>3
        <3>4. ModesOwned'
            BY <3>2, <3>3 DEF ModesOwned
        <3>5. Restored'
            BY <1>24, <3>0 DEF BringUp!Fail, BringUp!Cleanup, Restored, BringUp!InputSteps
        <3>6. Ready' /\ BringUp!WorkerIsSafe'
            <4>0. ~worker
                BY <3>0 DEF Ready, BringUp!Steps
            <4>1. ~worker' /\ (clients' <=> clients) /\ edid' \in {edid, "half"}
                  /\ (resuming' <=> resuming)
                BY <1>24, <4>0 DEF BringUp!Fail
            <4>2. bringup_pc' \in {"caofEnd", "oclkEnd", "restore", "release", "failed"}
                BY <1>24 DEF BringUp!Fail, BringUp!Cleanup
            <4>3. bringup_pc = "clients" => bringup_pc' = "release"
                BY <1>24 DEF BringUp!Fail, BringUp!Cleanup, BringUp!InputSteps, Ready
            <4>4. bringup_pc \notin {"clients", "release", "gone"} => clients
                BY DEF Ready
            <4>5. bringup_pc \notin {"release", "gone"}
                BY <3>0 DEF BringUp!Steps
            <4> QED BY <4>1, <4>2, <4>3, <4>4, <4>5 DEF Ready, Loaded, BringUp!WorkerIsSafe
        <3> QED BY <3>1, <3>4, <3>5, <3>6
    <2>5. Counted' /\ BringUp!CaofBounded'
        BY <1>24 DEF BringUp!Fail, BringUp!Cleanup, Counted, BringUp!CaofBounded
    <2> QED BY <2>1, <2>2, <2>3, <2>4, <2>5
<1>25. CASE BringUp!TogglePower
    <2>1. StepTypes'
        BY <1>25 DEF BringUp!TogglePower, StepTypes, BringUp!Steps, BringUp!InputSteps,
               BringUp!Ports
    <2>2. CountTypes'
        BY <1>25 DEF BringUp!TogglePower, CountTypes
    <2>3. ChipFlags'
        BY <1>25 DEF BringUp!TogglePower, ChipFlags
    <2>4. Failed' /\ ModesOwned' /\ Restored' /\ Ready' /\ BringUp!WorkerIsSafe'
        BY <1>25 DEF BringUp!TogglePower, StepTypes, Failed, ModesOwned, Restored, Ready,
               BringUp!WorkerIsSafe, BringUp!InputSteps, BringUp!Steps, BringUp!Ports, Loaded,
               Undone
    <2>5. Counted' /\ BringUp!CaofBounded'
        BY <1>25 DEF BringUp!TogglePower, Counted, BringUp!CaofBounded
    <2> QED BY <2>1, <2>2, <2>3, <2>4, <2>5
<1>26. CASE BringUp!Runtime
    <2>1. StepTypes'
        BY <1>26 DEF BringUp!Runtime, StepTypes, BringUp!Steps, BringUp!InputSteps, BringUp!Ports
    <2>2. CountTypes'
        BY <1>26 DEF BringUp!Runtime, CountTypes
    <2>3. ChipFlags'
        BY <1>26 DEF BringUp!Runtime, ChipFlags
    <2>4. Failed' /\ ModesOwned' /\ Restored' /\ Ready' /\ BringUp!WorkerIsSafe'
        BY <1>26 DEF BringUp!Runtime, StepTypes, Failed, ModesOwned, Restored, Ready,
               BringUp!WorkerIsSafe, BringUp!InputSteps, BringUp!Steps, BringUp!Ports, Loaded,
               Undone
    <2>5. Counted' /\ BringUp!CaofBounded'
        BY <1>26 DEF BringUp!Runtime, Counted, BringUp!CaofBounded
    <2> QED BY <2>1, <2>2, <2>3, <2>4, <2>5
<1>27. CASE BringUp!Remove
    <2>1. StepTypes'
        BY <1>27 DEF BringUp!Remove, StepTypes, BringUp!Steps, BringUp!InputSteps, BringUp!Ports
    <2>2. CountTypes'
        BY <1>27 DEF BringUp!Remove, CountTypes
    <2>3. ChipFlags'
        BY <1>27 DEF BringUp!Remove, ChipFlags
    <2>4. Failed' /\ ModesOwned' /\ Restored' /\ Ready' /\ BringUp!WorkerIsSafe'
        BY <1>27 DEF BringUp!Remove, StepTypes, Failed, ModesOwned, Restored, Ready,
               BringUp!WorkerIsSafe, BringUp!InputSteps, BringUp!Steps, BringUp!Ports, Loaded,
               Undone
    <2>5. Counted' /\ BringUp!CaofBounded'
        BY <1>27 DEF BringUp!Remove, Counted, BringUp!CaofBounded
    <2> QED BY <2>1, <2>2, <2>3, <2>4, <2>5
<1>28. CASE BringUp!Suspend
    <2>1. StepTypes'
        BY <1>28 DEF BringUp!Suspend, StepTypes, BringUp!Steps, BringUp!InputSteps, BringUp!Ports
    <2>2. CountTypes'
        BY <1>28 DEF BringUp!Suspend, CountTypes
    <2>3. ChipFlags'
        BY <1>28 DEF BringUp!Suspend, ChipFlags
    <2>4. Failed' /\ ModesOwned' /\ Restored' /\ Ready' /\ BringUp!WorkerIsSafe'
        BY <1>28 DEF BringUp!Suspend, StepTypes, Failed, ModesOwned, Restored, Ready,
               BringUp!WorkerIsSafe, BringUp!InputSteps, BringUp!Steps, BringUp!Ports, Loaded,
               Undone
    <2>5. Counted' /\ BringUp!CaofBounded'
        BY <1>28 DEF BringUp!Suspend, Counted, BringUp!CaofBounded
    <2> QED BY <2>1, <2>2, <2>3, <2>4, <2>5
<1>29. CASE BringUp!Resume
    <2>1. StepTypes'
        BY <1>29 DEF BringUp!Resume, StepTypes, BringUp!Steps, BringUp!InputSteps, BringUp!Ports
    <2>2. CountTypes'
        BY <1>29 DEF BringUp!Resume, CountTypes
    <2>3. ChipFlags'
        BY <1>29 DEF BringUp!Resume, ChipFlags
    <2>4. Failed' /\ ModesOwned' /\ Restored' /\ Ready' /\ BringUp!WorkerIsSafe'
        BY <1>29 DEF BringUp!Resume, StepTypes, Failed, ModesOwned, Restored, Ready,
               BringUp!WorkerIsSafe, BringUp!InputSteps, BringUp!Steps, BringUp!Ports, Loaded,
               Undone
    <2>5. Counted' /\ BringUp!CaofBounded'
        BY <1>29 DEF BringUp!Resume, Counted, BringUp!CaofBounded
    <2> QED BY <2>1, <2>2, <2>3, <2>4, <2>5
<1>30. ASSUME NEW f \in BOOLEAN, BringUp!CaofEnd(f) PROVE BringUpInv'
    <2>1. StepTypes'
        BY <1>30 DEF BringUp!CaofEnd, StepTypes, BringUp!Steps, BringUp!InputSteps, BringUp!Ports
    <2>2. CountTypes'
        BY <1>30 DEF BringUp!CaofEnd, CountTypes
    <2>3. ChipFlags'
        BY <1>30 DEF BringUp!CaofEnd, ChipFlags
    <2>4. Failed' /\ ModesOwned' /\ Restored' /\ Ready' /\ BringUp!WorkerIsSafe'
        BY <1>30 DEF BringUp!CaofEnd, StepTypes, Failed, ModesOwned, Restored, Ready,
               BringUp!WorkerIsSafe, BringUp!InputSteps, BringUp!Steps, BringUp!Ports, Loaded,
               Undone
    <2>5. Counted' /\ BringUp!CaofBounded'
        BY <1>30 DEF BringUp!CaofEnd, Counted, BringUp!CaofBounded
    <2> QED BY <2>1, <2>2, <2>3, <2>4, <2>5
<1>31. ASSUME NEW f \in BOOLEAN, BringUp!OclkEnd(f) PROVE BringUpInv'
    <2>1. StepTypes'
        BY <1>31 DEF BringUp!OclkEnd, StepTypes, BringUp!Steps, BringUp!InputSteps, BringUp!Ports
    <2>2. CountTypes'
        <3>1. CASE f
            BY <1>31, <3>1 DEF BringUp!OclkEnd, CountTypes
        <3>2. CASE ~f
            BY <1>31, <3>2 DEF BringUp!OclkEnd, CountTypes
        <3> QED BY <3>1, <3>2
    <2>3. ChipFlags'
        BY <1>31 DEF BringUp!OclkEnd, ChipFlags
    <2>4. Failed' /\ ModesOwned' /\ Restored' /\ Ready' /\ BringUp!WorkerIsSafe'
        BY <1>31 DEF BringUp!OclkEnd, StepTypes, Failed, ModesOwned, Restored, Ready,
               BringUp!WorkerIsSafe, BringUp!InputSteps, BringUp!Steps, BringUp!Ports, Loaded,
               Undone
    <2>5. Counted' /\ BringUp!CaofBounded'
        BY <1>31 DEF BringUp!OclkEnd, Counted, BringUp!CaofBounded
    <2> QED BY <2>1, <2>2, <2>3, <2>4, <2>5
<1>32. ASSUME NEW f \in BOOLEAN, BringUp!Restore(f) PROVE BringUpInv'
    <2>1. StepTypes'
        BY <1>32 DEF BringUp!Restore, StepTypes, BringUp!Steps, BringUp!InputSteps, BringUp!Ports
    <2>2. CountTypes'
        BY <1>32 DEF BringUp!Restore, CountTypes
    <2>3. ChipFlags'
        BY <1>32 DEF BringUp!Restore, ChipFlags
    <2>4. Failed' /\ ModesOwned' /\ Restored' /\ Ready' /\ BringUp!WorkerIsSafe'
        BY <1>32 DEF BringUp!Restore, StepTypes, Failed, ModesOwned, Restored, Ready,
               BringUp!WorkerIsSafe, BringUp!InputSteps, BringUp!Steps, BringUp!Ports, Loaded,
               Undone
    <2>5. Counted' /\ BringUp!CaofBounded'
        BY <1>32 DEF BringUp!Restore, Counted, BringUp!CaofBounded
    <2> QED BY <2>1, <2>2, <2>3, <2>4, <2>5
<1>33. CASE UNCHANGED BringUp!vars
    BY <1>33 DEF BringUp!vars, StepTypes, CountTypes, ChipFlags, Failed, ModesOwned, Restored,
           Ready,
        BringUp!WorkerIsSafe, Counted, BringUp!CaofBounded
<1> QED
    BY <1>1, <1>2, <1>3, <1>4, <1>5, <1>6, <1>7, <1>8, <1>9, <1>10, <1>11, <1>12, <1>13, <1>14,
           <1>15, <1>16, <1>17, <1>18, <1>19, <1>20, <1>21, <1>22, <1>23, <1>24, <1>25, <1>26,
           <1>27, <1>28, <1>29, <1>30, <1>31, <1>32, <1>33 DEF BringUp!Next, BringUp!Advance

\* The invariant of the bring-up.
THEOREM BringUpInvariant == BringUp!Spec => []BringUpInv
<1> QED BY BringUpInit, BringUpStep, PTL DEF BringUp!Spec

\* Every variable of the bring-up keeps its type.
THEOREM BringUpTypes == BringUp!Spec => []BringUp!TypeOK
<1>1. BringUpInv => BringUp!TypeOK
    <2> SUFFICES ASSUME BringUpInv PROVE BringUp!TypeOK
        OBVIOUS
    <2>1. reads \in 0 .. BringUp!MaxReads + 1
        BY ReadsLimit DEF BringUpInv, CountTypes, BringUp!CaofBounded
    <2> QED
        BY <2>1 DEF BringUpInv, StepTypes, CountTypes, ChipFlags, BringUp!TypeOK
<1> QED BY <1>1, BringUpInvariant, PTL

\* Wherever a bring-up ends, the calibration mode is left and the OCLK engine
\* closed, if the cleanup itself did not fail (gc573-it6805-core.c:971).
THEOREM ModesLeftTheorem == BringUp!Spec => []BringUp!ModesLeft
<1>1. BringUpInv => BringUp!ModesLeft
    BY DEF BringUpInv, ModesOwned, BringUp!ModesLeft, BringUp!Rest
<1> QED BY <1>1, BringUpInvariant, PTL

\* The wait for the calibration is bounded, whatever the chip answers
\* (gc573-it6805-core.c:836).
THEOREM CaofBoundedTheorem == BringUp!Spec => []BringUp!CaofBounded
<1>1. BringUpInv => BringUp!CaofBounded
    BY DEF BringUpInv
<1> QED BY <1>1, BringUpInvariant, PTL

\* A failing setup of the input path leaves HPD as it found it
\* (gc573-it6805-core.c:1864).
THEOREM HpdRestoredTheorem == BringUp!Spec => []BringUp!HpdRestored
<1>1. BringUpInv => BringUp!HpdRestored
    BY DEF BringUpInv, Restored, BringUp!HpdRestored, BringUp!Rest
<1> QED BY <1>1, BringUpInvariant, PTL

\* The worker, which raises HPD, runs on a chip with the whole EDID and with its
\* clients (gc573-it6805-core.c:4622).
THEOREM WorkerIsSafeTheorem == BringUp!Spec => []BringUp!WorkerIsSafe
<1>1. BringUpInv => BringUp!WorkerIsSafe
    BY DEF BringUpInv
<1> QED BY <1>1, BringUpInvariant, PTL

-----------------------------------------------------------------------------

\* Bring-up and banks together, for all limits and any failing access.
THEOREM BringUpSoundTheorem == CoreSpec => []BringUpSound
<1> QED
    BY BringUpTypes, ModesLeftTheorem, CaofBoundedTheorem, HpdRestoredTheorem,
       WorkerIsSafeTheorem, BankTypes, BankAgreement, AccessCorrect, PTL
       DEF CoreSpec, BringUpSound

\* Signal and audio together.
THEOREM ReportedRightTheorem == CoreSpec => []ReportedRight
<1> QED
    BY SignalCurrent, OutputTheorem, AudioTheorem, PTL DEF CoreSpec, ReportedRight
=============================================================================
