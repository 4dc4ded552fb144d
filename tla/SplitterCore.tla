---------------------------- MODULE SplitterCore ----------------------------
(***************************************************************************)
(* The HDMI splitter IT6664: its receiver (SplitterRx) with its hot plug   *)
(* and the EDID it publishes (Splitter).  One delayed work polls both, the *)
(* receiver first; they share the lock of the driver and no other state.   *)
(***************************************************************************)
EXTENDS SplitterRx

\* Hot plug, with limits of its own.
CONSTANTS
    Displays, Unmergeable, Merging, NoEdid, Torn, Card, Merge(_),
    QuickPins,                         \* pins move while their events are being handled
    MaxEvents, OutputFails, MaxSleeps  \* bounds

ASSUME EdidAssumption ==
    /\ NoEdid \notin Displays /\ NoEdid # Card /\ \A d \in Displays : Merge(d) # NoEdid
    /\ Merging \subseteq BOOLEAN
ASSUME OutputsAssumption ==
    QuickPins \in BOOLEAN /\ MaxEvents \in Nat /\ OutputFails \in Nat /\ MaxSleeps \in Nat

VARIABLES
    source, pin1, display, sense, outputs_latch, rxLatch, swLatch, hpd, ram,
    rt, input, merging, outputs_pc, pub, enabled, events, outputs_fails,
    sleeps
outputsVars ==
    <<source, pin1, display, sense, outputs_latch, rxLatch, swLatch, hpd, ram,
      rt, input, merging, outputs_pc, pub, enabled, events, outputs_fails,
      sleeps>>
Outputs == INSTANCE Splitter WITH
    Quick <- QuickPins, MaxFails <- OutputFails, latch <- outputs_latch,
    pc <- outputs_pc, fails <- outputs_fails

\* Both halves of the work.
WholeSpec == Spec /\ Outputs!Spec

\* What the driver believes agrees with the chip, whichever calls fail: a lock
\* is one the bridge knows, an equalizer that runs is the one waited for, and
\* EDID and display reported are those shown, the display only if it stays while
\* its events are being handled: one that left and came back between two reads is
\* taken for the old one (gc573-it6664-core.c:1426, :1185, :3812, gc573-it6664-tx.c:1098).
SplitterSound ==
    /\ TypeOK /\ LockTold /\ EngineKnown
    /\ Outputs!TypeOK /\ Outputs!ReportedShown
    /\ ~QuickPins => Outputs!SinkCurrent
=============================================================================
