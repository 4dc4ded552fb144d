----------------------------- MODULE It6805Core -----------------------------
(***************************************************************************)
(* The IT6805 driver: the video state machine (It6805Signal) and the audio *)
(* of the input (It6805Audio), on a chip that is brought up                *)
(* (It6805Bringup) through banked registers (It6805Bank).  They share      *)
(* io_lock, under which a bank is selected and accessed, and the accesses  *)
(* that may fail; no other state.                                          *)
(***************************************************************************)
EXTENDS It6805Signal

\* Audio, with a source of its own.
CONSTANTS
    AudioSources,               \* set of [clk, form, honest]
    RequestDelay, MonitorDelay, MismatchLimit,
    AudioChanges, AudioFailures \* bounds

ASSUME AudioAssumption ==
    /\ RequestDelay \in Nat /\ MonitorDelay \in Nat /\ MismatchLimit \in Nat \ {0}
    /\ AudioChanges \in Nat /\ AudioFailures \in Nat

VARIABLES
    source, audio_irq, video, open, forced, state, clk, rate, form,
    format_valid, refresh_pending, change_pending, request_delay,
    monitor_delay, mismatches, reported, audio_pc, audio_seen, wrong,
    audio_changes, audio_failures
audioVars ==
    <<source, audio_irq, video, open, forced, state, clk, rate, form,
      format_valid, refresh_pending, change_pending, request_delay,
      monitor_delay, mismatches, reported, audio_pc, audio_seen, wrong,
      audio_changes, audio_failures>>
Audio == INSTANCE It6805Audio WITH
    Sources <- AudioSources, MaxChanges <- AudioChanges,
    MaxFailures <- AudioFailures, irq <- audio_irq, pc <- audio_pc,
    seen <- audio_seen, changes <- audio_changes, failures <- audio_failures

\* The bring-up, with limits of its own on failing accesses and suspends.
CONSTANTS
    PulseAfter, MaxRestarts,    \* IT6805_CAOF_PULSE_AFTER_POLLS, _MAX_RESTARTS
    MaxPolls,                   \* IT6805_OCLK_MAX_POLLS
    BringupFailures, MaxSleeps  \* bounds

ASSUME BringupAssumption ==
    /\ PulseAfter \in Nat \ {0} /\ MaxRestarts \in Nat /\ MaxPolls \in Nat
    /\ BringupFailures \in Nat /\ MaxSleeps \in Nat

VARIABLES
    calibrating, retried, oclk, edid, bringup_hpd, bringup_power, done,
    restarts, polls, reads, status_polls, clients, published, worker,
    bringup_pc, failing, before, resuming, bringup_failures, sleeps
bringupVars ==
    <<calibrating, retried, oclk, edid, bringup_hpd, bringup_power, done,
      restarts, polls, reads, status_polls, clients, published, worker,
      bringup_pc, failing, before, resuming, bringup_failures, sleeps>>
BringUp == INSTANCE It6805Bringup WITH
    MaxFailures <- BringupFailures, hpd <- bringup_hpd, power <- bringup_power,
    pc <- bringup_pc, failures <- bringup_failures

\* The registers; the driver starts in bank 0, one of those it uses.
CONSTANTS
    RegisterBanks,
    BankFailures    \* bound

ASSUME BankAssumption == 0 \in RegisterBanks /\ BankFailures \in Nat

VARIABLES
    hw, bank, bank_valid, bank_pc, want, asleep, bank_failures
bankVars ==
    <<hw, bank, bank_valid, bank_pc, want, asleep, bank_failures>>
Registers == INSTANCE It6805Bank WITH
    Banks <- RegisterBanks, MaxFailures <- BankFailures, pc <- bank_pc,
    failures <- bank_failures

\* All of it.
CoreSpec == Spec /\ Audio!Spec /\ BringUp!Spec /\ Registers!Spec

\* What is reported is right.  The output is set up for the timings and colors
\* reported with it and mute is noticed, whichever accesses fail; while none
\* did, a signal reported between polls is the one on the input, unless a flag
\* is pending.  Audio leaves the chip only when it is served, and a wrong
\* format is brief (gc573-it6805-core.c:3893, :2860, :3270).
ReportedRight ==
    /\ TypeOK /\ OutputMatches /\ MuteNoticed
    /\ SlowSource /\ failures = 0 => ReportedIsCurrent
    /\ Audio!TypeOK /\ Audio!SilentUnlessOn
    /\ audio_failures = 0 => Audio!WrongIsBrief

\* A bring-up that fails anywhere leaves the calibration, restores HPD and
\* starts no worker; and registers are accessed in the bank they are meant in,
\* whatever access failed before (gc573-it6805-core.c:971, :1864, :568).
BringUpSound ==
    /\ BringUp!TypeOK /\ BringUp!ModesLeft /\ BringUp!CaofBounded
    /\ BringUp!HpdRestored /\ BringUp!WorkerIsSafe
    /\ Registers!TypeOK /\ Registers!BankAgrees /\ Registers!AccessInBank
=============================================================================
