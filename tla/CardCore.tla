------------------------------ MODULE CardCore ------------------------------
(***************************************************************************)
(* The parts of the card that are neither DMA nor HDMI: the I2C bridge     *)
(* (I2c), the life cycle of the driver (LifeCycle), the LEDs (Led) and the *)
(* video processor (Fpga) with its scaler (FpgaPhases).  They meet in who  *)
(* may call whom when, which is LifeCycle's; the others keep their own     *)
(* promises at their own pace.                                             *)
(***************************************************************************)
EXTENDS I2c

CONSTANTS MaxSuspends   \* bound on suspends

ASSUME DriverAssumption == MaxSuspends \in Nat

VARIABLES
    pm, todo, up, work, uses, file, file_uses, driver_irq, irq_uses, callback,
    driver_ready, routing, regs, master, present, sleeps
driverVars ==
    <<pm, todo, up, work, uses, file, file_uses, driver_irq, irq_uses,
      callback, driver_ready, routing, regs, master, present, sleeps>>
Driver == INSTANCE LifeCycle WITH
    MaxSleeps <- MaxSuspends, irq <- driver_irq, ready <- driver_ready

CONSTANTS
    Board, Writers, LedModes,
    MaxBrightness,
    MaxLedFailures, MaxLedSleeps    \* bounds

VARIABLES
    led_lock, wpc, arg, setter, sees_running, led_work, led_pending, led_pm,
    going, led_file, client, running, mode, pwm, shown, enable, color, gpio9,
    settings, failures, led_sleeps
ledVars ==
    <<led_lock, wpc, arg, setter, sees_running, led_work, led_pending, led_pm,
      going, led_file, client, running, mode, pwm, shown, enable, color, gpio9,
      settings, failures, led_sleeps>>
Leds == INSTANCE Led WITH
    Modes <- LedModes, MaxFailures <- MaxLedFailures, MaxSleeps <- MaxLedSleeps, lock <- led_lock,
    work <- led_work, pending <- led_pending, pm <- led_pm, file <- led_file,
    sleeps <- led_sleeps

\* 0 turns the lights off; a writer is none of the other threads.
ASSUME LedAssumption ==
    /\ 0 \in LedModes /\ MaxBrightness \in Nat /\ MaxLedFailures \in Nat /\ MaxLedSleeps \in Nat
    /\ Writers \cap {"none", "setter", "work", "pm"} = {}

CONSTANTS
    Transports, Colors, Rates, Formats, Controls,
    MaxFpgaSleeps   \* bound on suspends

ASSUME ProcessorAssumption == MaxFpgaSleeps \in Nat

VARIABLES
    hw, configured, picture, source, stream, format, phase, sampled, seen,
    programmed, card, fpga_sleeps
fpgaVars ==
    <<hw, configured, picture, source, stream, format, phase, sampled, seen,
      programmed, card, fpga_sleeps>>
Processor == INSTANCE Fpga WITH
    MaxSleeps <- MaxFpgaSleeps, sleeps <- fpga_sleeps

CONSTANT Widths     \* of the pictures that are scaled

ASSUME ScalerAssumption == Widths \subseteq Nat

VARIABLES
    width, entry, accumulator, lane, pixel, word
scalerVars ==
    <<width, entry, accumulator, lane, pixel, word>>
Scaler == INSTANCE FpgaPhases

\* Each part at its own pace.
PartsSpec == Spec /\ Driver!Spec /\ Leds!Spec /\ Processor!Spec /\ Scaler!Spec

\* What the color path, the scaler and the output of the video processor promise:
\* frames flow for a stream only, with the controls last set, in the colors of the
\* source as it is now, with nothing left of an earlier path, and each pixel of a
\* line passes once (gc573-fpga.c:485).
ProcessorSound ==
    /\ Processor!TypeOK /\ Processor!OutputOwned /\ Processor!PictureCurrent
    /\ Processor!PathFresh /\ Processor!ColorsFollow
    /\ Scaler!FieldsFit /\ Scaler!PixelsPass

\* One thread at a time writes led_mode.
OneWriter == \A v, w \in Writers : v = w

\* What the driver promises through probe, suspend, resume and removal, whatever
\* fails: nobody uses a part that is freed, nothing stays behind, nothing runs
\* while the card sleeps, and the LEDs show what was asked for last.
DriverSound ==
    /\ Driver!TypeOK /\ Driver!RoutedLast /\ Driver!CalleesAlive
    /\ Driver!NothingLeft /\ Driver!QuietAsleep
    /\ Leds!TypeOK /\ Leds!BrightnessDue /\ Leds!QuietWhenStopped
    /\ OneWriter => Leds!ColorIsMode /\ Leds!StoppedWhileProgrammed
=============================================================================
