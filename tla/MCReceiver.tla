----------------------------- MODULE MCReceiver -----------------------------
(***************************************************************************)
(* The HDMI receiver IT6805 for TLC: It6805Core, that is the signal state  *)
(* machine, also with failing accesses, its audio, bring-up and register   *)
(* banks, with the numbers read from the chip (It6805Numbers).  Each is    *)
(* explored by itself.                                                     *)
(***************************************************************************)
EXTENDS It6805Core

CONSTANTS
    hd, uhd, rgb, yuv

VARIABLE subject

\* Two clocks, two forms; the channel status of two sources is wrong.
TwoClocks ==
    { [clk |-> "44k", form |-> "stereo", honest |-> TRUE],
      [clk |-> "48k", form |-> "stereo", honest |-> FALSE],
      [clk |-> "48k", form |-> "5.1", honest |-> FALSE],
      [clk |-> "48k", form |-> "5.1", honest |-> TRUE] }

Readings ==
    {0, 28499, 28500, 31111, 38000, 47500, 47501, 65535, 2849999, 3800000,
     4750099, 4750100, 16777215} \X BOOLEAN
VideoSources ==
    {<<148500, 6000, 16>>, <<74250, 3000, 34>>, <<241500, 6000, 0>>,
     <<241500, 14400, 0>>, <<483400, 12000, 0>>, <<74250, 5994, 4>>,
     <<297000, 12000, 63>>, <<148500, 11988, 47>>}
AudioRates ==
    {32000, 44100, 48000, 64000, 88200, 96000, 128000, 176400, 192000, 256000,
     384000, 512000, 768000}
Sizes ==
    {<<320, 239>>, <<720, 240>>, <<720, 576>>, <<1440, 900>>, <<1920, 540>>,
     <<1920, 1080>>, <<1920, 2160>>, <<2560, 1440>>, <<3840, 2160>>}
Clocks ==
    {0, 25200, 88750, 95000, 106500, 148500, 150000, 150001, 297000, 594000}

\* The boundaries of the tables, with what the chip is off by.
VARIABLES
    kind, input, result
numbersVars ==
    <<kind, input, result>>
Numbers == INSTANCE It6805Numbers WITH
    Readings <- Readings, Percent <- (80 .. 92) \cup (98 .. 102),
    Sources <- VideoSources, AudioRates <- AudioRates,
    AudioPercent <- 97 .. 103, Sizes <- Sizes, Clocks <- Clocks

\* The signal without a failing access and with one: every error of the link
\* pulses HPD, or errors are counted and the second resets the logic.
Pulsing == INSTANCE It6805Signal WITH EccErrors <- 1, MaxFailures <- 0
Failing == INSTANCE It6805Signal WITH EccRecoveries <- 1

allParts == <<subject, vars, audioVars, bringupVars, bankVars, numbersVars>>

\* The component that is explored; the others rest in an initial state.
ReceiverInit ==
    /\ subject \in {"signal", "failing", "audio", "bringup", "bank", "numbers"}
    /\ Init
    /\ Audio!Init
    /\ subject # "audio" => source = Audio!Silent
    /\ BringUp!Init
    /\ subject # "bringup" => ~bringup_hpd /\ ~bringup_power
    /\ Registers!Init
    /\ subject # "bank" => hw = 0
    /\ Numbers!Init

ReceiverNext ==
    /\ UNCHANGED subject
    /\ IF subject = "signal" THEN Pulsing!Next
       ELSE IF subject = "failing" THEN Failing!Next
       ELSE UNCHANGED vars
    /\ IF subject = "audio" THEN Audio!Next ELSE UNCHANGED audioVars
    /\ IF subject = "bringup" THEN BringUp!Next ELSE UNCHANGED bringupVars
    /\ IF subject = "bank" THEN Registers!Next ELSE UNCHANGED bankVars
    /\ IF subject = "numbers" THEN Numbers!Next ELSE UNCHANGED numbersVars

ReceiverSpec ==
    /\ ReceiverInit /\ [][ReceiverNext]_allParts
    /\ WF_vars(subject = "signal" /\ Pulsing!Poll) /\ WF_vars(subject = "signal" /\ Lock)

\* Rates, clocks and colors that are read from the chip are repaired to those
\* of the source.
NumbersRight ==
    subject = "numbers" =>
        /\ Numbers!DividersFit /\ Numbers!RateRepaired /\ Numbers!VicDecides
        /\ Numbers!CodeIsStable /\ Numbers!FastIsDual /\ Numbers!HdrMatchesColors

\* A source that stays as it is ends up reported as it is, and HPD as its 5 V.
SourceReported == subject = "signal" => SignalReported /\ HpdFollows
=============================================================================
