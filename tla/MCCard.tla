------------------------------- MODULE MCCard -------------------------------
(***************************************************************************)
(* The card for TLC: the parts of CardCore and the memory of the frames    *)
(* (FrameMemory).  Each is explored by itself.                             *)
(***************************************************************************)
EXTENDS CardCore, SequencesExt

CONSTANT w1

VARIABLE subject

\* What the receiver and splitter drivers send: a write, a read of a subaddress,
\* two writes; and lists that must be refused.
Message(rd, len) == [rd |-> rd, len |-> len, addr |-> 1, ok |-> TRUE]
MCRequests ==
    { <<Message(FALSE, 2)>>, <<Message(FALSE, 1), Message(TRUE, 1)>>,
      <<Message(FALSE, 2), Message(FALSE, 1)>>,
      <<Message(FALSE, 257)>>, <<Message(FALSE, 2), Message(FALSE, 2)>> }

\* Widths around the four pixels of a clock, and those of the modes.
PhaseWidths ==
    {1, 2, 3, 5, 6, 7, 8, 640, 720, 800, 1024, 1280, 1360, 1440, 1680, 1920,
     2560, 2880, 3440, 3840, 4095, 4096}

Ramp(first, step) == [k \in 0 .. 15 |-> (first + step * k) % 4096]
FrameSamples == {Ramp(a, b) : a \in {0, 4095, 1365}, b \in {273, 1911}}
FrameScatters ==
    {s \in UNION {[1 .. n -> {4, 8, 16, 24, 40, 48}] : n \in 1 .. 4} :
        FoldSeq(+, 0, s) \in {40, 48}}

\* RGB in two colorimetries at two rates, with a suspend.
Streamer == INSTANCE Fpga WITH
    Transports <- {"limited"}, Formats <- {"yuyv"}, MaxSleeps <- MaxFpgaSleeps,
    sleeps <- fpga_sleeps
\* Every encoding of the source and of the frames, at one rate, the controls left alone.
Encodings == INSTANCE Fpga WITH
    Rates <- {60}, MaxSleeps <- 0, sleeps <- fpga_sleeps

\* A frame of 8 by 2, in all ways it may be scattered over four segments.
VARIABLES
    sg, plane, memory_index, skip, remaining, table, count, data, luma, next,
    memory_pc
memoryVars ==
    <<sg, plane, memory_index, skip, remaining, table, count, data, luma, next,
      memory_pc>>
Memory == INSTANCE FrameMemory WITH
    Width <- 8, Height <- 2, Scatters <- FrameScatters,
    Samples <- FrameSamples, MaxDescriptors <- 2, index <- memory_index,
    picture <- luma, pc <- memory_pc

allParts ==
    <<subject, vars, driverVars, ledVars, fpgaVars, scalerVars, memoryVars>>

\* The component that is explored; the others rest in an initial state.
CardInit ==
    /\ subject \in {"i2c", "driver", "led", "stream", "encodings", "scaler",
                    "memory"}
    /\ Init
    /\ Driver!Init
    /\ Leds!Init
    /\ IF subject = "encodings" THEN Encodings!Init ELSE Streamer!Init
    /\ subject \notin {"stream", "encodings"} =>
           source = [transport |-> "limited", color |-> "bt709", rate |-> 60]
    /\ Scaler!Init
    /\ subject # "scaler" => width = 1
    /\ Memory!Init
    /\ subject # "memory" => sg = <<48>> /\ luma = Ramp(0, 273)

CardNext ==
    /\ UNCHANGED subject
    /\ IF subject = "i2c" THEN Next ELSE UNCHANGED vars
    /\ IF subject = "driver" THEN Driver!Next ELSE UNCHANGED driverVars
    /\ IF subject = "led" THEN Leds!Next ELSE UNCHANGED ledVars
    /\ IF subject = "stream" THEN Streamer!Next
       ELSE IF subject = "encodings" THEN Encodings!Next /\ UNCHANGED picture
       ELSE UNCHANGED fpgaVars
    /\ IF subject = "scaler" THEN Scaler!Next ELSE UNCHANGED scalerVars
    /\ IF subject = "memory" THEN Memory!Next ELSE UNCHANGED memoryVars

CardSpec == CardInit /\ [][CardNext]_allParts

\* What the memory of a frame promises: the descriptors cover the buffer however
\* it is scattered, and each sample is unpacked before it is overwritten.
FramesWhole ==
    subject = "memory" => Memory!TableCoversSpan /\ Memory!TableBounded /\ Memory!FrameDecoded
=============================================================================
