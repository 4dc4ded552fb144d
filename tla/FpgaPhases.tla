----------------------------- MODULE FpgaPhases -----------------------------
(***************************************************************************)
(* The phase table of the horizontal scaler (gc573-fpga.c): one entry of   *)
(* 40 bits for every four pixels, computed by an accumulator of 16.16 bits *)
(* and a running lane.  Only pictures of the size of the source are        *)
(* configured, so that the table must pass every pixel on, once and as it  *)
(* is.  One step computes one entry.                                       *)
(***************************************************************************)
EXTENDS Integers

CONSTANT Widths     \* widths of the pictures

PixelsPerClock == 4
MaxWidth == 4096
Phases == 64
One == 65536        \* a pixel, in the accumulator

VARIABLES
    width, entry,
    accumulator, lane, pixel,   \* carried from one entry to the next
    word                        \* the four lanes of the entry just computed
vars == <<width, entry, accumulator, lane, pixel, word>>

State == [acc |-> accumulator, lane |-> lane, pixel |-> pixel]

\* What an entry holds of a lane
Field(acc, source, valid) ==
    [phase |-> (acc \div 1024) % Phases, lane |-> source, valid |-> IF valid THEN 1 ELSE 0]

\* The lane after one that took its field from the given source, with the given rest
Taken(s, rest, source, valid) ==
    [acc |-> IF valid THEN rest + One ELSE rest, lane |-> source,
     pixel |-> IF valid THEN s.pixel + 1 ELSE s.pixel, field |-> Field(s.acc, source, valid)]

\* One lane. Mutant: the accumulator keeps growing.
Lane_NoCarry(s) == Taken(s, s.acc, s.lane, s.pixel < width)

\* A whole pixel in the accumulator moves the lane on to the next source pixel.
Whole(s) == s.acc \div One >= 1
Rest(s) == IF Whole(s) THEN s.acc - One ELSE s.acc
Source(s) == IF Whole(s) THEN s.lane + 1 ELSE s.lane

\* One lane: what is left is below one, so that an output pixel follows while there
\* are any.
Lane(s) == Taken(s, Rest(s), Source(s), Rest(s) \div One = 0 /\ s.pixel < width)

\* The lane at the end of an entry
Wrapped(l) == IF l >= PixelsPerClock THEN l % PixelsPerClock ELSE l

ActiveEntries == (width + PixelsPerClock - 1) \div PixelsPerClock

\* gc555_fpga_build_phase_word
Build ==
    LET s1 == Lane(State)  s2 == Lane(s1)  s3 == Lane(s2)  s4 == Lane(s3) IN
    /\ word' = <<s1.field, s2.field, s3.field, s4.field>>
    /\ accumulator' = s4.acc /\ lane' = Wrapped(s4.lane) /\ pixel' = s4.pixel

\* gc555_fpga_program_horizontal_phases
Next ==
    /\ entry < MaxWidth \div PixelsPerClock
    /\ entry' = entry + 1 /\ UNCHANGED width
    /\ IF entry < ActiveEntries THEN Build
       ELSE word' = <<>> /\ UNCHANGED <<accumulator, lane, pixel>>

Init ==
    /\ width \in Widths /\ entry = 0
    /\ accumulator = 0 /\ lane = 0 /\ pixel = 0 /\ word = <<>>

Spec == Init /\ [][Next]_vars

-----------------------------------------------------------------------------
(* Properties                                                               *)

\* Each part of an entry stays in its bits, so that no lane reads as another phase
\* or as valid: six bits of phase, three of lane.
FieldsFit == \A i \in DOMAIN word : word[i].phase < Phases /\ word[i].lane < 8

\* The table takes the pixels of the source one after the other, each once and
\* unfiltered, exactly as many as the picture is wide.
PixelsPass ==
    /\ \A i \in DOMAIN word :
        LET n == (entry - 1) * PixelsPerClock + i - 1 IN
        /\ word[i].valid = 1 <=> n < width
        /\ word[i].valid = 1 => word[i].phase = 0 /\ word[i].lane % PixelsPerClock = n % PixelsPerClock
    /\ entry >= ActiveEntries => pixel = width
=============================================================================
