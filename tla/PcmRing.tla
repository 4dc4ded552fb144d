------------------------------ MODULE PcmRing ------------------------------
(***************************************************************************)
(* How gc555_audio_receive (gc573-audio.c) fills the ring buffer of a PCM  *)
(* from the completed DMA buffers: the copy in two pieces, the reordering  *)
(* of surround channels, and the periods it reports.  Positions count      *)
(* frames; a sample is the pair of its frame's number and its HDMI slot.   *)
(***************************************************************************)
EXTENDS Integers, FiniteSetsExt

CONSTANTS
    BufferSize,     \* runtime->buffer_size
    PeriodSize,     \* runtime->period_size
    Channels,       \* runtime->channels: 2, 6 or 8
    Chunks,         \* frames a DMA buffer may hold
    MaxFrames       \* bound on the frames received

ASSUME SamplesAssumption ==
    /\ BufferSize \in Nat \ {0} /\ PeriodSize \in Nat \ {0}
    /\ Channels \in {2, 6, 8} /\ Chunks \subseteq Nat /\ MaxFrames \in Nat

VARIABLES area, hw_ptr, period_progress, received, elapsed, overrun

sampleVars == <<area, hw_ptr, period_progress, received, elapsed, overrun>>

\* gc555_audio_7_1_alsa_from_hdmi and gc555_audio_5_1_alsa_from_hdmi
Slots8 == <<0, 1, 2, 3, 6, 7, 4, 5>>
Slots6 == <<0, 1, 4, 5, 2, 3>>

\* The slot of an HDMI frame that channel c is taken from.
Slot(c) ==
    IF Channels = 2 THEN c ELSE IF Channels = 6 THEN Slots6[c + 1]
    ELSE Slots8[c + 1]

\* The samples of the ring, each at its place.
Samples == 0 .. BufferSize * Channels - 1

Silence == <<0, 0>>

RingInit ==
    /\ area = [i \in Samples |-> Silence]
    /\ hw_ptr = 0 /\ period_progress = 0
    /\ received = 0 /\ elapsed = 0 /\ overrun = FALSE

\* gc555_audio_copy_frames: n frames, the first one number first, to position
\* pos.
CopyFrames(a, pos, first, n) ==
    [i \in Samples |->
        LET f == i \div Channels IN
        IF f \in pos .. pos + n - 1
        THEN <<first + (f - pos), Slot(i % Channels)>> ELSE a[i]]

\* Mutant: the second piece starts with the first frame again.
CopyRing_Repeats(n) ==
    LET head == Min({n, BufferSize - hw_ptr})
        once == CopyFrames(area, hw_ptr, received + 1, head)
    IN  IF head < n THEN CopyFrames(once, 0, received + 1, n - head) ELSE once

\* The ring with n more frames: up to its end, and the rest at its start.
CopyRing(n) ==
    LET head == Min({n, BufferSize - hw_ptr})
        once == CopyFrames(area, hw_ptr, received + 1, head)
    IN  IF head < n
        THEN CopyFrames(once, 0, received + head + 1, n - head) ELSE once

\* The position, and one report for every period that ended.
Advance(n) ==
    /\ hw_ptr' = (hw_ptr + n) % BufferSize
    /\ elapsed' = elapsed + (period_progress + n) \div PeriodSize
    /\ period_progress' = (period_progress + n) % PeriodSize

\* A DMA buffer of n frames; one that exceeds the ring is dropped.
RingReceive(n) ==
    /\ received + n <= MaxFrames
    /\ IF n > BufferSize
       THEN overrun' = TRUE
            /\ UNCHANGED <<area, hw_ptr, period_progress, received, elapsed>>
       ELSE /\ area' = CopyRing(n) /\ Advance(n)
            /\ received' = received + n /\ UNCHANGED overrun

\* gc555_audio_pcm_prepare starts over.
RingPrepare ==
    /\ hw_ptr' = 0 /\ period_progress' = 0
    /\ received' = 0 /\ elapsed' = 0 /\ overrun' = FALSE
    /\ area' = [i \in Samples |-> Silence]

RingNext == RingPrepare \/ \E n \in Chunks : RingReceive(n)

RingSpec == RingInit /\ [][RingNext]_sampleVars

\* Positions stay inside ring and period.
RingTypeOK ==
    /\ hw_ptr \in 0 .. BufferSize - 1
    /\ period_progress \in 0 .. PeriodSize - 1
    /\ received \in Nat /\ elapsed \in Nat /\ overrun \in BOOLEAN

\* gc555_audio_pcm_pointer and the reports agree with what was received: no
\* period is reported twice, early or not at all, however the DMA buffers cut
\* the stream.
PositionsAgree ==
    /\ hw_ptr = received % BufferSize
    /\ elapsed * PeriodSize + period_progress = received

\* A reader that keeps up finds every frame of the last buffer_size at its
\* place, in the channel order of ALSA.
RingHoldsStream ==
    LET Order == IF Channels = 2 THEN <<0, 1>>
                 ELSE IF Channels = 6 THEN <<0, 1, 4, 5, 2, 3>>
                 ELSE <<0, 1, 2, 3, 6, 7, 4, 5>>
    IN  \A f \in 1 .. received : f + BufferSize > received =>
            \A c \in 0 .. Channels - 1 :
                area[((f - 1) % BufferSize) * Channels + c]
                    = <<f, Order[c + 1]>>

\* Positions and reports agree with what was received, and a reader that keeps
\* up finds every sample in place.
RingSound == RingTypeOK /\ PositionsAgree /\ RingHoldsStream
=============================================================================
