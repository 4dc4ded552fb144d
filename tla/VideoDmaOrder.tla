---------------------------- MODULE VideoDmaOrder ----------------------------
(***************************************************************************)
(* The video DMA engine implements FrameQueue.  The waiting frames are the *)
(* active channels, oldest first, followed by the ready list.  Submission  *)
(* is strictly round robin, so the channel after last_channel is the       *)
(* oldest; a channel that is still busy although a later one has already   *)
(* come free was missed: its completion was overwritten in the status      *)
(* register, or acknowledged before the handler saw it.                    *)
(***************************************************************************)
EXTENDS VideoDma

\* The buffers on the channels, oldest submission first, with the gaps.
Ring == [i \in 1 .. NChannels |-> active[Slot(i)]]

\* The place of the last free channel in the ring, 0 if every one is busy.
LastGap ==
    LET ring == Ring
    IN  CHOOSE g \in 0 .. NChannels :
            /\ g = 0 \/ ring[g] = NoBuf
            /\ \A i \in g + 1 .. NChannels : ring[i] # NoBuf

InFlight == SubSeq(Ring, LastGap + 1, NChannels)

MissedBuffers == {Ring[i] : i \in 1 .. LastGap} \ {NoBuf}

Queue0 == INSTANCE FrameQueue WITH
    Nobody  <- NoBuf,
    waiting <- InFlight \o ready,
    missed  <- MissedBuffers,
    filled  <- done,
    serving <- workBuf,
    closing <- stopping

\* Frames are completed in the order they were queued and delivered one at a
\* time in the order they were completed; a missed frame never turns up later
\* in the same stream; nothing is taken back under a running callback.
FramesInOrder == Queue0!FQSpec

=============================================================================
