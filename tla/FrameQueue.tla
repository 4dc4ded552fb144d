----------------------------- MODULE FrameQueue -----------------------------
(***************************************************************************)
(* What the video DMA engine promises its caller about frames, with no     *)
(* channels, interrupts or work items: buffers are filled in the order     *)
(* they were queued, completions reach the callback in the order they were *)
(* filled and one at a time, a buffer whose completion was missed is       *)
(* overtaken for good, and a revocation (stop, recovery, failed start)     *)
(* takes everything back, never under a running callback.                  *)
(***************************************************************************)
EXTENDS Integers, Sequences

CONSTANTS
    Buffers,
    Nobody      \* not a buffer

VARIABLES
    waiting,   \* queued and not filled yet, oldest first
    missed,    \* filled, but the completion was never seen
    filled,    \* completed, the callback not called yet, oldest first
    serving,   \* the buffer whose callback runs, or Nobody
    closing    \* a stop or a rollback is under way

fqVars == <<waiting, missed, filled, serving, closing>>

FQInit ==
    /\ waiting = <<>> /\ missed = {} /\ filled = <<>>
    /\ serving = Nobody /\ closing = FALSE

InSequence(s) == {s[i] : i \in 1 .. Len(s)}

Held == InSequence(waiting) \cup missed \cup InSequence(filled)

Enqueue(b) ==
    /\ ~closing /\ UNCHANGED <<filled, serving, closing>>
    /\ b \notin Held
    /\ waiting' = Append(waiting, b)
    /\ UNCHANGED missed

\* The i-th waiting buffer completes; those before it will never be seen.
Fill(i) ==
    /\ filled' = Append(filled, waiting[i])
    /\ missed' = missed \cup {waiting[j] : j \in 1 .. i - 1}
    /\ waiting' = SubSeq(waiting, i + 1, Len(waiting))
    /\ UNCHANGED <<serving, closing>>

Serve ==
    /\ filled # <<>> /\ serving = Nobody /\ ~closing
    /\ serving' = Head(filled)
    /\ filled' = Tail(filled)
    /\ UNCHANGED <<waiting, missed, closing>>

\* The callback's answer: the buffer is released, or queued again.
Answer ==
    /\ serving # Nobody
    /\ serving' = Nobody
    /\ \/ UNCHANGED waiting
       \/ /\ ~closing /\ serving \notin Held
          /\ waiting' = Append(waiting, serving)
    /\ UNCHANGED <<missed, filled, closing>>

Close ==
    /\ ~closing /\ closing' = TRUE
    /\ UNCHANGED <<waiting, missed, filled, serving>>

\* While closing, a completion may be dropped without its callback.
Drop ==
    /\ closing /\ filled # <<>>
    /\ filled' = Tail(filled)
    /\ UNCHANGED <<waiting, missed, serving, closing>>

Revoke ==
    /\ serving = Nobody
    /\ waiting' = <<>> /\ missed' = {} /\ filled' = <<>>
    /\ closing' = FALSE
    /\ UNCHANGED serving

FQNext ==
    \/ \E b \in Buffers : Enqueue(b)
    \/ \E i \in 1 .. Len(waiting) : Fill(i)
    \/ Serve \/ Answer \/ Close \/ Drop \/ Revoke

FQSpec == FQInit /\ [][FQNext]_fqVars

=============================================================================
