---------------------------- MODULE AudioEngine ----------------------------
(***************************************************************************)
(* What the audio DMA engines (gc573-dma.c) promise the ALSA layer: a data *)
(* callback runs only for a stream that was started, one at a time, and a  *)
(* stop returns only when no callback runs any more.                       *)
(***************************************************************************)
CONSTANT Pcms        \* HDMI audio and line-in

VARIABLES
    gate,       \* "shut", "open", or "closing": a stop is under way
    serving     \* a callback of the stream is running

aeVars == <<gate, serving>>

AEInit ==
    /\ gate = [s \in Pcms |-> "shut"]
    /\ serving = [s \in Pcms |-> FALSE]

\* A start succeeds.
Open(s) ==
    /\ gate[s] = "shut"
    /\ gate' = [gate EXCEPT ![s] = "open"]
    /\ UNCHANGED serving

\* A callback is begun ...
Serve(s) ==
    /\ gate[s] = "open" /\ ~serving[s]
    /\ serving' = [serving EXCEPT ![s] = TRUE]
    /\ UNCHANGED gate

\* ... and ends.
Answer(s) ==
    /\ serving[s]
    /\ serving' = [serving EXCEPT ![s] = FALSE]
    /\ UNCHANGED gate

\* A stop, or the rollback of a start, which may not have opened anything.
Close(s) ==
    /\ gate[s] # "closing"
    /\ gate' = [gate EXCEPT ![s] = "closing"]
    /\ UNCHANGED serving

Closed(s) ==
    /\ gate[s] = "closing" /\ ~serving[s]
    /\ gate' = [gate EXCEPT ![s] = "shut"]
    /\ UNCHANGED serving

AENext == \E s \in Pcms :
    Open(s) \/ Serve(s) \/ Answer(s) \/ Close(s) \/ Closed(s)

AESpec == AEInit /\ [][AENext]_aeVars
=============================================================================
