------------------------------ MODULE MCAudio ------------------------------
(***************************************************************************)
(* The audio path for TLC: the DMA engines (AudioDma), the PCM devices on  *)
(* top of AudioEngine (AudioCapture), and the ring the applications read   *)
(* (PcmRing).  Each is explored by itself; subject says which one, and the *)
(* others rest in their initial state.                                     *)
(***************************************************************************)
EXTENDS AudioDma, AudioCapture, PcmRing, TLC

CONSTANTS hdmi, line, captured, f1, f2, none

VARIABLE subject

allVars == <<subject, vars, acVars, sampleVars>>

\* The two engines are alike.
Symm == Permutations(Streams)

AudioInit ==
    /\ subject \in {"engines", "capture", "ring"}
    /\ Init /\ CaptureInit /\ RingInit
    /\ subject # "capture" => rt = [s \in Pcms |-> f1]

AudioNext ==
    /\ UNCHANGED subject
    /\ \/ subject = "engines" /\ Next /\ UNCHANGED <<acVars, sampleVars>>
       \/ subject = "capture" /\ CaptureNext /\ UNCHANGED <<vars, sampleVars>>
       \/ subject = "ring" /\ RingNext /\ UNCHANGED <<vars, acVars>>

AudioSpec == AudioInit /\ [][AudioNext]_allVars
=============================================================================
