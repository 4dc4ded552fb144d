--------------------------- MODULE EverLiveProofs ---------------------------
(***************************************************************************)
(* The programs of EverLive, for every set of modes and process ids and    *)
(* any number of changes of the source, clicks, timers, keys, signals and  *)
(* ends of children.                                                       *)
(*                                                                         *)
(* Capture: what is stored has the size of buffers and texture, and the    *)
(* FPGA runs at the stream's rate.  The format of the device stays what    *)
(* the display was told, since the timings it set keep it from following   *)
(* the signal, and after that the buffers do.                              *)
(*                                                                         *)
(* Audio: no pipeline outlives the display engine and there are never two. *)
(* Every child that runs is named somewhere: by g_audio_pid, by the value  *)
(* fork returned before it is assigned, or by the local pid of one of the  *)
(* two stop_audio_pipeline that may be in progress; and all that is named  *)
(* is one child, since none is forked after g_running was cleared.         *)
(*                                                                         *)
(* Hub: one display engine at most, of the preset that is shown, and none  *)
(* left when the hub has ended. The last needs that no Ctrl+C arrives      *)
(* while the child is started, which is what the code does not have.       *)
(***************************************************************************)
EXTENDS EverLive, TLAPS, FiniteSetTheorems

-----------------------------------------------------------------------------
(* The capture device and the display on it                                  *)

\* The types, of signals and places, and of flags.
DataTypes ==
    /\ signal \in Signals \cup {NoSignal} /\ changes \in 0 .. MaxChanges
    /\ cached \in Signals /\ stream \in Signals /\ fpga \in Signals
    /\ pix \in Modes /\ format \in Formats /\ lock \in {"free", "mon", "app", "pm"}
    /\ mPc \in {"idle", "lock", "adapt", "rate", "color", "path", "report"}
    /\ mSig \in Signals \cup {NoSignal}
    /\ cPc \in {"idle", "adapt", "rate", "arm", "publish"}
    /\ cCur \in Signals /\ cStr \in Signals
    /\ power \in {"on", "asleep", "freed"}
    /\ pPc \in {"idle", "cancel", "flush", "lock", "stop", "put"}
FlagTypes ==
    /\ signal_valid \in BOOLEAN /\ explicit \in BOOLEAN
    /\ starting \in BOOLEAN /\ streaming \in BOOLEAN /\ engine \in BOOLEAN
    /\ detaching \in BOOLEAN /\ overtaken \in BOOLEAN /\ rearmed \in BOOLEAN
    /\ busy \in BOOLEAN /\ vb \in BOOLEAN /\ event \in BOOLEAN
    /\ armed \in BOOLEAN /\ mChanged \in BOOLEAN

\* What was sampled with a signal, and who holds video->lock.
Sampled == mPc \in {"adapt", "rate", "color", "path"} => mSig # NoSignal
Held ==
    /\ starting => lock = "app"
    /\ pPc = "stop" <=> lock = "pm"
    /\ mPc \in {"adapt", "rate", "color", "path", "report"} => lock = "mon"

\* From the moment a start is marked the format is that of the stream.
Fit ==
    starting \/ vb =>
        busy /\ pix = stream.mode /\ fpga.mode = stream.mode /\ Supports(format, pix)

\* The rate is programmed, or about to be.
Programmed == fpga.rate # stream.rate => mPc = "rate" \/ cPc = "rate" \/ overtaken

\* What suspend and removal leave behind, step by step.
Asleep ==
    /\ power # "on" => pPc = "idle"
    /\ power # "on" \/ pPc = "put" => ~engine
    /\ power # "on" \/ pPc \in {"stop", "put"} => ~starting
    /\ pPc = "flush" => ~armed
    /\ power # "on" \/ pPc \in {"lock", "stop", "put"} => rearmed \/ (~armed /\ mPc = "idle")

SignalInv ==
    /\ DataTypes /\ FlagTypes /\ Sampled /\ Held /\ Fit /\ Programmed /\ Asleep /\ StoppedStill

\* A signal has a mode.
LEMMA ModeOf == \A s \in Signals : s.mode \in Modes
BY DEF Signals

\* The source changes.
LEMMA SourceKeeps ==
    ASSUME SignalInv,
           (\E s \in Signals \cup {NoSignal} : Retune(s))
    PROVE  SignalInv'
<1> USE DEF SignalInv, srcVars, sigVars, fmtVars, runVars, vbVars, monVars, cbVars,
           pmVars, hisVars
<1>1. CASE \E s \in Signals \cup {NoSignal} : Retune(s)
    <2>1. PICK s \in Signals \cup {NoSignal} : Retune(s)
        BY <1>1
    <2>2. DataTypes' /\ FlagTypes'
        BY <2>1, ChangesAssumption DEF Retune, DataTypes, FlagTypes
    <2>3. Sampled' /\ Held' /\ Fit' /\ Programmed'
        BY <2>1 DEF Retune, Sampled, Held, DataTypes, Fit, Signals, Supports, Programmed
    <2>4. Asleep' /\ StoppedStill'
        BY <2>1 DEF Retune, Asleep, Held, StoppedStill
    <2> QED BY <2>2, <2>3, <2>4
<1> QED BY <1>1

\* The monitor samples the signal and adapts the stream to it.
LEMMA MonitorKeeps ==
    ASSUME SignalInv,
           \/ MonitorRead \/ MonitorCache \/ MonitorAdapt \/ MonitorRate \/ MonitorColor
           \/ MonitorPath \/ MonitorReport
    PROVE  SignalInv'
<1> USE DEF SignalInv, srcVars, sigVars, fmtVars, runVars, vbVars, monVars, cbVars,
           pmVars, hisVars
<1>1. CASE MonitorRead
    <2>1. DataTypes'
        BY <1>1 DEF MonitorRead, DataTypes
    <2>2. FlagTypes'
        BY <1>1 DEF MonitorRead, FlagTypes
    <2>3. Sampled' /\ Held' /\ Fit' /\ Programmed'
        BY <1>1 DEF MonitorRead, Sampled, Held, DataTypes, Fit, Signals, Supports, Programmed
    <2>4. Asleep' /\ StoppedStill'
        BY <1>1 DEF MonitorRead, Asleep, Held, StoppedStill
    <2> QED BY <2>1, <2>2, <2>3, <2>4
<1>2. CASE MonitorCache
    <2>1. DataTypes' /\ FlagTypes'
        BY <1>2, ModeOf DEF MonitorCache, UpdateFormat, DataTypes, Formats, FlagTypes
    <2>2. Sampled' /\ Held' /\ Fit' /\ Programmed'
        BY <1>2 DEF MonitorCache, UpdateFormat, Sampled, Held, DataTypes, Fit, Signals, Supports,
               Programmed
    <2>3. Asleep' /\ StoppedStill'
        BY <1>2 DEF MonitorCache, UpdateFormat, Asleep, Held, StoppedStill
    <2> QED BY <2>1, <2>2, <2>3
<1>3. CASE MonitorAdapt
    <2>1. DataTypes' /\ FlagTypes'
        BY <1>3 DEF MonitorAdapt, DataTypes, Sampled, Signals, FlagTypes
    <2>2. Sampled' /\ Held' /\ Fit' /\ Programmed'
        BY <1>3 DEF MonitorAdapt, Sampled, Held, DataTypes, Fit, Signals, Supports, Programmed
    <2>3. Asleep' /\ StoppedStill'
        BY <1>3 DEF MonitorAdapt, Asleep, Held, StoppedStill
    <2> QED BY <2>1, <2>2, <2>3
<1>4. CASE MonitorRate
    <2>1. DataTypes' /\ FlagTypes'
        BY <1>4 DEF MonitorRate, DataTypes, Sampled, Signals, FlagTypes
    <2>2. Sampled' /\ Held' /\ Fit' /\ Programmed'
        BY <1>4 DEF MonitorRate, Sampled, Held, DataTypes, Fit, Signals, Supports, Programmed
    <2>3. Asleep' /\ StoppedStill'
        BY <1>4 DEF MonitorRate, Asleep, Held, StoppedStill
    <2> QED BY <2>1, <2>2, <2>3
<1>5. CASE MonitorColor
    <2>1. DataTypes' /\ FlagTypes'
        BY <1>5 DEF MonitorColor, DataTypes, Sampled, Signals, FlagTypes
    <2>2. Sampled' /\ Held' /\ Fit' /\ Programmed'
        BY <1>5 DEF MonitorColor, Sampled, Held, DataTypes, Fit, Signals, Supports, Programmed
    <2>3. Asleep' /\ StoppedStill'
        BY <1>5 DEF MonitorColor, Asleep, Held, StoppedStill
    <2> QED BY <2>1, <2>2, <2>3
<1>6. CASE MonitorPath
    <2>1. DataTypes' /\ FlagTypes'
        BY <1>6 DEF MonitorPath, DataTypes, Sampled, Signals, FlagTypes
    <2>2. Sampled' /\ Held' /\ Fit' /\ Programmed'
        BY <1>6 DEF MonitorPath, Sampled, Held, DataTypes, Fit, Signals, Supports, Programmed
    <2>3. Asleep' /\ StoppedStill'
        BY <1>6 DEF MonitorPath, Asleep, Held, StoppedStill
    <2> QED BY <2>1, <2>2, <2>3
<1>7. CASE MonitorReport
    <2>1. DataTypes' /\ FlagTypes'
        BY <1>7 DEF MonitorReport, DataTypes, FlagTypes
    <2>2. Sampled' /\ Held' /\ Fit' /\ Programmed'
        BY <1>7 DEF MonitorReport, Sampled, Held, DataTypes, Fit, Signals, Supports, Programmed
    <2>3. Asleep' /\ StoppedStill'
        BY <1>7 DEF MonitorReport, Asleep, Held, StoppedStill
    <2> QED BY <2>1, <2>2, <2>3
<1> QED BY <1>1, <1>2, <1>3, <1>4, <1>5, <1>6, <1>7

\* The completion callback adapts the stream as well.
LEMMA CallbackKeeps ==
    ASSUME SignalInv,
           \/ CallbackEnter \/ CallbackAdapt \/ CallbackRate \/ CallbackArm
           \/ CallbackPublish
    PROVE  SignalInv'
<1> USE DEF SignalInv, srcVars, sigVars, fmtVars, runVars, vbVars, monVars, cbVars,
           pmVars, hisVars
<1>1. CASE CallbackEnter
    <2>1. DataTypes' /\ FlagTypes'
        BY <1>1 DEF CallbackEnter, Compatible, DataTypes, FlagTypes
    <2>2. Sampled' /\ Held' /\ Fit' /\ Programmed'
        BY <1>1 DEF CallbackEnter, Compatible, Sampled, Held, DataTypes, Fit, Signals, Supports,
               Programmed
    <2>3. Asleep' /\ StoppedStill'
        BY <1>1 DEF CallbackEnter, Compatible, Asleep, Held, StoppedStill
    <2> QED BY <2>1, <2>2, <2>3
<1>2. CASE CallbackAdapt
    <2>1. DataTypes' /\ FlagTypes'
        BY <1>2 DEF CallbackAdapt, DataTypes, Sampled, Signals, FlagTypes
    <2>2. Sampled' /\ Held' /\ Fit' /\ Programmed'
        BY <1>2 DEF CallbackAdapt, Sampled, Held, DataTypes, Fit, Signals, Supports, Programmed
    <2>3. Asleep' /\ StoppedStill'
        BY <1>2 DEF CallbackAdapt, Asleep, Held, StoppedStill
    <2> QED BY <2>1, <2>2, <2>3
<1>3. CASE CallbackRate
    <2>1. DataTypes' /\ FlagTypes'
        BY <1>3 DEF CallbackRate, DataTypes, Sampled, Signals, FlagTypes
    <2>2. Sampled' /\ Held' /\ Fit' /\ Programmed'
        BY <1>3 DEF CallbackRate, Sampled, Held, DataTypes, Fit, Signals, Supports, Programmed
    <2>3. Asleep' /\ StoppedStill'
        BY <1>3 DEF CallbackRate, Asleep, Held, StoppedStill
    <2> QED BY <2>1, <2>2, <2>3
<1>4. CASE CallbackArm
    <2>1. DataTypes' /\ FlagTypes'
        BY <1>4 DEF CallbackArm, DataTypes, FlagTypes
    <2>2. Sampled' /\ Held' /\ Fit' /\ Programmed'
        BY <1>4 DEF CallbackArm, Sampled, Held, DataTypes, Fit, Signals, Supports, Programmed
    <2>3. Asleep' /\ StoppedStill'
        BY <1>4 DEF CallbackArm, Asleep, Held, StoppedStill
    <2> QED BY <2>1, <2>2, <2>3
<1>5. CASE CallbackPublish
    <2>1. DataTypes' /\ FlagTypes'
        BY <1>5 DEF CallbackPublish, DataTypes, FlagTypes
    <2>2. Sampled' /\ Held' /\ Fit' /\ Programmed'
        BY <1>5 DEF CallbackPublish, Sampled, Held, DataTypes, Fit, Signals, Supports, Programmed
    <2>3. Asleep' /\ StoppedStill'
        BY <1>5 DEF CallbackPublish, Asleep, Held, StoppedStill
    <2> QED BY <2>1, <2>2, <2>3
<1> QED BY <1>1, <1>2, <1>3, <1>4, <1>5

\* The format is negotiated, and the stream is started and stopped.
LEMMA CallsKeeps ==
    ASSUME SignalInv,
           \/ GetFormat \/ (\E f \in Formats, m \in Modes : SetFormat(f, m))
           \/ (\E m \in Modes : SetTimings(m)) \/ (\E n \in BOOLEAN : RequestBuffers(n))
           \/ TakeEvent \/ StartMark \/ StopFlags
    PROVE  SignalInv'
<1> USE DEF SignalInv, srcVars, sigVars, fmtVars, runVars, vbVars, monVars, cbVars,
           pmVars, hisVars
<1>1. CASE GetFormat
    <2>1. DataTypes' /\ FlagTypes'
        BY <1>1, ModeOf DEF GetFormat, Running, UpdateFormat, DataTypes, Formats, FlagTypes
    <2>2. Sampled' /\ Held' /\ Fit' /\ Programmed'
        BY <1>1 DEF GetFormat, Running, UpdateFormat, Sampled, Held, DataTypes, Fit, Signals,
               Supports, Programmed
    <2>3. Asleep' /\ StoppedStill'
        BY <1>1 DEF GetFormat, Running, UpdateFormat, Asleep, Held, StoppedStill
    <2> QED BY <2>1, <2>2, <2>3
<1>2. CASE \E f \in Formats, m \in Modes : SetFormat(f, m)
    <2>1. PICK f \in Formats, m \in Modes : SetFormat(f, m)
        BY <1>2
    <2>2. DataTypes' /\ FlagTypes'
        BY <2>1, ModeOf DEF SetFormat, Running, DataTypes, Formats, FlagTypes
    <2>3. Sampled' /\ Held' /\ Fit' /\ Programmed'
        BY <2>1 DEF SetFormat, Running, Sampled, Held, DataTypes, Fit, Signals, Supports,
               Programmed
    <2>4. Asleep' /\ StoppedStill'
        BY <2>1 DEF SetFormat, Running, Asleep, Held, StoppedStill
    <2> QED BY <2>2, <2>3, <2>4
<1>3. CASE \E m \in Modes : SetTimings(m)
    <2>1. PICK m \in Modes : SetTimings(m)
        BY <1>3
    <2>2. DataTypes' /\ FlagTypes'
        BY <2>1 DEF SetTimings, Running, DataTypes, FlagTypes
    <2>3. Sampled' /\ Held' /\ Fit' /\ Programmed'
        BY <2>1 DEF SetTimings, Running, Sampled, Held, DataTypes, Fit, Signals, Supports,
               Programmed
    <2>4. Asleep' /\ StoppedStill'
        BY <2>1 DEF SetTimings, Running, Asleep, Held, StoppedStill
    <2> QED BY <2>2, <2>3, <2>4
<1>4. CASE \E n \in BOOLEAN : RequestBuffers(n)
    <2>1. PICK n \in BOOLEAN : RequestBuffers(n)
        BY <1>4
    <2>2. DataTypes' /\ FlagTypes'
        BY <2>1 DEF RequestBuffers, Running, DataTypes, FlagTypes
    <2>3. Sampled' /\ Held' /\ Fit' /\ Programmed'
        BY <2>1 DEF RequestBuffers, Running, Sampled, Held, DataTypes, Fit, Signals, Supports,
               Programmed
    <2>4. Asleep' /\ StoppedStill'
        BY <2>1 DEF RequestBuffers, Running, Asleep, Held, StoppedStill
    <2> QED BY <2>2, <2>3, <2>4
<1>5. CASE TakeEvent
    <2>1. DataTypes'
        BY <1>5 DEF TakeEvent, Running, DataTypes
    <2>2. FlagTypes'
        BY <1>5 DEF TakeEvent, Running, FlagTypes
    <2>3. Sampled' /\ Held' /\ Fit' /\ Programmed'
        BY <1>5 DEF TakeEvent, Running, Sampled, Held, DataTypes, Fit, Signals, Supports,
               Programmed
    <2>4. Asleep' /\ StoppedStill'
        BY <1>5 DEF TakeEvent, Running, Asleep, Held, StoppedStill
    <2> QED BY <2>1, <2>2, <2>3, <2>4
<1>6. CASE StartMark
    <2>1. DataTypes'
        BY <1>6 DEF StartMark, Running, Startable, DataTypes
    <2>2. FlagTypes'
        BY <1>6 DEF StartMark, Running, Startable, FlagTypes
    <2>3. Sampled' /\ Held' /\ Fit' /\ Programmed'
        BY <1>6 DEF StartMark, Running, Startable, Sampled, Held, DataTypes, Fit, Signals,
               Supports, Programmed
    <2>4. Asleep' /\ StoppedStill'
        BY <1>6 DEF StartMark, Running, Startable, Asleep, Held, StoppedStill
    <2> QED BY <2>1, <2>2, <2>3, <2>4
<1>7. CASE StopFlags
    <2>1. DataTypes'
        BY <1>7 DEF StopFlags, Running, DataTypes
    <2>2. FlagTypes'
        BY <1>7 DEF StopFlags, Running, FlagTypes
    <2>3. Sampled' /\ Held' /\ Fit' /\ Programmed'
        BY <1>7 DEF StopFlags, Running, Sampled, Held, DataTypes, Fit, Signals, Supports,
               Programmed
    <2>4. Asleep' /\ StoppedStill'
        BY <1>7 DEF StopFlags, Running, Asleep, Held, StoppedStill
    <2> QED BY <2>1, <2>2, <2>3, <2>4
<1> QED BY <1>1, <1>2, <1>3, <1>4, <1>5, <1>6, <1>7

\* A start or a stop goes on.
LEMMA FinishKeeps ==
    ASSUME SignalInv,
           \/ StartEngine \/ StartLive \/ StopEngine
    PROVE  SignalInv'
<1> USE DEF SignalInv, srcVars, sigVars, fmtVars, runVars, vbVars, monVars, cbVars,
           pmVars, hisVars
<1>1. CASE StartEngine
    <2>1. DataTypes' /\ FlagTypes'
        BY <1>1 DEF StartEngine, DataTypes, FlagTypes
    <2>2. Sampled' /\ Held' /\ Fit' /\ Programmed'
        BY <1>1 DEF StartEngine, Sampled, Held, DataTypes, Fit, Signals, Supports, Programmed
    <2>3. Asleep' /\ StoppedStill'
        BY <1>1 DEF StartEngine, Asleep, Held, StoppedStill
    <2> QED BY <2>1, <2>2, <2>3
<1>2. CASE StartLive
    <2>1. DataTypes'
        BY <1>2 DEF StartLive, DataTypes
    <2>2. FlagTypes'
        BY <1>2 DEF StartLive, FlagTypes
    <2>3. Sampled' /\ Held' /\ Fit' /\ Programmed'
        BY <1>2 DEF StartLive, Sampled, Held, DataTypes, Fit, Signals, Supports, Programmed
    <2>4. Asleep' /\ StoppedStill'
        BY <1>2 DEF StartLive, Asleep, Held, StoppedStill
    <2> QED BY <2>1, <2>2, <2>3, <2>4
<1>3. CASE StopEngine
    <2>1. DataTypes'
        BY <1>3 DEF StopEngine, DataTypes
    <2>2. FlagTypes'
        BY <1>3 DEF StopEngine, FlagTypes
    <2>3. Sampled' /\ Held' /\ Fit' /\ Programmed'
        BY <1>3 DEF StopEngine, Sampled, Held, DataTypes, Fit, Signals, Supports, Programmed
    <2>4. Asleep' /\ StoppedStill'
        BY <1>3 DEF StopEngine, Asleep, Held, StoppedStill
    <2> QED BY <2>1, <2>2, <2>3, <2>4
<1> QED BY <1>1, <1>2, <1>3

\* Suspend, resume and removal.
LEMMA PowerKeeps ==
    ASSUME SignalInv,
           \/ (\E r \in BOOLEAN : PowerBegin(r)) \/ PowerCancel \/ PowerFlush \/ PowerStop
           \/ PowerEnd \/ PowerFree \/ Resume
    PROVE  SignalInv'
<1> USE DEF SignalInv, srcVars, sigVars, fmtVars, runVars, vbVars, monVars, cbVars,
           pmVars, hisVars
<1>1. CASE \E r \in BOOLEAN : PowerBegin(r)
    <2>1. PICK r \in BOOLEAN : PowerBegin(r)
        BY <1>1
    <2>2. DataTypes' /\ FlagTypes'
        BY <2>1 DEF PowerBegin, Running, DataTypes, FlagTypes
    <2>3. Sampled' /\ Held' /\ Fit' /\ Programmed'
        BY <2>1 DEF PowerBegin, Running, Sampled, Held, DataTypes, Fit, Signals, Supports,
               Programmed
    <2>4. Asleep' /\ StoppedStill'
        BY <2>1 DEF PowerBegin, Running, Asleep, Held, StoppedStill
    <2> QED BY <2>2, <2>3, <2>4
<1>2. CASE PowerCancel
    <2>1. DataTypes'
        BY <1>2 DEF PowerCancel, DataTypes
    <2>2. FlagTypes'
        BY <1>2 DEF PowerCancel, FlagTypes
    <2>3. Sampled' /\ Held' /\ Fit' /\ Programmed'
        BY <1>2 DEF PowerCancel, Sampled, Held, DataTypes, Fit, Signals, Supports, Programmed
    <2>4. Asleep' /\ StoppedStill'
        BY <1>2 DEF PowerCancel, Asleep, Held, StoppedStill
    <2> QED BY <2>1, <2>2, <2>3, <2>4
<1>3. CASE PowerFlush
    <2>1. DataTypes' /\ FlagTypes'
        BY <1>3 DEF PowerFlush, DataTypes, FlagTypes
    <2>2. Sampled' /\ Held' /\ Fit' /\ Programmed'
        BY <1>3 DEF PowerFlush, Sampled, Held, DataTypes, Fit, Signals, Supports, Programmed
    <2>3. Asleep' /\ StoppedStill'
        BY <1>3 DEF PowerFlush, Asleep, Held, StoppedStill
    <2> QED BY <2>1, <2>2, <2>3
<1>4. CASE PowerStop
    <2>1. DataTypes'
        BY <1>4 DEF PowerStop, DataTypes
    <2>2. FlagTypes'
        BY <1>4 DEF PowerStop, FlagTypes
    <2>3. Sampled' /\ Held' /\ Fit' /\ Programmed'
        BY <1>4 DEF PowerStop, Sampled, Held, DataTypes, Fit, Signals, Supports, Programmed
    <2>4. Asleep' /\ StoppedStill'
        BY <1>4 DEF PowerStop, Asleep, Held, StoppedStill
    <2> QED BY <2>1, <2>2, <2>3, <2>4
<1>5. CASE PowerEnd
    <2>1. DataTypes'
        BY <1>5 DEF PowerEnd, DataTypes
    <2>2. FlagTypes'
        BY <1>5 DEF PowerEnd, FlagTypes
    <2>3. Sampled' /\ Held' /\ Fit' /\ Programmed'
        BY <1>5 DEF PowerEnd, Sampled, Held, DataTypes, Fit, Signals, Supports, Programmed
    <2>4. Asleep' /\ StoppedStill'
        BY <1>5 DEF PowerEnd, Asleep, Held, StoppedStill
    <2> QED BY <2>1, <2>2, <2>3, <2>4
<1>6. CASE PowerFree
    <2>1. DataTypes' /\ FlagTypes'
        BY <1>6 DEF PowerFree, DataTypes, FlagTypes
    <2>2. Sampled' /\ Held' /\ Fit' /\ Programmed'
        BY <1>6 DEF PowerFree, Sampled, Held, DataTypes, Fit, Signals, Supports, Programmed
    <2>3. Asleep' /\ StoppedStill'
        BY <1>6 DEF PowerFree, Asleep, Held, StoppedStill
    <2> QED BY <2>1, <2>2, <2>3
<1>7. CASE Resume
    <2>1. DataTypes' /\ FlagTypes'
        BY <1>7 DEF Resume, DataTypes, FlagTypes
    <2>2. Sampled' /\ Held' /\ Fit' /\ Programmed'
        BY <1>7 DEF Resume, Sampled, Held, DataTypes, Fit, Signals, Supports, Programmed
    <2>3. Asleep' /\ StoppedStill'
        BY <1>7 DEF Resume, Asleep, Held, StoppedStill
    <2> QED BY <2>1, <2>2, <2>3
<1> QED BY <1>1, <1>2, <1>3, <1>4, <1>5, <1>6, <1>7

\* What was sampled at first is of one signal.
LEMMA SignalInit == Init => SignalInv
<1> SUFFICES ASSUME Init PROVE SignalInv
    OBVIOUS
<1> USE DEF Init
<1>1. cached \in Signals /\ pix \in Modes
    BY ModeOf
<1>2. DataTypes
    BY <1>1, ChangesAssumption DEF DataTypes, Formats
<1>3. FlagTypes
    BY DEF FlagTypes
<1>4. Sampled /\ Held /\ Fit /\ Programmed /\ Asleep /\ StoppedStill
    BY DEF Sampled, Held, Fit, Programmed, Asleep, StoppedStill
<1> QED BY <1>2, <1>3, <1>4 DEF SignalInv

\* Nothing changes but the event that is pending.
LEMMA EventKeeps ==
    ASSUME SignalInv, UNCHANGED <<srcVars, sigVars, fmtVars, runVars, lock, busy, vb, monVars,
                                  cbVars, pmVars, hisVars, stream, fpga>>,
           event' \in BOOLEAN
    PROVE  SignalInv'
<1> USE DEF SignalInv, srcVars, sigVars, fmtVars, runVars, monVars, cbVars, pmVars, hisVars
<1>1. DataTypes' /\ FlagTypes'
    BY DEF DataTypes, FlagTypes
<1>2. Sampled' /\ Held' /\ Fit'
    BY DEF Sampled, Held, Fit
<1>3. Programmed' /\ Asleep' /\ StoppedStill'
    BY DEF Programmed, Asleep, StoppedStill
<1> QED BY <1>1, <1>2, <1>3

\* A step that is none of the device's.
LEMMA SignalUnchanged == ASSUME SignalInv, UNCHANGED vars PROVE SignalInv'
BY EventKeeps DEF vars, vbVars, SignalInv, FlagTypes

\* The capture device, whatever applications, source and power do.
LEMMA SignalStep == SignalInv /\ [Next]_vars => SignalInv'
<1> SUFFICES ASSUME SignalInv, [Next]_vars PROVE SignalInv'
    OBVIOUS
<1>1. CASE UNCHANGED vars
    BY <1>1, EventKeeps DEF vars, vbVars, SignalInv, FlagTypes
<1>2. CASE (\E s \in Signals \cup {NoSignal} : Retune(s)) \/ Finish
    BY <1>2, SourceKeeps, FinishKeeps DEF Finish
<1>3. CASE Monitor
    BY <1>3, MonitorKeeps DEF Monitor
<1>4. CASE CallbackEnter \/ CallbackRest
    BY <1>4, CallbackKeeps DEF CallbackRest
<1>5. CASE Application
    BY <1>5, CallsKeeps DEF Application
<1>6. CASE (\E r \in BOOLEAN : PowerBegin(r)) \/ Power \/ Resume
    BY <1>6, PowerKeeps DEF Power
<1> QED BY <1>1, <1>2, <1>3, <1>4, <1>5, <1>6 DEF Next

\* The invariant of the device holds with any application.
THEOREM DeviceThroughout == Spec => []SignalInv
<1> QED BY SignalInit, SignalStep, PTL DEF Spec

-----------------------------------------------------------------------------

\* The display holds no buffers but those of a stream.
Unused ==
    /\ starting => at = "wait" /\ ~vb
    /\ at \in {"open", "standby", "dv", "fmt", "get", "req"} => vb \/ ~busy
    /\ at \in {"dv", "fmt"} => wanted \in Modes

\* The stream of the display.
Streams ==
    /\ texFails \in Nat
    /\ at \in {"texture", "play"} => vb
    /\ at = "play" => active /\ texture = size
    /\ active => at \in {"play", "off"}
    /\ texFails = 0 /\ vb => at \in {"wait", "texture", "play"} \/ (at = "off" /\ active)

\* What the display keeps of modes, and its places.
DisplayTypes ==
    /\ at \in {"open", "standby", "dv", "fmt", "get", "req", "map", "on", "wait", "texture",
              "play", "off", "release", "free"}
    /\ wanted \in Modes \cup {None} /\ size \in Modes \cup {None} /\ texture \in Modes \cup {None}
DisplayFlags == active \in BOOLEAN /\ subscribed \in BOOLEAN

DisplayInv == Unused /\ Streams

\* The format that was read stays, for the timings were set before, and then
\* for the buffers.
Negotiated ==
    /\ at \in {"fmt", "get", "req"} => vb \/ explicit
    /\ at = "req" => vb \/ pix = size
    /\ at \in {"map", "on", "wait", "texture", "play"} => busy /\ pix = size

\* What driver, source and another program leave alone: buffers, timings that
\* were set, and with either the format; only a start makes the stream run.
LEMMA DriverLeaves ==
    ASSUME SignalInv, Driver
    PROVE  /\ (busy' <=> busy) /\ (explicit => explicit')
           /\ busy \/ explicit => pix' = pix
           /\ (vb' <=> vb) \/ (starting /\ ~starting')
           /\ starting' => starting
<1> USE DEF srcVars, sigVars, fmtVars, runVars, vbVars, monVars, cbVars, pmVars, hisVars
<1>1. CASE (\E s \in Signals \cup {NoSignal} : Retune(s)) \/ OtherProgram
    BY <1>1 DEF Retune, OtherProgram, GetFormat, UpdateFormat
<1>2. CASE Monitor
    BY <1>2 DEF Monitor, MonitorRead, MonitorCache, UpdateFormat, MonitorAdapt, MonitorRate,
                MonitorColor, MonitorPath, MonitorReport
<1>3. CASE CallbackEnter \/ CallbackRest
    BY <1>3 DEF CallbackEnter, CallbackRest, CallbackAdapt, CallbackRate, CallbackArm,
                CallbackPublish
<1>4. CASE Finish
    BY <1>4 DEF Finish, StartEngine, StartLive, StopEngine
<1> QED BY <1>1, <1>2, <1>3, <1>4 DEF Driver

\* The steps of the display are calls of the device, or change nothing of it but
\* the event that is pending.
LEMMA DisplayCalls ==
    ASSUME SignalInv, DisplayInv, Display \/ Resync
    PROVE  SignalInv'
<1>1. CASE Open
    BY <1>1, SignalUnchanged, CallsKeeps, ModeOf DEF Open, TrySetTimings, SignalInv, DataTypes
<1>2. CASE QueryTimings
    BY <1>2, SignalUnchanged DEF QueryTimings
<1>3. CASE SetQueried
    BY <1>3, SignalUnchanged, CallsKeeps DEF SetQueried, TrySetTimings, DisplayInv, Unused
<1>4. CASE SetYuyv
    BY <1>4, SignalUnchanged, CallsKeeps DEF SetYuyv, TrySetFormat, DisplayInv, Unused, Formats
<1>5. CASE ReadFormat
    BY <1>5, SignalUnchanged, CallsKeeps DEF ReadFormat
<1>6. CASE Allocate
    BY <1>6, SignalUnchanged, CallsKeeps DEF Allocate
<1>7. CASE MapBuffers
    BY <1>7, SignalUnchanged DEF MapBuffers
<1>8. CASE StreamOn
    BY <1>8, SignalUnchanged, CallsKeeps DEF StreamOn
<1>9. CASE StreamOnEnds
    BY <1>9, SignalUnchanged DEF StreamOnEnds
<1>10. CASE CreateTexture
    BY <1>10, EventKeeps DEF CreateTexture, SignalInv, FlagTypes
<1>11. CASE Stall
    BY <1>11, SignalUnchanged DEF Stall
<1>12. CASE SourceChange
    BY <1>12, SignalUnchanged, CallsKeeps DEF SourceChange
<1>13. CASE Resync
    BY <1>13, SignalUnchanged DEF Resync
<1>14. CASE StreamOff
    BY <1>14, SignalUnchanged, CallsKeeps DEF StreamOff
<1>15. CASE StreamOffEnds
    BY <1>15, SignalUnchanged DEF StreamOffEnds
<1>16. CASE Release
    BY <1>16, SignalUnchanged, CallsKeeps DEF Release
<1> QED
    BY <1>1, <1>2, <1>3, <1>4, <1>5, <1>6, <1>7, <1>8, <1>9, <1>10, <1>11, <1>12,
       <1>13, <1>14, <1>15, <1>16
       DEF Display, Start, Stop

\* They use buffers only for a stream.
LEMMA DisplayKeeps ==
    ASSUME SignalInv, DisplayInv, Display \/ Resync
    PROVE  DisplayInv'
<1> USE DEF vars, srcVars, sigVars, fmtVars, runVars, vbVars, monVars, cbVars, pmVars, hisVars,
           GoTo, dispVars, faults, Held, SignalInv, DisplayInv, Unused, Streams
<1>1. CASE Open
    BY <1>1 DEF Open, TrySetTimings, SetTimings
<1>2. CASE QueryTimings
    BY <1>2, ModeOf DEF QueryTimings, DataTypes
<1>3. CASE SetQueried
    BY <1>3 DEF SetQueried, TrySetTimings, SetTimings
<1>4. CASE SetYuyv
    BY <1>4 DEF SetYuyv, TrySetFormat, SetFormat
<1>5. CASE ReadFormat
    BY <1>5 DEF ReadFormat, GetFormat, UpdateFormat
<1>6. CASE Allocate
    BY <1>6 DEF Allocate, RequestBuffers
<1>7. CASE MapBuffers
    <2>1. CASE GoTo("on") /\ UNCHANGED vars
        BY <1>7, <2>1 DEF MapBuffers
    <2>2. CASE /\ at = "map" /\ at' = "off"
               /\ UNCHANGED <<vars, active, wanted, size, texture, subscribed, texFails, keys>>
        BY <2>2
    <2> QED BY <1>7, <2>1, <2>2 DEF MapBuffers
<1>8. CASE StreamOn
    BY <1>8 DEF StreamOn, StartMark
<1>9. CASE StreamOnEnds
    BY <1>9 DEF StreamOnEnds
<1>10. CASE CreateTexture
    <2>1. CASE at' = "play" /\ active' = TRUE /\ texture' = size /\ UNCHANGED faults
        BY <1>10, <2>1 DEF CreateTexture
    <2>2. CASE at' = "off" /\ texFails' = texFails + 1 /\ UNCHANGED <<active, texture>>
        BY <1>10, <2>2 DEF CreateTexture
    <2> QED BY <1>10, <2>1, <2>2 DEF CreateTexture
<1>11. CASE Stall
    BY <1>11 DEF Stall
<1>12. CASE SourceChange
    BY <1>12 DEF SourceChange, TakeEvent
<1>13. CASE Resync
    BY <1>13 DEF Resync
<1>14. CASE StreamOff
    BY <1>14 DEF StreamOff, StopFlags
<1>15. CASE StreamOffEnds
    BY <1>15 DEF StreamOffEnds
<1>16. CASE Release
    BY <1>16 DEF Release, RequestBuffers
<1> QED
    BY <1>1, <1>2, <1>3, <1>4, <1>5, <1>6, <1>7, <1>8, <1>9, <1>10, <1>11, <1>12,
       <1>13, <1>14, <1>15, <1>16
       DEF Display, Start, Stop

\* The format stays what the display was told, when its timings are accepted.
LEMMA FormatKeeps ==
    ASSUME Refused = {}, SignalInv, DisplayInv, Negotiated, Display \/ Resync
    PROVE  Negotiated'
<1> USE DEF vars, srcVars, sigVars, fmtVars, runVars, vbVars, monVars, cbVars, pmVars, hisVars,
           GoTo, dispVars, faults, DisplayInv, Unused, Negotiated
<1>1. CASE Open
    BY <1>1 DEF Open, TrySetTimings, SetTimings
<1>2. CASE QueryTimings
    BY <1>2 DEF QueryTimings
<1>3. CASE SetQueried
    BY <1>3 DEF SetQueried, TrySetTimings, SetTimings
<1>4. CASE SetYuyv
    BY <1>4 DEF SetYuyv, TrySetFormat, SetFormat
<1>5. CASE ReadFormat
    BY <1>5 DEF ReadFormat, GetFormat, UpdateFormat
<1>6. CASE Allocate
    BY <1>6 DEF Allocate, RequestBuffers
<1>7. CASE MapBuffers
    BY <1>7 DEF MapBuffers
<1>8. CASE StreamOn
    BY <1>8 DEF StreamOn, StartMark
<1>9. CASE StreamOnEnds
    BY <1>9 DEF StreamOnEnds
<1>10. CASE CreateTexture
    BY <1>10 DEF CreateTexture
<1>11. CASE Stall
    BY <1>11 DEF Stall
<1>12. CASE SourceChange
    BY <1>12 DEF SourceChange, TakeEvent
<1>13. CASE Resync
    BY <1>13 DEF Resync
<1>14. CASE StreamOff
    BY <1>14 DEF StreamOff, StopFlags
<1>15. CASE StreamOffEnds
    BY <1>15 DEF StreamOffEnds
<1>16. CASE Release
    BY <1>16 DEF Release, RequestBuffers
<1> QED
    BY <1>1, <1>2, <1>3, <1>4, <1>5, <1>6, <1>7, <1>8, <1>9, <1>10, <1>11, <1>12,
       <1>13, <1>14, <1>15, <1>16
       DEF Display, Start, Stop

\* Driver, source and the other program keep what the display relies on.
LEMMA DriverKeeps ==
    ASSUME SignalInv, DisplayInv, Driver, UNCHANGED <<dispVars, faults>>
    PROVE  SignalInv' /\ DisplayInv' /\ (Negotiated => Negotiated')
<1>1. SignalInv'
    BY SourceKeeps, MonitorKeeps, CallbackKeeps, CallsKeeps, FinishKeeps
       DEF Driver, Monitor, CallbackRest, Finish, OtherProgram
<1>2. DisplayInv'
    BY DriverLeaves DEF DisplayInv, Unused, Streams, dispVars, faults
<1>3. Negotiated => Negotiated'
    <2>1. /\ vb => vb'
          /\ explicit => explicit' /\ pix' = pix
          /\ busy => busy' /\ pix' = pix
        BY DriverLeaves DEF DisplayInv, Unused
    <2>2. at' = at /\ size' = size /\ wanted' = wanted
        BY DEF dispVars
    <2> QED BY <2>1, <2>2 DEF Negotiated
<1> QED BY <1>1, <1>2, <1>3

\* The display begins without buffers.
LEMMA DisplayInitInv == DisplayInit => SignalInv /\ DisplayInv /\ Negotiated
<1> SUFFICES ASSUME DisplayInit PROVE SignalInv /\ DisplayInv /\ Negotiated
    OBVIOUS
<1>1. SignalInv
    BY SignalInit DEF DisplayInit
<1>2. DisplayInv /\ Negotiated
    BY DEF DisplayInit, Init, DisplayInv, Unused, Streams, Negotiated
<1> QED BY <1>1, <1>2

\* Every step of the display and of its device keeps it.
LEMMA DisplayStep ==
    ASSUME SignalInv, DisplayInv, [DisplayNext]_allVars
    PROVE  SignalInv' /\ DisplayInv' /\ (Refused = {} /\ Negotiated => Negotiated')
<1>1. CASE Display \/ Resync
    BY <1>1, DisplayCalls, DisplayKeeps, FormatKeeps
<1>2. CASE Driver /\ UNCHANGED <<dispVars, faults>>
    BY <1>2, DriverKeeps
<1>3. CASE UNCHANGED allVars
    <2>1. SignalInv'
        BY <1>3, SignalUnchanged DEF allVars
    <2>2. DisplayInv' /\ (Negotiated => Negotiated')
        BY <1>3 DEF allVars, vars, dispVars, faults, vbVars, fmtVars, runVars, DisplayInv, Unused,
                    Streams, Negotiated
    <2> QED BY <2>1, <2>2
<1> QED BY <1>1, <1>2, <1>3 DEF DisplayNext

\* The invariants hold under the display.
THEOREM DisplayThroughout == DisplaySpec => [](SignalInv /\ DisplayInv)
<1> QED BY DisplayInitInv, DisplayStep, PTL DEF DisplaySpec

-----------------------------------------------------------------------------

\* Every variable of the device keeps its type.
THEOREM DeviceTypesTheorem == Spec => []TypeOK
<1>1. SignalInv => TypeOK
    BY DEF SignalInv, DataTypes, FlagTypes, TypeOK
<1> QED BY <1>1, DeviceThroughout, PTL

\* Frames that are stored have the size the buffers were made for, whatever
\* applications do, and however the source changes (gc573-video.c:576).
THEOREM FrameFitsBufferTheorem == Spec => []FrameFitsBuffer
<1>1. SignalInv => FrameFitsBuffer
    BY DEF SignalInv, Fit, FrameFitsBuffer
<1> QED BY <1>1, DeviceThroughout, PTL

\* The FPGA runs at the stream's rate unless somebody is about to program it,
\* or was overtaken in between (gc573-video.c:902).
THEOREM RateAgreesTheorem == Spec => []RateAgrees
<1>1. SignalInv => RateAgrees
    BY DEF SignalInv, Programmed, RateAgrees
<1> QED BY <1>1, DeviceThroughout, PTL

\* After a stop nobody touches the FPGA, and a sleeping device is not polled
\* unless the callback armed the monitor again.
THEOREM StoppedTheorem == Spec => [](StoppedStill /\ QuietMonitor)
<1>1. SignalInv => StoppedStill /\ QuietMonitor
    BY DEF SignalInv, Asleep, QuietMonitor
<1> QED BY <1>1, DeviceThroughout, PTL

\* Whatever fails on the way to a picture: in standby nothing is left of a
\* stream (everlive_display.c:518).
THEOREM StandbyFreeTheorem == DisplaySpec => []StandbyFree
<1>1. DisplayInv => StandbyFree
    BY DEF DisplayInv, Unused, Streams, StandbyFree
<1> QED BY <1>1, DisplayThroughout, PTL

\* The display itself keeps the types.
LEMMA DisplayTypesKeep ==
    ASSUME SignalInv, SignalInv', DisplayTypes, DisplayFlags, Display \/ Resync
    PROVE  DisplayTypes' /\ DisplayFlags'
<1>0. pix' \in Modes
    BY DEF SignalInv, DataTypes
<1> USE <1>0 DEF GoTo, dispVars, faults
<1>1. CASE Open
    BY <1>1 DEF Open, DisplayTypes, DisplayFlags
<1>2. CASE QueryTimings
    BY <1>2, ModeOf DEF QueryTimings, DisplayTypes, DisplayFlags, SignalInv, DataTypes
<1>3. CASE SetQueried
    BY <1>3 DEF SetQueried, DisplayTypes, DisplayFlags
<1>4. CASE SetYuyv
    BY <1>4 DEF SetYuyv, DisplayTypes, DisplayFlags
<1>5. CASE ReadFormat
    BY <1>5 DEF ReadFormat, DisplayTypes, DisplayFlags
<1>6. CASE Allocate
    BY <1>6 DEF Allocate, DisplayTypes, DisplayFlags
<1>7. CASE MapBuffers
    BY <1>7 DEF MapBuffers, DisplayTypes, DisplayFlags
<1>8. CASE StreamOn
    BY <1>8 DEF StreamOn, DisplayTypes, DisplayFlags
<1>9. CASE StreamOnEnds
    BY <1>9 DEF StreamOnEnds, DisplayTypes, DisplayFlags
<1>10. CASE CreateTexture
    BY <1>10 DEF CreateTexture, DisplayTypes, DisplayFlags
<1>11. CASE Stall
    BY <1>11 DEF Stall, DisplayTypes, DisplayFlags
<1>12. CASE SourceChange
    BY <1>12 DEF SourceChange, DisplayTypes, DisplayFlags
<1>13. CASE Resync
    BY <1>13 DEF Resync, DisplayTypes, DisplayFlags
<1>14. CASE StreamOff
    BY <1>14 DEF StreamOff, DisplayTypes, DisplayFlags
<1>15. CASE StreamOffEnds
    BY <1>15 DEF StreamOffEnds, DisplayTypes, DisplayFlags
<1>16. CASE Release
    BY <1>16 DEF Release, DisplayTypes, DisplayFlags
<1> QED
    BY <1>1, <1>2, <1>3, <1>4, <1>5, <1>6, <1>7, <1>8, <1>9, <1>10, <1>11, <1>12, <1>13, <1>14, <1>15, <1>16
       DEF Display, Start, Stop

\* Every variable of the display and its device keeps its type.
THEOREM DisplayTypesTheorem == DisplaySpec => []DisplayTypeOK
<1>1. DisplayInit => DisplayTypes /\ DisplayFlags
    BY DEF DisplayInit, DisplayTypes, DisplayFlags
<1>2. SignalInv /\ SignalInv' /\ DisplayTypes /\ DisplayFlags /\ [DisplayNext]_allVars
          => DisplayTypes' /\ DisplayFlags'
    <2> SUFFICES ASSUME SignalInv, SignalInv', DisplayTypes, DisplayFlags, [DisplayNext]_allVars
                 PROVE  DisplayTypes' /\ DisplayFlags'
        OBVIOUS
    <2>1. CASE Display \/ Resync
        BY <2>1, DisplayTypesKeep
    <2>2. CASE UNCHANGED dispVars
        BY <2>2 DEF dispVars, DisplayTypes, DisplayFlags
    <2> QED BY <2>1, <2>2 DEF DisplayNext, allVars
<1>3. SignalInv /\ DisplayTypes /\ DisplayFlags => DisplayTypeOK
    BY DEF SignalInv, DataTypes, FlagTypes, TypeOK, DisplayTypes, DisplayFlags, DisplayTypeOK
<1> QED BY DisplayThroughout, <1>1, <1>2, <1>3, PTL DEF DisplaySpec

\* Frames, buffers, texture and programmed rate are those of one signal, when
\* the timings of every mode are accepted (everlive_display.c:445).
THEOREM SignalSoundTheorem == ASSUME Refused = {} PROVE DisplaySpec => []SignalSound
<1>1. DisplaySpec => []Negotiated
    <2>1. SignalInv /\ DisplayInv /\ Negotiated /\ [DisplayNext]_allVars => Negotiated'
        BY DisplayStep
    <2> QED BY <2>1, DisplayInitInv, DisplayThroughout, PTL DEF DisplaySpec
<1>2. SignalInv /\ DisplayInv /\ Negotiated
          => /\ FrameFitsBuffer /\ RateAgrees /\ TextureFits /\ StandbyFree
             /\ StoppedStill /\ QuietMonitor
    BY DEF SignalInv, Fit, Programmed, Asleep, DisplayInv, Unused, Streams, Negotiated,
           FrameFitsBuffer, RateAgrees, TextureFits, StandbyFree, QuietMonitor
<1> QED BY <1>1, <1>2, DisplayThroughout, DisplayTypesTheorem, PTL DEF SignalSound

-----------------------------------------------------------------------------
(* The audio of the display engine *)

\* The child each place names, and the places.
ForkNames == IF sup = "publish" THEN {forked} ELSE {}
ThreadNames == IF sup \in {"clear", "kill"} THEN {killing["thread"]} ELSE {}
HandlerNames == IF handler \in {"clear", "kill"} THEN {killing["handler"]} ELSE {}
Named == ({pid} \cup ForkNames \cup ThreadNames \cup HandlerNames) \ {Audio!NoPid}

Places ==
    /\ sup \in {"fork", "publish", "loop", "reap", "backoff", "find", "apply", "volume", "muted",
                "command", "stop", "clear", "kill", "done"}
    /\ handler \in {"none", "entered", "check", "clear", "kill"}
    /\ killing \in [{"thread", "handler"} -> Children \cup {Audio!NoPid}]
    /\ pid \in Children \cup {Audio!NoPid} /\ forked \in Children \cup {Audio!NoPid}

\* Whoever runs is named, and one child at most is.
AllNamed == alive \subseteq Named
OneNamed == \A c, d \in Named : c = d

\* A start and a stop never meet.
StartsAlone ==
    /\ sup \in {"fork", "publish"} => pid = Audio!NoPid /\ handler \notin {"clear", "kill"}
    /\ handler \in {"check", "clear", "kill"} => ~running
\* A stop has a child to kill; once past its clear it leaves no pid, nor does
\* a reaped child or the end of the thread.
StopsClear ==
    /\ handler \in {"clear", "kill"} => killing["handler"] # Audio!NoPid
    /\ sup \in {"clear", "kill"} => killing["thread"] # Audio!NoPid
    /\ handler = "kill" => pid = Audio!NoPid
    /\ sup \in {"backoff", "kill", "done"} => pid = Audio!NoPid
Ended == main = "exited" => sup = "done" /\ handler = "none"

AudioInv ==
    /\ Places /\ AllNamed /\ OneNamed /\ StartsAlone /\ StopsClear /\ Ended

-----------------------------------------------------------------------------

\* The display engine starts without a child.
LEMMA AudioInit == Audio!Init => AudioInv
<1> SUFFICES ASSUME Audio!Init PROVE AudioInv OBVIOUS
<1>1. Places BY DEF Audio!Init, Places
<1>2. Named = {} BY DEF Audio!Init, Named, ForkNames, ThreadNames, HandlerNames
<1> QED BY <1>1, <1>2 DEF Audio!Init, AudioInv, AllNamed, OneNamed, StartsAlone, StopsClear, Ended

\* The parts about the children only depend on these variables.
LEMMA SameNames ==
    ASSUME AudioInv, UNCHANGED <<pid, alive, forked, killing>>,
           ForkNames' = ForkNames, ThreadNames' = ThreadNames, HandlerNames' = HandlerNames
    PROVE  AllNamed' /\ OneNamed'
<1>1. Named' = Named BY DEF Named
<1> QED BY <1>1 DEF AudioInv, AllNamed, OneNamed

\* Whatever moves neither a child nor a place keeps it.
LEMMA AudioStutter ==
    ASSUME AudioInv, UNCHANGED <<pid, alive, sup, forked, main, handler, killing, running>>
    PROVE  AudioInv'
<1>1. AllNamed' /\ OneNamed' BY SameNames DEF ForkNames, ThreadNames, HandlerNames
<1> QED BY <1>1 DEF AudioInv, Places, StartsAlone, StopsClear, Ended

Elsewhere == {"loop", "reap", "find", "apply", "volume", "muted", "command", "stop"}

\* The supervisor goes on in its loop.
LEMMA LoopMoves ==
    ASSUME AudioInv, sup \in Elsewhere \cup {"backoff"}, sup' \in Elsewhere, main # "exited",
           UNCHANGED <<running, pid, alive, forked, main, handler, killing>>
    PROVE  AudioInv'
<1>1. AllNamed' /\ OneNamed' BY SameNames DEF Elsewhere, ForkNames, ThreadNames, HandlerNames
<1> QED BY <1>1 DEF Elsewhere, AudioInv, Places, StartsAlone, StopsClear, Ended

\* The supervisor starts a pipeline.
LEMMA ForkStep == ASSUME AudioInv, Audio!ForkChild PROVE AudioInv'
<1> USE DEF AudioInv, Places, Audio!ForkChild, Audio!OnThread, Audio!Started, Audio!shared,
       Audio!locals, Audio!counts
<1>1. Named = {} /\ alive = {}
  BY DEF Named, ForkNames, ThreadNames, HandlerNames, AllNamed, StartsAlone
<1>2. Named' = {forked'} \ {Audio!NoPid} /\ alive' = {forked'} /\ forked' # Audio!NoPid
  BY <1>1, AudioAssumption DEF Named, ForkNames, ThreadNames, HandlerNames, StartsAlone, Audio!NoPid
<1>3. AllNamed' /\ OneNamed' BY <1>2 DEF AllNamed, OneNamed
<1>4. StartsAlone' /\ StopsClear' /\ Ended' BY DEF StartsAlone, StopsClear, Ended
<1> QED BY <1>3, <1>4

LEMMA PublishStep == ASSUME AudioInv, Audio!PublishPid PROVE AudioInv'
<1> USE DEF AudioInv, Places, Audio!PublishPid, Audio!OnThread, Audio!Started, Audio!locals,
       Audio!nodes, Audio!counts
<1>1. Named' = Named
  BY DEF Named, ForkNames, ThreadNames, HandlerNames, StartsAlone
<1>2. AllNamed' /\ OneNamed' BY <1>1 DEF AllNamed, OneNamed
<1>3. StartsAlone' /\ StopsClear' /\ Ended' BY DEF StartsAlone, StopsClear, Ended
<1> QED BY <1>2, <1>3
\* The supervisor's loop: a child that was reaped ran no more.
LEMMA ReapStep == ASSUME AudioInv, Audio!Reaped PROVE AudioInv'
<1> USE DEF AudioInv, Places, Audio!Reaped, Audio!OnThread, Audio!Started, Audio!nodes, Audio!counts
<1>1. ForkNames' = {} /\ ForkNames = {} /\ ThreadNames' = ThreadNames /\ HandlerNames' = HandlerNames
  BY DEF ForkNames, ThreadNames, HandlerNames
<1>2. Named' \subseteq Named /\ Named \ {pid} \subseteq Named'
  BY <1>1 DEF Named
<1>4. AllNamed' /\ OneNamed' BY <1>2 DEF AllNamed, OneNamed
<1>3. StartsAlone' /\ StopsClear' /\ Ended' BY DEF StartsAlone, StopsClear, Ended
<1> QED BY <1>3, <1>4

\* stop_audio_pipeline in the thread: it takes the name over, clears it, kills.
LEMMA StopStep ==
    ASSUME AudioInv, Audio!StopCheck \/ Audio!StopClear \/ Audio!StopKill
    PROVE  AudioInv'
<1> USE DEF AudioInv, Places, Audio!OnThread, Audio!Started, Audio!shared, Audio!locals,
       Audio!nodes, Audio!counts
<1>1. CASE Audio!StopCheck
  <2> USE <1>1 DEF Audio!StopCheck
  <2>1. Places'
    OBVIOUS
  <2>2. ForkNames' = {} /\ ForkNames = {} /\ HandlerNames' = HandlerNames
    BY DEF ForkNames, HandlerNames
  <2>3. ThreadNames = {} /\ ThreadNames' = {pid} \ {Audio!NoPid}
    BY DEF ThreadNames
  <2>4. Named' = Named
    BY <2>2, <2>3 DEF Named
  <2> QED BY <2>1, <2>4 DEF AllNamed, OneNamed, StartsAlone, StopsClear, Ended
<1>2. CASE Audio!StopClear
  <2> USE <1>2 DEF Audio!StopClear
  <2>1. Places'
    OBVIOUS
  <2>2. ForkNames' = {} /\ ForkNames = {} /\ HandlerNames' = HandlerNames
    BY DEF ForkNames, HandlerNames
  <2>3. ThreadNames = {killing["thread"]} /\ ThreadNames' = ThreadNames /\ killing["thread"] # Audio!NoPid
    BY DEF ThreadNames, StopsClear
  <2>4. Named' = Named
    BY <2>2, <2>3 DEF Named, OneNamed
  <2> QED BY <2>1, <2>4 DEF AllNamed, OneNamed, StartsAlone, StopsClear, Ended
<1>3. CASE Audio!StopKill
  <2> USE <1>3 DEF Audio!StopKill
  <2>1. Places'
    OBVIOUS
  <2>2. ForkNames' = {} /\ ForkNames = {} /\ HandlerNames' = HandlerNames
    BY DEF ForkNames, HandlerNames
  <2>3. ThreadNames = {killing["thread"]} /\ ThreadNames' = {} /\ pid = Audio!NoPid
    BY DEF ThreadNames, StopsClear
  <2>4. Named' \subseteq Named /\ Named \ {killing["thread"]} \subseteq Named'
    BY <2>2, <2>3 DEF Named
  <2> QED BY <2>1, <2>4 DEF AllNamed, OneNamed, StartsAlone, StopsClear, Ended
<1> QED BY <1>1, <1>2, <1>3

\* sig_handler: g_running is cleared first, so that no start meets its stop.
LEMMA HandlerStep == ASSUME AudioInv, Audio!Handler PROVE AudioInv'
<1> USE DEF AudioInv, Places, Audio!Started, Audio!shared, Audio!locals, Audio!nodes, Audio!counts
<1>1. CASE Audio!HandlerStops
  <2> USE <1>1 DEF Audio!HandlerStops
  <2>1. AllNamed' /\ OneNamed' BY SameNames DEF ForkNames, ThreadNames, HandlerNames
  <2> QED BY <2>1 DEF StartsAlone, StopsClear, Ended
<1>2. CASE Audio!HandlerCheck
  <2> USE <1>2 DEF Audio!HandlerCheck
  <2>1. Places'
    OBVIOUS
  <2>2. ForkNames' = ForkNames /\ ThreadNames' = ThreadNames
    BY DEF ForkNames, ThreadNames
  <2>3. HandlerNames = {} /\ HandlerNames' = {pid} \ {Audio!NoPid}
    BY DEF HandlerNames
  <2>4. Named' = Named
    BY <2>2, <2>3 DEF Named
  <2> QED BY <2>1, <2>4 DEF AllNamed, OneNamed, StartsAlone, StopsClear, Ended
<1>3. CASE Audio!HandlerClear
  <2> USE <1>3 DEF Audio!HandlerClear
  <2>1. ForkNames' = ForkNames /\ ThreadNames' = ThreadNames /\ killing["handler"] # Audio!NoPid
    BY DEF ForkNames, ThreadNames, StopsClear
  <2>2. HandlerNames = {killing["handler"]} /\ HandlerNames' = HandlerNames
    BY DEF HandlerNames
  <2>3. Named' = Named
    BY <2>1, <2>2 DEF Named, OneNamed
  <2> QED BY <2>3 DEF AllNamed, OneNamed, StartsAlone, StopsClear, Ended
<1>4. CASE Audio!HandlerKill
  <2> USE <1>4 DEF Audio!HandlerKill
  <2>1. ForkNames' = ForkNames /\ ThreadNames' = ThreadNames /\ pid = Audio!NoPid
    BY DEF ForkNames, ThreadNames, StopsClear
  <2>2. HandlerNames = {killing["handler"]} /\ HandlerNames' = {}
    BY DEF HandlerNames
  <2>3. Named' \subseteq Named /\ Named \ {killing["handler"]} \subseteq Named'
    BY <2>1, <2>2 DEF Named
  <2> QED BY <2>3 DEF AllNamed, OneNamed, StartsAlone, StopsClear, Ended
<1> QED BY <1>1, <1>2, <1>3, <1>4 DEF Audio!Handler

\* The supervisor as a whole.
LEMMA SupervisorStep == ASSUME AudioInv, Audio!Supervisor PROVE AudioInv'
<1> USE DEF AudioInv, Places, Audio!OnThread, Audio!Started, Audio!GoTo, Audio!shared,
       Audio!locals, Audio!nodes, Audio!counts, Elsewhere
<1>1. CASE Audio!ForkChild BY <1>1, ForkStep
<1>2. CASE Audio!ForkFailed
  <2> USE <1>2 DEF Audio!ForkFailed
  <2>1. AllNamed' /\ OneNamed' BY SameNames DEF ForkNames, ThreadNames, HandlerNames
  <2> QED BY <2>1 DEF StartsAlone, StopsClear, Ended
<1>3. CASE Audio!PublishPid BY <1>3, PublishStep
<1>4. CASE Audio!LoopTop BY <1>4, LoopMoves DEF Audio!LoopTop
<1>5. CASE Audio!StillRuns BY <1>5, LoopMoves DEF Audio!StillRuns
<1>6. CASE Audio!Reaped BY <1>6, ReapStep
<1>7. CASE Audio!BackoffEnds
  <2>1. CASE ~running BY <1>7, <2>1, LoopMoves DEF Audio!BackoffEnds
  <2>2. CASE running
    <3> USE <1>7, <2>2 DEF Audio!BackoffEnds
    <3>1. AllNamed' /\ OneNamed' BY SameNames DEF ForkNames, ThreadNames, HandlerNames
    <3> QED BY <3>1 DEF StartsAlone, StopsClear, Ended
  <2> QED BY <2>1, <2>2
<1>8. CASE Audio!FindNode BY <1>8, LoopMoves DEF Audio!FindNode
<1>9. CASE Audio!NoNode BY <1>9, LoopMoves DEF Audio!NoNode
<1>10. CASE Audio!NothingToApply BY <1>10, LoopMoves DEF Audio!NothingToApply
<1>11. CASE Audio!TakeDirty BY <1>11, LoopMoves DEF Audio!TakeDirty
<1>12. CASE Audio!ReadVolume BY <1>12, LoopMoves DEF Audio!ReadVolume
<1>13. CASE Audio!ReadMuted BY <1>13, LoopMoves DEF Audio!ReadMuted
<1>14. CASE Audio!Command BY <1>14, LoopMoves DEF Audio!Command
<1>15. CASE Audio!StopCheck \/ Audio!StopClear \/ Audio!StopKill BY <1>15, StopStep
<1> QED
  BY <1>1, <1>2, <1>3, <1>4, <1>5, <1>6, <1>7, <1>8, <1>9, <1>10, <1>11, <1>12, <1>13, <1>14, <1>15
     DEF Audio!Supervisor

\* The main thread ends the program after the supervisor has ended.
LEMMA MainStep ==
    ASSUME AudioInv, Audio!Main \/ Audio!VolumeUp \/ Audio!VolumeDown \/ Audio!MuteKey
        \/ Audio!Quit \/ Audio!Signal
    PROVE  AudioInv'
<1> USE DEF AudioInv, Places, Audio!OnMain, Audio!Started, Audio!KeyPressed, Audio!shared,
       Audio!locals, Audio!nodes, Audio!counts
<1>1. UNCHANGED <<pid, alive, sup, forked, killing>>
  BY DEF Audio!Main, Audio!Unmute, Audio!SetDirty, Audio!LoopEnds, Audio!Join, Audio!VolumeUp,
         Audio!VolumeDown, Audio!MuteKey, Audio!Quit, Audio!Signal
<1>2. /\ handler = "none" /\ handler' \in {"none", "entered"}
      /\ main' = "exited" => sup = "done" /\ handler' = "none"
  BY DEF Audio!Main, Audio!Unmute, Audio!SetDirty, Audio!LoopEnds, Audio!Join, Audio!VolumeUp,
         Audio!VolumeDown, Audio!MuteKey, Audio!Quit, Audio!Signal
<1>3. AllNamed' /\ OneNamed'
  BY <1>1, <1>2, SameNames DEF ForkNames, ThreadNames, HandlerNames
<1> QED BY <1>1, <1>2, <1>3 DEF StartsAlone, StopsClear, Ended

\* A pipeline that ends by itself keeps its names.
LEMMA EndStep == ASSUME AudioInv, Audio!ChildEnds PROVE AudioInv'
<1> USE DEF AudioInv, Places, Audio!ChildEnds, Audio!shared, Audio!locals, Audio!nodes
<1>1. Named' = Named BY DEF Named, ForkNames, ThreadNames, HandlerNames
<1> QED BY <1>1 DEF AllNamed, OneNamed, StartsAlone, StopsClear, Ended

\* The invariant holds throughout.
THEOREM NamesThroughout == Audio!Spec => []AudioInv
<1>1. AudioInv /\ [Audio!Next]_(Audio!vars) => AudioInv'
  <2> SUFFICES ASSUME AudioInv, [Audio!Next]_(Audio!vars) PROVE AudioInv' OBVIOUS
  <2>1. CASE Audio!Supervisor BY <2>1, SupervisorStep
  <2>2. CASE Audio!Handler BY <2>2, HandlerStep
  <2>3. CASE Audio!Main \/ Audio!VolumeUp \/ Audio!VolumeDown \/ Audio!MuteKey \/ Audio!Quit \/ Audio!Signal BY <2>3, MainStep
  <2>4. CASE Audio!ChildEnds BY <2>4, EndStep
  <2>5. CASE UNCHANGED Audio!vars BY <2>5, AudioStutter DEF Audio!vars, Audio!shared, Audio!locals
  <2> QED BY <2>1, <2>2, <2>3, <2>4, <2>5 DEF Audio!Next
<1> QED BY AudioInit, <1>1, PTL DEF Audio!Spec

\* However SIGTERM, a quit and the supervisor meet: when the display engine has
\* ended, no pipeline it started goes on playing.
THEOREM NoOrphanTheorem == Audio!Spec => []Audio!NoOrphan
<1>1. AudioInv => Audio!NoOrphan
  BY DEF AudioInv, Audio!NoOrphan, Ended, AllNamed, Named, ForkNames, ThreadNames, HandlerNames,
         StopsClear
<1> QED BY NamesThroughout, <1>1, PTL

\* The audio's own Cardinality is the same.
LEMMA AudioCardinality == \A S : Audio!Cardinality(S) = Cardinality(S)
BY DEF Audio!Cardinality, Cardinality

\* There are never two pipelines.
THEOREM OnePipelineTheorem == Audio!Spec => []Audio!OnePipeline
<1>1. AudioInv => Audio!OnePipeline
  <2> SUFFICES ASSUME AudioInv PROVE Cardinality(alive) <= 1
    BY AudioCardinality DEF Audio!OnePipeline
  <2>1. CASE alive = {} BY <2>1, FS_EmptySet
  <2>2. ASSUME NEW c \in alive PROVE Cardinality(alive) <= 1
    <3>1. alive = {c} BY <2>2 DEF AudioInv, AllNamed, OneNamed
    <3>2. Cardinality(alive) = 1 BY ONLY <3>1, FS_Singleton, Zenon
    <3> QED BY <3>2
  <2> QED BY <2>1, <2>2
<1> QED BY NamesThroughout, <1>1, PTL

-----------------------------------------------------------------------------

\* The types of what is heard, and of the flags.  The volume that is passed on
\* was read before.
SoundTypes ==
    /\ volume \in 0 .. High /\ lastVolume \in 0 .. High \cup {Audio!Unset}
    /\ nodeVolume \in 0 .. High \cup {Audio!FullVolume}
    /\ node \in Children \cup {Audio!NoPid}
    /\ main \in {"events", "unmute", "dirty", "join", "exited"}
    /\ sup \in {"muted", "command"} => lastVolume \in 0 .. High
SoundFlags ==
    /\ running \in BOOLEAN /\ muted \in BOOLEAN /\ dirty \in BOOLEAN
    /\ lastMuted \in BOOLEAN /\ nodeMuted \in BOOLEAN

\* The supervisor keeps them.
LEMMA SupervisorTypes ==
    ASSUME AudioInv, SoundTypes, SoundFlags,
           Audio!Supervisor
    PROVE  SoundTypes' /\ SoundFlags'
<1> USE DEF Audio!shared, Audio!locals, Audio!nodes, Audio!counts, Audio!GoTo, Audio!OnThread,
           Audio!OnMain, Audio!Started, Audio!KeyPressed
<1>1. CASE Audio!ForkChild
    <2>1. SoundTypes'
        BY <1>1 DEF Audio!ForkChild, SoundTypes, AudioInv, Places
    <2>2. SoundFlags'
        BY <1>1 DEF Audio!ForkChild, SoundFlags
    <2> QED BY <2>1, <2>2
<1>2. CASE Audio!ForkFailed
    <2>1. SoundTypes'
        BY <1>2 DEF Audio!ForkFailed, SoundTypes, AudioInv, Places
    <2>2. SoundFlags'
        BY <1>2 DEF Audio!ForkFailed, SoundFlags
    <2> QED BY <2>1, <2>2
<1>3. CASE Audio!PublishPid
    <2>1. SoundTypes'
        BY <1>3 DEF Audio!PublishPid, SoundTypes, AudioInv, Places
    <2>2. SoundFlags'
        BY <1>3 DEF Audio!PublishPid, SoundFlags
    <2> QED BY <2>1, <2>2
<1>4. CASE Audio!LoopTop
    <2>1. SoundTypes'
        BY <1>4 DEF Audio!LoopTop, SoundTypes, AudioInv, Places
    <2>2. SoundFlags'
        BY <1>4 DEF Audio!LoopTop, SoundFlags
    <2> QED BY <2>1, <2>2
<1>5. CASE Audio!StillRuns
    <2>1. SoundTypes'
        BY <1>5 DEF Audio!StillRuns, SoundTypes, AudioInv, Places
    <2>2. SoundFlags'
        BY <1>5 DEF Audio!StillRuns, SoundFlags
    <2> QED BY <2>1, <2>2
<1>6. CASE Audio!Reaped
    <2>1. SoundTypes'
        BY <1>6 DEF Audio!Reaped, SoundTypes, AudioInv, Places
    <2>2. SoundFlags'
        BY <1>6 DEF Audio!Reaped, SoundFlags
    <2> QED BY <2>1, <2>2
<1>7. CASE Audio!BackoffEnds
    <2>1. SoundTypes'
        BY <1>7 DEF Audio!BackoffEnds, SoundTypes, AudioInv, Places
    <2>2. SoundFlags'
        BY <1>7 DEF Audio!BackoffEnds, SoundFlags
    <2> QED BY <2>1, <2>2
<1>8. CASE Audio!FindNode
    <2>1. SoundTypes'
        BY <1>8 DEF Audio!FindNode, SoundTypes, AudioInv, Places
    <2>2. SoundFlags'
        BY <1>8 DEF Audio!FindNode, SoundFlags
    <2> QED BY <2>1, <2>2
<1>9. CASE Audio!NoNode
    <2>1. SoundTypes'
        BY <1>9 DEF Audio!NoNode, SoundTypes, AudioInv, Places
    <2>2. SoundFlags'
        BY <1>9 DEF Audio!NoNode, SoundFlags
    <2> QED BY <2>1, <2>2
<1>10. CASE Audio!NothingToApply
    <2>1. SoundTypes'
        BY <1>10 DEF Audio!NothingToApply, SoundTypes, AudioInv, Places
    <2>2. SoundFlags'
        BY <1>10 DEF Audio!NothingToApply, SoundFlags
    <2> QED BY <2>1, <2>2
<1>11. CASE Audio!TakeDirty
    <2>1. SoundTypes'
        BY <1>11 DEF Audio!TakeDirty, SoundTypes, AudioInv, Places
    <2>2. SoundFlags'
        BY <1>11 DEF Audio!TakeDirty, SoundFlags
    <2> QED BY <2>1, <2>2
<1>12. CASE Audio!ReadVolume
    <2>1. SoundTypes'
        BY <1>12 DEF Audio!ReadVolume, SoundTypes, AudioInv, Places
    <2>2. SoundFlags'
        BY <1>12 DEF Audio!ReadVolume, SoundFlags
    <2> QED BY <2>1, <2>2
<1>13. CASE Audio!ReadMuted
    <2>1. SoundTypes'
        BY <1>13 DEF Audio!ReadMuted, SoundTypes, AudioInv, Places
    <2>2. SoundFlags'
        BY <1>13 DEF Audio!ReadMuted, SoundFlags
    <2> QED BY <2>1, <2>2
<1>14. CASE Audio!Command
    <2>1. SoundTypes'
        BY <1>14 DEF Audio!Command, SoundTypes, AudioInv, Places
    <2>2. SoundFlags'
        BY <1>14 DEF Audio!Command, SoundFlags
    <2> QED BY <2>1, <2>2
<1>15. CASE Audio!StopCheck
    <2>1. SoundTypes'
        BY <1>15 DEF Audio!StopCheck, SoundTypes, AudioInv, Places
    <2>2. SoundFlags'
        BY <1>15 DEF Audio!StopCheck, SoundFlags
    <2> QED BY <2>1, <2>2
<1>16. CASE Audio!StopClear
    <2>1. SoundTypes'
        BY <1>16 DEF Audio!StopClear, SoundTypes, AudioInv, Places
    <2>2. SoundFlags'
        BY <1>16 DEF Audio!StopClear, SoundFlags
    <2> QED BY <2>1, <2>2
<1>17. CASE Audio!StopKill
    <2>1. SoundTypes'
        BY <1>17 DEF Audio!StopKill, SoundTypes, AudioInv, Places
    <2>2. SoundFlags'
        BY <1>17 DEF Audio!StopKill, SoundFlags
    <2> QED BY <2>1, <2>2
<1> QED
    BY <1>1, <1>2, <1>3, <1>4, <1>5, <1>6, <1>7, <1>8, <1>9, <1>10, <1>11, <1>12, <1>13, <1>14, <1>15, <1>16, <1>17 DEF Audio!Supervisor

\* So do the main thread, its handler and the surroundings.
LEMMA MainTypes ==
    ASSUME AudioInv, SoundTypes, SoundFlags,
           \/ Audio!Handler \/ Audio!Main \/ Audio!VolumeUp \/ Audio!VolumeDown \/ Audio!MuteKey
           \/ Audio!Quit \/ Audio!Signal \/ Audio!ChildEnds
    PROVE  SoundTypes' /\ SoundFlags'
<1> USE DEF Audio!shared, Audio!locals, Audio!nodes, Audio!counts, Audio!GoTo, Audio!OnThread,
           Audio!OnMain, Audio!Started, Audio!KeyPressed
<1>1. CASE Audio!HandlerStops
    <2>1. SoundTypes'
        BY <1>1, AudioAssumption DEF Audio!HandlerStops, SoundTypes, AudioInv, Places
    <2>2. SoundFlags'
        BY <1>1, AudioAssumption DEF Audio!HandlerStops, SoundFlags
    <2> QED BY <2>1, <2>2
<1>2. CASE Audio!HandlerCheck
    <2>1. SoundTypes'
        BY <1>2, AudioAssumption DEF Audio!HandlerCheck, SoundTypes, AudioInv, Places
    <2>2. SoundFlags'
        BY <1>2, AudioAssumption DEF Audio!HandlerCheck, SoundFlags
    <2> QED BY <2>1, <2>2
<1>3. CASE Audio!HandlerClear
    <2>1. SoundTypes'
        BY <1>3, AudioAssumption DEF Audio!HandlerClear, SoundTypes, AudioInv, Places
    <2>2. SoundFlags'
        BY <1>3, AudioAssumption DEF Audio!HandlerClear, SoundFlags
    <2> QED BY <2>1, <2>2
<1>4. CASE Audio!HandlerKill
    <2>1. SoundTypes'
        BY <1>4, AudioAssumption DEF Audio!HandlerKill, SoundTypes, AudioInv, Places
    <2>2. SoundFlags'
        BY <1>4, AudioAssumption DEF Audio!HandlerKill, SoundFlags
    <2> QED BY <2>1, <2>2
<1>5. CASE Audio!Unmute
    <2>1. SoundTypes'
        BY <1>5, AudioAssumption DEF Audio!Unmute, SoundTypes, AudioInv, Places
    <2>2. SoundFlags'
        BY <1>5, AudioAssumption DEF Audio!Unmute, SoundFlags
    <2> QED BY <2>1, <2>2
<1>6. CASE Audio!SetDirty
    <2>1. SoundTypes'
        BY <1>6, AudioAssumption DEF Audio!SetDirty, SoundTypes, AudioInv, Places
    <2>2. SoundFlags'
        BY <1>6, AudioAssumption DEF Audio!SetDirty, SoundFlags
    <2> QED BY <2>1, <2>2
<1>7. CASE Audio!LoopEnds
    <2>1. SoundTypes'
        BY <1>7, AudioAssumption DEF Audio!LoopEnds, SoundTypes, AudioInv, Places
    <2>2. SoundFlags'
        BY <1>7, AudioAssumption DEF Audio!LoopEnds, SoundFlags
    <2> QED BY <2>1, <2>2
<1>8. CASE Audio!Join
    <2>1. SoundTypes'
        BY <1>8, AudioAssumption DEF Audio!Join, SoundTypes, AudioInv, Places
    <2>2. SoundFlags'
        BY <1>8, AudioAssumption DEF Audio!Join, SoundFlags
    <2> QED BY <2>1, <2>2
<1>9. CASE Audio!VolumeUp
    <2>1. SoundTypes'
        BY <1>9, AudioAssumption DEF Audio!VolumeUp, SoundTypes, AudioInv, Places
    <2>2. SoundFlags'
        BY <1>9, AudioAssumption DEF Audio!VolumeUp, SoundFlags
    <2> QED BY <2>1, <2>2
<1>10. CASE Audio!VolumeDown
    <2>1. SoundTypes'
        BY <1>10, AudioAssumption DEF Audio!VolumeDown, SoundTypes, AudioInv, Places
    <2>2. SoundFlags'
        BY <1>10, AudioAssumption DEF Audio!VolumeDown, SoundFlags
    <2> QED BY <2>1, <2>2
<1>11. CASE Audio!MuteKey
    <2>1. SoundTypes'
        BY <1>11, AudioAssumption DEF Audio!MuteKey, SoundTypes, AudioInv, Places
    <2>2. SoundFlags'
        BY <1>11, AudioAssumption DEF Audio!MuteKey, SoundFlags
    <2> QED BY <2>1, <2>2
<1>12. CASE Audio!Quit
    <2>1. SoundTypes'
        BY <1>12, AudioAssumption DEF Audio!Quit, SoundTypes, AudioInv, Places
    <2>2. SoundFlags'
        BY <1>12, AudioAssumption DEF Audio!Quit, SoundFlags
    <2> QED BY <2>1, <2>2
<1>13. CASE Audio!Signal
    <2>1. SoundTypes'
        BY <1>13, AudioAssumption DEF Audio!Signal, SoundTypes, AudioInv, Places
    <2>2. SoundFlags'
        BY <1>13, AudioAssumption DEF Audio!Signal, SoundFlags
    <2> QED BY <2>1, <2>2
<1>14. CASE Audio!ChildEnds
    <2>1. SoundTypes'
        BY <1>14, AudioAssumption DEF Audio!ChildEnds, SoundTypes, AudioInv, Places
    <2>2. SoundFlags'
        BY <1>14, AudioAssumption DEF Audio!ChildEnds, SoundFlags
    <2> QED BY <2>1, <2>2
<1> QED
    BY <1>1, <1>2, <1>3, <1>4, <1>5, <1>6, <1>7, <1>8, <1>9, <1>10, <1>11, <1>12, <1>13, <1>14 DEF Audio!Handler, Audio!Main

\* Every variable of the audio keeps its type.
THEOREM AudioTypesTheorem == Audio!Spec => []Audio!AudioTypeOK
<1>1. Audio!Init => SoundTypes /\ SoundFlags
    BY DEF Audio!Init, SoundTypes, SoundFlags, Audio!Volumes
<1>2. AudioInv /\ SoundTypes /\ SoundFlags /\ [Audio!Next]_(Audio!vars)
          => SoundTypes' /\ SoundFlags'
    <2> SUFFICES ASSUME AudioInv, SoundTypes, SoundFlags, [Audio!Next]_(Audio!vars)
                 PROVE  SoundTypes' /\ SoundFlags'
        OBVIOUS
    <2>1. CASE UNCHANGED Audio!vars
        BY <2>1 DEF Audio!vars, Audio!shared, Audio!locals, Audio!nodes, SoundTypes, SoundFlags
    <2>2. CASE Audio!Next
        BY <2>2, SupervisorTypes, MainTypes DEF Audio!Next
    <2> QED BY <2>1, <2>2
<1>3. AudioInv /\ SoundTypes /\ SoundFlags => Audio!AudioTypeOK
    <2> SUFFICES ASSUME AudioInv, SoundTypes, SoundFlags PROVE Audio!AudioTypeOK
        OBVIOUS
    <2>1. alive \subseteq Children
        BY DEF AudioInv, AllNamed, Named, Places, ForkNames, ThreadNames, HandlerNames
    <2> QED
        BY <2>1 DEF AudioInv, Places, SoundTypes, SoundFlags, Audio!AudioTypeOK, Audio!Volumes
<1> QED BY NamesThroughout, <1>1, <1>2, <1>3, PTL DEF Audio!Spec

-----------------------------------------------------------------------------
(* The hub *)

\* Every display engine that runs is the one mpv_proc names, or will name once
\* start returns; without one the streamer neither runs nor starts.
HubOwned ==
    /\ hub # "exited" => hub_alive \subseteq {proc} \ {Hub!NoProcess}
    /\ hub # "exited" /\ ~isRunning /\ ~hub_starting => proc = Hub!NoProcess
    /\ hub_starting \/ hub = "cli" => ~isRunning
OneAtMost == \A p, q \in hub_alive : p = q
\* What starts was told the preset of the box, which cannot change meanwhile.
HubPreset == hub = "loop" /\ (isRunning \/ hub_starting) => played = combo

HubInv == HubOwned /\ OneAtMost /\ HubPreset

-----------------------------------------------------------------------------

\* The hub starts with nothing running.
LEMMA HubInit == Hub!Init => HubInv
BY DEF Hub!Init, HubInv, HubOwned, OneAtMost, HubPreset

\* After stop nothing runs.
LEMMA HubStopped ==
    ASSUME HubInv, Hub!StopStreamer, hub # "exited", ~hub_starting
    PROVE  hub_alive' = {} /\ proc' = Hub!NoProcess /\ ~isRunning' /\ ~hub_starting'
BY DEF HubInv, HubOwned, Hub!StopStreamer

\* A start leaves at most the new display engine, told the right preset.
LEMMA HubStartsOne ==
    ASSUME HubInv, NEW preset, Hub!Start(preset), hub # "exited", ~hub_starting,
         ~isRunning
    PROVE  /\ hub_alive' \subseteq {proc'} \ {Hub!NoProcess}
           /\ ~isRunning'
           /\ ~hub_starting' => proc' = Hub!NoProcess
           /\ hub_starting' => played' = preset
<1>1. hub_alive = {} /\ proc = Hub!NoProcess
  BY DEF HubInv, HubOwned
<1>2. CASE Hub!ForkDisplay(preset)
  BY <1>1, <1>2, HubAssumption DEF Hub!ForkDisplay
<1>3. CASE Hub!StartFails
  BY <1>1, <1>3 DEF Hub!StartFails
<1> QED BY <1>2, <1>3 DEF Hub!Start

\* start_gaming_screen, wherever it is called from.
LEMMA HubScreens ==
    ASSUME HubInv, Hub!StartScreen, Hub!InLoop, UNCHANGED <<hub, combo>>
    PROVE  HubInv'
<1>1. CASE isRunning
  BY <1>1 DEF Hub!StartScreen, Hub!streamer, HubInv, HubOwned, OneAtMost, HubPreset
<1>2. CASE ~isRunning
  <2>1. Hub!Start(combo) BY <1>2 DEF Hub!StartScreen
  <2> QED BY <2>1, <1>2, HubStartsOne DEF Hub!InLoop, HubInv, HubOwned, OneAtMost, HubPreset
<1> QED BY <1>1, <1>2

\* stop, wherever it is called from.
LEMMA HubStops ==
    ASSUME HubInv, Hub!StopStreamer, hub # "exited", ~hub_starting
    PROVE  HubInv'
BY HubStopped DEF HubInv, HubOwned, OneAtMost, HubPreset

\* Steps that leave the streamer, the box and the place alone.
LEMMA HubStutter ==
    ASSUME HubInv, UNCHANGED <<hub, hub_starting, isRunning, proc, hub_alive, played, combo>>
    PROVE  HubInv'
BY DEF HubInv, HubOwned, OneAtMost, HubPreset

\* Every step keeps the invariant.
LEMMA HubNext == ASSUME HubInv, [Hub!Next]_(Hub!vars) PROVE HubInv'
<1> USE DEF Hub!External, Hub!streamer
<1>1. CASE Hub!Started
  BY <1>1 DEF Hub!Started, HubInv, HubOwned, OneAtMost, HubPreset
<1>2. CASE Hub!ToggleStream
  <2>1. CASE isRunning BY <1>2, <2>1, HubStops DEF Hub!ToggleStream, Hub!Click, Hub!InLoop
  <2>2. CASE ~isRunning BY <1>2, <2>2, HubScreens DEF Hub!ToggleStream, Hub!Click
  <2> QED BY <2>1, <2>2
<1>3. CASE Hub!StartTimer BY <1>3, HubScreens DEF Hub!StartTimer
<1>4. CASE Hub!ChangePreset
  <2>1. CASE isRunning BY <1>4, <2>1, HubStops DEF Hub!ChangePreset, Hub!Click, Hub!InLoop
  <2>2. CASE ~isRunning
    BY <1>4, <2>2 DEF Hub!ChangePreset, Hub!Click, Hub!InLoop, HubInv, HubOwned, OneAtMost,
         HubPreset
  <2> QED BY <2>1, <2>2
<1>5. CASE Hub!ForceResync
  <2>1. CASE isRunning BY <1>5, <2>1, HubStops DEF Hub!ForceResync, Hub!Click, Hub!InLoop
  <2>2. CASE ~isRunning BY <1>5, <2>2, HubStutter DEF Hub!ForceResync
  <2> QED BY <2>1, <2>2
<1>6. CASE Hub!ResyncDone BY <1>6, HubStutter DEF Hub!ResyncDone
<1>7. CASE Hub!WaitAndRestart
  <2>1. PICK c \in Chains :
            IF isRunning \/ Hub!SignalActive \/ waiting[c] = 1
            THEN waiting' = [waiting EXCEPT ![c] = 0] /\ Hub!StartScreen
            ELSE waiting' = [waiting EXCEPT ![c] = @ - 1] /\ UNCHANGED Hub!streamer
    BY <1>7 DEF Hub!WaitAndRestart
  <2>2. CASE Hub!StartScreen BY <1>7, <2>2, HubScreens DEF Hub!WaitAndRestart
  <2>3. CASE UNCHANGED Hub!streamer BY <1>7, <2>3, HubStutter DEF Hub!WaitAndRestart
  <2> QED BY <2>1, <2>2, <2>3
<1>8. CASE Hub!UpdateStatus
  <2>1. CASE proc \in hub_alive BY <1>8, <2>1, HubStutter DEF Hub!UpdateStatus, Hub!Poll
  <2>2. CASE proc \notin hub_alive
    BY <1>8, <2>2, HubStops DEF Hub!UpdateStatus, Hub!Poll, Hub!InLoop
  <2> QED BY <2>1, <2>2
<1>9. CASE Hub!CloseWindow BY <1>9, HubStops DEF Hub!CloseWindow, Hub!InLoop
<1>10. CASE Hub!CliStart
  <2>1. Hub!Start(combo) /\ hub # "exited" /\ ~hub_starting /\ ~isRunning
    BY <1>10 DEF Hub!CliStart, Hub!Start, HubInv, HubOwned
  <2>2. combo' = combo /\ hub' \in {"cli", "exited"} /\ hub = "cli"
    BY <1>10 DEF Hub!CliStart, Hub!window
  <2> QED BY <2>1, <2>2, HubStartsOne DEF HubInv, HubOwned, OneAtMost, HubPreset
<1>11. CASE Hub!CliPoll
  <2>1. CASE proc \in hub_alive
    BY <1>11, <2>1, HubStutter DEF Hub!CliPoll, Hub!Poll, Hub!window
  <2>2. CASE proc \notin hub_alive
    BY <1>11, <2>2 DEF Hub!CliPoll, Hub!Poll, Hub!StopStreamer, HubInv, HubOwned, OneAtMost,
         HubPreset
  <2> QED BY <2>1, <2>2
<1>12. CASE Hub!Interrupt
  <2> USE <1>12 DEF Hub!Interrupt
  <2>1. hub' = "exited" /\ hub_alive' \subseteq hub_alive /\ ~hub_starting'
    BY DEF Hub!StopStreamer
  <2> QED BY <2>1 DEF HubInv, HubOwned, OneAtMost, HubPreset
<1>13. CASE Hub!DisplayEnds
  BY <1>13 DEF Hub!DisplayEnds, Hub!window, HubInv, HubOwned, OneAtMost, HubPreset
<1>14. CASE Hub!DeviceChanges BY <1>14, HubStutter DEF Hub!DeviceChanges, Hub!window
<1>15. CASE UNCHANGED Hub!vars BY <1>15, HubStutter DEF Hub!vars, Hub!window
<1> QED
  BY <1>1, <1>2, <1>3, <1>4, <1>5, <1>6, <1>7, <1>8, <1>9, <1>10, <1>11, <1>12, <1>13, <1>14, <1>15
     DEF Hub!Next

\* The invariant holds throughout.
THEOREM OwnedThroughout == Hub!Spec => []HubInv
<1>1. HubInv /\ [Hub!Next]_(Hub!vars) => HubInv' BY HubNext
<1> QED BY HubInit, <1>1, PTL DEF Hub!Spec

\* The hub counts with Cardinality.
LEMMA SameCardinality == \A S : Hub!Cardinality(S) = Cardinality(S)
BY DEF Hub!Cardinality, Cardinality

\* Clicks, timers and re-syncs never have two display engines running.
THEOREM OneDisplayTheorem == Hub!Spec => []Hub!OneDisplay
<1>1. HubInv => Hub!OneDisplay
  <2> SUFFICES ASSUME HubInv PROVE Cardinality(hub_alive) <= 1
    BY SameCardinality DEF Hub!OneDisplay
  <2>1. CASE hub_alive = {} BY <2>1, FS_EmptySet
  <2>2. ASSUME NEW p \in hub_alive PROVE Cardinality(hub_alive) <= 1
    <3>1. hub_alive = {p} BY <2>2 DEF HubInv, OneAtMost
    <3>2. Cardinality(hub_alive) = 1 BY ONLY <3>1, FS_Singleton, Zenon
    <3> QED BY <3>2
  <2> QED BY <2>1, <2>2
<1> QED BY OwnedThroughout, <1>1, PTL

\* What plays was started with the preset of the box.
THEOREM PresetPlayedTheorem == Hub!Spec => []Hub!PresetPlayed
<1>1. HubInv => Hub!PresetPlayed BY DEF HubInv, HubPreset, Hub!PresetPlayed
<1> QED BY OwnedThroughout, <1>1, PTL

\* Unless Ctrl+C arrives while it is being started, no display engine is left
\* when the hub has ended.
THEOREM NothingLeftTheorem == ASSUME ~InterruptStart
    PROVE  Hub!Spec => []Hub!NothingLeft
<1>1. Hub!Init => Hub!NothingLeft
  BY DEF Hub!Init, Hub!NothingLeft
<1>2. HubInv /\ Hub!NothingLeft /\ [Hub!Next]_(Hub!vars) => Hub!NothingLeft'
  <2> SUFFICES ASSUME HubInv, Hub!NothingLeft, [Hub!Next]_(Hub!vars),
       hub' = "exited" PROVE hub_alive' = {}
    BY DEF Hub!NothingLeft
  <2>1. CASE hub = "exited"
    <3>1. hub_alive = {} BY <2>1 DEF Hub!NothingLeft
    <3>2. hub_alive' \subseteq hub_alive
      BY <2>1 DEF Hub!Next, Hub!vars, Hub!streamer, Hub!External, Hub!InLoop, Hub!Click,
           Hub!Started, Hub!ToggleStream, Hub!StartTimer,
         Hub!ChangePreset, Hub!ForceResync, Hub!ResyncDone, Hub!WaitAndRestart, Hub!UpdateStatus,
              Hub!CloseWindow, Hub!CliStart,
         Hub!CliPoll, Hub!Interrupt, Hub!DisplayEnds, Hub!DeviceChanges
    <3> QED BY <3>1, <3>2
  <2>2. CASE hub # "exited"
    <3>1. Hub!CloseWindow \/ Hub!CliStart \/ Hub!CliPoll \/ Hub!Interrupt
      BY <2>2 DEF Hub!Next, Hub!vars, Hub!External, Hub!InLoop, Hub!Click, Hub!Started,
           Hub!ToggleStream, Hub!StartTimer,
         Hub!ChangePreset, Hub!ForceResync, Hub!ResyncDone, Hub!WaitAndRestart, Hub!UpdateStatus,
              Hub!DisplayEnds, Hub!DeviceChanges
    <3>2. CASE Hub!CloseWindow BY <2>2, <3>2, HubStopped DEF Hub!CloseWindow, Hub!InLoop
    <3>3. CASE Hub!CliStart
      BY <2>2, <3>3 DEF Hub!CliStart, Hub!StartFails, HubInv, HubOwned
    <3>4. CASE Hub!CliPoll
      BY <2>2, <3>4 DEF Hub!CliPoll, Hub!Poll, Hub!StopStreamer, HubInv, HubOwned
    <3>5. CASE Hub!Interrupt
      BY <2>2, <3>5 DEF Hub!Interrupt, Hub!StopStreamer, HubInv, HubOwned
    <3> QED BY <3>1, <3>2, <3>3, <3>4, <3>5
  <2> QED BY <2>1, <2>2
<1> QED BY OwnedThroughout, <1>1, <1>2, PTL DEF Hub!Spec

-----------------------------------------------------------------------------

\* The types of the hub; that of a process id is all that counts of played.
HubTypes ==
    /\ hub \in {"loop", "cli", "polling", "exited"} /\ label \in {"start", "stop"}
    /\ proc \in Processes \cup {Hub!NoProcess} /\ hub_alive \subseteq Processes
    /\ played \in BoxPresets /\ combo \in BoxPresets
    /\ timers \in 0 .. MaxTimers /\ waiting \in [Chains -> 0 .. Attempts]
HubFlags ==
    /\ hub_starting \in BOOLEAN /\ isRunning \in BOOLEAN /\ failed \in BOOLEAN
    /\ resyncing \in BOOLEAN /\ device \in BOOLEAN /\ native \in BOOLEAN

\* Every step keeps them.
LEMMA HubTypesStep ==
    ASSUME HubTypes, HubFlags, [Hub!Next]_(Hub!vars)
    PROVE  HubTypes' /\ HubFlags'
<1> USE DEF Hub!streamer, Hub!window, Hub!External, Hub!InLoop, Hub!Click, Hub!StartScreen,
           Hub!Start, Hub!ForkDisplay, Hub!StartFails, Hub!StopStreamer, Hub!Poll
<1>1. CASE Hub!Started
    <2>1. HubTypes'
        BY <1>1, HubAssumption DEF Hub!Started, HubTypes
    <2>2. HubFlags'
        BY <1>1 DEF Hub!Started, HubFlags
    <2> QED BY <2>1, <2>2
<1>2. CASE Hub!ToggleStream
    <2>1. HubTypes'
        BY <1>2, HubAssumption DEF Hub!ToggleStream, HubTypes
    <2>2. HubFlags'
        BY <1>2 DEF Hub!ToggleStream, HubFlags
    <2> QED BY <2>1, <2>2
<1>3. CASE Hub!StartTimer
    <2>1. HubTypes'
        BY <1>3, HubAssumption DEF Hub!StartTimer, HubTypes
    <2>2. HubFlags'
        BY <1>3 DEF Hub!StartTimer, HubFlags
    <2> QED BY <2>1, <2>2
<1>4. CASE Hub!ChangePreset
    <2>1. HubTypes'
        BY <1>4, HubAssumption DEF Hub!ChangePreset, HubTypes
    <2>2. HubFlags'
        BY <1>4 DEF Hub!ChangePreset, HubFlags
    <2> QED BY <2>1, <2>2
<1>5. CASE Hub!ForceResync
    <2>1. HubTypes'
        BY <1>5, HubAssumption DEF Hub!ForceResync, HubTypes
    <2>2. HubFlags'
        BY <1>5 DEF Hub!ForceResync, HubFlags
    <2> QED BY <2>1, <2>2
<1>6. CASE Hub!ResyncDone
    <2>1. HubTypes'
        BY <1>6, HubAssumption DEF Hub!ResyncDone, HubTypes
    <2>2. HubFlags'
        BY <1>6 DEF Hub!ResyncDone, HubFlags
    <2> QED BY <2>1, <2>2
<1>7. CASE Hub!WaitAndRestart
    <2>1. HubTypes'
        BY <1>7, HubAssumption DEF Hub!WaitAndRestart, HubTypes
    <2>2. HubFlags'
        BY <1>7 DEF Hub!WaitAndRestart, HubFlags
    <2> QED BY <2>1, <2>2
<1>8. CASE Hub!UpdateStatus
    <2>1. HubTypes'
        BY <1>8, HubAssumption DEF Hub!UpdateStatus, HubTypes
    <2>2. HubFlags'
        BY <1>8 DEF Hub!UpdateStatus, HubFlags
    <2> QED BY <2>1, <2>2
<1>9. CASE Hub!CloseWindow
    <2>1. HubTypes'
        BY <1>9, HubAssumption DEF Hub!CloseWindow, HubTypes
    <2>2. HubFlags'
        BY <1>9 DEF Hub!CloseWindow, HubFlags
    <2> QED BY <2>1, <2>2
<1>10. CASE Hub!CliStart
    <2>1. HubTypes'
        BY <1>10, HubAssumption DEF Hub!CliStart, HubTypes
    <2>2. HubFlags'
        BY <1>10 DEF Hub!CliStart, HubFlags
    <2> QED BY <2>1, <2>2
<1>11. CASE Hub!CliPoll
    <2>1. HubTypes'
        BY <1>11, HubAssumption DEF Hub!CliPoll, HubTypes
    <2>2. HubFlags'
        BY <1>11 DEF Hub!CliPoll, HubFlags
    <2> QED BY <2>1, <2>2
<1>12. CASE Hub!Interrupt
    <2>1. HubTypes'
        BY <1>12, HubAssumption DEF Hub!Interrupt, HubTypes
    <2>2. HubFlags'
        BY <1>12 DEF Hub!Interrupt, HubFlags
    <2> QED BY <2>1, <2>2
<1>13. CASE Hub!DisplayEnds
    <2>1. HubTypes'
        BY <1>13, HubAssumption DEF Hub!DisplayEnds, HubTypes
    <2>2. HubFlags'
        BY <1>13 DEF Hub!DisplayEnds, HubFlags
    <2> QED BY <2>1, <2>2
<1>14. CASE Hub!DeviceChanges
    <2>1. HubTypes'
        BY <1>14, HubAssumption DEF Hub!DeviceChanges, HubTypes
    <2>2. HubFlags'
        BY <1>14 DEF Hub!DeviceChanges, HubFlags
    <2> QED BY <2>1, <2>2
<1>15. CASE UNCHANGED Hub!vars
    BY <1>15 DEF Hub!vars, HubTypes, HubFlags
<1> QED
    BY <1>1, <1>2, <1>3, <1>4, <1>5, <1>6, <1>7, <1>8, <1>9, <1>10, <1>11, <1>12, <1>13, <1>14, <1>15 DEF Hub!Next

\* Every variable of the hub keeps its type.
THEOREM HubTypesTheorem == Hub!Spec => []Hub!HubTypeOK
<1>1. Hub!Init => HubTypes /\ HubFlags
    <2> SUFFICES ASSUME Hub!Init PROVE HubTypes /\ HubFlags
        OBVIOUS
    <2>1. timers \in {0, 1}
        BY DEF Hub!Init
    <2>2. timers \in 0 .. MaxTimers
        BY <2>1, HubAssumption
    <2>3. waiting \in [Chains -> 0 .. Attempts]
        BY HubAssumption DEF Hub!Init
    <2> QED BY <2>2, <2>3 DEF Hub!Init, HubTypes, HubFlags
<1>2. HubTypes /\ HubFlags /\ [Hub!Next]_(Hub!vars) => HubTypes' /\ HubFlags'
    BY HubTypesStep
<1>3. HubTypes /\ HubFlags => Hub!HubTypeOK
    BY DEF HubTypes, HubFlags, Hub!HubTypeOK
<1> QED BY <1>1, <1>2, <1>3, PTL DEF Hub!Spec

-----------------------------------------------------------------------------

\* However clicks, timers, signals and ends of children meet: one display engine
\* and one pipeline, of the preset shown, and none outlives its program, unless
\* Ctrl+C arrives while it is being started.
THEOREM HostSoundTheorem == ASSUME ~InterruptStart PROVE HostSpec => []HostSound
<1> QED
    BY AudioTypesTheorem, NoOrphanTheorem, OnePipelineTheorem, HubTypesTheorem, OneDisplayTheorem,
       PresetPlayedTheorem, NothingLeftTheorem, PTL DEF HostSpec, HostSound
=============================================================================
