------------------------------ MODULE AudioDma ------------------------------
(***************************************************************************)
(* The audio DMA engines of open_gc573 (gc573-dma.c): HDMI audio and       *)
(* line-in, each with a ring of completed buffers between the interrupt    *)
(* handler and a work item.  control_lock serializes starts and stops of   *)
(* both; ctl is the place its holder has reached, eng the engine it works  *)
(* on.  A step is a critical section of state_lock, a group of register    *)
(* accesses, or a call.                                                    *)
(***************************************************************************)
EXTENDS Integers, FiniteSets

CONSTANTS
    Streams,        \* the engines
    RingLen,        \* GC555_AUDIO_DONE_QUEUE_LENGTH
    CanLose         \* TRUE: the card may vanish

ASSUME StreamsAssumption == Streams # {}
ASSUME RingAssumption == RingLen \in Nat /\ RingLen > 1
ASSUME CanLoseAssumption == CanLose \in BOOLEAN

VARIABLES
    \* control_lock; the teardown, and the engines it has left to quiesce
    ctl, eng, gone, left,
    \* struct gc555_audio_dma
    buffers, streaming, head, tail, sched,
    \* the work item: queued, and its place
    queued, workPc,
    \* the hardware: stream enable, interrupt status; the interrupt enable is
    \* left out, because a shared vector runs the handler without it
    enabled, pending, lost,
    \* the interrupt handler: place, status read, work to schedule
    irqPc, irqSeen, irqKick

ctlVars  == <<ctl, eng, gone, left>>
ringVars == <<streaming, head, tail, sched>>
workVars == <<queued, workPc>>
hwVars   == <<enabled, pending, lost>>
irqVars  == <<irqPc, irqSeen, irqKick>>
vars     == <<ctlVars, buffers, ringVars, workVars, hwVars, irqVars>>

\* The places of a quiesce, from the flag to the reset of the state.
Quiescing == {"quiesce", "mask", "sync", "cancel", "flush", "clear"}

\* The types; the ring indexes stay inside the ring.
TypeOK ==
    /\ ctl \in {"free", "setup", "publish", "enable", "cleanup"}
               \cup Quiescing
    /\ eng \in Streams /\ gone \in {"no", "going", "gone"}
    /\ left \subseteq Streams
    /\ buffers \in [Streams -> BOOLEAN]
    /\ streaming \in [Streams -> BOOLEAN]
    /\ head \in [Streams -> 0 .. RingLen - 1]
    /\ tail \in [Streams -> 0 .. RingLen - 1]
    /\ sched \in [Streams -> BOOLEAN]
    /\ queued \in [Streams -> BOOLEAN]
    /\ workPc \in [Streams -> {"idle", "take", "call"}]
    /\ enabled \in [Streams -> BOOLEAN]
    /\ pending \subseteq Streams /\ lost \in BOOLEAN
    /\ irqPc \in {"idle", "audio", "ack", "kick"}
    /\ irqSeen \subseteq Streams /\ irqKick \subseteq Streams

Init ==
    /\ ctl = "free" /\ eng \in Streams /\ gone = "no" /\ left = {}
    /\ buffers = [s \in Streams |-> FALSE]
    /\ streaming = [s \in Streams |-> FALSE]
    /\ head = [s \in Streams |-> 0] /\ tail = [s \in Streams |-> 0]
    /\ sched = [s \in Streams |-> FALSE]
    /\ queued = [s \in Streams |-> FALSE]
    /\ workPc = [s \in Streams |-> "idle"]
    /\ enabled = [s \in Streams |-> FALSE]
    /\ pending = {} /\ lost = FALSE
    /\ irqPc = "idle" /\ irqSeen = {} /\ irqKick = {}

\* f with its value for the engine in hand replaced.
For(f, v) == [f EXCEPT ![eng] = v]

\* gc555_dma_disable_audio_locked on the registers, and the start's first
\* writes: stream and interrupt off, an old completion acknowledged.  A write
\* to a lost device does nothing.
Disable ==
    IF lost THEN UNCHANGED hwVars
    ELSE /\ enabled' = For(enabled, FALSE)
         /\ pending' = pending \ {eng} /\ UNCHANGED lost

-----------------------------------------------------------------------------
(* gc555_dma_start_audio, gc555_dma_start_line_audio                        *)

\* The format is valid, nobody streams, and the two buffers are there.
StartBegin(s) ==
    /\ ctl = "free" /\ gone = "no" /\ ~streaming[s]
    /\ eng' = s /\ ctl' = "setup"
    /\ buffers' = [buffers EXCEPT ![s] = TRUE]
    /\ UNCHANGED <<gone, left, ringVars, workVars, hwVars, irqVars>>

\* Registers off, buffers cleared, format and addresses written, and the
\* interrupt armed 100 ms before the stream.
StartSetup ==
    /\ ctl = "setup"
    /\ Disable
    /\ ctl' = IF lost THEN "quiesce" ELSE "publish"
    /\ UNCHANGED <<eng, gone, left, buffers, ringVars, workVars, irqVars>>

StartPublish ==
    /\ ctl = "publish"
    /\ head' = For(head, 0) /\ tail' = For(tail, 0)
    /\ sched' = For(sched, FALSE) /\ streaming' = For(streaming, TRUE)
    /\ ctl' = "enable"
    /\ UNCHANGED <<eng, gone, left, buffers, workVars, hwVars, irqVars>>

StartEnable ==
    /\ ctl = "enable"
    /\ enabled' = IF lost THEN enabled ELSE For(enabled, TRUE)
    /\ ctl' = IF lost THEN "quiesce" ELSE "free"
    /\ UNCHANGED <<eng, gone, left, buffers, ringVars, workVars, pending,
                   lost, irqVars>>

-----------------------------------------------------------------------------
(* gc555_dma_stop_audio, gc555_dma_stop_line_audio, and the quiesce that    *)
(* stop, rollback and cleanup share                                         *)

StopBegin(s) ==
    /\ ctl = "free" /\ gone = "no" /\ streaming[s]
    /\ eng' = s /\ ctl' = "quiesce"
    /\ UNCHANGED <<gone, left, buffers, ringVars, workVars, hwVars, irqVars>>

\* First the flag, so that the handler queues no more ...
QuiesceFlag ==
    /\ ctl = "quiesce"
    /\ streaming' = For(streaming, FALSE)
    /\ ctl' = "mask"
    /\ UNCHANGED <<eng, gone, left, buffers, head, tail, sched, workVars, hwVars,
                   irqVars>>

\* ... then the registers ...
QuiesceMask ==
    /\ ctl = "mask"
    /\ Disable
    /\ ctl' = "sync"
    /\ UNCHANGED <<eng, gone, left, buffers, ringVars, workVars, irqVars>>

\* Mutant: a handler in progress is not waited for.
SynchronizeIrq_Skipped ==
    /\ ctl = "sync"
    /\ ctl' = "cancel"
    /\ UNCHANGED <<eng, gone, left, buffers, ringVars, workVars, hwVars, irqVars>>

\* ... then a handler that saw the flag set ...
SynchronizeIrq ==
    /\ ctl = "sync" /\ irqPc = "idle"
    /\ ctl' = "cancel"
    /\ UNCHANGED <<eng, gone, left, buffers, ringVars, workVars, hwVars, irqVars>>

\* Mutant: cancel_work instead of cancel_work_sync.
CancelWork_NoSync ==
    /\ ctl = "cancel"
    /\ queued' = For(queued, FALSE)
    /\ ctl' = "clear"
    /\ UNCHANGED <<eng, gone, left, buffers, ringVars, workPc, hwVars, irqVars>>

\* ... then the work item, which is taken off its queue and waited for.
CancelWork ==
    /\ ctl = "cancel"
    /\ queued' = For(queued, FALSE)
    /\ ctl' = "flush"
    /\ UNCHANGED <<eng, gone, left, buffers, ringVars, workPc, hwVars, irqVars>>

FlushWork ==
    /\ ctl = "flush" /\ workPc[eng] = "idle"
    /\ ctl' = "clear"
    /\ UNCHANGED <<eng, gone, left, buffers, ringVars, workVars, hwVars, irqVars>>

\* The engine is reset and the state cleared.
ClearState ==
    /\ ctl = "clear"
    /\ head' = For(head, 0) /\ tail' = For(tail, 0)
    /\ sched' = For(sched, FALSE) /\ streaming' = For(streaming, FALSE)
    /\ ctl' = IF gone = "going" THEN "cleanup" ELSE "free"
    /\ UNCHANGED <<eng, gone, left, buffers, workVars, hwVars, irqVars>>

\* gc555_dma_cleanup: quiesce what has buffers, ...
CleanupBegin ==
    /\ ctl = "free" /\ gone = "no"
    /\ ctl' = "cleanup" /\ gone' = "going"
    /\ left' = {s \in Streams : buffers[s] \/ streaming[s]}
    /\ UNCHANGED <<eng, buffers, ringVars, workVars, hwVars, irqVars>>

CleanupNext(s) ==
    /\ ctl = "cleanup" /\ s \in left
    /\ eng' = s /\ ctl' = "quiesce" /\ left' = left \ {s}
    /\ UNCHANGED <<gone, buffers, ringVars, workVars, hwVars, irqVars>>

\* ... release the interrupt, and only then the buffers.
CleanupFree ==
    /\ ctl = "cleanup" /\ left = {} /\ irqPc = "idle" /\ gone = "going"
    /\ gone' = "gone"
    /\ buffers' = [s \in Streams |-> FALSE]
    /\ UNCHANGED <<ctl, eng, left, ringVars, workVars, hwVars, irqVars>>

-----------------------------------------------------------------------------
(* The interrupt handler (gc555_dma_irq), its audio part                    *)

\* It runs for a completion, or finds it when it runs for another source.
IrqRead ==
    /\ irqPc = "idle" /\ gone # "gone" /\ ~lost /\ pending # {}
    /\ irqSeen' = pending /\ irqPc' = "audio"
    /\ UNCHANGED <<ctlVars, buffers, ringVars, workVars, hwVars, irqKick>>

\* gc555_dma_audio_done_locked up to the decision to queue
Counts(s) == s \in irqSeen /\ streaming[s]

Next1(i) == (i + 1) % RingLen

Full(s) == Next1(head[s]) = tail[s]

\* gc555_dma_queue_audio_locked for the engines of ok, whose channel code was
\* one of the two: a full ring drops the completion, and work is scheduled
\* once.  Under state_lock, for both engines at once.
IrqAudio ==
    /\ irqPc = "audio" /\ irqPc' = "ack"
    /\ \E ok \in SUBSET {s \in Streams : Counts(s)} :
         LET in == {s \in ok : ~Full(s)} IN
         /\ lost => ok = {}
         /\ head' = [s \in Streams |->
                        IF s \in in THEN Next1(head[s]) ELSE head[s]]
         /\ sched' = [s \in Streams |-> sched[s] \/ s \in in]
         /\ irqKick' = {s \in in : ~sched[s]}
    /\ UNCHANGED <<ctlVars, buffers, streaming, tail, workVars, hwVars,
                   irqSeen>>

\* What was read at the start is acknowledged, newer completions included.
IrqAck ==
    /\ irqPc = "ack" /\ irqPc' = "kick"
    /\ pending' = IF lost THEN pending ELSE pending \ irqSeen
    /\ UNCHANGED <<ctlVars, buffers, ringVars, workVars, enabled, lost,
                   irqSeen, irqKick>>

IrqKick ==
    /\ irqPc = "kick" /\ irqPc' = "idle"
    /\ queued' = [s \in Streams |-> queued[s] \/ s \in irqKick]
    /\ irqSeen' = {} /\ irqKick' = {}
    /\ UNCHANGED <<ctlVars, buffers, ringVars, workPc, hwVars>>

-----------------------------------------------------------------------------
(* The work item (gc555_dma_audio_work)                                     *)

WorkStart(s) ==
    /\ queued[s] /\ workPc[s] = "idle"
    /\ queued' = [queued EXCEPT ![s] = FALSE]
    /\ workPc' = [workPc EXCEPT ![s] = "take"]
    /\ UNCHANGED <<ctlVars, buffers, ringVars, hwVars, irqVars>>

\* Mutant: the work leaves with the flag set.
WorkExit_Flagged(s) ==
    /\ workPc[s] = "take" /\ tail[s] = head[s]
    /\ workPc' = [workPc EXCEPT ![s] = "idle"]
    /\ UNCHANGED <<ctlVars, buffers, ringVars, queued, hwVars, irqVars>>

\* The ring is empty.
WorkExit(s) ==
    /\ workPc[s] = "take" /\ tail[s] = head[s]
    /\ sched' = [sched EXCEPT ![s] = FALSE]
    /\ workPc' = [workPc EXCEPT ![s] = "idle"]
    /\ UNCHANGED <<ctlVars, buffers, streaming, head, tail, queued, hwVars,
                   irqVars>>

\* A completion is taken, and delivered if the stream still runs.
WorkTake(s) ==
    /\ workPc[s] = "take" /\ tail[s] # head[s]
    /\ tail' = [tail EXCEPT ![s] = Next1(@)]
    /\ workPc' = IF streaming[s] /\ buffers[s]
                 THEN [workPc EXCEPT ![s] = "call"] ELSE workPc
    /\ UNCHANGED <<ctlVars, buffers, streaming, head, sched, queued, hwVars,
                   irqVars>>

\* The data callback, made without a lock, returns.
WorkCall(s) ==
    /\ workPc[s] = "call"
    /\ workPc' = [workPc EXCEPT ![s] = "take"]
    /\ UNCHANGED <<ctlVars, buffers, ringVars, queued, hwVars, irqVars>>

-----------------------------------------------------------------------------
(* The hardware (external)                                                  *)

\* A buffer is full: the status bit is set, whether the last one was seen or
\* not.
Complete(s) ==
    /\ enabled[s] /\ ~lost
    /\ pending' = pending \cup {s}
    /\ UNCHANGED <<ctlVars, buffers, ringVars, workVars, enabled, lost,
                   irqVars>>

LoseDevice ==
    /\ CanLose /\ ~lost
    /\ lost' = TRUE
    /\ UNCHANGED <<ctlVars, buffers, ringVars, workVars, enabled, pending, irqVars>>

-----------------------------------------------------------------------------

Call == CleanupBegin \/ \E s \in Streams : StartBegin(s) \/ StopBegin(s)

Holder ==
    \/ StartSetup \/ StartPublish \/ StartEnable
    \/ QuiesceFlag \/ QuiesceMask \/ SynchronizeIrq \/ CancelWork
    \/ FlushWork \/ ClearState \/ CleanupFree
    \/ \E s \in Streams : CleanupNext(s)

Handler == IrqAudio \/ IrqAck \/ IrqKick

Work(s) == WorkStart(s) \/ WorkExit(s) \/ WorkTake(s) \/ WorkCall(s)

Next ==
    \/ Call \/ Holder \/ IrqRead \/ Handler \/ LoseDevice
    \/ \E s \in Streams : Work(s) \/ Complete(s)

Spec == Init /\ [][Next]_vars

-----------------------------------------------------------------------------
(* Properties *)

\* A completion in the ring of a running stream is never forgotten: the flag
\* that keeps the handler from scheduling again means that the work is queued,
\* runs, or is about to be queued by the handler.
NoLostWakeup == \A s \in Streams :
    streaming[s] /\ head[s] # tail[s] =>
        sched[s] /\ (queued[s] \/ workPc[s] # "idle" \/ s \in irqKick)

\* A stop, a failed start and the cleanup leave nothing behind that a later
\* start could trip over: no work, no entry, no flag, and, unless it is gone,
\* no hardware that writes to memory.
StoppedQuiet == \A s \in Streams :
    ctl = "free" /\ ~streaming[s] =>
        /\ workPc[s] = "idle" /\ ~queued[s] /\ s \notin irqKick
        /\ head[s] = tail[s] /\ ~sched[s]
        /\ lost \/ ~enabled[s]

\* Neither the callback nor the hardware uses freed buffers.
BuffersInUse == \A s \in Streams :
    workPc[s] = "call" \/ (enabled[s] /\ ~lost) => buffers[s]

\* The invariants of the engines together.
EnginesSound == TypeOK /\ NoLostWakeup /\ StoppedQuiet /\ BuffersInUse

\* The engines keep the promise of AudioEngine: callbacks only between a start
\* and the end of the stop.
AE == INSTANCE AudioEngine WITH
    Pcms <- Streams,
    gate <- [s \in Streams |->
               IF eng = s /\ ctl \in Quiescing \ {"quiesce"} THEN "closing"
               ELSE IF streaming[s] THEN "open" ELSE "shut"],
    serving <- [s \in Streams |-> workPc[s] = "call"]

GateKept == AE!AESpec
=============================================================================
