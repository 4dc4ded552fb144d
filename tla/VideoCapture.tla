---------------------------- MODULE VideoCapture ----------------------------
(***************************************************************************)
(* The V4L2 capture queue of open_gc573 (gc573-video.c) on top of the DMA  *)
(* engine: who owns a buffer while application, driver, engine, completion *)
(* callback and error handler pass it around.                              *)
(*                                                                         *)
(* The engine is FrameQueue, which VideoDma implements, with control_lock  *)
(* and the running and failed flags around it.  The vb2 core is external:  *)
(* its calls are modelled from how the driver uses them.  Parties:         *)
(*   - one ioctl, suspend or monitor at a time: holders of video->lock;    *)
(*   - the completion callback, run by the engine without a lock;          *)
(*   - the error handler, run by the watchdog with control_lock held.      *)
(* A step is one critical section of queue_lock or one call.               *)
(***************************************************************************)
EXTENDS FrameQueue, FiniteSets

CONSTANTS
    MinQueued,      \* GC555_VIDEO_MIN_QUEUED_BUFFERS
    CanLose         \* TRUE: the card may vanish

ASSUME MinQueuedAssumption == MinQueued \in Nat \ {0}
ASSUME NobodyAssumption == Nobody \notin Buffers
ASSUME CanLoseAssumption == CanLose \in BOOLEAN

VARIABLES
    \* the engine as its callers see it, and the holder of control_lock
    running, failed, engLock, lost,
    \* vb2: buffer states and the flags of the queue
    vb, vbStreaming, started, qerror,
    \* struct gc555_video, under queue_lock; compat: the cached signal is
    \* valid and fits the stream
    owned, starting, streaming, compat,
    \* the holder of video->lock: its place, buffers still to hand over, the
    \* one in hand, the list it gives back, and why it stops
    call, todo, cur, giveBack, why,
    \* the completion callback and its verdict
    cbPc, cbVerdict,
    \* the error handler and the list it gives back
    wdPc, wdList,
    \* the signal monitor, and whether it found the device lost
    monPc, monLost

engineVars == <<running, failed, engLock, lost>>
vb2Vars    == <<vb, vbStreaming, started, qerror>>
flagVars   == <<starting, streaming>>
callVars   == <<call, todo, cur, giveBack, why>>
cbVars     == <<cbPc, cbVerdict>>
wdVars     == <<wdPc, wdList>>
monVars    == <<monPc, monLost>>
vcVars     == <<fqVars, engineVars, vb2Vars, owned, flagVars, compat,
                callVars, cbVars, wdVars, monVars>>

CallPlaces == {"free", "feed", "own", "engine", "undo", "give", "check",
               "mark", "go", "going", "rollback", "live",
               "off", "halt", "halting", "collect", "return"}

FlagTypes ==
    /\ closing \in BOOLEAN /\ running \in BOOLEAN /\ failed \in BOOLEAN
    /\ lost \in BOOLEAN /\ vbStreaming \in BOOLEAN /\ started \in BOOLEAN
    /\ qerror \in BOOLEAN /\ starting \in BOOLEAN /\ streaming \in BOOLEAN
    /\ compat \in BOOLEAN /\ monLost \in BOOLEAN

BufferTypes ==
    /\ Held \subseteq Buffers /\ serving \in Buffers \cup {Nobody}
    /\ vb \in [Buffers -> {"user", "queued", "active", "done", "error"}]
    /\ owned \subseteq Buffers /\ todo \subseteq Buffers
    /\ cur \in Buffers \cup {Nobody}
    /\ giveBack \subseteq Buffers /\ wdList \subseteq Buffers

ThreadTypes ==
    /\ engLock \in {"free", "api", "watchdog"}
    /\ call \in CallPlaces /\ why \in {"off", "fail", "suspend"}
    /\ cbPc \in {"idle", "entered", "take", "publish", "answer"}
    /\ cbVerdict \in {"recycle", "release", "done", "error"}
    /\ wdPc \in {"idle", "stopping", "error", "flags", "collect", "return"}
    /\ monPc \in {"idle", "sampled"}

\* The types of the queue, the driver and the threads.
TypeOK == FlagTypes /\ BufferTypes /\ ThreadTypes

Init ==
    /\ FQInit
    /\ running = FALSE /\ failed = FALSE /\ engLock = "free" /\ lost = FALSE
    /\ vb = [b \in Buffers |-> "user"]
    /\ vbStreaming = FALSE /\ started = FALSE /\ qerror = FALSE
    /\ owned = {} /\ starting = FALSE /\ streaming = FALSE /\ compat = FALSE
    /\ call = "free" /\ todo = {} /\ cur = Nobody /\ giveBack = {}
    /\ why = "off"
    /\ cbPc = "idle" /\ cbVerdict = "release"
    /\ wdPc = "idle" /\ wdList = {}
    /\ monPc = "idle" /\ monLost = FALSE

InState(s) == {b \in Buffers : vb[b] = s}

\* vb2_buffer_done(b, s)
BufferDone(b, s) == vb' = [vb EXCEPT ![b] = s]

-----------------------------------------------------------------------------
(* vb2 calls of the application (external), one at a time                  *)

\* vb2 hands the buffers of bs to buf_queue, then starts the stream unless it
\* runs already.
Feed(bs) == call' = "feed" /\ todo' = bs

\* VIDIOC_QBUF: straight into the driver while it streams, else kept by vb2
\* until enough are queued.
QBuf(b) ==
    /\ call = "free" /\ ~qerror /\ vb[b] = "user"
    /\ BufferDone(b, "queued")
    /\ IF started
       THEN Feed({b})
       ELSE IF vbStreaming /\ Cardinality(InState("queued")) + 1 >= MinQueued
       THEN Feed(InState("queued") \cup {b})
       ELSE UNCHANGED <<call, todo>>
    /\ UNCHANGED <<fqVars, engineVars, vbStreaming, started, qerror, owned,
                   flagVars, compat, cur, giveBack, why, cbVars, wdVars,
                   monVars>>

\* VIDIOC_STREAMON
StreamOn ==
    /\ call = "free" /\ ~vbStreaming
    /\ IF Cardinality(InState("queued")) >= MinQueued
       THEN Feed(InState("queued")) /\ UNCHANGED vbStreaming
       ELSE vbStreaming' = TRUE /\ UNCHANGED <<call, todo>>
    /\ UNCHANGED <<fqVars, engineVars, vb, started, qerror, owned, flagVars,
                   compat, cur, giveBack, why, cbVars, wdVars, monVars>>

\* VIDIOC_DQBUF
DQBuf(b) ==
    /\ call = "free" /\ vbStreaming /\ ~qerror /\ vb[b] \in {"done", "error"}
    /\ BufferDone(b, "user")
    /\ UNCHANGED <<fqVars, engineVars, vbStreaming, started, qerror, owned,
                   flagVars, compat, callVars, cbVars, wdVars, monVars>>

\* __vb2_queue_cancel, after stop_streaming if the driver streams.
QueueCancel ==
    /\ vb' = [b \in Buffers |-> "user"]
    /\ vbStreaming' = FALSE /\ started' = FALSE /\ qerror' = FALSE

\* VIDIOC_STREAMOFF, the last close, or the unregistration of the device
StreamOff ==
    /\ call = "free" /\ vbStreaming
    /\ IF started
       THEN call' = "off" /\ why' = "off" /\ UNCHANGED vb2Vars
       ELSE QueueCancel /\ UNCHANGED <<call, why>>
    /\ UNCHANGED <<fqVars, engineVars, owned, flagVars, compat, todo, cur,
                   giveBack, cbVars, wdVars, monVars>>

\* One buffer of the list to buf_queue; after the last one start_streaming.
FeedBuffer(b) ==
    /\ call = "feed" /\ b \in todo
    /\ todo' = todo \ {b} /\ cur' = b
    /\ BufferDone(b, "active")
    /\ call' = "own"
    /\ UNCHANGED <<fqVars, engineVars, vbStreaming, started, qerror, owned,
                   flagVars, compat, giveBack, why, cbVars, wdVars, monVars>>

FeedEnd ==
    /\ call = "feed" /\ todo = {}
    /\ started' = TRUE
    /\ call' = IF started THEN "free" ELSE "check"
    /\ UNCHANGED <<fqVars, engineVars, vb, vbStreaming, qerror, owned,
                   flagVars, compat, todo, cur, giveBack, why, cbVars, wdVars,
                   monVars>>

-----------------------------------------------------------------------------
(* gc555_video_buffer_queue                                                *)

BufferOwn ==
    /\ call = "own"
    /\ owned' = owned \cup {cur}
    /\ call' = "engine"
    /\ UNCHANGED <<fqVars, engineVars, vb2Vars, flagVars, compat, todo, cur,
                   giveBack, why, cbVars, wdVars, monVars>>

\* gc555_video_dma_queue refuses on a lost device and after a stall.
BufferEnqueue ==
    /\ call = "engine" /\ engLock = "free"
    /\ IF lost \/ failed
       THEN call' = "undo" /\ UNCHANGED <<fqVars, cur>>
       ELSE Enqueue(cur) /\ call' = "feed" /\ cur' = Nobody
    /\ UNCHANGED <<engineVars, vb2Vars, owned, flagVars, compat, todo,
                   giveBack, why, cbVars, wdVars, monVars>>

\* Mutant: driver_owned is not looked at again.
BufferUndo_Unchecked ==
    /\ call = "undo"
    /\ call' = "give"
    /\ owned' = owned \ {cur}
    /\ UNCHANGED <<fqVars, engineVars, vb2Vars, flagVars, compat, todo, cur,
                   giveBack, why, cbVars, wdVars, monVars>>

\* A refused buffer goes back, unless the error handler has taken it already.
BufferUndo ==
    /\ call = "undo"
    /\ IF cur \in owned
       THEN call' = "give" /\ owned' = owned \ {cur} /\ UNCHANGED cur
       ELSE call' = "feed" /\ cur' = Nobody /\ UNCHANGED owned
    /\ UNCHANGED <<fqVars, engineVars, vb2Vars, flagVars, compat, todo,
                   giveBack, why, cbVars, wdVars, monVars>>

BufferGive ==
    /\ call = "give"
    /\ BufferDone(cur, "error")
    /\ call' = "feed" /\ cur' = Nobody
    /\ UNCHANGED <<fqVars, engineVars, vbStreaming, started, qerror, owned,
                   flagVars, compat, todo, giveBack, why, cbVars, wdVars,
                   monVars>>

-----------------------------------------------------------------------------
(* gc555_video_start_streaming                                             *)

\* The checks of count, signal and format, the engine reset and the FPGA
\* configuration, any of which may fail.
StartCheck ==
    /\ call = "check"
    /\ \/ /\ Cardinality(InState("active")) >= MinQueued /\ ~lost
          /\ call' = "mark" /\ UNCHANGED why
       \/ call' = "off" /\ why' = "fail"
    /\ UNCHANGED <<fqVars, engineVars, vb2Vars, owned, flagVars, compat, todo,
                   cur, giveBack, cbVars, wdVars, monVars>>

\* stream_signal is the signal just read; the cached one may be another.
StartMark ==
    /\ call = "mark"
    /\ starting' = TRUE /\ streaming' = FALSE
    /\ compat' \in BOOLEAN
    /\ call' = "go"
    /\ UNCHANGED <<fqVars, engineVars, vb2Vars, owned, todo, cur, giveBack,
                   why, cbVars, wdVars, monVars>>

\* gc555_video_dma_start takes control_lock.  (The engine never runs already.)
EngineStart ==
    /\ call = "go" /\ engLock = "free"
    /\ \/ /\ ~lost /\ waiting # <<>>
          /\ running' = TRUE /\ failed' = FALSE /\ engLock' = "api"
          /\ call' = "going" /\ UNCHANGED why
       \/ /\ lost \/ waiting = <<>>
          /\ failed' = (failed /\ lost)
          /\ call' = "off" /\ why' = "fail"
          /\ UNCHANGED <<running, engLock>>
    /\ UNCHANGED <<fqVars, lost, vb2Vars, owned, flagVars, compat, todo, cur,
                   giveBack, cbVars, wdVars, monVars>>

\* It ends well, or rolls back.
EngineStarted ==
    /\ call = "going"
    /\ engLock' = "free" /\ call' = "live"
    /\ UNCHANGED <<fqVars, running, failed, lost, vb2Vars, owned, flagVars,
                   compat, todo, cur, giveBack, why, cbVars, wdVars, monVars>>

EngineStartFails ==
    /\ call = "going"
    /\ Close /\ running' = FALSE
    /\ call' = "rollback"
    /\ UNCHANGED <<failed, engLock, lost, vb2Vars, owned, flagVars, compat,
                   todo, cur, giveBack, why, cbVars, wdVars, monVars>>

EngineRollback ==
    /\ call = "rollback"
    /\ Revoke
    /\ engLock' = "free"
    /\ call' = "off" /\ why' = "fail"
    /\ UNCHANGED <<running, failed, lost, vb2Vars, owned, flagVars, compat,
                   todo, cur, giveBack, cbVars, wdVars, monVars>>

StartLive ==
    /\ call = "live"
    /\ starting' = FALSE /\ streaming' = TRUE
    /\ vbStreaming' = TRUE
    /\ call' = "free"
    /\ UNCHANGED <<fqVars, engineVars, vb, started, qerror, owned, compat,
                   todo, cur, giveBack, why, cbVars, wdVars, monVars>>

-----------------------------------------------------------------------------
(* gc555_video_stop_streaming, gc555_video_start_failed and the stop of     *)
(* gc555_video_suspend: flags, engine, buffers, in this order.              *)

\* Mutant: the buffers are given back before the engine is stopped.
StopFlags_NoStop ==
    /\ call = "off"
    /\ starting' = FALSE /\ streaming' = FALSE
    /\ compat' = (compat /\ why # "suspend")
    /\ call' = "collect"
    /\ UNCHANGED <<fqVars, engineVars, vb2Vars, owned, todo, cur, giveBack,
                   why, cbVars, wdVars, monVars>>

StopFlags ==
    /\ call = "off"
    /\ starting' = FALSE /\ streaming' = FALSE
    /\ compat' = (compat /\ why # "suspend")
    /\ call' = "halt"
    /\ UNCHANGED <<fqVars, engineVars, vb2Vars, owned, todo, cur, giveBack,
                   why, cbVars, wdVars, monVars>>

\* gc555_video_dma_stop takes control_lock ...
EngineStop ==
    /\ call = "halt" /\ engLock = "free"
    /\ Close
    /\ running' = FALSE /\ engLock' = "api"
    /\ call' = "halting"
    /\ UNCHANGED <<failed, lost, vb2Vars, owned, flagVars, compat, todo, cur,
                   giveBack, why, cbVars, wdVars, monVars>>

\* Mutant: the stop leaves the failed flag of a stall.
EngineStopped_KeepFailed ==
    /\ call = "halting"
    /\ Revoke
    /\ engLock' = "free"
    /\ call' = "collect"
    /\ UNCHANGED <<failed, running, lost, vb2Vars, owned, flagVars, compat,
                   todo, cur, giveBack, why, cbVars, wdVars, monVars>>

\* ... and returns when no callback runs any more.
EngineStopped ==
    /\ call = "halting"
    /\ Revoke
    /\ failed' = FALSE /\ engLock' = "free"
    /\ call' = "collect"
    /\ UNCHANGED <<running, lost, vb2Vars, owned, flagVars, compat, todo, cur,
                   giveBack, why, cbVars, wdVars, monVars>>

\* gc555_video_return_buffers: detach the list under the lock ...
ReturnBegin ==
    /\ call = "collect"
    /\ giveBack' = owned /\ owned' = {}
    /\ call' = "return"
    /\ UNCHANGED <<fqVars, engineVars, vb2Vars, flagVars, compat, todo, cur,
                   why, cbVars, wdVars, monVars>>

\* ... and give each buffer back without it.
ReturnBuffer(b) ==
    /\ call = "return" /\ b \in giveBack
    /\ giveBack' = giveBack \ {b}
    /\ BufferDone(b, IF why = "fail" THEN "queued" ELSE "error")
    /\ UNCHANGED <<fqVars, engineVars, vbStreaming, started, qerror, owned,
                   flagVars, compat, call, todo, cur, why, cbVars, wdVars,
                   monVars>>

\* Back in vb2, or at the end of the suspend.
StopReturn ==
    /\ call = "return" /\ giveBack = {}
    /\ call' = "free"
    /\ CASE why = "off" -> QueueCancel
         [] why = "fail" -> started' = FALSE
                            /\ UNCHANGED <<vb, vbStreaming, qerror>>
         [] why = "suspend" -> UNCHANGED vb2Vars
    /\ UNCHANGED <<fqVars, engineVars, owned, flagVars, compat, todo, cur,
                   giveBack, why, cbVars, wdVars, monVars>>

\* gc555_video_suspend.  (signal_valid is cleared with the flags.)
Suspend ==
    /\ call = "free"
    /\ IF vbStreaming
       THEN qerror' = TRUE /\ call' = "off" /\ why' = "suspend"
            /\ UNCHANGED <<flagVars, compat>>
       ELSE starting' = FALSE /\ streaming' = FALSE /\ compat' = FALSE
            /\ UNCHANGED <<qerror, call, why>>
    /\ UNCHANGED <<fqVars, engineVars, vb, vbStreaming, started, owned, todo,
                   cur, giveBack, cbVars, wdVars, monVars>>

\* gc555_video_monitor_work looks for the device and samples the signal
\* without a lock ...
MonitorSample ==
    /\ monPc = "idle"
    /\ monPc' = "sampled" /\ monLost' = lost
    /\ UNCHANGED <<fqVars, engineVars, vb2Vars, owned, flagVars, compat,
                   callVars, cbVars, wdVars>>

\* Mutant: the monitor does not tell vb2 that the device is gone.
MonitorReport_Quiet ==
    /\ monPc = "sampled" /\ call = "free"
    /\ compat' \in IF monLost THEN {FALSE} ELSE BOOLEAN
    /\ monPc' = "idle"
    /\ UNCHANGED <<qerror, fqVars, engineVars, vb, vbStreaming, started, owned,
                   flagVars, callVars, cbVars, wdVars, monLost>>

\* ... and reports what it saw under video->lock.
MonitorReport ==
    /\ monPc = "sampled" /\ call = "free"
    /\ compat' \in IF monLost THEN {FALSE} ELSE BOOLEAN
    /\ qerror' = (qerror \/ (monLost /\ vbStreaming))
    /\ monPc' = "idle"
    /\ UNCHANGED <<fqVars, engineVars, vb, vbStreaming, started, owned,
                   flagVars, callVars, cbVars, wdVars, monLost>>

-----------------------------------------------------------------------------
(* gc555_video_buffer_complete, for the buffer the engine serves            *)

EngineServe ==
    /\ Serve /\ cbPc = "idle"
    /\ cbPc' = "entered"
    /\ UNCHANGED <<engineVars, vb2Vars, owned, flagVars, compat, callVars,
                   cbVerdict, wdVars, monVars>>

\* The first critical section: frames are recycled until the stream is live
\* and while its signal does not fit, or repeats a timestamp.
CallbackEnter ==
    /\ cbPc = "entered"
    /\ \/ /\ ~starting /\ streaming /\ compat
          /\ cbPc' = "take" /\ UNCHANGED cbVerdict
       \/ /\ starting \/ streaming
          /\ cbPc' = "answer" /\ cbVerdict' = "recycle"
       \/ /\ ~starting /\ ~streaming
          /\ cbPc' = "answer" /\ cbVerdict' = "release"
    /\ UNCHANGED <<fqVars, engineVars, vb2Vars, owned, flagVars, compat,
                   callVars, wdVars, monVars>>

\* Mutant: the state to publish is not set.
CallbackTake_Unset ==
    /\ cbPc = "take"
    /\ IF serving \in owned
       THEN /\ owned' = owned \ {serving}
            /\ cbPc' = "publish" /\ UNCHANGED cbVerdict
       ELSE /\ cbPc' = "answer" /\ cbVerdict' = "release"
            /\ UNCHANGED owned
    /\ UNCHANGED <<fqVars, engineVars, vb2Vars, flagVars, compat, callVars,
                   wdVars, monVars>>

\* The second one: take the buffer from the driver; unpacking may have failed
\* and the stream may have ended.
CallbackTake ==
    /\ cbPc = "take"
    /\ IF serving \in owned
       THEN /\ owned' = owned \ {serving}
            /\ cbVerdict' \in IF streaming THEN {"done", "error"} ELSE {"error"}
            /\ cbPc' = "publish"
       ELSE /\ cbPc' = "answer" /\ cbVerdict' = "release"
            /\ UNCHANGED owned
    /\ UNCHANGED <<fqVars, engineVars, vb2Vars, flagVars, compat, callVars,
                   wdVars, monVars>>

CallbackPublish ==
    /\ cbPc = "publish"
    /\ BufferDone(serving, cbVerdict)
    /\ cbPc' = "answer" /\ cbVerdict' = "release"
    /\ UNCHANGED <<fqVars, engineVars, vbStreaming, started, qerror, owned,
                   flagVars, compat, callVars, wdVars, monVars>>

\* Back in the engine, which requeues a recycled buffer only while it runs.
CallbackAnswer ==
    /\ cbPc = "answer"
    /\ Answer
    /\ (waiting' # waiting) = (/\ cbVerdict = "recycle" /\ running /\ ~closing
                              /\ ~lost /\ serving \notin Held)
    /\ cbPc' = "idle"
    /\ UNCHANGED <<engineVars, vb2Vars, owned, flagVars, compat, callVars,
                   cbVerdict, wdVars, monVars>>

-----------------------------------------------------------------------------
(* The engine's own steps, and gc555_video_dma_error                        *)

EngineFill ==
    /\ running \/ closing
    /\ ~lost
    /\ \E i \in 1 .. Len(waiting) : Fill(i)
    /\ UNCHANGED <<engineVars, vb2Vars, owned, flagVars, compat, callVars,
                   cbVars, wdVars, monVars>>

EngineDrop ==
    /\ Drop
    /\ UNCHANGED <<engineVars, vb2Vars, owned, flagVars, compat, callVars,
                   cbVars, wdVars, monVars>>

\* The watchdog stops a stalled stream ...
WatchdogStop ==
    /\ engLock = "free" /\ running /\ ~lost
    /\ Close
    /\ engLock' = "watchdog" /\ running' = FALSE
    /\ wdPc' = "stopping"
    /\ UNCHANGED <<failed, lost, vb2Vars, owned, flagVars, compat, callVars,
                   cbVars, wdList, monVars>>

\* Mutant: control_lock is dropped before the error handler is called.
WatchdogFailed_Unlocks ==
    /\ wdPc = "stopping"
    /\ Revoke
    /\ failed' = TRUE /\ engLock' = "free"
    /\ wdPc' = "error"
    /\ UNCHANGED <<running, lost, vb2Vars, owned, flagVars, compat,
                   callVars, cbVars, wdList, monVars>>

\* The stop took everything back and marked the engine.
WatchdogFailed ==
    /\ wdPc = "stopping"
    /\ Revoke
    /\ failed' = TRUE
    /\ wdPc' = "error"
    /\ UNCHANGED <<running, engLock, lost, vb2Vars, owned, flagVars, compat,
                   callVars, cbVars, wdList, monVars>>

\* Mutant: the queue is not marked.
ErrorQueue_Silent ==
    /\ wdPc = "error"
    /\ wdPc' = "flags"
    /\ UNCHANGED <<qerror, fqVars, engineVars, vb, vbStreaming, started, owned,
                   flagVars, compat, callVars, cbVars, wdList, monVars>>

\* ... and calls the error handler: vb2_queue_error, flags, buffers.
ErrorQueue ==
    /\ wdPc = "error"
    /\ qerror' = TRUE
    /\ wdPc' = "flags"
    /\ UNCHANGED <<fqVars, engineVars, vb, vbStreaming, started, owned,
                   flagVars, compat, callVars, cbVars, wdList, monVars>>

ErrorFlags ==
    /\ wdPc = "flags"
    /\ starting' = FALSE /\ streaming' = FALSE
    /\ wdPc' = "collect"
    /\ UNCHANGED <<fqVars, engineVars, vb2Vars, owned, compat, callVars,
                   cbVars, wdList, monVars>>

ErrorCollect ==
    /\ wdPc = "collect"
    /\ wdList' = owned /\ owned' = {}
    /\ wdPc' = "return"
    /\ UNCHANGED <<fqVars, engineVars, vb2Vars, flagVars, compat, callVars,
                   cbVars, monVars>>

ErrorReturn(b) ==
    /\ wdPc = "return" /\ b \in wdList
    /\ wdList' = wdList \ {b}
    /\ BufferDone(b, "error")
    /\ UNCHANGED <<fqVars, engineVars, vbStreaming, started, qerror, owned,
                   flagVars, compat, callVars, cbVars, wdPc, monVars>>

\* Mutant: control_lock is not dropped.
ErrorEnd_Locked ==
    /\ wdPc = "return" /\ wdList = {}
    /\ wdPc' = "idle"
    /\ UNCHANGED <<engLock, fqVars, running, failed, lost, vb2Vars, owned,
                   flagVars, compat, callVars, cbVars, wdList, monVars>>

ErrorEnd ==
    /\ wdPc = "return" /\ wdList = {}
    /\ wdPc' = "idle" /\ engLock' = "free"
    /\ UNCHANGED <<fqVars, running, failed, lost, vb2Vars, owned, flagVars,
                   compat, callVars, cbVars, wdList, monVars>>

LoseDevice ==
    /\ CanLose /\ ~lost
    /\ lost' = TRUE
    /\ UNCHANGED <<fqVars, running, failed, engLock, vb2Vars, owned, flagVars,
                   compat, callVars, cbVars, wdVars, monVars>>

-----------------------------------------------------------------------------

Ioctl ==
    \/ \E b \in Buffers : QBuf(b) \/ DQBuf(b)
    \/ StreamOn \/ StreamOff \/ Suspend

\* The steps of the holder of video->lock.
Holder ==
    \/ \E b \in Buffers : FeedBuffer(b) \/ ReturnBuffer(b)
    \/ FeedEnd \/ BufferOwn \/ BufferEnqueue \/ BufferUndo \/ BufferGive
    \/ StartCheck \/ StartMark \/ EngineStart \/ EngineStarted
    \/ EngineStartFails \/ EngineRollback \/ StartLive
    \/ StopFlags \/ EngineStop \/ EngineStopped \/ ReturnBegin \/ StopReturn

Callback == CallbackEnter \/ CallbackTake \/ CallbackPublish \/ CallbackAnswer

ErrorHandler ==
    \/ WatchdogFailed \/ ErrorQueue \/ ErrorFlags \/ ErrorCollect \/ ErrorEnd
    \/ \E b \in Buffers : ErrorReturn(b)

Next ==
    \/ Ioctl \/ Holder \/ MonitorSample \/ MonitorReport
    \/ EngineServe \/ Callback \/ EngineFill \/ EngineDrop
    \/ WatchdogStop \/ ErrorHandler \/ LoseDevice

Spec == Init /\ [][Next]_vcVars

(***************************************************************************)
(* Fairness: threads that can run do, and the monitor polls.  The monitor  *)
(* needs video->lock, which calls hold in turn: it is a mutex with waiters *)
(* in order, so the monitor gets it again and again (SF).                  *)
(***************************************************************************)
LiveSpec ==
    /\ Spec
    /\ WF_vcVars(Holder) /\ WF_vcVars(Callback) /\ WF_vcVars(ErrorHandler)
    /\ WF_vcVars(MonitorSample) /\ SF_vcVars(MonitorReport)

-----------------------------------------------------------------------------
(* Properties *)

\* The parties that owe vb2 a vb2_buffer_done for a buffer.
Parties ==
    <<owned, giveBack, wdList,
      IF cbPc = "publish" THEN {serving} ELSE {},
      IF call \in {"own", "give"} THEN {cur} ELSE {}>>

\* A buffer vb2 has given to the driver is in exactly one pair of hands, so it
\* is given back exactly once, although queue call, callback, stop and error
\* handler all return buffers.
OneOwner ==
    /\ InState("active") = UNION {Parties[i] : i \in 1 .. Len(Parties)}
    /\ \A i, j \in 1 .. Len(Parties) : i # j => Parties[i] \cap Parties[j] = {}

\* The engine, and with it the hardware, holds no buffer the application may
\* read, free or queue: whatever is in the engine is the driver's.
EngineHoldsActive == Held \subseteq InState("active")

\* After a stop or a failed start the driver keeps no buffer (vb2 warns of it)
\* and the next start finds an idle engine that is not marked as failed.
CleanStop ==
    call = "free" /\ ~started =>
        /\ InState("active") = {} /\ Held = {} /\ serving = Nobody
        /\ ~running /\ ~failed /\ ~closing

\* The application is never left waiting for frames of an engine that was
\* stopped under it: the queue is marked with an error.
DeadStreamReported ==
    started /\ call = "free" /\ engLock = "free" /\ ~running => qerror

\* A mark on the queue does not outlive the stream it was made for.
ErrorCleared == ~vbStreaming /\ call = "free" => ~qerror

\* Every call returns: video->lock, control_lock, callback and error handler
\* never wait for one another in a circle.
CallReturns == call # "free" ~> call = "free"

\* The application of a lost device is told so.
LostReported == lost /\ vbStreaming ~> qerror \/ ~vbStreaming

=============================================================================
