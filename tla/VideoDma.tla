------------------------------ MODULE VideoDma ------------------------------
(***************************************************************************)
(* The video DMA engine of open_gc573 (gc573-video-dma.c), with the video  *)
(* part of the interrupt handler of gc573-dma.c.                           *)
(*                                                                         *)
(* Five parties share the state:                                           *)
(*   - one caller of the API (prepare, queue, cleanup_buffer, start, stop, *)
(*     reset): the V4L2 layer, serialized by video->lock;                  *)
(*   - the hard interrupt handler;                                         *)
(*   - completion_work on its ordered workqueue;                           *)
(*   - watchdog_work on system_wq;                                         *)
(*   - the capture hardware (external).                                    *)
(* A step is one critical section of state_lock, or one call that another  *)
(* party can observe.  control_lock is the variable ctl: "free", or the    *)
(* place the holder has reached.                                           *)
(***************************************************************************)
EXTENDS Integers, Sequences

CONSTANTS
    Buffers,        \* gc555_video_dma_buffer structures
    NoBuf,          \* the NULL pointer in active[]
    NChannels,      \* GC555_VIDEO_DMA_CHANNELS
    MaxGlitches,    \* completion interrupts that name no busy channel
    CanLose,        \* TRUE: the card may vanish (surprise removal)
    SharedVector    \* TRUE: audio or I2C interrupts also run the handler

ASSUME ChannelsAssumption == NChannels \in Nat \ {0}
ASSUME NoBufAssumption == NoBuf \notin Buffers
ASSUME GlitchAssumption == MaxGlitches \in Nat
ASSUME SwitchAssumption == CanLose \in BOOLEAN /\ SharedVector \in BOOLEAN

Channels == 0 .. NChannels - 1

VARIABLES
    \* struct gc555_video_dma_buffer; "free" is memory not allocated
    state, registered, described, complete, refs,
    \* struct gc555_video_dma, under state_lock
    ready, done, active, last, streaming, stopping, failed,
    recoveryRequested, workScheduled, fresh, termination,
    \* gc555_dma.device_lost and gc555_fpga.configured
    lost, configured,
    \* control_lock and the program counter of its holder
    ctl, closer, ctlBuf,
    \* a queue call that has dropped its locks but not yet called queue_work
    apiKick,
    \* completion_work and watchdog_work: queued, and where they run
    workPending, workPc, workBuf, wdPending, wdPc,
    \* the interrupt handler: its place and its locals
    irqPc, irqSeen, irqKick, irqRecover,
    \* the hardware: channel bits, fill position, engine, status registers
    hwChan, hwNext, engine, hwComplete, hwTerm, hwCode, irqEnabled, glitches

bufVars  == <<state, registered, described, complete, refs>>
listVars == <<ready, done, active, last>>
runVars  == <<streaming, stopping>>
faultVars == <<failed, recoveryRequested>>
flagVars == <<runVars, faultVars, workScheduled, fresh, termination>>
devVars  == <<lost, configured>>
ctlVars  == <<ctl, closer, ctlBuf>>
workVars == <<workPending, workPc, workBuf>>
wdVars   == <<wdPending, wdPc>>
irqVars  == <<irqPc, irqSeen, irqKick, irqRecover>>
statusVars == <<hwComplete, hwTerm, hwCode, irqEnabled, glitches>>
hwVars   == <<hwChan, hwNext, engine, statusVars>>

\* What the driver knows of its buffers and its stream, and who else runs.
streamVars == <<bufVars, listVars, flagVars, devVars>>
otherVars  == <<apiKick, workVars, wdVars, irqVars>>

vars == <<streamVars, ctlVars, otherVars, hwVars>>

-----------------------------------------------------------------------------
(* Types *)

BufferStates == {"free", "prepared", "preparing", "ready", "active", "done"}

\* Places of the holder of control_lock.  The tail from "quiesce" to "finish"
\* is shared by stop, by the watchdog and by the rollback of a failed start.
CtlPlaces == {"free", "prepare", "setup", "publish", "enable", "rollback",
              "cancel_wd", "flush_wd", "quiesce", "wait", "mask", "sync",
              "flush_work", "clear", "finish", "report", "recover"}

Seen == [complete : BOOLEAN, term : BOOLEAN, code : 0 .. NChannels]

BufferTypes ==
    /\ state \in [Buffers -> BufferStates]
    /\ registered \in [Buffers -> BOOLEAN]
    /\ described \in [Buffers -> BOOLEAN]
    /\ complete \in [Buffers -> BOOLEAN]
    /\ refs \in [Buffers -> 0 .. 2]
    /\ ready \in Seq(Buffers) /\ done \in Seq(Buffers)
    /\ active \in [Channels -> Buffers \cup {NoBuf}]
    /\ last \in -1 .. NChannels - 1

FlagTypes ==
    /\ streaming \in BOOLEAN /\ stopping \in BOOLEAN /\ failed \in BOOLEAN
    /\ recoveryRequested \in BOOLEAN /\ workScheduled \in BOOLEAN
    /\ fresh \in BOOLEAN /\ termination \in BOOLEAN
    /\ lost \in BOOLEAN /\ configured \in BOOLEAN

ThreadTypes ==
    /\ ctl \in CtlPlaces
    /\ closer \in {"stop", "watchdog", "rollback"}
    /\ ctlBuf \in Buffers \cup {NoBuf}
    /\ apiKick \in BOOLEAN
    /\ workPending \in BOOLEAN
    /\ workPc \in {"idle", "scan", "callback", "recycle", "release"}
    /\ workBuf \in Buffers \cup {NoBuf}
    /\ wdPending \in BOOLEAN
    /\ wdPc \in {"idle", "running", "recovering"}
    /\ irqPc \in {"idle", "handle", "notify", "ack"}
    /\ irqSeen \in Seen /\ irqKick \in BOOLEAN /\ irqRecover \in BOOLEAN

HardwareTypes ==
    /\ hwChan \in [Channels -> {"idle", "armed", "filled"}]
    /\ hwNext \in Channels
    /\ engine \in {"off", "on", "ending"}
    /\ hwComplete \in BOOLEAN /\ hwTerm \in BOOLEAN
    /\ hwCode \in 0 .. NChannels
    /\ irqEnabled \in BOOLEAN
    /\ glitches \in 0 .. MaxGlitches

\* The types of the driver's structures, of the threads and of the device.
TypeOK == BufferTypes /\ FlagTypes /\ ThreadTypes /\ HardwareTypes

NothingSeen == [complete |-> FALSE, term |-> FALSE, code |-> 0]

Init ==
    /\ state = [b \in Buffers |-> "free"]
    /\ registered = [b \in Buffers |-> FALSE]
    /\ described = [b \in Buffers |-> FALSE]
    /\ complete = [b \in Buffers |-> FALSE]
    /\ refs = [b \in Buffers |-> 0]
    /\ ready = <<>> /\ done = <<>>
    /\ active = [c \in Channels |-> NoBuf]
    /\ last = -1
    /\ streaming = FALSE /\ stopping = FALSE /\ failed = FALSE
    /\ recoveryRequested = FALSE /\ workScheduled = FALSE
    /\ fresh = FALSE /\ termination = FALSE
    /\ lost = FALSE /\ configured = FALSE
    /\ ctl = "free" /\ closer = "stop" /\ ctlBuf = NoBuf
    /\ apiKick = FALSE
    /\ workPending = FALSE /\ workPc = "idle" /\ workBuf = NoBuf
    /\ wdPending = FALSE /\ wdPc = "idle"
    /\ irqPc = "idle" /\ irqSeen = NothingSeen
    /\ irqKick = FALSE /\ irqRecover = FALSE
    /\ hwChan = [c \in Channels |-> "idle"] /\ hwNext = 0
    /\ engine = "off" /\ hwComplete = FALSE /\ hwTerm = FALSE /\ hwCode = 0
    /\ irqEnabled = FALSE /\ glitches = 0

-----------------------------------------------------------------------------
(* Workqueues (external): queueing is refused while a cancel flushes the   *)
(* work, and a work item that is queued already stays queued once.         *)

QueueWork(wanted) ==
    workPending' = (workPending \/ (wanted /\ ctl # "flush_work"))

QueueWatchdog(wanted) ==
    wdPending' = (wdPending \/ (wanted /\ ctl # "flush_wd"))

-----------------------------------------------------------------------------
(* Submission of ready buffers to free channels, strictly round robin.     *)

\* Mutant: the wrap-around is off by one.
Slot_OffByOne(i) ==
    IF last + i <= NChannels THEN last + i ELSE last + i - NChannels

\* The i-th channel after the last one used: (last_channel + i) % NChannels.
Slot(i) == IF last + i < NChannels THEN last + i ELSE last + i - NChannels

\* The inverse: how many submissions from now channel c is used.
Turn(c) == IF c > last THEN c - last ELSE c - last + NChannels

\* Mutant: the next channel is taken without a look at it.
NextFree_Unchecked(k, act) == k <= NChannels

\* The next k channels are all free.
NextFree(k, act) == \A c \in Channels : Turn(c) <= k => act[c] = NoBuf

\* The loop of submit_ready_locked takes exactly k buffers of rdy.  It ends
\* when none is left, when the next channel is busy, when the device is known
\* to be lost, or when a register access finds it lost, which puts the buffer
\* in hand back at the head of the list.
SubmitCount(k, rdy, act) ==
    /\ k <= Len(rdy)
    /\ NextFree(k, act)
    /\ LET more == k < Len(rdy) /\ k < NChannels /\ NextFree(k + 1, act)
       IN  \/ lost /\ k = 0 /\ lost' = TRUE
           \/ ~lost /\ ~more /\ lost' = FALSE
           \/ ~lost /\ more /\ CanLose /\ lost' = TRUE

\* gc555_video_dma_submit_ready_locked, from given lists, states and channels.
SubmitReady(rdy, act, st, ch) ==
    \E k \in 0 .. NChannels :
        /\ SubmitCount(k, rdy, act)
        /\ ready' = SubSeq(rdy, k + 1, Len(rdy))
        /\ active' = [c \in Channels |->
                        IF Turn(c) <= k THEN rdy[Turn(c)] ELSE act[c]]
        /\ state' = [b \in Buffers |->
                        IF \E i \in 1 .. k : rdy[i] = b THEN "active"
                        ELSE st[b]]
        /\ hwChan' = [c \in Channels |->
                        IF Turn(c) <= k THEN "armed" ELSE ch[c]]
        /\ last' = IF k = 0 THEN last ELSE Slot(k)

\* The same lists, states and channels without a submission.
NoSubmit(rdy, act, st, ch) ==
    /\ ready' = rdy /\ active' = act /\ state' = st /\ hwChan' = ch
    /\ UNCHANGED <<last, lost>>

\* gc555_video_dma_request_work_locked returns TRUE.
RequestWork == ~stopping /\ ~workScheduled /\ ~lost

Put(b) == refs' = [refs EXCEPT ![b] = @ - 1]

Live == streaming /\ ~stopping

-----------------------------------------------------------------------------
(* The API caller *)

ApiIdle == ctl = "free" /\ ~apiKick

\* gc555_video_dma_prepare up to the table: a new structure, or a registered
\* one in state PREPARED.
PrepareBegin(b) ==
    /\ ApiIdle /\ ~lost
    /\ \/ /\ state[b] = "free"
          /\ refs' = [refs EXCEPT ![b] = 1]
          /\ registered' = [registered EXCEPT ![b] = TRUE]
       \/ /\ registered[b] /\ state[b] = "prepared"
          /\ UNCHANGED <<refs, registered>>
    /\ state' = [state EXCEPT ![b] = "preparing"]
    /\ ctl' = "prepare" /\ ctlBuf' = b
    /\ UNCHANGED <<described, complete, listVars, flagVars, devVars, closer,
                   otherVars, hwVars>>

\* build_table succeeded or failed: only a described buffer may be queued.
PrepareEnd ==
    /\ ctl = "prepare"
    /\ state' = [state EXCEPT ![ctlBuf] = "prepared"]
    /\ \E ok \in BOOLEAN : described' = [described EXCEPT ![ctlBuf] = ok]
    /\ ctl' = "free" /\ ctlBuf' = NoBuf
    /\ UNCHANGED <<registered, complete, refs, listVars, flagVars, devVars,
                   closer, otherVars, hwVars>>

\* gc555_video_dma_queue up to the release of control_lock.
Queue(b) ==
    /\ ApiIdle
    /\ ~lost /\ registered[b] /\ described[b] /\ ~failed
    /\ state[b] = "prepared"
    /\ complete' = [complete EXCEPT ![b] = TRUE]
    /\ state' = [state EXCEPT ![b] = "ready"]
    /\ ready' = Append(ready, b)
    /\ apiKick' = (Live /\ RequestWork)
    /\ workScheduled' = (workScheduled \/ (Live /\ RequestWork))
    /\ UNCHANGED <<registered, described, refs, done, active, last, runVars,
                   faultVars, fresh, termination, devVars, ctlVars, workVars,
                   wdVars, irqVars, hwVars>>

\* The queue_work at the end of gc555_video_dma_queue, outside both locks.
QueueKick ==
    /\ apiKick
    /\ apiKick' = FALSE
    /\ QueueWork(TRUE)
    /\ UNCHANGED <<streamVars, ctlVars, workPc, workBuf, wdVars, irqVars,
                   hwVars>>

\* gc555_video_dma_cleanup_buffer; the last reference frees the structure.
CleanupBuffer(b) ==
    /\ ApiIdle
    /\ registered[b] /\ state[b] = "prepared"
    /\ registered' = [registered EXCEPT ![b] = FALSE]
    /\ Put(b)
    /\ state' = IF refs[b] = 1 THEN [state EXCEPT ![b] = "free"] ELSE state
    /\ described' = [described EXCEPT ![b] = FALSE]
    /\ UNCHANGED <<complete, listVars, flagVars, devVars, ctlVars, otherVars,
                   hwVars>>

\* gc555_video_dma_reset, refused while a stream runs.
VideoReset ==
    /\ ApiIdle /\ ~streaming /\ ~stopping /\ ~lost
    /\ engine' = "off" /\ hwNext' = 0
    /\ UNCHANGED <<streamVars, ctlVars, otherVars, hwChan, statusVars>>

\* gc555_fpga_configure by the caller of start; a failure leaves it off.
FpgaConfigure ==
    /\ ApiIdle /\ ~streaming
    /\ \E ok \in BOOLEAN : (ok => ~lost) /\ configured' = ok
    /\ UNCHANGED <<bufVars, listVars, flagVars, lost, ctlVars, otherVars,
                   hwVars>>

-----------------------------------------------------------------------------
(* gc555_video_dma_start *)

\* Under the lock: forget the previous stall; without a ready buffer the call
\* ends with -ENOBUFS.  A start of a running stream changes nothing.
StartBegin ==
    /\ ApiIdle /\ ~lost /\ ~streaming
    /\ failed' = FALSE
    /\ ctl' = IF ready = <<>> THEN "free" ELSE "setup"
    /\ UNCHANGED <<bufVars, listVars, runVars, recoveryRequested,
                   workScheduled, fresh, termination, devVars, closer, ctlBuf,
                   otherVars, hwVars>>

OutputOff == IF ~lost /\ engine = "on" THEN "ending" ELSE engine

\* Acknowledge stale status, output off, channels off, interrupts on; any
\* access may find the device lost.
StartSetup ==
    /\ ctl = "setup"
    /\ \/ /\ ~lost
          /\ hwComplete' = FALSE /\ hwTerm' = FALSE /\ hwCode' = 0
          /\ engine' = OutputOff
          /\ hwChan' = [c \in Channels |-> "idle"]
          /\ irqEnabled' = TRUE
          /\ ctl' = "publish"
          /\ UNCHANGED lost
       \/ /\ lost \/ CanLose
          /\ lost' = TRUE /\ ctl' = "rollback"
          /\ UNCHANGED <<hwComplete, hwTerm, hwCode, engine, hwChan, irqEnabled>>
    /\ UNCHANGED <<bufVars, listVars, flagVars, configured, closer, ctlBuf,
                   otherVars, hwNext, glitches>>

\* Mutant: the buffers on the channels are forgotten.
ReturnBuffers_ListsOnly ==
    LET held == {b \in Buffers : state[b] \in {"ready", "done"}}
    IN  /\ state' = [b \in Buffers |->
                        IF b \in held THEN "prepared" ELSE state[b]]
        /\ complete' = [b \in Buffers |-> complete[b] /\ b \notin held]
        /\ ready' = <<>> /\ done' = <<>>
        /\ active' = [c \in Channels |-> NoBuf]

\* gc555_video_dma_return_buffers_locked
ReturnBuffers ==
    LET held == {b \in Buffers : state[b] \in {"ready", "active", "done"}}
    IN  /\ state' = [b \in Buffers |->
                        IF b \in held THEN "prepared" ELSE state[b]]
        /\ complete' = [b \in Buffers |-> complete[b] /\ b \notin held]
        /\ ready' = <<>> /\ done' = <<>>
        /\ active' = [c \in Channels |-> NoBuf]

\* The critical section that turns streaming on and submits the first frames.
StartPublish ==
    /\ ctl = "publish"
    /\ termination' = FALSE
    /\ stopping' = FALSE
    /\ fresh' = TRUE
    /\ \/ /\ SubmitReady(ready, active, state, hwChan)
          /\ lost' = FALSE /\ \E c \in Channels : active'[c] # NoBuf
          /\ streaming' = TRUE
          /\ ctl' = "enable"
          /\ UNCHANGED <<complete, done>>
       \/ /\ lost \/ CanLose
          /\ lost' = TRUE
          /\ streaming' = FALSE
          /\ ReturnBuffers
          /\ ctl' = "rollback"
          /\ UNCHANGED <<hwChan, last>>
    /\ UNCHANGED <<registered, described, refs, faultVars, workScheduled,
                   configured, closer, ctlBuf, otherVars, hwNext, engine,
                   statusVars>>

\* Enable the engine and the FPGA output, which refuses (-EPIPE) unless the
\* FPGA is configured; on success arm the watchdog and return.
StartEnable ==
    /\ ctl = "enable"
    /\ \/ /\ ~lost /\ configured
          /\ engine' = "on" /\ ctl' = "free"
          /\ QueueWatchdog(TRUE)
          /\ UNCHANGED lost
       \/ /\ lost \/ ~configured \/ CanLose
          /\ lost' = (lost \/ configured)
          /\ ctl' = "rollback"
          /\ UNCHANGED <<engine, wdPending>>
    /\ UNCHANGED <<bufVars, listVars, flagVars, configured, closer, ctlBuf,
                   apiKick, workVars, wdPc, irqVars, hwChan, hwNext,
                   statusVars>>

\* The rollback label: no output to wait for, and the watchdog stays as it is.
StartRollback ==
    /\ ctl = "rollback"
    /\ streaming' = FALSE /\ stopping' = TRUE
    /\ engine' = OutputOff
    /\ ctl' = "mask" /\ closer' = "rollback"
    /\ UNCHANGED <<bufVars, listVars, faultVars, workScheduled, fresh,
                   termination, devVars, ctlBuf, otherVars, hwChan, hwNext,
                   statusVars>>

-----------------------------------------------------------------------------
(* gc555_video_dma_stop_locked, run by stop and by the watchdog, and the    *)
(* same closing steps of the rollback.                                      *)

\* gc555_video_dma_stop takes the lock.
StopBegin ==
    /\ ApiIdle
    /\ termination' = FALSE
    /\ streaming' = FALSE /\ stopping' = TRUE
    /\ ctl' = "cancel_wd" /\ closer' = "stop"
    /\ UNCHANGED <<bufVars, listVars, faultVars, workScheduled, fresh,
                   devVars, ctlBuf, otherVars, hwVars>>

\* cancel_delayed_work_sync(watchdog_work): take it off the queue ...
CancelWatchdog ==
    /\ ctl = "cancel_wd"
    /\ wdPending' = FALSE
    /\ ctl' = "flush_wd"
    /\ UNCHANGED <<streamVars, closer, ctlBuf, apiKick, workVars, wdPc,
                   irqVars, hwVars>>

\* ... and wait until it does not run.
FlushWatchdog ==
    /\ ctl = "flush_wd" /\ wdPc = "idle"
    /\ ctl' = "quiesce"
    /\ UNCHANGED <<streamVars, closer, ctlBuf, otherVars, hwVars>>

\* Output off; a termination is awaited only if the output was on.
Quiesce ==
    /\ ctl = "quiesce"
    /\ engine' = OutputOff
    /\ ctl' = IF engine' = engine THEN "mask" ELSE "wait"
    /\ UNCHANGED <<streamVars, closer, ctlBuf, otherVars, hwChan, hwNext,
                   statusVars>>

\* gc555_video_dma_wait_for_termination: the completion has come ...
Terminated ==
    /\ ctl = "wait" /\ termination
    /\ ctl' = "mask"
    /\ UNCHANGED <<streamVars, closer, ctlBuf, otherVars, hwVars>>

\* ... or GC555_VIDEO_DMA_STOP_TIMEOUT_MS has passed.
StopTimeout ==
    /\ ctl = "wait" /\ ~termination
    /\ ctl' = "mask"
    /\ UNCHANGED <<streamVars, closer, ctlBuf, otherVars, hwVars>>

\* The watchdog's stop also resets the VIP, which deconfigures the FPGA; then
\* the video interrupts are masked.
MaskInterrupts ==
    /\ ctl = "mask"
    /\ configured' = (configured /\ (lost \/ closer # "watchdog"))
    /\ irqEnabled' = (irqEnabled /\ lost)
    /\ ctl' = "sync"
    /\ UNCHANGED <<bufVars, listVars, flagVars, lost, closer, ctlBuf,
                   otherVars, hwChan, hwNext, engine, hwComplete, hwTerm,
                   hwCode, glitches>>

\* synchronize_irq, then cancel_work_sync takes the completion work off ...
SynchronizeIrq ==
    /\ ctl = "sync" /\ irqPc = "idle"
    /\ workPending' = FALSE
    /\ ctl' = "flush_work"
    /\ UNCHANGED <<streamVars, closer, ctlBuf, apiKick, workPc, workBuf,
                   wdVars, irqVars, hwVars>>

\* Mutant: cancel_work instead of cancel_work_sync.
FlushWork_NoWait ==
    /\ ctl = "flush_work"
    /\ ctl' = "clear"
    /\ UNCHANGED <<streamVars, closer, ctlBuf, otherVars, hwVars>>

\* ... and waits until it does not run.
FlushWork ==
    /\ ctl = "flush_work" /\ workPc = "idle"
    /\ ctl' = "clear"
    /\ UNCHANGED <<streamVars, closer, ctlBuf, otherVars, hwVars>>

\* Mutant: the channels keep their control bits.
ClearHardware_EngineOnly ==
    /\ ctl = "clear"
    /\ IF lost
       THEN UNCHANGED <<engine, hwNext>>
       ELSE engine' = "off" /\ hwNext' = 0
    /\ ctl' = "finish"
    /\ UNCHANGED <<streamVars, closer, ctlBuf, otherVars, statusVars, hwChan>>

\* clear_hardware and the engine reset, skipped for a lost device.  (The code
\* skips the reset too if no stream ran: the engine is off then already.)
ClearHardware ==
    /\ ctl = "clear"
    /\ IF lost
       THEN UNCHANGED <<hwChan, engine, hwNext>>
       ELSE /\ hwChan' = [c \in Channels |-> "idle"]
            /\ engine' = "off" /\ hwNext' = 0
    /\ ctl' = "finish"
    /\ UNCHANGED <<streamVars, closer, ctlBuf, otherVars, statusVars>>

\* The last critical section.  A rollback leaves recovery_requested alone; a
\* stop clears failed before it drops control_lock, the watchdog sets it.
StopFinish ==
    /\ ctl = "finish"
    /\ workScheduled' = FALSE
    /\ ReturnBuffers
    /\ last' = -1
    /\ recoveryRequested' = (recoveryRequested /\ closer = "rollback")
    /\ stopping' = FALSE
    /\ failed' = (closer = "watchdog" \/ (failed /\ closer # "stop"))
    /\ ctl' = IF closer = "watchdog" THEN "report" ELSE "free"
    /\ UNCHANGED <<registered, described, refs, streaming, fresh, termination,
                   devVars, closer, ctlBuf, otherVars, hwVars>>

\* The watchdog calls the error handler with control_lock held and returns.
ReportError ==
    /\ ctl = "report"
    /\ ctl' = "free" /\ wdPc' = "idle"
    /\ UNCHANGED <<streamVars, closer, ctlBuf, apiKick, workVars, wdPending,
                   irqVars, hwVars>>

-----------------------------------------------------------------------------
(* gc555_video_dma_watchdog_work *)

WatchdogStart ==
    /\ wdPending /\ wdPc = "idle"
    /\ wdPending' = FALSE /\ wdPc' = "running"
    /\ UNCHANGED <<streamVars, ctlVars, apiKick, workVars, irqVars, hwVars>>

\* Mutant: the trylock fails and the watchdog does not come back.
WatchdogBusy_Gone ==
    /\ wdPc = "running" /\ ctl # "free"
    /\ wdPc' = "idle"
    /\ UNCHANGED <<streamVars, ctlVars, apiKick, workVars, wdPending, irqVars,
                   hwVars>>

\* Mutant: mutex_lock instead of mutex_trylock.
WatchdogBusy_Blocks ==
    /\ wdPc = "running" /\ ctl # "free"
    /\ UNCHANGED vars

\* mutex_trylock fails: come back later.
WatchdogBusy ==
    /\ wdPc = "running" /\ ctl # "free"
    /\ QueueWatchdog(TRUE)
    /\ wdPc' = "idle"
    /\ UNCHANGED <<streamVars, ctlVars, apiKick, workVars, irqVars, hwVars>>

HasActive == \E c \in Channels : active[c] # NoBuf

\* Mutant: only an explicit request counts.
MustRecover_NoStall == Live /\ ~lost /\ recoveryRequested

\* Mutant: only a stall counts.
MustRecover_StallOnly == Live /\ ~lost /\ HasActive /\ ~fresh

MustRecover ==
    /\ Live /\ ~lost
    /\ recoveryRequested \/ (HasActive /\ ~fresh)

WatchdogCheck ==
    /\ wdPc = "running" /\ ctl = "free" /\ ~MustRecover
    /\ QueueWatchdog(Live /\ ~lost)
    /\ wdPc' = "idle"
    /\ UNCHANGED <<streamVars, ctlVars, apiKick, workVars, irqVars, hwVars>>

\* The completion state is unreliable: control_lock is kept for the stop.
WatchdogRecover ==
    /\ wdPc = "running" /\ ctl = "free" /\ MustRecover
    /\ wdPc' = "recovering"
    /\ ctl' = "recover"
    /\ UNCHANGED <<streamVars, closer, ctlBuf, apiKick, workVars, wdPending,
                   irqVars, hwVars>>

\* stop_locked(video_dma, false) begins: the watchdog does not cancel itself.
WatchdogStop ==
    /\ ctl = "recover"
    /\ termination' = FALSE
    /\ streaming' = FALSE /\ stopping' = TRUE
    /\ ctl' = "quiesce" /\ closer' = "watchdog"
    /\ UNCHANGED <<bufVars, listVars, faultVars, workScheduled, fresh,
                   devVars, ctlBuf, otherVars, hwVars>>

\* GC555_VIDEO_DMA_STALL_TIMEOUT_MS has passed since last_progress.
StallTime ==
    /\ fresh
    /\ fresh' = FALSE
    /\ UNCHANGED <<bufVars, listVars, runVars, faultVars, workScheduled,
                   termination, devVars, ctlVars, otherVars, hwVars>>

-----------------------------------------------------------------------------
(* gc555_video_dma_completion_work *)

WorkStart ==
    /\ workPending /\ workPc = "idle"
    /\ workPending' = FALSE /\ workPc' = "scan"
    /\ UNCHANGED <<streamVars, ctlVars, apiKick, workBuf, wdVars, irqVars,
                   hwVars>>

\* Mutant: the work ends without a look at ready_buffers.
WorkExit_NoSubmit ==
    /\ workPc = "scan" /\ done = <<>>
    /\ workScheduled' = FALSE
    /\ workPc' = "idle"
    /\ UNCHANGED <<bufVars, listVars, runVars, faultVars, fresh, termination,
                   devVars, ctlVars, apiKick, workPending, workBuf, wdVars,
                   irqVars, hwVars>>

\* No completion is left: submit what is ready, admit the next request_work.
WorkExit ==
    /\ workPc = "scan" /\ done = <<>>
    /\ IF Live /\ ~lost
       THEN SubmitReady(ready, active, state, hwChan)
       ELSE NoSubmit(ready, active, state, hwChan)
    /\ workScheduled' = FALSE
    /\ workPc' = "idle"
    /\ UNCHANGED <<registered, described, complete, refs, done, runVars,
                   faultVars, fresh, termination, configured, ctlVars,
                   apiKick, workPending, workBuf, wdVars, irqVars, hwNext,
                   engine, statusVars>>

\* Mutant: no reference is taken for the callback.
WorkTake_NoGet ==
    /\ workPc = "scan" /\ done # <<>>
    /\ LET b == Head(done)
           call == complete[b] /\ ~stopping
       IN  /\ done' = Tail(done)
           /\ state' = [state EXCEPT ![b] = "prepared"]
           /\ complete' = [complete EXCEPT ![b] = FALSE]
           /\ workPc' = IF call THEN "callback" ELSE "scan"
           /\ workBuf' = IF call THEN b ELSE NoBuf
    /\ UNCHANGED <<refs, registered, described, ready, active, last, flagVars,
                   devVars, ctlVars, apiKick, workPending, wdVars, irqVars,
                   hwVars>>

\* Take the oldest completion; a stop in progress suppresses its callback.
WorkTake ==
    /\ workPc = "scan" /\ done # <<>>
    /\ LET b == Head(done)
           call == complete[b] /\ ~stopping
       IN  /\ done' = Tail(done)
           /\ state' = [state EXCEPT ![b] = "prepared"]
           /\ complete' = [complete EXCEPT ![b] = FALSE]
           /\ refs' = IF call THEN [refs EXCEPT ![b] = @ + 1] ELSE refs
           /\ workPc' = IF call THEN "callback" ELSE "scan"
           /\ workBuf' = IF call THEN b ELSE NoBuf
    /\ UNCHANGED <<registered, described, ready, active, last, flagVars,
                   devVars, ctlVars, apiKick, workPending, wdVars, irqVars,
                   hwVars>>

\* The callback returns GC555_VIDEO_DMA_RECYCLE or _RELEASE, no lock held.
WorkCallback(action) ==
    /\ workPc = "callback"
    /\ workPc' = action
    /\ UNCHANGED <<streamVars, ctlVars, apiKick, workPending, workBuf, wdVars,
                   irqVars, hwVars>>

Recyclable(b) ==
    /\ workPc = "recycle"
    /\ registered[b] /\ Live /\ ~lost
    /\ state[b] = "prepared" /\ ~complete[b]

\* Back under the lock: requeue a recycled buffer, drop the reference.
WorkSettle ==
    /\ workPc \in {"recycle", "release"}
    /\ IF Recyclable(workBuf)
       THEN /\ complete' = [complete EXCEPT ![workBuf] = TRUE]
            /\ SubmitReady(Append(ready, workBuf), active,
                           [state EXCEPT ![workBuf] = "ready"], hwChan)
       ELSE /\ UNCHANGED complete
            /\ NoSubmit(ready, active,
                        IF refs[workBuf] = 1
                        THEN [state EXCEPT ![workBuf] = "free"] ELSE state,
                        hwChan)
    /\ Put(workBuf)
    /\ workPc' = "scan" /\ workBuf' = NoBuf
    /\ UNCHANGED <<registered, described, done, flagVars, configured, ctlVars,
                   apiKick, workPending, wdVars, irqVars, hwNext, engine,
                   statusVars>>

-----------------------------------------------------------------------------
(* The interrupt handler: gc555_dma_irq and gc555_video_dma_irq *)

\* Read the status, and the channel if a completion is pending; a failed
\* channel read leaves code 0.  Any enabled source of the card gets here.
IrqRead ==
    /\ irqPc = "idle" /\ ~lost
    /\ hwComplete \/ hwTerm
    /\ irqEnabled \/ SharedVector
    /\ \/ /\ irqSeen' = [complete |-> hwComplete, term |-> hwTerm,
                         code |-> IF hwComplete THEN hwCode ELSE 0]
          /\ UNCHANGED lost
       \/ /\ CanLose /\ hwComplete
          /\ irqSeen' = [complete |-> TRUE, term |-> hwTerm, code |-> 0]
          /\ lost' = TRUE
    /\ irqPc' = "handle" /\ irqKick' = FALSE /\ irqRecover' = FALSE
    /\ UNCHANGED <<bufVars, listVars, flagVars, configured, ctlVars, apiKick,
                   workVars, wdVars, hwVars>>

\* The channel the code names, if a buffer is active there.
Completing(c) == irqSeen.complete /\ irqSeen.code = c + 1 /\ active[c] # NoBuf

IrqComplete(c) ==
    /\ irqPc = "handle" /\ Completing(c)
    /\ LET b == active[c]
           act == [active EXCEPT ![c] = NoBuf]
           st == [state EXCEPT ![b] = "done"]
           ch == IF lost THEN hwChan ELSE [hwChan EXCEPT ![c] = "idle"]
       IN  /\ done' = Append(done, b)
           /\ fresh' = TRUE
           /\ irqKick' = RequestWork
           /\ workScheduled' = (workScheduled \/ RequestWork)
           /\ IF Live THEN SubmitReady(ready, act, st, ch)
                      ELSE NoSubmit(ready, act, st, ch)
    /\ irqPc' = "notify"
    /\ UNCHANGED <<registered, described, complete, refs, runVars, faultVars,
                   termination, configured, ctlVars, apiKick, workVars,
                   wdVars, irqSeen, irqRecover, hwNext, engine, statusVars>>

\* A completion of no busy channel asks the watchdog for a recovery.
IrqStray ==
    /\ irqPc = "handle" /\ \A c \in Channels : ~Completing(c)
    /\ irqRecover' = (irqSeen.complete /\ Live)
    /\ recoveryRequested' = (recoveryRequested \/ (irqSeen.complete /\ Live))
    /\ irqPc' = "notify"
    /\ UNCHANGED <<bufVars, listVars, runVars, failed, workScheduled, fresh,
                   termination, devVars, ctlVars, apiKick, workVars, wdVars,
                   irqSeen, irqKick, hwVars>>

\* Mutant: the completion work is not queued.
IrqNotify_NoWork ==
    /\ irqPc = "notify"
    /\ termination' = (termination \/ irqSeen.term)
    /\ QueueWatchdog(irqRecover)
    /\ irqKick' = FALSE /\ irqRecover' = FALSE
    /\ irqPc' = "ack"
    /\ UNCHANGED <<bufVars, listVars, runVars, faultVars, workScheduled,
                   fresh, devVars, ctlVars, apiKick, workVars, wdPc, irqSeen,
                   hwVars>>

\* Outside the lock: complete(), queue_work, mod_delayed_work.
IrqNotify ==
    /\ irqPc = "notify"
    /\ termination' = (termination \/ irqSeen.term)
    /\ QueueWork(irqKick)
    /\ QueueWatchdog(irqRecover)
    /\ irqKick' = FALSE /\ irqRecover' = FALSE
    /\ irqPc' = "ack"
    /\ UNCHANGED <<bufVars, listVars, runVars, faultVars, workScheduled,
                   fresh, devVars, ctlVars, apiKick, workPc, workBuf, wdPc,
                   irqSeen, hwVars>>

\* Acknowledge the bits read at the start, whatever came in since.
IrqAck ==
    /\ irqPc = "ack"
    /\ hwComplete' = (hwComplete /\ (lost \/ ~irqSeen.complete))
    /\ hwTerm' = (hwTerm /\ (lost \/ ~irqSeen.term))
    /\ hwCode' = IF hwComplete' THEN hwCode ELSE 0
    /\ irqSeen' = NothingSeen
    /\ irqPc' = "idle"
    /\ UNCHANGED <<streamVars, ctlVars, apiKick, workVars, wdVars, irqKick,
                   irqRecover, hwChan, hwNext, engine, irqEnabled, glitches>>

-----------------------------------------------------------------------------
(* The hardware (external), as the driver uses it: it fills the channels in *)
(* turn, and its status register holds one completion bit and the channel   *)
(* that completed last.                                                      *)

HwFill ==
    /\ engine # "off" /\ ~lost
    /\ hwChan[hwNext] = "armed"
    /\ hwChan' = [hwChan EXCEPT ![hwNext] = "filled"]
    /\ hwNext' = (hwNext + 1) % NChannels
    /\ hwComplete' = TRUE /\ hwCode' = hwNext + 1
    /\ UNCHANGED <<streamVars, ctlVars, otherVars, engine, hwTerm, irqEnabled,
                   glitches>>

HwTerminate ==
    /\ engine = "ending" /\ ~lost
    /\ engine' = "off" /\ hwTerm' = TRUE
    /\ UNCHANGED <<streamVars, ctlVars, otherVars, hwChan, hwNext, hwComplete,
                   hwCode, irqEnabled, glitches>>

\* A completion that names no channel, or one whose control bit is clear.
HwGlitch ==
    /\ engine = "on" /\ ~lost /\ glitches < MaxGlitches
    /\ hwComplete' = TRUE
    /\ \/ hwCode' = 0
       \/ \E c \in Channels : hwChan[c] = "idle" /\ hwCode' = c + 1
    /\ glitches' = glitches + 1
    /\ UNCHANGED <<streamVars, ctlVars, otherVars, hwChan, hwNext, engine,
                   hwTerm, irqEnabled>>

\* Surprise removal: gc555_dma_mark_device_lost, or a register reads U32_MAX.
LoseDevice ==
    /\ CanLose /\ ~lost
    /\ lost' = TRUE
    /\ UNCHANGED <<bufVars, listVars, flagVars, configured, ctlVars,
                   otherVars, hwVars>>

-----------------------------------------------------------------------------

ApiCall ==
    \/ \E b \in Buffers : PrepareBegin(b) \/ Queue(b) \/ CleanupBuffer(b)
    \/ VideoReset \/ FpgaConfigure \/ StartBegin \/ StopBegin

\* The steps of whoever holds control_lock, one enabled place at a time.
Holder ==
    \/ PrepareEnd
    \/ StartSetup \/ StartPublish \/ StartEnable \/ StartRollback
    \/ CancelWatchdog \/ FlushWatchdog \/ Quiesce \/ Terminated
    \/ MaskInterrupts \/ SynchronizeIrq \/ FlushWork \/ ClearHardware
    \/ StopFinish \/ ReportError \/ WatchdogStop

Watchdog ==
    WatchdogStart \/ WatchdogBusy \/ WatchdogCheck \/ WatchdogRecover

Work ==
    \/ WorkStart \/ WorkExit \/ WorkTake \/ WorkSettle
    \/ \E action \in {"recycle", "release"} : WorkCallback(action)

\* The handler once it has read the status.
IrqBody ==
    \/ IrqStray \/ IrqNotify \/ IrqAck
    \/ \E c \in Channels : IrqComplete(c)

Hardware == HwFill \/ HwTerminate \/ HwGlitch \/ LoseDevice \/ StallTime

Next ==
    \/ ApiCall \/ QueueKick \/ Holder \/ StopTimeout
    \/ Watchdog \/ Work \/ IrqRead \/ IrqBody \/ Hardware

Spec == Init /\ [][Next]_vars

(***************************************************************************)
(* Fairness.  Every thread that can run runs, enabled interrupts are       *)
(* delivered, and time passes: the wait for the termination runs out and   *)
(* the stall time goes by.  The hardware promises nothing: no frame (the   *)
(* source may be unplugged) and no termination.  Nor is any call promised. *)
(* The watchdog samples control_lock by trylock every 250 ms, while a call *)
(* holds it for far less: it does not find it held each time (SF).         *)
(***************************************************************************)
Fairness ==
    /\ WF_vars(Holder) /\ WF_vars(QueueKick)
    /\ WF_vars(StopTimeout)
    /\ WF_vars(Work)
    /\ WF_vars(irqEnabled /\ IrqRead) /\ WF_vars(IrqBody)
    /\ WF_vars(WatchdogStart) /\ SF_vars(ctl = "free" /\ WatchdogStart)
    /\ WF_vars(WatchdogBusy \/ WatchdogCheck) /\ SF_vars(WatchdogRecover)
    /\ WF_vars(StallTime)

LiveSpec == Spec /\ Fairness

-----------------------------------------------------------------------------
(* Safety *)

\* A buffer is on a list, or on a channel, exactly when its state says so,
\* and there only once.
Placed(rdy, dn, act, st) ==
    /\ \A i \in 1 .. Len(rdy) : st[rdy[i]] = "ready"
    /\ \A i \in 1 .. Len(dn) : st[dn[i]] = "done"
    /\ \A c \in Channels : act[c] # NoBuf => st[act[c]] = "active"
    /\ \A i, j \in 1 .. Len(rdy) : rdy[i] = rdy[j] => i = j
    /\ \A i, j \in 1 .. Len(dn) : dn[i] = dn[j] => i = j
    /\ \A c, d \in Channels : act[c] = act[d] /\ act[c] # NoBuf => c = d
    /\ \A b \in Buffers :
        /\ st[b] = "ready" => \E i \in 1 .. Len(rdy) : rdy[i] = b
        /\ st[b] = "done" => \E i \in 1 .. Len(dn) : dn[i] = b
        /\ st[b] = "active" => \E c \in Channels : act[c] = b

\* No buffer is lost, listed twice or owned by a list and a channel at once,
\* although interrupt, completion work, stop and the API each move buffers
\* between ready_buffers, active[] and done_buffers.
Placement == Placed(ready, done, active, state)

\* The structure the completion work holds across its unlocked callback is
\* not freed under it by a cleanup_buffer, and whatever waits on a list or a
\* channel is registered and still owes its one callback.
References ==
    \A b \in Buffers :
        /\ refs[b] = (IF registered[b] THEN 1 ELSE 0)
                     + (IF workBuf = b THEN 1 ELSE 0)
        /\ state[b] = "free" <=> refs[b] = 0
        /\ complete[b] <=> state[b] \in {"ready", "active", "done"}
        /\ state[b] # "prepared" /\ state[b] # "free" => registered[b]

\* completion_work is queued, running, or about to be queued by a party that
\* has left state_lock with the request.
WorkWillRun ==
    workPending \/ workPc # "idle" \/ apiKick \/ (irqPc = "notify" /\ irqKick)

\* After cancel_work_sync, until the stop resets work_scheduled.
WorkCancelled == ctl \in {"flush_work", "clear", "finish"}

\* work_scheduled never stands without a work item behind it.
ScheduledRuns == workScheduled /\ ~WorkCancelled => WorkWillRun

\* A completion, or a ready buffer whose channel is free, has set it.
DoneScheduled == Live /\ ~lost /\ done # <<>> => workScheduled

ReadyScheduled ==
    Live /\ ~lost /\ ready # <<>> /\ NextFree(1, active) => workScheduled

\* No lost wakeup: in a running stream a completion, or a ready buffer whose
\* channel is free, always has a completion work coming, however queue, the
\* interrupt, the work and a stop interleave around work_scheduled.
NoLostWakeup == ScheduledRuns /\ DoneScheduled /\ ReadyScheduled

\* While a stream runs the watchdog is queued or about to be queued again, so
\* a stall is noticed: losing the trylock, the interrupt's mod_delayed_work
\* and a rolled back start never leave it off.
WatchdogArmed ==
    Live /\ ~lost /\ ctl \notin {"enable", "rollback"} =>
        wdPending \/ wdPc # "idle"

\* The hardware writes only into buffers the driver regards as active: a
\* channel is disarmed before its buffer is given back.
DmaTargetsActive ==
    \A c \in Channels : hwChan[c] = "armed" /\ ~lost => active[c] # NoBuf

\* When no call is in progress and no stream runs, no callback runs either,
\* nothing is active or done, no channel is armed and the engine is off.  A
\* recovery request survives only a start that was rolled back.
QuietWhenStopped ==
    ~streaming /\ ctl = "free" =>
        /\ workBuf = NoBuf /\ done = <<>> /\ ~HasActive
        /\ ~lost => engine # "on" /\ \A c \in Channels : hwChan[c] # "armed"
        /\ recoveryRequested => closer = "rollback"

-----------------------------------------------------------------------------
(* Liveness *)

\* Every stop ends, with or without the watchdog, the work and the interrupt
\* handler under way: control_lock, cancel_delayed_work_sync, synchronize_irq
\* and cancel_work_sync never wait for one another in a circle.
StopCompletes == stopping ~> ~stopping

\* A completion that was overwritten or acknowledged unseen leaves a filled
\* channel nobody will complete: the stream is eventually stopped for it.
MissedFrame(c) ==
    /\ streaming /\ active[c] # NoBuf /\ hwChan[c] = "filled"
    /\ ~hwComplete /\ irqPc = "idle"

MissedFrameRecovered ==
    \A c \in Channels : MissedFrame(c) ~> (~streaming \/ lost)

\* A completion the interrupt put on done_buffers is taken off it again, by
\* the completion work or by a stop, unless the device is lost.
DoneServed ==
    \A b \in Buffers : state[b] = "done" ~> (state[b] # "done" \/ lost)

\* Both, where the card may be removed at any step.
RemovalServed == StopCompletes /\ DoneServed

\* A recovery the interrupt asks for stops the stream.
RequestServed == recoveryRequested /\ streaming ~> (~streaming \/ lost)

\* What the completion work and the recovery are asked for is done.
WorkServed == DoneServed /\ RequestServed

=============================================================================
