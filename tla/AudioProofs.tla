---------------------------- MODULE AudioProofs ----------------------------
(***************************************************************************)
(* The audio path.                                                         *)
(*                                                                         *)
(* The engines forget no completion, leave nothing behind when they are    *)
(* stopped and use no freed buffer, for any number of engines, any length  *)
(* of the ring and with a card that may vanish at any step.                *)
(*                                                                         *)
(* The ALSA capture devices, for any streams, formats and number of        *)
(* changes of the source: no change of the format is missed, no callback   *)
(* and no work uses a closed substream, flags and engines agree, nothing   *)
(* is left when the cleanup is over, and the engines are used the way      *)
(* AudioEngine promises to serve.                                          *)
(*                                                                         *)
(* None of the properties is inductive by itself: DmaInv and CaptureInv    *)
(* are.  CaptureInv is about who holds control_lock at which place and     *)
(* what that owner, and nobody else, knows of the engine it starts or      *)
(* stops.  There is one lemma for each of its parts, with one step for     *)
(* each action that can disturb the part.                                  *)
(*                                                                         *)
(* At the end: the ring of a PCM holds the stream, for any sizes of ring,  *)
(* period and DMA buffers.                                                 *)
(***************************************************************************)
EXTENDS AudioDma, AudioCapture, PcmRing, TLAPS

-----------------------------------------------------------------------------
(* The engines                                                              *)

\* Nothing of the engine is at work or left over.
EngineQuiet(s) ==
    /\ workPc[s] = "idle" /\ ~queued[s] /\ s \notin irqKick
    /\ head[s] = tail[s] /\ ~sched[s]
    /\ lost \/ ~enabled[s]

\* The handler has nothing to schedule before it has looked at the rings.
KickLater == irqPc \in {"idle", "audio"} => irqKick = {}

\* The flag of a running stream stands for work to come, and is set as long as
\* its ring holds a completion.
FlagMeansWork == \A s \in Streams :
    streaming[s] /\ sched[s] => queued[s] \/ workPc[s] # "idle" \/ s \in irqKick
RingMeansFlag == \A s \in Streams : streaming[s] /\ head[s] # tail[s] => sched[s]

\* Each step of a quiesce finds what the steps before it have done.
Stages ==
    /\ ctl \in Quiescing \ {"quiesce"} => ~streaming[eng]
    /\ ctl \in {"sync", "cancel", "flush", "clear"} => lost \/ ~enabled[eng]
    /\ ctl \in {"cancel", "flush", "clear"} => eng \notin irqKick
    /\ ctl \in {"flush", "clear"} => ~queued[eng]
    /\ ctl = "clear" => workPc[eng] = "idle"

\* A stream that does not run and is not being quiesced is quiet.
IdleQuiet == \A s \in Streams :
    ~streaming[s] /\ ~(eng = s /\ ctl \in Quiescing) => EngineQuiet(s)

\* Who may use the buffers: a stream, its start, a callback, the hardware.
Users == \A s \in Streams :
    streaming[s] \/ workPc[s] = "call" \/ (enabled[s] /\ ~lost) => buffers[s]
Starting ==
    ctl \in {"setup", "publish", "enable"} =>
        /\ buffers[eng] /\ gone = "no"
        /\ ctl = "enable" <=> streaming[eng]

\* The teardown has only streams left that it has yet to quiesce.
Teardown ==
    /\ gone = "no" => ctl # "cleanup"
    /\ gone # "no" =>
        /\ ctl \in Quiescing \cup {"cleanup"}
        /\ \A s \in Streams : streaming[s] => s \in left \/ (eng = s /\ ctl = "quiesce")
    /\ gone = "gone" => left = {} /\ ctl = "cleanup"

DmaInv ==
    /\ TypeOK
    /\ KickLater /\ FlagMeansWork /\ RingMeansFlag
    /\ Stages /\ IdleQuiet
    /\ Users /\ Starting /\ Teardown

-----------------------------------------------------------------------------

\* The indexes of a ring.
LEMMA RingIndex ==
    /\ 0 \in 0 .. RingLen - 1
    /\ \A i \in 0 .. RingLen - 1 : Next1(i) \in 0 .. RingLen - 1
BY RingAssumption DEF Next1

\* A new card: nothing streams.
LEMMA DmaInit == Init => DmaInv
<1> SUFFICES ASSUME Init PROVE DmaInv OBVIOUS
<1> USE DEF Init
<1>1. TypeOK BY RingIndex, CanLoseAssumption DEF TypeOK, Quiescing
<1>2. KickLater /\ FlagMeansWork /\ RingMeansFlag
  BY DEF KickLater, FlagMeansWork, RingMeansFlag
<1>3. Stages /\ IdleQuiet BY DEF Stages, IdleQuiet, EngineQuiet, Quiescing
<1>4. Users /\ Starting /\ Teardown BY DEF Users, Starting, Teardown
<1> QED BY <1>1, <1>2, <1>3, <1>4 DEF DmaInv

\* A start takes an engine that is quiet and its buffers.
LEMMA StartBeginKeeps == ASSUME DmaInv, NEW s \in Streams, StartBegin(s) PROVE DmaInv'
<1> USE DEF DmaInv, StartBegin, ctlVars, ringVars, workVars, hwVars, irqVars
<1>1. TypeOK' BY DEF TypeOK, Quiescing
<1>2. KickLater' /\ FlagMeansWork' /\ RingMeansFlag'
  BY DEF TypeOK, KickLater, FlagMeansWork, RingMeansFlag, Stages, IdleQuiet, EngineQuiet, Quiescing
<1>3. Stages' BY DEF TypeOK, Stages, IdleQuiet, EngineQuiet, KickLater, Quiescing
<1>4. IdleQuiet' BY DEF TypeOK, Stages, IdleQuiet, EngineQuiet, KickLater, Starting, Quiescing
<1>5. Users' /\ Starting' BY DEF TypeOK, Users, Starting, IdleQuiet, EngineQuiet, Stages, Teardown, Quiescing
<1>6. Teardown' BY DEF TypeOK, Teardown, Starting, Stages, IdleQuiet, Quiescing
<1> QED BY <1>1, <1>2, <1>3, <1>4, <1>5, <1>6

\* The registers are off, or the card is lost and the start is rolled back.
LEMMA StartSetupKeeps == ASSUME DmaInv, StartSetup PROVE DmaInv'
<1> USE DEF DmaInv, StartSetup, Disable, For, ctlVars, ringVars, workVars, hwVars, irqVars
<1>1. TypeOK' BY DEF TypeOK, Quiescing
<1>2. KickLater' /\ FlagMeansWork' /\ RingMeansFlag'
  BY DEF TypeOK, KickLater, FlagMeansWork, RingMeansFlag, Stages, IdleQuiet, EngineQuiet, Quiescing
<1>3. Stages' BY DEF TypeOK, Stages, IdleQuiet, EngineQuiet, KickLater, Quiescing
<1>4. IdleQuiet' BY DEF TypeOK, Stages, IdleQuiet, EngineQuiet, KickLater, Starting, Quiescing
<1>5. Users' /\ Starting' BY DEF TypeOK, Users, Starting, IdleQuiet, EngineQuiet, Stages, Teardown, Quiescing
<1>6. Teardown' BY DEF TypeOK, Teardown, Starting, Stages, IdleQuiet, Quiescing
<1> QED BY <1>1, <1>2, <1>3, <1>4, <1>5, <1>6

\* The stream runs, with an empty ring and no flag.
LEMMA StartPublishKeeps == ASSUME DmaInv, StartPublish PROVE DmaInv'
<1> USE DEF DmaInv, StartPublish, For, ctlVars, ringVars, workVars, hwVars, irqVars
<1>1. TypeOK' BY RingIndex DEF TypeOK, Quiescing
<1>2. KickLater' /\ FlagMeansWork' /\ RingMeansFlag'
  BY DEF TypeOK, KickLater, FlagMeansWork, RingMeansFlag, Stages, IdleQuiet, EngineQuiet, Quiescing
<1>3. Stages' BY DEF TypeOK, Stages, IdleQuiet, EngineQuiet, KickLater, Quiescing
<1>4. IdleQuiet' BY DEF TypeOK, Stages, IdleQuiet, EngineQuiet, KickLater, Starting, Quiescing
<1>5. Users' /\ Starting' BY DEF TypeOK, Users, Starting, IdleQuiet, EngineQuiet, Stages, Teardown, Quiescing
<1>6. Teardown' BY DEF TypeOK, Teardown, Starting, Stages, IdleQuiet, Quiescing
<1> QED BY <1>1, <1>2, <1>3, <1>4, <1>5, <1>6

\* The hardware writes, from here on, into buffers that are there.
LEMMA StartEnableKeeps == ASSUME DmaInv, StartEnable PROVE DmaInv'
<1> USE DEF DmaInv, StartEnable, For, ctlVars, ringVars, workVars, hwVars, irqVars
<1>1. TypeOK' BY DEF TypeOK, Quiescing
<1>2. KickLater' /\ FlagMeansWork' /\ RingMeansFlag'
  BY DEF TypeOK, KickLater, FlagMeansWork, RingMeansFlag, Stages, IdleQuiet, EngineQuiet, Quiescing
<1>3. Stages' BY DEF TypeOK, Stages, IdleQuiet, EngineQuiet, KickLater, Quiescing
<1>4. IdleQuiet' BY DEF TypeOK, Stages, IdleQuiet, EngineQuiet, KickLater, Starting, Quiescing
<1>5. Users' /\ Starting' BY DEF TypeOK, Users, Starting, IdleQuiet, EngineQuiet, Stages, Teardown, Quiescing
<1>6. Teardown' BY DEF TypeOK, Teardown, Starting, Stages, IdleQuiet, Quiescing
<1> QED BY <1>1, <1>2, <1>3, <1>4, <1>5, <1>6

\* A stop takes an engine that streams.
LEMMA StopBeginKeeps == ASSUME DmaInv, NEW s \in Streams, StopBegin(s) PROVE DmaInv'
<1> USE DEF DmaInv, StopBegin, ctlVars, ringVars, workVars, hwVars, irqVars
<1>1. TypeOK' BY DEF TypeOK, Quiescing
<1>2. KickLater' /\ FlagMeansWork' /\ RingMeansFlag'
  BY DEF TypeOK, KickLater, FlagMeansWork, RingMeansFlag, Stages, IdleQuiet, EngineQuiet, Quiescing
<1>3. Stages' BY DEF TypeOK, Stages, IdleQuiet, EngineQuiet, KickLater, Quiescing
<1>4. IdleQuiet' BY DEF TypeOK, Stages, IdleQuiet, EngineQuiet, KickLater, Starting, Quiescing
<1>5. Users' /\ Starting' BY DEF TypeOK, Users, Starting, IdleQuiet, EngineQuiet, Stages, Teardown, Quiescing
<1>6. Teardown' BY DEF TypeOK, Teardown, Starting, Stages, IdleQuiet, Quiescing
<1> QED BY <1>1, <1>2, <1>3, <1>4, <1>5, <1>6

\* The handler counts no more completions of the stream.
LEMMA QuiesceFlagKeeps == ASSUME DmaInv, QuiesceFlag PROVE DmaInv'
<1> USE DEF DmaInv, QuiesceFlag, For, ctlVars, ringVars, workVars, hwVars, irqVars
<1>1. TypeOK' BY DEF TypeOK, Quiescing
<1>2. KickLater' /\ FlagMeansWork' /\ RingMeansFlag'
  BY DEF TypeOK, KickLater, FlagMeansWork, RingMeansFlag, Stages, IdleQuiet, EngineQuiet, Quiescing
<1>3. Stages' BY DEF TypeOK, Stages, IdleQuiet, EngineQuiet, KickLater, Quiescing
<1>4. IdleQuiet' BY DEF TypeOK, Stages, IdleQuiet, EngineQuiet, KickLater, Starting, Quiescing
<1>5. Users' /\ Starting' BY DEF TypeOK, Users, Starting, IdleQuiet, EngineQuiet, Stages, Teardown, Quiescing
<1>6. Teardown' BY DEF TypeOK, Teardown, Starting, Stages, IdleQuiet, Quiescing
<1> QED BY <1>1, <1>2, <1>3, <1>4, <1>5, <1>6

\* The hardware writes no more.
LEMMA QuiesceMaskKeeps == ASSUME DmaInv, QuiesceMask PROVE DmaInv'
<1> USE DEF DmaInv, QuiesceMask, Disable, For, ctlVars, ringVars, workVars, hwVars, irqVars
<1>1. TypeOK' BY DEF TypeOK, Quiescing
<1>2. KickLater' /\ FlagMeansWork' /\ RingMeansFlag'
  BY DEF TypeOK, KickLater, FlagMeansWork, RingMeansFlag, Stages, IdleQuiet, EngineQuiet, Quiescing
<1>3. Stages' BY DEF TypeOK, Stages, IdleQuiet, EngineQuiet, KickLater, Quiescing
<1>4. IdleQuiet' BY DEF TypeOK, Stages, IdleQuiet, EngineQuiet, KickLater, Starting, Quiescing
<1>5. Users' /\ Starting' BY DEF TypeOK, Users, Starting, IdleQuiet, EngineQuiet, Stages, Teardown, Quiescing
<1>6. Teardown' BY DEF TypeOK, Teardown, Starting, Stages, IdleQuiet, Quiescing
<1> QED BY <1>1, <1>2, <1>3, <1>4, <1>5, <1>6

\* No handler is left that could schedule.
LEMMA SynchronizeIrqKeeps == ASSUME DmaInv, SynchronizeIrq PROVE DmaInv'
<1> USE DEF DmaInv, SynchronizeIrq, ctlVars, ringVars, workVars, hwVars, irqVars
<1>1. TypeOK' BY DEF TypeOK, Quiescing
<1>2. KickLater' /\ FlagMeansWork' /\ RingMeansFlag'
  BY DEF TypeOK, KickLater, FlagMeansWork, RingMeansFlag, Stages, IdleQuiet, EngineQuiet, Quiescing
<1>3. Stages' BY DEF TypeOK, Stages, IdleQuiet, EngineQuiet, KickLater, Quiescing
<1>4. IdleQuiet' BY DEF TypeOK, Stages, IdleQuiet, EngineQuiet, KickLater, Starting, Quiescing
<1>5. Users' /\ Starting' BY DEF TypeOK, Users, Starting, IdleQuiet, EngineQuiet, Stages, Teardown, Quiescing
<1>6. Teardown' BY DEF TypeOK, Teardown, Starting, Stages, IdleQuiet, Quiescing
<1> QED BY <1>1, <1>2, <1>3, <1>4, <1>5, <1>6

\* No work is queued.
LEMMA CancelWorkKeeps == ASSUME DmaInv, CancelWork PROVE DmaInv'
<1> USE DEF DmaInv, CancelWork, For, ctlVars, ringVars, workVars, hwVars, irqVars
<1>1. TypeOK' BY DEF TypeOK, Quiescing
<1>2. KickLater' /\ FlagMeansWork' /\ RingMeansFlag'
  BY DEF TypeOK, KickLater, FlagMeansWork, RingMeansFlag, Stages, IdleQuiet, EngineQuiet, Quiescing
<1>3. Stages' BY DEF TypeOK, Stages, IdleQuiet, EngineQuiet, KickLater, Quiescing
<1>4. IdleQuiet' BY DEF TypeOK, Stages, IdleQuiet, EngineQuiet, KickLater, Starting, Quiescing
<1>5. Users' /\ Starting' BY DEF TypeOK, Users, Starting, IdleQuiet, EngineQuiet, Stages, Teardown, Quiescing
<1>6. Teardown' BY DEF TypeOK, Teardown, Starting, Stages, IdleQuiet, Quiescing
<1> QED BY <1>1, <1>2, <1>3, <1>4, <1>5, <1>6

\* No work runs.
LEMMA FlushWorkKeeps == ASSUME DmaInv, FlushWork PROVE DmaInv'
<1> USE DEF DmaInv, FlushWork, ctlVars, ringVars, workVars, hwVars, irqVars
<1>1. TypeOK' BY DEF TypeOK, Quiescing
<1>2. KickLater' /\ FlagMeansWork' /\ RingMeansFlag'
  BY DEF TypeOK, KickLater, FlagMeansWork, RingMeansFlag, Stages, IdleQuiet, EngineQuiet, Quiescing
<1>3. Stages' BY DEF TypeOK, Stages, IdleQuiet, EngineQuiet, KickLater, Quiescing
<1>4. IdleQuiet' BY DEF TypeOK, Stages, IdleQuiet, EngineQuiet, KickLater, Starting, Quiescing
<1>5. Users' /\ Starting' BY DEF TypeOK, Users, Starting, IdleQuiet, EngineQuiet, Stages, Teardown, Quiescing
<1>6. Teardown' BY DEF TypeOK, Teardown, Starting, Stages, IdleQuiet, Quiescing
<1> QED BY <1>1, <1>2, <1>3, <1>4, <1>5, <1>6

\* The ring is empty and the flag clear: the engine is quiet.
LEMMA ClearStateKeeps == ASSUME DmaInv, ClearState PROVE DmaInv'
<1> USE DEF DmaInv, ClearState, For, ctlVars, ringVars, workVars, hwVars, irqVars
<1>1. TypeOK' BY RingIndex DEF TypeOK, Quiescing
<1>2. KickLater' /\ FlagMeansWork' /\ RingMeansFlag'
  BY DEF TypeOK, KickLater, FlagMeansWork, RingMeansFlag, Stages, IdleQuiet, EngineQuiet, Quiescing
<1>3. Stages' BY DEF TypeOK, Stages, IdleQuiet, EngineQuiet, KickLater, Quiescing
<1>4. IdleQuiet' BY DEF TypeOK, Stages, IdleQuiet, EngineQuiet, KickLater, Starting, Quiescing
<1>5. Users' /\ Starting' BY DEF TypeOK, Users, Starting, IdleQuiet, EngineQuiet, Stages, Teardown, Quiescing
<1>6. Teardown' BY DEF TypeOK, Teardown, Starting, Stages, IdleQuiet, Quiescing
<1> QED BY <1>1, <1>2, <1>3, <1>4, <1>5, <1>6

\* The teardown takes all that have buffers.
LEMMA CleanupBeginKeeps == ASSUME DmaInv, CleanupBegin PROVE DmaInv'
<1> USE DEF DmaInv, CleanupBegin, ctlVars, ringVars, workVars, hwVars, irqVars
<1>1. TypeOK' BY DEF TypeOK, Quiescing
<1>2. KickLater' /\ FlagMeansWork' /\ RingMeansFlag'
  BY DEF TypeOK, KickLater, FlagMeansWork, RingMeansFlag, Stages, IdleQuiet, EngineQuiet, Quiescing
<1>3. Stages' BY DEF TypeOK, Stages, IdleQuiet, EngineQuiet, KickLater, Quiescing
<1>4. IdleQuiet' BY DEF TypeOK, Stages, IdleQuiet, EngineQuiet, KickLater, Starting, Quiescing
<1>5. Users' /\ Starting' BY DEF TypeOK, Users, Starting, IdleQuiet, EngineQuiet, Stages, Teardown, Quiescing
<1>6. Teardown' BY DEF TypeOK, Teardown, Starting, Stages, IdleQuiet, Quiescing
<1> QED BY <1>1, <1>2, <1>3, <1>4, <1>5, <1>6

\* The teardown quiesces one engine after the other.
LEMMA CleanupNextKeeps == ASSUME DmaInv, NEW s \in Streams, CleanupNext(s) PROVE DmaInv'
<1> USE DEF DmaInv, CleanupNext, ctlVars, ringVars, workVars, hwVars, irqVars
<1>1. TypeOK' BY DEF TypeOK, Quiescing
<1>2. KickLater' /\ FlagMeansWork' /\ RingMeansFlag'
  BY DEF TypeOK, KickLater, FlagMeansWork, RingMeansFlag, Stages, IdleQuiet, EngineQuiet, Quiescing
<1>3. Stages' BY DEF TypeOK, Stages, IdleQuiet, EngineQuiet, KickLater, Quiescing
<1>4. IdleQuiet' BY DEF TypeOK, Stages, IdleQuiet, EngineQuiet, KickLater, Starting, Quiescing
<1>5. Users' /\ Starting' BY DEF TypeOK, Users, Starting, IdleQuiet, EngineQuiet, Stages, Teardown, Quiescing
<1>6. Teardown' BY DEF TypeOK, Teardown, Starting, Stages, IdleQuiet, Quiescing
<1> QED BY <1>1, <1>2, <1>3, <1>4, <1>5, <1>6

\* Buffers are freed when no stream is left.
LEMMA CleanupFreeKeeps == ASSUME DmaInv, CleanupFree PROVE DmaInv'
<1> USE DEF DmaInv, CleanupFree, ctlVars, ringVars, workVars, hwVars, irqVars
<1>1. TypeOK' BY DEF TypeOK, Quiescing
<1>2. KickLater' /\ FlagMeansWork' /\ RingMeansFlag'
  BY DEF TypeOK, KickLater, FlagMeansWork, RingMeansFlag, Stages, IdleQuiet, EngineQuiet, Quiescing
<1>3. Stages' BY DEF TypeOK, Stages, IdleQuiet, EngineQuiet, KickLater, Quiescing
<1>4. IdleQuiet' BY DEF TypeOK, Stages, IdleQuiet, EngineQuiet, KickLater, Starting, Quiescing
<1>5. Users' /\ Starting' BY DEF TypeOK, Users, Starting, IdleQuiet, EngineQuiet, Stages, Teardown, Quiescing
<1>6. Teardown' BY DEF TypeOK, Teardown, Starting, Stages, IdleQuiet, Quiescing
<1> QED BY <1>1, <1>2, <1>3, <1>4, <1>5, <1>6

\* The handler reads the status.
LEMMA IrqReadKeeps == ASSUME DmaInv, IrqRead PROVE DmaInv'
<1> USE DEF DmaInv, IrqRead, ctlVars, ringVars, workVars, hwVars, irqVars
<1>1. TypeOK' BY DEF TypeOK, Quiescing
<1>2. KickLater' /\ FlagMeansWork' /\ RingMeansFlag'
  BY DEF TypeOK, KickLater, FlagMeansWork, RingMeansFlag, Stages, IdleQuiet, EngineQuiet, Quiescing
<1>3. Stages' BY DEF TypeOK, Stages, IdleQuiet, EngineQuiet, KickLater, Quiescing
<1>4. IdleQuiet' BY DEF TypeOK, Stages, IdleQuiet, EngineQuiet, KickLater, Starting, Quiescing
<1>5. Users' /\ Starting' BY DEF TypeOK, Users, Starting, IdleQuiet, EngineQuiet, Stages, Teardown, Quiescing
<1>6. Teardown' BY DEF TypeOK, Teardown, Starting, Stages, IdleQuiet, Quiescing
<1> QED BY <1>1, <1>2, <1>3, <1>4, <1>5, <1>6

\* The handler queues completions and sets the flag.
LEMMA IrqAudioKeeps == ASSUME DmaInv, IrqAudio PROVE DmaInv'
<1> USE DEF DmaInv, IrqAudio, Counts, Full, ctlVars, ringVars, workVars, hwVars, irqVars
<1>1. TypeOK'
  <2>1. PICK counted \in SUBSET {s \in Streams : Counts(s)} :
            LET in == {s \in counted : ~Full(s)} IN
            /\ head' = [s \in Streams |-> IF s \in in THEN Next1(head[s]) ELSE head[s]]
            /\ sched' = [s \in Streams |-> sched[s] \/ s \in in]
            /\ irqKick' = {s \in in : ~sched[s]}
    OBVIOUS
  <2>2. \A s \in Streams : head[s] \in 0 .. RingLen - 1 /\ Next1(head[s]) \in 0 .. RingLen - 1
    BY RingIndex DEF TypeOK
  <2>3. head' \in [Streams -> 0 .. RingLen - 1]
    BY <2>1, <2>2
  <2>4. sched' \in [Streams -> BOOLEAN] /\ irqKick' \subseteq Streams
    BY <2>1 DEF TypeOK
  <2> QED BY <2>3, <2>4 DEF TypeOK
<1>2. KickLater' /\ FlagMeansWork' /\ RingMeansFlag'
  BY DEF TypeOK, KickLater, FlagMeansWork, RingMeansFlag, Stages, IdleQuiet, EngineQuiet, Quiescing
<1>3. Stages' BY DEF TypeOK, Stages, IdleQuiet, EngineQuiet, KickLater, Quiescing
<1>4. IdleQuiet' BY DEF TypeOK, Stages, IdleQuiet, EngineQuiet, KickLater, Starting, Quiescing
<1>5. Users' /\ Starting' BY DEF TypeOK, Users, Starting, IdleQuiet, EngineQuiet, Stages, Teardown, Quiescing
<1>6. Teardown' BY DEF TypeOK, Teardown, Starting, Stages, IdleQuiet, Quiescing
<1> QED BY <1>1, <1>2, <1>3, <1>4, <1>5, <1>6

\* The handler acknowledges.
LEMMA IrqAckKeeps == ASSUME DmaInv, IrqAck PROVE DmaInv'
<1> USE DEF DmaInv, IrqAck, ctlVars, ringVars, workVars, hwVars, irqVars
<1>1. TypeOK' BY DEF TypeOK, Quiescing
<1>2. KickLater' /\ FlagMeansWork' /\ RingMeansFlag'
  BY DEF TypeOK, KickLater, FlagMeansWork, RingMeansFlag, Stages, IdleQuiet, EngineQuiet, Quiescing
<1>3. Stages' BY DEF TypeOK, Stages, IdleQuiet, EngineQuiet, KickLater, Quiescing
<1>4. IdleQuiet' BY DEF TypeOK, Stages, IdleQuiet, EngineQuiet, KickLater, Starting, Quiescing
<1>5. Users' /\ Starting' BY DEF TypeOK, Users, Starting, IdleQuiet, EngineQuiet, Stages, Teardown, Quiescing
<1>6. Teardown' BY DEF TypeOK, Teardown, Starting, Stages, IdleQuiet, Quiescing
<1> QED BY <1>1, <1>2, <1>3, <1>4, <1>5, <1>6

\* The handler schedules.
LEMMA IrqKickKeeps == ASSUME DmaInv, IrqKick PROVE DmaInv'
<1> USE DEF DmaInv, IrqKick, ctlVars, ringVars, workVars, hwVars, irqVars
<1>1. TypeOK' BY DEF TypeOK, Quiescing
<1>2. KickLater' /\ FlagMeansWork' /\ RingMeansFlag'
  BY DEF TypeOK, KickLater, FlagMeansWork, RingMeansFlag, Stages, IdleQuiet, EngineQuiet, Quiescing
<1>3. Stages' BY DEF TypeOK, Stages, IdleQuiet, EngineQuiet, KickLater, Quiescing
<1>4. IdleQuiet' BY DEF TypeOK, Stages, IdleQuiet, EngineQuiet, KickLater, Starting, Quiescing
<1>5. Users' /\ Starting' BY DEF TypeOK, Users, Starting, IdleQuiet, EngineQuiet, Stages, Teardown, Quiescing
<1>6. Teardown' BY DEF TypeOK, Teardown, Starting, Stages, IdleQuiet, Quiescing
<1> QED BY <1>1, <1>2, <1>3, <1>4, <1>5, <1>6

\* The work leaves its queue.
LEMMA WorkStartKeeps == ASSUME DmaInv, NEW s \in Streams, WorkStart(s) PROVE DmaInv'
<1> USE DEF DmaInv, WorkStart, ctlVars, ringVars, workVars, hwVars, irqVars
<1>1. TypeOK' BY DEF TypeOK, Quiescing
<1>2. KickLater' /\ FlagMeansWork' /\ RingMeansFlag'
  BY DEF TypeOK, KickLater, FlagMeansWork, RingMeansFlag, Stages, IdleQuiet, EngineQuiet, Quiescing
<1>3. Stages' BY DEF TypeOK, Stages, IdleQuiet, EngineQuiet, KickLater, Quiescing
<1>4. IdleQuiet' BY DEF TypeOK, Stages, IdleQuiet, EngineQuiet, KickLater, Starting, Quiescing
<1>5. Users' /\ Starting' BY DEF TypeOK, Users, Starting, IdleQuiet, EngineQuiet, Stages, Teardown, Quiescing
<1>6. Teardown' BY DEF TypeOK, Teardown, Starting, Stages, IdleQuiet, Quiescing
<1> QED BY <1>1, <1>2, <1>3, <1>4, <1>5, <1>6

\* The work clears the flag when the ring is empty.
LEMMA WorkExitKeeps == ASSUME DmaInv, NEW s \in Streams, WorkExit(s) PROVE DmaInv'
<1> USE DEF DmaInv, WorkExit, ctlVars, ringVars, workVars, hwVars, irqVars
<1>1. TypeOK' BY DEF TypeOK, Quiescing
<1>2. KickLater' /\ FlagMeansWork' /\ RingMeansFlag'
  BY DEF TypeOK, KickLater, FlagMeansWork, RingMeansFlag, Stages, IdleQuiet, EngineQuiet, Quiescing
<1>3. Stages' BY DEF TypeOK, Stages, IdleQuiet, EngineQuiet, KickLater, Quiescing
<1>4. IdleQuiet' BY DEF TypeOK, Stages, IdleQuiet, EngineQuiet, KickLater, Starting, Quiescing
<1>5. Users' /\ Starting' BY DEF TypeOK, Users, Starting, IdleQuiet, EngineQuiet, Stages, Teardown, Quiescing
<1>6. Teardown' BY DEF TypeOK, Teardown, Starting, Stages, IdleQuiet, Quiescing
<1> QED BY <1>1, <1>2, <1>3, <1>4, <1>5, <1>6

\* The work takes a completion.
LEMMA WorkTakeKeeps == ASSUME DmaInv, NEW s \in Streams, WorkTake(s) PROVE DmaInv'
<1> USE DEF DmaInv, WorkTake, ctlVars, ringVars, workVars, hwVars, irqVars
<1>1. TypeOK'
  <2>1. Next1(tail[s]) \in 0 .. RingLen - 1 BY RingIndex DEF TypeOK
  <2> QED BY <2>1 DEF TypeOK
<1>2. KickLater' /\ FlagMeansWork' /\ RingMeansFlag'
  BY DEF TypeOK, KickLater, FlagMeansWork, RingMeansFlag, Stages, IdleQuiet, EngineQuiet, Quiescing
<1>3. Stages' BY DEF TypeOK, Stages, IdleQuiet, EngineQuiet, KickLater, Quiescing
<1>4. IdleQuiet' BY DEF TypeOK, Stages, IdleQuiet, EngineQuiet, KickLater, Starting, Quiescing
<1>5. Users' /\ Starting' BY DEF TypeOK, Users, Starting, IdleQuiet, EngineQuiet, Stages, Teardown, Quiescing
<1>6. Teardown' BY DEF TypeOK, Teardown, Starting, Stages, IdleQuiet, Quiescing
<1> QED BY <1>1, <1>2, <1>3, <1>4, <1>5, <1>6

\* A callback returns.
LEMMA WorkCallKeeps == ASSUME DmaInv, NEW s \in Streams, WorkCall(s) PROVE DmaInv'
<1> USE DEF DmaInv, WorkCall, ctlVars, ringVars, workVars, hwVars, irqVars
<1>1. TypeOK' BY DEF TypeOK, Quiescing
<1>2. KickLater' /\ FlagMeansWork' /\ RingMeansFlag'
  BY DEF TypeOK, KickLater, FlagMeansWork, RingMeansFlag, Stages, IdleQuiet, EngineQuiet, Quiescing
<1>3. Stages' BY DEF TypeOK, Stages, IdleQuiet, EngineQuiet, KickLater, Quiescing
<1>4. IdleQuiet' BY DEF TypeOK, Stages, IdleQuiet, EngineQuiet, KickLater, Starting, Quiescing
<1>5. Users' /\ Starting' BY DEF TypeOK, Users, Starting, IdleQuiet, EngineQuiet, Stages, Teardown, Quiescing
<1>6. Teardown' BY DEF TypeOK, Teardown, Starting, Stages, IdleQuiet, Quiescing
<1> QED BY <1>1, <1>2, <1>3, <1>4, <1>5, <1>6

\* A buffer is complete.
LEMMA CompleteKeeps == ASSUME DmaInv, NEW s \in Streams, Complete(s) PROVE DmaInv'
<1> USE DEF DmaInv, Complete, ctlVars, ringVars, workVars, hwVars, irqVars
<1>1. TypeOK' BY DEF TypeOK, Quiescing
<1>2. KickLater' /\ FlagMeansWork' /\ RingMeansFlag'
  BY DEF TypeOK, KickLater, FlagMeansWork, RingMeansFlag, Stages, IdleQuiet, EngineQuiet, Quiescing
<1>3. Stages' BY DEF TypeOK, Stages, IdleQuiet, EngineQuiet, KickLater, Quiescing
<1>4. IdleQuiet' BY DEF TypeOK, Stages, IdleQuiet, EngineQuiet, KickLater, Starting, Quiescing
<1>5. Users' /\ Starting' BY DEF TypeOK, Users, Starting, IdleQuiet, EngineQuiet, Stages, Teardown, Quiescing
<1>6. Teardown' BY DEF TypeOK, Teardown, Starting, Stages, IdleQuiet, Quiescing
<1> QED BY <1>1, <1>2, <1>3, <1>4, <1>5, <1>6

\* The card vanishes.
LEMMA LoseDeviceKeeps == ASSUME DmaInv, LoseDevice PROVE DmaInv'
<1> USE DEF DmaInv, LoseDevice, ctlVars, ringVars, workVars, hwVars, irqVars
<1>1. TypeOK' BY DEF TypeOK, Quiescing
<1>2. KickLater' /\ FlagMeansWork' /\ RingMeansFlag'
  BY DEF TypeOK, KickLater, FlagMeansWork, RingMeansFlag, Stages, IdleQuiet, EngineQuiet, Quiescing
<1>3. Stages' BY DEF TypeOK, Stages, IdleQuiet, EngineQuiet, KickLater, Quiescing
<1>4. IdleQuiet' BY DEF TypeOK, Stages, IdleQuiet, EngineQuiet, KickLater, Starting, Quiescing
<1>5. Users' /\ Starting' BY DEF TypeOK, Users, Starting, IdleQuiet, EngineQuiet, Stages, Teardown, Quiescing
<1>6. Teardown' BY DEF TypeOK, Teardown, Starting, Stages, IdleQuiet, Quiescing
<1> QED BY <1>1, <1>2, <1>3, <1>4, <1>5, <1>6

\* Every step keeps the invariant.
LEMMA DmaNext == DmaInv /\ [Next]_vars => DmaInv'
<1> SUFFICES ASSUME DmaInv, [Next]_vars PROVE DmaInv' OBVIOUS
<1>1. ASSUME NEW s \in Streams, StartBegin(s) PROVE DmaInv' BY <1>1, StartBeginKeeps
<1>2. CASE StartSetup BY <1>2, StartSetupKeeps
<1>3. CASE StartPublish BY <1>3, StartPublishKeeps
<1>4. CASE StartEnable BY <1>4, StartEnableKeeps
<1>5. ASSUME NEW s \in Streams, StopBegin(s) PROVE DmaInv' BY <1>5, StopBeginKeeps
<1>6. CASE QuiesceFlag BY <1>6, QuiesceFlagKeeps
<1>7. CASE QuiesceMask BY <1>7, QuiesceMaskKeeps
<1>8. CASE SynchronizeIrq BY <1>8, SynchronizeIrqKeeps
<1>9. CASE CancelWork BY <1>9, CancelWorkKeeps
<1>10. CASE FlushWork BY <1>10, FlushWorkKeeps
<1>11. CASE ClearState BY <1>11, ClearStateKeeps
<1>12. CASE CleanupBegin BY <1>12, CleanupBeginKeeps
<1>13. ASSUME NEW s \in Streams, CleanupNext(s) PROVE DmaInv' BY <1>13, CleanupNextKeeps
<1>14. CASE CleanupFree BY <1>14, CleanupFreeKeeps
<1>15. CASE IrqRead BY <1>15, IrqReadKeeps
<1>16. CASE IrqAudio BY <1>16, IrqAudioKeeps
<1>17. CASE IrqAck BY <1>17, IrqAckKeeps
<1>18. CASE IrqKick BY <1>18, IrqKickKeeps
<1>19. ASSUME NEW s \in Streams, WorkStart(s) PROVE DmaInv' BY <1>19, WorkStartKeeps
<1>20. ASSUME NEW s \in Streams, WorkExit(s) PROVE DmaInv' BY <1>20, WorkExitKeeps
<1>21. ASSUME NEW s \in Streams, WorkTake(s) PROVE DmaInv' BY <1>21, WorkTakeKeeps
<1>22. ASSUME NEW s \in Streams, WorkCall(s) PROVE DmaInv' BY <1>22, WorkCallKeeps
<1>23. ASSUME NEW s \in Streams, Complete(s) PROVE DmaInv' BY <1>23, CompleteKeeps
<1>24. CASE LoseDevice BY <1>24, LoseDeviceKeeps
<1>25. CASE UNCHANGED vars
  BY <1>25 DEF vars, ctlVars, ringVars, workVars, hwVars, irqVars, DmaInv, TypeOK, KickLater, FlagMeansWork,
     RingMeansFlag, Stages, IdleQuiet, EngineQuiet, Users, Starting, Teardown
<1> QED
  BY <1>1, <1>2, <1>3, <1>4, <1>5, <1>6, <1>7, <1>8, <1>9, <1>10, <1>11, <1>12, <1>13,
     <1>14, <1>15, <1>16, <1>17, <1>18, <1>19, <1>20, <1>21, <1>22, <1>23, <1>24, <1>25 DEF Next, Call, Holder, Handler, Work

\* The invariant holds throughout.
THEOREM DmaThroughout == Spec => []DmaInv
BY DmaInit, DmaNext, PTL DEF Spec

\* Indexes stay inside the ring and places are places.
THEOREM TypeCorrect == Spec => []TypeOK
<1>1. DmaInv => TypeOK BY DEF DmaInv
<1> QED BY <1>1, DmaThroughout, PTL

\* A completion in the ring of a running stream always has work to come: the
\* flag and the ring are read and written in different critical sections, by
\* the handler, the work and the start.
THEOREM NoLostWakeupTheorem == Spec => []NoLostWakeup
<1>1. DmaInv => NoLostWakeup BY DEF DmaInv, NoLostWakeup, FlagMeansWork, RingMeansFlag
<1> QED BY <1>1, DmaThroughout, PTL

\* A stop, a start that is rolled back and the teardown leave nothing behind.
THEOREM StoppedQuietTheorem == Spec => []StoppedQuiet
<1>1. DmaInv => StoppedQuiet BY DEF DmaInv, StoppedQuiet, IdleQuiet, EngineQuiet, Quiescing
<1> QED BY <1>1, DmaThroughout, PTL

\* Neither the callback nor the hardware uses freed buffers.
THEOREM BuffersInUseTheorem == Spec => []BuffersInUse
<1>1. DmaInv => BuffersInUse BY DEF DmaInv, BuffersInUse, Users
<1> QED BY <1>1, DmaThroughout, PTL

-----------------------------------------------------------------------------
(* The engines implement AudioEngine                                        *)

\* The abstract state of GateKept.
Gate == [s \in Streams |->
           IF eng = s /\ ctl \in Quiescing \ {"quiesce"} THEN "closing"
           ELSE IF streaming[s] THEN "open" ELSE "shut"]
Serving == [s \in Streams |-> workPc[s] = "call"]

\* The step of one engine's gate.
LEMMA GateStep ==
    ASSUME NEW s \in Streams, NEW g,
           \A t \in Streams : Gate'[t] = IF t = s THEN g ELSE Gate[t]
    PROVE  Gate' = [Gate EXCEPT ![s] = g]
BY DEF Gate

\* Steps that move no gate and no callback.
LEMMA GateStutter ==
    ASSUME DmaInv, workPc' = workPc,
           \A s \in Streams : Gate'[s] = Gate[s]
    PROVE  UNCHANGED AE!aeVars
<1>1. Gate' = Gate BY DEF Gate
<1>2. Serving' = Serving BY DEF Serving
<1> QED BY <1>1, <1>2 DEF AE!aeVars, Gate, Serving

\* Every step is one of AudioEngine, or none.
LEMMA GateRefined == DmaInv /\ [Next]_vars => [AE!AENext]_(AE!aeVars)
<1> SUFFICES ASSUME DmaInv, [Next]_vars PROVE AE!AENext \/ UNCHANGED AE!aeVars OBVIOUS
<1> USE DEF ctlVars, ringVars, workVars, hwVars, irqVars, For
<1>1. CASE StartPublish
  <2>1. eng \in Streams /\ Gate[eng] = "shut" /\ Serving' = Serving
    BY <1>1 DEF StartPublish, DmaInv, TypeOK, Starting, Gate, Serving, Quiescing
  <2>2. Gate' = [Gate EXCEPT ![eng] = "open"]
    BY <1>1, <2>1, GateStep DEF StartPublish, DmaInv, TypeOK, Gate, Quiescing
  <2> QED BY <2>1, <2>2 DEF AE!AENext, AE!Open, Gate, Serving
<1>2. CASE QuiesceFlag
  <2>1. eng \in Streams /\ Gate[eng] # "closing" /\ Serving' = Serving
    BY <1>2 DEF QuiesceFlag, DmaInv, TypeOK, Gate, Serving, Quiescing
  <2>2. Gate' = [Gate EXCEPT ![eng] = "closing"]
    BY <1>2, <2>1, GateStep DEF QuiesceFlag, DmaInv, TypeOK, Gate, Quiescing
  <2> QED BY <2>1, <2>2 DEF AE!AENext, AE!Close, Gate, Serving
<1>3. CASE ClearState
  <2>1. eng \in Streams /\ Gate[eng] = "closing" /\ ~Serving[eng] /\ Serving' = Serving
    BY <1>3 DEF ClearState, DmaInv, TypeOK, Stages, Gate, Serving, Quiescing
  <2>2. Gate' = [Gate EXCEPT ![eng] = "shut"]
    BY <1>3, <2>1, GateStep DEF ClearState, DmaInv, TypeOK, Gate, Quiescing
  <2> QED BY <2>1, <2>2 DEF AE!AENext, AE!Closed, Gate, Serving
<1>4. ASSUME NEW s \in Streams, WorkTake(s) PROVE AE!AENext \/ UNCHANGED AE!aeVars
  <2>1. Gate' = Gate
    BY <1>4 DEF WorkTake, Gate
  <2>2. CASE streaming[s] /\ buffers[s]
    <3>1. Gate[s] = "open" /\ ~Serving[s]
      BY <1>4, <2>2 DEF WorkTake, DmaInv, Stages, Gate, Serving
    <3>2. Serving' = [Serving EXCEPT ![s] = TRUE]
      BY <1>4, <2>2 DEF WorkTake, DmaInv, TypeOK, Serving
    <3> QED BY <2>1, <3>1, <3>2 DEF AE!AENext, AE!Serve, Gate, Serving
  <2>3. CASE ~(streaming[s] /\ buffers[s])
    BY <1>4, <2>3, GateStutter DEF WorkTake, Gate
  <2> QED BY <2>2, <2>3
<1>5. ASSUME NEW s \in Streams, WorkCall(s) PROVE AE!AENext
  <2>1. Gate' = Gate /\ Serving[s]
    BY <1>5 DEF WorkCall, Gate, Serving
  <2>2. Serving' = [Serving EXCEPT ![s] = FALSE]
    BY <1>5 DEF WorkCall, DmaInv, TypeOK, Serving
  <2> QED BY <2>1, <2>2 DEF AE!AENext, AE!Answer, Gate, Serving
<1>6. ASSUME NEW s \in Streams, WorkStart(s) \/ WorkExit(s) PROVE UNCHANGED AE!aeVars
  <2>1. Gate' = Gate BY <1>6 DEF WorkStart, WorkExit, Gate
  <2>2. Serving' = Serving BY <1>6 DEF WorkStart, WorkExit, DmaInv, TypeOK, Serving
  <2> QED BY <2>1, <2>2 DEF AE!aeVars, Gate, Serving
<1>7. CASE StartSetup \/ StartEnable \/ QuiesceMask \/ SynchronizeIrq \/ CancelWork \/ FlushWork
           \/ CleanupFree \/ IrqRead \/ Handler \/ LoseDevice
  BY <1>7, GateStutter
     DEF StartSetup, StartEnable, QuiesceMask, SynchronizeIrq, CancelWork, FlushWork, CleanupFree,
         IrqRead, Handler, IrqAudio, IrqAck, IrqKick, LoseDevice, Disable, Gate, Quiescing
<1>8. CASE CleanupBegin
  BY <1>8, GateStutter DEF CleanupBegin, Gate, Quiescing
<1>9. ASSUME NEW s \in Streams, StartBegin(s) \/ StopBegin(s) \/ CleanupNext(s) \/ Complete(s)
      PROVE UNCHANGED AE!aeVars
  BY <1>9, GateStutter DEF StartBegin, StopBegin, CleanupNext, Complete, Gate, Quiescing
<1>10. CASE UNCHANGED vars
  BY <1>10, GateStutter DEF vars, Gate
<1> QED
  BY <1>1, <1>2, <1>3, <1>4, <1>5, <1>6, <1>7, <1>8, <1>9, <1>10 DEF Next, Call, Holder, Handler, Work

\* The detailed engines implement the abstract one: callbacks run only between
\* a start and the end of the stop, one at a time.
THEOREM GateKeptTheorem == Spec => GateKept
<1>1. Init => AE!AEInit
  BY DEF Init, AE!AEInit, Quiescing
<1> QED BY <1>1, GateRefined, DmaThroughout, PTL DEF Spec, GateKept, AE!AESpec

\* The invariants of the engines hold together, for any number of engines.
THEOREM EnginesSoundTheorem == Spec => []EnginesSound
  BY TypeCorrect, NoLostWakeupTheorem, StoppedQuietTheorem,
     BuffersInUseTheorem, PTL DEF EnginesSound

-----------------------------------------------------------------------------
(* The capture devices                                                      *)

\* CaptureTypeOK, part by part, and the types of the engines.
StreamTypes ==
    /\ sub \in [Pcms -> BOOLEAN] /\ cap \in [Pcms -> BOOLEAN]
    /\ dmaRun \in [Pcms -> BOOLEAN] /\ ok \in [Pcms -> BOOLEAN]
    /\ pcm \in [Pcms -> {"closed", "setup", "prepared", "running"}]
    /\ fin \in [Pcms -> {"free", "close"}]
    /\ cbPc \in [Pcms -> {"idle", "enter", "elapsed"}]
ThreadTypes ==
    /\ pc \in [Threads -> Places] /\ wQ \in BOOLEAN
    /\ wPc \in {"idle", "lock", "read", "decide", "xrun", "stop", "stopping", "end"}
    /\ control_lock \in Pcms \cup {"free", "work", Dev}
DeviceTypes ==
    /\ invalidated \in BOOLEAN /\ monitoring \in BOOLEAN
    /\ disconnected \in BOOLEAN /\ suspended \in BOOLEAN
    /\ mode \in {"run", "suspending", "asleep", "removing", "gone"}
    /\ cur \in Pcms /\ unstopped \subseteq Pcms
FormatTypes ==
    /\ prepared \in Reports /\ want \in Reports /\ wFmt \in Reports
    /\ rt \in [Pcms -> Formats] /\ clock \in AllFormats /\ reported \in Reports
    /\ notes \in 0 .. MaxChanges /\ changes \in 0 .. MaxChanges
EngineTypes ==
    /\ gate \in [Pcms -> {"shut", "open", "closing"}]
    /\ serving \in [Pcms -> BOOLEAN]
Typed == StreamTypes /\ ThreadTypes /\ DeviceTypes /\ FormatTypes /\ EngineTypes

\* A format is published, and told, once for each change of the source.
Counted ==
    /\ reported.gen + (IF clock = reported.fmt THEN 0 ELSE 1) <= changes
    /\ notes <= reported.gen

\* Places under control_lock.
Preparing ==
    {"p_read", "p_decide", "p_stop", "p_stopping", "p_start", "p_mark",
     "p_verify", "p_judge", "p_end"}
Ending == {"s_stop", "s_stopping", "s_end"}

\* control_lock has the owner whose place is under it, and each thread is
\* where its calls can take it.
Owners ==
    /\ \A t \in Threads : pc[t] \in Preparing \cup Ending <=> control_lock = t
    /\ wPc \notin {"idle", "lock"} <=> control_lock = "work"
    /\ pc[Dev] \in {"idle", "f_cancel", "f_flush", "s_next", "s_lock"} \cup Ending
    /\ \A s \in Pcms : pc[s] # "s_next"
    /\ \A s \in Pcms : pc[s] \in {"p_verify", "p_judge", "f_cancel", "f_flush"} => s = Hdmi

\* Suspend and cleanup set their flag before they stop anything, and nobody
\* is in a call while the system sleeps.
Modes ==
    /\ mode \in {"run", "asleep", "gone"} => pc[Dev] = "idle"
    /\ mode \in {"suspending", "asleep"} => suspended /\ \A s \in Pcms : pc[s] = "idle"
    /\ mode \in {"removing", "gone"} => disconnected
    /\ mode = "asleep" => unstopped = {}

\* The streams a suspend has stopped stay stopped.
Slept ==
    mode \in {"suspending", "asleep"} =>
        \A s \in Pcms : dmaRun[s] => s \in unstopped \/ (pc[Dev] = "s_lock" /\ cur = s)

\* After the cleanup has flushed the format work, it does not come back.
WorkGone ==
    mode \in {"removing", "gone"} /\ pc[Dev] \notin {"f_cancel", "f_flush"} =>
        ~wQ /\ wPc = "idle"

\* The cleanup ends when every substream is closed.
Gone == mode = "gone" => \A s \in Pcms : pcm[s] = "closed"

\* A stream that Dev stops captures no more, and no trigger is under way.
Halted ==
    pc[Dev] \in {"s_lock", "s_stop", "s_stopping"} => ~cap[cur] /\ pc[cur] # "t_set"

\* The engine of a closed substream is stopped, and a call needs a substream.
Substreams == \A s \in Pcms :
    /\ sub[s] <=> pcm[s] # "closed"
    /\ pc[s] # "idle" => pcm[s] # "closed"
    /\ pcm[s] = "closed" => gate[s] = "shut"

\* A call that ends has stopped its engine, and no call but a trigger begins
\* to capture.
Rested == \A s \in Pcms :
    /\ pc[s] \in {"s_end", "f_end"} => gate[s] = "shut"
    /\ pc[s] \notin {"idle", "t_set"} => ~cap[s]

\* What a prepare knows of its engine.
Prepared == \A s \in Pcms :
    /\ pc[s] \in {"p_stop", "p_mark"} => gate[s] = "open"
    /\ pc[s] \in {"p_stop", "p_stopping"} => ~dmaRun[s]
    /\ pc[s] \in {"p_verify", "p_judge"} => dmaRun[s]

\* What a stop knows of the engine of its stream, and the format work of that
\* of the HDMI capture.
Stopped == \A t \in Threads :
    /\ pc[t] \in Ending => ~dmaRun[Target(t)]
    /\ pc[t] = "s_stop" => gate[Target(t)] = "open"
Revoked ==
    /\ wPc \in {"xrun", "stop", "stopping"} => ~dmaRun[Hdmi]
    /\ wPc \in {"xrun", "stop"} => gate[Hdmi] = "open"
    /\ wPc = "xrun" => sub[Hdmi]

\* Someone under control_lock is about to close, or is closing, the engine.
Stopper(s, places, work) ==
    \/ pc[s] \in places
    \/ pc[Dev] \in places /\ cur = s
    \/ s = Hdmi /\ wPc \in work

\* The flags of a stream agree with its engine, unless the owner of the lock is
\* about to change that.
Flags == \A s \in Pcms : (dmaRun[s] => gate[s] = "open") /\ (cap[s] => dmaRun[s])
Opened == \A s \in Pcms :
    gate[s] = "open" =>
        dmaRun[s] \/ Stopper(s, {"p_stop", "p_mark", "s_stop"}, {"xrun", "stop"})
Closing == \A s \in Pcms :
    gate[s] = "closing" => Stopper(s, {"p_stopping", "s_stopping"}, {"stopping"})

\* A callback that runs is served by an engine, and uses an open substream.
Callbacks == \A s \in Pcms :
    /\ serving[s] <=> cbPc[s] # "idle"
    /\ serving[s] => gate[s] # "shut"
    /\ cbPc[s] = "elapsed" => sub[s]

\* A running capture is monitored.
Watched ==
    /\ dmaRun[Hdmi] =>
         ~invalidated /\ (monitoring \/ pc[Hdmi] \in {"f_cancel", "f_flush", "s_lock"})
    /\ pc[Hdmi] = "p_verify" => prepared = want

CaptureInv ==
    /\ Typed /\ Counted /\ Owners /\ Modes /\ Slept /\ WorkGone /\ Gone /\ Halted
    /\ Substreams /\ Rested /\ Prepared /\ Stopped /\ Revoked /\ Flags
    /\ Opened /\ Closing /\ Callbacks /\ Watched /\ FormatFollowed
-----------------------------------------------------------------------------
\* What a reader of the format gets is the format the source sends, numbered
\* no higher than its changes.
LEMMA NextFormat ==
    ASSUME FormatTypes, Counted
    PROVE  /\ Update \in Reports /\ Update.fmt = clock /\ Update.gen <= changes
           /\ Update = reported => clock = reported.fmt
           /\ Update # reported => Update.gen = reported.gen + 1 /\ clock # reported.fmt
  <1>1. CASE clock = reported.fmt
    BY <1>1, CaptureAssumption DEF FormatTypes, Counted, Update, Reports
  <1>2. CASE clock # reported.fmt
    <2>1. Update = [gen |-> reported.gen + 1, fmt |-> clock]
      BY <1>2 DEF Update
    <2>2. reported.gen \in 0 .. MaxChanges /\ reported.gen + 1 <= changes
      BY <1>2, CaptureAssumption DEF FormatTypes, Counted, Reports
    <2>3. Update.gen # reported.gen
      BY <2>1, <2>2
    <2> QED
      BY <1>2, <2>1, <2>2, <2>3, CaptureAssumption DEF FormatTypes, Reports
  <1> QED BY <1>1, <1>2

\* Every step keeps the types of the streams,
LEMMA StreamTypesStep ==
    ASSUME StreamTypes, [CaptureNext]_acVars
    PROVE  StreamTypes'
  <1> USE DEF StreamTypes, aeVars, strVars, audVars, appVars, wVars, devVars,
          recVars
  <1>1. ASSUME UNCHANGED <<sub, cap, dmaRun, prepared, pcm, ok, fin, cbPc>>
        PROVE  StreamTypes'
    BY <1>1
  <1>2. ASSUME NEW f \in AllFormats, Retune(f) PROVE StreamTypes'
    BY <1>1, <1>2 DEF Retune
  <1>3. ASSUME
          Publish \/ FormatChanged \/ SuspendBegin \/ Resume \/ SuspendEnd
          \/ CleanupEnd \/ FormatWorkStart \/ FormatWorkLock
          \/ FormatWorkRead \/ FormatWorkStop \/ FormatWorkStopped
          \/ FormatWorkEnd
        PROVE  StreamTypes'
    BY <1>1, <1>3 DEF Publish, FormatChanged, SuspendBegin, Resume,
           SuspendEnd, CleanupEnd, FormatWorkStart, FormatWorkLock,
           FormatWorkRead, FormatWorkStop, FormatWorkStopped, FormatWorkEnd,
           Goto, ReadFormat, Close, Closed
  <1>4. ASSUME NEW s \in Pcms,
          TriggerCheck(s) \/ PrepareLock(s) \/ PrepareStop(s)
          \/ PrepareStopped(s)
        PROVE  StreamTypes'
    BY <1>1, <1>4 DEF TriggerCheck, PrepareLock, PrepareStop, PrepareStopped,
           Goto, Close, Closed
  <1>5. ASSUME NEW t \in Threads,
          CancelFormat(t) \/ FlushFormat(t) \/ StopDma(t) \/ StoppedDma(t)
          \/ StopEnd(t)
        PROVE  StreamTypes'
    BY <1>1, <1>5 DEF CancelFormat, FlushFormat, StopDma, StoppedDma, StopEnd,
           Goto, Close, Closed
  <1>6. ASSUME NEW s \in Pcms, PcmOpen(s) PROVE StreamTypes'
    BY <1>6 DEF PcmOpen, Awake
  <1>7. ASSUME NEW s \in Pcms, PrepareBegin(s) PROVE StreamTypes'
    BY <1>7 DEF PrepareBegin, Goto, Awake
  <1>8. ASSUME NEW s \in Pcms, TriggerStop(s) PROVE StreamTypes'
    BY <1>8 DEF TriggerStop, Awake
  <1>9. ASSUME NEW s \in Pcms, NEW k \in {"free", "close"}, FreeBegin(s, k)
        PROVE  StreamTypes'
    BY <1>9 DEF FreeBegin, Goto, Awake, Frozen
  <1>10. ASSUME NEW s \in Pcms, PrepareRead(s) PROVE StreamTypes'
    <2>1. \/ ok' = [ok EXCEPT ![s] = Update.fmt \in {NoFormat, rt[s]}]
          \/ ok' = [ok EXCEPT ![s] = ~disconnected]
      BY <1>10 DEF PrepareRead
    <2>2. UNCHANGED <<sub, cap, dmaRun, pcm, fin, cbPc>>
      BY <1>10 DEF PrepareRead, strVars
    <2>3. ASSUME NEW v \in BOOLEAN PROVE [ok EXCEPT ![s] = v] \in [Pcms -> BOOLEAN]
      BY DEF StreamTypes
    <2>4. [ok EXCEPT ![s] = Update.fmt \in {NoFormat, rt[s]}] \in [Pcms -> BOOLEAN]
      <3>1. (Update.fmt \in {NoFormat, rt[s]}) \in BOOLEAN
        OBVIOUS
      <3> QED
        BY ONLY <3>1, <2>3
    <2>5. [ok EXCEPT ![s] = ~disconnected] \in [Pcms -> BOOLEAN]
      <3>1. (~disconnected) \in BOOLEAN
        OBVIOUS
      <3> QED
        BY ONLY <3>1, <2>3
    <2>6. ok' \in [Pcms -> BOOLEAN]
      BY <2>1, <2>4, <2>5
    <2> QED
      BY <2>2, <2>6 DEF StreamTypes
  <1>11. ASSUME NEW s \in Pcms, PrepareDecide(s) PROVE StreamTypes'
    BY <1>11 DEF PrepareDecide, Goto, Invalidate
  <1>12. ASSUME NEW s \in Pcms, PrepareStart(s) PROVE StreamTypes'
    BY <1>12 DEF PrepareStart, Goto, Open
  <1>13. ASSUME NEW s \in Pcms, PrepareMark(s) PROVE StreamTypes'
    BY <1>13 DEF PrepareMark, Goto
  <1>14. ASSUME NEW s \in Pcms, PrepareVerify(s) PROVE StreamTypes'
    BY <1>14 DEF PrepareVerify, Goto, ReadFormat, Update
  <1>15. ASSUME NEW s \in Pcms, PrepareJudge(s) PROVE StreamTypes'
    BY <1>15 DEF PrepareJudge, Goto, Invalidate
  <1>16. ASSUME NEW s \in Pcms, PrepareEnd(s) PROVE StreamTypes'
    BY <1>16 DEF PrepareEnd, Goto
  <1>17. ASSUME NEW s \in Pcms, TriggerSet(s) PROVE StreamTypes'
    BY <1>17 DEF TriggerSet, Goto
  <1>18. ASSUME NEW s \in Pcms, FreeEnd(s) PROVE StreamTypes'
    BY <1>18 DEF FreeEnd, Goto
  <1>19. ASSUME NEW s \in Pcms, ReceiveBegin(s) PROVE StreamTypes'
    BY <1>19 DEF ReceiveBegin, Serve
  <1>20. ASSUME NEW s \in Pcms, ReceiveCopy(s) PROVE StreamTypes'
    BY <1>20 DEF ReceiveCopy, Answer
  <1>21. ASSUME NEW s \in Pcms, ReceiveElapsed(s) PROVE StreamTypes'
    BY <1>21 DEF ReceiveElapsed, Answer, StreamLocked
  <1>22. ASSUME NEW t \in Threads, StopLock(t) PROVE StreamTypes'
    BY <1>22 DEF StopLock, Goto, Target
  <1>23. ASSUME RemovalBegin PROVE StreamTypes'
    BY <1>23 DEF RemovalBegin, Goto
  <1>24. ASSUME NEW s \in Pcms, StopNext(s) PROVE StreamTypes'
    BY <1>24 DEF StopNext, Goto, StreamLocked
  <1>25. ASSUME FormatWorkDecide PROVE StreamTypes'
    BY <1>25 DEF FormatWorkDecide, Invalidate
  <1>26. ASSUME FormatWorkXrun PROVE StreamTypes'
    BY <1>26 DEF FormatWorkXrun, StreamLocked
  <1>27. CASE UNCHANGED acVars
    BY <1>1, <1>27 DEF acVars
  <1> QED
    BY <1>2, <1>3, <1>4, <1>5, <1>6, <1>7, <1>8, <1>9, <1>10, <1>11, <1>12,
       <1>13, <1>14, <1>15, <1>16, <1>17, <1>18, <1>19, <1>20, <1>21, <1>22,
       <1>23, <1>24, <1>25, <1>26, <1>27
    DEF CaptureNext, Application, Prepare, Stop, Device, FormatWork, Receive

\* those of the threads and their lock,
LEMMA ThreadTypesStep ==
    ASSUME ThreadTypes, [CaptureNext]_acVars
    PROVE  ThreadTypes'
  <1> USE DEF ThreadTypes, Threads, Places, Dev, aeVars, strVars, audVars,
          appVars, wVars, devVars, recVars
  <1>1. ASSUME UNCHANGED <<control_lock, pc, wQ, wPc>> PROVE ThreadTypes'
    BY <1>1
  <1>2. ASSUME NEW f \in AllFormats, Retune(f) PROVE ThreadTypes'
    BY <1>1, <1>2 DEF Retune
  <1>3. ASSUME Publish \/ Resume PROVE ThreadTypes'
    BY <1>1, <1>3 DEF Publish, Resume, ReadFormat
  <1>4. ASSUME NEW s \in Pcms,
          PcmOpen(s) \/ TriggerStop(s) \/ ReceiveBegin(s) \/ ReceiveCopy(s)
          \/ ReceiveElapsed(s)
        PROVE  ThreadTypes'
    BY <1>1, <1>4 DEF PcmOpen, TriggerStop, ReceiveBegin, ReceiveCopy,
           ReceiveElapsed, Serve, Answer
  <1>5. ASSUME FormatChanged PROVE ThreadTypes'
    BY <1>5 DEF FormatChanged
  <1>6. ASSUME NEW s \in Pcms, PrepareBegin(s) PROVE ThreadTypes'
    BY <1>6 DEF PrepareBegin, Goto, Awake
  <1>7. ASSUME NEW s \in Pcms, TriggerCheck(s) PROVE ThreadTypes'
    BY <1>7 DEF TriggerCheck, Goto, Awake
  <1>8. ASSUME NEW s \in Pcms, NEW k \in {"free", "close"}, FreeBegin(s, k)
        PROVE  ThreadTypes'
    BY <1>8 DEF FreeBegin, Goto, Awake, Frozen
  <1>9. ASSUME NEW s \in Pcms, PrepareLock(s) PROVE ThreadTypes'
    BY <1>9 DEF PrepareLock, Goto
  <1>10. ASSUME NEW s \in Pcms, PrepareRead(s) PROVE ThreadTypes'
    BY <1>10 DEF PrepareRead, Goto, ReadFormat, Update
  <1>11. ASSUME NEW s \in Pcms, PrepareDecide(s) PROVE ThreadTypes'
    BY <1>11 DEF PrepareDecide, Goto, Invalidate
  <1>12. ASSUME NEW s \in Pcms, PrepareStop(s) PROVE ThreadTypes'
    BY <1>12 DEF PrepareStop, Goto, Close
  <1>13. ASSUME NEW s \in Pcms, PrepareStopped(s) PROVE ThreadTypes'
    BY <1>13 DEF PrepareStopped, Goto, Closed
  <1>14. ASSUME NEW s \in Pcms, PrepareStart(s) PROVE ThreadTypes'
    BY <1>14 DEF PrepareStart, Goto, Open
  <1>15. ASSUME NEW s \in Pcms, PrepareMark(s) PROVE ThreadTypes'
    BY <1>15 DEF PrepareMark, Goto
  <1>16. ASSUME NEW s \in Pcms, PrepareVerify(s) PROVE ThreadTypes'
    BY <1>16 DEF PrepareVerify, Goto, ReadFormat, Update
  <1>17. ASSUME NEW s \in Pcms, PrepareJudge(s) PROVE ThreadTypes'
    BY <1>17 DEF PrepareJudge, Goto, Invalidate
  <1>18. ASSUME NEW s \in Pcms, PrepareEnd(s) PROVE ThreadTypes'
    BY <1>18 DEF PrepareEnd, Goto
  <1>19. ASSUME NEW s \in Pcms, TriggerSet(s) PROVE ThreadTypes'
    BY <1>19 DEF TriggerSet, Goto
  <1>20. ASSUME NEW s \in Pcms, FreeEnd(s) PROVE ThreadTypes'
    BY <1>20 DEF FreeEnd, Goto
  <1>21. ASSUME NEW t \in Threads, CancelFormat(t) PROVE ThreadTypes'
    BY <1>21 DEF CancelFormat, Goto
  <1>22. ASSUME NEW t \in Threads, FlushFormat(t) PROVE ThreadTypes'
    BY <1>22 DEF FlushFormat, Goto
  <1>23. ASSUME NEW t \in Threads, StopLock(t) PROVE ThreadTypes'
    BY <1>23 DEF StopLock, Goto, Target
  <1>24. ASSUME NEW t \in Threads, StopDma(t) PROVE ThreadTypes'
    BY <1>24 DEF StopDma, Goto, Close, Target
  <1>25. ASSUME NEW t \in Threads, StoppedDma(t) PROVE ThreadTypes'
    BY <1>25 DEF StoppedDma, Goto, Closed, Target
  <1>26. ASSUME NEW t \in Threads, StopEnd(t) PROVE ThreadTypes'
    BY <1>26 DEF StopEnd, Goto
  <1>27. ASSUME SuspendBegin PROVE ThreadTypes'
    BY <1>27 DEF SuspendBegin, Goto
  <1>28. ASSUME RemovalBegin PROVE ThreadTypes'
    BY <1>28 DEF RemovalBegin, Goto
  <1>29. ASSUME SuspendEnd PROVE ThreadTypes'
    BY <1>29 DEF SuspendEnd, Goto
  <1>30. ASSUME CleanupEnd PROVE ThreadTypes'
    BY <1>30 DEF CleanupEnd, Goto
  <1>31. ASSUME NEW s \in Pcms, StopNext(s) PROVE ThreadTypes'
    BY <1>31 DEF StopNext, Goto, StreamLocked
  <1>32. ASSUME FormatWorkStart PROVE ThreadTypes'
    BY <1>32 DEF FormatWorkStart
  <1>33. ASSUME FormatWorkLock PROVE ThreadTypes'
    BY <1>33 DEF FormatWorkLock
  <1>34. ASSUME FormatWorkRead PROVE ThreadTypes'
    BY <1>34 DEF FormatWorkRead, ReadFormat, Update
  <1>35. ASSUME FormatWorkDecide PROVE ThreadTypes'
    BY <1>35 DEF FormatWorkDecide, Invalidate
  <1>36. ASSUME FormatWorkXrun PROVE ThreadTypes'
    BY <1>36 DEF FormatWorkXrun, StreamLocked
  <1>37. ASSUME FormatWorkStop PROVE ThreadTypes'
    BY <1>37 DEF FormatWorkStop, Close
  <1>38. ASSUME FormatWorkStopped PROVE ThreadTypes'
    BY <1>38 DEF FormatWorkStopped, Closed
  <1>39. ASSUME FormatWorkEnd PROVE ThreadTypes'
    BY <1>39 DEF FormatWorkEnd
  <1>40. CASE UNCHANGED acVars
    BY <1>1, <1>40 DEF acVars
  <1> QED
    BY <1>2, <1>3, <1>4, <1>5, <1>6, <1>7, <1>8, <1>9, <1>10, <1>11, <1>12,
       <1>13, <1>14, <1>15, <1>16, <1>17, <1>18, <1>19, <1>20, <1>21, <1>22,
       <1>23, <1>24, <1>25, <1>26, <1>27, <1>28, <1>29, <1>30, <1>31, <1>32,
       <1>33, <1>34, <1>35, <1>36, <1>37, <1>38, <1>39, <1>40
    DEF CaptureNext, Application, Prepare, Stop, Device, FormatWork, Receive

\* those of the device.
LEMMA DeviceTypesStep ==
    ASSUME DeviceTypes, [CaptureNext]_acVars
    PROVE  DeviceTypes'
  <1> USE DEF DeviceTypes, aeVars, strVars, audVars, appVars, wVars, devVars,
          recVars
  <1>1. ASSUME UNCHANGED <<invalidated, monitoring, disconnected, suspended,
                             mode, unstopped, cur>>
        PROVE  DeviceTypes'
    BY <1>1
  <1>2. ASSUME NEW f \in AllFormats, Retune(f) PROVE DeviceTypes'
    BY <1>1, <1>2 DEF Retune
  <1>3. ASSUME
          Publish \/ FormatChanged \/ FormatWorkStart \/ FormatWorkLock
          \/ FormatWorkRead \/ FormatWorkXrun \/ FormatWorkStop
          \/ FormatWorkStopped \/ FormatWorkEnd
        PROVE  DeviceTypes'
    BY <1>1, <1>3 DEF Publish, FormatChanged, FormatWorkStart, FormatWorkLock,
           FormatWorkRead, FormatWorkXrun, FormatWorkStop, FormatWorkStopped,
           FormatWorkEnd, ReadFormat, Close, Closed
  <1>4. ASSUME NEW s \in Pcms,
          PcmOpen(s) \/ PrepareBegin(s) \/ TriggerCheck(s) \/ TriggerStop(s)
          \/ PrepareLock(s) \/ PrepareRead(s) \/ PrepareStop(s)
          \/ PrepareStopped(s) \/ PrepareStart(s) \/ PrepareVerify(s)
          \/ PrepareEnd(s) \/ TriggerSet(s) \/ ReceiveBegin(s)
          \/ ReceiveCopy(s) \/ ReceiveElapsed(s)
        PROVE  DeviceTypes'
    BY <1>1, <1>4 DEF PcmOpen, PrepareBegin, TriggerCheck, TriggerStop,
           PrepareLock, PrepareRead, PrepareStop, PrepareStopped,
           PrepareStart, PrepareVerify, PrepareEnd, TriggerSet, ReceiveBegin,
           ReceiveCopy, ReceiveElapsed, Goto, ReadFormat, Close, Closed, Open,
           Serve, Answer
  <1>5. ASSUME NEW t \in Threads,
          CancelFormat(t) \/ FlushFormat(t) \/ StopLock(t) \/ StopDma(t)
          \/ StoppedDma(t) \/ StopEnd(t)
        PROVE  DeviceTypes'
    BY <1>1, <1>5 DEF CancelFormat, FlushFormat, StopLock, StopDma,
           StoppedDma, StopEnd, Goto, Close, Closed
  <1>6. ASSUME NEW s \in Pcms, NEW k \in {"free", "close"}, FreeBegin(s, k)
        PROVE  DeviceTypes'
    BY <1>6 DEF FreeBegin, Goto, Awake, Frozen
  <1>7. ASSUME NEW s \in Pcms, PrepareDecide(s) PROVE DeviceTypes'
    BY <1>7 DEF PrepareDecide, Goto, Invalidate
  <1>8. ASSUME NEW s \in Pcms, PrepareMark(s) PROVE DeviceTypes'
    BY <1>8 DEF PrepareMark, Goto
  <1>9. ASSUME NEW s \in Pcms, PrepareJudge(s) PROVE DeviceTypes'
    BY <1>9 DEF PrepareJudge, Goto, Invalidate
  <1>10. ASSUME NEW s \in Pcms, FreeEnd(s) PROVE DeviceTypes'
    BY <1>10 DEF FreeEnd, Goto
  <1>11. ASSUME SuspendBegin PROVE DeviceTypes'
    BY <1>11 DEF SuspendBegin, Goto
  <1>12. ASSUME Resume PROVE DeviceTypes'
    BY <1>12 DEF Resume
  <1>13. ASSUME RemovalBegin PROVE DeviceTypes'
    BY <1>13 DEF RemovalBegin, Goto
  <1>14. ASSUME SuspendEnd PROVE DeviceTypes'
    BY <1>14 DEF SuspendEnd, Goto
  <1>15. ASSUME CleanupEnd PROVE DeviceTypes'
    BY <1>15 DEF CleanupEnd, Goto
  <1>16. ASSUME NEW s \in Pcms, StopNext(s) PROVE DeviceTypes'
    BY <1>16 DEF StopNext, Goto, StreamLocked
  <1>17. ASSUME FormatWorkDecide PROVE DeviceTypes'
    BY <1>17 DEF FormatWorkDecide, Invalidate
  <1>18. CASE UNCHANGED acVars
    BY <1>1, <1>18 DEF acVars
  <1> QED
    BY <1>2, <1>3, <1>4, <1>5, <1>6, <1>7, <1>8, <1>9, <1>10, <1>11, <1>12,
       <1>13, <1>14, <1>15, <1>16, <1>17, <1>18
    DEF CaptureNext, Application, Prepare, Stop, Device, FormatWork, Receive

\* The engines keep theirs.
LEMMA EngineTypesStep ==
    ASSUME EngineTypes, [CaptureNext]_acVars
    PROVE  EngineTypes'
  <1> USE DEF EngineTypes, aeVars, strVars, audVars, appVars, wVars, devVars,
          recVars
  <1>1. ASSUME UNCHANGED <<gate, serving>> PROVE EngineTypes'
    BY <1>1
  <1>2. ASSUME NEW f \in AllFormats, Retune(f) PROVE EngineTypes'
    BY <1>1, <1>2 DEF Retune
  <1>3. ASSUME
          Publish \/ FormatChanged \/ SuspendBegin \/ Resume \/ RemovalBegin
          \/ SuspendEnd \/ CleanupEnd \/ FormatWorkStart \/ FormatWorkLock
          \/ FormatWorkRead \/ FormatWorkDecide \/ FormatWorkXrun
          \/ FormatWorkEnd
        PROVE  EngineTypes'
    BY <1>1, <1>3 DEF Publish, FormatChanged, SuspendBegin, Resume,
           RemovalBegin, SuspendEnd, CleanupEnd, FormatWorkStart,
           FormatWorkLock, FormatWorkRead, FormatWorkDecide, FormatWorkXrun,
           FormatWorkEnd, Goto, ReadFormat, Invalidate
  <1>4. ASSUME NEW s \in Pcms,
          PcmOpen(s) \/ PrepareBegin(s) \/ TriggerCheck(s) \/ TriggerStop(s)
          \/ PrepareLock(s) \/ PrepareRead(s) \/ PrepareDecide(s)
          \/ PrepareMark(s) \/ PrepareVerify(s) \/ PrepareJudge(s)
          \/ PrepareEnd(s) \/ TriggerSet(s) \/ FreeEnd(s) \/ StopNext(s)
        PROVE  EngineTypes'
    BY <1>1, <1>4 DEF PcmOpen, PrepareBegin, TriggerCheck, TriggerStop,
           PrepareLock, PrepareRead, PrepareDecide, PrepareMark,
           PrepareVerify, PrepareJudge, PrepareEnd, TriggerSet, FreeEnd,
           StopNext, Goto, ReadFormat, Invalidate
  <1>5. ASSUME NEW s \in Pcms, NEW k \in {"free", "close"}, FreeBegin(s, k)
        PROVE  EngineTypes'
    BY <1>1, <1>5 DEF FreeBegin, Goto
  <1>6. ASSUME NEW t \in Threads,
          CancelFormat(t) \/ FlushFormat(t) \/ StopLock(t) \/ StopEnd(t)
        PROVE  EngineTypes'
    BY <1>1, <1>6 DEF CancelFormat, FlushFormat, StopLock, StopEnd, Goto
  <1>7. ASSUME NEW s \in Pcms, PrepareStop(s) PROVE EngineTypes'
    BY <1>7 DEF PrepareStop, Goto, Close
  <1>8. ASSUME NEW s \in Pcms, PrepareStopped(s) PROVE EngineTypes'
    BY <1>8 DEF PrepareStopped, Goto, Closed
  <1>9. ASSUME NEW s \in Pcms, PrepareStart(s) PROVE EngineTypes'
    BY <1>9 DEF PrepareStart, Goto, Open
  <1>10. ASSUME NEW s \in Pcms, ReceiveBegin(s) PROVE EngineTypes'
    BY <1>10 DEF ReceiveBegin, Serve
  <1>11. ASSUME NEW s \in Pcms, ReceiveCopy(s) PROVE EngineTypes'
    BY <1>11 DEF ReceiveCopy, Answer
  <1>12. ASSUME NEW s \in Pcms, ReceiveElapsed(s) PROVE EngineTypes'
    BY <1>12 DEF ReceiveElapsed, Answer, StreamLocked
  <1>13. ASSUME NEW t \in Threads, StopDma(t) PROVE EngineTypes'
    BY <1>13 DEF StopDma, Goto, Close, Target
  <1>14. ASSUME NEW t \in Threads, StoppedDma(t) PROVE EngineTypes'
    BY <1>14 DEF StoppedDma, Goto, Closed, Target
  <1>15. ASSUME FormatWorkStop PROVE EngineTypes'
    BY <1>15 DEF FormatWorkStop, Close
  <1>16. ASSUME FormatWorkStopped PROVE EngineTypes'
    BY <1>16 DEF FormatWorkStopped, Closed
  <1>17. CASE UNCHANGED acVars
    BY <1>1, <1>17 DEF acVars
  <1> QED
    BY <1>2, <1>3, <1>4, <1>5, <1>6, <1>7, <1>8, <1>9, <1>10, <1>11, <1>12,
       <1>13, <1>14, <1>15, <1>16, <1>17
    DEF CaptureNext, Application, Prepare, Stop, Device, FormatWork, Receive

\* A format is published, and told, once for each change of the source.
LEMMA FormatStep ==
    ASSUME FormatTypes, Counted, [CaptureNext]_acVars
    PROVE  (FormatTypes /\ Counted)'
  <1> USE CaptureAssumption DEF FormatTypes, Counted, Reports, AllFormats,
              Nothing, aeVars, strVars, audVars, appVars, wVars, devVars,
              recVars
  <1>1. ASSUME UNCHANGED <<prepared, rt, want, wFmt, clock, reported, notes,
                             changes>>
        PROVE  (FormatTypes /\ Counted)'
    BY <1>1
  <1>2. ASSUME NEW s \in Pcms,
          PcmOpen(s) \/ TriggerCheck(s) \/ TriggerStop(s) \/ PrepareLock(s)
          \/ PrepareDecide(s) \/ PrepareStop(s) \/ PrepareStopped(s)
          \/ PrepareStart(s) \/ PrepareJudge(s) \/ PrepareEnd(s)
          \/ TriggerSet(s) \/ ReceiveBegin(s) \/ ReceiveCopy(s)
          \/ ReceiveElapsed(s) \/ StopNext(s)
        PROVE  (FormatTypes /\ Counted)'
    BY <1>1, <1>2 DEF PcmOpen, TriggerCheck, TriggerStop, PrepareLock,
           PrepareDecide, PrepareStop, PrepareStopped, PrepareStart,
           PrepareJudge, PrepareEnd, TriggerSet, ReceiveBegin, ReceiveCopy,
           ReceiveElapsed, StopNext, Goto, Invalidate, Close, Closed, Open,
           Serve, Answer
  <1>3. ASSUME NEW s \in Pcms, NEW k \in {"free", "close"}, FreeBegin(s, k)
        PROVE  (FormatTypes /\ Counted)'
    BY <1>1, <1>3 DEF FreeBegin, Goto
  <1>4. ASSUME NEW t \in Threads,
          CancelFormat(t) \/ FlushFormat(t) \/ StopLock(t) \/ StopDma(t)
          \/ StoppedDma(t) \/ StopEnd(t)
        PROVE  (FormatTypes /\ Counted)'
    BY <1>1, <1>4 DEF CancelFormat, FlushFormat, StopLock, StopDma,
           StoppedDma, StopEnd, Goto, Close, Closed
  <1>5. ASSUME
          SuspendBegin \/ Resume \/ RemovalBegin \/ SuspendEnd \/ CleanupEnd
          \/ FormatWorkStart \/ FormatWorkLock \/ FormatWorkDecide
          \/ FormatWorkXrun \/ FormatWorkStop \/ FormatWorkStopped
          \/ FormatWorkEnd
        PROVE  (FormatTypes /\ Counted)'
    BY <1>1, <1>5 DEF SuspendBegin, Resume, RemovalBegin, SuspendEnd,
           CleanupEnd, FormatWorkStart, FormatWorkLock, FormatWorkDecide,
           FormatWorkXrun, FormatWorkStop, FormatWorkStopped, FormatWorkEnd,
           Goto, Invalidate, Close, Closed
  <1>6. ASSUME NEW f \in AllFormats, Retune(f) PROVE (FormatTypes /\ Counted)'
    BY <1>6 DEF Retune
  <1>7. ASSUME Publish PROVE (FormatTypes /\ Counted)'
    <2> DEFINE u == Update
    <2>1. /\ u \in Reports /\ u.fmt = clock /\ u.gen <= changes
          /\ u = reported => clock = reported.fmt
          /\ u # reported => u.gen = reported.gen + 1 /\ clock # reported.fmt
      BY NextFormat
    <2>2. /\ reported' = u /\ clock' = clock /\ changes' = changes
          /\ notes' = notes + (IF u = reported THEN 0 ELSE 1)
      BY <1>7 DEF Publish, ReadFormat, recVars
    <2>3. UNCHANGED <<prepared, want, wFmt, rt>>
      BY <1>7 DEF Publish, strVars, appVars, wVars
    <2> HIDE DEF u
    <2> QED
      BY <2>1, <2>2, <2>3, CaptureAssumption DEF FormatTypes, Counted, Reports
  <1>8. ASSUME FormatChanged PROVE (FormatTypes /\ Counted)'
    BY <1>8 DEF FormatChanged
  <1>9. ASSUME NEW s \in Pcms, PrepareBegin(s) PROVE (FormatTypes /\ Counted)'
    BY <1>9 DEF PrepareBegin, Goto, Awake
  <1>10. ASSUME NEW s \in Pcms, PrepareRead(s) PROVE (FormatTypes /\ Counted)'
    <2>1. CASE UNCHANGED <<clock, reported, notes, changes, want>>
      BY <1>10, <2>1 DEF PrepareRead, strVars, recVars, wVars, FormatTypes, Counted
    <2>2. CASE ReadFormat /\ want' = [Update EXCEPT !.fmt = rt[s]]
      <3> DEFINE u == Update
      <3>1. /\ u \in Reports /\ u.fmt = clock /\ u.gen <= changes
            /\ u = reported => clock = reported.fmt
            /\ u # reported => u.gen = reported.gen + 1 /\ clock # reported.fmt
        BY NextFormat
      <3>2. /\ reported' = u /\ clock' = clock /\ changes' = changes
            /\ notes' = notes + (IF u = reported THEN 0 ELSE 1)
            /\ want' = [u EXCEPT !.fmt = rt[s]]
        BY <2>2 DEF ReadFormat
      <3>3. UNCHANGED <<prepared, wFmt, rt>>
        BY <1>10 DEF PrepareRead, strVars, wVars
      <3> HIDE DEF u
      <3>4. rt[s] \in AllFormats
        BY DEF FormatTypes, AllFormats
      <3>5. want' \in Reports
        BY <3>1, <3>2, <3>4 DEF Reports
      <3> QED
        BY <3>1, <3>2, <3>3, <3>5, CaptureAssumption DEF FormatTypes, Counted,
               Reports
    <2> QED
      BY <1>10, <2>1, <2>2 DEF PrepareRead, recVars
  <1>11. ASSUME NEW s \in Pcms, PrepareMark(s) PROVE (FormatTypes /\ Counted)'
    BY <1>11 DEF PrepareMark, Goto
  <1>12. ASSUME NEW s \in Pcms, PrepareVerify(s) PROVE (FormatTypes /\ Counted)'
    <2> DEFINE u == Update
    <2>1. /\ u \in Reports /\ u.fmt = clock /\ u.gen <= changes
          /\ u = reported => clock = reported.fmt
          /\ u # reported => u.gen = reported.gen + 1 /\ clock # reported.fmt
      BY NextFormat
    <2>2. /\ reported' = u /\ clock' = clock /\ changes' = changes
          /\ notes' = notes + (IF u = reported THEN 0 ELSE 1)
      BY <1>12 DEF PrepareVerify, ReadFormat, recVars
    <2>3. UNCHANGED <<prepared, want, wFmt, rt>>
      BY <1>12 DEF PrepareVerify, strVars, wVars
    <2> HIDE DEF u
    <2> QED
      BY <2>1, <2>2, <2>3, CaptureAssumption DEF FormatTypes, Counted, Reports
  <1>13. ASSUME NEW s \in Pcms, FreeEnd(s) PROVE (FormatTypes /\ Counted)'
    BY <1>13 DEF FreeEnd, Goto
  <1>14. ASSUME FormatWorkRead PROVE (FormatTypes /\ Counted)'
    <2> DEFINE u == Update
    <2>1. /\ u \in Reports /\ u.fmt = clock /\ u.gen <= changes
          /\ u = reported => clock = reported.fmt
          /\ u # reported => u.gen = reported.gen + 1 /\ clock # reported.fmt
      BY NextFormat
    <2>2. /\ reported' = u /\ clock' = clock /\ changes' = changes
          /\ notes' = notes + (IF u = reported THEN 0 ELSE 1)
      BY <1>14 DEF FormatWorkRead, ReadFormat, recVars
    <2>3. UNCHANGED <<prepared, want, rt>> /\ wFmt' = u
      BY <1>14 DEF FormatWorkRead, strVars, appVars
    <2> HIDE DEF u
    <2> QED
      BY <2>1, <2>2, <2>3, CaptureAssumption DEF FormatTypes, Counted, Reports
  <1>15. CASE UNCHANGED acVars
    BY <1>1, <1>15 DEF acVars
  <1> QED
    BY <1>2, <1>3, <1>4, <1>5, <1>6, <1>7, <1>8, <1>9, <1>10, <1>11, <1>12,
       <1>13, <1>14, <1>15
    DEF CaptureNext, Application, Prepare, Stop, Device, FormatWork, Receive

\* Every step keeps the lock with its owner,
LEMMA OwnersStep ==
    ASSUME ThreadTypes, Owners, [CaptureNext]_acVars
    PROVE  Owners'
  <1> USE CaptureAssumption DEF Owners, Preparing, Ending, Threads, Dev,
              ThreadTypes, aeVars, strVars, audVars, appVars, wVars, devVars,
              recVars
  <1>1. ASSUME UNCHANGED <<control_lock, pc, wPc>> PROVE Owners'
    BY <1>1
  <1>2. ASSUME NEW f \in AllFormats, Retune(f) PROVE Owners'
    BY <1>1, <1>2 DEF Retune
  <1>3. ASSUME Publish \/ FormatChanged \/ Resume PROVE Owners'
    BY <1>1, <1>3 DEF Publish, FormatChanged, Resume, ReadFormat
  <1>4. ASSUME NEW s \in Pcms,
          PcmOpen(s) \/ TriggerStop(s) \/ ReceiveBegin(s) \/ ReceiveCopy(s)
          \/ ReceiveElapsed(s)
        PROVE  Owners'
    BY <1>1, <1>4 DEF PcmOpen, TriggerStop, ReceiveBegin, ReceiveCopy,
           ReceiveElapsed, Serve, Answer
  <1>5. ASSUME NEW s \in Pcms, PrepareBegin(s) PROVE Owners'
    BY <1>5 DEF PrepareBegin, Goto, Awake
  <1>6. ASSUME NEW s \in Pcms, TriggerCheck(s) PROVE Owners'
    BY <1>6 DEF TriggerCheck, Goto, Awake
  <1>7. ASSUME NEW s \in Pcms, NEW k \in {"free", "close"}, FreeBegin(s, k)
        PROVE  Owners'
    BY <1>7 DEF FreeBegin, Goto, Awake, Frozen
  <1>8. ASSUME NEW s \in Pcms, PrepareLock(s) PROVE Owners'
    BY <1>8 DEF PrepareLock, Goto
  <1>9. ASSUME NEW s \in Pcms, PrepareRead(s) PROVE Owners'
    BY <1>9 DEF PrepareRead, Goto, ReadFormat, Update
  <1>10. ASSUME NEW s \in Pcms, PrepareDecide(s) PROVE Owners'
    BY <1>10 DEF PrepareDecide, Goto, Invalidate
  <1>11. ASSUME NEW s \in Pcms, PrepareStop(s) PROVE Owners'
    BY <1>11 DEF PrepareStop, Goto, Close
  <1>12. ASSUME NEW s \in Pcms, PrepareStopped(s) PROVE Owners'
    BY <1>12 DEF PrepareStopped, Goto, Closed
  <1>13. ASSUME NEW s \in Pcms, PrepareStart(s) PROVE Owners'
    BY <1>13 DEF PrepareStart, Goto, Open
  <1>14. ASSUME NEW s \in Pcms, PrepareMark(s) PROVE Owners'
    BY <1>14 DEF PrepareMark, Goto
  <1>15. ASSUME NEW s \in Pcms, PrepareVerify(s) PROVE Owners'
    BY <1>15 DEF PrepareVerify, Goto, ReadFormat, Update
  <1>16. ASSUME NEW s \in Pcms, PrepareJudge(s) PROVE Owners'
    BY <1>16 DEF PrepareJudge, Goto, Invalidate
  <1>17. ASSUME NEW s \in Pcms, PrepareEnd(s) PROVE Owners'
    BY <1>17 DEF PrepareEnd, Goto
  <1>18. ASSUME NEW s \in Pcms, TriggerSet(s) PROVE Owners'
    BY <1>18 DEF TriggerSet, Goto
  <1>19. ASSUME NEW s \in Pcms, FreeEnd(s) PROVE Owners'
    BY <1>19 DEF FreeEnd, Goto
  <1>20. ASSUME NEW t \in Threads, CancelFormat(t) PROVE Owners'
    BY <1>20 DEF CancelFormat, Goto
  <1>21. ASSUME NEW t \in Threads, FlushFormat(t) PROVE Owners'
    BY <1>21 DEF FlushFormat, Goto
  <1>22. ASSUME NEW t \in Threads, StopLock(t) PROVE Owners'
    BY <1>22 DEF StopLock, Goto, Target
  <1>23. ASSUME NEW t \in Threads, StopDma(t) PROVE Owners'
    BY <1>23 DEF StopDma, Goto, Close, Target
  <1>24. ASSUME NEW t \in Threads, StoppedDma(t) PROVE Owners'
    BY <1>24 DEF StoppedDma, Goto, Closed, Target
  <1>25. ASSUME NEW t \in Threads, StopEnd(t) PROVE Owners'
    BY <1>25 DEF StopEnd, Goto
  <1>26. ASSUME SuspendBegin PROVE Owners'
    BY <1>26 DEF SuspendBegin, Goto
  <1>27. ASSUME RemovalBegin PROVE Owners'
    BY <1>27 DEF RemovalBegin, Goto
  <1>28. ASSUME SuspendEnd PROVE Owners'
    BY <1>28 DEF SuspendEnd, Goto
  <1>29. ASSUME CleanupEnd PROVE Owners'
    BY <1>29 DEF CleanupEnd, Goto
  <1>30. ASSUME NEW s \in Pcms, StopNext(s) PROVE Owners'
    BY <1>30 DEF StopNext, Goto, StreamLocked
  <1>31. ASSUME FormatWorkStart PROVE Owners'
    BY <1>31 DEF FormatWorkStart
  <1>32. ASSUME FormatWorkLock PROVE Owners'
    BY <1>32 DEF FormatWorkLock
  <1>33. ASSUME FormatWorkRead PROVE Owners'
    BY <1>33 DEF FormatWorkRead, ReadFormat, Update
  <1>34. ASSUME FormatWorkDecide PROVE Owners'
    BY <1>34 DEF FormatWorkDecide, Invalidate
  <1>35. ASSUME FormatWorkXrun PROVE Owners'
    BY <1>35 DEF FormatWorkXrun, StreamLocked
  <1>36. ASSUME FormatWorkStop PROVE Owners'
    BY <1>36 DEF FormatWorkStop, Close
  <1>37. ASSUME FormatWorkStopped PROVE Owners'
    BY <1>37 DEF FormatWorkStopped, Closed
  <1>38. ASSUME FormatWorkEnd PROVE Owners'
    BY <1>38 DEF FormatWorkEnd
  <1>39. CASE UNCHANGED acVars
    BY <1>1, <1>39 DEF acVars
  <1> QED
    BY <1>2, <1>3, <1>4, <1>5, <1>6, <1>7, <1>8, <1>9, <1>10, <1>11, <1>12,
       <1>13, <1>14, <1>15, <1>16, <1>17, <1>18, <1>19, <1>20, <1>21, <1>22,
       <1>23, <1>24, <1>25, <1>26, <1>27, <1>28, <1>29, <1>30, <1>31, <1>32,
       <1>33, <1>34, <1>35, <1>36, <1>37, <1>38, <1>39
    DEF CaptureNext, Application, Prepare, Stop, Device, FormatWork, Receive

\* the modes with their flags,
LEMMA ModesStep ==
    ASSUME ThreadTypes, DeviceTypes, Owners, Modes,
           [CaptureNext]_acVars
    PROVE  Modes'
  <1> USE CaptureAssumption DEF Modes, Threads, Dev, ThreadTypes, DeviceTypes,
              Owners, Ending, aeVars, strVars, audVars, appVars, wVars,
              devVars, recVars
  <1>1. ASSUME UNCHANGED <<disconnected, suspended, pc, mode, unstopped>>
        PROVE  Modes'
    BY <1>1
  <1>2. ASSUME NEW f \in AllFormats, Retune(f) PROVE Modes'
    BY <1>1, <1>2 DEF Retune
  <1>3. ASSUME
          Publish \/ FormatChanged \/ FormatWorkStart \/ FormatWorkLock
          \/ FormatWorkRead \/ FormatWorkDecide \/ FormatWorkXrun
          \/ FormatWorkStop \/ FormatWorkStopped \/ FormatWorkEnd
        PROVE  Modes'
    BY <1>1, <1>3 DEF Publish, FormatChanged, FormatWorkStart, FormatWorkLock,
           FormatWorkRead, FormatWorkDecide, FormatWorkXrun, FormatWorkStop,
           FormatWorkStopped, FormatWorkEnd, ReadFormat, Invalidate, Close,
           Closed
  <1>4. ASSUME NEW s \in Pcms,
          PcmOpen(s) \/ TriggerStop(s) \/ ReceiveBegin(s) \/ ReceiveCopy(s)
          \/ ReceiveElapsed(s)
        PROVE  Modes'
    BY <1>1, <1>4 DEF PcmOpen, TriggerStop, ReceiveBegin, ReceiveCopy,
           ReceiveElapsed, Serve, Answer
  <1>5. ASSUME NEW s \in Pcms, PrepareBegin(s) PROVE Modes'
    BY <1>5 DEF PrepareBegin, Goto, Awake
  <1>6. ASSUME NEW s \in Pcms, TriggerCheck(s) PROVE Modes'
    BY <1>6 DEF TriggerCheck, Goto, Awake
  <1>7. ASSUME NEW s \in Pcms, NEW k \in {"free", "close"}, FreeBegin(s, k)
        PROVE  Modes'
    BY <1>7 DEF FreeBegin, Goto, Awake, Frozen
  <1>8. ASSUME NEW s \in Pcms, PrepareLock(s) PROVE Modes'
    BY <1>8 DEF PrepareLock, Goto
  <1>9. ASSUME NEW s \in Pcms, PrepareRead(s) PROVE Modes'
    BY <1>9 DEF PrepareRead, Goto, ReadFormat, Update
  <1>10. ASSUME NEW s \in Pcms, PrepareDecide(s) PROVE Modes'
    BY <1>10 DEF PrepareDecide, Goto, Invalidate
  <1>11. ASSUME NEW s \in Pcms, PrepareStop(s) PROVE Modes'
    BY <1>11 DEF PrepareStop, Goto, Close
  <1>12. ASSUME NEW s \in Pcms, PrepareStopped(s) PROVE Modes'
    BY <1>12 DEF PrepareStopped, Goto, Closed
  <1>13. ASSUME NEW s \in Pcms, PrepareStart(s) PROVE Modes'
    BY <1>13 DEF PrepareStart, Goto, Open
  <1>14. ASSUME NEW s \in Pcms, PrepareMark(s) PROVE Modes'
    BY <1>14 DEF PrepareMark, Goto
  <1>15. ASSUME NEW s \in Pcms, PrepareVerify(s) PROVE Modes'
    BY <1>15 DEF PrepareVerify, Goto, ReadFormat, Update
  <1>16. ASSUME NEW s \in Pcms, PrepareJudge(s) PROVE Modes'
    BY <1>16 DEF PrepareJudge, Goto, Invalidate
  <1>17. ASSUME NEW s \in Pcms, PrepareEnd(s) PROVE Modes'
    BY <1>17 DEF PrepareEnd, Goto
  <1>18. ASSUME NEW s \in Pcms, TriggerSet(s) PROVE Modes'
    BY <1>18 DEF TriggerSet, Goto
  <1>19. ASSUME NEW s \in Pcms, FreeEnd(s) PROVE Modes'
    BY <1>19 DEF FreeEnd, Goto
  <1>20. ASSUME NEW t \in Threads, CancelFormat(t) PROVE Modes'
    BY <1>20 DEF CancelFormat, Goto
  <1>21. ASSUME NEW t \in Threads, FlushFormat(t) PROVE Modes'
    BY <1>21 DEF FlushFormat, Goto
  <1>22. ASSUME NEW t \in Threads, StopLock(t) PROVE Modes'
    BY <1>22 DEF StopLock, Goto, Target
  <1>23. ASSUME NEW t \in Threads, StopDma(t) PROVE Modes'
    BY <1>23 DEF StopDma, Goto, Close, Target
  <1>24. ASSUME NEW t \in Threads, StoppedDma(t) PROVE Modes'
    BY <1>24 DEF StoppedDma, Goto, Closed, Target
  <1>25. ASSUME NEW t \in Threads, StopEnd(t) PROVE Modes'
    BY <1>25 DEF StopEnd, Goto
  <1>26. ASSUME SuspendBegin PROVE Modes'
    BY <1>26 DEF SuspendBegin, Goto
  <1>27. ASSUME Resume PROVE Modes'
    BY <1>27 DEF Resume
  <1>28. ASSUME RemovalBegin PROVE Modes'
    BY <1>28 DEF RemovalBegin, Goto
  <1>29. ASSUME SuspendEnd PROVE Modes'
    BY <1>29 DEF SuspendEnd, Goto
  <1>30. ASSUME CleanupEnd PROVE Modes'
    BY <1>30 DEF CleanupEnd, Goto
  <1>31. ASSUME NEW s \in Pcms, StopNext(s) PROVE Modes'
    BY <1>31 DEF StopNext, Goto, StreamLocked
  <1>32. CASE UNCHANGED acVars
    BY <1>1, <1>32 DEF acVars
  <1> QED
    BY <1>2, <1>3, <1>4, <1>5, <1>6, <1>7, <1>8, <1>9, <1>10, <1>11, <1>12,
       <1>13, <1>14, <1>15, <1>16, <1>17, <1>18, <1>19, <1>20, <1>21, <1>22,
       <1>23, <1>24, <1>25, <1>26, <1>27, <1>28, <1>29, <1>30, <1>31, <1>32
    DEF CaptureNext, Application, Prepare, Stop, Device, FormatWork, Receive

\* what sleeps stopped,
LEMMA SleptStep ==
    ASSUME StreamTypes, ThreadTypes, DeviceTypes, Modes,
           Slept, [CaptureNext]_acVars
    PROVE  Slept'
  <1> USE CaptureAssumption DEF Slept, Threads, Dev, StreamTypes, ThreadTypes,
              DeviceTypes, Modes, aeVars, strVars, audVars, appVars, wVars,
              devVars, recVars
  <1>1. ASSUME UNCHANGED <<dmaRun, pc, mode, unstopped, cur>> PROVE Slept'
    BY <1>1
  <1>2. ASSUME NEW f \in AllFormats, Retune(f) PROVE Slept'
    BY <1>1, <1>2 DEF Retune
  <1>3. ASSUME
          Publish \/ FormatChanged \/ FormatWorkStart \/ FormatWorkLock
          \/ FormatWorkRead \/ FormatWorkXrun \/ FormatWorkStop
          \/ FormatWorkStopped \/ FormatWorkEnd
        PROVE  Slept'
    BY <1>1, <1>3 DEF Publish, FormatChanged, FormatWorkStart, FormatWorkLock,
           FormatWorkRead, FormatWorkXrun, FormatWorkStop, FormatWorkStopped,
           FormatWorkEnd, ReadFormat, Close, Closed
  <1>4. ASSUME NEW s \in Pcms,
          PcmOpen(s) \/ TriggerStop(s) \/ ReceiveBegin(s) \/ ReceiveCopy(s)
          \/ ReceiveElapsed(s)
        PROVE  Slept'
    BY <1>1, <1>4 DEF PcmOpen, TriggerStop, ReceiveBegin, ReceiveCopy,
           ReceiveElapsed, Serve, Answer
  <1>5. ASSUME NEW s \in Pcms, PrepareBegin(s) PROVE Slept'
    BY <1>5 DEF PrepareBegin, Goto, Awake
  <1>6. ASSUME NEW s \in Pcms, TriggerCheck(s) PROVE Slept'
    BY <1>6 DEF TriggerCheck, Goto, Awake
  <1>7. ASSUME NEW s \in Pcms, NEW k \in {"free", "close"}, FreeBegin(s, k)
        PROVE  Slept'
    BY <1>7 DEF FreeBegin, Goto, Awake, Frozen
  <1>8. ASSUME NEW s \in Pcms, PrepareLock(s) PROVE Slept'
    BY <1>8 DEF PrepareLock, Goto
  <1>9. ASSUME NEW s \in Pcms, PrepareRead(s) PROVE Slept'
    BY <1>9 DEF PrepareRead, Goto, ReadFormat, Update
  <1>10. ASSUME NEW s \in Pcms, PrepareDecide(s) PROVE Slept'
    BY <1>10 DEF PrepareDecide, Goto, Invalidate
  <1>11. ASSUME NEW s \in Pcms, PrepareStop(s) PROVE Slept'
    BY <1>11 DEF PrepareStop, Goto, Close
  <1>12. ASSUME NEW s \in Pcms, PrepareStopped(s) PROVE Slept'
    BY <1>12 DEF PrepareStopped, Goto, Closed
  <1>13. ASSUME NEW s \in Pcms, PrepareStart(s) PROVE Slept'
    BY <1>13 DEF PrepareStart, Goto, Open
  <1>14. ASSUME NEW s \in Pcms, PrepareMark(s) PROVE Slept'
    BY <1>14 DEF PrepareMark, Goto
  <1>15. ASSUME NEW s \in Pcms, PrepareVerify(s) PROVE Slept'
    BY <1>15 DEF PrepareVerify, Goto, ReadFormat, Update
  <1>16. ASSUME NEW s \in Pcms, PrepareJudge(s) PROVE Slept'
    BY <1>16 DEF PrepareJudge, Goto, Invalidate
  <1>17. ASSUME NEW s \in Pcms, PrepareEnd(s) PROVE Slept'
    BY <1>17 DEF PrepareEnd, Goto
  <1>18. ASSUME NEW s \in Pcms, TriggerSet(s) PROVE Slept'
    BY <1>18 DEF TriggerSet, Goto
  <1>19. ASSUME NEW s \in Pcms, FreeEnd(s) PROVE Slept'
    BY <1>19 DEF FreeEnd, Goto
  <1>20. ASSUME NEW t \in Threads, CancelFormat(t) PROVE Slept'
    BY <1>20 DEF CancelFormat, Goto
  <1>21. ASSUME NEW t \in Threads, FlushFormat(t) PROVE Slept'
    BY <1>21 DEF FlushFormat, Goto
  <1>22. ASSUME NEW t \in Threads, StopLock(t) PROVE Slept'
    BY <1>22 DEF StopLock, Goto, Target
  <1>23. ASSUME NEW t \in Threads, StopDma(t) PROVE Slept'
    BY <1>23 DEF StopDma, Goto, Close, Target
  <1>24. ASSUME NEW t \in Threads, StoppedDma(t) PROVE Slept'
    BY <1>24 DEF StoppedDma, Goto, Closed, Target
  <1>25. ASSUME NEW t \in Threads, StopEnd(t) PROVE Slept'
    BY <1>25 DEF StopEnd, Goto
  <1>26. ASSUME SuspendBegin PROVE Slept'
    BY <1>26 DEF SuspendBegin, Goto
  <1>27. ASSUME Resume PROVE Slept'
    BY <1>27 DEF Resume
  <1>28. ASSUME RemovalBegin PROVE Slept'
    BY <1>28 DEF RemovalBegin, Goto
  <1>29. ASSUME SuspendEnd PROVE Slept'
    BY <1>29 DEF SuspendEnd, Goto
  <1>30. ASSUME CleanupEnd PROVE Slept'
    BY <1>30 DEF CleanupEnd, Goto
  <1>31. ASSUME NEW s \in Pcms, StopNext(s) PROVE Slept'
    BY <1>31 DEF StopNext, Goto, StreamLocked
  <1>32. ASSUME FormatWorkDecide PROVE Slept'
    BY <1>32 DEF FormatWorkDecide, Invalidate
  <1>33. CASE UNCHANGED acVars
    BY <1>1, <1>33 DEF acVars
  <1> QED
    BY <1>2, <1>3, <1>4, <1>5, <1>6, <1>7, <1>8, <1>9, <1>10, <1>11, <1>12,
       <1>13, <1>14, <1>15, <1>16, <1>17, <1>18, <1>19, <1>20, <1>21, <1>22,
       <1>23, <1>24, <1>25, <1>26, <1>27, <1>28, <1>29, <1>30, <1>31, <1>32,
       <1>33
    DEF CaptureNext, Application, Prepare, Stop, Device, FormatWork, Receive

\* and the format work away after a removal.
LEMMA WorkGoneStep ==
    ASSUME ThreadTypes, DeviceTypes, Modes, WorkGone,
           [CaptureNext]_acVars
    PROVE  WorkGone'
  <1> USE CaptureAssumption DEF WorkGone, Threads, Dev, ThreadTypes,
              DeviceTypes, Modes, aeVars, strVars, audVars, appVars, wVars,
              devVars, recVars
  <1>1. ASSUME UNCHANGED <<pc, wQ, wPc, mode>> PROVE WorkGone'
    BY <1>1
  <1>2. ASSUME NEW f \in AllFormats, Retune(f) PROVE WorkGone'
    BY <1>1, <1>2 DEF Retune
  <1>3. ASSUME Publish PROVE WorkGone'
    BY <1>1, <1>3 DEF Publish, ReadFormat
  <1>4. ASSUME NEW s \in Pcms,
          PcmOpen(s) \/ TriggerStop(s) \/ ReceiveBegin(s) \/ ReceiveCopy(s)
          \/ ReceiveElapsed(s)
        PROVE  WorkGone'
    BY <1>1, <1>4 DEF PcmOpen, TriggerStop, ReceiveBegin, ReceiveCopy,
           ReceiveElapsed, Serve, Answer
  <1>5. ASSUME FormatChanged PROVE WorkGone'
    BY <1>5 DEF FormatChanged
  <1>6. ASSUME NEW s \in Pcms, PrepareBegin(s) PROVE WorkGone'
    BY <1>6 DEF PrepareBegin, Goto, Awake
  <1>7. ASSUME NEW s \in Pcms, TriggerCheck(s) PROVE WorkGone'
    BY <1>7 DEF TriggerCheck, Goto, Awake
  <1>8. ASSUME NEW s \in Pcms, NEW k \in {"free", "close"}, FreeBegin(s, k)
        PROVE  WorkGone'
    BY <1>8 DEF FreeBegin, Goto, Awake, Frozen
  <1>9. ASSUME NEW s \in Pcms, PrepareLock(s) PROVE WorkGone'
    BY <1>9 DEF PrepareLock, Goto
  <1>10. ASSUME NEW s \in Pcms, PrepareRead(s) PROVE WorkGone'
    BY <1>10 DEF PrepareRead, Goto, ReadFormat, Update
  <1>11. ASSUME NEW s \in Pcms, PrepareDecide(s) PROVE WorkGone'
    BY <1>11 DEF PrepareDecide, Goto, Invalidate
  <1>12. ASSUME NEW s \in Pcms, PrepareStop(s) PROVE WorkGone'
    BY <1>12 DEF PrepareStop, Goto, Close
  <1>13. ASSUME NEW s \in Pcms, PrepareStopped(s) PROVE WorkGone'
    BY <1>13 DEF PrepareStopped, Goto, Closed
  <1>14. ASSUME NEW s \in Pcms, PrepareStart(s) PROVE WorkGone'
    BY <1>14 DEF PrepareStart, Goto, Open
  <1>15. ASSUME NEW s \in Pcms, PrepareMark(s) PROVE WorkGone'
    BY <1>15 DEF PrepareMark, Goto
  <1>16. ASSUME NEW s \in Pcms, PrepareVerify(s) PROVE WorkGone'
    BY <1>16 DEF PrepareVerify, Goto, ReadFormat, Update
  <1>17. ASSUME NEW s \in Pcms, PrepareJudge(s) PROVE WorkGone'
    BY <1>17 DEF PrepareJudge, Goto, Invalidate
  <1>18. ASSUME NEW s \in Pcms, PrepareEnd(s) PROVE WorkGone'
    BY <1>18 DEF PrepareEnd, Goto
  <1>19. ASSUME NEW s \in Pcms, TriggerSet(s) PROVE WorkGone'
    BY <1>19 DEF TriggerSet, Goto
  <1>20. ASSUME NEW s \in Pcms, FreeEnd(s) PROVE WorkGone'
    BY <1>20 DEF FreeEnd, Goto
  <1>21. ASSUME NEW t \in Threads, CancelFormat(t) PROVE WorkGone'
    BY <1>21 DEF CancelFormat, Goto
  <1>22. ASSUME NEW t \in Threads, FlushFormat(t) PROVE WorkGone'
    BY <1>22 DEF FlushFormat, Goto
  <1>23. ASSUME NEW t \in Threads, StopLock(t) PROVE WorkGone'
    BY <1>23 DEF StopLock, Goto, Target
  <1>24. ASSUME NEW t \in Threads, StopDma(t) PROVE WorkGone'
    BY <1>24 DEF StopDma, Goto, Close, Target
  <1>25. ASSUME NEW t \in Threads, StoppedDma(t) PROVE WorkGone'
    BY <1>25 DEF StoppedDma, Goto, Closed, Target
  <1>26. ASSUME NEW t \in Threads, StopEnd(t) PROVE WorkGone'
    BY <1>26 DEF StopEnd, Goto
  <1>27. ASSUME SuspendBegin PROVE WorkGone'
    BY <1>27 DEF SuspendBegin, Goto
  <1>28. ASSUME Resume PROVE WorkGone'
    BY <1>28 DEF Resume
  <1>29. ASSUME RemovalBegin PROVE WorkGone'
    BY <1>29 DEF RemovalBegin, Goto
  <1>30. ASSUME SuspendEnd PROVE WorkGone'
    BY <1>30 DEF SuspendEnd, Goto
  <1>31. ASSUME CleanupEnd PROVE WorkGone'
    BY <1>31 DEF CleanupEnd, Goto
  <1>32. ASSUME NEW s \in Pcms, StopNext(s) PROVE WorkGone'
    BY <1>32 DEF StopNext, Goto, StreamLocked
  <1>33. ASSUME FormatWorkStart PROVE WorkGone'
    BY <1>33 DEF FormatWorkStart
  <1>34. ASSUME FormatWorkLock PROVE WorkGone'
    BY <1>34 DEF FormatWorkLock
  <1>35. ASSUME FormatWorkRead PROVE WorkGone'
    BY <1>35 DEF FormatWorkRead, ReadFormat, Update
  <1>36. ASSUME FormatWorkDecide PROVE WorkGone'
    BY <1>36 DEF FormatWorkDecide, Invalidate
  <1>37. ASSUME FormatWorkXrun PROVE WorkGone'
    BY <1>37 DEF FormatWorkXrun, StreamLocked
  <1>38. ASSUME FormatWorkStop PROVE WorkGone'
    BY <1>38 DEF FormatWorkStop, Close
  <1>39. ASSUME FormatWorkStopped PROVE WorkGone'
    BY <1>39 DEF FormatWorkStopped, Closed
  <1>40. ASSUME FormatWorkEnd PROVE WorkGone'
    BY <1>40 DEF FormatWorkEnd
  <1>41. CASE UNCHANGED acVars
    BY <1>1, <1>41 DEF acVars
  <1> QED
    BY <1>2, <1>3, <1>4, <1>5, <1>6, <1>7, <1>8, <1>9, <1>10, <1>11, <1>12,
       <1>13, <1>14, <1>15, <1>16, <1>17, <1>18, <1>19, <1>20, <1>21, <1>22,
       <1>23, <1>24, <1>25, <1>26, <1>27, <1>28, <1>29, <1>30, <1>31, <1>32,
       <1>33, <1>34, <1>35, <1>36, <1>37, <1>38, <1>39, <1>40, <1>41
    DEF CaptureNext, Application, Prepare, Stop, Device, FormatWork, Receive

\* No step starts a capture that Dev has stopped.
LEMMA HaltedStep ==
    ASSUME StreamTypes, ThreadTypes, DeviceTypes, Owners,
           Modes, Halted, [CaptureNext]_acVars
    PROVE  Halted'
  <1> USE CaptureAssumption DEF Halted, Threads, Dev, StreamTypes,
              ThreadTypes, DeviceTypes, Owners, Ending, Modes, aeVars,
              strVars, audVars, appVars, wVars, devVars, recVars
  <1>1. ASSUME UNCHANGED <<cap, pc, cur>> PROVE Halted'
    BY <1>1
  <1>2. ASSUME NEW f \in AllFormats, Retune(f) PROVE Halted'
    BY <1>1, <1>2 DEF Retune
  <1>3. ASSUME
          Publish \/ FormatChanged \/ Resume \/ FormatWorkStart
          \/ FormatWorkLock \/ FormatWorkRead \/ FormatWorkStop
          \/ FormatWorkStopped \/ FormatWorkEnd
        PROVE  Halted'
    BY <1>1, <1>3 DEF Publish, FormatChanged, Resume, FormatWorkStart,
           FormatWorkLock, FormatWorkRead, FormatWorkStop, FormatWorkStopped,
           FormatWorkEnd, ReadFormat, Close, Closed
  <1>4. ASSUME NEW s \in Pcms,
          PcmOpen(s) \/ ReceiveBegin(s) \/ ReceiveCopy(s)
        PROVE  Halted'
    BY <1>1, <1>4 DEF PcmOpen, ReceiveBegin, ReceiveCopy, Serve, Answer
  <1>5. ASSUME NEW s \in Pcms, PrepareBegin(s) PROVE Halted'
    BY <1>5 DEF PrepareBegin, Goto, Awake
  <1>6. ASSUME NEW s \in Pcms, TriggerCheck(s) PROVE Halted'
    BY <1>6 DEF TriggerCheck, Goto, Awake
  <1>7. ASSUME NEW s \in Pcms, TriggerStop(s) PROVE Halted'
    BY <1>7 DEF TriggerStop, Awake
  <1>8. ASSUME NEW s \in Pcms, NEW k \in {"free", "close"}, FreeBegin(s, k)
        PROVE  Halted'
    BY <1>8 DEF FreeBegin, Goto, Awake, Frozen
  <1>9. ASSUME NEW s \in Pcms, PrepareLock(s) PROVE Halted'
    BY <1>9 DEF PrepareLock, Goto
  <1>10. ASSUME NEW s \in Pcms, PrepareRead(s) PROVE Halted'
    BY <1>10 DEF PrepareRead, Goto, ReadFormat, Update
  <1>11. ASSUME NEW s \in Pcms, PrepareDecide(s) PROVE Halted'
    BY <1>11 DEF PrepareDecide, Goto, Invalidate
  <1>12. ASSUME NEW s \in Pcms, PrepareStop(s) PROVE Halted'
    BY <1>12 DEF PrepareStop, Goto, Close
  <1>13. ASSUME NEW s \in Pcms, PrepareStopped(s) PROVE Halted'
    BY <1>13 DEF PrepareStopped, Goto, Closed
  <1>14. ASSUME NEW s \in Pcms, PrepareStart(s) PROVE Halted'
    BY <1>14 DEF PrepareStart, Goto, Open
  <1>15. ASSUME NEW s \in Pcms, PrepareMark(s) PROVE Halted'
    BY <1>15 DEF PrepareMark, Goto
  <1>16. ASSUME NEW s \in Pcms, PrepareVerify(s) PROVE Halted'
    BY <1>16 DEF PrepareVerify, Goto, ReadFormat, Update
  <1>17. ASSUME NEW s \in Pcms, PrepareJudge(s) PROVE Halted'
    BY <1>17 DEF PrepareJudge, Goto, Invalidate
  <1>18. ASSUME NEW s \in Pcms, PrepareEnd(s) PROVE Halted'
    BY <1>18 DEF PrepareEnd, Goto
  <1>19. ASSUME NEW s \in Pcms, TriggerSet(s) PROVE Halted'
    BY <1>19 DEF TriggerSet, Goto
  <1>20. ASSUME NEW s \in Pcms, FreeEnd(s) PROVE Halted'
    BY <1>20 DEF FreeEnd, Goto
  <1>21. ASSUME NEW s \in Pcms, ReceiveElapsed(s) PROVE Halted'
    BY <1>21 DEF ReceiveElapsed, Answer, StreamLocked
  <1>22. ASSUME NEW t \in Threads, CancelFormat(t) PROVE Halted'
    BY <1>22 DEF CancelFormat, Goto
  <1>23. ASSUME NEW t \in Threads, FlushFormat(t) PROVE Halted'
    BY <1>23 DEF FlushFormat, Goto
  <1>24. ASSUME NEW t \in Threads, StopLock(t) PROVE Halted'
    BY <1>24 DEF StopLock, Goto, Target
  <1>25. ASSUME NEW t \in Threads, StopDma(t) PROVE Halted'
    BY <1>25 DEF StopDma, Goto, Close, Target
  <1>26. ASSUME NEW t \in Threads, StoppedDma(t) PROVE Halted'
    BY <1>26 DEF StoppedDma, Goto, Closed, Target
  <1>27. ASSUME NEW t \in Threads, StopEnd(t) PROVE Halted'
    BY <1>27 DEF StopEnd, Goto
  <1>28. ASSUME SuspendBegin PROVE Halted'
    BY <1>28 DEF SuspendBegin, Goto
  <1>29. ASSUME RemovalBegin PROVE Halted'
    BY <1>29 DEF RemovalBegin, Goto
  <1>30. ASSUME SuspendEnd PROVE Halted'
    BY <1>30 DEF SuspendEnd, Goto
  <1>31. ASSUME CleanupEnd PROVE Halted'
    BY <1>31 DEF CleanupEnd, Goto
  <1>32. ASSUME NEW s \in Pcms, StopNext(s) PROVE Halted'
    BY <1>32 DEF StopNext, Goto, StreamLocked
  <1>33. ASSUME FormatWorkDecide PROVE Halted'
    BY <1>33 DEF FormatWorkDecide, Invalidate
  <1>34. ASSUME FormatWorkXrun PROVE Halted'
    BY <1>34 DEF FormatWorkXrun, StreamLocked
  <1>35. CASE UNCHANGED acVars
    BY <1>1, <1>35 DEF acVars
  <1> QED
    BY <1>2, <1>3, <1>4, <1>5, <1>6, <1>7, <1>8, <1>9, <1>10, <1>11, <1>12,
       <1>13, <1>14, <1>15, <1>16, <1>17, <1>18, <1>19, <1>20, <1>21, <1>22,
       <1>23, <1>24, <1>25, <1>26, <1>27, <1>28, <1>29, <1>30, <1>31, <1>32,
       <1>33, <1>34, <1>35
    DEF CaptureNext, Application, Prepare, Stop, Device, FormatWork, Receive

\* The engine of a closed substream stays stopped.
LEMMA SubstreamsStep ==
    ASSUME StreamTypes, ThreadTypes, DeviceTypes,
           EngineTypes, Owners, Substreams, Rested, Stopped, Revoked,
           Prepared, [CaptureNext]_acVars
    PROVE  Substreams'
  <1> USE CaptureAssumption DEF Substreams, Threads, Dev, StreamTypes,
              ThreadTypes, DeviceTypes, EngineTypes, Preparing, Ending,
              Target, Owners, Rested, Stopped, Revoked, Prepared, aeVars,
              strVars, audVars, appVars, wVars, devVars, recVars
  <1>1. ASSUME UNCHANGED <<gate, sub, pcm, pc>> PROVE Substreams'
    BY <1>1
  <1>2. ASSUME NEW f \in AllFormats, Retune(f) PROVE Substreams'
    BY <1>1, <1>2 DEF Retune
  <1>3. ASSUME
          Publish \/ FormatChanged \/ Resume \/ FormatWorkStart
          \/ FormatWorkLock \/ FormatWorkRead \/ FormatWorkDecide
          \/ FormatWorkEnd
        PROVE  Substreams'
    BY <1>1, <1>3 DEF Publish, FormatChanged, Resume, FormatWorkStart,
           FormatWorkLock, FormatWorkRead, FormatWorkDecide, FormatWorkEnd,
           ReadFormat, Invalidate
  <1>4. ASSUME NEW s \in Pcms,
          ReceiveBegin(s) \/ ReceiveCopy(s)
        PROVE  Substreams'
    BY <1>1, <1>4 DEF ReceiveBegin, ReceiveCopy, Serve, Answer
  <1>5. ASSUME NEW s \in Pcms, PcmOpen(s) PROVE Substreams'
    BY <1>5 DEF PcmOpen, Awake
  <1>6. ASSUME NEW s \in Pcms, PrepareBegin(s) PROVE Substreams'
    BY <1>6 DEF PrepareBegin, Goto, Awake
  <1>7. ASSUME NEW s \in Pcms, TriggerCheck(s) PROVE Substreams'
    BY <1>7 DEF TriggerCheck, Goto, Awake
  <1>8. ASSUME NEW s \in Pcms, TriggerStop(s) PROVE Substreams'
    BY <1>8 DEF TriggerStop, Awake
  <1>9. ASSUME NEW s \in Pcms, NEW k \in {"free", "close"}, FreeBegin(s, k)
        PROVE  Substreams'
    BY <1>9 DEF FreeBegin, Goto, Awake, Frozen
  <1>10. ASSUME NEW s \in Pcms, PrepareLock(s) PROVE Substreams'
    BY <1>10 DEF PrepareLock, Goto
  <1>11. ASSUME NEW s \in Pcms, PrepareRead(s) PROVE Substreams'
    BY <1>11 DEF PrepareRead, Goto, ReadFormat, Update
  <1>12. ASSUME NEW s \in Pcms, PrepareDecide(s) PROVE Substreams'
    BY <1>12 DEF PrepareDecide, Goto, Invalidate
  <1>13. ASSUME NEW s \in Pcms, PrepareStop(s) PROVE Substreams'
    BY <1>13 DEF PrepareStop, Goto, Close
  <1>14. ASSUME NEW s \in Pcms, PrepareStopped(s) PROVE Substreams'
    BY <1>14 DEF PrepareStopped, Goto, Closed
  <1>15. ASSUME NEW s \in Pcms, PrepareStart(s) PROVE Substreams'
    BY <1>15 DEF PrepareStart, Goto, Open
  <1>16. ASSUME NEW s \in Pcms, PrepareMark(s) PROVE Substreams'
    BY <1>16 DEF PrepareMark, Goto
  <1>17. ASSUME NEW s \in Pcms, PrepareVerify(s) PROVE Substreams'
    BY <1>17 DEF PrepareVerify, Goto, ReadFormat, Update
  <1>18. ASSUME NEW s \in Pcms, PrepareJudge(s) PROVE Substreams'
    BY <1>18 DEF PrepareJudge, Goto, Invalidate
  <1>19. ASSUME NEW s \in Pcms, PrepareEnd(s) PROVE Substreams'
    BY <1>19 DEF PrepareEnd, Goto
  <1>20. ASSUME NEW s \in Pcms, TriggerSet(s) PROVE Substreams'
    BY <1>20 DEF TriggerSet, Goto
  <1>21. ASSUME NEW s \in Pcms, FreeEnd(s) PROVE Substreams'
    BY <1>21 DEF FreeEnd, Goto
  <1>22. ASSUME NEW s \in Pcms, ReceiveElapsed(s) PROVE Substreams'
    BY <1>22 DEF ReceiveElapsed, Answer, StreamLocked
  <1>23. ASSUME NEW t \in Threads, CancelFormat(t) PROVE Substreams'
    BY <1>23 DEF CancelFormat, Goto
  <1>24. ASSUME NEW t \in Threads, FlushFormat(t) PROVE Substreams'
    BY <1>24 DEF FlushFormat, Goto
  <1>25. ASSUME NEW t \in Threads, StopLock(t) PROVE Substreams'
    BY <1>25 DEF StopLock, Goto
  <1>26. ASSUME NEW t \in Threads, StopDma(t) PROVE Substreams'
    BY <1>26 DEF StopDma, Goto, Close
  <1>27. ASSUME NEW t \in Threads, StoppedDma(t) PROVE Substreams'
    BY <1>27 DEF StoppedDma, Goto, Closed
  <1>28. ASSUME NEW t \in Threads, StopEnd(t) PROVE Substreams'
    BY <1>28 DEF StopEnd, Goto
  <1>29. ASSUME SuspendBegin PROVE Substreams'
    BY <1>29 DEF SuspendBegin, Goto
  <1>30. ASSUME RemovalBegin PROVE Substreams'
    BY <1>30 DEF RemovalBegin, Goto
  <1>31. ASSUME SuspendEnd PROVE Substreams'
    BY <1>31 DEF SuspendEnd, Goto
  <1>32. ASSUME CleanupEnd PROVE Substreams'
    BY <1>32 DEF CleanupEnd, Goto
  <1>33. ASSUME NEW s \in Pcms, StopNext(s) PROVE Substreams'
    BY <1>33 DEF StopNext, Goto, StreamLocked
  <1>34. ASSUME FormatWorkXrun PROVE Substreams'
    BY <1>34 DEF FormatWorkXrun, StreamLocked
  <1>35. ASSUME FormatWorkStop PROVE Substreams'
    BY <1>35 DEF FormatWorkStop, Close
  <1>36. ASSUME FormatWorkStopped PROVE Substreams'
    BY <1>36 DEF FormatWorkStopped, Closed
  <1>37. CASE UNCHANGED acVars
    BY <1>1, <1>37 DEF acVars
  <1> QED
    BY <1>2, <1>3, <1>4, <1>5, <1>6, <1>7, <1>8, <1>9, <1>10, <1>11, <1>12,
       <1>13, <1>14, <1>15, <1>16, <1>17, <1>18, <1>19, <1>20, <1>21, <1>22,
       <1>23, <1>24, <1>25, <1>26, <1>27, <1>28, <1>29, <1>30, <1>31, <1>32,
       <1>33, <1>34, <1>35, <1>36, <1>37
    DEF CaptureNext, Application, Prepare, Stop, Device, FormatWork, Receive

\* No substream is opened when the cleanup is over.
LEMMA GoneStep ==
    ASSUME StreamTypes, ThreadTypes, DeviceTypes,
           EngineTypes, Owners, Modes, Substreams, Gone, [CaptureNext]_acVars
    PROVE  Gone'
  <1> USE CaptureAssumption DEF Gone, Threads, Dev, StreamTypes, ThreadTypes,
              DeviceTypes, EngineTypes, Preparing, Ending, Target, Owners,
              Modes, Substreams, aeVars, strVars, audVars, appVars, wVars,
              devVars, recVars
  <1>1. ASSUME UNCHANGED <<pcm, mode>> PROVE Gone'
    BY <1>1
  <1>2. ASSUME NEW f \in AllFormats, Retune(f) PROVE Gone'
    BY <1>1, <1>2 DEF Retune
  <1>3. ASSUME
          Publish \/ FormatChanged \/ FormatWorkStart \/ FormatWorkLock
          \/ FormatWorkRead \/ FormatWorkDecide \/ FormatWorkStop
          \/ FormatWorkStopped \/ FormatWorkEnd
        PROVE  Gone'
    BY <1>1, <1>3 DEF Publish, FormatChanged, FormatWorkStart, FormatWorkLock,
           FormatWorkRead, FormatWorkDecide, FormatWorkStop,
           FormatWorkStopped, FormatWorkEnd, ReadFormat, Invalidate, Close,
           Closed
  <1>4. ASSUME NEW s \in Pcms,
          PrepareBegin(s) \/ TriggerCheck(s) \/ PrepareLock(s)
          \/ PrepareRead(s) \/ PrepareDecide(s) \/ PrepareStop(s)
          \/ PrepareStopped(s) \/ PrepareStart(s) \/ PrepareMark(s)
          \/ PrepareVerify(s) \/ PrepareJudge(s) \/ ReceiveBegin(s)
          \/ ReceiveCopy(s)
        PROVE  Gone'
    BY <1>1, <1>4 DEF PrepareBegin, TriggerCheck, PrepareLock, PrepareRead,
           PrepareDecide, PrepareStop, PrepareStopped, PrepareStart,
           PrepareMark, PrepareVerify, PrepareJudge, ReceiveBegin,
           ReceiveCopy, Goto, ReadFormat, Invalidate, Close, Closed, Open,
           Serve, Answer
  <1>5. ASSUME NEW t \in Threads,
          CancelFormat(t) \/ FlushFormat(t) \/ StopLock(t) \/ StopDma(t)
          \/ StoppedDma(t) \/ StopEnd(t)
        PROVE  Gone'
    BY <1>1, <1>5 DEF CancelFormat, FlushFormat, StopLock, StopDma,
           StoppedDma, StopEnd, Goto, Close, Closed
  <1>6. ASSUME NEW s \in Pcms, PcmOpen(s) PROVE Gone'
    BY <1>6 DEF PcmOpen, Awake
  <1>7. ASSUME NEW s \in Pcms, TriggerStop(s) PROVE Gone'
    BY <1>7 DEF TriggerStop, Awake
  <1>8. ASSUME NEW s \in Pcms, NEW k \in {"free", "close"}, FreeBegin(s, k)
        PROVE  Gone'
    BY <1>8 DEF FreeBegin, Goto, Awake, Frozen
  <1>9. ASSUME NEW s \in Pcms, PrepareEnd(s) PROVE Gone'
    BY <1>9 DEF PrepareEnd, Goto
  <1>10. ASSUME NEW s \in Pcms, TriggerSet(s) PROVE Gone'
    BY <1>10 DEF TriggerSet, Goto
  <1>11. ASSUME NEW s \in Pcms, FreeEnd(s) PROVE Gone'
    BY <1>11 DEF FreeEnd, Goto
  <1>12. ASSUME NEW s \in Pcms, ReceiveElapsed(s) PROVE Gone'
    BY <1>12 DEF ReceiveElapsed, Answer, StreamLocked
  <1>13. ASSUME SuspendBegin PROVE Gone'
    BY <1>13 DEF SuspendBegin, Goto
  <1>14. ASSUME Resume PROVE Gone'
    BY <1>14 DEF Resume
  <1>15. ASSUME RemovalBegin PROVE Gone'
    BY <1>15 DEF RemovalBegin, Goto
  <1>16. ASSUME SuspendEnd PROVE Gone'
    BY <1>16 DEF SuspendEnd, Goto
  <1>17. ASSUME CleanupEnd PROVE Gone'
    BY <1>17 DEF CleanupEnd, Goto
  <1>18. ASSUME NEW s \in Pcms, StopNext(s) PROVE Gone'
    BY <1>18 DEF StopNext, Goto, StreamLocked
  <1>19. ASSUME FormatWorkXrun PROVE Gone'
    BY <1>19 DEF FormatWorkXrun, StreamLocked
  <1>20. CASE UNCHANGED acVars
    BY <1>1, <1>20 DEF acVars
  <1> QED
    BY <1>2, <1>3, <1>4, <1>5, <1>6, <1>7, <1>8, <1>9, <1>10, <1>11, <1>12,
       <1>13, <1>14, <1>15, <1>16, <1>17, <1>18, <1>19, <1>20
    DEF CaptureNext, Application, Prepare, Stop, Device, FormatWork, Receive

\* A stop that ends has stopped its engine.
LEMMA RestedStep ==
    ASSUME StreamTypes, ThreadTypes, DeviceTypes,
           EngineTypes, Owners, Rested, Stopped, Revoked, Flags, Opened,
           Closing, Halted, [CaptureNext]_acVars
    PROVE  Rested'
  <1> USE CaptureAssumption DEF Rested, Threads, Dev, StreamTypes,
              ThreadTypes, DeviceTypes, EngineTypes, Preparing, Ending,
              Target, Owners, Stopped, Revoked, Flags, Opened, Closing,
              Halted, aeVars, strVars, audVars, appVars, wVars, devVars,
              recVars
  <1>1. ASSUME UNCHANGED <<gate, cap, pc>> PROVE Rested'
    BY <1>1
  <1>2. ASSUME NEW f \in AllFormats, Retune(f) PROVE Rested'
    BY <1>1, <1>2 DEF Retune
  <1>3. ASSUME
          Publish \/ FormatChanged \/ Resume \/ FormatWorkStart
          \/ FormatWorkLock \/ FormatWorkRead \/ FormatWorkEnd
        PROVE  Rested'
    BY <1>1, <1>3 DEF Publish, FormatChanged, Resume, FormatWorkStart,
           FormatWorkLock, FormatWorkRead, FormatWorkEnd, ReadFormat
  <1>4. ASSUME NEW s \in Pcms,
          PcmOpen(s) \/ ReceiveBegin(s) \/ ReceiveCopy(s)
        PROVE  Rested'
    BY <1>1, <1>4 DEF PcmOpen, ReceiveBegin, ReceiveCopy, Serve, Answer
  <1>5. ASSUME NEW s \in Pcms, PrepareBegin(s) PROVE Rested'
    BY <1>5 DEF PrepareBegin, Goto, Awake
  <1>6. ASSUME NEW s \in Pcms, TriggerCheck(s) PROVE Rested'
    BY <1>6 DEF TriggerCheck, Goto, Awake
  <1>7. ASSUME NEW s \in Pcms, TriggerStop(s) PROVE Rested'
    BY <1>7 DEF TriggerStop, Awake
  <1>8. ASSUME NEW s \in Pcms, NEW k \in {"free", "close"}, FreeBegin(s, k)
        PROVE  Rested'
    BY <1>8 DEF FreeBegin, Goto, Awake, Frozen
  <1>9. ASSUME NEW s \in Pcms, PrepareLock(s) PROVE Rested'
    BY <1>9 DEF PrepareLock, Goto
  <1>10. ASSUME NEW s \in Pcms, PrepareRead(s) PROVE Rested'
    BY <1>10 DEF PrepareRead, Goto, ReadFormat, Update
  <1>11. ASSUME NEW s \in Pcms, PrepareDecide(s) PROVE Rested'
    BY <1>11 DEF PrepareDecide, Goto, Invalidate
  <1>12. ASSUME NEW s \in Pcms, PrepareStop(s) PROVE Rested'
    BY <1>12 DEF PrepareStop, Goto, Close
  <1>13. ASSUME NEW s \in Pcms, PrepareStopped(s) PROVE Rested'
    BY <1>13 DEF PrepareStopped, Goto, Closed
  <1>14. ASSUME NEW s \in Pcms, PrepareStart(s) PROVE Rested'
    BY <1>14 DEF PrepareStart, Goto, Open
  <1>15. ASSUME NEW s \in Pcms, PrepareMark(s) PROVE Rested'
    BY <1>15 DEF PrepareMark, Goto
  <1>16. ASSUME NEW s \in Pcms, PrepareVerify(s) PROVE Rested'
    BY <1>16 DEF PrepareVerify, Goto, ReadFormat, Update
  <1>17. ASSUME NEW s \in Pcms, PrepareJudge(s) PROVE Rested'
    BY <1>17 DEF PrepareJudge, Goto, Invalidate
  <1>18. ASSUME NEW s \in Pcms, PrepareEnd(s) PROVE Rested'
    BY <1>18 DEF PrepareEnd, Goto
  <1>19. ASSUME NEW s \in Pcms, TriggerSet(s) PROVE Rested'
    BY <1>19 DEF TriggerSet, Goto
  <1>20. ASSUME NEW s \in Pcms, FreeEnd(s) PROVE Rested'
    BY <1>20 DEF FreeEnd, Goto
  <1>21. ASSUME NEW s \in Pcms, ReceiveElapsed(s) PROVE Rested'
    BY <1>21 DEF ReceiveElapsed, Answer, StreamLocked
  <1>22. ASSUME NEW t \in Threads, CancelFormat(t) PROVE Rested'
    BY <1>22 DEF CancelFormat, Goto
  <1>23. ASSUME NEW t \in Threads, FlushFormat(t) PROVE Rested'
    BY <1>23 DEF FlushFormat, Goto
  <1>24. ASSUME NEW t \in Threads, StopLock(t) PROVE Rested'
    <2>1. /\ \A u \in Threads : pc[u] \notin Preparing \cup Ending
          /\ wPc \in {"idle", "lock"}
      BY <1>24, CaptureAssumption DEF StopLock, Owners, Threads, Dev
    <2>2. \A s \in Pcms : ~dmaRun[s] => gate[s] = "shut"
      BY <2>1 DEF Opened, Closing, Stopper, EngineTypes, Threads, Preparing,
                  Ending
    <2>3. /\ pc' = [pc EXCEPT ![t] = IF dmaRun[Target(t)] THEN "s_stop" ELSE "s_end"]
          /\ pc[t] = "s_lock" /\ gate' = gate /\ cap' = cap
      BY <1>24 DEF StopLock, Goto, aeVars
    <2> QED
      BY <2>2, <2>3, CaptureAssumption DEF Rested, Target, Threads, Dev,
             ThreadTypes
  <1>25. ASSUME NEW t \in Threads, StopDma(t) PROVE Rested'
    BY <1>25 DEF StopDma, Goto, Close
  <1>26. ASSUME NEW t \in Threads, StoppedDma(t) PROVE Rested'
    BY <1>26 DEF StoppedDma, Goto, Closed
  <1>27. ASSUME NEW t \in Threads, StopEnd(t) PROVE Rested'
    BY <1>27 DEF StopEnd, Goto
  <1>28. ASSUME SuspendBegin PROVE Rested'
    BY <1>28 DEF SuspendBegin, Goto
  <1>29. ASSUME RemovalBegin PROVE Rested'
    BY <1>29 DEF RemovalBegin, Goto
  <1>30. ASSUME SuspendEnd PROVE Rested'
    BY <1>30 DEF SuspendEnd, Goto
  <1>31. ASSUME CleanupEnd PROVE Rested'
    BY <1>31 DEF CleanupEnd, Goto
  <1>32. ASSUME NEW s \in Pcms, StopNext(s) PROVE Rested'
    BY <1>32 DEF StopNext, Goto, StreamLocked
  <1>33. ASSUME FormatWorkDecide PROVE Rested'
    BY <1>33 DEF FormatWorkDecide, Invalidate
  <1>34. ASSUME FormatWorkXrun PROVE Rested'
    BY <1>34 DEF FormatWorkXrun, StreamLocked
  <1>35. ASSUME FormatWorkStop PROVE Rested'
    BY <1>35 DEF FormatWorkStop, Close
  <1>36. ASSUME FormatWorkStopped PROVE Rested'
    BY <1>36 DEF FormatWorkStopped, Closed
  <1>37. CASE UNCHANGED acVars
    BY <1>1, <1>37 DEF acVars
  <1> QED
    BY <1>2, <1>3, <1>4, <1>5, <1>6, <1>7, <1>8, <1>9, <1>10, <1>11, <1>12,
       <1>13, <1>14, <1>15, <1>16, <1>17, <1>18, <1>19, <1>20, <1>21, <1>22,
       <1>23, <1>24, <1>25, <1>26, <1>27, <1>28, <1>29, <1>30, <1>31, <1>32,
       <1>33, <1>34, <1>35, <1>36, <1>37
    DEF CaptureNext, Application, Prepare, Stop, Device, FormatWork, Receive

\* Nobody else changes the engine that a prepare starts or stops,
LEMMA PreparedStep ==
    ASSUME StreamTypes, ThreadTypes, DeviceTypes,
           EngineTypes, Owners, Flags, Prepared, [CaptureNext]_acVars
    PROVE  Prepared'
  <1> USE CaptureAssumption DEF Prepared, Threads, Dev, StreamTypes,
              ThreadTypes, DeviceTypes, EngineTypes, Preparing, Ending,
              Target, Owners, Flags, aeVars, strVars, audVars, appVars, wVars,
              devVars, recVars
  <1>1. ASSUME UNCHANGED <<gate, dmaRun, pc>> PROVE Prepared'
    BY <1>1
  <1>2. ASSUME NEW f \in AllFormats, Retune(f) PROVE Prepared'
    BY <1>1, <1>2 DEF Retune
  <1>3. ASSUME
          Publish \/ FormatChanged \/ Resume \/ FormatWorkStart
          \/ FormatWorkLock \/ FormatWorkRead \/ FormatWorkXrun
          \/ FormatWorkEnd
        PROVE  Prepared'
    BY <1>1, <1>3 DEF Publish, FormatChanged, Resume, FormatWorkStart,
           FormatWorkLock, FormatWorkRead, FormatWorkXrun, FormatWorkEnd,
           ReadFormat
  <1>4. ASSUME NEW s \in Pcms,
          PcmOpen(s) \/ TriggerStop(s) \/ ReceiveBegin(s) \/ ReceiveCopy(s)
          \/ ReceiveElapsed(s)
        PROVE  Prepared'
    BY <1>1, <1>4 DEF PcmOpen, TriggerStop, ReceiveBegin, ReceiveCopy,
           ReceiveElapsed, Serve, Answer
  <1>5. ASSUME NEW s \in Pcms, PrepareBegin(s) PROVE Prepared'
    BY <1>5 DEF PrepareBegin, Goto, Awake
  <1>6. ASSUME NEW s \in Pcms, TriggerCheck(s) PROVE Prepared'
    BY <1>6 DEF TriggerCheck, Goto, Awake
  <1>7. ASSUME NEW s \in Pcms, NEW k \in {"free", "close"}, FreeBegin(s, k)
        PROVE  Prepared'
    BY <1>7 DEF FreeBegin, Goto, Awake, Frozen
  <1>8. ASSUME NEW s \in Pcms, PrepareLock(s) PROVE Prepared'
    BY <1>8 DEF PrepareLock, Goto
  <1>9. ASSUME NEW s \in Pcms, PrepareRead(s) PROVE Prepared'
    BY <1>9 DEF PrepareRead, Goto, ReadFormat, Update
  <1>10. ASSUME NEW s \in Pcms, PrepareDecide(s) PROVE Prepared'
    BY <1>10 DEF PrepareDecide, Goto, Invalidate
  <1>11. ASSUME NEW s \in Pcms, PrepareStop(s) PROVE Prepared'
    BY <1>11 DEF PrepareStop, Goto, Close
  <1>12. ASSUME NEW s \in Pcms, PrepareStopped(s) PROVE Prepared'
    BY <1>12 DEF PrepareStopped, Goto, Closed
  <1>13. ASSUME NEW s \in Pcms, PrepareStart(s) PROVE Prepared'
    BY <1>13 DEF PrepareStart, Goto, Open
  <1>14. ASSUME NEW s \in Pcms, PrepareMark(s) PROVE Prepared'
    BY <1>14 DEF PrepareMark, Goto
  <1>15. ASSUME NEW s \in Pcms, PrepareVerify(s) PROVE Prepared'
    BY <1>15 DEF PrepareVerify, Goto, ReadFormat, Update
  <1>16. ASSUME NEW s \in Pcms, PrepareJudge(s) PROVE Prepared'
    BY <1>16 DEF PrepareJudge, Goto, Invalidate
  <1>17. ASSUME NEW s \in Pcms, PrepareEnd(s) PROVE Prepared'
    BY <1>17 DEF PrepareEnd, Goto
  <1>18. ASSUME NEW s \in Pcms, TriggerSet(s) PROVE Prepared'
    BY <1>18 DEF TriggerSet, Goto
  <1>19. ASSUME NEW s \in Pcms, FreeEnd(s) PROVE Prepared'
    BY <1>19 DEF FreeEnd, Goto
  <1>20. ASSUME NEW t \in Threads, CancelFormat(t) PROVE Prepared'
    BY <1>20 DEF CancelFormat, Goto
  <1>21. ASSUME NEW t \in Threads, FlushFormat(t) PROVE Prepared'
    BY <1>21 DEF FlushFormat, Goto
  <1>22. ASSUME NEW t \in Threads, StopLock(t) PROVE Prepared'
    BY <1>22 DEF StopLock, Goto
  <1>23. ASSUME NEW t \in Threads, StopDma(t) PROVE Prepared'
    BY <1>23 DEF StopDma, Goto, Close
  <1>24. ASSUME NEW t \in Threads, StoppedDma(t) PROVE Prepared'
    BY <1>24 DEF StoppedDma, Goto, Closed
  <1>25. ASSUME NEW t \in Threads, StopEnd(t) PROVE Prepared'
    BY <1>25 DEF StopEnd, Goto
  <1>26. ASSUME SuspendBegin PROVE Prepared'
    BY <1>26 DEF SuspendBegin, Goto
  <1>27. ASSUME RemovalBegin PROVE Prepared'
    BY <1>27 DEF RemovalBegin, Goto
  <1>28. ASSUME SuspendEnd PROVE Prepared'
    BY <1>28 DEF SuspendEnd, Goto
  <1>29. ASSUME CleanupEnd PROVE Prepared'
    BY <1>29 DEF CleanupEnd, Goto
  <1>30. ASSUME NEW s \in Pcms, StopNext(s) PROVE Prepared'
    BY <1>30 DEF StopNext, Goto, StreamLocked
  <1>31. ASSUME FormatWorkDecide PROVE Prepared'
    BY <1>31 DEF FormatWorkDecide, Invalidate
  <1>32. ASSUME FormatWorkStop PROVE Prepared'
    BY <1>32 DEF FormatWorkStop, Close
  <1>33. ASSUME FormatWorkStopped PROVE Prepared'
    BY <1>33 DEF FormatWorkStopped, Closed
  <1>34. CASE UNCHANGED acVars
    BY <1>1, <1>34 DEF acVars
  <1> QED
    BY <1>2, <1>3, <1>4, <1>5, <1>6, <1>7, <1>8, <1>9, <1>10, <1>11, <1>12,
       <1>13, <1>14, <1>15, <1>16, <1>17, <1>18, <1>19, <1>20, <1>21, <1>22,
       <1>23, <1>24, <1>25, <1>26, <1>27, <1>28, <1>29, <1>30, <1>31, <1>32,
       <1>33, <1>34
    DEF CaptureNext, Application, Prepare, Stop, Device, FormatWork, Receive

\* nor the one that a stop
LEMMA StoppedStep ==
    ASSUME StreamTypes, ThreadTypes, DeviceTypes,
           EngineTypes, Owners, Flags, Stopped, [CaptureNext]_acVars
    PROVE  Stopped'
  <1> USE CaptureAssumption DEF Stopped, Target, Ending, Threads, Dev,
              StreamTypes, ThreadTypes, DeviceTypes, EngineTypes, Preparing,
              Owners, Flags, aeVars, strVars, audVars, appVars, wVars,
              devVars, recVars
  <1>1. ASSUME UNCHANGED <<gate, dmaRun, pc, cur>> PROVE Stopped'
    BY <1>1
  <1>2. ASSUME NEW f \in AllFormats, Retune(f) PROVE Stopped'
    BY <1>1, <1>2 DEF Retune
  <1>3. ASSUME
          Publish \/ FormatChanged \/ Resume \/ FormatWorkStart
          \/ FormatWorkLock \/ FormatWorkRead \/ FormatWorkXrun
          \/ FormatWorkEnd
        PROVE  Stopped'
    BY <1>1, <1>3 DEF Publish, FormatChanged, Resume, FormatWorkStart,
           FormatWorkLock, FormatWorkRead, FormatWorkXrun, FormatWorkEnd,
           ReadFormat
  <1>4. ASSUME NEW s \in Pcms,
          PcmOpen(s) \/ TriggerStop(s) \/ ReceiveBegin(s) \/ ReceiveCopy(s)
          \/ ReceiveElapsed(s)
        PROVE  Stopped'
    BY <1>1, <1>4 DEF PcmOpen, TriggerStop, ReceiveBegin, ReceiveCopy,
           ReceiveElapsed, Serve, Answer
  <1>5. ASSUME NEW s \in Pcms, PrepareBegin(s) PROVE Stopped'
    BY <1>5 DEF PrepareBegin, Goto, Awake
  <1>6. ASSUME NEW s \in Pcms, TriggerCheck(s) PROVE Stopped'
    BY <1>6 DEF TriggerCheck, Goto, Awake
  <1>7. ASSUME NEW s \in Pcms, NEW k \in {"free", "close"}, FreeBegin(s, k)
        PROVE  Stopped'
    BY <1>7 DEF FreeBegin, Goto, Awake, Frozen
  <1>8. ASSUME NEW s \in Pcms, PrepareLock(s) PROVE Stopped'
    BY <1>8 DEF PrepareLock, Goto
  <1>9. ASSUME NEW s \in Pcms, PrepareRead(s) PROVE Stopped'
    BY <1>9 DEF PrepareRead, Goto, ReadFormat, Update
  <1>10. ASSUME NEW s \in Pcms, PrepareDecide(s) PROVE Stopped'
    BY <1>10 DEF PrepareDecide, Goto, Invalidate
  <1>11. ASSUME NEW s \in Pcms, PrepareStop(s) PROVE Stopped'
    BY <1>11 DEF PrepareStop, Goto, Close
  <1>12. ASSUME NEW s \in Pcms, PrepareStopped(s) PROVE Stopped'
    BY <1>12 DEF PrepareStopped, Goto, Closed
  <1>13. ASSUME NEW s \in Pcms, PrepareStart(s) PROVE Stopped'
    BY <1>13 DEF PrepareStart, Goto, Open
  <1>14. ASSUME NEW s \in Pcms, PrepareMark(s) PROVE Stopped'
    BY <1>14 DEF PrepareMark, Goto
  <1>15. ASSUME NEW s \in Pcms, PrepareVerify(s) PROVE Stopped'
    BY <1>15 DEF PrepareVerify, Goto, ReadFormat, Update
  <1>16. ASSUME NEW s \in Pcms, PrepareJudge(s) PROVE Stopped'
    BY <1>16 DEF PrepareJudge, Goto, Invalidate
  <1>17. ASSUME NEW s \in Pcms, PrepareEnd(s) PROVE Stopped'
    BY <1>17 DEF PrepareEnd, Goto
  <1>18. ASSUME NEW s \in Pcms, TriggerSet(s) PROVE Stopped'
    BY <1>18 DEF TriggerSet, Goto
  <1>19. ASSUME NEW s \in Pcms, FreeEnd(s) PROVE Stopped'
    BY <1>19 DEF FreeEnd, Goto
  <1>20. ASSUME NEW t \in Threads, CancelFormat(t) PROVE Stopped'
    BY <1>20 DEF CancelFormat, Goto
  <1>21. ASSUME NEW t \in Threads, FlushFormat(t) PROVE Stopped'
    BY <1>21 DEF FlushFormat, Goto
  <1>22. ASSUME NEW t \in Threads, StopLock(t) PROVE Stopped'
    BY <1>22 DEF StopLock, Goto
  <1>23. ASSUME NEW t \in Threads, StopDma(t) PROVE Stopped'
    BY <1>23 DEF StopDma, Goto, Close
  <1>24. ASSUME NEW t \in Threads, StoppedDma(t) PROVE Stopped'
    BY <1>24 DEF StoppedDma, Goto, Closed
  <1>25. ASSUME NEW t \in Threads, StopEnd(t) PROVE Stopped'
    BY <1>25 DEF StopEnd, Goto
  <1>26. ASSUME SuspendBegin PROVE Stopped'
    BY <1>26 DEF SuspendBegin, Goto
  <1>27. ASSUME RemovalBegin PROVE Stopped'
    BY <1>27 DEF RemovalBegin, Goto
  <1>28. ASSUME SuspendEnd PROVE Stopped'
    BY <1>28 DEF SuspendEnd, Goto
  <1>29. ASSUME CleanupEnd PROVE Stopped'
    BY <1>29 DEF CleanupEnd, Goto
  <1>30. ASSUME NEW s \in Pcms, StopNext(s) PROVE Stopped'
    BY <1>30 DEF StopNext, Goto, StreamLocked
  <1>31. ASSUME FormatWorkDecide PROVE Stopped'
    BY <1>31 DEF FormatWorkDecide, Invalidate
  <1>32. ASSUME FormatWorkStop PROVE Stopped'
    BY <1>32 DEF FormatWorkStop, Close
  <1>33. ASSUME FormatWorkStopped PROVE Stopped'
    BY <1>33 DEF FormatWorkStopped, Closed
  <1>34. CASE UNCHANGED acVars
    BY <1>1, <1>34 DEF acVars
  <1> QED
    BY <1>2, <1>3, <1>4, <1>5, <1>6, <1>7, <1>8, <1>9, <1>10, <1>11, <1>12,
       <1>13, <1>14, <1>15, <1>16, <1>17, <1>18, <1>19, <1>20, <1>21, <1>22,
       <1>23, <1>24, <1>25, <1>26, <1>27, <1>28, <1>29, <1>30, <1>31, <1>32,
       <1>33, <1>34
    DEF CaptureNext, Application, Prepare, Stop, Device, FormatWork, Receive

\* or the format work stops.
LEMMA RevokedStep ==
    ASSUME StreamTypes, ThreadTypes, DeviceTypes,
           EngineTypes, Owners, Flags, Substreams, Rested, Revoked,
           [CaptureNext]_acVars
    PROVE  Revoked'
  <1> USE CaptureAssumption DEF Revoked, Threads, Dev, StreamTypes,
              ThreadTypes, DeviceTypes, EngineTypes, Preparing, Ending,
              Target, Owners, Flags, Substreams, Rested, aeVars, strVars,
              audVars, appVars, wVars, devVars, recVars
  <1>1. ASSUME UNCHANGED <<gate, sub, dmaRun, wPc>> PROVE Revoked'
    BY <1>1
  <1>2. ASSUME NEW f \in AllFormats, Retune(f) PROVE Revoked'
    BY <1>1, <1>2 DEF Retune
  <1>3. ASSUME
          Publish \/ FormatChanged \/ SuspendBegin \/ Resume \/ RemovalBegin
          \/ SuspendEnd \/ CleanupEnd
        PROVE  Revoked'
    BY <1>1, <1>3 DEF Publish, FormatChanged, SuspendBegin, Resume,
           RemovalBegin, SuspendEnd, CleanupEnd, Goto, ReadFormat
  <1>4. ASSUME NEW s \in Pcms,
          PrepareBegin(s) \/ TriggerCheck(s) \/ TriggerStop(s)
          \/ PrepareLock(s) \/ PrepareRead(s) \/ PrepareVerify(s)
          \/ PrepareEnd(s) \/ TriggerSet(s) \/ ReceiveBegin(s)
          \/ ReceiveCopy(s) \/ ReceiveElapsed(s) \/ StopNext(s)
        PROVE  Revoked'
    BY <1>1, <1>4 DEF PrepareBegin, TriggerCheck, TriggerStop, PrepareLock,
           PrepareRead, PrepareVerify, PrepareEnd, TriggerSet, ReceiveBegin,
           ReceiveCopy, ReceiveElapsed, StopNext, Goto, ReadFormat, Serve,
           Answer
  <1>5. ASSUME NEW s \in Pcms, NEW k \in {"free", "close"}, FreeBegin(s, k)
        PROVE  Revoked'
    BY <1>1, <1>5 DEF FreeBegin, Goto
  <1>6. ASSUME NEW t \in Threads,
          CancelFormat(t) \/ FlushFormat(t) \/ StopEnd(t)
        PROVE  Revoked'
    BY <1>1, <1>6 DEF CancelFormat, FlushFormat, StopEnd, Goto
  <1>7. ASSUME NEW s \in Pcms, PcmOpen(s) PROVE Revoked'
    BY <1>7 DEF PcmOpen, Awake
  <1>8. ASSUME NEW s \in Pcms, PrepareDecide(s) PROVE Revoked'
    BY <1>8 DEF PrepareDecide, Goto, Invalidate
  <1>9. ASSUME NEW s \in Pcms, PrepareStop(s) PROVE Revoked'
    BY <1>9 DEF PrepareStop, Goto, Close
  <1>10. ASSUME NEW s \in Pcms, PrepareStopped(s) PROVE Revoked'
    BY <1>10 DEF PrepareStopped, Goto, Closed
  <1>11. ASSUME NEW s \in Pcms, PrepareStart(s) PROVE Revoked'
    BY <1>11 DEF PrepareStart, Goto, Open
  <1>12. ASSUME NEW s \in Pcms, PrepareMark(s) PROVE Revoked'
    BY <1>12 DEF PrepareMark, Goto
  <1>13. ASSUME NEW s \in Pcms, PrepareJudge(s) PROVE Revoked'
    BY <1>13 DEF PrepareJudge, Goto, Invalidate
  <1>14. ASSUME NEW s \in Pcms, FreeEnd(s) PROVE Revoked'
    BY <1>14 DEF FreeEnd, Goto
  <1>15. ASSUME NEW t \in Threads, StopLock(t) PROVE Revoked'
    BY <1>15 DEF StopLock, Goto
  <1>16. ASSUME NEW t \in Threads, StopDma(t) PROVE Revoked'
    BY <1>16 DEF StopDma, Goto, Close
  <1>17. ASSUME NEW t \in Threads, StoppedDma(t) PROVE Revoked'
    BY <1>17 DEF StoppedDma, Goto, Closed
  <1>18. ASSUME FormatWorkStart PROVE Revoked'
    BY <1>18 DEF FormatWorkStart
  <1>19. ASSUME FormatWorkLock PROVE Revoked'
    BY <1>19 DEF FormatWorkLock
  <1>20. ASSUME FormatWorkRead PROVE Revoked'
    BY <1>20 DEF FormatWorkRead, ReadFormat, Update
  <1>21. ASSUME FormatWorkDecide PROVE Revoked'
    BY <1>21 DEF FormatWorkDecide, Invalidate
  <1>22. ASSUME FormatWorkXrun PROVE Revoked'
    BY <1>22 DEF FormatWorkXrun, StreamLocked
  <1>23. ASSUME FormatWorkStop PROVE Revoked'
    BY <1>23 DEF FormatWorkStop, Close
  <1>24. ASSUME FormatWorkStopped PROVE Revoked'
    BY <1>24 DEF FormatWorkStopped, Closed
  <1>25. ASSUME FormatWorkEnd PROVE Revoked'
    BY <1>25 DEF FormatWorkEnd
  <1>26. CASE UNCHANGED acVars
    BY <1>1, <1>26 DEF acVars
  <1> QED
    BY <1>2, <1>3, <1>4, <1>5, <1>6, <1>7, <1>8, <1>9, <1>10, <1>11, <1>12,
       <1>13, <1>14, <1>15, <1>16, <1>17, <1>18, <1>19, <1>20, <1>21, <1>22,
       <1>23, <1>24, <1>25, <1>26
    DEF CaptureNext, Application, Prepare, Stop, Device, FormatWork, Receive

\* Flags and engine agree.
LEMMA FlagsStep ==
    ASSUME StreamTypes, ThreadTypes, DeviceTypes,
           EngineTypes, Owners, Rested, Halted, Prepared, Stopped, Revoked,
           Flags, [CaptureNext]_acVars
    PROVE  Flags'
  <1> USE CaptureAssumption DEF Flags, Threads, Dev, StreamTypes, ThreadTypes,
              DeviceTypes, EngineTypes, Preparing, Ending, Target, Owners,
              Rested, Halted, Prepared, Stopped, Revoked, aeVars, strVars,
              audVars, appVars, wVars, devVars, recVars
  <1>1. ASSUME UNCHANGED <<gate, cap, dmaRun>> PROVE Flags'
    BY <1>1
  <1>2. ASSUME NEW f \in AllFormats, Retune(f) PROVE Flags'
    BY <1>1, <1>2 DEF Retune
  <1>3. ASSUME
          Publish \/ FormatChanged \/ SuspendBegin \/ Resume \/ SuspendEnd
          \/ CleanupEnd \/ FormatWorkStart \/ FormatWorkLock
          \/ FormatWorkRead \/ FormatWorkEnd
        PROVE  Flags'
    BY <1>1, <1>3 DEF Publish, FormatChanged, SuspendBegin, Resume,
           SuspendEnd, CleanupEnd, FormatWorkStart, FormatWorkLock,
           FormatWorkRead, FormatWorkEnd, Goto, ReadFormat
  <1>4. ASSUME NEW s \in Pcms,
          PcmOpen(s) \/ TriggerCheck(s) \/ PrepareLock(s) \/ PrepareRead(s)
          \/ PrepareVerify(s) \/ PrepareEnd(s) \/ FreeEnd(s)
          \/ ReceiveBegin(s) \/ ReceiveCopy(s)
        PROVE  Flags'
    BY <1>1, <1>4 DEF PcmOpen, TriggerCheck, PrepareLock, PrepareRead,
           PrepareVerify, PrepareEnd, FreeEnd, ReceiveBegin, ReceiveCopy,
           Goto, ReadFormat, Serve, Answer
  <1>5. ASSUME NEW t \in Threads,
          CancelFormat(t) \/ FlushFormat(t) \/ StopEnd(t)
        PROVE  Flags'
    BY <1>1, <1>5 DEF CancelFormat, FlushFormat, StopEnd, Goto
  <1>6. ASSUME NEW s \in Pcms, PrepareBegin(s) PROVE Flags'
    BY <1>6 DEF PrepareBegin, Goto, Awake
  <1>7. ASSUME NEW s \in Pcms, TriggerStop(s) PROVE Flags'
    BY <1>7 DEF TriggerStop, Awake
  <1>8. ASSUME NEW s \in Pcms, NEW k \in {"free", "close"}, FreeBegin(s, k)
        PROVE  Flags'
    BY <1>8 DEF FreeBegin, Goto, Awake, Frozen
  <1>9. ASSUME NEW s \in Pcms, PrepareDecide(s) PROVE Flags'
    BY <1>9 DEF PrepareDecide, Goto, Invalidate
  <1>10. ASSUME NEW s \in Pcms, PrepareStop(s) PROVE Flags'
    BY <1>10 DEF PrepareStop, Goto, Close
  <1>11. ASSUME NEW s \in Pcms, PrepareStopped(s) PROVE Flags'
    BY <1>11 DEF PrepareStopped, Goto, Closed
  <1>12. ASSUME NEW s \in Pcms, PrepareStart(s) PROVE Flags'
    BY <1>12 DEF PrepareStart, Goto, Open
  <1>13. ASSUME NEW s \in Pcms, PrepareMark(s) PROVE Flags'
    BY <1>13 DEF PrepareMark, Goto
  <1>14. ASSUME NEW s \in Pcms, PrepareJudge(s) PROVE Flags'
    BY <1>14 DEF PrepareJudge, Goto, Invalidate
  <1>15. ASSUME NEW s \in Pcms, TriggerSet(s) PROVE Flags'
    BY <1>15 DEF TriggerSet, Goto
  <1>16. ASSUME NEW s \in Pcms, ReceiveElapsed(s) PROVE Flags'
    BY <1>16 DEF ReceiveElapsed, Answer, StreamLocked
  <1>17. ASSUME NEW t \in Threads, StopLock(t) PROVE Flags'
    BY <1>17 DEF StopLock, Goto
  <1>18. ASSUME NEW t \in Threads, StopDma(t) PROVE Flags'
    BY <1>18 DEF StopDma, Goto, Close
  <1>19. ASSUME NEW t \in Threads, StoppedDma(t) PROVE Flags'
    BY <1>19 DEF StoppedDma, Goto, Closed
  <1>20. ASSUME RemovalBegin PROVE Flags'
    BY <1>20 DEF RemovalBegin, Goto
  <1>21. ASSUME NEW s \in Pcms, StopNext(s) PROVE Flags'
    BY <1>21 DEF StopNext, Goto, StreamLocked
  <1>22. ASSUME FormatWorkDecide PROVE Flags'
    BY <1>22 DEF FormatWorkDecide, Invalidate
  <1>23. ASSUME FormatWorkXrun PROVE Flags'
    BY <1>23 DEF FormatWorkXrun, StreamLocked
  <1>24. ASSUME FormatWorkStop PROVE Flags'
    BY <1>24 DEF FormatWorkStop, Close
  <1>25. ASSUME FormatWorkStopped PROVE Flags'
    BY <1>25 DEF FormatWorkStopped, Closed
  <1>26. CASE UNCHANGED acVars
    BY <1>1, <1>26 DEF acVars
  <1> QED
    BY <1>2, <1>3, <1>4, <1>5, <1>6, <1>7, <1>8, <1>9, <1>10, <1>11, <1>12,
       <1>13, <1>14, <1>15, <1>16, <1>17, <1>18, <1>19, <1>20, <1>21, <1>22,
       <1>23, <1>24, <1>25, <1>26
    DEF CaptureNext, Application, Prepare, Stop, Device, FormatWork, Receive

\* An open engine is running, or about to be closed.
LEMMA OpenedStep ==
    ASSUME StreamTypes, ThreadTypes, DeviceTypes,
           EngineTypes, Owners, Flags, Prepared, Opened, [CaptureNext]_acVars
    PROVE  Opened'
  <1> USE CaptureAssumption DEF Opened, Stopper, Threads, Dev, StreamTypes,
              ThreadTypes, DeviceTypes, EngineTypes, Preparing, Ending,
              Target, Owners, Flags, Prepared, aeVars, strVars, audVars,
              appVars, wVars, devVars, recVars
  <1>1. ASSUME UNCHANGED <<gate, dmaRun, pc, wPc, cur>> PROVE Opened'
    BY <1>1
  <1>2. ASSUME NEW f \in AllFormats, Retune(f) PROVE Opened'
    BY <1>1, <1>2 DEF Retune
  <1>3. ASSUME Publish \/ FormatChanged \/ Resume PROVE Opened'
    BY <1>1, <1>3 DEF Publish, FormatChanged, Resume, ReadFormat
  <1>4. ASSUME NEW s \in Pcms,
          PcmOpen(s) \/ TriggerStop(s) \/ ReceiveBegin(s) \/ ReceiveCopy(s)
          \/ ReceiveElapsed(s)
        PROVE  Opened'
    BY <1>1, <1>4 DEF PcmOpen, TriggerStop, ReceiveBegin, ReceiveCopy,
           ReceiveElapsed, Serve, Answer
  <1>5. ASSUME NEW s \in Pcms, PrepareBegin(s) PROVE Opened'
    BY <1>5 DEF PrepareBegin, Goto, Awake
  <1>6. ASSUME NEW s \in Pcms, TriggerCheck(s) PROVE Opened'
    BY <1>6 DEF TriggerCheck, Goto, Awake
  <1>7. ASSUME NEW s \in Pcms, NEW k \in {"free", "close"}, FreeBegin(s, k)
        PROVE  Opened'
    BY <1>7 DEF FreeBegin, Goto, Awake, Frozen
  <1>8. ASSUME NEW s \in Pcms, PrepareLock(s) PROVE Opened'
    BY <1>8 DEF PrepareLock, Goto
  <1>9. ASSUME NEW s \in Pcms, PrepareRead(s) PROVE Opened'
    BY <1>9 DEF PrepareRead, Goto, ReadFormat, Update
  <1>10. ASSUME NEW s \in Pcms, PrepareDecide(s) PROVE Opened'
    BY <1>10 DEF PrepareDecide, Goto, Invalidate
  <1>11. ASSUME NEW s \in Pcms, PrepareStop(s) PROVE Opened'
    BY <1>11 DEF PrepareStop, Goto, Close
  <1>12. ASSUME NEW s \in Pcms, PrepareStopped(s) PROVE Opened'
    BY <1>12 DEF PrepareStopped, Goto, Closed
  <1>13. ASSUME NEW s \in Pcms, PrepareStart(s) PROVE Opened'
    BY <1>13 DEF PrepareStart, Goto, Open
  <1>14. ASSUME NEW s \in Pcms, PrepareMark(s) PROVE Opened'
    BY <1>14 DEF PrepareMark, Goto
  <1>15. ASSUME NEW s \in Pcms, PrepareVerify(s) PROVE Opened'
    BY <1>15 DEF PrepareVerify, Goto, ReadFormat, Update
  <1>16. ASSUME NEW s \in Pcms, PrepareJudge(s) PROVE Opened'
    BY <1>16 DEF PrepareJudge, Goto, Invalidate
  <1>17. ASSUME NEW s \in Pcms, PrepareEnd(s) PROVE Opened'
    BY <1>17 DEF PrepareEnd, Goto
  <1>18. ASSUME NEW s \in Pcms, TriggerSet(s) PROVE Opened'
    BY <1>18 DEF TriggerSet, Goto
  <1>19. ASSUME NEW s \in Pcms, FreeEnd(s) PROVE Opened'
    BY <1>19 DEF FreeEnd, Goto
  <1>20. ASSUME NEW t \in Threads, CancelFormat(t) PROVE Opened'
    BY <1>20 DEF CancelFormat, Goto
  <1>21. ASSUME NEW t \in Threads, FlushFormat(t) PROVE Opened'
    BY <1>21 DEF FlushFormat, Goto
  <1>22. ASSUME NEW t \in Threads, StopLock(t) PROVE Opened'
    BY <1>22 DEF StopLock, Goto
  <1>23. ASSUME NEW t \in Threads, StopDma(t) PROVE Opened'
    BY <1>23 DEF StopDma, Goto, Close
  <1>24. ASSUME NEW t \in Threads, StoppedDma(t) PROVE Opened'
    BY <1>24 DEF StoppedDma, Goto, Closed
  <1>25. ASSUME NEW t \in Threads, StopEnd(t) PROVE Opened'
    BY <1>25 DEF StopEnd, Goto
  <1>26. ASSUME SuspendBegin PROVE Opened'
    BY <1>26 DEF SuspendBegin, Goto
  <1>27. ASSUME RemovalBegin PROVE Opened'
    BY <1>27 DEF RemovalBegin, Goto
  <1>28. ASSUME SuspendEnd PROVE Opened'
    BY <1>28 DEF SuspendEnd, Goto
  <1>29. ASSUME CleanupEnd PROVE Opened'
    BY <1>29 DEF CleanupEnd, Goto
  <1>30. ASSUME NEW s \in Pcms, StopNext(s) PROVE Opened'
    BY <1>30 DEF StopNext, Goto, StreamLocked
  <1>31. ASSUME FormatWorkStart PROVE Opened'
    BY <1>31 DEF FormatWorkStart
  <1>32. ASSUME FormatWorkLock PROVE Opened'
    BY <1>32 DEF FormatWorkLock
  <1>33. ASSUME FormatWorkRead PROVE Opened'
    BY <1>33 DEF FormatWorkRead, ReadFormat, Update
  <1>34. ASSUME FormatWorkDecide PROVE Opened'
    BY <1>34 DEF FormatWorkDecide, Invalidate
  <1>35. ASSUME FormatWorkXrun PROVE Opened'
    BY <1>35 DEF FormatWorkXrun, StreamLocked
  <1>36. ASSUME FormatWorkStop PROVE Opened'
    BY <1>36 DEF FormatWorkStop, Close
  <1>37. ASSUME FormatWorkStopped PROVE Opened'
    BY <1>37 DEF FormatWorkStopped, Closed
  <1>38. ASSUME FormatWorkEnd PROVE Opened'
    BY <1>38 DEF FormatWorkEnd
  <1>39. CASE UNCHANGED acVars
    BY <1>1, <1>39 DEF acVars
  <1> QED
    BY <1>2, <1>3, <1>4, <1>5, <1>6, <1>7, <1>8, <1>9, <1>10, <1>11, <1>12,
       <1>13, <1>14, <1>15, <1>16, <1>17, <1>18, <1>19, <1>20, <1>21, <1>22,
       <1>23, <1>24, <1>25, <1>26, <1>27, <1>28, <1>29, <1>30, <1>31, <1>32,
       <1>33, <1>34, <1>35, <1>36, <1>37, <1>38, <1>39
    DEF CaptureNext, Application, Prepare, Stop, Device, FormatWork, Receive

\* Who closes an engine holds the lock.
LEMMA ClosingStep ==
    ASSUME StreamTypes, ThreadTypes, DeviceTypes,
           EngineTypes, Owners, Closing, [CaptureNext]_acVars
    PROVE  Closing'
  <1> USE CaptureAssumption DEF Closing, Stopper, Threads, Dev, StreamTypes,
              ThreadTypes, DeviceTypes, EngineTypes, Preparing, Ending,
              Target, Owners, aeVars, strVars, audVars, appVars, wVars,
              devVars, recVars
  <1>1. ASSUME UNCHANGED <<gate, pc, wPc, cur>> PROVE Closing'
    BY <1>1
  <1>2. ASSUME NEW f \in AllFormats, Retune(f) PROVE Closing'
    BY <1>1, <1>2 DEF Retune
  <1>3. ASSUME Publish \/ FormatChanged \/ Resume PROVE Closing'
    BY <1>1, <1>3 DEF Publish, FormatChanged, Resume, ReadFormat
  <1>4. ASSUME NEW s \in Pcms,
          PcmOpen(s) \/ TriggerStop(s) \/ ReceiveBegin(s) \/ ReceiveCopy(s)
          \/ ReceiveElapsed(s)
        PROVE  Closing'
    BY <1>1, <1>4 DEF PcmOpen, TriggerStop, ReceiveBegin, ReceiveCopy,
           ReceiveElapsed, Serve, Answer
  <1>5. ASSUME NEW s \in Pcms, PrepareBegin(s) PROVE Closing'
    BY <1>5 DEF PrepareBegin, Goto, Awake
  <1>6. ASSUME NEW s \in Pcms, TriggerCheck(s) PROVE Closing'
    BY <1>6 DEF TriggerCheck, Goto, Awake
  <1>7. ASSUME NEW s \in Pcms, NEW k \in {"free", "close"}, FreeBegin(s, k)
        PROVE  Closing'
    BY <1>7 DEF FreeBegin, Goto, Awake, Frozen
  <1>8. ASSUME NEW s \in Pcms, PrepareLock(s) PROVE Closing'
    BY <1>8 DEF PrepareLock, Goto
  <1>9. ASSUME NEW s \in Pcms, PrepareRead(s) PROVE Closing'
    BY <1>9 DEF PrepareRead, Goto, ReadFormat, Update
  <1>10. ASSUME NEW s \in Pcms, PrepareDecide(s) PROVE Closing'
    BY <1>10 DEF PrepareDecide, Goto, Invalidate
  <1>11. ASSUME NEW s \in Pcms, PrepareStop(s) PROVE Closing'
    BY <1>11 DEF PrepareStop, Goto, Close
  <1>12. ASSUME NEW s \in Pcms, PrepareStopped(s) PROVE Closing'
    BY <1>12 DEF PrepareStopped, Goto, Closed
  <1>13. ASSUME NEW s \in Pcms, PrepareStart(s) PROVE Closing'
    BY <1>13 DEF PrepareStart, Goto, Open
  <1>14. ASSUME NEW s \in Pcms, PrepareMark(s) PROVE Closing'
    BY <1>14 DEF PrepareMark, Goto
  <1>15. ASSUME NEW s \in Pcms, PrepareVerify(s) PROVE Closing'
    BY <1>15 DEF PrepareVerify, Goto, ReadFormat, Update
  <1>16. ASSUME NEW s \in Pcms, PrepareJudge(s) PROVE Closing'
    BY <1>16 DEF PrepareJudge, Goto, Invalidate
  <1>17. ASSUME NEW s \in Pcms, PrepareEnd(s) PROVE Closing'
    BY <1>17 DEF PrepareEnd, Goto
  <1>18. ASSUME NEW s \in Pcms, TriggerSet(s) PROVE Closing'
    BY <1>18 DEF TriggerSet, Goto
  <1>19. ASSUME NEW s \in Pcms, FreeEnd(s) PROVE Closing'
    BY <1>19 DEF FreeEnd, Goto
  <1>20. ASSUME NEW t \in Threads, CancelFormat(t) PROVE Closing'
    BY <1>20 DEF CancelFormat, Goto
  <1>21. ASSUME NEW t \in Threads, FlushFormat(t) PROVE Closing'
    BY <1>21 DEF FlushFormat, Goto
  <1>22. ASSUME NEW t \in Threads, StopLock(t) PROVE Closing'
    BY <1>22 DEF StopLock, Goto
  <1>23. ASSUME NEW t \in Threads, StopDma(t) PROVE Closing'
    BY <1>23 DEF StopDma, Goto, Close
  <1>24. ASSUME NEW t \in Threads, StoppedDma(t) PROVE Closing'
    BY <1>24 DEF StoppedDma, Goto, Closed
  <1>25. ASSUME NEW t \in Threads, StopEnd(t) PROVE Closing'
    BY <1>25 DEF StopEnd, Goto
  <1>26. ASSUME SuspendBegin PROVE Closing'
    BY <1>26 DEF SuspendBegin, Goto
  <1>27. ASSUME RemovalBegin PROVE Closing'
    BY <1>27 DEF RemovalBegin, Goto
  <1>28. ASSUME SuspendEnd PROVE Closing'
    BY <1>28 DEF SuspendEnd, Goto
  <1>29. ASSUME CleanupEnd PROVE Closing'
    BY <1>29 DEF CleanupEnd, Goto
  <1>30. ASSUME NEW s \in Pcms, StopNext(s) PROVE Closing'
    BY <1>30 DEF StopNext, Goto, StreamLocked
  <1>31. ASSUME FormatWorkStart PROVE Closing'
    BY <1>31 DEF FormatWorkStart
  <1>32. ASSUME FormatWorkLock PROVE Closing'
    BY <1>32 DEF FormatWorkLock
  <1>33. ASSUME FormatWorkRead PROVE Closing'
    BY <1>33 DEF FormatWorkRead, ReadFormat, Update
  <1>34. ASSUME FormatWorkDecide PROVE Closing'
    BY <1>34 DEF FormatWorkDecide, Invalidate
  <1>35. ASSUME FormatWorkXrun PROVE Closing'
    BY <1>35 DEF FormatWorkXrun, StreamLocked
  <1>36. ASSUME FormatWorkStop PROVE Closing'
    BY <1>36 DEF FormatWorkStop, Close
  <1>37. ASSUME FormatWorkStopped PROVE Closing'
    BY <1>37 DEF FormatWorkStopped, Closed
  <1>38. ASSUME FormatWorkEnd PROVE Closing'
    BY <1>38 DEF FormatWorkEnd
  <1>39. CASE UNCHANGED acVars
    BY <1>1, <1>39 DEF acVars
  <1> QED
    BY <1>2, <1>3, <1>4, <1>5, <1>6, <1>7, <1>8, <1>9, <1>10, <1>11, <1>12,
       <1>13, <1>14, <1>15, <1>16, <1>17, <1>18, <1>19, <1>20, <1>21, <1>22,
       <1>23, <1>24, <1>25, <1>26, <1>27, <1>28, <1>29, <1>30, <1>31, <1>32,
       <1>33, <1>34, <1>35, <1>36, <1>37, <1>38, <1>39
    DEF CaptureNext, Application, Prepare, Stop, Device, FormatWork, Receive

\* A callback is waited for.
LEMMA CallbacksStep ==
    ASSUME StreamTypes, ThreadTypes, DeviceTypes,
           EngineTypes, Owners, Rested, Closing, Callbacks, Flags, Substreams,
           [CaptureNext]_acVars
    PROVE  Callbacks'
  <1> USE CaptureAssumption DEF Callbacks, Threads, Dev, StreamTypes,
              ThreadTypes, DeviceTypes, EngineTypes, Preparing, Ending,
              Target, Owners, Rested, Closing, Flags, Substreams, aeVars,
              strVars, audVars, appVars, wVars, devVars, recVars
  <1>1. ASSUME UNCHANGED <<gate, serving, sub, cbPc>> PROVE Callbacks'
    BY <1>1
  <1>2. ASSUME NEW f \in AllFormats, Retune(f) PROVE Callbacks'
    BY <1>1, <1>2 DEF Retune
  <1>3. ASSUME
          Publish \/ FormatChanged \/ SuspendBegin \/ Resume \/ RemovalBegin
          \/ SuspendEnd \/ CleanupEnd \/ FormatWorkStart \/ FormatWorkLock
          \/ FormatWorkRead \/ FormatWorkDecide \/ FormatWorkXrun
          \/ FormatWorkEnd
        PROVE  Callbacks'
    BY <1>1, <1>3 DEF Publish, FormatChanged, SuspendBegin, Resume,
           RemovalBegin, SuspendEnd, CleanupEnd, FormatWorkStart,
           FormatWorkLock, FormatWorkRead, FormatWorkDecide, FormatWorkXrun,
           FormatWorkEnd, Goto, ReadFormat, Invalidate
  <1>4. ASSUME NEW s \in Pcms,
          PrepareBegin(s) \/ TriggerCheck(s) \/ TriggerStop(s)
          \/ PrepareLock(s) \/ PrepareRead(s) \/ PrepareDecide(s)
          \/ PrepareMark(s) \/ PrepareVerify(s) \/ PrepareJudge(s)
          \/ PrepareEnd(s) \/ TriggerSet(s) \/ StopNext(s)
        PROVE  Callbacks'
    BY <1>1, <1>4 DEF PrepareBegin, TriggerCheck, TriggerStop, PrepareLock,
           PrepareRead, PrepareDecide, PrepareMark, PrepareVerify,
           PrepareJudge, PrepareEnd, TriggerSet, StopNext, Goto, ReadFormat,
           Invalidate
  <1>5. ASSUME NEW s \in Pcms, NEW k \in {"free", "close"}, FreeBegin(s, k)
        PROVE  Callbacks'
    BY <1>1, <1>5 DEF FreeBegin, Goto
  <1>6. ASSUME NEW t \in Threads,
          CancelFormat(t) \/ FlushFormat(t) \/ StopLock(t) \/ StopEnd(t)
        PROVE  Callbacks'
    BY <1>1, <1>6 DEF CancelFormat, FlushFormat, StopLock, StopEnd, Goto
  <1>7. ASSUME NEW s \in Pcms, PcmOpen(s) PROVE Callbacks'
    BY <1>7 DEF PcmOpen, Awake
  <1>8. ASSUME NEW s \in Pcms, PrepareStop(s) PROVE Callbacks'
    BY <1>8 DEF PrepareStop, Goto, Close
  <1>9. ASSUME NEW s \in Pcms, PrepareStopped(s) PROVE Callbacks'
    BY <1>9 DEF PrepareStopped, Goto, Closed
  <1>10. ASSUME NEW s \in Pcms, PrepareStart(s) PROVE Callbacks'
    BY <1>10 DEF PrepareStart, Goto, Open
  <1>11. ASSUME NEW s \in Pcms, FreeEnd(s) PROVE Callbacks'
    BY <1>11 DEF FreeEnd, Goto
  <1>12. ASSUME NEW s \in Pcms, ReceiveBegin(s) PROVE Callbacks'
    BY <1>12 DEF ReceiveBegin, Serve
  <1>13. ASSUME NEW s \in Pcms, ReceiveCopy(s) PROVE Callbacks'
    BY <1>13 DEF ReceiveCopy, Answer
  <1>14. ASSUME NEW s \in Pcms, ReceiveElapsed(s) PROVE Callbacks'
    BY <1>14 DEF ReceiveElapsed, Answer, StreamLocked
  <1>15. ASSUME NEW t \in Threads, StopDma(t) PROVE Callbacks'
    BY <1>15 DEF StopDma, Goto, Close
  <1>16. ASSUME NEW t \in Threads, StoppedDma(t) PROVE Callbacks'
    BY <1>16 DEF StoppedDma, Goto, Closed
  <1>17. ASSUME FormatWorkStop PROVE Callbacks'
    BY <1>17 DEF FormatWorkStop, Close
  <1>18. ASSUME FormatWorkStopped PROVE Callbacks'
    BY <1>18 DEF FormatWorkStopped, Closed
  <1>19. CASE UNCHANGED acVars
    BY <1>1, <1>19 DEF acVars
  <1> QED
    BY <1>2, <1>3, <1>4, <1>5, <1>6, <1>7, <1>8, <1>9, <1>10, <1>11, <1>12,
       <1>13, <1>14, <1>15, <1>16, <1>17, <1>18, <1>19
    DEF CaptureNext, Application, Prepare, Stop, Device, FormatWork, Receive

\* A capture is monitored from its start to its stop.
LEMMA WatchedStep ==
    ASSUME StreamTypes, ThreadTypes, DeviceTypes,
           EngineTypes, Owners, Prepared, Rested, Flags, Watched,
           [CaptureNext]_acVars
    PROVE  Watched'
  <1> USE CaptureAssumption DEF Watched, Threads, Dev, StreamTypes,
              ThreadTypes, DeviceTypes, EngineTypes, Preparing, Ending,
              Target, Owners, Prepared, Rested, Flags, aeVars, strVars,
              audVars, appVars, wVars, devVars, recVars
  <1>1. ASSUME UNCHANGED <<dmaRun, invalidated, monitoring, prepared, want,
                             pc>>
        PROVE  Watched'
    BY <1>1
  <1>2. ASSUME NEW f \in AllFormats, Retune(f) PROVE Watched'
    BY <1>1, <1>2 DEF Retune
  <1>3. ASSUME
          Publish \/ FormatChanged \/ Resume \/ FormatWorkStart
          \/ FormatWorkLock \/ FormatWorkRead \/ FormatWorkXrun
          \/ FormatWorkStop \/ FormatWorkStopped \/ FormatWorkEnd
        PROVE  Watched'
    BY <1>1, <1>3 DEF Publish, FormatChanged, Resume, FormatWorkStart,
           FormatWorkLock, FormatWorkRead, FormatWorkXrun, FormatWorkStop,
           FormatWorkStopped, FormatWorkEnd, ReadFormat, Close, Closed
  <1>4. ASSUME NEW s \in Pcms,
          PcmOpen(s) \/ TriggerStop(s) \/ ReceiveBegin(s) \/ ReceiveCopy(s)
          \/ ReceiveElapsed(s)
        PROVE  Watched'
    BY <1>1, <1>4 DEF PcmOpen, TriggerStop, ReceiveBegin, ReceiveCopy,
           ReceiveElapsed, Serve, Answer
  <1>5. ASSUME NEW s \in Pcms, PrepareBegin(s) PROVE Watched'
    BY <1>5 DEF PrepareBegin, Goto, Awake
  <1>6. ASSUME NEW s \in Pcms, TriggerCheck(s) PROVE Watched'
    BY <1>6 DEF TriggerCheck, Goto, Awake
  <1>7. ASSUME NEW s \in Pcms, NEW k \in {"free", "close"}, FreeBegin(s, k)
        PROVE  Watched'
    BY <1>7 DEF FreeBegin, Goto, Awake, Frozen
  <1>8. ASSUME NEW s \in Pcms, PrepareLock(s) PROVE Watched'
    BY <1>8 DEF PrepareLock, Goto
  <1>9. ASSUME NEW s \in Pcms, PrepareRead(s) PROVE Watched'
    BY <1>9 DEF PrepareRead, Goto, ReadFormat, Update
  <1>10. ASSUME NEW s \in Pcms, PrepareDecide(s) PROVE Watched'
    BY <1>10 DEF PrepareDecide, Goto, Invalidate
  <1>11. ASSUME NEW s \in Pcms, PrepareStop(s) PROVE Watched'
    BY <1>11 DEF PrepareStop, Goto, Close
  <1>12. ASSUME NEW s \in Pcms, PrepareStopped(s) PROVE Watched'
    BY <1>12 DEF PrepareStopped, Goto, Closed
  <1>13. ASSUME NEW s \in Pcms, PrepareStart(s) PROVE Watched'
    BY <1>13 DEF PrepareStart, Goto, Open
  <1>14. ASSUME NEW s \in Pcms, PrepareMark(s) PROVE Watched'
    BY <1>14 DEF PrepareMark, Goto
  <1>15. ASSUME NEW s \in Pcms, PrepareVerify(s) PROVE Watched'
    BY <1>15 DEF PrepareVerify, Goto, ReadFormat, Update
  <1>16. ASSUME NEW s \in Pcms, PrepareJudge(s) PROVE Watched'
    BY <1>16 DEF PrepareJudge, Goto, Invalidate
  <1>17. ASSUME NEW s \in Pcms, PrepareEnd(s) PROVE Watched'
    BY <1>17 DEF PrepareEnd, Goto
  <1>18. ASSUME NEW s \in Pcms, TriggerSet(s) PROVE Watched'
    BY <1>18 DEF TriggerSet, Goto
  <1>19. ASSUME NEW s \in Pcms, FreeEnd(s) PROVE Watched'
    BY <1>19 DEF FreeEnd, Goto
  <1>20. ASSUME NEW t \in Threads, CancelFormat(t) PROVE Watched'
    BY <1>20 DEF CancelFormat, Goto
  <1>21. ASSUME NEW t \in Threads, FlushFormat(t) PROVE Watched'
    BY <1>21 DEF FlushFormat, Goto
  <1>22. ASSUME NEW t \in Threads, StopLock(t) PROVE Watched'
    BY <1>22 DEF StopLock, Goto
  <1>23. ASSUME NEW t \in Threads, StopDma(t) PROVE Watched'
    BY <1>23 DEF StopDma, Goto, Close
  <1>24. ASSUME NEW t \in Threads, StoppedDma(t) PROVE Watched'
    BY <1>24 DEF StoppedDma, Goto, Closed
  <1>25. ASSUME NEW t \in Threads, StopEnd(t) PROVE Watched'
    BY <1>25 DEF StopEnd, Goto
  <1>26. ASSUME SuspendBegin PROVE Watched'
    BY <1>26 DEF SuspendBegin, Goto
  <1>27. ASSUME RemovalBegin PROVE Watched'
    BY <1>27 DEF RemovalBegin, Goto
  <1>28. ASSUME SuspendEnd PROVE Watched'
    BY <1>28 DEF SuspendEnd, Goto
  <1>29. ASSUME CleanupEnd PROVE Watched'
    BY <1>29 DEF CleanupEnd, Goto
  <1>30. ASSUME NEW s \in Pcms, StopNext(s) PROVE Watched'
    BY <1>30 DEF StopNext, Goto, StreamLocked
  <1>31. ASSUME FormatWorkDecide PROVE Watched'
    BY <1>31 DEF FormatWorkDecide, Invalidate
  <1>32. CASE UNCHANGED acVars
    BY <1>1, <1>32 DEF acVars
  <1> QED
    BY <1>2, <1>3, <1>4, <1>5, <1>6, <1>7, <1>8, <1>9, <1>10, <1>11, <1>12,
       <1>13, <1>14, <1>15, <1>16, <1>17, <1>18, <1>19, <1>20, <1>21, <1>22,
       <1>23, <1>24, <1>25, <1>26, <1>27, <1>28, <1>29, <1>30, <1>31, <1>32
    DEF CaptureNext, Application, Prepare, Stop, Device, FormatWork, Receive

\* No change of the format is missed.
LEMMA FormatFollowedStep ==
    ASSUME StreamTypes, ThreadTypes, DeviceTypes,
           EngineTypes, FormatTypes, Owners, Modes, Slept, Watched, Flags,
           Rested, FormatFollowed, [CaptureNext]_acVars
    PROVE  FormatFollowed'
  <1> USE CaptureAssumption DEF FormatFollowed, Threads, Dev, StreamTypes,
              ThreadTypes, DeviceTypes, EngineTypes, Preparing, Ending,
              Target, FormatTypes, Owners, Modes, Slept, Watched, Flags,
              Rested, aeVars, strVars, audVars, appVars, wVars, devVars,
              recVars
  <1>1. ASSUME UNCHANGED <<dmaRun, prepared, disconnected, suspended, ok, pc,
                             wQ, wPc, wFmt, reported, notes>>
        PROVE  FormatFollowed'
    BY <1>1
  <1>2. ASSUME NEW f \in AllFormats, Retune(f) PROVE FormatFollowed'
    BY <1>1, <1>2 DEF Retune
  <1>3. ASSUME NEW s \in Pcms,
          PcmOpen(s) \/ TriggerStop(s) \/ ReceiveBegin(s) \/ ReceiveCopy(s)
          \/ ReceiveElapsed(s)
        PROVE  FormatFollowed'
    BY <1>1, <1>3 DEF PcmOpen, TriggerStop, ReceiveBegin, ReceiveCopy,
           ReceiveElapsed, Serve, Answer
  <1>4. ASSUME Publish PROVE FormatFollowed'
    <2>1. /\ reported' = Update
          /\ notes' = notes + (IF Update = reported THEN 0 ELSE 1)
      BY <1>4 DEF Publish, ReadFormat
    <2>2. notes \in Nat
      BY DEF FormatTypes
    <2>3. reported' # reported => notes' > 0
      BY <2>1, <2>2
    <2>4. notes > 0 => notes' > 0
      BY <2>1, <2>2
    <2>5. UNCHANGED <<dmaRun, prepared, suspended, disconnected, pc, wQ, wPc, wFmt, ok>>
      BY <1>4 DEF Publish, strVars, audVars, appVars, wVars
    <2> QED
      BY <2>3, <2>4, <2>5 DEF FormatFollowed
  <1>5. ASSUME FormatChanged PROVE FormatFollowed'
    BY <1>5 DEF FormatChanged
  <1>6. ASSUME NEW s \in Pcms, PrepareBegin(s) PROVE FormatFollowed'
    BY <1>6 DEF PrepareBegin, Goto, Awake
  <1>7. ASSUME NEW s \in Pcms, TriggerCheck(s) PROVE FormatFollowed'
    BY <1>7 DEF TriggerCheck, Goto, Awake
  <1>8. ASSUME NEW s \in Pcms, NEW k \in {"free", "close"}, FreeBegin(s, k)
        PROVE  FormatFollowed'
    BY <1>8 DEF FreeBegin, Goto, Awake, Frozen
  <1>9. ASSUME NEW s \in Pcms, PrepareLock(s) PROVE FormatFollowed'
    BY <1>9 DEF PrepareLock, Goto
  <1>10. ASSUME NEW s \in Pcms, PrepareRead(s) PROVE FormatFollowed'
    <2>1. CASE s = Hdmi
      BY <1>10, <2>1 DEF PrepareRead, Goto, FormatFollowed, ThreadTypes, Threads
    <2>2. CASE s # Hdmi
      <3>1. ok' = [ok EXCEPT ![s] = ~disconnected] /\ UNCHANGED <<reported, notes>>
        BY <1>10, <2>2 DEF PrepareRead, recVars
      <3>2. UNCHANGED <<dmaRun, prepared, suspended, disconnected, wQ, wPc, wFmt>>
        BY <1>10 DEF PrepareRead, strVars, audVars, wVars
      <3>3. pc'[Hdmi] = pc[Hdmi]
        BY <1>10, <2>2, CaptureAssumption DEF PrepareRead, Goto, ThreadTypes,
               Threads
      <3>4. ok'[Hdmi] = ok[Hdmi]
        BY <2>2, <3>1, CaptureAssumption DEF StreamTypes
      <3> QED
        BY <3>1, <3>2, <3>3, <3>4 DEF FormatFollowed
    <2> QED BY <2>1, <2>2
  <1>11. ASSUME NEW s \in Pcms, PrepareDecide(s) PROVE FormatFollowed'
    BY <1>11 DEF PrepareDecide, Goto, Invalidate
  <1>12. ASSUME NEW s \in Pcms, PrepareStop(s) PROVE FormatFollowed'
    BY <1>12 DEF PrepareStop, Goto, Close
  <1>13. ASSUME NEW s \in Pcms, PrepareStopped(s) PROVE FormatFollowed'
    BY <1>13 DEF PrepareStopped, Goto, Closed
  <1>14. ASSUME NEW s \in Pcms, PrepareStart(s) PROVE FormatFollowed'
    BY <1>14 DEF PrepareStart, Goto, Open
  <1>15. ASSUME NEW s \in Pcms, PrepareMark(s) PROVE FormatFollowed'
    BY <1>15 DEF PrepareMark, Goto
  <1>16. ASSUME NEW s \in Pcms, PrepareVerify(s) PROVE FormatFollowed'
    <2>1. /\ reported' = Update /\ s = Hdmi /\ prepared = want
          /\ ok' = [ok EXCEPT ![s] = Update.fmt # NoFormat /\ Update = want]
      BY <1>16 DEF PrepareVerify, ReadFormat, Owners, Watched
    <2>2. prepared' = prepared /\ pc' = [pc EXCEPT ![s] = "p_judge"]
      BY <1>16 DEF PrepareVerify, Goto, strVars
    <2>3. prepared' # reported' => ~ok'[Hdmi]
      BY <2>1, <2>2 DEF StreamTypes
    <2>4. pc'[Hdmi] = "p_judge"
      BY <2>1, <2>2 DEF ThreadTypes, Threads
    <2> QED
      BY <2>3, <2>4 DEF FormatFollowed
  <1>17. ASSUME NEW s \in Pcms, PrepareJudge(s) PROVE FormatFollowed'
    BY <1>17 DEF PrepareJudge, Goto, Invalidate
  <1>18. ASSUME NEW s \in Pcms, PrepareEnd(s) PROVE FormatFollowed'
    BY <1>18 DEF PrepareEnd, Goto
  <1>19. ASSUME NEW s \in Pcms, TriggerSet(s) PROVE FormatFollowed'
    BY <1>19 DEF TriggerSet, Goto
  <1>20. ASSUME NEW s \in Pcms, FreeEnd(s) PROVE FormatFollowed'
    BY <1>20 DEF FreeEnd, Goto
  <1>21. ASSUME NEW t \in Threads, CancelFormat(t) PROVE FormatFollowed'
    BY <1>21 DEF CancelFormat, Goto
  <1>22. ASSUME NEW t \in Threads, FlushFormat(t) PROVE FormatFollowed'
    BY <1>22 DEF FlushFormat, Goto
  <1>23. ASSUME NEW t \in Threads, StopLock(t) PROVE FormatFollowed'
    BY <1>23 DEF StopLock, Goto
  <1>24. ASSUME NEW t \in Threads, StopDma(t) PROVE FormatFollowed'
    BY <1>24 DEF StopDma, Goto, Close
  <1>25. ASSUME NEW t \in Threads, StoppedDma(t) PROVE FormatFollowed'
    BY <1>25 DEF StoppedDma, Goto, Closed
  <1>26. ASSUME NEW t \in Threads, StopEnd(t) PROVE FormatFollowed'
    BY <1>26 DEF StopEnd, Goto
  <1>27. ASSUME SuspendBegin PROVE FormatFollowed'
    BY <1>27 DEF SuspendBegin, Goto
  <1>28. ASSUME Resume PROVE FormatFollowed'
    BY <1>28 DEF Resume
  <1>29. ASSUME RemovalBegin PROVE FormatFollowed'
    BY <1>29 DEF RemovalBegin, Goto
  <1>30. ASSUME SuspendEnd PROVE FormatFollowed'
    BY <1>30 DEF SuspendEnd, Goto
  <1>31. ASSUME CleanupEnd PROVE FormatFollowed'
    BY <1>31 DEF CleanupEnd, Goto
  <1>32. ASSUME NEW s \in Pcms, StopNext(s) PROVE FormatFollowed'
    BY <1>32 DEF StopNext, Goto, StreamLocked
  <1>33. ASSUME FormatWorkStart PROVE FormatFollowed'
    BY <1>33 DEF FormatWorkStart
  <1>34. ASSUME FormatWorkLock PROVE FormatFollowed'
    BY <1>34 DEF FormatWorkLock
  <1>35. ASSUME FormatWorkRead PROVE FormatFollowed'
    <2>1. reported' = Update /\ wFmt' = Update /\ wPc' = "decide"
      BY <1>35 DEF FormatWorkRead, ReadFormat
    <2>2. UNCHANGED <<prepared>>
      BY <1>35 DEF FormatWorkRead, strVars
    <2> QED
      BY <2>1, <2>2 DEF FormatFollowed
  <1>36. ASSUME FormatWorkDecide PROVE FormatFollowed'
    BY <1>36 DEF FormatWorkDecide, Invalidate
  <1>37. ASSUME FormatWorkXrun PROVE FormatFollowed'
    BY <1>37 DEF FormatWorkXrun, StreamLocked
  <1>38. ASSUME FormatWorkStop PROVE FormatFollowed'
    BY <1>38 DEF FormatWorkStop, Close
  <1>39. ASSUME FormatWorkStopped PROVE FormatFollowed'
    BY <1>39 DEF FormatWorkStopped, Closed
  <1>40. ASSUME FormatWorkEnd PROVE FormatFollowed'
    BY <1>40 DEF FormatWorkEnd
  <1>41. CASE UNCHANGED acVars
    BY <1>1, <1>41 DEF acVars
  <1> QED
    BY <1>2, <1>3, <1>4, <1>5, <1>6, <1>7, <1>8, <1>9, <1>10, <1>11, <1>12,
       <1>13, <1>14, <1>15, <1>16, <1>17, <1>18, <1>19, <1>20, <1>21, <1>22,
       <1>23, <1>24, <1>25, <1>26, <1>27, <1>28, <1>29, <1>30, <1>31, <1>32,
       <1>33, <1>34, <1>35, <1>36, <1>37, <1>38, <1>39, <1>40, <1>41
    DEF CaptureNext, Application, Prepare, Stop, Device, FormatWork, Receive

\* The PCM devices start closed, with their engines stopped.
LEMMA CaptureInitial == CaptureInit => CaptureInv
  <1> SUFFICES ASSUME CaptureInit PROVE CaptureInv
    OBVIOUS
  <1> USE CaptureAssumption DEF CaptureInit, AEInit
  <1>1. Typed
    <2>1. StreamTypes
      BY DEF StreamTypes
    <2>2. ThreadTypes
      BY DEF ThreadTypes, Threads, Places
    <2>3. DeviceTypes
      BY DEF DeviceTypes
    <2>4. FormatTypes
      <3>1. Nothing \in Reports
        BY DEF Nothing, Reports, AllFormats
      <3> QED
        BY <3>1 DEF FormatTypes, AllFormats
    <2>5. EngineTypes
      BY DEF EngineTypes
    <2> QED
      BY <2>1, <2>2, <2>3, <2>4, <2>5 DEF Typed
  <1>2. Counted
    BY DEF Counted, CaptureInit, Nothing
  <1>3. /\ \A t \in Threads : pc[t] = "idle"
        /\ \A s \in Pcms : /\ ~sub[s] /\ ~cap[s] /\ ~dmaRun[s] /\ pcm[s] = "closed"
                              /\ gate[s] = "shut" /\ ~serving[s] /\ cbPc[s] = "idle"
        /\ wPc = "idle" /\ ~wQ /\ control_lock = "free" /\ mode = "run"
    BY DEF CaptureInit, AEInit
  <1>4. Owners /\ Modes /\ Slept /\ WorkGone /\ Gone /\ Halted
    BY <1>3, CaptureAssumption DEF Owners, Modes, Slept, WorkGone, Gone,
           Halted, Threads, Dev, Preparing, Ending
  <1>5. Substreams /\ Rested /\ Prepared /\ Stopped /\ Revoked
    BY <1>3 DEF Substreams, Rested, Prepared, Stopped, Revoked, Threads, Ending
  <1>6. Flags /\ Opened /\ Closing /\ Callbacks
    BY <1>3 DEF Flags, Opened, Closing, Callbacks
  <1>7. Watched /\ FormatFollowed
    BY <1>3, CaptureAssumption DEF Watched, FormatFollowed, Threads
  <1> QED
    BY <1>1, <1>2, <1>4, <1>5, <1>6, <1>7 DEF CaptureInv

\* Every step keeps the invariant.
LEMMA CaptureStep ==
    ASSUME CaptureInv, [CaptureNext]_acVars
    PROVE  CaptureInv'
  <1> USE DEF CaptureInv, Typed
  <1>1. Typed' /\ Counted'
    BY StreamTypesStep, ThreadTypesStep, DeviceTypesStep, EngineTypesStep, FormatStep
  <1>2. Owners' /\ Modes' /\ Slept' /\ WorkGone' /\ Gone' /\ Halted'
    BY OwnersStep, ModesStep, SleptStep, WorkGoneStep, GoneStep, HaltedStep
  <1>3. Substreams' /\ Rested' /\ Prepared' /\ Stopped' /\ Revoked'
    BY SubstreamsStep, RestedStep, PreparedStep, StoppedStep, RevokedStep
  <1>4. Flags' /\ Opened' /\ Closing' /\ Callbacks'
    BY FlagsStep, OpenedStep, ClosingStep, CallbacksStep
  <1>5. Watched' /\ FormatFollowed'
    BY WatchedStep, FormatFollowedStep
  <1> QED
    BY <1>1, <1>2, <1>3, <1>4, <1>5

\* The invariant holds in every reachable state.
THEOREM CaptureInvariant == CaptureSpec => []CaptureInv
  BY CaptureInitial, CaptureStep, PTL DEF CaptureSpec

\* The variables keep their types: the formats published, and the calls they
\* cause, are no more than the changes of the source.
THEOREM CaptureTyped == CaptureSpec => []CaptureTypeOK
  <1>1. CaptureInv => CaptureTypeOK
    BY DEF CaptureInv, Typed, StreamTypes, ThreadTypes, DeviceTypes, FormatTypes, CaptureTypeOK
  <1> QED
    BY CaptureInvariant, <1>1, PTL

\* A change of the format is never missed while samples are captured.
THEOREM ChangesFollowed == CaptureSpec => []FormatFollowed
  <1>1. CaptureInv => FormatFollowed
    BY DEF CaptureInv
  <1> QED
    BY CaptureInvariant, <1>1, PTL

\* Data callback and format work use no substream that was closed.
THEOREM SubstreamsUsed == CaptureSpec => []SubstreamAlive
  <1>1. CaptureInv => SubstreamAlive
    BY CaptureAssumption DEF CaptureInv, Callbacks, Revoked, Substreams,
           SubstreamAlive
  <1> QED
    BY CaptureInvariant, <1>1, PTL

\* Samples reach a PCM from an engine it has started only, and flag and engine
\* agree while control_lock is free.
THEOREM FlagsKept == CaptureSpec => []FlagsAgree
  <1>1. ASSUME CaptureInv PROVE FlagsAgree
    <2>1. ASSUME control_lock = "free" PROVE \A s \in Pcms : gate[s] = "open" => dmaRun[s]
      <3>1. /\ \A t \in Threads : pc[t] \notin Preparing \cup Ending
            /\ wPc \in {"idle", "lock"}
        BY <1>1, <2>1, CaptureAssumption DEF CaptureInv, Owners, Threads, Dev
      <3> QED
        BY <1>1, <3>1 DEF CaptureInv, Opened, Stopper, Threads, Preparing, Ending
    <2> QED
      BY <1>1, <2>1 DEF CaptureInv, Flags, FlagsAgree
  <1> QED
    BY CaptureInvariant, <1>1, PTL

\* When the cleanup is over, no thread is in the driver and no engine runs.
THEOREM GoneIsQuiet == CaptureSpec => []GoneQuiet
  <1>1. ASSUME CaptureInv, mode = "gone"
        PROVE  /\ ~wQ /\ wPc = "idle" /\ control_lock = "free"
               /\ \A s \in Pcms : gate[s] = "shut" /\ ~serving[s] /\ pc[s] = "idle"
    <2>1. pc[Dev] = "idle" /\ ~wQ /\ wPc = "idle"
      BY <1>1 DEF CaptureInv, Modes, WorkGone
    <2>2. \A s \in Pcms : gate[s] = "shut" /\ ~serving[s] /\ pc[s] = "idle"
      BY <1>1 DEF CaptureInv, Gone, Substreams, Callbacks
    <2>3. \A t \in Threads : pc[t] = "idle"
      BY <2>1, <2>2 DEF Threads
    <2>4. control_lock \notin Threads \cup {"work"}
      BY <1>1, <2>1, <2>3 DEF CaptureInv, Owners, Preparing, Ending
    <2> QED
      BY <1>1, <2>1, <2>2, <2>4 DEF CaptureInv, Typed, ThreadTypes, Threads
  <1>2. CaptureInv => GoneQuiet
    BY <1>1 DEF GoneQuiet
  <1> QED
    BY CaptureInvariant, <1>2, PTL

\* What the run checks of the PCM devices, at once.
THEOREM CaptureSoundTheorem == CaptureSpec => []CaptureSound
  BY CaptureTyped, ChangesFollowed, FlagsKept, SubstreamsUsed, GoneIsQuiet, PTL
     DEF CaptureSound

\* Every step of the devices is one of an engine, or none.
LEMMA EngineStep ==
    ASSUME CaptureInv, [CaptureNext]_acVars
    PROVE  [AENext]_aeVars
  <1> USE DEF aeVars, AENext
  <1>1. cur \in Pcms /\ Threads = Pcms \cup {Dev}
    BY DEF CaptureInv, Typed, DeviceTypes, Threads
  <1>2. Hdmi \in Pcms
    BY CaptureAssumption
  <1>3. ASSUME NEW f \in AllFormats,
          Retune(f)
        PROVE  UNCHANGED aeVars
    BY <1>3 DEF Retune
  <1>4. ASSUME
          Publish \/ FormatChanged \/ SuspendBegin \/ Resume \/ RemovalBegin
          \/ SuspendEnd \/ CleanupEnd \/ FormatWorkStart \/ FormatWorkLock
          \/ FormatWorkRead \/ FormatWorkDecide \/ FormatWorkXrun
          \/ FormatWorkEnd
        PROVE  UNCHANGED aeVars
    BY <1>4 DEF Publish, FormatChanged, SuspendBegin, Resume, RemovalBegin,
           SuspendEnd, CleanupEnd, FormatWorkStart, FormatWorkLock,
           FormatWorkRead, FormatWorkDecide, FormatWorkXrun, FormatWorkEnd
  <1>5. ASSUME NEW s \in Pcms,
          PcmOpen(s) \/ PrepareBegin(s) \/ TriggerCheck(s) \/ TriggerStop(s)
          \/ PrepareLock(s) \/ PrepareRead(s) \/ PrepareDecide(s)
          \/ PrepareMark(s) \/ PrepareVerify(s) \/ PrepareJudge(s)
          \/ PrepareEnd(s) \/ TriggerSet(s) \/ FreeEnd(s) \/ StopNext(s)
        PROVE  UNCHANGED aeVars
    BY <1>5 DEF PcmOpen, PrepareBegin, TriggerCheck, TriggerStop, PrepareLock,
           PrepareRead, PrepareDecide, PrepareMark, PrepareVerify,
           PrepareJudge, PrepareEnd, TriggerSet, FreeEnd, StopNext
  <1>6. ASSUME NEW s \in Pcms, NEW k \in {"free", "close"},
          FreeBegin(s, k)
        PROVE  UNCHANGED aeVars
    BY <1>6 DEF FreeBegin
  <1>7. ASSUME NEW t \in Threads,
          CancelFormat(t) \/ FlushFormat(t) \/ StopLock(t) \/ StopEnd(t)
        PROVE  UNCHANGED aeVars
    BY <1>7 DEF CancelFormat, FlushFormat, StopLock, StopEnd
  <1>8. ASSUME NEW s \in Pcms, PrepareStop(s) PROVE [AENext]_aeVars
    BY <1>1, <1>2, <1>8 DEF PrepareStop, Close
  <1>9. ASSUME NEW s \in Pcms, PrepareStopped(s) PROVE [AENext]_aeVars
    BY <1>1, <1>2, <1>9 DEF PrepareStopped, Closed
  <1>10. ASSUME NEW s \in Pcms, PrepareStart(s) PROVE [AENext]_aeVars
    BY <1>1, <1>2, <1>10 DEF PrepareStart, Open
  <1>11. ASSUME NEW s \in Pcms, ReceiveBegin(s) PROVE [AENext]_aeVars
    BY <1>1, <1>2, <1>11 DEF ReceiveBegin, Serve
  <1>12. ASSUME NEW s \in Pcms, ReceiveCopy(s) PROVE [AENext]_aeVars
    BY <1>1, <1>2, <1>12 DEF ReceiveCopy, Answer
  <1>13. ASSUME NEW s \in Pcms, ReceiveElapsed(s) PROVE [AENext]_aeVars
    BY <1>1, <1>2, <1>13 DEF ReceiveElapsed, Answer
  <1>14. ASSUME NEW t \in Threads, StopDma(t) PROVE [AENext]_aeVars
    BY <1>1, <1>2, <1>14 DEF StopDma, Close, Target
  <1>15. ASSUME NEW t \in Threads, StoppedDma(t) PROVE [AENext]_aeVars
    BY <1>1, <1>2, <1>15 DEF StoppedDma, Closed, Target
  <1>16. ASSUME FormatWorkStop PROVE [AENext]_aeVars
    BY <1>1, <1>2, <1>16 DEF FormatWorkStop, Close
  <1>17. ASSUME FormatWorkStopped PROVE [AENext]_aeVars
    BY <1>1, <1>2, <1>17 DEF FormatWorkStopped, Closed
  <1>18. CASE UNCHANGED acVars
    BY <1>18 DEF acVars
  <1> QED
    BY <1>3, <1>4, <1>5, <1>6, <1>7, <1>8, <1>9, <1>10, <1>11, <1>12, <1>13,
       <1>14, <1>15, <1>16, <1>17, <1>18
    DEF CaptureNext, Application, Prepare, Stop, Device, FormatWork, Receive

\* The devices use the engines as AudioEngine has them used.
THEOREM EnginesUsed == CaptureSpec => AESpec
  <1>1. CaptureInit => AEInit
    BY DEF CaptureInit
  <1>2. CaptureInv /\ [CaptureNext]_acVars => [AENext]_aeVars
    BY EngineStep
  <1> QED
    BY CaptureInvariant, <1>1, <1>2, PTL DEF CaptureSpec, AESpec

-----------------------------------------------------------------------------
(* The ring the applications read                                           *)

\* A position is decided by what is left when the length is taken off.
LEMMA ModUnique ==
    ASSUME NEW b \in Nat \ {0}, NEW x \in Int, NEW q \in Int, NEW v \in 0 .. b - 1,
           x = b * q + v
    PROVE  x % b = v
  <1>1. PICK d \in Int, m \in 0 .. b - 1 : x = b * d + m /\ m = x % b
    <2>1. x = b * (x \div b) + (x % b) /\ x \div b \in Int /\ x % b \in 0 .. b - 1
      OBVIOUS
    <2> QED
      BY <2>1
  <1>2. b * (q - d) = m - v
    BY <1>1
  <1>3. q - d >= 1 => b * (q - d) >= b
    BY <1>1
  <1>4. q - d <= -1 => b * (q - d) <= -b
    BY <1>1
  <1>5. q = d
    BY <1>1, <1>2, <1>3, <1>4
  <1>6. b * (q - d) = 0
    BY <1>1, <1>5
  <1>7. m = v
    BY ONLY <1>2, <1>6, m \in 0 .. b - 1, v \in 0 .. b - 1, b \in Nat
  <1> QED
    BY ONLY <1>1, <1>7

\* Moving on, or back, by less than the length.
LEMMA ModShift ==
    ASSUME NEW b \in Nat \ {0}, NEW r \in Nat, NEW x \in Int, NEW v \in 0 .. b - 1,
           \/ v = (r % b) + (x - r) \/ v = (r % b) + (x - r) - b
           \/ v = (r % b) + (x - r) + b
    PROVE  x % b = v
  <1>1. PICK d \in Int, m \in 0 .. b - 1 : r = b * d + m /\ m = r % b
    <2>1. r = b * (r \div b) + (r % b) /\ r \div b \in Int /\ r % b \in 0 .. b - 1
      OBVIOUS
    <2> QED
      BY <2>1
  <1>2. PICK k \in Int : k = b * d
    BY <1>1
  <1>3. b * (d + 1) = k + b /\ b * (d - 1) = k - b
    BY <1>2
  <1>4. m \in Int /\ v \in Int /\ b \in Int /\ r \in Int /\ r = k + m
    BY <1>1, <1>2
  <1>5. CASE v = m + (x - r)
    <2>1. x = b * d + v
      <3>1. x = k + v
        BY ONLY <1>5, <1>4, x \in Int, k \in Int
      <3> QED
        BY <1>2, <3>1
    <2> QED
      BY <2>1, ModUnique
  <1>6. CASE v = m + (x - r) - b
    <2>1. x = b * (d + 1) + v /\ d + 1 \in Int
      <3>1. x = (k + b) + v
        BY ONLY <1>6, <1>4, x \in Int, k \in Int
      <3> QED
        BY <1>3, <3>1
    <2> QED
      BY <2>1, ModUnique
  <1>7. CASE v = m + (x - r) + b
    <2>1. x = b * (d - 1) + v /\ d - 1 \in Int
      <3>1. x = (k - b) + v
        BY ONLY <1>7, <1>4, x \in Int, k \in Int
      <3> QED
        BY <1>3, <3>1
    <2> QED
      BY <2>1, ModUnique
  <1> QED
    BY <1>1, <1>5, <1>6, <1>7

\* The sample of a channel in a frame.
LEMMA SamplePlace ==
    ASSUME NEW p \in 0 .. BufferSize - 1, NEW c \in 0 .. Channels - 1
    PROVE  /\ p * Channels + c \in Samples
           /\ (p * Channels + c) \div Channels = p
           /\ (p * Channels + c) % Channels = c
  <1> USE SamplesAssumption DEF Samples
  <1>1. CASE Channels = 2
    BY <1>1
  <1>2. CASE Channels = 6
    BY <1>2
  <1>3. CASE Channels = 8
    BY <1>3
  <1> QED
    BY <1>1, <1>2, <1>3

\* Positions and reports agree with what was received, in ring and periods.
RingInv == RingTypeOK /\ PositionsAgree

\* The shorter of two lengths.
LEMMA MinOfTwo ==
    ASSUME NEW a \in Int, NEW b \in Int
    PROVE  Min({a, b}) = IF a < b THEN a ELSE b
  <1> DEFINE m == IF a < b THEN a ELSE b
  <1>1. m \in {a, b} /\ \A y \in {a, b} : m <= y
    OBVIOUS
  <1>2. \A z \in {a, b} : (\A y \in {a, b} : z <= y) => z = m
    OBVIOUS
  <1> QED
    BY <1>1, <1>2 DEF Min

\* What a copy leaves in the ring: frame by frame, the new ones from hw_ptr on,
\* around the end, and the old ones where they are not.
LEMMA Copied ==
    ASSUME RingInv, NEW n \in Nat, n <= BufferSize,
           NEW p \in 0 .. BufferSize - 1, NEW c \in 0 .. Channels - 1
    PROVE  CopyRing(n)[p * Channels + c] =
             IF p >= hw_ptr /\ p < hw_ptr + n THEN <<received + 1 + (p - hw_ptr), Slot(c)>>
             ELSE IF p < hw_ptr + n - BufferSize
                  THEN <<received + 1 + (p - hw_ptr) + BufferSize, Slot(c)>>
             ELSE area[p * Channels + c]
  <1> DEFINE first == Min({n, BufferSize - hw_ptr})
             i == p * Channels + c
             once == CopyFrames(area, hw_ptr, received + 1, first)
  <1>1. hw_ptr \in 0 .. BufferSize - 1 /\ received \in Nat /\ BufferSize \in Nat
    BY SamplesAssumption DEF RingInv, RingTypeOK
  <1>2. i \in Samples /\ i \div Channels = p /\ i % Channels = c
    BY SamplePlace
  <1>3. first = IF n < BufferSize - hw_ptr THEN n ELSE BufferSize - hw_ptr
    BY <1>1, MinOfTwo
  <1>4. once[i] = IF p \in hw_ptr .. hw_ptr + first - 1
                  THEN <<received + 1 + (p - hw_ptr), Slot(c)>> ELSE area[i]
    BY <1>2 DEF CopyFrames
  <1>5. CopyFrames(once, 0, received + first + 1, n - first)[i] =
            IF p \in 0 .. 0 + (n - first) - 1
            THEN <<received + first + 1 + (p - 0), Slot(c)>> ELSE once[i]
    BY <1>2 DEF CopyFrames
  <1>6. CopyRing(n) = IF first < n THEN CopyFrames(once, 0, received + first + 1, n - first)
                      ELSE once
    BY DEF CopyRing
  <1> HIDE DEF first, once, i
  <1>7. CASE first < n
    <2>1. first = BufferSize - hw_ptr /\ p < hw_ptr + first
      BY <1>1, <1>3, <1>7
    <2>2. CopyRing(n)[i] = IF p \in 0 .. (n - first) - 1
                           THEN <<received + first + 1 + p, Slot(c)>>
                           ELSE IF p >= hw_ptr
                           THEN <<received + 1 + (p - hw_ptr), Slot(c)>> ELSE area[i]
      BY <1>1, <1>4, <1>5, <1>6, <1>7, <2>1
    <2>3. /\ (p \in 0 .. (n - first) - 1) <=> (p < hw_ptr + n - BufferSize)
          /\ p < hw_ptr + n - BufferSize => p < hw_ptr
          /\ received + first + 1 + p = received + 1 + (p - hw_ptr) + BufferSize
          /\ p >= hw_ptr => p < hw_ptr + n
      BY <1>1, <1>7, <2>1
    <2> QED
      BY <1>1, <2>2, <2>3 DEF i
  <1>8. CASE ~(first < n)
    <2>1. first = n /\ ~(p < hw_ptr + n - BufferSize)
      BY <1>1, <1>3, <1>8
    <2> QED
      BY <1>1, <1>4, <1>6, <1>8, <2>1 DEF i
  <1> QED
    BY <1>7, <1>8

\* Received frames keep the positions in step with the stream.
LEMMA AdvanceKeeps ==
    ASSUME RingInv, NEW n \in Nat, n <= BufferSize,
           Advance(n), received' = received + n, overrun' \in BOOLEAN
    PROVE  RingInv'
  <1>1. /\ hw_ptr \in 0 .. BufferSize - 1 /\ period_progress \in 0 .. PeriodSize - 1
        /\ received \in Nat /\ elapsed \in Nat
        /\ BufferSize \in Nat \ {0} /\ PeriodSize \in Nat \ {0}
    BY SamplesAssumption DEF RingInv, RingTypeOK
  <1>2. hw_ptr' \in 0 .. BufferSize - 1 /\ hw_ptr' = received' % BufferSize
    <2>1. CASE hw_ptr + n < BufferSize
      <3>1. (received + n) % BufferSize = hw_ptr + n
        <4> DEFINE x == received + n
                   v == hw_ptr + n
        <4>1. v \in 0 .. BufferSize - 1 /\ x \in Int
          BY <1>1, <2>1
        <4>2. v = (received % BufferSize) + (x - received)
          BY <1>1 DEF RingInv, PositionsAgree
        <4> HIDE DEF x, v
        <4>3. x % BufferSize = v
          BY ONLY <1>1, <4>1, <4>2, ModShift
        <4> QED
          BY <4>3 DEF x, v
      <3>2. (hw_ptr + n) % BufferSize = hw_ptr + n
        BY <1>1, <2>1
      <3> QED
        BY <1>1, <2>1, <3>1, <3>2 DEF Advance
    <2>2. CASE hw_ptr + n >= BufferSize
      <3> DEFINE x == received + n
                 v == hw_ptr + n - BufferSize
      <3>1. v \in 0 .. BufferSize - 1 /\ x \in Int
        BY <1>1, <2>2
      <3>2. v = (received % BufferSize) + (x - received) - BufferSize
        BY <1>1, <2>2 DEF RingInv, PositionsAgree
      <3> HIDE DEF x
      <3>3. x % BufferSize = v
        <4> HIDE DEF v
        <4> QED
          BY ONLY <1>1, <3>1, <3>2, ModShift
      <3>4. (hw_ptr + n) % BufferSize = v
        BY <1>1, <2>2, <3>1, ModUnique, hw_ptr + n = BufferSize * 1 + v, hw_ptr + n \in Int
      <3> QED
        BY <3>1, <3>3, <3>4 DEF Advance, x
    <2> QED
      BY <1>1, <2>1, <2>2
  <1>3. /\ period_progress' \in 0 .. PeriodSize - 1 /\ elapsed' \in Nat
        /\ elapsed' * PeriodSize + period_progress' = received'
    <2> DEFINE t == period_progress + n
               d == t \div PeriodSize
               m == t % PeriodSize
    <2>1. t = PeriodSize * d + m /\ d \in Nat /\ m \in 0 .. PeriodSize - 1
      BY <1>1
    <2>2. elapsed' = elapsed + d /\ period_progress' = m
      BY DEF Advance
    <2>3. elapsed * PeriodSize + period_progress = received
      BY DEF RingInv, PositionsAgree
    <2> HIDE DEF d, m
    <2>4. (elapsed + d) * PeriodSize = elapsed * PeriodSize + PeriodSize * d
      BY <1>1, <2>1
    <2> QED
      BY <1>1, <2>1, <2>2, <2>3, <2>4
  <1>4. RingTypeOK'
    BY <1>1, <1>2, <1>3 DEF RingTypeOK
  <1>5. PositionsAgree'
    BY <1>2, <1>3 DEF PositionsAgree
  <1> QED
    BY <1>4, <1>5 DEF RingInv

\* The frame a reader finds at the place of frame f.
FrameAt(f) == \A c \in 0 .. Channels - 1 :
    area[((f - 1) % BufferSize) * Channels + c] = <<f, Slot(c)>>

Held == \A f \in 1 .. received : f + BufferSize > received => FrameAt(f)

\* The order of the channels is that of ALSA.
LEMMA SlotsOrdered == RingHoldsStream <=> Held
  <1> USE DEF Held
  <1>1. CASE Channels = 2
    BY <1>1 DEF RingHoldsStream, FrameAt, Slot
  <1>2. CASE Channels = 6
    BY <1>2 DEF RingHoldsStream, FrameAt, Slot, Slots6
  <1>3. CASE Channels = 8
    BY <1>3 DEF RingHoldsStream, FrameAt, Slot, Slots8
  <1> QED
    BY <1>1, <1>2, <1>3, SamplesAssumption

\* A completed buffer leaves the ring as its readers expect it.
LEMMA ReceiveKeeps ==
    ASSUME RingInv, RingHoldsStream, NEW n \in Nat, n <= BufferSize,
           area' = CopyRing(n), received' = received + n
    PROVE  RingHoldsStream'
  <1>1. /\ hw_ptr \in 0 .. BufferSize - 1 /\ received \in Nat
        /\ BufferSize \in Nat \ {0} /\ hw_ptr = received % BufferSize
    BY SamplesAssumption DEF RingInv, RingTypeOK, PositionsAgree
  <1>2. ASSUME NEW f \in 1 .. received + n, f + BufferSize > received + n
        PROVE  FrameAt(f)'
    <2> DEFINE p == (f - 1) % BufferSize
               e == f - 1 - received
    <2>1. f - 1 = received + e /\ e \in Int /\ e < n /\ e >= n - BufferSize
      BY <1>1, <1>2
    <2>2. p \in 0 .. BufferSize - 1
      BY <1>1
    <2>3. p = IF hw_ptr + e < 0 THEN hw_ptr + e + BufferSize
              ELSE IF hw_ptr + e < BufferSize THEN hw_ptr + e
              ELSE hw_ptr + e - BufferSize
      <3> DEFINE v == IF hw_ptr + e < 0 THEN hw_ptr + e + BufferSize
                      ELSE IF hw_ptr + e < BufferSize THEN hw_ptr + e
                      ELSE hw_ptr + e - BufferSize
      <3>1. v \in 0 .. BufferSize - 1
        BY <1>1, <2>1
      <3>2. \/ v = (received % BufferSize) + (f - 1 - received)
            \/ v = (received % BufferSize) + (f - 1 - received) - BufferSize
            \/ v = (received % BufferSize) + (f - 1 - received) + BufferSize
        BY <1>1, <2>1
      <3> HIDE DEF v, e
      <3>3. f - 1 \in Int /\ (f - 1) % BufferSize = v
        <4>1. f - 1 \in Int
          OBVIOUS
        <4> QED
          BY ONLY <1>1, <3>1, <3>2, <4>1, ModShift
      <3> QED
        BY <2>1, <3>3 DEF v
    <2> SUFFICES ASSUME NEW c \in 0 .. Channels - 1
                 PROVE  CopyRing(n)[p * Channels + c] = <<f, Slot(c)>>
      BY DEF FrameAt, Slot
    <2>4. CopyRing(n)[p * Channels + c] =
            IF p >= hw_ptr /\ p < hw_ptr + n THEN <<received + 1 + (p - hw_ptr), Slot(c)>>
            ELSE IF p < hw_ptr + n - BufferSize
                 THEN <<received + 1 + (p - hw_ptr) + BufferSize, Slot(c)>>
            ELSE area[p * Channels + c]
      BY <2>2, Copied
    <2>5. CASE e >= 0
      <3> HIDE DEF p
      <3>1. CASE hw_ptr + e < BufferSize
        <4>1. p >= hw_ptr /\ p < hw_ptr + n /\ received + 1 + (p - hw_ptr) = f
          BY <1>1, <2>1, <2>3, <2>5, <3>1
        <4> QED
          BY <2>4, <4>1
      <3>2. CASE hw_ptr + e >= BufferSize
        <4>1. /\ p < hw_ptr /\ p < hw_ptr + n - BufferSize
              /\ received + 1 + (p - hw_ptr) + BufferSize = f
          BY <1>1, <2>1, <2>3, <2>5, <3>2
        <4> QED
          BY <1>1, <2>2, <2>4, <4>1
      <3> QED
        BY <1>1, <2>1, <3>1, <3>2
    <2>6. CASE e < 0
      <3>1. f \in 1 .. received /\ f + BufferSize > received
        BY <1>1, <1>2, <2>1, <2>6
      <3>2. area[p * Channels + c] = <<f, Slot(c)>>
        BY <3>1, SlotsOrdered DEF Held, FrameAt
      <3> HIDE DEF p
      <3>3. ~(p >= hw_ptr /\ p < hw_ptr + n) /\ ~(p < hw_ptr + n - BufferSize)
        BY <1>1, <2>1, <2>3, <2>6
      <3> QED
        BY <2>4, <3>2, <3>3
    <2> QED
      BY <2>1, <2>5, <2>6
  <1>3. Held'
    BY <1>2 DEF Held
  <1>4. RingHoldsStream' <=> Held'
    BY SlotsOrdered, PTL
  <1> QED
    BY <1>3, <1>4

\* The ring keeps its promise, for any sizes of ring, period and DMA buffers.
THEOREM RingSoundTheorem == RingSpec => []RingSound
  <1>1. RingInit => RingInv /\ RingHoldsStream
    <2> SUFFICES ASSUME RingInit PROVE RingInv /\ RingHoldsStream OBVIOUS
    <2>1. 0 % BufferSize = 0 /\ 0 * PeriodSize + 0 = 0
      BY SamplesAssumption
    <2>2. RingTypeOK
      <3>1. hw_ptr \in 0 .. BufferSize - 1 /\ period_progress \in 0 .. PeriodSize - 1
        BY SamplesAssumption DEF RingInit
      <3>2. received \in Nat /\ elapsed \in Nat /\ overrun \in BOOLEAN
        BY DEF RingInit
      <3> QED
        BY <3>1, <3>2 DEF RingTypeOK
    <2>4. PositionsAgree
      BY <2>1 DEF RingInit, PositionsAgree
    <2>3. RingHoldsStream
      BY SlotsOrdered DEF RingInit, Held
    <2> QED
      BY <2>2, <2>3, <2>4 DEF RingInv
  <1>2. RingInv /\ RingHoldsStream /\ [RingNext]_sampleVars => (RingInv /\ RingHoldsStream)'
    <2> SUFFICES ASSUME RingInv, RingHoldsStream, [RingNext]_sampleVars
                 PROVE  (RingInv /\ RingHoldsStream)'
      OBVIOUS
    <2>1. CASE RingPrepare
      <3>1. 0 % BufferSize = 0 /\ 0 * PeriodSize + 0 = 0
        BY SamplesAssumption
      <3>2. RingTypeOK'
        <4>1. hw_ptr' \in 0 .. BufferSize - 1 /\ period_progress' \in 0 .. PeriodSize - 1
          BY <2>1, SamplesAssumption DEF RingPrepare
        <4>2. received' \in Nat /\ elapsed' \in Nat /\ overrun' \in BOOLEAN
          BY <2>1 DEF RingPrepare
        <4> QED
          BY <4>1, <4>2 DEF RingTypeOK
      <3>4. PositionsAgree'
        BY <2>1, <3>1 DEF RingPrepare, PositionsAgree
      <3>3. RingHoldsStream'
        BY <2>1 DEF RingPrepare, RingHoldsStream
      <3> QED
        BY <3>2, <3>3, <3>4 DEF RingInv
    <2>2. ASSUME NEW n \in Chunks, RingReceive(n) PROVE (RingInv /\ RingHoldsStream)'
      <3>1. CASE n > BufferSize
        BY <2>2, <3>1 DEF RingReceive, RingInv, RingTypeOK, PositionsAgree, RingHoldsStream
      <3>2. CASE ~(n > BufferSize)
        <4>1. n \in Nat /\ n <= BufferSize
          BY <3>2, SamplesAssumption
        <4>2. /\ Advance(n) /\ area' = CopyRing(n) /\ received' = received + n
              /\ overrun' \in BOOLEAN
          BY <2>2, <3>2 DEF RingReceive, RingInv, RingTypeOK
        <4> QED
          BY <4>1, <4>2, AdvanceKeeps, ReceiveKeeps, SamplesAssumption
      <3> QED
        BY <3>1, <3>2
    <2>3. CASE UNCHANGED sampleVars
      BY <2>3 DEF sampleVars, RingInv, RingTypeOK, PositionsAgree, RingHoldsStream
    <2> QED
      BY <2>1, <2>2, <2>3 DEF RingNext
  <1>3. RingInv /\ RingHoldsStream => RingSound
    BY DEF RingSound, RingInv
  <1> QED
    BY <1>1, <1>2, <1>3, PTL DEF RingSpec
=============================================================================
