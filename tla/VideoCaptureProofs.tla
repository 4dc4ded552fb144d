------------------------- MODULE VideoCaptureProofs -------------------------
(***************************************************************************)
(* Who owns a capture buffer, proved for any number of buffers: the driver *)
(* gives each one back exactly once, the engine holds none that was given  *)
(* back, a stop leaves nothing behind, and an engine stopped under the     *)
(* application is reported.                                                *)
(***************************************************************************)
EXTENDS VideoCapture, SequenceTheorems, TLAPS

\* The calls in which vb2 hands buffers over.
Feeding == {"feed", "own", "engine", "undo", "give"}

\* No element twice.
Once(s) == \A i, j \in 1 .. Len(s) : s[i] = s[j] => i = j

\* The engine's queues hold buffers, each in one place.
QueuesSound ==
    /\ waiting \in Seq(Buffers) /\ filled \in Seq(Buffers)
    /\ Once(waiting) /\ Once(filled)
    /\ InSequence(waiting) \cap InSequence(filled) = {}
    /\ missed \cap (InSequence(waiting) \cup InSequence(filled)) = {}

\* Which threads may be where together, and with which flags: a holder of
\* control_lock is the API or the watchdog, who closes holds it, and a call that
\* starts or stops finds no watchdog at work.
Locks ==
    /\ serving = Nobody <=> cbPc = "idle"
    /\ engLock = "watchdog" <=> wdPc # "idle"
    /\ engLock = "api" <=> call \in {"going", "rollback", "halting"}
    /\ closing <=> wdPc = "stopping" \/ call \in {"rollback", "halting"}
    /\ running => ~closing /\ wdPc = "idle"
    /\ call = "going" => running
    /\ call \in {"check", "mark", "go", "collect", "return"} =>
        ~running /\ wdPc = "idle"
    /\ ~started /\ call \in {"free"} \cup Feeding => ~running /\ wdPc = "idle"
    /\ call \in {"check", "mark", "go", "going", "rollback", "live"} => started

\* An engine that does not run has nothing filled and serves nothing; after an
\* error and before buffers are returned it holds nothing at all.
Quiet ==
    /\ ~running /\ ~closing => filled = <<>> /\ missed = {} /\ serving = Nobody
    /\ wdPc \in {"error", "flags", "collect", "return"} => Held = {} /\ failed
    /\ call \in {"collect", "return"} => Held = {} /\ ~failed
    /\ call = "return" => owned = {}
    /\ ~started /\ call = "free" => Held = {} /\ owned = {}
    /\ ~started /\ call \in {"free"} \cup Feeding => ~failed

\* The callback may still take its buffer, or send it back to the engine.
InCallback ==
    \/ cbPc \in {"entered", "take"}
    \/ cbPc = "answer" /\ cbVerdict = "recycle"

\* b is with the driver exactly when it is in one pair of hands.
Hands(b) ==
    /\ vb[b] = "active" <=> \/ b \in owned \/ b \in giveBack \/ b \in wdList
                            \/ cbPc = "publish" /\ b = serving
                            \/ call \in {"own", "give"} /\ b = cur
    /\ b \in owned => b \notin giveBack /\ b \notin wdList
    /\ b \in giveBack => b \notin wdList
    /\ cbPc = "publish" /\ b = serving =>
        b \notin owned /\ b \notin giveBack /\ b \notin wdList
    /\ call \in {"own", "give"} /\ b = cur =>
        b \notin owned /\ b \notin giveBack /\ b \notin wdList
    /\ ~(cbPc = "publish" /\ b = serving /\ call \in {"own", "give"} /\ b = cur)

GivenOnce == \A b \in Buffers : Hands(b)

\* Whatever the engine holds or recycles is the driver's.
EngineOwned ==
    /\ Held \subseteq owned
    /\ InCallback => serving \in owned /\ serving \notin Held
    /\ cbPc = "publish" => cbVerdict \in {"done", "error"}
    /\ cbPc = "answer" => cbVerdict \in {"recycle", "release"}

\* The buffers vb2 hands over are fresh, and nobody has a list to give back but
\* who is giving it back.
Feeds ==
    /\ todo \subseteq InState("queued")
    /\ call \notin Feeding => todo = {}
    /\ call # "return" => giveBack = {}
    /\ wdPc # "return" => wdList = {}
    /\ call \in {"own", "engine", "undo", "give"} =>
        /\ cur # Nobody /\ cur \notin Held
        /\ (serving = cur => cbPc = "answer" /\ cbVerdict = "release")
    /\ call = "engine" /\ cur \notin owned => failed

\* Whoever stops an engine under the application marks the queue, and no mark is
\* made for a queue that does not stream.
Reports ==
    /\ started /\ call \in {"free"} \cup Feeding => vbStreaming
    /\ started /\ call \in {"free", "live"} \cup Feeding /\ ~running
       /\ wdPc \notin {"stopping", "error"} => qerror
    /\ why = "suspend" /\ call \in {"off", "halt", "halting", "collect", "return"}
        => qerror
    /\ ~vbStreaming /\ call # "live" => ~qerror /\ wdPc = "idle"
    /\ ~vbStreaming /\ running => call \in {"going", "live"}

-----------------------------------------------------------------------------
(* The queues of the engine *)

\* Appending to a queue adds one element and keeps the others apart.
LEMMA AppendOnce ==
    ASSUME NEW S, NEW s \in Seq(S), NEW e \in S
    PROVE  /\ Append(s, e) \in Seq(S)
           /\ InSequence(Append(s, e)) = InSequence(s) \cup {e}
           /\ Once(s) /\ e \notin InSequence(s) => Once(Append(s, e))
  <1>1. /\ Append(s, e) \in Seq(S) /\ Len(Append(s, e)) = Len(s) + 1
        /\ \A i \in 1 .. Len(s) : Append(s, e)[i] = s[i]
        /\ Append(s, e)[Len(s) + 1] = e
        /\ Len(s) \in Nat
    OBVIOUS
  <1>2. \A i : i \in 1 .. Len(s) + 1 <=> i \in 1 .. Len(s) \/ i = Len(s) + 1
    BY <1>1
  <1>3. InSequence(Append(s, e)) = InSequence(s) \cup {e}
    <2>1. ASSUME NEW x PROVE x \in InSequence(Append(s, e)) <=> x \in InSequence(s) \cup {e}
      BY <1>1, <1>2 DEF InSequence
    <2> QED BY <2>1
  <1>4. ASSUME Once(s), e \notin InSequence(s) PROVE Once(Append(s, e))
    BY <1>1, <1>2, <1>4 DEF Once, InSequence
  <1> QED BY <1>1, <1>3, <1>4

\* Dropping the first i elements of a queue leaves the others, still apart.
LEMMA DropOnce ==
    ASSUME NEW S, NEW s \in Seq(S), NEW i \in 1 .. Len(s)
    PROVE  LET t == SubSeq(s, i + 1, Len(s))
           IN  /\ t \in Seq(S)
               /\ InSequence(t) = {s[k] : k \in i + 1 .. Len(s)}
               /\ Once(s) => Once(t)
  <1> DEFINE t == SubSeq(s, i + 1, Len(s))
  <1>1. /\ Len(s) \in Nat /\ i \in Nat /\ i >= 1 /\ i <= Len(s)
        /\ t \in Seq(S) /\ Len(t) = Len(s) - i
        /\ \A k \in 1 .. Len(t) : t[k] = s[i + k]
    BY SubSeqProperties
  <1> HIDE DEF t
  <1>2. InSequence(t) = {s[k] : k \in i + 1 .. Len(s)}
    <2>1. ASSUME NEW k \in 1 .. Len(t) PROVE i + k \in i + 1 .. Len(s) /\ t[k] = s[i + k]
      BY <1>1
    <2>2. ASSUME NEW k \in i + 1 .. Len(s) PROVE k - i \in 1 .. Len(t) /\ t[k - i] = s[k]
      <3>1. k - i \in 1 .. Len(t) /\ i + (k - i) = k
        BY <1>1
      <3> QED BY <1>1, <3>1
    <2>3. ASSUME NEW x PROVE x \in InSequence(t) <=> \E k \in 1 .. Len(t) : x = t[k]
      BY DEF InSequence
    <2>4. ASSUME NEW x, x \in InSequence(t) PROVE \E k \in i + 1 .. Len(s) : x = s[k]
      <3>1. PICK k \in 1 .. Len(t) : x = t[k]
        BY <2>3, <2>4
      <3> QED BY <2>1, <3>1
    <2>5. ASSUME NEW k \in i + 1 .. Len(s) PROVE s[k] \in InSequence(t)
      BY <2>2, <2>3
    <2> QED BY <2>4, <2>5
  <1>3. ASSUME Once(s) PROVE Once(t)
    <2> SUFFICES ASSUME NEW j \in 1 .. Len(t), NEW k \in 1 .. Len(t), t[j] = t[k]
                 PROVE  j = k
      BY DEF Once
    <2>1. s[i + j] = s[i + k] /\ i + j \in 1 .. Len(s) /\ i + k \in 1 .. Len(s)
      BY <1>1
    <2>2. i + j = i + k
      BY <1>3, <2>1 DEF Once
    <2> QED BY <1>1, <2>2
  <1> QED BY <1>1, <1>2, <1>3 DEF t

\* The head of a queue is an element, and not one of the tail.
LEMMA TailOnce ==
    ASSUME NEW S, NEW s \in Seq(S), s # <<>>
    PROVE  /\ Tail(s) \in Seq(S) /\ Head(s) \in S
           /\ InSequence(s) = InSequence(Tail(s)) \cup {Head(s)}
           /\ Once(s) => Once(Tail(s)) /\ Head(s) \notin InSequence(Tail(s))
  <1>1. /\ Len(s) \in Nat /\ Len(s) >= 1
        /\ Tail(s) \in Seq(S) /\ Head(s) \in S /\ Head(s) = s[1]
        /\ Len(Tail(s)) = Len(s) - 1
        /\ \A k \in 1 .. Len(Tail(s)) : Tail(s)[k] = s[k + 1]
    BY HeadTailProperties, EmptySeq
  <1>2. ASSUME NEW k \in 1 .. Len(Tail(s)) PROVE k + 1 \in 2 .. Len(s) /\ Tail(s)[k] = s[k + 1]
    BY <1>1
  <1>3. ASSUME NEW k \in 2 .. Len(s) PROVE k - 1 \in 1 .. Len(Tail(s)) /\ Tail(s)[k - 1] = s[k]
    <2>1. k - 1 \in 1 .. Len(Tail(s)) /\ (k - 1) + 1 = k
      BY <1>1
    <2> QED BY <1>1, <2>1
  <1>4. \A k : k \in 1 .. Len(s) <=> k = 1 \/ k \in 2 .. Len(s)
    BY <1>1
  <1>5. InSequence(Tail(s)) = {s[k] : k \in 2 .. Len(s)}
    <2>1. 2 .. Len(s) = {k + 1 : k \in 1 .. Len(Tail(s))}
      BY <1>1, <1>2, <1>3
    <2> QED BY <1>1, <1>2, <1>3, <2>1 DEF InSequence
  <1>6. InSequence(s) = {s[k] : k \in 2 .. Len(s)} \cup {s[1]}
    BY <1>4 DEF InSequence
  <1>7. ASSUME Once(s) PROVE Head(s) \notin InSequence(Tail(s))
    <2> SUFFICES ASSUME NEW k \in 2 .. Len(s), s[k] = s[1] PROVE FALSE
      BY <1>1, <1>5
    <2>1. k \in 1 .. Len(s) /\ 1 \in 1 .. Len(s) /\ k # 1
      BY <1>1
    <2> QED BY <1>7, <2>1 DEF Once
  <1>8. ASSUME Once(s) PROVE Once(Tail(s))
    <2> SUFFICES ASSUME NEW j \in 1 .. Len(Tail(s)), NEW k \in 1 .. Len(Tail(s)),
                        Tail(s)[j] = Tail(s)[k]
                 PROVE  j = k
      BY DEF Once
    <2>1. s[j + 1] = s[k + 1] /\ j + 1 \in 1 .. Len(s) /\ k + 1 \in 1 .. Len(s)
      BY <1>1
    <2>2. j + 1 = k + 1
      BY <1>8, <2>1 DEF Once
    <2> QED BY <1>1, <2>2
  <1> QED BY <1>1, <1>5, <1>6, <1>7, <1>8

-----------------------------------------------------------------------------
(* What a step of FrameQueue does to the buffers in the engine *)

\* The engine keeps its queues apart when a buffer is queued, and holds it.
LEMMA EnqueueHeld ==
    ASSUME QueuesSound, NEW b \in Buffers, Enqueue(b)
    PROVE  QueuesSound' /\ Held' = Held \cup {b} /\ b \notin Held
  <1>1. /\ Append(waiting, b) \in Seq(Buffers)
        /\ InSequence(Append(waiting, b)) = InSequence(waiting) \cup {b}
        /\ Once(waiting) /\ b \notin InSequence(waiting) => Once(Append(waiting, b))
    BY AppendOnce DEF QueuesSound
  <1>2. /\ waiting' = Append(waiting, b) /\ UNCHANGED <<filled, missed>>
        /\ b \notin InSequence(waiting) /\ b \notin missed /\ b \notin InSequence(filled)
    BY DEF Enqueue, Held
  <1>3. InSequence(waiting') = InSequence(waiting) \cup {b} /\ Once(waiting')
    BY <1>1, <1>2 DEF QueuesSound
  <1>4. InSequence(filled') = InSequence(filled)
    BY <1>2
  <1>5. Held' = Held \cup {b}
    BY <1>2, <1>3, <1>4 DEF Held
  <1>6. Once(filled')
    BY <1>2 DEF QueuesSound, Once
  <1>7. QueuesSound'
    BY <1>1, <1>2, <1>3, <1>4, <1>6 DEF QueuesSound
  <1> QED BY <1>2, <1>5, <1>7 DEF Held

\* A completed buffer changes queues and none is added.
LEMMA FillHeld ==
    ASSUME QueuesSound, NEW i \in 1 .. Len(waiting), Fill(i)
    PROVE  QueuesSound' /\ Held' \subseteq Held
  <1> DEFINE b == waiting[i]
             before == {waiting[j] : j \in 1 .. i - 1}
             rest == SubSeq(waiting, i + 1, Len(waiting))
  <1>0. Len(waiting) \in Nat
    BY DEF QueuesSound
  <1>1. /\ rest \in Seq(Buffers) /\ Once(rest)
        /\ InSequence(rest) = {waiting[k] : k \in i + 1 .. Len(waiting)}
    BY DropOnce DEF QueuesSound
  <1>2. b \in InSequence(waiting) /\ b \in Buffers
    BY DEF InSequence, QueuesSound
  <1>3. before \subseteq InSequence(waiting) /\ InSequence(rest) \subseteq InSequence(waiting)
    <2>1. \A k \in 1 .. i - 1 : k \in 1 .. Len(waiting)
      BY <1>0
    <2>2. \A k \in i + 1 .. Len(waiting) : k \in 1 .. Len(waiting)
      BY <1>0
    <2> QED BY <1>1, <2>1, <2>2 DEF InSequence
  <1>4. /\ b \notin before /\ b \notin InSequence(rest)
        /\ before \cap InSequence(rest) = {}
    <2>1. \A j, k \in 1 .. Len(waiting) : waiting[j] = waiting[k] => j = k
      BY DEF QueuesSound, Once
    <2>2. \A k \in 1 .. i - 1 : k \in 1 .. Len(waiting) /\ k < i
      BY <1>0
    <2>3. \A k \in i + 1 .. Len(waiting) : k \in 1 .. Len(waiting) /\ k > i
      BY <1>0
    <2>4. b \notin before
      BY <2>1, <2>2
    <2>5. b \notin InSequence(rest)
      BY <1>1, <2>1, <2>3
    <2>6. ASSUME NEW j \in 1 .. i - 1, NEW k \in i + 1 .. Len(waiting) PROVE waiting[j] # waiting[k]
      BY <2>1, <2>2, <2>3
    <2> QED BY <1>1, <2>4, <2>5, <2>6
  <1>5. /\ Append(filled, b) \in Seq(Buffers) /\ Once(Append(filled, b))
        /\ InSequence(Append(filled, b)) = InSequence(filled) \cup {b}
    BY <1>2, AppendOnce DEF QueuesSound
  <1>6. filled' = Append(filled, b) /\ missed' = missed \cup before /\ waiting' = rest
    BY DEF Fill
  <1> HIDE DEF b, before, rest
  <1>7. /\ InSequence(filled') = InSequence(filled) \cup {b}
        /\ InSequence(waiting') = InSequence(rest)
        /\ Once(filled') /\ Once(waiting')
    BY <1>1, <1>5, <1>6 DEF Once, InSequence
  <1>8. Held' \subseteq Held
    BY <1>2, <1>3, <1>6, <1>7 DEF Held
  <1>9. QueuesSound'
    BY <1>1, <1>2, <1>3, <1>4, <1>5, <1>6, <1>7 DEF QueuesSound
  <1> QED BY <1>8, <1>9

\* A buffer that is served leaves the engine's queues.
LEMMA ServeHeld ==
    ASSUME QueuesSound, Serve
    PROVE  /\ QueuesSound' /\ Held' \subseteq Held
           /\ serving' \in Held /\ serving' \notin Held' /\ serving' \in Buffers
  <1>1. /\ filled # <<>> /\ serving' = Head(filled) /\ filled' = Tail(filled)
        /\ waiting' = waiting /\ missed' = missed
    BY DEF Serve
  <1>2. /\ Tail(filled) \in Seq(Buffers) /\ Head(filled) \in Buffers
        /\ InSequence(filled) = InSequence(Tail(filled)) \cup {Head(filled)}
        /\ Once(Tail(filled)) /\ Head(filled) \notin InSequence(Tail(filled))
    BY <1>1, TailOnce DEF QueuesSound
  <1>3. /\ InSequence(filled') = InSequence(Tail(filled)) /\ Once(filled')
        /\ InSequence(waiting') = InSequence(waiting) /\ Once(waiting')
    BY <1>1, <1>2 DEF Once, InSequence, QueuesSound
  <1> QED BY <1>1, <1>2, <1>3 DEF QueuesSound, Held

\* A dropped completion leaves the engine's queues.
LEMMA DropHeld ==
    ASSUME QueuesSound, Drop
    PROVE  QueuesSound' /\ Held' \subseteq Held
  <1>1. filled # <<>> /\ filled' = Tail(filled) /\ UNCHANGED <<waiting, missed>>
    BY DEF Drop
  <1>2. /\ Tail(filled) \in Seq(Buffers) /\ Once(Tail(filled))
        /\ InSequence(filled) = InSequence(Tail(filled)) \cup {Head(filled)}
    BY <1>1, TailOnce DEF QueuesSound
  <1>3. /\ InSequence(filled') = InSequence(Tail(filled)) /\ Once(filled')
        /\ InSequence(waiting') = InSequence(waiting) /\ Once(waiting')
    BY <1>1, <1>2 DEF Once, InSequence, QueuesSound
  <1> QED BY <1>1, <1>2, <1>3 DEF QueuesSound, Held

\* An answer gives the engine at most the buffer just served.
LEMMA AnswerHeld ==
    ASSUME QueuesSound, Answer, serving \in Buffers
    PROVE  /\ QueuesSound'
           /\ \/ waiting' = waiting /\ Held' = Held
              \/ waiting' # waiting /\ Held' = Held \cup {serving}
  <1>1. UNCHANGED <<missed, filled>>
    BY DEF Answer
  <1>2. CASE waiting' = waiting
    <2>1. /\ InSequence(filled') = InSequence(filled) /\ InSequence(waiting') = InSequence(waiting)
          /\ Once(filled') /\ Once(waiting')
      BY <1>1, <1>2 DEF Once, InSequence, QueuesSound
    <2> QED BY <1>1, <1>2, <2>1 DEF QueuesSound, Held
  <1>3. CASE waiting' # waiting
    <2>1. serving \notin Held /\ waiting' = Append(waiting, serving)
      BY <1>3 DEF Answer
    <2>4. /\ Append(waiting, serving) \in Seq(Buffers) /\ Once(Append(waiting, serving))
          /\ InSequence(Append(waiting, serving)) = InSequence(waiting) \cup {serving}
      BY <2>1, AppendOnce DEF QueuesSound, Held
    <2>2. /\ waiting' \in Seq(Buffers) /\ Once(waiting')
          /\ InSequence(waiting') = InSequence(waiting) \cup {serving}
      BY <2>1, <2>4 DEF Once, InSequence
    <2>3. InSequence(filled') = InSequence(filled) /\ Once(filled')
      BY <1>1 DEF Once, InSequence, QueuesSound
    <2> QED BY <1>1, <1>3, <2>1, <2>2, <2>3 DEF QueuesSound, Held
  <1> QED BY <1>2, <1>3

\* A revocation leaves the engine empty.
LEMMA RevokeHeld ==
    ASSUME Revoke
    PROVE  QueuesSound' /\ Held' = {} /\ filled' = <<>> /\ missed' = {}
  <1>1. waiting' = <<>> /\ filled' = <<>> /\ missed' = {}
    BY DEF Revoke
  <1>2. Len(<<>>) = 0 /\ 1 .. 0 = {} /\ <<>> \in Seq(Buffers)
    OBVIOUS
  <1>3. InSequence(waiting') = {} /\ InSequence(filled') = {} /\ Once(waiting') /\ Once(filled')
    BY <1>1, <1>2 DEF InSequence, Once
  <1> QED BY <1>1, <1>2, <1>3 DEF QueuesSound, Held

\* Without a step of the queues nothing changes in the engine.
LEMMA SameHeld ==
    ASSUME QueuesSound, UNCHANGED <<waiting, missed, filled>>
    PROVE  QueuesSound' /\ Held' = Held
  <1>1. /\ InSequence(waiting') = InSequence(waiting)
        /\ InSequence(filled') = InSequence(filled)
    BY DEF InSequence
  <1>2. (Once(waiting') <=> Once(waiting)) /\ (Once(filled') <=> Once(filled))
    BY DEF Once
  <1> QED BY <1>1, <1>2 DEF QueuesSound, Held

-----------------------------------------------------------------------------
(* Every step keeps the queues of the engine apart and holds nothing but what *)
(* the driver queued.                                                       *)

\* What a step does to the buffers the engine holds.
\* The steps in which a callback begins, and those that revoke everything.
Served == cbPc = "idle" /\ cbPc' = "entered"
Revoked == \/ call = "rollback" /\ call' = "off"
           \/ call = "halting" /\ call' = "collect"
           \/ wdPc = "stopping" /\ wdPc' = "error"

HeldStep ==
    /\ QueuesSound'
    /\ \/ Held' \subseteq Held
       \/ /\ call = "engine" /\ call' = "feed" /\ engLock = "free"
          /\ ~lost /\ ~failed
          /\ cur \notin Held /\ Held' = Held \cup {cur}
       \/ /\ cbPc = "answer" /\ cbPc' = "idle" /\ cbVerdict = "recycle"
          /\ running /\ ~closing
          /\ Held' = Held \cup {serving}
    /\ Served => /\ serving' \in Held /\ serving' \notin Held'
                  /\ serving' \in Buffers
    /\ Revoked => Held' = {} /\ filled' = <<>> /\ missed' = {}

\* The queues stay apart, and only a queue call or a recycling adds to them.
LEMMA HeldSteps ==
    ASSUME TypeOK, QueuesSound, Feeds, Locks, [Next]_vcVars
    PROVE  HeldStep
  <1> USE DEF fqVars, engineVars, vb2Vars, flagVars, callVars, cbVars, wdVars,
          monVars, Served, Revoked
  <1> DEFINE Same == UNCHANGED <<waiting, missed, filled>> /\ ~Served /\ ~Revoked
  <1>1. Same \/ \/ BufferEnqueue /\ ~(lost \/ failed)
                \/ EngineServe \/ CallbackAnswer \/ EngineFill \/ EngineDrop
                \/ EngineRollback \/ EngineStopped \/ WatchdogFailed
    <2>1. ASSUME Ioctl \/ MonitorSample \/ MonitorReport \/ UNCHANGED vcVars
          PROVE  Same
      BY <2>1 DEF Ioctl, QBuf, DQBuf, StreamOn, StreamOff, Suspend,
         MonitorSample, MonitorReport, vcVars
    <2>2. ASSUME \E b \in Buffers : FeedBuffer(b) \/ ReturnBuffer(b) \/ ErrorReturn(b)
          PROVE  Same
      BY <2>2 DEF FeedBuffer, ReturnBuffer, ErrorReturn
    <2>3. ASSUME FeedEnd \/ BufferOwn \/ BufferUndo \/ BufferGive \/ StartCheck
                 \/ StartMark \/ EngineStart \/ EngineStarted
          PROVE  Same
      BY <2>3 DEF FeedEnd, BufferOwn, BufferUndo, BufferGive, StartCheck,
         StartMark, EngineStart, EngineStarted
    <2>4. ASSUME EngineStartFails \/ StartLive \/ StopFlags \/ EngineStop
                 \/ ReturnBegin \/ StopReturn
          PROVE  Same
      BY <2>4 DEF EngineStartFails, Close, StartLive, StopFlags, EngineStop,
         ReturnBegin, StopReturn
    <2>5. ASSUME CallbackEnter \/ CallbackTake \/ CallbackPublish \/ WatchdogStop
                 \/ ErrorQueue \/ ErrorFlags \/ ErrorCollect \/ ErrorEnd
                 \/ LoseDevice
          PROVE  Same
      BY <2>5 DEF CallbackEnter, CallbackTake, CallbackPublish, WatchdogStop,
         Close, ErrorQueue, ErrorFlags, ErrorCollect, ErrorEnd, LoseDevice
    <2>6. ASSUME BufferEnqueue, lost \/ failed PROVE Same
      BY <2>6 DEF BufferEnqueue
    <2> QED
      BY <2>1, <2>2, <2>3, <2>4, <2>5, <2>6
         DEF Next, Holder, Callback, ErrorHandler
  <1>2. CASE Same
    BY <1>2, SameHeld DEF HeldStep
  <1>3. CASE BufferEnqueue /\ ~(lost \/ failed)
    <2>1. cur \in Buffers /\ Enqueue(cur) /\ call = "engine" /\ call' = "feed"
          /\ engLock = "free" /\ ~Served /\ ~Revoked
      BY <1>3 DEF BufferEnqueue, Feeds, TypeOK, BufferTypes
    <2>2. QueuesSound' /\ Held' = Held \cup {cur} /\ cur \notin Held
      BY <2>1, EnqueueHeld
    <2> QED BY <1>3, <2>1, <2>2 DEF HeldStep
  <1>4. CASE EngineServe
    <2>1. /\ QueuesSound' /\ Held' \subseteq Held
          /\ serving' \in Held /\ serving' \notin Held' /\ serving' \in Buffers
      BY <1>4, ServeHeld DEF EngineServe
    <2>2. ~Revoked
      BY <1>4 DEF EngineServe
    <2> QED BY <2>1, <2>2 DEF HeldStep
  <1>5. CASE CallbackAnswer
    <2>1. /\ Answer /\ serving \in Buffers /\ cbPc = "answer" /\ cbPc' = "idle"
          /\ ~Served /\ ~Revoked
      BY <1>5 DEF CallbackAnswer, Answer, TypeOK, BufferTypes
    <2>2. QueuesSound' /\ (Held' = Held \/ (waiting' # waiting /\ Held' = Held \cup {serving}))
      BY <2>1, AnswerHeld
    <2>3. waiting' # waiting => cbVerdict = "recycle" /\ running /\ ~closing
      BY <1>5 DEF CallbackAnswer
    <2> QED BY <2>1, <2>2, <2>3 DEF HeldStep
  <1>6. CASE EngineFill \/ EngineDrop
    <2>1. QueuesSound' /\ Held' \subseteq Held
      BY <1>6, FillHeld, DropHeld DEF EngineFill, EngineDrop
    <2>2. ~Served /\ ~Revoked
      BY <1>6 DEF EngineFill, EngineDrop
    <2> QED BY <2>1, <2>2 DEF HeldStep
  <1>7. CASE EngineRollback \/ EngineStopped \/ WatchdogFailed
    <2>1. Revoke /\ ~Served
      BY <1>7 DEF EngineRollback, EngineStopped, WatchdogFailed
    <2>2. QueuesSound' /\ Held' = {} /\ filled' = <<>> /\ missed' = {}
      BY <2>1, RevokeHeld
    <2> QED BY <2>1, <2>2 DEF HeldStep
  <1> QED BY <1>1, <1>2, <1>3, <1>4, <1>5, <1>6, <1>7

\* Locks, threads and the running engine stay in step.
LEMMA LocksKept ==
    ASSUME TypeOK, Locks, Quiet, QueuesSound, Feeds, [Next]_vcVars
    PROVE  Locks'
  <1> USE DEF fqVars, engineVars, vb2Vars, flagVars, callVars, cbVars, wdVars,
          monVars
  <1>1. ASSUME NEW b \in Buffers, QBuf(b) PROVE Locks'
    BY <1>1 DEF QBuf, Feed, BufferDone, Locks
  <1>2. ASSUME NEW b \in Buffers, DQBuf(b) PROVE Locks'
    BY <1>2 DEF DQBuf, BufferDone, Locks
  <1>3. ASSUME NEW b \in Buffers, FeedBuffer(b) PROVE Locks'
    BY <1>3 DEF FeedBuffer, BufferDone, Locks, Feeding
  <1>4. ASSUME NEW b \in Buffers, ReturnBuffer(b) PROVE Locks'
    BY <1>4 DEF ReturnBuffer, BufferDone, Locks
  <1>5. ASSUME NEW b \in Buffers, ErrorReturn(b) PROVE Locks'
    BY <1>5 DEF ErrorReturn, BufferDone, Locks
  <1>6. CASE StreamOn
    BY <1>6 DEF StreamOn, Feed, Locks
  <1>7. CASE StreamOff
    BY <1>7 DEF StreamOff, QueueCancel, Locks
  <1>8. CASE Suspend
    BY <1>8 DEF Suspend, Locks
  <1>9. CASE FeedEnd
    BY <1>9 DEF FeedEnd, Locks, Feeding
  <1>10. CASE BufferOwn
    BY <1>10 DEF BufferOwn, Locks, Feeding
  <1>11. CASE BufferEnqueue
    BY <1>11 DEF BufferEnqueue, Enqueue, Locks, Feeding
  <1>12. CASE BufferUndo
    BY <1>12 DEF BufferUndo, Locks, Feeding
  <1>13. CASE BufferGive
    BY <1>13 DEF BufferGive, BufferDone, Locks, Feeding
  <1>14. CASE StartCheck
    BY <1>14 DEF StartCheck, Locks
  <1>15. CASE StartMark
    BY <1>15 DEF StartMark, Locks
  <1>16. CASE EngineStart
    BY <1>16 DEF EngineStart, Locks
  <1>17. CASE EngineStarted
    BY <1>17 DEF EngineStarted, Locks
  <1>18. CASE EngineStartFails
    BY <1>18 DEF EngineStartFails, Close, Locks
  <1>19. CASE EngineRollback
    BY <1>19 DEF EngineRollback, Revoke, Locks
  <1>20. CASE StartLive
    BY <1>20 DEF StartLive, Locks
  <1>21. CASE StopFlags
    BY <1>21 DEF StopFlags, Locks, Feeding
  <1>22. CASE EngineStop
    BY <1>22 DEF EngineStop, Close, Locks
  <1>23. CASE EngineStopped
    BY <1>23 DEF EngineStopped, Revoke, Locks
  <1>24. CASE ReturnBegin
    BY <1>24 DEF ReturnBegin, Locks
  <1>25. CASE StopReturn
    BY <1>25 DEF StopReturn, QueueCancel, Locks
  <1>26. CASE MonitorSample
    BY <1>26 DEF MonitorSample, Locks
  <1>27. CASE MonitorReport
    BY <1>27 DEF MonitorReport, Locks
  <1>28. CASE EngineServe
    BY <1>28, NobodyAssumption, HeldSteps DEF EngineServe, Serve, HeldStep,
       Served, Locks, TypeOK, Feeding
  <1>29. CASE CallbackEnter
    BY <1>29 DEF CallbackEnter, Locks
  <1>30. CASE CallbackTake
    BY <1>30 DEF CallbackTake, Locks
  <1>31. CASE CallbackPublish
    BY <1>31 DEF CallbackPublish, BufferDone, Locks
  <1>32. CASE CallbackAnswer
    BY <1>32 DEF CallbackAnswer, Answer, Locks
  <1>33. CASE EngineFill
    BY <1>33 DEF EngineFill, Fill, Locks
  <1>34. CASE EngineDrop
    BY <1>34 DEF EngineDrop, Drop, Locks
  <1>35. CASE WatchdogStop
    BY <1>35 DEF WatchdogStop, Close, Locks
  <1>36. CASE WatchdogFailed
    BY <1>36 DEF WatchdogFailed, Revoke, Locks
  <1>37. CASE ErrorQueue
    BY <1>37 DEF ErrorQueue, Locks
  <1>38. CASE ErrorFlags
    BY <1>38 DEF ErrorFlags, Locks
  <1>39. CASE ErrorCollect
    BY <1>39 DEF ErrorCollect, Locks
  <1>40. CASE ErrorEnd
    BY <1>40 DEF ErrorEnd, Locks
  <1>41. CASE LoseDevice
    BY <1>41 DEF LoseDevice, Locks
  <1>42. CASE UNCHANGED vcVars
    BY <1>42 DEF vcVars, Locks
  <1> QED
    BY <1>1, <1>2, <1>3, <1>4, <1>5, <1>6, <1>7, <1>8, <1>9, <1>10, <1>11,
       <1>12, <1>13, <1>14, <1>15, <1>16, <1>17, <1>18, <1>19, <1>20, <1>21,
       <1>22, <1>23, <1>24, <1>25, <1>26, <1>27, <1>28, <1>29, <1>30, <1>31,
       <1>32, <1>33, <1>34, <1>35, <1>36, <1>37, <1>38, <1>39, <1>40, <1>41,
       <1>42
       DEF Next, Ioctl, Holder, Callback, ErrorHandler
\* An engine that does not run is empty, or waits for a start.
LEMMA QuietKept ==
    ASSUME TypeOK, Locks, Quiet, QueuesSound, Feeds, [Next]_vcVars
    PROVE  Quiet'
  <1> USE DEF fqVars, engineVars, vb2Vars, flagVars, callVars, cbVars, wdVars,
          monVars
  <1>0. HeldStep
    BY HeldSteps
  <1>1. ASSUME NEW b \in Buffers, QBuf(b) PROVE Quiet'
    BY <1>1, <1>0 DEF QBuf, Feed, BufferDone, Quiet, HeldStep
  <1>2. ASSUME NEW b \in Buffers, DQBuf(b) PROVE Quiet'
    BY <1>2, <1>0 DEF DQBuf, BufferDone, Quiet, HeldStep
  <1>3. ASSUME NEW b \in Buffers, FeedBuffer(b) PROVE Quiet'
    BY <1>3, <1>0 DEF FeedBuffer, BufferDone, Quiet, HeldStep, Locks, Feeding
  <1>4. ASSUME NEW b \in Buffers, ReturnBuffer(b) PROVE Quiet'
    BY <1>4, <1>0 DEF ReturnBuffer, BufferDone, Quiet, HeldStep
  <1>5. ASSUME NEW b \in Buffers, ErrorReturn(b) PROVE Quiet'
    BY <1>5, <1>0 DEF ErrorReturn, BufferDone, Quiet, HeldStep
  <1>6. CASE StreamOn
    BY <1>6, <1>0 DEF StreamOn, Feed, Quiet, HeldStep
  <1>7. CASE StreamOff
    BY <1>7, <1>0 DEF StreamOff, QueueCancel, Quiet, HeldStep
  <1>8. CASE Suspend
    BY <1>8, <1>0 DEF Suspend, Quiet, HeldStep
  <1>9. CASE FeedEnd
    BY <1>9, <1>0 DEF FeedEnd, Quiet, HeldStep
  <1>10. CASE BufferOwn
    BY <1>10, <1>0 DEF BufferOwn, Quiet, HeldStep, Locks, Feeding
  <1>11. CASE BufferEnqueue
    BY <1>11, <1>0 DEF BufferEnqueue, Enqueue, Quiet, HeldStep, Locks, Feeding
  <1>12. CASE BufferUndo
    BY <1>12, <1>0 DEF BufferUndo, Quiet, HeldStep, Locks, Feeding
  <1>13. CASE BufferGive
    BY <1>13, <1>0 DEF BufferGive, BufferDone, Quiet, HeldStep, Locks, Feeding
  <1>14. CASE StartCheck
    BY <1>14, <1>0 DEF StartCheck, Quiet, HeldStep, Locks
  <1>15. CASE StartMark
    BY <1>15, <1>0 DEF StartMark, Quiet, HeldStep, Locks
  <1>16. CASE EngineStart
    BY <1>16, <1>0 DEF EngineStart, Quiet, HeldStep, Locks
  <1>17. CASE EngineStarted
    BY <1>17, <1>0 DEF EngineStarted, Quiet, HeldStep, Locks
  <1>18. CASE EngineStartFails
    BY <1>18, <1>0 DEF EngineStartFails, Close, Quiet, HeldStep, Locks
  <1>19. CASE EngineRollback
    BY <1>19, <1>0 DEF EngineRollback, Revoke, Quiet, HeldStep, Locks
  <1>20. CASE StartLive
    BY <1>20, <1>0 DEF StartLive, Quiet, HeldStep, Locks
  <1>21. CASE StopFlags
    BY <1>21, <1>0 DEF StopFlags, Quiet, HeldStep, Locks, Feeding
  <1>22. CASE EngineStop
    BY <1>22, <1>0 DEF EngineStop, Close, Quiet, HeldStep, Locks, Feeding
  <1>23. CASE EngineStopped
    BY <1>23, <1>0 DEF EngineStopped, Revoke, Quiet, HeldStep, Served,
       Revoked, Locks, Feeding
  <1>24. CASE ReturnBegin
    BY <1>24, <1>0 DEF ReturnBegin, Quiet, HeldStep
  <1>25. CASE StopReturn
    BY <1>25, <1>0 DEF StopReturn, QueueCancel, Quiet, HeldStep
  <1>26. CASE MonitorSample
    BY <1>26, <1>0 DEF MonitorSample, Quiet, HeldStep
  <1>27. CASE MonitorReport
    BY <1>27, <1>0 DEF MonitorReport, Quiet, HeldStep
  <1>28. CASE EngineServe
    BY <1>28, <1>0 DEF EngineServe, Serve, Quiet, HeldStep
  <1>29. CASE CallbackEnter
    BY <1>29, <1>0 DEF CallbackEnter, Quiet, HeldStep
  <1>30. CASE CallbackTake
    BY <1>30, <1>0 DEF CallbackTake, Quiet, HeldStep
  <1>31. CASE CallbackPublish
    BY <1>31, <1>0 DEF CallbackPublish, BufferDone, Quiet, HeldStep
  <1>32. CASE CallbackAnswer
    BY <1>32, <1>0 DEF CallbackAnswer, Answer, Quiet, HeldStep, Locks
  <1>33. CASE EngineFill
    BY <1>33, <1>0 DEF EngineFill, Fill, Quiet, HeldStep
  <1>34. CASE EngineDrop
    BY <1>34, <1>0 DEF EngineDrop, Drop, Quiet, HeldStep
  <1>35. CASE WatchdogStop
    BY <1>35, <1>0 DEF WatchdogStop, Close, Quiet, HeldStep
  <1>36. CASE WatchdogFailed
    BY <1>36, <1>0 DEF WatchdogFailed, Revoke, Quiet, HeldStep, Served,
       Revoked, Locks, Feeding
  <1>37. CASE ErrorQueue
    BY <1>37, <1>0 DEF ErrorQueue, Quiet, HeldStep
  <1>38. CASE ErrorFlags
    BY <1>38, <1>0 DEF ErrorFlags, Quiet, HeldStep
  <1>39. CASE ErrorCollect
    BY <1>39, <1>0 DEF ErrorCollect, Quiet, HeldStep
  <1>40. CASE ErrorEnd
    BY <1>40, <1>0 DEF ErrorEnd, Quiet, HeldStep
  <1>41. CASE LoseDevice
    BY <1>41, <1>0 DEF LoseDevice, Quiet, HeldStep
  <1>42. CASE UNCHANGED vcVars
    BY <1>42, <1>0 DEF vcVars, Quiet, HeldStep
  <1> QED
    BY <1>1, <1>2, <1>3, <1>4, <1>5, <1>6, <1>7, <1>8, <1>9, <1>10, <1>11,
       <1>12, <1>13, <1>14, <1>15, <1>16, <1>17, <1>18, <1>19, <1>20, <1>21,
       <1>22, <1>23, <1>24, <1>25, <1>26, <1>27, <1>28, <1>29, <1>30, <1>31,
       <1>32, <1>33, <1>34, <1>35, <1>36, <1>37, <1>38, <1>39, <1>40, <1>41,
       <1>42
       DEF Next, Ioctl, Holder, Callback, ErrorHandler
\* The engine holds only what the driver owns, and so does a callback that may
\* still take its buffer or send it back.
LEMMA EngineOwnedKept ==
    ASSUME TypeOK, Locks, Quiet, QueuesSound, GivenOnce, EngineOwned, Feeds,
    [Next]_vcVars
    PROVE  EngineOwned'
  <1> USE DEF fqVars, engineVars, vb2Vars, flagVars, callVars, cbVars, wdVars,
          monVars
  <1>0. HeldStep
    BY HeldSteps
  <1>1. ASSUME NEW b \in Buffers, QBuf(b) PROVE EngineOwned'
    BY <1>1, <1>0 DEF QBuf, Feed, BufferDone, EngineOwned, InCallback, HeldStep
  <1>2. ASSUME NEW b \in Buffers, DQBuf(b) PROVE EngineOwned'
    BY <1>2, <1>0 DEF DQBuf, BufferDone, EngineOwned, InCallback, HeldStep
  <1>3. ASSUME NEW b \in Buffers, FeedBuffer(b) PROVE EngineOwned'
    BY <1>3, <1>0 DEF FeedBuffer, BufferDone, EngineOwned, InCallback, HeldStep
  <1>4. ASSUME NEW b \in Buffers, ReturnBuffer(b) PROVE EngineOwned'
    BY <1>4, <1>0 DEF ReturnBuffer, BufferDone, EngineOwned, InCallback,
       HeldStep
  <1>5. ASSUME NEW b \in Buffers, ErrorReturn(b) PROVE EngineOwned'
    BY <1>5, <1>0 DEF ErrorReturn, BufferDone, EngineOwned, InCallback,
       HeldStep
  <1>6. CASE StreamOn
    BY <1>6, <1>0 DEF StreamOn, Feed, EngineOwned, InCallback, HeldStep
  <1>7. CASE StreamOff
    BY <1>7, <1>0 DEF StreamOff, QueueCancel, EngineOwned, InCallback, HeldStep
  <1>8. CASE Suspend
    BY <1>8, <1>0 DEF Suspend, EngineOwned, InCallback, HeldStep
  <1>9. CASE FeedEnd
    BY <1>9, <1>0 DEF FeedEnd, EngineOwned, InCallback, HeldStep
  <1>10. CASE BufferOwn
    BY <1>10, <1>0 DEF BufferOwn, EngineOwned, InCallback, HeldStep
  <1>11. CASE BufferEnqueue
    BY <1>11, <1>0 DEF BufferEnqueue, Enqueue, EngineOwned, InCallback,
       HeldStep, Feeds
  <1>12. CASE BufferUndo
    BY <1>12, <1>0 DEF BufferUndo, EngineOwned, InCallback, HeldStep, Feeds
  <1>13. CASE BufferGive
    BY <1>13, <1>0 DEF BufferGive, BufferDone, EngineOwned, InCallback,
       HeldStep
  <1>14. CASE StartCheck
    BY <1>14, <1>0 DEF StartCheck, EngineOwned, InCallback, HeldStep
  <1>15. CASE StartMark
    BY <1>15, <1>0 DEF StartMark, EngineOwned, InCallback, HeldStep
  <1>16. CASE EngineStart
    BY <1>16, <1>0 DEF EngineStart, EngineOwned, InCallback, HeldStep
  <1>17. CASE EngineStarted
    BY <1>17, <1>0 DEF EngineStarted, EngineOwned, InCallback, HeldStep
  <1>18. CASE EngineStartFails
    BY <1>18, <1>0 DEF EngineStartFails, Close, EngineOwned, InCallback,
       HeldStep
  <1>19. CASE EngineRollback
    BY <1>19, <1>0 DEF EngineRollback, Revoke, EngineOwned, InCallback,
       HeldStep
  <1>20. CASE StartLive
    BY <1>20, <1>0 DEF StartLive, EngineOwned, InCallback, HeldStep
  <1>21. CASE StopFlags
    BY <1>21, <1>0 DEF StopFlags, EngineOwned, InCallback, HeldStep
  <1>22. CASE EngineStop
    BY <1>22, <1>0 DEF EngineStop, Close, EngineOwned, InCallback, HeldStep
  <1>23. CASE EngineStopped
    BY <1>23, <1>0 DEF EngineStopped, Revoke, EngineOwned, InCallback, HeldStep
  <1>24. CASE ReturnBegin
    BY <1>24, <1>0, NobodyAssumption DEF ReturnBegin, EngineOwned,
       InCallback, HeldStep, Quiet, Locks, Feeds
  <1>25. CASE StopReturn
    BY <1>25, <1>0 DEF StopReturn, QueueCancel, EngineOwned, InCallback,
       HeldStep
  <1>26. CASE MonitorSample
    BY <1>26, <1>0 DEF MonitorSample, EngineOwned, InCallback, HeldStep
  <1>27. CASE MonitorReport
    BY <1>27, <1>0 DEF MonitorReport, EngineOwned, InCallback, HeldStep
  <1>28. CASE EngineServe
    BY <1>28, <1>0 DEF EngineServe, Serve, EngineOwned, InCallback, HeldStep,
       Served, Locks
  <1>29. CASE CallbackEnter
    BY <1>29, <1>0 DEF CallbackEnter, EngineOwned, InCallback, HeldStep
  <1>30. CASE CallbackTake
    BY <1>30, <1>0 DEF CallbackTake, GivenOnce, Hands, EngineOwned,
       InCallback, HeldStep
  <1>31. CASE CallbackPublish
    BY <1>31, <1>0 DEF CallbackPublish, BufferDone, EngineOwned, InCallback,
       HeldStep
  <1>32. CASE CallbackAnswer
    BY <1>32, <1>0 DEF CallbackAnswer, Answer, EngineOwned, InCallback,
       HeldStep
  <1>33. CASE EngineFill
    BY <1>33, <1>0 DEF EngineFill, Fill, EngineOwned, InCallback, HeldStep
  <1>34. CASE EngineDrop
    BY <1>34, <1>0 DEF EngineDrop, Drop, EngineOwned, InCallback, HeldStep
  <1>35. CASE WatchdogStop
    BY <1>35, <1>0 DEF WatchdogStop, Close, EngineOwned, InCallback, HeldStep
  <1>36. CASE WatchdogFailed
    BY <1>36, <1>0 DEF WatchdogFailed, Revoke, EngineOwned, InCallback,
       HeldStep
  <1>37. CASE ErrorQueue
    BY <1>37, <1>0 DEF ErrorQueue, EngineOwned, InCallback, HeldStep
  <1>38. CASE ErrorFlags
    BY <1>38, <1>0 DEF ErrorFlags, EngineOwned, InCallback, HeldStep
  <1>39. CASE ErrorCollect
    BY <1>39, <1>0, NobodyAssumption DEF ErrorCollect, EngineOwned,
       InCallback, HeldStep, Quiet, Locks, Feeds
  <1>40. CASE ErrorEnd
    BY <1>40, <1>0 DEF ErrorEnd, EngineOwned, InCallback, HeldStep
  <1>41. CASE LoseDevice
    BY <1>41, <1>0 DEF LoseDevice, EngineOwned, InCallback, HeldStep
  <1>42. CASE UNCHANGED vcVars
    BY <1>42, <1>0 DEF vcVars, EngineOwned, InCallback, HeldStep
  <1> QED
    BY <1>1, <1>2, <1>3, <1>4, <1>5, <1>6, <1>7, <1>8, <1>9, <1>10, <1>11,
       <1>12, <1>13, <1>14, <1>15, <1>16, <1>17, <1>18, <1>19, <1>20, <1>21,
       <1>22, <1>23, <1>24, <1>25, <1>26, <1>27, <1>28, <1>29, <1>30, <1>31,
       <1>32, <1>33, <1>34, <1>35, <1>36, <1>37, <1>38, <1>39, <1>40, <1>41,
       <1>42
       DEF Next, Ioctl, Holder, Callback, ErrorHandler
\* What vb2 hands over is fresh: neither in the engine nor in a callback.
LEMMA FeedsKept ==
    ASSUME TypeOK, Locks, Quiet, QueuesSound, GivenOnce, EngineOwned, Feeds,
    [Next]_vcVars
    PROVE  Feeds'
  <1> USE DEF fqVars, engineVars, vb2Vars, flagVars, callVars, cbVars, wdVars,
          monVars
  <1>0. HeldStep
    BY HeldSteps
  <1>1. ASSUME NEW b \in Buffers, QBuf(b) PROVE Feeds'
    BY <1>1, <1>0 DEF QBuf, Feed, BufferDone, Feeds, Feeding, InState,
       HeldStep, TypeOK, BufferTypes
  <1>2. ASSUME NEW b \in Buffers, DQBuf(b) PROVE Feeds'
    BY <1>2, <1>0 DEF DQBuf, BufferDone, Feeds, Feeding, HeldStep
  <1>3. ASSUME NEW b \in Buffers, FeedBuffer(b) PROVE Feeds'
    <2>1. /\ b \in todo /\ call = "feed" /\ call' = "own" /\ cur' = b
          /\ todo' = todo \ {b} /\ vb' = [vb EXCEPT ![b] = "active"]
          /\ UNCHANGED <<fqVars, owned, giveBack, wdVars, cbVars>>
      BY <1>3 DEF FeedBuffer, BufferDone
    <2>2. vb[b] = "queued" /\ b # Nobody
      BY <2>1, NobodyAssumption DEF Feeds, InState
    <2>3. b \notin owned /\ ~(cbPc = "publish" /\ b = serving)
      BY <2>2 DEF GivenOnce, Hands
    <2>4. Held' = Held /\ b \notin Held
      BY <2>1, <2>3, SameHeld DEF EngineOwned
    <2>5. serving = b => cbPc = "answer" /\ cbVerdict = "release"
      BY <2>2, <2>3 DEF EngineOwned, InCallback, Locks, TypeOK, ThreadTypes
    <2>6. todo' \subseteq InState("queued")'
      BY <2>1 DEF Feeds, InState, TypeOK, BufferTypes
    <2> QED BY <2>1, <2>2, <2>4, <2>5, <2>6 DEF Feeds, Feeding
  <1>4. ASSUME NEW b \in Buffers, ReturnBuffer(b) PROVE Feeds'
    BY <1>4, <1>0 DEF ReturnBuffer, BufferDone, Feeds, Feeding, HeldStep
  <1>5. ASSUME NEW b \in Buffers, ErrorReturn(b) PROVE Feeds'
    BY <1>5, <1>0 DEF ErrorReturn, BufferDone, Feeds, Feeding, InState,
       HeldStep, GivenOnce, Hands, TypeOK, BufferTypes
  <1>6. CASE StreamOn
    BY <1>6, <1>0 DEF StreamOn, Feed, Feeds, Feeding, InState, HeldStep
  <1>7. CASE StreamOff
    BY <1>7, <1>0 DEF StreamOff, QueueCancel, Feeds, Feeding, HeldStep
  <1>8. CASE Suspend
    BY <1>8, <1>0 DEF Suspend, Feeds, Feeding, HeldStep
  <1>9. CASE FeedEnd
    BY <1>9, <1>0 DEF FeedEnd, Feeds, HeldStep
  <1>10. CASE BufferOwn
    BY <1>10, <1>0 DEF BufferOwn, Feeds, Feeding, InState, HeldStep
  <1>11. CASE BufferEnqueue
    BY <1>11, <1>0 DEF BufferEnqueue, Enqueue, Feeds, Feeding, InState,
       HeldStep
  <1>12. CASE BufferUndo
    BY <1>12, <1>0 DEF BufferUndo, Feeds, Feeding, InState, HeldStep
  <1>13. CASE BufferGive
    BY <1>13, <1>0 DEF BufferGive, BufferDone, Feeds, Feeding, InState,
       HeldStep, GivenOnce, Hands, TypeOK, BufferTypes
  <1>14. CASE StartCheck
    BY <1>14, <1>0 DEF StartCheck, Feeds, Feeding, HeldStep
  <1>15. CASE StartMark
    BY <1>15, <1>0 DEF StartMark, Feeds, Feeding, HeldStep
  <1>16. CASE EngineStart
    BY <1>16, <1>0 DEF EngineStart, Feeds, Feeding, HeldStep
  <1>17. CASE EngineStarted
    BY <1>17, <1>0 DEF EngineStarted, Feeds, Feeding, HeldStep
  <1>18. CASE EngineStartFails
    BY <1>18, <1>0 DEF EngineStartFails, Close, Feeds, Feeding, HeldStep
  <1>19. CASE EngineRollback
    BY <1>19, <1>0 DEF EngineRollback, Revoke, Feeds, Feeding, HeldStep
  <1>20. CASE StartLive
    BY <1>20, <1>0 DEF StartLive, Feeds, Feeding, HeldStep
  <1>21. CASE StopFlags
    BY <1>21, <1>0 DEF StopFlags, Feeds, Feeding, HeldStep
  <1>22. CASE EngineStop
    BY <1>22, <1>0 DEF EngineStop, Close, Feeds, Feeding, HeldStep
  <1>23. CASE EngineStopped
    BY <1>23, <1>0 DEF EngineStopped, Revoke, Feeds, Feeding, HeldStep
  <1>24. CASE ReturnBegin
    BY <1>24, <1>0 DEF ReturnBegin, Feeds, Feeding, HeldStep
  <1>25. CASE StopReturn
    BY <1>25, <1>0 DEF StopReturn, QueueCancel, Feeds, Feeding, HeldStep
  <1>26. CASE MonitorSample
    BY <1>26, <1>0 DEF MonitorSample, Feeds, Feeding, InState, HeldStep
  <1>27. CASE MonitorReport
    BY <1>27, <1>0 DEF MonitorReport, Feeds, Feeding, HeldStep
  <1>28. CASE EngineServe
    BY <1>28, <1>0 DEF EngineServe, Serve, Feeds, Feeding, InState, HeldStep,
       Served, GivenOnce, Hands, TypeOK, BufferTypes
  <1>29. CASE CallbackEnter
    BY <1>29, <1>0 DEF CallbackEnter, Feeds, Feeding, InState, HeldStep
  <1>30. CASE CallbackTake
    BY <1>30, <1>0 DEF CallbackTake, Feeds, Feeding, InState, HeldStep
  <1>31. CASE CallbackPublish
    BY <1>31, <1>0 DEF CallbackPublish, BufferDone, Feeds, Feeding, InState,
       HeldStep, GivenOnce, Hands, TypeOK, BufferTypes
  <1>32. CASE CallbackAnswer
    BY <1>32, <1>0 DEF CallbackAnswer, Answer, Feeds, Feeding, InState,
       HeldStep
  <1>33. CASE EngineFill
    BY <1>33, <1>0 DEF EngineFill, Fill, Feeds, Feeding, InState, HeldStep
  <1>34. CASE EngineDrop
    BY <1>34, <1>0 DEF EngineDrop, Drop, Feeds, Feeding, InState, HeldStep
  <1>35. CASE WatchdogStop
    BY <1>35, <1>0, NobodyAssumption DEF WatchdogStop, Close, Feeds, Feeding,
       InState, GivenOnce, Hands, EngineOwned, InCallback, HeldStep, Served,
       Revoked, Locks, TypeOK, BufferTypes, ThreadTypes
  <1>36. CASE WatchdogFailed
    BY <1>36, <1>0 DEF WatchdogFailed, Revoke, Feeds, Feeding, InState,
       HeldStep
  <1>37. CASE ErrorQueue
    BY <1>37, <1>0 DEF ErrorQueue, Feeds, Feeding, InState, HeldStep
  <1>38. CASE ErrorFlags
    BY <1>38, <1>0 DEF ErrorFlags, Feeds, Feeding, InState, HeldStep
  <1>39. CASE ErrorCollect
    BY <1>39, <1>0 DEF ErrorCollect, Quiet, Feeds, Feeding, InState, HeldStep
  <1>40. CASE ErrorEnd
    BY <1>40, <1>0 DEF ErrorEnd, Feeds, Feeding, InState, HeldStep
  <1>41. CASE LoseDevice
    BY <1>41, <1>0 DEF LoseDevice, Feeds, Feeding, InState, HeldStep
  <1>42. CASE UNCHANGED vcVars
    BY <1>42, <1>0 DEF vcVars, Feeds, Feeding, InState, HeldStep
  <1> QED
    BY <1>1, <1>2, <1>3, <1>4, <1>5, <1>6, <1>7, <1>8, <1>9, <1>10, <1>11,
       <1>12, <1>13, <1>14, <1>15, <1>16, <1>17, <1>18, <1>19, <1>20, <1>21,
       <1>22, <1>23, <1>24, <1>25, <1>26, <1>27, <1>28, <1>29, <1>30, <1>31,
       <1>32, <1>33, <1>34, <1>35, <1>36, <1>37, <1>38, <1>39, <1>40, <1>41,
       <1>42
       DEF Next, Ioctl, Holder, Callback, ErrorHandler
\* A buffer of the driver is in exactly one pair of hands.
LEMMA GivenOnceKept ==
    ASSUME TypeOK, Locks, Quiet, QueuesSound, GivenOnce, EngineOwned, Feeds,
    [Next]_vcVars
    PROVE  GivenOnce'
  <1> USE DEF fqVars, engineVars, vb2Vars, flagVars, callVars, cbVars, wdVars,
          monVars
  <1>1. ASSUME NEW b \in Buffers, QBuf(b) PROVE GivenOnce'
    BY <1>1 DEF QBuf, Feed, BufferDone, GivenOnce, Hands
  <1>2. ASSUME NEW b \in Buffers, DQBuf(b) PROVE GivenOnce'
    BY <1>2 DEF DQBuf, BufferDone, GivenOnce, Hands
  <1>3. ASSUME NEW b \in Buffers, FeedBuffer(b) PROVE GivenOnce'
    BY <1>3 DEF FeedBuffer, BufferDone, GivenOnce, Hands, Feeds, Feeding,
       InState, TypeOK, BufferTypes
  <1>4. ASSUME NEW b \in Buffers, ReturnBuffer(b) PROVE GivenOnce'
    BY <1>4 DEF ReturnBuffer, BufferDone, GivenOnce, Hands, TypeOK, BufferTypes
  <1>5. ASSUME NEW b \in Buffers, ErrorReturn(b) PROVE GivenOnce'
    BY <1>5 DEF ErrorReturn, BufferDone, GivenOnce, Hands, TypeOK, BufferTypes
  <1>6. CASE StreamOn
    BY <1>6 DEF StreamOn, Feed, GivenOnce, Hands
  <1>7. CASE StreamOff
    BY <1>7 DEF StreamOff, QueueCancel, GivenOnce, Hands, Feeds, Feeding,
       Quiet, Locks, TypeOK, BufferTypes
  <1>8. CASE Suspend
    BY <1>8 DEF Suspend, GivenOnce, Hands
  <1>9. CASE FeedEnd
    BY <1>9 DEF FeedEnd, GivenOnce, Hands
  <1>10. CASE BufferOwn
    BY <1>10 DEF BufferOwn, GivenOnce, Hands
  <1>11. CASE BufferEnqueue
    BY <1>11 DEF BufferEnqueue, Enqueue, GivenOnce, Hands
  <1>12. CASE BufferUndo
    BY <1>12 DEF BufferUndo, GivenOnce, Hands
  <1>13. CASE BufferGive
    BY <1>13 DEF BufferGive, BufferDone, GivenOnce, Hands, TypeOK, BufferTypes
  <1>14. CASE StartCheck
    BY <1>14 DEF StartCheck, GivenOnce, Hands
  <1>15. CASE StartMark
    BY <1>15 DEF StartMark, GivenOnce, Hands
  <1>16. CASE EngineStart
    BY <1>16 DEF EngineStart, GivenOnce, Hands
  <1>17. CASE EngineStarted
    BY <1>17 DEF EngineStarted, GivenOnce, Hands
  <1>18. CASE EngineStartFails
    BY <1>18 DEF EngineStartFails, Close, GivenOnce, Hands
  <1>19. CASE EngineRollback
    BY <1>19 DEF EngineRollback, Revoke, GivenOnce, Hands
  <1>20. CASE StartLive
    BY <1>20 DEF StartLive, GivenOnce, Hands
  <1>21. CASE StopFlags
    BY <1>21 DEF StopFlags, GivenOnce, Hands
  <1>22. CASE EngineStop
    BY <1>22 DEF EngineStop, Close, GivenOnce, Hands
  <1>23. CASE EngineStopped
    BY <1>23 DEF EngineStopped, Revoke, GivenOnce, Hands
  <1>24. CASE ReturnBegin
    BY <1>24 DEF ReturnBegin, GivenOnce, Hands, Feeds, TypeOK, BufferTypes
  <1>25. CASE StopReturn
    BY <1>25, NobodyAssumption DEF StopReturn, QueueCancel, GivenOnce, Hands,
       Feeds, Feeding, InState, EngineOwned, InCallback, Quiet, Locks,
       TypeOK, BufferTypes, ThreadTypes
  <1>26. CASE MonitorSample
    BY <1>26 DEF MonitorSample, GivenOnce, Hands
  <1>27. CASE MonitorReport
    BY <1>27 DEF MonitorReport, GivenOnce, Hands
  <1>28. CASE EngineServe
    BY <1>28 DEF EngineServe, Serve, GivenOnce, Hands
  <1>29. CASE CallbackEnter
    BY <1>29 DEF CallbackEnter, GivenOnce, Hands
  <1>30. CASE CallbackTake
    BY <1>30 DEF CallbackTake, GivenOnce, Hands
  <1>31. CASE CallbackPublish
    BY <1>31, NobodyAssumption DEF CallbackPublish, BufferDone, GivenOnce,
       Hands, Feeds, Feeding, InState, EngineOwned, InCallback, Quiet, Locks,
       TypeOK, BufferTypes, ThreadTypes
  <1>32. CASE CallbackAnswer
    BY <1>32 DEF CallbackAnswer, Answer, GivenOnce, Hands
  <1>33. CASE EngineFill
    BY <1>33 DEF EngineFill, Fill, GivenOnce, Hands
  <1>34. CASE EngineDrop
    BY <1>34 DEF EngineDrop, Drop, GivenOnce, Hands
  <1>35. CASE WatchdogStop
    BY <1>35 DEF WatchdogStop, Close, GivenOnce, Hands
  <1>36. CASE WatchdogFailed
    BY <1>36 DEF WatchdogFailed, Revoke, GivenOnce, Hands
  <1>37. CASE ErrorQueue
    BY <1>37 DEF ErrorQueue, GivenOnce, Hands
  <1>38. CASE ErrorFlags
    BY <1>38 DEF ErrorFlags, GivenOnce, Hands
  <1>39. CASE ErrorCollect
    BY <1>39 DEF ErrorCollect, GivenOnce, Hands, Feeds, TypeOK, BufferTypes
  <1>40. CASE ErrorEnd
    BY <1>40 DEF ErrorEnd, GivenOnce, Hands
  <1>41. CASE LoseDevice
    BY <1>41 DEF LoseDevice, GivenOnce, Hands
  <1>42. CASE UNCHANGED vcVars
    BY <1>42 DEF vcVars, GivenOnce, Hands
  <1> QED
    BY <1>1, <1>2, <1>3, <1>4, <1>5, <1>6, <1>7, <1>8, <1>9, <1>10, <1>11,
       <1>12, <1>13, <1>14, <1>15, <1>16, <1>17, <1>18, <1>19, <1>20, <1>21,
       <1>22, <1>23, <1>24, <1>25, <1>26, <1>27, <1>28, <1>29, <1>30, <1>31,
       <1>32, <1>33, <1>34, <1>35, <1>36, <1>37, <1>38, <1>39, <1>40, <1>41,
       <1>42
       DEF Next, Ioctl, Holder, Callback, ErrorHandler
\* An engine that was stopped under the application is reported, and a mark on
\* the queue belongs to a stream.
LEMMA ReportsKept ==
    ASSUME TypeOK, Locks, Quiet, Reports, [Next]_vcVars
    PROVE  Reports'
  <1> USE DEF fqVars, engineVars, vb2Vars, flagVars, callVars, cbVars, wdVars,
          monVars
  <1>1. ASSUME NEW b \in Buffers, QBuf(b) PROVE Reports'
    BY <1>1 DEF QBuf, Feed, BufferDone, Reports
  <1>2. ASSUME NEW b \in Buffers, DQBuf(b) PROVE Reports'
    BY <1>2 DEF DQBuf, BufferDone, Reports
  <1>3. ASSUME NEW b \in Buffers, FeedBuffer(b) PROVE Reports'
    BY <1>3 DEF FeedBuffer, BufferDone, Reports, Feeding
  <1>4. ASSUME NEW b \in Buffers, ReturnBuffer(b) PROVE Reports'
    BY <1>4 DEF ReturnBuffer, BufferDone, Reports
  <1>5. ASSUME NEW b \in Buffers, ErrorReturn(b) PROVE Reports'
    BY <1>5 DEF ErrorReturn, BufferDone, Reports
  <1>6. CASE StreamOn
    BY <1>6 DEF StreamOn, Feed, Reports
  <1>7. CASE StreamOff
    BY <1>7 DEF StreamOff, QueueCancel, Reports, Feeding, Locks
  <1>8. CASE Suspend
    BY <1>8 DEF Suspend, Reports
  <1>9. CASE FeedEnd
    BY <1>9 DEF FeedEnd, Reports, Feeding
  <1>10. CASE BufferOwn
    BY <1>10 DEF BufferOwn, Reports, Feeding
  <1>11. CASE BufferEnqueue
    BY <1>11 DEF BufferEnqueue, Enqueue, Reports, Feeding
  <1>12. CASE BufferUndo
    BY <1>12 DEF BufferUndo, Reports, Feeding
  <1>13. CASE BufferGive
    BY <1>13 DEF BufferGive, BufferDone, Reports, Feeding
  <1>14. CASE StartCheck
    BY <1>14 DEF StartCheck, Reports, Feeding
  <1>15. CASE StartMark
    BY <1>15 DEF StartMark, Reports, Feeding
  <1>16. CASE EngineStart
    BY <1>16 DEF EngineStart, Reports, Feeding
  <1>17. CASE EngineStarted
    BY <1>17 DEF EngineStarted, Reports, Feeding, Locks
  <1>18. CASE EngineStartFails
    BY <1>18 DEF EngineStartFails, Close, Reports, Feeding
  <1>19. CASE EngineRollback
    BY <1>19 DEF EngineRollback, Revoke, Reports, Feeding
  <1>20. CASE StartLive
    BY <1>20 DEF StartLive, Reports
  <1>21. CASE StopFlags
    BY <1>21 DEF StopFlags, Reports, Feeding
  <1>22. CASE EngineStop
    BY <1>22 DEF EngineStop, Close, Reports, Feeding
  <1>23. CASE EngineStopped
    BY <1>23 DEF EngineStopped, Revoke, Reports, Feeding
  <1>24. CASE ReturnBegin
    BY <1>24 DEF ReturnBegin, Reports, Feeding
  <1>25. CASE StopReturn
    BY <1>25 DEF StopReturn, QueueCancel, Reports, Feeding, Quiet, Locks,
       TypeOK, BufferTypes, ThreadTypes
  <1>26. CASE MonitorSample
    BY <1>26 DEF MonitorSample, Reports
  <1>27. CASE MonitorReport
    BY <1>27 DEF MonitorReport, Reports
  <1>28. CASE EngineServe
    BY <1>28 DEF EngineServe, Serve, Reports
  <1>29. CASE CallbackEnter
    BY <1>29 DEF CallbackEnter, Reports
  <1>30. CASE CallbackTake
    BY <1>30 DEF CallbackTake, Reports
  <1>31. CASE CallbackPublish
    BY <1>31 DEF CallbackPublish, BufferDone, Reports
  <1>32. CASE CallbackAnswer
    BY <1>32 DEF CallbackAnswer, Answer, Reports
  <1>33. CASE EngineFill
    BY <1>33 DEF EngineFill, Fill, Reports
  <1>34. CASE EngineDrop
    BY <1>34 DEF EngineDrop, Drop, Reports
  <1>35. CASE WatchdogStop
    BY <1>35 DEF WatchdogStop, Close, Reports, Feeding, Locks
  <1>36. CASE WatchdogFailed
    BY <1>36 DEF WatchdogFailed, Revoke, Reports
  <1>37. CASE ErrorQueue
    BY <1>37 DEF ErrorQueue, Reports
  <1>38. CASE ErrorFlags
    BY <1>38 DEF ErrorFlags, Reports
  <1>39. CASE ErrorCollect
    BY <1>39 DEF ErrorCollect, Reports
  <1>40. CASE ErrorEnd
    BY <1>40 DEF ErrorEnd, Reports
  <1>41. CASE LoseDevice
    BY <1>41 DEF LoseDevice, Reports
  <1>42. CASE UNCHANGED vcVars
    BY <1>42 DEF vcVars, Reports
  <1> QED
    BY <1>1, <1>2, <1>3, <1>4, <1>5, <1>6, <1>7, <1>8, <1>9, <1>10, <1>11,
       <1>12, <1>13, <1>14, <1>15, <1>16, <1>17, <1>18, <1>19, <1>20, <1>21,
       <1>22, <1>23, <1>24, <1>25, <1>26, <1>27, <1>28, <1>29, <1>30, <1>31,
       <1>32, <1>33, <1>34, <1>35, <1>36, <1>37, <1>38, <1>39, <1>40, <1>41,
       <1>42
       DEF Next, Ioctl, Holder, Callback, ErrorHandler
\* Every flag stays a Boolean.
LEMMA FlagsTyped ==
    ASSUME TypeOK, [Next]_vcVars
    PROVE  FlagTypes'
  <1> USE DEF fqVars, engineVars, vb2Vars, flagVars, callVars, cbVars, wdVars,
          monVars
  <1>1. ASSUME NEW b \in Buffers, QBuf(b) PROVE FlagTypes'
    BY <1>1 DEF QBuf, Feed, BufferDone, FlagTypes, TypeOK
  <1>2. ASSUME NEW b \in Buffers, DQBuf(b) PROVE FlagTypes'
    BY <1>2 DEF DQBuf, BufferDone, FlagTypes, TypeOK
  <1>3. ASSUME NEW b \in Buffers, FeedBuffer(b) PROVE FlagTypes'
    BY <1>3 DEF FeedBuffer, BufferDone, FlagTypes, TypeOK
  <1>4. ASSUME NEW b \in Buffers, ReturnBuffer(b) PROVE FlagTypes'
    BY <1>4 DEF ReturnBuffer, BufferDone, FlagTypes, TypeOK
  <1>5. ASSUME NEW b \in Buffers, ErrorReturn(b) PROVE FlagTypes'
    BY <1>5 DEF ErrorReturn, BufferDone, FlagTypes, TypeOK
  <1>6. CASE StreamOn
    BY <1>6 DEF StreamOn, Feed, FlagTypes, TypeOK
  <1>7. CASE StreamOff
    BY <1>7 DEF StreamOff, QueueCancel, FlagTypes, TypeOK
  <1>8. CASE Suspend
    BY <1>8 DEF Suspend, FlagTypes, TypeOK
  <1>9. CASE FeedEnd
    BY <1>9 DEF FeedEnd, FlagTypes, TypeOK
  <1>10. CASE BufferOwn
    BY <1>10 DEF BufferOwn, FlagTypes, TypeOK
  <1>11. CASE BufferEnqueue
    BY <1>11 DEF BufferEnqueue, Enqueue, FlagTypes, TypeOK
  <1>12. CASE BufferUndo
    BY <1>12 DEF BufferUndo, FlagTypes, TypeOK
  <1>13. CASE BufferGive
    BY <1>13 DEF BufferGive, BufferDone, FlagTypes, TypeOK
  <1>14. CASE StartCheck
    BY <1>14 DEF StartCheck, FlagTypes, TypeOK
  <1>15. CASE StartMark
    BY <1>15 DEF StartMark, FlagTypes, TypeOK
  <1>16. CASE EngineStart
    BY <1>16 DEF EngineStart, FlagTypes, TypeOK
  <1>17. CASE EngineStarted
    BY <1>17 DEF EngineStarted, FlagTypes, TypeOK
  <1>18. CASE EngineStartFails
    BY <1>18 DEF EngineStartFails, Close, FlagTypes, TypeOK
  <1>19. CASE EngineRollback
    BY <1>19 DEF EngineRollback, Revoke, FlagTypes, TypeOK
  <1>20. CASE StartLive
    BY <1>20 DEF StartLive, FlagTypes, TypeOK
  <1>21. CASE StopFlags
    BY <1>21 DEF StopFlags, FlagTypes, TypeOK
  <1>22. CASE EngineStop
    BY <1>22 DEF EngineStop, Close, FlagTypes, TypeOK
  <1>23. CASE EngineStopped
    BY <1>23 DEF EngineStopped, Revoke, FlagTypes, TypeOK
  <1>24. CASE ReturnBegin
    BY <1>24 DEF ReturnBegin, FlagTypes, TypeOK
  <1>25. CASE StopReturn
    <2>1. /\ UNCHANGED <<closing, running, failed, lost, starting, streaming,
                         compat, monLost>>
          /\ \/ vbStreaming' = FALSE /\ started' = FALSE /\ qerror' = FALSE
             \/ started' = FALSE /\ UNCHANGED <<vbStreaming, qerror>>
             \/ UNCHANGED <<vbStreaming, started, qerror>>
      BY <1>25 DEF StopReturn, QueueCancel, TypeOK, ThreadTypes
    <2> QED BY <2>1 DEF FlagTypes, TypeOK
  <1>26. CASE MonitorSample
    BY <1>26 DEF MonitorSample, FlagTypes, TypeOK
  <1>27. CASE MonitorReport
    BY <1>27 DEF MonitorReport, FlagTypes, TypeOK
  <1>28. CASE EngineServe
    BY <1>28 DEF EngineServe, Serve, FlagTypes, TypeOK
  <1>29. CASE CallbackEnter
    BY <1>29 DEF CallbackEnter, FlagTypes, TypeOK
  <1>30. CASE CallbackTake
    BY <1>30 DEF CallbackTake, FlagTypes, TypeOK
  <1>31. CASE CallbackPublish
    BY <1>31 DEF CallbackPublish, BufferDone, FlagTypes, TypeOK
  <1>32. CASE CallbackAnswer
    BY <1>32 DEF CallbackAnswer, Answer, FlagTypes, TypeOK
  <1>33. CASE EngineFill
    BY <1>33 DEF EngineFill, Fill, FlagTypes, TypeOK
  <1>34. CASE EngineDrop
    BY <1>34 DEF EngineDrop, Drop, FlagTypes, TypeOK
  <1>35. CASE WatchdogStop
    BY <1>35 DEF WatchdogStop, Close, FlagTypes, TypeOK
  <1>36. CASE WatchdogFailed
    BY <1>36 DEF WatchdogFailed, Revoke, FlagTypes, TypeOK
  <1>37. CASE ErrorQueue
    BY <1>37 DEF ErrorQueue, FlagTypes, TypeOK
  <1>38. CASE ErrorFlags
    BY <1>38 DEF ErrorFlags, FlagTypes, TypeOK
  <1>39. CASE ErrorCollect
    BY <1>39 DEF ErrorCollect, FlagTypes, TypeOK
  <1>40. CASE ErrorEnd
    BY <1>40 DEF ErrorEnd, FlagTypes, TypeOK
  <1>41. CASE LoseDevice
    BY <1>41 DEF LoseDevice, FlagTypes, TypeOK
  <1>42. CASE UNCHANGED vcVars
    BY <1>42 DEF vcVars, FlagTypes, TypeOK
  <1> QED
    BY <1>1, <1>2, <1>3, <1>4, <1>5, <1>6, <1>7, <1>8, <1>9, <1>10, <1>11,
       <1>12, <1>13, <1>14, <1>15, <1>16, <1>17, <1>18, <1>19, <1>20, <1>21,
       <1>22, <1>23, <1>24, <1>25, <1>26, <1>27, <1>28, <1>29, <1>30, <1>31,
       <1>32, <1>33, <1>34, <1>35, <1>36, <1>37, <1>38, <1>39, <1>40, <1>41,
       <1>42
       DEF Next, Ioctl, Holder, Callback, ErrorHandler
\* Every thread stays at one of its places.
LEMMA ThreadsTyped ==
    ASSUME TypeOK, [Next]_vcVars
    PROVE  ThreadTypes'
  <1> USE DEF fqVars, engineVars, vb2Vars, flagVars, callVars, cbVars, wdVars,
          monVars
  <1>1. ASSUME NEW b \in Buffers, QBuf(b) PROVE ThreadTypes'
    BY <1>1 DEF QBuf, Feed, BufferDone, ThreadTypes, CallPlaces, TypeOK
  <1>2. ASSUME NEW b \in Buffers, DQBuf(b) PROVE ThreadTypes'
    BY <1>2 DEF DQBuf, BufferDone, ThreadTypes, CallPlaces, TypeOK
  <1>3. ASSUME NEW b \in Buffers, FeedBuffer(b) PROVE ThreadTypes'
    BY <1>3 DEF FeedBuffer, BufferDone, ThreadTypes, CallPlaces, TypeOK
  <1>4. ASSUME NEW b \in Buffers, ReturnBuffer(b) PROVE ThreadTypes'
    BY <1>4 DEF ReturnBuffer, BufferDone, ThreadTypes, CallPlaces, TypeOK
  <1>5. ASSUME NEW b \in Buffers, ErrorReturn(b) PROVE ThreadTypes'
    BY <1>5 DEF ErrorReturn, BufferDone, ThreadTypes, CallPlaces, TypeOK
  <1>6. CASE StreamOn
    BY <1>6 DEF StreamOn, Feed, ThreadTypes, CallPlaces, TypeOK
  <1>7. CASE StreamOff
    BY <1>7 DEF StreamOff, QueueCancel, ThreadTypes, CallPlaces, TypeOK
  <1>8. CASE Suspend
    BY <1>8 DEF Suspend, ThreadTypes, CallPlaces, TypeOK
  <1>9. CASE FeedEnd
    BY <1>9 DEF FeedEnd, ThreadTypes, CallPlaces, TypeOK
  <1>10. CASE BufferOwn
    BY <1>10 DEF BufferOwn, ThreadTypes, CallPlaces, TypeOK
  <1>11. CASE BufferEnqueue
    BY <1>11 DEF BufferEnqueue, Enqueue, ThreadTypes, CallPlaces, TypeOK
  <1>12. CASE BufferUndo
    BY <1>12 DEF BufferUndo, ThreadTypes, CallPlaces, TypeOK
  <1>13. CASE BufferGive
    BY <1>13 DEF BufferGive, BufferDone, ThreadTypes, CallPlaces, TypeOK
  <1>14. CASE StartCheck
    BY <1>14 DEF StartCheck, ThreadTypes, CallPlaces, TypeOK
  <1>15. CASE StartMark
    BY <1>15 DEF StartMark, ThreadTypes, CallPlaces, TypeOK
  <1>16. CASE EngineStart
    BY <1>16 DEF EngineStart, ThreadTypes, CallPlaces, TypeOK
  <1>17. CASE EngineStarted
    BY <1>17 DEF EngineStarted, ThreadTypes, CallPlaces, TypeOK
  <1>18. CASE EngineStartFails
    BY <1>18 DEF EngineStartFails, Close, ThreadTypes, CallPlaces, TypeOK
  <1>19. CASE EngineRollback
    BY <1>19 DEF EngineRollback, Revoke, ThreadTypes, CallPlaces, TypeOK
  <1>20. CASE StartLive
    BY <1>20 DEF StartLive, ThreadTypes, CallPlaces, TypeOK
  <1>21. CASE StopFlags
    BY <1>21 DEF StopFlags, ThreadTypes, CallPlaces, TypeOK
  <1>22. CASE EngineStop
    BY <1>22 DEF EngineStop, Close, ThreadTypes, CallPlaces, TypeOK
  <1>23. CASE EngineStopped
    BY <1>23 DEF EngineStopped, Revoke, ThreadTypes, CallPlaces, TypeOK
  <1>24. CASE ReturnBegin
    BY <1>24 DEF ReturnBegin, ThreadTypes, CallPlaces, TypeOK
  <1>25. CASE StopReturn
    BY <1>25 DEF StopReturn, QueueCancel, ThreadTypes, CallPlaces, TypeOK
  <1>26. CASE MonitorSample
    BY <1>26 DEF MonitorSample, ThreadTypes, CallPlaces, TypeOK
  <1>27. CASE MonitorReport
    BY <1>27 DEF MonitorReport, ThreadTypes, CallPlaces, TypeOK
  <1>28. CASE EngineServe
    BY <1>28 DEF EngineServe, Serve, ThreadTypes, CallPlaces, TypeOK
  <1>29. CASE CallbackEnter
    BY <1>29 DEF CallbackEnter, ThreadTypes, CallPlaces, TypeOK
  <1>30. CASE CallbackTake
    BY <1>30 DEF CallbackTake, ThreadTypes, CallPlaces, TypeOK
  <1>31. CASE CallbackPublish
    BY <1>31 DEF CallbackPublish, BufferDone, ThreadTypes, CallPlaces, TypeOK
  <1>32. CASE CallbackAnswer
    BY <1>32 DEF CallbackAnswer, Answer, ThreadTypes, CallPlaces, TypeOK
  <1>33. CASE EngineFill
    BY <1>33 DEF EngineFill, Fill, ThreadTypes, CallPlaces, TypeOK
  <1>34. CASE EngineDrop
    BY <1>34 DEF EngineDrop, Drop, ThreadTypes, CallPlaces, TypeOK
  <1>35. CASE WatchdogStop
    BY <1>35 DEF WatchdogStop, Close, ThreadTypes, CallPlaces, TypeOK
  <1>36. CASE WatchdogFailed
    BY <1>36 DEF WatchdogFailed, Revoke, ThreadTypes, CallPlaces, TypeOK
  <1>37. CASE ErrorQueue
    BY <1>37 DEF ErrorQueue, ThreadTypes, CallPlaces, TypeOK
  <1>38. CASE ErrorFlags
    BY <1>38 DEF ErrorFlags, ThreadTypes, CallPlaces, TypeOK
  <1>39. CASE ErrorCollect
    BY <1>39 DEF ErrorCollect, ThreadTypes, CallPlaces, TypeOK
  <1>40. CASE ErrorEnd
    BY <1>40 DEF ErrorEnd, ThreadTypes, CallPlaces, TypeOK
  <1>41. CASE LoseDevice
    BY <1>41 DEF LoseDevice, ThreadTypes, CallPlaces, TypeOK
  <1>42. CASE UNCHANGED vcVars
    BY <1>42 DEF vcVars, ThreadTypes, CallPlaces, TypeOK
  <1> QED
    BY <1>1, <1>2, <1>3, <1>4, <1>5, <1>6, <1>7, <1>8, <1>9, <1>10, <1>11,
       <1>12, <1>13, <1>14, <1>15, <1>16, <1>17, <1>18, <1>19, <1>20, <1>21,
       <1>22, <1>23, <1>24, <1>25, <1>26, <1>27, <1>28, <1>29, <1>30, <1>31,
       <1>32, <1>33, <1>34, <1>35, <1>36, <1>37, <1>38, <1>39, <1>40, <1>41,
       <1>42
       DEF Next, Ioctl, Holder, Callback, ErrorHandler
\* Every buffer in someone's hands is a buffer.
LEMMA BuffersTyped ==
    ASSUME TypeOK, Locks, Quiet, QueuesSound, GivenOnce, EngineOwned, Feeds,
    [Next]_vcVars
    PROVE  BufferTypes'
  <1> USE DEF fqVars, engineVars, vb2Vars, flagVars, callVars, cbVars, wdVars,
          monVars
  <1>0. HeldStep
    BY HeldSteps
  <1>00. Held' \subseteq Buffers /\ (Served => serving' \in Buffers)
    BY <1>0 DEF HeldStep, TypeOK, BufferTypes, Locks, Feeds
  <1>1. ASSUME NEW b \in Buffers, QBuf(b) PROVE BufferTypes'
    BY <1>1, <1>00 DEF QBuf, Feed, BufferDone, InState, TypeOK, BufferTypes
  <1>2. ASSUME NEW b \in Buffers, DQBuf(b) PROVE BufferTypes'
    BY <1>2, <1>00 DEF DQBuf, BufferDone, TypeOK, BufferTypes
  <1>3. ASSUME NEW b \in Buffers, FeedBuffer(b) PROVE BufferTypes'
    BY <1>3, <1>00 DEF FeedBuffer, BufferDone, TypeOK, BufferTypes
  <1>4. ASSUME NEW b \in Buffers, ReturnBuffer(b) PROVE BufferTypes'
    BY <1>4, <1>00 DEF ReturnBuffer, BufferDone, TypeOK, BufferTypes
  <1>5. ASSUME NEW b \in Buffers, ErrorReturn(b) PROVE BufferTypes'
    BY <1>5, <1>00 DEF ErrorReturn, BufferDone, TypeOK, BufferTypes
  <1>6. CASE StreamOn
    BY <1>6, <1>00 DEF StreamOn, Feed, InState, TypeOK, BufferTypes
  <1>7. CASE StreamOff
    BY <1>7, <1>00 DEF StreamOff, QueueCancel, TypeOK, BufferTypes
  <1>8. CASE Suspend
    BY <1>8, <1>00 DEF Suspend, TypeOK, BufferTypes
  <1>9. CASE FeedEnd
    BY <1>9, <1>00 DEF FeedEnd, TypeOK, BufferTypes
  <1>10. CASE BufferOwn
    BY <1>10, <1>00 DEF BufferOwn, TypeOK, BufferTypes, EngineOwned, Locks,
       Feeds, Served
  <1>11. CASE BufferEnqueue
    BY <1>11, <1>00 DEF BufferEnqueue, Enqueue, TypeOK, BufferTypes
  <1>12. CASE BufferUndo
    BY <1>12, <1>00 DEF BufferUndo, TypeOK, BufferTypes
  <1>13. CASE BufferGive
    BY <1>13, <1>00 DEF BufferGive, BufferDone, TypeOK, BufferTypes
  <1>14. CASE StartCheck
    BY <1>14, <1>00 DEF StartCheck, TypeOK, BufferTypes
  <1>15. CASE StartMark
    BY <1>15, <1>00 DEF StartMark, TypeOK, BufferTypes
  <1>16. CASE EngineStart
    BY <1>16, <1>00 DEF EngineStart, TypeOK, BufferTypes
  <1>17. CASE EngineStarted
    BY <1>17, <1>00 DEF EngineStarted, TypeOK, BufferTypes
  <1>18. CASE EngineStartFails
    BY <1>18, <1>00 DEF EngineStartFails, Close, TypeOK, BufferTypes
  <1>19. CASE EngineRollback
    BY <1>19, <1>00 DEF EngineRollback, Revoke, TypeOK, BufferTypes
  <1>20. CASE StartLive
    BY <1>20, <1>00 DEF StartLive, TypeOK, BufferTypes
  <1>21. CASE StopFlags
    BY <1>21, <1>00 DEF StopFlags, TypeOK, BufferTypes
  <1>22. CASE EngineStop
    BY <1>22, <1>00 DEF EngineStop, Close, TypeOK, BufferTypes
  <1>23. CASE EngineStopped
    BY <1>23, <1>00 DEF EngineStopped, Revoke, TypeOK, BufferTypes
  <1>24. CASE ReturnBegin
    BY <1>24, <1>00 DEF ReturnBegin, TypeOK, BufferTypes
  <1>25. CASE StopReturn
    BY <1>25, <1>00 DEF StopReturn, QueueCancel, ThreadTypes, TypeOK,
       BufferTypes
  <1>26. CASE MonitorSample
    BY <1>26, <1>00 DEF MonitorSample, TypeOK, BufferTypes
  <1>27. CASE MonitorReport
    BY <1>27, <1>00 DEF MonitorReport, TypeOK, BufferTypes
  <1>28. CASE EngineServe
    BY <1>28, <1>00 DEF EngineServe, Serve, TypeOK, BufferTypes, Served
  <1>29. CASE CallbackEnter
    BY <1>29, <1>00 DEF CallbackEnter, TypeOK, BufferTypes
  <1>30. CASE CallbackTake
    BY <1>30, <1>00 DEF CallbackTake, TypeOK, BufferTypes
  <1>31. CASE CallbackPublish
    BY <1>31, <1>00 DEF CallbackPublish, BufferDone, TypeOK, BufferTypes,
       EngineOwned, Locks, Feeds, Served
  <1>32. CASE CallbackAnswer
    BY <1>32, <1>00 DEF CallbackAnswer, Answer, TypeOK, BufferTypes
  <1>33. CASE EngineFill
    BY <1>33, <1>00 DEF EngineFill, Fill, TypeOK, BufferTypes
  <1>34. CASE EngineDrop
    BY <1>34, <1>00 DEF EngineDrop, Drop, TypeOK, BufferTypes
  <1>35. CASE WatchdogStop
    BY <1>35, <1>00 DEF WatchdogStop, Close, TypeOK, BufferTypes
  <1>36. CASE WatchdogFailed
    BY <1>36, <1>00 DEF WatchdogFailed, Revoke, TypeOK, BufferTypes
  <1>37. CASE ErrorQueue
    BY <1>37, <1>00 DEF ErrorQueue, TypeOK, BufferTypes
  <1>38. CASE ErrorFlags
    BY <1>38, <1>00 DEF ErrorFlags, TypeOK, BufferTypes
  <1>39. CASE ErrorCollect
    BY <1>39, <1>00 DEF ErrorCollect, TypeOK, BufferTypes
  <1>40. CASE ErrorEnd
    BY <1>40, <1>00 DEF ErrorEnd, TypeOK, BufferTypes
  <1>41. CASE LoseDevice
    BY <1>41, <1>00 DEF LoseDevice, TypeOK, BufferTypes
  <1>42. CASE UNCHANGED vcVars
    BY <1>42, <1>00 DEF vcVars, TypeOK, BufferTypes
  <1> QED
    BY <1>1, <1>2, <1>3, <1>4, <1>5, <1>6, <1>7, <1>8, <1>9, <1>10, <1>11,
       <1>12, <1>13, <1>14, <1>15, <1>16, <1>17, <1>18, <1>19, <1>20, <1>21,
       <1>22, <1>23, <1>24, <1>25, <1>26, <1>27, <1>28, <1>29, <1>30, <1>31,
       <1>32, <1>33, <1>34, <1>35, <1>36, <1>37, <1>38, <1>39, <1>40, <1>41,
       <1>42
       DEF Next, Ioctl, Holder, Callback, ErrorHandler

-----------------------------------------------------------------------------
(* The inductive invariant and what follows from it *)

\* The inductive invariant.
CaptureInv ==
    /\ TypeOK /\ QueuesSound /\ Locks /\ Quiet
    /\ GivenOnce /\ EngineOwned /\ Feeds /\ Reports

\* The invariant holds initially.
LEMMA InvInit == Init => CaptureInv
  <1> SUFFICES ASSUME Init PROVE CaptureInv
    OBVIOUS
  <1>0. 1 .. Len(<<>>) = {} /\ <<>> \in Seq(Buffers)
    OBVIOUS
  <1>1. Held = {} /\ QueuesSound
    BY <1>0 DEF Init, FQInit, Held, InSequence, QueuesSound, Once
  <1>2. FlagTypes
    BY DEF Init, FQInit, FlagTypes
  <1>3. BufferTypes /\ ThreadTypes
    BY <1>1 DEF Init, FQInit, BufferTypes, ThreadTypes, CallPlaces
  <1>4. Locks /\ Quiet /\ Reports
    BY <1>1 DEF Init, FQInit, Locks, Quiet, Reports, Feeding
  <1>5. GivenOnce /\ EngineOwned /\ Feeds
    BY <1>1 DEF Init, FQInit, GivenOnce, Hands, EngineOwned, InCallback, Feeds,
       Feeding
  <1> QED BY <1>1, <1>2, <1>3, <1>4, <1>5 DEF CaptureInv, TypeOK

\* Every step keeps it.
LEMMA InvNext == CaptureInv /\ [Next]_vcVars => CaptureInv'
  <1> SUFFICES ASSUME CaptureInv, [Next]_vcVars PROVE CaptureInv'
    OBVIOUS
  <1> USE DEF CaptureInv
  <1>1. TypeOK'
    BY FlagsTyped, ThreadsTyped, BuffersTyped DEF TypeOK
  <1>2. QueuesSound'
    BY HeldSteps DEF HeldStep
  <1>3. Locks' /\ Quiet' /\ Reports'
    BY LocksKept, QuietKept, ReportsKept
  <1>4. GivenOnce' /\ EngineOwned' /\ Feeds'
    BY GivenOnceKept, EngineOwnedKept, FeedsKept
  <1> QED BY <1>1, <1>2, <1>3, <1>4

\* A buffer vb2 gave to the driver is in exactly one pair of hands.
LEMMA OneOwnerFollows == CaptureInv => OneOwner
  <1> SUFFICES ASSUME CaptureInv PROVE OneOwner
    OBVIOUS
  <1> DEFINE pub == IF cbPc = "publish" THEN {serving} ELSE {}
             hand == IF call \in {"own", "give"} THEN {cur} ELSE {}
  <1>1. Len(Parties) = 5
    BY DEF Parties
  <1>2. /\ Parties[1] = owned /\ Parties[2] = giveBack /\ Parties[3] = wdList
        /\ Parties[4] = pub /\ Parties[5] = hand
    BY DEF Parties
  <1>3. 1 .. 5 = {1, 2, 3, 4, 5}
    OBVIOUS
  <1>4. UNION {Parties[i] : i \in 1 .. Len(Parties)}
        = owned \cup giveBack \cup wdList \cup pub \cup hand
    BY <1>1, <1>2, <1>3
  <1>5. pub \subseteq Buffers /\ hand \subseteq Buffers
    BY NobodyAssumption DEF CaptureInv, TypeOK, BufferTypes, Locks, Feeds,
       GivenOnce, EngineOwned
  <1>6. InState("active") = owned \cup giveBack \cup wdList \cup pub \cup hand
    BY <1>5 DEF CaptureInv, GivenOnce, Hands, InState, TypeOK, BufferTypes
  <1>7. /\ owned \cap giveBack = {} /\ owned \cap wdList = {} /\ owned \cap pub = {}
        /\ owned \cap hand = {} /\ giveBack \cap wdList = {}
        /\ giveBack \cap pub = {} /\ giveBack \cap hand = {}
        /\ wdList \cap pub = {} /\ wdList \cap hand = {} /\ pub \cap hand = {}
    BY <1>5 DEF CaptureInv, GivenOnce, Hands, TypeOK, BufferTypes
  <1> HIDE DEF pub, hand
  <1>8. ASSUME NEW i \in 1 .. Len(Parties), NEW j \in 1 .. Len(Parties), i # j
        PROVE  Parties[i] \cap Parties[j] = {}
    <2>1. i \in {1, 2, 3, 4, 5} /\ j \in {1, 2, 3, 4, 5}
      BY <1>1, <1>3
    <2> QED BY <1>2, <1>7, <1>8, <2>1
  <1> QED BY <1>4, <1>6, <1>8 DEF OneOwner

\* The invariant implies the other properties.
LEMMA CaptureFollows ==
    CaptureInv => /\ EngineHoldsActive /\ CleanStop /\ DeadStreamReported
                  /\ ErrorCleared
  <1> SUFFICES ASSUME CaptureInv
               PROVE  /\ EngineHoldsActive /\ CleanStop /\ DeadStreamReported
                      /\ ErrorCleared
    OBVIOUS
  <1> USE DEF CaptureInv
  <1>1. EngineHoldsActive
    BY DEF EngineHoldsActive, EngineOwned, GivenOnce, Hands, InState, TypeOK,
       BufferTypes
  <1>2. ASSUME call = "free", ~started
        PROVE  /\ InState("active") = {} /\ Held = {} /\ serving = Nobody
               /\ ~running /\ ~failed /\ ~closing
    <2>1. /\ ~running /\ wdPc = "idle" /\ ~closing /\ Held = {} /\ owned = {}
          /\ ~failed /\ serving = Nobody /\ cbPc = "idle"
      BY <1>2 DEF Locks, Quiet, Feeding
    <2>2. giveBack = {} /\ wdList = {}
      BY <1>2, <2>1 DEF Feeds
    <2> QED BY <1>2, <2>1, <2>2 DEF GivenOnce, Hands, InState
  <1>3. CleanStop
    BY <1>2 DEF CleanStop
  <1>4. DeadStreamReported
    BY DEF DeadStreamReported, Reports, Feeding, Locks
  <1>5. ErrorCleared
    BY DEF ErrorCleared, Reports
  <1> QED BY <1>1, <1>3, <1>4, <1>5

\* The invariant holds in every reachable state.
THEOREM InvHolds == Spec => []CaptureInv
  BY InvInit, InvNext, PTL DEF Spec

\* Every flag, buffer and thread of the V4L2 capture queue keeps its type.
THEOREM CaptureTyped == Spec => []TypeOK
  <1>1. CaptureInv => TypeOK
    BY DEF CaptureInv
  <1> QED BY <1>1, InvHolds, PTL

\* Queue call, callback, stop and error handler give a buffer back exactly
\* once, however they interleave.
THEOREM BuffersGivenOnce == Spec => []OneOwner
  BY InvHolds, OneOwnerFollows, PTL

\* The engine, and with it the hardware, never holds a buffer the application
\* may use.
THEOREM EngineHoldsOwned == Spec => []EngineHoldsActive
  BY InvHolds, CaptureFollows, PTL

\* After a stop or a failed start nothing is left over.
THEOREM StopIsClean == Spec => []CleanStop
  BY InvHolds, CaptureFollows, PTL

\* An application is not left waiting for an engine that was stopped.
THEOREM DeadStreamsReported == Spec => []DeadStreamReported
  BY InvHolds, CaptureFollows, PTL

\* The error mark of one stream never reaches the next.
THEOREM MarksCleared == Spec => []ErrorCleared
  BY InvHolds, CaptureFollows, PTL

=============================================================================
