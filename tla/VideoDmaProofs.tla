--------------------------- MODULE VideoDmaProofs ---------------------------
(***************************************************************************)
(* Theorems about VideoDma for every number of buffers and channels, every *)
(* number of stray completions, with and without a surprise removal:       *)
(* where the buffers are and who refers to them, that no wakeup of the     *)
(* completion work or of the watchdog is lost, and what a stop leaves      *)
(* behind.                                                                 *)
(***************************************************************************)
EXTENDS VideoDma, TLAPS, SequenceTheorems

-----------------------------------------------------------------------------
(* Submission *)

\* The turn of a channel is one of the next NChannels submissions, and the
\* slot of a submission is a channel.
LEMMA TurnRange ==
    ASSUME last \in -1 .. NChannels - 1
    PROVE  /\ \A c \in Channels : Turn(c) \in 1 .. NChannels
           /\ \A i \in 1 .. NChannels : Slot(i) \in Channels
  BY ChannelsAssumption DEF Channels, Turn, Slot

\* No two channels share a turn.
LEMMA TurnInjective ==
    ASSUME last \in -1 .. NChannels - 1,
           NEW c \in Channels, NEW d \in Channels, Turn(c) = Turn(d)
    PROVE  c = d
  BY ChannelsAssumption DEF Channels, Turn

\* One channel is next.
LEMMA TurnOne ==
    ASSUME NEW l \in -1 .. NChannels - 1
    PROVE  \E c \in Channels : (IF c > l THEN c - l ELSE c - l + NChannels) = 1
  <1>1. CASE l + 1 < NChannels
    <2>1. l + 1 \in Channels
      BY <1>1, ChannelsAssumption DEF Channels
    <2> QED BY <2>1, ChannelsAssumption
  <1>2. CASE l + 1 = NChannels
    <2>1. 0 \in Channels
      BY ChannelsAssumption DEF Channels
    <2> QED BY <1>2, <2>1, ChannelsAssumption
  <1> QED BY <1>1, <1>2, ChannelsAssumption

\* What a submission leaves has the types of what it was given.
LEMMA SubmitTyped ==
    ASSUME NEW rdy \in Seq(Buffers),
           NEW act \in [Channels -> Buffers \cup {NoBuf}],
           NEW st \in [Buffers -> BufferStates],
           NEW ch \in [Channels -> {"idle", "armed", "filled"}],
           last \in -1 .. NChannels - 1,
           SubmitReady(rdy, act, st, ch)
    PROVE  /\ ready' \in Seq(Buffers)
           /\ active' \in [Channels -> Buffers \cup {NoBuf}]
           /\ state' \in [Buffers -> BufferStates]
           /\ hwChan' \in [Channels -> {"idle", "armed", "filled"}]
           /\ last' \in -1 .. NChannels - 1
           /\ lost' \in BOOLEAN
  <1>1. PICK k \in 0 .. NChannels :
          /\ SubmitCount(k, rdy, act)
          /\ ready' = SubSeq(rdy, k + 1, Len(rdy))
          /\ active' = [c \in Channels |->
                          IF Turn(c) <= k THEN rdy[Turn(c)] ELSE act[c]]
          /\ state' = [b \in Buffers |->
                          IF \E i \in 1 .. k : rdy[i] = b THEN "active"
                          ELSE st[b]]
          /\ hwChan' = [c \in Channels |->
                          IF Turn(c) <= k THEN "armed" ELSE ch[c]]
          /\ last' = IF k = 0 THEN last ELSE Slot(k)
    BY DEF SubmitReady
  <1>2. k <= Len(rdy) /\ lost' \in BOOLEAN
    BY <1>1 DEF SubmitCount
  <1>3. ready' \in Seq(Buffers)
    BY <1>1, <1>2, SubSeqProperties, LenProperties, ChannelsAssumption
  <1>4. active' \in [Channels -> Buffers \cup {NoBuf}]
    <2>1. ASSUME NEW c \in Channels, Turn(c) <= k
          PROVE  rdy[Turn(c)] \in Buffers
      BY <2>1, <1>2, TurnRange, ElementOfSeq, LenProperties
    <2> QED BY <2>1, <1>1
  <1>5. last' \in -1 .. NChannels - 1
    <2>1. CASE k = 0
      BY <1>1, <2>1
    <2>2. CASE k # 0
      <3>1. k \in 1 .. NChannels
        BY <2>2
      <3>2. Slot(k) \in Channels
        BY <3>1, TurnRange
      <3> QED BY <1>1, <2>2, <3>2 DEF Channels
    <2> QED BY <2>1, <2>2
  <1> QED BY <1>1, <1>2, <1>3, <1>4, <1>5 DEF BufferStates

\* The loop of submit_ready_locked ends, on a device that is not lost, only
\* when nothing is ready or the next channel is busy.
LEMMA SubmitExhausts ==
    ASSUME NEW rdy \in Seq(Buffers),
           NEW act \in [Channels -> Buffers \cup {NoBuf}],
           NEW st, NEW ch,
           last \in -1 .. NChannels - 1,
           SubmitReady(rdy, act, st, ch),
           ~lost'
    PROVE  ready' = <<>> \/ ~NextFree(1, active)'
  <1>1. PICK k \in 0 .. NChannels :
          /\ SubmitCount(k, rdy, act)
          /\ ready' = SubSeq(rdy, k + 1, Len(rdy))
          /\ active' = [c \in Channels |->
                          IF Turn(c) <= k THEN rdy[Turn(c)] ELSE act[c]]
          /\ last' = IF k = 0 THEN last ELSE Slot(k)
    BY DEF SubmitReady
  <1>2. /\ k <= Len(rdy)
        /\ NextFree(k, act)
        /\ ~(k < Len(rdy) /\ k < NChannels /\ NextFree(k + 1, act))
    BY <1>1 DEF SubmitCount
  <1>3. Len(rdy) \in Nat /\ \A i \in 1 .. Len(rdy) : rdy[i] \in Buffers
    BY ElementOfSeq, LenProperties
  <1>4. CASE k = Len(rdy)
    BY <1>1, <1>3, <1>4, SubSeqEmpty
  <1>5. CASE k = NChannels /\ k <= Len(rdy)
    <2>1. last' \in -1 .. NChannels - 1
      BY <1>1, <1>5, TurnRange, ChannelsAssumption DEF Channels
    <2>2. PICK c \in Channels : Turn(c)' = 1
      BY <2>1, TurnOne DEF Turn
    <2>3. active'[c] = rdy[Turn(c)] /\ Turn(c) \in 1 .. Len(rdy)
      BY <1>1, <1>3, <1>5, TurnRange
    <2>4. active'[c] # NoBuf
      BY <2>3, <1>3, NoBufAssumption
    <2> QED BY <2>2, <2>4 DEF NextFree, Channels
  <1>6. CASE k < Len(rdy) /\ k < NChannels /\ ~NextFree(k + 1, act)
    <2>1. PICK c \in Channels : Turn(c) <= k + 1 /\ act[c] # NoBuf
      BY <1>6 DEF NextFree
    <2>2. Turn(c) = k + 1
      BY <2>1, <1>2, TurnRange DEF NextFree
    <2>3. Turn(c)' = 1
      BY <2>2, <1>1, <1>6, ChannelsAssumption DEF Turn, Slot, Channels
    <2>4. active'[c] # NoBuf
      BY <2>1, <2>2, <1>1
    <2> QED BY <2>3, <2>4 DEF NextFree, Channels
  <1> QED BY <1>2, <1>3, <1>4, <1>5, <1>6, ChannelsAssumption

\* Each of the next NChannels submissions has its channel.
LEMMA TurnOfSlot ==
    ASSUME last \in -1 .. NChannels - 1, NEW i \in 1 .. NChannels
    PROVE  Slot(i) \in Channels /\ Turn(Slot(i)) = i
  BY ChannelsAssumption DEF Channels, Turn, Slot

\* A submission moves buffers from the ready list to free channels and leaves
\* every buffer placed.
LEMMA SubmitPlaced ==
    ASSUME NEW rdy \in Seq(Buffers), NEW dn \in Seq(Buffers),
           NEW act \in [Channels -> Buffers \cup {NoBuf}],
           NEW st \in [Buffers -> BufferStates],
           NEW ch,
           last \in -1 .. NChannels - 1,
           Placed(rdy, dn, act, st),
           SubmitReady(rdy, act, st, ch)
    PROVE  /\ Placed(ready', dn, active', state')
           /\ \A b \in Buffers :
                \/ state'[b] = st[b]
                \/ st[b] = "ready" /\ state'[b] = "active"
  <1>1. PICK k \in 0 .. NChannels :
          /\ SubmitCount(k, rdy, act)
          /\ ready' = SubSeq(rdy, k + 1, Len(rdy))
          /\ active' = [c \in Channels |->
                          IF Turn(c) <= k THEN rdy[Turn(c)] ELSE act[c]]
          /\ state' = [b \in Buffers |->
                          IF \E i \in 1 .. k : rdy[i] = b THEN "active"
                          ELSE st[b]]
    BY DEF SubmitReady
  <1>2. k <= Len(rdy) /\ NextFree(k, act)
    BY <1>1 DEF SubmitCount
  <1>3. /\ Len(rdy) \in Nat /\ \A i \in 1 .. Len(rdy) : rdy[i] \in Buffers
        /\ Len(dn) \in Nat /\ \A i \in 1 .. Len(dn) : dn[i] \in Buffers
    BY ElementOfSeq, LenProperties
  <1>4. /\ Len(ready') = Len(rdy) - k
        /\ \A i \in 1 .. Len(ready') : /\ ready'[i] = rdy[k + i]
                                      /\ k + i \in k + 1 .. Len(rdy)
    BY <1>1, <1>2, <1>3, SubSeqProperties, ChannelsAssumption
  <1>5. \A i \in 1 .. k : rdy[i] \in Buffers /\ st[rdy[i]] = "ready"
    BY <1>2, <1>3 DEF Placed
  <1>6. \A b \in Buffers : IF \E i \in 1 .. k : rdy[i] = b
                          THEN st[b] = "ready" /\ state'[b] = "active"
                          ELSE state'[b] = st[b]
    BY <1>1, <1>5
  <1>7. \A i \in 1 .. Len(ready') : state'[ready'[i]] = "ready"
    <2> SUFFICES ASSUME NEW i \in 1 .. Len(ready')
                 PROVE  state'[ready'[i]] = "ready"
      OBVIOUS
    <2>1. /\ ready'[i] = rdy[k + i] /\ k + i \in k + 1 .. Len(rdy)
          /\ k + i \in 1 .. Len(rdy)
      BY <1>4, <1>3
    <2>2. rdy[k + i] \in Buffers /\ st[rdy[k + i]] = "ready"
      BY <2>1, <1>3 DEF Placed
    <2>3. \A j \in 1 .. k : rdy[j] # rdy[k + i]
      <3> SUFFICES ASSUME NEW j \in 1 .. k, rdy[j] = rdy[k + i]
                   PROVE  FALSE
        OBVIOUS
      <3>1. j \in 1 .. Len(rdy) /\ j # k + i
        BY <2>1, <1>2, <1>3
      <3> QED BY <3>1, <2>1 DEF Placed
    <2> QED BY <2>1, <2>2, <2>3, <1>6
  <1>8. \A i \in 1 .. Len(dn) : state'[dn[i]] = "done"
    BY <1>3, <1>6 DEF Placed
  <1>9. \A c \in Channels : active'[c] # NoBuf => state'[active'[c]] = "active"
    <2> SUFFICES ASSUME NEW c \in Channels, active'[c] # NoBuf
                 PROVE  state'[active'[c]] = "active"
      OBVIOUS
    <2>1. CASE Turn(c) <= k
      <3>1. Turn(c) \in 1 .. k /\ active'[c] = rdy[Turn(c)]
        BY <2>1, <1>1, TurnRange
      <3> QED BY <3>1, <1>5, <1>6
    <2>2. CASE ~(Turn(c) <= k)
      BY <2>2, <1>1, <1>6 DEF Placed
    <2> QED BY <2>1, <2>2
  <1>10. \A i, j \in 1 .. Len(ready') : ready'[i] = ready'[j] => i = j
    <2> SUFFICES ASSUME NEW i \in 1 .. Len(ready'), NEW j \in 1 .. Len(ready'),
                        ready'[i] = ready'[j]
                 PROVE  i = j
      OBVIOUS
    <2>1. /\ k + i \in 1 .. Len(rdy) /\ k + j \in 1 .. Len(rdy)
          /\ rdy[k + i] = rdy[k + j]
      BY <1>4, <1>3
    <2>2. k + i = k + j
      BY <2>1 DEF Placed
    <2> QED BY <2>2, <1>4
  <1>11. \A c, d \in Channels :
            active'[c] = active'[d] /\ active'[c] # NoBuf => c = d
    <2> SUFFICES ASSUME NEW c \in Channels, NEW d \in Channels,
                        active'[c] = active'[d], active'[c] # NoBuf
                 PROVE  c = d
      OBVIOUS
    <2>1. /\ Turn(c) \in 1 .. NChannels /\ Turn(d) \in 1 .. NChannels
      BY TurnRange
    <2>2. CASE Turn(c) <= k /\ Turn(d) <= k
      <3>1. rdy[Turn(c)] = rdy[Turn(d)]
        BY <2>2, <1>1
      <3>2. Turn(c) \in 1 .. Len(rdy) /\ Turn(d) \in 1 .. Len(rdy)
        BY <2>1, <2>2, <1>2, <1>3
      <3>3. Turn(c) = Turn(d)
        BY <3>1, <3>2 DEF Placed
      <3> QED BY <3>3, TurnInjective
    <2>3. CASE ~(Turn(c) <= k) /\ ~(Turn(d) <= k)
      BY <2>3, <1>1 DEF Placed
    <2>4. CASE Turn(c) <= k /\ ~(Turn(d) <= k)
      BY <2>1, <2>4, <1>1, <1>5 DEF Placed
    <2>5. CASE ~(Turn(c) <= k) /\ Turn(d) <= k
      BY <2>1, <2>5, <1>1, <1>5 DEF Placed
    <2> QED BY <2>2, <2>3, <2>4, <2>5
  <1>12. ASSUME NEW b \in Buffers, state'[b] = "ready"
         PROVE  \E i \in 1 .. Len(ready') : ready'[i] = b
    <2>1. st[b] = "ready" /\ \A i \in 1 .. k : rdy[i] # b
      BY <1>6, <1>12
    <2>2. PICK i \in 1 .. Len(rdy) : rdy[i] = b
      BY <2>1 DEF Placed
    <2>3. i - k \in 1 .. Len(ready') /\ k + (i - k) = i
      BY <2>1, <2>2, <1>4, <1>3, <1>2
    <2>4. ready'[i - k] = b
      BY <2>2, <2>3, <1>4
    <2> QED BY <2>3, <2>4
  <1>13. ASSUME NEW b \in Buffers, state'[b] = "done"
         PROVE  \E i \in 1 .. Len(dn) : dn[i] = b
    BY <1>13, <1>6 DEF Placed
  <1>14. ASSUME NEW b \in Buffers, state'[b] = "active"
         PROVE  \E c \in Channels : active'[c] = b
    <2>1. CASE \E i \in 1 .. k : rdy[i] = b
      <3>1. PICK i \in 1 .. k : rdy[i] = b
        BY <2>1
      <3>2. Slot(i) \in Channels /\ Turn(Slot(i)) = i
        BY <3>1, TurnOfSlot, ChannelsAssumption
      <3>3. active'[Slot(i)] = b
        BY <3>1, <3>2, <1>1
      <3> QED BY <3>2, <3>3
    <2>2. CASE ~\E i \in 1 .. k : rdy[i] = b
      <3>1. PICK c \in Channels : act[c] = b
        BY <2>2, <1>6, <1>14 DEF Placed
      <3>2. ~(Turn(c) <= k)
        BY <3>1, <1>2, NoBufAssumption DEF NextFree
      <3>3. active'[c] = b
        BY <3>1, <3>2, <1>1
      <3> QED BY <3>3
    <2> QED BY <2>1, <2>2
  <1>15. \A i, j \in 1 .. Len(dn) : dn[i] = dn[j] => i = j
    BY DEF Placed
  <1>16. Placed(ready', dn, active', state')
    BY <1>7, <1>8, <1>9, <1>10, <1>11, <1>12, <1>13, <1>14, <1>15 DEF Placed
  <1> QED BY <1>6, <1>16

-----------------------------------------------------------------------------
(* Buffers *)

\* Who holds what: the completion work a buffer outside its lock, prepare the
\* buffer whose table it builds.
Holding ==
    /\ workBuf # NoBuf <=> workPc \in {"callback", "recycle", "release"}
    /\ ctl = "prepare" => ctlBuf \in Buffers /\ state[ctlBuf] = "preparing"

\* The inductive invariant of the buffers.
BufferInv == TypeOK /\ Placement /\ References /\ Holding

\* Every step of the engine, its threads and its hardware keeps the types.
LEMMA TypeStep ==
    ASSUME TypeOK, References, Holding, [Next]_vars
    PROVE  TypeOK'
  <1>0. BufferTypes /\ FlagTypes /\ ThreadTypes /\ HardwareTypes
    BY DEF TypeOK
  <1> USE <1>0
      DEF streamVars, otherVars, bufVars, listVars, runVars,
          faultVars, flagVars, devVars, ctlVars, workVars, wdVars, irqVars,
          statusVars, hwVars
  <1>1. ASSUME NEW b \in Buffers, PrepareBegin(b)
        PROVE  TypeOK'
    <2>1. BufferTypes'
      <3>1. refs' \in [Buffers -> 0 .. 2]
        BY <1>1 DEF PrepareBegin, BufferTypes
      <3>2. registered' \in [Buffers -> BOOLEAN]
        BY <1>1 DEF PrepareBegin, BufferTypes
      <3> QED BY <1>1, <3>1, <3>2 DEF PrepareBegin, BufferTypes, BufferStates
    <2>2. FlagTypes'
      BY <1>1 DEF PrepareBegin, FlagTypes
    <2>3. ThreadTypes'
      BY <1>1 DEF PrepareBegin, ThreadTypes, CtlPlaces
    <2>4. HardwareTypes'
      BY <1>1 DEF PrepareBegin, HardwareTypes
    <2> QED BY <2>1, <2>2, <2>3, <2>4 DEF TypeOK
  <1>2. ASSUME NEW b \in Buffers, Queue(b)
        PROVE  TypeOK'
    <2>1. BufferTypes'
      BY <1>2 DEF Queue, BufferTypes, BufferStates
    <2>2. FlagTypes'
      BY <1>2 DEF Queue, Live, RequestWork, FlagTypes
    <2>3. ThreadTypes'
      BY <1>2 DEF Queue, Live, RequestWork, ThreadTypes
    <2>4. HardwareTypes'
      BY <1>2 DEF Queue, HardwareTypes
    <2> QED BY <2>1, <2>2, <2>3, <2>4 DEF TypeOK
  <1>3. ASSUME NEW b \in Buffers, CleanupBuffer(b)
        PROVE  TypeOK'
    <2>1. BufferTypes'
      BY <1>3 DEF CleanupBuffer, Put, BufferTypes, BufferStates,
        References
    <2>2. FlagTypes'
      BY <1>3 DEF CleanupBuffer, FlagTypes
    <2>3. ThreadTypes'
      BY <1>3 DEF CleanupBuffer, ThreadTypes
    <2>4. HardwareTypes'
      BY <1>3 DEF CleanupBuffer, HardwareTypes
    <2> QED BY <2>1, <2>2, <2>3, <2>4 DEF TypeOK
  <1>4. ASSUME VideoReset PROVE  TypeOK'
    <2>1. BufferTypes'
      BY <1>4 DEF VideoReset, BufferTypes
    <2>2. FlagTypes'
      BY <1>4 DEF VideoReset, FlagTypes
    <2>3. ThreadTypes'
      BY <1>4 DEF VideoReset, ThreadTypes
    <2>4. HardwareTypes'
      BY <1>4, ChannelsAssumption DEF VideoReset, HardwareTypes, Channels
    <2> QED BY <2>1, <2>2, <2>3, <2>4 DEF TypeOK
  <1>5. ASSUME FpgaConfigure PROVE  TypeOK'
    <2>1. BufferTypes'
      BY <1>5 DEF FpgaConfigure, BufferTypes
    <2>2. FlagTypes'
      BY <1>5 DEF FpgaConfigure, FlagTypes
    <2>3. ThreadTypes'
      BY <1>5 DEF FpgaConfigure, ThreadTypes
    <2>4. HardwareTypes'
      BY <1>5 DEF FpgaConfigure, HardwareTypes
    <2> QED BY <2>1, <2>2, <2>3, <2>4 DEF TypeOK
  <1>6. ASSUME StartBegin PROVE  TypeOK'
    <2>1. BufferTypes'
      BY <1>6 DEF StartBegin, BufferTypes
    <2>2. FlagTypes'
      BY <1>6 DEF StartBegin, FlagTypes
    <2>3. ThreadTypes'
      BY <1>6 DEF StartBegin, ThreadTypes, CtlPlaces
    <2>4. HardwareTypes'
      BY <1>6 DEF StartBegin, HardwareTypes
    <2> QED BY <2>1, <2>2, <2>3, <2>4 DEF TypeOK
  <1>7. ASSUME StopBegin PROVE  TypeOK'
    <2>1. BufferTypes'
      BY <1>7 DEF StopBegin, BufferTypes
    <2>2. FlagTypes'
      BY <1>7 DEF StopBegin, FlagTypes
    <2>3. ThreadTypes'
      BY <1>7 DEF StopBegin, ThreadTypes, CtlPlaces
    <2>4. HardwareTypes'
      BY <1>7 DEF StopBegin, HardwareTypes
    <2> QED BY <2>1, <2>2, <2>3, <2>4 DEF TypeOK
  <1>8. ASSUME QueueKick PROVE  TypeOK'
    <2>1. BufferTypes'
      BY <1>8 DEF QueueKick, BufferTypes
    <2>2. FlagTypes'
      BY <1>8 DEF QueueKick, FlagTypes
    <2>3. ThreadTypes'
      <3>1. workPending' \in BOOLEAN /\ apiKick' \in BOOLEAN
        BY <1>8 DEF QueueKick, QueueWork, ThreadTypes
      <3>2. UNCHANGED <<ctl, closer, ctlBuf, workPc, workBuf, wdPending, wdPc,
                        irqPc, irqSeen, irqKick, irqRecover>>
        BY <1>8 DEF QueueKick
      <3> QED BY <3>1, <3>2 DEF ThreadTypes
    <2>4. HardwareTypes'
      BY <1>8 DEF QueueKick, HardwareTypes
    <2> QED BY <2>1, <2>2, <2>3, <2>4 DEF TypeOK
  <1>9. ASSUME PrepareEnd PROVE  TypeOK'
    <2>1. BufferTypes'
      BY <1>9 DEF PrepareEnd, BufferTypes, BufferStates, Holding
    <2>2. FlagTypes'
      BY <1>9 DEF PrepareEnd, FlagTypes
    <2>3. ThreadTypes'
      BY <1>9 DEF PrepareEnd, ThreadTypes, CtlPlaces
    <2>4. HardwareTypes'
      BY <1>9 DEF PrepareEnd, HardwareTypes
    <2> QED BY <2>1, <2>2, <2>3, <2>4 DEF TypeOK
  <1>10. ASSUME StartSetup PROVE  TypeOK'
    <2>1. BufferTypes'
      BY <1>10 DEF StartSetup, BufferTypes
    <2>2. FlagTypes'
      BY <1>10 DEF StartSetup, FlagTypes
    <2>3. ThreadTypes'
      BY <1>10 DEF StartSetup, ThreadTypes, CtlPlaces
    <2>4. HardwareTypes'
      <3>1. engine' \in {"off", "on", "ending"}
        BY <1>10 DEF StartSetup, OutputOff, HardwareTypes
      <3>2. hwCode' \in 0 .. NChannels
        BY <1>10, ChannelsAssumption DEF StartSetup, HardwareTypes
      <3> QED BY <1>10, <3>1, <3>2 DEF StartSetup, HardwareTypes
    <2> QED BY <2>1, <2>2, <2>3, <2>4 DEF TypeOK
  <1>11. ASSUME StartPublish PROVE  TypeOK'
    <2>1. BufferTypes'
      <3>1. CASE lost'
        <4>1. ready' = <<>> /\ done' \in Seq(Buffers)
          BY <1>11, <3>1, EmptySeq DEF StartPublish, ReturnBuffers, BufferTypes
        <4>2. ready' \in Seq(Buffers)
          BY <4>1, EmptySeq
        <4> QED BY <1>11, <3>1, <4>1, <4>2
                DEF StartPublish, ReturnBuffers, BufferTypes, BufferStates
      <3>2. CASE ~lost'
        <4>1. SubmitReady(ready, active, state, hwChan)
          BY <1>11, <3>2 DEF StartPublish
        <4> QED BY <1>11, <4>1, <3>2, SubmitTyped
                DEF StartPublish, BufferTypes, HardwareTypes
      <3> QED BY <3>1, <3>2
    <2>2. FlagTypes'
      BY <1>11 DEF StartPublish, ReturnBuffers, FlagTypes
    <2>3. ThreadTypes'
      BY <1>11 DEF StartPublish, ReturnBuffers, ThreadTypes, CtlPlaces
    <2>4. HardwareTypes'
      <3>1. CASE lost'
        BY <1>11, <3>1 DEF StartPublish, HardwareTypes
      <3>2. CASE ~lost'
        <4>1. SubmitReady(ready, active, state, hwChan)
          BY <1>11, <3>2 DEF StartPublish
        <4> QED BY <1>11, <4>1, <3>2, SubmitTyped
                DEF StartPublish, BufferTypes, HardwareTypes
      <3> QED BY <3>1, <3>2
    <2> QED BY <2>1, <2>2, <2>3, <2>4 DEF TypeOK
  <1>12. ASSUME StartEnable PROVE  TypeOK'
    <2>1. BufferTypes'
      BY <1>12 DEF StartEnable, BufferTypes
    <2>2. FlagTypes'
      BY <1>12 DEF StartEnable, FlagTypes
    <2>3. ThreadTypes'
      <3>1. ctl' \in CtlPlaces
        BY <1>12 DEF StartEnable, ThreadTypes, CtlPlaces
      <3>2. wdPending' \in BOOLEAN
        BY <1>12 DEF StartEnable, ThreadTypes, QueueWatchdog
      <3>3. UNCHANGED <<closer, ctlBuf, apiKick, workPending, workPc, workBuf,
                        wdPc, irqPc, irqSeen, irqKick, irqRecover>>
        BY <1>12 DEF StartEnable
      <3> QED BY <3>1, <3>2, <3>3 DEF ThreadTypes
    <2>4. HardwareTypes'
      BY <1>12 DEF StartEnable, HardwareTypes
    <2> QED BY <2>1, <2>2, <2>3, <2>4 DEF TypeOK
  <1>13. ASSUME StartRollback PROVE  TypeOK'
    <2>1. BufferTypes'
      BY <1>13 DEF StartRollback, BufferTypes
    <2>2. FlagTypes'
      BY <1>13 DEF StartRollback, FlagTypes
    <2>3. ThreadTypes'
      BY <1>13 DEF StartRollback, ThreadTypes, CtlPlaces
    <2>4. HardwareTypes'
      BY <1>13 DEF StartRollback, OutputOff, HardwareTypes
    <2> QED BY <2>1, <2>2, <2>3, <2>4 DEF TypeOK
  <1>14. ASSUME CancelWatchdog PROVE  TypeOK'
    <2>1. BufferTypes'
      BY <1>14 DEF CancelWatchdog, BufferTypes
    <2>2. FlagTypes'
      BY <1>14 DEF CancelWatchdog, FlagTypes
    <2>3. ThreadTypes'
      <3>1. ctl' \in CtlPlaces
        BY <1>14 DEF CancelWatchdog, ThreadTypes, CtlPlaces
      <3>2. wdPending' \in BOOLEAN
        BY <1>14 DEF CancelWatchdog, ThreadTypes
      <3>3. UNCHANGED <<closer, ctlBuf, apiKick, workPending, workPc, workBuf,
                        wdPc, irqPc, irqSeen, irqKick, irqRecover>>
        BY <1>14 DEF CancelWatchdog
      <3> QED BY <3>1, <3>2, <3>3 DEF ThreadTypes
    <2>4. HardwareTypes'
      BY <1>14 DEF CancelWatchdog, HardwareTypes
    <2> QED BY <2>1, <2>2, <2>3, <2>4 DEF TypeOK
  <1>15. ASSUME FlushWatchdog PROVE  TypeOK'
    <2>1. BufferTypes'
      BY <1>15 DEF FlushWatchdog, BufferTypes
    <2>2. FlagTypes'
      BY <1>15 DEF FlushWatchdog, FlagTypes
    <2>3. ThreadTypes'
      BY <1>15 DEF FlushWatchdog, ThreadTypes, CtlPlaces
    <2>4. HardwareTypes'
      BY <1>15 DEF FlushWatchdog, HardwareTypes
    <2> QED BY <2>1, <2>2, <2>3, <2>4 DEF TypeOK
  <1>16. ASSUME Quiesce PROVE  TypeOK'
    <2>1. BufferTypes'
      BY <1>16 DEF Quiesce, OutputOff, BufferTypes
    <2>2. FlagTypes'
      BY <1>16 DEF Quiesce, OutputOff, FlagTypes
    <2>3. ThreadTypes'
      BY <1>16 DEF Quiesce, OutputOff, ThreadTypes, CtlPlaces
    <2>4. HardwareTypes'
      BY <1>16 DEF Quiesce, OutputOff, HardwareTypes
    <2> QED BY <2>1, <2>2, <2>3, <2>4 DEF TypeOK
  <1>17. ASSUME Terminated PROVE  TypeOK'
    <2>1. BufferTypes'
      BY <1>17 DEF Terminated, BufferTypes
    <2>2. FlagTypes'
      BY <1>17 DEF Terminated, FlagTypes
    <2>3. ThreadTypes'
      BY <1>17 DEF Terminated, ThreadTypes, CtlPlaces
    <2>4. HardwareTypes'
      BY <1>17 DEF Terminated, HardwareTypes
    <2> QED BY <2>1, <2>2, <2>3, <2>4 DEF TypeOK
  <1>18. ASSUME StopTimeout PROVE  TypeOK'
    <2>1. BufferTypes'
      BY <1>18 DEF StopTimeout, BufferTypes
    <2>2. FlagTypes'
      BY <1>18 DEF StopTimeout, FlagTypes
    <2>3. ThreadTypes'
      BY <1>18 DEF StopTimeout, ThreadTypes, CtlPlaces
    <2>4. HardwareTypes'
      BY <1>18 DEF StopTimeout, HardwareTypes
    <2> QED BY <2>1, <2>2, <2>3, <2>4 DEF TypeOK
  <1>19. ASSUME MaskInterrupts PROVE  TypeOK'
    <2>1. BufferTypes'
      BY <1>19 DEF MaskInterrupts, BufferTypes
    <2>2. FlagTypes'
      BY <1>19 DEF MaskInterrupts, FlagTypes
    <2>3. ThreadTypes'
      BY <1>19 DEF MaskInterrupts, ThreadTypes, CtlPlaces
    <2>4. HardwareTypes'
      BY <1>19 DEF MaskInterrupts, HardwareTypes
    <2> QED BY <2>1, <2>2, <2>3, <2>4 DEF TypeOK
  <1>20. ASSUME SynchronizeIrq PROVE  TypeOK'
    <2>1. BufferTypes'
      BY <1>20 DEF SynchronizeIrq, BufferTypes
    <2>2. FlagTypes'
      BY <1>20 DEF SynchronizeIrq, FlagTypes
    <2>3. ThreadTypes'
      BY <1>20 DEF SynchronizeIrq, ThreadTypes, CtlPlaces
    <2>4. HardwareTypes'
      BY <1>20 DEF SynchronizeIrq, HardwareTypes
    <2> QED BY <2>1, <2>2, <2>3, <2>4 DEF TypeOK
  <1>21. ASSUME FlushWork PROVE  TypeOK'
    <2>1. BufferTypes'
      BY <1>21 DEF FlushWork, BufferTypes
    <2>2. FlagTypes'
      BY <1>21 DEF FlushWork, FlagTypes
    <2>3. ThreadTypes'
      BY <1>21 DEF FlushWork, ThreadTypes, CtlPlaces
    <2>4. HardwareTypes'
      BY <1>21 DEF FlushWork, HardwareTypes
    <2> QED BY <2>1, <2>2, <2>3, <2>4 DEF TypeOK
  <1>22. ASSUME ClearHardware PROVE  TypeOK'
    <2>1. BufferTypes'
      BY <1>22 DEF ClearHardware, BufferTypes
    <2>2. FlagTypes'
      BY <1>22 DEF ClearHardware, FlagTypes
    <2>3. ThreadTypes'
      BY <1>22 DEF ClearHardware, ThreadTypes, CtlPlaces
    <2>4. HardwareTypes'
      BY <1>22, ChannelsAssumption DEF ClearHardware, HardwareTypes,
        Channels
    <2> QED BY <2>1, <2>2, <2>3, <2>4 DEF TypeOK
  <1>23. ASSUME StopFinish PROVE  TypeOK'
    <2>1. BufferTypes'
      BY <1>23, ChannelsAssumption DEF StopFinish, ReturnBuffers,
        BufferTypes, BufferStates
    <2>2. FlagTypes'
      BY <1>23 DEF StopFinish, ReturnBuffers, FlagTypes
    <2>3. ThreadTypes'
      BY <1>23 DEF StopFinish, ReturnBuffers, ThreadTypes, CtlPlaces
    <2>4. HardwareTypes'
      BY <1>23 DEF StopFinish, ReturnBuffers, HardwareTypes
    <2> QED BY <2>1, <2>2, <2>3, <2>4 DEF TypeOK
  <1>24. ASSUME ReportError PROVE  TypeOK'
    <2>1. BufferTypes'
      BY <1>24 DEF ReportError, BufferTypes
    <2>2. FlagTypes'
      BY <1>24 DEF ReportError, FlagTypes
    <2>3. ThreadTypes'
      BY <1>24 DEF ReportError, ThreadTypes, CtlPlaces
    <2>4. HardwareTypes'
      BY <1>24 DEF ReportError, HardwareTypes
    <2> QED BY <2>1, <2>2, <2>3, <2>4 DEF TypeOK
  <1>25. ASSUME WatchdogStop PROVE  TypeOK'
    <2>1. BufferTypes'
      BY <1>25 DEF WatchdogStop, BufferTypes
    <2>2. FlagTypes'
      BY <1>25 DEF WatchdogStop, FlagTypes
    <2>3. ThreadTypes'
      BY <1>25 DEF WatchdogStop, ThreadTypes, CtlPlaces
    <2>4. HardwareTypes'
      BY <1>25 DEF WatchdogStop, HardwareTypes
    <2> QED BY <2>1, <2>2, <2>3, <2>4 DEF TypeOK
  <1>26. ASSUME WatchdogStart PROVE  TypeOK'
    <2>1. BufferTypes'
      BY <1>26 DEF WatchdogStart, BufferTypes
    <2>2. FlagTypes'
      BY <1>26 DEF WatchdogStart, FlagTypes
    <2>3. ThreadTypes'
      BY <1>26 DEF WatchdogStart, ThreadTypes
    <2>4. HardwareTypes'
      BY <1>26 DEF WatchdogStart, HardwareTypes
    <2> QED BY <2>1, <2>2, <2>3, <2>4 DEF TypeOK
  <1>27. ASSUME WatchdogBusy PROVE  TypeOK'
    <2>1. BufferTypes'
      BY <1>27 DEF WatchdogBusy, BufferTypes
    <2>2. FlagTypes'
      BY <1>27 DEF WatchdogBusy, FlagTypes
    <2>3. ThreadTypes'
      BY <1>27 DEF WatchdogBusy, QueueWatchdog, ThreadTypes
    <2>4. HardwareTypes'
      BY <1>27 DEF WatchdogBusy, HardwareTypes
    <2> QED BY <2>1, <2>2, <2>3, <2>4 DEF TypeOK
  <1>28. ASSUME WatchdogCheck PROVE  TypeOK'
    <2>1. BufferTypes'
      BY <1>28 DEF WatchdogCheck, BufferTypes
    <2>2. FlagTypes'
      BY <1>28 DEF WatchdogCheck, FlagTypes
    <2>3. ThreadTypes'
      BY <1>28 DEF WatchdogCheck, QueueWatchdog, ThreadTypes
    <2>4. HardwareTypes'
      BY <1>28 DEF WatchdogCheck, HardwareTypes
    <2> QED BY <2>1, <2>2, <2>3, <2>4 DEF TypeOK
  <1>29. ASSUME WatchdogRecover PROVE  TypeOK'
    <2>1. BufferTypes'
      BY <1>29 DEF WatchdogRecover, BufferTypes
    <2>2. FlagTypes'
      BY <1>29 DEF WatchdogRecover, FlagTypes
    <2>3. ThreadTypes'
      BY <1>29 DEF WatchdogRecover, ThreadTypes, CtlPlaces
    <2>4. HardwareTypes'
      BY <1>29 DEF WatchdogRecover, HardwareTypes
    <2> QED BY <2>1, <2>2, <2>3, <2>4 DEF TypeOK
  <1>30. ASSUME WorkStart PROVE  TypeOK'
    <2>1. BufferTypes'
      BY <1>30 DEF WorkStart, BufferTypes
    <2>2. FlagTypes'
      BY <1>30 DEF WorkStart, FlagTypes
    <2>3. ThreadTypes'
      BY <1>30 DEF WorkStart, ThreadTypes
    <2>4. HardwareTypes'
      BY <1>30 DEF WorkStart, HardwareTypes
    <2> QED BY <2>1, <2>2, <2>3, <2>4 DEF TypeOK
  <1>31. ASSUME WorkExit PROVE  TypeOK'
    <2>1. BufferTypes'
      <3>1. CASE Live /\ ~lost
        <4>1. SubmitReady(ready, active, state, hwChan)
          BY <1>31, <3>1 DEF WorkExit
        <4> QED BY <1>31, <4>1, SubmitTyped DEF WorkExit, BufferTypes, HardwareTypes
      <3>2. CASE ~(Live /\ ~lost)
        BY <1>31, <3>2 DEF WorkExit, NoSubmit, BufferTypes
      <3> QED BY <3>1, <3>2
    <2>2. FlagTypes'
      <3>1. CASE Live /\ ~lost
        <4>1. SubmitReady(ready, active, state, hwChan)
          BY <1>31, <3>1 DEF WorkExit
        <4>2. lost' \in BOOLEAN /\ hwChan' \in [Channels -> {"idle", "armed", "filled"}]
          BY <4>1, SubmitTyped DEF BufferTypes, HardwareTypes
        <4> QED BY <1>31, <4>2 DEF WorkExit, FlagTypes
      <3>2. CASE ~(Live /\ ~lost)
        BY <1>31, <3>2 DEF WorkExit, NoSubmit, FlagTypes
      <3> QED BY <3>1, <3>2
    <2>3. ThreadTypes'
      BY <1>31 DEF WorkExit, Live, NoSubmit, ThreadTypes
    <2>4. HardwareTypes'
      <3>1. CASE Live /\ ~lost
        <4>1. SubmitReady(ready, active, state, hwChan)
          BY <1>31, <3>1 DEF WorkExit
        <4>2. lost' \in BOOLEAN /\ hwChan' \in [Channels -> {"idle", "armed", "filled"}]
          BY <4>1, SubmitTyped DEF BufferTypes, HardwareTypes
        <4> QED BY <1>31, <4>2 DEF WorkExit, HardwareTypes
      <3>2. CASE ~(Live /\ ~lost)
        BY <1>31, <3>2 DEF WorkExit, NoSubmit, HardwareTypes
      <3> QED BY <3>1, <3>2
    <2> QED BY <2>1, <2>2, <2>3, <2>4 DEF TypeOK
  <1>32. ASSUME WorkTake PROVE  TypeOK'
    <2>1. BufferTypes'
      <3>1. Head(done) \in Buffers /\ done' \in Seq(Buffers)
        BY <1>32, HeadTailProperties DEF WorkTake, BufferTypes
      <3>2. workBuf = NoBuf
        BY <1>32 DEF WorkTake, Holding
      <3>3. refs[Head(done)] \in 0 .. 1
        <4>1. workBuf # Head(done)
          BY <3>1, <3>2, NoBufAssumption
        <4>2. refs[Head(done)] = (IF registered[Head(done)] THEN 1 ELSE 0)
                                 + (IF workBuf = Head(done) THEN 1 ELSE 0)
          BY <3>1 DEF References
        <4> QED BY <4>1, <4>2
      <3>4. refs' \in [Buffers -> 0 .. 2]
        BY <1>32, <3>1, <3>3 DEF WorkTake, BufferTypes
      <3> QED BY <1>32, <3>1, <3>4 DEF WorkTake, BufferTypes, BufferStates
    <2>2. FlagTypes'
      BY <1>32 DEF WorkTake, FlagTypes
    <2>3. ThreadTypes'
      <3>1. Head(done) \in Buffers
        BY <1>32, HeadTailProperties DEF WorkTake, BufferTypes
      <3> QED BY <1>32, <3>1 DEF WorkTake, ThreadTypes
    <2>4. HardwareTypes'
      BY <1>32 DEF WorkTake, HardwareTypes
    <2> QED BY <2>1, <2>2, <2>3, <2>4 DEF TypeOK
  <1>33. ASSUME WorkSettle PROVE  TypeOK'
    <2>10. workBuf \in Buffers /\ NoBuf \notin Buffers
      BY <1>33, NoBufAssumption DEF WorkSettle, Holding, ThreadTypes
    <2>11. workBuf \in Buffers /\ refs[workBuf] \in 1 .. 2
      <3>1. refs[workBuf] = (IF registered[workBuf] THEN 1 ELSE 0)
                            + (IF workBuf = workBuf THEN 1 ELSE 0)
        BY <2>10 DEF References
      <3> QED BY <3>1, <2>10
    <2>12. ASSUME Recyclable(workBuf)
          PROVE  /\ ready' \in Seq(Buffers)
                 /\ active' \in [Channels -> Buffers \cup {NoBuf}]
                 /\ state' \in [Buffers -> BufferStates]
                 /\ hwChan' \in [Channels -> {"idle", "armed", "filled"}]
                 /\ last' \in -1 .. NChannels - 1
                 /\ lost' \in BOOLEAN
      <3>1. SubmitReady(Append(ready, workBuf), active,
                        [state EXCEPT ![workBuf] = "ready"], hwChan)
        BY <1>33, <2>12 DEF WorkSettle
      <3>2. /\ Append(ready, workBuf) \in Seq(Buffers)
            /\ [state EXCEPT ![workBuf] = "ready"] \in [Buffers -> BufferStates]
        BY <2>10, AppendProperties DEF BufferTypes, BufferStates
      <3> QED BY <3>1, <3>2, SubmitTyped DEF BufferTypes, HardwareTypes
    <2>1. BufferTypes'
      <3>1. refs' \in [Buffers -> 0 .. 2]
        BY <1>33, <2>11 DEF WorkSettle, Put, BufferTypes
      <3>2. CASE Recyclable(workBuf)
        BY <1>33, <3>1, <3>2, <2>12 DEF WorkSettle, BufferTypes
      <3>3. CASE ~Recyclable(workBuf)
        BY <1>33, <3>1, <3>3, <2>11 DEF WorkSettle, NoSubmit, BufferTypes, BufferStates
      <3> QED BY <3>2, <3>3
    <2>2. FlagTypes'
      <3>1. CASE Recyclable(workBuf)
        BY <1>33, <3>1, <2>12 DEF WorkSettle, FlagTypes
      <3>2. CASE ~Recyclable(workBuf)
        BY <1>33, <3>2, <2>11 DEF WorkSettle, NoSubmit, FlagTypes, BufferStates
      <3> QED BY <3>1, <3>2
    <2>3. ThreadTypes'
      BY <1>33 DEF WorkSettle, NoSubmit, ThreadTypes
    <2>4. HardwareTypes'
      <3>1. CASE Recyclable(workBuf)
        BY <1>33, <3>1, <2>12 DEF WorkSettle, HardwareTypes
      <3>2. CASE ~Recyclable(workBuf)
        BY <1>33, <3>2, <2>11 DEF WorkSettle, NoSubmit, HardwareTypes, BufferStates
      <3> QED BY <3>1, <3>2
    <2> QED BY <2>1, <2>2, <2>3, <2>4 DEF TypeOK
  <1>34. ASSUME NEW a \in {"recycle", "release"}, WorkCallback(a)
        PROVE  TypeOK'
    <2>1. BufferTypes'
      BY <1>34 DEF WorkCallback, BufferTypes
    <2>2. FlagTypes'
      BY <1>34 DEF WorkCallback, FlagTypes
    <2>3. ThreadTypes'
      BY <1>34 DEF WorkCallback, ThreadTypes
    <2>4. HardwareTypes'
      BY <1>34 DEF WorkCallback, HardwareTypes
    <2> QED BY <2>1, <2>2, <2>3, <2>4 DEF TypeOK
  <1>35. ASSUME IrqRead PROVE  TypeOK'
    <2>1. BufferTypes'
      BY <1>35 DEF IrqRead, BufferTypes
    <2>2. FlagTypes'
      BY <1>35 DEF IrqRead, FlagTypes
    <2>3. ThreadTypes'
      <3>1. hwCode \in 0 .. NChannels /\ 0 \in 0 .. NChannels
        BY ChannelsAssumption DEF HardwareTypes
      <3>2. \A p, t \in BOOLEAN, k \in 0 .. NChannels :
              [complete |-> p, term |-> t, code |-> k] \in Seen
        BY DEF Seen
      <3>3. PICK p \in BOOLEAN, k \in 0 .. NChannels :
              irqSeen' = [complete |-> p, term |-> hwTerm, code |-> k]
        BY <1>35, <3>1 DEF IrqRead, HardwareTypes
      <3>4. hwTerm \in BOOLEAN
        BY DEF HardwareTypes
      <3>5. irqSeen' \in Seen
        BY <3>2, <3>3, <3>4, Zenon
      <3> QED BY <1>35, <3>5 DEF IrqRead, ThreadTypes
    <2>4. HardwareTypes'
      BY <1>35 DEF IrqRead, HardwareTypes
    <2> QED BY <2>1, <2>2, <2>3, <2>4 DEF TypeOK
  <1>36. ASSUME NEW c \in Channels, IrqComplete(c)
        PROVE  TypeOK'
    <2> DEFINE act == [active EXCEPT ![c] = NoBuf]
               st == [state EXCEPT ![active[c]] = "done"]
               ch == IF lost THEN hwChan ELSE [hwChan EXCEPT ![c] = "idle"]
    <2>10. /\ active[c] \in Buffers /\ done' = Append(done, active[c])
          /\ done' \in Seq(Buffers)
          /\ act \in [Channels -> Buffers \cup {NoBuf}]
          /\ st \in [Buffers -> BufferStates]
          /\ ch \in [Channels -> {"idle", "armed", "filled"}]
      <3>1. active[c] \in Buffers /\ done' = Append(done, active[c])
        BY <1>36 DEF IrqComplete, Completing, BufferTypes
      <3> QED BY <3>1, AppendProperties
              DEF BufferTypes, HardwareTypes, BufferStates
    <2>11. /\ ready' \in Seq(Buffers)
          /\ active' \in [Channels -> Buffers \cup {NoBuf}]
          /\ state' \in [Buffers -> BufferStates]
          /\ hwChan' \in [Channels -> {"idle", "armed", "filled"}]
          /\ last' \in -1 .. NChannels - 1
          /\ lost' \in BOOLEAN
      <3>1. CASE Live
        <4>1. SubmitReady(ready, act, st, ch)
          BY <1>36, <3>1 DEF IrqComplete
        <4> QED BY <4>1, <2>10, SubmitTyped DEF BufferTypes
      <3>2. CASE ~Live
        BY <1>36, <3>2, <2>10 DEF IrqComplete, NoSubmit, BufferTypes, FlagTypes
      <3> QED BY <3>1, <3>2
    <2> HIDE DEF act, st, ch
    <2>1. BufferTypes'
      BY <1>36, <2>10, <2>11 DEF IrqComplete, BufferTypes
    <2>2. FlagTypes'
      BY <1>36, <2>10, <2>11 DEF IrqComplete, RequestWork, FlagTypes
    <2>3. ThreadTypes'
      BY <1>36 DEF IrqComplete, RequestWork, Live, NoSubmit, ThreadTypes
    <2>4. HardwareTypes'
      BY <1>36, <2>10, <2>11 DEF IrqComplete, HardwareTypes
    <2> QED BY <2>1, <2>2, <2>3, <2>4 DEF TypeOK
  <1>37. ASSUME IrqStray PROVE  TypeOK'
    <2>1. BufferTypes'
      BY <1>37 DEF IrqStray, BufferTypes
    <2>2. FlagTypes'
      BY <1>37 DEF IrqStray, Live, FlagTypes
    <2>3. ThreadTypes'
      BY <1>37 DEF IrqStray, Live, ThreadTypes
    <2>4. HardwareTypes'
      BY <1>37 DEF IrqStray, HardwareTypes
    <2> QED BY <2>1, <2>2, <2>3, <2>4 DEF TypeOK
  <1>38. ASSUME IrqNotify PROVE  TypeOK'
    <2>1. BufferTypes'
      BY <1>38 DEF IrqNotify, BufferTypes
    <2>2. FlagTypes'
      BY <1>38 DEF IrqNotify, FlagTypes
    <2>3. ThreadTypes'
      BY <1>38 DEF IrqNotify, QueueWork, QueueWatchdog, ThreadTypes
    <2>4. HardwareTypes'
      BY <1>38 DEF IrqNotify, HardwareTypes
    <2> QED BY <2>1, <2>2, <2>3, <2>4 DEF TypeOK
  <1>39. ASSUME IrqAck PROVE  TypeOK'
    <2>1. BufferTypes'
      BY <1>39 DEF IrqAck, BufferTypes
    <2>2. FlagTypes'
      BY <1>39 DEF IrqAck, FlagTypes
    <2>3. ThreadTypes'
      <3>1. irqSeen' \in Seen
        BY <1>39, ChannelsAssumption DEF IrqAck, Seen, NothingSeen
      <3> QED BY <1>39, <3>1 DEF IrqAck, ThreadTypes
    <2>4. HardwareTypes'
      BY <1>39, ChannelsAssumption DEF IrqAck, HardwareTypes, Channels
    <2> QED BY <2>1, <2>2, <2>3, <2>4 DEF TypeOK
  <1>40. ASSUME HwFill PROVE  TypeOK'
    <2>1. BufferTypes'
      BY <1>40 DEF HwFill, BufferTypes
    <2>2. FlagTypes'
      BY <1>40 DEF HwFill, FlagTypes
    <2>3. ThreadTypes'
      BY <1>40 DEF HwFill, ThreadTypes
    <2>4. HardwareTypes'
      BY <1>40, ChannelsAssumption DEF HwFill, HardwareTypes, Channels
    <2> QED BY <2>1, <2>2, <2>3, <2>4 DEF TypeOK
  <1>41. ASSUME HwTerminate PROVE  TypeOK'
    <2>1. BufferTypes'
      BY <1>41 DEF HwTerminate, BufferTypes
    <2>2. FlagTypes'
      BY <1>41 DEF HwTerminate, FlagTypes
    <2>3. ThreadTypes'
      BY <1>41 DEF HwTerminate, ThreadTypes
    <2>4. HardwareTypes'
      BY <1>41 DEF HwTerminate, HardwareTypes
    <2> QED BY <2>1, <2>2, <2>3, <2>4 DEF TypeOK
  <1>42. ASSUME HwGlitch PROVE  TypeOK'
    <2>1. BufferTypes'
      BY <1>42 DEF HwGlitch, BufferTypes
    <2>2. FlagTypes'
      BY <1>42 DEF HwGlitch, FlagTypes
    <2>3. ThreadTypes'
      BY <1>42 DEF HwGlitch, ThreadTypes
    <2>4. HardwareTypes'
      BY <1>42, ChannelsAssumption, GlitchAssumption DEF HwGlitch,
        HardwareTypes, Channels
    <2> QED BY <2>1, <2>2, <2>3, <2>4 DEF TypeOK
  <1>43. ASSUME LoseDevice PROVE  TypeOK'
    <2>1. BufferTypes'
      BY <1>43 DEF LoseDevice, BufferTypes
    <2>2. FlagTypes'
      BY <1>43 DEF LoseDevice, FlagTypes
    <2>3. ThreadTypes'
      BY <1>43 DEF LoseDevice, ThreadTypes
    <2>4. HardwareTypes'
      BY <1>43 DEF LoseDevice, HardwareTypes
    <2> QED BY <2>1, <2>2, <2>3, <2>4 DEF TypeOK
  <1>44. ASSUME StallTime PROVE  TypeOK'
    <2>1. BufferTypes'
      BY <1>44 DEF StallTime, BufferTypes
    <2>2. FlagTypes'
      BY <1>44 DEF StallTime, FlagTypes
    <2>3. ThreadTypes'
      BY <1>44 DEF StallTime, ThreadTypes
    <2>4. HardwareTypes'
      BY <1>44 DEF StallTime, HardwareTypes
    <2> QED BY <2>1, <2>2, <2>3, <2>4 DEF TypeOK
  <1>99. CASE UNCHANGED vars
    <2>1. BufferTypes'
      BY <1>99 DEF vars, BufferTypes
    <2>2. FlagTypes'
      BY <1>99 DEF vars, FlagTypes
    <2>3. ThreadTypes'
      BY <1>99 DEF vars, ThreadTypes
    <2>4. HardwareTypes'
      BY <1>99 DEF vars, HardwareTypes
    <2> QED BY <2>1, <2>2, <2>3, <2>4 DEF TypeOK
  <1> QED
    BY <1>1, <1>2, <1>3, <1>4, <1>5, <1>6, <1>7, <1>8, <1>9, <1>10, <1>11,
       <1>12, <1>13, <1>14, <1>15, <1>16, <1>17, <1>18, <1>19, <1>20, <1>21,
       <1>22, <1>23, <1>24, <1>25, <1>26, <1>27, <1>28, <1>29, <1>30, <1>31,
       <1>32, <1>33, <1>34, <1>35, <1>36, <1>37, <1>38, <1>39, <1>40, <1>41,
       <1>42, <1>43, <1>44, <1>99
    DEF Next, ApiCall, Holder, Watchdog, Work, IrqBody, Hardware

-----------------------------------------------------------------------------
(* Placement *)

\* The states of a buffer that is on a list or on a channel.
Listed == {"ready", "active", "done"}

\* A buffer that is nowhere may change to another state that is nowhere.
LEMMA PlacedElsewhere ==
    ASSUME NEW rdy \in Seq(Buffers), NEW dn \in Seq(Buffers), NEW act,
           NEW st \in [Buffers -> BufferStates],
           NEW b \in Buffers, NEW s \in BufferStates,
           st[b] \notin Listed, s \notin Listed,
           Placed(rdy, dn, act, st)
    PROVE  Placed(rdy, dn, act, [st EXCEPT ![b] = s])
  <1> DEFINE new == [st EXCEPT ![b] = s]
  <1>1. \A a \in Buffers : new[a] = IF a = b THEN s ELSE st[a]
    OBVIOUS
  <1>2. \A a : st[a] \in Listed => a # b
    OBVIOUS
  <1>3. /\ Len(rdy) \in Nat /\ \A i \in 1 .. Len(rdy) : rdy[i] \in Buffers
        /\ Len(dn) \in Nat /\ \A i \in 1 .. Len(dn) : dn[i] \in Buffers
    BY ElementOfSeq, LenProperties
  <1>4. /\ \A i \in 1 .. Len(rdy) : new[rdy[i]] = "ready"
        /\ \A i \in 1 .. Len(dn) : new[dn[i]] = "done"
    BY <1>2, <1>3 DEF Placed, Listed
  <1>5. \A c \in Channels : act[c] # NoBuf => new[act[c]] = "active"
    BY <1>2 DEF Placed, Listed
  <1>6. \A a \in Buffers : new[a] \in Listed => st[a] = new[a]
    BY <1>1
  <1> HIDE DEF new
  <1>7. \A a \in Buffers :
          /\ new[a] = "ready" => \E i \in 1 .. Len(rdy) : rdy[i] = a
          /\ new[a] = "done" => \E i \in 1 .. Len(dn) : dn[i] = a
          /\ new[a] = "active" => \E c \in Channels : act[c] = a
    BY <1>6 DEF Placed, Listed
  <1>8. Placed(rdy, dn, act, new)
    BY <1>4, <1>5, <1>7 DEF Placed
  <1> QED BY <1>8 DEF new

\* A buffer that is nowhere may join the end of the ready list.
LEMMA PlacedAppend ==
    ASSUME NEW rdy \in Seq(Buffers), NEW dn \in Seq(Buffers), NEW act,
           NEW st \in [Buffers -> BufferStates],
           NEW b \in Buffers, st[b] \notin Listed,
           Placed(rdy, dn, act, st)
    PROVE  Placed(Append(rdy, b), dn, act, [st EXCEPT ![b] = "ready"])
  <1> DEFINE new == [st EXCEPT ![b] = "ready"]
             app == Append(rdy, b)
  <1>1. \A a \in Buffers : new[a] = IF a = b THEN "ready" ELSE st[a]
    OBVIOUS
  <1>2. /\ Len(rdy) \in Nat /\ \A i \in 1 .. Len(rdy) : rdy[i] \in Buffers
        /\ Len(dn) \in Nat /\ \A i \in 1 .. Len(dn) : dn[i] \in Buffers
    BY ElementOfSeq, LenProperties
  <1>3. /\ Len(app) = Len(rdy) + 1 /\ app[Len(rdy) + 1] = b
        /\ \A i \in 1 .. Len(rdy) : app[i] = rdy[i]
    BY AppendProperties
  <1>4. /\ \A i \in 1 .. Len(rdy) : st[rdy[i]] = "ready" /\ rdy[i] # b
        /\ \A i \in 1 .. Len(dn) : st[dn[i]] = "done" /\ dn[i] # b
    BY DEF Placed, Listed
  <1>5. \A c \in Channels : act[c] # NoBuf => new[act[c]] = "active"
    BY DEF Placed, Listed
  <1> HIDE DEF new, app
  <1>6. \A i \in 1 .. Len(app) : i \in 1 .. Len(rdy) \/ i = Len(rdy) + 1
    BY <1>2, <1>3
  <1>7. /\ \A i \in 1 .. Len(app) : new[app[i]] = "ready"
        /\ \A i \in 1 .. Len(dn) : new[dn[i]] = "done"
    BY <1>1, <1>2, <1>3, <1>4, <1>6
  <1>8. \A i, j \in 1 .. Len(app) : app[i] = app[j] => i = j
    BY <1>3, <1>4, <1>6 DEF Placed
  <1>9. \A a \in Buffers :
          /\ new[a] = "ready" => \E i \in 1 .. Len(app) : app[i] = a
          /\ new[a] = "done" => \E i \in 1 .. Len(dn) : dn[i] = a
          /\ new[a] = "active" => \E c \in Channels : act[c] = a
    <2> SUFFICES ASSUME NEW a \in Buffers
                 PROVE  /\ new[a] = "ready" => \E i \in 1 .. Len(app) : app[i] = a
                        /\ new[a] = "done" => \E i \in 1 .. Len(dn) : dn[i] = a
                        /\ new[a] = "active" => \E c \in Channels : act[c] = a
      OBVIOUS
    <2>1. CASE a = b
      BY <2>1, <1>1, <1>2, <1>3
    <2>2. CASE a # b
      <3>1. new[a] = st[a]
        BY <2>2, <1>1
      <3>2. ASSUME new[a] = "ready" PROVE \E i \in 1 .. Len(rdy) : app[i] = a
        <4>1. PICK i \in 1 .. Len(rdy) : rdy[i] = a
          BY <3>1, <3>2 DEF Placed
        <4> QED BY <4>1, <1>3
      <3>3. 1 .. Len(rdy) \subseteq 1 .. Len(app)
        BY <1>2, <1>3
      <3> QED BY <3>1, <3>2, <3>3 DEF Placed
    <2> QED BY <2>1, <2>2
  <1>10. Placed(app, dn, act, new)
    BY <1>5, <1>7, <1>8, <1>9 DEF Placed
  <1> QED BY <1>10 DEF app, new

\* The buffer of a busy channel may join the end of the done list.
LEMMA PlacedComplete ==
    ASSUME NEW rdy \in Seq(Buffers), NEW dn \in Seq(Buffers),
           NEW act \in [Channels -> Buffers \cup {NoBuf}],
           NEW st \in [Buffers -> BufferStates],
           NEW c \in Channels, act[c] # NoBuf,
           Placed(rdy, dn, act, st)
    PROVE  Placed(rdy, Append(dn, act[c]), [act EXCEPT ![c] = NoBuf],
                  [st EXCEPT ![act[c]] = "done"])
  <1> DEFINE b == act[c]
             new == [st EXCEPT ![b] = "done"]
             rest == [act EXCEPT ![c] = NoBuf]
             app == Append(dn, b)
  <1>1. b \in Buffers /\ st[b] = "active"
    BY DEF Placed
  <1>2. /\ \A a \in Buffers : new[a] = IF a = b THEN "done" ELSE st[a]
        /\ \A d \in Channels : rest[d] = IF d = c THEN NoBuf ELSE act[d]
    OBVIOUS
  <1>3. /\ Len(rdy) \in Nat /\ \A i \in 1 .. Len(rdy) : rdy[i] \in Buffers
        /\ Len(dn) \in Nat /\ \A i \in 1 .. Len(dn) : dn[i] \in Buffers
    BY ElementOfSeq, LenProperties
  <1>4. /\ Len(app) = Len(dn) + 1 /\ app[Len(dn) + 1] = b
        /\ \A i \in 1 .. Len(dn) : app[i] = dn[i]
    BY <1>1, AppendProperties
  <1>5. /\ \A i \in 1 .. Len(rdy) : st[rdy[i]] = "ready" /\ rdy[i] # b
        /\ \A i \in 1 .. Len(dn) : st[dn[i]] = "done" /\ dn[i] # b
    BY <1>1 DEF Placed
  <1>6. \A d \in Channels : rest[d] # NoBuf => d # c /\ rest[d] = act[d]
                                                /\ act[d] # b
    BY <1>2 DEF Placed
  <1>7. \A a \in Buffers : st[a] = "active" => \E d \in Channels : act[d] = a
    BY DEF Placed
  <1>8. \A i \in 1 .. Len(app) : i \in 1 .. Len(dn) \/ i = Len(dn) + 1
    BY <1>3, <1>4
  <1> HIDE DEF b, new, rest, app
  <1>9. /\ \A i \in 1 .. Len(rdy) : new[rdy[i]] = "ready"
        /\ \A i \in 1 .. Len(app) : new[app[i]] = "done"
    BY <1>1, <1>2, <1>3, <1>4, <1>5, <1>8
  <1>10. \A d \in Channels : rest[d] # NoBuf => new[rest[d]] = "active"
    BY <1>2, <1>6 DEF Placed
  <1>11. \A i, j \in 1 .. Len(app) : app[i] = app[j] => i = j
    BY <1>4, <1>5, <1>8 DEF Placed
  <1>12. \A d, e \in Channels : rest[d] = rest[e] /\ rest[d] # NoBuf => d = e
    BY <1>6 DEF Placed
  <1>13. \A a \in Buffers :
          /\ new[a] = "ready" => \E i \in 1 .. Len(rdy) : rdy[i] = a
          /\ new[a] = "done" => \E i \in 1 .. Len(app) : app[i] = a
          /\ new[a] = "active" => \E d \in Channels : rest[d] = a
    <2> SUFFICES ASSUME NEW a \in Buffers
                 PROVE  /\ new[a] = "ready" => \E i \in 1 .. Len(rdy) : rdy[i] = a
                        /\ new[a] = "done" => \E i \in 1 .. Len(app) : app[i] = a
                        /\ new[a] = "active" => \E d \in Channels : rest[d] = a
      OBVIOUS
    <2>1. CASE a = b
      <3>1. Len(dn) + 1 \in 1 .. Len(app)
        BY <1>3, <1>4
      <3> QED BY <2>1, <3>1, <1>2, <1>4
    <2>2. CASE a # b
      <3>1. new[a] = st[a]
        BY <2>2, <1>2
      <3>2. ASSUME new[a] = "done" PROVE \E i \in 1 .. Len(dn) : app[i] = a
        <4>1. PICK i \in 1 .. Len(dn) : dn[i] = a
          BY <3>1, <3>2 DEF Placed
        <4> QED BY <4>1, <1>4
      <3>3. 1 .. Len(dn) \subseteq 1 .. Len(app)
        BY <1>3, <1>4
      <3>4. ASSUME new[a] = "active" PROVE \E d \in Channels : rest[d] = a
        <4>1. PICK d \in Channels : act[d] = a
          BY <3>1, <3>4, <1>7
        <4>2. d # c
          BY <4>1, <2>2 DEF b
        <4> QED BY <4>1, <4>2, <1>2
      <3>5. new[a] = "ready" => \E i \in 1 .. Len(rdy) : rdy[i] = a
        BY <3>1 DEF Placed
      <3> QED BY <3>2, <3>3, <3>4, <3>5
    <2> QED BY <2>1, <2>2
  <1>14. Placed(rdy, app, rest, new)
    BY <1>9, <1>10, <1>11, <1>12, <1>13 DEF Placed
  <1> QED BY <1>14 DEF b, app, rest, new

\* The oldest completion may leave the done list.
LEMMA PlacedServe ==
    ASSUME NEW rdy \in Seq(Buffers), NEW dn \in Seq(Buffers), NEW act,
           NEW st \in [Buffers -> BufferStates],
           dn # <<>>,
           Placed(rdy, dn, act, st)
    PROVE  Placed(rdy, Tail(dn), act, [st EXCEPT ![Head(dn)] = "prepared"])
  <1> DEFINE b == Head(dn)
             new == [st EXCEPT ![b] = "prepared"]
             tl == Tail(dn)
  <1>1. /\ Len(rdy) \in Nat /\ \A i \in 1 .. Len(rdy) : rdy[i] \in Buffers
        /\ Len(dn) \in Nat \ {0} /\ \A i \in 1 .. Len(dn) : dn[i] \in Buffers
    BY ElementOfSeq, LenProperties, EmptySeq
  <1>2. b = dn[1] /\ b \in Buffers /\ st[b] = "done"
    BY <1>1 DEF Placed
  <1>3. /\ Len(tl) = Len(dn) - 1
        /\ \A i \in 1 .. Len(tl) : tl[i] = dn[i + 1] /\ i + 1 \in 2 .. Len(dn)
    BY <1>1, HeadTailProperties
  <1>4. \A a \in Buffers : new[a] = IF a = b THEN "prepared" ELSE st[a]
    OBVIOUS
  <1>5. /\ \A i \in 1 .. Len(rdy) : st[rdy[i]] = "ready" /\ rdy[i] # b
        /\ \A i \in 2 .. Len(dn) : st[dn[i]] = "done" /\ dn[i] # b
    <2>1. \A i \in 2 .. Len(dn) : i \in 1 .. Len(dn) /\ 1 \in 1 .. Len(dn) /\ i # 1
      BY <1>1
    <2> QED BY <2>1, <1>2 DEF Placed
  <1>6. \A c \in Channels : act[c] # NoBuf => new[act[c]] = "active"
    BY <1>2 DEF Placed
  <1> HIDE DEF b, new, tl
  <1>7. /\ \A i \in 1 .. Len(rdy) : new[rdy[i]] = "ready"
        /\ \A i \in 1 .. Len(tl) : new[tl[i]] = "done"
    <2>1. \A i \in 1 .. Len(rdy) : new[rdy[i]] = "ready"
      BY <1>1, <1>4, <1>5
    <2>2. \A i \in 2 .. Len(dn) : dn[i] \in Buffers
      BY <1>1
    <2>3. \A i \in 2 .. Len(dn) : new[dn[i]] = "done"
      BY <2>2, <1>4, <1>5
    <2> QED BY <2>1, <2>3, <1>3
  <1>8. \A i, j \in 1 .. Len(tl) : tl[i] = tl[j] => i = j
    <2> SUFFICES ASSUME NEW i \in 1 .. Len(tl), NEW j \in 1 .. Len(tl),
                        tl[i] = tl[j]
                 PROVE  i = j
      OBVIOUS
    <2>1. dn[i + 1] = dn[j + 1] /\ i + 1 \in 1 .. Len(dn) /\ j + 1 \in 1 .. Len(dn)
      BY <1>1, <1>3
    <2>2. i + 1 = j + 1
      BY <2>1 DEF Placed
    <2> QED BY <2>2
  <1>9. \A a \in Buffers :
          /\ new[a] = "ready" => \E i \in 1 .. Len(rdy) : rdy[i] = a
          /\ new[a] = "done" => \E i \in 1 .. Len(tl) : tl[i] = a
          /\ new[a] = "active" => \E c \in Channels : act[c] = a
    <2> SUFFICES ASSUME NEW a \in Buffers, new[a] \in Listed
                 PROVE  /\ new[a] = "ready" => \E i \in 1 .. Len(rdy) : rdy[i] = a
                        /\ new[a] = "done" => \E i \in 1 .. Len(tl) : tl[i] = a
                        /\ new[a] = "active" => \E c \in Channels : act[c] = a
      BY DEF Listed
    <2>1. a # b /\ new[a] = st[a]
      BY <1>4 DEF Listed
    <2>2. ASSUME new[a] = "done" PROVE \E i \in 1 .. Len(tl) : tl[i] = a
      <3>1. PICK i \in 1 .. Len(dn) : dn[i] = a
        BY <2>1, <2>2 DEF Placed
      <3>2. i # 1
        BY <3>1, <2>1, <1>2
      <3>3. i - 1 \in 1 .. Len(tl) /\ (i - 1) + 1 = i
        BY <3>1, <3>2, <1>1, <1>3
      <3>4. tl[i - 1] = a
        BY <3>1, <3>3, <1>3
      <3> QED BY <3>3, <3>4
    <2> QED BY <2>1, <2>2 DEF Placed
  <1>10. \A c, d \in Channels : act[c] = act[d] /\ act[c] # NoBuf => c = d
    BY DEF Placed
  <1>11. \A i, j \in 1 .. Len(rdy) : rdy[i] = rdy[j] => i = j
    BY DEF Placed
  <1>12. Placed(rdy, tl, act, new)
    BY <1>6, <1>7, <1>8, <1>9, <1>10, <1>11 DEF Placed
  <1> QED BY <1>12 DEF b, tl, new

\* The steps that move a buffer; every other step leaves them all in place.
BufferStep ==
    \/ \E b \in Buffers : PrepareBegin(b) \/ Queue(b) \/ CleanupBuffer(b)
    \/ PrepareEnd \/ StartPublish \/ StopFinish
    \/ WorkExit \/ WorkTake \/ WorkSettle
    \/ \E c \in Channels : IrqComplete(c)

\* The conjuncts of BufferInv hold again after a step that leaves the buffers
\* and whoever holds them alone.
LEMMA BufferFrame ==
    ASSUME [Next]_vars
    PROVE  \/ BufferStep
           \/ UNCHANGED <<bufVars, listVars, workBuf>>
  <1> DEFINE Same == UNCHANGED <<bufVars, listVars, workBuf>>
  <1> USE DEF streamVars, otherVars, bufVars, listVars, workVars
  <1>1. VideoReset => Same
    BY DEF VideoReset
  <1>2. FpgaConfigure => Same
    BY DEF FpgaConfigure
  <1>3. StartBegin => Same
    BY DEF StartBegin
  <1>4. StopBegin => Same
    BY DEF StopBegin
  <1>5. QueueKick => Same
    BY DEF QueueKick
  <1>6. StartSetup => Same
    BY DEF StartSetup
  <1>7. StartEnable => Same
    BY DEF StartEnable
  <1>8. StartRollback => Same
    BY DEF StartRollback
  <1>9. CancelWatchdog => Same
    BY DEF CancelWatchdog
  <1>10. FlushWatchdog => Same
    BY DEF FlushWatchdog
  <1>11. Quiesce => Same
    BY DEF Quiesce
  <1>12. Terminated => Same
    BY DEF Terminated
  <1>13. StopTimeout => Same
    BY DEF StopTimeout
  <1>14. MaskInterrupts => Same
    BY DEF MaskInterrupts
  <1>15. SynchronizeIrq => Same
    BY DEF SynchronizeIrq
  <1>16. FlushWork => Same
    BY DEF FlushWork
  <1>17. ClearHardware => Same
    BY DEF ClearHardware
  <1>18. ReportError => Same
    BY DEF ReportError
  <1>19. WatchdogStop => Same
    BY DEF WatchdogStop
  <1>20. WatchdogStart => Same
    BY DEF WatchdogStart
  <1>21. WatchdogBusy => Same
    BY DEF WatchdogBusy
  <1>22. WatchdogCheck => Same
    BY DEF WatchdogCheck
  <1>23. WatchdogRecover => Same
    BY DEF WatchdogRecover
  <1>24. WorkStart => Same
    BY DEF WorkStart
  <1>25. ASSUME NEW a \in {"recycle", "release"}, WorkCallback(a) PROVE Same
    BY <1>25 DEF WorkCallback
  <1>26. IrqRead => Same
    BY DEF IrqRead
  <1>27. IrqStray => Same
    BY DEF IrqStray
  <1>28. IrqNotify => Same
    BY DEF IrqNotify
  <1>29. IrqAck => Same
    BY DEF IrqAck
  <1>30. HwFill => Same
    BY DEF HwFill
  <1>31. HwTerminate => Same
    BY DEF HwTerminate
  <1>32. HwGlitch => Same
    BY DEF HwGlitch
  <1>33. LoseDevice => Same
    BY DEF LoseDevice
  <1>34. StallTime => Same
    BY DEF StallTime
  <1>99. UNCHANGED vars => Same
    BY DEF vars
  <1> HIDE DEF Same
  <1>100. BufferStep \/ Same
    BY <1>1, <1>2, <1>3, <1>4, <1>5, <1>6, <1>7, <1>8, <1>9, <1>10, <1>11,
       <1>12, <1>13, <1>14, <1>15, <1>16, <1>17, <1>18, <1>19, <1>20, <1>21,
       <1>22, <1>23, <1>24, <1>25, <1>26, <1>27, <1>28, <1>29, <1>30, <1>31,
       <1>32, <1>33, <1>34, <1>99
    DEF Next, ApiCall, Holder, Watchdog, Work, IrqBody, Hardware, BufferStep
  <1> QED BY <1>100 DEF Same

\* Every step keeps every buffer in its place.
LEMMA PlacementStep ==
    ASSUME TypeOK, Placement, References, Holding, [Next]_vars
    PROVE  Placement'
  <1>0. BufferTypes /\ FlagTypes /\ ThreadTypes /\ HardwareTypes
    BY DEF TypeOK
  <1> USE <1>0 DEF bufVars, listVars
  <1>1. ASSUME NEW b \in Buffers, PrepareBegin(b) PROVE Placement'
    <2>1. /\ state[b] \notin Listed
          /\ state' = [state EXCEPT ![b] = "preparing"]
          /\ UNCHANGED <<ready, done, active>>
      BY <1>1 DEF PrepareBegin, Listed
    <2> QED BY <2>1, PlacedElsewhere
            DEF Placement, BufferTypes, BufferStates, Listed
  <1>2. ASSUME NEW b \in Buffers, Queue(b) PROVE Placement'
    <2>1. /\ state[b] \notin Listed
          /\ state' = [state EXCEPT ![b] = "ready"]
          /\ ready' = Append(ready, b)
          /\ UNCHANGED <<done, active>>
      BY <1>2 DEF Queue, Listed
    <2> QED BY <2>1, PlacedAppend DEF Placement, BufferTypes
  <1>3. ASSUME NEW b \in Buffers, CleanupBuffer(b) PROVE Placement'
    <2>1. /\ state[b] \notin Listed
          /\ state' = state \/ state' = [state EXCEPT ![b] = "free"]
          /\ UNCHANGED <<ready, done, active>>
      BY <1>3 DEF CleanupBuffer, Listed
    <2>2. CASE state' = state
      BY <2>1, <2>2 DEF Placement, Placed
    <2>3. CASE state' = [state EXCEPT ![b] = "free"]
      BY <2>1, <2>3, PlacedElsewhere
      DEF Placement, BufferTypes, BufferStates, Listed
    <2> QED BY <2>1, <2>2, <2>3
  <1>4. ASSUME PrepareEnd PROVE Placement'
    <2>1. /\ ctlBuf \in Buffers /\ state[ctlBuf] \notin Listed
          /\ state' = [state EXCEPT ![ctlBuf] = "prepared"]
          /\ UNCHANGED <<ready, done, active>>
      BY <1>4 DEF PrepareEnd, Holding, Listed
    <2> QED BY <2>1, PlacedElsewhere
            DEF Placement, BufferTypes, BufferStates, Listed
  <1>5. ASSUME ReturnBuffers PROVE Placement'
    <2>1. /\ ready' = <<>> /\ done' = <<>>
          /\ \A c \in Channels : active'[c] = NoBuf
          /\ \A b \in Buffers : state'[b] \notin Listed
      BY <1>5 DEF ReturnBuffers, Listed
    <2>2. Len(ready') = 0 /\ Len(done') = 0
      BY <2>1, EmptySeq
    <2> QED BY <2>1, <2>2 DEF Placement, Placed, Listed
  <1>6. ASSUME StartPublish PROVE Placement'
    <2>1. ReturnBuffers \/ (SubmitReady(ready, active, state, hwChan) /\ done' = done)
      BY <1>6 DEF StartPublish
    <2> QED BY <2>1, <1>5, SubmitPlaced DEF Placement, BufferTypes
  <1>7. ASSUME StopFinish PROVE Placement'
    BY <1>5, <1>7 DEF StopFinish
  <1>8. ASSUME WorkExit PROVE Placement'
    <2>1. /\ done' = done
          /\ \/ SubmitReady(ready, active, state, hwChan)
             \/ UNCHANGED <<ready, active, state>>
      BY <1>8 DEF WorkExit, NoSubmit
    <2>2. CASE SubmitReady(ready, active, state, hwChan)
      BY <2>1, <2>2, SubmitPlaced DEF Placement, BufferTypes
    <2>3. CASE UNCHANGED <<ready, active, state>>
      BY <2>1, <2>3 DEF Placement, Placed
    <2> QED BY <2>1, <2>2, <2>3
  <1>9. ASSUME WorkTake PROVE Placement'
    <2>1. /\ done # <<>> /\ done' = Tail(done)
          /\ state' = [state EXCEPT ![Head(done)] = "prepared"]
          /\ UNCHANGED <<ready, active>>
      BY <1>9 DEF WorkTake
    <2> QED BY <2>1, PlacedServe DEF Placement, BufferTypes
  <1>10. ASSUME WorkSettle PROVE Placement'
    <2>1. workBuf \in Buffers
      BY <1>10 DEF WorkSettle, Holding, ThreadTypes
    <2>2. CASE Recyclable(workBuf)
      <3> DEFINE st == [state EXCEPT ![workBuf] = "ready"]
                 rdy == Append(ready, workBuf)
      <3>1. SubmitReady(rdy, active, st, hwChan) /\ done' = done
        BY <1>10, <2>2 DEF WorkSettle
      <3>2. state[workBuf] \notin Listed
        BY <2>2 DEF Recyclable, Listed
      <3>3. Placed(rdy, done, active, st)
        BY <2>1, <3>2, PlacedAppend DEF Placement, BufferTypes
      <3>4. rdy \in Seq(Buffers) /\ st \in [Buffers -> BufferStates]
        BY <2>1, AppendProperties DEF BufferTypes, BufferStates
      <3> HIDE DEF rdy, st
      <3> QED BY <3>1, <3>3, <3>4, SubmitPlaced DEF Placement, BufferTypes
    <2>3. CASE ~Recyclable(workBuf)
      <3>1. /\ UNCHANGED <<ready, done, active>>
            /\ \/ state' = state
               \/ refs[workBuf] = 1 /\ state' = [state EXCEPT ![workBuf] = "free"]
        BY <1>10, <2>3 DEF WorkSettle, NoSubmit
      <3>2. CASE state' = state
        BY <3>1, <3>2 DEF Placement, Placed
      <3>3. CASE refs[workBuf] = 1 /\ state' = [state EXCEPT ![workBuf] = "free"]
        <4>1. refs[workBuf] = (IF registered[workBuf] THEN 1 ELSE 0)
                              + (IF workBuf = workBuf THEN 1 ELSE 0)
          BY <2>1 DEF References
        <4>2. ~registered[workBuf]
          BY <3>3, <4>1
        <4>3. state[workBuf] \notin Listed
          BY <2>1, <4>2 DEF References, Listed
        <4> QED BY <3>1, <3>3, <2>1, <4>3, PlacedElsewhere
                DEF Placement, BufferTypes, BufferStates, Listed
      <3> QED BY <3>1, <3>2, <3>3
    <2> QED BY <2>2, <2>3
  <1>11. ASSUME NEW c \in Channels, IrqComplete(c) PROVE Placement'
    <2> DEFINE act == [active EXCEPT ![c] = NoBuf]
               st == [state EXCEPT ![active[c]] = "done"]
               dn == Append(done, active[c])
               ch == IF lost THEN hwChan ELSE [hwChan EXCEPT ![c] = "idle"]
    <2>1. /\ active[c] # NoBuf /\ active[c] \in Buffers /\ done' = dn
          /\ \/ SubmitReady(ready, act, st, ch)
             \/ ready' = ready /\ active' = act /\ state' = st
      BY <1>11 DEF IrqComplete, Completing, NoSubmit, BufferTypes
    <2>2. Placed(ready, dn, act, st)
      BY <2>1, PlacedComplete DEF Placement, BufferTypes
    <2>3. /\ dn \in Seq(Buffers) /\ st \in [Buffers -> BufferStates]
          /\ act \in [Channels -> Buffers \cup {NoBuf}]
      BY <2>1, AppendProperties DEF BufferTypes, BufferStates
    <2> HIDE DEF act, st, dn, ch
    <2>4. CASE SubmitReady(ready, act, st, ch)
      BY <2>1, <2>2, <2>3, <2>4, SubmitPlaced DEF Placement, BufferTypes
    <2>5. CASE ready' = ready /\ active' = act /\ state' = st
      BY <2>1, <2>2, <2>5 DEF Placement
    <2> QED BY <2>1, <2>4, <2>5
  <1>12. CASE UNCHANGED <<bufVars, listVars, workBuf>>
    BY <1>12 DEF Placement, Placed
  <1> QED
    BY <1>1, <1>2, <1>3, <1>4, <1>6, <1>7, <1>8, <1>9, <1>10, <1>11, <1>12,
       BufferFrame
    DEF BufferStep

-----------------------------------------------------------------------------
(* References *)

\* What References says of one buffer.
Counted(b) ==
    /\ refs[b] = (IF registered[b] THEN 1 ELSE 0)
                 + (IF workBuf = b THEN 1 ELSE 0)
    /\ state[b] = "free" <=> refs[b] = 0
    /\ complete[b] <=> state[b] \in Listed
    /\ state[b] # "prepared" /\ state[b] # "free" => registered[b]

\* The references of all buffers are those of each.
LEMMA ReferencesCounted == References <=> \A b \in Buffers : Counted(b)
  BY DEF References, Counted, Listed

\* A buffer whose fields stay, but for a move between lists and channels.
LEMMA CountedStays ==
    ASSUME NEW b \in Buffers, Counted(b),
           refs'[b] = refs[b], registered'[b] = registered[b],
           complete'[b] = complete[b], (workBuf = b) <=> (workBuf' = b),
           \/ state'[b] = state[b]
           \/ state[b] \in Listed /\ state'[b] \in Listed
    PROVE  Counted(b)'
  BY DEF Counted, Listed

\* Every step keeps the reference counts.
LEMMA ReferencesStep ==
    ASSUME TypeOK, Placement, References, Holding, [Next]_vars
    PROVE  References'
  <1>0. /\ BufferTypes /\ FlagTypes /\ ThreadTypes /\ HardwareTypes
        /\ \A b \in Buffers : Counted(b)
    BY ReferencesCounted DEF TypeOK
  <1> SUFFICES ASSUME NEW b \in Buffers PROVE Counted(b)'
    BY DEF References, Counted, Listed
  <1> USE <1>0 DEF bufVars, listVars, workVars, otherVars
  <1>1. ASSUME NEW a \in Buffers, PrepareBegin(a) PROVE Counted(b)'
    <2>1. CASE a = b
      BY <1>1, <2>1 DEF PrepareBegin, Counted, BufferTypes, Listed
    <2>2. CASE a # b
      BY <1>1, <2>2, CountedStays DEF PrepareBegin, BufferTypes
    <2> QED BY <2>1, <2>2
  <1>2. ASSUME NEW a \in Buffers, Queue(a) PROVE Counted(b)'
    <2>1. CASE a = b
      BY <1>2, <2>1 DEF Queue, Counted, BufferTypes, Listed
    <2>2. CASE a # b
      BY <1>2, <2>2, CountedStays DEF Queue, BufferTypes
    <2> QED BY <2>1, <2>2
  <1>3. ASSUME NEW a \in Buffers, CleanupBuffer(a) PROVE Counted(b)'
    <2>1. CASE a = b
      <3>1. /\ registered[b] /\ state[b] = "prepared" /\ ~complete[b]
            /\ refs[b] = 1 + (IF workBuf = b THEN 1 ELSE 0)
        BY <1>3, <2>1 DEF CleanupBuffer, Counted, Listed
      <3>2. /\ ~registered'[b] /\ complete' = complete /\ workBuf' = workBuf
            /\ refs'[b] = refs[b] - 1
            /\ state'[b] = IF refs[b] = 1 THEN "free" ELSE "prepared"
        BY <1>3, <2>1, <3>1 DEF CleanupBuffer, Put, BufferTypes
      <3> QED BY <3>1, <3>2 DEF Counted, Listed
    <2>2. CASE a # b
      <3>1. /\ refs'[b] = refs[b] /\ registered'[b] = registered[b]
            /\ complete' = complete /\ workBuf' = workBuf
            /\ state'[b] = state[b]
        BY <1>3, <2>2 DEF CleanupBuffer, Put, BufferTypes
      <3> QED BY <3>1, CountedStays
    <2> QED BY <2>1, <2>2
  <1>4. ASSUME PrepareEnd PROVE Counted(b)'
    <2>1. /\ ctlBuf \in Buffers /\ state[ctlBuf] = "preparing"
          /\ state' = [state EXCEPT ![ctlBuf] = "prepared"]
          /\ UNCHANGED <<refs, registered, complete, workBuf>>
      BY <1>4 DEF PrepareEnd, Holding
    <2>2. CASE b = ctlBuf
      BY <2>1, <2>2 DEF Counted, Listed, BufferTypes
    <2>3. CASE b # ctlBuf
      BY <2>1, <2>3, CountedStays DEF BufferTypes
    <2> QED BY <2>2, <2>3
  <1>5. ASSUME ReturnBuffers, UNCHANGED <<refs, registered, workBuf>>
        PROVE  Counted(b)'
    <2>1. CASE state[b] \in Listed
      <3>1. state'[b] = "prepared" /\ complete'[b] = FALSE
        BY <1>5, <2>1 DEF ReturnBuffers, Listed
      <3> QED BY <1>5, <2>1, <3>1 DEF Counted, Listed
    <2>2. CASE state[b] \notin Listed
      <3>1. state'[b] = state[b] /\ complete'[b] = complete[b]
        BY <1>5, <2>2 DEF ReturnBuffers, Listed, BufferTypes
      <3> QED BY <1>5, <3>1, CountedStays
    <2> QED BY <2>1, <2>2
  <1>6. ASSUME NEW rdy \in Seq(Buffers), NEW dn \in Seq(Buffers),
               NEW act \in [Channels -> Buffers \cup {NoBuf}],
               NEW ch,
               Placed(rdy, dn, act, state),
               SubmitReady(rdy, act, state, ch),
               UNCHANGED <<refs, registered, complete, workBuf>>
        PROVE  Counted(b)'
    <2>1. \A a \in Buffers :
            \/ state'[a] = state[a]
            \/ state[a] = "ready" /\ state'[a] = "active"
      <3>1. /\ last \in -1 .. NChannels - 1
            /\ state \in [Buffers -> BufferStates]
        BY DEF BufferTypes
      <3>2. Placed(rdy, dn, act, state) /\ SubmitReady(rdy, act, state, ch)
        BY <1>6
      <3> QED BY <3>1, <3>2, SubmitPlaced
    <2>2. \/ state'[b] = state[b]
          \/ state[b] \in Listed /\ state'[b] \in Listed
      BY <2>1 DEF Listed
    <2> QED BY <1>6, <2>2, CountedStays
  <1>7. ASSUME StartPublish PROVE Counted(b)'
    <2>1. /\ UNCHANGED <<refs, registered, workBuf>>
          /\ \/ ReturnBuffers
             \/ /\ SubmitReady(ready, active, state, hwChan)
                /\ UNCHANGED complete
      BY <1>7 DEF StartPublish
    <2> QED BY <2>1, <1>5, <1>6 DEF Placement, BufferTypes
  <1>8. ASSUME StopFinish PROVE Counted(b)'
    BY <1>5, <1>8 DEF StopFinish
  <1>9. ASSUME WorkExit PROVE Counted(b)'
    <2>1. /\ UNCHANGED <<refs, registered, complete, workBuf>>
          /\ \/ SubmitReady(ready, active, state, hwChan)
             \/ UNCHANGED state
      BY <1>9 DEF WorkExit, NoSubmit
    <2> QED BY <2>1, <1>6, CountedStays DEF Placement, BufferTypes
  <1>10. ASSUME WorkTake PROVE Counted(b)'
    <2>1. /\ Head(done) \in Buffers /\ state[Head(done)] = "done"
          /\ workBuf = NoBuf
      <3>1. done # <<>> /\ workPc = "scan"
        BY <1>10 DEF WorkTake
      <3>2. 1 \in 1 .. Len(done) /\ Head(done) = done[1]
        BY <3>1, EmptySeq DEF BufferTypes
      <3> QED BY <3>1, <3>2, ElementOfSeq DEF Placement, Placed, Holding, BufferTypes
    <2>2. /\ UNCHANGED registered
          /\ state' = [state EXCEPT ![Head(done)] = "prepared"]
          /\ complete' = [complete EXCEPT ![Head(done)] = FALSE]
          /\ \/ /\ refs' = [refs EXCEPT ![Head(done)] = @ + 1]
                /\ workBuf' = Head(done)
             \/ refs' = refs /\ workBuf' = NoBuf
      BY <1>10 DEF WorkTake
    <2>3. CASE b = Head(done)
      <3>1. state'[b] = "prepared" /\ ~complete'[b] /\ registered'[b]
        BY <2>1, <2>2, <2>3 DEF Counted, BufferTypes
      <3>2. refs[b] = 1
        BY <2>1, <2>3, NoBufAssumption DEF Counted
      <3>3. refs'[b] = 1 + (IF workBuf' = b THEN 1 ELSE 0)
        BY <2>1, <2>2, <2>3, <3>2, NoBufAssumption DEF BufferTypes
      <3> QED BY <3>1, <3>3 DEF Counted, Listed
    <2>4. CASE b # Head(done)
      <3>1. /\ refs'[b] = refs[b] /\ registered'[b] = registered[b]
            /\ complete'[b] = complete[b] /\ state'[b] = state[b]
        BY <2>1, <2>2, <2>4 DEF BufferTypes
      <3>2. workBuf # b /\ workBuf' # b
        BY <2>1, <2>2, <2>4, NoBufAssumption
      <3> QED BY <3>1, <3>2, CountedStays
    <2> QED BY <2>3, <2>4
  <1>11. ASSUME WorkSettle PROVE Counted(b)'
    <2>1. /\ workBuf \in Buffers /\ workBuf' = NoBuf
          /\ refs' = [refs EXCEPT ![workBuf] = @ - 1] /\ UNCHANGED registered
      BY <1>11 DEF WorkSettle, Put, Holding, ThreadTypes
    <2>2. CASE Recyclable(workBuf)
      <3> DEFINE st == [state EXCEPT ![workBuf] = "ready"]
                 rdy == Append(ready, workBuf)
      <3>1. SubmitReady(rdy, active, st, hwChan)
            /\ complete' = [complete EXCEPT ![workBuf] = TRUE]
        BY <1>11, <2>2 DEF WorkSettle
      <3>2. registered[workBuf] /\ state[workBuf] = "prepared"
        BY <2>2 DEF Recyclable
      <3>3. /\ rdy \in Seq(Buffers) /\ st \in [Buffers -> BufferStates]
            /\ Placed(rdy, done, active, st)
            /\ \A a \in Buffers : st[a] = IF a = workBuf THEN "ready" ELSE state[a]
        BY <2>1, <3>2, AppendProperties, PlacedAppend
        DEF Placement, BufferTypes, BufferStates, Listed
      <3> HIDE DEF rdy, st
      <3>4. \/ state'[b] = st[b]
            \/ st[b] = "ready" /\ state'[b] = "active"
        <4>1. /\ done \in Seq(Buffers)
              /\ active \in [Channels -> Buffers \cup {NoBuf}]
              /\ last \in -1 .. NChannels - 1
          BY DEF BufferTypes
        <4> QED BY ONLY <3>1, <3>3, <4>1, b \in Buffers, SubmitPlaced
      <3>5. CASE b = workBuf
        <4>1. state'[b] \in Listed /\ complete'[b] /\ registered'[b]
          BY <2>1, <3>1, <3>2, <3>3, <3>4, <3>5 DEF Listed, BufferTypes
        <4>2. refs[b] = 2
          BY <3>2, <3>5 DEF Counted
        <4>3. refs'[b] = 1 /\ workBuf' # b
          BY <2>1, <3>5, <4>2, NoBufAssumption DEF BufferTypes
        <4> QED BY <4>1, <4>3 DEF Counted, Listed
      <3>6. CASE b # workBuf
        <4>1. /\ refs'[b] = refs[b] /\ registered'[b] = registered[b]
              /\ complete'[b] = complete[b] /\ workBuf' # b
          BY <2>1, <3>1, <3>6, NoBufAssumption DEF BufferTypes
        <4>2. \/ state'[b] = state[b]
              \/ state[b] \in Listed /\ state'[b] \in Listed
          BY <3>3, <3>4, <3>6 DEF Listed
        <4> QED BY <3>6, <4>1, <4>2, CountedStays
      <3> QED BY <3>5, <3>6
    <2>3. CASE ~Recyclable(workBuf)
      <3>1. /\ complete' = complete
            /\ state' = IF refs[workBuf] = 1
                        THEN [state EXCEPT ![workBuf] = "free"] ELSE state
        BY <1>11, <2>3 DEF WorkSettle, NoSubmit
      <3>2. CASE b = workBuf
        <4>1. refs[b] = (IF registered[b] THEN 1 ELSE 0) + 1
          BY <3>2 DEF Counted
        <4>2. refs'[b] = refs[b] - 1 /\ workBuf' # b /\ complete'[b] = complete[b]
              /\ registered'[b] = registered[b]
              /\ state'[b] = IF refs[b] = 1 THEN "free" ELSE state[b]
          BY <2>1, <3>1, <3>2, NoBufAssumption DEF BufferTypes
        <4>3. CASE registered[b]
          BY <4>1, <4>2, <4>3 DEF Counted, Listed
        <4>4. CASE ~registered[b]
          <5>1. state[b] = "prepared" /\ ~complete[b]
            BY <4>1, <4>4 DEF Counted, Listed
          <5> QED BY <4>1, <4>2, <4>4, <5>1 DEF Counted, Listed
        <4> QED BY <4>3, <4>4
      <3>3. CASE b # workBuf
        BY <2>1, <3>1, <3>3, NoBufAssumption, CountedStays DEF BufferTypes
      <3> QED BY <3>2, <3>3
    <2> QED BY <2>2, <2>3
  <1>12. ASSUME NEW c \in Channels, IrqComplete(c) PROVE Counted(b)'
    <2> DEFINE act == [active EXCEPT ![c] = NoBuf]
               st == [state EXCEPT ![active[c]] = "done"]
               dn == Append(done, active[c])
               ch == IF lost THEN hwChan ELSE [hwChan EXCEPT ![c] = "idle"]
    <2>1. /\ active[c] # NoBuf /\ active[c] \in Buffers
          /\ state[active[c]] = "active"
          /\ UNCHANGED <<refs, registered, complete, workBuf>>
          /\ SubmitReady(ready, act, st, ch) \/ state' = st
      BY <1>12 DEF IrqComplete, Completing, NoSubmit, BufferTypes, Placement, Placed
    <2>2. /\ Placed(ready, dn, act, st)
          /\ dn \in Seq(Buffers) /\ st \in [Buffers -> BufferStates]
          /\ act \in [Channels -> Buffers \cup {NoBuf}]
          /\ st[b] = state[b] \/ (state[b] = "active" /\ st[b] = "done")
      BY <2>1, PlacedComplete, AppendProperties
      DEF Placement, BufferTypes, BufferStates
    <2> HIDE DEF act, st, dn, ch
    <2>3. \A a \in Buffers :
            \/ state'[a] = st[a]
            \/ st[a] = "ready" /\ state'[a] = "active"
      <3>1. CASE SubmitReady(ready, act, st, ch)
        BY <2>2, <3>1, SubmitPlaced DEF BufferTypes
      <3> QED BY <2>1, <3>1
    <2>4. \/ state'[b] = state[b]
          \/ state[b] \in Listed /\ state'[b] \in Listed
      BY <2>2, <2>3 DEF Listed
    <2> QED BY <2>1, <2>4, CountedStays
  <1>13. CASE UNCHANGED <<bufVars, listVars, workBuf>>
    BY <1>13, CountedStays
  <1> QED
    BY <1>1, <1>2, <1>3, <1>4, <1>7, <1>8, <1>9, <1>10, <1>11, <1>12, <1>13,
       BufferFrame
    DEF BufferStep

\* Every step keeps who holds what.
LEMMA HoldingStep ==
    ASSUME TypeOK, Placement, References, Holding, [Next]_vars
    PROVE  Holding'
  <1>0. BufferTypes /\ ThreadTypes
    BY DEF TypeOK
  <1> USE <1>0
      DEF streamVars, otherVars, bufVars, listVars, flagVars, runVars, devVars,
          ctlVars, workVars
  <1>1. ASSUME NEW b \in Buffers, PrepareBegin(b) PROVE Holding'
    BY <1>1 DEF PrepareBegin, Holding, BufferTypes
  <1>2. ASSUME NEW b \in Buffers, Queue(b) PROVE Holding'
    BY <1>2 DEF Queue, Holding
  <1>3. ASSUME NEW b \in Buffers, CleanupBuffer(b) PROVE Holding'
    BY <1>3 DEF CleanupBuffer, Holding
  <1>4. ASSUME VideoReset PROVE Holding'
    BY <1>4 DEF VideoReset, Holding
  <1>5. ASSUME FpgaConfigure PROVE Holding'
    BY <1>5 DEF FpgaConfigure, Holding
  <1>6. ASSUME StartBegin PROVE Holding'
    BY <1>6 DEF StartBegin, Holding
  <1>7. ASSUME StopBegin PROVE Holding'
    BY <1>7 DEF StopBegin, Holding
  <1>8. ASSUME QueueKick PROVE Holding'
    BY <1>8 DEF QueueKick, Holding
  <1>9. ASSUME PrepareEnd PROVE Holding'
    BY <1>9 DEF PrepareEnd, Holding
  <1>10. ASSUME StartSetup PROVE Holding'
    BY <1>10 DEF StartSetup, Holding
  <1>12. ASSUME StartEnable PROVE Holding'
    BY <1>12 DEF StartEnable, Holding
  <1>13. ASSUME StartRollback PROVE Holding'
    BY <1>13 DEF StartRollback, Holding
  <1>14. ASSUME CancelWatchdog PROVE Holding'
    BY <1>14 DEF CancelWatchdog, Holding
  <1>15. ASSUME FlushWatchdog PROVE Holding'
    BY <1>15 DEF FlushWatchdog, Holding
  <1>16. ASSUME Quiesce PROVE Holding'
    BY <1>16 DEF Quiesce, Holding
  <1>17. ASSUME Terminated PROVE Holding'
    BY <1>17 DEF Terminated, Holding
  <1>18. ASSUME StopTimeout PROVE Holding'
    BY <1>18 DEF StopTimeout, Holding
  <1>19. ASSUME MaskInterrupts PROVE Holding'
    BY <1>19 DEF MaskInterrupts, Holding
  <1>20. ASSUME SynchronizeIrq PROVE Holding'
    BY <1>20 DEF SynchronizeIrq, Holding
  <1>21. ASSUME FlushWork PROVE Holding'
    BY <1>21 DEF FlushWork, Holding
  <1>22. ASSUME ClearHardware PROVE Holding'
    BY <1>22 DEF ClearHardware, Holding
  <1>23. ASSUME StopFinish PROVE Holding'
    BY <1>23 DEF StopFinish, Holding
  <1>24. ASSUME ReportError PROVE Holding'
    BY <1>24 DEF ReportError, Holding
  <1>25. ASSUME WatchdogStop PROVE Holding'
    BY <1>25 DEF WatchdogStop, Holding
  <1>26. ASSUME WatchdogStart PROVE Holding'
    BY <1>26 DEF WatchdogStart, Holding
  <1>27. ASSUME WatchdogBusy PROVE Holding'
    BY <1>27 DEF WatchdogBusy, Holding
  <1>28. ASSUME WatchdogCheck PROVE Holding'
    BY <1>28 DEF WatchdogCheck, Holding
  <1>29. ASSUME WatchdogRecover PROVE Holding'
    BY <1>29 DEF WatchdogRecover, Holding
  <1>30. ASSUME WorkStart PROVE Holding'
    BY <1>30 DEF WorkStart, Holding
  <1>34. ASSUME NEW a \in {"recycle", "release"}, WorkCallback(a) PROVE Holding'
    BY <1>34 DEF WorkCallback, Holding
  <1>35. ASSUME IrqRead PROVE Holding'
    BY <1>35 DEF IrqRead, Holding
  <1>37. ASSUME IrqStray PROVE Holding'
    BY <1>37 DEF IrqStray, Holding
  <1>38. ASSUME IrqNotify PROVE Holding'
    BY <1>38 DEF IrqNotify, Holding
  <1>39. ASSUME IrqAck PROVE Holding'
    BY <1>39 DEF IrqAck, Holding
  <1>40. ASSUME HwFill PROVE Holding'
    BY <1>40 DEF HwFill, Holding
  <1>41. ASSUME HwTerminate PROVE Holding'
    BY <1>41 DEF HwTerminate, Holding
  <1>42. ASSUME HwGlitch PROVE Holding'
    BY <1>42 DEF HwGlitch, Holding
  <1>43. ASSUME LoseDevice PROVE Holding'
    BY <1>43 DEF LoseDevice, Holding
  <1>44. ASSUME StallTime PROVE Holding'
    BY <1>44 DEF StallTime, Holding
  <1>11. ASSUME StartPublish PROVE Holding'
    BY <1>11 DEF StartPublish, Holding
  <1>31. ASSUME WorkExit PROVE Holding'
    <2>1. UNCHANGED <<workBuf, ctl, ctlBuf>> /\ workPc = "scan" /\ workPc' = "idle"
      BY <1>31 DEF WorkExit
    <2>2. ctl = "prepare" => state'[ctlBuf] = state[ctlBuf]
      <3>1. \/ UNCHANGED state
            \/ SubmitReady(ready, active, state, hwChan)
        BY <1>31 DEF WorkExit, NoSubmit
      <3>2. CASE SubmitReady(ready, active, state, hwChan)
        <4>1. \A a \in Buffers :
            \/ state'[a] = state[a]
            \/ state[a] = "ready" /\ state'[a] = "active"
          BY <3>2, SubmitPlaced DEF BufferTypes, Placement
        <4> QED BY <4>1 DEF Holding
      <3> QED BY <3>1, <3>2
    <2> QED BY <2>1, <2>2 DEF Holding
  <1>32. ASSUME WorkTake PROVE Holding'
    <2>1. Head(done) \in Buffers /\ state[Head(done)] = "done"
      <3>1. done # <<>>
        BY <1>32 DEF WorkTake
      <3>2. 1 \in 1 .. Len(done) /\ Head(done) = done[1]
        BY <3>1, EmptySeq DEF BufferTypes
      <3> QED BY <3>2, ElementOfSeq DEF Placement, Placed, BufferTypes
    <2>2. ctl = "prepare" => state'[ctlBuf] = state[ctlBuf]
      BY <1>32, <2>1 DEF WorkTake, Holding, BufferTypes
    <2>3. workBuf' # NoBuf <=> workPc' \in {"callback", "recycle", "release"}
      BY <1>32, <2>1, NoBufAssumption DEF WorkTake
    <2>4. UNCHANGED <<ctl, ctlBuf>>
      BY <1>32 DEF WorkTake
    <2> QED BY <2>2, <2>3, <2>4 DEF Holding
  <1>33. ASSUME WorkSettle PROVE Holding'
    <2>1. /\ UNCHANGED <<ctl, ctlBuf>> /\ workPc' = "scan" /\ workBuf' = NoBuf
          /\ workBuf \in Buffers
      BY <1>33 DEF WorkSettle, Holding, ThreadTypes
    <2>2. ctl = "prepare" => state'[ctlBuf] = state[ctlBuf]
      <3> SUFFICES ASSUME ctl = "prepare" PROVE state'[ctlBuf] = state[ctlBuf]
        OBVIOUS
      <3>1. ctlBuf \in Buffers /\ state[ctlBuf] = "preparing" /\ registered[ctlBuf]
        BY DEF Holding, References
      <3>2. CASE Recyclable(workBuf)
        <4> DEFINE st == [state EXCEPT ![workBuf] = "ready"]
                   rdy == Append(ready, workBuf)
        <4>1. SubmitReady(rdy, active, st, hwChan)
          BY <1>33, <3>2 DEF WorkSettle
        <4>2. state[workBuf] = "prepared"
          BY <3>2 DEF Recyclable
        <4>3. /\ rdy \in Seq(Buffers) /\ st \in [Buffers -> BufferStates]
              /\ Placed(rdy, done, active, st)
              /\ st[ctlBuf] = "preparing"
          BY <2>1, <3>1, <4>2, AppendProperties, PlacedAppend
          DEF Placement, BufferTypes, BufferStates, Listed
        <4> HIDE DEF rdy, st
        <4>4. \A a \in Buffers :
            \/ state'[a] = st[a]
            \/ st[a] = "ready" /\ state'[a] = "active"
          BY <4>1, <4>3, SubmitPlaced DEF BufferTypes
        <4> QED BY <3>1, <4>3, <4>4
      <3>3. CASE ~Recyclable(workBuf)
        <4>1. state' = IF refs[workBuf] = 1
                       THEN [state EXCEPT ![workBuf] = "free"] ELSE state
          BY <1>33, <3>3 DEF WorkSettle, NoSubmit
        <4>2. refs[workBuf] = (IF registered[workBuf] THEN 1 ELSE 0)
                              + (IF workBuf = workBuf THEN 1 ELSE 0)
          BY <2>1 DEF References
        <4>3. refs[workBuf] = 1 => ctlBuf # workBuf
          BY <3>1, <4>2
        <4> QED BY <3>1, <4>1, <4>3 DEF BufferTypes
      <3> QED BY <3>2, <3>3
    <2> QED BY <2>1, <2>2 DEF Holding
  <1>36. ASSUME NEW c \in Channels, IrqComplete(c) PROVE Holding'
    <2> DEFINE act == [active EXCEPT ![c] = NoBuf]
               st == [state EXCEPT ![active[c]] = "done"]
               dn == Append(done, active[c])
               ch == IF lost THEN hwChan ELSE [hwChan EXCEPT ![c] = "idle"]
    <2>1. /\ UNCHANGED <<ctl, ctlBuf, workPc, workBuf>>
          /\ active[c] # NoBuf /\ active[c] \in Buffers
          /\ state[active[c]] = "active"
          /\ SubmitReady(ready, act, st, ch) \/ state' = st
      BY <1>36 DEF IrqComplete, Completing, NoSubmit, BufferTypes, Placement, Placed
    <2>2. /\ Placed(ready, dn, act, st)
          /\ dn \in Seq(Buffers) /\ st \in [Buffers -> BufferStates]
          /\ act \in [Channels -> Buffers \cup {NoBuf}]
          /\ \A a \in Buffers : state[a] = "preparing" => st[a] = "preparing"
      BY <2>1, PlacedComplete, AppendProperties
      DEF Placement, BufferTypes, BufferStates
    <2> HIDE DEF act, st, dn, ch
    <2>3. \A a \in Buffers :
            \/ state'[a] = st[a]
            \/ st[a] = "ready" /\ state'[a] = "active"
      <3>1. CASE SubmitReady(ready, act, st, ch)
        BY <2>2, <3>1, SubmitPlaced DEF BufferTypes
      <3> QED BY <2>1, <3>1
    <2> QED BY <2>1, <2>2, <2>3 DEF Holding
  <1>99. CASE UNCHANGED vars
    BY <1>99 DEF vars, Holding
  <1> QED
    BY <1>1, <1>2, <1>3, <1>4, <1>5, <1>6, <1>7, <1>8, <1>9, <1>10, <1>11,
       <1>12, <1>13, <1>14, <1>15, <1>16, <1>17, <1>18, <1>19, <1>20, <1>21,
       <1>22, <1>23, <1>24, <1>25, <1>26, <1>27, <1>28, <1>29, <1>30, <1>31,
       <1>32, <1>33, <1>34, <1>35, <1>36, <1>37, <1>38, <1>39, <1>40, <1>41,
       <1>42, <1>43, <1>44, <1>99
    DEF Next, ApiCall, Holder, Watchdog, Work, IrqBody, Hardware

-----------------------------------------------------------------------------

\* gc555_video_dma_init leaves no buffer, no list and no busy channel.
LEMMA BufferInit ==
    ASSUME Init
    PROVE  BufferInv
  <1> USE ChannelsAssumption, NoBufAssumption, GlitchAssumption DEF Init
  <1>1. BufferTypes
    BY EmptySeq DEF BufferTypes, BufferStates
  <1>2. FlagTypes
    BY DEF FlagTypes
  <1>3. ThreadTypes
    <2>1. NothingSeen \in Seen
      BY DEF NothingSeen, Seen
    <2> QED BY <2>1 DEF ThreadTypes, CtlPlaces
  <1>4. HardwareTypes
    <2>1. 0 \in Channels /\ 0 \in 0 .. NChannels /\ 0 \in 0 .. MaxGlitches
      BY DEF Channels
    <2> QED BY <2>1 DEF HardwareTypes
  <1>5. Placement
    BY EmptySeq DEF Placement, Placed
  <1>6. References
    <2> SUFFICES ASSUME NEW b \in Buffers PROVE Counted(b)
      BY ReferencesCounted
    <2>1. /\ refs[b] = 0 /\ ~registered[b] /\ ~complete[b] /\ state[b] = "free"
          /\ workBuf # b
      OBVIOUS
    <2> QED BY <2>1 DEF Counted, Listed
  <1>7. Holding
    BY DEF Holding
  <1> QED BY <1>1, <1>2, <1>3, <1>4, <1>5, <1>6, <1>7 DEF BufferInv, TypeOK

\* The inductive invariant of the buffers holds in every reachable state: the
\* types, where each buffer is, who counts on it and who holds it while
\* API, interrupt, completion work and stop take turns.
THEOREM BufferInvariant == Spec => []BufferInv
  <1>1. Init => BufferInv
    BY BufferInit
  <1>2. BufferInv /\ [Next]_vars => BufferInv'
    BY TypeStep, PlacementStep, ReferencesStep, HoldingStep DEF BufferInv
  <1> QED BY <1>1, <1>2, PTL DEF Spec

\* The driver's structures, its threads and the device keep their types: in
\* particular a reference count never leaves 0 .. 2 and last_channel is always
\* a channel or -1 (kref_get and kref_put of gc573-video-dma.c, next_channel).
THEOREM TypeCorrect == Spec => []TypeOK
  BY BufferInvariant, PTL DEF BufferInv

\* A buffer is on exactly the list or channel its state names, and nowhere
\* twice, whatever the number of buffers and channels.
THEOREM BuffersPlaced == Spec => []Placement
  BY BufferInvariant, PTL DEF BufferInv

\* The reference count of a buffer is the registration plus the callback under
\* way, a structure is freed exactly when it reaches zero, and whatever is on
\* a list or a channel still owes its callback.
THEOREM BuffersReferenced == Spec => []References
  BY BufferInvariant, PTL DEF BufferInv

-----------------------------------------------------------------------------
(* Work items and the watchdog *)

\* The places of control_lock between the two critical sections of a stop.
Closing == {"cancel_wd", "flush_wd", "quiesce", "wait", "mask", "sync",
            "flush_work", "clear", "finish"}

\* The flags agree with the place of the holder of control_lock, and a stream
\* that is neither running nor stopping has nothing active and nothing done.
PhaseFlags ==
    /\ stopping <=> ctl \in Closing
    /\ ctl \in Closing \cup {"setup", "publish", "report"} => ~streaming

PhaseLists == ~streaming /\ ~stopping => done = <<>> /\ ~HasActive

-----------------------------------------------------------------------------

\* A step that moves no buffer neither starts a stream, nor revives the device,
\* nor touches work_scheduled.
LEMMA StreamFrame ==
    ASSUME TypeOK, [Next]_vars
    PROVE  \/ BufferStep
           \/ /\ UNCHANGED <<listVars, workScheduled>>
              /\ streaming' => streaming
              /\ ~streaming' /\ ~stopping' => ~streaming /\ ~stopping
              /\ Live' => Live
              /\ lost => lost'
  <1> DEFINE Same == /\ UNCHANGED <<listVars, workScheduled>>
                     /\ streaming' => streaming
                     /\ ~streaming' /\ ~stopping' => ~streaming /\ ~stopping
                     /\ Live' => Live
                     /\ lost => lost'
  <1> USE DEF streamVars, otherVars, bufVars, listVars, runVars, faultVars,
          flagVars, devVars, ctlVars, workVars, wdVars, irqVars, statusVars,
          hwVars
  <1>4. VideoReset => Same
    BY DEF VideoReset, Live
  <1>5. FpgaConfigure => Same
    BY DEF FpgaConfigure, Live
  <1>6. StartBegin => Same
    BY DEF StartBegin, Live
  <1>7. StopBegin => Same
    BY DEF StopBegin, Live
  <1>8. QueueKick => Same
    BY DEF QueueKick, Live
  <1>10. StartSetup => Same
    BY DEF StartSetup, Live
  <1>12. ASSUME StartEnable PROVE Same
    BY <1>12 DEF StartEnable, Live, TypeOK, FlagTypes
  <1>13. StartRollback => Same
    BY DEF StartRollback, Live
  <1>14. CancelWatchdog => Same
    BY DEF CancelWatchdog, Live
  <1>15. FlushWatchdog => Same
    BY DEF FlushWatchdog, Live
  <1>16. Quiesce => Same
    BY DEF Quiesce, Live
  <1>17. Terminated => Same
    BY DEF Terminated, Live
  <1>18. StopTimeout => Same
    BY DEF StopTimeout, Live
  <1>19. MaskInterrupts => Same
    BY DEF MaskInterrupts, Live
  <1>20. SynchronizeIrq => Same
    BY DEF SynchronizeIrq, Live
  <1>21. FlushWork => Same
    BY DEF FlushWork, Live
  <1>22. ClearHardware => Same
    BY DEF ClearHardware, Live
  <1>24. ReportError => Same
    BY DEF ReportError, Live
  <1>25. WatchdogStop => Same
    BY DEF WatchdogStop, Live
  <1>26. WatchdogStart => Same
    BY DEF WatchdogStart, Live
  <1>27. WatchdogBusy => Same
    BY DEF WatchdogBusy, Live
  <1>28. WatchdogCheck => Same
    BY DEF WatchdogCheck, Live
  <1>29. WatchdogRecover => Same
    BY DEF WatchdogRecover, Live
  <1>30. WorkStart => Same
    BY DEF WorkStart, Live
  <1>34. ASSUME NEW a \in {"recycle", "release"}, WorkCallback(a) PROVE Same
    BY <1>34 DEF WorkCallback, Live
  <1>35. IrqRead => Same
    BY DEF IrqRead, Live
  <1>37. IrqStray => Same
    BY DEF IrqStray, Live
  <1>38. IrqNotify => Same
    BY DEF IrqNotify, Live
  <1>39. IrqAck => Same
    BY DEF IrqAck, Live
  <1>40. HwFill => Same
    BY DEF HwFill, Live
  <1>41. HwTerminate => Same
    BY DEF HwTerminate, Live
  <1>42. HwGlitch => Same
    BY DEF HwGlitch, Live
  <1>43. LoseDevice => Same
    BY DEF LoseDevice, Live
  <1>44. StallTime => Same
    BY DEF StallTime, Live
  <1>99. UNCHANGED vars => Same
    BY DEF vars, Live
  <1> HIDE DEF Same
  <1>100. BufferStep \/ Same
    BY <1>4, <1>5, <1>6, <1>7, <1>8, <1>10, <1>12, <1>13, <1>14, <1>15,
       <1>16, <1>17, <1>18, <1>19, <1>20, <1>21, <1>22, <1>24, <1>25, <1>26,
       <1>27, <1>28, <1>29, <1>30, <1>34, <1>35, <1>37, <1>38, <1>39, <1>40,
       <1>41, <1>42, <1>43, <1>44, <1>99
    DEF Next, ApiCall, Holder, Watchdog, Work, IrqBody, Hardware, BufferStep
  <1> QED BY <1>100 DEF Same

\* Every step keeps the flags in phase with control_lock.
LEMMA PhaseFlagsStep ==
    ASSUME TypeOK, PhaseFlags, [Next]_vars
    PROVE  PhaseFlags'
  <1> USE DEF streamVars, otherVars, bufVars, listVars, runVars, faultVars,
          flagVars, devVars, ctlVars, workVars, wdVars, irqVars, statusVars,
          hwVars
  <1>1. ASSUME NEW b \in Buffers, PrepareBegin(b) PROVE PhaseFlags'
    BY <1>1 DEF PrepareBegin, ApiIdle, PhaseFlags, Closing
  <1>2. ASSUME NEW b \in Buffers, Queue(b) PROVE PhaseFlags'
    BY <1>2 DEF Queue, ApiIdle, PhaseFlags, Closing
  <1>3. ASSUME NEW b \in Buffers, CleanupBuffer(b) PROVE PhaseFlags'
    BY <1>3 DEF CleanupBuffer, ApiIdle, PhaseFlags, Closing
  <1>4. ASSUME VideoReset PROVE PhaseFlags'
    BY <1>4 DEF VideoReset, ApiIdle, PhaseFlags, Closing
  <1>5. ASSUME FpgaConfigure PROVE PhaseFlags'
    BY <1>5 DEF FpgaConfigure, ApiIdle, PhaseFlags, Closing
  <1>6. ASSUME StartBegin PROVE PhaseFlags'
    BY <1>6 DEF StartBegin, ApiIdle, PhaseFlags, Closing
  <1>7. ASSUME StopBegin PROVE PhaseFlags'
    BY <1>7 DEF StopBegin, ApiIdle, PhaseFlags, Closing
  <1>8. ASSUME QueueKick PROVE PhaseFlags'
    BY <1>8 DEF QueueKick, PhaseFlags, Closing
  <1>9. ASSUME PrepareEnd PROVE PhaseFlags'
    BY <1>9 DEF PrepareEnd, PhaseFlags, Closing
  <1>10. ASSUME StartSetup PROVE PhaseFlags'
    BY <1>10 DEF StartSetup, PhaseFlags, Closing
  <1>11. ASSUME StartPublish PROVE PhaseFlags'
    BY <1>11 DEF StartPublish, PhaseFlags, Closing
  <1>12. ASSUME StartEnable PROVE PhaseFlags'
    BY <1>12 DEF StartEnable, PhaseFlags, Closing
  <1>13. ASSUME StartRollback PROVE PhaseFlags'
    BY <1>13 DEF StartRollback, PhaseFlags, Closing
  <1>14. ASSUME CancelWatchdog PROVE PhaseFlags'
    BY <1>14 DEF CancelWatchdog, PhaseFlags, Closing
  <1>15. ASSUME FlushWatchdog PROVE PhaseFlags'
    BY <1>15 DEF FlushWatchdog, PhaseFlags, Closing
  <1>16. ASSUME Quiesce PROVE PhaseFlags'
    BY <1>16 DEF Quiesce, PhaseFlags, Closing
  <1>17. ASSUME Terminated PROVE PhaseFlags'
    BY <1>17 DEF Terminated, PhaseFlags, Closing
  <1>18. ASSUME StopTimeout PROVE PhaseFlags'
    BY <1>18 DEF StopTimeout, PhaseFlags, Closing
  <1>19. ASSUME MaskInterrupts PROVE PhaseFlags'
    BY <1>19 DEF MaskInterrupts, PhaseFlags, Closing
  <1>20. ASSUME SynchronizeIrq PROVE PhaseFlags'
    BY <1>20 DEF SynchronizeIrq, PhaseFlags, Closing
  <1>21. ASSUME FlushWork PROVE PhaseFlags'
    BY <1>21 DEF FlushWork, PhaseFlags, Closing
  <1>22. ASSUME ClearHardware PROVE PhaseFlags'
    BY <1>22 DEF ClearHardware, PhaseFlags, Closing
  <1>23. ASSUME StopFinish PROVE PhaseFlags'
    BY <1>23 DEF StopFinish, PhaseFlags, Closing
  <1>24. ASSUME ReportError PROVE PhaseFlags'
    BY <1>24 DEF ReportError, PhaseFlags, Closing
  <1>25. ASSUME WatchdogStop PROVE PhaseFlags'
    BY <1>25 DEF WatchdogStop, PhaseFlags, Closing
  <1>26. ASSUME WatchdogStart PROVE PhaseFlags'
    BY <1>26 DEF WatchdogStart, PhaseFlags, Closing
  <1>27. ASSUME WatchdogBusy PROVE PhaseFlags'
    BY <1>27 DEF WatchdogBusy, PhaseFlags, Closing
  <1>28. ASSUME WatchdogCheck PROVE PhaseFlags'
    BY <1>28 DEF WatchdogCheck, PhaseFlags, Closing
  <1>29. ASSUME WatchdogRecover PROVE PhaseFlags'
    BY <1>29 DEF WatchdogRecover, Live, PhaseFlags, Closing
  <1>30. ASSUME WorkStart PROVE PhaseFlags'
    BY <1>30 DEF WorkStart, PhaseFlags, Closing
  <1>31. ASSUME WorkExit PROVE PhaseFlags'
    BY <1>31 DEF WorkExit, PhaseFlags, Closing
  <1>32. ASSUME WorkTake PROVE PhaseFlags'
    BY <1>32 DEF WorkTake, PhaseFlags, Closing
  <1>33. ASSUME WorkSettle PROVE PhaseFlags'
    BY <1>33 DEF WorkSettle, PhaseFlags, Closing
  <1>34. ASSUME NEW a \in {"recycle", "release"}, WorkCallback(a) PROVE PhaseFlags'
    BY <1>34 DEF WorkCallback, PhaseFlags, Closing
  <1>35. ASSUME IrqRead PROVE PhaseFlags'
    BY <1>35 DEF IrqRead, PhaseFlags, Closing
  <1>36. ASSUME NEW c \in Channels, IrqComplete(c) PROVE PhaseFlags'
    BY <1>36 DEF IrqComplete, PhaseFlags, Closing
  <1>37. ASSUME IrqStray PROVE PhaseFlags'
    BY <1>37 DEF IrqStray, PhaseFlags, Closing
  <1>38. ASSUME IrqNotify PROVE PhaseFlags'
    BY <1>38 DEF IrqNotify, PhaseFlags, Closing
  <1>39. ASSUME IrqAck PROVE PhaseFlags'
    BY <1>39 DEF IrqAck, PhaseFlags, Closing
  <1>40. ASSUME HwFill PROVE PhaseFlags'
    BY <1>40 DEF HwFill, PhaseFlags, Closing
  <1>41. ASSUME HwTerminate PROVE PhaseFlags'
    BY <1>41 DEF HwTerminate, PhaseFlags, Closing
  <1>42. ASSUME HwGlitch PROVE PhaseFlags'
    BY <1>42 DEF HwGlitch, PhaseFlags, Closing
  <1>43. ASSUME LoseDevice PROVE PhaseFlags'
    BY <1>43 DEF LoseDevice, PhaseFlags, Closing
  <1>44. ASSUME StallTime PROVE PhaseFlags'
    BY <1>44 DEF StallTime, PhaseFlags, Closing
  <1>99. CASE UNCHANGED vars
    BY <1>99 DEF vars, PhaseFlags
  <1> QED
    BY <1>1, <1>2, <1>3, <1>4, <1>5, <1>6, <1>7, <1>8, <1>9, <1>10, <1>11,
       <1>12, <1>13, <1>14, <1>15, <1>16, <1>17, <1>18, <1>19, <1>20, <1>21,
       <1>22, <1>23, <1>24, <1>25, <1>26, <1>27, <1>28, <1>29, <1>30, <1>31,
       <1>32, <1>33, <1>34, <1>35, <1>36, <1>37, <1>38, <1>39, <1>40, <1>41,
       <1>42, <1>43, <1>44, <1>99
    DEF Next, ApiCall, Holder, Watchdog, Work, IrqBody, Hardware

\* Every step leaves a stream that neither runs nor stops without active or
\* completed buffers.
LEMMA PhaseListsStep ==
    ASSUME TypeOK, PhaseFlags, PhaseLists, [Next]_vars
    PROVE  PhaseLists'
  <1> USE DEF listVars, runVars, flagVars, streamVars
  <1>0. BufferTypes
    BY DEF TypeOK
  <1>1. ASSUME NEW b \in Buffers, PrepareBegin(b) PROVE PhaseLists'
    BY <1>1 DEF PrepareBegin, PhaseLists, HasActive
  <1>2. ASSUME NEW b \in Buffers, Queue(b) PROVE PhaseLists'
    BY <1>2 DEF Queue, PhaseLists, HasActive
  <1>3. ASSUME NEW b \in Buffers, CleanupBuffer(b) PROVE PhaseLists'
    BY <1>3 DEF CleanupBuffer, PhaseLists, HasActive
  <1>4. ASSUME PrepareEnd PROVE PhaseLists'
    BY <1>4 DEF PrepareEnd, PhaseLists, HasActive
  <1>5. ASSUME ReturnBuffers PROVE PhaseLists'
    BY <1>5 DEF ReturnBuffers, PhaseLists, HasActive
  <1>6. ASSUME StartPublish PROVE PhaseLists'
    <2>1. streaming' \/ ReturnBuffers
      BY <1>6 DEF StartPublish
    <2> QED BY <1>5, <2>1 DEF PhaseLists
  <1>7. ASSUME StopFinish PROVE PhaseLists'
    BY <1>5, <1>7 DEF StopFinish
  <1>8. ASSUME WorkExit PROVE PhaseLists'
    <2>1. /\ UNCHANGED <<streaming, stopping, done>>
          /\ Live \/ UNCHANGED active
      BY <1>8 DEF WorkExit, NoSubmit
    <2> QED BY <2>1 DEF PhaseLists, HasActive, Live
  <1>9. ASSUME WorkTake PROVE PhaseLists'
    BY <1>9 DEF WorkTake, PhaseLists, HasActive
  <1>10. ASSUME WorkSettle PROVE PhaseLists'
    <2>1. /\ UNCHANGED <<streaming, stopping, done>>
          /\ Live \/ UNCHANGED active
      BY <1>10 DEF WorkSettle, NoSubmit, Recyclable
    <2> QED BY <2>1 DEF PhaseLists, HasActive, Live
  <1>11. ASSUME NEW c \in Channels, IrqComplete(c) PROVE PhaseLists'
    <2>1. HasActive /\ UNCHANGED <<streaming, stopping>>
      BY <1>11 DEF IrqComplete, Completing, HasActive
    <2> QED BY <2>1 DEF PhaseLists
  <1>12. CASE /\ UNCHANGED <<listVars, workScheduled>>
              /\ ~streaming' /\ ~stopping' => ~streaming /\ ~stopping
    BY <1>12 DEF PhaseLists, HasActive
  <1> QED
    BY <1>1, <1>2, <1>3, <1>4, <1>6, <1>7, <1>8, <1>9, <1>10, <1>11, <1>12,
       StreamFrame
    DEF BufferStep

-----------------------------------------------------------------------------
(* The completion work *)

\* A step never leaves work_scheduled set without a work item behind it.
LEMMA ScheduledRunsStep ==
    ASSUME TypeOK, ScheduledRuns, [Next]_vars
    PROVE  ScheduledRuns'
  <1>0. FlagTypes /\ ThreadTypes
    BY DEF TypeOK
  <1> USE <1>0
      DEF streamVars, otherVars, bufVars, listVars, runVars, faultVars,
          flagVars, devVars, ctlVars, workVars, wdVars, irqVars, statusVars,
          hwVars
  <1>1. ASSUME NEW b \in Buffers, PrepareBegin(b) PROVE ScheduledRuns'
    BY <1>1 DEF PrepareBegin, ApiIdle, ScheduledRuns, WorkWillRun,
      WorkCancelled
  <1>2. ASSUME NEW b \in Buffers, Queue(b) PROVE ScheduledRuns'
    BY <1>2 DEF Queue, ApiIdle, ScheduledRuns, WorkWillRun, WorkCancelled
  <1>3. ASSUME NEW b \in Buffers, CleanupBuffer(b) PROVE ScheduledRuns'
    BY <1>3 DEF CleanupBuffer, ApiIdle, ScheduledRuns, WorkWillRun,
      WorkCancelled
  <1>4. ASSUME VideoReset PROVE ScheduledRuns'
    BY <1>4 DEF VideoReset, ApiIdle, ScheduledRuns, WorkWillRun,
      WorkCancelled
  <1>5. ASSUME FpgaConfigure PROVE ScheduledRuns'
    BY <1>5 DEF FpgaConfigure, ApiIdle, ScheduledRuns, WorkWillRun,
      WorkCancelled
  <1>6. ASSUME StartBegin PROVE ScheduledRuns'
    BY <1>6 DEF StartBegin, ApiIdle, ScheduledRuns, WorkWillRun,
      WorkCancelled
  <1>7. ASSUME StopBegin PROVE ScheduledRuns'
    BY <1>7 DEF StopBegin, ApiIdle, ScheduledRuns, WorkWillRun,
      WorkCancelled
  <1>8. ASSUME QueueKick PROVE ScheduledRuns'
    BY <1>8 DEF QueueKick, QueueWork, ScheduledRuns, WorkWillRun,
      WorkCancelled
  <1>9. ASSUME PrepareEnd PROVE ScheduledRuns'
    BY <1>9 DEF PrepareEnd, ScheduledRuns, WorkWillRun, WorkCancelled
  <1>10. ASSUME StartSetup PROVE ScheduledRuns'
    BY <1>10 DEF StartSetup, ScheduledRuns, WorkWillRun, WorkCancelled
  <1>11. ASSUME StartPublish PROVE ScheduledRuns'
    BY <1>11 DEF StartPublish, ScheduledRuns, WorkWillRun, WorkCancelled
  <1>12. ASSUME StartEnable PROVE ScheduledRuns'
    BY <1>12 DEF StartEnable, ScheduledRuns, WorkWillRun, WorkCancelled
  <1>13. ASSUME StartRollback PROVE ScheduledRuns'
    BY <1>13 DEF StartRollback, ScheduledRuns, WorkWillRun, WorkCancelled
  <1>14. ASSUME CancelWatchdog PROVE ScheduledRuns'
    BY <1>14 DEF CancelWatchdog, ScheduledRuns, WorkWillRun, WorkCancelled
  <1>15. ASSUME FlushWatchdog PROVE ScheduledRuns'
    BY <1>15 DEF FlushWatchdog, ScheduledRuns, WorkWillRun, WorkCancelled
  <1>16. ASSUME Quiesce PROVE ScheduledRuns'
    BY <1>16 DEF Quiesce, ScheduledRuns, WorkWillRun, WorkCancelled
  <1>17. ASSUME Terminated PROVE ScheduledRuns'
    BY <1>17 DEF Terminated, ScheduledRuns, WorkWillRun, WorkCancelled
  <1>18. ASSUME StopTimeout PROVE ScheduledRuns'
    BY <1>18 DEF StopTimeout, ScheduledRuns, WorkWillRun, WorkCancelled
  <1>19. ASSUME MaskInterrupts PROVE ScheduledRuns'
    BY <1>19 DEF MaskInterrupts, ScheduledRuns, WorkWillRun, WorkCancelled
  <1>20. ASSUME SynchronizeIrq PROVE ScheduledRuns'
    BY <1>20 DEF SynchronizeIrq, ScheduledRuns, WorkWillRun, WorkCancelled
  <1>21. ASSUME FlushWork PROVE ScheduledRuns'
    BY <1>21 DEF FlushWork, ScheduledRuns, WorkWillRun, WorkCancelled
  <1>22. ASSUME ClearHardware PROVE ScheduledRuns'
    BY <1>22 DEF ClearHardware, ScheduledRuns, WorkWillRun, WorkCancelled
  <1>23. ASSUME StopFinish PROVE ScheduledRuns'
    BY <1>23 DEF StopFinish, ScheduledRuns, WorkWillRun, WorkCancelled
  <1>24. ASSUME ReportError PROVE ScheduledRuns'
    BY <1>24 DEF ReportError, ScheduledRuns, WorkWillRun, WorkCancelled
  <1>25. ASSUME WatchdogStop PROVE ScheduledRuns'
    BY <1>25 DEF WatchdogStop, ScheduledRuns, WorkWillRun, WorkCancelled
  <1>26. ASSUME WatchdogStart PROVE ScheduledRuns'
    BY <1>26 DEF WatchdogStart, ScheduledRuns, WorkWillRun, WorkCancelled
  <1>27. ASSUME WatchdogBusy PROVE ScheduledRuns'
    BY <1>27 DEF WatchdogBusy, ScheduledRuns, WorkWillRun, WorkCancelled
  <1>28. ASSUME WatchdogCheck PROVE ScheduledRuns'
    BY <1>28 DEF WatchdogCheck, ScheduledRuns, WorkWillRun, WorkCancelled
  <1>29. ASSUME WatchdogRecover PROVE ScheduledRuns'
    BY <1>29 DEF WatchdogRecover, ScheduledRuns, WorkWillRun,
      WorkCancelled
  <1>30. ASSUME WorkStart PROVE ScheduledRuns'
    BY <1>30 DEF WorkStart, ScheduledRuns, WorkWillRun, WorkCancelled
  <1>31. ASSUME WorkExit PROVE ScheduledRuns'
    BY <1>31 DEF WorkExit, ScheduledRuns, WorkWillRun, WorkCancelled
  <1>32. ASSUME WorkTake PROVE ScheduledRuns'
    BY <1>32 DEF WorkTake, ScheduledRuns, WorkWillRun, WorkCancelled
  <1>33. ASSUME WorkSettle PROVE ScheduledRuns'
    BY <1>33 DEF WorkSettle, ScheduledRuns, WorkWillRun, WorkCancelled
  <1>34. ASSUME NEW a \in {"recycle", "release"}, WorkCallback(a) PROVE ScheduledRuns'
    BY <1>34 DEF WorkCallback, ScheduledRuns, WorkWillRun, WorkCancelled
  <1>35. ASSUME IrqRead PROVE ScheduledRuns'
    BY <1>35 DEF IrqRead, ScheduledRuns, WorkWillRun, WorkCancelled
  <1>36. ASSUME NEW c \in Channels, IrqComplete(c) PROVE ScheduledRuns'
    BY <1>36 DEF IrqComplete, ScheduledRuns, WorkWillRun, WorkCancelled
  <1>37. ASSUME IrqStray PROVE ScheduledRuns'
    BY <1>37 DEF IrqStray, ScheduledRuns, WorkWillRun, WorkCancelled
  <1>38. ASSUME IrqNotify PROVE ScheduledRuns'
    BY <1>38 DEF IrqNotify, QueueWork, ScheduledRuns, WorkWillRun,
      WorkCancelled
  <1>39. ASSUME IrqAck PROVE ScheduledRuns'
    BY <1>39 DEF IrqAck, ScheduledRuns, WorkWillRun, WorkCancelled
  <1>40. ASSUME HwFill PROVE ScheduledRuns'
    BY <1>40 DEF HwFill, ScheduledRuns, WorkWillRun, WorkCancelled
  <1>41. ASSUME HwTerminate PROVE ScheduledRuns'
    BY <1>41 DEF HwTerminate, ScheduledRuns, WorkWillRun, WorkCancelled
  <1>42. ASSUME HwGlitch PROVE ScheduledRuns'
    BY <1>42 DEF HwGlitch, ScheduledRuns, WorkWillRun, WorkCancelled
  <1>43. ASSUME LoseDevice PROVE ScheduledRuns'
    BY <1>43 DEF LoseDevice, ScheduledRuns, WorkWillRun, WorkCancelled
  <1>44. ASSUME StallTime PROVE ScheduledRuns'
    BY <1>44 DEF StallTime, ScheduledRuns, WorkWillRun, WorkCancelled
  <1>99. CASE UNCHANGED vars
    BY <1>99 DEF vars, ScheduledRuns, WorkWillRun, WorkCancelled
  <1> QED
    BY <1>1, <1>2, <1>3, <1>4, <1>5, <1>6, <1>7, <1>8, <1>9, <1>10, <1>11,
       <1>12, <1>13, <1>14, <1>15, <1>16, <1>17, <1>18, <1>19, <1>20, <1>21,
       <1>22, <1>23, <1>24, <1>25, <1>26, <1>27, <1>28, <1>29, <1>30, <1>31,
       <1>32, <1>33, <1>34, <1>35, <1>36, <1>37, <1>38, <1>39, <1>40, <1>41,
       <1>42, <1>43, <1>44, <1>99
    DEF Next, ApiCall, Holder, Watchdog, Work, IrqBody, Hardware

\* What the request leaves behind it: work_scheduled is set, or the stream
\* does not need it.
LEMMA RequestSchedules ==
    ASSUME TypeOK, workScheduled' = (workScheduled \/ RequestWork),
           lost => lost', Live', UNCHANGED runVars, ~lost'
    PROVE  workScheduled'
  BY DEF TypeOK, FlagTypes, RequestWork, Live, runVars

\* A completion on done_buffers of a running stream has its work scheduled.
LEMMA DoneScheduledStep ==
    ASSUME TypeOK, PhaseFlags, PhaseLists, DoneScheduled, [Next]_vars
    PROVE  DoneScheduled'
  <1> USE DEF listVars, runVars, flagVars, streamVars, devVars
  <1>0. BufferTypes /\ FlagTypes
    BY DEF TypeOK
  <1>1. ASSUME NEW b \in Buffers, PrepareBegin(b) PROVE DoneScheduled'
    BY <1>1 DEF PrepareBegin, DoneScheduled, Live
  <1>2. ASSUME NEW b \in Buffers, Queue(b) PROVE DoneScheduled'
    <2>1. /\ UNCHANGED <<done, streaming, stopping, lost>>
          /\ workScheduled => workScheduled'
      BY <1>2, <1>0 DEF Queue, FlagTypes
    <2> QED BY <2>1 DEF DoneScheduled, Live
  <1>3. ASSUME NEW b \in Buffers, CleanupBuffer(b) PROVE DoneScheduled'
    BY <1>3 DEF CleanupBuffer, DoneScheduled, Live
  <1>4. ASSUME PrepareEnd PROVE DoneScheduled'
    BY <1>4 DEF PrepareEnd, DoneScheduled, Live
  <1>5. ASSUME StartPublish PROVE DoneScheduled'
    <2>1. done = <<>>
      BY <1>5 DEF StartPublish, PhaseFlags, PhaseLists, Closing
    <2>2. ~streaming' \/ done' = done
      BY <1>5 DEF StartPublish
    <2> QED BY <2>1, <2>2 DEF DoneScheduled, Live
  <1>6. ASSUME StopFinish PROVE DoneScheduled'
    BY <1>6 DEF StopFinish, ReturnBuffers, DoneScheduled
  <1>7. ASSUME WorkExit PROVE DoneScheduled'
    BY <1>7 DEF WorkExit, DoneScheduled
  <1>8. ASSUME WorkTake PROVE DoneScheduled'
    BY <1>8 DEF WorkTake, DoneScheduled, Live
  <1>9. ASSUME WorkSettle PROVE DoneScheduled'
    <2>1. /\ UNCHANGED <<done, streaming, stopping, workScheduled>>
          /\ lost => lost'
      BY <1>9 DEF WorkSettle, NoSubmit, SubmitReady, SubmitCount
    <2> QED BY <2>1 DEF DoneScheduled, Live
  <1>10. ASSUME NEW c \in Channels, IrqComplete(c) PROVE DoneScheduled'
    <2>1. /\ UNCHANGED runVars
          /\ workScheduled' = (workScheduled \/ RequestWork)
          /\ lost => lost'
      BY <1>10 DEF IrqComplete, NoSubmit, SubmitReady, SubmitCount
    <2> QED BY <2>1, RequestSchedules DEF DoneScheduled
  <1>11. CASE /\ UNCHANGED <<listVars, workScheduled>>
              /\ Live' => Live
              /\ lost => lost'
    BY <1>11 DEF DoneScheduled
  <1> QED
    BY <1>1, <1>2, <1>3, <1>4, <1>5, <1>6, <1>7, <1>8, <1>9, <1>10, <1>11,
       StreamFrame
    DEF BufferStep

\* A ready buffer of a running stream whose channel is free has the completion
\* work scheduled.
LEMMA ReadyScheduledStep ==
    ASSUME TypeOK, PhaseFlags, Holding, ReadyScheduled, [Next]_vars
    PROVE  ReadyScheduled'
  <1> USE DEF listVars, runVars, flagVars, streamVars, devVars
  <1>0. BufferTypes /\ FlagTypes /\ ThreadTypes /\ HardwareTypes
    BY DEF TypeOK
  <1>1. ASSUME UNCHANGED listVars, Live' => Live, lost => lost',
               workScheduled => workScheduled'
        PROVE  ReadyScheduled'
    <2>1. NextFree(1, active)' => NextFree(1, active)
      BY <1>1 DEF NextFree, Turn
    <2> QED BY <1>1, <2>1 DEF ReadyScheduled
  <1>2. ASSUME NEW rdy \in Seq(Buffers),
               NEW act \in [Channels -> Buffers \cup {NoBuf}], NEW st, NEW ch,
               SubmitReady(rdy, act, st, ch)
        PROVE  ReadyScheduled'
    <2>1. ~lost' => ready' = <<>> \/ ~NextFree(1, active)'
      BY <1>0, <1>2, SubmitExhausts DEF BufferTypes
    <2> QED BY <2>1 DEF ReadyScheduled
  <1>3. ASSUME NEW b \in Buffers, PrepareBegin(b) PROVE ReadyScheduled'
    BY <1>1, <1>3 DEF PrepareBegin, Live
  <1>4. ASSUME NEW b \in Buffers, Queue(b) PROVE ReadyScheduled'
    <2>1. Live' /\ ~lost' => workScheduled'
      BY <1>0, <1>4 DEF Queue, Live, RequestWork, FlagTypes
    <2> QED BY <2>1 DEF ReadyScheduled
  <1>5. ASSUME NEW b \in Buffers, CleanupBuffer(b) PROVE ReadyScheduled'
    BY <1>1, <1>5 DEF CleanupBuffer, Live
  <1>6. ASSUME PrepareEnd PROVE ReadyScheduled'
    BY <1>1, <1>6 DEF PrepareEnd, Live
  <1>7. ASSUME StartPublish PROVE ReadyScheduled'
    <2>1. \/ SubmitReady(ready, active, state, hwChan)
          \/ ~streaming'
      BY <1>7 DEF StartPublish
    <2> QED BY <2>1, <1>0, <1>2 DEF BufferTypes, ReadyScheduled, Live
  <1>8. ASSUME StopFinish PROVE ReadyScheduled'
    BY <1>8 DEF StopFinish, ReturnBuffers, ReadyScheduled
  <1>9. ASSUME WorkExit PROVE ReadyScheduled'
    <2>1. CASE Live /\ ~lost
      <3>1. SubmitReady(ready, active, state, hwChan)
        BY <1>9, <2>1 DEF WorkExit
      <3> QED BY <3>1, <1>0, <1>2 DEF BufferTypes
    <2>2. CASE ~(Live /\ ~lost)
      BY <1>9, <2>2 DEF WorkExit, NoSubmit, ReadyScheduled, Live
    <2> QED BY <2>1, <2>2
  <1>10. ASSUME WorkTake PROVE ReadyScheduled'
    <2>1. NextFree(1, active)' => NextFree(1, active)
      BY <1>10 DEF WorkTake, NextFree, Turn
    <2> QED BY <1>10, <2>1 DEF WorkTake, ReadyScheduled, Live
  <1>11. ASSUME WorkSettle PROVE ReadyScheduled'
    <2>1. CASE Recyclable(workBuf)
      <3>1. SubmitReady(Append(ready, workBuf), active,
                        [state EXCEPT ![workBuf] = "ready"], hwChan)
        BY <1>11, <2>1 DEF WorkSettle
      <3>2. workBuf \in Buffers
        BY <1>0, <1>11 DEF WorkSettle, Holding, ThreadTypes
      <3>3. Append(ready, workBuf) \in Seq(Buffers)
        BY <1>0, <3>2, AppendProperties DEF BufferTypes
      <3> QED BY <3>1, <3>3, <1>0, <1>2 DEF BufferTypes
    <2>2. CASE ~Recyclable(workBuf)
      <3>1. UNCHANGED <<ready, active, last, lost, streaming, stopping,
                        workScheduled>>
        BY <1>11, <2>2 DEF WorkSettle, NoSubmit
      <3>2. NextFree(1, active)' => NextFree(1, active)
        BY <3>1 DEF NextFree, Turn
      <3> QED BY <3>1, <3>2 DEF ReadyScheduled, Live
    <2> QED BY <2>1, <2>2
  <1>12. ASSUME NEW c \in Channels, IrqComplete(c) PROVE ReadyScheduled'
    <2>1. /\ UNCHANGED runVars
          /\ workScheduled' = (workScheduled \/ RequestWork)
          /\ lost => lost'
      BY <1>12 DEF IrqComplete, NoSubmit, SubmitReady, SubmitCount
    <2> QED BY <2>1, RequestSchedules DEF ReadyScheduled
  <1>13. CASE /\ UNCHANGED <<listVars, workScheduled>>
              /\ Live' => Live
              /\ lost => lost'
    BY <1>1, <1>13
  <1> QED
    BY <1>3, <1>4, <1>5, <1>6, <1>7, <1>8, <1>9, <1>10, <1>11, <1>12, <1>13,
       StreamFrame
    DEF BufferStep

-----------------------------------------------------------------------------
(* The watchdog *)

\* Every step leaves the watchdog of a running stream queued or running.
LEMMA WatchdogArmedStep ==
    ASSUME TypeOK, PhaseFlags, WatchdogArmed, [Next]_vars
    PROVE  WatchdogArmed'
  <1>0. FlagTypes /\ ThreadTypes
    BY DEF TypeOK
  <1> USE <1>0
      DEF streamVars, otherVars, bufVars, listVars, runVars, faultVars,
          flagVars, devVars, ctlVars, workVars, wdVars, irqVars, statusVars,
          hwVars
  <1>1. ASSUME NEW b \in Buffers, PrepareBegin(b) PROVE WatchdogArmed'
    BY <1>1 DEF PrepareBegin, ApiIdle, WatchdogArmed, Live
  <1>2. ASSUME NEW b \in Buffers, Queue(b) PROVE WatchdogArmed'
    BY <1>2 DEF Queue, ApiIdle, WatchdogArmed, Live
  <1>3. ASSUME NEW b \in Buffers, CleanupBuffer(b) PROVE WatchdogArmed'
    BY <1>3 DEF CleanupBuffer, ApiIdle, WatchdogArmed, Live
  <1>4. ASSUME VideoReset PROVE WatchdogArmed'
    BY <1>4 DEF VideoReset, ApiIdle, WatchdogArmed, Live
  <1>5. ASSUME FpgaConfigure PROVE WatchdogArmed'
    BY <1>5 DEF FpgaConfigure, ApiIdle, WatchdogArmed, Live
  <1>6. ASSUME StartBegin PROVE WatchdogArmed'
    BY <1>6 DEF StartBegin, ApiIdle, PhaseFlags, Closing, WatchdogArmed,
      Live
  <1>7. ASSUME StopBegin PROVE WatchdogArmed'
    BY <1>7 DEF StopBegin, ApiIdle, WatchdogArmed, Live
  <1>8. ASSUME QueueKick PROVE WatchdogArmed'
    BY <1>8 DEF QueueKick, WatchdogArmed, Live
  <1>9. ASSUME PrepareEnd PROVE WatchdogArmed'
    BY <1>9 DEF PrepareEnd, WatchdogArmed, Live
  <1>10. ASSUME StartSetup PROVE WatchdogArmed'
    BY <1>10 DEF StartSetup, PhaseFlags, Closing, WatchdogArmed, Live
  <1>11. ASSUME StartPublish PROVE WatchdogArmed'
    BY <1>11 DEF StartPublish, WatchdogArmed, Live
  <1>12. ASSUME StartEnable PROVE WatchdogArmed'
    BY <1>12 DEF StartEnable, QueueWatchdog, PhaseFlags, Closing,
      WatchdogArmed, Live
  <1>13. ASSUME StartRollback PROVE WatchdogArmed'
    BY <1>13 DEF StartRollback, WatchdogArmed, Live
  <1>14. ASSUME CancelWatchdog PROVE WatchdogArmed'
    BY <1>14 DEF CancelWatchdog, PhaseFlags, Closing, WatchdogArmed, Live
  <1>15. ASSUME FlushWatchdog PROVE WatchdogArmed'
    BY <1>15 DEF FlushWatchdog, WatchdogArmed, Live
  <1>16. ASSUME Quiesce PROVE WatchdogArmed'
    BY <1>16 DEF Quiesce, WatchdogArmed, Live
  <1>17. ASSUME Terminated PROVE WatchdogArmed'
    BY <1>17 DEF Terminated, WatchdogArmed, Live
  <1>18. ASSUME StopTimeout PROVE WatchdogArmed'
    BY <1>18 DEF StopTimeout, WatchdogArmed, Live
  <1>19. ASSUME MaskInterrupts PROVE WatchdogArmed'
    BY <1>19 DEF MaskInterrupts, WatchdogArmed, Live
  <1>20. ASSUME SynchronizeIrq PROVE WatchdogArmed'
    BY <1>20 DEF SynchronizeIrq, WatchdogArmed, Live
  <1>21. ASSUME FlushWork PROVE WatchdogArmed'
    BY <1>21 DEF FlushWork, WatchdogArmed, Live
  <1>22. ASSUME ClearHardware PROVE WatchdogArmed'
    BY <1>22 DEF ClearHardware, WatchdogArmed, Live
  <1>23. ASSUME StopFinish PROVE WatchdogArmed'
    BY <1>23 DEF StopFinish, PhaseFlags, Closing, WatchdogArmed, Live
  <1>24. ASSUME ReportError PROVE WatchdogArmed'
    BY <1>24 DEF ReportError, PhaseFlags, Closing, WatchdogArmed, Live
  <1>25. ASSUME WatchdogStop PROVE WatchdogArmed'
    BY <1>25 DEF WatchdogStop, WatchdogArmed, Live
  <1>26. ASSUME WatchdogStart PROVE WatchdogArmed'
    BY <1>26 DEF WatchdogStart, WatchdogArmed, Live
  <1>27. ASSUME WatchdogBusy PROVE WatchdogArmed'
    BY <1>27 DEF WatchdogBusy, QueueWatchdog, PhaseFlags, Closing,
      WatchdogArmed, Live
  <1>28. ASSUME WatchdogCheck PROVE WatchdogArmed'
    BY <1>28 DEF WatchdogCheck, QueueWatchdog, PhaseFlags, Closing,
      WatchdogArmed, Live
  <1>29. ASSUME WatchdogRecover PROVE WatchdogArmed'
    BY <1>29 DEF WatchdogRecover, WatchdogArmed, Live
  <1>30. ASSUME WorkStart PROVE WatchdogArmed'
    BY <1>30 DEF WorkStart, WatchdogArmed, Live
  <1>31. ASSUME WorkExit PROVE WatchdogArmed'
    <2>1. /\ UNCHANGED <<streaming, stopping, ctl, wdPending, wdPc>>
          /\ lost => lost'
      BY <1>31 DEF WorkExit, NoSubmit, SubmitReady, SubmitCount
    <2> QED BY <2>1 DEF WatchdogArmed, Live
  <1>32. ASSUME WorkTake PROVE WatchdogArmed'
    BY <1>32 DEF WorkTake, WatchdogArmed, Live
  <1>33. ASSUME WorkSettle PROVE WatchdogArmed'
    <2>1. /\ UNCHANGED <<streaming, stopping, ctl, wdPending, wdPc>>
          /\ lost => lost'
      BY <1>33 DEF WorkSettle, NoSubmit, SubmitReady, SubmitCount
    <2> QED BY <2>1 DEF WatchdogArmed, Live
  <1>34. ASSUME NEW a \in {"recycle", "release"}, WorkCallback(a) PROVE WatchdogArmed'
    BY <1>34 DEF WorkCallback, WatchdogArmed, Live
  <1>35. ASSUME IrqRead PROVE WatchdogArmed'
    BY <1>35 DEF IrqRead, WatchdogArmed, Live
  <1>36. ASSUME NEW c \in Channels, IrqComplete(c) PROVE WatchdogArmed'
    <2>1. /\ UNCHANGED <<streaming, stopping, ctl, wdPending, wdPc>>
          /\ lost => lost'
      BY <1>36 DEF IrqComplete, NoSubmit, SubmitReady, SubmitCount
    <2> QED BY <2>1 DEF WatchdogArmed, Live
  <1>37. ASSUME IrqStray PROVE WatchdogArmed'
    BY <1>37 DEF IrqStray, WatchdogArmed, Live
  <1>38. ASSUME IrqNotify PROVE WatchdogArmed'
    BY <1>38 DEF IrqNotify, QueueWatchdog, PhaseFlags, Closing,
      WatchdogArmed, Live
  <1>39. ASSUME IrqAck PROVE WatchdogArmed'
    BY <1>39 DEF IrqAck, WatchdogArmed, Live
  <1>40. ASSUME HwFill PROVE WatchdogArmed'
    BY <1>40 DEF HwFill, WatchdogArmed, Live
  <1>41. ASSUME HwTerminate PROVE WatchdogArmed'
    BY <1>41 DEF HwTerminate, WatchdogArmed, Live
  <1>42. ASSUME HwGlitch PROVE WatchdogArmed'
    BY <1>42 DEF HwGlitch, WatchdogArmed, Live
  <1>43. ASSUME LoseDevice PROVE WatchdogArmed'
    BY <1>43 DEF LoseDevice, WatchdogArmed, Live
  <1>44. ASSUME StallTime PROVE WatchdogArmed'
    BY <1>44 DEF StallTime, WatchdogArmed, Live
  <1>99. CASE UNCHANGED vars
    BY <1>99 DEF vars, WatchdogArmed, Live
  <1> QED
    BY <1>1, <1>2, <1>3, <1>4, <1>5, <1>6, <1>7, <1>8, <1>9, <1>10, <1>11,
       <1>12, <1>13, <1>14, <1>15, <1>16, <1>17, <1>18, <1>19, <1>20, <1>21,
       <1>22, <1>23, <1>24, <1>25, <1>26, <1>27, <1>28, <1>29, <1>30, <1>31,
       <1>32, <1>33, <1>34, <1>35, <1>36, <1>37, <1>38, <1>39, <1>40, <1>41,
       <1>42, <1>43, <1>44, <1>99
    DEF Next, ApiCall, Holder, Watchdog, Work, IrqBody, Hardware

-----------------------------------------------------------------------------

\* The inductive invariant of the scheduling.
WakeupInv ==
    BufferInv /\ PhaseFlags /\ PhaseLists /\ NoLostWakeup /\ WatchdogArmed

\* The inductive invariant of work_scheduled and of the watchdog holds in
\* every reachable state: BufferInv, the phases of control_lock with the flags
\* they imply, and the wakeup properties themselves.
THEOREM WakeupInvariant == Spec => []WakeupInv
  <1>1. Init => WakeupInv
    <2> SUFFICES ASSUME Init PROVE WakeupInv
      OBVIOUS
    <2>1. PhaseFlags /\ PhaseLists
      BY DEF Init, PhaseFlags, PhaseLists, Closing, HasActive
    <2>2. NoLostWakeup /\ WatchdogArmed
      BY DEF Init, NoLostWakeup, ScheduledRuns, DoneScheduled, ReadyScheduled,
             WatchdogArmed, Live
    <2> QED BY <2>1, <2>2, BufferInit DEF WakeupInv
  <1>2. WakeupInv /\ [Next]_vars => WakeupInv'
    <2> SUFFICES ASSUME WakeupInv, [Next]_vars PROVE WakeupInv'
      OBVIOUS
    <2>1. /\ TypeOK /\ Placement /\ References /\ Holding
          /\ PhaseFlags /\ PhaseLists /\ WatchdogArmed
          /\ ScheduledRuns /\ DoneScheduled /\ ReadyScheduled
      BY DEF WakeupInv, BufferInv, NoLostWakeup
    <2>2. BufferInv'
      BY <2>1, TypeStep, PlacementStep, ReferencesStep, HoldingStep DEF BufferInv
    <2>3. PhaseFlags' /\ PhaseLists'
      BY <2>1, PhaseFlagsStep, PhaseListsStep
    <2>4. NoLostWakeup'
      BY <2>1, ScheduledRunsStep, DoneScheduledStep, ReadyScheduledStep
      DEF NoLostWakeup
    <2>5. WatchdogArmed'
      BY <2>1, WatchdogArmedStep
    <2> QED BY <2>2, <2>3, <2>4, <2>5 DEF WakeupInv
  <1> QED BY <1>1, <1>2, PTL DEF Spec

\* In a running stream no completion and no ready buffer with a free channel
\* waits without a completion work on its way (request_work, the late
\* queue_work of gc555_video_dma_queue and the exit of completion_work).
THEOREM WakeupsKept == Spec => []NoLostWakeup
  BY WakeupInvariant, PTL DEF WakeupInv

\* A running stream always has its watchdog queued or running, so that a stall
\* is noticed (trylock and mod_delayed_work of watchdog_work).
THEOREM WatchdogKept == Spec => []WatchdogArmed
  BY WakeupInvariant, PTL DEF WakeupInv

-----------------------------------------------------------------------------
(* What a stop leaves behind *)

\* No callback runs where no stream runs, nor at the end of a stop, although
\* the work may be queued again behind cancel_work_sync.
NoCallback ==
    (~streaming /\ ~stopping) \/ ctl \in {"clear", "finish"} => workBuf = NoBuf

\* The engine is on for a stream, or for the stop that will turn it off.
EngineOwned ==
    /\ ctl = "enable" => streaming
    /\ engine = "on" /\ ~lost =>
         streaming \/ ctl \in {"cancel_wd", "flush_wd", "quiesce"}

\* Only a start that was rolled back leaves a request for a recovery.
RequestsTaken ==
    ~streaming /\ ~stopping /\ recoveryRequested => closer = "rollback"

\* The channels are disarmed before the buffers are given back.
Disarmed ==
    ctl = "finish" /\ ~lost => \A c \in Channels : hwChan[c] # "armed"

\* Every step keeps the engine with a stream or with the stop of one.
LEMMA EngineOwnedStep ==
    ASSUME TypeOK, PhaseFlags, EngineOwned, [Next]_vars
    PROVE  EngineOwned'
  <1>0. FlagTypes
    BY DEF TypeOK
  <1> USE <1>0
      DEF streamVars, otherVars, bufVars, listVars, runVars, faultVars,
          flagVars, devVars, ctlVars, workVars, wdVars, irqVars, statusVars,
          hwVars
  <1>1. ASSUME NEW b \in Buffers, PrepareBegin(b) PROVE EngineOwned'
    BY <1>1 DEF PrepareBegin, ApiIdle, OutputOff, PhaseFlags, Closing, EngineOwned
  <1>2. ASSUME NEW b \in Buffers, Queue(b) PROVE EngineOwned'
    BY <1>2 DEF Queue, ApiIdle, OutputOff, PhaseFlags, Closing, EngineOwned
  <1>3. ASSUME NEW b \in Buffers, CleanupBuffer(b) PROVE EngineOwned'
    BY <1>3 DEF CleanupBuffer, ApiIdle, OutputOff, PhaseFlags, Closing, EngineOwned
  <1>4. ASSUME VideoReset PROVE EngineOwned'
    BY <1>4 DEF VideoReset, ApiIdle, OutputOff, PhaseFlags, Closing, EngineOwned
  <1>5. ASSUME FpgaConfigure PROVE EngineOwned'
    BY <1>5 DEF FpgaConfigure, ApiIdle, OutputOff, PhaseFlags, Closing, EngineOwned
  <1>6. ASSUME StartBegin PROVE EngineOwned'
    BY <1>6 DEF StartBegin, ApiIdle, OutputOff, PhaseFlags, Closing, EngineOwned
  <1>7. ASSUME StopBegin PROVE EngineOwned'
    BY <1>7 DEF StopBegin, ApiIdle, OutputOff, PhaseFlags, Closing, EngineOwned
  <1>8. ASSUME QueueKick PROVE EngineOwned'
    BY <1>8 DEF QueueKick, OutputOff, PhaseFlags, Closing, EngineOwned
  <1>9. ASSUME PrepareEnd PROVE EngineOwned'
    BY <1>9 DEF PrepareEnd, OutputOff, PhaseFlags, Closing, EngineOwned
  <1>10. ASSUME StartSetup PROVE EngineOwned'
    BY <1>10 DEF StartSetup, OutputOff, PhaseFlags, Closing, EngineOwned
  <1>11. ASSUME StartPublish PROVE EngineOwned'
    <2>1. UNCHANGED engine /\ (lost => lost') /\ (streaming' \/ lost')
          /\ ctl' \in {"enable", "rollback"} /\ (ctl' = "enable" => streaming')
      BY <1>11 DEF StartPublish, SubmitReady, SubmitCount
    <2> QED BY <2>1 DEF EngineOwned
  <1>12. ASSUME StartEnable PROVE EngineOwned'
    BY <1>12 DEF StartEnable, OutputOff, PhaseFlags, Closing, EngineOwned
  <1>13. ASSUME StartRollback PROVE EngineOwned'
    BY <1>13 DEF StartRollback, OutputOff, PhaseFlags, Closing, EngineOwned
  <1>14. ASSUME CancelWatchdog PROVE EngineOwned'
    BY <1>14 DEF CancelWatchdog, OutputOff, PhaseFlags, Closing, EngineOwned
  <1>15. ASSUME FlushWatchdog PROVE EngineOwned'
    BY <1>15 DEF FlushWatchdog, OutputOff, PhaseFlags, Closing, EngineOwned
  <1>16. ASSUME Quiesce PROVE EngineOwned'
    BY <1>16 DEF Quiesce, OutputOff, PhaseFlags, Closing, EngineOwned
  <1>17. ASSUME Terminated PROVE EngineOwned'
    BY <1>17 DEF Terminated, OutputOff, PhaseFlags, Closing, EngineOwned
  <1>18. ASSUME StopTimeout PROVE EngineOwned'
    BY <1>18 DEF StopTimeout, OutputOff, PhaseFlags, Closing, EngineOwned
  <1>19. ASSUME MaskInterrupts PROVE EngineOwned'
    BY <1>19 DEF MaskInterrupts, OutputOff, PhaseFlags, Closing, EngineOwned
  <1>20. ASSUME SynchronizeIrq PROVE EngineOwned'
    BY <1>20 DEF SynchronizeIrq, OutputOff, PhaseFlags, Closing, EngineOwned
  <1>21. ASSUME FlushWork PROVE EngineOwned'
    BY <1>21 DEF FlushWork, OutputOff, PhaseFlags, Closing, EngineOwned
  <1>22. ASSUME ClearHardware PROVE EngineOwned'
    BY <1>22 DEF ClearHardware, OutputOff, PhaseFlags, Closing, EngineOwned
  <1>23. ASSUME StopFinish PROVE EngineOwned'
    BY <1>23 DEF StopFinish, OutputOff, PhaseFlags, Closing, EngineOwned
  <1>24. ASSUME ReportError PROVE EngineOwned'
    BY <1>24 DEF ReportError, OutputOff, PhaseFlags, Closing, EngineOwned
  <1>25. ASSUME WatchdogStop PROVE EngineOwned'
    BY <1>25 DEF WatchdogStop, OutputOff, PhaseFlags, Closing, EngineOwned
  <1>26. ASSUME WatchdogStart PROVE EngineOwned'
    BY <1>26 DEF WatchdogStart, OutputOff, PhaseFlags, Closing, EngineOwned
  <1>27. ASSUME WatchdogBusy PROVE EngineOwned'
    BY <1>27 DEF WatchdogBusy, OutputOff, PhaseFlags, Closing, EngineOwned
  <1>28. ASSUME WatchdogCheck PROVE EngineOwned'
    BY <1>28 DEF WatchdogCheck, OutputOff, PhaseFlags, Closing, EngineOwned
  <1>29. ASSUME WatchdogRecover PROVE EngineOwned'
    BY <1>29 DEF WatchdogRecover, OutputOff, PhaseFlags, Closing, EngineOwned
  <1>30. ASSUME WorkStart PROVE EngineOwned'
    BY <1>30 DEF WorkStart, OutputOff, PhaseFlags, Closing, EngineOwned
  <1>31. ASSUME WorkExit PROVE EngineOwned'
    <2>1. /\ UNCHANGED <<streaming, stopping, ctl, engine, recoveryRequested, closer>>
          /\ lost => lost'
      BY <1>31 DEF WorkExit, NoSubmit, SubmitReady, SubmitCount
    <2> QED BY <2>1 DEF EngineOwned
  <1>32. ASSUME WorkTake PROVE EngineOwned'
    BY <1>32 DEF WorkTake, OutputOff, PhaseFlags, Closing, EngineOwned
  <1>33. ASSUME WorkSettle PROVE EngineOwned'
    <2>1. /\ UNCHANGED <<streaming, stopping, ctl, engine, recoveryRequested, closer>>
          /\ lost => lost'
      BY <1>33 DEF WorkSettle, NoSubmit, SubmitReady, SubmitCount
    <2> QED BY <2>1 DEF EngineOwned
  <1>34. ASSUME NEW a \in {"recycle", "release"}, WorkCallback(a) PROVE EngineOwned'
    BY <1>34 DEF WorkCallback, OutputOff, PhaseFlags, Closing, EngineOwned
  <1>35. ASSUME IrqRead PROVE EngineOwned'
    BY <1>35 DEF IrqRead, OutputOff, PhaseFlags, Closing, EngineOwned
  <1>36. ASSUME NEW c \in Channels, IrqComplete(c) PROVE EngineOwned'
    <2>1. /\ UNCHANGED <<streaming, stopping, ctl, engine, recoveryRequested, closer>>
          /\ lost => lost'
      BY <1>36 DEF IrqComplete, NoSubmit, SubmitReady, SubmitCount
    <2> QED BY <2>1 DEF EngineOwned
  <1>37. ASSUME IrqStray PROVE EngineOwned'
    BY <1>37 DEF IrqStray, OutputOff, PhaseFlags, Closing, EngineOwned
  <1>38. ASSUME IrqNotify PROVE EngineOwned'
    BY <1>38 DEF IrqNotify, OutputOff, PhaseFlags, Closing, EngineOwned
  <1>39. ASSUME IrqAck PROVE EngineOwned'
    BY <1>39 DEF IrqAck, OutputOff, PhaseFlags, Closing, EngineOwned
  <1>40. ASSUME HwFill PROVE EngineOwned'
    BY <1>40 DEF HwFill, OutputOff, PhaseFlags, Closing, EngineOwned
  <1>41. ASSUME HwTerminate PROVE EngineOwned'
    BY <1>41 DEF HwTerminate, OutputOff, PhaseFlags, Closing, EngineOwned
  <1>42. ASSUME HwGlitch PROVE EngineOwned'
    BY <1>42 DEF HwGlitch, OutputOff, PhaseFlags, Closing, EngineOwned
  <1>43. ASSUME LoseDevice PROVE EngineOwned'
    BY <1>43 DEF LoseDevice, OutputOff, PhaseFlags, Closing, EngineOwned
  <1>44. ASSUME StallTime PROVE EngineOwned'
    BY <1>44 DEF StallTime, OutputOff, PhaseFlags, Closing, EngineOwned
  <1>99. CASE UNCHANGED vars
    BY <1>99 DEF vars, OutputOff, PhaseFlags, Closing, EngineOwned
  <1> QED
    BY <1>1, <1>2, <1>3, <1>4, <1>5, <1>6, <1>7, <1>8, <1>9, <1>10, <1>11,
       <1>12, <1>13, <1>14, <1>15, <1>16, <1>17, <1>18, <1>19, <1>20, <1>21,
       <1>22, <1>23, <1>24, <1>25, <1>26, <1>27, <1>28, <1>29, <1>30, <1>31,
       <1>32, <1>33, <1>34, <1>35, <1>36, <1>37, <1>38, <1>39, <1>40, <1>41,
       <1>42, <1>43, <1>44, <1>99
    DEF Next, ApiCall, Holder, Watchdog, Work, IrqBody, Hardware

\* Every step that ends a stream has its request for a recovery taken.
LEMMA RequestsTakenStep ==
    ASSUME TypeOK, PhaseFlags, RequestsTaken, [Next]_vars
    PROVE  RequestsTaken'
  <1>0. FlagTypes
    BY DEF TypeOK
  <1> USE <1>0
      DEF streamVars, otherVars, bufVars, listVars, runVars, faultVars,
          flagVars, devVars, ctlVars, workVars, wdVars, irqVars, statusVars,
          hwVars
  <1>1. ASSUME NEW b \in Buffers, PrepareBegin(b) PROVE RequestsTaken'
    BY <1>1 DEF PrepareBegin, ApiIdle, PhaseFlags, Closing, RequestsTaken
  <1>2. ASSUME NEW b \in Buffers, Queue(b) PROVE RequestsTaken'
    BY <1>2 DEF Queue, ApiIdle, PhaseFlags, Closing, RequestsTaken
  <1>3. ASSUME NEW b \in Buffers, CleanupBuffer(b) PROVE RequestsTaken'
    BY <1>3 DEF CleanupBuffer, ApiIdle, PhaseFlags, Closing, RequestsTaken
  <1>4. ASSUME VideoReset PROVE RequestsTaken'
    BY <1>4 DEF VideoReset, ApiIdle, PhaseFlags, Closing, RequestsTaken
  <1>5. ASSUME FpgaConfigure PROVE RequestsTaken'
    BY <1>5 DEF FpgaConfigure, ApiIdle, PhaseFlags, Closing, RequestsTaken
  <1>6. ASSUME StartBegin PROVE RequestsTaken'
    BY <1>6 DEF StartBegin, ApiIdle, PhaseFlags, Closing, RequestsTaken
  <1>7. ASSUME StopBegin PROVE RequestsTaken'
    BY <1>7 DEF StopBegin, ApiIdle, PhaseFlags, Closing, RequestsTaken
  <1>8. ASSUME QueueKick PROVE RequestsTaken'
    BY <1>8 DEF QueueKick, PhaseFlags, Closing, RequestsTaken
  <1>9. ASSUME PrepareEnd PROVE RequestsTaken'
    BY <1>9 DEF PrepareEnd, PhaseFlags, Closing, RequestsTaken
  <1>10. ASSUME StartSetup PROVE RequestsTaken'
    BY <1>10 DEF StartSetup, PhaseFlags, Closing, RequestsTaken
  <1>11. ASSUME StartPublish PROVE RequestsTaken'
    BY <1>11 DEF StartPublish, PhaseFlags, Closing, RequestsTaken
  <1>12. ASSUME StartEnable PROVE RequestsTaken'
    BY <1>12 DEF StartEnable, PhaseFlags, Closing, RequestsTaken
  <1>13. ASSUME StartRollback PROVE RequestsTaken'
    BY <1>13 DEF StartRollback, PhaseFlags, Closing, RequestsTaken
  <1>14. ASSUME CancelWatchdog PROVE RequestsTaken'
    BY <1>14 DEF CancelWatchdog, PhaseFlags, Closing, RequestsTaken
  <1>15. ASSUME FlushWatchdog PROVE RequestsTaken'
    BY <1>15 DEF FlushWatchdog, PhaseFlags, Closing, RequestsTaken
  <1>16. ASSUME Quiesce PROVE RequestsTaken'
    BY <1>16 DEF Quiesce, PhaseFlags, Closing, RequestsTaken
  <1>17. ASSUME Terminated PROVE RequestsTaken'
    BY <1>17 DEF Terminated, PhaseFlags, Closing, RequestsTaken
  <1>18. ASSUME StopTimeout PROVE RequestsTaken'
    BY <1>18 DEF StopTimeout, PhaseFlags, Closing, RequestsTaken
  <1>19. ASSUME MaskInterrupts PROVE RequestsTaken'
    BY <1>19 DEF MaskInterrupts, PhaseFlags, Closing, RequestsTaken
  <1>20. ASSUME SynchronizeIrq PROVE RequestsTaken'
    BY <1>20 DEF SynchronizeIrq, PhaseFlags, Closing, RequestsTaken
  <1>21. ASSUME FlushWork PROVE RequestsTaken'
    BY <1>21 DEF FlushWork, PhaseFlags, Closing, RequestsTaken
  <1>22. ASSUME ClearHardware PROVE RequestsTaken'
    BY <1>22 DEF ClearHardware, PhaseFlags, Closing, RequestsTaken
  <1>23. ASSUME StopFinish PROVE RequestsTaken'
    BY <1>23 DEF StopFinish, PhaseFlags, Closing, RequestsTaken
  <1>24. ASSUME ReportError PROVE RequestsTaken'
    BY <1>24 DEF ReportError, PhaseFlags, Closing, RequestsTaken
  <1>25. ASSUME WatchdogStop PROVE RequestsTaken'
    BY <1>25 DEF WatchdogStop, PhaseFlags, Closing, RequestsTaken
  <1>26. ASSUME WatchdogStart PROVE RequestsTaken'
    BY <1>26 DEF WatchdogStart, PhaseFlags, Closing, RequestsTaken
  <1>27. ASSUME WatchdogBusy PROVE RequestsTaken'
    BY <1>27 DEF WatchdogBusy, PhaseFlags, Closing, RequestsTaken
  <1>28. ASSUME WatchdogCheck PROVE RequestsTaken'
    BY <1>28 DEF WatchdogCheck, PhaseFlags, Closing, RequestsTaken
  <1>29. ASSUME WatchdogRecover PROVE RequestsTaken'
    BY <1>29 DEF WatchdogRecover, PhaseFlags, Closing, RequestsTaken
  <1>30. ASSUME WorkStart PROVE RequestsTaken'
    BY <1>30 DEF WorkStart, PhaseFlags, Closing, RequestsTaken
  <1>31. ASSUME WorkExit PROVE RequestsTaken'
    <2>1. /\ UNCHANGED <<streaming, stopping, ctl, engine, recoveryRequested, closer>>
          /\ lost => lost'
      BY <1>31 DEF WorkExit, NoSubmit, SubmitReady, SubmitCount
    <2> QED BY <2>1 DEF RequestsTaken
  <1>32. ASSUME WorkTake PROVE RequestsTaken'
    BY <1>32 DEF WorkTake, PhaseFlags, Closing, RequestsTaken
  <1>33. ASSUME WorkSettle PROVE RequestsTaken'
    <2>1. /\ UNCHANGED <<streaming, stopping, ctl, engine, recoveryRequested, closer>>
          /\ lost => lost'
      BY <1>33 DEF WorkSettle, NoSubmit, SubmitReady, SubmitCount
    <2> QED BY <2>1 DEF RequestsTaken
  <1>34. ASSUME NEW a \in {"recycle", "release"}, WorkCallback(a) PROVE RequestsTaken'
    BY <1>34 DEF WorkCallback, PhaseFlags, Closing, RequestsTaken
  <1>35. ASSUME IrqRead PROVE RequestsTaken'
    BY <1>35 DEF IrqRead, PhaseFlags, Closing, RequestsTaken
  <1>36. ASSUME NEW c \in Channels, IrqComplete(c) PROVE RequestsTaken'
    <2>1. /\ UNCHANGED <<streaming, stopping, ctl, engine, recoveryRequested, closer>>
          /\ lost => lost'
      BY <1>36 DEF IrqComplete, NoSubmit, SubmitReady, SubmitCount
    <2> QED BY <2>1 DEF RequestsTaken
  <1>37. ASSUME IrqStray PROVE RequestsTaken'
    <2>1. /\ UNCHANGED <<streaming, stopping, closer>>
          /\ recoveryRequested' => recoveryRequested \/ Live
      BY <1>37 DEF IrqStray, FlagTypes
    <2> QED BY <2>1 DEF Live, RequestsTaken
  <1>38. ASSUME IrqNotify PROVE RequestsTaken'
    BY <1>38 DEF IrqNotify, PhaseFlags, Closing, RequestsTaken
  <1>39. ASSUME IrqAck PROVE RequestsTaken'
    BY <1>39 DEF IrqAck, PhaseFlags, Closing, RequestsTaken
  <1>40. ASSUME HwFill PROVE RequestsTaken'
    BY <1>40 DEF HwFill, PhaseFlags, Closing, RequestsTaken
  <1>41. ASSUME HwTerminate PROVE RequestsTaken'
    BY <1>41 DEF HwTerminate, PhaseFlags, Closing, RequestsTaken
  <1>42. ASSUME HwGlitch PROVE RequestsTaken'
    BY <1>42 DEF HwGlitch, PhaseFlags, Closing, RequestsTaken
  <1>43. ASSUME LoseDevice PROVE RequestsTaken'
    BY <1>43 DEF LoseDevice, PhaseFlags, Closing, RequestsTaken
  <1>44. ASSUME StallTime PROVE RequestsTaken'
    BY <1>44 DEF StallTime, PhaseFlags, Closing, RequestsTaken
  <1>99. CASE UNCHANGED vars
    BY <1>99 DEF vars, PhaseFlags, Closing, RequestsTaken
  <1> QED
    BY <1>1, <1>2, <1>3, <1>4, <1>5, <1>6, <1>7, <1>8, <1>9, <1>10, <1>11,
       <1>12, <1>13, <1>14, <1>15, <1>16, <1>17, <1>18, <1>19, <1>20, <1>21,
       <1>22, <1>23, <1>24, <1>25, <1>26, <1>27, <1>28, <1>29, <1>30, <1>31,
       <1>32, <1>33, <1>34, <1>35, <1>36, <1>37, <1>38, <1>39, <1>40, <1>41,
       <1>42, <1>43, <1>44, <1>99
    DEF Next, ApiCall, Holder, Watchdog, Work, IrqBody, Hardware

\* Every step keeps callbacks out of a stream that is not there.
LEMMA NoCallbackStep ==
    ASSUME TypeOK, Holding, PhaseFlags, PhaseLists, NoCallback, [Next]_vars
    PROVE  NoCallback'
  <1>0. FlagTypes /\ ThreadTypes
    BY DEF TypeOK
  <1> USE <1>0
      DEF streamVars, otherVars, bufVars, listVars, runVars, faultVars,
          flagVars, devVars, ctlVars, workVars, wdVars, irqVars, statusVars,
          hwVars
  <1>1. ASSUME NEW b \in Buffers, PrepareBegin(b) PROVE NoCallback'
    BY <1>1 DEF PrepareBegin, ApiIdle, PhaseFlags, Closing, NoCallback
  <1>2. ASSUME NEW b \in Buffers, Queue(b) PROVE NoCallback'
    BY <1>2 DEF Queue, ApiIdle, PhaseFlags, Closing, NoCallback
  <1>3. ASSUME NEW b \in Buffers, CleanupBuffer(b) PROVE NoCallback'
    BY <1>3 DEF CleanupBuffer, ApiIdle, PhaseFlags, Closing, NoCallback
  <1>4. ASSUME VideoReset PROVE NoCallback'
    BY <1>4 DEF VideoReset, ApiIdle, PhaseFlags, Closing, NoCallback
  <1>5. ASSUME FpgaConfigure PROVE NoCallback'
    BY <1>5 DEF FpgaConfigure, ApiIdle, PhaseFlags, Closing, NoCallback
  <1>6. ASSUME StartBegin PROVE NoCallback'
    BY <1>6 DEF StartBegin, ApiIdle, PhaseFlags, Closing, NoCallback
  <1>7. ASSUME StopBegin PROVE NoCallback'
    BY <1>7 DEF StopBegin, ApiIdle, PhaseFlags, Closing, NoCallback
  <1>8. ASSUME QueueKick PROVE NoCallback'
    BY <1>8 DEF QueueKick, PhaseFlags, Closing, NoCallback
  <1>9. ASSUME PrepareEnd PROVE NoCallback'
    BY <1>9 DEF PrepareEnd, PhaseFlags, Closing, NoCallback
  <1>10. ASSUME StartSetup PROVE NoCallback'
    BY <1>10 DEF StartSetup, PhaseFlags, Closing, NoCallback
  <1>11. ASSUME StartPublish PROVE NoCallback'
    <2>1. UNCHANGED workBuf /\ ~streaming /\ ~stopping
      BY <1>11 DEF StartPublish, PhaseFlags, Closing
    <2> QED BY <2>1 DEF NoCallback
  <1>12. ASSUME StartEnable PROVE NoCallback'
    BY <1>12 DEF StartEnable, PhaseFlags, Closing, NoCallback
  <1>13. ASSUME StartRollback PROVE NoCallback'
    BY <1>13 DEF StartRollback, PhaseFlags, Closing, NoCallback
  <1>14. ASSUME CancelWatchdog PROVE NoCallback'
    BY <1>14 DEF CancelWatchdog, PhaseFlags, Closing, NoCallback
  <1>15. ASSUME FlushWatchdog PROVE NoCallback'
    BY <1>15 DEF FlushWatchdog, PhaseFlags, Closing, NoCallback
  <1>16. ASSUME Quiesce PROVE NoCallback'
    BY <1>16 DEF Quiesce, PhaseFlags, Closing, NoCallback
  <1>17. ASSUME Terminated PROVE NoCallback'
    BY <1>17 DEF Terminated, PhaseFlags, Closing, NoCallback
  <1>18. ASSUME StopTimeout PROVE NoCallback'
    BY <1>18 DEF StopTimeout, PhaseFlags, Closing, NoCallback
  <1>19. ASSUME MaskInterrupts PROVE NoCallback'
    BY <1>19 DEF MaskInterrupts, PhaseFlags, Closing, NoCallback
  <1>20. ASSUME SynchronizeIrq PROVE NoCallback'
    BY <1>20 DEF SynchronizeIrq, PhaseFlags, Closing, NoCallback
  <1>21. ASSUME FlushWork PROVE NoCallback'
    BY <1>21 DEF FlushWork, Holding, PhaseFlags, Closing, NoCallback
  <1>22. ASSUME ClearHardware PROVE NoCallback'
    BY <1>22 DEF ClearHardware, PhaseFlags, Closing, NoCallback
  <1>23. ASSUME StopFinish PROVE NoCallback'
    BY <1>23 DEF StopFinish, PhaseFlags, Closing, NoCallback
  <1>24. ASSUME ReportError PROVE NoCallback'
    BY <1>24 DEF ReportError, PhaseFlags, Closing, NoCallback
  <1>25. ASSUME WatchdogStop PROVE NoCallback'
    BY <1>25 DEF WatchdogStop, PhaseFlags, Closing, NoCallback
  <1>26. ASSUME WatchdogStart PROVE NoCallback'
    BY <1>26 DEF WatchdogStart, PhaseFlags, Closing, NoCallback
  <1>27. ASSUME WatchdogBusy PROVE NoCallback'
    BY <1>27 DEF WatchdogBusy, PhaseFlags, Closing, NoCallback
  <1>28. ASSUME WatchdogCheck PROVE NoCallback'
    BY <1>28 DEF WatchdogCheck, PhaseFlags, Closing, NoCallback
  <1>29. ASSUME WatchdogRecover PROVE NoCallback'
    BY <1>29 DEF WatchdogRecover, PhaseFlags, Closing, NoCallback
  <1>30. ASSUME WorkStart PROVE NoCallback'
    BY <1>30 DEF WorkStart, PhaseFlags, Closing, NoCallback
  <1>31. ASSUME WorkExit PROVE NoCallback'
    BY <1>31 DEF WorkExit, NoCallback
  <1>32. ASSUME WorkTake PROVE NoCallback'
    <2>1. /\ UNCHANGED <<streaming, stopping, ctl>> /\ done # <<>>
          /\ stopping => workBuf' = NoBuf
      BY <1>32 DEF WorkTake
    <2>2. ctl \in {"clear", "finish"} => stopping
      BY DEF PhaseFlags, Closing
    <2> QED BY <2>1, <2>2 DEF PhaseLists, NoCallback
  <1>33. ASSUME WorkSettle PROVE NoCallback'
    BY <1>33 DEF WorkSettle, NoCallback
  <1>34. ASSUME NEW a \in {"recycle", "release"}, WorkCallback(a) PROVE NoCallback'
    BY <1>34 DEF WorkCallback, PhaseFlags, Closing, NoCallback
  <1>35. ASSUME IrqRead PROVE NoCallback'
    BY <1>35 DEF IrqRead, PhaseFlags, Closing, NoCallback
  <1>36. ASSUME NEW c \in Channels, IrqComplete(c) PROVE NoCallback'
    BY <1>36 DEF IrqComplete, NoCallback
  <1>37. ASSUME IrqStray PROVE NoCallback'
    BY <1>37 DEF IrqStray, PhaseFlags, Closing, NoCallback
  <1>38. ASSUME IrqNotify PROVE NoCallback'
    BY <1>38 DEF IrqNotify, PhaseFlags, Closing, NoCallback
  <1>39. ASSUME IrqAck PROVE NoCallback'
    BY <1>39 DEF IrqAck, PhaseFlags, Closing, NoCallback
  <1>40. ASSUME HwFill PROVE NoCallback'
    BY <1>40 DEF HwFill, PhaseFlags, Closing, NoCallback
  <1>41. ASSUME HwTerminate PROVE NoCallback'
    BY <1>41 DEF HwTerminate, PhaseFlags, Closing, NoCallback
  <1>42. ASSUME HwGlitch PROVE NoCallback'
    BY <1>42 DEF HwGlitch, PhaseFlags, Closing, NoCallback
  <1>43. ASSUME LoseDevice PROVE NoCallback'
    BY <1>43 DEF LoseDevice, PhaseFlags, Closing, NoCallback
  <1>44. ASSUME StallTime PROVE NoCallback'
    BY <1>44 DEF StallTime, PhaseFlags, Closing, NoCallback
  <1>99. CASE UNCHANGED vars
    BY <1>99 DEF vars, PhaseFlags, Closing, NoCallback
  <1> QED
    BY <1>1, <1>2, <1>3, <1>4, <1>5, <1>6, <1>7, <1>8, <1>9, <1>10, <1>11,
       <1>12, <1>13, <1>14, <1>15, <1>16, <1>17, <1>18, <1>19, <1>20, <1>21,
       <1>22, <1>23, <1>24, <1>25, <1>26, <1>27, <1>28, <1>29, <1>30, <1>31,
       <1>32, <1>33, <1>34, <1>35, <1>36, <1>37, <1>38, <1>39, <1>40, <1>41,
       <1>42, <1>43, <1>44, <1>99
    DEF Next, ApiCall, Holder, Watchdog, Work, IrqBody, Hardware

\* A submission arms channels for buffers only.
LEMMA SubmitArmed ==
    ASSUME NEW rdy \in Seq(Buffers), NEW act, NEW st, NEW ch,
           last \in -1 .. NChannels - 1,
           \A c \in Channels : ch[c] = "armed" => act[c] # NoBuf,
           SubmitReady(rdy, act, st, ch)
    PROVE  \A c \in Channels : hwChan'[c] = "armed" => active'[c] # NoBuf
  <1>1. PICK k \in 0 .. NChannels :
          /\ SubmitCount(k, rdy, act)
          /\ active' = [c \in Channels |->
                          IF Turn(c) <= k THEN rdy[Turn(c)] ELSE act[c]]
          /\ hwChan' = [c \in Channels |->
                          IF Turn(c) <= k THEN "armed" ELSE ch[c]]
    BY DEF SubmitReady
  <1>2. k <= Len(rdy)
    BY <1>1 DEF SubmitCount
  <1> SUFFICES ASSUME NEW c \in Channels, hwChan'[c] = "armed"
               PROVE  active'[c] # NoBuf
    OBVIOUS
  <1>3. CASE Turn(c) <= k
    <2>1. Turn(c) \in 1 .. Len(rdy)
      BY <1>2, <1>3, TurnRange, LenProperties
    <2>2. rdy[Turn(c)] \in Buffers
      BY <2>1, ElementOfSeq
    <2> QED BY <1>1, <1>3, <2>2, NoBufAssumption
  <1>4. CASE ~(Turn(c) <= k)
    BY <1>1, <1>4
  <1> QED BY <1>3, <1>4

\* A step that neither submits nor clears channels arms none, forgets no active
\* buffer, and does not revive the device.
LEMMA ArmedFrame ==
    ASSUME TypeOK, [Next]_vars
    PROVE  \/ StartSetup \/ StartPublish \/ ClearHardware \/ StopFinish
           \/ WorkExit \/ WorkSettle \/ HwFill
           \/ \E c \in Channels : IrqComplete(c)
           \/ /\ UNCHANGED <<hwChan, active>>
              /\ lost => lost'
              /\ ctl' = "finish" => ctl = "finish"
  <1> DEFINE Same == /\ UNCHANGED <<hwChan, active>>
                     /\ lost => lost'
                     /\ ctl' = "finish" => ctl = "finish"
  <1> USE DEF streamVars, otherVars, bufVars, listVars, runVars, faultVars,
          flagVars, devVars, ctlVars, workVars, wdVars, irqVars, statusVars,
          hwVars
  <1>1. ASSUME NEW b \in Buffers, PrepareBegin(b) PROVE Same
    BY <1>1 DEF PrepareBegin
  <1>2. ASSUME NEW b \in Buffers, Queue(b) PROVE Same
    BY <1>2 DEF Queue
  <1>3. ASSUME NEW b \in Buffers, CleanupBuffer(b) PROVE Same
    BY <1>3 DEF CleanupBuffer
  <1>4. VideoReset => Same
    BY DEF VideoReset
  <1>5. FpgaConfigure => Same
    BY DEF FpgaConfigure
  <1>6. StartBegin => Same
    BY DEF StartBegin
  <1>7. StopBegin => Same
    BY DEF StopBegin
  <1>8. QueueKick => Same
    BY DEF QueueKick
  <1>9. PrepareEnd => Same
    BY DEF PrepareEnd
  <1>12. ASSUME StartEnable PROVE Same
    BY <1>12 DEF StartEnable, TypeOK, FlagTypes
  <1>13. StartRollback => Same
    BY DEF StartRollback
  <1>14. CancelWatchdog => Same
    BY DEF CancelWatchdog
  <1>15. FlushWatchdog => Same
    BY DEF FlushWatchdog
  <1>16. Quiesce => Same
    BY DEF Quiesce
  <1>17. Terminated => Same
    BY DEF Terminated
  <1>18. StopTimeout => Same
    BY DEF StopTimeout
  <1>19. MaskInterrupts => Same
    BY DEF MaskInterrupts
  <1>20. SynchronizeIrq => Same
    BY DEF SynchronizeIrq
  <1>21. FlushWork => Same
    BY DEF FlushWork
  <1>24. ReportError => Same
    BY DEF ReportError
  <1>25. WatchdogStop => Same
    BY DEF WatchdogStop
  <1>26. WatchdogStart => Same
    BY DEF WatchdogStart
  <1>27. WatchdogBusy => Same
    BY DEF WatchdogBusy
  <1>28. WatchdogCheck => Same
    BY DEF WatchdogCheck
  <1>29. WatchdogRecover => Same
    BY DEF WatchdogRecover
  <1>30. WorkStart => Same
    BY DEF WorkStart
  <1>32. WorkTake => Same
    BY DEF WorkTake
  <1>34. ASSUME NEW a \in {"recycle", "release"}, WorkCallback(a) PROVE Same
    BY <1>34 DEF WorkCallback
  <1>35. IrqRead => Same
    BY DEF IrqRead
  <1>37. IrqStray => Same
    BY DEF IrqStray
  <1>38. IrqNotify => Same
    BY DEF IrqNotify
  <1>39. IrqAck => Same
    BY DEF IrqAck
  <1>41. HwTerminate => Same
    BY DEF HwTerminate
  <1>42. HwGlitch => Same
    BY DEF HwGlitch
  <1>43. LoseDevice => Same
    BY DEF LoseDevice
  <1>44. StallTime => Same
    BY DEF StallTime
  <1>99. UNCHANGED vars => Same
    BY DEF vars
  <1> HIDE DEF Same
  <1>100. \/ StartSetup \/ StartPublish \/ ClearHardware \/ StopFinish
          \/ WorkExit \/ WorkSettle \/ HwFill
          \/ \E c \in Channels : IrqComplete(c)
          \/ Same
    BY <1>1, <1>2, <1>3, <1>4, <1>5, <1>6, <1>7, <1>8, <1>9, <1>12, <1>13,
       <1>14, <1>15, <1>16, <1>17, <1>18, <1>19, <1>20, <1>21, <1>24, <1>25,
       <1>26, <1>27, <1>28, <1>29, <1>30, <1>32, <1>34, <1>35, <1>37, <1>38,
       <1>39, <1>41, <1>42, <1>43, <1>44, <1>99
    DEF Next, ApiCall, Holder, Watchdog, Work, IrqBody, Hardware
  <1> QED BY <1>100 DEF Same

\* Every step keeps the hardware off the buffers it must not write to.
LEMMA ArmedStep ==
    ASSUME BufferInv, PhaseFlags, Disarmed, DmaTargetsActive, [Next]_vars
    PROVE  Disarmed' /\ DmaTargetsActive'
  <1>0. /\ TypeOK /\ Holding /\ BufferTypes /\ HardwareTypes
        /\ ready \in Seq(Buffers) /\ last \in -1 .. NChannels - 1
        /\ active \in [Channels -> Buffers \cup {NoBuf}]
        /\ hwChan \in [Channels -> {"idle", "armed", "filled"}]
    BY DEF BufferInv, TypeOK, BufferTypes, HardwareTypes
  <1>1. ctl = "finish" => stopping
    BY DEF PhaseFlags, Closing
  <1>2. CASE StartSetup
    <2>1. /\ UNCHANGED active /\ ctl' # "finish"
          /\ \/ hwChan' = [c \in Channels |-> "idle"]
             \/ lost'
      BY <1>2 DEF StartSetup, listVars
    <2> QED BY <2>1 DEF Disarmed, DmaTargetsActive
  <1>3. CASE StartPublish
    <2>1. ctl' # "finish"
      BY <1>3 DEF StartPublish
    <2>2. lost' \/ (~lost /\ SubmitReady(ready, active, state, hwChan))
      BY <1>3 DEF StartPublish, SubmitReady, SubmitCount
    <2>3. CASE ~lost /\ SubmitReady(ready, active, state, hwChan)
      <3>1. \A c \in Channels : hwChan'[c] = "armed" => active'[c] # NoBuf
        BY <1>0, <2>3, SubmitArmed DEF DmaTargetsActive
      <3> QED BY <2>1, <3>1 DEF Disarmed, DmaTargetsActive
    <2> QED BY <2>1, <2>2, <2>3 DEF Disarmed, DmaTargetsActive
  <1>4. CASE ClearHardware
    <2>1. /\ UNCHANGED <<active, lost>>
          /\ lost \/ hwChan' = [c \in Channels |-> "idle"]
      BY <1>4 DEF ClearHardware, streamVars, listVars, devVars
    <2> QED BY <2>1 DEF Disarmed, DmaTargetsActive
  <1>5. CASE StopFinish
    <2>1. UNCHANGED <<hwChan, lost>> /\ ctl = "finish" /\ ctl' # "finish"
      BY <1>5 DEF StopFinish, hwVars, devVars
    <2> QED BY <2>1 DEF Disarmed, DmaTargetsActive
  <1>6. CASE WorkExit
    <2>1. /\ UNCHANGED ctl /\ (lost => lost')
          /\ \/ Live /\ SubmitReady(ready, active, state, hwChan)
             \/ UNCHANGED <<hwChan, active>>
      BY <1>6 DEF WorkExit, NoSubmit, SubmitReady, SubmitCount, ctlVars
    <2>2. CASE UNCHANGED <<hwChan, active>>
      BY <2>1, <2>2 DEF Disarmed, DmaTargetsActive
    <2>3. CASE ~lost' /\ Live /\ SubmitReady(ready, active, state, hwChan)
      <3>1. \A c \in Channels : hwChan'[c] = "armed" => active'[c] # NoBuf
        BY <1>0, <2>1, <2>3, SubmitArmed DEF DmaTargetsActive
      <3> QED BY <1>1, <2>1, <2>3, <3>1 DEF Live, Disarmed, DmaTargetsActive
    <2> QED BY <2>1, <2>2, <2>3 DEF Disarmed, DmaTargetsActive
  <1>7. CASE WorkSettle
    <2> DEFINE rdy == Append(ready, workBuf)
               st == [state EXCEPT ![workBuf] = "ready"]
    <2>1. /\ UNCHANGED ctl /\ (lost => lost')
          /\ \/ Live /\ SubmitReady(rdy, active, st, hwChan)
             \/ UNCHANGED <<hwChan, active>>
      BY <1>7 DEF WorkSettle, Recyclable, NoSubmit, SubmitReady, SubmitCount,
                  ctlVars
    <2>2. CASE UNCHANGED <<hwChan, active>>
      BY <2>1, <2>2 DEF Disarmed, DmaTargetsActive
    <2>3. CASE ~lost' /\ Live /\ SubmitReady(rdy, active, st, hwChan)
      <3>1. workBuf \in Buffers
        BY <1>0, <1>7 DEF WorkSettle, Holding, TypeOK, ThreadTypes
      <3>2. rdy \in Seq(Buffers)
        BY <1>0, <3>1, AppendProperties
      <3> HIDE DEF rdy, st
      <3>3. \A c \in Channels : hwChan'[c] = "armed" => active'[c] # NoBuf
        BY <1>0, <2>1, <2>3, <3>2, SubmitArmed DEF DmaTargetsActive
      <3> QED BY <1>1, <2>1, <2>3, <3>3 DEF Live, Disarmed, DmaTargetsActive
    <2> QED BY <2>1, <2>2, <2>3 DEF Disarmed, DmaTargetsActive
  <1>8. CASE HwFill
    <2>1. /\ UNCHANGED <<active, lost, ctl>>
          /\ \A c \in Channels : hwChan'[c] = "armed" => hwChan[c] = "armed"
      BY <1>0, <1>8
      DEF HwFill, streamVars, listVars, devVars, ctlVars, HardwareTypes
    <2> QED BY <2>1 DEF Disarmed, DmaTargetsActive
  <1>9. ASSUME NEW c \in Channels, IrqComplete(c)
        PROVE  Disarmed' /\ DmaTargetsActive'
    <2> DEFINE act == [active EXCEPT ![c] = NoBuf]
               st == [state EXCEPT ![active[c]] = "done"]
               ch == IF lost THEN hwChan ELSE [hwChan EXCEPT ![c] = "idle"]
    <2>1. /\ UNCHANGED ctl /\ (lost => lost')
          /\ \/ Live /\ SubmitReady(ready, act, st, ch)
             \/ hwChan' = ch /\ active' = act
      BY <1>9 DEF IrqComplete, NoSubmit, SubmitReady, SubmitCount, ctlVars
    <2>2. \A d \in Channels :
            /\ ch[d] = "armed" => hwChan[d] = "armed"
            /\ ~lost /\ ch[d] = "armed" => act[d] # NoBuf
      BY <1>0 DEF DmaTargetsActive
    <2> HIDE DEF act, st, ch
    <2>3. CASE ~lost' /\ Live /\ SubmitReady(ready, act, st, ch)
      <3>1. \A d \in Channels : hwChan'[d] = "armed" => active'[d] # NoBuf
        BY <1>0, <2>1, <2>2, <2>3, SubmitArmed
      <3> QED BY <1>1, <2>1, <2>3, <3>1 DEF Live, Disarmed, DmaTargetsActive
    <2>4. CASE hwChan' = ch /\ active' = act
      BY <2>1, <2>2, <2>4 DEF Disarmed, DmaTargetsActive
    <2> QED BY <2>1, <2>3, <2>4 DEF Disarmed, DmaTargetsActive
  <1>10. CASE /\ UNCHANGED <<hwChan, active>>
              /\ lost => lost'
              /\ ctl' = "finish" => ctl = "finish"
    BY <1>10 DEF Disarmed, DmaTargetsActive
  <1> QED
    BY <1>0, <1>2, <1>3, <1>4, <1>5, <1>6, <1>7, <1>8, <1>9, <1>10, ArmedFrame

\* The inductive invariant of what a stop leaves behind.
QuietInv ==
    /\ NoCallback /\ EngineOwned /\ RequestsTaken
    /\ Disarmed /\ DmaTargetsActive

\* It holds in every reachable state, beside the invariant of the scheduling.
THEOREM QuietInvariant == Spec => []QuietInv
  <1>1. Init => QuietInv
    BY DEF Init, QuietInv, NoCallback, EngineOwned, RequestsTaken, Disarmed,
           DmaTargetsActive
  <1>2. WakeupInv /\ QuietInv /\ [Next]_vars => QuietInv'
    <2> SUFFICES ASSUME WakeupInv, QuietInv, [Next]_vars PROVE QuietInv'
      OBVIOUS
    <2>1. /\ BufferInv /\ TypeOK /\ Holding /\ PhaseFlags /\ PhaseLists
          /\ NoCallback /\ EngineOwned /\ RequestsTaken
          /\ Disarmed /\ DmaTargetsActive
      BY DEF WakeupInv, BufferInv, QuietInv
    <2> QED
      BY <2>1, NoCallbackStep, EngineOwnedStep, RequestsTakenStep, ArmedStep
      DEF QuietInv
  <1> QED BY <1>1, <1>2, WakeupInvariant, PTL DEF Spec

\* The hardware never holds a descriptor of a buffer that the driver has given
\* back: clear_hardware and the channel control of gc555_video_dma_irq come
\* before the list operations, with any source on the interrupt vector.
THEOREM DmaTargeted == Spec => []DmaTargetsActive
  BY QuietInvariant, PTL DEF QuietInv

\* When a stop, a recovery or a rolled back start returns, no callback runs, no
\* buffer is active or done, engine and channels are off, and no request for a
\* recovery is left, whatever handler and work did meanwhile.
THEOREM StoppedQuiet == Spec => []QuietWhenStopped
  <1>1. WakeupInv /\ QuietInv => QuietWhenStopped
    <2> SUFFICES ASSUME WakeupInv, QuietInv, ~streaming, ctl = "free"
                 PROVE  /\ workBuf = NoBuf /\ done = <<>> /\ ~HasActive
                        /\ ~lost => /\ engine # "on"
                                    /\ \A c \in Channels : hwChan[c] # "armed"
                        /\ recoveryRequested => closer = "rollback"
      BY DEF QuietWhenStopped
    <2>1. ~stopping
      BY DEF WakeupInv, PhaseFlags, Closing
    <2>2. workBuf = NoBuf /\ done = <<>> /\ ~HasActive
      BY <2>1 DEF WakeupInv, QuietInv, PhaseLists, NoCallback
    <2>3. ~lost => engine # "on"
      BY DEF QuietInv, EngineOwned
    <2>4. ~lost => \A c \in Channels : hwChan[c] # "armed"
      BY <2>2 DEF QuietInv, DmaTargetsActive, HasActive
    <2>5. recoveryRequested => closer = "rollback"
      BY <2>1 DEF QuietInv, RequestsTaken
    <2> QED BY <2>2, <2>3, <2>4, <2>5
  <1> QED BY <1>1, WakeupInvariant, QuietInvariant, PTL

=============================================================================
