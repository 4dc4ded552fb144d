------------------------ MODULE VideoDmaOrderProofs ------------------------
(***************************************************************************)
(* The video DMA engine implements FrameQueue, for every number of buffers *)
(* and channels, with and without a surprise removal, on a card whose      *)
(* handler serves the video interrupts only and whose completions name a   *)
(* channel that completed (Faithful).                                      *)
(***************************************************************************)
EXTENDS VideoDmaOrder, VideoDmaProofs, WellFoundedInduction

\* What the order of the frames takes of the interrupt vector and the hardware.
Faithful == ~SharedVector /\ MaxGlitches = 0

-----------------------------------------------------------------------------
(* Interrupts between streams *)

\* A stream starts with channel 0.
Resting == ~streaming /\ ~stopping => last = -1

\* From synchronize_irq to the next start, the handler rests and stays masked.
Masked ==
    /\ ctl = "sync" => ~irqEnabled \/ lost
    /\ ctl \in {"flush_work", "clear", "finish"}
       \/ (~streaming /\ ~stopping /\ ctl \notin {"publish", "rollback"}) =>
         irqPc = "idle" /\ (~irqEnabled \/ lost)

\* A start publishes its stream over idle channels, with no completion pending
\* in the status register or in the handler.
PublishClean ==
    ctl = "publish" =>
        /\ \A c \in Channels : hwChan[c] = "idle"
        /\ ~hwComplete
        /\ irqPc = "idle" \/ ~irqSeen.complete

\* clear_hardware resets the fill position.
Cleared == ctl = "finish" /\ ~lost => hwNext = 0

\* The inductive invariant of what lies between two streams.
BetweenInv == Resting /\ Masked /\ PublishClean /\ Cleared

\* Every step leaves last_channel at its start value between streams.
LEMMA RestingStep ==
    ASSUME TypeOK, PhaseFlags, PhaseLists, Resting, [Next]_vars
    PROVE  Resting'
  <1>0. FlagTypes
    BY DEF TypeOK
  <1> USE <1>0
      DEF streamVars, otherVars, bufVars, listVars, runVars, faultVars,
          flagVars, devVars, ctlVars, workVars, wdVars, irqVars, statusVars,
          hwVars
  <1>1. ASSUME NEW b \in Buffers, PrepareBegin(b) PROVE Resting'
    BY <1>1 DEF PrepareBegin, ApiIdle, PhaseFlags, Closing, Resting
  <1>2. ASSUME NEW b \in Buffers, Queue(b) PROVE Resting'
    BY <1>2 DEF Queue, ApiIdle, PhaseFlags, Closing, Resting
  <1>3. ASSUME NEW b \in Buffers, CleanupBuffer(b) PROVE Resting'
    BY <1>3 DEF CleanupBuffer, ApiIdle, PhaseFlags, Closing, Resting
  <1>4. ASSUME VideoReset PROVE Resting'
    BY <1>4 DEF VideoReset, ApiIdle, PhaseFlags, Closing, Resting
  <1>5. ASSUME FpgaConfigure PROVE Resting'
    BY <1>5 DEF FpgaConfigure, ApiIdle, PhaseFlags, Closing, Resting
  <1>6. ASSUME StartBegin PROVE Resting'
    BY <1>6 DEF StartBegin, ApiIdle, PhaseFlags, Closing, Resting
  <1>7. ASSUME StopBegin PROVE Resting'
    BY <1>7 DEF StopBegin, ApiIdle, PhaseFlags, Closing, Resting
  <1>8. ASSUME QueueKick PROVE Resting'
    BY <1>8 DEF QueueKick, PhaseFlags, Closing, Resting
  <1>9. ASSUME PrepareEnd PROVE Resting'
    BY <1>9 DEF PrepareEnd, PhaseFlags, Closing, Resting
  <1>10. ASSUME StartSetup PROVE Resting'
    BY <1>10 DEF StartSetup, PhaseFlags, Closing, Resting
  <1>11. ASSUME StartPublish PROVE Resting'
    <2>1. streaming' \/ (UNCHANGED last /\ ~streaming /\ ~stopping)
      BY <1>11 DEF StartPublish, PhaseFlags, Closing
    <2> QED BY <2>1 DEF Resting
  <1>12. ASSUME StartEnable PROVE Resting'
    BY <1>12 DEF StartEnable, PhaseFlags, Closing, Resting
  <1>13. ASSUME StartRollback PROVE Resting'
    BY <1>13 DEF StartRollback, PhaseFlags, Closing, Resting
  <1>14. ASSUME CancelWatchdog PROVE Resting'
    BY <1>14 DEF CancelWatchdog, PhaseFlags, Closing, Resting
  <1>15. ASSUME FlushWatchdog PROVE Resting'
    BY <1>15 DEF FlushWatchdog, PhaseFlags, Closing, Resting
  <1>16. ASSUME Quiesce PROVE Resting'
    BY <1>16 DEF Quiesce, PhaseFlags, Closing, Resting
  <1>17. ASSUME Terminated PROVE Resting'
    BY <1>17 DEF Terminated, PhaseFlags, Closing, Resting
  <1>18. ASSUME StopTimeout PROVE Resting'
    BY <1>18 DEF StopTimeout, PhaseFlags, Closing, Resting
  <1>19. ASSUME MaskInterrupts PROVE Resting'
    BY <1>19 DEF MaskInterrupts, PhaseFlags, Closing, Resting
  <1>20. ASSUME SynchronizeIrq PROVE Resting'
    BY <1>20 DEF SynchronizeIrq, PhaseFlags, Closing, Resting
  <1>21. ASSUME FlushWork PROVE Resting'
    BY <1>21 DEF FlushWork, PhaseFlags, Closing, Resting
  <1>22. ASSUME ClearHardware PROVE Resting'
    BY <1>22 DEF ClearHardware, PhaseFlags, Closing, Resting
  <1>23. ASSUME StopFinish PROVE Resting'
    BY <1>23 DEF StopFinish, PhaseFlags, Closing, Resting
  <1>24. ASSUME ReportError PROVE Resting'
    BY <1>24 DEF ReportError, PhaseFlags, Closing, Resting
  <1>25. ASSUME WatchdogStop PROVE Resting'
    BY <1>25 DEF WatchdogStop, PhaseFlags, Closing, Resting
  <1>26. ASSUME WatchdogStart PROVE Resting'
    BY <1>26 DEF WatchdogStart, PhaseFlags, Closing, Resting
  <1>27. ASSUME WatchdogBusy PROVE Resting'
    BY <1>27 DEF WatchdogBusy, PhaseFlags, Closing, Resting
  <1>28. ASSUME WatchdogCheck PROVE Resting'
    BY <1>28 DEF WatchdogCheck, PhaseFlags, Closing, Resting
  <1>29. ASSUME WatchdogRecover PROVE Resting'
    BY <1>29 DEF WatchdogRecover, PhaseFlags, Closing, Resting
  <1>30. ASSUME WorkStart PROVE Resting'
    BY <1>30 DEF WorkStart, PhaseFlags, Closing, Resting
  <1>31. ASSUME WorkExit PROVE Resting'
    <2>1. /\ UNCHANGED <<streaming, stopping>>
          /\ ~streaming => UNCHANGED last
      BY <1>31 DEF WorkExit, NoSubmit, Live
    <2> QED BY <2>1 DEF Resting
  <1>32. ASSUME WorkTake PROVE Resting'
    BY <1>32 DEF WorkTake, PhaseFlags, Closing, Resting
  <1>33. ASSUME WorkSettle PROVE Resting'
    <2>1. /\ UNCHANGED <<streaming, stopping>>
          /\ ~streaming => UNCHANGED last
      BY <1>33 DEF WorkSettle, Recyclable, NoSubmit, Live
    <2> QED BY <2>1 DEF Resting
  <1>34. ASSUME NEW a \in {"recycle", "release"}, WorkCallback(a) PROVE Resting'
    BY <1>34 DEF WorkCallback, PhaseFlags, Closing, Resting
  <1>35. ASSUME IrqRead PROVE Resting'
    BY <1>35 DEF IrqRead, PhaseFlags, Closing, Resting
  <1>36. ASSUME NEW c \in Channels, IrqComplete(c) PROVE Resting'
    <2>1. /\ UNCHANGED <<streaming, stopping>>
          /\ ~streaming => UNCHANGED last
      BY <1>36 DEF IrqComplete, NoSubmit, Live
    <2> QED BY <2>1 DEF Resting
  <1>37. ASSUME IrqStray PROVE Resting'
    BY <1>37 DEF IrqStray, PhaseFlags, Closing, Resting
  <1>38. ASSUME IrqNotify PROVE Resting'
    BY <1>38 DEF IrqNotify, PhaseFlags, Closing, Resting
  <1>39. ASSUME IrqAck PROVE Resting'
    BY <1>39 DEF IrqAck, PhaseFlags, Closing, Resting
  <1>40. ASSUME HwFill PROVE Resting'
    BY <1>40 DEF HwFill, PhaseFlags, Closing, Resting
  <1>41. ASSUME HwTerminate PROVE Resting'
    BY <1>41 DEF HwTerminate, PhaseFlags, Closing, Resting
  <1>42. ASSUME HwGlitch PROVE Resting'
    BY <1>42 DEF HwGlitch, PhaseFlags, Closing, Resting
  <1>43. ASSUME LoseDevice PROVE Resting'
    BY <1>43 DEF LoseDevice, PhaseFlags, Closing, Resting
  <1>44. ASSUME StallTime PROVE Resting'
    BY <1>44 DEF StallTime, PhaseFlags, Closing, Resting
  <1>99. CASE UNCHANGED vars
    BY <1>99 DEF vars, PhaseFlags, Closing, Resting
  <1> QED
    BY <1>1, <1>2, <1>3, <1>4, <1>5, <1>6, <1>7, <1>8, <1>9, <1>10, <1>11,
       <1>12, <1>13, <1>14, <1>15, <1>16, <1>17, <1>18, <1>19, <1>20, <1>21,
       <1>22, <1>23, <1>24, <1>25, <1>26, <1>27, <1>28, <1>29, <1>30, <1>31,
       <1>32, <1>33, <1>34, <1>35, <1>36, <1>37, <1>38, <1>39, <1>40, <1>41,
       <1>42, <1>43, <1>44, <1>99
    DEF Next, ApiCall, Holder, Watchdog, Work, IrqBody, Hardware

\* Every step keeps the handler out of what lies between two streams.
LEMMA MaskedStep ==
    ASSUME Faithful, TypeOK, PhaseFlags, EngineOwned, Masked, [Next]_vars
    PROVE  Masked'
  <1>0. FlagTypes
    BY DEF TypeOK
  <1> USE <1>0
      DEF streamVars, otherVars, bufVars, listVars, runVars, faultVars,
          flagVars, devVars, ctlVars, workVars, wdVars, irqVars, statusVars,
          hwVars
  <1>1. ASSUME NEW b \in Buffers, PrepareBegin(b) PROVE Masked'
    BY <1>1 DEF PrepareBegin, ApiIdle, EngineOwned, PhaseFlags, Closing, Masked
  <1>2. ASSUME NEW b \in Buffers, Queue(b) PROVE Masked'
    BY <1>2 DEF Queue, ApiIdle, EngineOwned, PhaseFlags, Closing, Masked
  <1>3. ASSUME NEW b \in Buffers, CleanupBuffer(b) PROVE Masked'
    BY <1>3 DEF CleanupBuffer, ApiIdle, EngineOwned, PhaseFlags, Closing, Masked
  <1>4. ASSUME VideoReset PROVE Masked'
    BY <1>4 DEF VideoReset, ApiIdle, EngineOwned, PhaseFlags, Closing, Masked
  <1>5. ASSUME FpgaConfigure PROVE Masked'
    BY <1>5 DEF FpgaConfigure, ApiIdle, EngineOwned, PhaseFlags, Closing, Masked
  <1>6. ASSUME StartBegin PROVE Masked'
    BY <1>6 DEF StartBegin, ApiIdle, EngineOwned, PhaseFlags, Closing, Masked
  <1>7. ASSUME StopBegin PROVE Masked'
    BY <1>7 DEF StopBegin, ApiIdle, EngineOwned, PhaseFlags, Closing, Masked
  <1>8. ASSUME QueueKick PROVE Masked'
    BY <1>8 DEF QueueKick, EngineOwned, PhaseFlags, Closing, Masked
  <1>9. ASSUME PrepareEnd PROVE Masked'
    BY <1>9 DEF PrepareEnd, EngineOwned, PhaseFlags, Closing, Masked
  <1>10. ASSUME StartSetup PROVE Masked'
    BY <1>10 DEF StartSetup, EngineOwned, PhaseFlags, Closing, Masked
  <1>11. ASSUME StartPublish PROVE Masked'
    <2>1. ctl' = "rollback" \/ streaming'
      BY <1>11 DEF StartPublish
    <2>2. ctl' \in {"enable", "rollback"}
      BY <1>11 DEF StartPublish
    <2> QED BY <2>1, <2>2 DEF Masked
  <1>12. ASSUME StartEnable PROVE Masked'
    BY <1>12 DEF StartEnable, EngineOwned, PhaseFlags, Closing, Masked
  <1>13. ASSUME StartRollback PROVE Masked'
    BY <1>13 DEF StartRollback, EngineOwned, PhaseFlags, Closing, Masked
  <1>14. ASSUME CancelWatchdog PROVE Masked'
    BY <1>14 DEF CancelWatchdog, EngineOwned, PhaseFlags, Closing, Masked
  <1>15. ASSUME FlushWatchdog PROVE Masked'
    BY <1>15 DEF FlushWatchdog, EngineOwned, PhaseFlags, Closing, Masked
  <1>16. ASSUME Quiesce PROVE Masked'
    BY <1>16 DEF Quiesce, EngineOwned, PhaseFlags, Closing, Masked
  <1>17. ASSUME Terminated PROVE Masked'
    BY <1>17 DEF Terminated, EngineOwned, PhaseFlags, Closing, Masked
  <1>18. ASSUME StopTimeout PROVE Masked'
    BY <1>18 DEF StopTimeout, EngineOwned, PhaseFlags, Closing, Masked
  <1>19. ASSUME MaskInterrupts PROVE Masked'
    BY <1>19 DEF MaskInterrupts, EngineOwned, PhaseFlags, Closing, Masked
  <1>20. ASSUME SynchronizeIrq PROVE Masked'
    BY <1>20 DEF SynchronizeIrq, EngineOwned, PhaseFlags, Closing, Masked
  <1>21. ASSUME FlushWork PROVE Masked'
    BY <1>21 DEF FlushWork, EngineOwned, PhaseFlags, Closing, Masked
  <1>22. ASSUME ClearHardware PROVE Masked'
    BY <1>22 DEF ClearHardware, EngineOwned, PhaseFlags, Closing, Masked
  <1>23. ASSUME StopFinish PROVE Masked'
    BY <1>23 DEF StopFinish, EngineOwned, PhaseFlags, Closing, Masked
  <1>24. ASSUME ReportError PROVE Masked'
    BY <1>24 DEF ReportError, EngineOwned, PhaseFlags, Closing, Masked
  <1>25. ASSUME WatchdogStop PROVE Masked'
    BY <1>25 DEF WatchdogStop, EngineOwned, PhaseFlags, Closing, Masked
  <1>26. ASSUME WatchdogStart PROVE Masked'
    BY <1>26 DEF WatchdogStart, EngineOwned, PhaseFlags, Closing, Masked
  <1>27. ASSUME WatchdogBusy PROVE Masked'
    BY <1>27 DEF WatchdogBusy, EngineOwned, PhaseFlags, Closing, Masked
  <1>28. ASSUME WatchdogCheck PROVE Masked'
    BY <1>28 DEF WatchdogCheck, EngineOwned, PhaseFlags, Closing, Masked
  <1>29. ASSUME WatchdogRecover PROVE Masked'
    BY <1>29 DEF WatchdogRecover, EngineOwned, PhaseFlags, Closing, Masked
  <1>30. ASSUME WorkStart PROVE Masked'
    BY <1>30 DEF WorkStart, EngineOwned, PhaseFlags, Closing, Masked
  <1>31. ASSUME WorkExit PROVE Masked'
    <2>1. /\ UNCHANGED <<streaming, stopping, ctl, irqEnabled, irqPc>>
          /\ lost => lost'
      BY <1>31 DEF WorkExit, NoSubmit, SubmitReady, SubmitCount
    <2> QED BY <2>1 DEF Masked
  <1>32. ASSUME WorkTake PROVE Masked'
    BY <1>32 DEF WorkTake, EngineOwned, PhaseFlags, Closing, Masked
  <1>33. ASSUME WorkSettle PROVE Masked'
    <2>1. /\ UNCHANGED <<streaming, stopping, ctl, irqEnabled, irqPc>>
          /\ lost => lost'
      BY <1>33 DEF WorkSettle, NoSubmit, SubmitReady, SubmitCount
    <2> QED BY <2>1 DEF Masked
  <1>34. ASSUME NEW a \in {"recycle", "release"}, WorkCallback(a) PROVE Masked'
    BY <1>34 DEF WorkCallback, EngineOwned, PhaseFlags, Closing, Masked
  <1>35. ASSUME IrqRead PROVE Masked'
    BY <1>35 DEF IrqRead, Faithful, Masked
  <1>36. ASSUME NEW c \in Channels, IrqComplete(c) PROVE Masked'
    <2>1. /\ UNCHANGED <<streaming, stopping, ctl, irqEnabled>>
          /\ irqPc # "idle" /\ (lost => lost')
      BY <1>36 DEF IrqComplete, NoSubmit, SubmitReady, SubmitCount
    <2> QED BY <2>1 DEF Masked
  <1>37. ASSUME IrqStray PROVE Masked'
    BY <1>37 DEF IrqStray, EngineOwned, PhaseFlags, Closing, Masked
  <1>38. ASSUME IrqNotify PROVE Masked'
    BY <1>38 DEF IrqNotify, EngineOwned, PhaseFlags, Closing, Masked
  <1>39. ASSUME IrqAck PROVE Masked'
    BY <1>39 DEF IrqAck, EngineOwned, PhaseFlags, Closing, Masked
  <1>40. ASSUME HwFill PROVE Masked'
    BY <1>40 DEF HwFill, EngineOwned, PhaseFlags, Closing, Masked
  <1>41. ASSUME HwTerminate PROVE Masked'
    BY <1>41 DEF HwTerminate, EngineOwned, PhaseFlags, Closing, Masked
  <1>42. ASSUME HwGlitch PROVE Masked'
    BY <1>42 DEF HwGlitch, EngineOwned, PhaseFlags, Closing, Masked
  <1>43. ASSUME LoseDevice PROVE Masked'
    BY <1>43 DEF LoseDevice, EngineOwned, PhaseFlags, Closing, Masked
  <1>44. ASSUME StallTime PROVE Masked'
    BY <1>44 DEF StallTime, EngineOwned, PhaseFlags, Closing, Masked
  <1>99. CASE UNCHANGED vars
    BY <1>99 DEF vars, EngineOwned, PhaseFlags, Closing, Masked
  <1> QED
    BY <1>1, <1>2, <1>3, <1>4, <1>5, <1>6, <1>7, <1>8, <1>9, <1>10, <1>11,
       <1>12, <1>13, <1>14, <1>15, <1>16, <1>17, <1>18, <1>19, <1>20, <1>21,
       <1>22, <1>23, <1>24, <1>25, <1>26, <1>27, <1>28, <1>29, <1>30, <1>31,
       <1>32, <1>33, <1>34, <1>35, <1>36, <1>37, <1>38, <1>39, <1>40, <1>41,
       <1>42, <1>43, <1>44, <1>99
    DEF Next, ApiCall, Holder, Watchdog, Work, IrqBody, Hardware

\* Every step keeps a start that is about to publish its stream clean.
LEMMA PublishCleanStep ==
    ASSUME Faithful, TypeOK, PhaseFlags, Masked, PublishClean, [Next]_vars
    PROVE  PublishClean'
  <1>0. FlagTypes /\ HardwareTypes
    BY DEF TypeOK
  <1> USE <1>0
      DEF streamVars, otherVars, bufVars, listVars, runVars, faultVars,
          flagVars, devVars, ctlVars, workVars, wdVars, irqVars, statusVars,
          hwVars
  <1>1. ASSUME NEW b \in Buffers, PrepareBegin(b) PROVE PublishClean'
    BY <1>1 DEF PrepareBegin, ApiIdle, PublishClean
  <1>2. ASSUME NEW b \in Buffers, Queue(b) PROVE PublishClean'
    BY <1>2 DEF Queue, ApiIdle, PublishClean
  <1>3. ASSUME NEW b \in Buffers, CleanupBuffer(b) PROVE PublishClean'
    BY <1>3 DEF CleanupBuffer, ApiIdle, PublishClean
  <1>4. ASSUME VideoReset PROVE PublishClean'
    BY <1>4 DEF VideoReset, ApiIdle, PublishClean
  <1>5. ASSUME FpgaConfigure PROVE PublishClean'
    BY <1>5 DEF FpgaConfigure, ApiIdle, PublishClean
  <1>6. ASSUME StartBegin PROVE PublishClean'
    BY <1>6 DEF StartBegin, ApiIdle, PublishClean
  <1>7. ASSUME StopBegin PROVE PublishClean'
    BY <1>7 DEF StopBegin, ApiIdle, PublishClean
  <1>8. ASSUME QueueKick PROVE PublishClean'
    BY <1>8 DEF QueueKick, PublishClean
  <1>9. ASSUME PrepareEnd PROVE PublishClean'
    BY <1>9 DEF PrepareEnd, PublishClean
  <1>10. ASSUME StartSetup PROVE PublishClean'
    <2>1. ctl' = "publish" =>
            /\ \A c \in Channels : hwChan'[c] = "idle"
            /\ ~hwComplete' /\ UNCHANGED irqPc
      BY <1>10 DEF StartSetup
    <2>2. irqPc = "idle"
      BY <1>10 DEF StartSetup, PhaseFlags, Closing, Masked
    <2> QED BY <2>1, <2>2 DEF PublishClean
  <1>11. ASSUME StartPublish PROVE PublishClean'
    BY <1>11 DEF StartPublish, PublishClean
  <1>12. ASSUME StartEnable PROVE PublishClean'
    BY <1>12 DEF StartEnable, PublishClean
  <1>13. ASSUME StartRollback PROVE PublishClean'
    BY <1>13 DEF StartRollback, PublishClean
  <1>14. ASSUME CancelWatchdog PROVE PublishClean'
    BY <1>14 DEF CancelWatchdog, PublishClean
  <1>15. ASSUME FlushWatchdog PROVE PublishClean'
    BY <1>15 DEF FlushWatchdog, PublishClean
  <1>16. ASSUME Quiesce PROVE PublishClean'
    BY <1>16 DEF Quiesce, PublishClean
  <1>17. ASSUME Terminated PROVE PublishClean'
    BY <1>17 DEF Terminated, PublishClean
  <1>18. ASSUME StopTimeout PROVE PublishClean'
    BY <1>18 DEF StopTimeout, PublishClean
  <1>19. ASSUME MaskInterrupts PROVE PublishClean'
    BY <1>19 DEF MaskInterrupts, PublishClean
  <1>20. ASSUME SynchronizeIrq PROVE PublishClean'
    BY <1>20 DEF SynchronizeIrq, PublishClean
  <1>21. ASSUME FlushWork PROVE PublishClean'
    BY <1>21 DEF FlushWork, PublishClean
  <1>22. ASSUME ClearHardware PROVE PublishClean'
    BY <1>22 DEF ClearHardware, PublishClean
  <1>23. ASSUME StopFinish PROVE PublishClean'
    BY <1>23 DEF StopFinish, PublishClean
  <1>24. ASSUME ReportError PROVE PublishClean'
    BY <1>24 DEF ReportError, PublishClean
  <1>25. ASSUME WatchdogStop PROVE PublishClean'
    BY <1>25 DEF WatchdogStop, PublishClean
  <1>26. ASSUME WatchdogStart PROVE PublishClean'
    BY <1>26 DEF WatchdogStart, PublishClean
  <1>27. ASSUME WatchdogBusy PROVE PublishClean'
    BY <1>27 DEF WatchdogBusy, PublishClean
  <1>28. ASSUME WatchdogCheck PROVE PublishClean'
    BY <1>28 DEF WatchdogCheck, PublishClean
  <1>29. ASSUME WatchdogRecover PROVE PublishClean'
    BY <1>29 DEF WatchdogRecover, PublishClean
  <1>30. ASSUME WorkStart PROVE PublishClean'
    BY <1>30 DEF WorkStart, PublishClean
  <1>31. ASSUME WorkExit PROVE PublishClean'
    <2>1. /\ UNCHANGED <<ctl, hwComplete, irqPc, irqSeen>>
          /\ ctl = "publish" => UNCHANGED hwChan
      BY <1>31 DEF WorkExit, NoSubmit, Live, PhaseFlags, Closing
    <2> QED BY <2>1 DEF PublishClean
  <1>32. ASSUME WorkTake PROVE PublishClean'
    BY <1>32 DEF WorkTake, PublishClean
  <1>33. ASSUME WorkSettle PROVE PublishClean'
    <2>1. /\ UNCHANGED <<ctl, hwComplete, irqPc, irqSeen>>
          /\ ctl = "publish" => UNCHANGED hwChan
      BY <1>33 DEF WorkSettle, Recyclable, NoSubmit, Live, PhaseFlags, Closing
    <2> QED BY <2>1 DEF PublishClean
  <1>34. ASSUME NEW a \in {"recycle", "release"}, WorkCallback(a) PROVE PublishClean'
    BY <1>34 DEF WorkCallback, PublishClean
  <1>35. ASSUME IrqRead PROVE PublishClean'
    BY <1>35 DEF IrqRead, PublishClean
  <1>36. ASSUME NEW c \in Channels, IrqComplete(c) PROVE PublishClean'
    <2>1. irqSeen.complete /\ irqPc = "handle" /\ UNCHANGED ctl
      BY <1>36 DEF IrqComplete, Completing
    <2> QED BY <2>1 DEF PublishClean
  <1>37. ASSUME IrqStray PROVE PublishClean'
    BY <1>37 DEF IrqStray, PublishClean
  <1>38. ASSUME IrqNotify PROVE PublishClean'
    BY <1>38 DEF IrqNotify, PublishClean
  <1>39. ASSUME IrqAck PROVE PublishClean'
    BY <1>39 DEF IrqAck, PublishClean
  <1>40. ASSUME HwFill PROVE PublishClean'
    <2>1. hwChan[hwNext] = "armed" /\ hwNext \in Channels /\ UNCHANGED ctl
      BY <1>40 DEF HwFill, HardwareTypes
    <2> QED BY <2>1 DEF PublishClean
  <1>41. ASSUME HwTerminate PROVE PublishClean'
    BY <1>41 DEF HwTerminate, PublishClean
  <1>42. ASSUME HwGlitch PROVE PublishClean'
    BY <1>42 DEF HwGlitch, Faithful, HardwareTypes
  <1>43. ASSUME LoseDevice PROVE PublishClean'
    BY <1>43 DEF LoseDevice, PublishClean
  <1>44. ASSUME StallTime PROVE PublishClean'
    BY <1>44 DEF StallTime, PublishClean
  <1>99. CASE UNCHANGED vars
    BY <1>99 DEF vars, PublishClean
  <1> QED
    BY <1>1, <1>2, <1>3, <1>4, <1>5, <1>6, <1>7, <1>8, <1>9, <1>10, <1>11,
       <1>12, <1>13, <1>14, <1>15, <1>16, <1>17, <1>18, <1>19, <1>20, <1>21,
       <1>22, <1>23, <1>24, <1>25, <1>26, <1>27, <1>28, <1>29, <1>30, <1>31,
       <1>32, <1>33, <1>34, <1>35, <1>36, <1>37, <1>38, <1>39, <1>40, <1>41,
       <1>42, <1>43, <1>44, <1>99
    DEF Next, ApiCall, Holder, Watchdog, Work, IrqBody, Hardware

\* Every step keeps the fill position that clear_hardware has reset.
LEMMA ClearedStep ==
    ASSUME TypeOK, PhaseFlags, Disarmed, Cleared, [Next]_vars
    PROVE  Cleared'
  <1>0. FlagTypes /\ HardwareTypes
    BY DEF TypeOK
  <1> USE <1>0
      DEF streamVars, otherVars, bufVars, listVars, runVars, faultVars,
          flagVars, devVars, ctlVars, workVars, wdVars, irqVars, statusVars,
          hwVars
  <1>1. ASSUME NEW b \in Buffers, PrepareBegin(b) PROVE Cleared'
    BY <1>1 DEF PrepareBegin, ApiIdle, Cleared
  <1>2. ASSUME NEW b \in Buffers, Queue(b) PROVE Cleared'
    BY <1>2 DEF Queue, ApiIdle, Cleared
  <1>3. ASSUME NEW b \in Buffers, CleanupBuffer(b) PROVE Cleared'
    BY <1>3 DEF CleanupBuffer, ApiIdle, Cleared
  <1>4. ASSUME VideoReset PROVE Cleared'
    BY <1>4 DEF VideoReset, ApiIdle, Cleared
  <1>5. ASSUME FpgaConfigure PROVE Cleared'
    BY <1>5 DEF FpgaConfigure, ApiIdle, Cleared
  <1>6. ASSUME StartBegin PROVE Cleared'
    BY <1>6 DEF StartBegin, ApiIdle, Cleared
  <1>7. ASSUME StopBegin PROVE Cleared'
    BY <1>7 DEF StopBegin, ApiIdle, Cleared
  <1>8. ASSUME QueueKick PROVE Cleared'
    BY <1>8 DEF QueueKick, Cleared
  <1>9. ASSUME PrepareEnd PROVE Cleared'
    BY <1>9 DEF PrepareEnd, Cleared
  <1>10. ASSUME StartSetup PROVE Cleared'
    BY <1>10 DEF StartSetup, Cleared
  <1>11. ASSUME StartPublish PROVE Cleared'
    BY <1>11 DEF StartPublish, Cleared
  <1>12. ASSUME StartEnable PROVE Cleared'
    BY <1>12 DEF StartEnable, Cleared
  <1>13. ASSUME StartRollback PROVE Cleared'
    BY <1>13 DEF StartRollback, Cleared
  <1>14. ASSUME CancelWatchdog PROVE Cleared'
    BY <1>14 DEF CancelWatchdog, Cleared
  <1>15. ASSUME FlushWatchdog PROVE Cleared'
    BY <1>15 DEF FlushWatchdog, Cleared
  <1>16. ASSUME Quiesce PROVE Cleared'
    BY <1>16 DEF Quiesce, Cleared
  <1>17. ASSUME Terminated PROVE Cleared'
    BY <1>17 DEF Terminated, Cleared
  <1>18. ASSUME StopTimeout PROVE Cleared'
    BY <1>18 DEF StopTimeout, Cleared
  <1>19. ASSUME MaskInterrupts PROVE Cleared'
    BY <1>19 DEF MaskInterrupts, Cleared
  <1>20. ASSUME SynchronizeIrq PROVE Cleared'
    BY <1>20 DEF SynchronizeIrq, Cleared
  <1>21. ASSUME FlushWork PROVE Cleared'
    BY <1>21 DEF FlushWork, Cleared
  <1>22. ASSUME ClearHardware PROVE Cleared'
    BY <1>22 DEF ClearHardware, Cleared
  <1>23. ASSUME StopFinish PROVE Cleared'
    BY <1>23 DEF StopFinish, Cleared
  <1>24. ASSUME ReportError PROVE Cleared'
    BY <1>24 DEF ReportError, Cleared
  <1>25. ASSUME WatchdogStop PROVE Cleared'
    BY <1>25 DEF WatchdogStop, Cleared
  <1>26. ASSUME WatchdogStart PROVE Cleared'
    BY <1>26 DEF WatchdogStart, Cleared
  <1>27. ASSUME WatchdogBusy PROVE Cleared'
    BY <1>27 DEF WatchdogBusy, Cleared
  <1>28. ASSUME WatchdogCheck PROVE Cleared'
    BY <1>28 DEF WatchdogCheck, Cleared
  <1>29. ASSUME WatchdogRecover PROVE Cleared'
    BY <1>29 DEF WatchdogRecover, Cleared
  <1>30. ASSUME WorkStart PROVE Cleared'
    BY <1>30 DEF WorkStart, Cleared
  <1>31. ASSUME WorkExit PROVE Cleared'
    <2>1. UNCHANGED <<ctl, hwNext>> /\ (lost => lost')
      BY <1>31 DEF WorkExit, NoSubmit, SubmitReady, SubmitCount
    <2> QED BY <2>1 DEF Cleared
  <1>32. ASSUME WorkTake PROVE Cleared'
    BY <1>32 DEF WorkTake, Cleared
  <1>33. ASSUME WorkSettle PROVE Cleared'
    <2>1. UNCHANGED <<ctl, hwNext>> /\ (lost => lost')
      BY <1>33 DEF WorkSettle, NoSubmit, SubmitReady, SubmitCount
    <2> QED BY <2>1 DEF Cleared
  <1>34. ASSUME NEW a \in {"recycle", "release"}, WorkCallback(a) PROVE Cleared'
    BY <1>34 DEF WorkCallback, Cleared
  <1>35. ASSUME IrqRead PROVE Cleared'
    BY <1>35 DEF IrqRead, Cleared
  <1>36. ASSUME NEW c \in Channels, IrqComplete(c) PROVE Cleared'
    <2>1. UNCHANGED <<ctl, hwNext>> /\ (lost => lost')
      BY <1>36 DEF IrqComplete, NoSubmit, SubmitReady, SubmitCount
    <2> QED BY <2>1 DEF Cleared
  <1>37. ASSUME IrqStray PROVE Cleared'
    BY <1>37 DEF IrqStray, Cleared
  <1>38. ASSUME IrqNotify PROVE Cleared'
    BY <1>38 DEF IrqNotify, Cleared
  <1>39. ASSUME IrqAck PROVE Cleared'
    BY <1>39 DEF IrqAck, Cleared
  <1>40. ASSUME HwFill PROVE Cleared'
    BY <1>40 DEF HwFill, HardwareTypes, Disarmed, Cleared
  <1>41. ASSUME HwTerminate PROVE Cleared'
    BY <1>41 DEF HwTerminate, Cleared
  <1>42. ASSUME HwGlitch PROVE Cleared'
    BY <1>42 DEF HwGlitch, Cleared
  <1>43. ASSUME LoseDevice PROVE Cleared'
    BY <1>43 DEF LoseDevice, Cleared
  <1>44. ASSUME StallTime PROVE Cleared'
    BY <1>44 DEF StallTime, Cleared
  <1>99. CASE UNCHANGED vars
    BY <1>99 DEF vars, Cleared
  <1> QED
    BY <1>1, <1>2, <1>3, <1>4, <1>5, <1>6, <1>7, <1>8, <1>9, <1>10, <1>11,
       <1>12, <1>13, <1>14, <1>15, <1>16, <1>17, <1>18, <1>19, <1>20, <1>21,
       <1>22, <1>23, <1>24, <1>25, <1>26, <1>27, <1>28, <1>29, <1>30, <1>31,
       <1>32, <1>33, <1>34, <1>35, <1>36, <1>37, <1>38, <1>39, <1>40, <1>41,
       <1>42, <1>43, <1>44, <1>99
    DEF Next, ApiCall, Holder, Watchdog, Work, IrqBody, Hardware

-----------------------------------------------------------------------------
(* The hardware fills in the order of the submissions *)

\* The armed channels are the latest submissions, and the channel to be filled
\* next is the oldest of them, or the next to be submitted.
FillsInTurn(ch) ==
    /\ \A c, d \in Channels :
         ch[c] = "armed" /\ Turn(c) < Turn(d) => ch[d] = "armed"
    /\ \A c \in Channels :
         ch[c] = "armed" => ch[hwNext] = "armed" /\ Turn(hwNext) <= Turn(c)
    /\ (\A c \in Channels : ch[c] # "armed") => Turn(hwNext) = 1

InTurn == ~lost /\ ctl # "finish" => FillsInTurn(hwChan)

\* A completion that no handler has read is the last one of the hardware.
StatusLatest ==
    ~lost /\ irqEnabled /\ hwComplete
    /\ (irqPc = "idle" \/ ~irqSeen.complete) =>
      \A c \in Channels : hwCode = c + 1 =>
        /\ active[c] # NoBuf /\ hwChan[c] = "filled"
        /\ \A d \in Channels : Turn(c) < Turn(d) => hwChan[d] = "armed"

\* The completion the handler has read is of a busy channel, and so are the
\* channels submitted after it.
SeenLatest ==
    irqPc = "handle" /\ irqSeen.complete =>
      \A c \in Channels : irqSeen.code = c + 1 =>
        /\ active[c] # NoBuf /\ (~lost => hwChan[c] = "filled")
        /\ \A d \in Channels : Turn(c) < Turn(d) => active[d] # NoBuf

\* A submission of k buffers moves the turns on by k: the k channels it takes
\* were free and come last, armed; the others stay as they are.
LEMMA SubmitTurns ==
    ASSUME NEW rdy \in Seq(Buffers), NEW act, NEW st, NEW ch,
           last \in -1 .. NChannels - 1,
           SubmitReady(rdy, act, st, ch)
    PROVE  \E k \in 0 .. NChannels :
             /\ k <= Len(rdy)
             /\ ready' = SubSeq(rdy, k + 1, Len(rdy))
             /\ \A c \in Channels : Turn(c) <= k =>
                  /\ act[c] = NoBuf
                  /\ active'[c] = rdy[Turn(c)] /\ active'[c] \in Buffers
                  /\ hwChan'[c] = "armed"
                  /\ Turn(c)' = Turn(c) + NChannels - k
             /\ \A c \in Channels : ~(Turn(c) <= k) =>
                  /\ active'[c] = act[c] /\ hwChan'[c] = ch[c]
                  /\ Turn(c)' = Turn(c) - k
  <1>1. PICK k \in 0 .. NChannels :
          /\ SubmitCount(k, rdy, act)
          /\ ready' = SubSeq(rdy, k + 1, Len(rdy))
          /\ active' = [c \in Channels |->
                          IF Turn(c) <= k THEN rdy[Turn(c)] ELSE act[c]]
          /\ hwChan' = [c \in Channels |->
                          IF Turn(c) <= k THEN "armed" ELSE ch[c]]
          /\ last' = IF k = 0 THEN last ELSE Slot(k)
    BY DEF SubmitReady
  <1>2. k <= Len(rdy) /\ \A c \in Channels : Turn(c) <= k => act[c] = NoBuf
    BY <1>1 DEF SubmitCount, NextFree
  <1>3. \A c \in Channels : /\ Turn(c) <= k => Turn(c)' = Turn(c) + NChannels - k
                            /\ ~(Turn(c) <= k) => Turn(c)' = Turn(c) - k
    BY <1>1, ChannelsAssumption DEF Turn, Slot, Channels
  <1>4. \A c \in Channels : Turn(c) <= k => rdy[Turn(c)] \in Buffers
    <2> TAKE c \in Channels
    <2> HAVE Turn(c) <= k
    <2>1. Turn(c) \in 1 .. Len(rdy)
      BY <1>2, TurnRange, LenProperties
    <2> QED BY <2>1, ElementOfSeq
  <1> HIDE DEF Turn
  <1>5. \A c \in Channels :
          /\ active'[c] = IF Turn(c) <= k THEN rdy[Turn(c)] ELSE act[c]
          /\ hwChan'[c] = IF Turn(c) <= k THEN "armed" ELSE ch[c]
    BY <1>1
  <1> WITNESS k \in 0 .. NChannels
  <1> QED BY <1>1, <1>2, <1>3, <1>4, <1>5

\* A submission keeps the order in which the hardware fills.
LEMMA SubmitInTurn ==
    ASSUME NEW rdy \in Seq(Buffers), NEW act, NEW st, NEW ch,
           last \in -1 .. NChannels - 1, last' \in -1 .. NChannels - 1,
           hwNext \in Channels, UNCHANGED hwNext,
           \A c \in Channels : ch[c] = "armed" => act[c] # NoBuf,
           FillsInTurn(ch),
           SubmitReady(rdy, act, st, ch)
    PROVE  FillsInTurn(hwChan)'
  <1>1. PICK k \in 0 .. NChannels :
          /\ \A c \in Channels : Turn(c) <= k =>
               /\ act[c] = NoBuf
               /\ hwChan'[c] = "armed"
               /\ Turn(c)' = Turn(c) + NChannels - k
          /\ \A c \in Channels : ~(Turn(c) <= k) =>
               /\ hwChan'[c] = ch[c]
               /\ Turn(c)' = Turn(c) - k
    BY SubmitTurns
  <1>2. \A c \in Channels : Turn(c) \in 1 .. NChannels
    BY TurnRange
  <1>3. \A c \in Channels : Turn(c) <= k => ch[c] # "armed"
    BY <1>1
  <1>4. NChannels \in Nat /\ k \in Int
    BY ChannelsAssumption
  <1>5. \A c, d \in Channels :
          hwChan'[c] = "armed" /\ Turn(c)' < Turn(d)' => hwChan'[d] = "armed"
    <2> TAKE c, d \in Channels
    <2> HAVE hwChan'[c] = "armed" /\ Turn(c)' < Turn(d)'
    <2>1. CASE ~(Turn(d) <= k)
      <3>1. ~(Turn(c) <= k) /\ Turn(c) < Turn(d)
        BY <1>1, <1>2, <1>4, <2>1
      <3> QED BY <1>1, <2>1, <3>1 DEF FillsInTurn
    <2> QED BY <1>1, <2>1
  <1>6. ASSUME NEW c \in Channels, hwChan'[c] = "armed"
        PROVE  hwChan'[hwNext] = "armed" /\ Turn(hwNext)' <= Turn(c)'
    <2>1. CASE \E e \in Channels : ch[e] = "armed"
      <3>1. ch[hwNext] = "armed" /\ ~(Turn(hwNext) <= k)
        BY <1>3, <2>1 DEF FillsInTurn
      <3>2. ~(Turn(c) <= k) => Turn(hwNext) <= Turn(c)
        BY <1>1, <1>6 DEF FillsInTurn
      <3>3. Turn(hwNext)' = Turn(hwNext) - k /\ hwChan'[hwNext] = "armed"
        BY <1>1, <3>1
      <3> QED BY <1>1, <1>2, <1>4, <3>1, <3>2, <3>3
    <2>2. CASE \A e \in Channels : ch[e] # "armed"
      <3>1. Turn(hwNext) = 1
        BY <2>2 DEF FillsInTurn
      <3>2. Turn(c) <= k
        BY <1>1, <1>6, <2>2
      <3>3. Turn(hwNext) <= k
        BY <1>2, <1>4, <3>1, <3>2
      <3> QED BY <1>1, <1>2, <1>4, <3>1, <3>2, <3>3
    <2> QED BY <2>1, <2>2
  <1>7. ASSUME \A c \in Channels : hwChan'[c] # "armed"
        PROVE  Turn(hwNext)' = 1
    <2>1. \A c \in Channels : ~(Turn(c) <= k)
      BY <1>1, <1>7
    <2>2. \A c \in Channels : ch[c] # "armed"
      BY <1>1, <1>7, <2>1
    <2>3. Turn(hwNext) = 1
      BY <2>2 DEF FillsInTurn
    <2>4. k = 0
      BY <1>4, <2>1, <2>3
    <2> QED BY <1>1, <1>4, <2>1, <2>3, <2>4
  <1>8. hwNext' = hwNext
    OBVIOUS
  <1> QED BY <1>5, <1>6, <1>7, <1>8 DEF FillsInTurn

\* The completion work submits in a running stream, or leaves the channels.
LEMMA WorkSubmits ==
    ASSUME TypeOK, Holding, WorkExit \/ WorkSettle
    PROVE  /\ UNCHANGED <<ctl, hwNext, hwComplete, hwCode, irqEnabled, irqPc,
                          irqSeen, runVars>>
           /\ lost => lost'
           /\ \/ UNCHANGED <<hwChan, active, last>>
              \/ Live /\ ~lost /\ \E rdy \in Seq(Buffers) : \E st :
                               SubmitReady(rdy, active, st, hwChan)
  <1>1. CASE WorkExit
    <2>1. \/ Live /\ ~lost /\ SubmitReady(ready, active, state, hwChan)
          \/ UNCHANGED <<hwChan, active, last>>
      BY <1>1 DEF WorkExit, NoSubmit
    <2>2. /\ UNCHANGED <<ctl, hwNext, hwComplete, hwCode, irqEnabled, irqPc,
                         irqSeen, runVars>>
          /\ lost => lost'
      BY <1>1 DEF WorkExit, NoSubmit, SubmitReady, SubmitCount, ctlVars,
                  irqVars, statusVars
    <2>3. ready \in Seq(Buffers)
      BY DEF TypeOK, BufferTypes
    <2> QED BY <2>1, <2>2, <2>3
  <1>2. CASE WorkSettle
    <2> DEFINE rdy == Append(ready, workBuf)
               st == [state EXCEPT ![workBuf] = "ready"]
    <2>1. \/ Live /\ ~lost /\ SubmitReady(rdy, active, st, hwChan)
          \/ UNCHANGED <<hwChan, active, last>>
      BY <1>2 DEF WorkSettle, Recyclable, NoSubmit
    <2>2. /\ UNCHANGED <<ctl, hwNext, hwComplete, hwCode, irqEnabled, irqPc,
                         irqSeen, runVars>>
          /\ lost => lost'
      BY <1>2 DEF WorkSettle, NoSubmit, SubmitReady, SubmitCount, ctlVars,
                  irqVars, statusVars, flagVars
    <2>3. workBuf \in Buffers
      BY <1>2 DEF WorkSettle, Holding, TypeOK, ThreadTypes
    <2>4. rdy \in Seq(Buffers)
      BY <2>3, AppendProperties DEF TypeOK, BufferTypes
    <2> HIDE DEF rdy, st
    <2> QED BY <2>1, <2>2, <2>4
  <1> QED BY <1>1, <1>2

\* Any other step leaves channels, status and handler as they are, does not
\* revive the device, unmasks nothing, and leaves no stop unfinished.
LEMMA OrderFrame ==
    ASSUME Faithful, TypeOK, [Next]_vars
    PROVE  \/ VideoReset \/ StartSetup \/ StartPublish \/ ClearHardware
           \/ StopFinish \/ WorkExit \/ WorkSettle
           \/ IrqRead \/ IrqStray \/ IrqNotify \/ IrqAck \/ HwFill
           \/ \E c \in Channels : IrqComplete(c)
           \/ /\ UNCHANGED <<hwChan, active, last, hwNext, hwComplete, hwCode,
                             irqPc, irqSeen>>
              /\ lost => lost'
              /\ ctl = "finish" => ctl' = "finish"
              /\ irqEnabled' => irqEnabled
  <1> DEFINE Frame == /\ UNCHANGED <<hwChan, active, last, hwNext, hwComplete,
                                      hwCode, irqPc, irqSeen>>
                      /\ lost => lost'
                      /\ ctl = "finish" => ctl' = "finish"
                      /\ irqEnabled' => irqEnabled
  <1>0. FlagTypes /\ HardwareTypes
    BY DEF TypeOK
  <1> USE <1>0
      DEF streamVars, otherVars, bufVars, listVars, runVars, faultVars,
          flagVars, devVars, ctlVars, workVars, wdVars, irqVars, statusVars,
          hwVars
  <1>1. ASSUME NEW b \in Buffers, PrepareBegin(b) PROVE Frame
    BY <1>1 DEF PrepareBegin, ApiIdle
  <1>2. ASSUME NEW b \in Buffers, Queue(b) PROVE Frame
    BY <1>2 DEF Queue, ApiIdle
  <1>3. ASSUME NEW b \in Buffers, CleanupBuffer(b) PROVE Frame
    BY <1>3 DEF CleanupBuffer, ApiIdle
  <1>5. ASSUME FpgaConfigure PROVE Frame
    BY <1>5 DEF FpgaConfigure, ApiIdle
  <1>6. ASSUME StartBegin PROVE Frame
    BY <1>6 DEF StartBegin, ApiIdle
  <1>7. ASSUME StopBegin PROVE Frame
    BY <1>7 DEF StopBegin, ApiIdle
  <1>8. ASSUME QueueKick PROVE Frame
    BY <1>8 DEF QueueKick
  <1>9. ASSUME PrepareEnd PROVE Frame
    BY <1>9 DEF PrepareEnd
  <1>12. ASSUME StartEnable PROVE Frame
    BY <1>12 DEF StartEnable
  <1>13. ASSUME StartRollback PROVE Frame
    BY <1>13 DEF StartRollback
  <1>14. ASSUME CancelWatchdog PROVE Frame
    BY <1>14 DEF CancelWatchdog
  <1>15. ASSUME FlushWatchdog PROVE Frame
    BY <1>15 DEF FlushWatchdog
  <1>16. ASSUME Quiesce PROVE Frame
    BY <1>16 DEF Quiesce
  <1>17. ASSUME Terminated PROVE Frame
    BY <1>17 DEF Terminated
  <1>18. ASSUME StopTimeout PROVE Frame
    BY <1>18 DEF StopTimeout
  <1>19. ASSUME MaskInterrupts PROVE Frame
    BY <1>19 DEF MaskInterrupts
  <1>20. ASSUME SynchronizeIrq PROVE Frame
    BY <1>20 DEF SynchronizeIrq
  <1>21. ASSUME FlushWork PROVE Frame
    BY <1>21 DEF FlushWork
  <1>24. ASSUME ReportError PROVE Frame
    BY <1>24 DEF ReportError
  <1>25. ASSUME WatchdogStop PROVE Frame
    BY <1>25 DEF WatchdogStop
  <1>26. ASSUME WatchdogStart PROVE Frame
    BY <1>26 DEF WatchdogStart
  <1>27. ASSUME WatchdogBusy PROVE Frame
    BY <1>27 DEF WatchdogBusy
  <1>28. ASSUME WatchdogCheck PROVE Frame
    BY <1>28 DEF WatchdogCheck
  <1>29. ASSUME WatchdogRecover PROVE Frame
    BY <1>29 DEF WatchdogRecover
  <1>30. ASSUME WorkStart PROVE Frame
    BY <1>30 DEF WorkStart
  <1>32. ASSUME WorkTake PROVE Frame
    BY <1>32 DEF WorkTake
  <1>34. ASSUME NEW a \in {"recycle", "release"}, WorkCallback(a) PROVE Frame
    BY <1>34 DEF WorkCallback
  <1>41. ASSUME HwTerminate PROVE Frame
    BY <1>41 DEF HwTerminate
  <1>42. ASSUME HwGlitch PROVE Frame
    BY <1>42 DEF HwGlitch, Faithful, HardwareTypes
  <1>43. ASSUME LoseDevice PROVE Frame
    BY <1>43 DEF LoseDevice
  <1>44. ASSUME StallTime PROVE Frame
    BY <1>44 DEF StallTime
  <1>99. CASE UNCHANGED vars
    BY <1>99 DEF vars
  <1> QED
    BY <1>1, <1>2, <1>3, <1>5, <1>6, <1>7, <1>8, <1>9, <1>12, <1>13,
       <1>14, <1>15, <1>16, <1>17, <1>18, <1>19, <1>20, <1>21, <1>24,
       <1>25, <1>26, <1>27, <1>28, <1>29, <1>30, <1>32, <1>34, <1>41,
       <1>42, <1>43, <1>44, <1>99
    DEF Next, ApiCall, Holder, Watchdog, Work, IrqBody, Hardware, Frame

\* The fill position wraps around at the number of channels.
LEMMA Remainders ==
    NChannels % NChannels = 0 /\ \A x \in 0 .. NChannels - 1 : x % NChannels = x
  BY ChannelsAssumption

\* Every step keeps the order in which the hardware fills: clear_hardware, the
\* engine reset and last_channel return to channel 0 together.
LEMMA InTurnStep ==
    ASSUME Faithful, BufferInv, PhaseFlags, PhaseLists, Disarmed,
           DmaTargetsActive, BetweenInv, SeenLatest, InTurn,
           BufferInv', [Next]_vars
    PROVE  InTurn'
  <1>0. /\ TypeOK /\ Holding
        /\ ready \in Seq(Buffers)
        /\ last \in -1 .. NChannels - 1 /\ last' \in -1 .. NChannels - 1
        /\ active \in [Channels -> Buffers \cup {NoBuf}]
        /\ hwChan \in [Channels -> {"idle", "armed", "filled"}]
        /\ hwNext \in Channels /\ irqSeen \in Seen
        /\ Resting /\ PublishClean /\ Cleared
    BY DEF BufferInv, TypeOK, BufferTypes, HardwareTypes, ThreadTypes,
           BetweenInv
  <1>1. ~streaming /\ ~stopping /\ ~lost => \A c \in Channels : hwChan[c] # "armed"
    BY DEF PhaseLists, HasActive, DmaTargetsActive
  <1>2. last = -1 => Turn(0) = 1
    BY ChannelsAssumption DEF Turn, Channels
  <1>3. ASSUME VideoReset PROVE InTurn'
    <2>1. /\ ~streaming /\ ~stopping /\ hwNext' = 0
          /\ UNCHANGED <<hwChan, last, lost>>
      BY <1>3 DEF VideoReset, streamVars, listVars, devVars
    <2>2. ~lost => FillsInTurn(hwChan)'
      BY <1>0, <1>1, <1>2, <2>1 DEF FillsInTurn, Turn, Resting
    <2> QED BY <2>1, <2>2 DEF InTurn
  <1>4. ASSUME StartSetup PROVE InTurn'
    <2>1. /\ ctl = "setup" /\ UNCHANGED <<hwNext, last>>
          /\ lost' \/ (~lost /\ hwChan' = [c \in Channels |-> "idle"])
      BY <1>4 DEF StartSetup, listVars
    <2>2. ~lost => Turn(hwNext) = 1
      BY <1>1, <2>1 DEF InTurn, FillsInTurn, PhaseFlags, Closing
    <2>3. ~lost' => FillsInTurn(hwChan)'
      BY <2>1, <2>2 DEF FillsInTurn, Turn
    <2> QED BY <2>3 DEF InTurn
  <1>5. ASSUME StartPublish PROVE InTurn'
    <2>1. /\ ctl = "publish" /\ UNCHANGED hwNext
          /\ \/ lost'
             \/ ~lost /\ SubmitReady(ready, active, state, hwChan)
      BY <1>5 DEF StartPublish, SubmitReady, SubmitCount
    <2>2. CASE ~lost /\ SubmitReady(ready, active, state, hwChan)
      <3>1. FillsInTurn(hwChan)
        BY <2>1, <2>2 DEF InTurn
      <3> QED BY <1>0, <2>1, <2>2, <3>1, SubmitInTurn
              DEF InTurn, DmaTargetsActive
    <2> QED BY <2>1, <2>2 DEF InTurn
  <1>6. ASSUME ClearHardware PROVE InTurn'
    BY <1>6 DEF ClearHardware, InTurn
  <1>7. ASSUME StopFinish PROVE InTurn'
    <2>1. /\ ctl = "finish" /\ last' = -1
          /\ UNCHANGED <<hwNext, hwChan, lost>>
      BY <1>7 DEF StopFinish, hwVars, devVars
    <2>2. ~lost => FillsInTurn(hwChan)'
      BY <1>0, <2>1, ChannelsAssumption
      DEF FillsInTurn, Turn, Cleared, Disarmed, Channels
    <2> QED BY <2>1, <2>2 DEF InTurn
  <1>8. ASSUME WorkExit \/ WorkSettle PROVE InTurn'
    <2>1. /\ UNCHANGED <<ctl, hwNext>>
          /\ lost => lost'
          /\ \/ UNCHANGED <<hwChan, active, last>>
             \/ \E rdy \in Seq(Buffers) : \E st :
                  ~lost /\ SubmitReady(rdy, active, st, hwChan)
      BY <1>0, <1>8, WorkSubmits
    <2>2. CASE UNCHANGED <<hwChan, last>>
      BY <2>1, <2>2 DEF InTurn, FillsInTurn, Turn
    <2>3. ASSUME NEW rdy \in Seq(Buffers), NEW st, ~lost, ctl # "finish",
                 SubmitReady(rdy, active, st, hwChan)
          PROVE  FillsInTurn(hwChan)'
      BY <1>0, <2>1, <2>3, SubmitInTurn DEF InTurn, DmaTargetsActive
    <2> QED BY <2>1, <2>2, <2>3 DEF InTurn
  <1>9. ASSUME NEW c \in Channels, IrqComplete(c) PROVE InTurn'
    <2> DEFINE act == [active EXCEPT ![c] = NoBuf]
               st == [state EXCEPT ![active[c]] = "done"]
               ch == IF lost THEN hwChan ELSE [hwChan EXCEPT ![c] = "idle"]
    <2>1. /\ UNCHANGED <<ctl, hwNext>> /\ (lost => lost')
          /\ irqPc = "handle" /\ Completing(c)
          /\ \/ SubmitReady(ready, act, st, ch)
             \/ hwChan' = ch /\ UNCHANGED last
      BY <1>9 DEF IrqComplete, NoSubmit, SubmitReady, SubmitCount, ctlVars
    <2>2. ~lost => hwChan[c] = "filled"
      BY <2>1 DEF SeenLatest, Completing
    <2>3. ~lost => \A d \in Channels : /\ (ch[d] = "armed") <=> (hwChan[d] = "armed")
                                       /\ ch[d] = "armed" => act[d] # NoBuf
      BY <1>0, <2>2 DEF DmaTargetsActive
    <2> HIDE DEF act, st, ch
    <2>4. ~lost /\ ctl # "finish" => FillsInTurn(ch)
      BY <1>0, <2>3 DEF InTurn, FillsInTurn
    <2>5. ASSUME ~lost', ctl # "finish" PROVE FillsInTurn(hwChan)'
      <3>1. CASE SubmitReady(ready, act, st, ch)
        BY <1>0, <2>1, <2>3, <2>4, <2>5, <3>1, SubmitInTurn
      <3>2. CASE hwChan' = ch /\ UNCHANGED last
        BY <2>1, <2>4, <2>5, <3>2 DEF FillsInTurn, Turn
      <3> QED BY <2>1, <3>1, <3>2
    <2> QED BY <2>1, <2>5 DEF InTurn
  <1>10. ASSUME HwFill PROVE InTurn'
    <2>1. /\ ~lost /\ hwChan[hwNext] = "armed"
          /\ UNCHANGED <<last, lost, ctl>>
          /\ hwChan' = [hwChan EXCEPT ![hwNext] = "filled"]
          /\ hwNext' = (hwNext + 1) % NChannels
      BY <1>10 DEF HwFill, streamVars, listVars, devVars, ctlVars
    <2>2. ctl # "finish" /\ FillsInTurn(hwChan)
      BY <1>0, <2>1 DEF Disarmed, InTurn
    <2>3. hwNext' = IF hwNext + 1 = NChannels THEN 0 ELSE hwNext + 1
      <3>1. hwNext + 1 \in 0 .. NChannels - 1 \/ hwNext + 1 = NChannels
        BY <1>0, ChannelsAssumption DEF Channels
      <3> QED BY <2>1, <3>1, Remainders
    <2>4. /\ \A d \in Channels : Turn(d) \in 1 .. NChannels
          /\ \A d, e \in Channels : Turn(d) = Turn(e) => d = e
          /\ hwNext' \in Channels
          /\ Turn(hwNext) = NChannels => Turn(hwNext') = 1
          /\ Turn(hwNext) # NChannels => Turn(hwNext') = Turn(hwNext) + 1
      BY <1>0, <2>3, ChannelsAssumption DEF Turn, Channels
    <2>5. \A d \in Channels :
            /\ Turn(d)' = Turn(d)
            /\ hwChan'[d] = "armed" <=> hwChan[d] = "armed" /\ d # hwNext
      BY <1>0, <2>1 DEF Turn
    <2> HIDE DEF Turn
    <2>6. \A d \in Channels : hwChan[d] = "armed" /\ d # hwNext
                                => Turn(hwNext) < Turn(d)
      BY <1>0, <2>2, <2>4 DEF FillsInTurn
    <2>7. \A d \in Channels :
            Turn(hwNext) < Turn(d) => hwChan[d] = "armed" /\ d # hwNext
      BY <1>0, <2>1, <2>2, <2>4 DEF FillsInTurn
    <2>8. Turn(hwNext)' = Turn(hwNext')
      BY <2>1 DEF Turn
    <2>9. \A d, e \in Channels :
            hwChan'[d] = "armed" /\ Turn(d)' < Turn(e)' => hwChan'[e] = "armed"
      BY <1>0, <2>4, <2>5, <2>6, <2>7
    <2>10. \A d \in Channels : hwChan'[d] = "armed" =>
             hwChan'[hwNext'] = "armed" /\ Turn(hwNext') <= Turn(d)'
      BY <1>0, <2>4, <2>5, <2>6, <2>7, ChannelsAssumption
    <2>11. (\A d \in Channels : hwChan'[d] # "armed") => Turn(hwNext') = 1
      BY <1>0, <2>4, <2>5, <2>7, ChannelsAssumption
    <2> QED BY <2>1, <2>8, <2>9, <2>10, <2>11 DEF InTurn, FillsInTurn
  <1>11. CASE IrqRead \/ IrqStray \/ IrqNotify \/ IrqAck
    <2>1. UNCHANGED <<hwChan, last, hwNext, ctl>> /\ (lost => lost')
      BY <1>11 DEF IrqRead, IrqStray, IrqNotify, IrqAck, hwVars, listVars,
                   streamVars, ctlVars, devVars
    <2> QED BY <2>1 DEF InTurn, FillsInTurn, Turn
  <1>12. CASE /\ UNCHANGED <<hwChan, last, hwNext>>
              /\ lost => lost'
              /\ ctl = "finish" => ctl' = "finish"
    BY <1>12 DEF InTurn, FillsInTurn, Turn
  <1> QED
    BY <1>0, <1>3, <1>4, <1>5, <1>6, <1>7, <1>8, <1>9, <1>10, <1>11, <1>12,
       OrderFrame

\* A submission keeps a filled channel, and what was submitted after it.
LEMMA SubmitLater ==
    ASSUME NEW rdy \in Seq(Buffers), NEW act, NEW st, NEW ch,
           last \in -1 .. NChannels - 1, NEW c \in Channels,
           act[c] # NoBuf,
           SubmitReady(rdy, act, st, ch)
    PROVE  /\ active'[c] # NoBuf /\ hwChan'[c] = ch[c]
           /\ \A d \in Channels : Turn(c)' < Turn(d)' =>
                \/ hwChan'[d] = "armed" /\ active'[d] # NoBuf
                \/ /\ Turn(c) < Turn(d)
                   /\ hwChan'[d] = ch[d] /\ active'[d] = act[d]
  <1>1. PICK k \in 0 .. NChannels :
          /\ \A d \in Channels : Turn(d) <= k =>
               /\ act[d] = NoBuf /\ active'[d] \in Buffers
               /\ hwChan'[d] = "armed"
          /\ \A d \in Channels : ~(Turn(d) <= k) =>
               /\ active'[d] = act[d] /\ hwChan'[d] = ch[d]
               /\ Turn(d)' = Turn(d) - k
    BY SubmitTurns
  <1>2. \A d \in Channels : Turn(d) \in 1 .. NChannels
    BY TurnRange
  <1>3. ~(Turn(c) <= k)
    BY <1>1
  <1>4. ASSUME NEW d \in Channels, Turn(c)' < Turn(d)', ~(Turn(d) <= k)
        PROVE  Turn(c) < Turn(d)
    BY <1>1, <1>2, <1>3, <1>4, ChannelsAssumption
  <1> QED BY <1>1, <1>3, <1>4, NoBufAssumption

\* Every step keeps an unread completion the last one.
LEMMA StatusLatestStep ==
    ASSUME Faithful, BufferInv, PhaseFlags, PhaseLists, Disarmed,
           DmaTargetsActive, BetweenInv, InTurn, StatusLatest, [Next]_vars
    PROVE  StatusLatest'
  <1>0. /\ TypeOK /\ Holding /\ FlagTypes
        /\ ready \in Seq(Buffers)
        /\ last \in -1 .. NChannels - 1
        /\ active \in [Channels -> Buffers \cup {NoBuf}]
        /\ hwChan \in [Channels -> {"idle", "armed", "filled"}]
        /\ hwNext \in Channels /\ irqSeen \in Seen
        /\ hwComplete \in BOOLEAN
        /\ Masked /\ PublishClean
    BY DEF BufferInv, TypeOK, BufferTypes, HardwareTypes, ThreadTypes,
           BetweenInv
  <1>3. ASSUME VideoReset PROVE StatusLatest'
    <2>1. UNCHANGED <<hwChan, active, last, lost, hwComplete, hwCode,
                      irqEnabled, irqPc, irqSeen>>
      BY <1>3 DEF VideoReset, streamVars, listVars, devVars, statusVars,
                  otherVars, irqVars
    <2> QED BY <2>1 DEF StatusLatest, Turn
  <1>4. ASSUME StartSetup PROVE StatusLatest'
    <2>1. lost' \/ ~hwComplete'
      BY <1>4 DEF StartSetup
    <2> QED BY <2>1 DEF StatusLatest
  <1>5. ASSUME StartPublish PROVE StatusLatest'
    <2>1. ctl = "publish" /\ UNCHANGED hwComplete
      BY <1>5 DEF StartPublish, statusVars
    <2> QED BY <1>0, <2>1 DEF StatusLatest, PublishClean
  <1>6. ASSUME ClearHardware \/ StopFinish PROVE StatusLatest'
    <2>1. /\ ctl \in {"clear", "finish"} /\ UNCHANGED <<lost, irqEnabled>>
      BY <1>6 DEF ClearHardware, StopFinish, streamVars, devVars, statusVars,
                  hwVars
    <2> QED BY <1>0, <2>1 DEF StatusLatest, Masked
  <1>8. ASSUME WorkExit \/ WorkSettle PROVE StatusLatest'
    <2>1. /\ UNCHANGED <<hwComplete, hwCode, irqEnabled, irqPc, irqSeen>>
          /\ lost => lost'
          /\ \/ UNCHANGED <<hwChan, active, last>>
             \/ \E rdy \in Seq(Buffers) : \E st :
                  SubmitReady(rdy, active, st, hwChan)
      BY <1>0, <1>8, WorkSubmits
    <2>2. CASE UNCHANGED <<hwChan, active, last>>
      BY <2>1, <2>2 DEF StatusLatest, Turn
    <2>3. ASSUME NEW rdy \in Seq(Buffers), NEW st,
                 SubmitReady(rdy, active, st, hwChan)
          PROVE  StatusLatest'
      BY <1>0, <2>1, <2>3, SubmitLater DEF StatusLatest
    <2> QED BY <2>1, <2>2, <2>3
  <1>9. ASSUME NEW c \in Channels, IrqComplete(c) PROVE StatusLatest'
    <2>1. irqPc' = "notify" /\ irqSeen' = irqSeen /\ irqSeen.complete
      BY <1>9 DEF IrqComplete, Completing
    <2> QED BY <2>1 DEF StatusLatest
  <1>10. ASSUME HwFill PROVE StatusLatest'
    <2>1. /\ ~lost /\ hwChan[hwNext] = "armed" /\ hwCode' = hwNext + 1
          /\ UNCHANGED <<last, active>>
          /\ hwChan' = [hwChan EXCEPT ![hwNext] = "filled"]
      BY <1>10 DEF HwFill, streamVars, listVars
    <2>2. FillsInTurn(hwChan) /\ active[hwNext] # NoBuf
      BY <1>0, <2>1 DEF Disarmed, InTurn, DmaTargetsActive
    <2>3. \A d \in Channels :
            Turn(hwNext) < Turn(d) => hwChan[d] = "armed" /\ d # hwNext
      <3>1. \A d \in Channels : Turn(d) \in Int
        BY <1>0, TurnRange
      <3> QED BY <1>0, <2>1, <2>2, <3>1 DEF FillsInTurn
    <2>4. \A d \in Channels : Turn(d)' = Turn(d)
      BY <2>1 DEF Turn
    <2>5. \A c \in Channels : hwCode' = c + 1 => c = hwNext
      BY <1>0, <2>1, ChannelsAssumption DEF Channels
    <2>6. /\ active'[hwNext] # NoBuf /\ hwChan'[hwNext] = "filled"
          /\ \A d \in Channels : Turn(hwNext) < Turn(d) => hwChan'[d] = "armed"
      BY <1>0, <2>1, <2>2, <2>3
    <2> QED BY <1>0, <2>4, <2>5, <2>6 DEF StatusLatest
  <1>11. ASSUME IrqRead \/ IrqStray \/ IrqNotify PROVE StatusLatest'
    <2>1. /\ UNCHANGED <<hwChan, active, last, irqEnabled, hwCode, hwComplete>>
          /\ lost => lost'
          /\ irqPc' # "idle"
          /\ \/ irqSeen'.complete = hwComplete
             \/ irqSeen'.complete
             \/ irqPc # "idle" /\ irqSeen' = irqSeen
      BY <1>11 DEF IrqRead, IrqStray, IrqNotify, hwVars, statusVars, listVars,
                   streamVars, devVars
    <2> QED BY <1>0, <2>1 DEF StatusLatest, Turn
  <1>12. ASSUME IrqAck PROVE StatusLatest'
    <2>1. /\ UNCHANGED <<hwChan, active, last, lost, irqEnabled>>
          /\ hwComplete' => hwComplete /\ hwCode' = hwCode
                            /\ (lost \/ ~irqSeen.complete)
      BY <1>12 DEF IrqAck, streamVars, listVars, devVars
    <2> QED BY <2>1 DEF StatusLatest, Turn
  <1>13. CASE /\ UNCHANGED <<hwChan, active, last, hwComplete, hwCode, irqPc,
                             irqSeen>>
              /\ lost => lost'
              /\ irqEnabled' => irqEnabled
    BY <1>13 DEF StatusLatest, Turn
  <1> QED
    BY <1>0, <1>3, <1>4, <1>5, <1>6, <1>8, <1>9, <1>10, <1>11, <1>12, <1>13,
       OrderFrame

\* Every step keeps the completion in the handler's hands that of a busy
\* channel.
LEMMA SeenLatestStep ==
    ASSUME Faithful, BufferInv, PhaseFlags, DmaTargetsActive, BetweenInv,
           StatusLatest, SeenLatest, [Next]_vars
    PROVE  SeenLatest'
  <1>0. /\ TypeOK /\ Holding
        /\ last \in -1 .. NChannels - 1
        /\ active \in [Channels -> Buffers \cup {NoBuf}]
        /\ hwChan \in [Channels -> {"idle", "armed", "filled"}]
        /\ hwNext \in Channels /\ hwComplete \in BOOLEAN
        /\ Masked /\ PublishClean
    BY DEF BufferInv, TypeOK, BufferTypes, HardwareTypes, BetweenInv
  <1>3. ASSUME VideoReset PROVE SeenLatest'
    <2>1. UNCHANGED <<hwChan, active, last, lost, irqPc, irqSeen>>
      BY <1>3 DEF VideoReset, streamVars, listVars, devVars, otherVars, irqVars
    <2> QED BY <2>1 DEF SeenLatest, Turn
  <1>4. ASSUME StartSetup \/ ClearHardware \/ StopFinish PROVE SeenLatest'
    <2>1. ctl \in {"setup", "clear", "finish"} /\ UNCHANGED irqPc
      BY <1>4 DEF StartSetup, ClearHardware, StopFinish, otherVars, irqVars
    <2>2. irqPc = "idle"
      BY <1>0, <2>1 DEF Masked, PhaseFlags, Closing
    <2> QED BY <2>1, <2>2 DEF SeenLatest
  <1>5. ASSUME StartPublish PROVE SeenLatest'
    <2>1. ctl = "publish" /\ UNCHANGED <<irqPc, irqSeen>>
      BY <1>5 DEF StartPublish, otherVars, irqVars
    <2> QED BY <1>0, <2>1 DEF SeenLatest, PublishClean
  <1>8. ASSUME WorkExit \/ WorkSettle PROVE SeenLatest'
    <2>1. /\ UNCHANGED <<irqPc, irqSeen>>
          /\ lost => lost'
          /\ \/ UNCHANGED <<hwChan, active, last>>
             \/ \E rdy \in Seq(Buffers) : \E st :
                  SubmitReady(rdy, active, st, hwChan)
      BY <1>0, <1>8, WorkSubmits
    <2>2. CASE UNCHANGED <<hwChan, active, last>>
      BY <2>1, <2>2 DEF SeenLatest, Turn
    <2>3. ASSUME NEW rdy \in Seq(Buffers), NEW st,
                 SubmitReady(rdy, active, st, hwChan)
          PROVE  SeenLatest'
      BY <1>0, <2>1, <2>3, SubmitLater DEF SeenLatest
    <2> QED BY <2>1, <2>2, <2>3
  <1>9. ASSUME NEW c \in Channels, IrqComplete(c) PROVE SeenLatest'
    BY <1>9 DEF IrqComplete, SeenLatest
  <1>10. ASSUME HwFill PROVE SeenLatest'
    <2>1. /\ ~lost /\ hwChan[hwNext] = "armed"
          /\ UNCHANGED <<last, active, lost, irqPc, irqSeen>>
          /\ hwChan' = [hwChan EXCEPT ![hwNext] = "filled"]
      BY <1>10 DEF HwFill, streamVars, listVars, devVars, otherVars, irqVars
    <2> QED BY <1>0, <2>1 DEF SeenLatest, Turn
  <1>11. ASSUME IrqRead PROVE SeenLatest'
    <2>1. /\ irqPc = "idle" /\ ~lost /\ irqEnabled
          /\ UNCHANGED <<hwChan, active, last>>
          /\ \/ hwComplete /\ irqSeen'.code = hwCode
             \/ irqSeen'.code = 0
             \/ ~irqSeen'.complete
      BY <1>0, <1>11 DEF IrqRead, Faithful, hwVars, listVars
    <2>2. \A c \in Channels : c + 1 # 0
      BY ChannelsAssumption DEF Channels
    <2>3. \A c \in Channels : hwComplete /\ hwCode = c + 1 =>
            /\ active[c] # NoBuf /\ hwChan[c] = "filled"
            /\ \A d \in Channels : Turn(c) < Turn(d) => active[d] # NoBuf
      BY <2>1 DEF StatusLatest, DmaTargetsActive
    <2>4. \A c \in Channels : Turn(c)' = Turn(c)
      BY <2>1 DEF Turn
    <2> QED BY <2>1, <2>2, <2>3, <2>4 DEF SeenLatest
  <1>12. ASSUME IrqStray \/ IrqNotify \/ IrqAck PROVE SeenLatest'
    BY <1>12 DEF IrqStray, IrqNotify, IrqAck, SeenLatest
  <1>13. CASE /\ UNCHANGED <<hwChan, active, last, irqPc, irqSeen>>
              /\ lost => lost'
    BY <1>13 DEF SeenLatest, Turn
  <1> QED
    BY <1>0, <1>3, <1>4, <1>5, <1>8, <1>9, <1>10, <1>11, <1>12, <1>13,
       OrderFrame

\* The inductive invariant of the order between driver and hardware.
OrderInv == BetweenInv /\ InTurn /\ StatusLatest /\ SeenLatest

\* It holds in every reachable state of a faithful card.
THEOREM OrderInvariant ==
    ASSUME Faithful
    PROVE  Spec => []OrderInv
  <1>1. Init => OrderInv
    <2> SUFFICES ASSUME Init PROVE OrderInv
      OBVIOUS
    <2>1. BetweenInv /\ StatusLatest /\ SeenLatest
      BY DEF Init, BetweenInv, Resting, Masked, PublishClean, Cleared,
             StatusLatest, SeenLatest
    <2>2. InTurn
      BY ChannelsAssumption DEF Init, InTurn, FillsInTurn, Turn
    <2> QED BY <2>1, <2>2 DEF OrderInv
  <1>2. /\ WakeupInv /\ WakeupInv' /\ QuietInv /\ OrderInv /\ [Next]_vars
        => OrderInv'
    <2> SUFFICES ASSUME WakeupInv, WakeupInv', QuietInv, OrderInv, [Next]_vars
                 PROVE  OrderInv'
      OBVIOUS
    <2>1. /\ BufferInv /\ BufferInv' /\ TypeOK /\ PhaseFlags /\ PhaseLists
          /\ EngineOwned /\ Disarmed /\ DmaTargetsActive
          /\ BetweenInv /\ InTurn /\ StatusLatest /\ SeenLatest
      BY DEF WakeupInv, BufferInv, QuietInv, OrderInv
    <2>2. BetweenInv'
      BY <2>1, RestingStep, MaskedStep, PublishCleanStep, ClearedStep
      DEF BetweenInv
    <2>3. InTurn' /\ StatusLatest' /\ SeenLatest'
      BY <2>1, InTurnStep, StatusLatestStep, SeenLatestStep
    <2> QED BY <2>2, <2>3 DEF OrderInv
  <1> QED BY <1>1, <1>2, WakeupInvariant, QuietInvariant, PTL DEF Spec

-----------------------------------------------------------------------------
(* The ring of the channels, oldest submission first *)

RingOf(act) == [i \in 1 .. NChannels |-> act[Slot(i)]]

\* g is the place of the last gap of the ring r, 0 if it has none.
Gap(r, g) ==
    /\ g = 0 \/ r[g] = NoBuf
    /\ \A i \in g + 1 .. NChannels : r[i] # NoBuf

GapOf(r) == CHOOSE g \in 0 .. NChannels : Gap(r, g)

\* What waits on the ring and on a ready list, and what the ring has missed.
Line(r, rdy) == SubSeq(r, GapOf(r) + 1, NChannels) \o rdy
Passed(r) == {r[i] : i \in 1 .. GapOf(r)} \ {NoBuf}

Rings == [1 .. NChannels -> Buffers \cup {NoBuf}]

\* A set of places has a last one: the order of the naturals is well founded.
LEMMA Largest ==
    ASSUME NEW T \in SUBSET (0 .. NChannels), T # {}
    PROVE  \E x \in T : \A y \in T : y <= x
  <1> DEFINE U == {NChannels - t : t \in T}
             R == {p \in Nat \X Nat : p[1] < p[2]}
  <1>0. NChannels \in Nat /\ \A t \in T : t \in 0 .. NChannels
    BY ChannelsAssumption
  <1>1. U \subseteq Nat /\ U # {}
    <2>1. \A u \in U : u \in Nat
      BY <1>0
    <2> QED BY <2>1
  <1>2. PICK x \in U : \A y \in U : ~(<<y, x>> \in R)
    <2> HIDE DEF U, R
    <2>1. IsWellFoundedOn(R, Nat)
      BY NatLessThanWellFounded DEF R, OpToRel
    <2> QED BY <1>1, <2>1, WFMin
  <1>3. \A y \in U : ~(y < x)
    BY <1>1, <1>2
  <1>4. PICK t \in T : x = NChannels - t
    BY <1>2
  <1>5. \A y \in T : y <= t
    BY <1>0, <1>3, <1>4
  <1> QED BY <1>5

\* A ring has no more than one last gap.
LEMMA GapUnique ==
    ASSUME NEW r, NEW g \in 0 .. NChannels, Gap(r, g)
    PROVE  GapOf(r) = g
  <1>1. \A h \in 0 .. NChannels : Gap(r, h) => h = g
    <2> SUFFICES ASSUME NEW h \in 0 .. NChannels, Gap(r, h) PROVE h = g
      OBVIOUS
    <2>1. ~(h < g)
      BY ChannelsAssumption DEF Gap
    <2>2. ~(g < h)
      BY ChannelsAssumption DEF Gap
    <2> QED BY <2>1, <2>2, ChannelsAssumption
  <1>2. GapOf(r) \in 0 .. NChannels /\ Gap(r, GapOf(r))
    BY DEF GapOf
  <1> QED BY <1>1, <1>2

\* Every ring has a last gap.
LEMMA GapExists ==
    ASSUME NEW r
    PROVE  GapOf(r) \in 0 .. NChannels /\ Gap(r, GapOf(r))
  <1> DEFINE T == {g \in 0 .. NChannels : g = 0 \/ r[g] = NoBuf}
  <1>1. T \in SUBSET (0 .. NChannels) /\ 0 \in T
    BY ChannelsAssumption
  <1>2. PICK g \in T : \A h \in T : h <= g
    <2> HIDE DEF T
    <2> QED BY <1>1, Largest
  <1>3. g \in 0 .. NChannels /\ (g = 0 \/ r[g] = NoBuf)
    BY <1>2
  <1>4. \A i \in g + 1 .. NChannels : r[i] # NoBuf
    BY <1>2, <1>3, ChannelsAssumption
  <1>5. Gap(r, g)
    BY <1>3, <1>4 DEF Gap
  <1> QED BY <1>3, <1>5 DEF GapOf

\* The waiting line is a sequence of buffers: the busy end of the ring, then
\* the ready list.
LEMMA LineElements ==
    ASSUME NEW r \in Rings, NEW rdy \in Seq(Buffers)
    PROVE  /\ Line(r, rdy) \in Seq(Buffers)
           /\ Len(Line(r, rdy)) = NChannels - GapOf(r) + Len(rdy)
           /\ \A i \in 1 .. NChannels - GapOf(r) + Len(rdy) :
                Line(r, rdy)[i] = IF i <= NChannels - GapOf(r)
                                  THEN r[GapOf(r) + i]
                                  ELSE rdy[i - (NChannels - GapOf(r))]
  <1> DEFINE g == GapOf(r)
             s == SubSeq(r, g + 1, NChannels)
  <1>1. g \in 0 .. NChannels /\ Gap(r, g)
    BY GapExists
  <1>2. \A i \in g + 1 .. NChannels : r[i] \in Buffers
    BY <1>1, ChannelsAssumption DEF Gap, Rings
  <1> HIDE DEF g
  <1>3. /\ s \in Seq(Buffers)
        /\ Len(s) = NChannels - g
        /\ \A i \in 1 .. NChannels - g : s[i] = r[g + i]
    <2>1. g + 1 \in Int /\ NChannels \in Int
      BY <1>1, ChannelsAssumption
    <2>2. /\ s \in Seq(Buffers)
          /\ Len(s) = IF g + 1 <= NChannels THEN NChannels - (g + 1) + 1 ELSE 0
          /\ \A i \in 1 .. NChannels - (g + 1) + 1 : s[i] = r[g + 1 + i - 1]
      BY <1>2, <2>1, SubSeqProperties
    <2> QED BY <1>1, <2>1, <2>2
  <1> HIDE DEF s
  <1>4. /\ s \o rdy \in Seq(Buffers)
        /\ Len(s \o rdy) = Len(s) + Len(rdy)
        /\ \A i \in 1 .. Len(s) + Len(rdy) :
             (s \o rdy)[i] = IF i <= Len(s) THEN s[i] ELSE rdy[i - Len(s)]
    BY <1>3, ConcatProperties
  <1>5. Line(r, rdy) = s \o rdy
    BY DEF Line, s, g
  <1>6. Len(rdy) \in Nat /\ NChannels - g \in Nat
    BY <1>1, LenProperties, ChannelsAssumption
  <1>7. \A i \in 1 .. NChannels - g + Len(rdy) :
          (s \o rdy)[i] = IF i <= NChannels - g THEN r[g + i]
                          ELSE rdy[i - (NChannels - g)]
    BY <1>3, <1>4, <1>6
  <1> QED BY <1>3, <1>4, <1>5, <1>7 DEF g

\* The turn of a channel is its place on the ring.
LEMMA RingPlace ==
    ASSUME last \in -1 .. NChannels - 1,
           NEW act \in [Channels -> Buffers \cup {NoBuf}]
    PROVE  /\ RingOf(act) \in Rings
           /\ \A c \in Channels : RingOf(act)[Turn(c)] = act[c]
           /\ \A i \in 1 .. NChannels : /\ Slot(i) \in Channels
                                        /\ Turn(Slot(i)) = i
                                        /\ RingOf(act)[i] = act[Slot(i)]
  <1>1. \A i \in 1 .. NChannels : Slot(i) \in Channels /\ Turn(Slot(i)) = i
    BY TurnOfSlot
  <1>2. \A c \in Channels : Turn(c) \in 1 .. NChannels /\ Slot(Turn(c)) = c
    BY ChannelsAssumption DEF Turn, Slot, Channels
  <1>3. \A i \in 1 .. NChannels : act[Slot(i)] \in Buffers \cup {NoBuf}
    BY <1>1
  <1> QED BY <1>1, <1>2, <1>3 DEF RingOf, Rings

\* A submission turns the ring on: its buffers leave the head of the ready list
\* for the busy end of the ring, so that nothing waits or is missed otherwise.
LEMMA SubmitLine ==
    ASSUME NEW rdy \in Seq(Buffers),
           NEW act \in [Channels -> Buffers \cup {NoBuf}], NEW st, NEW ch,
           last \in -1 .. NChannels - 1, last' \in -1 .. NChannels - 1,
           active' \in [Channels -> Buffers \cup {NoBuf}],
           SubmitReady(rdy, act, st, ch)
    PROVE  /\ Line(RingOf(active), ready)' = Line(RingOf(act), rdy)
           /\ Passed(RingOf(active))' = Passed(RingOf(act))
  <1> DEFINE r == RingOf(act)
             s == RingOf(active)'
             g == GapOf(r)
  <1>1. PICK k \in 0 .. NChannels :
          /\ k <= Len(rdy)
          /\ ready' = SubSeq(rdy, k + 1, Len(rdy))
          /\ \A c \in Channels : Turn(c) <= k =>
               /\ act[c] = NoBuf
               /\ active'[c] = rdy[Turn(c)] /\ active'[c] \in Buffers
               /\ Turn(c)' = Turn(c) + NChannels - k
          /\ \A c \in Channels : ~(Turn(c) <= k) =>
               /\ active'[c] = act[c]
               /\ Turn(c)' = Turn(c) - k
    BY SubmitTurns
  <1>0. NChannels \in Nat /\ k \in Int /\ Len(rdy) \in Nat
    BY ChannelsAssumption, LenProperties
  <1>2. /\ r \in Rings
        /\ \A i \in 1 .. NChannels : /\ Slot(i) \in Channels
                                     /\ Turn(Slot(i)) = i
                                     /\ r[i] = act[Slot(i)]
    BY RingPlace
  <1>3. /\ s \in Rings
        /\ \A c \in Channels : s[Turn(c)'] = active'[c]
    <2>1. s = [i \in 1 .. NChannels |->
                 active'[IF last' + i < NChannels THEN last' + i
                         ELSE last' + i - NChannels]]
      BY DEF RingOf, Slot
    <2>2. \A i \in 1 .. NChannels :
            (IF last' + i < NChannels THEN last' + i
             ELSE last' + i - NChannels) \in Channels
      BY <1>0 DEF Channels
    <2>3. ASSUME NEW c \in Channels PROVE s[Turn(c)'] = active'[c]
      <3>1. PICK t : t = Turn(c)'
        OBVIOUS
      <3>2. /\ t \in 1 .. NChannels
            /\ c = IF last' + t < NChannels THEN last' + t
                   ELSE last' + t - NChannels
        BY <1>0, <3>1 DEF Turn, Channels
      <3>3. s[t] = active'[c]
        BY <2>1, <3>2
      <3> QED BY <3>1, <3>3
    <2>4. s \in Rings
      BY <2>1, <2>2 DEF Rings
    <2> QED BY <2>3, <2>4
  <1> HIDE DEF r, s
  <1>4. /\ \A j \in 1 .. k : r[j] = NoBuf
        /\ \A i \in 1 .. NChannels - k : s[i] = r[i + k]
        /\ \A i \in NChannels - k + 1 .. NChannels : s[i] = rdy[i - (NChannels - k)]
    <2>1. ASSUME NEW j \in 1 .. k PROVE r[j] = NoBuf
      <3>1. PICK c \in Channels : Turn(c) = j /\ r[j] = act[c]
        BY <1>0, <1>2
      <3> QED BY <1>0, <1>1, <3>1
    <2>2. ASSUME NEW i \in 1 .. NChannels - k PROVE s[i] = r[i + k]
      <3>1. i + k \in 1 .. NChannels /\ ~(i + k <= k) /\ i + k - k = i
        BY <1>0
      <3>2. PICK c \in Channels : Turn(c) = i + k /\ r[i + k] = act[c]
        BY <1>2, <3>1
      <3>3. active'[c] = act[c] /\ Turn(c)' = i
        BY <1>1, <3>1, <3>2
      <3> QED BY <1>3, <3>2, <3>3
    <2>3. ASSUME NEW i \in NChannels - k + 1 .. NChannels
          PROVE  s[i] = rdy[i - (NChannels - k)]
      <3> DEFINE j == i - (NChannels - k)
      <3>1. /\ j \in 1 .. NChannels /\ j <= k
            /\ j + NChannels - k = i
        BY <1>0
      <3>2. PICK c \in Channels : Turn(c) = j
        BY <1>2, <3>1
      <3>3. active'[c] = rdy[j] /\ Turn(c)' = i
        BY <1>1, <3>1, <3>2
      <3> QED BY <1>3, <3>3
    <2> QED BY <2>1, <2>2, <2>3
  <1>5. g \in 0 .. NChannels /\ Gap(r, g)
    BY GapExists
  <1> HIDE DEF g
  <1>6. k <= g
    <2>1. CASE k \in 1 .. k
      <3>1. r[k] = NoBuf
        BY <1>4, <2>1
      <3> QED BY <1>0, <1>5, <2>1, <3>1 DEF Gap
    <2> QED BY <1>0, <1>5, <2>1
  <1>7. GapOf(s) = g - k
    <2>1. g - k \in 0 .. NChannels
      BY <1>0, <1>5, <1>6
    <2>2. g - k = 0 \/ s[g - k] = NoBuf
      BY <1>0, <1>4, <1>5, <1>6, <2>1 DEF Gap
    <2>3. ASSUME NEW i \in g - k + 1 .. NChannels PROVE s[i] # NoBuf
      <3>1. CASE i \in 1 .. NChannels - k
        <4>1. s[i] = r[i + k] /\ i + k \in g + 1 .. NChannels
          BY <1>0, <1>4, <1>5, <2>3, <3>1
        <4> QED BY <1>5, <4>1 DEF Gap
      <3>2. CASE i \in NChannels - k + 1 .. NChannels
        <4>1. /\ s[i] = rdy[i - (NChannels - k)]
              /\ i - (NChannels - k) \in 1 .. Len(rdy)
          BY <1>0, <1>1, <1>4, <3>2
        <4> QED BY <4>1, ElementOfSeq, NoBufAssumption
      <3> QED BY <1>0, <1>5, <1>6, <2>3, <3>1, <3>2
    <2> QED BY <2>1, <2>2, <2>3, GapUnique DEF Gap
  <1>8. Passed(s) = Passed(r)
    <2>1. Passed(s) = {s[i] : i \in 1 .. g - k} \ {NoBuf}
      BY <1>7 DEF Passed
    <2>2. Passed(r) = {r[i] : i \in 1 .. g} \ {NoBuf}
      BY DEF Passed, g
    <2>3. \A i \in 1 .. g - k : s[i] = r[i + k] /\ i + k \in 1 .. g
      BY <1>0, <1>4, <1>5, <1>6
    <2>4. \A i \in 1 .. g : r[i] # NoBuf =>
            i - k \in 1 .. g - k /\ s[i - k] = r[i]
      <3> TAKE i \in 1 .. g
      <3> HAVE r[i] # NoBuf
      <3>1. ~(i \in 1 .. k)
        BY <1>4
      <3>2. /\ i - k \in 1 .. g - k /\ i - k \in 1 .. NChannels - k
            /\ i - k + k = i
        BY <1>0, <1>5, <1>6, <3>1
      <3> QED BY <1>4, <3>2
    <2> QED BY <2>1, <2>2, <2>3, <2>4
  <1>9. Line(s, ready') = Line(r, rdy)
    <2>1. /\ ready' \in Seq(Buffers)
          /\ Len(ready') = Len(rdy) - k
          /\ \A i \in 1 .. Len(rdy) - k : ready'[i] = rdy[k + i]
      <3>1. \A i \in k + 1 .. Len(rdy) : rdy[i] \in Buffers
        <4> TAKE i \in k + 1 .. Len(rdy)
        <4>1. i \in 1 .. Len(rdy)
          BY <1>0
        <4> QED BY <4>1, ElementOfSeq
      <3>2. k + 1 \in Int /\ Len(rdy) \in Int
        BY <1>0
      <3>3. /\ ready' \in Seq(Buffers)
            /\ Len(ready') = IF k + 1 <= Len(rdy) THEN Len(rdy) - (k + 1) + 1
                             ELSE 0
            /\ \A i \in 1 .. Len(rdy) - (k + 1) + 1 :
                 ready'[i] = rdy[k + 1 + i - 1]
        BY <1>1, <3>1, <3>2, SubSeqProperties
      <3> QED BY <1>0, <1>1, <3>3
    <2>2. /\ Line(r, rdy) \in Seq(Buffers)
          /\ Len(Line(r, rdy)) = NChannels - g + Len(rdy)
          /\ \A i \in 1 .. NChannels - g + Len(rdy) :
               Line(r, rdy)[i] = IF i <= NChannels - g THEN r[g + i]
                                 ELSE rdy[i - (NChannels - g)]
      BY <1>2, LineElements DEF g
    <2>3. /\ Line(s, ready') \in Seq(Buffers)
          /\ Len(Line(s, ready')) = NChannels - (g - k) + (Len(rdy) - k)
          /\ \A i \in 1 .. NChannels - (g - k) + (Len(rdy) - k) :
               Line(s, ready')[i] = IF i <= NChannels - (g - k)
                                    THEN s[g - k + i]
                                    ELSE ready'[i - (NChannels - (g - k))]
      <3>1. /\ Line(s, ready') \in Seq(Buffers)
            /\ Len(Line(s, ready')) = NChannels - GapOf(s) + Len(ready')
            /\ \A i \in 1 .. NChannels - GapOf(s) + Len(ready') :
                 Line(s, ready')[i] = IF i <= NChannels - GapOf(s)
                                      THEN s[GapOf(s) + i]
                                      ELSE ready'[i - (NChannels - GapOf(s))]
        BY <1>3, <2>1, LineElements
      <3> QED BY <1>7, <2>1, <3>1
    <2>4. NChannels - (g - k) + (Len(rdy) - k) = NChannels - g + Len(rdy)
      BY <1>0, <1>5
    <2>5. ASSUME NEW i \in 1 .. NChannels - g + Len(rdy)
          PROVE  Line(s, ready')[i] = Line(r, rdy)[i]
      <3>1. CASE i <= NChannels - g
        <4>1. /\ i <= NChannels - (g - k)
              /\ g - k + i \in 1 .. NChannels - k
              /\ g - k + i + k = g + i
          BY <1>0, <1>5, <1>6, <2>5, <3>1
        <4>2. s[g - k + i] = r[g + i]
          BY <1>4, <4>1
        <4> QED BY <2>2, <2>3, <2>4, <2>5, <3>1, <4>1, <4>2
      <3>2. CASE ~(i <= NChannels - g) /\ i <= NChannels - (g - k)
        <4>1. PICK x : x = g - k + i
          OBVIOUS
        <4>2. /\ x \in NChannels - k + 1 .. NChannels
              /\ x - (NChannels - k) = i - (NChannels - g)
          BY <1>0, <1>5, <1>6, <2>5, <3>2, <4>1
        <4>3. s[x] = rdy[x - (NChannels - k)]
          BY <1>4, <4>2
        <4>4. s[g - k + i] = rdy[i - (NChannels - g)]
          BY <4>1, <4>2, <4>3
        <4> QED BY <2>2, <2>3, <2>4, <2>5, <3>2, <4>4
      <3>3. CASE ~(i <= NChannels - (g - k))
        <4>1. /\ ~(i <= NChannels - g)
              /\ i - (NChannels - (g - k)) \in 1 .. Len(rdy) - k
              /\ k + (i - (NChannels - (g - k))) = i - (NChannels - g)
          BY <1>0, <1>1, <1>5, <1>6, <2>5, <3>3
        <4>2. ready'[i - (NChannels - (g - k))] = rdy[i - (NChannels - g)]
          BY <2>1, <4>1
        <4> QED BY <2>2, <2>3, <2>4, <2>5, <3>3, <4>1, <4>2
      <3> QED BY <3>1, <3>2, <3>3
    <2> QED BY <2>2, <2>3, <2>4, <2>5, SeqEqual
  <1> QED BY <1>8, <1>9 DEF r, s

\* A buffer that joins the ready list joins the end of the waiting line.
LEMMA LineAppend ==
    ASSUME NEW r \in Rings, NEW rdy \in Seq(Buffers), NEW b \in Buffers
    PROVE  Line(r, Append(rdy, b)) = Append(Line(r, rdy), b)
  <1> DEFINE g == GapOf(r)
             n == NChannels - g + Len(rdy)
             l == Line(r, rdy)
             m == Line(r, Append(rdy, b))
  <1>1. g \in 0 .. NChannels /\ NChannels \in Nat /\ Len(rdy) \in Nat
    BY GapExists, LenProperties, ChannelsAssumption
  <1>2. /\ Append(rdy, b) \in Seq(Buffers)
        /\ Len(Append(rdy, b)) = Len(rdy) + 1
        /\ \A i \in 1 .. Len(rdy) : Append(rdy, b)[i] = rdy[i]
        /\ Append(rdy, b)[Len(rdy) + 1] = b
    BY AppendProperties
  <1>3. /\ l \in Seq(Buffers) /\ Len(l) = n
        /\ \A i \in 1 .. n : l[i] = IF i <= NChannels - g THEN r[g + i]
                                    ELSE rdy[i - (NChannels - g)]
    BY LineElements
  <1>4. /\ m \in Seq(Buffers) /\ Len(m) = NChannels - g + Len(Append(rdy, b))
        /\ \A i \in 1 .. NChannels - g + Len(Append(rdy, b)) :
             m[i] = IF i <= NChannels - g THEN r[g + i]
                    ELSE Append(rdy, b)[i - (NChannels - g)]
    BY <1>2, LineElements
  <1> HIDE DEF g, l, m
  <1>5. Len(m) = n + 1 /\ n \in Nat
    BY <1>1, <1>2, <1>4
  <1>6. /\ Append(l, b) \in Seq(Buffers)
        /\ Len(Append(l, b)) = n + 1
        /\ \A i \in 1 .. n : Append(l, b)[i] = l[i]
        /\ Append(l, b)[n + 1] = b
    BY <1>3, AppendProperties
  <1>7. ASSUME NEW i \in 1 .. n + 1 PROVE m[i] = Append(l, b)[i]
    <2>1. CASE i <= NChannels - g
      <3>1. i \in 1 .. n
        BY <1>1, <1>7, <2>1
      <3> QED BY <1>2, <1>3, <1>4, <1>5, <1>6, <2>1, <3>1
    <2>2. CASE ~(i <= NChannels - g) /\ i <= n
      <3>1. i \in 1 .. n /\ i - (NChannels - g) \in 1 .. Len(rdy)
        BY <1>1, <1>7, <2>2
      <3>2. m[i] = rdy[i - (NChannels - g)]
        BY <1>2, <1>4, <1>5, <1>7, <2>2, <3>1
      <3> QED BY <1>3, <1>6, <2>2, <3>1, <3>2
    <2>3. CASE i = n + 1
      <3>1. /\ ~(i <= NChannels - g)
            /\ i - (NChannels - g) = Len(rdy) + 1
        BY <1>1, <2>3
      <3>2. m[i] = b
        BY <1>2, <1>4, <1>5, <1>7, <3>1
      <3> QED BY <1>6, <2>3, <3>2
    <2>4. i <= n \/ i = n + 1
      BY <1>5, <1>7
    <2> QED BY <2>1, <2>2, <2>3, <2>4
  <1>8. m = Append(l, b)
    BY <1>4, <1>5, <1>6, <1>7, SeqEqual
  <1> QED BY <1>8 DEF m, l

\* A completion at place p of the ring takes the buffer out of the waiting line
\* and leaves behind what stood before it.
LEMMA LineComplete ==
    ASSUME NEW r \in Rings, NEW rdy \in Seq(Buffers),
           NEW p \in 1 .. NChannels,
           \A i \in p .. NChannels : r[i] # NoBuf
    PROVE  \E q \in 1 .. Len(Line(r, rdy)) :
             /\ Line(r, rdy)[q] = r[p]
             /\ Line([r EXCEPT ![p] = NoBuf], rdy)
                  = SubSeq(Line(r, rdy), q + 1, Len(Line(r, rdy)))
             /\ Passed([r EXCEPT ![p] = NoBuf])
                  = Passed(r) \cup {Line(r, rdy)[j] : j \in 1 .. q - 1}
  <1> DEFINE g == GapOf(r)
             n == NChannels - g + Len(rdy)
             q == p - g
             l == Line(r, rdy)
             s == [r EXCEPT ![p] = NoBuf]
             m == Line(s, rdy)
  <1>1. /\ g \in 0 .. NChannels /\ Gap(r, g)
        /\ NChannels \in Nat /\ Len(rdy) \in Nat
    BY GapExists, LenProperties, ChannelsAssumption
  <1>2. /\ s \in Rings /\ s[p] = NoBuf
        /\ \A i \in 1 .. NChannels : i # p => s[i] = r[i]
    BY DEF Rings
  <1>3. /\ l \in Seq(Buffers) /\ Len(l) = n
        /\ \A i \in 1 .. n : l[i] = IF i <= NChannels - g THEN r[g + i]
                                    ELSE rdy[i - (NChannels - g)]
    BY LineElements
  <1> HIDE DEF g, s, l
  <1>4. g < p
    BY <1>1 DEF Gap
  <1>5. GapOf(s) = p
    <2>1. \A i \in p + 1 .. NChannels : s[i] # NoBuf
      BY <1>1, <1>2
    <2>2. p \in 0 .. NChannels
      BY <1>1
    <2> QED BY <1>2, <2>1, <2>2, GapUnique DEF Gap
  <1>6. /\ m \in Seq(Buffers) /\ Len(m) = NChannels - p + Len(rdy)
        /\ \A i \in 1 .. NChannels - p + Len(rdy) :
             m[i] = IF i <= NChannels - p THEN s[p + i]
                    ELSE rdy[i - (NChannels - p)]
    BY <1>2, <1>5, LineElements
  <1> HIDE DEF m
  <1>7. q \in 1 .. n /\ l[q] = r[p]
    <2>1. q \in 1 .. n /\ q <= NChannels - g /\ g + q = p
      BY <1>1, <1>4
    <2> QED BY <1>3, <2>1
  <1>8. m = SubSeq(l, q + 1, n)
    <2>1. \A i \in q + 1 .. n : l[i] \in Buffers
      <3> TAKE i \in q + 1 .. n
      <3>1. i \in 1 .. Len(l)
        BY <1>1, <1>3, <1>7
      <3> QED BY <1>3, <3>1, ElementOfSeq
    <2>2. q + 1 \in Int /\ n \in Int /\ n - (q + 1) + 1 = NChannels - p + Len(rdy)
      BY <1>1, <1>4
    <2>3. /\ SubSeq(l, q + 1, n) \in Seq(Buffers)
          /\ Len(SubSeq(l, q + 1, n))
               = IF q + 1 <= n THEN n - (q + 1) + 1 ELSE 0
          /\ \A i \in 1 .. n - (q + 1) + 1 :
               SubSeq(l, q + 1, n)[i] = l[q + 1 + i - 1]
      BY <2>1, <2>2, SubSeqProperties
    <2>4. Len(SubSeq(l, q + 1, n)) = NChannels - p + Len(rdy)
      BY <1>1, <1>4, <1>7, <2>2, <2>3
    <2>5. ASSUME NEW i \in 1 .. NChannels - p + Len(rdy)
          PROVE  m[i] = SubSeq(l, q + 1, n)[i]
      <3>1. PICK x : x = q + i
        OBVIOUS
      <3>2. x \in 1 .. n /\ q + 1 + i - 1 = x
        BY <1>1, <1>4, <2>5, <3>1
      <3>3. SubSeq(l, q + 1, n)[i] = l[x]
        BY <2>2, <2>3, <2>5, <3>2
      <3>4. CASE i <= NChannels - p
        <4>1. /\ x <= NChannels - g /\ g + x = p + i
              /\ p + i \in 1 .. NChannels /\ p + i # p
          BY <1>1, <1>4, <2>5, <3>1, <3>4
        <4>2. l[x] = r[p + i] /\ s[p + i] = r[p + i]
          BY <1>2, <1>3, <3>2, <4>1
        <4> QED BY <1>6, <2>5, <3>3, <3>4, <4>2
      <3>5. CASE ~(i <= NChannels - p)
        <4>1. /\ ~(x <= NChannels - g)
              /\ x - (NChannels - g) = i - (NChannels - p)
          BY <1>1, <1>4, <2>5, <3>1, <3>5
        <4>2. l[x] = rdy[i - (NChannels - p)]
          BY <1>3, <3>2, <4>1
        <4> QED BY <1>6, <2>5, <3>3, <3>5, <4>2
      <3> QED BY <3>4, <3>5
    <2> QED BY <1>6, <2>3, <2>4, <2>5, SeqEqual
  <1>9. Passed(s) = Passed(r) \cup {l[j] : j \in 1 .. q - 1}
    <2>1. /\ Passed(s) = {s[i] : i \in 1 .. p} \ {NoBuf}
          /\ Passed(r) = {r[i] : i \in 1 .. g} \ {NoBuf}
      BY <1>5 DEF Passed, g
    <2>2. ASSUME NEW j \in 1 .. q - 1
          PROVE  l[j] = s[g + j] /\ g + j \in 1 .. p /\ l[j] # NoBuf
      <3>1. /\ j \in 1 .. n /\ j <= NChannels - g
            /\ g + j \in 1 .. NChannels /\ g + j \in 1 .. p /\ g + j # p
            /\ g + j \in g + 1 .. NChannels
        BY <1>1, <1>4, <2>2
      <3> QED BY <1>1, <1>2, <1>3, <3>1 DEF Gap
    <2>3. ASSUME NEW i \in 1 .. g PROVE s[i] = r[i] /\ i \in 1 .. p
      BY <1>1, <1>2, <1>4, <2>3
    <2>4. ASSUME NEW i \in 1 .. p, s[i] # NoBuf, i \notin 1 .. g
          PROVE  i - g \in 1 .. q - 1 /\ l[i - g] = s[i]
      <3>1. i # p
        BY <1>2, <2>4
      <3>2. i - g \in 1 .. q - 1 /\ g + (i - g) = i
        BY <1>1, <1>4, <2>4, <3>1
      <3> QED BY <2>2, <3>2
    <2> QED BY <2>1, <2>2, <2>3, <2>4
  <1>10. /\ q \in 1 .. Len(l) /\ l[q] = r[p]
         /\ m = SubSeq(l, q + 1, Len(l))
         /\ Passed(s) = Passed(r) \cup {l[j] : j \in 1 .. q - 1}
    BY <1>3, <1>7, <1>8, <1>9
  <1> HIDE DEF q
  <1> QED BY <1>10 DEF l, m, s

\* Nothing waits and nothing is missed on an empty ring.
LEMMA LineEmpty ==
    ASSUME NEW r \in Rings, \A i \in 1 .. NChannels : r[i] = NoBuf
    PROVE  Line(r, <<>>) = <<>> /\ Passed(r) = {}
  <1>1. GapOf(r) = NChannels
    <2>1. Gap(r, NChannels)
      BY ChannelsAssumption DEF Gap
    <2> QED BY <2>1, GapUnique, ChannelsAssumption
  <1>2. PICK e \in Seq(Buffers) : e = <<>> /\ Len(e) = 0
    BY EmptySeq
  <1>3. /\ Line(r, e) \in Seq(Buffers)
        /\ Len(Line(r, e)) = NChannels - GapOf(r) + Len(e)
    BY LineElements
  <1>4. Line(r, <<>>) = <<>>
    <2>1. Len(Line(r, e)) = 0
      BY <1>1, <1>2, <1>3, ChannelsAssumption
    <2> QED BY <1>2, <1>3, <2>1, EmptySeq
  <1>5. Passed(r) = {}
    BY <1>1 DEF Passed
  <1> QED BY <1>4, <1>5

-----------------------------------------------------------------------------
(* The refinement *)

\* Every other step leaves the lists, the callback and the closing as they are.
LEMMA QueueFrame ==
    ASSUME [Next]_vars
    PROVE  \/ \E b \in Buffers : Queue(b)
           \/ StartPublish \/ StartRollback \/ StopBegin \/ WatchdogStop
           \/ StopFinish \/ WorkExit \/ WorkTake \/ WorkSettle
           \/ \E c \in Channels : IrqComplete(c)
           \/ UNCHANGED <<listVars, workBuf, stopping>>
  <1> DEFINE Frame == UNCHANGED <<listVars, workBuf, stopping>>
  <1> USE DEF streamVars, otherVars, bufVars, listVars, runVars, faultVars,
          flagVars, devVars, ctlVars, workVars, wdVars, irqVars, statusVars,
          hwVars
  <1>1. ASSUME NEW b \in Buffers, PrepareBegin(b) PROVE Frame
    BY <1>1 DEF PrepareBegin
  <1>3. ASSUME NEW b \in Buffers, CleanupBuffer(b) PROVE Frame
    BY <1>3 DEF CleanupBuffer
  <1>4. ASSUME VideoReset PROVE Frame
    BY <1>4 DEF VideoReset
  <1>5. ASSUME FpgaConfigure PROVE Frame
    BY <1>5 DEF FpgaConfigure
  <1>6. ASSUME StartBegin PROVE Frame
    BY <1>6 DEF StartBegin
  <1>8. ASSUME QueueKick PROVE Frame
    BY <1>8 DEF QueueKick
  <1>9. ASSUME PrepareEnd PROVE Frame
    BY <1>9 DEF PrepareEnd
  <1>10. ASSUME StartSetup PROVE Frame
    BY <1>10 DEF StartSetup
  <1>12. ASSUME StartEnable PROVE Frame
    BY <1>12 DEF StartEnable
  <1>14. ASSUME CancelWatchdog PROVE Frame
    BY <1>14 DEF CancelWatchdog
  <1>15. ASSUME FlushWatchdog PROVE Frame
    BY <1>15 DEF FlushWatchdog
  <1>16. ASSUME Quiesce PROVE Frame
    BY <1>16 DEF Quiesce
  <1>17. ASSUME Terminated PROVE Frame
    BY <1>17 DEF Terminated
  <1>18. ASSUME StopTimeout PROVE Frame
    BY <1>18 DEF StopTimeout
  <1>19. ASSUME MaskInterrupts PROVE Frame
    BY <1>19 DEF MaskInterrupts
  <1>20. ASSUME SynchronizeIrq PROVE Frame
    BY <1>20 DEF SynchronizeIrq
  <1>21. ASSUME FlushWork PROVE Frame
    BY <1>21 DEF FlushWork
  <1>22. ASSUME ClearHardware PROVE Frame
    BY <1>22 DEF ClearHardware
  <1>24. ASSUME ReportError PROVE Frame
    BY <1>24 DEF ReportError
  <1>26. ASSUME WatchdogStart PROVE Frame
    BY <1>26 DEF WatchdogStart
  <1>27. ASSUME WatchdogBusy PROVE Frame
    BY <1>27 DEF WatchdogBusy
  <1>28. ASSUME WatchdogCheck PROVE Frame
    BY <1>28 DEF WatchdogCheck
  <1>29. ASSUME WatchdogRecover PROVE Frame
    BY <1>29 DEF WatchdogRecover
  <1>30. ASSUME WorkStart PROVE Frame
    BY <1>30 DEF WorkStart
  <1>34. ASSUME NEW a \in {"recycle", "release"}, WorkCallback(a) PROVE Frame
    BY <1>34 DEF WorkCallback
  <1>35. ASSUME IrqRead PROVE Frame
    BY <1>35 DEF IrqRead
  <1>37. ASSUME IrqStray PROVE Frame
    BY <1>37 DEF IrqStray
  <1>38. ASSUME IrqNotify PROVE Frame
    BY <1>38 DEF IrqNotify
  <1>39. ASSUME IrqAck PROVE Frame
    BY <1>39 DEF IrqAck
  <1>40. ASSUME HwFill PROVE Frame
    BY <1>40 DEF HwFill
  <1>41. ASSUME HwTerminate PROVE Frame
    BY <1>41 DEF HwTerminate
  <1>42. ASSUME HwGlitch PROVE Frame
    BY <1>42 DEF HwGlitch
  <1>43. ASSUME LoseDevice PROVE Frame
    BY <1>43 DEF LoseDevice
  <1>44. ASSUME StallTime PROVE Frame
    BY <1>44 DEF StallTime
  <1>99. CASE UNCHANGED vars
    BY <1>99 DEF vars
  <1> QED
    BY <1>1, <1>3, <1>4, <1>5, <1>6, <1>8, <1>9, <1>10, <1>12, <1>14,
       <1>15, <1>16, <1>17, <1>18, <1>19, <1>20, <1>21, <1>22, <1>24,
       <1>26, <1>27, <1>28, <1>29, <1>30, <1>34, <1>35, <1>37, <1>38,
       <1>39, <1>40, <1>41, <1>42, <1>43, <1>44, <1>99
    DEF Next, ApiCall, Holder, Watchdog, Work, IrqBody, Hardware, Frame

\* The abstract variables, on the ring of the channels.
LEMMA Mapped ==
    /\ InFlight \o ready = Line(RingOf(active), ready)
    /\ MissedBuffers = Passed(RingOf(active))
  <1>1. Ring = RingOf(active)
    BY DEF Ring, RingOf
  <1>2. LastGap = GapOf(Ring)
    BY DEF LastGap, GapOf, Gap
  <1> QED BY <1>1, <1>2 DEF InFlight, MissedBuffers, Line, Passed

\* The buffers of the caller that the engine holds.
HeldBy(line, passed) ==
    {line[i] : i \in 1 .. Len(line)} \cup passed
    \cup {done[i] : i \in 1 .. Len(done)}

\* What a step does to the abstract variables: line, missed frames, completed
\* buffers, callback and closing are those of a step of FrameQueue.
QueueStep(line, newLine, passed, newPassed) ==
    \/ \E b \in Buffers :
         /\ b \notin HeldBy(line, passed)
         /\ newLine = Append(line, b) /\ ~stopping
         /\ newPassed = passed /\ UNCHANGED <<done, workBuf, stopping>>
    \/ \E i \in 1 .. Len(line) :
         /\ done' = Append(done, line[i])
         /\ newPassed = passed \cup {line[j] : j \in 1 .. i - 1}
         /\ newLine = SubSeq(line, i + 1, Len(line))
         /\ UNCHANGED <<workBuf, stopping>>
    \/ /\ done # <<>> /\ workBuf = NoBuf /\ ~stopping
       /\ workBuf' = Head(done) /\ done' = Tail(done)
       /\ newLine = line /\ newPassed = passed /\ UNCHANGED stopping
    \/ /\ workBuf # NoBuf /\ workBuf' = NoBuf
       /\ \/ newLine = line
          \/ /\ ~stopping /\ workBuf \notin HeldBy(line, passed)
             /\ newLine = Append(line, workBuf)
       /\ newPassed = passed /\ UNCHANGED <<done, stopping>>
    \/ /\ ~stopping /\ stopping'
       /\ newLine = line /\ newPassed = passed /\ UNCHANGED <<done, workBuf>>
    \/ /\ stopping /\ done # <<>> /\ done' = Tail(done)
       /\ newLine = line /\ newPassed = passed
       /\ UNCHANGED <<workBuf, stopping>>
    \/ /\ workBuf = NoBuf /\ UNCHANGED workBuf
       /\ newLine = <<>> /\ newPassed = {} /\ done' = <<>> /\ ~stopping'
    \/ /\ newLine = line /\ newPassed = passed
       /\ UNCHANGED <<done, workBuf, stopping>>

\* Such a step is a step of FrameQueue, or a stutter.
LEMMA QueueStepMaps ==
    ASSUME stopping \in BOOLEAN, stopping' \in BOOLEAN,
           QueueStep(Line(RingOf(active), ready), Line(RingOf(active), ready)',
                     Passed(RingOf(active)), Passed(RingOf(active))')
    PROVE  [Queue0!FQNext]_(Queue0!fqVars)
  <1> DEFINE line == InFlight \o ready
             passed == MissedBuffers
  <1>1. Line(RingOf(active), ready) = line /\ Passed(RingOf(active)) = passed
    BY Mapped
  <1>2. Line(RingOf(active), ready)' = line' /\ Passed(RingOf(active))' = passed'
    <2>1. (/\ InFlight \o ready = Line(RingOf(active), ready)
           /\ MissedBuffers = Passed(RingOf(active)))'
      BY Mapped, PTL
    <2> QED BY <2>1
  <1>3. QueueStep(line, line', passed, passed')
    BY <1>1, <1>2
  <1> HIDE DEF line, passed
  <1> QED
    BY <1>3
    DEF QueueStep, HeldBy, Queue0!FQNext, Queue0!fqVars, Queue0!Enqueue, Queue0!Fill,
        Queue0!Serve, Queue0!Answer, Queue0!Close, Queue0!Drop, Queue0!Revoke,
        Queue0!Held, Queue0!InSequence, line, passed

\* A buffer that the API or the completion work owns is held nowhere.
LEMMA NotHeld ==
    ASSUME TypeOK, Placement, NEW b \in Buffers, state[b] = "prepared"
    PROVE  b \notin HeldBy(Line(RingOf(active), ready), Passed(RingOf(active)))
  <1> DEFINE r == RingOf(active)
             g == GapOf(r)
             n == NChannels - g + Len(ready)
             l == Line(r, ready)
  <1>1. /\ ready \in Seq(Buffers) /\ done \in Seq(Buffers)
        /\ active \in [Channels -> Buffers \cup {NoBuf}]
        /\ last \in -1 .. NChannels - 1
        /\ NChannels \in Nat /\ Len(ready) \in Nat
    BY LenProperties, ChannelsAssumption DEF TypeOK, BufferTypes
  <1>2. /\ r \in Rings
        /\ \A i \in 1 .. NChannels : Slot(i) \in Channels /\ r[i] = active[Slot(i)]
    BY <1>1, RingPlace
  <1>3. g \in 0 .. NChannels
    BY GapExists
  <1>4. /\ Len(l) = n
        /\ \A i \in 1 .. n : l[i] = IF i <= NChannels - g THEN r[g + i]
                                    ELSE ready[i - (NChannels - g)]
    BY <1>1, <1>2, LineElements
  <1>5. \A i \in 1 .. NChannels : r[i] # b
    BY <1>2, NoBufAssumption DEF Placement, Placed
  <1>6. \A i \in 1 .. Len(ready) : ready[i] # b
    BY DEF Placement, Placed
  <1>7. \A i \in 1 .. Len(done) : done[i] # b
    BY DEF Placement, Placed
  <1>8. b \notin Passed(r)
    <2>1. \A i \in 1 .. g : i \in 1 .. NChannels
      BY <1>1, <1>3
    <2> HIDE DEF r
    <2> QED BY <1>5, <2>1 DEF Passed, g
  <1> HIDE DEF g, l, r
  <1>9. ASSUME NEW i \in 1 .. n PROVE l[i] # b
    <2>1. CASE i <= NChannels - g
      <3>1. g + i \in 1 .. NChannels
        BY <1>1, <1>3, <1>9, <2>1
      <3> QED BY <1>4, <1>5, <1>9, <2>1, <3>1
    <2>2. CASE ~(i <= NChannels - g)
      <3>1. i - (NChannels - g) \in 1 .. Len(ready)
        BY <1>1, <1>3, <1>9, <2>2
      <3> QED BY <1>4, <1>6, <1>9, <2>2, <3>1
    <2> QED BY <2>1, <2>2
  <1> QED BY <1>4, <1>7, <1>8, <1>9 DEF HeldBy, l, r

\* Lists and channels stay, and so do the line and the missed frames.
LEMMA LineStays ==
    ASSUME UNCHANGED <<active, last>>
    PROVE  RingOf(active)' = RingOf(active)
  BY DEF RingOf, Slot

\* Lists and channels are emptied, and so are the line and the missed frames.
LEMMA LineRevoked ==
    ASSUME last' \in -1 .. NChannels - 1,
           active' = [c \in Channels |-> NoBuf], ready' = <<>>
    PROVE  /\ Line(RingOf(active), ready)' = <<>>
           /\ Passed(RingOf(active))' = {}
  <1> DEFINE s == RingOf(active)'
  <1>1. s = [i \in 1 .. NChannels |->
               active'[IF last' + i < NChannels THEN last' + i
                       ELSE last' + i - NChannels]]
    BY DEF RingOf, Slot
  <1>2. \A i \in 1 .. NChannels :
          (IF last' + i < NChannels THEN last' + i
           ELSE last' + i - NChannels) \in Channels
    <2>1. NChannels \in Nat /\ last' \in Int /\ -1 <= last' /\ last' < NChannels
      BY ChannelsAssumption
    <2> QED BY <2>1 DEF Channels
  <1>3. s \in Rings /\ \A i \in 1 .. NChannels : s[i] = NoBuf
    BY <1>1, <1>2 DEF Rings
  <1> HIDE DEF s
  <1>4. Line(s, <<>>) = <<>> /\ Passed(s) = {}
    BY <1>3, LineEmpty
  <1> QED BY <1>4 DEF s

\* Every step of the engine is a step of FrameQueue, or a stutter.
LEMMA FrameStep ==
    ASSUME BufferInv, BufferInv', PhaseFlags, NoCallback, SeenLatest, [Next]_vars
    PROVE  QueueStep(Line(RingOf(active), ready), Line(RingOf(active), ready)',
                     Passed(RingOf(active)), Passed(RingOf(active))')
  <1> DEFINE r == RingOf(active)
             line == Line(r, ready)
             newLine == Line(RingOf(active), ready)'
             passed == Passed(r)
             newPassed == Passed(RingOf(active))'
             Goal == QueueStep(line, newLine, passed, newPassed)
  <1>0. /\ TypeOK /\ Placement /\ References /\ Holding
        /\ ready \in Seq(Buffers) /\ done \in Seq(Buffers)
        /\ active \in [Channels -> Buffers \cup {NoBuf}]
        /\ active' \in [Channels -> Buffers \cup {NoBuf}]
        /\ last \in -1 .. NChannels - 1 /\ last' \in -1 .. NChannels - 1
        /\ stopping \in BOOLEAN
        /\ workBuf \in Buffers \cup {NoBuf}
    BY DEF BufferInv, TypeOK, BufferTypes, FlagTypes, ThreadTypes
  <1>1. /\ r \in Rings
        /\ \A c \in Channels : r[Turn(c)] = active[c]
        /\ \A i \in 1 .. NChannels : /\ Slot(i) \in Channels
                                     /\ Turn(Slot(i)) = i
                                     /\ r[i] = active[Slot(i)]
    BY <1>0, RingPlace
  <1>2. UNCHANGED <<active, last>> =>
          newLine = Line(r, ready') /\ newPassed = passed
    BY LineStays
  <1>3. ASSUME NEW rdy \in Seq(Buffers), NEW st, NEW ch,
               SubmitReady(rdy, active, st, ch)
        PROVE  newLine = Line(r, rdy) /\ newPassed = passed
    BY <1>0, <1>3, SubmitLine
  <1>4. active' = [c \in Channels |-> NoBuf] /\ ready' = <<>> =>
          newLine = <<>> /\ newPassed = {}
    BY <1>0, LineRevoked
  <1>5. \A b \in Buffers : state[b] = "prepared" =>
          /\ b \notin HeldBy(line, passed)
          /\ Line(r, Append(ready, b)) = Append(line, b)
    BY <1>0, <1>1, NotHeld, LineAppend
  <1> HIDE DEF r, line, newLine, passed, newPassed
  <1>6. ASSUME NEW b \in Buffers, Queue(b) PROVE Goal
    <2>1. /\ state[b] = "prepared" /\ ctl = "free"
          /\ ready' = Append(ready, b)
          /\ UNCHANGED <<active, last, done, workBuf, stopping>>
      BY <1>6 DEF Queue, ApiIdle, runVars, workVars
    <2>2. ~stopping
      BY <2>1 DEF PhaseFlags, Closing
    <2>3. newLine = Append(line, b) /\ newPassed = passed
      BY <1>2, <1>5, <2>1
    <2> QED BY <1>5, <2>1, <2>2, <2>3 DEF QueueStep
  <1>7. ASSUME StartPublish PROVE Goal
    <2>1. /\ ctl = "publish" /\ ~stopping' /\ UNCHANGED workBuf
          /\ \/ SubmitReady(ready, active, state, hwChan) /\ UNCHANGED done
             \/ /\ active' = [c \in Channels |-> NoBuf]
                /\ ready' = <<>> /\ done' = <<>>
      BY <1>7 DEF StartPublish, ReturnBuffers, otherVars, workVars
    <2>2. ~stopping /\ workBuf = NoBuf
      BY <2>1 DEF PhaseFlags, Closing, NoCallback
    <2>3. CASE SubmitReady(ready, active, state, hwChan) /\ UNCHANGED done
      <3>1. newLine = line /\ newPassed = passed
        BY <1>0, <1>3, <2>3 DEF line
      <3>2. UNCHANGED stopping
        BY <1>0, <2>1, <2>2 DEF BufferInv, TypeOK, FlagTypes
      <3> QED BY <2>1, <2>3, <3>1, <3>2 DEF QueueStep
    <2>4. CASE /\ active' = [c \in Channels |-> NoBuf]
               /\ ready' = <<>> /\ done' = <<>>
      BY <1>4, <2>1, <2>2, <2>4 DEF QueueStep
    <2> QED BY <2>1, <2>3, <2>4
  <1>8. ASSUME StartRollback \/ StopBegin \/ WatchdogStop PROVE Goal
    <2>1. /\ ctl \in {"rollback", "free", "recover"} /\ stopping'
          /\ UNCHANGED <<active, last, ready, done, workBuf>>
      BY <1>8 DEF StartRollback, StopBegin, WatchdogStop, ApiIdle, listVars,
                  otherVars, workVars
    <2>2. ~stopping
      BY <2>1 DEF PhaseFlags, Closing
    <2>3. newLine = line /\ newPassed = passed
      BY <1>2, <2>1 DEF line
    <2> QED BY <2>1, <2>2, <2>3 DEF QueueStep
  <1>9. ASSUME StopFinish PROVE Goal
    <2>1. /\ ctl = "finish" /\ ~stopping' /\ UNCHANGED workBuf
          /\ active' = [c \in Channels |-> NoBuf]
          /\ ready' = <<>> /\ done' = <<>>
      BY <1>9 DEF StopFinish, ReturnBuffers, otherVars, workVars
    <2>2. workBuf = NoBuf
      BY <2>1 DEF NoCallback
    <2> QED BY <1>4, <2>1, <2>2 DEF QueueStep
  <1>10. ASSUME WorkExit PROVE Goal
    <2>1. /\ UNCHANGED <<done, workBuf, stopping>>
          /\ \/ SubmitReady(ready, active, state, hwChan)
             \/ UNCHANGED <<active, last, ready>>
      BY <1>10 DEF WorkExit, NoSubmit, runVars
    <2>2. newLine = line /\ newPassed = passed
      BY <1>0, <1>2, <1>3, <2>1 DEF line
    <2> QED BY <2>1, <2>2 DEF QueueStep
  <1>11. ASSUME WorkTake PROVE Goal
    <2> DEFINE b == Head(done)
               call == complete[b] /\ ~stopping
    <2>1. /\ workPc = "scan" /\ done # <<>> /\ done' = Tail(done)
          /\ workBuf' = IF call THEN b ELSE NoBuf
          /\ UNCHANGED <<active, last, ready, stopping>>
      BY <1>11 DEF WorkTake, flagVars, runVars
    <2>2. b \in Buffers /\ b = done[1] /\ 1 \in 1 .. Len(done)
      BY <1>0, <2>1, HeadTailProperties, EmptySeq
    <2>3. complete[b]
      BY <1>0, <2>2 DEF Placement, Placed, References
    <2>4. workBuf = NoBuf
      BY <1>0, <2>1 DEF Holding
    <2>5. newLine = line /\ newPassed = passed
      BY <1>2, <2>1 DEF line
    <2>6. CASE stopping
      BY <2>1, <2>4, <2>5, <2>6 DEF QueueStep
    <2>7. CASE ~stopping
      BY <2>1, <2>3, <2>4, <2>5, <2>7 DEF QueueStep
    <2> QED BY <2>6, <2>7
  <1>12. ASSUME WorkSettle PROVE Goal
    <2> DEFINE rdy == Append(ready, workBuf)
               st == [state EXCEPT ![workBuf] = "ready"]
    <2>1. /\ workPc \in {"recycle", "release"} /\ workBuf' = NoBuf
          /\ UNCHANGED <<done, stopping>>
          /\ \/ /\ Recyclable(workBuf)
                /\ SubmitReady(rdy, active, st, hwChan)
             \/ UNCHANGED <<active, last, ready>>
      BY <1>12 DEF WorkSettle, NoSubmit, flagVars, runVars
    <2>2. workBuf # NoBuf /\ workBuf \in Buffers
      BY <1>0, <2>1 DEF Holding
    <2>3. rdy \in Seq(Buffers)
      BY <1>0, <2>2, AppendProperties
    <2>4. CASE Recyclable(workBuf) /\ SubmitReady(rdy, active, st, hwChan)
      <3>1. ~stopping /\ state[workBuf] = "prepared"
        BY <2>4 DEF Recyclable, Live
      <3>2. newLine = Append(line, workBuf) /\ newPassed = passed
        BY <1>3, <1>5, <2>2, <2>3, <2>4, <3>1
      <3>3. workBuf \notin HeldBy(line, passed)
        BY <1>5, <2>2, <3>1
      <3> QED BY <2>1, <2>2, <3>1, <3>2, <3>3 DEF QueueStep
    <2>5. CASE UNCHANGED <<active, last, ready>>
      <3>1. newLine = line /\ newPassed = passed
        BY <1>2, <2>5 DEF line
      <3> QED BY <2>1, <2>2, <3>1 DEF QueueStep
    <2> QED BY <2>1, <2>4, <2>5
  <1>13. ASSUME NEW c \in Channels, IrqComplete(c) PROVE Goal
    <2> DEFINE p == Turn(c)
               act == [active EXCEPT ![c] = NoBuf]
               st == [state EXCEPT ![active[c]] = "done"]
               ch == IF lost THEN hwChan ELSE [hwChan EXCEPT ![c] = "idle"]
    <2>1. /\ irqPc = "handle" /\ Completing(c)
          /\ done' = Append(done, active[c])
          /\ UNCHANGED <<workBuf, stopping>>
          /\ \/ SubmitReady(ready, act, st, ch)
             \/ ready' = ready /\ active' = act /\ UNCHANGED last
      BY <1>13 DEF IrqComplete, NoSubmit, runVars, workVars
    <2>2. /\ irqSeen.code = c + 1 /\ active[c] # NoBuf
          /\ \A d \in Channels : p < Turn(d) => active[d] # NoBuf
      BY <2>1 DEF SeenLatest, Completing
    <2>3. p \in 1 .. NChannels /\ r[p] = active[c] /\ Slot(p) = c
      BY <1>0, <1>1, TurnRange, TurnInjective
    <2>4. \A i \in p .. NChannels : r[i] # NoBuf
      <3> TAKE i \in p .. NChannels
      <3>1. i \in 1 .. NChannels /\ (i = p \/ p < i)
        BY <2>3, ChannelsAssumption
      <3> QED BY <1>1, <2>2, <2>3, <3>1
    <2>5. RingOf(act) = [r EXCEPT ![p] = NoBuf]
      <3>1. \A i \in 1 .. NChannels : Slot(i) = c <=> i = p
        BY <1>1, <2>3
      <3>2. \A i \in 1 .. NChannels :
              act[Slot(i)] = IF i = p THEN NoBuf ELSE r[i]
        BY <1>0, <1>1, <3>1
      <3> HIDE DEF act, p
      <3>3. RingOf(act) = [i \in 1 .. NChannels |->
                             IF i = p THEN NoBuf ELSE r[i]]
        BY <3>2 DEF RingOf
      <3>4. r \in [1 .. NChannels -> Buffers \cup {NoBuf}]
        BY <1>1 DEF Rings
      <3> QED BY <3>3, <3>4
    <2>6. newLine = Line(RingOf(act), ready) /\ newPassed = Passed(RingOf(act))
      <3>1. act \in [Channels -> Buffers \cup {NoBuf}]
        BY <1>0
      <3> HIDE DEF act, st, ch
      <3>2. CASE SubmitReady(ready, act, st, ch)
        BY <1>0, <3>1, <3>2, SubmitLine DEF newLine, newPassed
      <3>3. CASE ready' = ready /\ active' = act /\ UNCHANGED last
        <4>1. RingOf(active)' = RingOf(act)
          BY <3>3 DEF RingOf, Slot
        <4> QED BY <3>3, <4>1 DEF newLine, newPassed
      <3> QED BY <2>1, <3>2, <3>3
    <2> HIDE DEF p, act
    <2>7. PICK q \in 1 .. Len(line) :
            /\ line[q] = active[c]
            /\ newLine = SubSeq(line, q + 1, Len(line))
            /\ newPassed = passed \cup {line[j] : j \in 1 .. q - 1}
      <3>1. \E q \in 1 .. Len(Line(r, ready)) :
              /\ Line(r, ready)[q] = r[p]
              /\ Line([r EXCEPT ![p] = NoBuf], ready)
                   = SubSeq(Line(r, ready), q + 1, Len(Line(r, ready)))
              /\ Passed([r EXCEPT ![p] = NoBuf])
                   = Passed(r) \cup {Line(r, ready)[j] : j \in 1 .. q - 1}
        BY <1>0, <1>1, <2>3, <2>4, LineComplete
      <3>2. \E q \in 1 .. Len(line) :
              /\ line[q] = r[p]
              /\ Line([r EXCEPT ![p] = NoBuf], ready)
                   = SubSeq(line, q + 1, Len(line))
              /\ Passed([r EXCEPT ![p] = NoBuf])
                   = passed \cup {line[j] : j \in 1 .. q - 1}
        BY <3>1 DEF line, passed
      <3> QED BY <2>3, <2>5, <2>6, <3>2
    <2> QED BY <2>1, <2>7 DEF QueueStep
  <1>14. ASSUME UNCHANGED <<listVars, workBuf, stopping>> PROVE Goal
    <2>1. newLine = line /\ newPassed = passed
      BY <1>2, <1>14 DEF line, listVars
    <2> QED BY <1>14, <2>1 DEF QueueStep, listVars
  <1>15. Goal
    BY <1>6, <1>7, <1>8, <1>9, <1>10, <1>11, <1>12, <1>13, <1>14, QueueFrame
  <1> QED BY <1>15 DEF r, line, newLine, passed, newPassed

\* Frames reach the callback in the order in which they were queued, one at a
\* time, a missed one never, and nothing is taken back under a callback: the
\* lists, the ring of the channels, the interrupt handler, the completion work
\* and every way to stop implement FrameQueue, for every number of buffers and
\* channels, whatever is lost or removed.
THEOREM FramesOrdered ==
    ASSUME Faithful
    PROVE  Spec => FramesInOrder
  <1>1. Init => Queue0!FQInit
    <2> SUFFICES ASSUME Init PROVE Queue0!FQInit
      OBVIOUS
    <2>1. /\ last \in -1 .. NChannels - 1
          /\ active = [c \in Channels |-> NoBuf]
          /\ active \in [Channels -> Buffers \cup {NoBuf}]
          /\ ready = <<>> /\ done = <<>> /\ workBuf = NoBuf /\ stopping = FALSE
      BY ChannelsAssumption DEF Init
    <2>2. /\ RingOf(active) \in Rings
          /\ \A i \in 1 .. NChannels : RingOf(active)[i] = NoBuf
      BY <2>1, RingPlace
    <2>3. InFlight \o ready = <<>> /\ MissedBuffers = {}
      BY <2>1, <2>2, LineEmpty, Mapped
    <2> QED BY <2>1, <2>3 DEF Queue0!FQInit
  <1>2. /\ WakeupInv /\ WakeupInv' /\ QuietInv /\ OrderInv /\ [Next]_vars
        => [Queue0!FQNext]_(Queue0!fqVars)
    <2> SUFFICES ASSUME WakeupInv, WakeupInv', QuietInv, OrderInv, [Next]_vars
                 PROVE  [Queue0!FQNext]_(Queue0!fqVars)
      OBVIOUS
    <2>1. /\ BufferInv /\ BufferInv' /\ PhaseFlags
          /\ NoCallback /\ SeenLatest
          /\ stopping \in BOOLEAN /\ stopping' \in BOOLEAN
      BY DEF WakeupInv, QuietInv, OrderInv, BufferInv, TypeOK, FlagTypes
    <2> QED BY <2>1, FrameStep, QueueStepMaps
  <1> QED
    BY <1>1, <1>2, WakeupInvariant, QuietInvariant, OrderInvariant, PTL
    DEF Spec, FramesInOrder, Queue0!FQSpec

=============================================================================
