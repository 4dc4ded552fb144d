----------------------------- MODULE SplitterRx -----------------------------
(***************************************************************************)
(* The receiver of the HDMI splitter IT6664 (gc573-it6664-core.c): how its *)
(* driver learns of a picture from events that the chip latches and from   *)
(* levels that move meanwhile, equalizes the input, and what it defers.    *)
(* The delayed work reads the events once, handles the combination it      *)
(* finds as one case, acknowledges what it has read, and then moves the    *)
(* equalizer on.  Sink side, encryption and EDID are in Splitter.          *)
(***************************************************************************)
EXTENDS Naturals

CONSTANTS
    Colours,       \* colour spaces of the source
    Quick,         \* the input moves while the work runs
    Crossing,      \* the equalizer reports a result for a signal of the other class
    Transmitting,  \* the source may transmit before the driver looks
    Coalescing,    \* the input moves while events of the last move are latched
    MaxMoves,      \* bound: moves of the input
    MaxFails,      \* bound: calls that fail
    NotReadyLimit, \* IT6664_RX_EQ_NOT_READY_LIMIT
    RecoveryLimit, \* IT6664_RX_EQ_RECOVERY_LIMIT
    Lane2Limit     \* IT6664_RX_EQ_MANUAL_CANDIDATE_COUNT

ASSUME LimitsAssumption ==
    /\ MaxMoves \in Nat /\ MaxFails \in Nat
    /\ NotReadyLimit \in Nat /\ RecoveryLimit \in Nat /\ Lane2Limit \in Nat

\* What the registers 05 to 12 report: of the source's 5 V; of a signal that
\* starts; of the equalizer; of clock and lock; of packets.
StartBits == {"video", "on", "half", "bank2"}
LockBits == {"scdt", "clock"}
PacketBits == {"avi", "packet"}
Bits == {"source", "result", "noop"} \cup StartBits \cup LockBits \cup PacketBits
Classes == {14, 20}              \* up to 340 MHz, and above: HDMI 1.4 and 2.0
Qualities == {"good", "lane2", "bad", "none"} \* where bit errors are; or no result

VARIABLES
    in,            \* what arrives: 5 V, signal, class, lanes, lock, quality, colour
    latch,         \* events latched in the chip
    engine,        \* the class the chip's equalizer runs for, or 0
    gpio,          \* the line that tells the bridge of a lock
    rx,            \* it6664_rx_state
    pc, irq,       \* the work: its place, what it has read
    moves, fails
chip == <<latch, engine, gpio>>
vars == <<in, chip, rx, pc, irq, moves, fails>>

NoInput ==
    [source |-> FALSE, signal |-> FALSE, class |-> 14, lanes |-> FALSE, level |-> FALSE,
     quality |-> "good", colour |-> "none", told |-> FALSE]
\* it6664_reset_rx_source_epoch
Fresh ==
    [started |-> FALSE, irq12 |-> FALSE, scdt |-> FALSE, csc |-> "none", eq |-> "idle",
     done |-> [c \in Classes |-> FALSE], running |-> 0, path |-> "none",
     sampled |-> FALSE, class |-> 14, delay |-> 0,
     vnr |-> 0, vrec |-> 0, mnr |-> 0, mrec |-> 0, runs |-> 0]
NoIrq == [bits |-> {}, in |-> NoInput]

TypeOK ==
    /\ in.signal => in.source /\ in.colour \in Colours
    /\ in.lanes \/ in.level => in.signal
    /\ in.class \in Classes /\ in.quality \in Qualities
    /\ latch \subseteq Bits /\ irq.bits \subseteq Bits
    /\ engine \in {0} \cup Classes /\ gpio \in BOOLEAN
    /\ rx.started \in BOOLEAN /\ rx.irq12 \in BOOLEAN /\ rx.scdt \in BOOLEAN
    /\ rx.csc \in Colours \cup {"none"}
    /\ rx.eq \in {"idle", "start", "result", "validate", "monitor"}
    /\ rx.done \in [Classes -> BOOLEAN] /\ rx.running \in {0} \cup Classes
    /\ rx.path \in {"none", "restore", "score"} /\ rx.class \in Classes /\ rx.delay \in 0 .. 2
    /\ rx.vnr \in 0 .. NotReadyLimit /\ rx.mnr \in 0 .. NotReadyLimit
    /\ rx.vrec \in 0 .. RecoveryLimit /\ rx.mrec \in 0 .. RecoveryLimit
    /\ rx.runs \in 0 .. Lane2Limit
    /\ pc \in {"rest", "irq", "handle", "ack", "ack12", "eq"}

-----------------------------------------------------------------------------
(* The input moves, and the chip latches what it is to report.  The AVI      *)
(* packet of a new signal or colour comes once the receiver has locked.      *)

MoveAllowed ==
    /\ moves < MaxMoves /\ moves' = moves + 1
    /\ Quick \/ (pc = "rest" /\ (Coalescing \/ latch = {}))
    /\ UNCHANGED <<engine, gpio, rx, pc, irq, fails>>
Latch(bits) == latch' = latch \cup bits
Lost == LockBits \cap ({"clock"} \cup (IF in.level THEN {"scdt"} ELSE {}))
Silent == [in EXCEPT !.signal = FALSE, !.lanes = FALSE, !.level = FALSE]

Plug ==
    /\ MoveAllowed /\ ~in.source
    /\ in' = [in EXCEPT !.source = TRUE] /\ Latch({"source"})
Unplug ==
    /\ MoveAllowed /\ in.source
    /\ in' = [Silent EXCEPT !.source = FALSE]
    /\ Latch({"source"} \cup (IF in.signal THEN Lost ELSE {}))
SignalOn(class, colour) ==
    /\ MoveAllowed /\ in.source /\ ~in.signal
    /\ in' = [in EXCEPT !.signal = TRUE, !.class = class, !.colour = colour, !.told = FALSE]
    /\ \E clock \in {{}, {"clock"}} : Latch(StartBits \cup clock)
SignalOff ==
    /\ MoveAllowed /\ in.signal
    /\ in' = Silent /\ Latch(Lost)
MoveLanes ==
    /\ MoveAllowed /\ in.signal
    /\ in' = [in EXCEPT !.lanes = ~@] /\ Latch({})
MoveLevel ==
    /\ MoveAllowed /\ in.signal
    /\ in.level \/ in.lanes
    /\ in' = [in EXCEPT !.level = ~@] /\ Latch({"scdt"})
MoveQuality(q) ==
    /\ MoveAllowed /\ in.signal /\ q # in.quality
    /\ in' = [in EXCEPT !.quality = q] /\ Latch({})
MoveColour(colour) ==
    /\ MoveAllowed /\ in.level /\ colour # in.colour
    /\ in' = [in EXCEPT !.colour = colour, !.told = FALSE] /\ Latch({})
Report(bit) ==
    /\ MoveAllowed /\ in.level /\ bit \notin latch
    /\ UNCHANGED in /\ Latch({bit})

SendAvi ==
    /\ in.level /\ ~in.told
    /\ Quick \/ (pc = "rest" /\ (Coalescing \/ latch = {}))
    /\ in' = [in EXCEPT !.told = TRUE] /\ Latch({"avi"})
    /\ UNCHANGED <<engine, gpio, rx, pc, irq, moves, fails>>
FinishEngine ==
    /\ engine # 0 /\ in.signal /\ (Crossing \/ engine = in.class)
    /\ Quick \/ pc = "rest"
    /\ engine' = 0 /\ Latch({"result"})
    /\ UNCHANGED <<in, gpio, rx, pc, irq, moves, fails>>

Move ==
    \/ Plug \/ Unplug \/ SignalOff \/ MoveLanes \/ MoveLevel
    \/ \E class \in Classes, colour \in Colours : SignalOn(class, colour)
    \/ \E q \in Qualities : MoveQuality(q)
    \/ \E colour \in Colours : MoveColour(colour)
    \/ \E bit \in {"packet", "noop"} : Report(bit)

-----------------------------------------------------------------------------
(* Calls.  Each maps what driver and chip are when it begins to the set of   *)
(* what they may be when it returns, with its result: 0, "again" or an error. *)

Now == [rx |-> rx, latch |-> latch, engine |-> engine, gpio |-> gpio, ret |-> "ok"]
Error(s) == [s EXCEPT !.ret = "error"]
Again(s) == [s EXCEPT !.ret = "again"]
Call(s) == {s, Error(s)}
Then(outcomes, F(_)) ==
    {s \in outcomes : s.ret # "ok"} \cup UNION {F(s) : s \in {t \in outcomes : t.ret = "ok"}}
If(condition, F(_), s) == IF condition THEN F(s) ELSE {s}

\* Mutant: the bridge is told first.
ScdtLoss_TellsFirst(s) ==
    LET told == [s EXCEPT !.gpio = FALSE]
    IN  {Error(told), [told EXCEPT !.rx.scdt = FALSE, !.rx.sampled = FALSE]}
ScdtLoss(s) ==
    LET unlocked == [s EXCEPT !.rx.scdt = FALSE]
        told == [unlocked EXCEPT !.gpio = FALSE]
    IN  {Error(unlocked), Error(told), [told EXCEPT !.rx.sampled = FALSE]}
ScdtLock(s) ==
    LET told == [s EXCEPT !.gpio = TRUE]
        locked == [told EXCEPT !.rx.scdt = TRUE]
    IN  {Error(s), Error(told), Error(locked), locked}
\* Mutant: a lock is left to the sample of the equalizer.
ScdtIrq_LossOnly(s) ==
    Then(If("clock" \in irq.bits, Call, s),
         LAMBDA t : If("scdt" \in irq.bits /\ ~irq.in.level, ScdtLoss, t))
\* The level that was read with the event decides.
ScdtIrq(s) ==
    Then(If("clock" \in irq.bits, Call, s),
         LAMBDA t : IF "scdt" \notin irq.bits THEN {t}
                    ELSE IF irq.in.level THEN ScdtLock(t) ELSE ScdtLoss(t))

\* Acknowledges part of the start, and only then finds the signal gone.
SignalIrq(s) ==
    LET acked == [s EXCEPT !.latch = @ \ {"video"}]
    IN  {Error(s), Error(acked)} \cup {IF in.signal THEN acked ELSE Again(acked)}
\* Mutant: an equalizer of the other class counts as running.
EqStart_AnyClass(s) ==
    {Error(s), IF ~s.rx.done[irq.in.class] /\ s.rx.running = 0 THEN [s EXCEPT !.rx.eq = "start"] ELSE s}
EqStart(s) ==
    LET c == irq.in.class IN
    {Error(s), IF ~s.rx.done[c] /\ s.rx.running # c THEN [s EXCEPT !.rx.eq = "start"] ELSE s}
SignalStart(s) ==
    Then(Then(Then(Call([s EXCEPT !.rx.started = FALSE, !.rx.irq12 = FALSE, !.rx.csc = "none"]),
                   SignalIrq), EqStart),
         LAMBDA t : {Error(t), [t EXCEPT !.rx.started = TRUE]})

\* it6664_configure_rx_csc reads the packet that is there now.
ConfigureCsc(s) == {Error(s)} \cup Call([s EXCEPT !.rx.csc = in.colour])
Reg12(s) ==
    Then(If("packet" \in irq.bits, Call, s), LAMBDA t : If("avi" \in irq.bits, ConfigureCsc, t))

SignalRestart(s) ==
    Then(Then(Then(SignalStart(s), ScdtIrq),
              LAMBDA t : If("scdt" \notin irq.bits /\ irq.in.lanes /\ irq.in.level, ScdtLock, t)),
         Reg12)

DetectBus(s) == {Error(s), IF in.source THEN s ELSE Again(s)}
SourceLoss(s) ==
    LET quiet == [s EXCEPT !.engine = 0]
    IN  {Error(s), Error(quiet)} \cup Call([quiet EXCEPT !.rx = Fresh])

ResetAndReseed(s) ==
    LET reset == [s EXCEPT !.engine = 0, !.latch = @ \ {"result"}]
        reseeded == [reset EXCEPT
            !.rx.running = 0, !.rx.done[20] = FALSE, !.rx.path = "none", !.rx.eq = "idle",
            !.rx.delay = 0, !.rx.sampled = FALSE]
    IN  {Error(s), Error(reset), Error(reseeded),
         IF in.signal /\ in.class = 20 THEN [reseeded EXCEPT !.rx.eq = "start"] ELSE reseeded}
RearmModeClass(s) ==
    Then(Then(ScdtLoss(s), ResetAndReseed),
         LAMBDA t : {[t EXCEPT !.rx.done = [c \in Classes |-> FALSE], !.rx.eq = "start", !.rx.class = 14,
                               !.rx.vnr = 0, !.rx.vrec = 0, !.rx.mnr = 0, !.rx.mrec = 0, !.rx.runs = 0]})

EqResultIrq(s) == {Error(s)} \cup Call([s EXCEPT !.rx.eq = "result"])
\* Mutant: the packets are left out.
CoalescedStable_NoPackets(s) ==
    Then(Then(Then(If("half" \in irq.bits, EqStart, s),
                   LAMBDA t : If("result" \in irq.bits, EqResultIrq, t)),
              LAMBDA t : If("bank2" \in irq.bits, Call, t)),
         ScdtIrq)
CoalescedStable(s) ==
    Then(Then(Then(Then(If("half" \in irq.bits, EqStart, s),
                        LAMBDA t : If("result" \in irq.bits, EqResultIrq, t)),
                   LAMBDA t : If("bank2" \in irq.bits, Call, t)),
              ScdtIrq), Reg12)

-----------------------------------------------------------------------------
(* it6664_rx_poll: which combination of events and levels is which case      *)

Levels == irq.in.signal /\ irq.in.source /\ irq.in.level
Has(bits) == bits \subseteq irq.bits
AnyOf(bits) == bits \cap irq.bits # {}

ModeClassChange == rx.started /\ rx.sampled /\ irq.in.signal /\ rx.class # irq.in.class
IsSignalStart ==
    \/ irq.bits \ PacketBits = StartBits /\ irq.in.signal
    \/ ~rx.started /\ (Has(StartBits) \/ irq.in.lanes) /\ Levels
IsSignalRestart == rx.started /\ Has({"video", "on", "half"}) /\ AnyOf(LockBits) /\ Levels
IsReg12 == rx.started /\ irq.bits # {} /\ irq.bits \subseteq PacketBits
IsCoalescedStable ==
    /\ rx.started /\ Levels
    /\ ~AnyOf({"source", "video", "on"}) /\ irq.bits \ {"noop"} # {}
IsEqResult ==
    /\ rx.started /\ rx.irq12 /\ rx.running # 0
    /\ Has({"result"}) /\ ~AnyOf({"source", "video", "on", "half"})
    /\ irq.bits \subseteq {"result", "bank2"} \/ (irq.in.signal /\ irq.in.level)
IsScdt == AnyOf(LockBits) /\ irq.bits \subseteq LockBits \cup {"noop"}
IsNoop == irq.bits = {"noop"}

Deferred ==
    ~( \/ ModeClassChange \/ IsSignalStart \/ IsSignalRestart \/ "source" \in irq.bits
       \/ IsReg12 \/ IsCoalescedStable \/ IsEqResult \/ IsScdt \/ IsNoop )
Handled ==
    IF ModeClassChange THEN RearmModeClass(Now)
    ELSE IF IsSignalStart \/ IsSignalRestart THEN SignalRestart(Now)
    ELSE IF "source" \in irq.bits THEN IF irq.in.source THEN DetectBus(Now) ELSE SourceLoss(Now)
    ELSE IF IsReg12 THEN Reg12(Now)
    ELSE IF IsCoalescedStable THEN CoalescedStable(Now)
    ELSE IF IsEqResult THEN EqResultIrq(Now)
    ELSE IF IsScdt THEN ScdtIrq(Now)
    ELSE {Now}

-----------------------------------------------------------------------------
(* it6664_rx_autoeq_poll, from the levels as they are                        *)

\* it6664_start_rx_eq14 and it6664_start_rx_eq20; a signal above 340 MHz is
\* taken to have bit 7 of register 14 set.
StartEq(c, s) ==
    LET begun == [s EXCEPT !.engine = c, !.latch = @ \ {"result", "bank2"}]
    IN  {Error(s), Error(begun),
         [begun EXCEPT !.rx.running = c, !.rx.done[c] = FALSE, !.rx.eq = "idle", !.rx.sampled = FALSE,
                       !.rx.path = IF c = 20 THEN "none" ELSE @]}

\* Without a valid lane the result is read again in the next tick.
FinishEq14(s) ==
    {Error(s),
     IF in.quality = "none" THEN s
     ELSE [s EXCEPT !.rx.running = 0, !.rx.done[14] = TRUE,
                    !.rx.eq = "validate", !.rx.sampled = FALSE]}
FinishEq20(s) ==
    {Error(s)} \cup
    (IF in.quality = "none" THEN {s}
     ELSE {[s EXCEPT !.rx.path = p, !.rx.eq = "validate", !.rx.sampled = FALSE] :
               p \in {"restore", "score"}})

\* Lanes that stay unready start the equalizer again, a few times.
NotReady(s, n, recoveries) ==
    IF s.rx[n] + 1 < NotReadyLimit THEN {[s EXCEPT !.rx[n] = @ + 1]}
    ELSE IF s.rx[recoveries] < RecoveryLimit
         THEN ResetAndReseed([s EXCEPT !.rx[n] = 0, !.rx[recoveries] = @ + 1])
         ELSE {[s EXCEPT !.rx[n] = NotReadyLimit]}

ValidateEq(s) ==
    IF ~in.lanes
    THEN {Error(s)} \cup (IF s.rx.running = 20 /\ in.class = 20 THEN NotReady(s, "vnr", "vrec")
                          ELSE {[s EXCEPT !.rx.vnr = 0]})
    ELSE LET ready == [s EXCEPT !.rx.vnr = 0]
             watched == [ready EXCEPT !.rx.eq = "monitor", !.rx.delay = 2, !.rx.mnr = 0, !.rx.runs = 0,
                                      !.rx.sampled = FALSE]
         IN {Error(s)} \cup
            (IF s.rx.running = 20
             THEN IF in.class # 20 THEN {ready}
                  ELSE {Error(ready), [watched EXCEPT !.rx.done[20] = TRUE, !.rx.running = 0]}
             ELSE IF in.class = 20 THEN {ready} ELSE {watched})

\* it6664_adjust_rx_eq20_lane2 tries the next value on lane 2.
AdjustLane2(s) ==
    LET counted == [s EXCEPT !.rx.runs = @ + 1]
    IN  {Error(counted), [counted EXCEPT !.rx.sampled = FALSE]}

\* A clean sample looks for a lock that no event has reported.
Sampled(s) ==
    IF in.quality = "good" /\ ~s.rx.scdt THEN {Error(s)} \cup If(in.level, ScdtLock, s)
    ELSE IF s.rx.done[20] /\ in.class = 20 /\ s.rx.path = "restore" /\ in.quality = "lane2"
            /\ s.rx.runs < Lane2Limit
         THEN AdjustLane2(s)
         ELSE {s}

MonitorEq(s) ==
    IF s.rx.sampled THEN {s}
    ELSE IF s.rx.delay > 0 THEN {[s EXCEPT !.rx.delay = @ - 1]}
    ELSE IF ~in.signal THEN Call(s)
    ELSE IF ~in.lanes
    THEN {Error(s)} \cup (IF s.rx.done[20] /\ in.class = 20 THEN NotReady(s, "mnr", "mrec")
                          ELSE {[s EXCEPT !.rx.mnr = 0]})
    ELSE LET ready == [s EXCEPT !.rx.mnr = 0]
             clean == IF in.quality = "good" THEN [ready EXCEPT !.rx.vrec = 0, !.rx.mrec = 0] ELSE ready
         IN {Error(s), Error(ready)} \cup
            Sampled([clean EXCEPT !.rx.sampled = TRUE, !.rx.class = in.class])

Equalized ==
    IF ~rx.irq12 THEN {Now}
    ELSE IF rx.eq = "result" THEN IF rx.running = 20 THEN FinishEq20(Now) ELSE FinishEq14(Now)
    ELSE IF rx.eq = "validate" THEN ValidateEq(Now)
    ELSE IF rx.eq = "monitor" THEN MonitorEq(Now)
    ELSE IF rx.eq = "start" /\ in.signal /\ ~rx.done[in.class] /\ rx.running # in.class
         THEN StartEq(in.class, Now)
    ELSE {Now}

-----------------------------------------------------------------------------
(* The work                                                                  *)

Return(outcome, place) ==
    /\ rx' = outcome.rx /\ latch' = outcome.latch
    /\ engine' = outcome.engine /\ gpio' = outcome.gpio
    /\ IF outcome.ret = "error" THEN fails < MaxFails /\ fails' = fails + 1 ELSE UNCHANGED fails
    /\ pc' = IF outcome.ret = "ok" THEN place ELSE "rest"

StartTick ==
    /\ pc = "rest" /\ pc' = "irq"
    /\ UNCHANGED <<in, chip, rx, irq, moves, fails>>
ReadRxIrq ==
    /\ pc = "irq"
    /\ IF latch = {} THEN pc' = "eq" /\ UNCHANGED irq
       ELSE pc' = "handle" /\ irq' = [bits |-> latch, in |-> in]
    /\ UNCHANGED <<in, chip, rx, moves, fails>>
HandleRxIrq ==
    /\ pc = "handle"
    /\ IF Deferred THEN Return(Now, "eq") ELSE \E s \in Handled : Return(s, "ack")
    /\ UNCHANGED <<in, irq, moves>>
AckRxIrq ==
    /\ pc = "ack"
    /\ \E s \in Call([Now EXCEPT !.latch = @ \ (irq.bits \ PacketBits)]) :
           Return(s, IF AnyOf(PacketBits) THEN "ack12" ELSE "eq")
    /\ UNCHANGED <<in, irq, moves>>
AckRxReg12 ==
    /\ pc = "ack12"
    /\ \E s \in {Error(Now), [Now EXCEPT !.latch = @ \ irq.bits, !.rx.irq12 = TRUE]} : Return(s, "eq")
    /\ UNCHANGED <<in, irq, moves>>
RxAutoEqPoll ==
    /\ pc = "eq"
    /\ \E s \in Equalized : Return(s, "rest")
    /\ irq' = NoIrq /\ UNCHANGED <<in, moves>>

Work == StartTick \/ ReadRxIrq \/ HandleRxIrq \/ AckRxIrq \/ AckRxReg12 \/ RxAutoEqPoll

\* A source that transmits already, whatever its events became: plugged, with
\* signal, lanes and lock.
WarmMoves == 4
Warm(class, colour) ==
    [NoInput EXCEPT !.source = TRUE, !.signal = TRUE, !.class = class, !.lanes = TRUE, !.level = TRUE,
                    !.colour = colour]
Init ==
    /\ \/ in = NoInput /\ latch = {} /\ moves = 0
       \/ /\ Transmitting /\ moves = WarmMoves
          /\ in \in {Warm(class, colour) : class \in Classes, colour \in Colours}
          /\ latch \in {{"source"} \cup bits : bits \in SUBSET (StartBits \cup LockBits)}
    /\ engine = 0 /\ gpio = FALSE
    /\ rx = Fresh /\ pc = "rest" /\ irq = NoIrq /\ fails = 0
Next == Move \/ SendAvi \/ FinishEngine \/ Work

Spec == Init /\ [][Next]_vars
-----------------------------------------------------------------------------
Locked == in.level /\ in.lanes /\ in.quality = "good"

\* A picture that stays is found, also one that was there before the driver, or
\* whose events were taken for something else (gc573-it6664-core.c:1332).
PictureFound == <>[]Locked => <>[](rx.scdt /\ gpio)

\* A picture that is gone is not kept on, unless an equalizer result is deferred
\* with its loss (gc573-it6664-core.c:1369).
PictureGone == <>[](in.source /\ ~in.level /\ "result" \notin latch) => <>[]~rx.scdt

\* The equalizer ends with a result for the class of the signal that is there,
\* whatever it was doing when the class changed (gc573-it6664-core.c:1648).
Settled == <>[]Locked => <>[](rx.done[in.class] /\ engine = 0)

\* The outputs are converted from the colours of the picture that is there, not of
\* an earlier one or of none (gc573-it6664-core.c:1953).
ColoursCurrent == <>[]Locked => <>[](rx.csc = in.colour)

\* The equalizer is not started over and over at an input that it cannot help
\* (gc573-it6664-core.c:3167).
RetriesEnd == <>[][engine = 0 => engine' = 0]_vars

\* No lock is acted on that the bridge has not been told of, whichever of the
\* calls fails (gc573-it6664-core.c:1426).
LockTold == rx.scdt => gpio

\* Without errors the chip runs no equalizer but the one whose result the driver
\* waits for (gc573-it6664-core.c:1185).
EngineKnown == engine # 0 /\ fails = 0 => rx.running = engine
=============================================================================
