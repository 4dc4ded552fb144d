--------------------------- MODULE SplitterProofs ---------------------------
(***************************************************************************)
(* What the driver of the splitter believes agrees with the chip, at every *)
(* access and whichever of them fail: for any limits of the retries, any   *)
(* displays and any merge, any number of events, failing calls and sleeps. *)
(***************************************************************************)
EXTENDS SplitterCore, TLAPS

-----------------------------------------------------------------------------
(* The receiver: the handlers and the equalizer's work are relations, from   *)
(* the state of driver and chip to the set of its outcomes                   *)

\* What the input of the receiver can be.
Inputs ==
    [source : BOOLEAN, signal : BOOLEAN, class : Classes, lanes : BOOLEAN, level : BOOLEAN,
     quality : Qualities, colour : Colours \cup {"none"}, told : BOOLEAN]
InputOk(i) ==
    /\ i \in Inputs
    /\ i.signal => i.source /\ i.colour \in Colours
    /\ i.lanes \/ i.level => i.signal

Dones == [Classes -> BOOLEAN]
RxStates ==
    [started : BOOLEAN, irq12 : BOOLEAN, scdt : BOOLEAN, csc : Colours \cup {"none"},
     eq : {"idle", "start", "result", "validate", "monitor"},
     done : Dones, running : {0} \cup Classes,
     path : {"none", "restore", "score"}, sampled : BOOLEAN, class : Classes, delay : 0 .. 2,
     vnr : 0 .. NotReadyLimit, vrec : 0 .. RecoveryLimit,
     mnr : 0 .. NotReadyLimit, mrec : 0 .. RecoveryLimit, runs : 0 .. Lane2Limit]
Outcomes ==
    [rx : RxStates, latch : SUBSET Bits, engine : {0} \cup Classes, gpio : BOOLEAN,
     ret : {"ok", "again", "error"}]

\* What holds of driver and chip between the accesses of a call.
Told(s) == s.rx.scdt => s.gpio
Ended(s) == s.rx.eq \in {"result", "validate", "monitor"} \/ "result" \in s.latch => s.engine = 0
Known(s) == fails = 0 /\ s.ret # "error" /\ s.engine # 0 => s.rx.running = s.engine
Sound(s) == s \in Outcomes /\ Told(s) /\ Ended(s) /\ Known(s)
Good(s) == Sound(s) /\ ("result" \in irq.bits => s.engine = 0)
Context == InputOk(in) /\ InputOk(irq.in) /\ irq.bits \subseteq Bits

\* A field of the driver's record takes any value of its range.
LEMMA Updates ==
    ASSUME NEW r \in RxStates
    PROVE  /\ \A n \in {0} \cup Classes : [r EXCEPT !.running = n] \in RxStates
           /\ \A d \in Dones : [r EXCEPT !.done = d] \in RxStates
           /\ \A p \in {"none", "restore", "score"} : [r EXCEPT !.path = p] \in RxStates
           /\ \A b \in BOOLEAN : [r EXCEPT !.sampled = b] \in RxStates
           /\ \A e \in {"idle", "start", "result", "validate", "monitor"} : [r EXCEPT !.eq = e] \in RxStates
           /\ \A n \in 0 .. 2 : [r EXCEPT !.delay = n] \in RxStates
           /\ \A c \in Classes : [r EXCEPT !.class = c] \in RxStates
           /\ \A n \in 0 .. NotReadyLimit : [r EXCEPT !.vnr = n] \in RxStates /\ [r EXCEPT !.mnr = n] \in RxStates
           /\ \A n \in 0 .. RecoveryLimit : [r EXCEPT !.vrec = n] \in RxStates /\ [r EXCEPT !.mrec = n] \in RxStates
           /\ \A n \in 0 .. Lane2Limit : [r EXCEPT !.runs = n] \in RxStates
 BY DEF RxStates

\* The record after a reset of the input.
LEMMA ResetTyped ==
    ASSUME NEW r \in RxStates, NEW d \in Dones
    PROVE  [r EXCEPT !.running = 0, !.done = d, !.path = "none", !.eq = "idle", !.delay = 0, !.sampled = FALSE] \in RxStates
<1> DEFINE r1 == [r EXCEPT !.running = 0, !.done = d, !.path = "none", !.eq = "idle"]
           r2 == [r1 EXCEPT !.delay = 0]
<1>1. r1 \in RxStates
  BY DEF RxStates
<1> HIDE DEF r1
<1>0. 0 \in 0 .. 2
  OBVIOUS
<1>2. r2 \in RxStates
  BY <1>0, <1>1, Updates
<1> HIDE DEF r2
<1>3. [r2 EXCEPT !.sampled = FALSE] \in RxStates
  BY <1>2, Updates
<1> QED BY <1>3 DEF r1, r2

\* The record after the equalizer is rearmed.
LEMMA RearmTyped ==
    ASSUME NEW u \in RxStates, NEW d \in Dones
    PROVE  [u EXCEPT !.done = d, !.eq = "start", !.class = 14, !.vnr = 0, !.vrec = 0, !.mnr = 0, !.mrec = 0, !.runs = 0] \in RxStates
<1> DEFINE r1 == [u EXCEPT !.done = d, !.eq = "start", !.class = 14]
           r2 == [r1 EXCEPT !.vnr = 0]
           r3 == [r2 EXCEPT !.vrec = 0]
           r4 == [r3 EXCEPT !.mnr = 0]
           r5 == [r4 EXCEPT !.mrec = 0]
           r6 == [r5 EXCEPT !.runs = 0]
<1>1. r1 \in RxStates
  BY DEF RxStates, Classes
<1>0. 0 \in 0 .. NotReadyLimit /\ 0 \in 0 .. RecoveryLimit /\ 0 \in 0 .. Lane2Limit
  BY LimitsAssumption
<1> HIDE DEF r1
<1>2. r2 \in RxStates
  BY <1>0, <1>1, Updates
<1> HIDE DEF r2
<1>3. r3 \in RxStates
  BY <1>0, <1>2, Updates
<1> HIDE DEF r3
<1>4. r4 \in RxStates
  BY <1>0, <1>3, Updates
<1> HIDE DEF r4
<1>5. r5 \in RxStates
  BY <1>0, <1>4, Updates
<1> HIDE DEF r5
<1>6. r6 \in RxStates
  BY <1>0, <1>5, Updates
<1> QED BY <1>6 DEF r1, r2, r3, r4, r5

\* A call that fails changes nothing; what it left keeps what holds.
LEMMA ErrorGood == \A s : Good(s) => Good(Error(s)) /\ Error(s).ret = "error"
  BY DEF Good, Sound, Told, Ended, Known, Outcomes, Error

\* A handler to be called again.
LEMMA AgainGood == \A s : Good(s) /\ s.ret = "ok" => Good(Again(s))
  BY DEF Good, Sound, Told, Ended, Known, Outcomes, Again

\* A call to the chip succeeds or fails.
LEMMA CallGood == \A s : Good(s) => \A t \in Call(s) : Good(t)
  BY ErrorGood DEF Call

\* Updates that leave lock and equalizer alone.
LEMMA FieldsGood ==
    ASSUME NEW s, Good(s)
    PROVE  /\ \A b \in BOOLEAN : Good([s EXCEPT !.rx.sampled = b]) /\ Good([s EXCEPT !.rx.started = b])
           /\ \A c \in Colours \cup {"none"} : Good([s EXCEPT !.rx.csc = c])
           /\ \A l \in SUBSET s.latch : Good([s EXCEPT !.latch = l])
           /\ Good([s EXCEPT !.rx.eq = "start"])
           /\ s.engine = 0 => Good([s EXCEPT !.rx.eq = "result"])
  <1>1. \A b \in BOOLEAN : Good([s EXCEPT !.rx.sampled = b])
    BY DEF Good, Sound, Outcomes, RxStates, Told, Ended, Known
  <1>2. \A b \in BOOLEAN : Good([s EXCEPT !.rx.started = b])
    BY DEF Good, Sound, Outcomes, RxStates, Told, Ended, Known
  <1>3. \A c \in Colours \cup {"none"} : Good([s EXCEPT !.rx.csc = c])
    BY DEF Good, Sound, Outcomes, RxStates, Told, Ended, Known
  <1>4. \A l \in SUBSET s.latch : Good([s EXCEPT !.latch = l])
    BY DEF Good, Sound, Outcomes, RxStates, Told, Ended, Known
  <1>5. Good([s EXCEPT !.rx.eq = "start"])
    BY DEF Good, Sound, Outcomes, RxStates, Told, Ended, Known
  <1>6. s.engine = 0 => Good([s EXCEPT !.rx.eq = "result"])
    BY DEF Good, Sound, Outcomes, RxStates, Told, Ended, Known
  <1> QED BY <1>1, <1>2, <1>3, <1>4, <1>5, <1>6

\* A lost lock: the bridge is told after the driver forgets it, and before.
LEMMA ScdtLossGood == \A s : Good(s) => \A t \in ScdtLoss(s) : Good(t)
<1> SUFFICES ASSUME NEW s, Good(s) PROVE \A t \in ScdtLoss(s) : Good(t)
  OBVIOUS
<1> DEFINE unlocked == [s EXCEPT !.rx.scdt = FALSE]
           told == [unlocked EXCEPT !.gpio = FALSE]
<1>1. Good(unlocked) /\ unlocked.rx.scdt = FALSE
  BY DEF Good, Sound, Outcomes, RxStates, Ended, Told, Known
<1>2. ScdtLoss(s) = {Error(unlocked), Error(told), [told EXCEPT !.rx.sampled = FALSE]}
  BY DEF ScdtLoss
<1> HIDE DEF unlocked
<1>3. Good(told)
  BY <1>1 DEF Good, Sound, Outcomes, RxStates, Ended, Told, Known
<1> HIDE DEF told
<1> QED BY <1>1, <1>2, <1>3, ErrorGood, FieldsGood

\* A lock: the driver remembers it once the bridge knows.
LEMMA ScdtLockGood == \A s : Good(s) => \A t \in ScdtLock(s) : Good(t)
<1> SUFFICES ASSUME NEW s, Good(s) PROVE \A t \in ScdtLock(s) : Good(t)
  OBVIOUS
<1> DEFINE told == [s EXCEPT !.gpio = TRUE]
           locked == [told EXCEPT !.rx.scdt = TRUE]
<1>1. Good(told) /\ told.gpio = TRUE
  BY DEF Good, Sound, Outcomes, RxStates, Ended, Told, Known
<1>2. ScdtLock(s) = {Error(s), Error(told), Error(locked), locked}
  BY DEF ScdtLock
<1> HIDE DEF told
<1>3. Good(locked)
  <2>1. locked \in Outcomes
    BY <1>1 DEF Good, Sound, Outcomes, RxStates
  <2>2. locked.rx.eq = told.rx.eq /\ locked.rx.running = told.rx.running /\ locked.latch = told.latch /\ locked.ret = told.ret
        /\ locked.engine = told.engine
    BY <1>1 DEF Good, Sound, Outcomes, RxStates
  <2>3. Told(locked)
    BY <1>1 DEF Good, Sound, Outcomes, RxStates, Told
  <2> QED BY <1>1, <2>1, <2>2, <2>3 DEF Good, Sound, Outcomes, RxStates, Ended, Told, Known
<1> HIDE DEF locked
<1> QED BY <1>1, <1>2, <1>3, ErrorGood

\* The interrupt of the lock, either way.
LEMMA ScdtIrqGood == \A s : Good(s) => \A t \in ScdtIrq(s) : Good(t)
  BY CallGood, ScdtLossGood, ScdtLockGood DEF ScdtIrq, Then, If

\* The interrupt of the signal.
LEMMA SignalIrqGood == \A s : Good(s) /\ s.ret = "ok" => \A t \in SignalIrq(s) : Good(t)
<1> SUFFICES ASSUME NEW s, Good(s), s.ret = "ok" PROVE \A t \in SignalIrq(s) : Good(t)
  OBVIOUS
<1> DEFINE acked == [s EXCEPT !.latch = @ \ {"video"}]
<1>1. Good(acked) /\ acked.ret = "ok"
  BY FieldsGood DEF Good, Sound, Outcomes
<1>2. SignalIrq(s) = {Error(s), Error(acked)} \cup {IF in.signal THEN acked ELSE Again(acked)}
  BY DEF SignalIrq
<1> HIDE DEF acked
<1> QED BY <1>1, <1>2, ErrorGood, AgainGood

\* The interrupt that asks for an equalizer.
LEMMA EqStartGood == Context => \A s : Good(s) => \A t \in EqStart(s) : Good(t)
  BY ErrorGood, FieldsGood DEF EqStart

\* A signal begins.
LEMMA SignalStartGood == Context => \A s : Good(s) => \A t \in SignalStart(s) : Good(t)
<1> SUFFICES ASSUME Context, NEW s, Good(s) PROVE \A t \in SignalStart(s) : Good(t)
  OBVIOUS
<1> DEFINE begun == [s EXCEPT !.rx.started = FALSE, !.rx.irq12 = FALSE, !.rx.csc = "none"]
           F(t) == {Error(t), [t EXCEPT !.rx.started = TRUE]}
<1>1. Good(begun)
  BY DEF Good, Sound, Outcomes, RxStates, Ended, Told, Known
<1>2. \A u : Good(u) => \A t \in F(u) : Good(t)
  BY ErrorGood, FieldsGood
<1>3. SignalStart(s) = Then(Then(Then(Call(begun), SignalIrq), EqStart), F)
  BY DEF SignalStart, Then
<1> HIDE DEF begun, F
<1>4. \A t \in Call(begun) : Good(t)
  BY <1>1, CallGood
<1>5. \A t \in Then(Call(begun), SignalIrq) : Good(t)
  BY <1>4, SignalIrqGood DEF Then
<1>6. \A t \in Then(Then(Call(begun), SignalIrq), EqStart) : Good(t)
  BY <1>5, EqStartGood DEF Then
<1> QED BY <1>2, <1>3, <1>6 DEF Then

\* The interrupts of register 12 are acknowledged.
LEMMA Reg12Good == Context => \A s : Good(s) => \A t \in Reg12(s) : Good(t)
<1> SUFFICES ASSUME Context PROVE \A s : Good(s) => \A t \in Reg12(s) : Good(t)
  OBVIOUS
<1>1. \A s : Good(s) => \A t \in ConfigureCsc(s) : Good(t)
  BY ErrorGood, CallGood, FieldsGood DEF ConfigureCsc, Context, InputOk, Inputs
<1> QED BY <1>1, CallGood DEF Reg12, Then, If

\* A signal begins again.
LEMMA SignalRestartGood == Context => \A s : Good(s) => \A t \in SignalRestart(s) : Good(t)
<1> SUFFICES ASSUME Context, NEW s, Good(s) PROVE \A t \in SignalRestart(s) : Good(t)
  OBVIOUS
<1> DEFINE F(t) == If("scdt" \notin irq.bits /\ irq.in.lanes /\ irq.in.level, ScdtLock, t)
<1>1. \A u : Good(u) => \A t \in F(u) : Good(t)
  BY ScdtLockGood DEF If
<1>2. SignalRestart(s) = Then(Then(Then(SignalStart(s), ScdtIrq), F), Reg12)
  BY DEF SignalRestart, Then
<1> HIDE DEF F
<1>3. \A t \in Then(SignalStart(s), ScdtIrq) : Good(t)
  BY SignalStartGood, ScdtIrqGood DEF Then
<1>4. \A t \in Then(Then(SignalStart(s), ScdtIrq), F) : Good(t)
  BY <1>1, <1>3 DEF Then
<1> QED BY <1>2, <1>4, Reg12Good DEF Then

\* The source is gone.
LEMMA SourceLossGood == \A s : Good(s) => \A t \in SourceLoss(s) : Good(t)
<1> SUFFICES ASSUME NEW s, Good(s) PROVE \A t \in SourceLoss(s) : Good(t)
  OBVIOUS
<1> DEFINE quiet == [s EXCEPT !.engine = 0]
           lost == [quiet EXCEPT !.rx = Fresh]
<1>1. Fresh \in RxStates /\ Fresh.scdt = FALSE /\ Fresh.eq = "idle"
  BY LimitsAssumption DEF Fresh, RxStates, Classes, Dones
<1>2. Good(quiet) /\ quiet.engine = 0
  BY DEF Good, Sound, Outcomes, RxStates, Told, Ended, Known
<1>3. SourceLoss(s) = {Error(s), Error(quiet)} \cup Call(lost)
  BY DEF SourceLoss
<1> HIDE DEF quiet
<1>4. Good(lost)
  <2>1. lost \in Outcomes /\ lost.rx = Fresh /\ lost.engine = 0 /\ lost.latch = quiet.latch
    BY <1>1, <1>2 DEF Good, Sound, Outcomes
  <2> QED BY <1>1, <2>1 DEF Good, Sound, Told, Ended, Known
<1> HIDE DEF lost
<1> QED BY <1>2, <1>3, <1>4, ErrorGood, CallGood

\* The input is reset: the engine stops with it.
LEMMA ResetGood == \A s : Good(s) => \A t \in ResetAndReseed(s) : Good(t)
<1> SUFFICES ASSUME NEW s, Good(s) PROVE \A t \in ResetAndReseed(s) : Good(t)
  OBVIOUS
<1> DEFINE reset == [s EXCEPT !.engine = 0, !.latch = @ \ {"result"}]
           reseeded == [reset EXCEPT
                !.rx.running = 0, !.rx.done[20] = FALSE, !.rx.path = "none", !.rx.eq = "idle",
                !.rx.delay = 0, !.rx.sampled = FALSE]
<1>1. Good(reset) /\ reset.engine = 0
  BY DEF Good, Sound, Outcomes, RxStates, Told, Ended, Known
<1>2. ResetAndReseed(s) =
        {Error(s), Error(reset), Error(reseeded),
         IF in.signal /\ in.class = 20 THEN [reseeded EXCEPT !.rx.eq = "start"] ELSE reseeded}
  BY DEF ResetAndReseed
<1> HIDE DEF reset
<1>3. Good(reseeded)
  <2> DEFINE off == [reset.rx.done EXCEPT ![20] = FALSE]
             rest == [reset.rx EXCEPT !.running = 0, !.done = off, !.path = "none", !.eq = "idle",
                                      !.delay = 0, !.sampled = FALSE]
  <2>1. reset \in Outcomes /\ reset.rx \in RxStates /\ reset.rx.done \in Dones
    BY <1>1 DEF Good, Sound, Outcomes, RxStates
  <2>2. off \in Dones
    BY <2>1 DEF Dones
  <2>3. reseeded = [reset EXCEPT !.rx = rest]
    BY <2>1 DEF Outcomes, RxStates
  <2> HIDE DEF off, reseeded
  <2>4. rest \in RxStates /\ rest.eq = "idle" /\ rest.running = 0 /\ rest.scdt = reset.rx.scdt
    <3>1. rest \in RxStates
      BY <2>1, <2>2, ResetTyped
    <3>2. rest.eq = "idle" /\ rest.running = 0
      BY <2>1 DEF RxStates
    <3>3. rest.scdt = reset.rx.scdt
      BY <2>1 DEF RxStates
    <3> QED BY <3>1, <3>2, <3>3
  <2> HIDE DEF rest
  <2>5. /\ reseeded \in Outcomes /\ reseeded.rx = rest /\ reseeded.engine = 0
        /\ reseeded.latch = reset.latch /\ reseeded.gpio = reset.gpio
    BY <1>1, <2>1, <2>3, <2>4 DEF Outcomes
  <2> QED BY <1>1, <2>4, <2>5 DEF Good, Sound, Told, Ended, Known
<1> HIDE DEF reseeded
<1> QED BY <1>1, <1>2, <1>3, ErrorGood, FieldsGood

\* The mode class is armed again.
LEMMA RearmGood == \A s : Good(s) => \A t \in RearmModeClass(s) : Good(t)
<1> SUFFICES ASSUME NEW s, Good(s) PROVE \A t \in RearmModeClass(s) : Good(t)
  OBVIOUS
<1> DEFINE F(t) == {[t EXCEPT !.rx.done = [c \in Classes |-> FALSE], !.rx.eq = "start", !.rx.class = 14,
                    !.rx.vnr = 0, !.rx.vrec = 0, !.rx.mnr = 0, !.rx.mrec = 0, !.rx.runs = 0]}
<1>1. ASSUME NEW u, Good(u) PROVE \A t \in F(u) : Good(t)
  <2> DEFINE none == [c \in Classes |-> FALSE]
             again == [u.rx EXCEPT !.done = none, !.eq = "start", !.class = 14, !.vnr = 0, !.vrec = 0,
                                   !.mnr = 0, !.mrec = 0, !.runs = 0]
  <2>1. u \in Outcomes /\ u.rx \in RxStates
    BY <1>1 DEF Good, Sound, Outcomes
  <2>2. none \in Dones /\ 14 \in Classes
    BY DEF Classes, Dones
  <2>3. F(u) = {[u EXCEPT !.rx = again]}
    BY <2>1 DEF Outcomes, RxStates
  <2> HIDE DEF none, F
  <2>4. again \in RxStates /\ again.eq = "start" /\ again.running = u.rx.running /\ again.scdt = u.rx.scdt
    <3>1. again \in RxStates
      BY <2>1, <2>2, RearmTyped
    <3>2. again.eq = "start" /\ again.running = u.rx.running
      BY <2>1 DEF RxStates
    <3>3. again.scdt = u.rx.scdt
      BY <2>1 DEF RxStates
    <3> QED BY <3>1, <3>2, <3>3
  <2> HIDE DEF again
  <2>5. Good([u EXCEPT !.rx = again])
    BY <1>1, <2>1, <2>4 DEF Outcomes, Good, Sound, Told, Ended, Known
  <2> QED BY <2>3, <2>5
<1>2. RearmModeClass(s) = Then(Then(ScdtLoss(s), ResetAndReseed), F)
  BY DEF RearmModeClass, Then
<1> HIDE DEF F
<1>3. \A t \in Then(ScdtLoss(s), ResetAndReseed) : Good(t)
  BY ScdtLossGood, ResetGood DEF Then
<1> QED BY <1>1, <1>2, <1>3 DEF Then

\* The result of the equalizer, which then no longer runs.
LEMMA EqResultGood == \A s : Good(s) /\ s.engine = 0 => \A t \in EqResultIrq(s) : Good(t)
  BY ErrorGood, CallGood, FieldsGood DEF EqResultIrq

\* Interrupts handled together.
LEMMA CoalescedGood == Context => \A s : Good(s) => \A t \in CoalescedStable(s) : Good(t)
<1> SUFFICES ASSUME Context, NEW s, Good(s) PROVE \A t \in CoalescedStable(s) : Good(t)
  OBVIOUS
<1> DEFINE F(t) == If("result" \in irq.bits, EqResultIrq, t)
           G(t) == If("bank2" \in irq.bits, Call, t)
           begun == If("half" \in irq.bits, EqStart, s)
<1>1. \A u : Good(u) => \A t \in F(u) : Good(t)
  BY EqResultGood DEF If, Good
<1>2. \A u : Good(u) => \A t \in G(u) : Good(t)
  BY CallGood DEF If
<1>3. CoalescedStable(s) = Then(Then(Then(Then(begun, F), G), ScdtIrq), Reg12)
  BY DEF CoalescedStable, Then
<1>4. \A t \in begun : Good(t)
  BY EqStartGood DEF If
<1> HIDE DEF F, G, begun
<1>5. \A t \in Then(begun, F) : Good(t)
  BY <1>1, <1>4 DEF Then
<1>6. \A t \in Then(Then(begun, F), G) : Good(t)
  BY <1>2, <1>5 DEF Then
<1>7. \A t \in Then(Then(Then(begun, F), G), ScdtIrq) : Good(t)
  BY <1>6, ScdtIrqGood DEF Then
<1> QED BY <1>3, <1>7, Reg12Good DEF Then

\* Whatever interrupts a tick finds, their handlers keep what holds.
LEMMA HandledGood == Context /\ Good(Now) => \A t \in Handled : Good(t)
<1> SUFFICES ASSUME Context, Good(Now) PROVE \A t \in Handled : Good(t)
  OBVIOUS
<1>1. \A t \in DetectBus(Now) : Good(t)
  BY ErrorGood, AgainGood DEF DetectBus, Now
<1>2. IsEqResult => Now.engine = 0
  BY DEF IsEqResult, Has, Good
<1> HIDE DEF Now
<1> QED BY <1>1, <1>2, RearmGood, SignalRestartGood, SourceLossGood, Reg12Good, CoalescedGood,
           EqResultGood, ScdtIrqGood DEF Handled

-----------------------------------------------------------------------------
(* The equalizer is moved on                                                 *)

\* The equalizer starts; the driver waits for the class it started.
LEMMA StartEqSound ==
    ASSUME NEW s, Good(s), s.rx.eq = "start", NEW c \in Classes
    PROVE  \A t \in StartEq(c, s) : Sound(t)
<1> DEFINE begun == [s EXCEPT !.engine = c, !.latch = @ \ {"result", "bank2"}]
           off == [begun.rx.done EXCEPT ![c] = FALSE]
           set == [begun.rx EXCEPT !.running = c, !.done = off, !.eq = "idle", !.sampled = FALSE,
                                   !.path = IF c = 20 THEN "none" ELSE @]
           started == [begun EXCEPT !.rx.running = c, !.rx.done[c] = FALSE, !.rx.eq = "idle",
                                    !.rx.sampled = FALSE, !.rx.path = IF c = 20 THEN "none" ELSE @]
<1>1. /\ begun \in Outcomes /\ begun.rx = s.rx /\ begun.engine = c
      /\ begun.latch = s.latch \ {"result", "bank2"} /\ begun.gpio = s.gpio
  BY DEF Good, Sound, Outcomes
<1>2. StartEq(c, s) = {Error(s), Error(begun), started}
  BY DEF StartEq
<1> HIDE DEF begun
<1>3. Sound(Error(begun))
  BY <1>1 DEF Good, Sound, Outcomes, Told, Ended, Known, Error
<1>4. begun.rx \in RxStates /\ begun.rx.done \in Dones
  BY <1>1 DEF Outcomes, RxStates
<1>5. off \in Dones
  BY <1>4 DEF Dones
<1>6. started = [begun EXCEPT !.rx = set]
  BY <1>1, <1>4 DEF Outcomes, RxStates
<1> HIDE DEF off, started
<1>7. /\ set \in RxStates
  BY <1>4, <1>5 DEF RxStates
<1>8. set.eq = "idle" /\ set.running = c
  BY <1>4 DEF RxStates
<1>9. set.scdt = s.rx.scdt
  BY <1>1, <1>4 DEF RxStates
<1> HIDE DEF set
<1>10. /\ started \in Outcomes /\ started.rx = set /\ started.engine = c
       /\ started.latch = begun.latch /\ started.gpio = begun.gpio
  BY <1>1, <1>6, <1>7 DEF Outcomes
<1>11. Sound(started)
  BY <1>1, <1>8, <1>9, <1>10 DEF Good, Sound, Told, Ended, Known
<1> QED BY <1>2, <1>3, <1>11, ErrorGood DEF Good

\* The counters of the retries change nothing else.
LEMMA CountersGood ==
    ASSUME NEW s, Good(s)
    PROVE  /\ \A n \in 0 .. NotReadyLimit : Good([s EXCEPT !.rx.vnr = n]) /\ Good([s EXCEPT !.rx.mnr = n])
           /\ \A n \in 0 .. RecoveryLimit : Good([s EXCEPT !.rx.vrec = n]) /\ Good([s EXCEPT !.rx.mrec = n])
           /\ \A n \in 0 .. Lane2Limit : Good([s EXCEPT !.rx.runs = n])
           /\ \A n \in 0 .. 2 : Good([s EXCEPT !.rx.delay = n])
           /\ \A c \in Classes : Good([s EXCEPT !.rx.class = c])
           /\ \A p \in {"restore", "score"} : Good([s EXCEPT !.rx.path = p])
<1>1. \A n \in 0 .. NotReadyLimit : Good([s EXCEPT !.rx.vnr = n])
  BY DEF Good, Sound, Outcomes, RxStates, Told, Ended, Known
<1>2. \A n \in 0 .. NotReadyLimit : Good([s EXCEPT !.rx.mnr = n])
  BY DEF Good, Sound, Outcomes, RxStates, Told, Ended, Known
<1>3. \A n \in 0 .. RecoveryLimit : Good([s EXCEPT !.rx.vrec = n])
  BY DEF Good, Sound, Outcomes, RxStates, Told, Ended, Known
<1>4. \A n \in 0 .. RecoveryLimit : Good([s EXCEPT !.rx.mrec = n])
  BY DEF Good, Sound, Outcomes, RxStates, Told, Ended, Known
<1>5. \A n \in 0 .. Lane2Limit : Good([s EXCEPT !.rx.runs = n])
  BY DEF Good, Sound, Outcomes, RxStates, Told, Ended, Known
<1>6. \A n \in 0 .. 2 : Good([s EXCEPT !.rx.delay = n])
  BY DEF Good, Sound, Outcomes, RxStates, Told, Ended, Known
<1>7. \A c \in Classes : Good([s EXCEPT !.rx.class = c])
  BY DEF Good, Sound, Outcomes, RxStates, Told, Ended, Known
<1>8. \A p \in {"restore", "score"} : Good([s EXCEPT !.rx.path = p])
  BY DEF Good, Sound, Outcomes, RxStates, Told, Ended, Known
<1> QED BY <1>1, <1>2, <1>3, <1>4, <1>5, <1>6, <1>7, <1>8

\* While the chip's equalizer does not run.
Still(s) == Good(s) /\ s.engine = 0

\* Updates that a stopped engine allows.
LEMMA StillGood ==
    ASSUME NEW s, Still(s)
    PROVE  /\ Still([s EXCEPT !.rx.running = 0])
           /\ \A c \in Classes : Still([s EXCEPT !.rx.done[c] = TRUE])
           /\ \A e \in {"validate", "monitor"} : Still([s EXCEPT !.rx.eq = e])
           /\ Still([s EXCEPT !.rx.sampled = FALSE])
           /\ Still([s EXCEPT !.rx.delay = 2])
           /\ Still([s EXCEPT !.rx.mnr = 0])
           /\ Still([s EXCEPT !.rx.vnr = 0])
           /\ Still([s EXCEPT !.rx.runs = 0])
<1>0. 0 \in 0 .. NotReadyLimit /\ 0 \in 0 .. Lane2Limit /\ 2 \in 0 .. 2
  BY LimitsAssumption
<1>1. s \in Outcomes /\ s.rx.done \in Dones
  BY DEF Still, Good, Sound, Outcomes, RxStates
<1>2. Still([s EXCEPT !.rx.running = 0])
  BY DEF Still, Good, Sound, Outcomes, RxStates, Told, Ended, Known
<1>3. ASSUME NEW c \in Classes PROVE Still([s EXCEPT !.rx.done[c] = TRUE])
  <2> DEFINE d == [s.rx.done EXCEPT ![c] = TRUE]
  <2>1. d \in Dones
    BY <1>1 DEF Dones
  <2>2. [s EXCEPT !.rx.done[c] = TRUE] = [s EXCEPT !.rx.done = d]
    BY <1>1 DEF Outcomes, RxStates
  <2> HIDE DEF d
  <2>3. Still([s EXCEPT !.rx.done = d])
    BY <2>1 DEF Still, Good, Sound, Outcomes, RxStates, Told, Ended, Known
  <2> QED BY <2>2, <2>3
<1>4. ASSUME NEW e \in {"validate", "monitor"} PROVE Still([s EXCEPT !.rx.eq = e])
  BY DEF Still, Good, Sound, Outcomes, RxStates, Told, Ended, Known
<1>5. /\ Still([s EXCEPT !.rx.sampled = FALSE]) /\ Still([s EXCEPT !.rx.delay = 2])
      /\ Still([s EXCEPT !.rx.mnr = 0]) /\ Still([s EXCEPT !.rx.vnr = 0]) /\ Still([s EXCEPT !.rx.runs = 0])
  BY <1>0, <1>1, FieldsGood, CountersGood DEF Still, Outcomes
<1> QED BY <1>2, <1>3, <1>4, <1>5

\* The result of an equalizer for HDMI 1.4.
LEMMA FinishEq14Good == ASSUME NEW s, Still(s) PROVE \A t \in FinishEq14(s) : Good(t)
<1> DEFINE s1 == [s EXCEPT !.rx.running = 0]
           s2 == [s1 EXCEPT !.rx.done[14] = TRUE]
           s3 == [s2 EXCEPT !.rx.eq = "validate"]
           s4 == [s3 EXCEPT !.rx.sampled = FALSE]
<1>1. FinishEq14(s) = {Error(s), IF in.quality = "none" THEN s ELSE s4}
  BY DEF FinishEq14
<1>2. Still(s1)
  BY StillGood
<1> HIDE DEF s1
<1>3. Still(s2)
  BY <1>2, StillGood DEF Classes
<1> HIDE DEF s2
<1>4. Still(s3)
  BY <1>3, StillGood
<1> HIDE DEF s3
<1>5. Still(s4)
  BY <1>4, StillGood
<1> HIDE DEF s4
<1> QED BY <1>1, <1>5, ErrorGood DEF Still

\* ... and for HDMI 2.0.
LEMMA FinishEq20Good == ASSUME NEW s, Still(s) PROVE \A t \in FinishEq20(s) : Good(t)
<1>1. ASSUME NEW p \in {"restore", "score"}
      PROVE  Good([s EXCEPT !.rx.path = p, !.rx.eq = "validate", !.rx.sampled = FALSE])
  <2> DEFINE s1 == [s EXCEPT !.rx.path = p]
             s2 == [s1 EXCEPT !.rx.eq = "validate"]
             s3 == [s2 EXCEPT !.rx.sampled = FALSE]
  <2>1. Still(s1)
    BY CountersGood DEF Still, Good, Sound, Outcomes
  <2> HIDE DEF s1
  <2>2. Still(s2)
    BY <2>1, StillGood
  <2> HIDE DEF s2
  <2>3. Still(s3)
    BY <2>2, StillGood
  <2> QED BY <2>3 DEF s1, s2, Still
<1> QED BY <1>1, ErrorGood DEF FinishEq20, Still

\* Counters begin in their ranges.
LEMMA Zeros == 0 \in 0 .. NotReadyLimit /\ 0 \in 0 .. RecoveryLimit /\ 0 \in 0 .. Lane2Limit
  BY LimitsAssumption

\* A picture that is not ready is waited for, or recovered.
LEMMA NotReadyGood ==
    ASSUME NEW s, Good(s)
    PROVE  /\ \A t \in NotReady(s, "vnr", "vrec") : Good(t)
           /\ \A t \in NotReady(s, "mnr", "mrec") : Good(t)
<1>1. /\ s.rx.vnr \in 0 .. NotReadyLimit /\ s.rx.mnr \in 0 .. NotReadyLimit
      /\ s.rx.vrec \in 0 .. RecoveryLimit /\ s.rx.mrec \in 0 .. RecoveryLimit
  BY DEF Good, Sound, Outcomes, RxStates
<1>2. \A t \in NotReady(s, "vnr", "vrec") : Good(t)
  <2> DEFINE s1 == [s EXCEPT !.rx.vnr = 0]
             s2 == [s1 EXCEPT !.rx.vrec = @ + 1]
  <2>1. CASE s.rx.vnr + 1 < NotReadyLimit
    <3>1. NotReady(s, "vnr", "vrec") = {[s EXCEPT !.rx.vnr = s.rx.vnr + 1]}
      BY <2>1 DEF NotReady
    <3>2. s.rx.vnr + 1 \in 0 .. NotReadyLimit
      BY <1>1, <2>1, LimitsAssumption
    <3>3. Good([s EXCEPT !.rx.vnr = s.rx.vnr + 1])
      BY <3>2, CountersGood
    <3> HIDE DEF Good
    <3> QED BY <3>1, <3>3
  <2>2. CASE ~(s.rx.vnr + 1 < NotReadyLimit) /\ s.rx.vrec < RecoveryLimit
    <3>1. NotReady(s, "vnr", "vrec") = ResetAndReseed(s2)
      BY <2>2 DEF NotReady
    <3>2. Good(s1)
      BY Zeros, CountersGood
    <3>3. s1.rx.vrec = s.rx.vrec
      BY DEF Good, Sound, Outcomes, RxStates
    <3> HIDE DEF s1
    <3>4. s1.rx.vrec + 1 \in 0 .. RecoveryLimit
      BY <1>1, <2>2, <3>3, LimitsAssumption
    <3>5. Good(s2)
      BY <3>2, <3>4, CountersGood
    <3> HIDE DEF s2
    <3> QED BY <3>1, <3>5, ResetGood
  <2>3. CASE ~(s.rx.vnr + 1 < NotReadyLimit) /\ ~(s.rx.vrec < RecoveryLimit)
    <3>1. NotReady(s, "vnr", "vrec") = {[s EXCEPT !.rx.vnr = NotReadyLimit]}
      BY <2>3 DEF NotReady
    <3>2. NotReadyLimit \in 0 .. NotReadyLimit
      BY LimitsAssumption
    <3>3. Good([s EXCEPT !.rx.vnr = NotReadyLimit])
      BY <3>2, CountersGood
    <3> QED BY <3>1, <3>3
  <2> QED BY <2>1, <2>2, <2>3
<1>3. \A t \in NotReady(s, "mnr", "mrec") : Good(t)
  <2> DEFINE s1 == [s EXCEPT !.rx.mnr = 0]
             s2 == [s1 EXCEPT !.rx.mrec = @ + 1]
  <2>1. CASE s.rx.mnr + 1 < NotReadyLimit
    <3>1. NotReady(s, "mnr", "mrec") = {[s EXCEPT !.rx.mnr = s.rx.mnr + 1]}
      BY <2>1 DEF NotReady
    <3>2. s.rx.mnr + 1 \in 0 .. NotReadyLimit
      BY <1>1, <2>1, LimitsAssumption
    <3>3. Good([s EXCEPT !.rx.mnr = s.rx.mnr + 1])
      BY <3>2, CountersGood
    <3> HIDE DEF Good
    <3> QED BY <3>1, <3>3
  <2>2. CASE ~(s.rx.mnr + 1 < NotReadyLimit) /\ s.rx.mrec < RecoveryLimit
    <3>1. NotReady(s, "mnr", "mrec") = ResetAndReseed(s2)
      BY <2>2 DEF NotReady
    <3>2. Good(s1)
      BY Zeros, CountersGood
    <3>3. s1.rx.mrec = s.rx.mrec
      BY DEF Good, Sound, Outcomes, RxStates
    <3> HIDE DEF s1
    <3>4. s1.rx.mrec + 1 \in 0 .. RecoveryLimit
      BY <1>1, <2>2, <3>3, LimitsAssumption
    <3>5. Good(s2)
      BY <3>2, <3>4, CountersGood
    <3> HIDE DEF s2
    <3> QED BY <3>1, <3>5, ResetGood
  <2>3. CASE ~(s.rx.mnr + 1 < NotReadyLimit) /\ ~(s.rx.mrec < RecoveryLimit)
    <3>1. NotReady(s, "mnr", "mrec") = {[s EXCEPT !.rx.mnr = NotReadyLimit]}
      BY <2>3 DEF NotReady
    <3>2. NotReadyLimit \in 0 .. NotReadyLimit
      BY LimitsAssumption
    <3>3. Good([s EXCEPT !.rx.mnr = NotReadyLimit])
      BY <3>2, CountersGood
    <3> QED BY <3>1, <3>3
  <2> QED BY <2>1, <2>2, <2>3
<1> QED BY <1>2, <1>3

\* The picture is looked at after the equalizer.
LEMMA ValidateGood == ASSUME NEW s, Still(s) PROVE \A t \in ValidateEq(s) : Good(t)
<1> DEFINE ready == [s EXCEPT !.rx.vnr = 0]
           w1 == [ready EXCEPT !.rx.eq = "monitor"]
           w2 == [w1 EXCEPT !.rx.delay = 2]
           w3 == [w2 EXCEPT !.rx.mnr = 0]
           w4 == [w3 EXCEPT !.rx.runs = 0]
           watched == [w4 EXCEPT !.rx.sampled = FALSE]
           d1 == [watched EXCEPT !.rx.done[20] = TRUE]
           d2 == [d1 EXCEPT !.rx.running = 0]
<1>1. ValidateEq(s) =
        IF ~in.lanes
        THEN {Error(s)} \cup (IF s.rx.running = 20 /\ in.class = 20 THEN NotReady(s, "vnr", "vrec")
                              ELSE {ready})
        ELSE {Error(s)} \cup
             (IF s.rx.running = 20
              THEN IF in.class # 20 THEN {ready} ELSE {Error(ready), d2}
              ELSE IF in.class = 20 THEN {ready} ELSE {watched})
  BY DEF ValidateEq
<1>2. Still(ready)
  BY StillGood
<1> HIDE DEF ready
<1>3. Still(w1)
  BY <1>2, StillGood
<1> HIDE DEF w1
<1>4. Still(w2)
  BY <1>3, StillGood
<1> HIDE DEF w2
<1>5. Still(w3)
  BY <1>4, StillGood
<1> HIDE DEF w3
<1>6. Still(w4)
  BY <1>5, StillGood
<1> HIDE DEF w4
<1>7. Still(watched)
  BY <1>6, StillGood
<1> HIDE DEF watched
<1>8. Still(d1)
  BY <1>7, StillGood DEF Classes
<1> HIDE DEF d1
<1>9. Still(d2)
  BY <1>8, StillGood
<1> HIDE DEF d2
<1> QED BY <1>1, <1>2, <1>7, <1>9, ErrorGood, NotReadyGood DEF Still

\* The second lane is adjusted while there are adjustments left.
LEMMA SampledGood == ASSUME NEW s, Good(s) PROVE \A t \in Sampled(s) : Good(t)
<1>1. s.rx.runs < Lane2Limit => \A t \in AdjustLane2(s) : Good(t)
  <2> DEFINE counted == [s EXCEPT !.rx.runs = @ + 1]
  <2>1. AdjustLane2(s) = {Error(counted), [counted EXCEPT !.rx.sampled = FALSE]}
    BY DEF AdjustLane2
  <2>2. s.rx.runs < Lane2Limit => s.rx.runs + 1 \in 0 .. Lane2Limit
    BY LimitsAssumption DEF Good, Sound, Outcomes, RxStates
  <2>3. s.rx.runs < Lane2Limit => Good(counted)
    BY <2>2, CountersGood
  <2> HIDE DEF counted
  <2> QED BY <2>1, <2>3, ErrorGood, FieldsGood
<1> QED BY <1>1, ErrorGood, ScdtLockGood DEF Sampled, If

\* The picture is watched.
LEMMA MonitorGood == ASSUME Context, NEW s, Good(s) PROVE \A t \in MonitorEq(s) : Good(t)
<1> DEFINE ready == [s EXCEPT !.rx.mnr = 0]
           c1 == [ready EXCEPT !.rx.vrec = 0]
           c2 == [c1 EXCEPT !.rx.mrec = 0]
           clean == IF in.quality = "good" THEN c2 ELSE ready
           t1 == [clean EXCEPT !.rx.sampled = TRUE]
           t2 == [t1 EXCEPT !.rx.class = in.class]
<1>1. MonitorEq(s) =
        IF s.rx.sampled THEN {s}
        ELSE IF s.rx.delay > 0 THEN {[s EXCEPT !.rx.delay = @ - 1]}
        ELSE IF ~in.signal THEN Call(s)
        ELSE IF ~in.lanes
        THEN {Error(s)} \cup (IF s.rx.done[20] /\ in.class = 20 THEN NotReady(s, "mnr", "mrec")
                              ELSE {ready})
        ELSE {Error(s), Error(ready)} \cup Sampled(t2)
  BY DEF MonitorEq
<1>2. s.rx.delay \in 0 .. 2 /\ in.class \in Classes
  BY DEF Good, Sound, Outcomes, RxStates, Context, InputOk, Inputs
<1>3. s.rx.delay > 0 => Good([s EXCEPT !.rx.delay = @ - 1])
  <2>1. s.rx.delay > 0 => s.rx.delay - 1 \in 0 .. 2
    BY <1>2
  <2> QED BY <2>1, CountersGood
<1>4. Good(ready)
  BY CountersGood, Zeros
<1> HIDE DEF ready
<1>5. Good(c1)
  BY <1>4, CountersGood, Zeros
<1> HIDE DEF c1
<1>6. Good(c2)
  BY <1>5, CountersGood, Zeros
<1> HIDE DEF c2
<1>7. Good(clean)
  BY <1>4, <1>6
<1> HIDE DEF clean
<1>8. Good(t1)
  BY <1>7, FieldsGood
<1> HIDE DEF t1
<1>9. Good(t2)
  BY <1>2, <1>8, CountersGood
<1> HIDE DEF t2
<1> QED BY <1>1, <1>3, <1>4, <1>9, ErrorGood, CallGood, NotReadyGood, SampledGood

\* The work of the equalizer, whatever it has to do.
LEMMA EqualizedSound == Context /\ Good(Now) => \A t \in Equalized : Sound(t)
<1> SUFFICES ASSUME Context, Good(Now) PROVE \A t \in Equalized : Sound(t)
  OBVIOUS
<1>1. Now.rx = rx /\ Now.engine = engine /\ in.class \in Classes
  BY DEF Now, Context, InputOk, Inputs
<1>2. \A t : Good(t) => Sound(t)
  BY DEF Good
<1>3. rx.eq \in {"result", "validate", "monitor"} => Still(Now)
  BY <1>1 DEF Still, Good, Sound, Ended
<1>4. rx.eq = "start" => \A t \in StartEq(in.class, Now) : Sound(t)
  BY <1>1, StartEqSound
<1> HIDE DEF Now
<1> QED BY <1>1, <1>2, <1>3, <1>4, FinishEq14Good, FinishEq20Good, ValidateGood,
       MonitorGood DEF Equalized

-----------------------------------------------------------------------------
(* The receiver                                                              *)

Places == {"rest", "irq", "handle", "ack", "ack12", "eq"}

RxInv == Context /\ Good(Now) /\ fails \in Nat /\ pc \in Places

\* What a call made of the state is the next state.
LEMMA ReturnSound ==
    ASSUME NEW s, Sound(s), NEW place, Return(s, place), fails \in Nat
    PROVE  Sound(Now)' /\ fails' \in Nat /\ pc' \in {place, "rest"} /\ engine' = s.engine
<1>1. /\ rx' = s.rx /\ latch' = s.latch /\ engine' = s.engine /\ gpio' = s.gpio
      /\ IF s.ret = "error" THEN fails' = fails + 1 ELSE fails' = fails
  BY DEF Return
<1>2. fails' \in Nat /\ (fails' = 0 => fails = 0 /\ s.ret # "error")
  BY <1>1
<1>3. Now' \in Outcomes
  BY <1>1 DEF Sound, Outcomes, Now
<1>4. Told(Now)' /\ Ended(Now)'
  BY <1>1 DEF Sound, Told, Ended, Now
<1>5. Known(Now)'
  BY <1>1, <1>2 DEF Sound, Known, Now
<1>6. pc' \in {place, "rest"}
  BY DEF Return
<1> QED BY <1>1, <1>2, <1>3, <1>4, <1>5, <1>6 DEF Sound

\* The initial states satisfy the invariant.
LEMMA RxInit == Init => RxInv
<1> SUFFICES ASSUME Init PROVE RxInv
  OBVIOUS
<1>1. InputOk(NoInput)
  BY DEF InputOk, Inputs, NoInput, Classes, Qualities
<1>2. InputOk(in)
  <2>1. ASSUME NEW c \in Classes, NEW y \in Colours PROVE InputOk(Warm(c, y))
    BY DEF InputOk, Inputs, Warm, NoInput, Qualities
  <2> QED BY <1>1, <2>1 DEF Init
<1>3. InputOk(irq.in) /\ irq.bits = {} /\ fails = 0 /\ pc = "rest" /\ engine = 0 /\ gpio = FALSE /\ rx = Fresh
  BY <1>1 DEF Init, NoIrq
<1>4. latch \subseteq Bits
  <2>1. ASSUME NEW bits \in SUBSET (StartBits \cup LockBits) PROVE {"source"} \cup bits \subseteq Bits
    BY DEF Bits
  <2> QED BY <2>1 DEF Init
<1>5. Fresh \in RxStates /\ Fresh.scdt = FALSE /\ Fresh.eq = "idle"
  BY LimitsAssumption DEF Fresh, RxStates, Classes, Dones
<1>6. Now \in Outcomes
  BY <1>3, <1>4, <1>5 DEF Outcomes, Now
<1>7. Good(Now)
  BY <1>3, <1>5, <1>6 DEF Good, Sound, Told, Ended, Known, Now
<1> QED BY <1>2, <1>3, <1>7 DEF RxInv, Context, Places

\* The input moves: no result is added, and the driver knows nothing yet.
LEMMA MoveKeeps ==
    ASSUME RxInv, InputOk(in)', latch \subseteq latch', latch' \subseteq Bits, "result" \in latch' => "result" \in latch,
           UNCHANGED <<engine, gpio, rx, pc, irq, fails>>
    PROVE  RxInv'
<1>1. Now' \in Outcomes
  BY DEF RxInv, Good, Sound, Outcomes, Now
<1>2. Good(Now)'
  BY <1>1 DEF RxInv, Good, Sound, Told, Ended, Known, Now
<1> QED BY <1>2 DEF RxInv, Context, InputOk

\* ... whichever way it moves.
LEMMA MovesKeep == ASSUME RxInv, Move PROVE RxInv'
<1> USE DEF RxInv, Context
<1>0. latch \subseteq Bits /\ InputOk(in)
  BY DEF Good, Sound, Outcomes, Now
<1>1. CASE Plug
  <2>1. InputOk(in)'
    BY <1>0, <1>1 DEF Plug, InputOk, Inputs
  <2> QED BY <1>0, <1>1, <2>1, MoveKeeps DEF Plug, MoveAllowed, Latch, Bits
<1>2. CASE Unplug
  <2>1. InputOk(in)'
    BY <1>0, <1>2 DEF Unplug, InputOk, Inputs, Silent
  <2> QED BY <1>0, <1>2, <2>1, MoveKeeps DEF Unplug, MoveAllowed, Latch, Bits, Lost, LockBits
<1>3. ASSUME NEW c \in Classes, NEW y \in Colours, SignalOn(c, y) PROVE RxInv'
  <2>1. InputOk(in)'
    BY <1>0, <1>3 DEF SignalOn, InputOk, Inputs
  <2> QED BY <1>0, <1>3, <2>1, MoveKeeps DEF SignalOn, MoveAllowed, Latch, Bits, StartBits, LockBits
<1>4. CASE SignalOff
  <2>1. InputOk(in)'
    BY <1>0, <1>4 DEF SignalOff, InputOk, Inputs, Silent
  <2> QED BY <1>0, <1>4, <2>1, MoveKeeps DEF SignalOff, MoveAllowed, Latch, Bits, Lost, LockBits
<1>5. CASE MoveLanes
  <2>1. InputOk(in)'
    BY <1>0, <1>5 DEF MoveLanes, InputOk, Inputs
  <2> QED BY <1>0, <1>5, <2>1, MoveKeeps DEF MoveLanes, MoveAllowed, Latch
<1>6. CASE MoveLevel
  <2>1. InputOk(in)'
    BY <1>0, <1>6 DEF MoveLevel, InputOk, Inputs
  <2> QED BY <1>0, <1>6, <2>1, MoveKeeps DEF MoveLevel, MoveAllowed, Latch, Bits, LockBits
<1>7. ASSUME NEW q \in Qualities, MoveQuality(q) PROVE RxInv'
  <2>1. InputOk(in)'
    BY <1>0, <1>7 DEF MoveQuality, InputOk, Inputs
  <2> QED BY <1>0, <1>7, <2>1, MoveKeeps DEF MoveQuality, MoveAllowed, Latch
<1>8. ASSUME NEW y \in Colours, MoveColour(y) PROVE RxInv'
  <2>1. InputOk(in)'
    BY <1>0, <1>8 DEF MoveColour, InputOk, Inputs
  <2> QED BY <1>0, <1>8, <2>1, MoveKeeps DEF MoveColour, MoveAllowed, Latch
<1>9. ASSUME NEW b \in {"packet", "noop"}, Report(b) PROVE RxInv'
  <2>1. InputOk(in)'
    BY <1>0, <1>9 DEF Report
  <2> QED BY <1>0, <1>9, <2>1, MoveKeeps DEF Report, MoveAllowed, Latch, Bits, PacketBits
<1> QED BY <1>1, <1>2, <1>3, <1>4, <1>5, <1>6, <1>7, <1>8, <1>9 DEF Move

\* Every step preserves the invariant.
LEMMA RxStep == RxInv /\ [Next]_vars => RxInv'
<1> SUFFICES ASSUME RxInv, [Next]_vars PROVE RxInv'
  OBVIOUS
<1>0. Context /\ Good(Now) /\ fails \in Nat /\ pc \in Places /\ latch \subseteq Bits
  BY DEF RxInv, Good, Sound, Outcomes, Now
<1>1. CASE Move
  BY <1>1, MovesKeep
<1>2. CASE SendAvi
  <2>1. InputOk(in)'
    BY <1>0, <1>2 DEF SendAvi, InputOk, Inputs, Context
  <2> QED BY <1>0, <1>2, <2>1, MoveKeeps DEF SendAvi, Latch, Bits, PacketBits
<1>3. CASE FinishEngine
  <2>1. Now' \in Outcomes
    BY <1>0, <1>3 DEF FinishEngine, Latch, Good, Sound, Outcomes, Now, Bits
  <2>2. Good(Now)'
    BY <1>0, <1>3, <2>1 DEF FinishEngine, Good, Sound, Told, Ended, Known, Now
  <2> QED BY <1>0, <1>3, <2>2 DEF FinishEngine, RxInv, Context, InputOk
<1>4. CASE StartTick
  <2>1. Good(Now)'
    BY <1>0, <1>4 DEF StartTick, chip, Good, Sound, Told, Ended, Known, Now
  <2> QED BY <1>0, <1>4, <2>1 DEF StartTick, RxInv, Context, Places, InputOk
<1>5. CASE ReadRxIrq
  <2>1. ("result" \in irq'.bits => engine = 0) /\ InputOk(irq'.in) /\ irq'.bits \subseteq Bits /\ pc' \in Places
    BY <1>0, <1>5 DEF ReadRxIrq, Good, Sound, Ended, Now, Context, Places
  <2>2. Good(Now)'
    BY <1>0, <1>5, <2>1 DEF ReadRxIrq, chip, Good, Sound, Told, Ended, Known, Now
  <2> QED BY <1>0, <1>5, <2>1, <2>2 DEF ReadRxIrq, RxInv, Context, InputOk
<1>6. ASSUME NEW s, Good(s), NEW place \in Places, Return(s, place), UNCHANGED <<in, irq>> PROVE RxInv'
  <2>1. Sound(Now)' /\ fails' \in Nat /\ pc' \in {place, "rest"} /\ engine' = s.engine
    BY <1>0, <1>6, ReturnSound DEF Good
  <2>2. Good(Now)'
    BY <1>6, <2>1 DEF Good, Now
  <2> QED BY <1>0, <1>6, <2>1, <2>2 DEF RxInv, Context, InputOk, Places
<1>7. CASE HandleRxIrq
  BY <1>0, <1>6, <1>7, HandledGood DEF HandleRxIrq, Places
<1>8. CASE AckRxIrq
  <2>1. Good([Now EXCEPT !.latch = @ \ (irq.bits \ PacketBits)])
    BY <1>0, FieldsGood
  <2> QED BY <1>0, <1>6, <1>8, <2>1, CallGood DEF AckRxIrq, Places
<1>9. CASE AckRxReg12
  <2>1. Good([Now EXCEPT !.latch = @ \ irq.bits, !.rx.irq12 = TRUE])
    BY <1>0 DEF Good, Sound, Outcomes, RxStates, Told, Ended, Known
  <2> QED BY <1>0, <1>6, <1>9, <2>1, ErrorGood DEF AckRxReg12, Places
<1>10. CASE RxAutoEqPoll
  <2>1. PICK s \in Equalized : Return(s, "rest")
    BY <1>10 DEF RxAutoEqPoll
  <2>2. Sound(Now)' /\ fails' \in Nat /\ pc' = "rest"
    BY <1>0, <2>1, EqualizedSound, ReturnSound
  <2>3. InputOk(NoInput) /\ irq' = NoIrq /\ in' = in
    BY <1>10 DEF RxAutoEqPoll, InputOk, Inputs, NoInput, Classes, Qualities
  <2> QED BY <1>0, <2>2, <2>3 DEF RxInv, Good, Context, InputOk, NoIrq, Places
<1>11. CASE UNCHANGED vars
  <2>1. Good(Now)'
    BY <1>0, <1>11 DEF vars, chip, Good, Sound, Told, Ended, Known, Now
  <2> QED BY <1>0, <1>11, <2>1 DEF vars, chip, RxInv, Context, InputOk
<1> QED BY <1>1, <1>2, <1>3, <1>4, <1>5, <1>7, <1>8, <1>9, <1>10, <1>11 DEF Next, Work

\* The invariant of the receiver, with any limits and any number of failing calls.
THEOREM RxInvariant == Spec => []RxInv
  BY RxInit, RxStep, PTL DEF Spec

\* The receiver's variables have their types.
THEOREM RxTypes == Spec => []TypeOK
<1>1. RxInv => TypeOK
  <2> SUFFICES ASSUME RxInv PROVE TypeOK
    OBVIOUS
  <2>1. Now \in Outcomes /\ InputOk(in) /\ irq.bits \subseteq Bits /\ pc \in Places
    BY DEF RxInv, Good, Sound, Context
  <2>2. rx \in RxStates /\ latch \subseteq Bits /\ engine \in {0} \cup Classes /\ gpio \in BOOLEAN
    BY <2>1 DEF Outcomes, Now
  <2>3. /\ in.signal => in.source /\ in.colour \in Colours
        /\ in.lanes \/ in.level => in.signal
        /\ in.class \in Classes /\ in.quality \in Qualities
    BY <2>1 DEF InputOk, Inputs
  <2> QED BY <2>1, <2>2, <2>3 DEF RxStates, Dones, TypeOK, Places
<1> QED BY <1>1, RxInvariant, PTL

\* A lock that the driver remembers is one the bridge knows, also when the calls
\* that tell it fail (gc573-it6664-core.c:1426).
THEOREM LockTheorem == Spec => []LockTold
<1>1. RxInv => LockTold
  BY DEF RxInv, Good, Sound, Told, Now, LockTold
<1> QED BY <1>1, RxInvariant, PTL

\* An equalizer that runs is the one the driver waits for, unless a call failed
\* (gc573-it6664-core.c:1185).
THEOREM EngineTheorem == Spec => []EngineKnown
<1>1. RxInv => EngineKnown
  BY DEF RxInv, Good, Sound, Known, Now, EngineKnown
<1> QED BY <1>1, RxInvariant, PTL

-----------------------------------------------------------------------------
(* Hot plug, and the EDID that is published                                  *)

Marks == [Outputs!Ports -> BOOLEAN]
SnapStates ==
    [valid : BOOLEAN, status : BOOLEAN, bits : SUBSET Outputs!Events, done : SUBSET Outputs!Events]
Snaps == [Outputs!Ports -> SnapStates]
SwitchBits == {"timer0", "timer1"}
SwitchStates == [valid : BOOLEAN, bits : SUBSET SwitchBits, done : SUBSET SwitchBits, stage : 0 .. 4]
RtStates ==
    [hpd : Marks, powered : Marks, mask : SUBSET Outputs!Ports, attempted : Marks,
     reads : 0 .. 3, sink : Displays \cup {NoEdid}, mergeTried : BOOLEAN,
     pending : BOOLEAN, merged : Outputs!Edids \cup {NoEdid},
     upstream : {"none", "fixed", "merged"}, sessions : 0 .. 3, off : BOOLEAN,
     snap : Snaps, switch : SwitchStates]
PubStates ==
    [edid : Outputs!Edids \cup {NoEdid}, kind : {"none", "fixed", "merged"},
     previous : Outputs!Edids \cup {NoEdid}, restoring : BOOLEAN, lost : BOOLEAN]

\* What the driver keeps of the ports.
RtOk(r) ==
    /\ r \in RtStates
    /\ ~r.attempted[2] => r.reads < 3
    /\ r.pending => r.merged \in Outputs!Edids
\* ... of the display
Shown(r) == r.sink \in {NoEdid, display} /\ (r.hpd[2] => display # NoEdid)
\* What handlers leave alone
SameBook(r, s) ==
    /\ s.upstream = r.upstream /\ s.sessions = r.sessions /\ s.merged = r.merged /\ s.snap = r.snap
    /\ s.switch = r.switch

\* A port is powered down.
LEMMA PoweredDownOk ==
    ASSUME NEW r, RtOk(r), NEW p \in Outputs!Ports
    PROVE  /\ RtOk(Outputs!PoweredDown(r, p)) /\ SameBook(r, Outputs!PoweredDown(r, p))
           /\ Shown(r) => Shown(Outputs!PoweredDown(r, p))
           /\ Outputs!PoweredDown(r, p).hpd[2] => p # 2 /\ r.hpd[2]
           /\ Outputs!PoweredDown(r, p).sink = r.sink
<1> DEFINE h == [r.hpd EXCEPT ![p] = FALSE]
           w == [r.powered EXCEPT ![p] = FALSE]
           o == r.off \/ ~\E q \in Outputs!Ports : Outputs!Pin(q)
           new == [r EXCEPT !.hpd = h, !.powered = w, !.mask = @ \ {p}, !.off = o]
<1>1. r \in RtStates /\ r.hpd \in Marks /\ r.powered \in Marks
  BY DEF RtOk, RtStates
<1>2. h \in Marks /\ w \in Marks /\ o \in BOOLEAN
  BY <1>1 DEF Marks
<1>3. h[2] => p # 2 /\ r.hpd[2]
  BY <1>1 DEF Marks, Outputs!Ports
<1>4. Outputs!PoweredDown(r, p) = new
  BY <1>1 DEF Outputs!PoweredDown, RtStates
<1> HIDE DEF h, w, o
<1>5. new \in RtStates
  BY <1>1, <1>2 DEF RtStates
<1>6. /\ new.hpd = h /\ new.sink = r.sink /\ new.reads = r.reads /\ new.attempted = r.attempted
      /\ new.merged = r.merged
  BY <1>1 DEF RtStates
<1>7. new.pending = r.pending
  BY <1>1 DEF RtStates
<1>8. SameBook(r, new)
  BY <1>1 DEF RtStates, SameBook
<1> HIDE DEF new
<1> QED BY <1>3, <1>4, <1>5, <1>6, <1>7, <1>8 DEF RtOk, Shown

\* A port is powered on.
LEMMA PoweredOnOk ==
    ASSUME NEW r, RtOk(r), NEW p \in Outputs!Ports
    PROVE  /\ RtOk(Outputs!PoweredOn(r, p)) /\ SameBook(r, Outputs!PoweredOn(r, p))
           /\ Shown(r) => Shown(Outputs!PoweredOn(r, p))
           /\ Outputs!PoweredOn(r, p).hpd = r.hpd /\ Outputs!PoweredOn(r, p).sink = r.sink
<1> DEFINE w == [r.powered EXCEPT ![p] = TRUE]
           new == [r EXCEPT !.powered = w]
<1>1. r \in RtStates /\ r.powered \in Marks
  BY DEF RtOk, RtStates
<1>2. w \in Marks
  BY <1>1 DEF Marks
<1>4. Outputs!PoweredOn(r, p) = new
  BY <1>1 DEF Outputs!PoweredOn, RtStates
<1> HIDE DEF w
<1>5. new \in RtStates
  BY <1>1, <1>2 DEF RtStates
<1>6. /\ new.hpd = r.hpd /\ new.sink = r.sink /\ new.reads = r.reads /\ new.attempted = r.attempted
      /\ new.merged = r.merged
  BY <1>1 DEF RtStates
<1>7. new.pending = r.pending
  BY <1>1 DEF RtStates
<1>8. SameBook(r, new)
  BY <1>1 DEF RtStates, SameBook
<1> HIDE DEF new
<1> QED BY <1>4, <1>5, <1>6, <1>7, <1>8 DEF RtOk, Shown

\* The display is forgotten.
LEMMA ForgottenOk ==
    ASSUME NEW r, RtOk(r)
    PROVE  /\ RtOk(Outputs!Forgotten(r)) /\ Outputs!Forgotten(r).upstream = r.upstream
           /\ Outputs!Forgotten(r).snap = r.snap
           /\ Outputs!Forgotten(r).hpd = r.hpd /\ Outputs!Forgotten(r).sink = NoEdid
<1> DEFINE a == [r.attempted EXCEPT ![2] = FALSE]
           r1 == [r EXCEPT !.sink = NoEdid, !.attempted = a, !.mergeTried = FALSE, !.pending = FALSE]
           r2 == [r1 EXCEPT !.reads = 0]
           r3 == [r2 EXCEPT !.sessions = 0]
<1>1. r \in RtStates /\ r.attempted \in Marks
  BY DEF RtOk, RtStates
<1>2. a \in Marks
  BY <1>1 DEF Marks, Outputs!Ports
<1>3. Outputs!Forgotten(r) = r3
  BY <1>1 DEF Outputs!Forgotten, RtStates
<1> HIDE DEF a
<1>4. r1 \in RtStates
  BY <1>1, <1>2 DEF RtStates
<1>5. /\ r1.upstream = r.upstream /\ r1.snap = r.snap /\ r1.hpd = r.hpd /\ r1.sink = NoEdid
      /\ ~r1.pending
  BY <1>1 DEF RtStates
<1> HIDE DEF r1
<1>6. r2 \in RtStates /\ r2.reads = 0
  BY <1>4 DEF RtStates
<1>7. /\ r2.upstream = r.upstream /\ r2.snap = r.snap /\ r2.hpd = r.hpd /\ r2.sink = NoEdid
      /\ ~r2.pending
  BY <1>4, <1>5 DEF RtStates
<1> HIDE DEF r2
<1>8. r3 \in RtStates /\ r3.reads = 0
  BY <1>6 DEF RtStates
<1>9. /\ r3.upstream = r.upstream /\ r3.snap = r.snap /\ r3.hpd = r.hpd /\ r3.sink = NoEdid
      /\ ~r3.pending
  BY <1>6, <1>7 DEF RtStates
<1> HIDE DEF r3
<1> QED BY <1>3, <1>8, <1>9 DEF RtOk

\* A port's pin is looked at.
LEMMA SeenOk ==
    ASSUME NEW r, RtOk(r), NEW p \in Outputs!Ports, pin1 \in BOOLEAN
    PROVE  /\ RtOk(Outputs!Seen(r, p)) /\ SameBook(r, Outputs!Seen(r, p))
           /\ Shown(r) => Shown(Outputs!Seen(r, p))
           /\ p # 2 => (Outputs!Seen(r, p).hpd[2] <=> r.hpd[2])
           /\ Outputs!Seen(r, p).sink = r.sink
<1> DEFINE v == Outputs!Pin(p)
           h == [r.hpd EXCEPT ![p] = v]
           m == IF v THEN r.mask \cup {p} ELSE r.mask \ {p}
           new == [r EXCEPT !.hpd = h, !.mask = m]
<1>0. v \in BOOLEAN /\ (p = 2 /\ v => display # NoEdid)
  <2>1. CASE p = 1
    BY <2>1 DEF Outputs!Pin
  <2>2. CASE p # 1
    BY <2>2 DEF Outputs!Pin
  <2> QED BY <2>1, <2>2
<1>1. r \in RtStates /\ r.hpd \in Marks /\ r.mask \subseteq Outputs!Ports
  BY DEF RtOk, RtStates
<1>2. Outputs!Seen(r, p) = new
  BY <1>1 DEF Outputs!Seen, RtStates
<1> HIDE DEF v
<1>3. h \in Marks /\ m \subseteq Outputs!Ports
  BY <1>0, <1>1 DEF Marks
<1>4. (h[2] => r.hpd[2] \/ display # NoEdid) /\ (p # 2 => (h[2] <=> r.hpd[2]))
  BY <1>0, <1>1 DEF Marks, Outputs!Ports
<1> HIDE DEF h, m
<1>5. new \in RtStates
  BY <1>1, <1>3 DEF RtStates
<1>6. /\ new.hpd = h /\ new.sink = r.sink /\ new.reads = r.reads /\ new.attempted = r.attempted
      /\ new.merged = r.merged
  BY <1>1 DEF RtStates
<1>7. new.pending = r.pending
  BY <1>1 DEF RtStates
<1>8. SameBook(r, new)
  BY <1>1 DEF RtStates, SameBook
<1> HIDE DEF new
<1> QED BY <1>2, <1>4, <1>5, <1>6, <1>7, <1>8 DEF RtOk, Shown

\* A port's HPD is remembered.
LEMMA HpdOk ==
    ASSUME NEW r, RtOk(r), NEW p \in Outputs!Ports
    PROVE  LET new == [r EXCEPT !.hpd[p] = TRUE] IN
           /\ RtOk(new) /\ SameBook(r, new) /\ new.sink = r.sink
           /\ Shown(r) /\ (p = 2 => display # NoEdid) => Shown(new)
           /\ p # 2 => (new.hpd[2] <=> r.hpd[2])
<1> DEFINE h == [r.hpd EXCEPT ![p] = TRUE]
           new == [r EXCEPT !.hpd = h]
<1>1. r \in RtStates /\ r.hpd \in Marks
  BY DEF RtOk, RtStates
<1>2. [r EXCEPT !.hpd[p] = TRUE] = new
  BY <1>1 DEF RtStates
<1>3. h \in Marks
  BY <1>1 DEF Marks
<1>4. (h[2] => r.hpd[2] \/ p = 2) /\ (p # 2 => (h[2] <=> r.hpd[2]))
  BY <1>1 DEF Marks, Outputs!Ports
<1> HIDE DEF h
<1>5. new \in RtStates
  BY <1>1, <1>3 DEF RtStates
<1>6. /\ new.hpd = h /\ new.sink = r.sink /\ new.reads = r.reads /\ new.attempted = r.attempted
      /\ new.merged = r.merged
  BY <1>1 DEF RtStates
<1>7. new.pending = r.pending
  BY <1>1 DEF RtStates
<1>8. SameBook(r, new)
  BY <1>1 DEF RtStates, SameBook
<1> HIDE DEF new
<1> QED BY <1>2, <1>4, <1>5, <1>6, <1>7, <1>8 DEF RtOk, Shown

Result(r, s) == RtOk(s) /\ s.upstream = r.upstream /\ s.snap = r.snap

\* What a handler makes of the driver's state: the EDID of a display that left is
\* forgotten.
LEMMA OutcomeOk ==
    ASSUME RtOk(rt), pin1 \in BOOLEAN, NEW p \in Outputs!Ports, NEW e \in Outputs!Events,
           NEW stable \in BOOLEAN
    PROVE  LET new == Outputs!Outcome(p, e, stable) IN
           /\ Result(rt, new.rt) /\ new.raise \in BOOLEAN
           /\ Shown(rt) => Shown(new.rt)
           /\ p = 2 /\ e = "hpd" /\ display = NoEdid => Shown(new.rt)
<1> DEFINE out == Outputs!Outcome(p, e, stable)
<1> USE DEF SameBook, Result
<1> SUFFICES /\ Result(rt, out.rt) /\ out.raise \in BOOLEAN
             /\ Shown(rt) => Shown(out.rt)
             /\ p = 2 /\ e = "hpd" /\ display = NoEdid => Shown(out.rt)
  OBVIOUS
<1>1. CASE p = 1 /\ e = "hpd"
  <2> DEFINE on == IF 1 \in rt.mask THEN Outputs!PoweredOn(Outputs!PoweredDown(rt, 1), 1) ELSE rt
             new == [on EXCEPT !.hpd[1] = TRUE]
  <2>0. 1 \in Outputs!Ports
    BY DEF Outputs!Ports
  <2>1. /\ RtOk(on) /\ SameBook(rt, on) /\ (Shown(rt) => Shown(on))
    BY <2>0, PoweredDownOk, PoweredOnOk
  <2>2. Outputs!HpdOf1 = IF ~rt.snap[1].status THEN [rt |-> rt, raise |-> FALSE]
                         ELSE [rt |-> new, raise |-> TRUE]
    BY DEF Outputs!HpdOf1
  <2> HIDE DEF on
  <2>3. /\ RtOk(new) /\ SameBook(on, new) /\ (Shown(on) => Shown(new))
    BY <2>0, <2>1, HpdOk
  <2> HIDE DEF new
  <2>4. out.rt \in {rt, new} /\ out.raise \in BOOLEAN
    BY <1>1, <2>2 DEF Outputs!Outcome
  <2> HIDE DEF out
  <2> QED BY <1>1, <2>1, <2>3, <2>4
<1>2. CASE p = 2 /\ e = "hpd"
  <2> DEFINE on == IF rt.powered[2] THEN Outputs!PoweredOn(Outputs!PoweredDown(rt, 2), 2)
                   ELSE Outputs!PoweredOn(rt, 2)
             new == [on EXCEPT !.hpd[2] = TRUE]
             gone == Outputs!Forgotten(Outputs!PoweredDown(rt, 2))
  <2>0. 2 \in Outputs!Ports /\ (Outputs!Pin(2) <=> display # NoEdid)
    BY DEF Outputs!Ports, Outputs!Pin
  <2>1. RtOk(on) /\ SameBook(rt, on) /\ (Shown(rt) => Shown(on))
    BY <2>0, PoweredDownOk, PoweredOnOk
  <2>2. /\ RtOk(gone) /\ gone.upstream = rt.upstream /\ gone.snap = rt.snap
        /\ gone.sink = NoEdid /\ ~gone.hpd[2]
    BY <2>0, PoweredDownOk, ForgottenOk
  <2>3. Outputs!HpdOf2 = IF ~Outputs!Pin(2) THEN [rt |-> gone, raise |-> FALSE]
                         ELSE [rt |-> new, raise |-> TRUE]
    BY DEF Outputs!HpdOf2
  <2> HIDE DEF on, gone
  <2>4. RtOk(new) /\ SameBook(on, new) /\ (Shown(on) /\ display # NoEdid => Shown(new))
    BY <2>0, <2>1, HpdOk
  <2> HIDE DEF new
  <2>5. /\ out.raise \in BOOLEAN
        /\ (display = NoEdid /\ out.rt = gone) \/ (display # NoEdid /\ out.rt = new)
    BY <1>2, <2>0, <2>3 DEF Outputs!Outcome
  <2>6. Shown(gone)
    BY <2>2 DEF Shown
  <2> HIDE DEF out
  <2> QED BY <2>1, <2>2, <2>4, <2>5, <2>6
<1>3. CASE e = "sense"
  <2> DEFINE down == IF p \notin rt.mask /\ stable THEN rt ELSE Outputs!PoweredDown(rt, p)
             on == Outputs!PoweredOn(down, p)
             new == Outputs!Seen(on, p)
             gone == Outputs!Forgotten(Outputs!PoweredDown(rt, 2))
  <2>0. 2 \in Outputs!Ports
    BY DEF Outputs!Ports
  <2>1. RtOk(down) /\ SameBook(rt, down) /\ (Shown(rt) => Shown(down))
    BY PoweredDownOk
  <2>2. /\ RtOk(gone) /\ gone.upstream = rt.upstream /\ gone.snap = rt.snap
        /\ gone.sink = NoEdid /\ ~gone.hpd[2]
    BY <2>0, PoweredDownOk, ForgottenOk
  <2>3. Outputs!SenseOf(p, stable) =
          IF ~Outputs!Sense(p) THEN [rt |-> IF p = 1 THEN rt ELSE gone, raise |-> FALSE]
          ELSE [rt |-> new, raise |-> TRUE]
    BY DEF Outputs!SenseOf
  <2> HIDE DEF down, gone
  <2>4. RtOk(on) /\ SameBook(down, on) /\ (Shown(down) => Shown(on))
    BY <2>1, PoweredOnOk
  <2> HIDE DEF on
  <2>5. RtOk(new) /\ SameBook(on, new) /\ (Shown(on) => Shown(new))
    BY <2>4, SeenOk
  <2> HIDE DEF new
  <2>6. out.rt \in {rt, gone, new} /\ out.raise \in BOOLEAN
    BY <1>3, <2>3 DEF Outputs!Outcome
  <2>7. Shown(gone)
    BY <2>2 DEF Shown
  <2> HIDE DEF out
  <2> QED BY <1>3, <2>1, <2>2, <2>4, <2>5, <2>6, <2>7
<1> QED BY <1>1, <1>2, <1>3 DEF Outputs!Ports, Outputs!Events

\* Updates that no handler makes.
SameView(r, s) == s.snap = r.snap /\ s.upstream = r.upstream /\ s.sink = r.sink /\ s.hpd = r.hpd

\* The switch's interrupts are remembered.
LEMMA SwitchOk ==
    ASSUME NEW r, RtOk(r), NEW w \in SwitchStates
    PROVE  RtOk([r EXCEPT !.switch = w]) /\ SameView(r, [r EXCEPT !.switch = w])
<1> DEFINE new == [r EXCEPT !.switch = w]
<1>1. r \in RtStates
  BY DEF RtOk
<1>2. new \in RtStates
  BY <1>1 DEF RtStates
<1>3. SameView(r, new) /\ new.reads = r.reads /\ new.attempted = r.attempted /\ new.merged = r.merged
  BY <1>1 DEF RtStates, SameView
<1>4. new.pending = r.pending
  BY <1>1 DEF RtStates
<1> HIDE DEF new
<1>5. RtOk(new)
  BY <1>2, <1>3, <1>4 DEF RtOk
<1> QED BY <1>3, <1>5 DEF new

\* A port's interrupts are remembered.
LEMMA SnapOk ==
    ASSUME NEW r, RtOk(r), NEW p \in Outputs!Ports, NEW x \in SnapStates
    PROVE  LET new == [r EXCEPT !.snap[p] = x] IN
           /\ RtOk(new) /\ new.upstream = r.upstream /\ new.sink = r.sink /\ new.hpd = r.hpd
           /\ new.snap = [r.snap EXCEPT ![p] = x] /\ new.snap[p] = x
           /\ \A q \in Outputs!Ports \ {p} : new.snap[q] = r.snap[q]
<1> DEFINE n == [r.snap EXCEPT ![p] = x]
           new == [r EXCEPT !.snap = n]
<1>1. r \in RtStates /\ r.snap \in Snaps
  BY DEF RtOk, RtStates
<1>2. [r EXCEPT !.snap[p] = x] = new
  BY <1>1 DEF RtStates
<1>3. n \in Snaps /\ n[p] = x /\ \A q \in Outputs!Ports \ {p} : n[q] = r.snap[q]
  BY <1>1 DEF Snaps
<1> HIDE DEF n
<1>4. new \in RtStates
  BY <1>1, <1>3 DEF RtStates
<1>5. /\ new.snap = n /\ new.upstream = r.upstream /\ new.sink = r.sink /\ new.hpd = r.hpd
      /\ new.reads = r.reads /\ new.attempted = r.attempted /\ new.merged = r.merged
  BY <1>1 DEF RtStates
<1>6. new.pending = r.pending
  BY <1>1 DEF RtStates
<1> HIDE DEF new
<1>7. RtOk(new)
  BY <1>4, <1>5, <1>6 DEF RtOk
<1> QED BY <1>2, <1>3, <1>5, <1>7 DEF n

\* One of them was handled.
LEMMA SnapDone ==
    ASSUME NEW r, RtOk(r), NEW p \in Outputs!Ports, NEW e \in Outputs!Events
    PROVE  LET new == [r EXCEPT !.snap[p].done = @ \cup {e}] IN
           /\ RtOk(new) /\ new.upstream = r.upstream /\ new.sink = r.sink /\ new.hpd = r.hpd
           /\ new.snap[p].done = r.snap[p].done \cup {e} /\ new.snap[p].bits = r.snap[p].bits
           /\ new.snap[p].valid = r.snap[p].valid
           /\ \A q \in Outputs!Ports \ {p} : new.snap[q] = r.snap[q]
<1> DEFINE x == [r.snap[p] EXCEPT !.done = @ \cup {e}]
           new == [r EXCEPT !.snap[p] = x]
<1>1. r \in RtStates /\ r.snap \in Snaps /\ r.snap[p] \in SnapStates
  BY DEF RtOk, RtStates, Snaps
<1>2. [r EXCEPT !.snap[p].done = @ \cup {e}] = new
  BY <1>1 DEF RtStates, Snaps
<1>3. x \in SnapStates
  BY <1>1 DEF SnapStates
<1>4. x.done = r.snap[p].done \cup {e} /\ x.bits = r.snap[p].bits
  BY <1>1 DEF SnapStates
<1>5. x.valid = r.snap[p].valid
  BY <1>1 DEF SnapStates
<1> HIDE DEF x
<1>6. /\ RtOk(new) /\ new.upstream = r.upstream /\ new.sink = r.sink /\ new.hpd = r.hpd
      /\ new.snap[p] = x /\ \A q \in Outputs!Ports \ {p} : new.snap[q] = r.snap[q]
  BY <1>3, SnapOk
<1> HIDE DEF new
<1> QED BY <1>2, <1>4, <1>5, <1>6

\* A publication is counted.
LEMMA SessionsOk ==
    ASSUME NEW r, RtOk(r), r.sessions < 3
    PROVE  RtOk([r EXCEPT !.sessions = @ + 1]) /\ SameView(r, [r EXCEPT !.sessions = @ + 1])
<1> DEFINE new == [r EXCEPT !.sessions = @ + 1]
<1>1. r \in RtStates
  BY DEF RtOk
<1>2. new \in RtStates
  BY <1>1 DEF RtStates
<1>3. SameView(r, new) /\ new.reads = r.reads /\ new.attempted = r.attempted /\ new.merged = r.merged
  BY <1>1 DEF RtStates, SameView
<1>4. new.pending = r.pending
  BY <1>1 DEF RtStates
<1> HIDE DEF new
<1>5. RtOk(new)
  BY <1>2, <1>3, <1>4 DEF RtOk
<1> QED BY <1>3, <1>5 DEF new

\* The display's EDID is read, or not: it is tried a number of times.
LEMMA ReadOk ==
    ASSUME RtOk(rt), ~rt.attempted[2], display \in Displays \cup {NoEdid}
    PROVE  LET tried == [rt EXCEPT !.attempted[2] = TRUE, !.reads = @ + 1]
               known == [tried EXCEPT !.sink = display]
               again == [tried EXCEPT !.attempted[2] = tried.reads >= Outputs!Sessions]
           IN  /\ RtOk(known) /\ known.snap = rt.snap /\ known.upstream = rt.upstream
               /\ known.hpd = rt.hpd /\ known.sink = display
               /\ RtOk(again) /\ SameView(rt, again)
<1> DEFINE a == [rt.attempted EXCEPT ![2] = TRUE]
           t1 == [rt EXCEPT !.attempted = a]
           tried == [t1 EXCEPT !.reads = @ + 1]
           known == [tried EXCEPT !.sink = display]
           v == tried.reads >= Outputs!Sessions
           b == [a EXCEPT ![2] = v]
           again == [tried EXCEPT !.attempted = b]
<1>0. 2 \in Outputs!Ports /\ Outputs!Sessions = 3
  BY DEF Outputs!Ports, Outputs!Sessions
<1>1. rt \in RtStates /\ rt.attempted \in Marks /\ rt.reads \in 0 .. 2
  BY DEF RtOk, RtStates
<1>2. a \in Marks /\ a[2]
  BY <1>0, <1>1 DEF Marks
<1>3. [rt EXCEPT !.attempted[2] = TRUE, !.reads = @ + 1] = tried
  BY <1>1 DEF RtStates
<1> HIDE DEF a
<1>4. tried \in RtStates /\ tried.reads = rt.reads + 1
  <2>1. t1 \in RtStates /\ t1.reads = rt.reads
    BY <1>1, <1>2 DEF RtStates
  <2> HIDE DEF t1
  <2>2. t1.reads + 1 \in 0 .. 3
    BY <1>1, <2>1
  <2>3. \A n \in 0 .. 3 : [t1 EXCEPT !.reads = n] \in RtStates /\ [t1 EXCEPT !.reads = n].reads = n
    BY <2>1 DEF RtStates
  <2> QED BY <2>1, <2>2, <2>3
<1>5. SameView(rt, tried) /\ tried.attempted = a /\ tried.merged = rt.merged
  BY <1>1 DEF RtStates, SameView
<1>6. tried.pending = rt.pending
  BY <1>1 DEF RtStates
<1>7. [tried EXCEPT !.attempted[2] = v] = again
  BY <1>4, <1>5 DEF RtStates
<1> HIDE DEF tried
<1>8. v \in BOOLEAN /\ (~v => tried.reads < 3)
  BY <1>0, <1>1, <1>4
<1> HIDE DEF v
<1>9. b \in Marks /\ (b[2] <=> v)
  BY <1>0, <1>2, <1>8 DEF Marks
<1> HIDE DEF b
<1>10. again \in RtStates /\ again.reads = tried.reads /\ again.attempted = b /\ again.merged = tried.merged
  BY <1>4, <1>9 DEF RtStates
<1>11. SameView(tried, again)
  BY <1>4 DEF RtStates, SameView
<1>12. again.pending = tried.pending
  BY <1>4 DEF RtStates
<1>13. known \in RtStates /\ known.attempted = tried.attempted /\ known.merged = tried.merged
  BY <1>4 DEF RtStates
<1>14. /\ known.snap = tried.snap /\ known.upstream = tried.upstream
       /\ known.hpd = tried.hpd /\ known.sink = display
  BY <1>4 DEF RtStates
<1>15. known.pending = tried.pending
  BY <1>4 DEF RtStates
<1> HIDE DEF known, again
<1>16. RtOk(known)
  BY <1>2, <1>5, <1>6, <1>13, <1>15 DEF RtOk
<1>17. RtOk(again)
  BY <1>5, <1>6, <1>8, <1>9, <1>10, <1>12 DEF RtOk
<1>18. SameView(rt, again) /\ known.snap = rt.snap /\ known.upstream = rt.upstream /\ known.hpd = rt.hpd
  BY <1>5, <1>11, <1>14 DEF SameView
<1> QED BY <1>3, <1>7, <1>14, <1>16, <1>17, <1>18 DEF known, v

\* The EDID is merged.
LEMMA MergeOk ==
    ASSUME RtOk(rt), rt.sink \in Displays
    PROVE  LET tried == [rt EXCEPT !.mergeTried = TRUE]
               new == [tried EXCEPT !.merged = Merge(rt.sink), !.pending = TRUE, !.sessions = 0]
           IN  RtOk(tried) /\ SameView(rt, tried) /\ RtOk(new) /\ SameView(rt, new)
<1> DEFINE tried == [rt EXCEPT !.mergeTried = TRUE]
           new == [tried EXCEPT !.merged = Merge(rt.sink), !.pending = TRUE, !.sessions = 0]
<1>1. rt \in RtStates /\ Merge(rt.sink) \in Outputs!Edids
  BY DEF RtOk, Outputs!Edids
<1>2. tried \in RtStates
  BY <1>1 DEF RtStates
<1>3. SameView(rt, tried) /\ tried.reads = rt.reads /\ tried.attempted = rt.attempted /\ tried.merged = rt.merged
  BY <1>1 DEF RtStates, SameView
<1>4. tried.pending = rt.pending
  BY <1>1 DEF RtStates
<1> HIDE DEF tried
<1>5. RtOk(tried)
  BY <1>2, <1>3, <1>4 DEF RtOk
<1> DEFINE n1 == [tried EXCEPT !.merged = Merge(rt.sink), !.pending = TRUE]
<1>6. new = [n1 EXCEPT !.sessions = 0]
  OBVIOUS
<1>7. n1 \in RtStates
  BY <1>1, <1>2 DEF RtStates
<1>8. SameView(tried, n1) /\ n1.reads = rt.reads /\ n1.attempted = rt.attempted /\ n1.merged = Merge(rt.sink)
  BY <1>1, <1>2, <1>3 DEF RtStates, SameView
<1> HIDE DEF n1, new
<1>9. new \in RtStates
  BY <1>6, <1>7 DEF RtStates
<1>10. SameView(n1, new) /\ new.reads = rt.reads /\ new.attempted = rt.attempted /\ new.merged = Merge(rt.sink)
  BY <1>6, <1>7, <1>8 DEF RtStates, SameView
<1>11. RtOk(new)
  BY <1>1, <1>3, <1>5, <1>9, <1>10 DEF RtOk
<1> QED BY <1>3, <1>5, <1>8, <1>10, <1>11 DEF SameView, new, tried

\* The EDID was published.
LEMMA PublishedOk ==
    ASSUME RtOk(rt)
    PROVE  LET fixed == [rt EXCEPT !.attempted[1] = TRUE, !.upstream = "fixed"]
               merged == [rt EXCEPT !.attempted[1] = TRUE, !.upstream = "merged", !.pending = FALSE,
                                    !.sessions = 0]
           IN  /\ RtOk(fixed) /\ fixed.snap = rt.snap /\ fixed.sink = rt.sink /\ fixed.hpd = rt.hpd
               /\ RtOk(merged) /\ merged.snap = rt.snap /\ merged.sink = rt.sink /\ merged.hpd = rt.hpd
<1> DEFINE a == [rt.attempted EXCEPT ![1] = TRUE]
           fixed == [rt EXCEPT !.attempted = a, !.upstream = "fixed"]
           m1 == [rt EXCEPT !.attempted = a, !.upstream = "merged", !.pending = FALSE]
           merged == [m1 EXCEPT !.sessions = 0]
<1>0. 1 \in Outputs!Ports /\ 2 \in Outputs!Ports
  BY DEF Outputs!Ports
<1>1. rt \in RtStates /\ rt.attempted \in Marks
  BY DEF RtOk, RtStates
<1>2. a \in Marks /\ (a[2] <=> rt.attempted[2])
  BY <1>0, <1>1 DEF Marks
<1>3. [rt EXCEPT !.attempted[1] = TRUE, !.upstream = "fixed"] = fixed
  BY <1>1 DEF RtStates
<1>4. [rt EXCEPT !.attempted[1] = TRUE, !.upstream = "merged", !.pending = FALSE, !.sessions = 0] = merged
  BY <1>1 DEF RtStates
<1> HIDE DEF a
<1>5. fixed \in RtStates
  BY <1>1, <1>2 DEF RtStates
<1>6. /\ fixed.snap = rt.snap /\ fixed.sink = rt.sink /\ fixed.hpd = rt.hpd /\ fixed.reads = rt.reads
      /\ fixed.attempted = a /\ fixed.merged = rt.merged
  BY <1>1 DEF RtStates
<1>7. fixed.pending = rt.pending
  BY <1>1 DEF RtStates
<1>8. m1 \in RtStates
  BY <1>1, <1>2 DEF RtStates
<1>9. /\ m1.snap = rt.snap /\ m1.sink = rt.sink /\ m1.hpd = rt.hpd /\ m1.reads = rt.reads
      /\ m1.attempted = a /\ ~m1.pending
  BY <1>1 DEF RtStates
<1> HIDE DEF fixed, m1
<1>10. merged \in RtStates
  BY <1>8 DEF RtStates
<1>11. /\ merged.snap = rt.snap /\ merged.sink = rt.sink /\ merged.hpd = rt.hpd /\ merged.reads = rt.reads
       /\ merged.attempted = a /\ ~merged.pending
  BY <1>8, <1>9 DEF RtStates
<1> HIDE DEF merged
<1>12. RtOk(fixed)
  BY <1>2, <1>5, <1>6, <1>7 DEF RtOk
<1>13. RtOk(merged)
  BY <1>2, <1>10, <1>11 DEF RtOk
<1> QED BY <1>3, <1>4, <1>6, <1>11, <1>12, <1>13

-----------------------------------------------------------------------------
(* Hot plug and EDID                                                         *)

OutputPlaces ==
    {"rest", "switch", "rx", "rx ack", "tx1", "tx2", "fixed", "read", "merge", "merged",
     "write", "low", "high"}
PublicationPlaces == {"write", "low", "high"}

\* The types, with those of the driver's state.
OutputFlags ==
    /\ source \in BOOLEAN /\ pin1 \in BOOLEAN /\ sense \in BOOLEAN /\ rxLatch \in BOOLEAN
    /\ hpd \in BOOLEAN /\ merging \in BOOLEAN /\ enabled \in BOOLEAN
OutputData ==
    /\ display \in Displays \cup {NoEdid}
    /\ outputs_latch \in [Outputs!Ports -> SUBSET Outputs!Events] /\ swLatch \subseteq SwitchBits
    /\ ram \in Outputs!Edids \cup {NoEdid, Torn} /\ input \in Outputs!Edids \cup {NoEdid}
    /\ outputs_pc \in OutputPlaces /\ pub \in PubStates
\* Unless pins move while their events are being handled, the display is the one the
\* driver knows, or its departure is latched and has not been handled.
Unseen ==
    /\ "hpd" \in outputs_latch[2]
    /\ ~(rt.snap[2].valid /\ "hpd" \in rt.snap[2].done)
DisplayInv == ~QuickPins =>
    /\ rt.snap[2].valid => rt.snap[2].bits = outputs_latch[2]
    /\ Shown(rt) \/ (Unseen /\ display = NoEdid)
\* What a publication writes, and what it can go back to.
PublishInv ==
    /\ input = NoEdid => rt.upstream = "none"
    /\ ~enabled => outputs_pc = "rest"
    /\ outputs_pc \in PublicationPlaces =>
          /\ pub.edid \in Outputs!Edids /\ pub.previous = input
          /\ pub.restoring => pub.edid = input
          /\ outputs_pc # "write" => ram = pub.edid
    /\ outputs_pc \notin PublicationPlaces /\ enabled /\ ~pub.lost /\ rt.upstream # "none" => ram = input

OutputsInv == OutputFlags /\ OutputData /\ RtOk(rt) /\ DisplayInv /\ PublishInv

\* A pin moves. A display that comes or goes leaves an interrupt behind.
LEMMA OutputsMoves == ASSUME OutputsInv, Outputs!Move PROVE OutputsInv'
<1>0. /\ OutputFlags /\ OutputData /\ RtOk(rt) /\ DisplayInv /\ PublishInv
      /\ 1 \in Outputs!Ports /\ 2 \in Outputs!Ports
  BY DEF OutputsInv, Outputs!Ports
<1>a. rt' = rt /\ UNCHANGED <<ram, input, outputs_pc, pub, enabled>>
  BY DEF Outputs!Move, Outputs!MoveSource, Outputs!MovePin1, Outputs!Plug, Outputs!Unplug,
         Outputs!MoveSense, Outputs!Timer, Outputs!SetMerging, Outputs!Unmoved
<1>b. RtOk(rt)' /\ PublishInv'
  BY <1>0, <1>a DEF RtOk, PublishInv
<1>c. ~QuickPins => ~rt.snap[2].valid
  BY <1>0 DEF Outputs!Move, Outputs!MoveSource, Outputs!MovePin1, Outputs!Plug, Outputs!Unplug,
         Outputs!MoveSense, Outputs!Timer, Outputs!SetMerging, Outputs!MoveAllowed,
              Outputs!Calm, Outputs!NoSnap
<1>1. CASE Outputs!MoveSource
  <2>1. OutputFlags'
    BY <1>0, <1>a, <1>1 DEF OutputFlags, Outputs!MoveSource, Outputs!Unmoved, Outputs!pins,
           Outputs!chip, Outputs!counts
  <2>2. OutputData'
    BY <1>0, <1>a, <1>1, EdidAssumption DEF OutputData, Outputs!MoveSource, Outputs!Unmoved,
           Outputs!pins, Outputs!chip, Outputs!counts, Outputs!Events,
       SwitchBits
  <2>3. DisplayInv'
    BY <1>0, <1>a, <1>c, <1>1 DEF DisplayInv, OutputData, Unseen, Shown, Outputs!MoveSource,
           Outputs!MoveAllowed, Outputs!Unmoved, Outputs!pins, Outputs!chip, Outputs!counts,
           Outputs!Events
  <2> QED BY <1>b, <2>1, <2>2, <2>3 DEF OutputsInv
<1>2. CASE Outputs!MovePin1
  <2>1. OutputFlags'
    BY <1>0, <1>a, <1>2 DEF OutputFlags, Outputs!MovePin1, Outputs!Unmoved, Outputs!pins,
           Outputs!chip, Outputs!counts
  <2>2. OutputData'
    BY <1>0, <1>a, <1>2, EdidAssumption DEF OutputData, Outputs!MovePin1, Outputs!Unmoved,
           Outputs!pins, Outputs!chip, Outputs!counts, Outputs!Events,
       SwitchBits
  <2>3. DisplayInv'
    BY <1>0, <1>a, <1>c, <1>2 DEF DisplayInv, OutputData, Unseen, Shown, Outputs!MovePin1,
           Outputs!MoveAllowed, Outputs!Unmoved, Outputs!pins, Outputs!chip, Outputs!counts,
           Outputs!Events
  <2> QED BY <1>b, <2>1, <2>2, <2>3 DEF OutputsInv
<1>3. CASE \E d \in Displays : Outputs!Plug(d)
  <2>0. PICK d \in Displays : Outputs!Plug(d)
    BY <1>3
  <2>1. OutputFlags'
    BY <1>0, <1>a, <2>0 DEF OutputFlags, Outputs!Plug, Outputs!Unmoved, Outputs!pins, Outputs!chip,
           Outputs!counts
  <2>2. OutputData'
    BY <1>0, <1>a, <2>0, EdidAssumption DEF OutputData, Outputs!Plug, Outputs!Unmoved,
           Outputs!pins, Outputs!chip, Outputs!counts, Outputs!Events,
       SwitchBits
  <2>3. DisplayInv'
    BY <1>0, <1>a, <1>c, <2>0 DEF DisplayInv, OutputData, Unseen, Shown, Outputs!Plug,
           Outputs!MoveAllowed, Outputs!Unmoved, Outputs!pins, Outputs!chip, Outputs!counts,
           Outputs!Events
  <2> QED BY <1>b, <2>1, <2>2, <2>3 DEF OutputsInv
<1>4. CASE Outputs!Unplug
  <2>1. OutputFlags'
    BY <1>0, <1>a, <1>4 DEF OutputFlags, Outputs!Unplug, Outputs!Unmoved, Outputs!pins,
           Outputs!chip, Outputs!counts
  <2>2. OutputData'
    BY <1>0, <1>a, <1>4, EdidAssumption DEF OutputData, Outputs!Unplug, Outputs!Unmoved,
           Outputs!pins, Outputs!chip, Outputs!counts, Outputs!Events,
       SwitchBits
  <2>3. DisplayInv'
    BY <1>0, <1>a, <1>c, <1>4 DEF DisplayInv, OutputData, Unseen, Shown, Outputs!Unplug,
           Outputs!MoveAllowed, Outputs!Unmoved, Outputs!pins, Outputs!chip, Outputs!counts,
           Outputs!Events
  <2> QED BY <1>b, <2>1, <2>2, <2>3 DEF OutputsInv
<1>5. CASE Outputs!MoveSense
  <2>1. OutputFlags'
    BY <1>0, <1>a, <1>5 DEF OutputFlags, Outputs!MoveSense, Outputs!Unmoved, Outputs!pins,
           Outputs!chip, Outputs!counts
  <2>2. OutputData'
    BY <1>0, <1>a, <1>5, EdidAssumption DEF OutputData, Outputs!MoveSense, Outputs!Unmoved,
           Outputs!pins, Outputs!chip, Outputs!counts, Outputs!Events,
       SwitchBits
  <2>3. DisplayInv'
    BY <1>0, <1>a, <1>c, <1>5 DEF DisplayInv, OutputData, Unseen, Shown, Outputs!MoveSense,
           Outputs!MoveAllowed, Outputs!Unmoved, Outputs!pins, Outputs!chip, Outputs!counts,
           Outputs!Events
  <2> QED BY <1>b, <2>1, <2>2, <2>3 DEF OutputsInv
<1>6. CASE \E t \in {"timer0", "timer1"} : Outputs!Timer(t)
  <2>0. PICK t \in {"timer0", "timer1"} : Outputs!Timer(t)
    BY <1>6
  <2>1. OutputFlags'
    BY <1>0, <1>a, <2>0 DEF OutputFlags, Outputs!Timer, Outputs!Unmoved, Outputs!pins,
           Outputs!chip, Outputs!counts
  <2>2. OutputData'
    BY <1>0, <1>a, <2>0, EdidAssumption DEF OutputData, Outputs!Timer, Outputs!Unmoved,
           Outputs!pins, Outputs!chip, Outputs!counts, Outputs!Events,
       SwitchBits
  <2>3. DisplayInv'
    BY <1>0, <1>a, <1>c, <2>0 DEF DisplayInv, OutputData, Unseen, Shown, Outputs!Timer,
           Outputs!MoveAllowed, Outputs!Unmoved, Outputs!pins, Outputs!chip, Outputs!counts,
           Outputs!Events
  <2> QED BY <1>b, <2>1, <2>2, <2>3 DEF OutputsInv
<1>7. CASE Outputs!SetMerging
  <2>1. OutputFlags'
    BY <1>0, <1>a, <1>7, EdidAssumption DEF OutputFlags, Outputs!SetMerging, Outputs!Unmoved,
           Outputs!pins, Outputs!chip, Outputs!counts
  <2>2. OutputData'
    BY <1>0, <1>a, <1>7, EdidAssumption DEF OutputData, Outputs!SetMerging, Outputs!Unmoved,
           Outputs!pins, Outputs!chip, Outputs!counts, Outputs!Events,
       SwitchBits
  <2>3. DisplayInv'
    BY <1>0, <1>a, <1>c, <1>7 DEF DisplayInv, OutputData, Unseen, Shown, Outputs!SetMerging,
           Outputs!MoveAllowed, Outputs!Unmoved, Outputs!pins, Outputs!chip, Outputs!counts,
           Outputs!Events
  <2> QED BY <1>b, <2>1, <2>2, <2>3 DEF OutputsInv
<1> QED BY <1>1, <1>2, <1>3, <1>4, <1>5, <1>6, <1>7 DEF Outputs!Move

\* A tick begins.
LEMMA StartTickKeeps == ASSUME OutputsInv, Outputs!StartTick PROVE OutputsInv'
<1>0. OutputFlags /\ OutputData /\ RtOk(rt) /\ DisplayInv /\ PublishInv
  BY DEF OutputsInv
<1>1. OutputFlags'
  BY <1>0 DEF OutputFlags, Outputs!StartTick, Outputs!Continue, Outputs!Fail, Outputs!pins,
         Outputs!chip, Outputs!counts
<1>2. OutputData'
  BY <1>0 DEF OutputData, OutputPlaces, SwitchBits, Outputs!StartTick, Outputs!Continue,
         Outputs!Fail, Outputs!pins, Outputs!chip, Outputs!counts
<1>3. RtOk(rt)'
  BY <1>0 DEF RtOk, Outputs!StartTick, Outputs!Continue, Outputs!Fail
<1>4. DisplayInv'
  BY <1>0 DEF DisplayInv, Unseen, Shown, Outputs!StartTick, Outputs!Continue, Outputs!Fail,
         Outputs!pins, Outputs!chip, Outputs!counts
<1>5. PublishInv'
  BY <1>0 DEF PublishInv, OutputPlaces, PublicationPlaces, Outputs!StartTick, Outputs!Continue,
         Outputs!Fail, Outputs!pins, Outputs!chip, Outputs!counts
<1> QED BY <1>1, <1>2, <1>3, <1>4, <1>5 DEF OutputsInv

\* ... acknowledges the receiver's interrupt.
LEMMA RxAckKeeps == ASSUME OutputsInv, Outputs!RxAck PROVE OutputsInv'
<1>0. OutputFlags /\ OutputData /\ RtOk(rt) /\ DisplayInv /\ PublishInv
  BY DEF OutputsInv
<1>1. OutputFlags'
  BY <1>0 DEF OutputFlags, Outputs!RxAck, Outputs!Continue, Outputs!Fail, Outputs!pins,
         Outputs!chip, Outputs!counts
<1>2. OutputData'
  BY <1>0 DEF OutputData, OutputPlaces, SwitchBits, Outputs!RxAck, Outputs!Continue, Outputs!Fail,
         Outputs!pins, Outputs!chip, Outputs!counts
<1>3. RtOk(rt)'
  BY <1>0 DEF RtOk, Outputs!RxAck, Outputs!Continue, Outputs!Fail
<1>4. DisplayInv'
  BY <1>0 DEF DisplayInv, Unseen, Shown, Outputs!RxAck, Outputs!Continue, Outputs!Fail,
         Outputs!pins, Outputs!chip, Outputs!counts
<1>5. PublishInv'
  BY <1>0 DEF PublishInv, OutputPlaces, PublicationPlaces, Outputs!RxAck, Outputs!Continue,
         Outputs!Fail, Outputs!pins, Outputs!chip, Outputs!counts
<1> QED BY <1>1, <1>2, <1>3, <1>4, <1>5 DEF OutputsInv

\* ... handles the switch's interrupts.
LEMMA SwitchIrqKeeps == ASSUME OutputsInv, Outputs!SwitchIrq PROVE OutputsInv'
<1>0. OutputFlags /\ OutputData /\ RtOk(rt) /\ DisplayInv /\ PublishInv
  BY DEF OutputsInv
<1>a. rt.switch \in SwitchStates
  BY <1>0 DEF RtOk, RtStates
<1>b. /\ [valid |-> TRUE, bits |-> swLatch, done |-> {}, stage |-> 0] \in SwitchStates
      /\ Outputs!NoSwitch \in SwitchStates
  BY <1>0 DEF SwitchStates, OutputData, SwitchBits, Outputs!NoSwitch
<1>c. ASSUME NEW n \in {2, 3}
      PROVE  RtOk([rt EXCEPT !.switch.stage = n]) /\ SameView(rt, [rt EXCEPT !.switch.stage = n])
  <2> DEFINE w == [rt.switch EXCEPT !.stage = n]
  <2>1. w \in SwitchStates
    BY <1>a DEF SwitchStates
  <2>2. [rt EXCEPT !.switch.stage = n] = [rt EXCEPT !.switch = w]
    BY <1>0, <1>a DEF RtOk, RtStates, SwitchStates
  <2> HIDE DEF w
  <2> QED BY <1>0, <2>1, <2>2, SwitchOk
<1>d. RtOk([rt EXCEPT !.switch.stage = 4, !.switch.done = @ \cup {"timer0"}])
      /\ SameView(rt, [rt EXCEPT !.switch.stage = 4, !.switch.done = @ \cup {"timer0"}])
  <2> DEFINE w == [rt.switch EXCEPT !.stage = 4, !.done = @ \cup {"timer0"}]
  <2>1. w \in SwitchStates
    <3> DEFINE w1 == [rt.switch EXCEPT !.stage = 4]
    <3>1. w1 \in SwitchStates
      BY <1>a DEF SwitchStates
    <3>2. w = [w1 EXCEPT !.done = @ \cup {"timer0"}]
      BY <1>a DEF SwitchStates
    <3> HIDE DEF w1, w
    <3> QED BY <3>1, <3>2 DEF SwitchStates, SwitchBits
  <2>2. [rt EXCEPT !.switch.stage = 4, !.switch.done = @ \cup {"timer0"}] = [rt EXCEPT !.switch = w]
    BY <1>0, <1>a DEF RtOk, RtStates, SwitchStates
  <2> HIDE DEF w
  <2> QED BY <1>0, <2>1, <2>2, SwitchOk
<1>e. ASSUME NEW r, RtOk(r), r.switch = rt.switch
      PROVE  RtOk([r EXCEPT !.switch.done = @ \cup {"timer1"}])
             /\ SameView(r, [r EXCEPT !.switch.done = @ \cup {"timer1"}])
  <2> DEFINE w == [r.switch EXCEPT !.done = @ \cup {"timer1"}]
  <2>1. w \in SwitchStates
    BY <1>a, <1>e DEF SwitchStates, SwitchBits
  <2>2. [r EXCEPT !.switch.done = @ \cup {"timer1"}] = [r EXCEPT !.switch = w]
    BY <1>a, <1>e DEF RtOk, RtStates, SwitchStates
  <2> HIDE DEF w
  <2> QED BY <1>e, <2>1, <2>2, SwitchOk
<1>f. /\ RtOk([rt EXCEPT !.off = FALSE]) /\ SameView(rt, [rt EXCEPT !.off = FALSE])
      /\ [rt EXCEPT !.off = FALSE].switch = rt.switch
  <2> DEFINE new == [rt EXCEPT !.off = FALSE]
  <2>1. rt \in RtStates
    BY <1>0 DEF RtOk
  <2>2. new \in RtStates
    BY <2>1 DEF RtStates
  <2>3. /\ SameView(rt, new) /\ new.reads = rt.reads /\ new.attempted = rt.attempted /\ new.merged = rt.merged
        /\ new.switch = rt.switch
    BY <2>1 DEF RtStates, SameView
  <2>4. new.pending = rt.pending
    BY <2>1 DEF RtStates
  <2> HIDE DEF new
  <2>5. RtOk(new)
    BY <1>0, <2>2, <2>3, <2>4 DEF RtOk
  <2> QED BY <2>3, <2>5 DEF new
<1>g. /\ RtOk([rt EXCEPT !.off = FALSE, !.switch.done = @ \cup {"timer1"}])
      /\ SameView(rt, [rt EXCEPT !.off = FALSE, !.switch.done = @ \cup {"timer1"}])
  <2> DEFINE r == [rt EXCEPT !.off = FALSE]
             new == [r EXCEPT !.switch.done = @ \cup {"timer1"}]
  <2>1. [rt EXCEPT !.off = FALSE, !.switch.done = @ \cup {"timer1"}] = new
    BY <1>0 DEF RtOk, RtStates
  <2> HIDE DEF r
  <2>2. RtOk(r) /\ SameView(rt, r) /\ r.switch = rt.switch
    BY <1>f DEF r
  <2>3. RtOk(new) /\ SameView(r, new)
    BY <1>e, <2>2
  <2> HIDE DEF new
  <2> QED BY <2>1, <2>2, <2>3 DEF SameView
<1>h. RtOk(rt') /\ SameView(rt, rt')
  <2>1. CASE rt' = rt
    BY <1>0, <2>1 DEF SameView
  <2>2. CASE rt' # rt
    <3>1.
              \/ rt' = [rt EXCEPT !.switch = [valid |-> TRUE, bits |-> swLatch, done |-> {}, stage |-> 0]]
          \/ rt' = [rt EXCEPT !.switch = Outputs!NoSwitch]
          \/ \E n \in {2, 3} : rt' = [rt EXCEPT !.switch.stage = n]
          \/ rt' = [rt EXCEPT !.switch.stage = 4, !.switch.done = @ \cup {"timer0"}]
          \/ rt' = [rt EXCEPT !.switch.done = @ \cup {"timer1"}]
          \/ rt' = [rt EXCEPT !.off = FALSE, !.switch.done = @ \cup {"timer1"}]
      BY <2>2 DEF Outputs!SwitchIrq, Outputs!SwitchFails
    <3>2. CASE rt' = [rt EXCEPT !.switch = [valid |-> TRUE, bits |-> swLatch, done |-> {}, stage |-> 0]]
      BY <1>0, <1>b, <3>2, SwitchOk
    <3>3. CASE rt' = [rt EXCEPT !.switch = Outputs!NoSwitch]
      BY <1>0, <1>b, <3>3, SwitchOk
    <3>4. CASE \E n \in {2, 3} : rt' = [rt EXCEPT !.switch.stage = n]
      BY <1>c, <3>4
    <3>5. CASE rt' = [rt EXCEPT !.switch.stage = 4, !.switch.done = @ \cup {"timer0"}]
      BY <1>d, <3>5
    <3>6. CASE rt' = [rt EXCEPT !.switch.done = @ \cup {"timer1"}]
      BY <1>0, <1>e, <3>6
    <3>7. CASE rt' = [rt EXCEPT !.off = FALSE, !.switch.done = @ \cup {"timer1"}]
      BY <1>g, <3>7
    <3> QED BY <3>1, <3>2, <3>3, <3>4, <3>5, <3>6, <3>7
  <2> QED BY <2>1, <2>2
<1>i. /\ UNCHANGED <<source, pin1, display, sense, outputs_latch, rxLatch, ram, input, merging, pub, enabled>>
      /\ outputs_pc' \in {"switch", "rx", "rest"} /\ outputs_pc = "switch"
  BY DEF Outputs!SwitchIrq, Outputs!SwitchFails, Outputs!Continue, Outputs!Fail, Outputs!pins,
         Outputs!counts
<1>1. OutputFlags'
  <2>1. hpd' \in BOOLEAN
    BY <1>0 DEF OutputFlags, Outputs!SwitchIrq, Outputs!Raised
  <2> QED BY <1>0, <1>i, <2>1 DEF OutputFlags
<1>2. OutputData'
  <2>1. swLatch' \subseteq SwitchBits
    BY <1>0 DEF OutputData, Outputs!SwitchIrq
  <2> QED BY <1>0, <1>i, <2>1 DEF OutputData, OutputPlaces
<1>3. RtOk(rt)'
  BY <1>h DEF RtOk
<1>4. DisplayInv'
  BY <1>0, <1>h, <1>i DEF DisplayInv, Unseen, Shown, SameView
<1>5. PublishInv'
  BY <1>0, <1>h, <1>i DEF PublishInv, PublicationPlaces, SameView
<1> QED BY <1>1, <1>2, <1>3, <1>4, <1>5 DEF OutputsInv

\* ... looks at the source.
LEMMA RxPollKeeps == ASSUME OutputsInv, Outputs!RxPoll PROVE OutputsInv'
<1>0. OutputFlags /\ OutputData /\ RtOk(rt) /\ DisplayInv /\ PublishInv /\ 1 \in Outputs!Ports /\ 2 \in Outputs!Ports
  BY DEF OutputsInv, Outputs!Ports
<1>a. rt' \in {rt, Outputs!PoweredDown(rt, 1), Outputs!PoweredDown(Outputs!PoweredDown(rt, 1), 2)}
  BY DEF Outputs!RxPoll, Outputs!SourceGone
<1>h. /\ RtOk(rt') /\ rt'.snap = rt.snap /\ rt'.upstream = rt.upstream /\ (Shown(rt) => Shown(rt'))
  <2> DEFINE r1 == Outputs!PoweredDown(rt, 1)
             r2 == Outputs!PoweredDown(r1, 2)
  <2>1. RtOk(r1) /\ SameBook(rt, r1) /\ (Shown(rt) => Shown(r1))
    BY <1>0, PoweredDownOk
  <2> HIDE DEF r1
  <2>2. RtOk(r2) /\ SameBook(r1, r2) /\ (Shown(r1) => Shown(r2))
    BY <1>0, <2>1, PoweredDownOk
  <2> HIDE DEF r2
  <2>3. rt' \in {rt, r1, r2}
    BY <1>a DEF r1, r2
  <2> QED BY <1>0, <2>1, <2>2, <2>3 DEF SameBook
<1>i. /\ UNCHANGED <<source, pin1, display, sense, outputs_latch, rxLatch, swLatch, ram, input, merging, pub, enabled>>
      /\ outputs_pc' \in {"tx1", "rx ack", "rest"} /\ outputs_pc = "rx"
  BY DEF Outputs!RxPoll, Outputs!SourceGone, Outputs!Continue, Outputs!Fail, Outputs!pins,
         Outputs!chip, Outputs!counts
<1>1. OutputFlags'
  <2>1. hpd' \in BOOLEAN
    BY <1>0 DEF OutputFlags, Outputs!RxPoll, Outputs!SourceGone
  <2> QED BY <1>0, <1>i, <2>1 DEF OutputFlags
<1>2. OutputData'
  BY <1>0, <1>i DEF OutputData, OutputPlaces
<1>3. RtOk(rt)'
  BY <1>h DEF RtOk
<1>4. DisplayInv'
  BY <1>0, <1>h, <1>i DEF DisplayInv, Unseen, Shown
<1>5. PublishInv'
  BY <1>0, <1>h, <1>i DEF PublishInv, PublicationPlaces
<1> QED BY <1>1, <1>2, <1>3, <1>4, <1>5 DEF OutputsInv

\* ... reads the interrupts of a port, with its pin.
LEMMA ReadTxIrqKeeps ==
    ASSUME OutputsInv, NEW p \in Outputs!Ports, Outputs!ReadTxIrq(p)
    PROVE  OutputsInv'
<1>0. OutputFlags /\ OutputData /\ RtOk(rt) /\ DisplayInv /\ PublishInv /\ 1 \in Outputs!Ports /\ 2 \in Outputs!Ports
  BY DEF OutputsInv, Outputs!Ports
<1>a. [valid |-> TRUE, status |-> Outputs!Pin(p), bits |-> outputs_latch[p], done |-> {}] \in SnapStates
  <2>1. Outputs!Pin(p) \in BOOLEAN
    <3>1. CASE p = 1
      BY <1>0, <3>1 DEF OutputFlags, Outputs!Pin
    <3>2. CASE p # 1
      BY <3>2 DEF Outputs!Pin
    <3> QED BY <3>1, <3>2
  <2>2. outputs_latch[p] \subseteq Outputs!Events
    BY <1>0 DEF OutputData
  <2> QED BY <2>1, <2>2 DEF SnapStates
<1>h. /\ RtOk(rt') /\ rt'.upstream = rt.upstream /\ rt'.sink = rt.sink /\ rt'.hpd = rt.hpd
      /\ \/ rt'.snap[2] = rt.snap[2]
         \/ ~rt.snap[2].valid /\ rt'.snap[2].bits = outputs_latch[2] /\ rt'.snap[2].done = {}
  <2>1. CASE rt' = rt
    BY <1>0, <2>1
  <2>2. CASE rt' # rt
    <3> DEFINE x == [valid |-> TRUE, status |-> Outputs!Pin(p), bits |-> outputs_latch[p], done |-> {}]
               new == [rt EXCEPT !.snap[p] = x]
    <3>1. rt' = new /\ ~rt.snap[p].valid
      BY <2>2 DEF Outputs!ReadTxIrq
    <3>2. x.bits = outputs_latch[p] /\ x.done = {} /\ x \in SnapStates
      BY <1>a
    <3> HIDE DEF x
    <3>3. /\ RtOk(new) /\ new.upstream = rt.upstream /\ new.sink = rt.sink /\ new.hpd = rt.hpd
          /\ new.snap[p] = x /\ \A q \in Outputs!Ports \ {p} : new.snap[q] = rt.snap[q]
      BY <1>0, <3>2, SnapOk
    <3> HIDE DEF new
    <3> QED BY <1>0, <3>1, <3>2, <3>3
  <2> QED BY <2>1, <2>2
<1>i. /\ UNCHANGED <<source, pin1, display, sense, outputs_latch, rxLatch, swLatch, hpd, ram, input, merging, pub, enabled>>
      /\ outputs_pc' \in {"tx1", "tx2", "fixed", "rest"} /\ outputs_pc \in {"tx1", "tx2"}
  BY DEF Outputs!ReadTxIrq, Outputs!Place, Outputs!AfterPort, Outputs!Continue, Outputs!Fail,
         Outputs!pins, Outputs!chip, Outputs!counts, Outputs!Ports
<1>1. OutputFlags'
  BY <1>0, <1>i DEF OutputFlags
<1>2. OutputData'
  BY <1>0, <1>i DEF OutputData, OutputPlaces
<1>3. RtOk(rt)'
  BY <1>h DEF RtOk
<1>4. DisplayInv'
  BY <1>0, <1>h, <1>i DEF DisplayInv, Unseen, Shown
<1>5. PublishInv'
  BY <1>0, <1>h, <1>i DEF PublishInv, PublicationPlaces
<1> QED BY <1>1, <1>2, <1>3, <1>4, <1>5 DEF OutputsInv

\* ... handles one of them.
LEMMA HandleKeeps ==
    ASSUME OutputsInv, NEW p \in Outputs!Ports, NEW e \in Outputs!Events, Outputs!Handle(p, e)
    PROVE  OutputsInv'
<1>0. OutputFlags /\ OutputData /\ RtOk(rt) /\ DisplayInv /\ PublishInv /\ 1 \in Outputs!Ports /\ 2 \in Outputs!Ports
  BY DEF OutputsInv, Outputs!Ports
<1>b. PICK stable \in BOOLEAN :
        LET new == Outputs!Outcome(p, e, stable) IN
        \/ /\ rt' = [new.rt EXCEPT !.snap[p].done = @ \cup {e}]
           /\ hpd' = IF new.raise THEN Outputs!Raised ELSE hpd
           /\ Outputs!Continue(Outputs!Place(p))
        \/ /\ rt' \in {rt, Outputs!PoweredDown(rt, p)}
           /\ hpd' \in {hpd, IF new.raise THEN Outputs!Raised ELSE hpd}
           /\ Outputs!Fail
  BY DEF Outputs!Handle
<1> DEFINE new == Outputs!Outcome(p, e, stable)
           r == new.rt
<1>c. /\ Result(rt, r) /\ new.raise \in BOOLEAN /\ (Shown(rt) => Shown(r))
      /\ p = 2 /\ e = "hpd" /\ display = NoEdid => Shown(r)
  BY <1>0, OutcomeOk DEF OutputFlags
<1>d. rt.snap[p].valid /\ (e = "sense" => "hpd" \notin rt.snap[p].bits \ rt.snap[p].done)
  BY DEF Outputs!Handle
<1> HIDE DEF new
<1>h. /\ RtOk(rt') /\ rt'.upstream = rt.upstream
      /\ \/ rt'.snap = rt.snap /\ (Shown(rt) => Shown(rt'))
         \/ /\ rt'.snap[2].valid = rt.snap[2].valid /\ rt'.snap[2].bits = rt.snap[2].bits
            /\ rt'.snap[2].done = IF p = 2 THEN rt.snap[2].done \cup {e} ELSE rt.snap[2].done
            /\ Shown(rt) => Shown(rt')
            /\ p = 2 /\ e = "hpd" /\ display = NoEdid => Shown(rt')
  <2>1. CASE rt' \in {rt, Outputs!PoweredDown(rt, p)}
    BY <1>0, <2>1, PoweredDownOk DEF SameBook
  <2>2. CASE rt' = [r EXCEPT !.snap[p].done = @ \cup {e}]
    <3> DEFINE last == [r EXCEPT !.snap[p].done = @ \cup {e}]
    <3>1. RtOk(r) /\ r.upstream = rt.upstream /\ r.snap = rt.snap
      BY <1>c DEF Result
    <3> HIDE DEF r
    <3>2. /\ RtOk(last) /\ last.upstream = r.upstream /\ last.sink = r.sink /\ last.hpd = r.hpd
          /\ last.snap[p].done = r.snap[p].done \cup {e} /\ last.snap[p].bits = r.snap[p].bits
          /\ last.snap[p].valid = r.snap[p].valid
          /\ \A q \in Outputs!Ports \ {p} : last.snap[q] = r.snap[q]
      BY <3>1, SnapDone
    <3>3. rt' = last
      BY <2>2
    <3> HIDE DEF last
    <3>4. (Shown(rt) => Shown(last)) /\ (p = 2 /\ e = "hpd" /\ display = NoEdid => Shown(last))
      BY <1>c, <3>2 DEF Shown, r
    <3>5. /\ last.snap[2].valid = rt.snap[2].valid /\ last.snap[2].bits = rt.snap[2].bits
          /\ last.snap[2].done = IF p = 2 THEN rt.snap[2].done \cup {e} ELSE rt.snap[2].done
      BY <1>0, <3>1, <3>2
    <3> QED BY <3>1, <3>2, <3>3, <3>4, <3>5
  <2> QED BY <1>b, <2>1, <2>2 DEF new
<1>i. /\ UNCHANGED <<source, pin1, display, sense, outputs_latch, rxLatch, swLatch, ram, input, merging, pub, enabled>>
      /\ outputs_pc' \in {"tx1", "tx2", "rest"} /\ outputs_pc \in {"tx1", "tx2"}
  BY DEF Outputs!Handle, Outputs!Place, Outputs!Continue, Outputs!Fail, Outputs!pins, Outputs!chip,
         Outputs!counts, Outputs!Ports
<1>1. OutputFlags'
  <2>1. hpd' \in BOOLEAN
    BY <1>0, <1>b, <1>c DEF OutputFlags, Outputs!Raised, new
  <2> QED BY <1>0, <1>i, <2>1 DEF OutputFlags
<1>2. OutputData'
  BY <1>0, <1>i DEF OutputData, OutputPlaces
<1>3. RtOk(rt)'
  BY <1>h DEF RtOk
<1>4. DisplayInv'
  <2>1. CASE p = 2 /\ e = "hpd"
    BY <1>0, <1>h, <1>i, <2>1 DEF DisplayInv, Unseen, Shown
  <2>2. CASE ~(p = 2 /\ e = "hpd")
    BY <1>0, <1>h, <1>i, <2>2 DEF DisplayInv, Unseen, Shown, Outputs!Events
  <2> QED BY <2>1, <2>2
<1>5. PublishInv'
  BY <1>0, <1>h, <1>i DEF PublishInv, PublicationPlaces
<1> QED BY <1>1, <1>2, <1>3, <1>4, <1>5 DEF OutputsInv

\* ... and acknowledges those that it read, so that those since remain.
LEMMA AckTxIrqKeeps ==
    ASSUME OutputsInv, NEW p \in Outputs!Ports, Outputs!AckTxIrq(p)
    PROVE  OutputsInv'
<1>0. OutputFlags /\ OutputData /\ RtOk(rt) /\ DisplayInv /\ PublishInv /\ 1 \in Outputs!Ports /\ 2 \in Outputs!Ports
  BY DEF OutputsInv, Outputs!Ports
<1>a. Outputs!NoSnap \in SnapStates /\ ~Outputs!NoSnap.valid
  BY DEF SnapStates, Outputs!NoSnap
<1>h. /\ RtOk(rt') /\ rt'.upstream = rt.upstream /\ rt'.sink = rt.sink /\ rt'.hpd = rt.hpd
      /\ \/ rt' = rt /\ outputs_latch' = outputs_latch
         \/ /\ p = 1 /\ rt'.snap[2] = rt.snap[2] /\ outputs_latch'[2] = outputs_latch[2]
         \/ /\ p = 2 /\ ~rt'.snap[2].valid /\ outputs_latch'[2] = outputs_latch[2] \ rt.snap[2].bits
      /\ outputs_latch' \in [Outputs!Ports -> SUBSET Outputs!Events]
  <2>1. CASE rt' = rt /\ outputs_latch' = outputs_latch
    BY <1>0, <2>1 DEF OutputData
  <2>2. CASE /\ rt' = [rt EXCEPT !.snap[p] = Outputs!NoSnap]
             /\ outputs_latch' = [outputs_latch EXCEPT ![p] = @ \ rt.snap[p].bits]
    <3> DEFINE new == [rt EXCEPT !.snap[p] = Outputs!NoSnap]
    <3>1. /\ RtOk(new) /\ new.upstream = rt.upstream /\ new.sink = rt.sink /\ new.hpd = rt.hpd
          /\ new.snap[p] = Outputs!NoSnap /\ \A q \in Outputs!Ports \ {p} : new.snap[q] = rt.snap[q]
      BY <1>0, <1>a, SnapOk
    <3>2. rt' = new
      BY <2>2
    <3> HIDE DEF new
    <3>3. outputs_latch' \in [Outputs!Ports -> SUBSET Outputs!Events]
      BY <1>0, <2>2 DEF OutputData
    <3>4. p = 1 \/ p = 2
      BY DEF Outputs!Ports
    <3>5. /\ p = 1 => outputs_latch'[2] = outputs_latch[2]
          /\ p = 2 => outputs_latch'[2] = outputs_latch[2] \ rt.snap[2].bits
      BY <1>0, <2>2 DEF OutputData
    <3> QED BY <1>0, <1>a, <3>1, <3>2, <3>3, <3>4, <3>5
  <2> QED BY <2>1, <2>2 DEF Outputs!AckTxIrq
<1>i. /\ UNCHANGED <<source, pin1, display, sense, rxLatch, swLatch, hpd, ram, input, merging, pub, enabled>>
      /\ outputs_pc' \in {"tx1", "tx2", "fixed", "rest"} /\ outputs_pc \in {"tx1", "tx2"}
      /\ rt.snap[p].valid /\ rt.snap[p].bits = rt.snap[p].done
  BY DEF Outputs!AckTxIrq, Outputs!Place, Outputs!AfterPort, Outputs!Continue, Outputs!Fail,
         Outputs!pins, Outputs!chip, Outputs!counts, Outputs!Ports
<1>1. OutputFlags'
  BY <1>0, <1>i DEF OutputFlags
<1>2. OutputData'
  BY <1>0, <1>h, <1>i DEF OutputData, OutputPlaces
<1>3. RtOk(rt)'
  BY <1>h DEF RtOk
<1>4. DisplayInv'
  BY <1>0, <1>h, <1>i DEF DisplayInv, Unseen, Shown
<1>5. PublishInv'
  BY <1>0, <1>h, <1>i DEF PublishInv, PublicationPlaces
<1> QED BY <1>1, <1>2, <1>3, <1>4, <1>5 DEF OutputsInv

\* The card's EDID is to be published.
LEMMA PublishFixedKeeps == ASSUME OutputsInv, Outputs!PublishFixed PROVE OutputsInv'
<1>0. OutputFlags /\ OutputData /\ RtOk(rt) /\ DisplayInv /\ PublishInv /\ 1 \in Outputs!Ports /\ 2 \in Outputs!Ports
  BY DEF OutputsInv, Outputs!Ports
<1>h. RtOk(rt') /\ SameView(rt, rt')
  <2>1. rt' = rt \/ (rt.sessions < 3 /\ rt' = [rt EXCEPT !.sessions = @ + 1])
    BY DEF Outputs!PublishFixed, Outputs!Sessions
  <2> QED BY <1>0, <2>1, SessionsOk DEF SameView
<1>i. /\ UNCHANGED <<source, pin1, display, sense, outputs_latch, rxLatch, swLatch, hpd, ram, input, merging, enabled>> /\ outputs_pc = "fixed"
      /\ \/ outputs_pc' = "read" /\ pub' = pub
         \/ /\ outputs_pc' = "write"
            /\ pub' = [edid |-> Card, kind |-> "fixed", previous |-> input, restoring |-> FALSE, lost |-> pub.lost]
  BY DEF Outputs!PublishFixed, Outputs!Publish, Outputs!Continue, Outputs!pins, Outputs!chip,
         Outputs!counts
<1>1. OutputFlags'
  BY <1>0, <1>i DEF OutputFlags
<1>2. OutputData'
  <2>1. Card \in Outputs!Edids
    BY DEF Outputs!Edids
  <2>2. pub' \in PubStates
    <3>1. CASE pub' = pub
      BY <1>0, <3>1 DEF OutputData
    <3>2. CASE pub' # pub
      <4>1. pub.lost \in BOOLEAN /\ input \in Outputs!Edids \cup {NoEdid}
        BY <1>0 DEF OutputData, PubStates
      <4> DEFINE l == pub.lost
                 pe == input
                 e == Card
      <4>2. pub' = [edid |-> e, kind |-> "fixed", previous |-> pe, restoring |-> FALSE, lost |-> l]
        BY <1>i, <3>2
      <4>3. e \in Outputs!Edids
        BY <1>i, <2>1, <3>2
      <4> HIDE DEF l, pe, e
      <4>4. l \in BOOLEAN /\ pe \in Outputs!Edids \cup {NoEdid}
        BY <4>1 DEF l, pe
      <4> QED BY <4>2, <4>3, <4>4 DEF PubStates
    <3> QED BY <3>1, <3>2
  <2> QED BY <1>0, <1>i, <2>2 DEF OutputData, OutputPlaces
<1>3. RtOk(rt)'
  BY <1>h DEF RtOk
<1>4. DisplayInv'
  BY <1>0, <1>h, <1>i DEF DisplayInv, Unseen, Shown, SameView
<1>5. PublishInv'
  <2>1. Card \in Outputs!Edids
    BY DEF Outputs!Edids
  <2> QED BY <1>0, <1>h, <1>i, <2>1 DEF PublishInv, PublicationPlaces, SameView
<1> QED BY <1>1, <1>2, <1>3, <1>4, <1>5 DEF OutputsInv

\* The merged EDID is to be published.
LEMMA PublishMergedKeeps == ASSUME OutputsInv, Outputs!PublishMerged PROVE OutputsInv'
<1>0. OutputFlags /\ OutputData /\ RtOk(rt) /\ DisplayInv /\ PublishInv /\ 1 \in Outputs!Ports /\ 2 \in Outputs!Ports
  BY DEF OutputsInv, Outputs!Ports
<1>h. RtOk(rt') /\ SameView(rt, rt')
  <2>1. rt' = rt \/ (rt.sessions < 3 /\ rt' = [rt EXCEPT !.sessions = @ + 1])
    BY DEF Outputs!PublishMerged, Outputs!Sessions
  <2> QED BY <1>0, <2>1, SessionsOk DEF SameView
<1>i. /\ UNCHANGED <<source, pin1, display, sense, outputs_latch, rxLatch, swLatch, hpd, ram, input, merging, enabled>> /\ outputs_pc = "merged"
      /\ \/ outputs_pc' = "rest" /\ pub' = pub
         \/ /\ outputs_pc' = "write" /\ rt.pending
            /\ pub' = [edid |-> rt.merged, kind |-> "merged", previous |-> input, restoring |-> FALSE,
                       lost |-> pub.lost]
  BY DEF Outputs!PublishMerged, Outputs!Publish, Outputs!Continue, Outputs!pins, Outputs!chip,
         Outputs!counts
<1>1. OutputFlags'
  BY <1>0, <1>i DEF OutputFlags
<1>2. OutputData'
  <2>1. rt.pending => rt.merged \in Outputs!Edids
    BY <1>0 DEF RtOk
  <2>2. pub' \in PubStates
    <3>1. CASE pub' = pub
      BY <1>0, <3>1 DEF OutputData
    <3>2. CASE pub' # pub
      <4>1. pub.lost \in BOOLEAN /\ input \in Outputs!Edids \cup {NoEdid}
        BY <1>0 DEF OutputData, PubStates
      <4> DEFINE l == pub.lost
                 pe == input
                 e == rt.merged
      <4>2. pub' = [edid |-> e, kind |-> "merged", previous |-> pe, restoring |-> FALSE, lost |-> l]
        BY <1>i, <3>2
      <4>3. e \in Outputs!Edids
        BY <1>i, <2>1, <3>2
      <4> HIDE DEF l, pe, e
      <4>4. l \in BOOLEAN /\ pe \in Outputs!Edids \cup {NoEdid}
        BY <4>1 DEF l, pe
      <4> QED BY <4>2, <4>3, <4>4 DEF PubStates
    <3> QED BY <3>1, <3>2
  <2> QED BY <1>0, <1>i, <2>2 DEF OutputData, OutputPlaces
<1>3. RtOk(rt)'
  BY <1>h DEF RtOk
<1>4. DisplayInv'
  BY <1>0, <1>h, <1>i DEF DisplayInv, Unseen, Shown, SameView
<1>5. PublishInv'
  <2>1. rt.pending => rt.merged \in Outputs!Edids
    BY <1>0 DEF RtOk
  <2> QED BY <1>0, <1>h, <1>i, <2>1 DEF PublishInv, PublicationPlaces, SameView
<1> QED BY <1>1, <1>2, <1>3, <1>4, <1>5 DEF OutputsInv

\* The display's EDID is read.
LEMMA ReadSinkEdidKeeps == ASSUME OutputsInv, Outputs!ReadSinkEdid PROVE OutputsInv'
<1>0. OutputFlags /\ OutputData /\ RtOk(rt) /\ DisplayInv /\ PublishInv /\ 1 \in Outputs!Ports /\ 2 \in Outputs!Ports
  BY DEF OutputsInv, Outputs!Ports
<1>h. /\ RtOk(rt') /\ rt'.snap = rt.snap /\ rt'.upstream = rt.upstream /\ rt'.hpd = rt.hpd
      /\ rt'.sink = rt.sink \/ (rt'.sink = display /\ display # NoEdid)
  <2> DEFINE tried == [rt EXCEPT !.attempted[2] = TRUE, !.reads = @ + 1]
             known == [tried EXCEPT !.sink = display]
             again == [tried EXCEPT !.attempted[2] = tried.reads >= Outputs!Sessions]
  <2>1. \/ rt' = rt
        \/ ~rt.attempted[2] /\ ((display # NoEdid /\ rt' = known) \/ rt' = again)
    BY DEF Outputs!ReadSinkEdid
  <2>2. ~rt.attempted[2] => 
           /\ RtOk(known) /\ known.snap = rt.snap /\ known.upstream = rt.upstream
           /\ known.hpd = rt.hpd /\ known.sink = display
           /\ RtOk(again) /\ SameView(rt, again)
    BY <1>0, ReadOk DEF OutputData
  <2> HIDE DEF known, again
  <2> QED BY <1>0, <2>1, <2>2 DEF SameView
<1>i. /\ UNCHANGED <<source, pin1, display, sense, outputs_latch, rxLatch, swLatch, hpd, ram, input, merging, pub, enabled>>
      /\ outputs_pc = "read" /\ outputs_pc' \in {"merge", "rest"}
  BY DEF Outputs!ReadSinkEdid, Outputs!Continue, Outputs!Fail, Outputs!pins, Outputs!chip,
         Outputs!counts
<1>1. OutputFlags'
  BY <1>0, <1>i DEF OutputFlags
<1>2. OutputData'
  BY <1>0, <1>i DEF OutputData, OutputPlaces
<1>3. RtOk(rt)'
  BY <1>h DEF RtOk
<1>4. DisplayInv'
  BY <1>0, <1>h, <1>i DEF DisplayInv, Unseen, Shown, SameView
<1>5. PublishInv'
  BY <1>0, <1>h, <1>i DEF PublishInv, PublicationPlaces, SameView
<1> QED BY <1>1, <1>2, <1>3, <1>4, <1>5 DEF OutputsInv

\* ... and merged.
LEMMA MergeSinkKeeps == ASSUME OutputsInv, Outputs!MergeSink PROVE OutputsInv'
<1>0. OutputFlags /\ OutputData /\ RtOk(rt) /\ DisplayInv /\ PublishInv /\ 1 \in Outputs!Ports /\ 2 \in Outputs!Ports
  BY DEF OutputsInv, Outputs!Ports
<1>h. RtOk(rt') /\ SameView(rt, rt')
  <2> DEFINE tried == [rt EXCEPT !.mergeTried = TRUE]
             new == [tried EXCEPT !.merged = Merge(rt.sink), !.pending = TRUE, !.sessions = 0]
  <2>1. rt' = rt \/ (rt.sink # NoEdid /\ rt' \in {tried, new})
    BY DEF Outputs!MergeSink
  <2>2. rt.sink # NoEdid => RtOk(tried) /\ SameView(rt, tried) /\ RtOk(new) /\ SameView(rt, new)
    BY <1>0, MergeOk DEF RtOk, RtStates
  <2> HIDE DEF tried, new
  <2> QED BY <1>0, <2>1, <2>2 DEF SameView
<1>i. /\ UNCHANGED <<source, pin1, display, sense, outputs_latch, rxLatch, swLatch, hpd, ram, input, merging, pub, enabled>>
      /\ outputs_pc = "merge" /\ outputs_pc' \in {"merged", "rest"}
  BY DEF Outputs!MergeSink, Outputs!Continue, Outputs!pins, Outputs!chip, Outputs!counts
<1>1. OutputFlags'
  BY <1>0, <1>i DEF OutputFlags
<1>2. OutputData'
  BY <1>0, <1>i DEF OutputData, OutputPlaces
<1>3. RtOk(rt)'
  BY <1>h DEF RtOk
<1>4. DisplayInv'
  BY <1>0, <1>h, <1>i DEF DisplayInv, Unseen, Shown, SameView
<1>5. PublishInv'
  BY <1>0, <1>h, <1>i DEF PublishInv, PublicationPlaces, SameView
<1> QED BY <1>1, <1>2, <1>3, <1>4, <1>5 DEF OutputsInv

\* A publication that fails writes the EDID before it again, once.
LEMMA UndoKeeps ==
    ASSUME OutputFlags, OutputData, Outputs!Undo, pub.edid \in Outputs!Edids, pub.previous = input,
           rt' = rt, input' = input, enabled' = enabled, input = NoEdid => rt.upstream = "none", enabled
    PROVE  PublishInv' /\ pub' \in PubStates /\ outputs_pc' \in OutputPlaces
<1>0. Outputs!NoPub \in PubStates
  BY DEF Outputs!NoPub, PubStates
<1>a. pub \in PubStates
  BY DEF OutputData
<1>1. CASE /\ ~pub.restoring /\ pub.previous # NoEdid
           /\ pub' = [pub EXCEPT !.edid = pub.previous, !.restoring = TRUE] /\ outputs_pc' = "write"
  <2>1. input \in Outputs!Edids
    BY <1>1 DEF OutputData
  <2>2. pub' \in PubStates
    BY <1>1, <1>a DEF PubStates
  <2>3. pub'.edid = input /\ pub'.previous = input
    BY <1>1, <1>a DEF PubStates
  <2> QED BY <1>1, <2>1, <2>2, <2>3 DEF PublishInv, PublicationPlaces, OutputPlaces
<1>2. CASE /\ pub.restoring \/ pub.previous = NoEdid
           /\ outputs_pc' = "rest" /\ pub' = [Outputs!NoPub EXCEPT !.lost = pub.lost
               \/ pub.restoring]
  <2>1. pub.lost \in BOOLEAN /\ pub.restoring \in BOOLEAN
    BY <1>a DEF PubStates
  <2>2. pub' \in PubStates
    BY <1>2, <2>1, <1>0 DEF PubStates
  <2>3. pub'.lost <=> pub.lost \/ pub.restoring
    BY <1>2, <1>0 DEF PubStates
  <2> QED BY <1>2, <2>2, <2>3 DEF PublishInv, PublicationPlaces, OutputPlaces
<1> QED BY <1>1, <1>2 DEF Outputs!Undo, Outputs!Fail

\* The EDID is written.
LEMMA WriteEdidKeeps == ASSUME OutputsInv, Outputs!WriteEdid PROVE OutputsInv'
<1>0. /\ OutputFlags /\ OutputData /\ RtOk(rt) /\ DisplayInv /\ PublishInv
      /\ outputs_pc \in PublicationPlaces /\ outputs_pc # "rest"
  BY DEF OutputsInv, Outputs!WriteEdid, PublicationPlaces
<1>a. /\ pub.edid \in Outputs!Edids /\ pub.previous = input /\ (input = NoEdid => rt.upstream = "none")
      /\ enabled /\ (pub.restoring => pub.edid = input) /\ (outputs_pc # "write" => ram = pub.edid)
  BY <1>0 DEF PublishInv, OutputFlags
<1>i. UNCHANGED <<source, pin1, display, sense, outputs_latch, rxLatch, swLatch, merging, enabled>>
  BY DEF Outputs!WriteEdid, Outputs!pins, Outputs!chip, Outputs!counts
<1>b. rt' = rt /\ input' = input /\ outputs_pc = "write"
  BY DEF Outputs!WriteEdid
<1>c. /\ PublishInv' /\ pub' \in PubStates /\ outputs_pc' \in OutputPlaces
      /\ ram' \in Outputs!Edids \cup {NoEdid, Torn} /\ hpd' \in BOOLEAN
  <2>1. CASE ram' = pub.edid /\ outputs_pc' = "low" /\ hpd' = hpd /\ pub' = pub
    BY <1>0, <1>a, <1>b, <1>i, <2>1 DEF PublishInv, PublicationPlaces, OutputPlaces, OutputData,
           OutputFlags
  <2>2. CASE ram' \in {ram, Torn} /\ hpd' \in {hpd, FALSE} /\ Outputs!Undo
    BY <1>0, <1>a, <1>b, <1>i, <2>2, UndoKeeps DEF OutputData, OutputFlags
  <2> QED BY <2>1, <2>2 DEF Outputs!WriteEdid, Outputs!Continue
<1>1. OutputFlags'
  BY <1>0, <1>i, <1>c DEF OutputFlags
<1>2. OutputData'
  BY <1>0, <1>b, <1>i, <1>c DEF OutputData
<1>3. RtOk(rt)'
  BY <1>0, <1>b DEF RtOk
<1>4. DisplayInv'
  BY <1>0, <1>b, <1>i DEF DisplayInv, Unseen, Shown
<1> QED BY <1>1, <1>2, <1>3, <1>4, <1>c DEF OutputsInv

\* ... HPD goes down.
LEMMA LowerHpdKeeps == ASSUME OutputsInv, Outputs!LowerHpd PROVE OutputsInv'
<1>0. /\ OutputFlags /\ OutputData /\ RtOk(rt) /\ DisplayInv /\ PublishInv
      /\ outputs_pc \in PublicationPlaces /\ outputs_pc # "rest"
  BY DEF OutputsInv, Outputs!LowerHpd, PublicationPlaces
<1>a. /\ pub.edid \in Outputs!Edids /\ pub.previous = input /\ (input = NoEdid => rt.upstream = "none")
      /\ enabled /\ (pub.restoring => pub.edid = input) /\ (outputs_pc # "write" => ram = pub.edid)
  BY <1>0 DEF PublishInv, OutputFlags
<1>i. UNCHANGED <<source, pin1, display, sense, outputs_latch, rxLatch, swLatch, merging, enabled>>
  BY DEF Outputs!LowerHpd, Outputs!pins, Outputs!chip, Outputs!counts
<1>b. rt' = rt /\ input' = input /\ ram' = ram /\ outputs_pc = "low"
  BY DEF Outputs!LowerHpd
<1>c. PublishInv' /\ pub' \in PubStates /\ outputs_pc' \in OutputPlaces /\ hpd' \in BOOLEAN
  <2>1. CASE outputs_pc' = "high" /\ hpd' = FALSE /\ pub' = pub
    BY <1>0, <1>a, <1>b, <1>i, <2>1 DEF PublishInv, PublicationPlaces, OutputPlaces, OutputData,
           OutputFlags
  <2>2. CASE hpd' \in {hpd, FALSE} /\ Outputs!Undo
    BY <1>0, <1>a, <1>b, <1>i, <2>2, UndoKeeps DEF OutputData, OutputFlags
  <2> QED BY <2>1, <2>2 DEF Outputs!LowerHpd, Outputs!Continue
<1>1. OutputFlags'
  BY <1>0, <1>i, <1>c DEF OutputFlags
<1>2. OutputData'
  BY <1>0, <1>b, <1>i, <1>c DEF OutputData
<1>3. RtOk(rt)'
  BY <1>0, <1>b DEF RtOk
<1>4. DisplayInv'
  BY <1>0, <1>b, <1>i DEF DisplayInv, Unseen, Shown
<1> QED BY <1>1, <1>2, <1>3, <1>4, <1>c DEF OutputsInv

\* ... and comes back.
LEMMA RaiseHpdKeeps == ASSUME OutputsInv, Outputs!RaiseHpd PROVE OutputsInv'
<1>0. /\ OutputFlags /\ OutputData /\ RtOk(rt) /\ DisplayInv /\ PublishInv
      /\ outputs_pc \in PublicationPlaces /\ outputs_pc # "rest"
  BY DEF OutputsInv, Outputs!RaiseHpd, PublicationPlaces
<1>a. /\ pub.edid \in Outputs!Edids /\ pub.previous = input /\ (input = NoEdid => rt.upstream = "none")
      /\ enabled /\ (pub.restoring => pub.edid = input) /\ (outputs_pc # "write" => ram = pub.edid)
  BY <1>0 DEF PublishInv, OutputFlags
<1>i. UNCHANGED <<source, pin1, display, sense, outputs_latch, rxLatch, swLatch, merging, enabled>>
  BY DEF Outputs!RaiseHpd, Outputs!pins, Outputs!chip, Outputs!counts
<1>b. ram' = ram /\ outputs_pc = "high" /\ Outputs!NoPub \in PubStates /\ ~Outputs!NoPub.lost
  BY DEF Outputs!RaiseHpd, Outputs!NoPub, PubStates
<1>c. hpd' \in BOOLEAN
  BY <1>0 DEF OutputFlags, Outputs!RaiseHpd, Outputs!Raised
<1>d. /\ PublishInv' /\ pub' \in PubStates /\ outputs_pc' \in OutputPlaces
      /\ input' \in Outputs!Edids \cup {NoEdid}
      /\ RtOk(rt') /\ rt'.snap = rt.snap /\ rt'.sink = rt.sink /\ rt'.hpd = rt.hpd
  <2>1. CASE Outputs!Undo /\ rt' = rt /\ input' = input
    BY <1>0, <1>a, <1>b, <1>i, <2>1, UndoKeeps DEF OutputData
  <2>2. CASE pub.restoring /\ pub' = Outputs!NoPub /\ outputs_pc' = "rest" /\ rt' = rt /\ input' = input
    BY <1>0, <1>a, <1>b, <1>i, <2>2 DEF PublishInv, PublicationPlaces, OutputPlaces, OutputData
  <2>3. CASE /\ pub' = Outputs!NoPub /\ input' = pub.edid /\ outputs_pc' \in {"read", "rest"}
             /\ \/ rt' = [rt EXCEPT !.attempted[1] = TRUE, !.upstream = "fixed"]
                \/ rt' = [rt EXCEPT !.attempted[1] = TRUE, !.upstream = "merged", !.pending = FALSE,
                                    !.sessions = 0]
    <3>1. RtOk(rt') /\ rt'.snap = rt.snap /\ rt'.sink = rt.sink /\ rt'.hpd = rt.hpd
      BY <1>0, <2>3, PublishedOk
    <3>2. PublishInv'
      <4>1. NoEdid \notin Outputs!Edids
        BY EdidAssumption DEF Outputs!Edids
      <4> QED BY <1>0, <1>a, <1>b, <1>i, <2>3, <4>1 DEF PublishInv, PublicationPlaces
    <3> QED BY <1>a, <1>b, <2>3, <3>1, <3>2 DEF OutputPlaces
  <2> QED BY <2>1, <2>2, <2>3 DEF Outputs!RaiseHpd, Outputs!Published, Outputs!Continue
<1>1. OutputFlags'
  BY <1>0, <1>i, <1>c DEF OutputFlags
<1>2. OutputData'
  BY <1>0, <1>b, <1>i, <1>d DEF OutputData
<1>3. RtOk(rt)'
  BY <1>d DEF RtOk
<1>4. DisplayInv'
  BY <1>0, <1>d, <1>i DEF DisplayInv, Unseen, Shown
<1> QED BY <1>1, <1>2, <1>3, <1>4, <1>d DEF OutputsInv

\* The driver's state when it starts.
LEMMA FreshOk ==
    /\ RtOk(Outputs!Fresh) /\ Outputs!Fresh.upstream = "none" /\ Shown(Outputs!Fresh)
    /\ ~Outputs!Fresh.snap[2].valid
<1>1. [p \in Outputs!Ports |-> FALSE] \in Marks
  BY DEF Marks
<1>2. [p \in Outputs!Ports |-> Outputs!NoSnap] \in Snaps
  BY DEF Snaps, SnapStates, Outputs!NoSnap
<1>3. Outputs!NoSwitch \in SwitchStates
  BY DEF SwitchStates, SwitchBits, Outputs!NoSwitch
<1>4. Outputs!Fresh \in RtStates
  BY <1>1, <1>2, <1>3 DEF Outputs!Fresh, RtStates
<1>5. /\ Outputs!Fresh.hpd = [p \in Outputs!Ports |-> FALSE] /\ Outputs!Fresh.reads = 0
      /\ Outputs!Fresh.sink = NoEdid /\ Outputs!Fresh.pending = FALSE
      /\ Outputs!Fresh.upstream = "none" /\ Outputs!Fresh.snap = [p \in Outputs!Ports |-> Outputs!NoSnap]
  BY DEF Outputs!Fresh
<1>6. ~Outputs!Fresh.hpd[2] /\ ~Outputs!Fresh.snap[2].valid
  BY <1>5 DEF Outputs!Ports, Outputs!NoSnap
<1>7. RtOk(Outputs!Fresh)
  BY <1>4, <1>5 DEF RtOk
<1> QED BY <1>5, <1>6, <1>7 DEF Shown

\* The interrupts that a chip begins with.
LEMMA LatchedOk == Outputs!Latched \in [Outputs!Ports -> SUBSET Outputs!Events]
  BY DEF Outputs!Latched, Outputs!Events

\* The chip loses power.
LEMMA SuspendKeeps == ASSUME OutputsInv, Outputs!Suspend PROVE OutputsInv'
<1>0. OutputFlags /\ OutputData /\ RtOk(rt) /\ DisplayInv /\ PublishInv /\ 1 \in Outputs!Ports /\ 2 \in Outputs!Ports
  BY DEF OutputsInv, Outputs!Ports
<1>h. RtOk(rt') /\ SameView(rt, rt')
  <2>1. Outputs!NoSwitch \in SwitchStates
    BY DEF SwitchStates, SwitchBits, Outputs!NoSwitch
  <2>2. rt' = [rt EXCEPT !.switch = Outputs!NoSwitch]
    BY DEF Outputs!Suspend
  <2> QED BY <1>0, <2>1, <2>2, SwitchOk
<1>i. /\ UNCHANGED <<source, pin1, display, sense, outputs_latch, rxLatch, swLatch, input, merging, outputs_pc, pub>>
      /\ outputs_pc = "rest" /\ enabled' = FALSE /\ ram' = NoEdid /\ hpd' = FALSE
  BY DEF Outputs!Suspend, Outputs!pins, Outputs!chip, Outputs!counts
<1>1. OutputFlags'
  BY <1>0, <1>i DEF OutputFlags
<1>2. OutputData'
  BY <1>0, <1>i DEF OutputData, OutputPlaces
<1>3. RtOk(rt)'
  BY <1>h DEF RtOk
<1>4. DisplayInv'
  BY <1>0, <1>h, <1>i DEF DisplayInv, Unseen, Shown, SameView
<1>5. PublishInv'
  BY <1>0, <1>h, <1>i DEF PublishInv, PublicationPlaces, SameView
<1> QED BY <1>1, <1>2, <1>3, <1>4, <1>5 DEF OutputsInv

\* The driver starts afresh.
LEMMA ResumeKeeps == ASSUME OutputsInv, Outputs!Resume PROVE OutputsInv'
<1>0. OutputFlags /\ OutputData /\ RtOk(rt) /\ DisplayInv /\ PublishInv /\ 1 \in Outputs!Ports /\ 2 \in Outputs!Ports
  BY DEF OutputsInv, Outputs!Ports
<1>h. rt' = Outputs!Fresh /\ RtOk(rt') /\ rt'.upstream = "none" /\ Shown(rt') /\ ~rt'.snap[2].valid
  BY FreshOk DEF Outputs!Resume
<1>i. /\ UNCHANGED <<source, pin1, display, sense, hpd, ram, input, merging, outputs_pc, pub>>
      /\ enabled' = TRUE /\ rxLatch' = source /\ swLatch' = {} /\ outputs_latch' = Outputs!Latched /\ ~enabled
  BY DEF Outputs!Resume, Outputs!pins, Outputs!counts
<1>1. OutputFlags'
  BY <1>0, <1>i DEF OutputFlags
<1>2. OutputData'
  BY <1>0, <1>i, LatchedOk DEF OutputData, OutputPlaces, SwitchBits
<1>3. RtOk(rt)'
  BY <1>h DEF RtOk
<1>4. DisplayInv'
  BY <1>0, <1>h, <1>i DEF DisplayInv, Unseen, Shown, SameView
<1>5. PublishInv'
  BY <1>0, <1>h, <1>i DEF PublishInv, PublicationPlaces, SameView
<1> QED BY <1>1, <1>2, <1>3, <1>4, <1>5 DEF OutputsInv

\* The initial states satisfy the invariant.
LEMMA OutputsInit == Outputs!Init => OutputsInv
<1> SUFFICES ASSUME Outputs!Init PROVE OutputsInv
  OBVIOUS
<1>1. OutputFlags
  BY EdidAssumption DEF OutputFlags, Outputs!Init
<1>2. Outputs!NoPub \in PubStates
  BY DEF Outputs!NoPub, PubStates
<1>3. OutputData
  BY <1>2, LatchedOk DEF OutputData, Outputs!Init, SwitchBits, OutputPlaces
<1>4. RtOk(rt) /\ DisplayInv /\ PublishInv
  BY FreshOk DEF Outputs!Init, DisplayInv, PublishInv, PublicationPlaces
<1> QED BY <1>1, <1>3, <1>4 DEF OutputsInv

\* Every step preserves the invariant.
LEMMA OutputsStep == OutputsInv /\ [Outputs!Next]_(Outputs!vars) => OutputsInv'
<1> SUFFICES ASSUME OutputsInv, [Outputs!Next]_(Outputs!vars) PROVE OutputsInv'
  OBVIOUS
<1>1. CASE Outputs!Move
  BY <1>1, OutputsMoves
<1>2. CASE Outputs!Work
  BY <1>2, StartTickKeeps, SwitchIrqKeeps, RxPollKeeps, RxAckKeeps, PublishFixedKeeps,
         ReadSinkEdidKeeps,
     MergeSinkKeeps, PublishMergedKeeps, WriteEdidKeeps, LowerHpdKeeps, RaiseHpdKeeps, ReadTxIrqKeeps,
     AckTxIrqKeeps, HandleKeeps DEF Outputs!Work
<1>3. CASE Outputs!Suspend
  BY <1>3, SuspendKeeps
<1>4. CASE Outputs!Resume
  BY <1>4, ResumeKeeps
<1>5. CASE UNCHANGED Outputs!vars
  BY <1>5 DEF Outputs!vars, Outputs!pins, Outputs!chip, Outputs!counts, OutputsInv, OutputFlags,
         OutputData,
     RtOk, DisplayInv, Unseen, Shown, PublishInv
<1> QED BY <1>1, <1>2, <1>3, <1>4, <1>5 DEF Outputs!Next

\* The invariant of hot plug and EDID, for any displays and merge, any number of
\* events, failing calls and sleeps.
THEOREM OutputsInvariant == Outputs!Spec => []OutputsInv
  BY OutputsInit, OutputsStep, PTL DEF Outputs!Spec

\* Their variables have their types.
THEOREM OutputsTypes == Outputs!Spec => []Outputs!TypeOK
<1>1. OutputsInv => Outputs!TypeOK
  <2> SUFFICES ASSUME OutputsInv PROVE Outputs!TypeOK
    OBVIOUS
  <2>1. OutputFlags /\ OutputData /\ rt \in RtStates
    BY DEF OutputsInv, RtOk
  <2>2. /\ rt.hpd \in [Outputs!Ports -> BOOLEAN] /\ rt.powered \in [Outputs!Ports -> BOOLEAN]
        /\ rt.mask \subseteq Outputs!Ports
        /\ rt.reads \in 0 .. Outputs!Sessions /\ rt.sessions \in 0 .. Outputs!Sessions
        /\ rt.sink \in Displays \cup {NoEdid} /\ rt.merged \in Outputs!Edids \cup {NoEdid}
        /\ rt.upstream \in {"none", "fixed", "merged"} /\ rt.switch.stage \in 0 .. 4
    BY <2>1 DEF RtStates, Marks, SwitchStates, Outputs!Sessions
  <2> QED BY <2>1, <2>2 DEF OutputFlags, OutputData, OutputPlaces, SwitchBits, Outputs!TypeOK
<1> QED BY <1>1, OutputsInvariant, PTL

\* Between ticks the source can read the EDID the driver reports, unless a failing
\* call kept the one before from being written again (gc573-it6664-core.c:3812).
THEOREM ReportedTheorem == Outputs!Spec => []Outputs!ReportedShown
<1>1. OutputsInv => Outputs!ReportedShown
  BY DEF OutputsInv, PublishInv, PublicationPlaces, Outputs!ReportedShown, Outputs!AtRest
<1> QED BY <1>1, OutputsInvariant, PTL

\* With everything handled, the display the driver knows is the one that is there, if
\* it does not come and go while its events are being handled (gc573-it6664-tx.c:1098).
THEOREM SinkTheorem == Outputs!Spec => [](~QuickPins => Outputs!SinkCurrent)
<1>1. OutputsInv => (~QuickPins => Outputs!SinkCurrent)
  BY DEF OutputsInv, DisplayInv, Unseen, Shown, Outputs!SinkCurrent, Outputs!Quiet, Outputs!Ports
<1> QED BY <1>1, OutputsInvariant, PTL

-----------------------------------------------------------------------------
(* The splitter                                                              *)

\* What the driver believes agrees with the chip: the whole of SplitterSound.
THEOREM SplitterSoundTheorem == WholeSpec => []SplitterSound
  BY RxTypes, LockTheorem, EngineTheorem, OutputsTypes, ReportedTheorem, SinkTheorem, PTL
     DEF WholeSpec, SplitterSound
=============================================================================
