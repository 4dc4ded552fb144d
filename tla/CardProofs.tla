----------------------------- MODULE CardProofs -----------------------------
(***************************************************************************)
(* The parts of the card, proved for any number of buses, callers,         *)
(* operations, controls, colors, writers, failures and suspends:           *)
(*   - I2C: a transfer takes the answer to its own operation, a bus waits  *)
(*     only for an attempt in progress, what was done is repeated only     *)
(*     after a timeout, and a list is refused before its first message is  *)
(*     sent or not at all, however interrupt, poll and timeout race;       *)
(*   - video processor: frames flow in the colors of the source as it is   *)
(*     now, with the controls last set;                                    *)
(*   - LEDs: they show what was asked for last;                            *)
(*   - life cycle: whichever call of probe or resume fails, and whenever   *)
(*     the card is pulled, no work, file or handler is left in a part that *)
(*     is freed.                                                           *)
(***************************************************************************)
EXTENDS CardCore, FiniteSetTheorems, TLAPS

\* Places with the mutex held; with an operation under way, before and after
\* its command was written; and with a bus that may wait.
Before == {"setup", "arm", "command"}
After == {"wait", "poll", "settle", "expire", "checked", "fetch"}
Active == {"next"} \cup Before \cup After
Waits == {"command", "wait", "poll", "settle", "expire"}
Statuses == {"none", "done", "error"}

\* The types the rest needs: of the calls, the buses and the history.
CallTypes ==
    /\ lock \in Callers \cup {"none"} /\ pc \in [Callers -> {"idle", "lock"} \cup Active]
    /\ bus \in [Callers -> Buses] /\ irq_wait \in [Callers -> BOOLEAN]
    /\ seen_status \in [Callers -> Statuses] /\ op \in [Callers -> 0 .. MaxOps]
BusTypes ==
    /\ registered \in 0 .. BusCount /\ dma \in BOOLEAN
    /\ waiting \in [Buses -> BOOLEAN] /\ completion \in [Buses -> BOOLEAN]
    /\ completion_status \in [Buses -> Statuses] /\ status \in [Buses -> Statuses]
    /\ engine \in [Buses -> 0 .. MaxOps] /\ fifo \in [Buses -> 0 .. MaxOps]
HistoryTypes ==
    /\ ops \in 0 .. MaxOps
    /\ performed \in [1 .. MaxOps -> Nat] /\ expired \in [1 .. MaxOps -> Nat]

\* One caller at a time is past the mutex.
Mutex == \A c \in Callers : pc[c] \in Active <=> lock = c

\* Operations are numbered as they begin, and an engine works for the bus of
\* its operation, and no two for the same one.
EngineNumbered == \A b \in Buses : engine[b] <= ops
FutureClear == \A o \in 1 .. MaxOps : o > ops => performed[o] = 0 /\ expired[o] = 0
OpNumbered == \A c \in Callers : pc[c] \in Before \cup After =>
    op[c] \in 1 .. ops /\ \A b \in Buses : engine[b] = op[c] => b = bus[c]
EngineDistinct == \A b, d \in Buses : engine[b] # 0 /\ engine[b] = engine[d] => b = d

\* The status register is clear while an engine works, and before a command.
EngineClear == \A b \in Buses : engine[b] # 0 => status[b] = "none"
CommandClear == \A c \in Callers : pc[c] \in {"arm", "command"} =>
    engine[bus[c]] = 0 /\ status[bus[c]] = "none"

\* After the command the register speaks of this operation.
StatusOwn == \A c \in Callers : pc[c] \in After =>
    /\ engine[bus[c]] \in {0, op[c]}
    /\ status[bus[c]] = "done" => fifo[bus[c]] = op[c] /\ performed[op[c]] > 0

\* So does a completion, which leaves the bus no longer waiting, and so does
\* what the caller has seen.
CompletionOwn == \A c \in Callers :
    pc[c] \in Waits /\ irq_wait[c] /\ completion[bus[c]] =>
        ~waiting[bus[c]] /\ completion_status[bus[c]] \in {"none", status[bus[c]]}
SeenOwn == \A c \in Callers :
    /\ pc[c] \in {"settle", "checked", "fetch"} =>
           seen_status[c] # "none" /\ seen_status[c] = status[bus[c]]
    /\ pc[c] = "fetch" => seen_status[c] = "done"

\* How often an operation may have been performed, a command that an engine
\* works on included: once more than it timed out, but not yet before its
\* command is written, and not after an error.
PerformedOnce == \A o \in 1 .. ops : performed[o] <= expired[o] + 1
EngineOnce == \A b \in Buses : engine[b] # 0 => performed[engine[b]] <= expired[engine[b]]
BeforeOnce == \A c \in Callers : pc[c] \in Before =>
    /\ performed[op[c]] <= expired[op[c]]
    /\ engine[bus[c]] = op[c] => performed[op[c]] + 1 <= expired[op[c]]
ErrorOnce == \A c \in Callers : pc[c] \in After /\ status[bus[c]] = "error" =>
    performed[op[c]] <= expired[op[c]]

I2cInv ==
    /\ CallTypes /\ BusTypes /\ HistoryTypes /\ Mutex
    /\ EngineNumbered /\ FutureClear /\ OpNumbered /\ EngineDistinct
    /\ EngineClear /\ CommandClear /\ StatusOwn /\ CompletionOwn /\ SeenOwn
    /\ PerformedOnce /\ EngineOnce /\ BeforeOnce /\ ErrorOnce /\ WaitingHasWaiter

-----------------------------------------------------------------------------
(* How a step of the one caller past the mutex changes the invariant        *)

\* Nobody else is past the mutex.
LEMMA Alone ==
    ASSUME I2cInv, NEW c \in Callers, pc[c] \in Active
    PROVE  lock = c /\ \A d \in Callers : d # c => pc[d] \notin Active
BY DEF I2cInv, Mutex

\* The numbers of operations.
LEMMA Numbers ==
    ASSUME HistoryTypes
    PROVE  /\ ops \in Nat /\ MaxOps \in Nat /\ 0 \in 0 .. MaxOps
           /\ \A o \in 1 .. ops : o \in 1 .. MaxOps /\ o \in 0 .. MaxOps /\ o # 0
           /\ \A n \in 0 .. MaxOps : n # 0 => n \in 1 .. MaxOps
           /\ \A o \in 1 .. MaxOps : performed[o] \in Nat /\ expired[o] \in Nat
BY I2cAssumption DEF HistoryTypes

\* Steps of the probing thread, the bridge and the handler that touch no transfer.
LEMMA Still ==
    ASSUME I2cInv,
           registered' \in 0 .. BusCount, dma' \in BOOLEAN, gone => gone',
           UNCHANGED <<lock, pc, bus, irq_wait, seen_status, op, waiting, completion,
                       completion_status, engine, status, fifo, ops, performed, expired>>
    PROVE  I2cInv'
<1> USE DEF I2cInv
<1>1. CallTypes' /\ HistoryTypes' /\ Mutex' /\ EngineNumbered' /\ FutureClear' /\ OpNumbered' /\ EngineDistinct' /\ EngineClear' /\ CommandClear' /\ StatusOwn' /\ CompletionOwn' /\ SeenOwn' /\ PerformedOnce' /\ EngineOnce' /\ BeforeOnce' /\ ErrorOnce'
    BY DEF CallTypes, HistoryTypes, Mutex, EngineNumbered, FutureClear, OpNumbered,
       EngineDistinct, EngineClear, CommandClear, StatusOwn, CompletionOwn, SeenOwn,
       PerformedOnce, EngineOnce, BeforeOnce, ErrorOnce
<1>2. BusTypes' BY
       DEF BusTypes
<1>3. WaitingHasWaiter' BY
       DEF WaitingHasWaiter
<1> QED BY <1>1, <1>2, <1>3

\* A transfer ends: its thread lets go of the mutex.
LEMMA Leaves ==
    ASSUME I2cInv, NEW c \in Callers,
           pc[c] \in Active,
           NEW r, Return(c, r),
           waiting' = waiting \/ waiting' = [waiting EXCEPT ![bus[c]] = FALSE],
           \/ expired' = expired
           \/ op[c] \in 1 .. ops /\ expired' = [expired EXCEPT ![op[c]] = @ + 1],
           WaitingHasWaiter',
           UNCHANGED <<registered, dma, gone, bus, completion, completion_status, engine, status,
                       fifo, ops, performed>>
    PROVE  I2cInv'
<1> USE DEF I2cInv
<1>a. lock = c /\ pc[c] \in Active /\ \A d \in Callers : d # c => pc[d] \notin Active
    BY Alone DEF Active, Before, After
<1>b. \A d \in Callers : pc'[d] = IF d = c THEN "idle" ELSE pc[d]
    BY DEF CallTypes, Return, Goto
<1>c. \A o \in 1 .. MaxOps : expired'[o] \in Nat /\ expired[o] <= expired'[o]
    <2>1. CASE expired' = expired
        BY <2>1, Numbers
    <2>2. CASE op[c] \in 1 .. ops /\ expired' = [expired EXCEPT ![op[c]] = @ + 1]
        <3>1. expired \in [1 .. MaxOps -> Nat]
            BY DEF HistoryTypes
        <3>2. \A o \in 1 .. MaxOps : expired'[o] = IF o = op[c] THEN expired[o] + 1 ELSE expired[o]
            BY ONLY <2>2, <3>1
        <3> QED BY <3>2, Numbers
    <2> QED BY <2>1, <2>2
<1>1. EngineNumbered' /\ EngineDistinct' /\ EngineClear'
    BY DEF EngineNumbered, EngineDistinct, EngineClear
<1>2. CallTypes' BY Numbers
       DEF CallTypes, Statuses, Return, Goto
<1>3. BusTypes' BY
       DEF BusTypes
<1>4. HistoryTypes' BY <1>c
       DEF HistoryTypes
<1>5. Mutex'
    BY <1>a, <1>b, I2cAssumption DEF Mutex, CallTypes, Active, Before, After, Return
<1>6. FutureClear' BY Numbers
       DEF FutureClear, HistoryTypes
<1>7. OpNumbered' BY <1>b
       DEF OpNumbered, Before, After, Return
<1>8. CommandClear' BY <1>b
       DEF CommandClear
<1>9. StatusOwn' BY <1>b
       DEF StatusOwn, After, Return
<1>10. CompletionOwn' BY <1>a, <1>b
       DEF CompletionOwn, Waits, Active, Before, After
<1>11. SeenOwn' BY <1>b
       DEF SeenOwn, Return
<1>12. PerformedOnce'
    <2>1. performed' = performed /\ ops' = ops
        OBVIOUS
    <2> QED BY <2>1, <1>c, Numbers DEF PerformedOnce
<1>13. EngineOnce'
    <2>1. \A b \in Buses : engine[b] # 0 => engine[b] \in 1 .. MaxOps
        BY Numbers DEF BusTypes
    <2>2. performed' = performed /\ engine' = engine
        OBVIOUS
    <2> QED BY <2>1, <2>2, <1>c, Numbers DEF EngineOnce
<1>14. BeforeOnce' BY <1>a, <1>b
       DEF BeforeOnce, Before, Active
<1>15. ErrorOnce' BY <1>a, <1>b
       DEF ErrorOnce, After, Active
<1> QED BY <1>1, <1>2, <1>3, <1>4, <1>5, <1>6, <1>7, <1>8, <1>9, <1>10, <1>11, <1>12, <1>13,
        <1>14, <1>15

\* An operation is over.
LEMMA Advances ==
    ASSUME I2cInv, NEW c \in Callers,
           pc[c] \in {"checked", "fetch"},
           pc' = [pc EXCEPT ![c] = "next"],
           seen_status' = [seen_status EXCEPT ![c] = "none"],
           UNCHANGED <<registered, dma, gone, lock, bus, irq_wait, op, waiting, completion,
                       completion_status, engine, status, fifo, ops, performed, expired>>
    PROVE  I2cInv'
<1> USE DEF I2cInv
<1>a. lock = c /\ pc[c] \in Active /\ \A d \in Callers : d # c => pc[d] \notin Active
    BY Alone DEF Active, Before, After
<1>b. \A d \in Callers : pc'[d] = IF d = c THEN "next" ELSE pc[d]
    BY DEF CallTypes
<1>1. BusTypes' /\ HistoryTypes' /\ EngineNumbered' /\ FutureClear' /\ EngineDistinct' /\ EngineClear' /\ PerformedOnce' /\ EngineOnce'
    BY DEF BusTypes, HistoryTypes, EngineNumbered, FutureClear, EngineDistinct, EngineClear,
       PerformedOnce, EngineOnce
<1>2. CallTypes' BY
       DEF CallTypes, Active, Statuses
<1>3. Mutex' BY <1>a
       DEF Mutex, Active
<1>4. OpNumbered' BY <1>a
       DEF OpNumbered, Active
<1>5. CommandClear' BY
       DEF CommandClear
<1>6. StatusOwn' BY <1>a
       DEF StatusOwn, Active, Before
<1>7. CompletionOwn' BY
       DEF CompletionOwn, Waits
<1>8. SeenOwn' BY <1>b
       DEF SeenOwn
<1>9. BeforeOnce' BY
       DEF BeforeOnce, Before
<1>10. ErrorOnce' BY <1>a
       DEF ErrorOnce, Active, Before
<1>11. WaitingHasWaiter' BY
       DEF WaitingHasWaiter
<1> QED BY <1>1, <1>2, <1>3, <1>4, <1>5, <1>6, <1>7, <1>8, <1>9, <1>10, <1>11

\* Another attempt, at what was not performed more often than it timed out.
LEMMA Retries ==
    ASSUME I2cInv, NEW c \in Callers,
           pc[c] \in After,
           pc' = [pc EXCEPT ![c] = "setup"],
           waiting' = waiting \/ waiting' = [waiting EXCEPT ![bus[c]] = FALSE],
           \/ expired' = expired
           \/ op[c] \in 1 .. ops /\ expired' = [expired EXCEPT ![op[c]] = @ + 1],
           performed[op[c]] <= expired'[op[c]],
           engine[bus[c]] = op[c] => performed[op[c]] + 1 <= expired'[op[c]],
           WaitingHasWaiter',
           UNCHANGED <<registered, dma, gone, lock, bus, irq_wait, seen_status, op, completion,
                       completion_status, engine, status, fifo, ops, performed>>
    PROVE  I2cInv'
<1> USE DEF I2cInv
<1>a. lock = c /\ pc[c] \in Active /\ \A d \in Callers : d # c => pc[d] \notin Active
    BY Alone DEF Active, Before, After
<1>b. \A d \in Callers : pc'[d] = IF d = c THEN "setup" ELSE pc[d]
    BY DEF CallTypes
<1>c. \A o \in 1 .. MaxOps : expired'[o] \in Nat /\ expired[o] <= expired'[o]
    <2>1. CASE expired' = expired
        BY <2>1, Numbers
    <2>2. CASE op[c] \in 1 .. ops /\ expired' = [expired EXCEPT ![op[c]] = @ + 1]
        <3>1. expired \in [1 .. MaxOps -> Nat]
            BY DEF HistoryTypes
        <3>2. \A o \in 1 .. MaxOps : expired'[o] = IF o = op[c] THEN expired[o] + 1 ELSE expired[o]
            BY ONLY <2>2, <3>1
        <3> QED BY <3>2, Numbers
    <2> QED BY <2>1, <2>2
<1>1. EngineNumbered' /\ EngineDistinct' /\ EngineClear'
    BY DEF EngineNumbered, EngineDistinct, EngineClear
<1>2. CallTypes' BY
       DEF CallTypes, Before, Active
<1>3. BusTypes' BY
       DEF BusTypes
<1>4. HistoryTypes' BY <1>c
       DEF HistoryTypes
<1>5. Mutex' BY
       DEF Mutex, Active, Before
<1>6. FutureClear' BY Numbers
       DEF FutureClear, HistoryTypes
<1>7. OpNumbered' BY
       DEF OpNumbered
<1>8. CommandClear' BY
       DEF CommandClear
<1>9. StatusOwn' BY
       DEF StatusOwn
<1>10. CompletionOwn' BY <1>a, <1>b
       DEF CompletionOwn, Waits, Active, Before, After
<1>11. SeenOwn' BY
       DEF SeenOwn
<1>12. PerformedOnce'
    <2>1. performed' = performed /\ ops' = ops
        OBVIOUS
    <2> QED BY <2>1, <1>c, Numbers DEF PerformedOnce
<1>13. EngineOnce'
    <2>1. \A b \in Buses : engine[b] # 0 => engine[b] \in 1 .. MaxOps
        BY Numbers DEF BusTypes
    <2>2. performed' = performed /\ engine' = engine
        OBVIOUS
    <2> QED BY <2>1, <2>2, <1>c, Numbers DEF EngineOnce
<1>14. BeforeOnce' BY <1>a
       DEF BeforeOnce, Active
<1>15. ErrorOnce' BY <1>a
       DEF ErrorOnce, Active
<1> QED BY <1>1, <1>2, <1>3, <1>4, <1>5, <1>6, <1>7, <1>8, <1>9, <1>10, <1>11, <1>12, <1>13,
        <1>14, <1>15

\* The next operation of the list, with a number of its own.
LEMMA Begins ==
    ASSUME I2cInv, NEW c \in Callers,
           pc[c] = "next", ops < MaxOps,
           pc' = [pc EXCEPT ![c] = "setup"],
           ops' = ops + 1, op' = [op EXCEPT ![c] = ops + 1],
           UNCHANGED <<registered, dma, gone, lock, bus, irq_wait, seen_status, waiting,
                       completion, completion_status, engine, status, fifo, performed, expired>>
    PROVE  I2cInv'
<1> USE DEF I2cInv
<1>a. lock = c /\ pc[c] \in Active /\ \A d \in Callers : d # c => pc[d] \notin Active
    BY Alone DEF Active, Before, After
<1>b. \A d \in Callers : pc'[d] = IF d = c THEN "setup" ELSE pc[d]
    BY DEF CallTypes
<1>1. BusTypes' /\ EngineDistinct' /\ EngineClear' /\ EngineOnce'
    BY DEF BusTypes, EngineDistinct, EngineClear, EngineOnce
<1>2. CallTypes' BY Numbers
       DEF CallTypes, Before, Active
<1>3. HistoryTypes' BY Numbers
       DEF HistoryTypes
<1>4. Mutex' BY
       DEF Mutex, Active, Before
<1>5. EngineNumbered' BY Numbers
       DEF EngineNumbered, BusTypes
<1>6. FutureClear' BY Numbers
       DEF FutureClear
<1>7. OpNumbered' BY Numbers
       DEF OpNumbered, EngineNumbered, CallTypes
<1>8. CommandClear' BY
       DEF CommandClear
<1>9. StatusOwn' BY
       DEF StatusOwn, After
<1>10. CompletionOwn' BY
       DEF CompletionOwn, Waits
<1>11. SeenOwn' BY
       DEF SeenOwn
<1>12. PerformedOnce' BY Numbers
       DEF PerformedOnce, FutureClear
<1>13. BeforeOnce' BY Numbers
       DEF BeforeOnce, EngineNumbered, CallTypes, FutureClear
<1>14. ErrorOnce' BY
       DEF ErrorOnce, After
<1>15. WaitingHasWaiter' BY
       DEF WaitingHasWaiter
<1> QED BY <1>1, <1>2, <1>3, <1>4, <1>5, <1>6, <1>7, <1>8, <1>9, <1>10, <1>11, <1>12, <1>13,
        <1>14, <1>15

\* The FIFO is reset.
LEMMA SetsUp ==
    ASSUME I2cInv, NEW c \in Callers,
           pc[c] = "setup",
           pc' = [pc EXCEPT ![c] = "arm"],
           engine' = [engine EXCEPT ![bus[c]] = 0],
           status' = [status EXCEPT ![bus[c]] = "none"],
           fifo' = [fifo EXCEPT ![bus[c]] = 0],
           UNCHANGED <<registered, dma, gone, lock, bus, irq_wait, seen_status, op, waiting,
                       completion, completion_status, ops, performed, expired>>
    PROVE  I2cInv'
<1> USE DEF I2cInv
<1>a. lock = c /\ pc[c] \in Active /\ \A d \in Callers : d # c => pc[d] \notin Active
    BY Alone DEF Active, Before, After
<1>b. \A d \in Callers : pc'[d] = IF d = c THEN "arm" ELSE pc[d]
    BY DEF CallTypes
<1>1. HistoryTypes' /\ FutureClear' /\ PerformedOnce'
    BY DEF HistoryTypes, FutureClear, PerformedOnce
<1>2. CallTypes' BY
       DEF CallTypes, Before, Active
<1>3. BusTypes' BY Numbers
       DEF BusTypes, Statuses
<1>4. Mutex' BY
       DEF Mutex, Active, Before
<1>5. EngineNumbered' BY Numbers
       DEF EngineNumbered
<1>6. OpNumbered' BY <1>a
       DEF OpNumbered, Active
<1>7. EngineDistinct' BY
       DEF EngineDistinct
<1>8. EngineClear' BY
       DEF EngineClear
<1>9. CommandClear' BY
       DEF CommandClear, CallTypes, BusTypes
<1>10. StatusOwn' BY
       DEF StatusOwn, CallTypes, BusTypes
<1>11. CompletionOwn' BY <1>a
       DEF CompletionOwn, Waits, Active, Before, After
<1>12. SeenOwn' BY <1>a
       DEF SeenOwn, Active, After
<1>13. EngineOnce' BY
       DEF EngineOnce
<1>14. BeforeOnce' BY <1>a
       DEF BeforeOnce, OpNumbered, Active, After
<1>15. ErrorOnce' BY
       DEF ErrorOnce, CallTypes, BusTypes
<1>16. WaitingHasWaiter' BY
       DEF WaitingHasWaiter
<1> QED BY <1>1, <1>2, <1>3, <1>4, <1>5, <1>6, <1>7, <1>8, <1>9, <1>10, <1>11, <1>12, <1>13,
        <1>14, <1>15, <1>16

\* The bus waits, with no completion.
LEMMA Arms ==
    ASSUME I2cInv, NEW c \in Callers,
           pc[c] = "arm",
           pc' = [pc EXCEPT ![c] = "command"],
           irq_wait' = [irq_wait EXCEPT ![c] = TRUE],
           waiting' = [waiting EXCEPT ![bus[c]] = TRUE],
           completion' = [completion EXCEPT ![bus[c]] = FALSE],
           completion_status' = [completion_status EXCEPT ![bus[c]] = "none"],
           UNCHANGED <<registered, dma, gone, lock, bus, seen_status, op, engine, status, fifo,
                       ops, performed, expired>>
    PROVE  I2cInv'
<1> USE DEF I2cInv
<1>a. lock = c /\ pc[c] \in Active /\ \A d \in Callers : d # c => pc[d] \notin Active
    BY Alone DEF Active, Before, After
<1>b. \A d \in Callers : pc'[d] = IF d = c THEN "command" ELSE pc[d]
    BY DEF CallTypes
<1>1. HistoryTypes' /\ EngineNumbered' /\ FutureClear' /\ EngineDistinct' /\ EngineClear' /\ PerformedOnce' /\ EngineOnce'
    BY DEF HistoryTypes, EngineNumbered, FutureClear, EngineDistinct, EngineClear, PerformedOnce,
       EngineOnce
<1>2. CallTypes' BY
       DEF CallTypes, Before, Active
<1>3. BusTypes' BY
       DEF BusTypes, Statuses
<1>4. Mutex' BY
       DEF Mutex, Active, Before
<1>5. OpNumbered' BY <1>a
       DEF OpNumbered, Active
<1>6. CommandClear' BY
       DEF CommandClear
<1>7. StatusOwn' BY
       DEF StatusOwn, CommandClear
<1>8. CompletionOwn' BY
       DEF CompletionOwn, CallTypes, BusTypes
<1>9. SeenOwn' BY
       DEF SeenOwn
<1>10. BeforeOnce' BY <1>a
       DEF BeforeOnce, Active, After
<1>11. ErrorOnce' BY
       DEF ErrorOnce, BeforeOnce, Before
<1>12. WaitingHasWaiter' BY <1>a
       DEF WaitingHasWaiter, CallTypes
<1> QED BY <1>1, <1>2, <1>3, <1>4, <1>5, <1>6, <1>7, <1>8, <1>9, <1>10, <1>11, <1>12

\* Without an interrupt handler the bus does not wait.
LEMMA ArmsNot ==
    ASSUME I2cInv, NEW c \in Callers,
           pc[c] = "arm",
           pc' = [pc EXCEPT ![c] = "command"],
           irq_wait' = [irq_wait EXCEPT ![c] = FALSE],
           UNCHANGED <<registered, dma, gone, lock, bus, seen_status, op, waiting, completion,
                       completion_status, engine, status, fifo, ops, performed, expired>>
    PROVE  I2cInv'
<1> USE DEF I2cInv
<1>a. lock = c /\ pc[c] \in Active /\ \A d \in Callers : d # c => pc[d] \notin Active
    BY Alone DEF Active, Before, After
<1>b. \A d \in Callers : pc'[d] = IF d = c THEN "command" ELSE pc[d]
    BY DEF CallTypes
<1>1. BusTypes' /\ HistoryTypes' /\ EngineNumbered' /\ FutureClear' /\ EngineDistinct' /\ EngineClear' /\ PerformedOnce' /\ EngineOnce'
    BY DEF BusTypes, HistoryTypes, EngineNumbered, FutureClear, EngineDistinct, EngineClear,
       PerformedOnce, EngineOnce
<1>2. CallTypes' BY
       DEF CallTypes, Before, Active
<1>3. Mutex' BY
       DEF Mutex, Active, Before
<1>4. OpNumbered' BY <1>a
       DEF OpNumbered, Active
<1>5. CommandClear' BY
       DEF CommandClear
<1>6. StatusOwn' BY
       DEF StatusOwn, CommandClear
<1>7. CompletionOwn' BY
       DEF CompletionOwn, CallTypes
<1>8. SeenOwn' BY
       DEF SeenOwn
<1>9. BeforeOnce' BY <1>a
       DEF BeforeOnce, Active, After
<1>10. ErrorOnce' BY
       DEF ErrorOnce, BeforeOnce, Before
<1>11. WaitingHasWaiter' BY
       DEF WaitingHasWaiter
<1> QED BY <1>1, <1>2, <1>3, <1>4, <1>5, <1>6, <1>7, <1>8, <1>9, <1>10, <1>11

\* The command is written.
LEMMA Commands ==
    ASSUME I2cInv, NEW c \in Callers,
           pc[c] = "command",
           pc' = [pc EXCEPT ![c] = "wait"],
           engine' = [engine EXCEPT ![bus[c]] = op[c]],
           status' = [status EXCEPT ![bus[c]] = "none"],
           UNCHANGED <<registered, dma, gone, lock, bus, irq_wait, seen_status, op, waiting,
                       completion, completion_status, fifo, ops, performed, expired>>
    PROVE  I2cInv'
<1> USE DEF I2cInv
<1>a. lock = c /\ pc[c] \in Active /\ \A d \in Callers : d # c => pc[d] \notin Active
    BY Alone DEF Active, Before, After
<1>b. \A d \in Callers : pc'[d] = IF d = c THEN "wait" ELSE pc[d]
    BY DEF CallTypes
<1>c. op[c] \in 1 .. ops /\ op[c] \in 0 .. MaxOps /\ bus[c] \in Buses
    BY Numbers DEF OpNumbered, CallTypes, HistoryTypes, Before
<1>1. HistoryTypes' /\ FutureClear' /\ PerformedOnce'
    BY DEF HistoryTypes, FutureClear, PerformedOnce
<1>2. CallTypes' BY
       DEF CallTypes, After, Active
<1>3. BusTypes' BY <1>c
       DEF BusTypes, Statuses
<1>4. Mutex' BY <1>a
       DEF Mutex, Active, After
<1>5. EngineNumbered' BY <1>c
       DEF EngineNumbered
<1>6. OpNumbered' BY <1>a
       DEF OpNumbered, Active
<1>7. EngineDistinct' BY
       DEF EngineDistinct, OpNumbered, Before
<1>8. EngineClear' BY
       DEF EngineClear, BusTypes
<1>9. CommandClear' BY <1>a, <1>b
       DEF CommandClear, Active, Before
<1>10. StatusOwn' BY <1>a, <1>c
       DEF StatusOwn, BusTypes, Active
<1>11. CompletionOwn' BY
       DEF CompletionOwn, Waits, CommandClear
<1>12. SeenOwn' BY <1>a
       DEF SeenOwn, Active, After
<1>13. EngineOnce' BY
       DEF EngineOnce, Before, BeforeOnce
<1>14. BeforeOnce' BY <1>a, <1>b
       DEF BeforeOnce, Before, Active
<1>15. ErrorOnce' BY <1>c
       DEF ErrorOnce, BusTypes
<1>16. WaitingHasWaiter' BY
       DEF WaitingHasWaiter
<1> QED BY <1>1, <1>2, <1>3, <1>4, <1>5, <1>6, <1>7, <1>8, <1>9, <1>10, <1>11, <1>12, <1>13,
        <1>14, <1>15, <1>16

\* A completion with a terminal status ends the wait.
LEMMA Takes ==
    ASSUME I2cInv, NEW c \in Callers,
           pc[c] = "wait", irq_wait[c], completion[bus[c]],
           completion_status[bus[c]] # "none",
           pc' = [pc EXCEPT ![c] = "checked"],
           completion' = [completion EXCEPT ![bus[c]] = FALSE],
           seen_status' = [seen_status EXCEPT ![c] = completion_status[bus[c]]],
           UNCHANGED <<registered, dma, gone, lock, bus, irq_wait, op, waiting,
                       completion_status, engine, status, fifo, ops, performed, expired>>
    PROVE  I2cInv'
<1> USE DEF I2cInv
<1>a. lock = c /\ pc[c] \in Active /\ \A d \in Callers : d # c => pc[d] \notin Active
    BY Alone DEF Active, Before, After
<1>b. \A d \in Callers : pc'[d] = IF d = c THEN "checked" ELSE pc[d]
    BY DEF CallTypes
<1>c. bus[c] \in Buses /\ completion_status[bus[c]] \in Statuses /\ status[bus[c]] \in Statuses
    BY DEF CallTypes, BusTypes
<1>d. completion_status[bus[c]] = status[bus[c]]
    BY DEF CompletionOwn, Waits
<1>1. HistoryTypes' /\ EngineNumbered' /\ FutureClear' /\ EngineDistinct' /\ EngineClear' /\ PerformedOnce' /\ EngineOnce'
    BY DEF HistoryTypes, EngineNumbered, FutureClear, EngineDistinct, EngineClear, PerformedOnce,
       EngineOnce
<1>2. CallTypes' BY <1>c
       DEF CallTypes, After, Active
<1>3. BusTypes' BY
       DEF BusTypes
<1>4. Mutex' BY
       DEF Mutex, Active, After
<1>5. OpNumbered' BY <1>a
       DEF OpNumbered, Active
<1>6. CommandClear' BY
       DEF CommandClear
<1>7. StatusOwn' BY <1>a
       DEF StatusOwn, Active, Before
<1>8. CompletionOwn' BY
       DEF CompletionOwn, CallTypes, BusTypes
<1>9. SeenOwn' BY <1>d
       DEF SeenOwn, CallTypes
<1>10. BeforeOnce' BY
       DEF BeforeOnce, Before
<1>11. ErrorOnce' BY <1>a
       DEF ErrorOnce, Active, Before
<1>12. WaitingHasWaiter' BY
       DEF WaitingHasWaiter, Waits, CompletionOwn, CallTypes
<1> QED BY <1>1, <1>2, <1>3, <1>4, <1>5, <1>6, <1>7, <1>8, <1>9, <1>10, <1>11, <1>12

\* Any other is consumed, and the status is polled.
LEMMA Turns ==
    ASSUME I2cInv, NEW c \in Callers,
           pc[c] = "wait",
           pc' = [pc EXCEPT ![c] = "poll"],
           completion' = completion \/ completion' = [completion EXCEPT ![bus[c]] = FALSE],
           UNCHANGED <<registered, dma, gone, lock, bus, irq_wait, seen_status, op, waiting,
                       completion_status, engine, status, fifo, ops, performed, expired>>
    PROVE  I2cInv'
<1> USE DEF I2cInv
<1>a. lock = c /\ pc[c] \in Active /\ \A d \in Callers : d # c => pc[d] \notin Active
    BY Alone DEF Active, Before, After
<1>b. \A d \in Callers : pc'[d] = IF d = c THEN "poll" ELSE pc[d]
    BY DEF CallTypes
<1>1. HistoryTypes' /\ EngineNumbered' /\ FutureClear' /\ EngineDistinct' /\ EngineClear' /\ PerformedOnce' /\ EngineOnce'
    BY DEF HistoryTypes, EngineNumbered, FutureClear, EngineDistinct, EngineClear, PerformedOnce,
       EngineOnce
<1>2. CallTypes' BY
       DEF CallTypes, After, Active
<1>3. BusTypes' BY
       DEF BusTypes
<1>4. Mutex' BY
       DEF Mutex, Active, After
<1>5. OpNumbered' BY <1>a
       DEF OpNumbered, Active
<1>6. CommandClear' BY
       DEF CommandClear
<1>7. StatusOwn' BY <1>a
       DEF StatusOwn, Active, Before
<1>8. CompletionOwn' BY <1>a
       DEF CompletionOwn, Waits, BusTypes, Active, Before, After
<1>9. SeenOwn' BY
       DEF SeenOwn
<1>10. BeforeOnce' BY
       DEF BeforeOnce, Before
<1>11. ErrorOnce' BY <1>a
       DEF ErrorOnce, Active, Before
<1>12. WaitingHasWaiter' BY
       DEF WaitingHasWaiter
<1> QED BY <1>1, <1>2, <1>3, <1>4, <1>5, <1>6, <1>7, <1>8, <1>9, <1>10, <1>11, <1>12

\* A poll sees a terminal status.
LEMMA Sees ==
    ASSUME I2cInv, NEW c \in Callers,
           pc[c] = "poll", status[bus[c]] # "none",
           NEW p \in {"settle", "checked"}, p = "checked" => ~irq_wait[c],
           pc' = [pc EXCEPT ![c] = p],
           seen_status' = [seen_status EXCEPT ![c] = status[bus[c]]],
           UNCHANGED <<registered, dma, gone, lock, bus, irq_wait, op, waiting, completion,
                       completion_status, engine, status, fifo, ops, performed, expired>>
    PROVE  I2cInv'
<1> USE DEF I2cInv
<1>a. lock = c /\ pc[c] \in Active /\ \A d \in Callers : d # c => pc[d] \notin Active
    BY Alone DEF Active, Before, After
<1>b. \A d \in Callers : pc'[d] = IF d = c THEN p ELSE pc[d]
    BY DEF CallTypes
<1>c. bus[c] \in Buses /\ completion_status[bus[c]] \in Statuses /\ status[bus[c]] \in Statuses
    BY DEF CallTypes, BusTypes
<1>1. BusTypes' /\ HistoryTypes' /\ EngineNumbered' /\ FutureClear' /\ EngineDistinct' /\ EngineClear' /\ PerformedOnce' /\ EngineOnce'
    BY DEF BusTypes, HistoryTypes, EngineNumbered, FutureClear, EngineDistinct, EngineClear,
       PerformedOnce, EngineOnce
<1>2. CallTypes' BY <1>c
       DEF CallTypes, After, Active
<1>3. Mutex' BY
       DEF Mutex, Active, After
<1>4. OpNumbered' BY <1>a
       DEF OpNumbered, Active
<1>5. CommandClear' BY
       DEF CommandClear
<1>6. StatusOwn' BY <1>a
       DEF StatusOwn, Active, Before
<1>7. CompletionOwn' BY
       DEF CompletionOwn, Waits
<1>8. SeenOwn' BY
       DEF SeenOwn, CallTypes
<1>9. BeforeOnce' BY
       DEF BeforeOnce, Before
<1>10. ErrorOnce' BY <1>a
       DEF ErrorOnce, Active, Before
<1>11. WaitingHasWaiter' BY
       DEF WaitingHasWaiter
<1> QED BY <1>1, <1>2, <1>3, <1>4, <1>5, <1>6, <1>7, <1>8, <1>9, <1>10, <1>11

\* A poll sees no status.
LEMMA SeesNothing ==
    ASSUME I2cInv, NEW c \in Callers,
           pc[c] = "poll",
           NEW p \in {"wait", "expire"},
           pc' = [pc EXCEPT ![c] = p],
           UNCHANGED <<registered, dma, gone, lock, bus, irq_wait, seen_status, op, waiting,
                       completion, completion_status, engine, status, fifo, ops, performed,
                       expired>>
    PROVE  I2cInv'
<1> USE DEF I2cInv
<1>a. lock = c /\ pc[c] \in Active /\ \A d \in Callers : d # c => pc[d] \notin Active
    BY Alone DEF Active, Before, After
<1>b. \A d \in Callers : pc'[d] = IF d = c THEN p ELSE pc[d]
    BY DEF CallTypes
<1>1. BusTypes' /\ HistoryTypes' /\ EngineNumbered' /\ FutureClear' /\ EngineDistinct' /\ EngineClear' /\ PerformedOnce' /\ EngineOnce'
    BY DEF BusTypes, HistoryTypes, EngineNumbered, FutureClear, EngineDistinct, EngineClear,
       PerformedOnce, EngineOnce
<1>2. CallTypes' BY
       DEF CallTypes, After, Active
<1>3. Mutex' BY
       DEF Mutex, Active, After
<1>4. OpNumbered' BY <1>a
       DEF OpNumbered, Active
<1>5. CommandClear' BY
       DEF CommandClear
<1>6. StatusOwn' BY <1>a
       DEF StatusOwn, Active, Before
<1>7. CompletionOwn' BY
       DEF CompletionOwn, Waits
<1>8. SeenOwn' BY
       DEF SeenOwn
<1>9. BeforeOnce' BY
       DEF BeforeOnce, Before
<1>10. ErrorOnce' BY <1>a
       DEF ErrorOnce, Active, Before
<1>11. WaitingHasWaiter' BY
       DEF WaitingHasWaiter
<1> QED BY <1>1, <1>2, <1>3, <1>4, <1>5, <1>6, <1>7, <1>8, <1>9, <1>10, <1>11

\* The bus no longer waits.
LEMMA Settles ==
    ASSUME I2cInv, NEW c \in Callers,
           pc[c] = "settle",
           pc' = [pc EXCEPT ![c] = "checked"],
           waiting' = [waiting EXCEPT ![bus[c]] = FALSE],
           UNCHANGED <<registered, dma, gone, lock, bus, irq_wait, seen_status, op, completion,
                       completion_status, engine, status, fifo, ops, performed, expired>>
    PROVE  I2cInv'
<1> USE DEF I2cInv
<1>a. lock = c /\ pc[c] \in Active /\ \A d \in Callers : d # c => pc[d] \notin Active
    BY Alone DEF Active, Before, After
<1>b. \A d \in Callers : pc'[d] = IF d = c THEN "checked" ELSE pc[d]
    BY DEF CallTypes
<1>1. HistoryTypes' /\ EngineNumbered' /\ FutureClear' /\ EngineDistinct' /\ EngineClear' /\ PerformedOnce' /\ EngineOnce'
    BY DEF HistoryTypes, EngineNumbered, FutureClear, EngineDistinct, EngineClear, PerformedOnce,
       EngineOnce
<1>2. CallTypes' BY
       DEF CallTypes, After, Active
<1>3. BusTypes' BY
       DEF BusTypes
<1>4. Mutex' BY
       DEF Mutex, Active, After
<1>5. OpNumbered' BY <1>a
       DEF OpNumbered, Active
<1>6. CommandClear' BY
       DEF CommandClear
<1>7. StatusOwn' BY <1>a
       DEF StatusOwn, Active, Before
<1>8. CompletionOwn' BY
       DEF CompletionOwn, Waits
<1>9. SeenOwn' BY
       DEF SeenOwn
<1>10. BeforeOnce' BY
       DEF BeforeOnce, Before
<1>11. ErrorOnce' BY <1>a
       DEF ErrorOnce, Active, Before
<1>12. WaitingHasWaiter' BY
       DEF WaitingHasWaiter, BusTypes
<1> QED BY <1>1, <1>2, <1>3, <1>4, <1>5, <1>6, <1>7, <1>8, <1>9, <1>10, <1>11, <1>12

\* A read goes on to the FIFO.
LEMMA Fetches ==
    ASSUME I2cInv, NEW c \in Callers,
           pc[c] = "checked", seen_status[c] = "done",
           pc' = [pc EXCEPT ![c] = "fetch"],
           UNCHANGED <<registered, dma, gone, lock, bus, irq_wait, seen_status, op, waiting,
                       completion, completion_status, engine, status, fifo, ops, performed,
                       expired>>
    PROVE  I2cInv'
<1> USE DEF I2cInv
<1>a. lock = c /\ pc[c] \in Active /\ \A d \in Callers : d # c => pc[d] \notin Active
    BY Alone DEF Active, Before, After
<1>b. \A d \in Callers : pc'[d] = IF d = c THEN "fetch" ELSE pc[d]
    BY DEF CallTypes
<1>1. BusTypes' /\ HistoryTypes' /\ EngineNumbered' /\ FutureClear' /\ EngineDistinct' /\ EngineClear' /\ PerformedOnce' /\ EngineOnce'
    BY DEF BusTypes, HistoryTypes, EngineNumbered, FutureClear, EngineDistinct, EngineClear,
       PerformedOnce, EngineOnce
<1>2. CallTypes' BY
       DEF CallTypes, After, Active
<1>3. Mutex' BY
       DEF Mutex, Active, After
<1>4. OpNumbered' BY <1>a
       DEF OpNumbered, Active
<1>5. CommandClear' BY
       DEF CommandClear
<1>6. StatusOwn' BY <1>a
       DEF StatusOwn, Active, Before
<1>7. CompletionOwn' BY
       DEF CompletionOwn, Waits
<1>8. SeenOwn' BY
       DEF SeenOwn
<1>9. BeforeOnce' BY
       DEF BeforeOnce, Before
<1>10. ErrorOnce' BY <1>a
       DEF ErrorOnce, Active, Before
<1>11. WaitingHasWaiter' BY
       DEF WaitingHasWaiter
<1> QED BY <1>1, <1>2, <1>3, <1>4, <1>5, <1>6, <1>7, <1>8, <1>9, <1>10, <1>11

\* A thread that is not past the mutex calls.
LEMMA Enters ==
    ASSUME I2cInv, NEW c \in Callers,
           pc[c] = "idle", NEW b \in Buses,
           pc' = [pc EXCEPT ![c] = "lock"],
           bus' = [bus EXCEPT ![c] = b],
           UNCHANGED <<registered, dma, gone, lock, irq_wait, seen_status, op, waiting,
                       completion, completion_status, engine, status, fifo, ops, performed,
                       expired>>
    PROVE  I2cInv'
<1> USE DEF I2cInv
<1>1. BusTypes' /\ HistoryTypes' /\ EngineNumbered' /\ FutureClear' /\ EngineDistinct' /\ EngineClear' /\ PerformedOnce' /\ EngineOnce'
    BY DEF BusTypes, HistoryTypes, EngineNumbered, FutureClear, EngineDistinct, EngineClear,
       PerformedOnce, EngineOnce
<1>2. CallTypes' BY
       DEF CallTypes
<1>3. Mutex' BY
       DEF Mutex, Active, Before, After
<1>4. OpNumbered' BY
       DEF OpNumbered, Before, After
<1>5. CommandClear' BY
       DEF CommandClear
<1>6. StatusOwn' BY
       DEF StatusOwn, After, CallTypes
<1>7. CompletionOwn' BY
       DEF CompletionOwn, Waits
<1>8. SeenOwn' BY
       DEF SeenOwn
<1>9. BeforeOnce' BY
       DEF BeforeOnce, Before
<1>10. ErrorOnce' BY
       DEF ErrorOnce, After
<1>11. WaitingHasWaiter' BY
       DEF WaitingHasWaiter
<1> QED BY <1>1, <1>2, <1>3, <1>4, <1>5, <1>6, <1>7, <1>8, <1>9, <1>10, <1>11

\* A thread takes the mutex.
LEMMA Locks ==
    ASSUME I2cInv, NEW c \in Callers,
           pc[c] = "lock", lock = "none",
           pc' = [pc EXCEPT ![c] = "next"], lock' = c,
           UNCHANGED <<registered, dma, gone, bus, irq_wait, seen_status, op, waiting,
                       completion, completion_status, engine, status, fifo, ops, performed,
                       expired>>
    PROVE  I2cInv'
<1> USE DEF I2cInv
<1>a. c # "none" /\ "none" \notin Callers
    BY I2cAssumption
<1>b. \A d \in Callers : pc[d] \notin Active
    BY <1>a DEF Mutex
<1>c. \A d \in Callers : pc'[d] = IF d = c THEN "next" ELSE pc[d]
    BY DEF CallTypes
<1>1. BusTypes' /\ HistoryTypes' /\ EngineNumbered' /\ FutureClear' /\ EngineDistinct' /\ EngineClear' /\ PerformedOnce' /\ EngineOnce'
    BY DEF BusTypes, HistoryTypes, EngineNumbered, FutureClear, EngineDistinct, EngineClear,
       PerformedOnce, EngineOnce
<1>2. CallTypes' BY
       DEF CallTypes, Active
<1>3. Mutex' BY <1>b, <1>c
       DEF Mutex, Active
<1>4. OpNumbered' BY
       DEF OpNumbered, Before, After
<1>5. CommandClear' BY
       DEF CommandClear
<1>6. StatusOwn' BY
       DEF StatusOwn, After
<1>7. CompletionOwn' BY
       DEF CompletionOwn, Waits
<1>8. SeenOwn' BY
       DEF SeenOwn
<1>9. BeforeOnce' BY
       DEF BeforeOnce, Before
<1>10. ErrorOnce' BY
       DEF ErrorOnce, After
<1>11. WaitingHasWaiter' BY <1>a
       DEF WaitingHasWaiter
<1> QED BY <1>1, <1>2, <1>3, <1>4, <1>5, <1>6, <1>7, <1>8, <1>9, <1>10, <1>11

\* An engine finishes what it was told to do.
LEMMA Performs ==
    ASSUME I2cInv, NEW b \in Buses,
           engine[b] # 0,
           engine' = [engine EXCEPT ![b] = 0], status' = [status EXCEPT ![b] = "done"],
           fifo' = [fifo EXCEPT ![b] = engine[b]],
           performed' = [performed EXCEPT ![engine[b]] = @ + 1],
           UNCHANGED <<registered, dma, gone, lock, pc, bus, irq_wait, seen_status, op, waiting,
                       completion, completion_status, ops, expired>>
    PROVE  I2cInv'
<1> USE DEF I2cInv
<1>a. engine[b] \in 1 .. MaxOps /\ engine[b] <= ops /\ status[b] = "none"
    BY Numbers DEF BusTypes, HistoryTypes, EngineNumbered, EngineClear
<1>1. CallTypes' /\ Mutex' /\ WaitingHasWaiter'
    BY DEF CallTypes, Mutex, WaitingHasWaiter
<1>2. BusTypes' BY Numbers
       DEF BusTypes, Statuses
<1>3. HistoryTypes' BY <1>a
       DEF HistoryTypes
<1>4. EngineNumbered' BY Numbers
       DEF EngineNumbered
<1>5. FutureClear' BY <1>a, Numbers
       DEF FutureClear
<1>6. OpNumbered' BY
       DEF OpNumbered
<1>7. EngineDistinct' BY
       DEF EngineDistinct
<1>8. EngineClear' BY
       DEF EngineClear, BusTypes
<1>9. CommandClear' BY
       DEF CommandClear
<1>10. StatusOwn' BY
       DEF StatusOwn, After, CommandClear, BusTypes, HistoryTypes
<1>11. CompletionOwn' BY <1>a
       DEF CompletionOwn, CallTypes
<1>12. SeenOwn' BY <1>a
       DEF SeenOwn
<1>13. PerformedOnce'
    <2>1. performed[engine[b]] <= expired[engine[b]]
        BY DEF EngineOnce
    <2>2. \A o \in 1 .. MaxOps : performed'[o] = IF o = engine[b] THEN performed[o] + 1 ELSE performed[o]
        BY DEF HistoryTypes
    <2> QED BY <1>a, <2>1, <2>2, Numbers DEF PerformedOnce
<1>14. EngineOnce' BY
       DEF EngineOnce, BusTypes, EngineDistinct
<1>15. BeforeOnce' BY
       DEF BeforeOnce, OpNumbered, CallTypes, BusTypes
<1>16. ErrorOnce' BY <1>a
       DEF ErrorOnce, OpNumbered
<1> QED BY <1>1, <1>2, <1>3, <1>4, <1>5, <1>6, <1>7, <1>8, <1>9, <1>10, <1>11, <1>12, <1>13,
        <1>14, <1>15, <1>16

\* An engine ends with an error.
LEMMA Fails ==
    ASSUME I2cInv, NEW b \in Buses,
           engine[b] # 0,
           engine' = [engine EXCEPT ![b] = 0], status' = [status EXCEPT ![b] = "error"],
           UNCHANGED <<registered, dma, gone, lock, pc, bus, irq_wait, seen_status, op, waiting,
                       completion, completion_status, fifo, ops, performed, expired>>
    PROVE  I2cInv'
<1> USE DEF I2cInv
<1>a. engine[b] \in 1 .. MaxOps /\ engine[b] <= ops /\ status[b] = "none"
    BY Numbers DEF BusTypes, HistoryTypes, EngineNumbered, EngineClear
<1>1. CallTypes' /\ HistoryTypes' /\ Mutex' /\ FutureClear' /\ PerformedOnce' /\ WaitingHasWaiter'
    BY DEF CallTypes, HistoryTypes, Mutex, FutureClear, PerformedOnce, WaitingHasWaiter
<1>2. BusTypes' BY Numbers
       DEF BusTypes, Statuses
<1>3. EngineNumbered' BY Numbers
       DEF EngineNumbered
<1>4. OpNumbered' BY
       DEF OpNumbered
<1>5. EngineDistinct' BY
       DEF EngineDistinct
<1>6. EngineClear' BY
       DEF EngineClear, BusTypes
<1>7. CommandClear' BY
       DEF CommandClear
<1>8. StatusOwn' BY
       DEF StatusOwn
<1>9. CompletionOwn' BY <1>a
       DEF CompletionOwn, CallTypes
<1>10. SeenOwn' BY <1>a
       DEF SeenOwn
<1>11. EngineOnce' BY
       DEF EngineOnce
<1>12. BeforeOnce' BY
       DEF BeforeOnce, OpNumbered
<1>13. ErrorOnce' BY
       DEF ErrorOnce, StatusOwn, EngineOnce
<1> QED BY <1>1, <1>2, <1>3, <1>4, <1>5, <1>6, <1>7, <1>8, <1>9, <1>10, <1>11, <1>12, <1>13

\* The handler hands a bus its completion.
LEMMA Serves ==
    ASSUME I2cInv, NEW b \in Buses,
           waiting[b], NEW s \in {"none", status[b]},
           waiting' = [waiting EXCEPT ![b] = FALSE], completion' = [completion EXCEPT ![b] = TRUE],
           completion_status' = [completion_status EXCEPT ![b] = s],
           UNCHANGED <<registered, dma, gone, lock, pc, bus, irq_wait, seen_status, op, engine,
                       status, fifo, ops, performed, expired>>
    PROVE  I2cInv'
<1> USE DEF I2cInv
<1>1. CallTypes' /\ HistoryTypes' /\ Mutex' /\ EngineNumbered' /\ FutureClear' /\ OpNumbered' /\ EngineDistinct' /\ EngineClear' /\ CommandClear' /\ StatusOwn' /\ SeenOwn' /\ PerformedOnce' /\ EngineOnce' /\ BeforeOnce' /\ ErrorOnce'
    BY DEF CallTypes, HistoryTypes, Mutex, EngineNumbered, FutureClear, OpNumbered,
       EngineDistinct, EngineClear, CommandClear, StatusOwn, SeenOwn, PerformedOnce, EngineOnce,
       BeforeOnce, ErrorOnce
<1>2. BusTypes' BY
       DEF BusTypes, Statuses
<1>3. CompletionOwn' BY
       DEF CompletionOwn, CallTypes, BusTypes
<1>4. WaitingHasWaiter' BY
       DEF WaitingHasWaiter
<1> QED BY <1>1, <1>2, <1>3, <1>4
-----------------------------------------------------------------------------
(* The actions                                                              *)

\* The probing thread, the bridge and the reading of the interrupt status.
LEMMA OthersKeep ==
    ASSUME I2cInv,
           Register \/ RequestIrq \/ SetDma \/ FreeIrq \/ ForgetDma \/ Unregister
           \/ Quiesce \/ Vanish \/ EnterIrq
    PROVE  I2cInv'
<1> USE DEF lifeVars, bridgeVars, callerVars, waitVars, engineVars, historyVars
<1>1. registered \in 0 .. BusCount /\ dma \in BOOLEAN
    BY DEF I2cInv, BusTypes
<1>2. UNCHANGED <<lock, callerVars, waitVars, engineVars, historyVars>> /\ (gone => gone')
    BY DEF Register, RequestIrq, SetDma, FreeIrq, ForgetDma, Unregister, Quiesce, Vanish, EnterIrq
<1>3. dma' \in BOOLEAN
    BY <1>1 DEF Register, RequestIrq, SetDma, FreeIrq, ForgetDma, Unregister, Quiesce, Vanish,
                EnterIrq
<1>4. registered' \in {registered, registered + 1, registered - 1} /\ registered' \in 0 .. BusCount
    <2>1. CASE Register
        BY <1>1, <2>1, I2cAssumption DEF Register
    <2>2. CASE Unregister
        BY <1>1, <2>2, I2cAssumption DEF Unregister
    <2>3. CASE UNCHANGED registered
        BY <1>1, <2>3
    <2> QED
        BY <2>1, <2>2, <2>3
           DEF RequestIrq, SetDma, FreeIrq, ForgetDma, Quiesce, Vanish, EnterIrq
<1> QED BY <1>2, <1>3, <1>4, Still

\* A call names a registered adapter, hence a bus.
LEMMA CallKeeps == ASSUME I2cInv, NEW c \in Callers, Call(c) PROVE I2cInv'
<1> USE DEF lifeVars, bridgeVars, callerVars, waitVars, engineVars, historyVars
<1>1. PICK b \in 0 .. registered - 1 : bus' = [bus EXCEPT ![c] = b]
    BY DEF Call
<1>2. b \in Buses
    BY <1>1, I2cAssumption DEF I2cInv, BusTypes, Buses
<1> QED BY <1>1, <1>2, Enters DEF Call, Goto

\* The mutex is taken by one caller.
LEMMA LockKeeps == ASSUME I2cInv, NEW c \in Callers, Lock(c) PROVE I2cInv'
BY Locks DEF Lock, Goto, lifeVars, bridgeVars, callerVars, waitVars, engineVars, historyVars

\* A bus waits for the caller past the mutex, or the card is gone.
LEMMA WaitsForIt ==
    ASSUME I2cInv, NEW c \in Callers, pc[c] \in Active, NEW b \in Buses, waiting[b]
    PROVE  gone \/ (bus[c] = b /\ irq_wait[c] /\ pc[c] \in Waits)
BY Alone DEF I2cInv, WaitingHasWaiter, Waits

\* So an end of a transfer that leaves no bus waiting keeps WaitingHasWaiter.
LEMMA NoneWaits ==
    ASSUME I2cInv, NEW c \in Callers, pc[c] \in Active, gone => gone',
           gone \/ pc[c] \notin Waits \/ ~irq_wait[c]
               \/ waiting' = [waiting EXCEPT ![bus[c]] = FALSE],
           waiting' = waiting \/ waiting' = [waiting EXCEPT ![bus[c]] = FALSE]
    PROVE  WaitingHasWaiter'
<1>1. ASSUME NEW b \in Buses, waiting'[b] PROVE gone'
    <2>1. waiting[b] /\ (waiting' = [waiting EXCEPT ![bus[c]] = FALSE] => b # bus[c])
        BY <1>1 DEF I2cInv, BusTypes
    <2> QED BY <2>1, WaitsForIt
<1> QED BY <1>1 DEF WaitingHasWaiter

\* The list goes on, or the transfer ends.
LEMMA NextOperationKeeps == ASSUME I2cInv, NEW c \in Callers, NextOperation(c) PROVE I2cInv'
<1> USE DEF lifeVars, bridgeVars, callerVars, waitVars, engineVars, historyVars
<1>1. pc[c] = "next" /\ pc[c] \in Active /\ pc[c] \notin Waits
    BY DEF NextOperation, Active, Waits
<1>2. UNCHANGED <<registered, dma, gone, bus, waiting, completion, completion_status, engine,
                  status, fifo, performed, expired>>
    BY DEF NextOperation
<1>3. WaitingHasWaiter' \/ ~\E r : Return(c, r)
    BY <1>1, <1>2, NoneWaits
<1>4. CASE \E r : Return(c, r) /\ ops' = ops
    BY <1>1, <1>2, <1>3, <1>4, Leaves
<1>5. CASE /\ ops < MaxOps /\ Goto(c, "setup") /\ ops' = ops + 1 /\ op' = [op EXCEPT ![c] = ops + 1]
           /\ UNCHANGED <<lock, irq_wait, seen_status>>
    BY <1>1, <1>2, <1>5, Begins DEF Goto
<1> QED BY <1>4, <1>5 DEF NextOperation

\* Nothing of an earlier operation is left after the reset.
LEMMA SetupKeeps == ASSUME I2cInv, NEW c \in Callers, Setup(c) PROVE I2cInv'
<1> USE DEF lifeVars, bridgeVars, callerVars, waitVars, engineVars, historyVars
<1>1. pc[c] = "setup" /\ pc[c] \in Active /\ pc[c] \notin Waits
    BY DEF Setup, Active, Before, Waits
<1>2. CASE Return(c, "error") /\ UNCHANGED engineVars
    <2>1. WaitingHasWaiter'
        BY <1>1, NoneWaits DEF Setup
    <2> QED BY <1>1, <1>2, <2>1, Leaves DEF Setup
<1>3. CASE ~(Return(c, "error") /\ UNCHANGED engineVars)
    BY <1>1, <1>3, SetsUp DEF Setup, Goto
<1> QED BY <1>2, <1>3

\* No completion of an earlier attempt is left after arming.
LEMMA ArmKeeps == ASSUME I2cInv, NEW c \in Callers, Arm(c) PROVE I2cInv'
<1> USE DEF lifeVars, bridgeVars, callerVars, waitVars, engineVars, historyVars
<1>1. CASE dma
    <2>1. irq_wait' = [irq_wait EXCEPT ![c] = TRUE]
        BY <1>1 DEF Arm, I2cInv, BusTypes
    <2> QED BY <1>1, <2>1, Arms DEF Arm, Goto
<1>2. CASE ~dma
    <2>1. irq_wait' = [irq_wait EXCEPT ![c] = FALSE]
        BY <1>2 DEF Arm, I2cInv, BusTypes
    <2> QED BY <1>2, <2>1, ArmsNot DEF Arm, Goto
<1> QED BY <1>1, <1>2

\* The engine works for this operation from here on.
LEMMA CommandKeeps == ASSUME I2cInv, NEW c \in Callers, Command(c) PROVE I2cInv'
<1> USE DEF lifeVars, bridgeVars, callerVars, waitVars, engineVars, historyVars
<1>1. pc[c] = "command" /\ pc[c] \in Active
    BY DEF Command, Active, Before
<1>2. CASE gone /\ Return(c, "error") /\ UNCHANGED <<commands, engineVars>>
           /\ waiting' = IF irq_wait[c] THEN [waiting EXCEPT ![bus[c]] = FALSE] ELSE waiting
    <2>1. waiting' = waiting \/ waiting' = [waiting EXCEPT ![bus[c]] = FALSE]
        BY <1>2
    <2>2. WaitingHasWaiter'
        BY <1>1, <1>2, <2>1, NoneWaits DEF Command
    <2> QED BY <1>1, <1>2, <2>1, <2>2, Leaves DEF Command
<1>3. CASE ~gone
    BY <1>1, <1>3, Commands DEF Command, Goto
<1> QED BY <1>2, <1>3 DEF Command

\* A completion that is taken carries the status of this attempt.
LEMMA TryCompletionKeeps == ASSUME I2cInv, NEW c \in Callers, TryCompletion(c) PROVE I2cInv'
<1> USE DEF lifeVars, bridgeVars, callerVars, waitVars, engineVars, historyVars
<1>1. CASE irq_wait[c] /\ completion[bus[c]] /\ completion_status[bus[c]] # "none"
    BY <1>1, Takes DEF TryCompletion, Goto
<1>2. CASE ~(irq_wait[c] /\ completion[bus[c]] /\ completion_status[bus[c]] # "none")
    <2>1. completion' = completion \/ completion' = [completion EXCEPT ![bus[c]] = FALSE]
        BY DEF TryCompletion
    <2> QED BY <1>2, <2>1, Turns DEF TryCompletion, Goto
<1> QED BY <1>1, <1>2

\* A poll sees the status of this attempt.
LEMMA PollKeeps == ASSUME I2cInv, NEW c \in Callers, Poll(c) PROVE I2cInv'
<1> USE DEF lifeVars, bridgeVars, callerVars, waitVars, engineVars, historyVars
<1>1. pc[c] = "poll" /\ pc[c] \in Active
    BY DEF Poll, Active, After
<1>2. CASE gone /\ Return(c, "error")
    <2>1. WaitingHasWaiter'
        BY <1>1, <1>2, NoneWaits DEF Poll
    <2> QED BY <1>1, <1>2, <2>1, Leaves DEF Poll
<1>3. CASE ~gone /\ status[bus[c]] # "none"
    <2> DEFINE p == IF irq_wait[c] THEN "settle" ELSE "checked"
    <2>1. p \in {"settle", "checked"} /\ (p = "checked" => ~irq_wait[c])
        OBVIOUS
    <2>2. /\ pc' = [pc EXCEPT ![c] = p]
          /\ seen_status' = [seen_status EXCEPT ![c] = status[bus[c]]]
          /\ UNCHANGED <<registered, dma, gone, lock, bus, irq_wait, op, waiting, completion,
                         completion_status, engine, status, fifo, ops, performed, expired>>
        BY <1>3 DEF Poll, Goto
    <2> HIDE DEF p
    <2> QED BY <1>1, <1>3, <2>1, <2>2, Sees
<1>4. CASE ~gone /\ status[bus[c]] = "none"
    <2> DEFINE p == IF polls[c] + 1 < PollCount THEN "wait" ELSE "expire"
    <2>1. p \in {"wait", "expire"}
        OBVIOUS
    <2>2. /\ pc' = [pc EXCEPT ![c] = p]
          /\ UNCHANGED <<registered, dma, gone, lock, bus, irq_wait, seen_status, op, waiting,
                         completion, completion_status, engine, status, fifo, ops, performed,
                         expired>>
        BY <1>4 DEF Poll, Goto
    <2> HIDE DEF p
    <2> QED BY <1>1, <2>1, <2>2, SeesNothing
<1> QED BY <1>2, <1>3, <1>4 DEF Poll

\* The answer is there, and the bus no longer waits.
LEMMA SettleKeeps == ASSUME I2cInv, NEW c \in Callers, Settle(c) PROVE I2cInv'
<1> USE DEF lifeVars, bridgeVars, callerVars, waitVars, engineVars, historyVars
<1>1. waiting' = [waiting EXCEPT ![bus[c]] = FALSE]
    <2>1. waiting \in [Buses -> BOOLEAN] /\ bus[c] \in Buses
        BY DEF I2cInv, BusTypes, CallTypes
    <2>2. CASE waiting[bus[c]]
        BY <2>2 DEF Settle
    <2>3. CASE ~waiting[bus[c]]
        BY <2>1, <2>3 DEF Settle
    <2> QED BY <2>2, <2>3
<1> QED BY <1>1, Settles DEF Settle, Goto

\* The timeout is counted before the operation is tried again.
LEMMA ExpireKeeps == ASSUME I2cInv, NEW c \in Callers, Expire(c) PROVE I2cInv'
<1> USE DEF lifeVars, bridgeVars, callerVars, waitVars, engineVars, historyVars
<1>1. pc[c] = "expire" /\ pc[c] \in Active /\ pc[c] \in After
    BY DEF Expire, Active, After
<1>2. /\ waiting' = waiting \/ waiting' = [waiting EXCEPT ![bus[c]] = FALSE]
      /\ ~irq_wait[c] \/ waiting' = [waiting EXCEPT ![bus[c]] = FALSE]
    BY DEF Expire
<1>3. WaitingHasWaiter'
    BY <1>1, <1>2, NoneWaits DEF Expire
<1>4. op[c] \in 1 .. ops /\ expired' = [expired EXCEPT ![op[c]] = @ + 1]
    BY <1>1 DEF Expire, I2cInv, OpNumbered
<1>5. CASE Return(c, "error")
    BY <1>1, <1>2, <1>3, <1>4, <1>5, Leaves DEF Expire
<1>6. CASE Goto(c, "setup") /\ UNCHANGED <<lock, irq_wait, seen_status, op>>
    <2>1. /\ op[c] \in 1 .. MaxOps /\ op[c] # 0 /\ bus[c] \in Buses
          /\ performed[op[c]] \in Nat /\ expired[op[c]] \in Nat
        BY <1>4, Numbers DEF I2cInv, CallTypes
    <2>2. expired'[op[c]] = expired[op[c]] + 1
        BY <1>4, <2>1 DEF I2cInv, HistoryTypes
    <2>3. performed[op[c]] <= expired[op[c]] + 1
        BY <1>4 DEF I2cInv, PerformedOnce
    <2>4. engine[bus[c]] = op[c] => performed[op[c]] <= expired[op[c]]
        BY <2>1 DEF I2cInv, EngineOnce
    <2>5. engine[bus[c]] = op[c] => performed[op[c]] + 1 <= expired'[op[c]]
        BY <2>1, <2>2, <2>4
    <2>6. performed[op[c]] <= expired'[op[c]]
        BY <2>2, <2>3
    <2>7. /\ pc' = [pc EXCEPT ![c] = "setup"]
          /\ UNCHANGED <<registered, dma, gone, lock, bus, irq_wait, seen_status, op, completion,
                         completion_status, engine, status, fifo, ops, performed>>
        BY <1>6 DEF Expire, Goto
    <2> QED BY <1>1, <1>2, <1>3, <1>4, <2>5, <2>6, <2>7, Retries
<1> QED BY <1>5, <1>6 DEF Expire, Again

\* Only an error leads to another attempt.
LEMMA CheckedKeeps == ASSUME I2cInv, NEW c \in Callers, Checked(c) PROVE I2cInv'
<1> USE DEF lifeVars, bridgeVars, callerVars, waitVars, engineVars, historyVars
<1>1. /\ pc[c] = "checked" /\ pc[c] \in Active /\ pc[c] \in After /\ pc[c] \notin Waits
      /\ UNCHANGED <<registered, dma, gone, bus, waiting, completion, completion_status, engine,
                     status, fifo, ops, performed, expired>>
    BY DEF Checked, Active, After, Waits
<1>2. WaitingHasWaiter' \/ ~Again(c)
    BY <1>1, NoneWaits
<1>3. CASE seen_status[c] = "error" /\ Again(c)
    <2>1. status[bus[c]] = "error" /\ bus[c] \in Buses /\ op[c] \in 1 .. ops /\ op[c] # 0
        BY <1>1, <1>3, Numbers DEF I2cInv, SeenOwn, CallTypes, OpNumbered
    <2>2. performed[op[c]] <= expired'[op[c]] /\ engine[bus[c]] # op[c]
        BY <1>1, <2>1 DEF I2cInv, ErrorOnce, EngineClear
    <2>3. CASE Return(c, "error")
        BY <1>1, <1>2, <1>3, <2>3, Leaves
    <2>4. CASE Goto(c, "setup") /\ UNCHANGED <<lock, irq_wait, seen_status, op>>
        BY <1>1, <1>2, <1>3, <2>2, <2>4, Retries DEF Goto
    <2> QED BY <1>3, <2>3, <2>4 DEF Again
<1>4. CASE seen_status[c] = "done" /\ Advance(c)
    BY <1>1, <1>4, Advances DEF Advance, Goto
<1>5. CASE seen_status[c] = "done" /\ Goto(c, "fetch")
           /\ UNCHANGED <<lock, irq_wait, seen_status, op>>
    BY <1>1, <1>5, Fetches DEF Goto
<1> QED BY <1>3, <1>4, <1>5 DEF Checked

\* The data were fetched.
LEMMA FetchKeeps == ASSUME I2cInv, NEW c \in Callers, Fetch(c) PROVE I2cInv'
<1> USE DEF lifeVars, bridgeVars, callerVars, waitVars, engineVars, historyVars
<1>1. pc[c] = "fetch" /\ pc[c] \in Active /\ pc[c] \notin Waits
    BY DEF Fetch, Active, After, Waits
<1>2. CASE Return(c, "error")
    <2>1. WaitingHasWaiter'
        BY <1>1, NoneWaits DEF Fetch
    <2> QED BY <1>1, <1>2, <2>1, Leaves DEF Fetch
<1>3. CASE Advance(c)
    BY <1>1, <1>3, Advances DEF Fetch, Advance, Goto
<1> QED BY <1>2, <1>3 DEF Fetch

\* An engine ends.
LEMMA FinishKeeps == ASSUME I2cInv, NEW b \in Buses, Finish(b) PROVE I2cInv'
BY Performs, Fails
   DEF Finish, lifeVars, bridgeVars, callerVars, waitVars, engineVars, historyVars

\* The handler serves a bus, waiting or not.
LEMMA ServeBusKeeps == ASSUME I2cInv, NEW b \in Buses, ServeBus(b) PROVE I2cInv'
<1> USE DEF lifeVars, bridgeVars, callerVars, waitVars, engineVars, historyVars
<1>1. CASE waiting[b]
    <2> DEFINE s == IF gone THEN "none" ELSE status[b]
    <2>1. s \in {"none", status[b]}
        OBVIOUS
    <2>2. completion_status' = [completion_status EXCEPT ![b] = s]
        BY <1>1 DEF ServeBus
    <2> HIDE DEF s
    <2> QED BY <1>1, <2>1, <2>2, Serves DEF ServeBus
<1>2. CASE ~waiting[b]
    <2>1. registered \in 0 .. BusCount /\ dma \in BOOLEAN
        BY DEF I2cInv, BusTypes
    <2> QED BY <1>2, <2>1, Still DEF ServeBus
<1> QED BY <1>1, <1>2

-----------------------------------------------------------------------------
(* The theorems                                                             *)

\* The invariant holds at first.
LEMMA InitInv == Init => I2cInv
<1> SUFFICES ASSUME Init PROVE I2cInv
    OBVIOUS
<1> USE DEF Init
<1>1. 0 \in Buses /\ 0 \in 0 .. MaxOps /\ 0 \in 0 .. BusCount /\ "none" \notin Callers
    BY I2cAssumption DEF Buses
<1>2. \A c \in Callers : pc[c] = "idle"
    OBVIOUS
<1>3. \A b \in Buses : engine[b] = 0 /\ waiting[b] = FALSE
    OBVIOUS
<1>4. CallTypes /\ BusTypes /\ Mutex
    BY <1>1, <1>2 DEF CallTypes, BusTypes, Mutex, Statuses, Active, Before, After
<1>5. HistoryTypes
    BY <1>1 DEF HistoryTypes
<1>6. EngineNumbered /\ FutureClear /\ PerformedOnce
    BY <1>3, I2cAssumption DEF EngineNumbered, FutureClear, PerformedOnce
<1>7. EngineDistinct /\ EngineClear /\ EngineOnce /\ WaitingHasWaiter
    BY <1>3 DEF EngineDistinct, EngineClear, EngineOnce, WaitingHasWaiter
<1>8. OpNumbered /\ CommandClear /\ StatusOwn /\ CompletionOwn /\ SeenOwn /\ BeforeOnce /\ ErrorOnce
    BY <1>2 DEF OpNumbered, CommandClear, StatusOwn, CompletionOwn, SeenOwn, BeforeOnce, ErrorOnce,
                Before, After, Waits
<1> QED BY <1>4, <1>5, <1>6, <1>7, <1>8 DEF I2cInv

\* Every step keeps it.
LEMMA StepInv == I2cInv /\ [Next]_vars => I2cInv'
<1> SUFFICES ASSUME I2cInv, [Next]_vars PROVE I2cInv'
    OBVIOUS
<1>1. CASE UNCHANGED vars
    <2>1. registered \in 0 .. BusCount /\ dma \in BOOLEAN
        BY DEF I2cInv, BusTypes
    <2> QED
        BY <1>1, <2>1, Still
           DEF vars, lifeVars, bridgeVars, callerVars, waitVars, engineVars, historyVars
<1>2. CASE Register \/ RequestIrq \/ SetDma \/ FreeIrq \/ ForgetDma \/ Unregister
           \/ Quiesce \/ Vanish \/ Handler
    BY <1>2, OthersKeep, ServeBusKeeps DEF Handler
<1>3. CASE \E c \in Callers : Call(c) \/ Lock(c) \/ Step(c)
    BY <1>3, CallKeeps, LockKeeps, NextOperationKeeps, SetupKeeps, ArmKeeps, CommandKeeps,
       TryCompletionKeeps, PollKeeps, SettleKeeps, ExpireKeeps, CheckedKeeps, FetchKeeps DEF Step
<1>4. CASE \E b \in Buses : Finish(b)
    BY <1>4, FinishKeeps
<1> QED BY <1>1, <1>2, <1>3, <1>4 DEF Next

\* The invariant holds in every behaviour.
THEOREM InvariantHolds == Spec => []I2cInv
<1> QED BY InitInv, StepInv, PTL DEF Spec

\* A transfer takes only the answer to its own operation, and a read fetches
\* only its own data (gc573-i2c.c:161, :310).
THEOREM OwnAnswerTheorem == Spec => []OwnAnswer
<1>1. I2cInv => OwnAnswer
    BY DEF I2cInv, SeenOwn, StatusOwn, After, OwnAnswer
<1> QED BY <1>1, InvariantHolds, PTL

\* A bus waits only while a caller is between arming and the end of its wait,
\* or after the card was pulled (gc573-i2c.c:152).
THEOREM WaitingHasWaiterTheorem == Spec => []WaitingHasWaiter
<1>1. I2cInv => WaitingHasWaiter
    BY DEF I2cInv
<1> QED BY <1>1, InvariantHolds, PTL

\* What the slave has done is repeated only when an attempt timed out on it
\* (gc573-i2c.c:346).
THEOREM RepeatedOnlyAfterTimeoutTheorem == Spec => []RepeatedOnlyAfterTimeout
<1>1. I2cInv => RepeatedOnlyAfterTimeout
    BY DEF I2cInv, PerformedOnce, RepeatedOnlyAfterTimeout
<1> QED BY <1>1, InvariantHolds, PTL

-----------------------------------------------------------------------------
(* Lists that are refused                                                   *)

\* What the kernel lets through is over after one operation: it is one message,
\* or a pair.
Short == \A c \in Callers : pc[c] # "idle" => msgs[c] \in Requests /\ Quirks(msgs[c])
AtStart == \A c \in Callers :
    pc[c] \in Before \cup After => index[c] = 1 /\ MaxOps > 0
Untouched == \A c \in Callers :
    /\ pc[c] = "lock" => commands[c] = 0
    /\ pc[c] = "next" /\ index[c] <= Len(msgs[c]) => index[c] = 1 /\ commands[c] = 0
    /\ result[c] = "refused" => commands[c] = 0
    /\ pc[c] # "idle" => result[c] = "none"

\* Commands are counted by the attempts, and the polls of one are limited.
Counted == \A c \in Callers :
    /\ pc[c] \in Before => commands[c] = attempt[c] /\ attempt[c] < MaxAttempts
    /\ pc[c] \in After => commands[c] = attempt[c] + 1 /\ attempt[c] < MaxAttempts
    /\ pc[c] \in {"wait", "poll"} => polls[c] < PollCount

\* The types of the lists, and of the driver around the transfers.
ListTypes ==
    /\ msgs \in [Callers -> Requests \cup {<<>>}] /\ index \in [Callers -> 1 .. 4]
    /\ attempt \in [Callers -> 0 .. MaxAttempts] /\ polls \in [Callers -> 0 .. PollCount]
    /\ result \in [Callers -> Results] /\ commands \in [Callers -> 0 .. MaxAttempts]
    /\ MaxOps = 0 => \A c \in Callers : commands[c] = 0
DriverTypes ==
    /\ life \in {"init", "up", "irq", "running", "freed", "end"}
    /\ handler \in BOOLEAN /\ ready \in BOOLEAN /\ gone \in BOOLEAN
    /\ pending \subseteq Buses /\ irq \subseteq Buses

ListInv == ListTypes /\ DriverTypes /\ Short /\ AtStart /\ Untouched /\ Counted

\* The limits of a transfer.
LEMMA Bounds == MaxAttempts \in Nat \ {0} /\ PollCount \in Nat \ {0} /\ MaxOps \in Nat
BY I2cAssumption

\* What the kernel lets through has one operation.
LEMMA OneOperation ==
    ASSUME NEW r \in Requests, Quirks(r)
    PROVE  /\ 1 + (IF IsPair(r, 1) THEN 2 ELSE 1) \in {2, 3}
           /\ ~(1 + (IF IsPair(r, 1) THEN 2 ELSE 1) <= Len(r))
<1>1. Len(r) \in {1, 2}
    <2>1. r \in Seq([rd : BOOLEAN, len : Nat, addr : Nat, ok : BOOLEAN]) /\ r # <<>>
        BY I2cAssumption
    <2>2. Len(r) \in Nat /\ Len(r) # 0
        BY <2>1
    <2>3. Len(r) <= 2
        BY DEF Quirks
    <2>4. \A n \in Nat : n # 0 /\ n <= 2 => n \in {1, 2}
        OBVIOUS
    <2> QED BY <2>2, <2>3, <2>4
<1>2. CASE Len(r) = 1
    BY <1>2 DEF IsPair
<1>3. CASE Len(r) = 2
    <2>1. IsPair(r, 1)
        BY <1>3 DEF IsPair, Quirks
    <2> QED BY <1>3, <2>1
<1> QED BY <1>1, <1>2, <1>3

\* The end of a transfer.
LEMMA ReturnLists ==
    ASSUME I2cInv, ListInv, NEW c \in Callers, NEW r \in Results, Return(c, r),
           UNCHANGED commands, r = "refused" => commands[c] = 0, DriverTypes'
    PROVE  ListInv'
<1> USE DEF I2cInv, ListInv, Return, Goto
<1>1. \A d \in Callers : /\ pc'[d] = (IF d = c THEN "idle" ELSE pc[d])
                         /\ result'[d] = (IF d = c THEN r ELSE result[d])
    BY DEF CallTypes, ListTypes
<1>2. \A d \in Callers : d # c => /\ msgs'[d] = msgs[d] /\ index'[d] = index[d]
                                  /\ attempt'[d] = attempt[d] /\ polls'[d] = polls[d]
    BY DEF ListTypes
<1>3. ListTypes'
    BY Bounds DEF ListTypes
<1>4. Short' /\ AtStart' /\ Untouched'
    BY <1>1 DEF Short, AtStart, Untouched, Before, After
<1>5. Counted'
    BY <1>1 DEF Counted, Before, After
<1> QED BY <1>3, <1>4, <1>5

\* The operation is over, and with it the list.
LEMMA AdvanceLists ==
    ASSUME I2cInv, ListInv, NEW c \in Callers, pc[c] \in {"checked", "fetch"}, Advance(c),
           UNCHANGED commands, DriverTypes'
    PROVE  ListInv'
<1> USE DEF I2cInv, ListInv, Advance, Goto
<1>1. msgs[c] \in Requests /\ Quirks(msgs[c]) /\ index[c] = 1
    BY DEF Short, AtStart, After
<1>2. PICK n \in {2, 3} : ~(n <= Len(msgs[c])) /\ index' = [index EXCEPT ![c] = n]
    BY <1>1, OneOperation
<1>3. index' \in [Callers -> 1 .. 4] /\ ~(index'[c] <= Len(msgs[c]))
    BY <1>2 DEF ListTypes
<1>4. ListTypes'
    BY <1>3 DEF ListTypes
<1>5. Short' /\ AtStart'
    BY DEF Short, AtStart, CallTypes, Before, After
<1>6. Untouched'
    BY <1>3 DEF Untouched
<1>7. Counted'
    BY DEF Counted, Before, After
<1> QED BY <1>4, <1>5, <1>6, <1>7

\* Another attempt, unless it was the last.
LEMMA AgainLists ==
    ASSUME I2cInv, ListInv, NEW c \in Callers, pc[c] \in {"expire", "checked"}, Again(c),
           UNCHANGED commands, DriverTypes'
    PROVE  ListInv'
<1> USE DEF I2cInv, ListInv
<1>1. CASE Return(c, "error")
    BY <1>1, ReturnLists DEF Results
<1>2. CASE ~Return(c, "error")
    <2>1. /\ attempt[c] + 1 < MaxAttempts /\ pc' = [pc EXCEPT ![c] = "setup"]
          /\ attempt' = [attempt EXCEPT ![c] = attempt[c] + 1]
          /\ UNCHANGED <<msgs, index, polls, result>>
        BY <1>2 DEF Again, Goto
    <2>2. attempt' \in [Callers -> 0 .. MaxAttempts]
        BY <2>1, Bounds DEF ListTypes
    <2>3. ListTypes'
        BY <2>1, <2>2 DEF ListTypes
    <2>4. Short' /\ AtStart' /\ Untouched'
        BY <2>1 DEF Short, AtStart, Untouched, After
    <2>5. Counted'
        BY <2>1 DEF Counted, CallTypes, ListTypes, After
    <2> QED BY <2>3, <2>4, <2>5
<1> QED BY <1>1, <1>2

\* What is called for is a short list.
LEMMA CallLists == ASSUME I2cInv, ListInv, NEW c \in Callers, Call(c) PROVE ListInv'
<1> USE DEF I2cInv, ListInv, lifeVars, bridgeVars, callerVars, waitVars, engineVars, historyVars
<1>1. DriverTypes'
    BY DEF DriverTypes, Call
<1>2. msgs' \in [Callers -> Requests \cup {<<>>}] /\ index' \in [Callers -> 1 .. 4]
    BY DEF ListTypes, Call
<1>3. attempt' \in [Callers -> 0 .. MaxAttempts] /\ polls' \in [Callers -> 0 .. PollCount]
    BY DEF ListTypes, Call
<1>4. result' \in [Callers -> Results]
    BY DEF ListTypes, Results, Call
<1>5. commands' \in [Callers -> 0 .. MaxAttempts]
    BY Bounds DEF ListTypes, Call
<1>6. MaxOps = 0 => \A d \in Callers : commands'[d] = 0
    BY DEF ListTypes, Call
<1>7. Short'
    BY DEF Short, ListTypes, Call, Goto
<1>8. AtStart'
    BY Bounds DEF AtStart, Before, After, Call, Goto
<1>9. Untouched'
    BY DEF Untouched, ListTypes, Call, Goto
<1>10. Counted'
    BY Bounds DEF Counted, Before, After, Call, Goto
<1> QED BY <1>1, <1>2, <1>3, <1>4, <1>5, <1>6, <1>7, <1>8, <1>9, <1>10 DEF ListTypes

\* A transfer begins at the start of its list, before any command.
LEMMA LockLists == ASSUME I2cInv, ListInv, NEW c \in Callers, Lock(c) PROVE ListInv'
<1> USE DEF I2cInv, ListInv, lifeVars, bridgeVars, callerVars, waitVars, engineVars, historyVars
<1>1. DriverTypes'
    BY DEF DriverTypes, Lock
<1>2. msgs' \in [Callers -> Requests \cup {<<>>}] /\ index' \in [Callers -> 1 .. 4]
    BY DEF ListTypes, Lock
<1>3. attempt' \in [Callers -> 0 .. MaxAttempts] /\ polls' \in [Callers -> 0 .. PollCount]
    BY DEF ListTypes, Lock
<1>4. result' \in [Callers -> Results]
    BY DEF ListTypes, Lock
<1>5. commands' \in [Callers -> 0 .. MaxAttempts]
    BY DEF ListTypes, Lock
<1>6. MaxOps = 0 => \A d \in Callers : commands'[d] = 0
    BY DEF ListTypes, Lock
<1>7. Short'
    BY DEF Short, Lock, Goto
<1>8. AtStart'
    BY Bounds DEF AtStart, Before, After, Lock, Goto
<1>9. Untouched'
    BY DEF Untouched, ListTypes, Lock, Goto
<1>10. Counted'
    BY Bounds DEF Counted, Before, After, Lock, Goto
<1> QED BY <1>1, <1>2, <1>3, <1>4, <1>5, <1>6, <1>7, <1>8, <1>9, <1>10 DEF ListTypes

\* A list is refused at its start only.
LEMMA NextOperationLists ==
    ASSUME I2cInv, ListInv, NEW c \in Callers, NextOperation(c)
    PROVE  ListInv'
<1> USE DEF I2cInv, ListInv, lifeVars, bridgeVars, callerVars, waitVars, engineVars, historyVars
<1>1. DriverTypes'
    BY DEF DriverTypes, NextOperation
<1>2. CASE \/ Return(c, "ok") \/ Return(c, "shutdown") \/ Return(c, "error")
           \/ index[c] <= Len(msgs[c]) /\ Return(c, "refused")
    <2>1. index[c] <= Len(msgs[c]) => commands[c] = 0
        BY DEF NextOperation, Untouched
    <2> QED BY <1>1, <1>2, <2>1, ReturnLists DEF Results, NextOperation
<1>3. CASE /\ ops < MaxOps /\ index[c] <= Len(msgs[c]) /\ Goto(c, "setup") /\ attempt' = [attempt EXCEPT ![c] = 0]
           /\ UNCHANGED <<msgs, index, polls, result>>
    <2>1. msgs' \in [Callers -> Requests \cup {<<>>}] /\ index' \in [Callers -> 1 .. 4]
        BY <1>3 DEF ListTypes
    <2>2. attempt' \in [Callers -> 0 .. MaxAttempts] /\ polls' \in [Callers -> 0 .. PollCount]
        BY <1>3, Bounds DEF ListTypes
    <2>3. result' \in [Callers -> Results]
        BY <1>3 DEF ListTypes
    <2>4. commands' \in [Callers -> 0 .. MaxAttempts]
        BY DEF ListTypes, NextOperation
    <2>5. MaxOps = 0 => \A d \in Callers : commands'[d] = 0
        BY DEF ListTypes, NextOperation
    <2>6. Short'
        BY <1>3 DEF Short, NextOperation, Goto
    <2>7. AtStart'
        BY <1>3, Bounds DEF AtStart, Untouched, HistoryTypes, NextOperation, Goto
    <2>8. Untouched'
        BY <1>3 DEF Untouched, NextOperation, Goto
    <2>9. Counted'
        BY <1>3, Bounds DEF Counted, ListTypes, Untouched, After, NextOperation, Goto
    <2> QED BY <1>1, <2>1, <2>2, <2>3, <2>4, <2>5, <2>6, <2>7, <2>8, <2>9 DEF ListTypes
<1> QED BY <1>2, <1>3 DEF NextOperation

\* An attempt has no command yet.
LEMMA SetupLists == ASSUME I2cInv, ListInv, NEW c \in Callers, Setup(c) PROVE ListInv'
<1> USE DEF I2cInv, ListInv, lifeVars, bridgeVars, callerVars, waitVars, engineVars, historyVars
<1>1. DriverTypes'
    BY DEF DriverTypes, Setup
<1>2. CASE Return(c, "error")
    BY <1>1, <1>2, ReturnLists DEF Results, Setup
<1>3. CASE ~Return(c, "error")
    <2>1. msgs' \in [Callers -> Requests \cup {<<>>}] /\ index' \in [Callers -> 1 .. 4]
        BY <1>3 DEF ListTypes, Setup
    <2>2. attempt' \in [Callers -> 0 .. MaxAttempts] /\ polls' \in [Callers -> 0 .. PollCount]
        BY <1>3 DEF ListTypes, Setup
    <2>3. result' \in [Callers -> Results]
        BY <1>3 DEF ListTypes, Setup
    <2>4. commands' \in [Callers -> 0 .. MaxAttempts]
        BY DEF ListTypes, Setup
    <2>5. MaxOps = 0 => \A d \in Callers : commands'[d] = 0
        BY DEF ListTypes, Setup
    <2>6. Short'
        BY <1>3 DEF Short, CallTypes, Setup, Goto
    <2>7. AtStart'
        BY <1>3, Bounds DEF AtStart, CallTypes, Before, Setup, Goto
    <2>8. Untouched'
        BY <1>3 DEF Untouched, CallTypes, Setup, Goto
    <2>9. Counted'
        BY <1>3, Bounds DEF Counted, CallTypes, Before, After, Setup, Goto
    <2> QED BY <1>1, <2>1, <2>2, <2>3, <2>4, <2>5, <2>6, <2>7, <2>8, <2>9 DEF ListTypes
<1> QED BY <1>2, <1>3

\* Arming writes no command.
LEMMA ArmLists == ASSUME I2cInv, ListInv, NEW c \in Callers, Arm(c) PROVE ListInv'
<1> USE DEF I2cInv, ListInv, lifeVars, bridgeVars, callerVars, waitVars, engineVars, historyVars
<1>1. DriverTypes'
    BY DEF DriverTypes, Arm
<1>2. msgs' \in [Callers -> Requests \cup {<<>>}] /\ index' \in [Callers -> 1 .. 4]
    BY DEF ListTypes, Arm
<1>3. attempt' \in [Callers -> 0 .. MaxAttempts] /\ polls' \in [Callers -> 0 .. PollCount]
    BY DEF ListTypes, Arm
<1>4. result' \in [Callers -> Results]
    BY DEF ListTypes, Arm
<1>5. commands' \in [Callers -> 0 .. MaxAttempts]
    BY DEF ListTypes, Arm
<1>6. MaxOps = 0 => \A d \in Callers : commands'[d] = 0
    BY DEF ListTypes, Arm
<1>7. Short'
    BY DEF Short, Arm, Goto
<1>8. AtStart'
    BY Bounds DEF AtStart, Before, Arm, Goto
<1>9. Untouched'
    BY DEF Untouched, Arm, Goto
<1>10. Counted'
    BY Bounds DEF Counted, Before, After, Arm, Goto
<1> QED BY <1>1, <1>2, <1>3, <1>4, <1>5, <1>6, <1>7, <1>8, <1>9, <1>10 DEF ListTypes

\* The one command of an attempt.
LEMMA CommandLists == ASSUME I2cInv, ListInv, NEW c \in Callers, Command(c) PROVE ListInv'
<1> USE DEF I2cInv, ListInv, lifeVars, bridgeVars, callerVars, waitVars, engineVars, historyVars
<1>1. DriverTypes'
    BY DEF DriverTypes, Command
<1>2. CASE gone
    BY <1>1, <1>2, ReturnLists DEF Results, Command
<1>3. CASE ~gone
    <2>1. msgs' \in [Callers -> Requests \cup {<<>>}] /\ index' \in [Callers -> 1 .. 4]
        BY <1>3 DEF ListTypes, Command
    <2>2. attempt' \in [Callers -> 0 .. MaxAttempts] /\ polls' \in [Callers -> 0 .. PollCount]
        BY <1>3, Bounds DEF ListTypes, Counted, Before, After, Command
    <2>3. result' \in [Callers -> Results]
        BY <1>3 DEF ListTypes, Command
    <2>4. commands' \in [Callers -> 0 .. MaxAttempts]
        BY <1>3, Bounds DEF ListTypes, Counted, Before, Command, Goto
    <2>5. MaxOps = 0 => \A d \in Callers : commands'[d] = 0
        BY DEF ListTypes, AtStart, Before, Command
    <2>6. Short'
        BY <1>3 DEF Short, CallTypes, Command, Goto
    <2>7. AtStart'
        BY <1>3, Bounds DEF AtStart, CallTypes, Before, Command, Goto
    <2>8. Untouched'
        BY <1>3 DEF Untouched, ListTypes, CallTypes, Command, Goto
    <2>9. Counted'
        BY <1>3, Bounds DEF Counted, ListTypes, CallTypes, Before, After, Command, Goto
    <2> QED BY <1>1, <2>1, <2>2, <2>3, <2>4, <2>5, <2>6, <2>7, <2>8, <2>9 DEF ListTypes
<1> QED BY <1>2, <1>3

\* A completion changes no list.
LEMMA TryCompletionLists ==
    ASSUME I2cInv, ListInv, NEW c \in Callers, TryCompletion(c)
    PROVE  ListInv'
<1> USE DEF I2cInv, ListInv, lifeVars, bridgeVars, callerVars, waitVars, engineVars, historyVars
<1>1. DriverTypes'
    BY DEF DriverTypes, TryCompletion
<1>2. msgs' \in [Callers -> Requests \cup {<<>>}] /\ index' \in [Callers -> 1 .. 4]
    BY DEF ListTypes, TryCompletion
<1>3. attempt' \in [Callers -> 0 .. MaxAttempts] /\ polls' \in [Callers -> 0 .. PollCount]
    BY DEF ListTypes, TryCompletion
<1>4. result' \in [Callers -> Results]
    BY DEF ListTypes, TryCompletion
<1>5. commands' \in [Callers -> 0 .. MaxAttempts]
    BY DEF ListTypes, TryCompletion
<1>6. MaxOps = 0 => \A d \in Callers : commands'[d] = 0
    BY DEF ListTypes, TryCompletion
<1>7. Short'
    BY DEF Short, CallTypes, TryCompletion, Goto
<1>8. AtStart'
    BY Bounds DEF AtStart, CallTypes, After, TryCompletion, Goto
<1>9. Untouched'
    BY DEF Untouched, CallTypes, TryCompletion, Goto
<1>10. Counted'
    BY Bounds DEF Counted, CallTypes, Before, After, TryCompletion, Goto
<1> QED BY <1>1, <1>2, <1>3, <1>4, <1>5, <1>6, <1>7, <1>8, <1>9, <1>10 DEF ListTypes

\* Polls are limited.
LEMMA PollLists == ASSUME I2cInv, ListInv, NEW c \in Callers, Poll(c) PROVE ListInv'
<1> USE DEF I2cInv, ListInv, lifeVars, bridgeVars, callerVars, waitVars, engineVars, historyVars
<1>1. DriverTypes'
    BY DEF DriverTypes, Poll
<1>2. CASE Return(c, "error")
    BY <1>1, <1>2, ReturnLists DEF Results, Poll
<1>3. CASE ~Return(c, "error")
    <2>1. /\ pc[c] = "poll" /\ polls[c] < PollCount /\ polls[c] \in Nat
          /\ attempt[c] < MaxAttempts /\ commands[c] = attempt[c] + 1
        BY DEF Counted, After, ListTypes, Poll
    <2>2. msgs' \in [Callers -> Requests \cup {<<>>}] /\ index' \in [Callers -> 1 .. 4]
        BY <1>3 DEF ListTypes, Poll
    <2>3. attempt' \in [Callers -> 0 .. MaxAttempts] /\ polls' \in [Callers -> 0 .. PollCount]
        <3>1. attempt' = attempt /\ (polls' = polls \/ polls' = [polls EXCEPT ![c] = polls[c] + 1])
            BY <1>3 DEF Poll
        <3>2. polls[c] + 1 \in 0 .. PollCount
            BY <2>1, Bounds
        <3> QED BY <3>1, <3>2 DEF ListTypes
    <2>4. result' \in [Callers -> Results]
        BY <1>3 DEF ListTypes, Poll
    <2>5. commands' \in [Callers -> 0 .. MaxAttempts]
        BY DEF ListTypes, Poll
    <2>6. MaxOps = 0 => \A d \in Callers : commands'[d] = 0
        BY <2>1 DEF ListTypes
    <2>7. Short'
        BY <1>3 DEF Short, CallTypes, Poll, Goto
    <2>8. AtStart'
        BY <1>3, <2>1, Bounds DEF AtStart, CallTypes, After, Poll, Goto
    <2>9. Untouched'
        BY <1>3, <2>1 DEF Untouched, CallTypes, Poll, Goto
    <2>10. Counted'
        <3>1.
                  \/ polls' = polls /\ pc' = [pc EXCEPT ![c] = IF irq_wait[c] THEN "settle" ELSE "checked"]
              \/ /\ polls' = [polls EXCEPT ![c] = polls[c] + 1]
                 /\ pc' = [pc EXCEPT ![c] = IF polls[c] + 1 < PollCount THEN "wait" ELSE "expire"]
            BY <1>3 DEF Poll, Goto
        <3>2. attempt' = attempt /\ commands' = commands
            BY <1>3 DEF Poll
        <3>3. \A d \in Callers : (pc'[d] = pc[d] /\ polls'[d] = polls[d]) \/ d = c
            BY <3>1 DEF CallTypes, ListTypes
        <3>4. pc'[c] \in After /\ (pc'[c] = "wait" => polls'[c] < PollCount) /\ pc'[c] # "poll"
            BY <3>1 DEF CallTypes, ListTypes, After
        <3> QED BY <3>2, <3>3, <3>4, <2>1 DEF Counted, Before, After
    <2> QED BY <1>1, <2>1, <2>2, <2>3, <2>4, <2>5, <2>6, <2>7, <2>8, <2>9, <2>10 DEF ListTypes
<1> QED BY <1>2, <1>3

\* Nor does the end of a wait.
LEMMA SettleLists == ASSUME I2cInv, ListInv, NEW c \in Callers, Settle(c) PROVE ListInv'
<1> USE DEF I2cInv, ListInv, lifeVars, bridgeVars, callerVars, waitVars, engineVars, historyVars
<1>1. DriverTypes'
    BY DEF DriverTypes, Settle, Acknowledge
<1>2. msgs' \in [Callers -> Requests \cup {<<>>}] /\ index' \in [Callers -> 1 .. 4]
    BY DEF ListTypes, Settle
<1>3. attempt' \in [Callers -> 0 .. MaxAttempts] /\ polls' \in [Callers -> 0 .. PollCount]
    BY DEF ListTypes, Settle
<1>4. result' \in [Callers -> Results]
    BY DEF ListTypes, Settle
<1>5. commands' \in [Callers -> 0 .. MaxAttempts]
    BY DEF ListTypes, Settle
<1>6. MaxOps = 0 => \A d \in Callers : commands'[d] = 0
    BY DEF ListTypes, Settle
<1>7. Short'
    BY DEF Short, Settle, Goto
<1>8. AtStart'
    BY Bounds DEF AtStart, After, Settle, Goto, Acknowledge
<1>9. Untouched'
    BY DEF Untouched, Settle, Goto, Acknowledge
<1>10. Counted'
    BY Bounds DEF Counted, Before, After, Settle, Goto, Acknowledge
<1> QED BY <1>1, <1>2, <1>3, <1>4, <1>5, <1>6, <1>7, <1>8, <1>9, <1>10 DEF ListTypes

\* Attempts are limited.
LEMMA ExpireLists == ASSUME I2cInv, ListInv, NEW c \in Callers, Expire(c) PROVE ListInv'
<1> USE DEF I2cInv, ListInv, lifeVars, bridgeVars, callerVars, waitVars, engineVars, historyVars
<1>1. DriverTypes'
    BY DEF DriverTypes, Expire, Acknowledge
<1> QED BY <1>1, AgainLists DEF Expire

\* After the operation the list is over.
LEMMA CheckedLists == ASSUME I2cInv, ListInv, NEW c \in Callers, Checked(c) PROVE ListInv'
<1> USE DEF I2cInv, ListInv, lifeVars, bridgeVars, callerVars, waitVars, engineVars, historyVars
<1>1. DriverTypes'
    BY DEF DriverTypes, Checked
<1>2. CASE Again(c)
    BY <1>1, <1>2, AgainLists DEF Checked
<1>3. CASE Advance(c)
    BY <1>1, <1>3, AdvanceLists DEF Checked
<1>4. CASE /\ pc' = [pc EXCEPT ![c] = "fetch"]
           /\ UNCHANGED <<msgs, index, attempt, polls, result>>
    <2>1. ListTypes'
        BY <1>4 DEF ListTypes, Checked
    <2>2. Short' /\ AtStart' /\ Untouched' /\ Counted'
        BY <1>4 DEF Short, AtStart, Untouched, Counted, Before, After, Checked
    <2> QED BY <1>1, <2>1, <2>2
<1> QED BY <1>2, <1>3, <1>4 DEF Checked, Goto

\* So it is after the data were read.
LEMMA FetchLists == ASSUME I2cInv, ListInv, NEW c \in Callers, Fetch(c) PROVE ListInv'
<1> USE DEF I2cInv, ListInv, lifeVars, bridgeVars, callerVars, waitVars, engineVars, historyVars
<1>1. DriverTypes'
    BY DEF DriverTypes, Fetch
<1>2. CASE Return(c, "error")
    BY <1>1, <1>2, ReturnLists DEF Results, Fetch
<1>3. CASE Advance(c)
    BY <1>1, <1>3, AdvanceLists DEF Fetch
<1> QED BY <1>2, <1>3 DEF Fetch

\* A step of the driver, of an engine or of the handler changes no transfer.
LEMMA OthersLists ==
    ASSUME I2cInv, ListInv, UNCHANGED <<callerVars, ops>>, DriverTypes'
    PROVE  ListInv'
<1> USE DEF callerVars
<1>1. ListTypes'
    BY DEF ListInv, ListTypes
<1>2. Short' /\ AtStart'
    BY DEF ListInv, Short, AtStart
<1>3. Untouched' /\ Counted'
    BY DEF ListInv, Untouched, Counted
<1> QED BY <1>1, <1>2, <1>3 DEF ListInv

\* Each of those steps keeps the driver's types.
LEMMA OthersTypes ==
    ASSUME I2cInv, ListInv,
           \/ Register \/ RequestIrq \/ SetDma \/ FreeIrq \/ ForgetDma \/ Unregister
           \/ Quiesce \/ Vanish \/ Handler \/ (\E b \in Buses : Finish(b)) \/ UNCHANGED vars
    PROVE  DriverTypes' /\ UNCHANGED <<callerVars, ops>>
<1> USE DEF ListInv, lifeVars, bridgeVars, waitVars, engineVars, historyVars
<1>1. CASE Register \/ RequestIrq \/ SetDma
    BY <1>1 DEF DriverTypes, Register, RequestIrq, SetDma
<1>2. CASE FreeIrq \/ ForgetDma \/ Unregister
    BY <1>2 DEF DriverTypes, FreeIrq, ForgetDma, Unregister
<1>3. CASE Quiesce \/ Vanish
    BY <1>3 DEF DriverTypes, Quiesce, Vanish
<1>4. CASE EnterIrq
    BY <1>4 DEF DriverTypes, EnterIrq
<1>5. CASE \E b \in Buses : ServeBus(b)
    BY <1>5 DEF DriverTypes, ServeBus, Acknowledge
<1>6. CASE \E b \in Buses : Finish(b)
    BY <1>6 DEF DriverTypes, Finish
<1>7. CASE UNCHANGED vars
    BY <1>7 DEF DriverTypes, vars
<1> QED BY <1>1, <1>2, <1>3, <1>4, <1>5, <1>6, <1>7 DEF Handler

\* No list is being sent at first.
LEMMA InitLists == Init => ListInv
<1> SUFFICES ASSUME Init PROVE ListInv
    OBVIOUS
<1> USE Bounds DEF Init
<1>1. ListTypes
    BY DEF ListTypes, Results
<1>2. DriverTypes
    BY DEF DriverTypes
<1>3. Short /\ AtStart /\ Untouched /\ Counted
    BY DEF Short, AtStart, Untouched, Counted, Before, After
<1> QED BY <1>1, <1>2, <1>3 DEF ListInv

\* Every step keeps what is known of the lists.
LEMMA StepLists == I2cInv /\ ListInv /\ [Next]_vars => ListInv'
<1> SUFFICES ASSUME I2cInv, ListInv, [Next]_vars PROVE ListInv'
    OBVIOUS
<1>1. CASE \/ Register \/ RequestIrq \/ SetDma \/ FreeIrq \/ ForgetDma \/ Unregister
           \/ Quiesce \/ Vanish \/ Handler \/ (\E b \in Buses : Finish(b)) \/ UNCHANGED vars
    BY <1>1, OthersTypes, OthersLists
<1>2. CASE \E c \in Callers : Call(c) \/ Lock(c) \/ Step(c)
    BY <1>2, CallLists, LockLists, NextOperationLists, SetupLists, ArmLists, CommandLists,
       TryCompletionLists, PollLists, SettleLists, ExpireLists, CheckedLists, FetchLists DEF Step
<1> QED BY <1>1, <1>2 DEF Next

\* The lists hold no surprise in any behaviour.
THEOREM ListsHold == Spec => []ListInv
<1> QED BY InitLists, StepLists, InvariantHolds, PTL DEF Spec

\* A transfer writes at most one command per attempt, and only when an operation
\* may begin: no more than all operations may.
LEMMA CommandsBounded == ASSUME ListInv PROVE commands \in [Callers -> 0 .. MaxAttempts * MaxOps]
<1>1. CASE MaxOps = 0
    <2>1. \A c \in Callers : commands[c] = 0 /\ 0 \in 0 .. MaxAttempts * MaxOps
        BY <1>1, Bounds DEF ListInv, ListTypes
    <2> QED BY <2>1 DEF ListInv, ListTypes
<1>2. CASE MaxOps # 0
    <2>1. \A m, n \in Nat : n # 0 => m <= m * n /\ m * n \in Nat
        <3> SUFFICES ASSUME NEW m \in Nat, NEW n \in Nat, n # 0 PROVE m <= m * n /\ m * n \in Nat
            OBVIOUS
        <3>1. PICK k \in Nat : n = k + 1
            BY n - 1 \in Nat
        <3>2. m * n = m * k + m /\ m * k \in Nat
            BY <3>1
        <3> QED BY <3>2
    <2>2. MaxAttempts <= MaxAttempts * MaxOps /\ MaxAttempts * MaxOps \in Nat
        BY <1>2, <2>1, Bounds
    <2> DEFINE P == MaxAttempts * MaxOps
    <2>3. MaxAttempts <= P /\ P \in Nat
        BY <2>2
    <2> HIDE DEF P
    <2>4. commands \in [Callers -> 0 .. P]
        BY <2>3, Bounds DEF ListInv, ListTypes
    <2> QED BY <2>4 DEF P
<1> QED BY <1>1, <1>2

\* Every variable of the controller keeps its type.
THEOREM TypeOKTheorem == Spec => []TypeOK
<1>1. I2cInv /\ ListInv => TypeOK
    <2> SUFFICES ASSUME I2cInv, ListInv PROVE TypeOK
        OBVIOUS
    <2>1. commands \in [Callers -> 0 .. MaxAttempts * MaxOps]
        BY CommandsBounded
    <2> QED
        BY <2>1 DEF I2cInv, ListInv, CallTypes, BusTypes, HistoryTypes, ListTypes, DriverTypes,
                    TypeOK, Statuses, Active, Before, After
<1> QED BY <1>1, InvariantHolds, ListsHold, PTL

\* A list of messages that is refused has not touched the bus: the core lets
\* through what one operation carries out, or nothing of it (gc573-i2c.c:414, :421).
THEOREM RefusedBeforeBusTheorem == Spec => []RefusedBeforeBus
<1>1. ListInv => RefusedBeforeBus
    BY DEF ListInv, Untouched, RefusedBeforeBus
<1> QED BY <1>1, ListsHold, PTL

-----------------------------------------------------------------------------
\* What a transfer relies on, for every number of callers, buses and attempts
\* (gc573-i2c.c:140, :310, :346, :414).
THEOREM TransfersSoundTheorem == Spec => []TransfersSound
<1> QED
    BY TypeOKTheorem, OwnAnswerTheorem, WaitingHasWaiterTheorem, RefusedBeforeBusTheorem,
       RepeatedOnlyAfterTimeoutTheorem, PTL DEF TransfersSound

-----------------------------------------------------------------------------
(* The video processor                                                       *)

\* The registers are a record with the fields of PowerOn.
Fields ==
    {"output", "format", "rate", "input", "yuv", "rgb", "matrix", "select", "convert",
     "controls", "adjust"}
Shape(h) == h = [x \in Fields |-> h[x]]

ProcessorTypes ==
    /\ Shape(hw) /\ hw.output \in BOOLEAN /\ configured \in BOOLEAN
    /\ picture \in [Controls -> BOOLEAN]
    /\ source \in Processor!Source /\ stream \in Processor!Source
    /\ seen \in Processor!Source /\ programmed \in Processor!Source
    /\ sampled = {} \/ \E s \in Processor!Source : sampled = {s}
    /\ format \in Formats /\ phase \in {"idle", "configured", "on", "dead"}
    /\ card \in {"on", "asleep", "gone", "removed"} /\ fpga_sleeps \in 0 .. MaxFpgaSleeps

\* The registers hold what the stream needs: the controls, and a path that nothing
\* but its sample determines.
Adjusted == hw.controls = picture /\ hw.adjust = (\E c \in Controls : picture[c])
Converted ==
    Processor!Effect(hw)
        = Processor!Effect(Processor!ColorPath(Processor!PowerOn, programmed, format))
Followed == stream.color = programmed.color /\ seen.color = programmed.color
Live == configured /\ Adjusted /\ Converted /\ Followed

\* The inductive invariant: while the card is there frames flow for a stream only,
\* and from the moment a stream is configured to its end the registers are right.
ProcessorInv ==
    /\ ProcessorTypes
    /\ card = "asleep" => phase \in {"idle", "dead"} /\ ~hw.output
    /\ card = "on" /\ hw.output => phase = "on"
    /\ card = "on" /\ phase \in {"configured", "on"} => Live

\* A record with one field changed is a record.
LEMMA ShapeKeeps ==
    ASSUME NEW h, Shape(h), NEW x \in Fields, NEW v
    PROVE  Shape([h EXCEPT ![x] = v])
BY DEF Shape

\* What the color path makes of a picture does not depend on the registers before.
LEMMA PathLast ==
    ASSUME NEW g, NEW h, Shape(g), Shape(h), NEW s, NEW f
    PROVE  Processor!Effect(Processor!ColorPath(g, s, f))
               = Processor!Effect(Processor!ColorPath(h, s, f))
BY SMTT(60) DEF Shape, Fields, Processor!Effect, Processor!ColorPath, Processor!Conversion

\* Nor on the rate of the sample.
LEMMA PathOfColors ==
    ASSUME NEW h, NEW s, NEW t, NEW f, s.transport = t.transport, s.color = t.color
    PROVE  Processor!Effect(Processor!ColorPath(h, s, f))
               = Processor!Effect(Processor!ColorPath(h, t, f))
BY DEF Processor!Effect, Processor!ColorPath, Processor!Conversion, Processor!Yuv,
       Processor!Selector

\* The color path leaves the rest of the registers.
LEMMA PathLeaves ==
    ASSUME NEW h, Shape(h), NEW s, NEW f
    PROVE  LET k == Processor!ColorPath(h, s, f) IN
           k.output = h.output /\ k.controls = h.controls /\ k.adjust = h.adjust
BY SMTT(60) DEF Shape, Fields, Processor!ColorPath, Processor!Conversion

\* The color path keeps the shape of the registers.
LEMMA PathShape ==
    ASSUME NEW h, Shape(h), NEW s, NEW f
    PROVE  Shape(Processor!ColorPath(h, s, f))
<1> DEFINE C == Processor!Conversion(h, s, f)
<1>1. Shape(C)
    <2>1. Shape([h EXCEPT !.convert = FALSE])
        BY DEF Shape, Fields
    <2>2. \A v : Shape([h EXCEPT !.matrix = v, !.select = v, !.convert = TRUE])
        BY DEF Shape, Fields
    <2> QED BY <2>1, <2>2 DEF Processor!Conversion
<1>2. ASSUME NEW c, Shape(c), NEW a, NEW b, NEW d
      PROVE  Shape([c EXCEPT !.input = a, !.yuv = b, !.rgb = d])
    BY <1>2 DEF Shape, Fields
<1> HIDE DEF C
<1> DEFINE I == IF s.transport = "yuv422" THEN "422" ELSE "444"
           Y == Processor!Yuv(s)
           B == Processor!OutputRgb(f)
<1>3. Processor!ColorPath(h, s, f) = [C EXCEPT !.input = I, !.yuv = Y, !.rgb = B]
    BY DEF C, Processor!ColorPath
<1> HIDE DEF I, Y, B
<1>4. Shape([C EXCEPT !.input = I, !.yuv = Y, !.rgb = B])
    BY <1>1, <1>2
<1> QED BY <1>3, <1>4

\* So do the registers after power on, with the output closed.
LEMMA PowerOnShape == Shape(Processor!PowerOn) /\ Processor!PowerOn.output = FALSE
BY DEF Shape, Fields, Processor!PowerOn

\* The effect of the registers does not depend on output, rate, format and controls.
LEMMA EffectOf ==
    ASSUME NEW h, Shape(h), NEW k, Shape(k), k.input = h.input, k.yuv = h.yuv, k.rgb = h.rgb,
           k.convert = h.convert, k.matrix = h.matrix, k.select = h.select
    PROVE  Processor!Effect(k) = Processor!Effect(h)
BY DEF Processor!Effect

\* Opening or closing the output changes nothing else.
LEMMA SetOutputKeeps ==
    ASSUME ProcessorTypes, NEW on \in BOOLEAN, Processor!SetOutput(on)
    PROVE  /\ Shape(hw') /\ hw'.output \in BOOLEAN
           /\ hw'.output = IF card = "on" /\ (on => configured) THEN on ELSE hw.output
           /\ hw'.controls = hw.controls /\ hw'.adjust = hw.adjust
           /\ Processor!Effect(hw') = Processor!Effect(hw)
<1>1. CASE card = "on" /\ (on => configured)
    <2>1. hw' = [hw EXCEPT !.output = on]
        BY <1>1 DEF Processor!SetOutput, Processor!Ready
    <2> QED BY <1>1, <2>1 DEF ProcessorTypes, Shape, Fields, Processor!Effect
<1>2. CASE ~(card = "on" /\ (on => configured))
    BY <1>2 DEF Processor!SetOutput, Processor!Ready, ProcessorTypes
<1> QED BY <1>1, <1>2

\* A configuration for the sampled source leaves the path of its colors, nothing of an
\* earlier one, and the controls last set.
LEMMA ConfigureKeeps ==
    ASSUME ProcessorInv, NEW f \in Formats, Processor!Configure(f)
    PROVE  ProcessorInv'
<1> USE DEF ProcessorInv
<1>1. CASE ~Processor!Ready
    BY <1>1 DEF Processor!Configure, ProcessorTypes, Processor!Ready
<1>2. CASE Processor!Ready
    <2> DEFINE A == Processor!Adjustment(hw, picture)
               P == Processor!ColorPath(A, source, f)
    <2>1. Shape(A) /\ A.controls = picture /\ A.adjust = (\E c \in Controls : picture[c])
        BY DEF ProcessorTypes, Shape, Fields, Processor!Adjustment
    <2> HIDE DEF A
    <2>2. Shape(P) /\ P.controls = picture /\ P.adjust = (\E c \in Controls : picture[c])
        BY <2>1, PathShape, PathLeaves
    <2>3. Processor!Effect(P)
              = Processor!Effect(Processor!ColorPath(Processor!PowerOn, source, f))
        BY <2>1, PathLast, PowerOnShape
    <2> HIDE DEF P
    <2>4. hw' = [P EXCEPT !.output = FALSE, !.format = f, !.rate = source.rate]
        BY <1>2 DEF P, A, Processor!Configure, Processor!Configured
    <2>5. Shape(hw') /\ ~hw'.output /\ hw'.output \in BOOLEAN /\ hw'.controls = P.controls
          /\ hw'.adjust = P.adjust /\ Processor!Effect(hw') = Processor!Effect(P)
        BY <2>2, <2>4 DEF Shape, Fields, Processor!Effect
    <2>6. /\ configured' /\ phase' = "configured" /\ stream' = source /\ seen' = source
          /\ programmed' = source /\ format' = f /\ UNCHANGED <<picture, source, sampled, card,
                                                             fpga_sleeps>>
        BY <1>2 DEF Processor!Configure
    <2>7. Live'
        BY <2>2, <2>3, <2>5, <2>6 DEF Live, Adjusted, Converted, Followed
    <2>8. ProcessorTypes'
        BY <1>2, <2>5, <2>6 DEF ProcessorTypes, Processor!Configure
    <2> QED BY <1>2, <2>5, <2>6, <2>7, <2>8 DEF Processor!Ready
<1> QED BY <1>1, <1>2

\* Where only output, place and configured change.
LEMMA OutputKeeps ==
    ASSUME ProcessorInv, Processor!StartDma \/ Processor!Stop \/ Processor!WatchdogStop
    PROVE  ProcessorInv'
<1> USE DEF ProcessorInv
<1>0. /\ UNCHANGED <<picture, source, stream, format, sampled, seen, programmed, card,
                     fpga_sleeps>>
      /\ phase' \in {"idle", "on", "dead"} /\ configured' \in BOOLEAN
    BY DEF Processor!StartDma, Processor!Stop, Processor!WatchdogStop, ProcessorTypes
<1>1. PICK on \in BOOLEAN : Processor!SetOutput(on)
    BY DEF Processor!StartDma, Processor!Stop, Processor!WatchdogStop
<1>2. ProcessorTypes'
    BY <1>0, <1>1, SetOutputKeeps DEF ProcessorTypes
<1>3. card' = "asleep" => phase' \in {"idle", "dead"} /\ ~hw'.output
    BY <1>0, <1>1, SetOutputKeeps
       DEF Processor!StartDma, Processor!Stop, Processor!WatchdogStop
<1>4. CASE Processor!StartDma
    <2>1. card = "on" => configured
        BY <1>4 DEF Processor!StartDma, Live
    <2>2. card = "on" => (phase' = "on" <=> hw'.output) /\ phase' \in {"on", "idle"}
        <3>1. CASE Processor!SetOutput(TRUE) /\ phase' = IF hw'.output THEN "on" ELSE "idle"
            BY <3>1
        <3>2. CASE Processor!SetOutput(FALSE) /\ phase' = "idle"
            BY <3>2, SetOutputKeeps
        <3> QED BY <1>4, <3>1, <3>2 DEF Processor!StartDma
    <2>3. card = "on" => Live'
        BY <1>0, <1>1, <1>4, <2>1, SetOutputKeeps
           DEF Processor!StartDma, Live, Adjusted, Converted, Followed
    <2> QED BY <1>0, <1>2, <1>3, <2>2, <2>3
<1>5. CASE Processor!Stop \/ Processor!WatchdogStop
    <2>1. Processor!SetOutput(FALSE) /\ phase' \in {"idle", "dead"}
        BY <1>5 DEF Processor!Stop, Processor!WatchdogStop
    <2>2. card = "on" => ~hw'.output
        BY <2>1, SetOutputKeeps
    <2> QED BY <1>0, <1>2, <1>3, <2>1, <2>2
<1> QED BY <1>4, <1>5

\* A control that is set reaches the processor at once if it is on.
LEMMA ControlKeeps ==
    ASSUME ProcessorInv, NEW c \in Controls, Processor!SetColorControl(c)
    PROVE  ProcessorInv'
<1> USE DEF ProcessorInv
<1> DEFINE p == [picture EXCEPT ![c] = ~@]
<1>0. UNCHANGED <<configured, source, stream, format, phase, sampled, seen, programmed, card,
                  fpga_sleeps>>
    BY DEF Processor!SetColorControl
<1>1. p \in [Controls -> BOOLEAN]
    BY DEF ProcessorTypes
<1> HIDE DEF p
<1>2. picture' \in {p, picture}
    BY DEF p, Processor!SetColorControl
<1>3. CASE card = "on" /\ configured
    <2>1. hw' = Processor!Adjustment(hw, p) /\ picture' = p
        BY <1>3 DEF p, Processor!SetColorControl, Processor!Ready
    <2>2. /\ Shape(hw') /\ hw'.output = hw.output /\ hw'.controls = p
          /\ hw'.adjust = (\E d \in Controls : p[d])
          /\ Processor!Effect(hw') = Processor!Effect(hw)
        BY <2>1 DEF ProcessorTypes, Shape, Fields, Processor!Adjustment, Processor!Effect
    <2>3. ProcessorTypes'
        BY <1>0, <1>1, <1>2, <2>2 DEF ProcessorTypes
    <2>4. Live => Live'
        BY <1>0, <2>1, <2>2 DEF Live, Adjusted, Converted, Followed
    <2> QED BY <1>0, <1>3, <2>2, <2>3, <2>4
<1>4. CASE ~(card = "on" /\ configured)
    <2>1. hw' = hw
        BY <1>4 DEF Processor!SetColorControl, Processor!Ready
    <2>2. ProcessorTypes'
        BY <1>0, <1>1, <1>2, <2>1 DEF ProcessorTypes
    <2> QED BY <1>0, <1>4, <2>1, <2>2 DEF Live
<1> QED BY <1>3, <1>4

\* A sample taken while frames flow is followed, or ends them.
LEMMA AdaptKeeps ==
    ASSUME ProcessorInv, Processor!Adapt
    PROVE  ProcessorInv'
<1> USE DEF ProcessorInv
<1>0. /\ UNCHANGED <<configured, picture, source, format, phase, card, fpga_sleeps>>
      /\ sampled' = {} /\ card \in {"on", "gone"} /\ phase # "configured"
    BY DEF Processor!Adapt
<1>1. PICK s \in sampled :
        LET update == Processor!Recolored(s) /\ configured /\ Processor!Ready IN
        IF phase = "idle" THEN UNCHANGED <<hw, stream, programmed, seen>>
        ELSE /\ hw' = IF update THEN Processor!ColorPath(Processor!FrameRate(s), s, format)
                      ELSE Processor!FrameRate(s)
             /\ programmed' = IF update THEN s ELSE programmed
             /\ stream' = [stream EXCEPT !.rate = s.rate, !.color = s.color]
             /\ seen' = s
    BY DEF Processor!Adapt
<1>2. s \in Processor!Source
    BY DEF ProcessorTypes
<1>3. CASE phase = "idle"
    BY <1>0, <1>1, <1>3 DEF ProcessorTypes
<1>4. CASE phase # "idle"
    <2> DEFINE R == Processor!FrameRate(s)
    <2>1. /\ Shape(R) /\ R.output = hw.output /\ R.controls = hw.controls
          /\ R.adjust = hw.adjust /\ Processor!Effect(R) = Processor!Effect(hw)
        BY DEF ProcessorTypes, Shape, Fields, Processor!FrameRate, Processor!Effect
    <2>2. stream' \in Processor!Source /\ stream'.color = s.color /\ seen' = s
        BY <1>1, <1>2, <1>4 DEF ProcessorTypes, Processor!Source
    <2> HIDE DEF R
    <2>3. CASE Processor!Recolored(s) /\ configured /\ Processor!Ready
        <3>1. hw' = Processor!ColorPath(R, s, format) /\ programmed' = s
            BY <1>1, <1>4, <2>3 DEF R
        <3>2. /\ Shape(hw') /\ hw'.output = hw.output /\ hw'.controls = hw.controls
              /\ hw'.adjust = hw.adjust
            BY <2>1, <3>1, PathShape, PathLeaves
        <3>3. Converted'
            BY <1>0, <2>1, <3>1, PathLast, PowerOnShape DEF Converted
        <3>4. ProcessorTypes'
            BY <1>0, <1>2, <2>2, <3>1, <3>2 DEF ProcessorTypes
        <3>5. Live => Live'
            BY <1>0, <2>2, <3>1, <3>2, <3>3 DEF Live, Adjusted, Followed
        <3> QED BY <1>0, <3>2, <3>4, <3>5
    <2>4. CASE ~(Processor!Recolored(s) /\ configured /\ Processor!Ready)
        <3>1. hw' = R /\ programmed' = programmed
            BY <1>1, <1>4, <2>4 DEF R
        <3>2. ProcessorTypes'
            BY <1>0, <1>2, <2>1, <2>2, <3>1 DEF ProcessorTypes
        <3>3. card = "on" /\ Live => Live'
            BY <1>0, <2>1, <2>2, <2>4, <3>1
               DEF Live, Adjusted, Converted, Followed, Processor!Ready, Processor!Recolored
        <3> QED BY <1>0, <2>1, <3>1, <3>2, <3>3
    <2> QED BY <2>3, <2>4
<1> QED BY <1>3, <1>4

\* The monitor reads, the source changes, and the card goes, sleeps and wakes.
LEMMA CardKeeps ==
    ASSUME ProcessorInv,
           \/ Processor!Retune \/ Processor!Sample \/ Processor!Unplug \/ Processor!Suspend
           \/ Processor!Resume \/ Processor!Cleanup
    PROVE  ProcessorInv'
<1> USE DEF ProcessorInv
<1>1. CASE Processor!Retune
    BY <1>1 DEF Processor!Retune, ProcessorTypes, Live, Adjusted, Converted, Followed
<1>2. CASE Processor!Sample
    BY <1>2 DEF Processor!Sample, ProcessorTypes, Live, Adjusted, Converted, Followed
<1>3. CASE Processor!Unplug
    BY <1>3 DEF Processor!Unplug, ProcessorTypes
<1>4. CASE Processor!Suspend
    <2>1. /\ UNCHANGED <<configured, picture, source, stream, format, seen, programmed>>
          /\ card' = "asleep" /\ sampled' = {} /\ hw' = Processor!PowerOn
          /\ fpga_sleeps' \in 0 .. MaxFpgaSleeps /\ phase' \in {"idle", "dead"}
        BY <1>4, ProcessorAssumption DEF Processor!Suspend, ProcessorTypes
    <2> QED BY <2>1, PowerOnShape DEF ProcessorTypes
<1>5. CASE Processor!Resume
    BY <1>5 DEF Processor!Resume, ProcessorTypes
<1>6. CASE Processor!Cleanup
    <2>1. Processor!SetOutput(FALSE)
        BY <1>6 DEF Processor!Cleanup
    <2>2. /\ UNCHANGED <<picture, source, stream, format, phase, seen, programmed, fpga_sleeps>>
          /\ configured' = FALSE /\ card' = "removed" /\ sampled' = {}
        BY <1>6 DEF Processor!Cleanup
    <2> QED BY <2>1, <2>2, SetOutputKeeps DEF ProcessorTypes
<1> QED BY <1>1, <1>2, <1>3, <1>4, <1>5, <1>6

\* The invariant of the processor holds at first.
LEMMA ProcessorInit == Processor!Init => ProcessorInv
<1> SUFFICES ASSUME Processor!Init PROVE ProcessorInv
    OBVIOUS
<1>1. hw = Processor!PowerOn /\ phase = "idle" /\ card = "on"
    BY DEF Processor!Init
<1>2. Shape(hw) /\ hw.output = FALSE
    BY <1>1, PowerOnShape DEF Processor!PowerOn
<1>3. picture \in [Controls -> BOOLEAN]
    BY DEF Processor!Init, Processor!Neutral
<1>4. /\ source \in Processor!Source /\ stream = source /\ seen = source
      /\ programmed = source /\ configured = FALSE /\ format \in Formats
      /\ sampled = {} /\ fpga_sleeps = 0
    BY DEF Processor!Init
<1>5. ProcessorTypes
    <2>1. fpga_sleeps \in 0 .. MaxFpgaSleeps
        BY <1>4, ProcessorAssumption
    <2>2. configured \in BOOLEAN /\ hw.output \in BOOLEAN
        BY <1>2, <1>4
    <2> QED BY <1>1, <1>2, <1>3, <1>4, <2>1, <2>2 DEF ProcessorTypes
<1> QED BY <1>1, <1>2, <1>5 DEF ProcessorInv

\* Every step of the processor keeps its invariant.
LEMMA ProcessorStep == ProcessorInv /\ [Processor!Next]_(Processor!allVars) => ProcessorInv'
<1> SUFFICES ASSUME ProcessorInv, [Processor!Next]_(Processor!allVars) PROVE ProcessorInv'
    OBVIOUS
<1>1. CASE Processor!Next
    BY <1>1, ConfigureKeeps, OutputKeeps, ControlKeeps, AdaptKeeps, CardKeeps
       DEF Processor!Next
<1>2. CASE UNCHANGED Processor!allVars
    BY <1>2 DEF Processor!allVars, Processor!vars, ProcessorInv, ProcessorTypes, Live, Adjusted,
                Converted, Followed
<1> QED BY <1>1, <1>2

\* From the moment a stream is configured to its end the registers hold the controls
\* and the path of one sample.
THEOREM ProcessorInvariant == Processor!Spec => []ProcessorInv
<1> QED BY ProcessorInit, ProcessorStep, PTL DEF Processor!Spec

\* The instance counts as the library does.
LEMMA ProcessorCardinality == \A S : Processor!Cardinality(S) = Cardinality(S)
BY DEF Processor!Cardinality, Cardinality

-----------------------------------------------------------------------------
(* The scaler                                                                *)

\* The phase table is built from entries of four lanes, of which the ones within the
\* line take a pixel each; the accumulator holds one pixel ahead.
ScalerInv ==
    /\ width \in Nat /\ entry \in Nat
    /\ IF 4 * entry < width
       THEN /\ pixel = 4 * entry
            /\ IF entry = 0 THEN accumulator = 0 /\ lane = 0
               ELSE accumulator = Scaler!One /\ lane = 3
       ELSE pixel = width
    /\ Scaler!FieldsFit /\ Scaler!PixelsPass

\* A lane passes the next pixel of the line, if there is one, and as it is.
LEMMA LaneStep ==
    ASSUME NEW s, s.acc \in {0, Scaler!One}, s.lane \in Nat, s.pixel \in Nat, width \in Nat
    PROVE  LET t == Scaler!Lane(s)
               from == IF s.acc = 0 THEN s.lane ELSE s.lane + 1 IN
           /\ t.acc = IF s.pixel < width THEN Scaler!One ELSE 0
           /\ t.lane = from
           /\ t.pixel = IF s.pixel < width THEN s.pixel + 1 ELSE s.pixel
           /\ t.field = [phase |-> 0, lane |-> from, valid |-> IF s.pixel < width THEN 1 ELSE 0]
<1> DEFINE t == Scaler!Lane(s)
<1>1. s.acc = 0 \/ s.acc = 65536
    BY DEF Scaler!One
<1>2. /\ Scaler!Rest(s) = 0 /\ Scaler!Source(s) = IF s.acc = 0 THEN s.lane ELSE s.lane + 1
      /\ (s.acc \div 1024) % 64 = 0
    <2>1. CASE s.acc = 0
        BY <2>1 DEF Scaler!One, Scaler!Whole, Scaler!Rest, Scaler!Source
    <2>2. CASE s.acc = 65536
        <3>1. 65536 \div 1024 = 64 /\ 64 % 64 = 0 /\ 65536 \div 65536 = 1
            OBVIOUS
        <3> QED BY <2>2, <3>1 DEF Scaler!One, Scaler!Whole, Scaler!Rest, Scaler!Source
    <2> QED BY <1>1, <2>1, <2>2
<1>3. 0 \div Scaler!One = 0 /\ 0 + Scaler!One = Scaler!One
    BY DEF Scaler!One
<1>4. CASE s.pixel < width
    <2>1. (Scaler!Rest(s) \div Scaler!One = 0 /\ s.pixel < width) = TRUE
        BY <1>2, <1>3, <1>4
    <2>2. t = Scaler!Taken(s, Scaler!Rest(s), Scaler!Source(s), TRUE)
        BY <2>1, Zenon DEF Scaler!Lane
    <2>3. t = [acc |-> Scaler!Rest(s) + Scaler!One, lane |-> Scaler!Source(s), pixel |-> s.pixel + 1,
               field |-> [phase |-> (s.acc \div 1024) % 64, lane |-> Scaler!Source(s), valid |-> 1]]
        BY <2>2, Zenon DEF Scaler!Taken, Scaler!Field, Scaler!Phases
    <2> HIDE DEF t
    <2> QED BY <1>2, <1>3, <1>4, <2>3 DEF t
<1>5. CASE ~(s.pixel < width)
    <2>1. t = [acc |-> Scaler!Rest(s), lane |-> Scaler!Source(s), pixel |-> s.pixel,
               field |-> [phase |-> (s.acc \div 1024) % 64, lane |-> Scaler!Source(s), valid |-> 0]]
        BY <1>5, Zenon DEF Scaler!Lane, Scaler!Taken, Scaler!Field, Scaler!Phases
    <2> QED BY <1>2, <1>3, <1>5, <2>1
<1> QED BY <1>4, <1>5

\* An entry of the table keeps the invariant.
LEMMA BuildKeeps ==
    ASSUME ScalerInv, Scaler!Build, 4 * entry < width, entry' = entry + 1, width' = width
    PROVE  ScalerInv'
<1> DEFINE s0 == Scaler!State
           s1 == Scaler!Lane(s0)
           s2 == Scaler!Lane(s1)
           s3 == Scaler!Lane(s2)
           s4 == Scaler!Lane(s3)
           first == IF entry = 0 THEN 0 ELSE 4
           field(i) == [phase |-> 0, lane |-> IF 4 * entry + i - 1 <= width THEN first + i - 1 ELSE first + (width - 4 * entry),
                        valid |-> IF 4 * entry + i - 1 < width THEN 1 ELSE 0]
<1>0. width \in Nat /\ entry \in Nat
    BY DEF ScalerInv
<1>a. 65536 # 0 /\ Scaler!One = 65536
    BY DEF Scaler!One
<1>1. /\ s0.acc \in {0, Scaler!One} /\ s0.lane \in Nat /\ s0.pixel = 4 * entry
      /\ (IF s0.acc = 0 THEN s0.lane ELSE s0.lane + 1) = first
    BY <1>0, <1>a DEF Scaler!State, ScalerInv
<1>2. /\ word' = <<s1.field, s2.field, s3.field, s4.field>> /\ accumulator' = s4.acc /\ lane' = Scaler!Wrapped(s4.lane)
      /\ pixel' = s4.pixel
    BY DEF Scaler!Build
<1> HIDE DEF s0
<1>3. /\ s1.acc = Scaler!One /\ s1.lane = first /\ s1.pixel = 4 * entry + 1
      /\ s1.field = field(1)
    BY <1>0, <1>1, LaneStep
<1> HIDE DEF s1
<1>4. /\ s2.acc = (IF 4 * entry + 1 < width THEN Scaler!One ELSE 0) /\ s2.lane = first + 1
      /\ s2.pixel = IF 4 * entry + 2 <= width THEN 4 * entry + 2 ELSE width
      /\ s2.field = field(2)
    BY <1>0, <1>3, <1>a, LaneStep
<1> HIDE DEF s2
<1>5. /\ s3.acc = (IF 4 * entry + 2 < width THEN Scaler!One ELSE 0)
      /\ s3.lane = IF 4 * entry + 2 <= width THEN first + 2 ELSE first + 1
      /\ s3.pixel = IF 4 * entry + 3 <= width THEN 4 * entry + 3 ELSE width
      /\ s3.field = field(3)
    BY <1>0, <1>4, <1>a, LaneStep
<1> HIDE DEF s3
<1>6. /\ s4.acc = (IF 4 * entry + 3 < width THEN Scaler!One ELSE 0)
      /\ 4 * entry + 3 <= width => s4.lane = first + 3
      /\ s4.lane \in Nat
      /\ s4.pixel = IF 4 * entry + 4 <= width THEN 4 * entry + 4 ELSE width
      /\ s4.field = field(4)
    BY <1>0, <1>5, <1>a, LaneStep
<1> HIDE DEF s4, field
<1>7. word' = <<field(1), field(2), field(3), field(4)>>
    BY <1>2, <1>3, <1>4, <1>5, <1>6
<1>8. DOMAIN word' = 1 .. 4 /\ \A i \in 1 .. 4 : word'[i] = field(i)
    BY <1>7
<1>9. Scaler!FieldsFit'
    <2> SUFFICES ASSUME NEW i \in 1 .. 4 PROVE field(i).phase < 64 /\ field(i).lane < 8
        BY <1>8 DEF Scaler!FieldsFit, Scaler!Phases
    <2> QED BY <1>0 DEF field
<1>10. Scaler!PixelsPass'
    <2>1. ASSUME NEW i \in 1 .. 4
          PROVE  LET n == (entry' - 1) * Scaler!PixelsPerClock + i - 1 IN
                 /\ word'[i].valid = 1 <=> n < width'
                 /\ word'[i].valid = 1 =>
                        word'[i].phase = 0 /\ word'[i].lane % Scaler!PixelsPerClock = n % Scaler!PixelsPerClock
        <3> DEFINE n == 4 * entry + i - 1
        <3>1. (entry' - 1) * Scaler!PixelsPerClock + i - 1 = n /\ n \in Nat
            BY <1>0 DEF Scaler!PixelsPerClock
        <3>2. field(i).valid = 1 <=> n < width
            BY DEF field
        <3>3. field(i).phase = 0
            BY DEF field
        <3>4. n < width => field(i).lane = first + i - 1
            BY <1>0 DEF field
        <3>5. (first + i - 1) % 4 = n % 4
            BY <1>0
        <3> QED BY <1>8, <3>1, <3>2, <3>3, <3>4, <3>5 DEF Scaler!PixelsPerClock
    <2>2. entry' >= Scaler!ActiveEntries' => pixel' = width'
        BY <1>0, <1>2, <1>6 DEF Scaler!ActiveEntries, Scaler!PixelsPerClock
    <2> QED BY <1>8, <2>1, <2>2 DEF Scaler!PixelsPass
<1>11. 4 * entry + 4 < width => accumulator' = Scaler!One /\ lane' = 3
    BY <1>0, <1>2, <1>6 DEF Scaler!Wrapped, Scaler!PixelsPerClock
<1> QED BY <1>0, <1>2, <1>6, <1>9, <1>10, <1>11 DEF ScalerInv

\* The invariant of the phase table.
THEOREM ScalerInvariant == Scaler!Spec => []ScalerInv
<1>1. Scaler!Init => ScalerInv
    BY ScalerAssumption DEF Scaler!Init, ScalerInv, Scaler!FieldsFit, Scaler!PixelsPass,
       Scaler!ActiveEntries, Scaler!PixelsPerClock
<1>2. ScalerInv /\ [Scaler!Next]_(Scaler!vars) => ScalerInv'
    <2> SUFFICES ASSUME ScalerInv, [Scaler!Next]_(Scaler!vars) PROVE ScalerInv'
        OBVIOUS
    <2>0. width \in Nat /\ entry \in Nat /\ (entry < Scaler!ActiveEntries <=> 4 * entry < width)
        BY DEF ScalerInv, Scaler!ActiveEntries, Scaler!PixelsPerClock
    <2>1. CASE Scaler!Next /\ entry < Scaler!ActiveEntries
        BY <2>0, <2>1, BuildKeeps DEF Scaler!Next
    <2>2. CASE Scaler!Next /\ ~(entry < Scaler!ActiveEntries)
        <3>1. word' = <<>> /\ UNCHANGED <<width, accumulator, lane, pixel>> /\ entry' = entry + 1
            BY <2>2 DEF Scaler!Next
        <3>2. pixel = width
            BY <2>0, <2>2 DEF ScalerInv
        <3> QED BY <2>0, <2>2, <3>1, <3>2 DEF ScalerInv, Scaler!FieldsFit, Scaler!PixelsPass
    <2>3. CASE UNCHANGED Scaler!vars
        BY <2>3 DEF Scaler!vars, ScalerInv, Scaler!FieldsFit, Scaler!PixelsPass, Scaler!ActiveEntries
    <2> QED BY <2>1, <2>2, <2>3
<1> QED BY <1>1, <1>2, PTL DEF Scaler!Spec

-----------------------------------------------------------------------------
(* What the processor delivers                                              *)

\* Frames flow for a stream only, with the controls last set, in the colors of the
\* source as it is now, with nothing left of an earlier path, and with every pixel of a
\* line, whatever its width, taken once.
THEOREM ProcessorSoundTheorem == PartsSpec => []ProcessorSound
<1>1. ProcessorInv /\ ScalerInv => ProcessorSound
    <2> SUFFICES ASSUME ProcessorInv, ScalerInv PROVE ProcessorSound
        OBVIOUS
    <2> USE DEF ProcessorInv
    <2>1. Processor!TypeOK
        <3>1. DOMAIN hw = DOMAIN Processor!PowerOn
            BY DEF ProcessorTypes, Shape, Fields, Processor!PowerOn
        <3>2. Processor!Cardinality(sampled) <= 1
            <4>1. CASE sampled = {}
                <5>1. Cardinality({}) = 0
                    BY FS_EmptySet
                <5> QED BY <4>1, <5>1, ProcessorCardinality
            <4>2. ASSUME NEW s, sampled = {s} PROVE Processor!Cardinality(sampled) <= 1
                <5>1. Cardinality({s}) = 1
                    BY FS_Singleton
                <5> QED BY <4>2, <5>1, ProcessorCardinality
            <4> QED BY <4>1, <4>2 DEF ProcessorTypes
        <3> QED BY <3>1, <3>2 DEF ProcessorTypes, Processor!TypeOK
    <2>2. Processor!OutputOwned /\ Processor!PathFresh
        BY DEF Live, Converted, Processor!OutputOwned, Processor!PathFresh, Processor!Ready
    <2>3. Processor!PictureCurrent
        <3>1. (\E c \in Controls : picture[c]) <=> picture # Processor!Neutral
            BY DEF ProcessorTypes, Processor!Neutral
        <3> QED BY <3>1 DEF Live, Adjusted, Processor!PictureCurrent, Processor!Ready
    <2>4. Processor!ColorsFollow
        <3> SUFFICES ASSUME card = "on", hw.output, seen = source,
                            stream.transport = seen.transport,
                            stream.transport = programmed.transport
                     PROVE  Processor!Effect(hw) = Processor!Effect(
                                Processor!ColorPath(Processor!PowerOn, source, format))
            BY DEF Processor!ColorsFollow, Processor!Ready
        <3>1. Live
            OBVIOUS
        <3>2. programmed.transport = source.transport /\ programmed.color = source.color
            BY <3>1 DEF Live, Followed
        <3>3. Processor!Effect(Processor!ColorPath(Processor!PowerOn, programmed, format))
                = Processor!Effect(Processor!ColorPath(Processor!PowerOn, source, format))
            BY <3>2, PathOfColors
        <3> QED BY <3>1, <3>3 DEF Live, Converted
    <2> QED BY <2>1, <2>2, <2>3, <2>4 DEF ProcessorSound, ScalerInv
<1> QED BY <1>1, ProcessorInvariant, ScalerInvariant, PTL DEF PartsSpec

-----------------------------------------------------------------------------
(* The LEDs                                                                  *)

\* The types, of threads and of data.
LedPlaces ==
    /\ led_lock \in Writers \cup {"none", "setter", "work", "pm"}
    /\ wpc \in [Writers -> {"idle", "stop", "program", "enable", "lock", "chip"}]
    /\ arg \in [Writers -> LedModes]
    /\ setter \in {"idle", "set", "queue"} /\ sees_running \in BOOLEAN
    /\ led_work \in {"idle", "lock", "write"} /\ led_pending \in BOOLEAN
    /\ led_pm \in {"probe", "up", "stop", "cancel", "unfile", "dark", "stop2", "cancel2",
                   "unregister", "gone", "asleep", "hw", "relock", "deadlock", "oops"}
    /\ going \in {"nowhere", "sleep", "remove"}
LedData ==
    /\ led_file \in BOOLEAN /\ client \in BOOLEAN /\ running \in BOOLEAN
    /\ mode \in LedModes /\ color \in LedModes /\ enable \in BOOLEAN /\ gpio9 \in BOOLEAN
    /\ pwm \in 0 .. MaxBrightness /\ shown \in 0 .. MaxBrightness
    /\ settings \in 0 .. MaxBrightness /\ failures \in 0 .. MaxLedFailures
    /\ led_sleeps \in 0 .. MaxLedSleeps

\* User threads rest: before probe, and from the freeze to the end of resume.
Rests ==
    \/ led_pm \in {"probe", "asleep", "hw", "relock", "deadlock", "oops"}
    \/ led_pm \in {"stop", "cancel"} /\ going = "sleep"
UsersRest ==
    Rests => setter = "idle" /\ \A w \in Writers : wpc[w] = "idle"
\* Nobody is there before probe; a resume is that of a suspend.
BeforeProbed == led_pm = "probe" => ~led_file /\ ~client /\ pwm = shown
Resumed == led_pm \in {"asleep", "hw", "relock", "deadlock", "oops"} => going = "sleep"

\* led->lock: who is in its sections holds it.
LedOwners ==
    /\ led_work = "write" => led_lock = "work" /\ running
    /\ led_lock = "work" => led_work = "write"
    /\ \A w \in Writers : wpc[w] = "chip" => led_lock = w
    /\ led_pm \in {"hw", "relock", "deadlock"} => led_lock = "pm"

\* running is cleared first in every stop, and set again where nobody sets a value.
RunningUp == running => led_pm \in {"up", "stop", "relock", "deadlock"}
SetterSees == setter = "queue" /\ running => sees_running

\* A brightness that is not on the chip is on its way there.
OnItsWay ==
    running /\ failures = 0 /\ shown # pwm =>
        led_pending \/ led_work \in {"lock", "write"} \/ setter = "queue"

LedInv ==
    /\ LedPlaces /\ LedData /\ UsersRest /\ BeforeProbed /\ Resumed /\ LedOwners /\ RunningUp
    /\ SetterSees /\ OnItsWay

\* The registers of the sequencer, by the place of the one writer.
Sequenced ==
    /\ \A w \in Writers :
        /\ wpc[w] \in {"program", "enable"} => ~enable
        /\ wpc[w] \in {"enable", "lock", "chip"} => color = arg[w]
        /\ wpc[w] \in {"lock", "chip"} => enable = (arg[w] # 0)
        /\ wpc[w] # "idle" => led_pm \notin {"dark", "stop2", "cancel2", "unregister", "gone"}
    /\ (\A w \in Writers : wpc[w] = "idle")
       /\ led_pm \notin {"probe", "stop2", "cancel2", "unregister", "gone"} =>
           color = mode /\ enable = (mode # 0)
    /\ led_pm \in {"dark", "stop2", "cancel2", "unregister", "gone"} => ~led_file

\* The invariant, step by step: first the writers ...
LEMMA LedWriters ==
    ASSUME LedInv, NEW w \in Writers,
           \/ Leds!Store(w) \/ Leds!StopSequencer(w) \/ Leds!Program(w) \/ Leds!Enable(w)
           \/ Leds!LockMode(w) \/ Leds!SetMode(w)
    PROVE  LedInv'
<1> USE LedAssumption DEF LedInv
<1>1. /\ UNCHANGED <<setter, sees_running, led_work, led_pending, led_pm, going, led_file, client,
                     running, gpio9, settings, failures, led_sleeps>>
      /\ wpc' = [wpc EXCEPT ![w] = wpc'[w]]
      /\ wpc'[w] \in {"idle", "stop", "program", "enable", "lock", "chip"}
      /\ arg' \in [Writers -> LedModes]
    BY DEF Leds!Store, Leds!StopSequencer, Leds!Program, Leds!Enable, Leds!LockMode,
           Leds!SetMode, Leds!setterVars, Leds!workVars, Leds!pmVars, Leds!existVars,
           Leds!dataVars, Leds!fpgaVars, Leds!boundVars, LedPlaces
<1>2. /\ mode' \in LedModes /\ color' \in LedModes /\ enable' \in BOOLEAN
      /\ (pwm' = pwm /\ shown' = shown) \/ (pwm' = 0 /\ shown' = 0)
      /\ led_lock' \in {led_lock, "none", w}
    <2>1. CASE Leds!Store(w)
        BY <2>1 DEF Leds!Store, Leds!dataVars, Leds!fpgaVars, LedData
    <2>2. CASE Leds!StopSequencer(w) \/ Leds!Program(w) \/ Leds!Enable(w)
        <3>1. arg[w] \in LedModes /\ (arg[w] # 0) \in BOOLEAN
            BY DEF LedPlaces
        <3>2. CASE Leds!StopSequencer(w)
            BY <3>2 DEF Leds!StopSequencer, Leds!dataVars, LedData
        <3>3. CASE Leds!Program(w)
            BY <3>1, <3>3 DEF Leds!Program, Leds!dataVars, LedData
        <3>4. CASE Leds!Enable(w)
            BY <3>1, <3>4 DEF Leds!Enable, Leds!dataVars, LedData
        <3> QED BY <2>2, <3>2, <3>3, <3>4
    <2>3. CASE Leds!LockMode(w)
        BY <2>3 DEF Leds!LockMode, Leds!dataVars, Leds!fpgaVars, LedData
    <2>4. CASE Leds!SetMode(w)
        BY <2>4 DEF Leds!SetMode, Leds!fpgaVars, LedPlaces, LedData
    <2> QED BY <2>1, <2>2, <2>3, <2>4
<1>3. LedPlaces' /\ LedData'
    <2>1. 0 \in 0 .. MaxBrightness
        OBVIOUS
    <2> QED BY <1>1, <1>2, <2>1 DEF LedPlaces, LedData
<1>4. ~Rests
    <2>1. wpc[w] = "idle" => led_file /\ Leds!Awake
        BY DEF Leds!Store, Leds!StopSequencer, Leds!Program, Leds!Enable, Leds!LockMode,
               Leds!SetMode
    <2> QED BY <2>1 DEF UsersRest, Rests, BeforeProbed, Resumed, Leds!Awake
<1>5. UsersRest' /\ BeforeProbed' /\ Resumed' /\ RunningUp' /\ SetterSees' /\ OnItsWay'
    BY <1>1, <1>2, <1>4 DEF UsersRest, Rests, BeforeProbed, Resumed, RunningUp, SetterSees, OnItsWay
<1>6. LedOwners'
    <2>1. CASE led_lock' = led_lock /\ wpc'[w] # "chip"
        BY <1>1, <2>1 DEF LedOwners, LedPlaces
    <2>2. CASE Leds!LockMode(w)
        BY <1>1, <2>2 DEF LedOwners, LedPlaces, Leds!LockMode
    <2>3. CASE Leds!SetMode(w)
        BY <1>1, <2>3 DEF LedOwners, LedPlaces, Leds!SetMode
    <2>4. CASE Leds!Store(w) \/ Leds!StopSequencer(w) \/ Leds!Program(w) \/ Leds!Enable(w)
        BY <2>1, <2>4 DEF LedPlaces, Leds!Store, Leds!StopSequencer, Leds!Program, Leds!Enable
    <2> QED BY <2>2, <2>3, <2>4
<1> QED BY <1>3, <1>5, <1>6

\* ... then the brightness and its work ...
LEMMA LedBrightness ==
    ASSUME LedInv,
           \/ Leds!StartSetting \/ Leds!SetBrightness \/ Leds!Queue \/ Leds!StartWork
           \/ Leds!EnterWork \/ \E fails \in BOOLEAN : Leds!Write(fails)
    PROVE  LedInv'
<1> USE LedAssumption DEF LedInv
<1>1. UNCHANGED <<wpc, arg, led_pm, going, led_file, client, running, mode, color, enable, gpio9,
                  led_sleeps>>
    BY DEF Leds!StartSetting, Leds!SetBrightness, Leds!Queue, Leds!StartWork, Leds!EnterWork,
           Leds!Write, Leds!writerVars, Leds!setterVars, Leds!pmVars, Leds!existVars,
           Leds!dataVars, Leds!fpgaVars, Leds!boundVars
<1>2. CASE Leds!StartSetting
    <2>1. /\ UNCHANGED <<led_lock, sees_running, led_work, led_pending, pwm, shown, failures>>
          /\ settings' = settings + 1 /\ settings < MaxBrightness /\ setter = "idle"
          /\ setter' = "set" /\ client /\ Leds!Awake
        BY <1>2 DEF Leds!StartSetting, Leds!workVars, Leds!dataVars
    <2>2. ~Rests
        BY <2>1 DEF Rests, BeforeProbed, Resumed, Leds!Awake
    <2>3. LedPlaces' /\ LedData'
        BY <1>1, <2>1 DEF LedPlaces, LedData
    <2> QED BY <1>1, <2>1, <2>2, <2>3
            DEF UsersRest, Rests, BeforeProbed, Resumed, LedOwners, RunningUp, SetterSees, OnItsWay
<1>3. CASE Leds!SetBrightness
    <2>1. /\ UNCHANGED <<led_lock, led_work, led_pending, shown, failures, settings>>
          /\ setter = "set" /\ setter' = "queue" /\ pwm' = settings /\ sees_running' = running
        BY <1>3 DEF Leds!SetBrightness, Leds!workVars, Leds!boundVars
    <2>2. ~Rests
        BY <2>1 DEF UsersRest
    <2>3. LedPlaces' /\ LedData'
        BY <1>1, <2>1 DEF LedPlaces, LedData
    <2> QED BY <1>1, <2>1, <2>2, <2>3
            DEF UsersRest, Rests, BeforeProbed, Resumed, LedOwners, RunningUp, SetterSees, OnItsWay
<1>4. CASE Leds!Queue
    <2>1. /\ UNCHANGED <<led_lock, sees_running, led_work, pwm, shown, settings, failures>>
          /\ setter = "queue" /\ setter' = "idle"
          /\ led_pending' = (led_pending \/ sees_running)
        BY <1>4 DEF Leds!Queue, Leds!dataVars, Leds!boundVars
    <2>2. LedPlaces' /\ LedData'
        <3>1. LedPlaces'
            BY <1>1, <2>1 DEF LedPlaces
        <3>2. LedData'
            BY <1>1, <2>1 DEF LedData
        <3> QED BY <3>1, <3>2
    <2>3. OnItsWay'
        BY <1>1, <2>1 DEF SetterSees, OnItsWay
    <2> QED BY <1>1, <2>1, <2>2, <2>3
            DEF UsersRest, Rests, BeforeProbed, Resumed, LedOwners, RunningUp, SetterSees
<1>5. CASE Leds!StartWork
    <2>1. /\ UNCHANGED <<led_lock, setter, sees_running, pwm, shown, settings, failures>>
          /\ led_work = "idle" /\ led_work' = "lock" /\ led_pending' = FALSE
        BY <1>5 DEF Leds!StartWork, Leds!setterVars, Leds!dataVars, Leds!boundVars
    <2>2. LedPlaces' /\ LedData'
        <3>1. LedPlaces'
            BY <1>1, <2>1 DEF LedPlaces
        <3>2. LedData'
            BY <1>1, <2>1 DEF LedData
        <3> QED BY <3>1, <3>2
    <2> QED BY <1>1, <2>1, <2>2
            DEF UsersRest, Rests, BeforeProbed, Resumed, LedOwners, RunningUp, SetterSees, OnItsWay
<1>6. CASE Leds!EnterWork
    <2>1. /\ UNCHANGED <<setter, sees_running, led_pending, pwm, shown, settings, failures>>
          /\ led_work = "lock" /\ led_lock = "none"
          /\ \/ running /\ led_lock' = "work" /\ led_work' = "write"
             \/ ~running /\ led_lock' = "none" /\ led_work' = "idle"
        BY <1>6 DEF Leds!EnterWork, Leds!setterVars, Leds!dataVars, Leds!boundVars
    <2>2. LedPlaces' /\ LedData'
        <3>1. LedPlaces'
            BY <1>1, <2>1 DEF LedPlaces
        <3>2. LedData'
            BY <1>1, <2>1 DEF LedData
        <3> QED BY <3>1, <3>2
    <2>3. LedOwners'
        BY <1>1, <2>1 DEF LedOwners, LedPlaces
    <2> QED BY <1>1, <2>1, <2>2, <2>3
            DEF UsersRest, Rests, BeforeProbed, Resumed, RunningUp, SetterSees, OnItsWay
<1>7. ASSUME NEW fails \in BOOLEAN, Leds!Write(fails) PROVE LedInv'
    <2>1. /\ UNCHANGED <<setter, sees_running, led_pending, pwm, settings>>
          /\ led_work = "write" /\ led_work' = "idle" /\ led_lock' = "none"
          /\ \/ failures < MaxLedFailures /\ failures' = failures + 1 /\ shown' = shown
             \/ shown' = pwm /\ failures' = failures
        BY <1>7 DEF Leds!Write, Leds!setterVars
    <2>2. LedPlaces' /\ LedData'
        <3>1. LedPlaces'
            BY <1>1, <2>1 DEF LedPlaces
        <3>2. LedData'
            BY <1>1, <2>1 DEF LedData
        <3> QED BY <3>1, <3>2
    <2>3. LedOwners'
        BY <1>1, <2>1 DEF LedOwners, LedPlaces
    <2>4. OnItsWay' /\ BeforeProbed'
        BY <1>1, <2>1 DEF OnItsWay, BeforeProbed, LedData, LedOwners, RunningUp
    <2> QED BY <1>1, <2>1, <2>2, <2>3, <2>4
            DEF UsersRest, Rests, Resumed, RunningUp, SetterSees
<1> QED BY <1>2, <1>3, <1>4, <1>5, <1>6, <1>7

\* ... then probe, suspend, resume and removal.
LEMMA LedPower ==
    ASSUME LedInv,
           \/ Leds!Probe \/ Leds!Suspend \/ Leds!Remove \/ Leds!StopRunning \/ Leds!Cancel
           \/ Leds!RemoveFile \/ Leds!Dark \/ Leds!Unregister \/ Leds!Resume
           \/ (\E fails \in BOOLEAN : Leds!SetUpChip(fails)) \/ Leds!SetModeAgain
    PROVE  LedInv'
<1> USE LedAssumption DEF LedInv
<1>1. UNCHANGED <<wpc, arg, setter, sees_running, led_work, settings>>
    BY DEF Leds!Probe, Leds!Suspend, Leds!Remove, Leds!StopRunning, Leds!Cancel, Leds!RemoveFile,
           Leds!Dark, Leds!Unregister, Leds!Resume, Leds!SetUpChip, Leds!SetModeAgain,
           Leds!writerVars, Leds!setterVars, Leds!workVars, Leds!boundVars
<1>2. CASE Leds!Probe
    <2>1. /\ UNCHANGED <<led_lock, led_pending, going, pwm, shown, failures, led_sleeps>>
          /\ led_pm = "probe" /\ led_pm' = "up" /\ led_file' = TRUE /\ client' \in BOOLEAN
          /\ gpio9' \in BOOLEAN /\ running' = client'
          /\ mode' \in LedModes /\ color' = mode' /\ enable' = (mode' # 0)
        BY <1>2 DEF Leds!Probe, Leds!workVars, Leds!boundVars, LedData
    <2>2. LedPlaces' /\ LedData'
        <3>1. LedPlaces'
            BY <1>1, <2>1 DEF LedPlaces
        <3>2. LedData'
            BY <1>1, <2>1 DEF LedData
        <3> QED BY <3>1, <3>2
    <2> QED BY <1>1, <2>1, <2>2
            DEF UsersRest, Rests, BeforeProbed, Resumed, LedOwners, RunningUp, SetterSees, OnItsWay
<1>3. CASE Leds!Suspend
    <2>1. /\ UNCHANGED <<led_lock, led_pending, led_file, client, running, mode, pwm, shown, enable,
                         color, gpio9, failures>>
          /\ led_pm = "up" /\ led_pm' = "stop" /\ going' = "sleep" /\ Leds!Frozen
          /\ led_sleeps' \in 0 .. MaxLedSleeps
        BY <1>3 DEF Leds!Suspend, Leds!workVars, Leds!existVars, Leds!dataVars, Leds!fpgaVars,
                    LedData
    <2>2. LedPlaces' /\ LedData'
        <3>1. LedPlaces'
            BY <1>1, <2>1 DEF LedPlaces
        <3>2. LedData'
            BY <1>1, <2>1 DEF LedData
        <3> QED BY <3>1, <3>2
    <2> QED BY <1>1, <2>1, <2>2
            DEF UsersRest, BeforeProbed, Resumed, LedOwners, RunningUp, SetterSees, OnItsWay,
                Leds!Frozen
<1>4. CASE Leds!Remove
    <2>1. /\ UNCHANGED <<led_lock, led_pending, led_file, client, running, mode, pwm, shown, enable,
                         color, gpio9, failures, led_sleeps>>
          /\ led_pm = "up" /\ led_pm' = "stop" /\ going' = "remove"
        BY <1>4 DEF Leds!Remove, Leds!workVars, Leds!existVars, Leds!dataVars, Leds!fpgaVars,
                    Leds!boundVars
    <2>2. LedPlaces' /\ LedData'
        <3>1. LedPlaces'
            BY <1>1, <2>1 DEF LedPlaces
        <3>2. LedData'
            BY <1>1, <2>1 DEF LedData
        <3> QED BY <3>1, <3>2
    <2> QED BY <1>1, <2>1, <2>2
            DEF UsersRest, Rests, BeforeProbed, Resumed, LedOwners, RunningUp, SetterSees, OnItsWay
<1>5. CASE Leds!StopRunning
    <2>1. /\ UNCHANGED <<led_lock, led_pending, going, led_file, client, mode, pwm, shown, enable,
                         color, gpio9, failures, led_sleeps>>
          /\ led_lock = "none" /\ running' = FALSE
          /\ \/ led_pm = "stop" /\ led_pm' = "cancel"
             \/ led_pm = "stop2" /\ led_pm' = "cancel2"
        BY <1>5 DEF Leds!StopRunning, Leds!workVars, Leds!existVars, Leds!fpgaVars,
                    Leds!boundVars
    <2>2. LedPlaces' /\ LedData'
        <3>1. LedPlaces'
            BY <1>1, <2>1 DEF LedPlaces
        <3>2. LedData'
            BY <1>1, <2>1 DEF LedData
        <3> QED BY <3>1, <3>2
    <2> QED BY <1>1, <2>1, <2>2
            DEF UsersRest, Rests, BeforeProbed, Resumed, LedOwners, RunningUp, SetterSees, OnItsWay
<1>6. CASE Leds!Cancel
    <2>1. /\ UNCHANGED <<led_lock, going, led_file, client, running, mode, pwm, shown, enable,
                         color, gpio9, failures, led_sleeps>>
          /\ led_pending' = FALSE
          /\ \/ led_pm = "cancel2" /\ led_pm' = "unregister"
             \/ led_pm = "cancel" /\ going = "sleep" /\ led_pm' = "asleep"
             \/ led_pm = "cancel" /\ going # "sleep" /\ led_pm' = "unfile"
        BY <1>6 DEF Leds!Cancel, Leds!existVars, Leds!dataVars, Leds!fpgaVars, Leds!boundVars
    <2>2. LedPlaces' /\ LedData'
        <3>1. LedPlaces'
            BY <1>1, <2>1 DEF LedPlaces
        <3>2. LedData'
            BY <1>1, <2>1 DEF LedData
        <3> QED BY <3>1, <3>2
    <2> QED BY <1>1, <2>1, <2>2
            DEF UsersRest, Rests, BeforeProbed, Resumed, LedOwners, RunningUp, SetterSees, OnItsWay
<1>7. CASE Leds!RemoveFile \/ Leds!Dark \/ Leds!Unregister
    <2>1. /\ UNCHANGED <<led_lock, led_pending, going, running, mode, pwm, shown, gpio9, failures,
                         led_sleeps>>
          /\ led_file' \in BOOLEAN /\ client' \in BOOLEAN /\ color' \in LedModes
          /\ enable' \in BOOLEAN /\ led_pm \in {"unfile", "dark", "unregister"}
          /\ led_pm' \in {"dark", "stop2", "gone"}
        BY <1>7 DEF Leds!RemoveFile, Leds!Dark, Leds!Unregister, Leds!workVars, Leds!existVars,
                    Leds!dataVars, Leds!fpgaVars, Leds!boundVars, LedData
    <2>2. LedPlaces' /\ LedData'
        <3>1. LedPlaces'
            BY <1>1, <2>1 DEF LedPlaces
        <3>2. LedData'
            BY <1>1, <2>1 DEF LedData
        <3> QED BY <3>1, <3>2
    <2> QED BY <1>1, <2>1, <2>2
            DEF UsersRest, Rests, BeforeProbed, Resumed, LedOwners, RunningUp, SetterSees, OnItsWay
<1>8. CASE Leds!Resume
    <2>1. /\ UNCHANGED <<led_pending, going, led_file, client, running, mode, pwm, shown, enable,
                         color, gpio9, failures, led_sleeps>>
          /\ led_pm = "asleep" /\ led_pm' = "hw" /\ led_lock = "none" /\ led_lock' = "pm"
        BY <1>8 DEF Leds!Resume, Leds!workVars, Leds!existVars, Leds!dataVars, Leds!fpgaVars,
                    Leds!boundVars
    <2>2. LedPlaces' /\ LedData'
        <3>1. LedPlaces'
            BY <1>1, <2>1 DEF LedPlaces
        <3>2. LedData'
            BY <1>1, <2>1 DEF LedData
        <3> QED BY <3>1, <3>2
    <2> QED BY <1>1, <2>1, <2>2
            DEF UsersRest, Rests, BeforeProbed, Resumed, LedOwners, RunningUp, SetterSees, OnItsWay
<1>9. ASSUME NEW fails \in BOOLEAN, Leds!SetUpChip(fails) PROVE LedInv'
    <2>1. /\ UNCHANGED <<led_pending, led_file, client, mode, enable, color, led_sleeps>>
          /\ led_pm = "hw" /\ gpio9' = TRUE
          /\ failures' \in 0 .. MaxLedFailures
          /\ \/ /\ led_pm' = "oops" /\ failures' = failures
                /\ UNCHANGED <<led_lock, running, pwm, shown, going>>
             \/ /\ led_pm' = "up" /\ led_lock' = "none" /\ going' = "nowhere"
                /\ UNCHANGED <<running, pwm, shown>>
             \/ /\ led_pm' = "relock" /\ running' = TRUE /\ pwm' = 0 /\ shown' = 0
                /\ UNCHANGED <<led_lock, going>>
        BY <1>9 DEF Leds!SetUpChip, Leds!workVars, Leds!existVars, Leds!fpgaVars, LedData
    <2>2. LedPlaces' /\ LedData'
        <3>1. 0 \in 0 .. MaxBrightness
            OBVIOUS
        <3>2. LedPlaces'
            BY <1>1, <2>1 DEF LedPlaces
        <3>3. LedData'
            BY <1>1, <2>1, <3>1 DEF LedData
        <3> QED BY <3>2, <3>3
    <2>3. ~running
        BY <2>1 DEF RunningUp
    <2> QED BY <1>1, <2>1, <2>2, <2>3
            DEF UsersRest, Rests, BeforeProbed, Resumed, LedOwners, RunningUp, SetterSees, OnItsWay
<1>10. CASE Leds!SetModeAgain
    <2>1. /\ UNCHANGED <<led_lock, led_pending, going, led_file, client, running, mode, pwm, shown,
                         gpio9, failures, led_sleeps>>
          /\ led_pm = "relock" /\ led_pm' = "deadlock" /\ color' = mode /\ enable' = (mode # 0)
        BY <1>10 DEF Leds!SetModeAgain, Leds!workVars, Leds!existVars, Leds!dataVars,
                     Leds!boundVars
    <2>2. LedPlaces' /\ LedData'
        <3>1. LedPlaces'
            BY <1>1, <2>1 DEF LedPlaces
        <3>2. LedData'
            BY <1>1, <2>1 DEF LedData
        <3> QED BY <3>1, <3>2
    <2> QED BY <1>1, <2>1, <2>2
            DEF UsersRest, Rests, BeforeProbed, Resumed, LedOwners, RunningUp, SetterSees, OnItsWay
<1> QED BY <1>2, <1>3, <1>4, <1>5, <1>6, <1>7, <1>8, <1>9, <1>10

\* The invariant of the LEDs holds at first.
LEMMA LedInit == Leds!Init => LedInv
<1> USE LedAssumption
<1> SUFFICES ASSUME Leds!Init PROVE LedInv
    OBVIOUS
<1>1. LedPlaces /\ LedData
    <2>1. 0 \in 0 .. MaxBrightness /\ 0 \in 0 .. MaxLedFailures /\ 0 \in 0 .. MaxLedSleeps
        OBVIOUS
    <2> QED BY <2>1 DEF Leds!Init, LedPlaces, LedData
<1> QED BY <1>1 DEF Leds!Init, LedInv, UsersRest, BeforeProbed, Resumed, LedOwners, RunningUp,
                    SetterSees, OnItsWay

\* Every step of the LEDs keeps their invariant.
LEMMA LedStep == LedInv /\ [Leds!Next]_(Leds!vars) => LedInv'
<1> SUFFICES ASSUME LedInv, [Leds!Next]_(Leds!vars) PROVE LedInv'
    OBVIOUS
<1>1. CASE Leds!Next
    BY <1>1, LedWriters, LedBrightness, LedPower DEF Leds!Next
<1>2. CASE UNCHANGED Leds!vars
    BY <1>2 DEF Leds!vars, Leds!writerVars, Leds!setterVars, Leds!workVars, Leds!pmVars,
                Leds!existVars, Leds!dataVars, Leds!fpgaVars, Leds!boundVars, LedInv, LedPlaces,
                LedData, UsersRest, Rests, BeforeProbed, Resumed, LedOwners, RunningUp, SetterSees,
                OnItsWay
<1> QED BY <1>1, <1>2

\* A brightness that is not on the chip is on its way there, and the lock has one
\* owner.
THEOREM LedInvariant == Leds!Spec => []LedInv
<1> QED BY LedInit, LedStep, PTL DEF Leds!Spec

\* With one writer every step keeps the sequencer in its mode.
LEMMA SequencedStep ==
    ASSUME OneWriter
    PROVE  LedInv /\ Sequenced /\ [Leds!Next]_(Leds!vars) => Sequenced'
<1> SUFFICES ASSUME LedInv, Sequenced, [Leds!Next]_(Leds!vars) PROVE Sequenced'
    OBVIOUS
<1> USE DEF LedInv
<1>1. ASSUME NEW w \in Writers,
             \/ Leds!Store(w) \/ Leds!StopSequencer(w) \/ Leds!Program(w) \/ Leds!Enable(w)
             \/ Leds!LockMode(w) \/ Leds!SetMode(w)
      PROVE  Sequenced'
    <2>1. \A v \in Writers : v = w
        BY DEF OneWriter
    <2>2. /\ led_pm' = led_pm /\ led_file' = led_file
          /\ wpc' = [wpc EXCEPT ![w] = wpc'[w]]
          /\ arg' = [arg EXCEPT ![w] = arg'[w]]
        BY <1>1 DEF Leds!Store, Leds!StopSequencer, Leds!Program, Leds!Enable, Leds!LockMode,
                    Leds!SetMode, Leds!pmVars, Leds!existVars, LedPlaces
    <2>3. led_pm \notin {"probe", "dark", "stop2", "cancel2", "unregister", "gone"}
        <3>1. wpc[w] = "idle" => led_file
            BY <1>1 DEF Leds!Store, Leds!StopSequencer, Leds!Program, Leds!Enable, Leds!LockMode,
                        Leds!SetMode
        <3> QED BY <3>1 DEF Sequenced, UsersRest, Rests, BeforeProbed
    <2>4. CASE Leds!Store(w)
        BY <2>1, <2>2, <2>3, <2>4 DEF Sequenced, LedPlaces, Leds!Store, Leds!dataVars,
                                       Leds!fpgaVars
    <2>5. CASE Leds!StopSequencer(w)
        BY <2>1, <2>2, <2>3, <2>5 DEF Sequenced, LedPlaces, Leds!StopSequencer
    <2>6. CASE Leds!Program(w)
        BY <2>1, <2>2, <2>3, <2>6 DEF Sequenced, LedPlaces, Leds!Program
    <2>7. CASE Leds!Enable(w)
        BY <2>1, <2>2, <2>3, <2>7 DEF Sequenced, LedPlaces, Leds!Enable
    <2>8. CASE Leds!LockMode(w)
        BY <2>1, <2>2, <2>3, <2>8 DEF Sequenced, LedPlaces, Leds!LockMode, Leds!fpgaVars
    <2>9. CASE Leds!SetMode(w)
        BY <2>1, <2>2, <2>3, <2>9 DEF Sequenced, LedPlaces, Leds!SetMode, Leds!fpgaVars
    <2> QED BY <1>1, <2>4, <2>5, <2>6, <2>7, <2>8, <2>9
<1>2. CASE \/ Leds!StartSetting \/ Leds!SetBrightness \/ Leds!Queue \/ Leds!StartWork
           \/ Leds!EnterWork \/ \E fails \in BOOLEAN : Leds!Write(fails)
    <2>1. UNCHANGED <<wpc, arg, led_pm, led_file, mode, color, enable>>
        BY <1>2 DEF Leds!StartSetting, Leds!SetBrightness, Leds!Queue, Leds!StartWork,
               Leds!EnterWork, Leds!Write, Leds!writerVars, Leds!setterVars, Leds!pmVars,
               Leds!existVars, Leds!dataVars, Leds!fpgaVars, Leds!boundVars
    <2> QED BY <2>1 DEF Sequenced
<1>3. CASE Leds!Probe
    <2>1. /\ wpc' = wpc /\ led_pm = "probe" /\ led_pm' = "up" /\ color' = mode'
          /\ enable' = (mode' # 0)
        BY <1>3 DEF Leds!Probe, Leds!writerVars
    <2> QED BY <2>1 DEF Sequenced, UsersRest, Rests
<1>4. CASE \/ Leds!Suspend \/ Leds!Remove \/ Leds!StopRunning \/ Leds!Cancel \/ Leds!Unregister
           \/ Leds!Resume \/ \E fails \in BOOLEAN : Leds!SetUpChip(fails)
    <2>1. /\ UNCHANGED <<wpc, arg, led_file, mode, color, enable>>
          /\ led_pm \in {"up", "stop", "stop2", "cancel", "cancel2", "unregister", "asleep", "hw"}
          /\ led_pm \in {"stop2", "cancel2", "unregister"}
                <=> led_pm' \in {"cancel2", "unregister", "gone"}
          /\ led_pm' \notin {"probe", "dark", "stop2"}
        BY <1>4 DEF Leds!Suspend, Leds!Remove, Leds!StopRunning, Leds!Cancel, Leds!Unregister,
               Leds!Resume, Leds!SetUpChip, Leds!writerVars, Leds!existVars, Leds!dataVars,
               Leds!fpgaVars
    <2> QED BY <2>1 DEF Sequenced
<1>5. CASE Leds!RemoveFile
    <2>1. /\ UNCHANGED <<wpc, arg, mode, color, enable>> /\ led_pm = "unfile" /\ led_pm' = "dark"
          /\ led_file' = FALSE /\ \A w \in Writers : wpc[w] = "idle"
        BY <1>5 DEF Leds!RemoveFile, Leds!writerVars, Leds!dataVars, Leds!fpgaVars
    <2> QED BY <2>1 DEF Sequenced
<1>6. CASE Leds!Dark
    <2>1. /\ UNCHANGED <<wpc, arg, led_file>> /\ led_pm = "dark" /\ led_pm' = "stop2"
          /\ enable' = FALSE
        BY <1>6 DEF Leds!Dark, Leds!writerVars, Leds!existVars
    <2> QED BY <2>1 DEF Sequenced, LedPlaces
<1>7. CASE Leds!SetModeAgain
    <2>1. /\ UNCHANGED <<wpc, arg, led_file, mode>> /\ led_pm = "relock" /\ led_pm' = "deadlock"
          /\ color' = mode /\ enable' = (mode # 0)
        BY <1>7 DEF Leds!SetModeAgain, Leds!writerVars, Leds!existVars, Leds!dataVars
    <2> QED BY <2>1 DEF Sequenced, UsersRest, Rests
<1>8. CASE UNCHANGED Leds!vars
    BY <1>8 DEF Leds!vars, Leds!writerVars, Leds!pmVars, Leds!existVars, Leds!dataVars,
                Leds!fpgaVars, Sequenced
<1> QED BY <1>1, <1>2, <1>3, <1>4, <1>5, <1>6, <1>7, <1>8 DEF Leds!Next

\* With one writer the sequencer shows the mode that is read, and is stopped while it
\* is programmed.
LEMMA SequencedThroughout == ASSUME OneWriter PROVE Leds!Spec => []Sequenced
<1>1. Leds!Init => Sequenced
    BY DEF Leds!Init, Sequenced
<1> QED BY <1>1, SequencedStep, LedInvariant, PTL DEF Leds!Spec

LedsSound ==
    /\ Leds!TypeOK /\ Leds!BrightnessDue /\ Leds!QuietWhenStopped
    /\ OneWriter => Leds!ColorIsMode /\ Leds!StoppedWhileProgrammed

\* The LEDs show what was asked for last.
LEMMA LedsThroughout == Leds!Spec => []LedsSound
<1>1. LedInv => Leds!TypeOK /\ Leds!BrightnessDue /\ Leds!QuietWhenStopped
    <2> SUFFICES ASSUME LedInv PROVE Leds!TypeOK /\ Leds!BrightnessDue /\ Leds!QuietWhenStopped
        OBVIOUS
    <2>1. Leds!TypeOK
        BY DEF LedInv, LedPlaces, LedData, Leds!TypeOK
    <2>2. Leds!BrightnessDue /\ Leds!QuietWhenStopped
        BY DEF LedInv, OnItsWay, LedOwners, RunningUp, Leds!BrightnessDue, Leds!QuietWhenStopped
    <2> QED BY <2>1, <2>2
<1>2. Sequenced => Leds!ColorIsMode /\ Leds!StoppedWhileProgrammed
    BY DEF Sequenced, Leds!ColorIsMode, Leds!StoppedWhileProgrammed
<1>3. CASE OneWriter
    <2>1. LedInv /\ Sequenced => LedsSound
        BY <1>1, <1>2 DEF LedsSound
    <2> QED BY <1>3, <2>1, LedInvariant, SequencedThroughout, PTL
<1>4. CASE ~OneWriter
    <2>1. LedInv => LedsSound
        BY <1>1, <1>4 DEF LedsSound
    <2> QED BY <2>1, LedInvariant, PTL
<1> QED BY <1>3, <1>4

-----------------------------------------------------------------------------
(* The life cycle: lists of calls                                            *)

CallSet == Driver!Calls \X Driver!Parts

\* Position of a part in the order of cleanup labels and in the order of removal.
LabelOf ==
    [p \in Driver!Parts |->
        CASE p = "video" -> 1 [] p = "audio" -> 2 [] p = "video_dma" -> 3 [] p = "dma" -> 4
          [] p = "it6805" -> 5 [] p = "hpd_pulse" -> 6 [] p = "led_mode" -> 7
          [] p = "input_edid" -> 8 [] p = "it6664" -> 9 [] p = "led" -> 10 [] p = "i2c" -> 11
          [] p = "fpga" -> 12 [] OTHER -> 13]
PlaceOf ==
    [p \in Driver!Parts |->
        CASE p = "hpd_pulse" -> 1 [] p = "led_mode" -> 2 [] p = "input_edid" -> 3
          [] p = "video" -> 4 [] p = "audio" -> 5 [] p = "video_dma" -> 6 [] p = "dma" -> 7
          [] p = "it6805" -> 8 [] p = "it6664" -> 9 [] p = "led" -> 10 [] p = "i2c" -> 11
          [] p = "fpga" -> 12 [] OTHER -> 13]

\* A function on 1 .. n is a sequence of n elements.
LEMMA FnSeq ==
    ASSUME NEW S, NEW n \in Nat, NEW f, f = [i \in 1 .. n |-> f[i]], \A i \in 1 .. n : f[i] \in S
    PROVE  f \in Seq(S) /\ Len(f) = n
<1>1. f \in [1 .. n -> S]
    OBVIOUS
<1> QED BY <1>1

\* The same call for each part, in order.
LEMMA EachSeq ==
    ASSUME NEW c \in Driver!Calls, NEW p \in Seq(Driver!Parts)
    PROVE  /\ Driver!Each(c, p) \in Seq(CallSet) /\ Len(Driver!Each(c, p)) = Len(p)
           /\ \A i \in 1 .. Len(p) : Driver!Each(c, p)[i] = <<c, p[i]>>
<1>1. DOMAIN p = 1 .. Len(p)
    OBVIOUS
<1>2. Driver!Each(c, p) \in [1 .. Len(p) -> CallSet]
    BY <1>1 DEF Driver!Each, CallSet
<1> QED BY <1>1, <1>2 DEF Driver!Each

\* List r is s, of length m, and then t, of length n.
Joined(r, s, m, t, n) ==
    /\ Len(r) = m + n
    /\ \A i \in 1 .. m : r[i] = s[i]
    /\ \A i \in 1 .. n : r[m + i] = t[i]
\* A list and then another.
LEMMA ConcatSeq ==
    ASSUME NEW S, NEW s \in Seq(S), NEW t \in Seq(S), NEW m, NEW n, Len(s) = m, Len(t) = n
    PROVE  s \o t \in Seq(S) /\ Joined(s \o t, s, m, t, n)
BY DEF Joined

\* The rest of a list, from its k-th element on.
LEMMA RestSeq ==
    ASSUME NEW S, NEW s \in Seq(S), NEW k \in 1 .. Len(s)
    PROVE  /\ SubSeq(s, k, Len(s)) \in Seq(S) /\ Len(SubSeq(s, k, Len(s))) = Len(s) - k + 1
           /\ \A i \in 1 .. Len(s) - k + 1 : SubSeq(s, k, Len(s))[i] = s[k + i - 1]
OBVIOUS

\* A list of one element.
LEMMA SingleSeq ==
    ASSUME NEW S, NEW x \in S
    PROVE  <<x>> \in Seq(S) /\ Len(<<x>>) = 1 /\ <<x>>[1] = x
OBVIOUS

\* A list of two elements.
LEMMA PairSeq ==
    ASSUME NEW S, NEW x \in S, NEW y \in S
    PROVE  <<x, y>> \in Seq(S) /\ Len(<<x, y>>) = 2 /\ <<x, y>>[1] = x /\ <<x, y>>[2] = y
<1>1. <<x, y>> = [i \in 1 .. 2 |-> <<x, y>>[i]]
    OBVIOUS
<1>2. \A i \in 1 .. 2 : <<x, y>>[i] \in S
    OBVIOUS
<1> QED BY <1>1, <1>2, FnSeq

\* Each part has one place among the cleanup labels.
LEMMA LabelsOrder ==
    /\ Driver!CleanUpOrder \in Seq(Driver!Parts) /\ Len(Driver!CleanUpOrder) = 13
    /\ \A p \in Driver!Parts : LabelOf[p] \in 1 .. 13 /\ Driver!CleanUpOrder[LabelOf[p]] = p
    /\ \A i \in 1 .. 13 : LabelOf[Driver!CleanUpOrder[i]] = i
<1>1. Driver!CleanUpOrder = [i \in 1 .. 13 |-> Driver!CleanUpOrder[i]]
    BY DEF Driver!CleanUpOrder
<1>2. \A i \in 1 .. 13 : Driver!CleanUpOrder[i] \in Driver!Parts
    BY DEF Driver!CleanUpOrder, Driver!Parts, Driver!Works, Driver!Files
<1>3. \A p \in Driver!Parts : LabelOf[p] \in 1 .. 13 /\ Driver!CleanUpOrder[LabelOf[p]] = p
    BY DEF Driver!CleanUpOrder, LabelOf, Driver!Parts, Driver!Works, Driver!Files
<1>4. \A i \in 1 .. 13 : LabelOf[Driver!CleanUpOrder[i]] = i
    BY <1>2 DEF Driver!CleanUpOrder, LabelOf, Driver!Parts, Driver!Works, Driver!Files
<1> QED BY <1>1, <1>2, <1>3, <1>4, FnSeq

\* Each part has one place in the order of removal.
LEMMA RemovalsOrder ==
    /\ Driver!RemovalOrder \in Seq(Driver!Parts) /\ Len(Driver!RemovalOrder) = 13
    /\ \A p \in Driver!Parts : PlaceOf[p] \in 1 .. 13 /\ Driver!RemovalOrder[PlaceOf[p]] = p
    /\ \A i \in 1 .. 13 : PlaceOf[Driver!RemovalOrder[i]] = i
<1>1. Driver!RemovalOrder = [i \in 1 .. 13 |-> Driver!RemovalOrder[i]]
    BY DEF Driver!RemovalOrder
<1>2. \A i \in 1 .. 13 : Driver!RemovalOrder[i] \in Driver!Parts
    BY DEF Driver!RemovalOrder, Driver!Parts, Driver!Works, Driver!Files
<1>3. \A p \in Driver!Parts : PlaceOf[p] \in 1 .. 13 /\ Driver!RemovalOrder[PlaceOf[p]] = p
    BY DEF Driver!RemovalOrder, PlaceOf, Driver!Parts, Driver!Works, Driver!Files
<1>4. \A i \in 1 .. 13 : PlaceOf[Driver!RemovalOrder[i]] = i
    BY <1>2 DEF Driver!RemovalOrder, PlaceOf, Driver!Parts, Driver!Works, Driver!Files
<1> QED BY <1>1, <1>2, <1>3, <1>4, FnSeq

\* What gc555_bridge_start does in turn.
LEMMA BridgeStartList ==
    LET s == Driver!BridgeStart IN
    /\ s \in Seq(CallSet) /\ Len(s) = 4
    /\ s[1] = <<"start", "bridge">> /\ s[2] = <<"reset", "bridge">>
    /\ s[3] = <<"ddr", "bridge">> /\ s[4] = <<"ready", "bridge">>
<1> DEFINE s == Driver!BridgeStart
<1>1. s = [i \in 1 .. 4 |-> s[i]]
    BY DEF Driver!BridgeStart
<1>2. /\ s[1] = <<"start", "bridge">> /\ s[2] = <<"reset", "bridge">>
      /\ s[3] = <<"ddr", "bridge">> /\ s[4] = <<"ready", "bridge">>
    BY DEF Driver!BridgeStart
<1> HIDE DEF s
<1>3. \A i \in 1 .. 4 : s[i] \in CallSet
    <2>1. \A c \in {"start", "reset", "ddr", "ready"} : <<c, "bridge">> \in CallSet
        BY DEF CallSet, Driver!Calls, Driver!Parts
    <2>2. \A i \in 1 .. 4 : i = 1 \/ i = 2 \/ i = 3 \/ i = 4
        OBVIOUS
    <2> QED BY <1>2, <2>1, <2>2
<1> QED BY <1>1, <1>2, <1>3, FnSeq DEF s

\* The calls of gc555_probe, one by one.
LEMMA ProbeList ==
    LET s == Driver!Probe IN
    /\ s \in Seq(CallSet) /\ Len(s) = 18
    /\ s[1] = <<"start", "bridge">> /\ s[2] = <<"reset", "bridge">>
    /\ s[3] = <<"ddr", "bridge">> /\ s[4] = <<"ready", "bridge">>
    /\ s[5] = <<"init", "fpga">> /\ s[6] = <<"link", "bridge">>
    /\ s[7] = <<"init", "i2c">> /\ s[8] = <<"init", "led">> /\ s[9] = <<"init", "it6664">>
    /\ s[10] = <<"init", "input_edid">> /\ s[11] = <<"init", "led_mode">>
    /\ s[12] = <<"init", "hpd_pulse">> /\ s[13] = <<"init", "it6805">>
    /\ s[14] = <<"init", "dma">> /\ s[15] = <<"init", "video_dma">>
    /\ s[16] = <<"init", "audio">> /\ s[17] = <<"init", "video">>
    /\ s[18] = <<"route", "bridge">>
<1> DEFINE o == Driver!InitOrder
           a == Driver!BridgeStart
           b == <<<<"init", "fpga">>, <<"link", "bridge">>>>
           c == Driver!Each("init", o)
           d == <<<<"route", "bridge">>>>
<1>1. o \in Seq(Driver!Parts) /\ Len(o) = 11
    <2>1. o = [i \in 1 .. 11 |-> o[i]]
        BY DEF Driver!InitOrder
    <2>2. \A i \in 1 .. 11 : o[i] \in Driver!Parts
        BY DEF Driver!InitOrder, Driver!Parts, Driver!Works, Driver!Files
    <2> QED BY <2>1, <2>2, FnSeq
<1>2. /\ o[1] = "i2c" /\ o[2] = "led" /\ o[3] = "it6664" /\ o[4] = "input_edid"
      /\ o[5] = "led_mode" /\ o[6] = "hpd_pulse" /\ o[7] = "it6805" /\ o[8] = "dma"
      /\ o[9] = "video_dma" /\ o[10] = "audio" /\ o[11] = "video"
    BY DEF Driver!InitOrder
<1>3. /\ "init" \in Driver!Calls /\ <<"route", "bridge">> \in CallSet
      /\ <<"init", "fpga">> \in CallSet /\ <<"link", "bridge">> \in CallSet
    BY DEF Driver!Calls, CallSet, Driver!Parts
<1>4. /\ b \in Seq(CallSet) /\ Len(b) = 2 /\ b[1] = <<"init", "fpga">>
      /\ b[2] = <<"link", "bridge">>
    BY <1>3, PairSeq
<1>5. d \in Seq(CallSet) /\ Len(d) = 1 /\ d[1] = <<"route", "bridge">>
    BY <1>3, SingleSeq
<1> HIDE DEF o
<1>6. c \in Seq(CallSet) /\ Len(c) = 11 /\ \A i \in 1 .. 11 : c[i] = <<"init", o[i]>>
    BY <1>1, <1>3, EachSeq
<1> HIDE DEF b, c, d
<1>7. a \in Seq(CallSet) /\ Len(a) = 4
    BY BridgeStartList
<1> DEFINE e == a \o b
<1> HIDE DEF a
<1>8. e \in Seq(CallSet) /\ Joined(e, a, 4, b, 2)
    BY <1>4, <1>7, ConcatSeq
<1> DEFINE f == e \o c
<1> HIDE DEF e
<1>9. f \in Seq(CallSet) /\ Joined(f, e, 6, c, 11)
    <2>1. Len(e) = 6
        BY <1>8 DEF Joined
    <2> QED BY <1>6, <1>8, <2>1, ConcatSeq
<1> DEFINE g == f \o d
<1> HIDE DEF f
<1>10. g \in Seq(CallSet) /\ Joined(g, f, 17, d, 1)
    <2>1. Len(f) = 17
        BY <1>9 DEF Joined
    <2> QED BY <1>5, <1>9, <2>1, ConcatSeq
<1> HIDE DEF g
<1>11. \A i \in 1 .. 11 : f[6 + i] = <<"init", o[i]>>
    BY <1>6, <1>9 DEF Joined
<1>12. \A i \in 1 .. 4 : f[i] = a[i]
    BY <1>8, <1>9 DEF Joined
<1>13. f[5] = b[1] /\ f[6] = b[2]
    <2>1. e[4 + 1] = b[1] /\ e[4 + 2] = b[2]
        BY <1>8 DEF Joined
    <2> QED BY <1>9, <2>1 DEF Joined
<1>14. /\ f[6 + 1] = <<"init", "i2c">> /\ f[6 + 2] = <<"init", "led">>
       /\ f[6 + 3] = <<"init", "it6664">> /\ f[6 + 4] = <<"init", "input_edid">>
       /\ f[6 + 5] = <<"init", "led_mode">> /\ f[6 + 6] = <<"init", "hpd_pulse">>
       /\ f[6 + 7] = <<"init", "it6805">> /\ f[6 + 8] = <<"init", "dma">>
       /\ f[6 + 9] = <<"init", "video_dma">> /\ f[6 + 10] = <<"init", "audio">>
       /\ f[6 + 11] = <<"init", "video">>
    BY <1>2, <1>11
<1>15. /\ f[1] = <<"start", "bridge">> /\ f[2] = <<"reset", "bridge">>
       /\ f[3] = <<"ddr", "bridge">> /\ f[4] = <<"ready", "bridge">>
       /\ f[5] = <<"init", "fpga">> /\ f[6] = <<"link", "bridge">>
    BY <1>4, <1>12, <1>13, BridgeStartList DEF a
<1>16. g[17 + 1] = <<"route", "bridge">>
    <2>1. 1 \in 1 .. 1
        OBVIOUS
    <2> QED BY <1>5, <1>10, <2>1 DEF Joined
<1>17. Driver!Probe = g
    BY DEF Driver!Probe, g, f, e, d, c, b, a, o
<1> QED BY <1>10, <1>14, <1>15, <1>16, <1>17 DEF Joined

\* Call c is still to be made; x comes before every c; the calls are of a kind.
Due(s, c) == \E i \in 1 .. Len(s) : s[i] = c
Ordered(s, X, c) == \A i \in 1 .. Len(s) : s[i] = c => \E j \in 1 .. i - 1 : s[j] \in X
Only(s, C) == \A i \in 1 .. Len(s) : s[i][1] \in C

\* What two lists joined have due, in which order, and of which kinds.
LEMMA JoinLists ==
    ASSUME NEW s \in Seq(CallSet), NEW t \in Seq(CallSet)
    PROVE  /\ s \o t \in Seq(CallSet)
           /\ \A c : Due(s \o t, c) <=> Due(s, c) \/ Due(t, c)
           /\ \A C : Only(s, C) /\ Only(t, C) => Only(s \o t, C)
           /\ \A X, c : Ordered(s, X, c) /\ (Ordered(t, X, c) \/ \E x \in X : Due(s, x))
                  => Ordered(s \o t, X, c)
<1> DEFINE r == s \o t
           m == Len(s)
           n == Len(t)
<1>1. r \in Seq(CallSet) /\ Joined(r, s, m, t, n) /\ m \in Nat /\ n \in Nat
    BY ConcatSeq
<1> HIDE DEF r, m, n
<1>2. /\ Len(r) = m + n /\ \A i \in 1 .. m : r[i] = s[i]
      /\ \A i \in m + 1 .. m + n : r[i] = t[i - m]
    <2>1. \A i \in m + 1 .. m + n : i - m \in 1 .. n /\ i = m + (i - m)
        BY <1>1
    <2> QED BY <1>1, <2>1 DEF Joined
<1>3. \A c : Due(r, c) <=> Due(s, c) \/ Due(t, c)
    <2> SUFFICES ASSUME NEW c PROVE Due(r, c) <=> Due(s, c) \/ Due(t, c)
        OBVIOUS
    <2>1. ASSUME NEW i \in 1 .. m, s[i] = c PROVE Due(r, c)
        BY <1>1, <1>2, <2>1 DEF Due
    <2>2. ASSUME NEW i \in 1 .. n, t[i] = c PROVE Due(r, c)
        <3>1. m + i \in 1 .. m + n /\ r[m + i] = c
            BY <1>1, <2>2 DEF Joined
        <3> QED BY <1>2, <3>1 DEF Due
    <2>3. ASSUME NEW i \in 1 .. m + n, r[i] = c PROVE Due(s, c) \/ Due(t, c)
        <3>1. CASE i \in 1 .. m
            BY <1>2, <2>3, <3>1 DEF Due, m
        <3>2. CASE i \in m + 1 .. m + n
            <4>1. i - m \in 1 .. n /\ t[i - m] = c
                BY <1>1, <1>2, <2>3, <3>2
            <4> QED BY <4>1 DEF Due, n
        <3> QED BY <1>1, <3>1, <3>2
    <2> QED BY <1>2, <2>1, <2>2, <2>3 DEF Due, m, n
<1>4. \A C : Only(s, C) /\ Only(t, C) => Only(r, C)
    <2> SUFFICES ASSUME NEW C, Only(s, C), Only(t, C), NEW i \in 1 .. m + n
                 PROVE  r[i][1] \in C
        BY <1>2 DEF Only
    <2>1. CASE i \in 1 .. m
        BY <1>2, <2>1 DEF Only, m
    <2>2. CASE i \in m + 1 .. m + n
        <3>1. i - m \in 1 .. n
            BY <1>1, <2>2
        <3> QED BY <1>2, <2>2, <3>1 DEF Only, n
    <2> QED BY <1>1, <2>1, <2>2
<1>5. \A X, c : Ordered(s, X, c) /\ (Ordered(t, X, c) \/ \E x \in X : Due(s, x))
                   => Ordered(r, X, c)
    <2> SUFFICES ASSUME NEW X, NEW c, Ordered(s, X, c),
                        Ordered(t, X, c) \/ \E x \in X : Due(s, x),
                        NEW i \in 1 .. m + n, r[i] = c
                 PROVE  \E j \in 1 .. i - 1 : r[j] \in X
        BY <1>2 DEF Ordered
    <2>1. CASE i \in 1 .. m
        <3>1. PICK j \in 1 .. i - 1 : s[j] \in X
            BY <1>2, <2>1 DEF Ordered, m
        <3>2. j \in 1 .. m
            BY <1>1, <2>1
        <3> QED BY <1>2, <3>1, <3>2
    <2>2. CASE i \in m + 1 .. m + n /\ Ordered(t, X, c)
        <3>1. i - m \in 1 .. n /\ t[i - m] = c
            BY <1>1, <1>2, <2>2
        <3>2. PICK j \in 1 .. (i - m) - 1 : t[j] \in X
            BY <2>2, <3>1 DEF Ordered, n
        <3>3. j \in 1 .. n /\ m + j \in 1 .. i - 1
            BY <1>1, <2>2, <3>2
        <3>4. r[m + j] = t[j]
            BY <1>1, <3>3 DEF Joined
        <3> QED BY <3>2, <3>3, <3>4
    <2>3. CASE i \in m + 1 .. m + n /\ \E x \in X : Due(s, x)
        <3>1. PICK j \in 1 .. m : s[j] \in X
            BY <2>3 DEF Due, m
        <3>2. j \in 1 .. i - 1
            BY <1>1, <2>3
        <3> QED BY <1>2, <3>1, <3>2
    <2> QED BY <1>1, <2>1, <2>2, <2>3
<1> QED BY <1>1, <1>3, <1>4, <1>5 DEF r

\* What is not due is preceded by anything.
LEMMA NotDue ==
    ASSUME NEW s, NEW c, ~Due(s, c)
    PROVE  \A X : Ordered(s, X, c)
BY DEF Due, Ordered

\* What is preceded by some calls is preceded by more.
LEMMA MoreStops ==
    ASSUME NEW s, NEW c, NEW X, NEW Y, X \subseteq Y, Ordered(s, X, c)
    PROVE  Ordered(s, Y, c)
BY DEF Ordered

\* The next call is made.
LEMMA NextCall ==
    ASSUME NEW s \in Seq(CallSet), s # <<>>
    PROVE  /\ Tail(s) \in Seq(CallSet) /\ Head(s) \in CallSet /\ Due(s, Head(s))
           /\ \A c : Due(s, c) /\ Head(s) # c => Due(Tail(s), c)
           /\ \A C : Only(s, C) => Only(Tail(s), C) /\ Head(s)[1] \in C
           /\ \A X, c : Ordered(s, X, c) => Head(s) # c
           /\ \A X, c : Ordered(s, X, c) /\ Head(s) \notin X => Ordered(Tail(s), X, c)
<1> DEFINE t == Tail(s)
           n == Len(s)
<1>1. /\ n \in Nat /\ n >= 1 /\ Len(t) = n - 1 /\ \A i \in 1 .. n - 1 : t[i] = s[i + 1]
      /\ Head(s) = s[1] /\ t \in Seq(CallSet) /\ s[1] \in CallSet
    OBVIOUS
<1> HIDE DEF t, n
<1>2. Due(s, Head(s))
    BY <1>1 DEF Due, n
<1>3. \A c : Due(s, c) /\ Head(s) # c => Due(t, c)
    <2> SUFFICES ASSUME NEW c, NEW i \in 1 .. n, s[i] = c, Head(s) # c PROVE Due(t, c)
        BY DEF Due, n
    <2>1. i - 1 \in 1 .. n - 1 /\ (i - 1) + 1 = i
        BY <1>1
    <2>2. t[i - 1] = c
        BY <1>1, <2>1
    <2> QED BY <1>1, <2>1, <2>2 DEF Due
<1>4. \A C : Only(s, C) => Only(t, C) /\ Head(s)[1] \in C
    <2> SUFFICES ASSUME NEW C, Only(s, C) PROVE Only(t, C) /\ Head(s)[1] \in C
        OBVIOUS
    <2>1. \A i \in 1 .. n - 1 : i + 1 \in 1 .. n
        BY <1>1
    <2>2. 1 \in 1 .. n
        BY <1>1
    <2> QED BY <1>1, <2>1, <2>2 DEF Only, n
<1>5. \A X, c : Ordered(s, X, c) => Head(s) # c
    <2>1. 1 \in 1 .. n /\ 1 .. 1 - 1 = {}
        BY <1>1
    <2> QED BY <1>1, <2>1 DEF Ordered, n
<1>6. \A X, c : Ordered(s, X, c) /\ Head(s) \notin X => Ordered(t, X, c)
    <2> SUFFICES ASSUME NEW X, NEW c, Ordered(s, X, c), Head(s) \notin X,
                        NEW i \in 1 .. n - 1, t[i] = c
                 PROVE  \E j \in 1 .. i - 1 : t[j] \in X
        BY <1>1 DEF Ordered
    <2>1. i + 1 \in 1 .. n /\ s[i + 1] = c
        BY <1>1
    <2>2. PICK j \in 1 .. (i + 1) - 1 : s[j] \in X
        BY <2>1 DEF Ordered, n
    <2>3. j # 1
        BY <1>1, <2>2
    <2>4. j - 1 \in 1 .. i - 1 /\ j - 1 \in 1 .. n - 1 /\ (j - 1) + 1 = j
        BY <1>1, <2>2, <2>3
    <2>5. t[j - 1] \in X
        BY <1>1, <2>2, <2>4
    <2> QED BY <2>4, <2>5
<1> QED BY <1>1, <1>2, <1>3, <1>4, <1>5, <1>6 DEF t

-----------------------------------------------------------------------------
(* The life cycle: lists that undo                                           *)

ClearMaster == <<"clear", "bridge">>
Stops(w) == {<<"suspend", w>>, <<"cleanup", w>>}
DownCalls == {"quiesce", "sync", "disconnect", "suspend", "cleanup", "clear"}

\* List s takes the parts U down: each is freed, and those that reach it have been
\* stopped or freed before.
Falls(s, U) ==
    /\ s \in Seq(CallSet) /\ Only(s, DownCalls) /\ Due(s, ClearMaster)
    /\ \A p \in U : Due(s, <<"cleanup", p>>)
    /\ \A w \in Driver!Works \cap U : \A p \in Driver!Reaches(w) :
           Ordered(s, Stops(w), <<"cleanup", p>>)
    /\ \A f \in Driver!Files \cap U : \A p \in Driver!FileReaches(f) :
           Ordered(s, {<<"cleanup", f>>}, <<"cleanup", p>>)
    /\ "dma" \in U => Ordered(s, {<<"cleanup", "dma">>}, <<"cleanup", "i2c">>)

\* List s frees the parts whose position in P is above a, up to b, in that order.
Frees(s, P, a, b) ==
    /\ s \in Seq(CallSet) /\ Only(s, {"cleanup", "clear"}) /\ Due(s, ClearMaster)
    /\ \A p \in Driver!Parts : Due(s, <<"cleanup", p>>) <=> P[p] > a /\ P[p] <= b
    /\ \A p \in Driver!Parts, w \in Driver!Parts :
           P[w] > a /\ P[w] < P[p] => Ordered(s, {<<"cleanup", w>>}, <<"cleanup", p>>)

\* Freeing the parts of a list in turn, with the position of each given by P.
LEMMA Freeing ==
    ASSUME NEW o \in Seq(Driver!Parts), NEW n \in Nat, Len(o) = n, NEW k \in Nat,
           NEW P \in [Driver!Parts -> Nat],
           \A i \in 1 .. n : P[o[i]] = k + i,
           \A p \in Driver!Parts : P[p] > k /\ P[p] <= k + n => o[P[p] - k] = p
    PROVE  Frees(Driver!Each("cleanup", o) \o <<ClearMaster>>, P, k, k + n)
<1> DEFINE e == Driver!Each("cleanup", o)
           c == <<ClearMaster>>
<1>1. "cleanup" \in Driver!Calls /\ ClearMaster \in CallSet
    BY DEF Driver!Calls, CallSet, ClearMaster, Driver!Parts
<1>2. e \in Seq(CallSet) /\ Len(e) = n /\ \A i \in 1 .. n : e[i] = <<"cleanup", o[i]>>
    BY <1>1, EachSeq
<1>3. c \in Seq(CallSet) /\ Len(c) = 1 /\ c[1] = ClearMaster
    BY <1>1, SingleSeq
<1> HIDE DEF e, c
<1>4. \A i \in 1 .. n : o[i] \in Driver!Parts
    OBVIOUS
<1>5. Only(e, {"cleanup", "clear"}) /\ Only(c, {"cleanup", "clear"})
    <2>1. \A p : <<"cleanup", p>>[1] = "cleanup"
        OBVIOUS
    <2>2. Only(e, {"cleanup", "clear"})
        <3> SUFFICES ASSUME NEW i \in 1 .. n PROVE e[i][1] \in {"cleanup", "clear"}
            BY <1>2 DEF Only
        <3>1. e[i] = <<"cleanup", o[i]>>
            BY <1>2
        <3> QED BY <2>1, <3>1
    <2>3. c[1][1] = "clear"
        <3>1. ClearMaster[1] = "clear"
            BY DEF ClearMaster
        <3> QED BY <1>3, <3>1
    <2>4. \A i \in 1 .. 1 : i = 1
        OBVIOUS
    <2> QED BY <1>3, <2>2, <2>3, <2>4 DEF Only
<1>6. Due(c, ClearMaster) /\ \A p : ~Due(c, <<"cleanup", p>>)
    <2>1. 1 \in 1 .. 1 /\ \A i \in 1 .. 1 : i = 1
        OBVIOUS
    <2>2. \A p : ClearMaster # <<"cleanup", p>>
        BY DEF ClearMaster
    <2> QED BY <1>3, <2>1, <2>2 DEF Due
<1>7. \A p \in Driver!Parts : Due(e, <<"cleanup", p>>) <=> P[p] > k /\ P[p] <= k + n
    <2> SUFFICES ASSUME NEW p \in Driver!Parts
                 PROVE  Due(e, <<"cleanup", p>>) <=> P[p] > k /\ P[p] <= k + n
        OBVIOUS
    <2>1. ASSUME NEW i \in 1 .. n, e[i] = <<"cleanup", p>> PROVE P[p] > k /\ P[p] <= k + n
        <3>1. o[i] = p
            BY <1>2, <2>1
        <3> QED BY <3>1
    <2>2. ASSUME P[p] > k, P[p] <= k + n PROVE Due(e, <<"cleanup", p>>)
        <3>1. P[p] - k \in 1 .. n
            BY <2>2
        <3> QED BY <1>2, <2>2, <3>1 DEF Due
    <2> QED BY <1>2, <2>1, <2>2 DEF Due
<1>8. ASSUME NEW p \in Driver!Parts, NEW w \in Driver!Parts, P[w] > k, P[w] < P[p]
      PROVE  Ordered(e, {<<"cleanup", w>>}, <<"cleanup", p>>)
    <2> SUFFICES ASSUME NEW i \in 1 .. n, e[i] = <<"cleanup", p>>
                 PROVE  \E j \in 1 .. i - 1 : e[j] = <<"cleanup", w>>
        BY <1>2 DEF Ordered
    <2>1. o[i] = p /\ P[p] = k + i
        BY <1>2
    <2>2. P[w] - k \in 1 .. i - 1 /\ P[w] - k \in 1 .. n /\ P[w] <= k + n
        BY <1>8, <2>1
    <2>3. o[P[w] - k] = w
        BY <1>8, <2>2
    <2> QED BY <1>2, <2>2, <2>3
<1>9. ASSUME NEW p \in Driver!Parts, NEW w \in Driver!Parts, P[w] > k, P[w] < P[p]
      PROVE  Ordered(e \o c, {<<"cleanup", w>>}, <<"cleanup", p>>)
    <2>1. Ordered(c, {<<"cleanup", w>>}, <<"cleanup", p>>)
        BY <1>6, NotDue
    <2> QED BY <1>2, <1>3, <1>8, <1>9, <2>1, JoinLists
<1>10. /\ e \o c \in Seq(CallSet) /\ Only(e \o c, {"cleanup", "clear"})
       /\ Due(e \o c, ClearMaster)
       /\ \A p \in Driver!Parts :
              Due(e \o c, <<"cleanup", p>>) <=> P[p] > k /\ P[p] <= k + n
    BY <1>2, <1>3, <1>5, <1>6, <1>7, JoinLists
<1> QED BY <1>9, <1>10 DEF e, c, Frees

\* The places are numbers.
LEMMA LabelTypes == LabelOf \in [Driver!Parts -> Nat] /\ PlaceOf \in [Driver!Parts -> Nat]
BY DEF LabelOf, PlaceOf

\* There are thirteen labels.
LEMMA PartLabels == \A p \in Driver!Parts : LabelOf[p] \in 1 .. 13
BY LabelsOrder

\* The cleanup labels from one on.
LEMMA LabelsFrom ==
    ASSUME NEW q \in Driver!Parts
    PROVE  Frees(Driver!CleanUpFrom(q), LabelOf, LabelOf[q] - 1, 13)
<1> DEFINE at == CHOOSE i \in DOMAIN Driver!CleanUpOrder : Driver!CleanUpOrder[i] = q
           o == SubSeq(Driver!CleanUpOrder, at, Len(Driver!CleanUpOrder))
           n == 14 - LabelOf[q]
           k == LabelOf[q] - 1
<1>1. DOMAIN Driver!CleanUpOrder = 1 .. 13
    BY LabelsOrder
<1>2. at = LabelOf[q]
    <2>1. \A i \in 1 .. 13 : Driver!CleanUpOrder[i] = q <=> i = LabelOf[q]
        BY LabelsOrder
    <2> QED BY <1>1, <2>1, LabelsOrder
<1>3. Driver!CleanUpFrom(q) = Driver!Each("cleanup", o) \o <<ClearMaster>>
    BY DEF Driver!CleanUpFrom, ClearMaster
<1> HIDE DEF at
<1>4. at \in 1 .. 13 /\ at + n = 14 /\ k = at - 1 /\ n \in Nat /\ k \in Nat /\ k + n = 13
    BY <1>2, PartLabels
<1>5. /\ o \in Seq(Driver!Parts) /\ Len(o) = n
      /\ \A i \in 1 .. n : o[i] = Driver!CleanUpOrder[k + i]
    <2> DEFINE c == Driver!CleanUpOrder
    <2>1. c \in Seq(Driver!Parts) /\ Len(c) = 13
        BY LabelsOrder
    <2> HIDE DEF c, n, k
    <2>2. /\ o \in Seq(Driver!Parts) /\ Len(o) = 13 - at + 1
          /\ \A i \in 1 .. 13 - at + 1 : o[i] = c[at + i - 1]
        <3>1. at \in 1 .. Len(c)
            BY <1>4, <2>1
        <3>2. /\ SubSeq(c, at, Len(c)) \in Seq(Driver!Parts)
              /\ Len(SubSeq(c, at, Len(c))) = Len(c) - at + 1
              /\ \A i \in 1 .. Len(c) - at + 1 : SubSeq(c, at, Len(c))[i] = c[at + i - 1]
            BY <2>1, <3>1, RestSeq
        <3>3. o = SubSeq(c, at, Len(c))
            BY DEF c
        <3> HIDE DEF o
        <3> QED BY <2>1, <3>2, <3>3
    <2>3. 13 - at + 1 = n /\ \A i \in 1 .. n : at + i - 1 = k + i
        BY <1>4
    <2> QED BY <2>2, <2>3 DEF c
<1>6. LabelOf[q] - 1 = k
    OBVIOUS
<1> HIDE DEF o, n, k
<1>7. \A i \in 1 .. n : LabelOf[o[i]] = k + i
    <2>1. \A i \in 1 .. n : k + i \in 1 .. 13
        BY <1>4
    <2> QED BY <1>5, <2>1, LabelsOrder
<1>8. \A p \in Driver!Parts : LabelOf[p] > k /\ LabelOf[p] <= k + n => o[LabelOf[p] - k] = p
    <2> SUFFICES ASSUME NEW p \in Driver!Parts, LabelOf[p] > k, LabelOf[p] <= k + n
                 PROVE  o[LabelOf[p] - k] = p
        OBVIOUS
    <2>1. LabelOf[p] - k \in 1 .. n /\ k + (LabelOf[p] - k) = LabelOf[p]
        BY <1>4, PartLabels
    <2> QED BY <1>5, <2>1, LabelsOrder
<1>9. Frees(Driver!Each("cleanup", o) \o <<ClearMaster>>, LabelOf, k, k + n)
    BY <1>4, <1>5, <1>7, <1>8, LabelTypes, Freeing
<1> QED BY <1>3, <1>4, <1>6, <1>9

\* A list that stops, and then one that frees in an order in which what reaches a part
\* comes before it, or has been stopped, take the parts down.
LEMMA FreeingFalls ==
    ASSUME NEW P \in [Driver!Parts -> Nat], NEW a \in Nat, NEW b \in Nat,
           NEW t, Frees(t, P, a, b), NEW s \in Seq(CallSet),
           Only(s, {"quiesce", "disconnect", "sync", "suspend"}),
           NEW U, U \subseteq Driver!Parts, \A p \in U : P[p] > a /\ P[p] <= b,
           \A w \in Driver!Works : \A p \in Driver!Reaches(w) :
               P[w] < P[p] \/ P[p] <= a \/ Due(s, <<"suspend", w>>),
           \A f \in Driver!Files : \A p \in Driver!FileReaches(f) : P[f] < P[p],
           P["dma"] < P["i2c"]
    PROVE  Falls(s \o t, U)
<1> DEFINE r == s \o t
<1>1. /\ t \in Seq(CallSet) /\ Only(t, {"cleanup", "clear"}) /\ Due(t, ClearMaster)
      /\ \A p \in Driver!Parts : Due(t, <<"cleanup", p>>) <=> P[p] > a /\ P[p] <= b
      /\ \A p \in Driver!Parts, w \in Driver!Parts :
             P[w] > a /\ P[w] < P[p] => Ordered(t, {<<"cleanup", w>>}, <<"cleanup", p>>)
    BY DEF Frees
<1>2. /\ r \in Seq(CallSet)
      /\ \A c : Due(r, c) <=> Due(s, c) \/ Due(t, c)
      /\ \A C : Only(s, C) /\ Only(t, C) => Only(r, C)
      /\ \A X, c : Ordered(s, X, c) /\ (Ordered(t, X, c) \/ \E x \in X : Due(s, x))
             => Ordered(r, X, c)
    BY <1>1, JoinLists
<1> HIDE DEF r
<1>3. \A p : ~Due(s, <<"cleanup", p>>)
    BY DEF Only, Due
<1>4. Only(s, DownCalls) /\ Only(t, DownCalls)
    BY <1>1 DEF Only, DownCalls
<1>5. ASSUME NEW p \in Driver!Parts, NEW w \in U, P[w] < P[p]
      PROVE  Ordered(r, {<<"cleanup", w>>}, <<"cleanup", p>>)
    BY <1>1, <1>2, <1>3, <1>5, NotDue
<1>6. ASSUME NEW w \in Driver!Works \cap U, NEW p \in Driver!Reaches(w)
      PROVE  Ordered(r, Stops(w), <<"cleanup", p>>)
    <2>1. p \in Driver!Parts /\ w \in Driver!Parts
        BY DEF Driver!Reaches, Driver!Works, Driver!Parts, Driver!Files
    <2>2. {<<"cleanup", w>>} \subseteq Stops(w) /\ <<"suspend", w>> \in Stops(w)
        BY DEF Stops
    <2>3. CASE P[w] < P[p]
        BY <1>5, <2>1, <2>2, <2>3, MoreStops
    <2>4. CASE P[p] <= a
        <3>1. ~(P[p] > a)
            BY <2>1, <2>4
        <3>2. ~Due(t, <<"cleanup", p>>)
            BY <1>1, <2>1, <3>1
        <3> QED BY <1>2, <1>3, <3>2, NotDue
    <2>5. CASE Due(s, <<"suspend", w>>)
        BY <1>2, <1>3, <2>2, <2>5, NotDue
    <2> QED BY <2>3, <2>4, <2>5
<1>7. ASSUME NEW f \in Driver!Files \cap U, NEW p \in Driver!FileReaches(f)
      PROVE  Ordered(r, {<<"cleanup", f>>}, <<"cleanup", p>>)
    <2>1. p \in Driver!Parts
        BY DEF Driver!FileReaches, Driver!Works, Driver!Parts, Driver!Files
    <2> QED BY <1>5, <2>1
<1>8. "dma" \in U => Ordered(r, {<<"cleanup", "dma">>}, <<"cleanup", "i2c">>)
    <2>1. "i2c" \in Driver!Parts
        BY DEF Driver!Parts
    <2> QED BY <1>5, <2>1
<1>9. Only(r, DownCalls) /\ Due(r, ClearMaster) /\ \A p \in U : Due(r, <<"cleanup", p>>)
    BY <1>1, <1>2, <1>4
<1>10. Falls(r, U)
    BY <1>2, <1>6, <1>7, <1>8, <1>9 DEF Falls
<1> QED BY <1>10 DEF r

\* Quiescing masks the interrupt first.
LEMMA QuiescedList ==
    /\ Driver!Quiesced \in Seq(CallSet) /\ Driver!Quiesced # <<>>
    /\ Only(Driver!Quiesced, {"quiesce", "sync"}) /\ Head(Driver!Quiesced)[1] = "quiesce"
<1> DEFINE x == <<"quiesce", "bridge">>
           y == <<"sync", "dma">>
           s == <<x, y>>
<1>1. x \in CallSet /\ y \in CallSet /\ x[1] = "quiesce" /\ y[1] = "sync"
    BY DEF CallSet, Driver!Calls, Driver!Parts
<1> HIDE DEF x, y
<1>2. s \in Seq(CallSet) /\ Len(s) = 2 /\ s[1] = x /\ s[2] = y
    BY <1>1, PairSeq
<1>3. Driver!Quiesced = s
    BY DEF Driver!Quiesced, x, y
<1> HIDE DEF s
<1>4. s # <<>> /\ Head(s) = x
    <2>1. s # <<>>
        <3>1. Len(s) = 2
            BY <1>2
        <3> QED BY <3>1
    <2>2. \A q \in Seq(CallSet) : Head(q) = q[1]
        OBVIOUS
    <2> QED BY <1>2, <2>1, <2>2
<1>5. \A i \in 1 .. 2 : s[i] = x \/ s[i] = y
    <2>1. \A i \in 1 .. 2 : i = 1 \/ i = 2
        OBVIOUS
    <2> QED BY <1>2, <2>1
<1> QED BY <1>1, <1>2, <1>3, <1>4, <1>5 DEF Only

\* A list of suspends.
LEMMA SuspendedList ==
    ASSUME NEW p \in Seq(Driver!Parts)
    PROVE  /\ Driver!Suspended(p) \in Seq(CallSet) /\ Only(Driver!Suspended(p), {"suspend"})
           /\ \A i \in 1 .. Len(p) : Due(Driver!Suspended(p), <<"suspend", p[i]>>)
<1> DEFINE e == Driver!Each("suspend", p)
<1>1. "suspend" \in Driver!Calls
    BY DEF Driver!Calls
<1>2. e \in Seq(CallSet) /\ Len(e) = Len(p) /\ \A i \in 1 .. Len(p) : e[i] = <<"suspend", p[i]>>
    BY <1>1, EachSeq
<1>3. Driver!Suspended(p) = e
    BY DEF Driver!Suspended
<1> HIDE DEF e
<1>4. \A i \in 1 .. Len(p) : e[i][1] = "suspend"
    BY <1>2
<1> QED BY <1>2, <1>3, <1>4 DEF Only, Due

\* Two lists joined start as the first does.
LEMMA HeadOfJoin ==
    ASSUME NEW s \in Seq(CallSet), NEW t \in Seq(CallSet), s # <<>>
    PROVE  s \o t # <<>> /\ Head(s \o t) = Head(s)
<1> DEFINE r == s \o t
           m == Len(s)
           n == Len(t)
<1>1. r \in Seq(CallSet) /\ Joined(r, s, m, t, n) /\ m \in Nat /\ n \in Nat /\ m # 0
    BY ConcatSeq
<1>2. Head(s) = s[1]
    OBVIOUS
<1> HIDE DEF r, m, n
<1>3. 1 \in 1 .. m /\ Len(r) # 0 /\ Len(r) = m + n /\ r[1] = s[1]
    BY <1>1 DEF Joined
<1>4. r # <<>> /\ Head(r) = r[1]
    BY <1>1, <1>3
<1> QED BY <1>2, <1>3, <1>4 DEF r

\* Lists of parts to suspend.
LEMMA PartLists ==
    /\ <<"it6805">> \in Seq(Driver!Parts) /\ Len(<<"it6805">>) = 1
    /\ <<"led">> \in Seq(Driver!Parts)
    /\ <<"it6664", "led">> \in Seq(Driver!Parts) /\ Len(<<"it6664", "led">>) = 2
    /\ <<"it6805", "it6664", "led">> \in Seq(Driver!Parts)
    /\ Len(<<"it6805", "it6664", "led">>) = 3
    /\ <<"video", "audio", "it6805", "it6664", "led">> \in Seq(Driver!Parts)
    /\ Len(<<"video", "audio", "it6805", "it6664", "led">>) = 5
<1> DEFINE s == <<"it6805", "it6664", "led">>
           t == <<"video", "audio", "it6805", "it6664", "led">>
<1>1. /\ "it6805" \in Driver!Parts /\ "it6664" \in Driver!Parts /\ "led" \in Driver!Parts
      /\ "video" \in Driver!Parts /\ "audio" \in Driver!Parts
    BY DEF Driver!Parts, Driver!Works
<1>2. s = [i \in 1 .. 3 |-> s[i]] /\ t = [i \in 1 .. 5 |-> t[i]]
    OBVIOUS
<1>3. \A i \in 1 .. 3 : s[i] \in Driver!Parts
    BY <1>1
<1>4. \A i \in 1 .. 5 : t[i] \in Driver!Parts
    BY <1>1
<1> HIDE DEF s, t
<1>5. s \in Seq(Driver!Parts) /\ Len(s) = 3
    BY <1>2, <1>3, FnSeq
<1>6. t \in Seq(Driver!Parts) /\ Len(t) = 5
    BY <1>2, <1>4, FnSeq
<1> QED BY <1>1, <1>5, <1>6, SingleSeq, PairSeq DEF s, t

\* From the label of q on, the parts whose labels follow are taken down, if the receiver
\* is suspended before the audio device goes.
LEMMA UnwindFalls ==
    ASSUME NEW q \in Driver!Parts, NEW U, U \subseteq Driver!Parts,
           \A p \in U : LabelOf[p] >= LabelOf[q],
           NEW s \in Seq(CallSet), Only(s, {"quiesce", "disconnect", "sync", "suspend"}),
           LabelOf[q] > 2 \/ Due(s, <<"suspend", "it6805">>)
    PROVE  Falls(s \o Driver!CleanUpFrom(q), U)
<1> DEFINE a == LabelOf[q] - 1
<1>1. LabelOf[q] \in 1 .. 13 /\ LabelOf \in [Driver!Parts -> Nat]
    BY PartLabels, LabelTypes
<1>2. a \in Nat /\ LabelOf[q] = a + 1
    BY <1>1
<1> HIDE DEF a
<1>3. \A p \in U : LabelOf[p] > a /\ LabelOf[p] <= 13
    BY <1>2, PartLabels
<1>4. Frees(Driver!CleanUpFrom(q), LabelOf, a, 13)
    BY LabelsFrom DEF a
<1>5. \A w \in Driver!Works : \A p \in Driver!Reaches(w) :
          LabelOf[w] < LabelOf[p] \/ (w = "it6805" /\ p = "audio")
    BY DEF LabelOf, Driver!Reaches, Driver!Works, Driver!Parts, Driver!Files
<1>6. LabelOf["audio"] = 2 /\ LabelOf["dma"] < LabelOf["i2c"]
    BY DEF LabelOf, Driver!Works, Driver!Parts, Driver!Files
<1>7. \A w \in Driver!Works : \A p \in Driver!Reaches(w) :
          LabelOf[w] < LabelOf[p] \/ LabelOf[p] <= a \/ Due(s, <<"suspend", w>>)
    <2>1. LabelOf[q] > 2 => LabelOf["audio"] <= a
        BY <1>1, <1>2, <1>6
    <2> QED BY <1>5, <2>1
<1>8. \A f \in Driver!Files : \A p \in Driver!FileReaches(f) : LabelOf[f] < LabelOf[p]
    BY DEF LabelOf, Driver!FileReaches, Driver!Works, Driver!Parts, Driver!Files
<1> QED BY <1>1, <1>2, <1>3, <1>4, <1>6, <1>7, <1>8, FreeingFalls

\* Removal takes down everything, and masks the interrupt first.
LEMMA RemovalFalls ==
    ASSUME NEW accessible \in BOOLEAN
    PROVE  /\ Falls(Driver!Removal(accessible), Driver!Parts)
           /\ Driver!Removal(accessible) # <<>>
           /\ Head(Driver!Removal(accessible))[1] \in {"quiesce", "disconnect"}
<1> DEFINE b == <<<<"disconnect", "bridge">>, <<"sync", "dma">>>>
           m == IF accessible THEN Driver!Quiesced ELSE b
           l == <<"it6805", "it6664", "led">>
           n == Driver!Suspended(l)
           s == m \o n
           t == Driver!Each("cleanup", Driver!RemovalOrder) \o <<ClearMaster>>
           C == {"quiesce", "disconnect", "sync", "suspend"}
<1>1. b \in Seq(CallSet) /\ b # <<>> /\ Only(b, C) /\ Head(b)[1] = "disconnect"
    <2> DEFINE x == <<"disconnect", "bridge">>
               y == <<"sync", "dma">>
    <2>1. x \in CallSet /\ y \in CallSet /\ x[1] = "disconnect" /\ y[1] = "sync"
        BY DEF CallSet, Driver!Calls, Driver!Parts
    <2>2. b = <<x, y>>
        OBVIOUS
    <2> HIDE DEF x, y, b
    <2>3. b \in Seq(CallSet) /\ Len(b) = 2 /\ b[1] = x /\ b[2] = y
        BY <2>1, <2>2, PairSeq
    <2>4. b # <<>> /\ \A q \in Seq(CallSet) : Head(q) = q[1]
        <3>1. Len(b) = 2
            BY <2>3
        <3>2. b # <<>>
            BY <3>1
        <3>3. \A q \in Seq(CallSet) : Head(q) = q[1]
            OBVIOUS
        <3> QED BY <3>2, <3>3
    <2>5. \A i \in 1 .. 2 : b[i][1] \in C
        <3>1. \A i \in 1 .. 2 : i = 1 \/ i = 2
            OBVIOUS
        <3> QED BY <2>1, <2>3, <3>1
    <2> QED BY <2>1, <2>3, <2>4, <2>5 DEF Only
<1> HIDE DEF b
<1>2. /\ m \in Seq(CallSet) /\ m # <<>> /\ Only(m, C)
      /\ Head(m)[1] \in {"quiesce", "disconnect"}
    BY <1>1, QuiescedList DEF Only
<1> HIDE DEF m
<1>3. n \in Seq(CallSet) /\ Only(n, C) /\ Due(n, <<"suspend", "it6805">>)
    <2>1. l \in Seq(Driver!Parts) /\ Len(l) = 3 /\ l[1] = "it6805"
        BY PartLists
    <2> HIDE DEF l
    <2>2. 1 \in 1 .. Len(l)
        BY <2>1
    <2>3. /\ n \in Seq(CallSet) /\ Only(n, {"suspend"})
          /\ \A i \in 1 .. Len(l) : Due(n, <<"suspend", l[i]>>)
        BY <2>1, SuspendedList
    <2> QED BY <2>1, <2>2, <2>3 DEF Only
<1> HIDE DEF n
<1>4. /\ s \in Seq(CallSet) /\ s # <<>> /\ Head(s) = Head(m)
      /\ Only(s, C) /\ Due(s, <<"suspend", "it6805">>)
    BY <1>2, <1>3, JoinLists, HeadOfJoin
<1>5. Frees(t, PlaceOf, 0, 13)
    <2> DEFINE o == Driver!RemovalOrder
    <2>1. o \in Seq(Driver!Parts) /\ Len(o) = 13 /\ PlaceOf \in [Driver!Parts -> Nat]
        BY RemovalsOrder, LabelTypes
    <2>2. /\ \A p \in Driver!Parts : PlaceOf[p] \in 1 .. 13 /\ o[PlaceOf[p]] = p
          /\ \A i \in 1 .. 13 : PlaceOf[o[i]] = i
        BY RemovalsOrder
    <2> HIDE DEF o
    <2>3. \A i \in 1 .. 13 : PlaceOf[o[i]] = 0 + i
        BY <2>2
    <2>4. \A p \in Driver!Parts : PlaceOf[p] > 0 /\ PlaceOf[p] <= 0 + 13
              => o[PlaceOf[p] - 0] = p
        <3>1. \A p \in Driver!Parts : PlaceOf[p] - 0 = PlaceOf[p]
            BY <2>2
        <3> QED BY <2>2, <3>1
    <2>5. Frees(Driver!Each("cleanup", o) \o <<ClearMaster>>, PlaceOf, 0, 0 + 13)
        BY <2>1, <2>3, <2>4, Freeing
    <2> QED BY <2>5 DEF o
<1>6. Driver!Removal(accessible) = s \o t
    BY DEF Driver!Removal, ClearMaster, m, n, b
<1> HIDE DEF s, t, C
<1>7. /\ \A p \in Driver!Parts : PlaceOf[p] > 0 /\ PlaceOf[p] <= 13
      /\ PlaceOf \in [Driver!Parts -> Nat]
    <2>1. \A p \in Driver!Parts : PlaceOf[p] \in 1 .. 13
        BY RemovalsOrder
    <2> QED BY <2>1, LabelTypes
<1>8. \A w \in Driver!Works : \A p \in Driver!Reaches(w) :
          PlaceOf[w] < PlaceOf[p] \/ w = "it6805"
    BY DEF PlaceOf, Driver!Reaches, Driver!Works, Driver!Parts, Driver!Files
<1>9. /\ \A f \in Driver!Files : \A p \in Driver!FileReaches(f) : PlaceOf[f] < PlaceOf[p]
      /\ PlaceOf["dma"] < PlaceOf["i2c"]
    BY DEF PlaceOf, Driver!FileReaches, Driver!Works, Driver!Parts, Driver!Files
<1>10. Falls(s \o t, Driver!Parts)
    BY <1>4, <1>5, <1>7, <1>8, <1>9, FreeingFalls DEF C
<1>11. s \o t # <<>> /\ Head(s \o t) = Head(s)
    BY <1>4, <1>5, HeadOfJoin DEF Frees
<1> QED BY <1>2, <1>4, <1>6, <1>10, <1>11

-----------------------------------------------------------------------------
(* The life cycle: what holds at each point of probe, suspend, resume and    *)
(* removal                                                                   *)

LifeTypes ==
    /\ pm \in {"new", "probing", "unwinding", "live", "removing", "removed", "failed",
               "suspending", "asleep", "resuming", "relapsing", "lame"}
    /\ todo \in Seq(CallSet) /\ up \subseteq Driver!Parts
    /\ work \in [Driver!Works -> {"off", "queued", "running"}]
    /\ uses \in [Driver!Works -> SUBSET Driver!Parts]
    /\ file \in [Driver!Files -> BOOLEAN]
    /\ file_uses \in [Driver!Files -> SUBSET Driver!Parts]
    /\ driver_irq \in BOOLEAN /\ irq_uses \subseteq Driver!Parts
    /\ callback \in BOOLEAN /\ driver_ready \in BOOLEAN /\ routing \in BOOLEAN
    /\ regs \in BOOLEAN /\ master \in BOOLEAN /\ present \in BOOLEAN
    /\ sleeps \in 0 .. MaxSuspends

\* A work, a user of a file and the handler run for a part that is up, and hold
\* what they reach and nothing else, while they run and not after.
Holders ==
    /\ \A w \in Driver!Works : work[w] # "off" => w \in up
    /\ \A w \in Driver!Works :
           uses[w] \subseteq (IF work[w] = "running" THEN Driver!Reaches(w) ELSE {})
    /\ \A f \in Driver!Files : file[f] => f \in up
    /\ \A f \in Driver!Files :
           file_uses[f] \subseteq (IF file[f] THEN Driver!FileReaches(f) ELSE {})
    /\ driver_irq => "dma" \in up
    /\ irq_uses \subseteq (IF driver_irq THEN {"dma", "i2c", "video_dma"} ELSE {})
    /\ callback => "video_dma" \in up
    /\ driver_ready => "bridge" \in up

\* The k-th call of list s, of n calls, is the next one.
At(s, n, k) ==
    /\ k \in 1 .. n + 1 /\ Len(todo) = n + 1 - k
    /\ \A i \in 1 .. n + 1 - k : todo[i] = s[k + i - 1]

\* The call of probe that brings a part up, and the one of resume that queues a work.
ProbeOf ==
    [p \in Driver!Parts |->
        CASE p = "bridge" -> 4 [] p = "fpga" -> 5 [] p = "i2c" -> 7 [] p = "led" -> 8
          [] p = "it6664" -> 9 [] p = "input_edid" -> 10 [] p = "led_mode" -> 11
          [] p = "hpd_pulse" -> 12 [] p = "it6805" -> 13 [] p = "dma" -> 14
          [] p = "video_dma" -> 15 [] p = "audio" -> 16 [] OTHER -> 17]
ResumeOf ==
    [w \in Driver!Works |-> CASE w = "it6664" -> 7 [] w = "it6805" -> 8 [] OTHER -> 10]

\* The parts before the next call of probe are up, but for the lights, and no others.
ProbeAt(k) ==
    /\ At(Driver!Probe, 18, k)
    /\ \A p \in up : ProbeOf[p] < k
    /\ \A p \in Driver!Parts \ {"led"} : ProbeOf[p] < k => p \in up
    /\ "video_dma" \in up => callback
    /\ routing => k = 19

\* No work runs that has not been resumed, no interrupt comes before the last call.
ResumeAt(k) ==
    /\ At(Driver!ResumeCalls, 11, k)
    /\ \A w \in Driver!Works : work[w] # "off" => ResumeOf[w] < k
    /\ driver_ready => k > 4
    /\ routing => k = 12

SleepCalls == {"quiesce", "sync", "suspend", "stop"}

\* The calls still to be made stop the works and the interrupt.
Stopping ==
    /\ Only(todo, SleepCalls)
    /\ \A w \in Driver!Works : work[w] # "off" => Due(todo, <<"suspend", w>>)
    /\ driver_ready => todo # <<>> /\ Head(todo)[1] = "quiesce"

\* The calls still to be made free what is up, what reaches a part before the part.
Falling ==
    /\ Only(todo, DownCalls)
    /\ master => Due(todo, ClearMaster)
    /\ \A p \in up : Due(todo, <<"cleanup", p>>)
    /\ \A w \in Driver!Works : work[w] # "off" =>
           \A p \in Driver!Reaches(w) : Ordered(todo, Stops(w), <<"cleanup", p>>)
    /\ \A f \in Driver!Files \cap up : \A p \in Driver!FileReaches(f) :
           Ordered(todo, {<<"cleanup", f>>}, <<"cleanup", p>>)
    /\ "dma" \in up => Ordered(todo, {<<"cleanup", "dma">>}, <<"cleanup", "i2c">>)
    /\ routing => /\ pm = "removing" /\ todo # <<>>
                  /\ Head(todo)[1] \in {"quiesce", "disconnect"}

Stages ==
    /\ pm \in {"new", "live", "lame", "asleep", "failed", "removed"} => todo = <<>>
    /\ pm \in {"new", "failed", "removed"} => up = {}
    /\ pm \in {"failed", "removed"} => ~master
    /\ pm \in {"live", "lame", "suspending", "asleep", "resuming", "relapsing"} =>
           Driver!Parts \ {"led"} \subseteq up /\ callback
    /\ pm \in {"asleep", "lame"} =>
           ~routing /\ ~driver_ready /\ \A w \in Driver!Works : work[w] = "off"
    /\ pm = "probing" => \E k \in 1 .. 19 : ProbeAt(k)
    /\ pm = "resuming" => \E k \in 1 .. 12 : ResumeAt(k)
    /\ pm \in {"suspending", "relapsing"} => Stopping
    /\ pm \in {"removing", "unwinding"} => Falling

LifeBase == LifeTypes /\ Holders /\ Driver!CalleesAlive /\ Driver!RoutedLast
LifeInv == LifeBase /\ Stages

-----------------------------------------------------------------------------
(* The lists of resume, suspend and of what probe and resume undo            *)

\* The calls of gc555_resume, one by one.
LEMMA ResumeList ==
    LET s == Driver!ResumeCalls IN
    /\ s \in Seq(CallSet) /\ Len(s) = 11
    /\ s[1] = <<"start", "bridge">> /\ s[2] = <<"reset", "bridge">>
    /\ s[3] = <<"ddr", "bridge">> /\ s[4] = <<"ready", "bridge">>
    /\ s[5] = <<"link", "bridge">> /\ s[6] = <<"resume", "led">>
    /\ s[7] = <<"resume", "it6664">> /\ s[8] = <<"resume", "it6805">>
    /\ s[9] = <<"resume", "audio">> /\ s[10] = <<"resume", "video">>
    /\ s[11] = <<"route", "bridge">>
<1> DEFINE o == Driver!ResumeOrder
           a == Driver!BridgeStart
           b == <<<<"link", "bridge">>>>
           c == Driver!Each("resume", o)
           d == <<<<"route", "bridge">>>>
<1>1. o \in Seq(Driver!Parts) /\ Len(o) = 5
    <2>1. o = [i \in 1 .. 5 |-> o[i]]
        BY DEF Driver!ResumeOrder
    <2>2. \A i \in 1 .. 5 : o[i] \in Driver!Parts
        BY DEF Driver!ResumeOrder, Driver!Parts, Driver!Works, Driver!Files
    <2> QED BY <2>1, <2>2, FnSeq
<1>2. /\ o[1] = "led" /\ o[2] = "it6664" /\ o[3] = "it6805" /\ o[4] = "audio"
      /\ o[5] = "video"
    BY DEF Driver!ResumeOrder
<1>3. /\ "resume" \in Driver!Calls /\ <<"route", "bridge">> \in CallSet
      /\ <<"link", "bridge">> \in CallSet
    BY DEF Driver!Calls, CallSet, Driver!Parts
<1>4. b \in Seq(CallSet) /\ Len(b) = 1 /\ b[1] = <<"link", "bridge">>
    BY <1>3, SingleSeq
<1>5. d \in Seq(CallSet) /\ Len(d) = 1 /\ d[1] = <<"route", "bridge">>
    BY <1>3, SingleSeq
<1> HIDE DEF o
<1>6. c \in Seq(CallSet) /\ Len(c) = 5 /\ \A i \in 1 .. 5 : c[i] = <<"resume", o[i]>>
    BY <1>1, <1>3, EachSeq
<1> HIDE DEF b, c, d
<1>7. a \in Seq(CallSet) /\ Len(a) = 4
    BY BridgeStartList
<1> DEFINE e == a \o b
<1> HIDE DEF a
<1>8. e \in Seq(CallSet) /\ Joined(e, a, 4, b, 1)
    BY <1>4, <1>7, ConcatSeq
<1> DEFINE f == e \o c
<1> HIDE DEF e
<1>9. f \in Seq(CallSet) /\ Joined(f, e, 5, c, 5)
    <2>1. Len(e) = 5
        BY <1>8 DEF Joined
    <2> QED BY <1>6, <1>8, <2>1, ConcatSeq
<1> DEFINE g == f \o d
<1> HIDE DEF f
<1>10. g \in Seq(CallSet) /\ Joined(g, f, 10, d, 1)
    <2>1. Len(f) = 10
        BY <1>9 DEF Joined
    <2> QED BY <1>5, <1>9, <2>1, ConcatSeq
<1> HIDE DEF g
<1>11. \A i \in 1 .. 5 : f[5 + i] = <<"resume", o[i]>>
    BY <1>6, <1>9 DEF Joined
<1>12. \A i \in 1 .. 4 : f[i] = a[i]
    BY <1>8, <1>9 DEF Joined
<1>13. f[5] = b[1]
    <2>1. e[4 + 1] = b[1]
        BY <1>8 DEF Joined
    <2> QED BY <1>9, <2>1 DEF Joined
<1>14. /\ f[5 + 1] = <<"resume", "led">> /\ f[5 + 2] = <<"resume", "it6664">>
       /\ f[5 + 3] = <<"resume", "it6805">> /\ f[5 + 4] = <<"resume", "audio">>
       /\ f[5 + 5] = <<"resume", "video">>
    BY <1>2, <1>11
<1>15. /\ f[1] = <<"start", "bridge">> /\ f[2] = <<"reset", "bridge">>
       /\ f[3] = <<"ddr", "bridge">> /\ f[4] = <<"ready", "bridge">>
       /\ f[5] = <<"link", "bridge">>
    BY <1>4, <1>12, <1>13, BridgeStartList DEF a
<1>16. g[10 + 1] = <<"route", "bridge">>
    <2>1. 1 \in 1 .. 1
        OBVIOUS
    <2> QED BY <1>5, <1>10, <2>1 DEF Joined
<1>17. Driver!ResumeCalls = g
    BY DEF Driver!ResumeCalls, g, f, e, d, c, b, a, o
<1> QED BY <1>10, <1>14, <1>15, <1>16, <1>17 DEF Joined

StopCall == <<"stop", "bridge">>

\* List s masks the interrupt first and only stops.
Sleeps(s) ==
    s \in Seq(CallSet) /\ Only(s, SleepCalls) /\ s # <<>> /\ Head(s)[1] = "quiesce"

\* Stopping the bridge comes last.
LEMMA StopList ==
    ASSUME NEW s, Sleeps(s)
    PROVE  Sleeps(s \o <<StopCall>>) /\ \A c : Due(s, c) => Due(s \o <<StopCall>>, c)
<1> DEFINE t == <<StopCall>>
<1>1. StopCall \in CallSet /\ StopCall[1] = "stop"
    BY DEF StopCall, CallSet, Driver!Calls, Driver!Parts
<1>2. t \in Seq(CallSet) /\ Len(t) = 1 /\ t[1] = StopCall
    BY <1>1, SingleSeq
<1> HIDE DEF t
<1>3. Only(t, SleepCalls)
    <2>1. \A i \in 1 .. 1 : i = 1
        OBVIOUS
    <2> QED BY <1>1, <1>2, <2>1 DEF Only, SleepCalls
<1>4. s \o t \in Seq(CallSet) /\ s \o t # <<>> /\ Head(s \o t) = Head(s)
    BY <1>2, JoinLists, HeadOfJoin DEF Sleeps
<1>5. Only(s \o t, SleepCalls) /\ \A c : Due(s, c) => Due(s \o t, c)
    BY <1>2, <1>3, JoinLists DEF Sleeps
<1> QED BY <1>4, <1>5 DEF Sleeps, t

\* Quiescing and then suspending a list of parts.
LEMMA SuspendsList ==
    ASSUME NEW p \in Seq(Driver!Parts)
    PROVE  /\ Sleeps(Driver!Quiesced \o Driver!Suspended(p))
           /\ \A i \in 1 .. Len(p) :
                  Due(Driver!Quiesced \o Driver!Suspended(p), <<"suspend", p[i]>>)
<1> DEFINE s == Driver!Quiesced
           t == Driver!Suspended(p)
<1>1. s \in Seq(CallSet) /\ s # <<>> /\ Only(s, SleepCalls) /\ Head(s)[1] = "quiesce"
    BY QuiescedList DEF Only, SleepCalls
<1>2. /\ t \in Seq(CallSet) /\ Only(t, SleepCalls)
      /\ \A i \in 1 .. Len(p) : Due(t, <<"suspend", p[i]>>)
    BY SuspendedList DEF Only, SleepCalls
<1> HIDE DEF s, t
<1>3. s \o t \in Seq(CallSet) /\ s \o t # <<>> /\ Head(s \o t) = Head(s)
    BY <1>1, <1>2, JoinLists, HeadOfJoin
<1>4. Only(s \o t, SleepCalls) /\ \A c : Due(t, c) => Due(s \o t, c)
    BY <1>1, <1>2, JoinLists
<1> QED BY <1>1, <1>2, <1>3, <1>4 DEF Sleeps, s, t

\* Suspend stops every work.
LEMMA SuspendStops ==
    /\ Sleeps(Driver!SuspendCalls)
    /\ \A w \in Driver!Works : Due(Driver!SuspendCalls, <<"suspend", w>>)
<1> DEFINE p == <<"video", "audio", "it6805", "it6664", "led">>
           s == Driver!Quiesced \o Driver!Suspended(p)
<1>1. p \in Seq(Driver!Parts) /\ Len(p) = 5
    BY PartLists
<1>2. Driver!SuspendCalls = s \o <<StopCall>>
    BY DEF Driver!SuspendCalls, StopCall
<1>3. p[1] = "video" /\ p[3] = "it6805" /\ p[4] = "it6664"
    OBVIOUS
<1> HIDE DEF p
<1>4. Sleeps(s) /\ \A i \in 1 .. 5 : Due(s, <<"suspend", p[i]>>)
    BY <1>1, SuspendsList
<1> HIDE DEF s
<1>5. \A w \in Driver!Works : Due(s, <<"suspend", w>>)
    <2>1. 1 \in 1 .. 5 /\ 3 \in 1 .. 5 /\ 4 \in 1 .. 5
        OBVIOUS
    <2> QED BY <1>3, <1>4, <2>1 DEF Driver!Works
<1> QED BY <1>2, <1>4, <1>5, StopList

\* What a failed call of resume undoes, by call.
LEMMA RelapseOf ==
    /\ Driver!Relapse(<<"link", "bridge">>) = Driver!Quiesced \o <<StopCall>>
    /\ Driver!Relapse(<<"resume", "it6664">>)
           = Driver!Quiesced \o Driver!Suspended(<<"led">>) \o <<StopCall>>
    /\ Driver!Relapse(<<"resume", "it6805">>)
           = Driver!Quiesced \o Driver!Suspended(<<"it6664", "led">>) \o <<StopCall>>
    /\ Driver!Relapse(<<"route", "bridge">>) = Driver!SuspendCalls
<1>1. /\ <<"link", "bridge">>[1] = "link" /\ <<"route", "bridge">>[1] = "route"
      /\ \A x : <<"resume", x>>[1] = "resume"
    OBVIOUS
<1>2. /\ Driver!Relapse(<<"resume", "it6664">>)
             = Driver!Quiesced \o Driver!Suspended(<<"led">>) \o <<StopCall>>
      /\ Driver!Relapse(<<"resume", "it6805">>)
             = Driver!Quiesced \o Driver!Suspended(<<"it6664", "led">>) \o <<StopCall>>
    BY <1>1 DEF Driver!Relapse, StopCall
<1>3. Driver!Relapse(<<"link", "bridge">>) = Driver!Quiesced \o <<StopCall>>
    BY <1>1 DEF Driver!Relapse, StopCall
<1>4. Driver!Relapse(<<"route", "bridge">>) = Driver!SuspendCalls
    BY <1>1 DEF Driver!Relapse, StopCall
<1> QED BY <1>2, <1>3, <1>4

\* What a resume undoes, whichever call fails, stops the works it had resumed.
LEMMA RelapseStops ==
    ASSUME NEW k \in 1 .. 11,
           Driver!ResumeCalls[k][2] # "led",
           Driver!ResumeCalls[k] \notin {<<"resume", "audio">>, <<"resume", "video">>}
    PROVE  LET s == Driver!Relapse(Driver!ResumeCalls[k]) IN
           /\ s \in Seq(CallSet) /\ Only(s, SleepCalls)
           /\ \A w \in Driver!Works : ResumeOf[w] < k => Due(s, <<"suspend", w>>)
           /\ k > 4 => s # <<>> /\ Head(s)[1] = "quiesce"
<1> DEFINE c == Driver!ResumeCalls[k]
           s == Driver!Relapse(c)
<1>1. /\ ResumeOf["it6664"] = 7 /\ ResumeOf["it6805"] = 8 /\ ResumeOf["video"] = 10
      /\ Driver!Works = {"it6664", "it6805", "video"}
    BY DEF ResumeOf, Driver!Works
<1>2. CASE k \in 1 .. 4
    <2>1. c[1] \in {"start", "reset", "ddr", "ready"}
        BY <1>2, ResumeList
    <2>2. s = <<>>
        BY <2>1 DEF Driver!Relapse
    <2> HIDE DEF s
    <2>3. s \in Seq(CallSet) /\ Len(s) = 0
        BY <2>2
    <2>4. Only(s, SleepCalls)
        BY <2>3 DEF Only
    <2> QED BY <1>1, <1>2, <2>3, <2>4 DEF s
<1>3. CASE k = 5
    <2>1. c = <<"link", "bridge">>
        BY <1>3, ResumeList
    <2>2. s = Driver!Quiesced \o <<StopCall>>
        BY <2>1, RelapseOf
    <2>3. Sleeps(Driver!Quiesced)
        BY QuiescedList DEF Sleeps, Only, SleepCalls
    <2>4. Sleeps(s)
        BY <2>2, <2>3, StopList
    <2> HIDE DEF s
    <2> QED BY <1>1, <1>3, <2>4 DEF Sleeps, s
<1>4. CASE k = 7
    <2> DEFINE p == <<"led">>
               t == Driver!Quiesced \o Driver!Suspended(p)
    <2>1. c = <<"resume", "it6664">>
        BY <1>4, ResumeList
    <2>2. s = t \o <<StopCall>>
        BY <2>1, RelapseOf
    <2>3. Sleeps(t)
        BY PartLists, SuspendsList
    <2> HIDE DEF t
    <2>4. Sleeps(s)
        BY <2>2, <2>3, StopList
    <2> HIDE DEF s
    <2> QED BY <1>1, <1>4, <2>4 DEF Sleeps, s
<1>5. CASE k = 8
    <2> DEFINE p == <<"it6664", "led">>
               t == Driver!Quiesced \o Driver!Suspended(p)
    <2>1. c = <<"resume", "it6805">>
        BY <1>5, ResumeList
    <2>2. s = t \o <<StopCall>>
        BY <2>1, RelapseOf
    <2>3. p \in Seq(Driver!Parts) /\ Len(p) = 2 /\ p[1] = "it6664"
        BY PartLists
    <2> HIDE DEF p
    <2>4. Sleeps(t) /\ \A i \in 1 .. Len(p) : Due(t, <<"suspend", p[i]>>)
        BY <2>3, SuspendsList
    <2>5. 1 \in 1 .. Len(p)
        BY <2>3
    <2>6. Due(t, <<"suspend", "it6664">>)
        BY <2>3, <2>4, <2>5
    <2> HIDE DEF t
    <2>7. Sleeps(s) /\ Due(s, <<"suspend", "it6664">>)
        BY <2>2, <2>4, <2>6, StopList
    <2> HIDE DEF s
    <2> QED BY <1>1, <1>5, <2>7 DEF Sleeps, s
<1>6. CASE k = 11
    <2>1. c = <<"route", "bridge">>
        BY <1>6, ResumeList
    <2>2. s = Driver!SuspendCalls
        BY <2>1, RelapseOf
    <2> HIDE DEF s
    <2> QED BY <1>1, <1>6, <2>2, SuspendStops DEF Sleeps, s
<1>7. k # 6 /\ k # 9 /\ k # 10
    <2>1. /\ Driver!ResumeCalls[6] = <<"resume", "led">>
          /\ Driver!ResumeCalls[9] = <<"resume", "audio">>
          /\ Driver!ResumeCalls[10] = <<"resume", "video">>
        BY ResumeList
    <2>2. <<"resume", "led">>[2] = "led"
        OBVIOUS
    <2> QED BY <2>1, <2>2
<1> HIDE DEF s, c
<1> QED BY <1>2, <1>3, <1>4, <1>5, <1>6, <1>7

\* Probe brings up the parts in the reverse order of the labels, but for the bridge and
\* the processor.
LEMMA ProbeOrder ==
    \A p \in Driver!Parts :
        /\ ProbeOf[p] \in 4 .. 17
        /\ ProbeOf[p] = 4 <=> LabelOf[p] = 13
        /\ ProbeOf[p] = 5 <=> LabelOf[p] = 12
        /\ ProbeOf[p] > 5 => ProbeOf[p] = 18 - LabelOf[p]
BY DEF ProbeOf, LabelOf, Driver!Parts, Driver!Works, Driver!Files

\* The label probe goes to when its k-th call fails.
LabelAt ==
    [k \in 5 .. 18 |->
        CASE k = 5 -> "bridge" [] k \in {6, 7} -> "fpga" [] k = 9 -> "led" [] k = 10 -> "it6664"
          [] k = 11 -> "input_edid" [] k = 12 -> "led_mode" [] k = 13 -> "hpd_pulse"
          [] k = 14 -> "it6805" [] k = 15 -> "dma" [] k = 16 -> "video_dma" [] k = 17 -> "audio"
          [] OTHER -> "video"]

\* Whatever came before the k-th call of probe is behind the label it goes to.
LEMMA LabelsAt ==
    ASSUME NEW k \in 5 .. 18, k # 8, NEW p \in Driver!Parts, ProbeOf[p] < k
    PROVE  LabelAt[k] \in Driver!Parts /\ LabelOf[p] >= LabelOf[LabelAt[k]]
<1> DEFINE q == LabelAt[k]
<1>1. /\ k = 5 => q = "bridge"
      /\ k \in {6, 7} => q = "fpga"
      /\ k = 9 => q = "led"
      /\ k = 10 => q = "it6664"
      /\ k = 11 => q = "input_edid"
      /\ k = 12 => q = "led_mode"
      /\ k = 13 => q = "hpd_pulse"
      /\ k = 14 => q = "it6805"
      /\ k = 15 => q = "dma"
      /\ k = 16 => q = "video_dma"
      /\ k = 17 => q = "audio"
      /\ k = 18 => q = "video"
    BY DEF LabelAt
<1>2. /\ LabelOf["bridge"] = 13 /\ LabelOf["fpga"] = 12 /\ LabelOf["led"] = 10
      /\ LabelOf["it6664"] = 9 /\ LabelOf["input_edid"] = 8 /\ LabelOf["led_mode"] = 7
      /\ LabelOf["hpd_pulse"] = 6 /\ LabelOf["it6805"] = 5 /\ LabelOf["dma"] = 4
      /\ LabelOf["video_dma"] = 3 /\ LabelOf["audio"] = 2 /\ LabelOf["video"] = 1
    BY DEF LabelOf, Driver!Parts, Driver!Works, Driver!Files
<1>3. q \in Driver!Parts
    BY DEF LabelAt, Driver!Parts, Driver!Works, Driver!Files
<1> HIDE DEF q
<1>4. /\ ProbeOf[p] \in 4 .. 17 /\ LabelOf[p] \in 1 .. 13
      /\ ProbeOf[p] = 4 => LabelOf[p] = 13
      /\ ProbeOf[p] = 5 => LabelOf[p] = 12
      /\ ProbeOf[p] > 5 => ProbeOf[p] = 18 - LabelOf[p]
    BY ProbeOrder, PartLabels
<1> DEFINE x == ProbeOf[p]
           y == LabelOf[p]
           z == LabelOf[q]
<1>8. /\ x \in 4 .. 17 /\ y \in 1 .. 13 /\ z \in 1 .. 13 /\ x < k
      /\ x = 4 => y = 13
      /\ x = 5 => y = 12
      /\ x > 5 => x = 18 - y
    BY <1>3, <1>4, PartLabels
<1>5. CASE k \in 5 .. 7
    <2>1. k = 5 \/ k = 6 \/ k = 7
        BY <1>5
    <2>2. CASE k = 5
        <3>1. z = 13
            BY <1>1, <1>2, <2>2
        <3> HIDE DEF x, y, z
        <3>2. y >= z
            BY <1>8, <2>2, <3>1
        <3> QED BY <1>3, <3>2 DEF q, y, z
    <2>3. CASE k \in {6, 7}
        <3>1. z = 12
            BY <1>1, <1>2, <2>3
        <3> HIDE DEF x, y, z
        <3>2. y >= z
            BY <1>8, <2>3, <3>1
        <3> QED BY <1>3, <3>2 DEF q, y, z
    <2> QED BY <2>1, <2>2, <2>3
<1>6. CASE k \in 9 .. 18
    <2>1. z = 19 - k
        <3>1. \/ k = 9 \/ k = 10 \/ k = 11 \/ k = 12 \/ k = 13 \/ k = 14 \/ k = 15 \/ k = 16
              \/ k = 17 \/ k = 18
            BY <1>6
        <3>2. CASE k = 9 \/ k = 10 \/ k = 11 \/ k = 12 \/ k = 13
            BY <1>1, <1>2, <3>2
        <3>3. CASE k = 14 \/ k = 15 \/ k = 16 \/ k = 17 \/ k = 18
            BY <1>1, <1>2, <3>3
        <3> QED BY <3>1, <3>2, <3>3
    <2> HIDE DEF x, y, z
    <2>2. y >= z
        BY <1>6, <1>8, <2>1
    <2> QED BY <1>3, <2>2 DEF q, y, z
<1> QED BY <1>3, <1>5, <1>6 DEF q

\* What a failed call of probe undoes, by call.
LEMMA UnwindOf ==
    /\ \A call : call[1] \in {"start", "reset", "ddr", "ready"} =>
           Driver!Unwind(call) = <<ClearMaster>>
    /\ Driver!Unwind(<<"init", "fpga">>) = Driver!CleanUpFrom("bridge")
    /\ Driver!Unwind(<<"link", "bridge">>) = Driver!CleanUpFrom("fpga")
    /\ Driver!Unwind(<<"init", "i2c">>) = Driver!CleanUpFrom("fpga")
    /\ Driver!Unwind(<<"init", "it6664">>) = Driver!CleanUpFrom("led")
    /\ Driver!Unwind(<<"init", "input_edid">>) = Driver!CleanUpFrom("it6664")
    /\ Driver!Unwind(<<"init", "led_mode">>) = Driver!CleanUpFrom("input_edid")
    /\ Driver!Unwind(<<"init", "hpd_pulse">>) = Driver!CleanUpFrom("led_mode")
    /\ Driver!Unwind(<<"init", "it6805">>) = Driver!CleanUpFrom("hpd_pulse")
    /\ Driver!Unwind(<<"init", "dma">>) = Driver!CleanUpFrom("it6805")
    /\ Driver!Unwind(<<"init", "video_dma">>) = Driver!Quiesced \o Driver!CleanUpFrom("dma")
    /\ Driver!Unwind(<<"init", "audio">>) = Driver!Quiesced \o Driver!CleanUpFrom("video_dma")
    /\ Driver!Unwind(<<"init", "video">>)
           = Driver!Quiesced \o Driver!Suspended(<<"it6805">>) \o Driver!CleanUpFrom("audio")
    /\ Driver!Unwind(<<"route", "bridge">>)
           = Driver!Quiesced \o Driver!Suspended(<<"it6805">>) \o Driver!CleanUpFrom("video")
<1>1. /\ <<"link", "bridge">>[1] = "link" /\ <<"route", "bridge">>[1] = "route"
      /\ \A x : <<"init", x>>[1] = "init"
    OBVIOUS
<1>2. \A call : call[1] \in {"start", "reset", "ddr", "ready"} =>
          Driver!Unwind(call) = <<ClearMaster>>
    <2> SUFFICES ASSUME NEW call, call[1] \in {"start", "reset", "ddr", "ready"}
                 PROVE  Driver!Unwind(call) = <<ClearMaster>>
        OBVIOUS
    <2>1. call # <<"link", "bridge">> /\ \A x : call # <<"init", x>>
        BY <1>1
    <2>2. /\ call # <<"init", "fpga">> /\ call # <<"init", "i2c">>
          /\ call # <<"init", "it6664">> /\ call # <<"init", "input_edid">>
          /\ call # <<"init", "led_mode">> /\ call # <<"init", "hpd_pulse">>
          /\ call # <<"init", "it6805">> /\ call # <<"init", "dma">>
          /\ call # <<"init", "video_dma">> /\ call # <<"init", "audio">>
          /\ call # <<"init", "video">>
        BY <2>1
    <2> QED BY <2>1, <2>2 DEF Driver!Unwind, ClearMaster
<1>3. /\ Driver!Unwind(<<"init", "fpga">>) = Driver!CleanUpFrom("bridge")
      /\ Driver!Unwind(<<"init", "i2c">>) = Driver!CleanUpFrom("fpga")
    BY <1>1 DEF Driver!Unwind
<1>4. /\ Driver!Unwind(<<"init", "it6664">>) = Driver!CleanUpFrom("led")
      /\ Driver!Unwind(<<"init", "input_edid">>) = Driver!CleanUpFrom("it6664")
      /\ Driver!Unwind(<<"init", "led_mode">>) = Driver!CleanUpFrom("input_edid")
      /\ Driver!Unwind(<<"init", "hpd_pulse">>) = Driver!CleanUpFrom("led_mode")
    BY <1>1 DEF Driver!Unwind
<1>5. /\ Driver!Unwind(<<"init", "it6805">>) = Driver!CleanUpFrom("hpd_pulse")
      /\ Driver!Unwind(<<"init", "dma">>) = Driver!CleanUpFrom("it6805")
    BY <1>1 DEF Driver!Unwind
<1>6. /\ Driver!Unwind(<<"init", "video_dma">>) = Driver!Quiesced \o Driver!CleanUpFrom("dma")
      /\ Driver!Unwind(<<"init", "audio">>) = Driver!Quiesced \o Driver!CleanUpFrom("video_dma")
      /\ Driver!Unwind(<<"init", "video">>)
             = Driver!Quiesced \o Driver!Suspended(<<"it6805">>) \o Driver!CleanUpFrom("audio")
    BY <1>1 DEF Driver!Unwind
<1>7. /\ Driver!Unwind(<<"link", "bridge">>) = Driver!CleanUpFrom("fpga")
      /\ Driver!Unwind(<<"route", "bridge">>)
             = Driver!Quiesced \o Driver!Suspended(<<"it6805">>) \o Driver!CleanUpFrom("video")
    BY <1>1 DEF Driver!Unwind
<1> QED BY <1>2, <1>3, <1>4, <1>5, <1>6, <1>7

\* What probe undoes, whichever call fails, takes down the parts that came before.
LEMMA UnwindsFall ==
    ASSUME NEW k \in 1 .. 18, Driver!Probe[k][2] # "led",
           NEW U, U \subseteq Driver!Parts, \A p \in U : ProbeOf[p] < k
    PROVE  Falls(Driver!Unwind(Driver!Probe[k]), U)
<1> DEFINE c == Driver!Probe[k]
           s == Driver!Unwind(c)
           C == {"quiesce", "disconnect", "sync", "suspend"}
           none == <<>>
<1>1. CASE k \in 1 .. 4
    <2>1. c[1] \in {"start", "reset", "ddr", "ready"}
        BY <1>1, ProbeList
    <2>2. s = <<ClearMaster>>
        BY <2>1, UnwindOf
    <2>3. ClearMaster \in CallSet /\ ClearMaster[1] = "clear"
        BY DEF ClearMaster, CallSet, Driver!Calls, Driver!Parts
    <2> HIDE DEF s
    <2>4. s \in Seq(CallSet) /\ Len(s) = 1 /\ s[1] = ClearMaster
        BY <2>2, <2>3, SingleSeq
    <2>5. U = {}
        BY <1>1, ProbeOrder
    <2>6. 1 \in 1 .. 1 /\ \A i \in 1 .. 1 : i = 1
        OBVIOUS
    <2>7. Only(s, DownCalls) /\ Due(s, ClearMaster)
        BY <2>3, <2>4, <2>6 DEF Only, Due, DownCalls
    <2> QED BY <2>4, <2>5, <2>7 DEF Falls, s
<1>2. CASE k \in 5 .. 18
    <2> DEFINE q == LabelAt[k]
    <2>1. k # 8
        <3>1. Driver!Probe[8] = <<"init", "led">> /\ <<"init", "led">>[2] = "led"
            BY ProbeList
        <3> QED BY <3>1
    <2>2. q \in Driver!Parts
        BY <1>2 DEF LabelAt, Driver!Parts, Driver!Works, Driver!Files
    <2>3. \A p \in U : LabelOf[p] >= LabelOf[q]
        BY <1>2, <2>1, LabelsAt
    <2>9. /\ k = 5 => q = "bridge" /\ c = <<"init", "fpga">>
          /\ k = 6 => q = "fpga" /\ c = <<"link", "bridge">>
          /\ k = 7 => q = "fpga" /\ c = <<"init", "i2c">>
          /\ k = 9 => q = "led" /\ c = <<"init", "it6664">>
          /\ k = 10 => q = "it6664" /\ c = <<"init", "input_edid">>
          /\ k = 11 => q = "input_edid" /\ c = <<"init", "led_mode">>
          /\ k = 12 => q = "led_mode" /\ c = <<"init", "hpd_pulse">>
          /\ k = 13 => q = "hpd_pulse" /\ c = <<"init", "it6805">>
          /\ k = 14 => q = "it6805" /\ c = <<"init", "dma">>
        BY ProbeList DEF LabelAt
    <2>10. /\ k = 15 => q = "dma" /\ c = <<"init", "video_dma">>
           /\ k = 16 => q = "video_dma" /\ c = <<"init", "audio">>
           /\ k = 17 => q = "audio" /\ c = <<"init", "video">>
           /\ k = 18 => q = "video" /\ c = <<"route", "bridge">>
        BY ProbeList DEF LabelAt
    <2>4. ASSUME NEW r \in Seq(CallSet), Only(r, C),
                 k < 17 \/ Due(r, <<"suspend", "it6805">>)
          PROVE  Falls(r \o Driver!CleanUpFrom(q), U)
        <3>1. k < 17 => LabelOf[q] > 2
            <4>1. \A x \in Driver!Parts \ {"video", "audio"} : LabelOf[x] > 2
                BY DEF LabelOf, Driver!Parts, Driver!Works, Driver!Files
            <4>2. k < 17 => q # "video" /\ q # "audio"
                <5>1. k < 17 => k \in {5, 6, 7, 9, 10, 11, 12, 13, 14, 15, 16}
                    BY <1>2, <2>1
                <5> HIDE DEF q, c
                <5> QED BY <2>9, <2>10, <5>1
            <4> QED BY <2>2, <4>1, <4>2
        <3> HIDE DEF q
        <3> QED BY <2>2, <2>3, <2>4, <3>1, UnwindFalls
    <2>5. CASE k \in 5 .. 14
        <3>1. s = Driver!CleanUpFrom(q)
            <4> HIDE DEF c, q
            <4>1. CASE k \in {5, 6, 7, 9}
                BY <2>9, <4>1, UnwindOf
            <4>2. CASE k \in {10, 11, 12, 13, 14}
                BY <2>9, <4>2, UnwindOf
            <4> QED BY <2>1, <2>5, <4>1, <4>2
        <3>2. none \in Seq(CallSet) /\ Len(none) = 0
            OBVIOUS
        <3>3. Only(none, C)
            BY <3>2 DEF Only
        <3> DEFINE t == Driver!CleanUpFrom(q)
        <3>4. t \in Seq(CallSet)
            BY <2>2, LabelsFrom DEF Frees
        <3>5. Falls(none \o t, U)
            <4>1. k < 17
                BY <2>5
            <4> HIDE DEF none, C
            <4> QED BY <2>4, <3>2, <3>3, <4>1
        <3> HIDE DEF t
        <3>6. none \o t = t
            BY <3>4
        <3> QED BY <3>1, <3>5, <3>6 DEF t
    <2>6. CASE k \in {15, 16}
        <3>1. s = Driver!Quiesced \o Driver!CleanUpFrom(q)
            <4> HIDE DEF c, q
            <4> QED BY <2>6, <2>10, UnwindOf
        <3>2. Driver!Quiesced \in Seq(CallSet) /\ Only(Driver!Quiesced, C)
            BY QuiescedList DEF Only
        <3>3. Falls(Driver!Quiesced \o Driver!CleanUpFrom(q), U)
            BY <2>4, <2>6, <3>2
        <3> QED BY <3>1, <3>3
    <2>7. CASE k \in {17, 18}
        <3> DEFINE l == <<"it6805">>
                   r == Driver!Quiesced \o Driver!Suspended(l)
        <3>1. s = r \o Driver!CleanUpFrom(q)
            <4> HIDE DEF c, q
            <4> QED BY <2>7, <2>10, UnwindOf
        <3>2. l \in Seq(Driver!Parts) /\ Len(l) = 1 /\ l[1] = "it6805"
            BY PartLists
        <3> HIDE DEF l
        <3>3. /\ Driver!Suspended(l) \in Seq(CallSet) /\ Only(Driver!Suspended(l), C)
              /\ Due(Driver!Suspended(l), <<"suspend", "it6805">>)
            <4>1. 1 \in 1 .. Len(l)
                BY <3>2
            <4> QED BY <3>2, <4>1, SuspendedList DEF Only
        <3>4. Driver!Quiesced \in Seq(CallSet) /\ Only(Driver!Quiesced, C)
            BY QuiescedList DEF Only
        <3>5. r \in Seq(CallSet) /\ Only(r, C) /\ Due(r, <<"suspend", "it6805">>)
            BY <3>3, <3>4, JoinLists
        <3> HIDE DEF r
        <3>6. Falls(r \o Driver!CleanUpFrom(q), U)
            BY <2>4, <3>5
        <3> QED BY <3>1, <3>6
    <2> HIDE DEF s, c
    <2>8. k \in 5 .. 14 \/ k \in {15, 16} \/ k \in {17, 18}
        BY <1>2
    <2> QED BY <2>5, <2>6, <2>7, <2>8 DEF s, c
<1>3. k \in 1 .. 4 \/ k \in 5 .. 18
    OBVIOUS
<1> QED BY <1>1, <1>2, <1>3

-----------------------------------------------------------------------------
(* The life cycle: the steps                                                 *)

\* What a stage says is about these, and about which works are off.
StageKept ==
    /\ UNCHANGED <<pm, todo, up, callback, driver_ready, routing, master>>
    /\ \A w \in Driver!Works : work'[w] = "off" <=> work[w] = "off"

\* What is not about the calls, the parts, the interrupt and which works are off leaves
\* every stage.
LEMMA StagesKept ==
    ASSUME Stages, StageKept
    PROVE  Stages'
<1>1. ASSUME NEW k, ProbeAt(k) PROVE ProbeAt(k)'
    BY <1>1 DEF ProbeAt, At, StageKept
<1>2. ASSUME NEW k, ResumeAt(k) PROVE ResumeAt(k)'
    BY <1>2 DEF ResumeAt, At, StageKept
<1>3. ASSUME Stopping PROVE Stopping'
    BY <1>3 DEF Stopping, StageKept
<1>4. ASSUME Falling PROVE Falling'
    BY <1>4 DEF Falling, StageKept
<1>5. pm' = "probing" => (\E k \in 1 .. 19 : ProbeAt(k))'
    BY <1>1 DEF Stages, StageKept
<1>6. pm' = "resuming" => (\E k \in 1 .. 12 : ResumeAt(k))'
    BY <1>2 DEF Stages, StageKept
<1> QED BY <1>3, <1>4, <1>5, <1>6 DEF Stages, StageKept

\* The invariant of the life cycle holds at first.
LEMMA LifeInit == Driver!Init => LifeInv
<1> SUFFICES ASSUME Driver!Init PROVE LifeInv
    OBVIOUS
<1>1. LifeTypes
    <2>1. <<>> \in Seq(CallSet) /\ 0 \in 0 .. MaxSuspends
        BY DriverAssumption
    <2> QED BY <2>1 DEF Driver!Init, LifeTypes
<1>2. Holders /\ Driver!CalleesAlive /\ Driver!RoutedLast
    BY DEF Driver!Init, Holders, Driver!CalleesAlive, Driver!RoutedLast
<1>3. Stages
    BY DEF Driver!Init, Stages
<1> QED BY <1>1, <1>2, <1>3 DEF LifeInv, LifeBase

\* What is reached is a part.
LEMMA ReachesParts ==
    /\ \A w \in Driver!Works : Driver!Reaches(w) \subseteq Driver!Parts
    /\ \A f \in Driver!Files : Driver!FileReaches(f) \subseteq Driver!Parts
    /\ {"dma", "i2c", "video_dma"} \subseteq Driver!Parts
BY DEF Driver!Reaches, Driver!FileReaches, Driver!Works, Driver!Files, Driver!Parts

\* A work starts, holding what it reaches and is up, or returns.
LEMMA WorkSteps ==
    ASSUME LifeInv, NEW w \in Driver!Works, Driver!RunWork(w) \/ Driver!EndWork(w)
    PROVE  LifeInv'
<1>1. /\ LifeTypes /\ Holders /\ Driver!CalleesAlive /\ Driver!RoutedLast /\ Stages
      /\ Driver!Reaches(w) \subseteq Driver!Parts
    BY ReachesParts DEF LifeInv, LifeBase
<1>2. /\ work[w] # "off" /\ work' = [work EXCEPT ![w] = work'[w]] /\ work'[w] # "off"
      /\ work'[w] \in {"queued", "running"}
      /\ uses' = [uses EXCEPT ![w] = uses'[w]]
      /\ uses'[w] \subseteq (IF work'[w] = "running" THEN Driver!Reaches(w) ELSE {})
      /\ uses'[w] \subseteq up
      /\ UNCHANGED <<pm, todo, up, file, file_uses, driver_irq, irq_uses, callback, driver_ready,
                     routing, regs, master, present, sleeps>>
    BY <1>1 DEF Driver!RunWork, Driver!EndWork, Driver!pmVars, Driver!bridgeVars, LifeTypes
<1>3. LifeTypes'
    BY <1>1, <1>2 DEF LifeTypes
<1>4. Holders' /\ Driver!CalleesAlive'
    BY <1>1, <1>2 DEF LifeTypes, Holders, Driver!CalleesAlive
<1>5. Driver!RoutedLast'
    BY <1>1, <1>2 DEF Driver!RoutedLast
<1>6. StageKept
    BY <1>1, <1>2 DEF StageKept, LifeTypes
<1>7. Stages'
    BY <1>1, <1>6, StagesKept
<1> QED BY <1>3, <1>4, <1>5, <1>7 DEF LifeInv, LifeBase

\* A user enters a file, or leaves it.
LEMMA FileSteps ==
    ASSUME LifeInv, NEW f \in Driver!Files, Driver!EnterFile(f) \/ Driver!LeaveFile(f)
    PROVE  LifeInv'
<1>1. /\ LifeTypes /\ Holders /\ Driver!CalleesAlive /\ Driver!RoutedLast /\ Stages
      /\ Driver!FileReaches(f) \subseteq Driver!Parts
    BY ReachesParts DEF LifeInv, LifeBase
<1>2. /\ f \in up /\ file' = [file EXCEPT ![f] = file'[f]] /\ file'[f] \in BOOLEAN
      /\ file_uses' = [file_uses EXCEPT ![f] = file_uses'[f]]
      /\ file_uses'[f] \subseteq (IF file'[f] THEN Driver!FileReaches(f) ELSE {})
      /\ file_uses'[f] \subseteq up
      /\ UNCHANGED <<pm, todo, up, work, uses, driver_irq, irq_uses, callback, driver_ready,
                     routing, regs, master, present, sleeps>>
    BY <1>1 DEF Driver!EnterFile, Driver!LeaveFile, Driver!pmVars, Driver!bridgeVars,
       LifeTypes, Holders
<1>3. LifeTypes'
    BY <1>1, <1>2 DEF LifeTypes
<1>4. Holders' /\ Driver!CalleesAlive'
    BY <1>1, <1>2 DEF LifeTypes, Holders, Driver!CalleesAlive
<1>5. Driver!RoutedLast'
    BY <1>1, <1>2 DEF Driver!RoutedLast
<1>6. StageKept
    BY <1>1, <1>2 DEF StageKept, LifeTypes
<1>7. Stages'
    BY <1>1, <1>6, StagesKept
<1> QED BY <1>3, <1>4, <1>5, <1>7 DEF LifeInv, LifeBase

\* The handler runs or returns, or the card is pulled.
LEMMA IrqSteps ==
    ASSUME LifeInv, Driver!EnterIrq \/ Driver!LeaveIrq \/ Driver!Pull \/ UNCHANGED Driver!vars
    PROVE  LifeInv'
<1>1. /\ LifeTypes /\ Holders /\ Driver!CalleesAlive /\ Driver!RoutedLast /\ Stages
      /\ {"dma", "i2c", "video_dma"} \subseteq Driver!Parts
    BY ReachesParts DEF LifeInv, LifeBase
<1>2. /\ UNCHANGED <<pm, todo, up, work, uses, file, file_uses, callback, driver_ready,
                     routing, regs, master, sleeps>>
      /\ driver_irq' \in BOOLEAN /\ present' \in BOOLEAN /\ (driver_irq' => "dma" \in up)
      /\ irq_uses' \subseteq (IF driver_irq' THEN {"dma", "i2c", "video_dma"} ELSE {})
      /\ irq_uses' \subseteq up
    <2>1. CASE Driver!EnterIrq
        BY <1>1, <2>1 DEF Driver!EnterIrq, Driver!pmVars, Driver!bridgeVars, LifeTypes, Holders
    <2>2. CASE Driver!LeaveIrq
        BY <1>1, <2>2 DEF Driver!LeaveIrq, Driver!pmVars, Driver!bridgeVars, LifeTypes
    <2>3. CASE Driver!Pull
        BY <1>1, <2>3 DEF Driver!Pull, Driver!pmVars, Driver!actorVars, Driver!bridgeVars,
           LifeTypes, Holders, Driver!CalleesAlive
    <2>4. CASE UNCHANGED Driver!vars
        BY <1>1, <2>4 DEF Driver!vars, Driver!pmVars, Driver!actorVars, Driver!bridgeVars,
           LifeTypes, Holders, Driver!CalleesAlive
    <2> QED BY <2>1, <2>2, <2>3, <2>4
<1>3. LifeTypes'
    BY <1>1, <1>2 DEF LifeTypes
<1>4. Holders' /\ Driver!CalleesAlive'
    BY <1>1, <1>2 DEF LifeTypes, Holders, Driver!CalleesAlive
<1>5. Driver!RoutedLast'
    BY <1>1, <1>2 DEF Driver!RoutedLast
<1>6. StageKept
    BY <1>1, <1>2 DEF StageKept, LifeTypes
<1>7. Stages'
    BY <1>1, <1>6, StagesKept
<1> QED BY <1>3, <1>4, <1>5, <1>7 DEF LifeInv, LifeBase

\* The first call of a list is the next one.
LEMMA AtFirst ==
    ASSUME NEW s \in Seq(CallSet), NEW n \in Nat, Len(s) = n, todo' = s
    PROVE  At(s, n, 1)'
<1>1. /\ 1 \in 1 .. n + 1 /\ n + 1 - 1 = n /\ Len(todo') = n
      /\ \A i \in 1 .. n : todo'[i] = s[1 + i - 1]
    <2>1. \A i \in 1 .. n : 1 + i - 1 = i
        OBVIOUS
    <2> QED BY <2>1
<1> QED BY <1>1 DEF At

\* Probe starts with nothing up.
LEMMA StartsProbe == LifeInv /\ Driver!StartProbe => LifeInv'
<1> SUFFICES ASSUME LifeInv, Driver!StartProbe PROVE LifeInv'
    OBVIOUS
<1>1. LifeTypes /\ Holders /\ Driver!CalleesAlive /\ Driver!RoutedLast /\ Stages
    BY DEF LifeInv, LifeBase
<1>2. /\ pm = "new" /\ pm' = "probing" /\ todo' = Driver!Probe /\ up = {} /\ master' = TRUE
      /\ regs' = TRUE
      /\ UNCHANGED <<up, work, uses, file, file_uses, driver_irq, irq_uses, callback,
                     driver_ready, routing, present, sleeps>>
    BY <1>1 DEF Driver!StartProbe, Driver!Begin, Driver!actorVars, Stages
<1>3. LifeTypes'
    BY <1>1, <1>2, ProbeList DEF LifeTypes
<1>4. Holders' /\ Driver!CalleesAlive' /\ Driver!RoutedLast'
    BY <1>1, <1>2 DEF Holders, Driver!CalleesAlive, Driver!RoutedLast
<1>5. At(Driver!Probe, 18, 1)'
    BY <1>2, ProbeList, AtFirst
<1>6. ~routing
    BY <1>1, <1>2 DEF Driver!RoutedLast
<1>7. \A p \in Driver!Parts : ~(ProbeOf[p] < 1)
    BY ProbeOrder
<1>8. ProbeAt(1)'
    BY <1>2, <1>5, <1>6, <1>7 DEF ProbeAt
<1>9. 1 \in 1 .. 19
    OBVIOUS
<1>10. Stages'
    BY <1>2, <1>8, <1>9 DEF Stages
<1> QED BY <1>3, <1>4, <1>10 DEF LifeInv, LifeBase

\* List todo frees what is up and has been asked to free everything.
LEMMA FallsFalling ==
    ASSUME LifeTypes, Holders, NEW U, up \subseteq U, Falls(todo', U), UNCHANGED <<up, work>>,
           routing' => /\ pm' = "removing" /\ todo' # <<>>
                       /\ Head(todo')[1] \in {"quiesce", "disconnect"}
    PROVE  Falling'
<1>1. \A w \in Driver!Works : work[w] # "off" => w \in Driver!Works \cap U
    BY DEF Holders
<1>2. /\ \A w \in Driver!Works : work'[w] # "off" =>
             \A p \in Driver!Reaches(w) : Ordered(todo', Stops(w), <<"cleanup", p>>)
    BY <1>1 DEF Falls
<1>3. \A p \in up' : Due(todo', <<"cleanup", p>>)
    BY DEF Falls
<1>4. \A f \in Driver!Files \cap up' : \A p \in Driver!FileReaches(f) :
           Ordered(todo', {<<"cleanup", f>>}, <<"cleanup", p>>)
    BY DEF Falls
<1>5. "dma" \in up' => Ordered(todo', {<<"cleanup", "dma">>}, <<"cleanup", "i2c">>)
    BY DEF Falls
<1>6. Only(todo', DownCalls) /\ Due(todo', ClearMaster)
    BY DEF Falls
<1> QED BY <1>2, <1>3, <1>4, <1>5, <1>6 DEF Falling

\* Removal starts, from a driver that is whole.
LEMMA StartsRemove == LifeInv /\ Driver!StartRemove => LifeInv'
<1> SUFFICES ASSUME LifeInv, Driver!StartRemove PROVE LifeInv'
    OBVIOUS
<1>1. LifeTypes /\ Holders /\ Driver!CalleesAlive /\ Driver!RoutedLast /\ Stages
    BY DEF LifeInv, LifeBase
<1>2. /\ pm' = "removing" /\ todo' = Driver!Removal(present) /\ present \in BOOLEAN
      /\ UNCHANGED <<up, work, uses, file, file_uses, driver_irq, irq_uses, callback,
                     driver_ready, routing, regs, master, present, sleeps>>
    BY <1>1 DEF Driver!StartRemove, Driver!Begin, Driver!actorVars, Driver!bridgeVars, LifeTypes
<1>3. /\ Falls(todo', Driver!Parts) /\ todo' # <<>>
      /\ Head(todo')[1] \in {"quiesce", "disconnect"}
    BY <1>2, RemovalFalls
<1>4. LifeTypes'
    BY <1>1, <1>2, <1>3 DEF LifeTypes, Falls
<1>5. Holders' /\ Driver!CalleesAlive' /\ Driver!RoutedLast'
    BY <1>1, <1>2 DEF Holders, Driver!CalleesAlive, Driver!RoutedLast
<1>6. up \subseteq Driver!Parts
    BY <1>1 DEF LifeTypes
<1>7. Falling'
    BY <1>1, <1>2, <1>3, <1>6, FallsFalling
<1>8. Stages'
    BY <1>2, <1>7 DEF Stages
<1> QED BY <1>4, <1>5, <1>8 DEF LifeInv, LifeBase

\* Suspend starts, with a list that stops every work.
LEMMA StartsSuspend == LifeInv /\ Driver!StartSuspend => LifeInv'
<1> SUFFICES ASSUME LifeInv, Driver!StartSuspend PROVE LifeInv'
    OBVIOUS
<1>1. LifeTypes /\ Holders /\ Driver!CalleesAlive /\ Driver!RoutedLast /\ Stages
    BY DEF LifeInv, LifeBase
<1>2. /\ pm \in {"live", "lame"} /\ pm' = "suspending" /\ todo' = Driver!SuspendCalls
      /\ sleeps' \in 0 .. MaxSuspends
      /\ UNCHANGED <<up, work, uses, file, file_uses, driver_irq, irq_uses, callback,
                     driver_ready, routing, regs, master, present>>
    BY <1>1, DriverAssumption
    DEF Driver!StartSuspend, Driver!Begin, Driver!actorVars, Driver!bridgeVars, LifeTypes
<1>3. Sleeps(todo') /\ \A w \in Driver!Works : Due(todo', <<"suspend", w>>)
    BY <1>2, SuspendStops
<1>4. LifeTypes'
    BY <1>1, <1>2, <1>3 DEF LifeTypes, Sleeps
<1>5. Holders' /\ Driver!CalleesAlive' /\ Driver!RoutedLast'
    BY <1>1, <1>2 DEF Holders, Driver!CalleesAlive, Driver!RoutedLast
<1>6. Stopping'
    BY <1>3 DEF Stopping, Sleeps
<1>7. Stages'
    BY <1>1, <1>2, <1>6 DEF Stages
<1> QED BY <1>4, <1>5, <1>7 DEF LifeInv, LifeBase

\* Resume starts, with every work off.
LEMMA StartsResume == LifeInv /\ Driver!StartResume => LifeInv'
<1> SUFFICES ASSUME LifeInv, Driver!StartResume PROVE LifeInv'
    OBVIOUS
<1>1. LifeTypes /\ Holders /\ Driver!CalleesAlive /\ Driver!RoutedLast /\ Stages
    BY DEF LifeInv, LifeBase
<1>2. /\ pm = "asleep" /\ pm' = "resuming" /\ todo' = Driver!ResumeCalls /\ master' = TRUE
      /\ UNCHANGED <<up, work, uses, file, file_uses, driver_irq, irq_uses, callback,
                     driver_ready, routing, regs, present, sleeps>>
    BY <1>1 DEF Driver!StartResume, Driver!Begin, Driver!actorVars
<1>3. ~routing /\ ~driver_ready /\ \A w \in Driver!Works : work[w] = "off"
    BY <1>1, <1>2 DEF Stages
<1>4. LifeTypes'
    BY <1>1, <1>2, ResumeList DEF LifeTypes
<1>5. Holders' /\ Driver!CalleesAlive' /\ Driver!RoutedLast'
    BY <1>1, <1>2 DEF Holders, Driver!CalleesAlive, Driver!RoutedLast
<1>6. At(Driver!ResumeCalls, 11, 1)'
    BY <1>2, ResumeList, AtFirst
<1>7. ResumeAt(1)'
    BY <1>2, <1>3, <1>6 DEF ResumeAt
<1>8. 1 \in 1 .. 12
    OBVIOUS
<1>9. Stages'
    BY <1>1, <1>2, <1>7, <1>8 DEF Stages
<1> QED BY <1>4, <1>5, <1>9 DEF LifeInv, LifeBase

\* The last call has been made.
LEMMA Finishes == LifeInv /\ Driver!Finished => LifeInv'
<1> SUFFICES ASSUME LifeInv, Driver!Finished PROVE LifeInv'
    OBVIOUS
<1>1. LifeTypes /\ Holders /\ Driver!CalleesAlive /\ Driver!RoutedLast /\ Stages
    BY DEF LifeInv, LifeBase
<1>2. /\ todo = <<>>
      /\ UNCHANGED <<todo, up, work, uses, file, file_uses, driver_irq, irq_uses, callback,
                     driver_ready, routing, regs, master, present, sleeps>>
    BY DEF Driver!Finished, Driver!actorVars, Driver!bridgeVars
<1>3. \/ pm \in {"probing", "resuming"} /\ pm' = "live"
      \/ pm = "unwinding" /\ pm' = "failed"
      \/ pm = "removing" /\ pm' = "removed"
      \/ pm = "suspending" /\ pm' = "asleep"
      \/ pm = "relapsing" /\ pm' = "lame"
    BY DEF Driver!Finished
<1>4. LifeTypes'
    BY <1>1, <1>2, <1>3 DEF LifeTypes
<1>5. Holders' /\ Driver!CalleesAlive' /\ Driver!RoutedLast'
    BY <1>1, <1>2 DEF Holders, Driver!CalleesAlive, Driver!RoutedLast
<1>6. Len(todo) = 0 /\ \A c : ~Due(todo, c)
    BY <1>2 DEF Due
<1>7. CASE pm = "probing"
    <2>1. PICK k \in 1 .. 19 : ProbeAt(k)
        BY <1>1, <1>7 DEF Stages
    <2>2. k = 19
        BY <1>6, <2>1 DEF ProbeAt, At
    <2>3. \A p \in Driver!Parts : ProbeOf[p] < 19
        BY ProbeOrder
    <2>4. Driver!Parts \ {"led"} \subseteq up
        BY <2>1, <2>2, <2>3 DEF ProbeAt
    <2>5. callback
        BY <2>1, <2>4 DEF ProbeAt, Driver!Parts
    <2> QED BY <1>2, <1>3, <1>4, <1>5, <1>7, <2>4, <2>5 DEF LifeInv, LifeBase, Stages
<1>8. CASE pm = "resuming"
    BY <1>1, <1>2, <1>3, <1>4, <1>5, <1>8 DEF LifeInv, LifeBase, Stages
<1>9. CASE pm \in {"unwinding", "removing"}
    <2>1. Falling
        BY <1>1, <1>9 DEF Stages
    <2>2. up = {} /\ ~master
        BY <1>6, <2>1 DEF Falling
    <2> QED BY <1>2, <1>3, <1>4, <1>5, <1>9, <2>2 DEF LifeInv, LifeBase, Stages
<1>10. CASE pm \in {"suspending", "relapsing"}
    <2>1. Stopping
        BY <1>1, <1>10 DEF Stages
    <2>2. ~driver_ready /\ \A w \in Driver!Works : work[w] = "off"
        BY <1>2, <1>6, <2>1 DEF Stopping
    <2>3. ~routing
        BY <1>1, <2>2 DEF Driver!RoutedLast
    <2> QED BY <1>1, <1>2, <1>3, <1>4, <1>5, <1>10, <2>2, <2>3 DEF LifeInv, LifeBase, Stages
<1> QED BY <1>3, <1>7, <1>8, <1>9, <1>10

\* A call of a list is made.
LEMMA AtNext ==
    ASSUME NEW s, NEW n \in Nat, NEW k, At(s, n, k), todo \in Seq(CallSet), todo # <<>>
    PROVE  /\ k \in 1 .. n /\ Head(todo) = s[k] /\ k + 1 \in 1 .. n + 1
           /\ todo' = Tail(todo) => At(s, n, k + 1)'
<1> DEFINE m == n + 1 - k
<1>1. k \in 1 .. n + 1 /\ Len(todo) = m /\ \A i \in 1 .. m : todo[i] = s[k + i - 1]
    BY DEF At
<1>2. m \in Nat /\ n = m + k - 1
    BY <1>1
<1>3. m # 0
    BY <1>1
<1>4. k \in 1 .. n /\ k + 1 \in 1 .. n + 1 /\ 1 \in 1 .. m /\ k + 1 - 1 = k
      /\ n + 1 - (k + 1) = m - 1
    BY <1>1, <1>2, <1>3
<1>5. Head(todo) = todo[1] /\ todo[1] = s[k]
    BY <1>1, <1>4
<1> HIDE DEF m
<1>6. Len(Tail(todo)) = m - 1 /\ \A i \in 1 .. m - 1 : Tail(todo)[i] = todo[i + 1]
    BY <1>1
<1>7. \A i \in 1 .. m - 1 : Tail(todo)[i] = s[(k + 1) + i - 1]
    <2> SUFFICES ASSUME NEW i \in 1 .. m - 1 PROVE Tail(todo)[i] = s[(k + 1) + i - 1]
        OBVIOUS
    <2>1. i + 1 \in 1 .. m /\ k + (i + 1) - 1 = (k + 1) + i - 1
        BY <1>1, <1>2
    <2> QED BY <1>1, <1>6, <2>1
<1> QED BY <1>4, <1>5, <1>6, <1>7 DEF At

\* What the k-th call of probe brings up.
LEMMA ProbeCalls ==
    ASSUME NEW k \in 1 .. 18
    PROVE  LET c == Driver!Probe[k] IN
           /\ c[1] \in {"start", "reset", "ddr", "ready", "link", "init", "route"}
           /\ c[1] = "ready" => k = 4
           /\ c[1] = "route" => k = 18
           /\ c[1] \in {"start", "reset", "ddr", "link", "route"} =>
                  \A p \in Driver!Parts : ProbeOf[p] # k
           /\ c[1] = "init" => \A p \in Driver!Parts : ProbeOf[p] = k <=> p = c[2]
<1> DEFINE c == Driver!Probe[k]
<1>1. /\ k = 1 => c = <<"start", "bridge">>
      /\ k = 2 => c = <<"reset", "bridge">>
      /\ k = 3 => c = <<"ddr", "bridge">>
      /\ k = 4 => c = <<"ready", "bridge">>
      /\ k = 5 => c = <<"init", "fpga">>
      /\ k = 6 => c = <<"link", "bridge">>
      /\ k = 7 => c = <<"init", "i2c">>
      /\ k = 8 => c = <<"init", "led">>
      /\ k = 9 => c = <<"init", "it6664">>
      /\ k = 10 => c = <<"init", "input_edid">>
      /\ k = 11 => c = <<"init", "led_mode">>
      /\ k = 12 => c = <<"init", "hpd_pulse">>
      /\ k = 13 => c = <<"init", "it6805">>
      /\ k = 14 => c = <<"init", "dma">>
      /\ k = 15 => c = <<"init", "video_dma">>
      /\ k = 16 => c = <<"init", "audio">>
      /\ k = 17 => c = <<"init", "video">>
      /\ k = 18 => c = <<"route", "bridge">>
    BY ProbeList
<1> HIDE DEF c
<1>2. \A p \in Driver!Parts :
          /\ ProbeOf[p] \in {4, 5} \cup 7 .. 17
          /\ ProbeOf[p] = 5 <=> p = "fpga"
          /\ ProbeOf[p] = 7 <=> p = "i2c"
          /\ ProbeOf[p] = 8 <=> p = "led"
          /\ ProbeOf[p] = 9 <=> p = "it6664"
          /\ ProbeOf[p] = 10 <=> p = "input_edid"
          /\ ProbeOf[p] = 11 <=> p = "led_mode"
          /\ ProbeOf[p] = 12 <=> p = "hpd_pulse"
          /\ ProbeOf[p] = 13 <=> p = "it6805"
          /\ ProbeOf[p] = 14 <=> p = "dma"
          /\ ProbeOf[p] = 15 <=> p = "video_dma"
          /\ ProbeOf[p] = 16 <=> p = "audio"
          /\ ProbeOf[p] = 17 <=> p = "video"
    BY DEF ProbeOf, Driver!Parts, Driver!Works, Driver!Files
<1>3. CASE k \in {1, 2, 3, 4, 6, 18}
    <2>1. \A p \in Driver!Parts : k # 4 => ProbeOf[p] # k
        BY <1>2, <1>3
    <2>2. /\ c[1] \in {"start", "reset", "ddr", "ready", "link", "route"}
          /\ c[1] = "ready" => k = 4
          /\ c[1] = "route" => k = 18
          /\ k = 4 => c[1] = "ready"
        BY <1>1, <1>3
    <2> QED BY <2>1, <2>2 DEF c
<1>4. CASE k \in {5, 7, 8, 9, 10, 11, 12, 13, 14, 15, 16, 17}
    <2>1. c[1] = "init"
        BY <1>1, <1>4
    <2>2. \A p \in Driver!Parts : ProbeOf[p] = k <=> p = c[2]
        <3>1. CASE k \in {5, 7, 8, 9}
            <4>1. /\ k = 5 => c[2] = "fpga"
                  /\ k = 7 => c[2] = "i2c"
                  /\ k = 8 => c[2] = "led"
                  /\ k = 9 => c[2] = "it6664"
                BY <1>1
            <4> QED BY <1>2, <3>1, <4>1
        <3>2. CASE k \in {10, 11, 12, 13}
            <4>1. /\ k = 10 => c[2] = "input_edid"
                  /\ k = 11 => c[2] = "led_mode"
                  /\ k = 12 => c[2] = "hpd_pulse"
                  /\ k = 13 => c[2] = "it6805"
                BY <1>1
            <4> QED BY <1>2, <3>2, <4>1
        <3>3. CASE k \in {14, 15, 16, 17}
            <4>1. /\ k = 14 => c[2] = "dma"
                  /\ k = 15 => c[2] = "video_dma"
                  /\ k = 16 => c[2] = "audio"
                  /\ k = 17 => c[2] = "video"
                BY <1>1
            <4> QED BY <1>2, <3>3, <4>1
        <3> QED BY <1>4, <3>1, <3>2, <3>3
    <2> QED BY <2>1, <2>2 DEF c
<1>5. k \in {1, 2, 3, 4, 6, 18} \/ k \in {5, 7, 8, 9, 10, 11, 12, 13, 14, 15, 16, 17}
    OBVIOUS
<1> QED BY <1>3, <1>4, <1>5

\* What the k-th call of resume queues.
LEMMA ResumeCallsAre ==
    ASSUME NEW k \in 1 .. 11
    PROVE  LET c == Driver!ResumeCalls[k] IN
           /\ c[1] \in {"start", "reset", "ddr", "ready", "link", "resume", "route"}
           /\ c[1] = "ready" => k = 4
           /\ c[1] = "route" => k = 11
           /\ c[1] # "resume" => \A w \in Driver!Works : ResumeOf[w] # k
           /\ c[1] = "resume" => \A w \in Driver!Works : ResumeOf[w] = k <=> w = c[2]
<1> DEFINE c == Driver!ResumeCalls[k]
<1>1. /\ k = 1 => c = <<"start", "bridge">>
      /\ k = 2 => c = <<"reset", "bridge">>
      /\ k = 3 => c = <<"ddr", "bridge">>
      /\ k = 4 => c = <<"ready", "bridge">>
      /\ k = 5 => c = <<"link", "bridge">>
      /\ k = 6 => c = <<"resume", "led">>
      /\ k = 7 => c = <<"resume", "it6664">>
      /\ k = 8 => c = <<"resume", "it6805">>
      /\ k = 9 => c = <<"resume", "audio">>
      /\ k = 10 => c = <<"resume", "video">>
      /\ k = 11 => c = <<"route", "bridge">>
    BY ResumeList
<1> HIDE DEF c
<1>2. \A w \in Driver!Works :
          /\ ResumeOf[w] \in {7, 8, 10}
          /\ ResumeOf[w] = 7 <=> w = "it6664"
          /\ ResumeOf[w] = 8 <=> w = "it6805"
          /\ ResumeOf[w] = 10 <=> w = "video"
    BY DEF ResumeOf, Driver!Works
<1>3. CASE k \in {1, 2, 3, 4, 5, 11}
    <2>1. \A w \in Driver!Works : ResumeOf[w] # k
        BY <1>2, <1>3
    <2>2. /\ c[1] \in {"start", "reset", "ddr", "ready", "link", "route"}
          /\ c[1] = "ready" => k = 4
          /\ c[1] = "route" => k = 11
        BY <1>1, <1>3
    <2> QED BY <2>1, <2>2 DEF c
<1>4. CASE k \in {6, 7, 8, 9, 10}
    <2>1. /\ c[1] = "resume"
          /\ k = 6 => c[2] = "led"
          /\ k = 7 => c[2] = "it6664"
          /\ k = 8 => c[2] = "it6805"
          /\ k = 9 => c[2] = "audio"
          /\ k = 10 => c[2] = "video"
        BY <1>1, <1>4
    <2>2. \A w \in Driver!Works : ResumeOf[w] = k <=> w = c[2]
        <3>1. \A w \in Driver!Works : w # "led" /\ w # "audio"
            BY DEF Driver!Works
        <3> QED BY <1>2, <1>4, <2>1, <3>1
    <2> QED BY <2>1, <2>2 DEF c
<1>5. k \in {1, 2, 3, 4, 5, 11} \/ k \in {6, 7, 8, 9, 10}
    OBVIOUS
<1> QED BY <1>3, <1>4, <1>5

\* The fourth call brings up the bridge.
LEMMA BridgeFourth == \A p \in Driver!Parts : ProbeOf[p] = 4 <=> p = "bridge"
BY DEF ProbeOf, Driver!Parts, Driver!Works, Driver!Files

\* Steps of the power thread other than the last.
Calling == Driver!PowerStep /\ ~Driver!Finished

\* There is a call to make.
LEMMA CallingTodo ==
    ASSUME LifeTypes, Calling
    PROVE  todo # <<>> /\ todo \in Seq(CallSet) /\ Tail(todo) \in Seq(CallSet)
<1>1. todo # <<>> /\ todo \in Seq(CallSet)
    BY DEF Calling, Driver!PowerStep, Driver!Fails, Driver!StartBridge, Driver!ResetBridge,
       Driver!WaitForDdr, Driver!BridgeReady, Driver!LinkInit, Driver!Route, Driver!Quiesce,
       Driver!Disconnect, Driver!SyncIrq, Driver!StopBridge, Driver!UnregisterVideoDma,
       Driver!CleanUpVideoDma, Driver!CleanUpBridge, Driver!ClearMaster, Driver!InitPart,
       Driver!SuspendPart, Driver!ResumePart, Driver!CleanUp, Driver!Call, LifeTypes
<1> QED BY <1>1, NextCall

\* A call of probe, or the failure of one.
LEMMA ProbingSteps == LifeInv /\ pm = "probing" /\ Calling => LifeInv'
<1> SUFFICES ASSUME LifeInv, pm = "probing", Calling PROVE LifeInv'
    OBVIOUS
<1>1. LifeTypes /\ Holders /\ Driver!CalleesAlive /\ Driver!RoutedLast /\ Stages
    BY DEF LifeInv, LifeBase
<1>2. PICK k \in 1 .. 19 : ProbeAt(k)
    BY <1>1 DEF Stages
<1> DEFINE c == Head(todo)
<1>3. todo # <<>> /\ todo \in Seq(CallSet)
    BY <1>1, CallingTodo
<1>4. /\ k \in 1 .. 18 /\ c = Driver!Probe[k] /\ k + 1 \in 1 .. 19
      /\ todo' = Tail(todo) => At(Driver!Probe, 18, k + 1)'
    <2>1. At(Driver!Probe, 18, k)
        BY <1>2 DEF ProbeAt
    <2>2. /\ k \in 1 .. 18 /\ Head(todo) = Driver!Probe[k] /\ k + 1 \in 1 .. 18 + 1
          /\ todo' = Tail(todo) => At(Driver!Probe, 18, k + 1)'
        BY <1>3, <2>1, AtNext
    <2> QED BY <2>2
<1>5. /\ c[1] \in {"start", "reset", "ddr", "ready", "link", "init", "route"}
      /\ c[1] = "ready" => k = 4
      /\ c[1] = "route" => k = 18
      /\ c[1] \in {"start", "reset", "ddr", "link", "route"} =>
             \A p \in Driver!Parts : ProbeOf[p] # k
      /\ c[1] = "init" => \A p \in Driver!Parts : ProbeOf[p] = k <=> p = c[2]
    BY <1>4, ProbeCalls
<1>6. ~routing
    BY <1>2, <1>4 DEF ProbeAt
<1>7. /\ \A p \in up : ProbeOf[p] < k
      /\ \A p \in Driver!Parts \ {"led"} : ProbeOf[p] < k => p \in up
      /\ "video_dma" \in up => callback
    BY <1>2 DEF ProbeAt
<1>8. \A p \in Driver!Parts : ProbeOf[p] \in 4 .. 17 /\ (ProbeOf[p] < k + 1 <=>
                                                          ProbeOf[p] < k \/ ProbeOf[p] = k)
    BY <1>4, ProbeOrder
<1>9. Tail(todo) \in Seq(CallSet) /\ up \subseteq Driver!Parts
    BY <1>1, <1>3, NextCall DEF LifeTypes
<1>10. ASSUME pm' = "probing", ProbeAt(k + 1)' PROVE Stages'
    BY <1>4, <1>10 DEF Stages
<1> HIDE DEF c
<1>11. CASE Driver!Fails
    <2>1. /\ c[2] # "led" /\ pm' = "unwinding" /\ todo' = Driver!Unwind(c)
          /\ routing' \in BOOLEAN /\ (routing' => routing)
          /\ driver_ready' \in BOOLEAN /\ (driver_ready' => driver_ready)
          /\ UNCHANGED <<up, work, uses, file, file_uses, driver_irq, irq_uses, callback, regs,
                         master, present, sleeps>>
        BY <1>1, <1>11 DEF Driver!Fails, Driver!actorVars, LifeTypes, c
    <2>2. Falls(todo', up)
        BY <1>4, <1>7, <1>9, <2>1, UnwindsFall
    <2>3. LifeTypes'
        BY <1>1, <2>1, <2>2 DEF LifeTypes, Falls
    <2>4. Holders' /\ Driver!CalleesAlive' /\ Driver!RoutedLast'
        BY <1>1, <1>6, <2>1 DEF Holders, Driver!CalleesAlive, Driver!RoutedLast
    <2>5. Falling'
        BY <1>1, <1>6, <2>1, <2>2, FallsFalling
    <2>6. Stages'
        BY <2>1, <2>5 DEF Stages
    <2> QED BY <2>3, <2>4, <2>6 DEF LifeInv, LifeBase
<1>12. CASE Driver!StartBridge \/ Driver!ResetBridge \/ Driver!WaitForDdr \/ Driver!LinkInit
    <2>1. /\ c[1] \in {"start", "reset", "ddr", "link"} /\ pm' = "probing" /\ todo' = Tail(todo)
          /\ routing' \in BOOLEAN /\ (routing' => routing)
          /\ driver_ready' \in BOOLEAN /\ (driver_ready' => driver_ready)
          /\ UNCHANGED <<up, work, uses, file, file_uses, driver_irq, irq_uses, callback, regs,
                         master, present, sleeps>>
        <3>1. routing \in BOOLEAN /\ driver_ready \in BOOLEAN
            BY <1>1 DEF LifeTypes
        <3>2. \A x, p : <<x, p>>[1] = x
            OBVIOUS
        <3>3. CASE Driver!StartBridge
            BY <3>1, <3>2, <3>3 DEF Driver!StartBridge, Driver!Call, Driver!actorVars, c
        <3>4. CASE Driver!ResetBridge
            BY <3>1, <3>2, <3>4
            DEF Driver!ResetBridge, Driver!Call, Driver!actorVars, Driver!bridgeVars, c
        <3>5. CASE Driver!WaitForDdr
            BY <3>1, <3>2, <3>5
            DEF Driver!WaitForDdr, Driver!Call, Driver!actorVars, Driver!bridgeVars, c
        <3>6. CASE Driver!LinkInit
            BY <3>1, <3>2, <3>6
            DEF Driver!LinkInit, Driver!Call, Driver!actorVars, Driver!bridgeVars, c
        <3> QED BY <1>12, <3>3, <3>4, <3>5, <3>6
    <2>2. LifeTypes'
        BY <1>1, <1>9, <2>1 DEF LifeTypes
    <2>3. Holders' /\ Driver!CalleesAlive' /\ Driver!RoutedLast'
        BY <1>1, <1>6, <2>1 DEF Holders, Driver!CalleesAlive, Driver!RoutedLast
    <2>4. ProbeAt(k + 1)'
        BY <1>4, <1>5, <1>6, <1>7, <1>8, <1>9, <2>1 DEF ProbeAt
    <2> QED BY <1>10, <2>1, <2>2, <2>3, <2>4 DEF LifeInv, LifeBase
<1>13. CASE Driver!BridgeReady
    <2>1. /\ c[1] = "ready" /\ pm' = "probing" /\ todo' = Tail(todo)
          /\ routing' = FALSE /\ driver_ready' = TRUE /\ up' = up \cup {"bridge"}
          /\ UNCHANGED <<work, uses, file, file_uses, driver_irq, irq_uses, callback, regs,
                         master, present, sleeps>>
        BY <1>13 DEF Driver!BridgeReady, Driver!Call, Driver!actorVars, c
    <2>2. LifeTypes'
        BY <1>1, <1>9, <2>1 DEF LifeTypes, Driver!Parts
    <2>3. Holders' /\ Driver!CalleesAlive' /\ Driver!RoutedLast'
        BY <1>1, <2>1 DEF Holders, Driver!CalleesAlive, Driver!RoutedLast
    <2>4. ProbeAt(k + 1)'
        <3>1. k = 4 /\ \A p \in Driver!Parts : ProbeOf[p] = k <=> p = "bridge"
            BY <1>5, <2>1, BridgeFourth
        <3>2. up' \subseteq Driver!Parts
            BY <2>2 DEF LifeTypes
        <3> QED BY <1>4, <1>7, <1>8, <1>9, <2>1, <3>1, <3>2 DEF ProbeAt
    <2> QED BY <1>10, <2>1, <2>2, <2>3, <2>4 DEF LifeInv, LifeBase
<1>14. ASSUME NEW part \in Driver!Parts, Driver!InitPart(part) PROVE LifeInv'
    <2>1. /\ c[1] = "init" /\ c[2] = part /\ pm' = "probing" /\ todo' = Tail(todo)
          /\ (up' = up \cup {part} \/ (part = "led" /\ up' = up))
          /\ work' = IF part \in Driver!Works THEN [work EXCEPT ![part] = "queued"] ELSE work
          /\ callback' = (callback \/ part = "video_dma")
          /\ UNCHANGED <<uses, file, file_uses, driver_irq, irq_uses, driver_ready, routing, regs,
                         master, present, sleeps>>
        BY <1>14 DEF Driver!InitPart, Driver!Call, Driver!bridgeVars, c
    <2>2. up \subseteq up' /\ (part # "led" => part \in up') /\ up' \subseteq Driver!Parts
          /\ up' \subseteq up \cup {part}
        BY <1>9, <2>1
    <2>3. ProbeOf[part] = k /\ part \notin up
        BY <1>5, <1>7, <1>8, <1>9, <2>1
    <2>4. LifeTypes'
        BY <1>1, <1>9, <2>1, <2>2 DEF LifeTypes
    <2>5. part \in Driver!Works => uses[part] = {} /\ part # "led"
        BY <1>1, <2>3 DEF Holders, Driver!Works
    <2>6. Holders'
        BY <1>1, <2>1, <2>2, <2>5 DEF Holders, LifeTypes
    <2>7. Driver!CalleesAlive' /\ Driver!RoutedLast'
        BY <1>1, <1>6, <2>1, <2>2 DEF Driver!CalleesAlive, Driver!RoutedLast
    <2>8. ProbeAt(k + 1)'
        <3>1. \A p \in Driver!Parts : ProbeOf[p] = k <=> p = part
            BY <1>5, <2>1
        <3>2. "video_dma" \in up' => callback'
            BY <1>7, <2>1
        <3>3. \A p \in up' : ProbeOf[p] < k + 1
            BY <1>7, <1>8, <1>9, <2>2, <2>3
        <3>4. \A p \in Driver!Parts \ {"led"} : ProbeOf[p] < k + 1 => p \in up'
            BY <1>7, <1>8, <2>2, <3>1
        <3> QED BY <1>4, <1>6, <2>1, <3>2, <3>3, <3>4 DEF ProbeAt
    <2> QED BY <1>10, <2>1, <2>4, <2>6, <2>7, <2>8 DEF LifeInv, LifeBase
<1>15. CASE Driver!Route
    <2>1. /\ c[1] = "route" /\ pm' = "probing" /\ todo' = Tail(todo)
          /\ driver_ready /\ routing' = TRUE
          /\ UNCHANGED <<up, work, uses, file, file_uses, driver_irq, irq_uses, callback,
                         driver_ready, regs, master, present, sleeps>>
        BY <1>15 DEF Driver!Route, Driver!Call, Driver!actorVars, c
    <2>2. k = 18
        BY <1>5, <2>1
    <2>3. Driver!Parts \ {"led"} \subseteq up
        <3>1. \A p \in Driver!Parts : ProbeOf[p] < 18
            BY ProbeOrder
        <3> QED BY <1>7, <2>2, <3>1
    <2>4. /\ {"dma", "video_dma", "audio", "video", "it6805", "it6664", "i2c"} \subseteq up
          /\ callback
        BY <1>7, <2>3 DEF Driver!Parts, Driver!Works, Driver!Files
    <2>5. LifeTypes'
        BY <1>1, <1>9, <2>1 DEF LifeTypes
    <2>6. Holders' /\ Driver!CalleesAlive' /\ Driver!RoutedLast'
        BY <1>1, <2>1, <2>4 DEF Holders, Driver!CalleesAlive, Driver!RoutedLast
    <2>7. ProbeAt(k + 1)'
        BY <1>4, <1>5, <1>7, <1>8, <1>9, <2>1, <2>2 DEF ProbeAt
    <2> QED BY <1>10, <2>1, <2>5, <2>6, <2>7 DEF LifeInv, LifeBase
<1>16. /\ ~Driver!Quiesce /\ ~Driver!Disconnect /\ ~Driver!SyncIrq /\ ~Driver!StopBridge
       /\ ~Driver!UnregisterVideoDma /\ ~Driver!CleanUpVideoDma /\ ~Driver!CleanUpBridge
       /\ ~Driver!ClearMaster
       /\ \A part : ~Driver!SuspendPart(part) /\ ~Driver!ResumePart(part) /\ ~Driver!CleanUp(part)
    <2>1. \A x \in {"quiesce", "disconnect", "sync", "stop", "cleanup", "clear",
                    "suspend", "resume"} : \A p : c # <<x, p>>
        <3>1. \A x, p : <<x, p>>[1] = x
            OBVIOUS
        <3> QED BY <1>5, <3>1
    <2> QED BY <2>1 DEF Driver!Quiesce, Driver!Disconnect, Driver!SyncIrq, Driver!StopBridge,
            Driver!UnregisterVideoDma, Driver!CleanUpVideoDma, Driver!CleanUpBridge,
            Driver!ClearMaster, Driver!SuspendPart, Driver!ResumePart, Driver!CleanUp,
            Driver!Call, c
<1> QED BY <1>11, <1>12, <1>13, <1>14, <1>15, <1>16 DEF Calling, Driver!PowerStep

\* A call of resume, or the failure of one.
LEMMA ResumingSteps == LifeInv /\ pm = "resuming" /\ Calling => LifeInv'
<1> SUFFICES ASSUME LifeInv, pm = "resuming", Calling PROVE LifeInv'
    OBVIOUS
<1>1. LifeTypes /\ Holders /\ Driver!CalleesAlive /\ Driver!RoutedLast /\ Stages
    BY DEF LifeInv, LifeBase
<1>2. PICK k \in 1 .. 12 : ResumeAt(k)
    BY <1>1 DEF Stages
<1> DEFINE c == Head(todo)
<1>3. todo # <<>> /\ todo \in Seq(CallSet) /\ Tail(todo) \in Seq(CallSet)
    BY <1>1, CallingTodo
<1>4. /\ k \in 1 .. 11 /\ c = Driver!ResumeCalls[k] /\ k + 1 \in 1 .. 12
      /\ todo' = Tail(todo) => At(Driver!ResumeCalls, 11, k + 1)'
    <2>1. At(Driver!ResumeCalls, 11, k)
        BY <1>2 DEF ResumeAt
    <2>2. /\ k \in 1 .. 11 /\ Head(todo) = Driver!ResumeCalls[k] /\ k + 1 \in 1 .. 11 + 1
          /\ todo' = Tail(todo) => At(Driver!ResumeCalls, 11, k + 1)'
        BY <1>3, <2>1, AtNext
    <2> QED BY <2>2
<1>5. /\ c[1] \in {"start", "reset", "ddr", "ready", "link", "resume", "route"}
      /\ c[1] = "ready" => k = 4
      /\ c[1] = "route" => k = 11
      /\ c[1] # "resume" => \A w \in Driver!Works : ResumeOf[w] # k
      /\ c[1] = "resume" => \A w \in Driver!Works : ResumeOf[w] = k <=> w = c[2]
    BY <1>4, ResumeCallsAre
<1>6. /\ ~routing /\ driver_ready \in BOOLEAN /\ (driver_ready => k > 4)
      /\ \A w \in Driver!Works : work[w] # "off" => ResumeOf[w] < k
    BY <1>1, <1>2, <1>4 DEF ResumeAt, LifeTypes
<1>7. Driver!Parts \ {"led"} \subseteq up /\ callback /\ up \subseteq Driver!Parts
    BY <1>1 DEF Stages, LifeTypes
<1>8. \A w \in Driver!Works : ResumeOf[w] \in Nat /\ (ResumeOf[w] < k + 1 <=>
                                                      ResumeOf[w] < k \/ ResumeOf[w] = k)
    <2>1. \A w \in Driver!Works : ResumeOf[w] \in Nat
        BY DEF ResumeOf
    <2> QED BY <1>4, <2>1
<1>9. ASSUME pm' = "resuming", ResumeAt(k + 1)', Driver!Parts \ {"led"} \subseteq up', callback'
      PROVE  Stages'
    BY <1>4, <1>9 DEF Stages
<1>10. \A x, p : <<x, p>>[1] = x /\ <<x, p>>[2] = p
    OBVIOUS
<1> HIDE DEF c
<1>11. CASE Driver!Fails
    <2>1. /\ c[2] # "led" /\ c \notin {<<"resume", "audio">>, <<"resume", "video">>}
          /\ pm' = "relapsing" /\ todo' = Driver!Relapse(c)
          /\ routing' \in BOOLEAN /\ (routing' => routing)
          /\ driver_ready' \in BOOLEAN /\ (driver_ready' => driver_ready)
          /\ UNCHANGED <<up, work, uses, file, file_uses, driver_irq, irq_uses, callback, regs,
                         master, present, sleeps>>
        BY <1>1, <1>11 DEF Driver!Fails, Driver!actorVars, LifeTypes, c
    <2>2. /\ todo' \in Seq(CallSet) /\ Only(todo', SleepCalls)
          /\ \A w \in Driver!Works : ResumeOf[w] < k => Due(todo', <<"suspend", w>>)
          /\ k > 4 => todo' # <<>> /\ Head(todo')[1] = "quiesce"
        BY <1>4, <2>1, RelapseStops
    <2>3. LifeTypes'
        BY <1>1, <2>1, <2>2 DEF LifeTypes
    <2>4. Holders' /\ Driver!CalleesAlive' /\ Driver!RoutedLast'
        BY <1>1, <1>6, <2>1 DEF Holders, Driver!CalleesAlive, Driver!RoutedLast
    <2>5. Stopping'
        BY <1>6, <2>1, <2>2 DEF Stopping
    <2>6. Stages'
        BY <1>7, <2>1, <2>5 DEF Stages
    <2> QED BY <2>3, <2>4, <2>6 DEF LifeInv, LifeBase
<1>12. CASE Driver!StartBridge \/ Driver!ResetBridge \/ Driver!WaitForDdr \/ Driver!LinkInit
    <2>1. /\ c[1] \in {"start", "reset", "ddr", "link"} /\ pm' = "resuming" /\ todo' = Tail(todo)
          /\ routing' \in BOOLEAN /\ (routing' => routing)
          /\ driver_ready' \in BOOLEAN /\ (driver_ready' => driver_ready)
          /\ UNCHANGED <<up, work, uses, file, file_uses, driver_irq, irq_uses, callback, regs,
                         master, present, sleeps>>
        <3>1. routing \in BOOLEAN /\ driver_ready \in BOOLEAN
            BY <1>1 DEF LifeTypes
        <3>3. CASE Driver!StartBridge
            BY <1>10, <3>1, <3>3 DEF Driver!StartBridge, Driver!Call, Driver!actorVars, c
        <3>4. CASE Driver!ResetBridge
            BY <1>10, <3>1, <3>4
            DEF Driver!ResetBridge, Driver!Call, Driver!actorVars, Driver!bridgeVars, c
        <3>5. CASE Driver!WaitForDdr
            BY <1>10, <3>1, <3>5
            DEF Driver!WaitForDdr, Driver!Call, Driver!actorVars, Driver!bridgeVars, c
        <3>6. CASE Driver!LinkInit
            BY <1>10, <3>1, <3>6
            DEF Driver!LinkInit, Driver!Call, Driver!actorVars, Driver!bridgeVars, c
        <3> QED BY <1>12, <3>3, <3>4, <3>5, <3>6
    <2>2. LifeTypes'
        BY <1>1, <1>3, <2>1 DEF LifeTypes
    <2>3. Holders' /\ Driver!CalleesAlive' /\ Driver!RoutedLast'
        BY <1>1, <1>6, <2>1 DEF Holders, Driver!CalleesAlive, Driver!RoutedLast
    <2>4. ResumeAt(k + 1)'
        BY <1>4, <1>6, <1>8, <2>1 DEF ResumeAt
    <2> QED BY <1>7, <1>9, <2>1, <2>2, <2>3, <2>4 DEF LifeInv, LifeBase
<1>13. CASE Driver!BridgeReady
    <2>1. /\ c[1] = "ready" /\ pm' = "resuming" /\ todo' = Tail(todo)
          /\ routing' = FALSE /\ driver_ready' = TRUE /\ up' = up \cup {"bridge"}
          /\ UNCHANGED <<work, uses, file, file_uses, driver_irq, irq_uses, callback, regs,
                         master, present, sleeps>>
        BY <1>13 DEF Driver!BridgeReady, Driver!Call, Driver!actorVars, c
    <2>2. LifeTypes'
        BY <1>1, <1>3, <2>1 DEF LifeTypes, Driver!Parts
    <2>3. Holders' /\ Driver!CalleesAlive' /\ Driver!RoutedLast'
        BY <1>1, <2>1 DEF Holders, Driver!CalleesAlive, Driver!RoutedLast
    <2>4. ResumeAt(k + 1)'
        <3>1. k = 4 /\ k + 1 > 4
            BY <1>5, <2>1
        <3> QED BY <1>4, <1>6, <1>8, <2>1, <3>1 DEF ResumeAt
    <2> QED BY <1>7, <1>9, <2>1, <2>2, <2>3, <2>4 DEF LifeInv, LifeBase
<1>14. ASSUME NEW part \in Driver!Parts, Driver!ResumePart(part) PROVE LifeInv'
    <2>1. /\ c[1] = "resume" /\ c[2] = part /\ pm' = "resuming" /\ todo' = Tail(todo)
          /\ work' = IF part \in Driver!Works THEN [work EXCEPT ![part] = "queued"] ELSE work
          /\ UNCHANGED <<up, uses, file, file_uses, driver_irq, irq_uses, callback, driver_ready,
                         routing, regs, master, present, sleeps>>
        BY <1>14 DEF Driver!ResumePart, Driver!Call, Driver!bridgeVars, c
    <2>2. LifeTypes'
        BY <1>1, <1>3, <2>1 DEF LifeTypes
    <2>3. part \in Driver!Works => uses[part] = {} /\ part \in up
        <3>1. "led" \notin Driver!Works
            BY DEF Driver!Works
        <3>2. part \in Driver!Works => ~(ResumeOf[part] < k)
            BY <1>4, <1>5, <2>1
        <3> QED BY <1>1, <1>6, <1>7, <3>1, <3>2 DEF Holders
    <2>4. Holders'
        BY <1>1, <2>1, <2>3 DEF Holders, LifeTypes
    <2>5. Driver!CalleesAlive' /\ Driver!RoutedLast'
        BY <1>1, <1>6, <2>1 DEF Driver!CalleesAlive, Driver!RoutedLast
    <2>6. ResumeAt(k + 1)'
        <3>1. \A w \in Driver!Works : work'[w] # "off" => ResumeOf[w] < k + 1
            BY <1>1, <1>5, <1>6, <1>8, <2>1 DEF LifeTypes
        <3> QED BY <1>4, <1>6, <2>1, <3>1 DEF ResumeAt
    <2> QED BY <1>7, <1>9, <2>1, <2>2, <2>4, <2>5, <2>6 DEF LifeInv, LifeBase
<1>15. CASE Driver!Route
    <2>1. /\ c[1] = "route" /\ pm' = "resuming" /\ todo' = Tail(todo)
          /\ driver_ready /\ routing' = TRUE
          /\ UNCHANGED <<up, work, uses, file, file_uses, driver_irq, irq_uses, callback,
                         driver_ready, regs, master, present, sleeps>>
        BY <1>15 DEF Driver!Route, Driver!Call, Driver!actorVars, c
    <2>2. {"dma", "video_dma", "audio", "video", "it6805", "it6664", "i2c"} \subseteq up
        BY <1>7 DEF Driver!Parts, Driver!Works, Driver!Files
    <2>3. LifeTypes'
        BY <1>1, <1>3, <2>1 DEF LifeTypes
    <2>4. Holders' /\ Driver!CalleesAlive' /\ Driver!RoutedLast'
        BY <1>1, <1>7, <2>1, <2>2 DEF Holders, Driver!CalleesAlive, Driver!RoutedLast
    <2>5. ResumeAt(k + 1)'
        <3>1. k + 1 = 12
            BY <1>5, <2>1
        <3> QED BY <1>4, <1>6, <1>8, <2>1, <3>1 DEF ResumeAt
    <2> QED BY <1>7, <1>9, <2>1, <2>3, <2>4, <2>5 DEF LifeInv, LifeBase
<1>16. /\ ~Driver!Quiesce /\ ~Driver!Disconnect /\ ~Driver!SyncIrq /\ ~Driver!StopBridge
       /\ ~Driver!UnregisterVideoDma /\ ~Driver!CleanUpVideoDma /\ ~Driver!CleanUpBridge
       /\ ~Driver!ClearMaster
       /\ \A part : ~Driver!SuspendPart(part) /\ ~Driver!InitPart(part) /\ ~Driver!CleanUp(part)
    <2>1. \A x \in {"quiesce", "disconnect", "sync", "stop", "cleanup", "clear",
                    "suspend", "init"} : \A p : c # <<x, p>>
        <3>1. c[1] \notin {"quiesce", "disconnect", "sync", "stop", "cleanup",
                           "clear", "suspend", "init"}
            BY <1>5
        <3> QED BY <1>10, <3>1
    <2> QED BY <2>1 DEF Driver!Quiesce, Driver!Disconnect, Driver!SyncIrq, Driver!StopBridge,
            Driver!UnregisterVideoDma, Driver!CleanUpVideoDma, Driver!CleanUpBridge,
            Driver!ClearMaster, Driver!SuspendPart, Driver!InitPart, Driver!CleanUp,
            Driver!Call, c
<1> QED BY <1>11, <1>12, <1>13, <1>14, <1>15, <1>16 DEF Calling, Driver!PowerStep

\* A call that stops the driver, before it sleeps or because it could not wake.
LEMMA StoppingSteps ==
    LifeInv /\ pm \in {"suspending", "relapsing"} /\ Calling => LifeInv'
<1> SUFFICES ASSUME LifeInv, pm \in {"suspending", "relapsing"}, Calling PROVE LifeInv'
    OBVIOUS
<1>1. LifeTypes /\ Holders /\ Driver!CalleesAlive /\ Driver!RoutedLast /\ Stages /\ Stopping
    BY DEF LifeInv, LifeBase, Stages
<1> DEFINE c == Head(todo)
<1>2. todo # <<>> /\ todo \in Seq(CallSet) /\ Tail(todo) \in Seq(CallSet)
    BY <1>1, CallingTodo
<1>3. /\ c[1] \in SleepCalls /\ Only(Tail(todo), SleepCalls)
      /\ \A x : Due(todo, x) /\ c # x => Due(Tail(todo), x)
    BY <1>1, <1>2, NextCall DEF Stopping
<1>4. Driver!Parts \ {"led"} \subseteq up /\ callback /\ up \subseteq Driver!Parts
    BY <1>1 DEF Stages, LifeTypes
<1>5. \A x, p : <<x, p>>[1] = x /\ <<x, p>>[2] = p
    OBVIOUS
<1>6. c[1] # "quiesce" => ~driver_ready /\ ~routing
    BY <1>1 DEF Stopping, Driver!RoutedLast
<1>7. routing \in BOOLEAN /\ driver_ready \in BOOLEAN
    BY <1>1 DEF LifeTypes
<1> HIDE DEF c
<1>8. CASE Driver!Quiesce \/ Driver!SyncIrq \/ Driver!StopBridge
    <2>1. /\ c[1] # "suspend" /\ pm' = pm /\ todo' = Tail(todo)
          /\ routing' = FALSE /\ driver_ready' = FALSE
          /\ UNCHANGED <<up, work, uses, file, file_uses, driver_irq, irq_uses, callback, regs,
                         master, present, sleeps>>
        <3>1. CASE Driver!Quiesce
            BY <1>5, <3>1 DEF Driver!Quiesce, Driver!Call, Driver!actorVars, c
        <3>2. CASE Driver!SyncIrq
            BY <1>5, <1>6, <1>7, <3>2
            DEF Driver!SyncIrq, Driver!Call, Driver!actorVars, Driver!bridgeVars, c
        <3>3. CASE Driver!StopBridge
            BY <1>5, <3>3 DEF Driver!StopBridge, Driver!Call, Driver!actorVars, c
        <3> QED BY <1>8, <3>1, <3>2, <3>3
    <2>2. LifeTypes'
        BY <1>1, <1>2, <2>1 DEF LifeTypes
    <2>3. Holders' /\ Driver!CalleesAlive' /\ Driver!RoutedLast'
        BY <1>1, <2>1 DEF Holders, Driver!CalleesAlive, Driver!RoutedLast
    <2>4. Stopping'
        <3>1. \A w : c # <<"suspend", w>>
            BY <1>5, <2>1
        <3> QED BY <1>1, <1>3, <2>1, <3>1 DEF Stopping
    <2>5. Stages'
        BY <1>4, <2>1, <2>4 DEF Stages
    <2> QED BY <2>2, <2>3, <2>5 DEF LifeInv, LifeBase
<1>9. ASSUME NEW part \in Driver!Parts, Driver!SuspendPart(part) PROVE LifeInv'
    <2>1. /\ c = <<"suspend", part>> /\ pm' = pm /\ todo' = Tail(todo)
          /\ UNCHANGED <<up, uses, file, file_uses, driver_irq, irq_uses, callback, driver_ready,
                         routing, regs, master, present, sleeps>>
          /\ \/ /\ part \in Driver!Works /\ work[part] # "running"
                /\ work' = [work EXCEPT ![part] = "off"]
             \/ part \notin Driver!Works \cap up /\ work' = work
        BY <1>9 DEF Driver!SuspendPart, Driver!Call, Driver!bridgeVars, c
    <2>2. LifeTypes'
        BY <1>1, <1>2, <2>1 DEF LifeTypes
    <2>3. Holders'
        BY <1>1, <2>1 DEF Holders, LifeTypes
    <2>4. Driver!CalleesAlive' /\ Driver!RoutedLast'
        BY <1>1, <2>1 DEF Driver!CalleesAlive, Driver!RoutedLast
    <2>5. c[1] = "suspend" /\ ~driver_ready
        BY <1>5, <1>6, <2>1
    <2>6. Driver!Works \subseteq up
        <3>1. Driver!Works \subseteq Driver!Parts \ {"led"}
            BY DEF Driver!Works, Driver!Parts
        <3> QED BY <1>4, <3>1
    <2>7. \A w \in Driver!Works : work'[w] # "off" => Due(todo', <<"suspend", w>>)
        <3> SUFFICES ASSUME NEW w \in Driver!Works, work'[w] # "off"
                     PROVE  Due(Tail(todo), <<"suspend", w>>)
            BY <2>1
        <3>1. w # part /\ work[w] # "off"
            BY <1>1, <2>1, <2>6 DEF LifeTypes
        <3>2. c # <<"suspend", w>>
            BY <1>5, <2>1, <3>1
        <3> QED BY <1>1, <1>3, <3>1, <3>2 DEF Stopping
    <2>8. Stopping'
        BY <1>3, <2>1, <2>5, <2>7 DEF Stopping
    <2>9. Stages'
        BY <1>4, <2>1, <2>8 DEF Stages
    <2> QED BY <2>2, <2>3, <2>4, <2>9 DEF LifeInv, LifeBase
<1>10. /\ ~Driver!Fails /\ ~Driver!StartBridge /\ ~Driver!ResetBridge /\ ~Driver!WaitForDdr
       /\ ~Driver!BridgeReady /\ ~Driver!LinkInit /\ ~Driver!Route /\ ~Driver!Disconnect
       /\ ~Driver!UnregisterVideoDma /\ ~Driver!CleanUpVideoDma /\ ~Driver!CleanUpBridge
       /\ ~Driver!ClearMaster
       /\ \A part : ~Driver!InitPart(part) /\ ~Driver!ResumePart(part) /\ ~Driver!CleanUp(part)
    <2>1. \A x \in {"start", "reset", "ddr", "ready", "link", "route", "disconnect", "cleanup",
                    "clear", "init", "resume"} : \A p : c # <<x, p>>
        BY <1>3, <1>5 DEF SleepCalls
    <2> QED BY <2>1 DEF Driver!Fails, Driver!StartBridge, Driver!ResetBridge, Driver!WaitForDdr,
            Driver!BridgeReady, Driver!LinkInit, Driver!Route, Driver!Disconnect,
            Driver!UnregisterVideoDma, Driver!CleanUpVideoDma, Driver!CleanUpBridge,
            Driver!ClearMaster, Driver!InitPart, Driver!ResumePart, Driver!CleanUp,
            Driver!Call, c
<1> QED BY <1>8, <1>9, <1>10 DEF Calling, Driver!PowerStep

\* A part that is freed is held by nobody.
LEMMA FreedUnused ==
    ASSUME LifeTypes, Holders, Falling, todo # <<>>, NEW p \in Driver!Parts,
           Head(todo) = <<"cleanup", p>>, p \in {"dma", "video_dma"} => ~driver_irq
    PROVE  /\ \A w \in Driver!Works : p \notin uses[w]
           /\ \A f \in Driver!Files : p \notin file_uses[f]
           /\ p \notin irq_uses
<1>1. \A X, x : Ordered(todo, X, x) => Head(todo) # x
    BY NextCall DEF LifeTypes
<1>2. ASSUME NEW w \in Driver!Works, p \in uses[w] PROVE FALSE
    <2>1. work[w] # "off" /\ p \in Driver!Reaches(w)
        BY <1>2 DEF Holders
    <2> QED BY <1>1, <2>1 DEF Falling
<1>3. ASSUME NEW f \in Driver!Files, p \in file_uses[f] PROVE FALSE
    <2>1. file[f] /\ f \in up /\ p \in Driver!FileReaches(f)
        BY <1>3 DEF Holders
    <2> QED BY <1>1, <2>1 DEF Falling
<1>4. ASSUME p \in irq_uses PROVE FALSE
    <2>1. driver_irq /\ "dma" \in up /\ p \in {"dma", "i2c", "video_dma"}
        BY <1>4 DEF Holders
    <2>2. p = "i2c"
        BY <2>1
    <2> QED BY <1>1, <2>1, <2>2 DEF Falling
<1> QED BY <1>2, <1>3, <1>4

\* A call of removal, or of what probe undoes, leaves the rest in order.
LEMMA FallsOn ==
    ASSUME LifeTypes, Falling, todo # <<>>, todo' = Tail(todo), pm' = pm, up' \subseteq up,
           master' => master /\ Head(todo) # ClearMaster,
           \A p \in up' : Head(todo) # <<"cleanup", p>>,
           \A w \in Driver!Works : work'[w] # "off" => work[w] # "off" /\ Head(todo) \notin Stops(w),
           ~routing'
    PROVE  Falling'
<1> DEFINE c == Head(todo)
           t == Tail(todo)
<1>1. /\ \A x : Due(todo, x) /\ c # x => Due(t, x)
      /\ \A C : Only(todo, C) => Only(t, C)
      /\ \A X, x : Ordered(todo, X, x) /\ c \notin X => Ordered(t, X, x)
    BY NextCall DEF LifeTypes
<1> HIDE DEF c, t
<1>2. Only(t, DownCalls) /\ (master' => Due(t, ClearMaster))
    BY <1>1 DEF Falling, c
<1>3. \A p \in up' : Due(t, <<"cleanup", p>>)
    BY <1>1 DEF Falling, c
<1>4. \A w \in Driver!Works : work'[w] # "off" =>
           \A p \in Driver!Reaches(w) : Ordered(t, Stops(w), <<"cleanup", p>>)
    BY <1>1 DEF Falling, c
<1>5. \A f \in Driver!Files \cap up' : \A p \in Driver!FileReaches(f) :
           Ordered(t, {<<"cleanup", f>>}, <<"cleanup", p>>)
    <2> SUFFICES ASSUME NEW f \in Driver!Files \cap up', NEW p \in Driver!FileReaches(f)
                 PROVE  Ordered(t, {<<"cleanup", f>>}, <<"cleanup", p>>)
        OBVIOUS
    <2>1. c \notin {<<"cleanup", f>>} /\ Ordered(todo, {<<"cleanup", f>>}, <<"cleanup", p>>)
        BY DEF Falling, c
    <2> QED BY <1>1, <2>1
<1>6. "dma" \in up' => Ordered(t, {<<"cleanup", "dma">>}, <<"cleanup", "i2c">>)
    <2> SUFFICES ASSUME "dma" \in up'
                 PROVE  Ordered(t, {<<"cleanup", "dma">>}, <<"cleanup", "i2c">>)
        OBVIOUS
    <2>1. /\ c \notin {<<"cleanup", "dma">>}
          /\ Ordered(todo, {<<"cleanup", "dma">>}, <<"cleanup", "i2c">>)
        BY DEF Falling, c
    <2> QED BY <1>1, <2>1
<1> QED BY <1>2, <1>3, <1>4, <1>5, <1>6 DEF Falling, t

\* A call of removal, or of what probe undoes.
LEMMA FallingSteps ==
    LifeInv /\ pm \in {"removing", "unwinding"} /\ Calling => LifeInv'
<1> SUFFICES ASSUME LifeInv, pm \in {"removing", "unwinding"}, Calling PROVE LifeInv'
    OBVIOUS
<1>1. LifeTypes /\ Holders /\ Driver!CalleesAlive /\ Driver!RoutedLast /\ Stages /\ Falling
    BY DEF LifeInv, LifeBase, Stages
<1> DEFINE c == Head(todo)
<1>2. todo # <<>> /\ todo \in Seq(CallSet) /\ Tail(todo) \in Seq(CallSet)
    BY <1>1, CallingTodo
<1>3. c[1] \in DownCalls
    BY <1>1, <1>2, NextCall DEF Falling
<1>4. \A x, p : <<x, p>>[1] = x /\ <<x, p>>[2] = p
    OBVIOUS
<1>5. c[1] \notin {"quiesce", "disconnect"} => ~routing
    BY <1>1 DEF Falling
<1>6. up \subseteq Driver!Parts
    BY <1>1 DEF LifeTypes
<1>7. ASSUME pm' = pm, Falling' PROVE Stages'
    BY <1>7 DEF Stages
<1>8. /\ \A w : c[1] \notin {"suspend", "cleanup"} => c \notin Stops(w)
      /\ \A p : c[1] # "cleanup" => c # <<"cleanup", p>>
      /\ c[1] # "clear" => c # ClearMaster
    BY <1>4 DEF Stops, ClearMaster
<1> HIDE DEF c
<1>9. CASE Driver!Quiesce \/ Driver!Disconnect \/ Driver!SyncIrq
    <2>1. /\ c[1] \in {"quiesce", "disconnect", "sync"} /\ pm' = pm /\ todo' = Tail(todo)
          /\ ~routing' /\ routing' \in BOOLEAN
          /\ driver_ready' \in BOOLEAN /\ (driver_ready' => driver_ready) /\ regs' \in BOOLEAN
          /\ UNCHANGED <<up, work, uses, file, file_uses, driver_irq, irq_uses, callback,
                         master, present, sleeps>>
        <3>1. routing \in BOOLEAN /\ driver_ready \in BOOLEAN /\ regs \in BOOLEAN
            BY <1>1 DEF LifeTypes
        <3>2. CASE Driver!Quiesce
            BY <1>4, <3>1, <3>2 DEF Driver!Quiesce, Driver!Call, Driver!actorVars, c
        <3>3. CASE Driver!Disconnect
            BY <1>4, <3>1, <3>3 DEF Driver!Disconnect, Driver!Call, Driver!actorVars, c
        <3>4. CASE Driver!SyncIrq
            <4>1. c = <<"sync", "dma">> /\ pm' = pm /\ todo' = Tail(todo)
                BY <3>4 DEF Driver!SyncIrq, Driver!Call, c
            <4>2. c[1] = "sync"
                BY <1>4, <4>1
            <4> QED BY <1>5, <3>1, <3>4, <4>1, <4>2
                    DEF Driver!SyncIrq, Driver!actorVars, Driver!bridgeVars
        <3> QED BY <1>9, <3>2, <3>3, <3>4
    <2>2. LifeTypes'
        BY <1>1, <1>2, <2>1 DEF LifeTypes
    <2>3. Holders' /\ Driver!CalleesAlive' /\ Driver!RoutedLast'
        BY <1>1, <2>1 DEF Holders, Driver!CalleesAlive, Driver!RoutedLast
    <2>4. Falling'
        BY <1>1, <1>2, <1>8, <2>1, FallsOn DEF c
    <2> QED BY <1>7, <2>1, <2>2, <2>3, <2>4 DEF LifeInv, LifeBase
<1>10. ASSUME NEW part \in Driver!Parts, Driver!SuspendPart(part) PROVE LifeInv'
    <2>1. /\ c = <<"suspend", part>> /\ pm' = pm /\ todo' = Tail(todo)
          /\ UNCHANGED <<up, uses, file, file_uses, driver_irq, irq_uses, callback, driver_ready,
                         routing, regs, master, present, sleeps>>
          /\ \/ /\ part \in Driver!Works /\ work[part] # "running"
                /\ work' = [work EXCEPT ![part] = "off"]
             \/ part \notin Driver!Works \cap up /\ work' = work
        BY <1>10 DEF Driver!SuspendPart, Driver!Call, Driver!bridgeVars, c
    <2>2. LifeTypes'
        BY <1>1, <1>2, <2>1 DEF LifeTypes
    <2>3. Holders'
        BY <1>1, <2>1 DEF Holders, LifeTypes
    <2>4. Driver!CalleesAlive' /\ Driver!RoutedLast'
        BY <1>1, <2>1 DEF Driver!CalleesAlive, Driver!RoutedLast
    <2>5. c[1] = "suspend" /\ ~routing
        BY <1>4, <1>5, <2>1
    <2>6. ASSUME NEW w \in Driver!Works, work'[w] # "off"
          PROVE  work[w] # "off" /\ c \notin Stops(w)
        <3>1. w # part /\ work[w] # "off"
            BY <1>1, <2>1, <2>6 DEF LifeTypes, Holders
        <3> QED BY <1>4, <2>1, <3>1 DEF Stops
    <2>7. Falling'
        BY <1>1, <1>2, <1>8, <2>1, <2>5, <2>6, FallsOn DEF c
    <2> QED BY <1>7, <2>1, <2>2, <2>3, <2>4, <2>7 DEF LifeInv, LifeBase
<1>11. ASSUME NEW p \in Driver!Parts, c = <<"cleanup", p>>, pm' = pm, todo' = Tail(todo),
              up' = up \ {p}, p \in Driver!Files => ~file[p],
              p \in Driver!Works => work[p] # "running", p \in {"dma", "video_dma"} => ~driver_irq,
              p = "video_dma" => ~callback, p = "bridge" => ~driver_ready',
              work' = IF p \in Driver!Works THEN [work EXCEPT ![p] = "off"] ELSE work,
              UNCHANGED <<uses, file, file_uses, driver_irq, irq_uses, callback, master, present,
                          sleeps>>,
              routing' \in BOOLEAN, routing' => routing, regs' \in BOOLEAN,
              driver_ready' \in BOOLEAN, driver_ready' => driver_ready
       PROVE  LifeInv'
    <2>1. /\ \A w \in Driver!Works : p \notin uses[w]
          /\ \A f \in Driver!Files : p \notin file_uses[f]
          /\ p \notin irq_uses
        BY <1>1, <1>2, <1>11, FreedUnused DEF c
    <2>2. LifeTypes'
        BY <1>1, <1>2, <1>11 DEF LifeTypes
    <2>3. Driver!CalleesAlive'
        BY <1>1, <1>11, <2>1 DEF Driver!CalleesAlive
    <2>4. c[1] = "cleanup" /\ ~routing'
        BY <1>4, <1>5, <1>11
    <2>5. Driver!RoutedLast'
        BY <2>4 DEF Driver!RoutedLast
    <2>6. Holders'
        <3>1. \A w \in Driver!Works : work'[w] # "off" => w \in up' /\ work'[w] = work[w]
            BY <1>1, <1>11 DEF Holders, LifeTypes
        <3>2. \A w \in Driver!Works :
                  uses'[w] \subseteq (IF work'[w] = "running" THEN Driver!Reaches(w) ELSE {})
            BY <1>1, <1>11 DEF Holders, LifeTypes
        <3>3. \A f \in Driver!Files : file'[f] => f \in up'
            BY <1>1, <1>11 DEF Holders
        <3>4. /\ driver_irq' => "dma" \in up'
              /\ callback' => "video_dma" \in up'
              /\ driver_ready' => "bridge" \in up'
            BY <1>1, <1>11 DEF Holders
        <3> QED BY <1>1, <1>11, <3>1, <3>2, <3>3, <3>4 DEF Holders
    <2>7. \A q \in up' : c # <<"cleanup", q>>
        BY <1>4, <1>11
    <2>8. ASSUME NEW w \in Driver!Works, work'[w] # "off"
          PROVE  work[w] # "off" /\ c \notin Stops(w)
        <3>1. w # p /\ work[w] # "off"
            BY <1>1, <1>11, <2>8 DEF LifeTypes
        <3> QED BY <1>4, <1>11, <3>1 DEF Stops
    <2>9. Falling'
        BY <1>1, <1>2, <1>8, <1>11, <2>4, <2>7, <2>8, FallsOn DEF c
    <2> QED BY <1>7, <1>11, <2>2, <2>3, <2>5, <2>6, <2>9 DEF LifeInv, LifeBase
<1>12. /\ routing \in BOOLEAN /\ driver_ready \in BOOLEAN /\ regs \in BOOLEAN
       /\ {"dma", "video_dma", "bridge"} \subseteq Driver!Parts
       /\ "video_dma" \notin Driver!Works /\ "bridge" \notin Driver!Works
       /\ "video_dma" \notin Driver!Files /\ "bridge" \notin Driver!Files
    BY <1>1 DEF LifeTypes, Driver!Parts, Driver!Works, Driver!Files
<1>13. ASSUME NEW part \in Driver!Parts, Driver!CleanUp(part) PROVE LifeInv'
    <2>1. /\ c = <<"cleanup", part>> /\ pm' = pm /\ todo' = Tail(todo) /\ up' = up \ {part}
          /\ part \in Driver!Files => ~file[part]
          /\ part \in Driver!Works => work[part] # "running"
          /\ part = "dma" => ~driver_irq
          /\ part # "video_dma" /\ part # "bridge"
          /\ work' = IF part \in Driver!Works THEN [work EXCEPT ![part] = "off"] ELSE work
          /\ UNCHANGED <<uses, file, file_uses, driver_irq, irq_uses, callback, driver_ready,
                         routing, regs, master, present, sleeps>>
        BY <1>13 DEF Driver!CleanUp, Driver!Call, Driver!bridgeVars, c
    <2> QED BY <1>11, <1>12, <2>1
<1>14. CASE Driver!CleanUpVideoDma
    <2>1. /\ c = <<"cleanup", "video_dma">> /\ pm' = pm /\ todo' = Tail(todo)
          /\ up' = up \ {"video_dma"} /\ ~callback /\ ~driver_irq
          /\ UNCHANGED <<work, uses, file, file_uses, driver_irq, irq_uses, callback, driver_ready,
                         routing, regs, master, present, sleeps>>
        BY <1>14 DEF Driver!CleanUpVideoDma, Driver!Call, Driver!actorVars, Driver!bridgeVars, c
    <2> QED BY <1>11, <1>12, <2>1
<1>15. CASE Driver!CleanUpBridge
    <2>1. /\ c = <<"cleanup", "bridge">> /\ pm' = pm /\ todo' = Tail(todo)
          /\ up' = up \ {"bridge"} /\ routing' = FALSE /\ driver_ready' = FALSE /\ regs' = FALSE
          /\ UNCHANGED <<work, uses, file, file_uses, driver_irq, irq_uses, callback, master,
                         present, sleeps>>
        BY <1>15 DEF Driver!CleanUpBridge, Driver!Call, Driver!actorVars, c
    <2> QED BY <1>11, <1>12, <2>1
<1>16. CASE Driver!UnregisterVideoDma
    <2>1. /\ c = <<"cleanup", "video_dma">> /\ callback' = FALSE
          /\ UNCHANGED <<pm, todo, up, work, uses, file, file_uses, driver_irq, irq_uses,
                         driver_ready, routing, regs, master, present, sleeps>>
        BY <1>16 DEF Driver!UnregisterVideoDma, Driver!pmVars, Driver!actorVars,
           Driver!bridgeVars, c
    <2>2. ~routing
        BY <1>4, <1>5, <2>1
    <2>3. LifeTypes'
        BY <1>1, <2>1 DEF LifeTypes
    <2>4. Holders' /\ Driver!CalleesAlive' /\ Driver!RoutedLast'
        BY <1>1, <2>1, <2>2 DEF Holders, Driver!CalleesAlive, Driver!RoutedLast
    <2>5. Falling'
        BY <1>1, <2>1 DEF Falling
    <2> QED BY <1>7, <2>1, <2>3, <2>4, <2>5 DEF LifeInv, LifeBase
<1>17. CASE Driver!ClearMaster
    <2>1. /\ c = <<"clear", "bridge">> /\ pm' = pm /\ todo' = Tail(todo) /\ master' = FALSE
          /\ UNCHANGED <<up, work, uses, file, file_uses, driver_irq, irq_uses, callback,
                         driver_ready, routing, regs, present, sleeps>>
        BY <1>17 DEF Driver!ClearMaster, Driver!Call, Driver!actorVars, c
    <2>2. c[1] = "clear" /\ ~routing
        BY <1>4, <1>5, <2>1
    <2>3. LifeTypes'
        BY <1>1, <1>2, <2>1 DEF LifeTypes
    <2>4. Holders' /\ Driver!CalleesAlive' /\ Driver!RoutedLast'
        BY <1>1, <2>1, <2>2 DEF Holders, Driver!CalleesAlive, Driver!RoutedLast
    <2>5. Falling'
        BY <1>1, <1>2, <1>8, <2>1, <2>2, FallsOn DEF c
    <2> QED BY <1>7, <2>1, <2>3, <2>4, <2>5 DEF LifeInv, LifeBase
<1>18. /\ ~Driver!Fails /\ ~Driver!StartBridge /\ ~Driver!ResetBridge /\ ~Driver!WaitForDdr
       /\ ~Driver!BridgeReady /\ ~Driver!LinkInit /\ ~Driver!Route /\ ~Driver!StopBridge
       /\ \A part : ~Driver!InitPart(part) /\ ~Driver!ResumePart(part)
    <2>1. \A x \in {"start", "reset", "ddr", "ready", "link", "route", "stop", "init", "resume"} :
              \A p : c # <<x, p>>
        BY <1>3, <1>4 DEF DownCalls
    <2> QED BY <2>1 DEF Driver!Fails, Driver!StartBridge, Driver!ResetBridge, Driver!WaitForDdr,
            Driver!BridgeReady, Driver!LinkInit, Driver!Route, Driver!StopBridge,
            Driver!InitPart, Driver!ResumePart, Driver!Call, c
<1> QED BY <1>9, <1>10, <1>13, <1>14, <1>15, <1>16, <1>17, <1>18 DEF Calling, Driver!PowerStep

\* Every step of the life cycle keeps its invariant.
LEMMA LifeStep == LifeInv /\ [Driver!Next]_(Driver!vars) => LifeInv'
<1> SUFFICES ASSUME LifeInv, [Driver!Next]_(Driver!vars) PROVE LifeInv'
    OBVIOUS
<1>1. CASE Driver!PowerStep
    <2>1. CASE Driver!Finished
        BY <2>1, Finishes
    <2>2. CASE ~Driver!Finished
        <3>1. Calling
            BY <1>1, <2>2 DEF Calling
        <3>2. todo # <<>>
            BY <3>1, CallingTodo DEF LifeInv, LifeBase
        <3>3. pm \in {"probing", "resuming", "suspending", "relapsing", "removing", "unwinding"}
            BY <3>2 DEF LifeInv, LifeBase, LifeTypes, Stages
        <3> QED BY <3>1, <3>3, ProbingSteps, ResumingSteps, StoppingSteps, FallingSteps
    <2> QED BY <2>1, <2>2
<1>2. CASE Driver!StartProbe \/ Driver!StartRemove \/ Driver!StartSuspend \/ Driver!StartResume
    BY <1>2, StartsProbe, StartsRemove, StartsSuspend, StartsResume
<1>3. CASE Driver!Ends \/ \E w \in Driver!Works : Driver!RunWork(w)
    BY <1>3, WorkSteps DEF Driver!Ends
<1>4. CASE \E f \in Driver!Files : Driver!EnterFile(f) \/ Driver!LeaveFile(f)
    BY <1>4, FileSteps
<1>5. CASE Driver!EnterIrq \/ Driver!LeaveIrq \/ Driver!Pull \/ UNCHANGED Driver!vars
    BY <1>5, IrqSteps
<1> QED BY <1>1, <1>2, <1>3, <1>4, <1>5 DEF Driver!Next

\* What the life cycle promises: types, an interrupt routed last, nobody in a part
\* that is freed, nothing left after a failed probe or a removal, and quiet sleep.
LifeSound ==
    /\ Driver!TypeOK /\ Driver!RoutedLast /\ Driver!CalleesAlive
    /\ Driver!NothingLeft /\ Driver!QuietAsleep

\* The invariant is as strong as what is promised.
LEMMA InvLifeSound == LifeInv => LifeSound
<1> SUFFICES ASSUME LifeInv PROVE LifeSound
    OBVIOUS
<1>1. LifeTypes /\ Holders /\ Driver!CalleesAlive /\ Driver!RoutedLast /\ Stages
    BY DEF LifeInv, LifeBase
<1>2. \A i \in DOMAIN todo : todo[i][1] \in Driver!Calls /\ todo[i][2] \in Driver!Parts
    <2>1. todo \in Seq(CallSet)
        BY <1>1 DEF LifeTypes
    <2>2. \A i \in DOMAIN todo : todo[i] \in CallSet
        BY <2>1
    <2> QED BY <2>2 DEF CallSet
<1>3. Driver!TypeOK
    BY <1>1, <1>2 DEF LifeTypes, Driver!TypeOK
<1>4. Driver!NothingLeft
    BY <1>1 DEF Holders, Stages, Driver!NothingLeft, Driver!RoutedLast
<1>5. Driver!QuietAsleep
    BY <1>1 DEF Stages, Driver!QuietAsleep
<1> QED BY <1>1, <1>3, <1>4, <1>5 DEF LifeSound

\* LifeInv holds in every state of the life cycle.
THEOREM LifeInvariant == Driver!Spec => []LifeInv
<1> QED BY LifeInit, LifeStep, PTL DEF Driver!Spec

\* Whatever fails in probe, suspend or resume, and whenever the card is pulled.
LEMMA LifeThroughout == Driver!Spec => []LifeSound
BY LifeInvariant, InvLifeSound, PTL

\* Nobody uses a part that is freed, nothing stays behind, nothing runs while the card
\* sleeps, and the LEDs show what was asked for last (gc573-core.c, gc573-led.c).
THEOREM DriverSoundTheorem == PartsSpec => []DriverSound
<1>1. LifeSound /\ LedsSound => DriverSound
    BY DEF LifeSound, LedsSound, DriverSound
<1> QED BY <1>1, LifeThroughout, LedsThroughout, PTL DEF PartsSpec
=============================================================================
