-------------------------------- MODULE I2c --------------------------------
(***************************************************************************)
(* The I2C controller (gc573-i2c.c): one adapter per bus of the bridge,    *)
(* transfers from any thread under one mutex, up to MaxAttempts attempts   *)
(* per operation, each ended by the interrupt, by polling the status or by *)
(* the last poll.  The interrupt handler read the interrupt status before  *)
(* it gets here (gc573-dma.c), so it may serve a completion late.  The     *)
(* bridge may become not ready, or vanish, at any moment.                  *)
(***************************************************************************)
EXTENDS Naturals, Sequences, FiniteSets

CONSTANTS
    Callers,        \* threads that transfer
    BusCount,       \* buses of the bridge
    Requests,       \* lists of messages the callers may send
    MaxAttempts,    \* GC555_I2C_MAX_ATTEMPTS
    PollCount,      \* GC555_I2C_POLL_COUNT
    MaxLen,         \* GC555_I2C_MAX_DATA_LEN
    MaxOps,         \* bound on the operations
    MayVanish       \* the card may be pulled

ASSUME I2cAssumption ==
    /\ IsFiniteSet(Callers) /\ "none" \notin Callers
    /\ BusCount \in Nat \ {0} /\ MaxAttempts \in Nat \ {0} /\ PollCount \in Nat \ {0}
    /\ MaxLen \in Nat /\ MaxOps \in Nat /\ MayVanish \in BOOLEAN
    /\ Requests \subseteq Seq([rd : BOOLEAN, len : Nat, addr : Nat, ok : BOOLEAN]) \ {<<>>}

Buses == 0 .. BusCount - 1

VARIABLES
    life, registered,           \* the probing thread; adapters registered
    handler, dma,               \* the interrupt is requested; gc555->dma is set
    ready, gone,                \* the bridge is ready; its registers are unmapped
    lock,                       \* owner of i2c->lock
    pc, bus, msgs, index,       \* per caller: place, adapter, messages, next one
    attempt, polls, irq_wait, seen_status, op,
    result, commands,           \* how the transfer ended; commands it wrote
    waiting, completion, completion_status,     \* per bus
    engine,                     \* per bus: operation it performs (0: none)
    status, fifo,               \* per bus: status register; operation the data are of
    pending,                    \* buses whose interrupt status is set
    irq,                        \* buses the interrupt handler still has to serve
    ops, performed, expired     \* operations so far; times each was performed, timed out

lifeVars == <<life, registered, handler, dma>>
bridgeVars == <<ready, gone>>
callerVars == <<pc, bus, msgs, index, attempt, polls, irq_wait, seen_status, op, result, commands>>
waitVars == <<waiting, completion, completion_status>>
engineVars == <<engine, status, fifo>>
historyVars == <<ops, performed, expired>>
vars == <<lifeVars, bridgeVars, lock, callerVars, waitVars, engineVars, pending, irq, historyVars>>

Results == {"none", "ok", "refused", "shutdown", "error"}

\* The types of every variable.
TypeOK ==
    /\ life \in {"init", "up", "irq", "running", "freed", "end"} /\ registered \in 0 .. BusCount
    /\ {handler, dma, ready, gone} \subseteq BOOLEAN /\ lock \in Callers \cup {"none"}
    /\ pc \in [Callers -> {"idle", "lock", "next", "setup", "arm", "command", "wait", "poll",
                           "settle", "expire", "checked", "fetch"}]
    /\ bus \in [Callers -> Buses] /\ msgs \in [Callers -> Requests \cup {<<>>}]
    /\ index \in [Callers -> 1 .. 4] /\ attempt \in [Callers -> 0 .. MaxAttempts]
    /\ polls \in [Callers -> 0 .. PollCount] /\ irq_wait \in [Callers -> BOOLEAN]
    /\ seen_status \in [Callers -> {"none", "done", "error"}] /\ op \in [Callers -> 0 .. MaxOps]
    /\ result \in [Callers -> Results] /\ commands \in [Callers -> 0 .. MaxAttempts * MaxOps]
    /\ waiting \in [Buses -> BOOLEAN] /\ completion \in [Buses -> BOOLEAN]
    /\ completion_status \in [Buses -> {"none", "done", "error"}]
    /\ engine \in [Buses -> 0 .. MaxOps] /\ status \in [Buses -> {"none", "done", "error"}]
    /\ fifo \in [Buses -> 0 .. MaxOps] /\ pending \subseteq Buses /\ irq \subseteq Buses
    /\ ops \in 0 .. MaxOps /\ performed \in [1 .. MaxOps -> Nat] /\ expired \in [1 .. MaxOps -> Nat]

Init ==
    /\ life = "init" /\ registered = 0 /\ handler = FALSE /\ dma = FALSE
    /\ ready = TRUE /\ gone = FALSE /\ lock = "none"
    /\ pc = [c \in Callers |-> "idle"] /\ bus = [c \in Callers |-> 0]
    /\ msgs = [c \in Callers |-> <<>>] /\ index = [c \in Callers |-> 1]
    /\ attempt = [c \in Callers |-> 0] /\ polls = [c \in Callers |-> 0]
    /\ irq_wait = [c \in Callers |-> FALSE] /\ seen_status = [c \in Callers |-> "none"]
    /\ op = [c \in Callers |-> 0] /\ result = [c \in Callers |-> "none"]
    /\ commands = [c \in Callers |-> 0]
    /\ waiting = [b \in Buses |-> FALSE] /\ completion = [b \in Buses |-> FALSE]
    /\ completion_status = [b \in Buses |-> "none"] /\ engine = [b \in Buses |-> 0]
    /\ status = [b \in Buses |-> "none"] /\ fifo = [b \in Buses |-> 0]
    /\ pending = {} /\ irq = {} /\ ops = 0
    /\ performed = [o \in 1 .. MaxOps |-> 0] /\ expired = [o \in 1 .. MaxOps |-> 0]

Goto(c, place) == pc' = [pc EXCEPT ![c] = place]

-----------------------------------------------------------------------------
(* What a list of messages asks for                                         *)

\* gc555_i2c_validate_msg
Valid(m) == m.ok /\ m.len > 0 /\ m.len <= (IF m.rd THEN MaxLen ELSE MaxLen + 1)

\* A write followed by a read is one read of a subaddress.
IsPair(r, i) == ~r[i].rd /\ i < Len(r) /\ r[i + 1].rd

\* gc555_i2c_xfer's choice for the message at i.
Operation(r, i) ==
    CASE ~Valid(r[i]) -> "refused"
      [] Valid(r[i]) /\ IsPair(r, i) ->
             IF Valid(r[i + 1]) /\ r[i + 1].addr = r[i].addr /\ r[i].len <= 4
             THEN "read" ELSE "refused"
      [] OTHER -> IF r[i].rd \/ r[i].len < 2 THEN "refused" ELSE "write"

\* A mutant of Quirks: two messages of any kind may be combined.
Quirks_AnyPair(r) ==
    /\ Len(r) <= 2
    /\ \A i \in 1 .. Len(r) : r[i].len > 0 /\ r[i].len <= (IF r[i].rd THEN MaxLen ELSE MaxLen + 1)

\* What the kernel lets through for the adapter's quirks: one message, or a
\* short write and a read of the same address.
Quirks(r) ==
    /\ Len(r) <= 2
    /\ \A i \in 1 .. Len(r) : r[i].len > 0 /\ r[i].len <= (IF r[i].rd THEN MaxLen ELSE MaxLen + 1)
    /\ Len(r) = 2 => ~r[1].rd /\ r[2].rd /\ r[1].addr = r[2].addr /\ r[1].len <= 4

-----------------------------------------------------------------------------
(* Probe, removal, the bridge                                               *)

Register ==
    /\ life = "init"
    /\ \/ /\ registered < BusCount /\ registered' = registered + 1 /\ life' = life
       \/ /\ registered = BusCount /\ life' = "up" /\ registered' = registered
       \/ /\ registered < BusCount /\ life' = "freed" /\ registered' = registered
    /\ UNCHANGED <<handler, dma, bridgeVars, lock, callerVars, waitVars, engineVars, pending, irq,
                   historyVars>>

\* gc555_dma_init: the handler is requested, then gc555->dma is set.
RequestIrq ==
    /\ life = "up" /\ life' = "irq" /\ handler' = TRUE
    /\ UNCHANGED <<registered, dma, bridgeVars, lock, callerVars, waitVars, engineVars, pending,
                   irq, historyVars>>
SetDma ==
    /\ life = "irq" /\ life' = "running" /\ dma' = TRUE
    /\ UNCHANGED <<registered, handler, bridgeVars, lock, callerVars, waitVars, engineVars,
                   pending, irq, historyVars>>

\* gc555_dma_cleanup frees the interrupt, once the handler has returned, then
\* forgets gc555->dma.
FreeIrq ==
    /\ life = "running" /\ irq = {} /\ handler /\ handler' = FALSE
    /\ UNCHANGED <<life, registered, dma, bridgeVars, lock, callerVars, waitVars, engineVars,
                   pending, irq, historyVars>>
ForgetDma ==
    /\ life = "running" /\ ~handler /\ life' = "freed" /\ dma' = FALSE
    /\ UNCHANGED <<registered, handler, bridgeVars, lock, callerVars, waitVars, engineVars,
                   pending, irq, historyVars>>

\* gc555_i2c_cleanup, last adapter first; i2c_del_adapter waits for its users.
Unregister ==
    /\ life = "freed"
    /\ \/ /\ registered > 0 /\ registered' = registered - 1 /\ life' = life
          /\ \A c \in Callers : pc[c] # "idle" => bus[c] # registered - 1
       \/ registered = 0 /\ life' = "end" /\ registered' = registered
    /\ UNCHANGED <<handler, dma, bridgeVars, lock, callerVars, waitVars, engineVars, pending, irq,
                   historyVars>>

\* The bridge stops being ready (suspend, removal), or is ready again.
Quiesce ==
    /\ ready /\ ready' = FALSE
    /\ UNCHANGED <<lifeVars, gone, lock, callerVars, waitVars, engineVars, pending, irq,
                   historyVars>>
\* The card is pulled: gc555_bridge_mark_disconnected.
Vanish ==
    /\ MayVanish /\ ~gone /\ gone' = TRUE /\ ready' = FALSE
    /\ UNCHANGED <<lifeVars, lock, callerVars, waitVars, engineVars, pending, irq, historyVars>>

-----------------------------------------------------------------------------
(* A transfer: gc555_i2c_xfer, gc555_i2c_hw_xfer                            *)

Call(c) ==
    /\ pc[c] = "idle" /\ ops < MaxOps /\ Goto(c, "lock")
    /\ \E b \in 0 .. registered - 1, r \in Requests :
          Quirks(r) /\ bus' = [bus EXCEPT ![c] = b] /\ msgs' = [msgs EXCEPT ![c] = r]
    /\ result' = [result EXCEPT ![c] = "none"] /\ commands' = [commands EXCEPT ![c] = 0]
    /\ UNCHANGED <<lifeVars, bridgeVars, lock, index, attempt, polls, irq_wait, seen_status, op,
                   waitVars, engineVars, pending, irq, historyVars>>

Lock(c) ==
    /\ pc[c] = "lock" /\ lock = "none" /\ lock' = c
    /\ Goto(c, "next") /\ index' = [index EXCEPT ![c] = 1]
    /\ UNCHANGED <<lifeVars, bridgeVars, bus, msgs, attempt, polls, irq_wait, seen_status, op,
                   result, commands, waitVars, engineVars, pending, irq, historyVars>>

\* The transfer ends and releases the lock; what it remembers is of no use.
Return(c, r) ==
    /\ Goto(c, "idle") /\ lock' = "none" /\ result' = [result EXCEPT ![c] = r]
    /\ msgs' = [msgs EXCEPT ![c] = <<>>] /\ index' = [index EXCEPT ![c] = 1]
    /\ attempt' = [attempt EXCEPT ![c] = 0] /\ polls' = [polls EXCEPT ![c] = 0]
    /\ irq_wait' = [irq_wait EXCEPT ![c] = FALSE]
    /\ seen_status' = [seen_status EXCEPT ![c] = "none"] /\ op' = [op EXCEPT ![c] = 0]

\* The next message, or pair, of the list.
NextOperation(c) ==
    /\ pc[c] = "next"
    /\ LET what == Operation(msgs[c], index[c]) IN
       \/ /\ index[c] > Len(msgs[c]) /\ Return(c, "ok") /\ ops' = ops
       \/ /\ index[c] <= Len(msgs[c]) /\ what = "refused" /\ Return(c, "refused") /\ ops' = ops
       \/ /\ index[c] <= Len(msgs[c]) /\ what # "refused" /\ ~ready
          /\ Return(c, "shutdown") /\ ops' = ops
       \/ /\ index[c] <= Len(msgs[c]) /\ what # "refused" /\ ready /\ ops < MaxOps
          /\ Goto(c, "setup") /\ attempt' = [attempt EXCEPT ![c] = 0]
          /\ ops' = ops + 1 /\ op' = [op EXCEPT ![c] = ops + 1]
          /\ UNCHANGED <<lock, msgs, index, polls, irq_wait, seen_status, result>>
       \/ /\ index[c] <= Len(msgs[c]) /\ what # "refused" /\ ready /\ ops = MaxOps
          /\ Return(c, "error") /\ ops' = ops
    /\ UNCHANGED <<lifeVars, bridgeVars, bus, commands, waitVars, engineVars, pending, irq,
                   performed, expired>>

\* gc555_i2c_attempt writes the address and the data and resets the FIFO, which
\* also drops what the engine was doing.
Setup(c) ==
    /\ pc[c] = "setup"
    /\ \/ gone /\ Return(c, "error") /\ UNCHANGED engineVars
       \/ /\ ~gone /\ Goto(c, "arm")
          /\ engine' = [engine EXCEPT ![bus[c]] = 0] /\ status' = [status EXCEPT ![bus[c]] = "none"]
          /\ fifo' = [fifo EXCEPT ![bus[c]] = 0]
          /\ UNCHANGED <<lock, msgs, index, attempt, polls, irq_wait, seen_status, op, result>>
    /\ UNCHANGED <<lifeVars, bridgeVars, bus, commands, waitVars, pending, irq, historyVars>>

\* Mutant: the completion of an earlier attempt is not dropped.
Arm_NoReinit(c) ==
    /\ pc[c] = "arm" /\ Goto(c, "command") /\ irq_wait' = [irq_wait EXCEPT ![c] = dma]
    /\ waiting' = IF dma THEN [waiting EXCEPT ![bus[c]] = TRUE] ELSE waiting
    /\ UNCHANGED <<lifeVars, bridgeVars, lock, bus, msgs, index, attempt, polls, seen_status, op,
                   result, commands, completion, completion_status, engineVars, pending, irq,
                   historyVars>>

\* Under irq_lock.
Arm(c) ==
    /\ pc[c] = "arm" /\ Goto(c, "command") /\ irq_wait' = [irq_wait EXCEPT ![c] = dma]
    /\ \/ /\ dma /\ waiting' = [waiting EXCEPT ![bus[c]] = TRUE]
          /\ completion' = [completion EXCEPT ![bus[c]] = FALSE]
          /\ completion_status' = [completion_status EXCEPT ![bus[c]] = "none"]
       \/ ~dma /\ UNCHANGED waitVars
    /\ UNCHANGED <<lifeVars, bridgeVars, lock, bus, msgs, index, attempt, polls, seen_status, op,
                   result, commands, engineVars, pending, irq, historyVars>>

Command(c) ==
    /\ pc[c] = "command"
    /\ \/ /\ gone /\ Return(c, "error") /\ UNCHANGED <<commands, engineVars>>
          /\ waiting' = IF irq_wait[c] THEN [waiting EXCEPT ![bus[c]] = FALSE] ELSE waiting
       \/ /\ ~gone /\ Goto(c, "wait") /\ polls' = [polls EXCEPT ![c] = 0]
          /\ commands' = [commands EXCEPT ![c] = @ + 1]
          /\ engine' = [engine EXCEPT ![bus[c]] = op[c]]
          /\ status' = [status EXCEPT ![bus[c]] = "none"]
          /\ UNCHANGED <<fifo, waiting, lock, msgs, index, attempt, irq_wait, seen_status, op,
                         result>>
    /\ UNCHANGED <<lifeVars, bridgeVars, bus, completion, completion_status, pending, irq,
                   historyVars>>

-----------------------------------------------------------------------------
(* gc555_i2c_wait                                                           *)

\* An interrupt that brought a terminal status ends the wait; any other is
\* consumed, and the status is polled.
TryCompletion(c) ==
    /\ pc[c] = "wait"
    /\ LET b == bus[c]
           taken == irq_wait[c] /\ completion[b]
       IN /\ completion' = IF taken THEN [completion EXCEPT ![b] = FALSE] ELSE completion
          /\ IF taken /\ completion_status[b] # "none"
             THEN Goto(c, "checked")
                  /\ seen_status' = [seen_status EXCEPT ![c] = completion_status[b]]
             ELSE Goto(c, "poll") /\ seen_status' = seen_status
    /\ UNCHANGED <<lifeVars, bridgeVars, lock, bus, msgs, index, attempt, polls, irq_wait, op,
                   result, commands, waiting, completion_status, engineVars, pending, irq,
                   historyVars>>

\* The status register, when no interrupt brought the answer.
Poll(c) ==
    /\ pc[c] = "poll"
    /\ \/ gone /\ Return(c, "error")
       \/ /\ ~gone /\ status[bus[c]] # "none"
          /\ Goto(c, IF irq_wait[c] THEN "settle" ELSE "checked")
          /\ seen_status' = [seen_status EXCEPT ![c] = status[bus[c]]]
          /\ UNCHANGED <<lock, msgs, index, attempt, polls, irq_wait, op, result>>
       \/ /\ ~gone /\ status[bus[c]] = "none"
          /\ Goto(c, IF polls[c] + 1 < PollCount THEN "wait" ELSE "expire")
          /\ polls' = [polls EXCEPT ![c] = @ + 1]
          /\ UNCHANGED <<lock, msgs, index, attempt, irq_wait, seen_status, op, result>>
    /\ UNCHANGED <<lifeVars, bridgeVars, bus, commands, waitVars, engineVars, pending, irq,
                   historyVars>>

\* The acknowledgement of a bus; nothing is written to a card that is gone.
Acknowledge(b) == pending' = IF gone THEN pending ELSE pending \ {b}

\* Under irq_lock, after a poll saw a terminal status.
Settle(c) ==
    /\ pc[c] = "settle" /\ Goto(c, "checked")
    /\ LET b == bus[c] IN
       \/ waiting[b] /\ waiting' = [waiting EXCEPT ![b] = FALSE] /\ Acknowledge(b)
       \/ ~waiting[b] /\ UNCHANGED <<waiting, pending>>
    /\ UNCHANGED <<lifeVars, bridgeVars, lock, bus, msgs, index, attempt, polls, irq_wait,
                   seen_status, op, result, commands, completion, completion_status, engineVars,
                   irq, historyVars>>

\* gc555_i2c_hw_xfer tries again.
Again(c) ==
    \/ /\ attempt[c] + 1 < MaxAttempts /\ Goto(c, "setup")
       /\ attempt' = [attempt EXCEPT ![c] = @ + 1]
       /\ UNCHANGED <<lock, msgs, index, polls, irq_wait, seen_status, op, result>>
    \/ attempt[c] + 1 = MaxAttempts /\ Return(c, "error")

\* Mutant: the timeout leaves the bus waiting.
Expire_StillWaiting(c) ==
    /\ pc[c] = "expire"
    /\ waiting' = waiting /\ Acknowledge(bus[c])
    /\ expired' = [expired EXCEPT ![op[c]] = @ + 1] /\ Again(c)
    /\ UNCHANGED <<lifeVars, bridgeVars, bus, commands, completion, completion_status, engineVars,
                   irq, ops, performed>>

\* After the last poll: the wait is over, and a completion that comes now is
\* nobody's.
Expire(c) ==
    /\ pc[c] = "expire"
    /\ LET b == bus[c] IN
       \/ irq_wait[c] /\ waiting' = [waiting EXCEPT ![b] = FALSE] /\ Acknowledge(b)
       \/ ~irq_wait[c] /\ UNCHANGED <<waiting, pending>>
    /\ expired' = [expired EXCEPT ![op[c]] = @ + 1] /\ Again(c)
    /\ UNCHANGED <<lifeVars, bridgeVars, bus, commands, completion, completion_status, engineVars,
                   irq, ops, performed>>

\* The operation is over: on with the list.
Advance(c) ==
    /\ Goto(c, "next") /\ seen_status' = [seen_status EXCEPT ![c] = "none"]
    /\ index' = [index EXCEPT ![c] = @ + (IF IsPair(msgs[c], @) THEN 2 ELSE 1)]
    /\ UNCHANGED <<lock, msgs, attempt, polls, irq_wait, op, result>>

\* Mutant: a write is tried again although it was done.
Checked_RepeatsWrite(c) ==
    /\ pc[c] = "checked"
    /\ IF Operation(msgs[c], index[c]) = "write" THEN Again(c)
       ELSE /\ Goto(c, "fetch")
            /\ UNCHANGED <<lock, msgs, index, attempt, polls, irq_wait, seen_status, op, result>>
    /\ UNCHANGED <<lifeVars, bridgeVars, bus, commands, waitVars, engineVars, pending, irq,
                   historyVars>>

\* The status the wait returned.
Checked(c) ==
    /\ pc[c] = "checked"
    /\ \/ seen_status[c] = "error" /\ Again(c)
       \/ /\ seen_status[c] = "done" /\ Operation(msgs[c], index[c]) = "write" /\ Advance(c)
       \/ /\ seen_status[c] = "done" /\ Operation(msgs[c], index[c]) = "read" /\ Goto(c, "fetch")
          /\ UNCHANGED <<lock, msgs, index, attempt, polls, irq_wait, seen_status, op, result>>
    /\ UNCHANGED <<lifeVars, bridgeVars, bus, commands, waitVars, engineVars, pending, irq,
                   historyVars>>

\* The FIFO is rewound and read.
Fetch(c) ==
    /\ pc[c] = "fetch"
    /\ (gone /\ Return(c, "error")) \/ (~gone /\ Advance(c))
    /\ UNCHANGED <<lifeVars, bridgeVars, bus, commands, waitVars, engineVars, pending, irq,
                   historyVars>>

-----------------------------------------------------------------------------
(* The engines and the interrupt handler                                    *)

\* An engine finishes: the slave did what was asked, or did not answer.
Finish(b) ==
    /\ engine[b] # 0 /\ ~gone /\ engine' = [engine EXCEPT ![b] = 0] /\ pending' = pending \cup {b}
    /\ \/ /\ status' = [status EXCEPT ![b] = "done"] /\ fifo' = [fifo EXCEPT ![b] = engine[b]]
          /\ performed' = [performed EXCEPT ![engine[b]] = @ + 1]
       \/ status' = [status EXCEPT ![b] = "error"] /\ UNCHANGED <<fifo, performed>>
    /\ UNCHANGED <<lifeVars, bridgeVars, lock, callerVars, waitVars, irq, ops, expired>>

\* gc555_dma_irq reads the interrupt status.
EnterIrq ==
    /\ handler /\ irq = {} /\ ~gone /\ pending # {} /\ irq' = pending
    /\ UNCHANGED <<lifeVars, bridgeVars, lock, callerVars, waitVars, engineVars, pending,
                   historyVars>>

\* gc555_i2c_irq serves the buses it was told of, each under its irq_lock.
ServeBus(b) ==
    /\ b \in irq /\ \A o \in irq : b <= o
    /\ irq' = irq \ {b} /\ Acknowledge(b)
    /\ \/ /\ waiting[b] /\ waiting' = [waiting EXCEPT ![b] = FALSE]
          /\ completion' = [completion EXCEPT ![b] = TRUE]
          /\ completion_status' =
                 [completion_status EXCEPT ![b] = IF gone THEN "none" ELSE status[b]]
       \/ ~waiting[b] /\ UNCHANGED waitVars
    /\ UNCHANGED <<lifeVars, bridgeVars, lock, callerVars, engineVars, historyVars>>

-----------------------------------------------------------------------------
Step(c) ==
    \/ NextOperation(c) \/ Setup(c) \/ Arm(c) \/ Command(c) \/ TryCompletion(c) \/ Poll(c)
    \/ Settle(c) \/ Expire(c) \/ Checked(c) \/ Fetch(c)
Handler == EnterIrq \/ \E b \in Buses : ServeBus(b)

Next ==
    \/ Register \/ RequestIrq \/ SetDma \/ FreeIrq \/ ForgetDma \/ Unregister
    \/ Quiesce \/ Vanish \/ Handler
    \/ \E c \in Callers : Call(c) \/ Lock(c) \/ Step(c)
    \/ \E b \in Buses : Finish(b)

Spec == Init /\ [][Next]_vars

-----------------------------------------------------------------------------
\* A transfer takes only the answer to its own operation: when an attempt has
\* seen success the slave performed this operation, and what a read fetches from
\* the FIFO are the data of this operation, not of one that timed out before or
\* of another caller's (gc573-i2c.c:161, :310).
OwnAnswer ==
    \A c \in Callers :
        /\ pc[c] \in {"checked", "fetch"} /\ seen_status[c] = "done" => performed[op[c]] > 0
        /\ pc[c] = "fetch" => fifo[bus[c]] = op[c]

\* The handler hands a completion only to an attempt in progress: a bus waits
\* only while a caller that holds the mutex is between arming and the end of its
\* wait, or after the card was pulled (gc573-i2c.c:152 leaves it so).
WaitingHasWaiter ==
    \A b \in Buses : waiting[b] =>
        \/ gone
        \/ \E c \in Callers : lock = c /\ bus[c] = b /\ irq_wait[c]
                              /\ pc[c] \in {"command", "wait", "poll", "settle", "expire"}

\* A list of messages that is refused has not touched the bus: no first half is
\* sent of a list whose second half is not supported (gc573-i2c.c:414, :421).
RefusedBeforeBus == \A c \in Callers : result[c] = "refused" => commands[c] = 0

\* What the slave has done is repeated only when an attempt timed out on it: an
\* answer that was seen is never followed by another attempt (gc573-i2c.c:346).
RepeatedOnlyAfterTimeout == \A o \in 1 .. ops : performed[o] <= expired[o] + 1

\* What a transfer relies on: the answer it takes is that of its own operation,
\* the handler finds a waiter where it is told of one, a list that is refused is
\* refused before its first message is on the bus, and the slave's work is
\* repeated only after a timeout (gc573-i2c.c:140, :310, :346, :414).
TransfersSound ==
    TypeOK /\ OwnAnswer /\ WaitingHasWaiter /\ RefusedBeforeBus /\ RepeatedOnlyAfterTimeout
=============================================================================
