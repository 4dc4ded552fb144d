------------------------------ MODULE Splitter ------------------------------
(***************************************************************************)
(* The HDMI splitter IT6664 between the source, the capture path (port 1)  *)
(* and the display (port 2): hot plug and the EDID that the source reads   *)
(* (gc573-it6664-core.c, gc573-it6664-tx.c).  One delayed work polls the   *)
(* chip; pins move and the chip latches events whatever the work is doing. *)
(* A call that needs many register accesses fails as one, with each effect *)
(* it can have had until then.  Pixels, clocks and encryption are left out.*)
(***************************************************************************)
EXTENDS Naturals, FiniteSets

CONSTANTS
    Displays,    \* displays, each with an EDID of its own
    Unmergeable, \* the ones whose EDID gc555_edid_merge refuses
    Merging,     \* the values edid_merge may have
    Quick,       \* pins move while events of their port are being handled
    MaxEvents,   \* bound: moves of pins and of edid_merge
    MaxFails,    \* bound: calls that fail
    MaxSleeps,   \* bound: suspends
    NoEdid, Torn, Card, Merge(_)

Ports == {1, 2}
Events == {"hpd", "sense"}
Sessions == 3               \* IT6664_EDID_PUBLISH_SESSIONS, IT6664_TX_EDID_SESSIONS
Edids == {Card} \cup {Merge(d) : d \in Displays}

VARIABLES
    source, pin1, display, sense, \* the pins: 5 V of the source, HPD of port 1, the display
    latch, rxLatch, swLatch,      \* events latched in the chip
    hpd, ram,                     \* what the source sees: HPD, the EDID memory
    rt,                           \* it6664_runtime, without what follows
    input,                        \* input_edid
    merging,                      \* edid_merge
    pc, pub,                      \* the work: its place, the publication
    enabled, events, fails, sleeps
pins == <<source, pin1, display, sense>>
chip == <<latch, rxLatch, swLatch>>
counts == <<events, sleeps>>
vars == <<pins, chip, hpd, ram, rt, input, merging, pc, pub, enabled, counts, fails>>

Pin(p) == IF p = 1 THEN pin1 ELSE display # NoEdid
Sense(p) == IF p = 1 THEN pin1 ELSE sense

NoSnap == [valid |-> FALSE, status |-> FALSE, bits |-> {}, done |-> {}]
NoSwitch == [valid |-> FALSE, bits |-> {}, done |-> {}, stage |-> 0]
Fresh ==
    [hpd |-> [p \in Ports |-> FALSE], powered |-> [p \in Ports |-> FALSE], mask |-> {},
     attempted |-> [p \in Ports |-> FALSE], reads |-> 0, sink |-> NoEdid, mergeTried |-> FALSE,
     pending |-> FALSE, merged |-> NoEdid, upstream |-> "none", sessions |-> 0, off |-> FALSE,
     snap |-> [p \in Ports |-> NoSnap], switch |-> NoSwitch]
\* lost (history): an EDID that was published could not be written again.
NoPub ==
    [edid |-> NoEdid, kind |-> "none", previous |-> NoEdid, restoring |-> FALSE, lost |-> FALSE]

\* What the chip has latched when its registers have just been set up.
Latched == [p \in Ports |-> IF Pin(p) THEN {"hpd"} ELSE {}]

TypeOK ==
    /\ source \in BOOLEAN /\ pin1 \in BOOLEAN /\ sense \in BOOLEAN
    /\ display \in Displays \cup {NoEdid}
    /\ latch \in [Ports -> SUBSET Events] /\ rxLatch \in BOOLEAN
    /\ swLatch \subseteq {"timer0", "timer1"}
    /\ hpd \in BOOLEAN /\ ram \in Edids \cup {NoEdid, Torn} /\ input \in Edids \cup {NoEdid}
    /\ rt.hpd \in [Ports -> BOOLEAN] /\ rt.powered \in [Ports -> BOOLEAN] /\ rt.mask \subseteq Ports
    /\ rt.reads \in 0 .. Sessions /\ rt.sessions \in 0 .. Sessions
    /\ rt.sink \in Displays \cup {NoEdid} /\ rt.merged \in Edids \cup {NoEdid}
    /\ rt.upstream \in {"none", "fixed", "merged"} /\ rt.switch.stage \in 0 .. 4
    /\ merging \in BOOLEAN /\ enabled \in BOOLEAN
    /\ pc \in {"rest", "switch", "rx", "rx ack", "tx1", "tx2", "fixed", "read", "merge", "merged",
               "write", "low", "high"}

-----------------------------------------------------------------------------
(* The pins.  Unless Quick, a pin moves only while the work rests and no     *)
(* event of it is left.                                                      *)

Calm == pc = "rest" /\ rt.snap = [p \in Ports |-> NoSnap] /\ ~rt.switch.valid

MoveAllowed(quiet) == events < MaxEvents /\ (Quick \/ (Calm /\ quiet)) /\ events' = events + 1
Unmoved == UNCHANGED <<hpd, ram, rt, input, pc, pub, enabled, sleeps, fails>>

MoveSource ==
    /\ MoveAllowed(~rxLatch)
    /\ source' = ~source /\ rxLatch' = TRUE
    /\ hpd' = (hpd /\ source')
    /\ UNCHANGED <<pin1, display, sense, latch, swLatch, merging>>
    /\ UNCHANGED <<ram, rt, input, pc, pub, enabled, sleeps, fails>>
MovePin1 ==
    /\ MoveAllowed(latch[1] = {})
    /\ pin1' = ~pin1 /\ latch' = [latch EXCEPT ![1] = Events]
    /\ Unmoved /\ UNCHANGED <<source, display, sense, rxLatch, swLatch, merging>>
Plug(d) ==
    /\ MoveAllowed(latch[2] = {})
    /\ display = NoEdid
    /\ display' = d /\ latch' = [latch EXCEPT ![2] = @ \cup {"hpd"}]
    /\ Unmoved /\ UNCHANGED <<source, pin1, sense, rxLatch, swLatch, merging>>
Unplug ==
    /\ MoveAllowed(latch[2] = {})
    /\ display # NoEdid
    /\ display' = NoEdid /\ sense' = FALSE
    /\ latch' = [latch EXCEPT ![2] = @ \cup {"hpd"} \cup (IF sense THEN {"sense"} ELSE {})]
    /\ Unmoved /\ UNCHANGED <<source, pin1, rxLatch, swLatch, merging>>
MoveSense ==
    /\ MoveAllowed(latch[2] = {})
    /\ display # NoEdid
    /\ sense' = ~sense /\ latch' = [latch EXCEPT ![2] = @ \cup {"sense"}]
    /\ Unmoved /\ UNCHANGED <<source, pin1, display, rxLatch, swLatch, merging>>
\* timer 0: the source's encryption hangs; timer 1: armed when no port is used
Timer(t) ==
    /\ MoveAllowed(t \notin swLatch)
    /\ t = "timer1" => rt.off
    /\ swLatch' = swLatch \cup {t}
    /\ Unmoved /\ UNCHANGED <<pins, latch, rxLatch, merging>>
SetMerging ==
    /\ MoveAllowed(TRUE)
    /\ merging' \in Merging \ {merging}
    /\ Unmoved /\ UNCHANGED <<pins, chip>>

Move ==
    \/ MoveSource \/ MovePin1 \/ Unplug \/ MoveSense \/ SetMerging
    \/ \E d \in Displays : Plug(d)
    \/ \E t \in {"timer0", "timer1"} : Timer(t)

-----------------------------------------------------------------------------
(* Parts of the work                                                         *)

\* A call fails: the work does no more of its calls.
Fail == fails < MaxFails /\ fails' = fails + 1 /\ pc' = "rest"
Continue(place) == pc' = place /\ UNCHANGED fails

\* gc555_it6664_rx_set_hpd(TRUE) does nothing without a source.
Raised == hpd \/ source

\* it6664_power_down_tx_port; without a display on either port the timer starts.
PoweredDown(r, p) ==
    [r EXCEPT !.hpd[p] = FALSE, !.powered[p] = FALSE, !.mask = @ \ {p},
              !.off = @ \/ ~\E q \in Ports : Pin(q)]
PoweredOn(r, p) == [r EXCEPT !.powered[p] = TRUE]

\* it6664_reset_tx2_edid_state
Forgotten(r) ==
    [r EXCEPT !.sink = NoEdid, !.attempted[2] = FALSE, !.reads = 0, !.mergeTried = FALSE,
              !.pending = FALSE, !.sessions = 0]

StartTick ==
    /\ pc = "rest" /\ enabled
    /\ Continue("switch")
    /\ UNCHANGED <<pins, chip, hpd, ram, rt, input, merging, pub, enabled, counts>>

-----------------------------------------------------------------------------
(* it6664_handle_switch_hdcp_irq: timer 0 pulses the source's HPD, stage by   *)
(* stage; a failure keeps the snapshot and the stage for the next tick       *)

\* Mutant: an event counts as handled when its handler has failed.
SwitchFails_Handled(r) == [r EXCEPT !.switch.done = r.switch.bits]
SwitchFails(r) == r

SwitchIrq ==
    /\ pc = "switch"
    /\ UNCHANGED <<pins, latch, rxLatch, ram, input, merging, pub, enabled, counts>>
    /\ LET s == rt.switch IN
       \/ /\ ~s.valid /\ swLatch = {}
          /\ Continue("rx") /\ UNCHANGED <<swLatch, hpd, rt>>
       \/ /\ ~s.valid /\ swLatch # {}
          /\ rt' = [rt EXCEPT !.switch = [valid |-> TRUE, bits |-> swLatch, done |-> {}, stage |-> 0]]
          /\ Continue("switch") /\ UNCHANGED <<swLatch, hpd>>
       \/ /\ s.valid /\ "timer0" \in s.bits \ s.done
          /\ \/ /\ s.stage = 0 /\ hpd' = FALSE
                /\ rt' = [rt EXCEPT !.switch.stage = 2] /\ Continue("switch")
             \/ /\ s.stage = 2 /\ hpd' = Raised
                /\ rt' = [rt EXCEPT !.switch.stage = 3] /\ Continue("switch")
             \/ /\ s.stage = 3 /\ UNCHANGED hpd
                /\ rt' = [rt EXCEPT !.switch.stage = 4, !.switch.done = @ \cup {"timer0"}]
                /\ Continue("switch")
             \/ /\ hpd' \in {hpd, IF s.stage = 0 THEN FALSE ELSE hpd} /\ rt' = SwitchFails(rt) /\ Fail
          /\ UNCHANGED swLatch
       \/ /\ s.valid /\ "timer0" \notin s.bits \ s.done /\ "timer1" \in s.bits \ s.done
          /\ \/ /\ rt.off /\ hpd' = (IF \E p \in Ports : Pin(p) THEN Raised ELSE FALSE)
                /\ rt' = [rt EXCEPT !.off = FALSE, !.switch.done = @ \cup {"timer1"}]
                /\ Continue("switch")
             \/ /\ ~rt.off /\ UNCHANGED hpd
                /\ rt' = [rt EXCEPT !.switch.done = @ \cup {"timer1"}] /\ Continue("switch")
             \/ UNCHANGED hpd /\ rt' = SwitchFails(rt) /\ Fail
          /\ UNCHANGED swLatch
       \/ /\ s.valid /\ s.bits = s.done
          /\ \/ swLatch' = swLatch \ s.bits /\ rt' = [rt EXCEPT !.switch = NoSwitch] /\ Continue("rx")
             \/ UNCHANGED swLatch /\ rt' = SwitchFails(rt) /\ Fail
          /\ UNCHANGED hpd

-----------------------------------------------------------------------------
(* it6664_rx_poll, as far as source and HPD go.  Not ready yet is -EAGAIN,   *)
(* which ends the tick and leaves the event.                                 *)

SourceGone ==
    /\ hpd' = FALSE
    /\ rt' = PoweredDown(PoweredDown(rt, 1), 2)
    /\ Continue("rx ack")

RxPoll ==
    /\ pc = "rx"
    /\ UNCHANGED <<pins, chip, ram, input, merging, pub, enabled, counts>>
    /\ \/ ~rxLatch /\ Continue("tx1") /\ UNCHANGED <<hpd, rt>>
       \/ rxLatch /\ source /\ hpd' = TRUE /\ Continue("rx ack") /\ UNCHANGED rt
       \/ rxLatch /\ ~source /\ SourceGone
       \/ rxLatch /\ hpd' \in {hpd, hpd /\ source} /\ Fail
          /\ rt' \in (IF source THEN {rt} ELSE {rt, PoweredDown(rt, 1)})
RxAck ==
    /\ pc = "rx ack"
    /\ \/ rxLatch' = FALSE /\ Continue("tx1")
       \/ UNCHANGED rxLatch /\ Fail
    /\ UNCHANGED <<pins, latch, swLatch, hpd, ram, rt, input, merging, pub, enabled, counts>>

-----------------------------------------------------------------------------
(* gc555_it6664_tx_poll: a snapshot of the latched events, one handler per    *)
(* event, the acknowledgement of the snapshot; each is retried when it fails  *)

Place(p) == IF p = 1 THEN "tx1" ELSE "tx2"
AfterPort(p) == IF p = 1 THEN "tx2" ELSE "fixed"

ReadTxIrq(p) ==
    /\ pc = Place(p) /\ ~rt.snap[p].valid
    /\ \/ latch[p] = {} /\ Continue(AfterPort(p)) /\ UNCHANGED rt
       \/ /\ latch[p] # {} /\ Continue(Place(p))
          /\ rt' = [rt EXCEPT !.snap[p] = [valid |-> TRUE, status |-> Pin(p), bits |-> latch[p],
                                           done |-> {}]]
       \/ Fail /\ UNCHANGED rt
    /\ UNCHANGED <<pins, chip, hpd, ram, input, merging, pub, enabled, counts>>

\* it6664_set_tx_hpd_state
Seen(r, p) ==
    [r EXCEPT !.hpd[p] = Pin(p), !.mask = IF Pin(p) THEN @ \cup {p} ELSE @ \ {p}]

\* What the handler of an event makes of the driver's state, and whether it
\* raises the source's HPD.
HpdOf1 ==
    IF ~rt.snap[1].status THEN [rt |-> rt, raise |-> FALSE]
    ELSE LET on == IF 1 \in rt.mask THEN PoweredOn(PoweredDown(rt, 1), 1) ELSE rt
         IN [rt |-> [on EXCEPT !.hpd[1] = TRUE], raise |-> TRUE]
\* Mutant: the display's EDID is kept when it goes.
HpdOf2_KeepsEdid ==
    IF ~Pin(2) THEN [rt |-> PoweredDown(rt, 2), raise |-> FALSE]
    ELSE LET on == IF rt.powered[2] THEN PoweredOn(PoweredDown(rt, 2), 2) ELSE PoweredOn(rt, 2)
         IN [rt |-> [on EXCEPT !.hpd[2] = TRUE], raise |-> TRUE]
HpdOf2 ==
    IF ~Pin(2) THEN [rt |-> Forgotten(PoweredDown(rt, 2)), raise |-> FALSE]
    ELSE LET on == IF rt.powered[2] THEN PoweredOn(PoweredDown(rt, 2), 2) ELSE PoweredOn(rt, 2)
         IN [rt |-> [on EXCEPT !.hpd[2] = TRUE], raise |-> TRUE]
\* A port that was unused and has a stable picture is not powered down first.
SenseOf(p, stable) ==
    IF ~Sense(p)
    THEN [rt |-> IF p = 1 THEN rt ELSE Forgotten(PoweredDown(rt, 2)), raise |-> FALSE]
    ELSE LET down == IF p \notin rt.mask /\ stable THEN rt ELSE PoweredDown(rt, p)
         IN [rt |-> Seen(PoweredOn(down, p), p), raise |-> TRUE]
Outcome(p, e, stable) ==
    IF e = "sense" THEN SenseOf(p, stable) ELSE IF p = 1 THEN HpdOf1 ELSE HpdOf2

Handle(p, e) ==
    LET s == rt.snap[p] IN
    /\ pc = Place(p) /\ s.valid /\ e \in s.bits \ s.done
    /\ e = "sense" => "hpd" \notin s.bits \ s.done
    /\ \E stable \in BOOLEAN : LET new == Outcome(p, e, stable) IN
       \/ /\ rt' = [new.rt EXCEPT !.snap[p].done = @ \cup {e}]
          /\ hpd' = IF new.raise THEN Raised ELSE hpd
          /\ Continue(Place(p))
       \/ /\ rt' \in {rt, PoweredDown(rt, p)}
          /\ hpd' \in {hpd, IF new.raise THEN Raised ELSE hpd}
          /\ Fail
    /\ UNCHANGED <<pins, chip, ram, input, merging, pub, enabled, counts>>

AckTxIrq(p) ==
    LET s == rt.snap[p] IN
    /\ pc = Place(p) /\ s.valid /\ s.bits = s.done
    /\ \/ /\ latch' = [latch EXCEPT ![p] = @ \ s.bits]
          /\ rt' = [rt EXCEPT !.snap[p] = NoSnap] /\ Continue(AfterPort(p))
       \/ UNCHANGED <<latch, rt>> /\ Fail
    /\ UNCHANGED <<pins, rxLatch, swLatch, hpd, ram, input, merging, pub, enabled, counts>>

-----------------------------------------------------------------------------
(* The second half of it6664_runtime_work                                    *)

Publish(edid, kind) ==
    /\ pub' = [edid |-> edid, kind |-> kind, previous |-> input, restoring |-> FALSE,
                lost |-> pub.lost]
    /\ Continue("write")

PublishFixed ==
    /\ pc = "fixed"
    /\ IF rt.hpd[1] /\ rt.upstream = "none" /\ ~rt.attempted[1] /\ rt.sessions < Sessions
       THEN rt' = [rt EXCEPT !.sessions = @ + 1] /\ Publish(Card, "fixed")
       ELSE Continue("read") /\ UNCHANGED <<rt, pub>>
    /\ UNCHANGED <<pins, chip, hpd, ram, input, merging, enabled, counts>>

\* gc555_it6664_tx_read_sink_edid: fails without a display, and may otherwise
ReadSinkEdid ==
    /\ pc = "read"
    /\ IF ~rt.hpd[2] \/ rt.attempted[2] THEN Continue("merge") /\ UNCHANGED rt
       ELSE LET tried == [rt EXCEPT !.attempted[2] = TRUE, !.reads = @ + 1] IN
            \/ display # NoEdid /\ rt' = [tried EXCEPT !.sink = display] /\ Continue("merge")
            \/ /\ rt' = [tried EXCEPT !.attempted[2] = tried.reads >= Sessions]
               /\ IF display = NoEdid THEN Continue("rest") ELSE Fail
    /\ UNCHANGED <<pins, chip, hpd, ram, input, merging, pub, enabled, counts>>

MergeSink ==
    /\ pc = "merge"
    /\ IF ~merging \/ rt.sink = NoEdid \/ rt.mergeTried THEN Continue("merged") /\ UNCHANGED rt
       ELSE LET tried == [rt EXCEPT !.mergeTried = TRUE] IN
            IF rt.sink \in Unmergeable
            THEN rt' = tried /\ Continue("rest")
            ELSE /\ rt' = IF rt.upstream # "merged" \/ rt.merged # Merge(rt.sink)
                          THEN [tried EXCEPT !.merged = Merge(rt.sink), !.pending = TRUE,
                                             !.sessions = 0]
                          ELSE tried
                 /\ Continue("merged")
    /\ UNCHANGED <<pins, chip, hpd, ram, input, merging, pub, enabled, counts>>

PublishMerged ==
    /\ pc = "merged"
    /\ IF rt.pending /\ rt.sessions < Sessions
       THEN rt' = [rt EXCEPT !.sessions = @ + 1] /\ Publish(rt.merged, "merged")
       ELSE Continue("rest") /\ UNCHANGED <<rt, pub>>
    /\ UNCHANGED <<pins, chip, hpd, ram, input, merging, enabled, counts>>

-----------------------------------------------------------------------------
(* it6664_publish_upstream_edid: the EDID is written, the source's HPD goes   *)
(* down for half a second; a failure writes the previous one again           *)

\* Mutant: nothing is restored.
Undo_GivesUp == Fail /\ pub' = NoPub
Undo ==
    \/ /\ ~pub.restoring /\ pub.previous # NoEdid
       /\ fails < MaxFails /\ fails' = fails + 1
       /\ pub' = [pub EXCEPT !.edid = pub.previous, !.restoring = TRUE]
       /\ pc' = "write"
    \/ /\ (pub.restoring \/ pub.previous = NoEdid)
       /\ Fail /\ pub' = [NoPub EXCEPT !.lost = pub.lost \/ pub.restoring]

WriteEdid ==
    /\ pc = "write"
    /\ \/ ram' = pub.edid /\ Continue("low") /\ UNCHANGED <<hpd, pub>>
       \/ ram' \in {ram, Torn} /\ hpd' \in {hpd, FALSE} /\ Undo
    /\ UNCHANGED <<pins, chip, rt, input, merging, enabled, counts>>
LowerHpd ==
    /\ pc = "low"
    /\ \/ hpd' = FALSE /\ Continue("high") /\ UNCHANGED pub
       \/ hpd' \in {hpd, FALSE} /\ Undo
    /\ UNCHANGED <<pins, chip, ram, rt, input, merging, enabled, counts>>

Published ==
    IF pub.restoring
    THEN pub' = NoPub /\ Continue("rest") /\ UNCHANGED <<rt, input>>
    ELSE /\ pub' = NoPub /\ input' = pub.edid
         /\ IF pub.kind = "fixed"
            THEN /\ rt' = [rt EXCEPT !.attempted[1] = TRUE, !.upstream = "fixed"]
                 /\ Continue("read")
            ELSE /\ rt' = [rt EXCEPT !.attempted[1] = TRUE, !.upstream = "merged", !.pending = FALSE,
                                     !.sessions = 0]
                 /\ Continue("rest")
RaiseHpd ==
    /\ pc = "high"
    /\ \/ hpd' = Raised /\ Published
       \/ hpd' \in {hpd, Raised} /\ Undo /\ UNCHANGED <<rt, input>>
    /\ UNCHANGED <<pins, chip, ram, merging, enabled, counts>>

-----------------------------------------------------------------------------
\* The tick in progress is waited for; the chip loses power.
Suspend ==
    /\ enabled /\ pc = "rest" /\ sleeps < MaxSleeps
    /\ enabled' = FALSE /\ sleeps' = sleeps + 1
    /\ rt' = [rt EXCEPT !.switch = NoSwitch] /\ ram' = NoEdid /\ hpd' = FALSE
    /\ UNCHANGED <<pins, chip, input, merging, pc, pub, events, fails>>
Resume ==
    /\ ~enabled
    /\ enabled' = TRUE /\ rt' = Fresh
    /\ latch' = Latched /\ rxLatch' = source /\ swLatch' = {}
    /\ UNCHANGED <<pins, hpd, ram, input, merging, pc, pub, counts, fails>>

Init ==
    /\ source \in BOOLEAN /\ pin1 \in BOOLEAN /\ display \in Displays \cup {NoEdid} /\ sense = FALSE
    /\ latch = Latched /\ rxLatch = source /\ swLatch = {}
    /\ hpd = FALSE /\ ram = NoEdid /\ rt = Fresh /\ input = NoEdid /\ merging \in Merging
    /\ pc = "rest" /\ pub = NoPub
    /\ enabled = TRUE /\ events = 0 /\ fails = 0 /\ sleeps = 0

Work ==
    \/ StartTick \/ SwitchIrq \/ RxPoll \/ RxAck
    \/ PublishFixed \/ ReadSinkEdid \/ MergeSink \/ PublishMerged
    \/ WriteEdid \/ LowerHpd \/ RaiseHpd
    \/ \E p \in Ports : ReadTxIrq(p) \/ AckTxIrq(p) \/ \E e \in Events : Handle(p, e)
Next == Move \/ Work \/ Suspend \/ Resume

Spec == Init /\ [][Next]_vars
-----------------------------------------------------------------------------
AtRest == pc = "rest" /\ enabled
Quiet == AtRest /\ Calm /\ latch = [p \in Ports |-> {}] /\ ~rxLatch

\* Between ticks the source can read the EDID that gc555_it6664_get_input_edid
\* reports, once one was published, however many publications failed half way,
\* unless the one before could not be written again (gc573-it6664-core.c:3812).
ReportedShown == AtRest /\ ~pub.lost /\ rt.upstream # "none" => ram = input

\* What the driver holds of a display is the display's: no EDID or connection
\* outlives it (gc573-it6664-tx.c:1098).
SinkCurrent ==
    Quiet => /\ rt.sink \in {NoEdid, display}
             /\ rt.hpd[2] => display # NoEdid

\* The capture path gets an EDID for its source: it is published once the
\* receiver has answered, and again after a resume (gc573-it6664-core.c:4444).
CardEdidShown == <>[](pin1 /\ fails = 0) => <>[](ram \in Edids)

\* The source's HPD comes back after every pulse: of a publication, of the
\* encryption's timer, of a pause without display (gc573-it6664-core.c:4060).
HpdReturns == <>[](source /\ pin1) => []<>hpd

\* A display that stays decides what the source reads, if its EDID is merged
\* (gc573-it6664-core.c:4469).
DisplayDecides ==
    \A d \in Displays \ Unmergeable : <>[](display = d /\ merging /\ fails = 0) => <>[](ram = Merge(d))
=============================================================================
