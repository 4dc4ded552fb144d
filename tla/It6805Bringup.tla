---------------------------- MODULE It6805Bringup ----------------------------
(***************************************************************************)
(* How the IT6805 receiver is brought up (gc573-it6805-core.c): by probe   *)
(* and by resume the base registers are written, the termination is        *)
(* calibrated (CAOF), the oscillator measured (OCLK), the EDID loaded, the *)
(* input path set up, and the runtime worker started; suspend and removal  *)
(* stop it.  At any step a register access may fail.                       *)
(*                                                                         *)
(* Of the registers only those stay that must be put back: the calibration *)
(* mode of each port, the access to the OCLK engine, the EDID memory, HPD. *)
(***************************************************************************)
EXTENDS Naturals

CONSTANTS
    PulseAfter, MaxRestarts,   \* IT6805_CAOF_PULSE_AFTER_POLLS, _MAX_RESTARTS
    MaxPolls,                  \* IT6805_OCLK_MAX_POLLS
    MaxFailures,               \* bound on the failing accesses
    MaxSleeps                  \* bound on suspends

Ports == {0, 1}
MaxReads == MaxRestarts * PulseAfter + 2

VARIABLES
    \* the chip: calibration mode, forced retry, OCLK engine open, EDID memory
    \* (none, half, full), HPD line, 5 V
    calibrating, retried, oclk, edid, hpd, power,
    \* caof_result: completion, restarts; polls since the last pulse, reads of the
    \* completion; polls of the OCLK status
    done, restarts, polls, reads, status_polls,
    \* I2C clients exist; gc555->it6805 is published; runtime worker runs
    clients, published, worker,
    \* the place; the step that failed, or none; HPD before the attempt
    pc, failing, before,
    resuming, failures, sleeps

chipVars == <<calibrating, retried, oclk, edid, hpd>>
caofVars == <<done, restarts, polls, reads, status_polls>>
lifeVars == <<clients, published, worker>>
stepVars == <<failing, before, resuming, failures, sleeps>>
vars == <<chipVars, power, caofVars, lifeVars, pc, stepVars>>

InputSteps == {"edidLow", "edid0", "edid1", "verify", "port", "eq", "handle5v", "after"}
Steps == {"clients", "identity", "sequence", "caof", "wait", "force", "caofEnd",
          "output", "oclk", "oclkWait", "oclkEnd", "program", "input", "edidLow", "edid0", "edid1",
          "verify", "port", "eq", "handle5v", "after", "restore", "irq", "start", "release"}

\* The types of every variable.
TypeOK ==
    /\ calibrating \subseteq Ports /\ retried \subseteq Ports /\ oclk \in BOOLEAN
    /\ edid \in {"none", "half", "full"} /\ hpd \in BOOLEAN /\ power \in BOOLEAN
    /\ done \subseteq Ports /\ restarts \in 0 .. MaxRestarts /\ polls \in 0 .. PulseAfter
    /\ reads \in 0 .. MaxReads + 1 /\ status_polls \in 0 .. MaxPolls
    /\ clients \in BOOLEAN /\ published \in BOOLEAN /\ worker \in BOOLEAN
    /\ pc \in Steps \cup {"up", "asleep", "failed", "gone"}
    /\ failing \in Steps \cup {"none", "cleanup"} /\ before \in BOOLEAN /\ resuming \in BOOLEAN
    /\ failures \in 0 .. MaxFailures /\ sleeps \in 0 .. MaxSleeps

Init ==
    /\ calibrating = {} /\ retried = {} /\ oclk = FALSE /\ edid = "none"
    /\ hpd \in BOOLEAN /\ power \in BOOLEAN
    /\ done = {} /\ restarts = 0 /\ polls = 0 /\ reads = 0 /\ status_polls = 0
    /\ clients = FALSE /\ published = FALSE /\ worker = FALSE
    /\ pc = "clients" /\ failing = "none" /\ before = hpd /\ resuming = FALSE
    /\ failures = 0 /\ sleeps = 0

\* The cable is plugged or pulled (external).
TogglePower ==
    /\ power' = ~power
    /\ UNCHANGED <<chipVars, caofVars, lifeVars, pc, stepVars>>

\* From one step to the next.
Go(from, to) == pc = from /\ pc' = to

\* The caller's cleanup when a step fails: of the calibration, of the OCLK
\* engine, of HPD; then release (probe) or the error alone (resume).
Abort == IF resuming THEN "failed" ELSE "release"
\* Mutant: a failing calibration is not ended.
Cleanup_NoCaof(step) ==
    CASE step \in {"oclk", "oclkWait"} -> "oclkEnd"
      [] step \in InputSteps -> "restore"
      [] OTHER -> Abort

Cleanup(step) ==
    CASE step \in {"caof", "wait", "force"} -> "caofEnd"
      [] step \in {"oclk", "oclkWait"} -> "oclkEnd"
      [] step \in InputSteps -> "restore"
      [] OTHER -> Abort

Fail ==
    /\ pc \in Steps \ {"release", "caofEnd", "oclkEnd", "restore"}
    /\ failures < MaxFailures /\ failures' = failures + 1
    /\ failing' = pc /\ pc' = Cleanup(pc)
    /\ \E c \in {calibrating, calibrating \cup {0}, Ports} :
          calibrating' = IF pc = "caof" THEN c ELSE calibrating
    /\ oclk' \in IF pc = "oclk" THEN {oclk, TRUE} ELSE {oclk}
    /\ edid' \in IF pc \in {"edid0", "edid1"} THEN {edid, "half"} ELSE {edid}
    /\ UNCHANGED <<retried, hpd, power, caofVars, lifeVars, before, resuming, sleeps>>

\* gc555_it6805_init: both clients and register maps.
Clients ==
    /\ Go("clients", "identity") /\ clients' = TRUE
    /\ UNCHANGED <<chipVars, power, caofVars, published, worker, stepVars>>

\* Identity and revision are read, the base registers written.
Identity ==
    /\ Go("identity", "sequence")
    /\ UNCHANGED <<chipVars, power, caofVars, lifeVars, stepVars>>
Sequence ==
    /\ Go("sequence", "caof")
    /\ done' = {} /\ restarts' = 0 /\ polls' = 0 /\ reads' = 0 /\ status_polls' = 0
    /\ UNCHANGED <<chipVars, power, lifeVars, stepVars>>

-----------------------------------------------------------------------------
(* it6805_run_caof                                                          *)

\* it6805_caof_prepare_locked, and the first read of the completion.
CaofPrepare ==
    /\ Go("caof", "wait")
    /\ calibrating' = Ports
    /\ \E d \in SUBSET Ports : done' = d
    /\ reads' = 1
    /\ UNCHANGED <<retried, oclk, edid, hpd, power, restarts, polls, status_polls, lifeVars,
                   stepVars>>

\* One turn of it6805_caof_wait_locked: after PulseAfter polls the ports that
\* are not done are pulsed.
CaofPoll ==
    /\ pc = "wait" /\ done # Ports /\ restarts < MaxRestarts
    /\ \E d \in SUBSET Ports : done \subseteq d /\ done' = d
    /\ reads' = reads + 1
    /\ LET pulse == polls >= PulseAfter
           last == pulse /\ restarts + 1 >= MaxRestarts IN
       /\ restarts' = IF pulse THEN restarts + 1 ELSE restarts
       /\ polls' = IF last THEN 0 ELSE IF pulse THEN 1 ELSE polls + 1
    /\ UNCHANGED <<chipVars, power, status_polls, lifeVars, pc, stepVars>>

CaofWaited ==
    /\ pc = "wait" /\ (done = Ports \/ restarts >= MaxRestarts)
    /\ pc' = IF restarts < MaxRestarts THEN "caofEnd" ELSE "force"
    /\ UNCHANGED <<chipVars, power, caofVars, lifeVars, stepVars>>

\* it6805_caof_force_retry_locked for the ports that are still not done.
CaofForce ==
    /\ Go("force", "caofEnd")
    /\ retried' = Ports \ done
    /\ UNCHANGED <<calibrating, oclk, edid, hpd, power, caofVars, lifeVars, stepVars>>

\* it6805_caof_cleanup_locked, whatever came before.  It may fail too.
CaofEnd(fails) ==
    /\ pc = "caofEnd"
    /\ IF fails
       THEN /\ failures < MaxFailures /\ failures' = failures + 1 /\ failing' = "cleanup"
            /\ calibrating' \in {calibrating, calibrating \ {0}, {}}
       ELSE calibrating' = {} /\ UNCHANGED <<failures, failing>>
    /\ pc' = IF fails \/ failing # "none" THEN Abort ELSE "output"
    /\ UNCHANGED <<retried, oclk, edid, hpd, power, caofVars, lifeVars, before, resuming, sleeps>>

-----------------------------------------------------------------------------
(* it6805_disable_video_output and it6805_calibrate_oclk                    *)

Output ==
    /\ Go("output", "oclk")
    /\ UNCHANGED <<chipVars, power, caofVars, lifeVars, stepVars>>

\* The engine is opened; it is ready at once, or polled MaxPolls times.
OclkOpen ==
    /\ pc = "oclk" /\ pc' \in {"oclkWait", "oclkEnd"}
    /\ oclk' = TRUE
    /\ UNCHANGED <<calibrating, retried, edid, hpd, power, caofVars, lifeVars, stepVars>>

\* The status is polled MaxPolls times at most; not ready is not an error.
OclkPoll ==
    /\ pc = "oclkWait"
    /\ IF status_polls < MaxPolls
       THEN status_polls' = status_polls + 1 /\ pc' \in {"oclkWait", "oclkEnd"}
       ELSE pc' = "oclkEnd" /\ UNCHANGED status_polls
    /\ UNCHANGED <<chipVars, power, done, restarts, polls, reads, lifeVars, stepVars>>

\* it6805_oclk_cleanup_locked closes it, even when selecting bank 1 failed.
OclkEnd(fails) ==
    /\ pc = "oclkEnd"
    /\ IF fails
       THEN /\ failures < MaxFailures /\ failures' = failures + 1 /\ failing' = "cleanup"
            /\ oclk' \in {oclk, FALSE}
       ELSE oclk' = FALSE /\ UNCHANGED <<failures, failing>>
    /\ pc' = IF fails \/ failing # "none" THEN Abort ELSE "program"
    /\ UNCHANGED <<calibrating, retried, edid, hpd, power, caofVars, lifeVars, before, resuming,
                   sleeps>>

\* it6805_program_oclk_locked
Program ==
    /\ Go("program", "input")
    /\ UNCHANGED <<chipVars, power, caofVars, lifeVars, stepVars>>

-----------------------------------------------------------------------------
(* it6805_initialize_input_path                                             *)

Input ==
    /\ Go("input", "edidLow") /\ before' = hpd
    /\ UNCHANGED <<chipVars, power, caofVars, lifeVars, failing, resuming, failures, sleeps>>

\* it6805_set_port0_hpd_locked: with 5 V the line may be left alone (bit 6).
SetHpd(high) == hpd' \in IF power THEN {hpd, high} ELSE {high}

EdidLow ==
    /\ Go("edidLow", "edid0") /\ SetHpd(FALSE)
    /\ UNCHANGED <<calibrating, retried, oclk, edid, power, caofVars, lifeVars, stepVars>>

\* it6805_write_edid_block_locked for either block, with the checksums.
Edid0 ==
    /\ Go("edid0", "edid1") /\ edid' = "half"
    /\ UNCHANGED <<calibrating, retried, oclk, hpd, power, caofVars, lifeVars, stepVars>>

\* Mutant: the first block only.
Edid1_Half ==
    /\ Go("edid1", "verify") /\ UNCHANGED edid
    /\ UNCHANGED <<calibrating, retried, oclk, hpd, power, caofVars, lifeVars, stepVars>>

Edid1 ==
    /\ Go("edid1", "verify") /\ edid' = "full"
    /\ UNCHANGED <<calibrating, retried, oclk, hpd, power, caofVars, lifeVars, stepVars>>

\* it6805_verify_edid_locked fails on any mismatch (Fail); the ports are enabled.
Verify ==
    /\ Go("verify", "port")
    /\ UNCHANGED <<chipVars, power, caofVars, lifeVars, stepVars>>

\* it6805_configure_ttl_locked and it6805_select_port0_locked
SelectPort ==
    /\ Go("port", "eq")
    /\ UNCHANGED <<chipVars, power, caofVars, lifeVars, stepVars>>

\* it6805_reset_eq_port0_locked
ResetEq ==
    /\ Go("eq", "handle5v")
    /\ UNCHANGED <<chipVars, power, caofVars, lifeVars, stepVars>>

\* it6805_handle_5v_port0_locked, twice.
Handle5v ==
    /\ Go("handle5v", "after") /\ SetHpd(power)
    /\ UNCHANGED <<calibrating, retried, oclk, edid, power, caofVars, lifeVars, stepVars>>

After ==
    /\ Go("after", "irq")
    /\ UNCHANGED <<chipVars, power, caofVars, lifeVars, stepVars>>

\* it6805_restore_input_hpd, which may fail too.
Restore(fails) ==
    /\ Go("restore", Abort)
    /\ IF fails
       THEN /\ failures < MaxFailures /\ failures' = failures + 1 /\ failing' = "cleanup"
            /\ UNCHANGED hpd
       ELSE hpd' = before /\ UNCHANGED <<failures, failing>>
    /\ UNCHANGED <<calibrating, retried, oclk, edid, power, caofVars, lifeVars, before, resuming,
                   sleeps>>

-----------------------------------------------------------------------------
(* The worker and the life of the component                                 *)

Irq ==
    /\ Go("irq", "start")
    /\ UNCHANGED <<chipVars, power, caofVars, lifeVars, stepVars>>

\* it6805_runtime_start; probe then publishes the component.
Start ==
    /\ Go("start", "up") /\ worker' = TRUE /\ published' = TRUE
    /\ UNCHANGED <<chipVars, power, caofVars, clients, stepVars>>

\* The runtime handles the 5 V (It6805Signal).
Runtime ==
    /\ worker /\ hpd # power
    /\ hpd' = power
    /\ UNCHANGED <<calibrating, retried, oclk, edid, power, caofVars, lifeVars, pc, stepVars>>

\* gc555_it6805_release stops the worker and unregisters the clients.
Release ==
    /\ pc = "release" /\ pc' = "gone"
    /\ worker' = FALSE /\ clients' = FALSE /\ published' = FALSE
    /\ UNCHANGED <<chipVars, power, caofVars, stepVars>>

\* gc555_it6805_cleanup, from removal or after a resume that failed.
Remove ==
    /\ pc \in {"up", "failed", "asleep"} /\ published
    /\ pc' = "release" /\ published' = FALSE
    /\ UNCHANGED <<chipVars, power, caofVars, clients, worker, stepVars>>

\* gc555_it6805_suspend stops the worker only; the card loses power.
Suspend ==
    /\ pc = "up" /\ sleeps < MaxSleeps /\ sleeps' = sleeps + 1
    /\ worker' = FALSE /\ pc' = "asleep"
    /\ edid' = "none" /\ hpd' = FALSE /\ retried' = {}
    /\ UNCHANGED <<calibrating, oclk, power, caofVars, clients, published, failing, before,
                   resuming, failures>>

\* gc555_it6805_resume
Resume ==
    /\ pc = "asleep" /\ pc' = "identity"
    /\ resuming' = TRUE /\ failing' = "none" /\ before' = hpd
    /\ UNCHANGED <<chipVars, power, caofVars, lifeVars, failures, sleeps>>

Advance ==
    \/ Clients \/ Identity \/ Sequence \/ CaofPrepare \/ CaofPoll \/ CaofWaited \/ CaofForce
    \/ CaofEnd(FALSE) \/ Output \/ OclkOpen \/ OclkPoll \/ OclkEnd(FALSE) \/ Program \/ Input
    \/ EdidLow \/ Edid0 \/ Edid1 \/ Verify \/ SelectPort \/ ResetEq \/ Handle5v \/ After
    \/ Restore(FALSE) \/ Irq
    \/ Start \/ Release

Next ==
    \/ Advance \/ Fail \/ CaofEnd(TRUE) \/ OclkEnd(TRUE) \/ Restore(TRUE)
    \/ TogglePower \/ Runtime \/ Remove \/ Suspend \/ Resume

Spec == Init /\ [][Next]_vars
-----------------------------------------------------------------------------
(* Properties                                                               *)

Rest == pc \in {"up", "failed", "gone", "asleep"}

\* Wherever a bring-up ends, the calibration mode is left and the OCLK engine
\* closed, if the cleanup itself did not fail.
ModesLeft == Rest /\ failing # "cleanup" => calibrating = {} /\ ~oclk

\* The wait for the calibration is bounded, whatever the chip answers.
CaofBounded == reads <= MaxReads

\* A failing setup of the input path leaves HPD as it found it.
HpdRestored == Rest /\ failing \in InputSteps => hpd = before

\* The worker, which raises HPD, runs on a chip with the whole EDID and with its
\* clients.
WorkerIsSafe == worker => edid = "full" /\ clients
=============================================================================
