-------------------------------- MODULE Led --------------------------------
(***************************************************************************)
(* The lighting of the cards (gc573-led.c).  Both have color registers in  *)
(* the FPGA, set through the file led_mode; the GC555 also has a           *)
(* controller on I2C with one LED class device per pixel, whose brightness *)
(* a delayed work writes.  Threads: writers of led_mode, one that sets     *)
(* brightness, the work, and the one that probes, suspends and removes     *)
(* (core.c).  User threads are frozen while the system sleeps.             *)
(***************************************************************************)
EXTENDS Naturals, FiniteSets

CONSTANTS
    Board,          \* "gc555" or "gc573"
    Writers,        \* threads that write led_mode
    Modes,          \* colors, 0 is off
    MaxBrightness,  \* bound on the calls that set brightness
    MaxFailures,    \* bound on failing I2C writes
    MaxSleeps       \* bound on suspends

VARIABLES
    lock,                   \* owner of led->lock
    wpc, arg,               \* per writer: place, mode it stores
    setter, sees_running,   \* the setter of brightness; running as it read it
    work, pending,          \* the work; it is queued
    pm, going,              \* the power thread; where it goes
    file, client,           \* led_mode exists; the I2C client does
    running, mode,
    pwm, shown,             \* brightness wanted, and written to the chip
    enable, color,          \* FPGA sequencer enabled; its color
    gpio9,                  \* the GPIO was driven
    settings, failures, sleeps

writerVars == <<wpc, arg>>
setterVars == <<setter, sees_running>>
workVars == <<work, pending>>
pmVars == <<pm, going>>
fpgaVars == <<enable, color>>
dataVars == <<running, mode, pwm, shown>>
existVars == <<file, client>>
boundVars == <<settings, failures, sleeps>>
vars == <<lock, writerVars, setterVars, workVars, pmVars, existVars, dataVars, fpgaVars,
          gpio9, boundVars>>

\* The types of every variable.
TypeOK ==
    /\ lock \in Writers \cup {"none", "setter", "work", "pm"}
    /\ wpc \in [Writers -> {"idle", "stop", "program", "enable", "lock", "chip"}]
    /\ arg \in [Writers -> Modes]
    /\ setter \in {"idle", "set", "queue"} /\ sees_running \in BOOLEAN
    /\ work \in {"idle", "lock", "write"} /\ pending \in BOOLEAN
    /\ pm \in {"probe", "up", "stop", "cancel", "unfile", "dark", "stop2", "cancel2", "unregister",
               "gone", "asleep", "hw", "relock", "deadlock", "oops"}
    /\ going \in {"nowhere", "sleep", "remove"} /\ file \in BOOLEAN /\ client \in BOOLEAN
    /\ running \in BOOLEAN /\ mode \in Modes /\ pwm \in 0 .. MaxBrightness
    /\ shown \in 0 .. MaxBrightness /\ enable \in BOOLEAN /\ color \in Modes /\ gpio9 \in BOOLEAN
    /\ settings \in 0 .. MaxBrightness /\ failures \in 0 .. MaxFailures /\ sleeps \in 0 .. MaxSleeps

Init ==
    /\ lock = "none" /\ wpc = [w \in Writers |-> "idle"] /\ arg = [w \in Writers |-> 0]
    /\ setter = "idle" /\ sees_running = FALSE /\ work = "idle" /\ pending = FALSE
    /\ pm = "probe" /\ going = "nowhere" /\ file = FALSE /\ client = FALSE
    /\ running = FALSE /\ mode = 0 /\ pwm = 0 /\ shown = 0 /\ enable = FALSE /\ color = 0
    /\ gpio9 = FALSE /\ settings = 0 /\ failures = 0 /\ sleeps = 0

Awake == pm # "asleep" /\ ~(going = "sleep" /\ pm \in {"stop", "cancel", "hw", "relock", "deadlock",
                                                         "oops"})

\* gc555_led_init: the GC555 looks for the controller; then the first mode is
\* set.  Nobody else is there yet.
Probe ==
    /\ pm = "probe" /\ pm' = "up" /\ file' = TRUE
    /\ IF Board = "gc555" THEN client' \in BOOLEAN /\ gpio9' = TRUE
       ELSE UNCHANGED <<client, gpio9>>
    /\ running' = client'
    /\ \E m \in Modes : mode' = m /\ color' = m /\ enable' = (m # 0)
    /\ UNCHANGED <<lock, writerVars, setterVars, workVars, going, pwm, shown, boundVars>>

-----------------------------------------------------------------------------
(* led_mode: gc555_led_set_mode                                             *)

Store(w) ==
    /\ wpc[w] = "idle" /\ file /\ Awake
    /\ \E m \in Modes \ {mode} : arg' = [arg EXCEPT ![w] = m]
    /\ wpc' = [wpc EXCEPT ![w] = "stop"]
    /\ UNCHANGED <<lock, setterVars, workVars, pmVars, existVars, dataVars, fpgaVars, gpio9,
                   boundVars>>

\* gc573_fpga_set_led: the sequencer is stopped, the color written, the
\* sequencer started; the lock is not held.
StopSequencer(w) ==
    /\ wpc[w] = "stop" /\ wpc' = [wpc EXCEPT ![w] = "program"]
    /\ enable' = FALSE
    /\ UNCHANGED <<lock, arg, setterVars, workVars, pmVars, existVars, dataVars, color, gpio9,
                   boundVars>>
Program(w) ==
    /\ wpc[w] = "program" /\ wpc' = [wpc EXCEPT ![w] = "enable"]
    /\ color' = arg[w]
    /\ UNCHANGED <<lock, arg, setterVars, workVars, pmVars, existVars, dataVars, enable, gpio9,
                   boundVars>>
Enable(w) ==
    /\ wpc[w] = "enable" /\ wpc' = [wpc EXCEPT ![w] = "lock"]
    /\ enable' = (arg[w] # 0)
    /\ UNCHANGED <<lock, arg, setterVars, workVars, pmVars, existVars, dataVars, color, gpio9,
                   boundVars>>
LockMode(w) ==
    /\ wpc[w] = "lock" /\ wpc' = [wpc EXCEPT ![w] = "chip"]
    /\ lock = "none" /\ lock' = w
    /\ UNCHANGED <<arg, setterVars, workVars, pmVars, existVars, dataVars, fpgaVars, gpio9,
                   boundVars>>

\* Mutant: the mode is not remembered.
SetMode_Forgets(w) ==
    /\ wpc[w] = "chip" /\ wpc' = [wpc EXCEPT ![w] = "idle"]
    /\ lock' = "none"
    /\ IF client /\ arg[w] = 0 THEN pwm' = 0 /\ shown' = 0 ELSE UNCHANGED <<pwm, shown>>
    /\ UNCHANGED <<arg, setterVars, workVars, pmVars, existVars, running, mode, fpgaVars, gpio9,
                   boundVars>>

\* The controller, where there is one, is cleared for mode 0.
SetMode(w) ==
    /\ wpc[w] = "chip" /\ wpc' = [wpc EXCEPT ![w] = "idle"]
    /\ lock' = "none" /\ mode' = arg[w]
    /\ IF client /\ arg[w] = 0 THEN pwm' = 0 /\ shown' = 0 ELSE UNCHANGED <<pwm, shown>>
    /\ UNCHANGED <<arg, setterVars, workVars, pmVars, existVars, running, fpgaVars, gpio9,
                   boundVars>>

-----------------------------------------------------------------------------
(* Brightness of a pixel: gc555_led_set_brightness and its work             *)

StartSetting ==
    /\ setter = "idle" /\ client /\ pm \notin {"unregister", "gone"} /\ Awake
    /\ settings < MaxBrightness /\ settings' = settings + 1
    /\ setter' = "set"
    /\ UNCHANGED <<lock, writerVars, sees_running, workVars, pmVars, existVars, dataVars, fpgaVars,
                   gpio9, failures, sleeps>>

\* Under the lock: the value is stored and running read.
SetBrightness ==
    /\ setter = "set" /\ lock = "none" /\ setter' = "queue"
    /\ pwm' = settings /\ sees_running' = running
    /\ UNCHANGED <<lock, writerVars, workVars, pmVars, existVars, running, mode, shown, fpgaVars,
                   gpio9, boundVars>>

\* Without the lock the work is queued.
Queue ==
    /\ setter = "queue" /\ setter' = "idle"
    /\ pending' = (pending \/ sees_running)
    /\ UNCHANGED <<lock, writerVars, sees_running, work, pmVars, existVars, dataVars, fpgaVars,
                   gpio9, boundVars>>

StartWork ==
    /\ pending /\ work = "idle" /\ pending' = FALSE /\ work' = "lock"
    /\ UNCHANGED <<lock, writerVars, setterVars, pmVars, existVars, dataVars, fpgaVars, gpio9,
                   boundVars>>

\* gc555_led_update_work
EnterWork ==
    /\ work = "lock" /\ lock = "none"
    /\ IF running THEN lock' = "work" /\ work' = "write" ELSE work' = "idle" /\ UNCHANGED lock
    /\ UNCHANGED <<writerVars, setterVars, pending, pmVars, existVars, dataVars, fpgaVars, gpio9,
                   boundVars>>

\* gc555_led_write_pwm; what fails is not written again.
Write(fails) ==
    /\ work = "write" /\ work' = "idle" /\ lock' = "none"
    /\ IF fails THEN failures < MaxFailures /\ failures' = failures + 1 /\ UNCHANGED shown
       ELSE shown' = pwm /\ UNCHANGED failures
    /\ UNCHANGED <<writerVars, setterVars, pending, pmVars, existVars, running, mode, pwm, fpgaVars,
                   gpio9, settings, sleeps>>

-----------------------------------------------------------------------------
(* Suspend, resume and removal                                              *)

Frozen == setter = "idle" /\ \A w \in Writers : wpc[w] = "idle"

Suspend ==
    /\ pm = "up" /\ Frozen /\ sleeps < MaxSleeps /\ sleeps' = sleeps + 1
    /\ pm' = "stop" /\ going' = "sleep"
    /\ UNCHANGED <<lock, writerVars, setterVars, workVars, existVars, dataVars, fpgaVars, gpio9,
                   settings, failures>>
Remove ==
    /\ pm = "up" /\ pm' = "stop" /\ going' = "remove"
    /\ UNCHANGED <<lock, writerVars, setterVars, workVars, existVars, dataVars, fpgaVars, gpio9,
                   boundVars>>

\* gc555_led_suspend, and the same lines of gc555_led_cleanup: running is
\* cleared under the lock, then the work is cancelled and waited for.
StopRunning ==
    /\ pm \in {"stop", "stop2"} /\ lock = "none" /\ running' = FALSE
    /\ pm' = IF pm = "stop" THEN "cancel" ELSE "cancel2"
    /\ UNCHANGED <<lock, writerVars, setterVars, workVars, going, existVars, mode, pwm, shown,
                   fpgaVars, gpio9, boundVars>>
Cancel ==
    /\ pm \in {"cancel", "cancel2"} /\ work = "idle" /\ pending' = FALSE
    /\ pm' = IF pm = "cancel2" THEN "unregister" ELSE IF going = "sleep" THEN "asleep" ELSE "unfile"
    /\ UNCHANGED <<lock, writerVars, setterVars, work, going, existVars, dataVars, fpgaVars, gpio9,
                   boundVars>>

\* gc555_remove waits for the writers of led_mode.
RemoveFile ==
    /\ pm = "unfile" /\ file' = FALSE
    /\ \A w \in Writers : wpc[w] = "idle"
    /\ pm' = "dark"
    /\ UNCHANGED <<lock, writerVars, setterVars, workVars, going, client, dataVars, fpgaVars, gpio9,
                   boundVars>>

\* gc555_led_cleanup: lights off, stop, unregister the pixels and the client.
Dark ==
    /\ pm = "dark" /\ pm' = "stop2" /\ enable' = FALSE /\ color' = 0
    /\ UNCHANGED <<lock, writerVars, setterVars, workVars, going, existVars, dataVars, gpio9,
                   boundVars>>
Unregister ==
    /\ pm = "unregister" /\ setter = "idle"
    /\ pm' = "gone" /\ client' = FALSE
    /\ UNCHANGED <<lock, writerVars, setterVars, workVars, going, file, dataVars, fpgaVars, gpio9,
                   boundVars>>

\* gc555_led_resume takes the lock and sets the controller up, on every card.
\* Without a client the first transfer reads through a null pointer.
Resume ==
    /\ pm = "asleep" /\ lock = "none" /\ lock' = "pm" /\ pm' = "hw"
    /\ UNCHANGED <<writerVars, setterVars, workVars, going, existVars, dataVars, fpgaVars, gpio9,
                   boundVars>>
SetUpChip(fails) ==
    /\ pm = "hw" /\ gpio9' = TRUE
    /\ fails => failures < MaxFailures
    /\ failures' = IF fails THEN failures + 1 ELSE failures
    /\ IF ~client THEN ~fails /\ pm' = "oops" /\ UNCHANGED <<lock, running, pwm, shown, going>>
       ELSE IF fails THEN pm' = "up" /\ lock' = "none" /\ going' = "nowhere"
                          /\ UNCHANGED <<running, pwm, shown>>
       ELSE pm' = "relock" /\ running' = TRUE /\ pwm' = 0 /\ shown' = 0 /\ UNCHANGED <<lock, going>>
    /\ UNCHANGED <<writerVars, setterVars, workVars, existVars, mode, fpgaVars, settings, sleeps>>

\* Then it calls gc555_led_set_mode, which sets the color and waits for the lock
\* that its caller holds.
SetModeAgain ==
    /\ pm = "relock" /\ pm' = "deadlock"
    /\ color' = mode /\ enable' = (mode # 0)
    /\ UNCHANGED <<lock, writerVars, setterVars, workVars, going, existVars, dataVars, gpio9,
                   boundVars>>

Next ==
    \/ Probe
    \/ \E w \in Writers : Store(w) \/ StopSequencer(w) \/ Program(w) \/ Enable(w) \/ LockMode(w)
                          \/ SetMode(w)
    \/ StartSetting \/ SetBrightness \/ Queue \/ StartWork \/ EnterWork
    \/ \E fails \in BOOLEAN : Write(fails) \/ SetUpChip(fails)
    \/ Suspend \/ Remove \/ StopRunning \/ Cancel \/ RemoveFile \/ Dark \/ Unregister \/ Resume
    \/ SetModeAgain

Spec == Init /\ [][Next]_vars

-----------------------------------------------------------------------------
(* Properties                                                               *)

\* The card shows the color that led_mode reads, when nobody is writing it.
ColorIsMode ==
    pm = "up" /\ (\A w \in Writers : wpc[w] = "idle") => color = mode /\ enable = (mode # 0)

\* The last brightness is on the chip or a work is due that writes it.
BrightnessDue ==
    pm = "up" /\ running /\ setter = "idle" /\ work = "idle" /\ failures = 0 =>
        shown = pwm \/ pending

\* No pixel is written while the card sleeps or after its client is gone.
QuietWhenStopped == pm \in {"asleep", "gone", "unregister"} => work # "write"

\* The sequencer is stopped while its color is programmed.
StoppedWhileProgrammed == \A w \in Writers : wpc[w] \in {"program", "enable"} => ~enable
=============================================================================
