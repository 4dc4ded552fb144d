------------------------------ MODULE EverHub ------------------------------
(***************************************************************************)
(* The console hub (everlive_viewer.py): GameStreamer starts and stops the *)
(* display engine as a child process; MainWindow does so from a button,    *)
(* the preset box, the re-sync button and single-shot timers, and looks    *)
(* once a second whether the child still runs; main without a window does  *)
(* the same in a loop. Qt runs one handler at a time, a handler is a step  *)
(* here, but for the start of the child: a Python signal handler may run   *)
(* between the fork and the assignment of mpv_proc. stop ends within its   *)
(* step: SIGTERM and then SIGKILL end the child. Times are left out and    *)
(* timers fire in any order.                                               *)
(***************************************************************************)
EXTENDS Integers, FiniteSets

CONSTANTS
    Presets,
    Processes,      \* process ids of display engines
    Attempts,       \* of the restart after a re-sync, 12 in the code
    Chains,         \* restarts after a re-sync that may be pending at once
    MaxTimers,      \* starts that may be pending at once
    ForceMpv,       \* --mpv
    InterruptStart, \* SIGINT may arrive while the child is being started
    MaxClicks, MaxEnds  \* bounds

NoProcess == 0

VARIABLES
    hub,        \* "loop": the Qt event loop; "cli", "polling": main without a window
    starting,   \* the child runs, mpv_proc is not assigned
    isRunning, proc,    \* GameStreamer.is_running, mpv_proc
    alive,      \* display engines that run
    played,     \* the preset the last one was started with
    combo,      \* the preset box
    label,      \* the button offers to "start" or to "stop"
    timers,     \* pending single shots of start_gaming_screen
    waiting,    \* attempts left of pending _wait_and_restart_after_resync
    resyncing,
    device,     \* the video device exists
    native,     \* everlive_display is there and can be run
    failed,     \* the last start failed
    clicks, ends

streamer == <<starting, isRunning, proc, alive, played, failed>>
window == <<combo, label, timers, waiting, resyncing>>
vars == <<hub, streamer, window, device, native, clicks, ends>>

HubTypeOK ==
    /\ hub \in {"loop", "cli", "polling", "exited"}
    /\ starting \in BOOLEAN /\ isRunning \in BOOLEAN /\ failed \in BOOLEAN
    /\ proc \in Processes \cup {NoProcess} /\ alive \subseteq Processes
    /\ played \in Presets /\ combo \in Presets /\ label \in {"start", "stop"}
    /\ timers \in 0..MaxTimers /\ waiting \in [Chains -> 0..Attempts]
    /\ resyncing \in BOOLEAN /\ device \in BOOLEAN /\ native \in BOOLEAN

\* autostart is a single shot of start_gaming_screen.
Init ==
    /\ hub \in {"loop", "cli"}
    /\ starting = FALSE /\ isRunning = FALSE /\ proc = NoProcess /\ alive = {}
    /\ combo \in Presets /\ played = combo /\ label = "start"
    /\ timers \in (IF hub = "loop" THEN {0, 1} ELSE {0}) /\ waiting = [c \in Chains |-> 0]
    /\ resyncing = FALSE /\ device \in BOOLEAN /\ native \in BOOLEAN /\ failed = FALSE
    /\ clicks = 0 /\ ends = 0

-----------------------------------------------------------------------------
(* GameStreamer                                                             *)

\* stop: the child that mpv_proc names ends.
StopStreamer ==
    /\ isRunning' = FALSE /\ alive' = alive \ {proc} /\ proc' = NoProcess
    /\ UNCHANGED <<starting, played, failed>>

\* The display engine is started, without a return from start yet.
ForkDisplay(preset) ==
    /\ device /\ native /\ ~ForceMpv
    /\ \E p \in Processes \ alive : alive' = alive \cup {p} /\ proc' = p
    /\ starting' = TRUE /\ played' = preset
    /\ UNCHANGED <<isRunning, failed>>

\* There is no device, or Popen raises an exception, or mpv is to be started:
\* that always raises one, its environment mpv_env is not defined anywhere.
StartFails ==
    /\ failed' = TRUE
    /\ UNCHANGED <<starting, isRunning, proc, alive, played>>

Start(preset) == ForkDisplay(preset) \/ StartFails

\* Mutant: start does not ask whether it runs already.
StartScreen_Again == Start(combo)
StartScreen == IF isRunning THEN UNCHANGED streamer ELSE Start(combo)

\* mpv_proc and is_running are assigned, the button changes.
Started ==
    /\ starting /\ hub # "exited"
    /\ starting' = FALSE /\ isRunning' = TRUE /\ failed' = FALSE
    /\ hub' = (IF hub = "cli" THEN "polling" ELSE hub)
    /\ label' = (IF hub = "loop" THEN "stop" ELSE label)
    /\ UNCHANGED <<proc, alive, played, combo, timers, waiting, resyncing, device, native, clicks, ends>>

Poll == IF proc \in alive THEN UNCHANGED streamer ELSE StopStreamer

-----------------------------------------------------------------------------
(* MainWindow                                                               *)

InLoop == hub = "loop" /\ ~starting
Click == InLoop /\ clicks < MaxClicks /\ clicks' = clicks + 1
External == UNCHANGED <<hub, device, native, ends>>

ToggleStream ==
    /\ Click /\ External
    /\ IF isRunning THEN StopStreamer /\ label' = "start" ELSE StartScreen /\ UNCHANGED label
    /\ UNCHANGED <<combo, timers, waiting, resyncing>>

StartTimer ==
    /\ InLoop /\ External /\ timers > 0
    /\ timers' = timers - 1 /\ StartScreen
    /\ UNCHANGED <<combo, label, waiting, resyncing, clicks>>

\* Mutant: a new preset only takes effect at the next start.
ChangePreset_Saved ==
    /\ Click /\ External
    /\ combo' \in Presets \ {combo}
    /\ UNCHANGED <<streamer, timers, label, waiting, resyncing>>
ChangePreset ==
    /\ Click /\ External
    /\ combo' \in Presets \ {combo}
    /\ IF isRunning
       THEN timers < MaxTimers /\ StopStreamer /\ timers' = timers + 1
       ELSE UNCHANGED <<streamer, timers>>
    /\ UNCHANGED <<label, waiting, resyncing>>

ForceResync ==
    /\ Click /\ External /\ ~resyncing
    /\ resyncing' = TRUE
    /\ IF isRunning
       THEN /\ StopStreamer /\ label' = "start"
            /\ \E c \in Chains : waiting[c] = 0 /\ waiting' = [waiting EXCEPT ![c] = Attempts]
       ELSE UNCHANGED <<streamer, label, waiting>>
    /\ UNCHANGED <<combo, timers>>

ResyncDone ==
    /\ InLoop /\ External /\ resyncing
    /\ resyncing' = FALSE
    /\ UNCHANGED <<streamer, combo, label, timers, waiting, clicks>>

\* get_signal_info has no entry "active": the restart waits for its last attempt.
SignalActive == FALSE

WaitAndRestart ==
    /\ InLoop /\ External
    /\ \E c \in Chains :
        /\ waiting[c] > 0
        /\ IF isRunning \/ SignalActive \/ waiting[c] = 1
           THEN waiting' = [waiting EXCEPT ![c] = 0] /\ StartScreen
           ELSE waiting' = [waiting EXCEPT ![c] = @ - 1] /\ UNCHANGED streamer
    /\ UNCHANGED <<combo, label, timers, resyncing, clicks>>

UpdateStatus ==
    /\ InLoop /\ External /\ isRunning
    /\ Poll /\ label' = (IF proc \in alive THEN label ELSE "start")
    /\ UNCHANGED <<combo, timers, waiting, resyncing, clicks>>

\* Mutant: the window is closed over a display engine that runs.
CloseWindow_Leaves ==
    /\ InLoop
    /\ hub' = "exited"
    /\ UNCHANGED <<streamer, window, device, native, clicks, ends>>
CloseWindow ==
    /\ InLoop
    /\ StopStreamer /\ hub' = "exited"
    /\ UNCHANGED <<window, device, native, clicks, ends>>

-----------------------------------------------------------------------------
(* main                                                                     *)

CliStart ==
    /\ hub = "cli" /\ ~starting
    /\ \/ ForkDisplay(combo) /\ UNCHANGED hub
       \/ StartFails /\ hub' = "exited"
    /\ UNCHANGED <<window, device, native, clicks, ends>>

CliPoll ==
    /\ hub = "polling"
    /\ Poll /\ hub' = (IF proc \in alive THEN hub ELSE "exited")
    /\ UNCHANGED <<window, device, native, clicks, ends>>

\* SIGINT or SIGTERM: stop, then exit. Before the assignment there is no
\* mpv_proc to stop.
Interrupt ==
    /\ hub # "exited" /\ (starting => InterruptStart)
    /\ IF starting
       THEN starting' = FALSE /\ proc' = NoProcess /\ UNCHANGED <<isRunning, alive, played, failed>>
       ELSE StopStreamer
    /\ hub' = "exited"
    /\ UNCHANGED <<window, device, native, clicks, ends>>

-----------------------------------------------------------------------------
(* The surroundings                                                         *)

\* The game window is closed by its user, or crashes.
DisplayEnds ==
    /\ ends < MaxEnds /\ ends' = ends + 1
    /\ \E p \in alive : alive' = alive \ {p}
    /\ UNCHANGED <<hub, starting, isRunning, proc, played, failed, window, device, native, clicks>>

DeviceChanges ==
    /\ ends < MaxEnds /\ ends' = ends + 1
    /\ device' = ~device
    /\ UNCHANGED <<hub, streamer, window, native, clicks>>

Next ==
    \/ Started \/ ToggleStream \/ StartTimer \/ ChangePreset \/ ForceResync \/ ResyncDone
    \/ WaitAndRestart \/ UpdateStatus \/ CloseWindow
    \/ CliStart \/ CliPoll \/ Interrupt \/ DisplayEnds \/ DeviceChanges

Spec == Init /\ [][Next]_vars

-----------------------------------------------------------------------------
(* Properties                                                               *)

\* However a click, the preset box, a re-sync and their timers meet, there is
\* one display engine: a second one would fight for the device with the first.
OneDisplay == Cardinality(alive) <= 1

\* The picture is that of the preset the box shows.
PresetPlayed == isRunning /\ hub = "loop" => played = combo

\* When the hub has ended, its display engine has ended ("Graceful shutdown on
\* Ctrl+C", everlive_viewer.py:1345).
NothingLeft == hub = "exited" => alive = {}
=============================================================================
