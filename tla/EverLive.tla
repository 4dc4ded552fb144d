------------------------------ MODULE EverLive ------------------------------
(***************************************************************************)
(* EverLive as it runs on a desktop: the display engine on the capture     *)
(* device (EverDisplay), its audio (EverAudio), and the hub that starts    *)
(* it (EverHub).  They are processes and threads of their own, which meet  *)
(* in what they promise: one display engine, one pipeline, none left.      *)
(***************************************************************************)
EXTENDS EverDisplay

CONSTANTS
    Children,   \* process ids of audio pipelines
    High,       \* volumes 0..High stand for 0 % to 150 %
    MaxDeaths, MaxAudioKeys, MaxSignals, ForkFails  \* bounds

VARIABLES
    running, pid, volume, muted, dirty, alive, sup, forked, node, lastVolume, lastMuted, main,
    handler, killing, nodeVolume, nodeMuted, deaths, audio_keys, signals, forkFails
audioVars ==
    <<running, pid, volume, muted, dirty, alive, sup, forked, node, lastVolume,
      lastMuted, main, handler, killing, nodeVolume, nodeMuted, deaths,
      audio_keys, signals, forkFails>>
Audio == INSTANCE EverAudio WITH MaxKeys <- MaxAudioKeys, keys <- audio_keys

CONSTANTS
    BoxPresets,     \* of the preset box
    Processes,      \* process ids of display engines
    Attempts,       \* of the restart after a re-sync, 12 in the code
    Chains, MaxTimers,  \* restarts and starts that may be pending at once
    ForceMpv,       \* --mpv
    InterruptStart, \* Ctrl+C may arrive while the child is being started
    MaxClicks, MaxEnds  \* bounds

VARIABLES
    hub, hub_starting, isRunning, proc, hub_alive, played, combo, label, timers,
    waiting, resyncing, device, native, failed, clicks, ends
hubVars ==
    <<hub, hub_starting, isRunning, proc, hub_alive, played, combo, label,
      timers, waiting, resyncing, device, native, failed, clicks, ends>>
Hub == INSTANCE EverHub WITH
    Presets <- BoxPresets, alive <- hub_alive, starting <- hub_starting

\* fork returns no 0 to a parent, and autostart needs one timer.
ASSUME AudioAssumption == Audio!NoPid \notin Children /\ High \in Nat
ASSUME HubAssumption ==
    /\ Hub!NoProcess \notin Processes
    /\ Attempts \in Nat /\ MaxTimers \in Nat \ {0}

\* The two supervisors, each at its own pace.
HostSpec == Audio!Spec /\ Hub!Spec

\* There is one display engine and one pipeline, of the preset shown, and none
\* outlives the program that started it (everlive_display.c:1398,
\* everlive_viewer.py:1345).
HostSound ==
    /\ Audio!AudioTypeOK /\ Audio!NoOrphan /\ Audio!OnePipeline
    /\ Hub!HubTypeOK /\ Hub!OneDisplay /\ Hub!PresetPlayed /\ Hub!NothingLeft
=============================================================================
