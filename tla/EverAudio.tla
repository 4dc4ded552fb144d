----------------------------- MODULE EverAudio -----------------------------
(***************************************************************************)
(* The audio of the display engine (everlive_display.c): a supervisor      *)
(* thread runs the pipeline (pw-loopback, or arecord into pw-play) as a    *)
(* child in a process group of its own, starts it again when it ends and   *)
(* passes volume and mute on to its PipeWire node; the main thread changes *)
(* them at a key and waits for the supervisor at the end; SIGTERM runs     *)
(* stop_audio_pipeline in the main thread at any point. They share         *)
(* g_audio_pid, g_running, g_volume, g_muted and g_audio_dirty, no lock.   *)
(* Children are numbered; a number is taken again only after its end. The  *)
(* sleeps only separate steps and are left out, fail_count with them. The  *)
(* node wpctl lists is taken to be that of the child which runs.           *)
(***************************************************************************)
EXTENDS Integers, FiniteSets

CONSTANTS
    Children,   \* the process ids fork returns
    High,       \* volumes 0..High stand for 0 % to 150 % in steps of 5 %
    MaxDeaths, MaxKeys, MaxSignals, ForkFails   \* bounds

NoPid == 0

VARIABLES
    running, pid, volume, muted, dirty,     \* the g_ variables
    alive,      \* children that run
    sup,        \* the place of the supervisor thread
    forked,     \* what fork returned to it
    node,       \* node_id, as the child it belongs to
    lastVolume, lastMuted,
    main,       \* the place of the main thread
    handler,    \* and of the signal handler in it
    killing,    \* the local pid of stop_audio_pipeline, in thread and handler
    nodeVolume, nodeMuted,                  \* the settings of the child's node
    deaths, keys, signals, forkFails        \* counted for the bounds

shared == <<running, pid, volume, muted, dirty>>
locals == <<forked, node, lastVolume, lastMuted>>
nodes == <<nodeVolume, nodeMuted>>
counts == <<deaths, keys, signals, forkFails>>
vars == <<shared, alive, sup, locals, main, handler, killing, nodes, counts>>

Volumes == 0..High
Unset == -1
FullVolume == -2    \* of a new node

AudioTypeOK ==
    /\ running \in BOOLEAN /\ muted \in BOOLEAN /\ dirty \in BOOLEAN /\ volume \in Volumes
    /\ pid \in Children \cup {NoPid} /\ forked \in Children \cup {NoPid}
    /\ node \in Children \cup {NoPid} /\ alive \subseteq Children
    /\ sup \in {"fork", "publish", "loop", "reap", "backoff", "find", "apply", "volume", "muted",
                "command", "stop", "clear", "kill", "done"}
    /\ lastVolume \in Volumes \cup {Unset} /\ lastMuted \in BOOLEAN
    /\ main \in {"events", "unmute", "dirty", "join", "exited"}
    /\ handler \in {"none", "entered", "check", "clear", "kill"}
    /\ killing \in [{"thread", "handler"} -> Children \cup {NoPid}]
    /\ nodeVolume \in Volumes \cup {FullVolume} /\ nodeMuted \in BOOLEAN

Init ==
    /\ running = TRUE /\ pid = NoPid /\ volume \in Volumes /\ muted = FALSE /\ dirty = TRUE
    /\ alive = {} /\ sup = "fork" /\ forked = NoPid /\ node = NoPid
    /\ lastVolume = Unset /\ lastMuted = FALSE
    /\ main = "events" /\ handler = "none" /\ killing = [t \in {"thread", "handler"} |-> NoPid]
    /\ nodeVolume = FullVolume /\ nodeMuted = FALSE
    /\ deaths = 0 /\ keys = 0 /\ signals = 0 /\ forkFails = 0

Started == main # "exited"
OnMain == Started /\ handler = "none"
OnThread(place) == Started /\ sup = place

-----------------------------------------------------------------------------
(* The supervisor thread: start_audio_pipeline                              *)

\* The child runs from here, while g_audio_pid does not show it yet.
ForkChild ==
    /\ OnThread("fork") /\ pid = NoPid
    /\ \E c \in Children \ alive :
        forked' = c /\ alive' = alive \cup {c} /\ sup' = "publish"
    /\ nodeVolume' = FullVolume /\ nodeMuted' = FALSE
    /\ UNCHANGED <<shared, node, lastVolume, lastMuted, main, handler, killing, counts>>

ForkFailed ==
    /\ OnThread("fork") /\ pid = NoPid /\ forkFails < ForkFails
    /\ forkFails' = forkFails + 1 /\ dirty' = TRUE /\ sup' = "loop"
    /\ UNCHANGED <<running, pid, volume, muted, alive, locals, main, handler, killing, nodes,
                   deaths, keys, signals>>

\* g_audio_dirty is set after a restart, and at the first start as initialised.
PublishPid ==
    /\ OnThread("publish")
    /\ pid' = forked /\ dirty' = TRUE /\ sup' = "loop"
    /\ UNCHANGED <<running, volume, muted, alive, locals, main, handler, killing, nodes, counts>>

-----------------------------------------------------------------------------
(* The supervisor thread: its loop                                          *)

GoTo(place) ==
    sup' = place /\ UNCHANGED <<shared, alive, locals, main, handler, killing, nodes, counts>>

LoopTop ==
    /\ OnThread("loop")
    /\ GoTo(IF ~running THEN "stop" ELSE IF pid # NoPid THEN "reap" ELSE "find")

StillRuns == OnThread("reap") /\ pid \in alive \cup {NoPid} /\ GoTo("find")

\* Mutant: a child that runs is taken for one that has ended.
Reaped_Any ==
    /\ OnThread("reap") /\ pid # NoPid
    /\ pid' = NoPid /\ node' = NoPid /\ sup' = "backoff"
    /\ UNCHANGED <<running, volume, muted, dirty, alive, forked, lastVolume, lastMuted, main, handler,
                   killing, nodes, counts>>
Reaped ==
    /\ OnThread("reap") /\ pid \notin alive \cup {NoPid}
    /\ pid' = NoPid /\ node' = NoPid /\ sup' = "backoff"
    /\ UNCHANGED <<running, volume, muted, dirty, alive, forked, lastVolume, lastMuted, main, handler,
                   killing, nodes, counts>>

BackoffEnds == OnThread("backoff") /\ GoTo(IF running THEN "fork" ELSE "find")

FindNode ==
    /\ OnThread("find") /\ node = NoPid /\ pid \in alive
    /\ node' = pid /\ dirty' = TRUE /\ sup' = "apply"
    /\ UNCHANGED <<running, pid, volume, muted, alive, forked, lastVolume, lastMuted, main, handler,
                   killing, nodes, counts>>
NoNode == OnThread("find") /\ GoTo("apply")

Changed == dirty \/ volume # lastVolume \/ muted # lastMuted

NothingToApply == OnThread("apply") /\ ~(node # NoPid /\ Changed) /\ GoTo("loop")
TakeDirty ==
    /\ OnThread("apply") /\ node # NoPid /\ Changed
    /\ dirty' = FALSE /\ sup' = "volume"
    /\ UNCHANGED <<running, pid, volume, muted, alive, locals, main, handler, killing, nodes, counts>>
ReadVolume ==
    /\ OnThread("volume")
    /\ lastVolume' = volume /\ sup' = "muted"
    /\ UNCHANGED <<shared, alive, forked, node, lastMuted, main, handler, killing, nodes, counts>>
ReadMuted ==
    /\ OnThread("muted")
    /\ lastMuted' = muted /\ sup' = "command"
    /\ UNCHANGED <<shared, alive, forked, node, lastVolume, main, handler, killing, nodes, counts>>

\* wpctl, which changes nothing when the node has gone.
Command ==
    /\ OnThread("command")
    /\ IF node \in alive
       THEN /\ nodeMuted' = lastMuted
            /\ nodeVolume' = (IF lastMuted THEN nodeVolume ELSE lastVolume)
       ELSE UNCHANGED nodes
    /\ sup' = "loop"
    /\ UNCHANGED <<shared, alive, locals, main, handler, killing, counts>>

-----------------------------------------------------------------------------
(* stop_audio_pipeline, at the end of the thread                            *)

StopCheck ==
    /\ OnThread("stop")
    /\ sup' = (IF pid = NoPid THEN "done" ELSE "clear")
    /\ killing' = [killing EXCEPT !["thread"] = pid]
    /\ UNCHANGED <<shared, alive, locals, main, handler, nodes, counts>>
StopClear ==
    /\ OnThread("clear")
    /\ pid' = NoPid /\ sup' = "kill"
    /\ UNCHANGED <<running, volume, muted, dirty, alive, locals, main, handler, killing, nodes, counts>>
StopKill ==
    /\ OnThread("kill")
    /\ alive' = alive \ {killing["thread"]} /\ sup' = "done"
    /\ UNCHANGED <<shared, locals, main, handler, killing, nodes, counts>>

-----------------------------------------------------------------------------
(* The main thread                                                          *)

KeyPressed == OnMain /\ main = "events" /\ running /\ keys < MaxKeys /\ keys' = keys + 1

VolumeUp ==
    /\ KeyPressed
    /\ volume' = (IF volume < High THEN volume + 1 ELSE High)
    /\ main' = "unmute"
    /\ UNCHANGED <<running, pid, muted, dirty, alive, sup, locals, handler, killing, nodes,
                   deaths, signals, forkFails>>
VolumeDown ==
    /\ KeyPressed
    /\ volume' = (IF volume > 0 THEN volume - 1 ELSE 0)
    /\ main' = "dirty"
    /\ UNCHANGED <<running, pid, muted, dirty, alive, sup, locals, handler, killing, nodes,
                   deaths, signals, forkFails>>
MuteKey ==
    /\ KeyPressed
    /\ muted' = ~muted /\ main' = "dirty"
    /\ UNCHANGED <<running, pid, volume, dirty, alive, sup, locals, handler, killing, nodes,
                   deaths, signals, forkFails>>
Unmute ==
    /\ OnMain /\ main = "unmute"
    /\ muted' = FALSE /\ main' = "dirty"
    /\ UNCHANGED <<running, pid, volume, dirty, alive, sup, locals, handler, killing, nodes, counts>>
SetDirty ==
    /\ OnMain /\ main = "dirty"
    /\ dirty' = TRUE /\ main' = "events"
    /\ UNCHANGED <<running, pid, volume, muted, alive, sup, locals, handler, killing, nodes, counts>>

Quit ==
    /\ OnMain /\ main = "events"
    /\ running' = FALSE
    /\ UNCHANGED <<pid, volume, muted, dirty, alive, sup, locals, main, handler, killing, nodes, counts>>
LoopEnds ==
    /\ OnMain /\ main = "events" /\ ~running
    /\ main' = "join"
    /\ UNCHANGED <<shared, alive, sup, locals, handler, killing, nodes, counts>>

\* Mutant: the program ends without waiting for its thread.
Join_NoWait ==
    /\ OnMain /\ main = "join"
    /\ main' = "exited"
    /\ UNCHANGED <<shared, alive, sup, locals, handler, killing, nodes, counts>>
Join ==
    /\ OnMain /\ main = "join" /\ sup = "done"
    /\ main' = "exited"
    /\ UNCHANGED <<shared, alive, sup, locals, handler, killing, nodes, counts>>

-----------------------------------------------------------------------------
(* sig_handler                                                              *)

Signal ==
    /\ OnMain /\ signals < MaxSignals
    /\ signals' = signals + 1 /\ handler' = "entered"
    /\ UNCHANGED <<shared, alive, sup, locals, main, killing, nodes, deaths, keys, forkFails>>

HandlerStops ==
    /\ Started /\ handler = "entered"
    /\ running' = FALSE /\ handler' = "check"
    /\ UNCHANGED <<pid, volume, muted, dirty, alive, sup, locals, main, killing, nodes, counts>>
HandlerCheck ==
    /\ Started /\ handler = "check"
    /\ handler' = (IF pid = NoPid THEN "none" ELSE "clear")
    /\ killing' = [killing EXCEPT !["handler"] = pid]
    /\ UNCHANGED <<shared, alive, sup, locals, main, nodes, counts>>

HandlerClear ==
    /\ Started /\ handler = "clear"
    /\ pid' = NoPid /\ handler' = "kill"
    /\ UNCHANGED <<running, volume, muted, dirty, alive, sup, locals, main, killing, nodes, counts>>

HandlerKill ==
    /\ Started /\ handler = "kill"
    /\ alive' = alive \ {killing["handler"]} /\ handler' = "none"
    /\ UNCHANGED <<shared, sup, locals, main, killing, nodes, counts>>

\* A pipeline ends by itself: the device went, PipeWire restarted.
ChildEnds ==
    /\ deaths < MaxDeaths /\ deaths' = deaths + 1
    /\ \E c \in alive : alive' = alive \ {c}
    /\ UNCHANGED <<shared, sup, locals, main, handler, killing, nodes, keys, signals, forkFails>>

Supervisor ==
    \/ ForkChild \/ ForkFailed \/ PublishPid
    \/ LoopTop \/ StillRuns \/ Reaped \/ BackoffEnds \/ FindNode \/ NoNode
    \/ NothingToApply \/ TakeDirty \/ ReadVolume \/ ReadMuted \/ Command
    \/ StopCheck \/ StopClear \/ StopKill
Handler == HandlerStops \/ HandlerCheck \/ HandlerClear \/ HandlerKill
Main == Unmute \/ SetDirty \/ LoopEnds \/ Join
Next ==
    \/ Supervisor \/ Handler \/ Main
    \/ VolumeUp \/ VolumeDown \/ MuteKey \/ Quit \/ Signal \/ ChildEnds

Spec == Init /\ [][Next]_vars

-----------------------------------------------------------------------------
(* Properties                                                               *)

\* When the display engine has ended, however the signal and the thread met,
\* no pipeline goes on playing (it would, in its own process group).
NoOrphan == main = "exited" => alive = {}

\* There are never two pipelines: the game would be heard twice.
OnePipeline == Cardinality(alive) <= 1
=============================================================================
