----------------------------- MODULE LifeCycle -----------------------------
(***************************************************************************)
(* How the driver comes up, sleeps and goes (gc573-core.c, gc573-bridge.c, *)
(* gc573-link.c): the order in which probe, suspend, resume and remove     *)
(* call the parts, and what they undo when a call fails, against everything*)
(* that runs meanwhile: the works of the receiver, the splitter and the    *)
(* capture device, the interrupt handler, users of the device files, and   *)
(* the card being pulled.                                                  *)
(*                                                                         *)
(* The power thread has a list of calls still to make.                     *)
(***************************************************************************)
EXTENDS Naturals, Sequences, FiniteSets

CONSTANTS MaxSleeps     \* bound on suspends

Works == {"it6664", "it6805", "video"}              \* parts with a periodic work
Files == {"input_edid", "led_mode", "hpd_pulse"}
Parts == Works \cup Files \cup {"bridge", "fpga", "i2c", "led", "dma", "video_dma", "audio"}

VARIABLES
    pm, todo,           \* the power thread: what it does; calls still to make
    up,                 \* parts that are allocated or registered
    work,               \* per part with a work: off, queued or running
    uses,               \* per work: parts whose pointer the running work holds
    file, file_uses,    \* per file: a user is in it; parts he holds
    irq, irq_uses,      \* the handler runs; parts it holds
    callback,           \* the video DMA's handler is registered with the DMA
    ready, routing, regs, master, present,
    sleeps

pmVars == <<pm, todo>>
actorVars == <<work, uses, file, file_uses, irq, irq_uses>>
bridgeVars == <<ready, routing, regs, master>>
vars == <<pmVars, up, actorVars, callback, bridgeVars, present, sleeps>>

Calls == {"init", "start", "reset", "ddr", "ready", "link", "route", "quiesce", "sync",
          "disconnect", "suspend", "resume", "cleanup", "stop", "clear"}

\* The types of every variable.
TypeOK ==
    /\ pm \in {"new", "probing", "unwinding", "live", "removing", "removed", "failed",
               "suspending", "asleep", "resuming", "relapsing", "lame"}
    /\ \A i \in DOMAIN todo : todo[i][1] \in Calls /\ todo[i][2] \in Parts
    /\ up \subseteq Parts /\ work \in [Works -> {"off", "queued", "running"}]
    /\ uses \in [Works -> SUBSET Parts] /\ file \in [Files -> BOOLEAN]
    /\ file_uses \in [Files -> SUBSET Parts] /\ irq \in BOOLEAN /\ irq_uses \subseteq Parts
    /\ {callback, ready, routing, regs, master, present} \subseteq BOOLEAN
    /\ sleeps \in 0 .. MaxSleeps

Init ==
    /\ pm = "new" /\ todo = <<>> /\ up = {} /\ work = [w \in Works |-> "off"]
    /\ uses = [w \in Works |-> {}] /\ file = [f \in Files |-> FALSE]
    /\ file_uses = [f \in Files |-> {}] /\ irq = FALSE /\ irq_uses = {} /\ callback = FALSE
    /\ ready = FALSE /\ routing = FALSE /\ regs = FALSE /\ master = FALSE /\ present = TRUE
    /\ sleeps = 0

-----------------------------------------------------------------------------
(* The lists of calls                                                       *)

\* The same call for each part of a list.
Each(call, parts) == [i \in DOMAIN parts |-> <<call, parts[i]>>]

Quiesced == <<<<"quiesce", "bridge">>, <<"sync", "dma">>>>
Suspended(parts) == Each("suspend", parts)

\* gc555_bridge_start, by what it does in turn.
BridgeStart ==
    <<<<"start", "bridge">>, <<"reset", "bridge">>, <<"ddr", "bridge">>, <<"ready", "bridge">>>>

\* gc555_probe
InitOrder ==
    <<"i2c", "led", "it6664", "input_edid", "led_mode", "hpd_pulse", "it6805", "dma", "video_dma",
      "audio", "video">>
Probe ==
    BridgeStart \o <<<<"init", "fpga">>, <<"link", "bridge">>>> \o Each("init", InitOrder)
    \o <<<<"route", "bridge">>>>

\* The cleanup labels of gc555_probe, from the one of part on.
CleanUpOrder ==
    <<"video", "audio", "video_dma", "dma", "it6805", "hpd_pulse", "led_mode", "input_edid",
      "it6664", "led", "i2c", "fpga", "bridge">>
CleanUpFrom(part) ==
    LET at == CHOOSE i \in DOMAIN CleanUpOrder : CleanUpOrder[i] = part
    IN Each("cleanup", SubSeq(CleanUpOrder, at, Len(CleanUpOrder)))
       \o <<<<"clear", "bridge">>>>

\* Mutant: the receiver's work is not stopped when the capture device fails.
Unwind_WorkRuns(call) ==
    CASE call[1] \in {"start", "reset", "ddr", "ready"} -> <<<<"clear", "bridge">>>>
      [] call = <<"init", "fpga">> -> CleanUpFrom("bridge")
      [] call \in {<<"link", "bridge">>, <<"init", "i2c">>} -> CleanUpFrom("fpga")
      [] call = <<"init", "it6664">> -> CleanUpFrom("led")
      [] call = <<"init", "input_edid">> -> CleanUpFrom("it6664")
      [] call = <<"init", "led_mode">> -> CleanUpFrom("input_edid")
      [] call = <<"init", "hpd_pulse">> -> CleanUpFrom("led_mode")
      [] call = <<"init", "it6805">> -> CleanUpFrom("hpd_pulse")
      [] call = <<"init", "dma">> -> CleanUpFrom("it6805")
      [] call = <<"init", "video_dma">> -> Quiesced \o CleanUpFrom("dma")
      [] call = <<"init", "audio">> -> Quiesced \o CleanUpFrom("video_dma")
      [] call = <<"init", "video">> -> Quiesced \o CleanUpFrom("audio")
      [] OTHER -> Quiesced \o Suspended(<<"it6805">>) \o CleanUpFrom("video")

\* What gc555_probe undoes when a call fails.
Unwind(call) ==
    CASE call[1] \in {"start", "reset", "ddr", "ready"} -> <<<<"clear", "bridge">>>>
      [] call = <<"init", "fpga">> -> CleanUpFrom("bridge")
      [] call \in {<<"link", "bridge">>, <<"init", "i2c">>} -> CleanUpFrom("fpga")
      [] call = <<"init", "it6664">> -> CleanUpFrom("led")
      [] call = <<"init", "input_edid">> -> CleanUpFrom("it6664")
      [] call = <<"init", "led_mode">> -> CleanUpFrom("input_edid")
      [] call = <<"init", "hpd_pulse">> -> CleanUpFrom("led_mode")
      [] call = <<"init", "it6805">> -> CleanUpFrom("hpd_pulse")
      [] call = <<"init", "dma">> -> CleanUpFrom("it6805")
      [] call = <<"init", "video_dma">> -> Quiesced \o CleanUpFrom("dma")
      [] call = <<"init", "audio">> -> Quiesced \o CleanUpFrom("video_dma")
      [] call = <<"init", "video">> ->
             Quiesced \o Suspended(<<"it6805">>) \o CleanUpFrom("audio")
      [] OTHER -> Quiesced \o Suspended(<<"it6805">>) \o CleanUpFrom("video")

\* gc555_remove; the works stop before the files go, the files before the parts.
RemovalOrder ==
    <<"hpd_pulse", "led_mode", "input_edid", "video", "audio", "video_dma", "dma", "it6805",
      "it6664", "led", "i2c", "fpga", "bridge">>
Removal(accessible) ==
    (IF accessible THEN Quiesced ELSE <<<<"disconnect", "bridge">>, <<"sync", "dma">>>>)
    \o Suspended(<<"it6805", "it6664", "led">>)
    \o (Each("cleanup", RemovalOrder) \o <<<<"clear", "bridge">>>>)

\* gc555_suspend: children first, users of the I2C buses before the bridge.
SuspendCalls ==
    Quiesced \o Suspended(<<"video", "audio", "it6805", "it6664", "led">>)
    \o <<<<"stop", "bridge">>>>

\* gc555_resume: the order of probe.
ResumeOrder == <<"led", "it6664", "it6805", "audio", "video">>
ResumeCalls ==
    BridgeStart \o <<<<"link", "bridge">>>> \o Each("resume", ResumeOrder)
    \o <<<<"route", "bridge">>>>

\* What gc555_resume undoes when a call fails.
Relapse(call) ==
    CASE call[1] \in {"start", "reset", "ddr", "ready"} -> <<>>
      [] call = <<"link", "bridge">> -> Quiesced \o <<<<"stop", "bridge">>>>
      [] call = <<"resume", "it6664">> ->
             Quiesced \o Suspended(<<"led">>) \o <<<<"stop", "bridge">>>>
      [] call = <<"resume", "it6805">> ->
             Quiesced \o Suspended(<<"it6664", "led">>) \o <<<<"stop", "bridge">>>>
      [] OTHER -> SuspendCalls

-----------------------------------------------------------------------------
(* The power thread                                                         *)

Begin(from, to, calls) == pm = from /\ pm' = to /\ todo' = calls

StartProbe ==
    /\ Begin("new", "probing", Probe) /\ master' = TRUE /\ regs' = TRUE
    /\ UNCHANGED <<up, actorVars, callback, ready, routing, present, sleeps>>

\* The device is removed in an orderly way, or because it was pulled.
StartRemove ==
    /\ \E from \in {"live", "lame"} : Begin(from, "removing", Removal(present))
    /\ UNCHANGED <<up, actorVars, callback, bridgeVars, present, sleeps>>

\* Users are frozen, outside of the files, before the system sleeps.
StartSuspend ==
    /\ sleeps < MaxSleeps /\ sleeps' = sleeps + 1 /\ \A f \in Files : ~file[f]
    /\ \E from \in {"live", "lame"} : Begin(from, "suspending", SuspendCalls)
    /\ UNCHANGED <<up, actorVars, callback, bridgeVars, present>>

StartResume ==
    /\ Begin("asleep", "resuming", ResumeCalls) /\ master' = TRUE
    /\ UNCHANGED <<up, actorVars, callback, ready, routing, regs, present, sleeps>>

\* All calls are made.
Finished ==
    /\ todo = <<>>
    /\ \/ pm \in {"probing", "resuming"} /\ pm' = "live"
       \/ pm = "unwinding" /\ pm' = "failed"
       \/ pm = "removing" /\ pm' = "removed"
       \/ pm = "suspending" /\ pm' = "asleep"
       \/ pm = "relapsing" /\ pm' = "lame"
    /\ UNCHANGED <<todo, up, actorVars, callback, bridgeVars, present, sleeps>>

\* The next call is made.
Call(call, part) == todo # <<>> /\ Head(todo) = <<call, part>> /\ todo' = Tail(todo) /\ pm' = pm

\* A call of probe or resume that fails; the lighting's is only warned about.
Fails ==
    /\ pm \in {"probing", "resuming"} /\ todo # <<>>
    /\ LET call == Head(todo) IN
       /\ call[2] # "led" /\ call \notin {<<"resume", "audio">>, <<"resume", "video">>}
       /\ \/ pm = "probing" /\ pm' = "unwinding" /\ todo' = Unwind(call)
          \/ pm = "resuming" /\ pm' = "relapsing" /\ todo' = Relapse(call)
       /\ IF call[1] = "start" THEN ready' = FALSE /\ routing' = FALSE
          ELSE UNCHANGED <<ready, routing>>
    /\ UNCHANGED <<up, actorVars, callback, regs, master, present, sleeps>>

\* Mutant: the bridge starts with the interrupt routed.
StartBridge_Routed ==
    /\ Call("start", "bridge") /\ ready' = FALSE /\ routing' = TRUE
    /\ UNCHANGED <<up, actorVars, callback, regs, master, present, sleeps>>

\* The interrupt is masked first, so that none comes before the handler is there.
StartBridge ==
    /\ Call("start", "bridge") /\ ready' = FALSE /\ routing' = FALSE
    /\ UNCHANGED <<up, actorVars, callback, regs, master, present, sleeps>>

\* Three resets; one that does not complete is only warned about, since DDR
\* decides: gc555_bridge_wait_for_ddr trains it up to three times.
ResetBridge ==
    /\ Call("reset", "bridge")
    /\ UNCHANGED <<up, actorVars, callback, bridgeVars, present, sleeps>>
WaitForDdr ==
    /\ Call("ddr", "bridge")
    /\ UNCHANGED <<up, actorVars, callback, bridgeVars, present, sleeps>>

\* The controller is set up, the interrupt masked again; the bridge is ready.
BridgeReady ==
    /\ Call("ready", "bridge") /\ ready' = TRUE /\ routing' = FALSE /\ up' = up \cup {"bridge"}
    /\ UNCHANGED <<actorVars, callback, regs, master, present, sleeps>>

\* gc555_link_init moves GPIOs; its readiness inputs are advisory.
LinkInit ==
    /\ Call("link", "bridge")
    /\ UNCHANGED <<up, actorVars, callback, bridgeVars, present, sleeps>>

\* A part comes up, and with it its work; lighting may be missing.
InitPart(part) ==
    /\ Call("init", part)
    /\ \/ up' = up \cup {part}
       \/ part = "led" /\ up' = up
    /\ work' = IF part \in Works THEN [work EXCEPT ![part] = "queued"] ELSE work
    /\ callback' = (callback \/ part = "video_dma")
    /\ UNCHANGED <<uses, file, file_uses, irq, irq_uses, bridgeVars, present, sleeps>>

\* gc555_bridge_resume_complete, and nothing before it, routes the interrupt.
Route ==
    /\ Call("route", "bridge") /\ ready /\ routing' = TRUE
    /\ UNCHANGED <<up, actorVars, callback, ready, regs, master, present, sleeps>>

Quiesce ==
    /\ Call("quiesce", "bridge") /\ routing' = FALSE /\ ready' = FALSE
    /\ UNCHANGED <<up, actorVars, callback, regs, master, present, sleeps>>

Disconnect ==
    /\ Call("disconnect", "bridge") /\ routing' = FALSE /\ ready' = FALSE /\ regs' = FALSE
    /\ UNCHANGED <<up, actorVars, callback, master, present, sleeps>>

\* gc555_dma_synchronize_irq waits for the handler.
SyncIrq ==
    /\ Call("sync", "dma") /\ ("dma" \in up => ~irq)
    /\ UNCHANGED <<up, actorVars, callback, bridgeVars, present, sleeps>>

\* Suspending a part cancels its work, once it has returned.
SuspendPart(part) ==
    /\ Call("suspend", part)
    /\ \/ /\ part \in Works \cap up /\ work[part] # "running"
          /\ work' = [work EXCEPT ![part] = "off"]
       \/ part \notin Works \cap up /\ UNCHANGED work
    /\ UNCHANGED <<up, uses, file, file_uses, irq, irq_uses, callback, bridgeVars, present, sleeps>>

ResumePart(part) ==
    /\ Call("resume", part)
    /\ work' = IF part \in Works THEN [work EXCEPT ![part] = "queued"] ELSE work
    /\ UNCHANGED <<up, uses, file, file_uses, irq, irq_uses, callback, bridgeVars, present, sleeps>>

StopBridge ==
    /\ Call("stop", "bridge") /\ routing' = FALSE /\ ready' = FALSE
    /\ UNCHANGED <<up, actorVars, callback, regs, master, present, sleeps>>

\* A part is freed: its file once nobody is in it, its work once it has
\* returned, the DMA once the handler has (free_irq).
CleanUp(part) ==
    /\ Call("cleanup", part) /\ part \notin {"video_dma", "bridge"}
    /\ part \in Files => ~file[part]
    /\ part \in Works => work[part] # "running"
    /\ part = "dma" => ~irq
    /\ up' = up \ {part}
    /\ work' = IF part \in Works THEN [work EXCEPT ![part] = "off"] ELSE work
    /\ UNCHANGED <<uses, file, file_uses, irq, irq_uses, callback, bridgeVars, present, sleeps>>

\* The video DMA takes its handler back, waits for the interrupt handler, and
\* is freed.
UnregisterVideoDma ==
    /\ todo # <<>> /\ Head(todo) = <<"cleanup", "video_dma">> /\ callback /\ callback' = FALSE
    /\ UNCHANGED <<pmVars, up, actorVars, bridgeVars, present, sleeps>>
CleanUpVideoDma ==
    /\ Call("cleanup", "video_dma") /\ ~callback /\ ~irq /\ up' = up \ {"video_dma"}
    /\ UNCHANGED <<actorVars, callback, bridgeVars, present, sleeps>>

CleanUpBridge ==
    /\ Call("cleanup", "bridge") /\ up' = up \ {"bridge"}
    /\ ready' = FALSE /\ routing' = FALSE /\ regs' = FALSE
    /\ UNCHANGED <<actorVars, callback, master, present, sleeps>>

ClearMaster ==
    /\ Call("clear", "bridge") /\ master' = FALSE
    /\ UNCHANGED <<up, actorVars, callback, ready, routing, regs, present, sleeps>>

-----------------------------------------------------------------------------
(* What runs meanwhile                                                      *)

\* The parts a work reaches through gc555_dev: the receiver's calls the audio
\* devices and asks the splitter, the capture device's asks the receiver.
Reaches(w) ==
    CASE w = "it6805" -> {"i2c", "audio", "it6664"}
      [] w = "it6664" -> {"i2c"}
      [] w = "video" -> {"it6805", "fpga", "video_dma"}

RunWork(w) ==
    /\ work[w] = "queued" /\ work' = [work EXCEPT ![w] = "running"]
    /\ uses' = [uses EXCEPT ![w] = Reaches(w) \cap up]
    /\ UNCHANGED <<pmVars, up, file, file_uses, irq, irq_uses, callback, bridgeVars, present,
                   sleeps>>
EndWork(w) ==
    /\ work[w] = "running" /\ work' = [work EXCEPT ![w] = "queued"]
    /\ uses' = [uses EXCEPT ![w] = {}]
    /\ UNCHANGED <<pmVars, up, file, file_uses, irq, irq_uses, callback, bridgeVars, present,
                   sleeps>>

\* The system keeps users out of the files.
Frozen == pm \in {"suspending", "asleep", "resuming", "relapsing"}
FileReaches(f) ==
    CASE f = "input_edid" -> {"it6664"} [] f = "led_mode" -> {"led"} [] f = "hpd_pulse" -> {}

EnterFile(f) ==
    /\ f \in up /\ ~file[f] /\ ~Frozen /\ file' = [file EXCEPT ![f] = TRUE]
    /\ file_uses' = [file_uses EXCEPT ![f] = FileReaches(f) \cap up]
    /\ UNCHANGED <<pmVars, up, work, uses, irq, irq_uses, callback, bridgeVars, present, sleeps>>
LeaveFile(f) ==
    /\ file[f] /\ file' = [file EXCEPT ![f] = FALSE] /\ file_uses' = [file_uses EXCEPT ![f] = {}]
    /\ UNCHANGED <<pmVars, up, work, uses, irq, irq_uses, callback, bridgeVars, present, sleeps>>

\* The line may be shared, so the handler runs whatever is routed.
EnterIrq ==
    /\ "dma" \in up /\ ~irq /\ irq' = TRUE
    /\ irq_uses' = ({"dma", "i2c"} \cap up) \cup (IF callback THEN {"video_dma"} ELSE {})
    /\ UNCHANGED <<pmVars, up, work, uses, file, file_uses, callback, bridgeVars, present, sleeps>>
LeaveIrq ==
    /\ irq /\ irq' = FALSE /\ irq_uses' = {}
    /\ UNCHANGED <<pmVars, up, work, uses, file, file_uses, callback, bridgeVars, present, sleeps>>

Pull ==
    /\ present /\ present' = FALSE
    /\ UNCHANGED <<pmVars, up, actorVars, callback, bridgeVars, sleeps>>

-----------------------------------------------------------------------------
PowerStep ==
    \/ Finished \/ Fails \/ StartBridge \/ ResetBridge \/ WaitForDdr \/ BridgeReady
    \/ LinkInit \/ Route \/ Quiesce \/ Disconnect \/ SyncIrq
    \/ StopBridge \/ UnregisterVideoDma \/ CleanUpVideoDma \/ CleanUpBridge \/ ClearMaster
    \/ \E part \in Parts : InitPart(part) \/ SuspendPart(part) \/ ResumePart(part) \/ CleanUp(part)
Ends == \E w \in Works : EndWork(w)

Next ==
    \/ StartProbe \/ StartRemove \/ StartSuspend \/ StartResume \/ PowerStep \/ Ends \/ Pull
    \/ \E w \in Works : RunWork(w)
    \/ \E f \in Files : EnterFile(f) \/ LeaveFile(f)
    \/ EnterIrq \/ LeaveIrq

Spec == Init /\ [][Next]_vars

-----------------------------------------------------------------------------
\* The interrupt is routed only when the handler is installed, every endpoint
\* that may be called is up, and the bridge is ready, in probe, after a resume
\* and in every failure between (gc573-bridge.c:411 to 415).
RoutedLast ==
    routing => /\ {"dma", "video_dma", "audio", "video", "it6805", "it6664", "i2c"} \subseteq up
               /\ ready /\ callback

\* A work, a user of a file and the handler never hold a part that has been
\* freed: whatever fails in probe, and whenever the card goes, what they reach
\* is freed after they have returned (gc573-core.c:251, :318).
CalleesAlive ==
    /\ \A w \in Works : uses[w] \subseteq up
    /\ \A f \in Files : file_uses[f] \subseteq up
    /\ irq_uses \subseteq up

\* A probe that failed, and a removal, leave nothing: no part, no work, no
\* file, no registered handler, no routed interrupt, no bus master.
NothingLeft ==
    pm \in {"failed", "removed"} =>
        /\ up = {} /\ ~routing /\ ~ready /\ ~master /\ ~irq
        /\ \A w \in Works : work[w] = "off"
        /\ \A f \in Files : ~file[f]

\* Asleep, and after a resume that failed wherever it did, no work runs or is
\* queued, and no interrupt comes (gc573-core.c:384).
QuietAsleep ==
    pm \in {"asleep", "lame"} =>
        ~routing /\ ~ready /\ \A w \in Works : work[w] = "off"
=============================================================================
