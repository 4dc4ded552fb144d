---------------------------- MODULE AudioCapture ----------------------------
(***************************************************************************)
(* The ALSA capture devices of open_gc573 (gc573-audio.c): HDMI audio,     *)
(* whose format the source may change at any time, and line-in.            *)
(*                                                                         *)
(* The DMA engines are AudioEngine, which AudioDma implements.  The ALSA   *)
(* core is external: one application thread per stream makes the calls it  *)
(* allows.  Further threads: the data callback of each stream, the format  *)
(* work item, the receiver's poll, and suspend, resume and cleanup.        *)
(* control_lock stands for its owner; a step is a critical section of      *)
(* state_lock, of the receiver's io_lock, or a call.                       *)
(***************************************************************************)
EXTENDS AudioEngine, Integers, FiniteSets

CONSTANTS
    Hdmi,           \* the stream whose format is watched
    Formats,        \* rates with channel counts the source may send
    NoFormat,       \* no audio clock
    MaxChanges,     \* bound on the changes of the source's format
    CanSuspend,     \* TRUE: suspend and resume are explored
    CanRemove       \* TRUE: the removal of the card is explored

\* The streams are no other owners of the lock; no clock is no format.
ASSUME CaptureAssumption ==
    /\ Hdmi \in Pcms /\ {"free", "work", "dev"} \cap Pcms = {}
    /\ NoFormat \notin Formats /\ Formats # {} /\ MaxChanges \in Nat
    /\ CanSuspend \in BOOLEAN /\ CanRemove \in BOOLEAN

VARIABLES
    \* struct gc555_audio_stream
    sub, cap, dmaRun, invalidated, monitoring, prepared,
    \* struct gc555_audio
    control_lock, disconnected, suspended,
    \* the application of each stream: state of the PCM, requested format,
    \* verdict of its prepare, and the format it prepares for
    pcm, rt, ok, want,
    \* the place of each stream's application, and of Dev; how a free ends
    pc, fin,
    \* the data callback
    cbPc,
    \* the format work: queued, place, the format it read
    wQ, wPc, wFmt,
    \* what suspend, resume and cleanup are about, and the streams they still
    \* have to stop, and the one in hand
    mode, unstopped, cur,
    \* the receiver: what the source sends, what was published of it, and
    \* calls of hdmi_format_changed still to be made
    clock, reported, notes, changes

strVars == <<sub, cap, dmaRun, invalidated, monitoring, prepared>>
audVars == <<control_lock, disconnected, suspended>>
appVars == <<pcm, rt, ok, want, pc, fin>>
wVars   == <<wQ, wPc, wFmt>>
devVars == <<mode, unstopped, cur>>
recVars == <<clock, reported, notes, changes>>
acVars  == <<aeVars, strVars, audVars, appVars, cbPc, wVars, devVars, recVars>>

AllFormats == Formats \cup {NoFormat}
Reports == [gen : 0 .. MaxChanges, fmt : AllFormats]

\* The thread of suspend, resume and cleanup.
Dev == "dev"
Threads == Pcms \cup {Dev}

\* The places of a prepare (p_), a trigger (t_), and of the stop that hw_free,
\* close, suspend and cleanup share (f_ and s_).
Places == {"idle", "p_lock", "p_read", "p_decide", "p_stop", "p_stopping",
           "p_start", "p_mark", "p_verify", "p_judge", "p_end", "t_set",
           "f_cancel", "f_flush", "s_next", "s_lock", "s_stop", "s_stopping",
           "s_end", "f_end"}

\* The types of streams, threads and receiver.
CaptureTypeOK ==
    /\ sub \in [Pcms -> BOOLEAN] /\ cap \in [Pcms -> BOOLEAN]
    /\ dmaRun \in [Pcms -> BOOLEAN]
    /\ invalidated \in BOOLEAN /\ monitoring \in BOOLEAN
    /\ prepared \in Reports
    /\ control_lock \in Pcms \cup {"free", "work", Dev}
    /\ disconnected \in BOOLEAN /\ suspended \in BOOLEAN
    /\ pcm \in [Pcms -> {"closed", "setup", "prepared", "running"}]
    /\ rt \in [Pcms -> Formats] /\ pc \in [Threads -> Places]
    /\ fin \in [Pcms -> {"free", "close"}]
    /\ ok \in [Pcms -> BOOLEAN] /\ want \in Reports
    /\ cbPc \in [Pcms -> {"idle", "enter", "elapsed"}]
    /\ wQ \in BOOLEAN /\ wFmt \in Reports
    /\ wPc \in {"idle", "lock", "read", "decide", "xrun", "stop", "stopping",
                "end"}
    /\ mode \in {"run", "suspending", "asleep", "removing", "gone"}
    /\ cur \in Pcms
    /\ unstopped \subseteq Pcms
    /\ clock \in AllFormats /\ reported \in Reports
    /\ notes \in 0 .. MaxChanges /\ changes \in 0 .. MaxChanges

Nothing == [gen |-> 0, fmt |-> NoFormat]

CaptureInit ==
    /\ AEInit
    /\ sub = [s \in Pcms |-> FALSE] /\ cap = [s \in Pcms |-> FALSE]
    /\ dmaRun = [s \in Pcms |-> FALSE]
    /\ invalidated = FALSE /\ monitoring = FALSE /\ prepared = Nothing
    /\ control_lock = "free" /\ disconnected = FALSE /\ suspended = FALSE
    /\ pcm = [s \in Pcms |-> "closed"]
    /\ rt \in [Pcms -> Formats]
    /\ pc = [t \in Threads |-> "idle"] /\ fin = [s \in Pcms |-> "free"]
    /\ ok = [s \in Pcms |-> TRUE]
    /\ want = Nothing
    /\ cbPc = [s \in Pcms |-> "idle"]
    /\ wQ = FALSE /\ wPc = "idle" /\ wFmt = Nothing
    /\ mode = "run" /\ unstopped = {} /\ cur = Hdmi
    /\ clock = NoFormat /\ reported = Nothing /\ notes = 0 /\ changes = 0

\* The application runs unless the system sleeps; ALSA refuses calls but the
\* close on a disconnected card.
Frozen == mode \in {"suspending", "asleep"}
Awake == mode = "run" \/ (mode = "removing" /\ pc[Dev] \in {"f_cancel", "f_flush"})

Goto(s, p) == pc' = [pc EXCEPT ![s] = p]

\* The PCM stream lock is held by a trigger.
StreamLocked(s) == pc[s] = "t_set"

-----------------------------------------------------------------------------
(* The receiver                                                             *)

\* it6805_update_audio_format_locked: what a reader of the format gets.
Update == IF clock = reported.fmt THEN reported
          ELSE [gen |-> reported.gen + 1, fmt |-> clock]

\* Reading publishes a change; hdmi_format_changed is called after the lock is
\* dropped.
ReadFormat ==
    /\ reported' = Update
    /\ notes' = notes + IF Update = reported THEN 0 ELSE 1
    /\ UNCHANGED <<clock, changes>>

\* The source changes its format (external), at most MaxChanges times.
Retune(f) ==
    /\ changes < MaxChanges /\ f # clock
    /\ clock' = f /\ changes' = changes + 1
    /\ UNCHANGED <<aeVars, strVars, audVars, appVars, cbPc, wVars, devVars,
                   reported, notes>>

\* it6805_publish_audio_format at the end of a poll
Publish ==
    /\ clock # reported.fmt
    /\ ReadFormat
    /\ UNCHANGED <<aeVars, strVars, audVars, appVars, cbPc, wVars, devVars>>

\* gc555_audio_hdmi_format_changed
FormatChanged ==
    /\ notes > 0 /\ notes' = notes - 1
    /\ wQ' = (wQ \/ (~disconnected /\ ~suspended /\ monitoring))
    /\ UNCHANGED <<aeVars, strVars, audVars, appVars, cbPc, wPc, wFmt, devVars,
                   clock, reported, changes>>

-----------------------------------------------------------------------------
(* gc555_audio_pcm_open and gc555_audio_pcm_prepare                         *)

PcmOpen(s) ==
    /\ Awake /\ pc[s] = "idle" /\ pcm[s] = "closed" /\ ~disconnected /\ ~sub[s]
    /\ sub' = [sub EXCEPT ![s] = TRUE]
    /\ pcm' = [pcm EXCEPT ![s] = "setup"]
    /\ UNCHANGED <<aeVars, cap, dmaRun, invalidated, monitoring, prepared,
                   audVars, rt, pc, ok, want, fin, cbPc, wVars, devVars, recVars>>

\* The application has chosen its parameters while the PCM was set up.
PrepareBegin(s) ==
    /\ Awake /\ pc[s] = "idle" /\ pcm[s] \in {"setup", "prepared"}
    /\ \E f \in IF s = Hdmi /\ pcm[s] = "setup" THEN Formats ELSE {rt[s]} :
         rt' = [rt EXCEPT ![s] = f]
    /\ cap' = [cap EXCEPT ![s] = FALSE]
    /\ Goto(s, "p_lock")
    /\ UNCHANGED <<aeVars, sub, dmaRun, invalidated, monitoring, prepared,
                   audVars, pcm, ok, want, fin, cbPc, wVars, devVars, recVars>>

PrepareLock(s) ==
    /\ pc[s] = "p_lock" /\ control_lock = "free"
    /\ control_lock' = s
    /\ Goto(s, "p_read")
    /\ UNCHANGED <<aeVars, strVars, disconnected, suspended, pcm, rt, ok, want, fin,
                   cbPc, wVars, devVars, recVars>>

\* Without an audio clock the stream is primed with the requested parameters;
\* a clock of another format refuses.
PrepareRead(s) ==
    /\ pc[s] = "p_read"
    /\ Goto(s, "p_decide")
    /\ IF s = Hdmi /\ ~disconnected
       THEN /\ ReadFormat
            /\ want' = [Update EXCEPT !.fmt = rt[s]]
            /\ ok' = [ok EXCEPT ![s] = Update.fmt \in {NoFormat, rt[s]}]
       ELSE /\ ok' = [ok EXCEPT ![s] = ~disconnected]
            /\ UNCHANGED <<recVars, want>>
    /\ UNCHANGED <<aeVars, strVars, audVars, pcm, rt, fin, cbPc, wVars, devVars>>

\* The stream is not running for this format any more.
Invalidate ==
    /\ invalidated' = TRUE /\ monitoring' = FALSE
    /\ dmaRun' = [dmaRun EXCEPT ![Hdmi] = FALSE]

\* A running engine is stopped if the format is refused or has changed.
PrepareDecide(s) ==
    /\ pc[s] = "p_decide"
    /\ IF ~dmaRun[s] \/ disconnected
       THEN /\ Goto(s, IF ok[s] THEN "p_start" ELSE "p_end")
            /\ UNCHANGED <<dmaRun, invalidated, monitoring>>
       ELSE IF s # Hdmi
       THEN Goto(s, "p_end") /\ UNCHANGED <<dmaRun, invalidated, monitoring>>
       ELSE IF ~ok[s]
       THEN Goto(s, "p_stop") /\ Invalidate
       ELSE IF invalidated \/ want # prepared
       THEN /\ dmaRun' = [dmaRun EXCEPT ![s] = FALSE]
            /\ Goto(s, "p_stop") /\ UNCHANGED <<invalidated, monitoring>>
       ELSE Goto(s, "p_mark") /\ UNCHANGED <<dmaRun, invalidated, monitoring>>
    /\ UNCHANGED <<aeVars, sub, cap, prepared, audVars, pcm, rt, ok, want, fin,
                   cbPc, wVars, devVars, recVars>>

PrepareStop(s) ==
    /\ pc[s] = "p_stop"
    /\ Close(s)
    /\ Goto(s, "p_stopping")
    /\ UNCHANGED <<strVars, audVars, pcm, rt, ok, want, fin, cbPc, wVars, devVars,
                   recVars>>

PrepareStopped(s) ==
    /\ pc[s] = "p_stopping"
    /\ Closed(s)
    /\ Goto(s, IF ok[s] THEN "p_start" ELSE "p_end")
    /\ UNCHANGED <<strVars, audVars, pcm, rt, ok, want, fin, cbPc, wVars, devVars,
                   recVars>>

\* The engine starts or rolls back.
PrepareStart(s) ==
    /\ pc[s] = "p_start"
    /\ \/ Open(s) /\ Goto(s, "p_mark") /\ UNCHANGED ok
       \/ ok' = [ok EXCEPT ![s] = FALSE] /\ Goto(s, "p_end")
          /\ UNCHANGED aeVars
    /\ UNCHANGED <<strVars, audVars, pcm, rt, want, fin, cbPc, wVars, devVars,
                   recVars>>

PrepareMark(s) ==
    /\ pc[s] = "p_mark"
    /\ dmaRun' = [dmaRun EXCEPT ![s] = TRUE]
    /\ IF s = Hdmi
       THEN /\ invalidated' = FALSE /\ monitoring' = TRUE /\ prepared' = want
            /\ Goto(s, "p_verify")
       ELSE Goto(s, "p_end") /\ UNCHANGED <<invalidated, monitoring, prepared>>
    /\ UNCHANGED <<aeVars, sub, cap, audVars, pcm, rt, ok, want, fin, cbPc, wVars,
                   devVars, recVars>>

\* Mutant: the format is not read again after monitoring began.
PrepareVerify_Skipped(s) ==
    /\ pc[s] = "p_verify"
    /\ Goto(s, "p_judge")
    /\ UNCHANGED <<aeVars, strVars, audVars, pcm, rt, ok, want, fin, cbPc, wVars,
                   devVars, recVars>>

\* The format is read again, now that a change would be noticed.
PrepareVerify(s) ==
    /\ pc[s] = "p_verify"
    /\ ReadFormat
    /\ ok' = [ok EXCEPT ![s] = Update.fmt # NoFormat /\ Update = want]
    /\ Goto(s, "p_judge")
    /\ UNCHANGED <<aeVars, strVars, audVars, pcm, rt, want, fin, cbPc, wVars,
                   devVars>>

PrepareJudge(s) ==
    /\ pc[s] = "p_judge"
    /\ IF ok[s]
       THEN Goto(s, "p_end") /\ UNCHANGED <<dmaRun, invalidated, monitoring>>
       ELSE Goto(s, "p_stop") /\ Invalidate
    /\ UNCHANGED <<aeVars, sub, cap, prepared, audVars, pcm, rt, ok, want, fin,
                   cbPc, wVars, devVars, recVars>>

PrepareEnd(s) ==
    /\ pc[s] = "p_end"
    /\ control_lock' = "free"
    /\ pcm' = IF ok[s] /\ ~disconnected THEN [pcm EXCEPT ![s] = "prepared"]
              ELSE pcm
    /\ Goto(s, "idle")
    /\ UNCHANGED <<aeVars, strVars, disconnected, suspended, rt, ok, want, fin,
                   cbPc, wVars, devVars, recVars>>

-----------------------------------------------------------------------------
(* gc555_audio_pcm_trigger, under the PCM stream lock                       *)

\* START, RESUME, PAUSE_RELEASE: a stream whose format changed is refused ...
TriggerCheck(s) ==
    /\ Awake /\ pc[s] = "idle" /\ pcm[s] = "prepared"
    /\ ~(s = Hdmi /\ invalidated)
    /\ Goto(s, "t_set")
    /\ UNCHANGED <<aeVars, strVars, audVars, pcm, rt, ok, want, fin, cbPc, wVars,
                   devVars, recVars>>

\* ... and so is one whose engine does not run any more.
TriggerSet(s) ==
    /\ pc[s] = "t_set"
    /\ IF disconnected \/ ~dmaRun[s] THEN UNCHANGED <<cap, pcm>>
       ELSE /\ cap' = [cap EXCEPT ![s] = TRUE]
            /\ pcm' = [pcm EXCEPT ![s] = "running"]
    /\ Goto(s, "idle")
    /\ UNCHANGED <<aeVars, sub, dmaRun, invalidated, monitoring, prepared,
                   audVars, rt, ok, want, fin, cbPc, wVars, devVars, recVars>>

\* STOP, and PAUSE_PUSH, after which the stream may go on unprepared
TriggerStop(s) ==
    /\ Awake /\ pc[s] = "idle" /\ pcm[s] = "running"
    /\ cap' = [cap EXCEPT ![s] = FALSE]
    /\ \E p \in {"setup", "prepared"} : pcm' = [pcm EXCEPT ![s] = p]
    /\ UNCHANGED <<aeVars, sub, dmaRun, invalidated, monitoring, prepared,
                   audVars, rt, pc, ok, want, fin, cbPc, wVars, devVars, recVars>>

-----------------------------------------------------------------------------
(* gc555_audio_pcm_hw_free, gc555_audio_pcm_close, gc555_audio_suspend and  *)
(* gc555_audio_cleanup: each takes the format work off and stops the DMA    *)

FreeBegin(s, k) ==
    /\ pc[s] = "idle" /\ pcm[s] # "closed" /\ ~Frozen
    /\ k = "close" \/ Awake
    /\ cap' = [cap EXCEPT ![s] = FALSE]
    /\ monitoring' = (monitoring /\ s # Hdmi)
    /\ pcm' = [pcm EXCEPT ![s] = "setup"] /\ fin' = [fin EXCEPT ![s] = k]
    /\ Goto(s, IF s = Hdmi THEN "f_cancel" ELSE "s_lock")
    /\ UNCHANGED <<aeVars, sub, dmaRun, invalidated, prepared, audVars, rt, ok,
                   want, cbPc, wVars, devVars, recVars>>

\* The freezer lets the calls in progress end first; a trigger SUSPEND stops
\* running streams before their DMA is stopped.
SuspendBegin ==
    /\ CanSuspend /\ mode = "run" /\ \A t \in Threads : pc[t] = "idle"
    /\ suspended' = TRUE
    /\ mode' = "suspending" /\ unstopped' = Pcms
    /\ Goto(Dev, "f_cancel")
    /\ UNCHANGED <<aeVars, strVars, control_lock, disconnected, pcm, rt, ok, want, fin,
                   cbPc, wVars, cur, recVars>>

RemovalBegin ==
    /\ CanRemove /\ mode = "run" /\ pc[Dev] = "idle"
    /\ disconnected' = TRUE /\ cap' = [s \in Pcms |-> FALSE]
    /\ mode' = "removing" /\ unstopped' = Pcms
    /\ Goto(Dev, "f_cancel")
    /\ UNCHANGED <<aeVars, sub, dmaRun, invalidated, monitoring, prepared, control_lock,
                   suspended, pcm, rt, ok, want, fin, cbPc, wVars, cur,
                   recVars>>

\* cancel_work_sync(&audio->format_work): off the queue ...
CancelFormat(t) ==
    /\ pc[t] = "f_cancel"
    /\ wQ' = FALSE
    /\ Goto(t, "f_flush")
    /\ UNCHANGED <<aeVars, strVars, audVars, pcm, rt, ok, want, fin, cbPc, wPc,
                   wFmt, devVars, recVars>>

\* ... and waited for.  (While it is canceled it cannot be queued again.)
FlushFormat(t) ==
    /\ pc[t] = "f_flush" /\ wPc = "idle"
    /\ wQ' = FALSE
    /\ Goto(t, IF t = Dev THEN "s_next" ELSE "s_lock")
    /\ UNCHANGED <<aeVars, strVars, audVars, pcm, rt, ok, want, fin, cbPc, wPc,
                   wFmt, devVars, recVars>>

\* The stream a thread stops.
Target(t) == IF t = Dev THEN cur ELSE t

\* gc555_audio_stop_sync: no more samples, ...
StopNext(s) ==
    /\ pc[Dev] = "s_next" /\ s \in unstopped /\ ~StreamLocked(s)
    /\ unstopped' = unstopped \ {s} /\ cur' = s
    /\ cap' = [cap EXCEPT ![s] = FALSE]
    /\ pcm' = IF pcm[s] = "running" THEN [pcm EXCEPT ![s] = "setup"] ELSE pcm
    /\ Goto(Dev, "s_lock")
    /\ UNCHANGED <<aeVars, sub, dmaRun, invalidated, monitoring, prepared,
                   audVars, rt, ok, want, fin, cbPc, wVars, mode, recVars>>

\* ... the flag is taken under both locks ...
StopLock(t) ==
    /\ pc[t] = "s_lock" /\ control_lock = "free"
    /\ control_lock' = t
    /\ dmaRun' = [dmaRun EXCEPT ![Target(t)] = FALSE]
    /\ Goto(t, IF dmaRun[Target(t)] THEN "s_stop" ELSE "s_end")
    /\ UNCHANGED <<aeVars, sub, cap, invalidated, monitoring, prepared,
                   disconnected, suspended, pcm, rt, ok, want, fin, cbPc, wVars,
                   devVars, recVars>>

\* ... and the engine is stopped, which waits for its callback.
StopDma(t) ==
    /\ pc[t] = "s_stop"
    /\ Close(Target(t))
    /\ Goto(t, "s_stopping")
    /\ UNCHANGED <<strVars, audVars, pcm, rt, ok, want, fin, cbPc, wVars,
                   devVars, recVars>>

StoppedDma(t) ==
    /\ pc[t] = "s_stopping"
    /\ Closed(Target(t))
    /\ Goto(t, "s_end")
    /\ UNCHANGED <<strVars, audVars, pcm, rt, ok, want, fin, cbPc, wVars,
                   devVars, recVars>>

StopEnd(t) ==
    /\ pc[t] = "s_end"
    /\ control_lock' = "free"
    /\ Goto(t, IF t = Dev THEN "s_next" ELSE "f_end")
    /\ UNCHANGED <<aeVars, strVars, disconnected, suspended, pcm, rt, ok, want,
                   fin, cbPc, wVars, devVars, recVars>>

\* hw_free forgets the format, close the substream.
FreeEnd(s) ==
    /\ pc[s] = "f_end"
    /\ IF fin[s] = "close"
       THEN /\ sub' = [sub EXCEPT ![s] = FALSE]
            /\ pcm' = [pcm EXCEPT ![s] = "closed"]
       ELSE UNCHANGED <<sub, pcm>>
    /\ IF fin[s] = "free" /\ s = Hdmi
       THEN invalidated' = FALSE /\ prepared' = Nothing
       ELSE UNCHANGED <<invalidated, prepared>>
    /\ Goto(s, "idle")
    /\ UNCHANGED <<aeVars, cap, dmaRun, monitoring, audVars, rt, ok, want, fin,
                   cbPc, wVars, devVars, recVars>>

SuspendEnd ==
    /\ pc[Dev] = "s_next" /\ unstopped = {} /\ mode = "suspending"
    /\ mode' = "asleep" /\ Goto(Dev, "idle")
    /\ UNCHANGED <<aeVars, strVars, audVars, pcm, rt, ok, want, fin, cbPc,
                   wVars, unstopped, cur, recVars>>

\* gc555_audio_resume
Resume ==
    /\ mode = "asleep"
    /\ suspended' = FALSE /\ mode' = "run"
    /\ UNCHANGED <<aeVars, strVars, control_lock, disconnected, appVars, cbPc, wVars,
                   unstopped, cur, recVars>>

\* snd_card_disconnect_sync waits until every file is closed.
CleanupEnd ==
    /\ pc[Dev] = "s_next" /\ unstopped = {} /\ mode = "removing"
    /\ \A s \in Pcms : pcm[s] = "closed"
    /\ mode' = "gone" /\ Goto(Dev, "idle")
    /\ UNCHANGED <<aeVars, strVars, audVars, pcm, rt, ok, want, fin, cbPc,
                   wVars, unstopped, cur, recVars>>

-----------------------------------------------------------------------------
(* gc555_audio_format_work                                                  *)

FormatWorkStart ==
    /\ wQ /\ wPc = "idle"
    /\ wQ' = FALSE /\ wPc' = "lock"
    /\ UNCHANGED <<aeVars, strVars, audVars, appVars, cbPc, wFmt, devVars,
                   recVars>>

FormatWorkLock ==
    /\ wPc = "lock" /\ control_lock = "free"
    /\ control_lock' = "work" /\ wPc' = "read"
    /\ UNCHANGED <<aeVars, strVars, disconnected, suspended, appVars, cbPc, wQ,
                   wFmt, devVars, recVars>>

FormatWorkRead ==
    /\ wPc = "read"
    /\ ReadFormat /\ wFmt' = Update
    /\ wPc' = "decide"
    /\ UNCHANGED <<aeVars, strVars, audVars, appVars, cbPc, wQ, devVars>>

\* A capture whose format is another now ends: flags first, ...
FormatWorkDecide ==
    /\ wPc = "decide"
    /\ IF \/ disconnected \/ suspended \/ ~monitoring \/ ~dmaRun[Hdmi]
          \/ invalidated \/ wFmt = prepared
       THEN wPc' = "end"
            /\ UNCHANGED <<cap, dmaRun, invalidated, monitoring>>
       ELSE /\ Invalidate
            /\ cap' = [cap EXCEPT ![Hdmi] = FALSE]
            /\ wPc' = IF cap[Hdmi] /\ sub[Hdmi] THEN "xrun" ELSE "stop"
    /\ UNCHANGED <<aeVars, sub, prepared, audVars, appVars, cbPc, wQ, wFmt,
                   devVars, recVars>>

\* ... then the PCM, under its stream lock (snd_pcm_stop_xrun calls trigger),
FormatWorkXrun ==
    /\ wPc = "xrun" /\ ~StreamLocked(Hdmi)
    /\ cap' = [cap EXCEPT ![Hdmi] = FALSE]
    /\ pcm' = IF pcm[Hdmi] = "running" THEN [pcm EXCEPT ![Hdmi] = "setup"]
              ELSE pcm
    /\ wPc' = "stop"
    /\ UNCHANGED <<aeVars, sub, dmaRun, invalidated, monitoring, prepared,
                   audVars, rt, ok, want, pc, fin, cbPc, wQ, wFmt, devVars,
                   recVars>>

\* ... then the engine.
FormatWorkStop ==
    /\ wPc = "stop"
    /\ Close(Hdmi)
    /\ wPc' = "stopping"
    /\ UNCHANGED <<strVars, audVars, appVars, cbPc, wQ, wFmt, devVars, recVars>>

FormatWorkStopped ==
    /\ wPc = "stopping"
    /\ Closed(Hdmi)
    /\ wPc' = "end"
    /\ UNCHANGED <<strVars, audVars, appVars, cbPc, wQ, wFmt, devVars, recVars>>

FormatWorkEnd ==
    /\ wPc = "end"
    /\ control_lock' = "free" /\ wPc' = "idle"
    /\ UNCHANGED <<aeVars, strVars, disconnected, suspended, appVars, cbPc, wQ,
                   wFmt, devVars, recVars>>

-----------------------------------------------------------------------------
(* gc555_audio_receive, the data callback                                   *)

ReceiveBegin(s) ==
    /\ Serve(s)
    /\ cbPc' = [cbPc EXCEPT ![s] = "enter"]
    /\ UNCHANGED <<strVars, audVars, appVars, wVars, devVars, recVars>>

\* Samples are dropped unless the stream captures; otherwise a period may have
\* elapsed, and the substream is used after the lock is dropped.
ReceiveCopy(s) ==
    /\ cbPc[s] = "enter"
    /\ \/ /\ cap[s] /\ sub[s]
          /\ cbPc' = [cbPc EXCEPT ![s] = "elapsed"] /\ UNCHANGED aeVars
       \/ Answer(s) /\ cbPc' = [cbPc EXCEPT ![s] = "idle"]
    /\ UNCHANGED <<strVars, audVars, appVars, wVars, devVars, recVars>>

\* snd_pcm_period_elapsed takes the stream lock and stops an overrun stream.
ReceiveElapsed(s) ==
    /\ cbPc[s] = "elapsed" /\ ~StreamLocked(s)
    /\ \/ UNCHANGED <<cap, pcm>>
       \/ /\ pcm[s] = "running"
          /\ cap' = [cap EXCEPT ![s] = FALSE]
          /\ pcm' = [pcm EXCEPT ![s] = "setup"]
    /\ Answer(s) /\ cbPc' = [cbPc EXCEPT ![s] = "idle"]
    /\ UNCHANGED <<sub, dmaRun, invalidated, monitoring, prepared, audVars, rt,
                   ok, want, pc, fin, wVars, devVars, recVars>>

-----------------------------------------------------------------------------

Application(s) ==
    \/ PcmOpen(s) \/ PrepareBegin(s) \/ TriggerCheck(s) \/ TriggerStop(s)
    \/ \E k \in {"free", "close"} : FreeBegin(s, k)

Prepare(s) ==
    \/ PrepareLock(s) \/ PrepareRead(s) \/ PrepareDecide(s) \/ PrepareStop(s)
    \/ PrepareStopped(s) \/ PrepareStart(s) \/ PrepareMark(s)
    \/ PrepareVerify(s) \/ PrepareJudge(s) \/ PrepareEnd(s)

Stop(t) ==
    \/ CancelFormat(t) \/ FlushFormat(t) \/ StopLock(t) \/ StopDma(t)
    \/ StoppedDma(t) \/ StopEnd(t)

Device ==
    \/ SuspendEnd \/ CleanupEnd \/ \E s \in Pcms : StopNext(s)

FormatWork ==
    \/ FormatWorkStart \/ FormatWorkLock \/ FormatWorkRead \/ FormatWorkDecide
    \/ FormatWorkXrun \/ FormatWorkStop \/ FormatWorkStopped \/ FormatWorkEnd

Receive(s) == ReceiveCopy(s) \/ ReceiveElapsed(s)

CaptureNext ==
    \/ \E f \in AllFormats : Retune(f)
    \/ Publish \/ FormatChanged
    \/ \E s \in Pcms :
          \/ Application(s) \/ Prepare(s) \/ TriggerSet(s) \/ FreeEnd(s)
          \/ ReceiveBegin(s) \/ Receive(s)
    \/ \E t \in Threads : Stop(t)
    \/ SuspendBegin \/ Resume \/ RemovalBegin \/ Device
    \/ FormatWork

CaptureSpec == CaptureInit /\ [][CaptureNext]_acVars

-----------------------------------------------------------------------------
(* Properties *)

\* No change of the format is missed: if what is captured is not what the
\* receiver last published, somebody is still going to look: a call of
\* hdmi_format_changed, the format work, or the prepare that reads twice.
FormatFollowed ==
    /\ dmaRun[Hdmi] /\ prepared # reported /\ ~suspended /\ ~disconnected
    /\ pc[Hdmi] \notin {"f_cancel", "f_flush", "s_lock"}
    => \/ notes > 0 \/ wQ \/ wPc \in {"lock", "read"}
       \/ wPc = "decide" /\ wFmt # prepared
       \/ pc[Hdmi] \in {"p_lock", "p_read", "p_decide", "p_mark", "p_verify"}
       \/ pc[Hdmi] = "p_judge" /\ ~ok[Hdmi]

\* Neither the data callback nor the format work uses a substream that was
\* closed: both use it after they dropped the lock they read it under.
SubstreamAlive == \A s \in Pcms :
    cbPc[s] = "elapsed" \/ (s = Hdmi /\ wPc = "xrun") =>
        sub[s] /\ pcm[s] # "closed"

\* Samples reach a PCM only from an engine that the stream has started, and
\* whose flag agrees with it whenever nobody is about to change it.
FlagsAgree == \A s \in Pcms :
    /\ cap[s] => dmaRun[s] /\ gate[s] = "open"
    /\ control_lock = "free" => (dmaRun[s] <=> gate[s] = "open")

\* When the cleanup is over, no thread is left in the driver.
GoneQuiet == mode = "gone" =>
    /\ ~wQ /\ wPc = "idle" /\ control_lock = "free"
    /\ \A s \in Pcms : gate[s] = "shut" /\ ~serving[s] /\ pc[s] = "idle"

\* What the PCM devices promise.
CaptureSound ==
    CaptureTypeOK /\ FormatFollowed /\ FlagsAgree /\ SubstreamAlive /\ GoneQuiet
=============================================================================
