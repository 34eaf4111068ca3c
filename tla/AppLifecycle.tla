---------------------------- MODULE AppLifecycle ----------------------------
(***************************************************************************)
(* Foreground app lifecycle of the Zephyr firmware: app_lifecycle.c, the   *)
(* poll loop and host frames of device_protocol.c that drive it, and the   *)
(* VM job of vm_runtime.c.                                                 *)
(*                                                                         *)
(* Two threads share struct sq_vm_runtime.  The main loop (main.c:164-187) *)
(* handles host frames and calls sq_device_protocol_poll; it has the       *)
(* higher priority, so one of its handlers is one step here.  The VM       *)
(* worker (priority 5) runs one job at a time and can be overtaken by the  *)
(* main loop between any two of its own steps.  A handler that waits for   *)
(* the worker (sq_vm_runtime_wait_idle) is a step guarded by JobDone.      *)
(***************************************************************************)
EXTENDS Naturals, Sequences, FiniteSets

CONSTANTS
    Apps,            \* app ids that hosts and apps name
    Main,            \* the logical root "main"
    SafeApps,        \* ids is_safe_app_id accepts as part of a path
    NoApp,           \* the empty id, and "none" elsewhere
    Fallback,        \* the SQBC built into the firmware, run as "main"
    FirstInstalled,  \* apps in the store at the first boot
    ReturnStackMax,  \* SQ_VM_RUNTIME_RETURN_STACK_MAX
    ArmedTimerMax,   \* SQ_VM_RUNTIME_ARMED_TIMER_MAX
    HostFrames,      \* which host frames arrive (bounds the environment)
    AppCalls,        \* which host calls app handlers make (same)
    StorageFaults    \* whether file operations may fail

(* A return stack has room for one entry at least, main is a valid id.     *)
ASSUME LifecycleAssumption ==
    /\ Main \in SafeApps /\ SafeApps \subseteq Apps
    /\ FirstInstalled \subseteq SafeApps
    /\ NoApp \notin Apps
    /\ ReturnStackMax \in Nat \ {0} /\ ArmedTimerMax \in Nat
    /\ StorageFaults \in BOOLEAN

(* An app id together with the flag that tells a temp run from an          *)
(* installed app (current_app_temp, return_stack_temp, ...).               *)
Ref == [app : Apps, temp : BOOLEAN]
InstalledRef(a) == [app |-> a, temp |-> FALSE]
TempRef(a) == [app |-> a, temp |-> TRUE]
Names(r, a) == r \in {InstalledRef(a), TempRef(a)}

(* NoApp and Fallback are not confused with an app reference.              *)
ASSUME RefAssumption ==
    NoApp \notin [app : Apps \cup {NoApp}, temp : BOOLEAN] /\ Fallback # NoApp

VARIABLES
    power,     \* "on", or what the next boot will be: "boot", "wake"
    status,    \* runtime->status
    stage,     \* how far the worker is with its job; "none" without a job
    asking,    \* app.launch argument between the busy check and the write
    asked,     \* the event start_event was called with
    event,     \* runtime->event, the buffer the worker reads
    exited,    \* runtime->dispatch_exited
    current,   \* current_app and current_app_temp
    phase,     \* lifecycle_phase
    target,    \* lifecycle_target_app and lifecycle_target_temp
    reason,    \* start_reason
    stack,     \* return_stack, return_stack_temp and return_stack_count
    arm,       \* arm_target_app; NoApp is ARM_IDLE
    armed,     \* armed_timers: the trigger timer of each app
    timers,    \* whether a foreground timer is active
    backend,   \* job_backend: "none", "flash", "temp" or "fallback"
    storage,   \* the app whose path launch_storage holds
    session,   \* the program in the VM context; NoApp: context_ready false
    staged,    \* temp_session.app_id
    tempPhase, \* temp_session.phase
    install,   \* pending_install.app_id; NoApp: not active
    installed, \* the app registry
    upload,    \* app of a complete BLE or HTTP upload not yet dispatched
    payload,   \* app whose upload fields are in pending_event_payload
    resume     \* the planned-resume record in flash

jobVars   == <<status, stage, asking, asked, event>>
routeVars == <<current, phase, target, reason, stack>>
armVars   == <<arm, armed>>
vmVars    == <<timers, backend, storage, session>>
tempVars  == <<staged, tempPhase>>
inVars    == <<install, installed, upload, payload>>
vars == <<power, jobVars, exited, routeVars, armVars, vmVars, tempVars, inVars, resume>>

Statuses == {"idle", "running", "complete", "error"}
Stages == {"none", "starting", "handler", "launching", "sleeping", "failing"}
Events == {"none", "app.start", "app.exit", "power.sleep", "trigger", "upload",
           "timer", "input", "key", "host"}
Phases == {"idle", "launch-requested", "exit-for-launch",
           "sleep-requested", "sleep-checkpoint"}
TimerKinds == {"off", "once", "repeating"}
NoTimers == [a \in Apps |-> "off"]
Bounded(S) == {s \in Seq(S) : Len(s) <= ReturnStackMax}
Resume == [app : Apps, stack : Bounded(Apps), armed : SUBSET Apps]

JobOK ==
    /\ power \in {"on", "boot", "wake"}
    /\ status \in Statuses /\ stage \in Stages
    /\ asking \in Apps \cup {NoApp}
    /\ asked \in Events /\ event \in Events /\ exited \in BOOLEAN
RouteOK ==
    /\ current \in Ref \cup {NoApp} /\ target \in Ref \cup {NoApp}
    /\ phase \in Phases
    /\ reason \in {"boot", "launch", "return", "wake"}
    /\ stack \in Bounded(Ref)
Sessions == [app : Apps \cup {NoApp}, temp : BOOLEAN] \cup {NoApp, Fallback}
VmOK ==
    /\ timers \in BOOLEAN
    /\ backend \in {"none", "flash", "temp", "fallback"}
    /\ storage \in Apps \cup {NoApp}
    /\ session \in Sessions
QueueOK ==
    /\ arm \in Apps \cup {NoApp} /\ armed \in [Apps -> TimerKinds]
    /\ staged \in Apps \cup {NoApp} /\ tempPhase \in {"idle", "receiving", "committing"}
    /\ install \in Apps \cup {NoApp} /\ installed \in SUBSET SafeApps
    /\ upload \in Apps \cup {NoApp} /\ payload \in Apps \cup {NoApp}
    /\ resume \in Resume \cup {NoApp}
TypeOK == JobOK /\ RouteOK /\ VmOK /\ QueueOK

JobDone == status # "running"

-----------------------------------------------------------------------------
(* Starting a job on the VM worker.                                        *)

(* Mutant of StartEvent: dispatch_exited is not reset.                     *)
StartEventKeepingExit(b, ev) ==
    /\ status' = "running" /\ stage' = "starting"
    /\ asked' = ev /\ event' = ev /\ backend' = b
    /\ UNCHANGED <<asking, exited>>

(* sq_vm_runtime_start_event once it is not refused with EBUSY.            *)
StartEvent(b, ev) ==
    /\ status' = "running" /\ stage' = "starting"
    /\ asked' = ev /\ event' = ev
    /\ exited' = FALSE /\ backend' = b
    /\ UNCHANGED asking

NoStart == UNCHANGED <<jobVars, backend, current>>

UsesFallback(r) == r = InstalledRef(Main) /\ Main \notin installed
BackendOf(r) == IF r.temp THEN "temp" ELSE IF UsesFallback(r) THEN "fallback" ELSE "flash"

(* What the SQBC reader of a backend delivers: launch_storage and          *)
(* temp_foreground_storage are shared, so it is read when it is used.      *)
Program(b) == CASE b = "flash"    -> [app |-> storage, temp |-> FALSE]
                [] b = "temp"     -> [app |-> staged, temp |-> TRUE]
                [] b = "fallback" -> Fallback
                [] b = "none"     -> NoApp

Switches(r, setCurrent) == setCurrent /\ current # r

(* Mutant of Fresh: a start never discards the VM session it finds.        *)
NeverFresh(r, setCurrent) == FALSE
Fresh(r, setCurrent) == setCurrent \/ current # r

Startable(r, setCurrent) ==
    \/ r.temp /\ staged = r.app /\ (setCurrent \/ current = r)
    \/ ~r.temp /\ (UsesFallback(r) \/ r.app \in SafeApps)

(* start_resolved_app, the success path: a new foreground app clears the   *)
(* foreground timers, and a fresh start discards the VM session.           *)
StartJob(r, ev, setCurrent) ==
    /\ Startable(r, setCurrent)
    /\ StartEvent(BackendOf(r), ev)
    /\ current' = IF setCurrent THEN r ELSE current
    /\ timers' = (timers /\ ~Switches(r, setCurrent))
    /\ session' = IF Fresh(r, setCurrent) THEN NoApp ELSE session
    /\ storage' = IF BackendOf(r) = "flash" THEN r.app ELSE storage

(* start_resolved_app, the error paths.  A temp app that is not staged is  *)
(* refused first; releasing the open SQBC may fail after the timers are    *)
(* gone; an unsafe id is refused after the VM session is gone too.         *)
StartFails(r, setCurrent) ==
    /\ ~Startable(r, setCurrent) \/ (StorageFaults /\ Fresh(r, setCurrent))
    /\ NoStart
    /\ timers' = (timers /\ (~Switches(r, setCurrent)
                             \/ (r.temp /\ ~Startable(r, setCurrent))))
    /\ session' = IF ~r.temp /\ ~Startable(r, setCurrent) /\ Fresh(r, setCurrent)
                  THEN NoApp ELSE session
    /\ UNCHANGED storage

-----------------------------------------------------------------------------
(* sq_device_protocol_poll: one action per branch.                         *)

(* The entry before a deferred install is looked at.                       *)
(* Its mutant polls while the worker runs.                                 *)
PollingBusy == power = "on"
Polling == power = "on" /\ JobDone

(* The rest of a poll; the mutant looks at the lifecycle before installs.  *)
NextStepFirst == Polling
NextStep == Polling /\ install = NoApp

(* A deferred app.install: rename the staged file and update the registry. *)
PollInstall ==
    /\ Polling /\ install # NoApp
    /\ install' = NoApp
    /\ installed' \in {installed, installed \cup ({install} \cap SafeApps)}
    /\ UNCHANGED <<power, jobVars, exited, routeVars, armVars, vmVars, tempVars,
                   upload, payload, resume>>

(* sq_vm_runtime_next_due_armed_timer: a one-shot timer is consumed.       *)
TakeDue(a) ==
    /\ armed[a] # "off"
    /\ armed' = [armed EXCEPT ![a] = IF @ = "once" THEN "off" ELSE @]

(* push_return: the empty id is no entry, a full stack is -ENOSPC.         *)
(* The mutant does not look at the count.                                  *)
Full == Len(stack) >= ReturnStackMax
Pushed(r) == IF r = NoApp THEN stack ELSE Append(stack, r)
AlwaysPush(r) == TRUE
CanPush(r) == r = NoApp \/ ~Full

(* pop_return: the top of the stack, or main.  The mutant leaves the count *)
(* as it is.                                                               *)
Top == IF stack = <<>> THEN InstalledRef(Main) ELSE stack[Len(stack)]
PoppedNothing == stack
Popped == IF stack = <<>> THEN stack ELSE SubSeq(stack, 1, Len(stack) - 1)

(* dispatch_exited with no hand-off pending: pop and start the return      *)
(* target.  A timer that is due in this very poll has been taken before.   *)
PollReturn ==
    /\ NextStep /\ exited /\ phase = "idle"
    /\ UNCHANGED armed \/ (arm = NoApp /\ \E a \in Apps : TakeDue(a))
    /\ reason' = "return" /\ stack' = Popped /\ target' = NoApp
    /\ \/ StartJob(Top, "app.start", TRUE)
       \/ StartFails(Top, TRUE) /\ exited' = FALSE
    /\ UNCHANGED <<power, phase, arm, tempVars, inVars, resume>>

(* A lifecycle transition that cannot go on is given up; the mutant forgets*)
(* to clear the phase.                                                     *)
KeepLaunch == UNCHANGED <<phase, target>>
DropLaunch == phase' = "idle" /\ target' = NoApp

(* LAUNCH_REQUESTED with a foreground app: dispatch its app.exit.          *)
PollLaunchExit ==
    /\ NextStep /\ phase = "launch-requested" /\ current # NoApp
    /\ \/ /\ StartJob(current, "app.exit", FALSE)
          /\ phase' = "exit-for-launch" /\ UNCHANGED target
       \/ StartFails(current, FALSE) /\ DropLaunch /\ UNCHANGED exited
    /\ UNCHANGED <<power, reason, stack, armVars, tempVars, inVars, resume>>

(* The last part of a hand-off: start the target, which TEMP_RUN_BEGIN may *)
(* have cleared meanwhile (set_step_start then returns -EINVAL).           *)
StartTarget(failed) ==
    /\ phase' = "idle" /\ reason' = "launch" /\ target' = NoApp
    /\ \/ target # NoApp /\ StartJob(target, "app.start", TRUE)
       \/ target # NoApp /\ StartFails(target, TRUE) /\ exited' = failed
       \/ target = NoApp /\ NoStart /\ exited' = failed
          /\ UNCHANGED <<timers, session, storage>>

(* LAUNCH_REQUESTED without a foreground app.  When main does not fit on   *)
(* the stack the code returns -ENOSPC and changes nothing.                 *)
PollLaunchDirect ==
    /\ NextStep /\ phase = "launch-requested" /\ current = NoApp
    /\ \/ Names(target, Main) /\ UNCHANGED stack
       \/ /\ ~Names(target, Main) /\ ~Full /\ stack' = Append(stack, InstalledRef(Main))
    /\ StartTarget(exited)
    /\ UNCHANGED <<power, armVars, tempVars, inVars, resume>>

(* EXIT_FOR_LAUNCH: app.exit is over, push the old app, start the target.  *)
PollLaunchTarget ==
    /\ NextStep /\ phase = "exit-for-launch"
    /\ \/ /\ CanPush(current) /\ stack' = Pushed(current)
          /\ StartTarget(FALSE)
       \/ /\ ~CanPush(current) /\ DropLaunch
          /\ NoStart
          /\ UNCHANGED <<exited, reason, stack, timers, session, storage>>
    /\ UNCHANGED <<power, armVars, tempVars, inVars, resume>>

(* SLEEP_REQUESTED: dispatch power.sleep.                                  *)
PollSleep ==
    /\ NextStep /\ phase = "sleep-requested"
    /\ \/ /\ current # NoApp /\ StartJob(current, "power.sleep", FALSE)
          /\ phase' = "sleep-checkpoint" /\ UNCHANGED target
       \/ /\ current # NoApp /\ StartFails(current, FALSE)
          /\ DropLaunch /\ UNCHANGED exited
       \/ /\ current = NoApp
          /\ phase' = "sleep-checkpoint"
          /\ NoStart
          /\ UNCHANGED <<exited, target, timers, session, storage>>
    /\ UNCHANGED <<power, reason, stack, armVars, tempVars, inVars, resume>>

(* planned_resume_from_runtime: ids only, the temp flags are not looked at.*)
ResumeRecord ==
    [app |-> current.app,
     stack |-> [i \in DOMAIN stack |-> stack[i].app],
     armed |-> {a \in Apps : armed[a] # "off"}]

(* sq_vm_runtime_reset: what a reset clears in struct sq_vm_runtime and in *)
(* the temp session.  The deferred install and the payload are not.        *)
CleanRuntime ==
    /\ status' = "idle" /\ stage' = "none" /\ asking' = NoApp
    /\ asked' = "none" /\ event' = "none" /\ exited' = FALSE
    /\ current' = NoApp /\ phase' = "idle" /\ target' = NoApp
    /\ reason' = "boot" /\ stack' = <<>>
    /\ arm' = NoApp /\ armed' = NoTimers
    /\ timers' = FALSE /\ backend' = "none" /\ storage' = NoApp /\ session' = NoApp
    /\ staged' = NoApp /\ tempPhase' = "idle"

PowerCycle(next) ==
    /\ CleanRuntime
    /\ power' = next
    /\ install' = NoApp /\ upload' = NoApp /\ payload' = NoApp
    /\ UNCHANGED installed

(* SLEEP_CHECKPOINT: write the record, then sleep.  On hardware the next   *)
(* thing is a wake boot.                                                   *)
Sleeps ==
    /\ current # NoApp /\ ~current.temp
    /\ resume' = ResumeRecord
    /\ PowerCycle("wake")

(* The record cannot be written, or (where no target overrides it) entering*)
(* sleep returns: the loop goes on.                                        *)
StaysAwake ==
    /\ \/ current # NoApp /\ ~current.temp /\ resume' = ResumeRecord
       \/ current # NoApp /\ StorageFaults /\ resume' \in {resume, NoApp}
       \/ current = NoApp /\ UNCHANGED resume
    /\ phase' = "idle"
    /\ UNCHANGED <<power, jobVars, exited, current, target, reason, stack,
                   armVars, vmVars, tempVars, inVars>>

PollCheckpoint == NextStep /\ phase = "sleep-checkpoint" /\ (Sleeps \/ StaysAwake)

(* Nothing of the lifecycle is pending.                                    *)
Settled == NextStep /\ phase = "idle" /\ ~exited

(* next_step with a due event: the foreground app gets it on its session;  *)
(* another app is started with it after the foreground app is pushed.      *)
DueEvent(a, ev) ==
    \/ /\ Names(current, a)
       /\ UNCHANGED <<reason, stack>>
       /\ \/ StartJob(current, ev, FALSE)
          \/ StartFails(current, FALSE) /\ UNCHANGED exited
    \/ /\ ~Names(current, a) /\ CanPush(current)
       /\ stack' = Pushed(current) /\ reason' = "launch"
       /\ \/ StartJob(InstalledRef(a), ev, TRUE)
          \/ StartFails(InstalledRef(a), TRUE) /\ UNCHANGED exited
    \/ /\ ~Names(current, a) /\ ~CanPush(current)
       /\ NoStart
       /\ UNCHANGED <<exited, reason, stack, timers, session, storage>>

PollArmedTimer(a) ==
    /\ Settled /\ arm = NoApp
    /\ TakeDue(a)
    /\ DueEvent(a, "trigger")
    /\ UNCHANGED <<power, phase, target, arm, tempVars, inVars, resume>>

(* A complete upload is drained and its fields attached to the next start. *)
PollUpload ==
    /\ Settled /\ arm = NoApp /\ upload # NoApp
    /\ upload' = NoApp
    /\ DueEvent(upload, "upload")
    /\ payload' = upload
    /\ UNCHANGED <<power, phase, target, armVars, tempVars, install, installed, resume>>

(* register_app_triggers: the app's old timers are dropped, the ones its   *)
(* SQBC declares (if it can be read) take free slots.                      *)
Active(f) == {a \in Apps : f[a] # "off"}
PollArm ==
    /\ Settled /\ arm # NoApp
    /\ arm' = NoApp
    /\ \E kind \in TimerKinds :
          /\ arm \notin SafeApps => kind = armed[arm]
          /\ kind # "off" /\ arm \in SafeApps
                => Cardinality(Active(armed) \ {arm}) < ArmedTimerMax
          /\ armed' = [armed EXCEPT ![arm] = kind]
    /\ UNCHANGED <<power, jobVars, exited, routeVars, vmVars, tempVars, inVars, resume>>

(* sq_vm_runtime_poll: a queued input event or a due foreground timer runs *)
(* on the live session through whatever backend the last job used.         *)
PollForeground ==
    /\ Settled /\ arm = NoApp /\ upload = NoApp
    /\ backend # "none"
    /\ \/ "input" \in HostFrames /\ StartEvent(backend, "input") /\ UNCHANGED timers
       \/ timers /\ StartEvent(backend, "timer") /\ timers' \in BOOLEAN
    /\ UNCHANGED <<power, routeVars, armVars, storage, session, tempVars, inVars, resume>>

Poll ==
    \/ PollInstall \/ PollReturn
    \/ PollLaunchExit \/ PollLaunchDirect \/ PollLaunchTarget
    \/ PollSleep \/ PollCheckpoint
    \/ \E a \in Apps : PollArmedTimer(a)
    \/ PollUpload \/ PollArm \/ PollForeground

-----------------------------------------------------------------------------
(* Host frames (sq_device_protocol_handle_frame), handled by the main loop *)
(* between polls: most of them also while the worker runs a job.           *)

Frame(f) == power = "on" /\ f \in HostFrames

(* APP_LAUNCH: sq_app_lifecycle_request_launch.                            *)
HostLaunch(a) ==
    /\ Frame("launch") /\ phase = "idle"
    /\ phase' = "launch-requested" /\ target' = InstalledRef(a)
    /\ UNCHANGED <<power, jobVars, exited, current, reason, stack, armVars, vmVars,
                   tempVars, inVars, resume>>

(* The stack without its temp entries, in their order (a singleton set).   *)
(* The mutant clears the foreground and the target only.                   *)
WithTemp(s) == {s}
WithoutTemp(s) ==
    LET Kept == {i \in DOMAIN s : ~s[i].temp}
        Enumerations == {m \in [1..Cardinality(Kept) -> Kept] :
                           \A i, j \in DOMAIN m : i < j => m[i] < m[j]}
    IN  {[i \in 1..Cardinality(Kept) |-> s[m[i]]] : m \in Enumerations}

(* clear_temp_routes: the pending phase is left as it is.                  *)
DropTemp(r) == IF r # NoApp /\ r.temp THEN NoApp ELSE r

(* TEMP_RUN_BEGIN: every route to the old temp app goes, then the session  *)
(* names the new one; a store that cannot stage it leaves no session.      *)
HostTempBegin(a) ==
    /\ Frame("temp") /\ JobDone
    /\ current' = DropTemp(current) /\ target' = DropTemp(target)
    /\ stack' \in WithoutTemp(stack)
    /\ \/ staged' = a /\ tempPhase' = "receiving"
       \/ StorageFaults /\ staged' = NoApp /\ tempPhase' = "idle"
    /\ UNCHANGED <<power, jobVars, exited, phase, reason, armVars, vmVars, inVars, resume>>

(* TEMP_RUN_COMMIT: the backend is replaced before the launch request,     *)
(* which a pending hand-off refuses with -EBUSY.                           *)
HostTempCommit ==
    /\ Frame("temp") /\ tempPhase # "idle"
    /\ \/ /\ JobDone
          /\ backend' = "temp"
          /\ current' = DropTemp(current)
          /\ stack' \in WithoutTemp(stack)
          /\ \/ /\ phase = "idle"
                /\ phase' = "launch-requested" /\ target' = TempRef(staged)
                /\ tempPhase' = "idle"
             \/ /\ phase # "idle"
                /\ target' = DropTemp(target) /\ tempPhase' = "committing"
                /\ UNCHANGED phase
       \/ /\ ~JobDone \/ StorageFaults
          /\ tempPhase' = "committing"
          /\ UNCHANGED <<backend, current, phase, target, stack>>
    /\ UNCHANGED <<power, jobVars, exited, reason, armVars, timers, storage, session,
                   staged, inVars, resume>>

(* KEY: the event text is written into runtime->event before the busy      *)
(* check; an installed foreground app is looked up in the store again.     *)
HostKey ==
    /\ Frame("key")
    /\ storage' = IF current # NoApp /\ ~current.temp THEN current.app ELSE storage
    /\ \/ /\ ~JobDone /\ event' = "key"
          /\ UNCHANGED <<status, stage, asking, asked, exited, backend>>
       \/ /\ JobDone
          /\ IF current # NoApp /\ current.temp
             THEN backend # "none" /\ StartEvent(backend, "key")
             ELSE storage' # NoApp /\ StartEvent("flash", "key")
    /\ UNCHANGED <<power, routeVars, armVars, timers, session, tempVars, inVars, resume>>

(* EVENT_DISPATCH to the foreground app or, without one, to any app: then  *)
(* the VM session is discarded first, also when the worker is using it.    *)
HostEvent(a) ==
    /\ Frame("event")
    /\ current = NoApp \/ Names(current, a)
    /\ session' = IF current = NoApp THEN NoApp ELSE session
    /\ IF current # NoApp /\ current.temp
       THEN /\ JobDone /\ backend # "none" /\ StartEvent(backend, "host")
            /\ UNCHANGED storage
       ELSE /\ storage' = IF a \in SafeApps THEN a ELSE storage
            /\ \/ a \in SafeApps /\ JobDone /\ StartEvent("flash", "host")
               \/ ~(a \in SafeApps /\ JobDone) /\ UNCHANGED <<jobVars, exited, backend>>
    /\ UNCHANGED <<power, routeVars, armVars, timers, tempVars, inVars, resume>>

(* RESET: clear_runtime_context.                                           *)
HostReset ==
    /\ Frame("reset") /\ JobDone
    /\ CleanRuntime
    /\ UNCHANGED <<power, inVars, resume>>

(* A BLE or HTTP upload for an app is complete.                            *)
UploadComplete(a) ==
    /\ Frame("upload")
    /\ upload' = a
    /\ UNCHANGED <<power, jobVars, exited, routeVars, armVars, vmVars, tempVars,
                   install, installed, payload, resume>>

(* Power is lost; the next boot is a cold one.                             *)
PowerLoss ==
    /\ Frame("power") /\ PowerCycle("boot")
    /\ UNCHANGED resume

Host ==
    \/ \E a \in Apps : \/ HostLaunch(a) \/ HostTempBegin(a) \/ HostEvent(a)
                       \/ UploadComplete(a)
    \/ HostTempCommit \/ HostKey \/ HostReset \/ PowerLoss

-----------------------------------------------------------------------------
(* Boot (main.c:139-157), before the loop runs.                            *)

(* A cold boot removes a stale record and starts main; without a store the *)
(* loop runs with no app at all.                                           *)
BootRoot ==
    /\ power = "boot" /\ power' = "on"
    /\ \/ /\ resume' = NoApp
          /\ StartJob(InstalledRef(Main), "app.start", TRUE)
       \/ /\ StorageFaults /\ NoStart
          /\ UNCHANGED <<exited, timers, storage, session, resume>>
    /\ UNCHANGED <<phase, target, reason, stack, armVars, tempVars, inVars>>

(* A wake boot consumes the record and restores the return stack, then the *)
(* armed apps it can read.                                                 *)
RestoreRoute ==
    /\ resume' = NoApp
    /\ stack' = [i \in DOMAIN resume.stack |-> InstalledRef(resume.stack[i])]
    /\ \E f \in [Apps -> TimerKinds] :
          /\ Active(f) \subseteq resume.armed /\ Cardinality(Active(f)) <= ArmedTimerMax
          /\ armed' = f

(* It goes on with the recorded app; when that does not start, or the      *)
(* record is not readable, with main.                                      *)
BootWake ==
    /\ power = "wake" /\ power' = "on"
    /\ \/ /\ RestoreRoute
          /\ StartJob(InstalledRef(resume.app), "app.start", TRUE) /\ reason' = "wake"
       \/ /\ StorageFaults /\ RestoreRoute
          /\ StartJob(InstalledRef(Main), "app.start", TRUE) /\ reason' = "boot"
       \/ /\ StorageFaults /\ resume' \in {resume, NoApp}
          /\ StartJob(InstalledRef(Main), "app.start", TRUE)
          /\ UNCHANGED <<reason, stack, armed>>
    /\ UNCHANGED <<phase, target, arm, tempVars, inVars>>

-----------------------------------------------------------------------------
(* The VM worker (runtime_run_job and the host calls of a handler).        *)

Working(s) == power = "on" /\ status = "running" /\ stage = s

EndJob(s, ex) ==
    /\ status' = s /\ stage' = "none" /\ exited' = ex
    /\ UNCHANGED <<asking, asked, event>>

(* cancel_pending_after_dispatch_error                                     *)
CancelPending ==
    /\ phase' = IF phase \in {"launch-requested", "sleep-requested"} THEN "idle" ELSE phase
    /\ target' = IF phase \in {"launch-requested", "sleep-requested"} THEN NoApp ELSE target
    /\ arm' = IF phase' = "idle" THEN NoApp ELSE arm

(* prepare_app_start fails: no SQBC, no VM, and nothing is cancelled.      *)
WorkerPrepareFails ==
    /\ Working("starting") /\ asked = "app.start"
    /\ EndJob("error", FALSE)
    /\ UNCHANGED <<power, routeVars, armVars, vmVars, tempVars, inVars, resume>>

(* The VM loads the program unless it has one and starts the event it now  *)
(* finds in runtime->event; a payload is handed over once.                 *)
Loaded == IF session = NoApp THEN Program(backend) ELSE session
WorkerEnters ==
    /\ Working("starting")
    /\ stage' = "handler" /\ session' = Loaded /\ payload' = NoApp
    /\ UNCHANGED <<power, status, asking, asked, event, exited, routeVars, armVars, timers,
                   backend, storage, tempVars, install, installed, upload, resume>>

(* Loading fails (the payload is kept), or starting the event does.        *)
WorkerStartFails ==
    /\ Working("starting")
    /\ \/ session = NoApp /\ UNCHANGED <<session, payload>>
       \/ session' = Loaded /\ payload' = NoApp
    /\ EndJob("error", FALSE)
    /\ CancelPending
    /\ UNCHANGED <<power, current, reason, stack, armed, timers, backend, storage, tempVars,
                   install, installed, upload, resume>>

Calling(c) == Working("handler") /\ c \in AppCalls
Refused == stage' = "failing"

(* app.launch: request_launch checks for a pending request and writes its  *)
(* own in separate steps of this thread.                                   *)
CallLaunch(a) ==
    /\ Calling("launch")
    /\ IF phase = "idle" THEN stage' = "launching" /\ asking' = a
                         ELSE Refused /\ UNCHANGED asking
    /\ UNCHANGED <<power, status, asked, event, exited, routeVars, armVars, vmVars,
                   tempVars, inVars, resume>>

LaunchWritten ==
    /\ Working("launching")
    /\ phase' = "launch-requested" /\ target' = InstalledRef(asking)
    /\ stage' = "handler" /\ asking' = NoApp
    /\ UNCHANGED <<power, status, asked, event, exited, current, reason, stack, armVars,
                   vmVars, tempVars, inVars, resume>>

(* service.power.sleep: refused for a temp app; checked and written alike. *)
(* The mutant lets a temp app sleep.                                       *)
SleepBusy == phase # "idle"
SleepRefused == phase # "idle" \/ (current # NoApp /\ current.temp)
CallSleep ==
    /\ Calling("sleep")
    /\ IF SleepRefused THEN Refused ELSE stage' = "sleeping"
    /\ UNCHANGED <<power, status, asking, asked, event, exited, routeVars, armVars,
                   vmVars, tempVars, inVars, resume>>

SleepWritten ==
    /\ Working("sleeping")
    /\ phase' = "sleep-requested" /\ stage' = "handler"
    /\ UNCHANGED <<power, status, asking, asked, event, exited, current, target, reason,
                   stack, armVars, vmVars, tempVars, inVars, resume>>

(* app.arm: one request at a time.                                         *)
CallArm(a) ==
    /\ Calling("arm")
    /\ IF arm = NoApp THEN arm' = a /\ UNCHANGED stage
                      ELSE Refused /\ UNCHANGED arm
    /\ UNCHANGED <<power, status, asking, asked, event, exited, routeVars, armed, vmVars,
                   tempVars, inVars, resume>>

(* app.disarm: a pending request for the app and its armed timers go.      *)
CallDisarm(a) ==
    /\ Calling("arm")
    /\ arm' = IF arm = a THEN NoApp ELSE arm
    /\ armed' = [armed EXCEPT ![a] = "off"]
    /\ UNCHANGED <<power, jobVars, exited, routeVars, vmVars, tempVars, inVars, resume>>

(* app.install: the single deferred slot is written, busy or not.          *)
CallInstall(a) ==
    /\ Calling("install")
    /\ install' = a
    /\ UNCHANGED <<power, jobVars, exited, routeVars, armVars, vmVars, tempVars,
                   installed, upload, payload, resume>>

(* timer.every, timer.after                                                *)
CallTimer ==
    /\ Calling("timer")
    /\ timers' = TRUE
    /\ UNCHANGED <<power, jobVars, exited, routeVars, armVars, backend, storage, session,
                   tempVars, inVars, resume>>

(* The handler ends, with or without app.exit.                             *)
WorkerFinishes ==
    /\ Working("handler")
    /\ \E ex \in BOOLEAN : (ex => "exit" \in AppCalls) /\ EndJob("complete", ex)
    /\ UNCHANGED <<power, routeVars, armVars, vmVars, tempVars, inVars, resume>>

(* A runtime error, or a host call that returned an error.                 *)
WorkerFails ==
    /\ Working("handler") \/ Working("failing")
    /\ EndJob("error", FALSE)
    /\ CancelPending
    /\ UNCHANGED <<power, current, reason, stack, armed, vmVars, tempVars, inVars, resume>>

Calls ==
    \/ \E a \in Apps : CallLaunch(a) \/ CallArm(a) \/ CallDisarm(a) \/ CallInstall(a)
    \/ CallSleep \/ CallTimer

(* The steps that bring a job to its end; the VM gives every dispatch one. *)
Progress ==
    \/ WorkerPrepareFails \/ WorkerEnters \/ WorkerStartFails
    \/ LaunchWritten \/ SleepWritten \/ WorkerFinishes \/ WorkerFails

-----------------------------------------------------------------------------
Init ==
    /\ power = "boot"
    /\ status = "idle" /\ stage = "none" /\ asking = NoApp
    /\ asked = "none" /\ event = "none" /\ exited = FALSE
    /\ current = NoApp /\ phase = "idle" /\ target = NoApp
    /\ reason = "boot" /\ stack = <<>>
    /\ arm = NoApp /\ armed = NoTimers
    /\ timers = FALSE /\ backend = "none" /\ storage = NoApp /\ session = NoApp
    /\ staged = NoApp /\ tempPhase = "idle"
    /\ install = NoApp /\ installed = FirstInstalled
    /\ upload = NoApp /\ payload = NoApp
    /\ resume = NoApp

Next == Poll \/ Host \/ BootRoot \/ BootWake \/ Calls \/ Progress

Spec == Init /\ [][Next]_vars

(* The main loop polls for ever, and every job the worker runs ends.       *)
Fairness == WF_vars(Poll \/ BootRoot \/ BootWake) /\ WF_vars(Progress)
FairSpec == Spec /\ Fairness

-----------------------------------------------------------------------------
(* Properties.                                                             *)

(* The temp-run session holds one staged program.  Whatever the firmware   *)
(* still knows as a temp app (foreground, launch target, return stack) is  *)
(* the app of that program: TEMP_RUN_BEGIN, which replaces the program,    *)
(* leaves no route to the old one (clear_temp_routes).                     *)
Routed(r) == r = current \/ r = target \/ \E i \in DOMAIN stack : r = stack[i]
TempRoutesStaged == \A a \in Apps : Routed(TempRef(a)) => staged = a

(* From the request of a planned sleep to the checkpoint the foreground    *)
(* app is not a temp app, whose program the record could not name.         *)
SleepNeedsInstalled ==
    phase \in {"sleep-requested", "sleep-checkpoint"} =>
        current = NoApp \/ ~current.temp

(* A launch takes the foreground from an app only after that app's own     *)
(* app.exit has been dispatched and has ended.                             *)
ExitBeforeTakeover ==
    [][ phase = "exit-for-launch" /\ current # NoApp /\ current' # NoApp
        /\ current' # current
            => JobDone /\ asked = "app.exit" /\ event = "app.exit" ]_vars

(* A deferred app.install is performed before any app gets the foreground: *)
(* install and launch in one handler start the new program.                *)
InstallFirst == [][ install # NoApp => current' \in {current, NoApp} ]_vars

(* A handler runs on the foreground app's own program, and the reader its  *)
(* session uses (job_backend) is one for that same program.                *)
SessionIsForeground ==
    stage = "handler" =>
        /\ current # NoApp
        /\ session = IF UsesFallback(current) THEN Fallback ELSE current
        /\ Program(backend) = session

(* A launch request is always answered: the target is started, or the      *)
(* request is given up.  One state has no answer: without a foreground app *)
(* and without room for main on the stack, each poll fails in the same way *)
(* and the request stays (a temp run can lead there, a launch cannot).     *)
Wedged == current = NoApp /\ Full
LaunchDrains == phase = "launch-requested" ~> (phase = "idle" \/ Wedged)

(* An app that has called app.exit does not stay in that state, unless a   *)
(* launch request without an answer is in its way.                         *)
ExitDrains == exited ~> (~exited \/ Wedged)

=============================================================================
