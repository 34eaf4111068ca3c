------------------------ MODULE AppLifecycleHostProofs ------------------------
(* Theorems about the lifecycle that hold as long as hosts keep away from  *)
(* the frames that break them: each theorem names those frames.            *)
EXTENDS AppLifecycleProofs, AppLifecycleRouting

-----------------------------------------------------------------------------
(* KEY writes runtime->event also when it is refused, and KEY and          *)
(* EVENT_DISPATCH start a job between the end of app.exit and the poll     *)
(* that looks at it.                                                       *)
NoInputFrames == HostFrames \cap {"key", "event"} = {}

(* While a launch waits for the end of the old app, its app.exit is the    *)
(* last event there was; a device that is off waits for nothing.           *)
ExitInv ==
    /\ phase = "exit-for-launch" => asked = "app.exit" /\ event = "app.exit"
    /\ power # "on" => phase = "idle"

(* A step that starts no event and begins no hand-off keeps the invariant. *)
LEMMA ExitKept ==
    ASSUME ExitInv, power' = power, phase' \in {phase, "idle", "launch-requested", "sleep-requested"},
           phase' = "exit-for-launch" => UNCHANGED <<asked, event>>,
           power # "on" => phase' = phase
    PROVE ExitInv'
  BY DEF ExitInv

(* The poll begins an exit only with its event, and ends the hand-off      *)
(* before it starts another one.                                           *)
LEMMA PollExitInv ==
    ASSUME ExitInv, Poll
    PROVE ExitInv'
  <1>1. ASSUME power' = "on", phase' # "exit-for-launch" PROVE ExitInv'
    BY <1>1 DEF ExitInv
  <1>2. CASE PollInstall \/ PollArm
    BY <1>2 DEF PollInstall, PollArm, Settled, NextStep, Polling, jobVars, routeVars, ExitInv
  <1>3. CASE PollReturn \/ PollForeground
    BY <1>3, <1>1 DEF PollReturn, PollForeground, Settled, NextStep, Polling, routeVars
  <1>4. CASE PollLaunchExit
    BY <1>4 DEF PollLaunchExit, StartJob, StartEvent, DropLaunch, NextStep, Polling, ExitInv
  <1>5. CASE PollLaunchDirect \/ PollLaunchTarget
    BY <1>5, <1>1 DEF PollLaunchDirect, PollLaunchTarget, StartTarget, DropLaunch, NextStep,
       Polling
  <1>6. CASE PollSleep
    BY <1>6, <1>1 DEF PollSleep, DropLaunch, NextStep, Polling
  <1>7. CASE PollCheckpoint
    BY <1>7 DEF PollCheckpoint, Sleeps, StaysAwake, PowerCycle, CleanRuntime, NextStep,
       Polling, ExitInv
  <1>8. CASE (\E a \in Apps : PollArmedTimer(a)) \/ PollUpload
    BY <1>8, <1>1 DEF PollArmedTimer, PollUpload, Settled, NextStep, Polling
  <1>9. QED
    BY <1>2, <1>3, <1>4, <1>5, <1>6, <1>7, <1>8 DEF Poll

(* So does every other step.                                               *)
LEMMA ExitInvKept ==
    ASSUME NoInputFrames, ExitInv, [Next]_vars
    PROVE ExitInv'
  <1>1. CASE UNCHANGED vars
    BY <1>1 DEF vars, jobVars, routeVars, ExitInv
  <1>2. CASE Host
    <2>1. CASE HostReset \/ PowerLoss
      BY <2>1 DEF HostReset, PowerLoss, PowerCycle, CleanRuntime, ExitInv
    <2>2. CASE HostTempCommit \/ \E a \in Apps : \/ HostLaunch(a) \/ HostTempBegin(a)
                                                \/ UploadComplete(a)
      BY <2>2 DEF HostTempCommit, HostLaunch, HostTempBegin, UploadComplete, Frame, jobVars,
         routeVars, ExitInv
    <2>3. ~HostKey /\ \A a \in Apps : ~HostEvent(a)
      BY DEF HostKey, HostEvent, Frame, NoInputFrames
    <2>4. QED
      BY <1>2, <2>1, <2>2, <2>3 DEF Host
  <1>3. CASE BootRoot \/ BootWake
    BY <1>3 DEF BootRoot, BootWake, ExitInv
  <1>4. CASE Calls \/ Progress
    <2>1. power' = power /\ power = "on" /\ UNCHANGED <<asked, event>>
      BY <1>4 DEF Calls, Progress, Calling, Working, CallLaunch, CallArm, CallDisarm,
         CallInstall, CallSleep, CallTimer, WorkerPrepareFails, WorkerEnters, WorkerStartFails,
         LaunchWritten, SleepWritten, WorkerFinishes, WorkerFails, EndJob, jobVars
    <2>2. phase' \in {phase, "idle", "launch-requested", "sleep-requested"}
      BY <1>4 DEF Calls, Progress, CallLaunch, CallArm, CallDisarm,
         CallInstall, CallSleep, CallTimer, WorkerPrepareFails, WorkerEnters, WorkerStartFails,
         LaunchWritten, SleepWritten, WorkerFinishes, WorkerFails, CancelPending, routeVars
    <2>3. QED
      BY <2>1, <2>2, ExitKept
  <1>5. QED
    BY <1>1, <1>2, <1>3, <1>4, PollExitInv DEF Next

(* Of the steps that can be taken while the old app's exit is awaited, only*)
(* PollLaunchTarget puts another app in its place.                         *)
LEMMA TakeoverStep ==
    ASSUME ExitInv, Next, phase = "exit-for-launch", current' \notin {current, NoApp}
    PROVE JobDone
  <1>1. power = "on"
    BY DEF ExitInv
  <1>2. CASE Poll
    BY <1>2 DEF Poll, PollInstall, PollReturn, PollLaunchExit, PollLaunchDirect,
       PollLaunchTarget, PollSleep, PollCheckpoint, PollArmedTimer, PollUpload, PollArm,
       PollForeground, Settled, NextStep, Polling
  <1>3. ~Host
    BY DEF Host, HostLaunch, HostTempBegin, HostTempCommit, HostKey, HostEvent, HostReset,
       UploadComplete, PowerLoss, PowerCycle, CleanRuntime, DropTemp, routeVars
  <1>4. ~BootRoot /\ ~BootWake
    BY <1>1 DEF BootRoot, BootWake
  <1>5. ~Calls /\ ~Progress
    BY DEF Calls, Progress, CallLaunch, CallArm, CallDisarm, CallInstall, CallSleep,
       CallTimer, WorkerPrepareFails, WorkerEnters, WorkerStartFails, LaunchWritten,
       SleepWritten, WorkerFinishes, WorkerFails, routeVars
  <1>6. QED
    BY <1>2, <1>3, <1>4, <1>5 DEF Next

(* A launch takes the foreground only from an app whose app.exit is over   *)
(* (sq_app_lifecycle_poll, EXIT_FOR_LAUNCH): without input frames, for any *)
(* others, temp runs and resets included.                                  *)
THEOREM ExitFirst ==
    ASSUME NoInputFrames
    PROVE Spec => ExitBeforeTakeover
  <1> DEFINE Takeover ==
        phase = "exit-for-launch" /\ current # NoApp /\ current' # NoApp /\ current' # current
            => JobDone /\ asked = "app.exit" /\ event = "app.exit"
  <1>1. Init => ExitInv
    BY DEF Init, ExitInv
  <1>2. ExitInv /\ [Next]_vars => ExitInv'
    BY ExitInvKept
  <1>3. ExitInv /\ [Next]_vars => [Takeover]_vars
    BY TakeoverStep DEF ExitInv
  <1>4. QED
    BY <1>1, <1>2, <1>3, PTL DEF Spec, ExitBeforeTakeover

-----------------------------------------------------------------------------
(* Which program a handler runs on.  A temp run replaces the reader of the *)
(* foreground app; an EVENT_DISPATCH without a foreground app runs an app  *)
(* that is not in the foreground; KEY and EVENT_DISPATCH look main up in   *)
(* the store, and an install can bring it there, while its fallback runs.  *)
ForegroundFrames ==
    /\ "temp" \notin HostFrames
    /\ "event" \in HostFrames => "reset" \notin HostFrames /\ ~StorageFaults
    /\ \/ Main \in FirstInstalled
       \/ NoInputFrames /\ "install" \notin AppCalls

Expected(r) == IF UsesFallback(r) THEN Fallback ELSE r

(* Reader and session are those of the foreground app,                     *)
VmMatches ==
    /\ current = NoApp => backend = "none" /\ storage = NoApp
    /\ backend # "none" => current # NoApp /\ Program(backend) = Expected(current)
    /\ session \in {NoApp, Expected(current)}

(* a job has a reader and, once its handler runs, a session,               *)
JobMatches ==
    /\ stage # "none" => backend # "none"
    /\ stage \notin {"none", "starting"} => session # NoApp

(* and neither main's program nor the presence of a foreground app changes *)
(* where a frame or a call relies on it.                                   *)
MainStays ==
    \/ Main \in installed
    \/ NoInputFrames /\ "install" \notin AppCalls /\ install = NoApp
ForegroundStays == "event" \in HostFrames /\ power = "on" => current # NoApp
SessionInv == VmMatches /\ JobMatches /\ MainStays /\ ForegroundStays

(* What a program is expected to be is never the empty id.                 *)
LEMMA ExpectedNow ==
    ASSUME NEW r \in Ref
    PROVE Expected(r) # NoApp /\ r # NoApp
  BY Constants, RefAssumption DEF Expected

(* A start puts reader, session and foreground app in step.                *)
LEMMA StartMatches ==
    ASSUME VmMatches, NEW r \in Ref, NEW ev, NEW sc \in BOOLEAN, sc \/ r = current,
           StartJob(r, ev, sc), UNCHANGED <<staged, installed>>
    PROVE VmMatches' /\ JobMatches' /\ current' = r
  <1>1. current' = r /\ backend' = BackendOf(r) /\ stage' = "starting"
    BY DEF StartJob, StartEvent
  <1>2. Expected(r)' = Expected(r) /\ r # NoApp
    BY ExpectedNow DEF Expected, UsesFallback
  <1>3. Program(backend)' = Expected(r)
    <2>1. CASE r.temp
      <3>1. staged' = r.app /\ r = TempRef(r.app) /\ ~UsesFallback(r)
        BY <2>1 DEF StartJob, Startable, Ref, TempRef, UsesFallback, InstalledRef
      <3>2. QED
        BY <1>1, <2>1, <3>1 DEF BackendOf, Program, Expected, TempRef
    <2>2. CASE ~r.temp /\ UsesFallback(r)
      BY <1>1, <2>2 DEF BackendOf, Program, Expected
    <2>3. CASE ~r.temp /\ ~UsesFallback(r)
      <3>1. backend' = "flash" /\ storage' = r.app /\ r = InstalledRef(r.app)
        BY <1>1, <2>3 DEF BackendOf, StartJob, Ref, InstalledRef
      <3>2. QED
        BY <2>3, <3>1 DEF Program, Expected, InstalledRef
    <2>4. QED
      BY <2>1, <2>2, <2>3
  <1>4. backend' # "none"
    BY <1>1 DEF BackendOf
  <1>5. session' \in {NoApp, Expected(r)}
    BY <1>1 DEF StartJob, Fresh, VmMatches
  <1>6. QED
    BY <1>1, <1>2, <1>3, <1>4, <1>5 DEF VmMatches, JobMatches

(* A step that leaves reader, foreground app and stored programs alone, and*)
(* the session or none, keeps them in step.                                *)
LEMMA SameMatches ==
    ASSUME VmMatches, UNCHANGED <<current, backend, storage, staged, installed>>,
           session' \in {session, NoApp}
    PROVE VmMatches'
  BY DEF VmMatches, Program, Expected, UsesFallback

(* However a start ends, when no job runs.                                 *)
LEMMA AnyStartMatches ==
    ASSUME VmMatches, stage = "none", NEW r \in Ref, NEW ev, NEW sc \in BOOLEAN,
           sc \/ r = current,
           \/ StartJob(r, ev, sc)
           \/ StartFails(r, sc)
           \/ NoStart /\ UNCHANGED <<session, storage>>,
           UNCHANGED <<staged, installed>>
    PROVE VmMatches' /\ JobMatches' /\ current' \in {current, r}
  <1>1. CASE StartJob(r, ev, sc)
    BY <1>1, StartMatches
  <1>2. CASE StartFails(r, sc) \/ (NoStart /\ UNCHANGED <<session, storage>>)
    <2>1. UNCHANGED <<current, backend, storage, stage>> /\ session' \in {session, NoApp}
      BY <1>2 DEF StartFails, NoStart, jobVars
    <2>2. QED
      BY <2>1, SameMatches DEF JobMatches
  <1>3. QED
    BY <1>1, <1>2

(* The foreground app stays, and so does main.                             *)
LEMMA StaysKept ==
    ASSUME MainStays, ForegroundStays, install' = install, installed' = installed,
           power' = power, current' = current \/ current' # NoApp
    PROVE MainStays' /\ ForegroundStays'
  BY DEF MainStays, ForegroundStays

(* The poll: a start, nothing about programs, or a planned sleep.          *)
LEMMA PollSessionInv ==
    ASSUME TypeInv, SleepInv, SessionInv, Poll
    PROVE SessionInv'
  <1>1. stage = "none" /\ power = "on"
    BY DEF Poll, PollInstall, PollReturn, PollLaunchExit, PollLaunchDirect, PollLaunchTarget,
           PollSleep, PollCheckpoint, PollArmedTimer, PollUpload, PollArm, PollForeground,
           Settled, NextStep, Polling, JobDone, SleepInv
  <1>2. /\ VmMatches /\ JobMatches /\ MainStays /\ ForegroundStays
        /\ current \in Ref \cup {NoApp} /\ target \in Ref \cup {NoApp}
    BY DEF SessionInv, TypeInv, TypeOK, RouteOK
  <1>3. ASSUME NEW r \in Ref, NEW ev, NEW sc \in BOOLEAN, sc \/ r = current,
               \/ StartJob(r, ev, sc)
               \/ StartFails(r, sc)
               \/ NoStart /\ UNCHANGED <<session, storage>>,
               UNCHANGED <<power, tempVars, install, installed>>
        PROVE SessionInv'
    <2>1. VmMatches' /\ JobMatches' /\ current' \in {current, r}
      BY <1>1, <1>2, <1>3, AnyStartMatches DEF tempVars
    <2>2. r # NoApp
      BY ExpectedNow
    <2>3. QED
      BY <1>2, <1>3, <2>1, <2>2, StaysKept DEF SessionInv
  <1>4. ASSUME UNCHANGED <<power, jobVars, current, backend, storage, session, tempVars,
                           install, installed>>
        PROVE SessionInv'
    BY <1>2, <1>4, SameMatches, StaysKept DEF SessionInv, JobMatches, jobVars, tempVars
  <1>5. CASE PollInstall
    <2>1. Main \in installed /\ Main \in installed'
      BY <1>2, <1>5 DEF PollInstall, MainStays
    <2>2. VmMatches'
      BY <1>2, <1>5, <2>1 DEF PollInstall, VmMatches, Program, Expected, UsesFallback,
         routeVars, vmVars, tempVars
    <2>3. QED
      BY <1>2, <1>5, <2>1, <2>2 DEF PollInstall, SessionInv, JobMatches, MainStays,
         ForegroundStays, jobVars, routeVars, vmVars
  <1>6. CASE PollReturn
    <2>1. Top \in Ref
      BY PopType DEF TypeInv, TypeOK
    <2>2. QED
      BY <1>3, <1>6, <2>1 DEF PollReturn, inVars
  <1>7. CASE PollLaunchExit
    BY <1>2, <1>3, <1>7 DEF PollLaunchExit, inVars
  <1>8. ASSUME NEW failed, StartTarget(failed), UNCHANGED <<power, tempVars, inVars>>
        PROVE SessionInv'
    <2>1. CASE target # NoApp
      BY <1>2, <1>3, <1>8, <2>1 DEF StartTarget, inVars
    <2>2. CASE NoStart /\ UNCHANGED <<timers, session, storage>>
      BY <1>4, <1>8, <2>2 DEF NoStart, inVars
    <2>3. QED
      BY <1>8, <2>1, <2>2 DEF StartTarget
  <1>9. CASE PollLaunchDirect
    BY <1>8, <1>9 DEF PollLaunchDirect
  <1>10. CASE PollLaunchTarget
    <2>1. CASE StartTarget(FALSE)
      BY <1>8, <1>10, <2>1 DEF PollLaunchTarget
    <2>2. CASE NoStart /\ UNCHANGED <<session, storage>>
      BY <1>4, <1>10, <2>2 DEF PollLaunchTarget, NoStart, inVars
    <2>3. QED
      BY <1>10, <2>1, <2>2 DEF PollLaunchTarget
  <1>11. CASE PollSleep
    <2>1. CASE current # NoApp
      BY <1>2, <1>3, <1>11, <2>1 DEF PollSleep, inVars
    <2>2. CASE current = NoApp
      BY <1>4, <1>11, <2>2 DEF PollSleep, NoStart, inVars
    <2>3. QED
      BY <2>1, <2>2
  <1>12. CASE PollCheckpoint
    <2>1. CASE Sleeps
      BY <2>1, <1>2 DEF Sleeps, PowerCycle, CleanRuntime, SessionInv, VmMatches, JobMatches,
         MainStays, ForegroundStays, Expected, UsesFallback
    <2>2. CASE StaysAwake
      BY <1>4, <2>2 DEF StaysAwake, vmVars, inVars
    <2>3. QED
      BY <1>12, <2>1, <2>2 DEF PollCheckpoint
  <1>13. ASSUME NEW a \in Apps, NEW ev, DueEvent(a, ev),
                UNCHANGED <<power, tempVars, install, installed>>
         PROVE SessionInv'
    <2>1. CASE Names(current, a) /\ (StartJob(current, ev, FALSE) \/ StartFails(current, FALSE))
      <3>1. current \in Ref
        BY <2>1, Constants DEF Names
      <3>2. QED
        BY <1>3, <1>13, <2>1, <3>1
    <2>2. CASE StartJob(InstalledRef(a), ev, TRUE) \/ StartFails(InstalledRef(a), TRUE)
      BY <1>3, <1>13, <2>2, Constants
    <2>3. CASE NoStart /\ UNCHANGED <<session, storage>>
      BY <1>4, <1>13, <2>3 DEF NoStart
    <2>4. QED
      BY <1>13, <2>1, <2>2, <2>3 DEF DueEvent
  <1>14. CASE (\E a \in Apps : PollArmedTimer(a)) \/ PollUpload
    <2>1. upload \in Apps \cup {NoApp}
      BY DEF TypeInv, TypeOK, QueueOK
    <2>2. QED
      BY <1>13, <1>14, <2>1 DEF PollArmedTimer, PollUpload, inVars
  <1>15. CASE PollArm
    BY <1>4, <1>15 DEF PollArm, routeVars, vmVars, inVars
  <1>16. CASE PollForeground
    <2>1. VmMatches'
      BY <1>2, <1>16, SameMatches DEF PollForeground, StartEvent, routeVars, tempVars, inVars
    <2>2. JobMatches'
      BY <1>16 DEF PollForeground, StartEvent, JobMatches
    <2>3. QED
      BY <1>2, <1>16, <2>1, <2>2, StaysKept DEF SessionInv, PollForeground, routeVars, inVars
  <1>17. QED
    BY <1>5, <1>6, <1>7, <1>9, <1>10, <1>11, <1>12, <1>14, <1>15, <1>16 DEF Poll

(* The frames: KEY and EVENT_DISPATCH go to the foreground app.            *)
LEMMA HostSessionInv ==
    ASSUME ForegroundFrames, TypeInv, SessionInv, Host
    PROVE SessionInv'
  <1>1. VmMatches /\ JobMatches /\ MainStays /\ ForegroundStays
    BY DEF SessionInv
  <1>2. ASSUME UNCHANGED <<power, jobVars, current, backend, storage, session, tempVars,
                           install, installed>>
        PROVE SessionInv'
    BY <1>1, <1>2, SameMatches, StaysKept DEF SessionInv, JobMatches, jobVars, tempVars
  <1>3. CASE \E a \in Apps : HostLaunch(a) \/ UploadComplete(a)
    BY <1>2, <1>3 DEF HostLaunch, UploadComplete, routeVars, vmVars, inVars
  <1>4. CASE PowerLoss
    BY <1>1, <1>4 DEF PowerLoss, PowerCycle, CleanRuntime, SessionInv, VmMatches, JobMatches,
       MainStays, ForegroundStays, Expected, UsesFallback
  <1>5. CASE HostReset
    BY <1>1, <1>5 DEF HostReset, Frame, ForegroundFrames, CleanRuntime, SessionInv, VmMatches,
       JobMatches, MainStays, ForegroundStays, inVars
  <1>6. ASSUME NEW a \in Apps, current = InstalledRef(a), Main \in installed,
               UNCHANGED <<current, staged, installed, session>>,
               storage' = a, backend' \in {backend, "flash"}
        PROVE VmMatches'
    <2>1. Expected(current) = current /\ current # NoApp
      BY <1>6, Constants DEF Expected, UsesFallback
    <2>2. Expected(current)' = Expected(current)
      BY <1>6 DEF Expected, UsesFallback
    <2>3. Program("flash")' = current
      BY <1>6 DEF Program, InstalledRef
    <2>4. backend' # "none" => Program(backend)' = Expected(current)
      <3>1. CASE backend' = "flash"
        BY <2>1, <2>3, <3>1
      <3>2. CASE backend' # "flash"
        <4>1. backend' = backend /\ backend \in {"none", "temp", "fallback"}
          BY <1>6, <3>2 DEF TypeInv, TypeOK, VmOK
        <4>2. Program(backend)' = Program(backend)
          BY <1>6, <4>1 DEF Program
        <4>3. QED
          BY <1>1, <1>6, <2>2, <4>1, <4>2 DEF VmMatches
      <3>3. QED
        BY <3>1, <3>2
    <2>5. QED
      BY <1>1, <1>6, <2>1, <2>2, <2>4 DEF VmMatches
  <1>7. CASE HostKey
    <2>1. "key" \in HostFrames /\ UNCHANGED <<power, current, session, staged, installed, install>>
      BY <1>7 DEF HostKey, Frame, routeVars, tempVars, inVars
    <2>2. Main \in installed
      BY <1>1, <2>1 DEF MainStays, NoInputFrames
    <2>3. backend' \in {backend, "flash"} /\ JobMatches'
      BY <1>1, <1>7, <2>1 DEF HostKey, StartEvent, JobMatches
    <2>4. VmMatches'
      <3>1. CASE current # NoApp /\ ~current.temp
        <4>1. current.app \in Apps /\ current = InstalledRef(current.app)
          BY <3>1 DEF TypeInv, TypeOK, RouteOK, Ref, InstalledRef
        <4>2. storage' = current.app
          BY <1>7, <3>1 DEF HostKey
        <4>3. QED
          BY <1>6, <2>1, <2>2, <2>3, <4>1, <4>2
      <3>2. CASE current # NoApp /\ current.temp
        <4>1. UNCHANGED <<storage, backend>>
          BY <1>7, <3>2 DEF HostKey, StartEvent
        <4>2. QED
          BY <1>1, <2>1, <4>1, SameMatches
      <3>3. CASE current = NoApp
        <4>1. UNCHANGED <<storage, backend>>
          BY <1>1, <1>7, <3>3 DEF HostKey, VmMatches
        <4>2. QED
          BY <1>1, <2>1, <4>1, SameMatches
      <3>4. QED
        BY <3>1, <3>2, <3>3
    <2>5. QED
      BY <1>1, <2>1, <2>3, <2>4, StaysKept DEF SessionInv
  <1>8. CASE \E a \in Apps : HostEvent(a)
    <2>1. PICK a \in Apps : HostEvent(a)
      BY <1>8
    <2>2. /\ "event" \in HostFrames /\ power = "on"
          /\ UNCHANGED <<power, current, staged, installed, install>>
      BY <2>1 DEF HostEvent, Frame, routeVars, tempVars, inVars
    <2>3. Main \in installed /\ current # NoApp
      BY <1>1, <2>2 DEF MainStays, NoInputFrames, ForegroundStays
    <2>4. session' = session /\ backend' \in {backend, "flash"}
      BY <2>1, <2>3 DEF HostEvent, StartEvent
    <2>5. JobMatches'
      BY <1>1, <2>1, <2>4 DEF HostEvent, StartEvent, JobMatches, jobVars
    <2>6. VmMatches'
      <3>1. CASE UNCHANGED <<storage, backend>>
        BY <1>1, <2>2, <2>4, <3>1, SameMatches
      <3>2. CASE ~current.temp /\ storage' = a
        <4>1. current = InstalledRef(a)
          BY <2>1, <2>3, <3>2 DEF HostEvent, Names, TempRef
        <4>2. QED
          BY <1>6, <2>2, <2>3, <2>4, <3>2, <4>1
      <3>3. QED
        BY <2>1, <2>3, <3>1, <3>2 DEF HostEvent, StartEvent
    <2>7. QED
      BY <1>1, <2>2, <2>5, <2>6, StaysKept DEF SessionInv
  <1>9. ~HostTempCommit /\ \A a \in Apps : ~HostTempBegin(a)
    BY DEF HostTempCommit, HostTempBegin, Frame, ForegroundFrames
  <1>10. QED
    BY <1>3, <1>4, <1>5, <1>7, <1>8, <1>9 DEF Host

(* A boot starts main or the recorded app; the worker loads the program of *)
(* the reader it has.                                                      *)
LEMMA BootSessionInv ==
    ASSUME ForegroundFrames, TypeInv, SessionInv, BootRoot \/ BootWake
    PROVE SessionInv'
  <1>1. VmMatches /\ JobMatches /\ MainStays
    BY DEF SessionInv
  <1>2. /\ UNCHANGED <<staged, installed, install>>
        /\ power' = "on"
    BY DEF BootRoot, BootWake, tempVars, inVars
  <1>3. MainStays'
    BY <1>1, <1>2 DEF MainStays
  <1>4. ASSUME NEW r \in Ref, StartJob(r, "app.start", TRUE) PROVE SessionInv'
    <2>1. VmMatches' /\ JobMatches' /\ current' = r
      BY <1>1, <1>2, <1>4, StartMatches
    <2>2. QED
      BY <1>3, <2>1, ExpectedNow DEF SessionInv, ForegroundStays
  <1>5. CASE StorageFaults /\ NoStart /\ UNCHANGED <<storage, session>>
    <2>1. VmMatches' /\ JobMatches'
      BY <1>1, <1>2, <1>5, SameMatches DEF NoStart, jobVars, JobMatches
    <2>2. QED
      BY <1>3, <1>5, <2>1 DEF SessionInv, ForegroundStays, ForegroundFrames
  <1>6. CASE BootRoot
    BY <1>4, <1>5, <1>6, Constants DEF BootRoot
  <1>7. CASE BootWake
    <2>1. InstalledRef(resume.app) \in Ref
      BY <1>7, Constants DEF BootWake, TypeInv, HeldOK, Resume
    <2>2. QED
      BY <1>4, <1>7, <2>1, Constants DEF BootWake
  <1>8. QED
    BY <1>6, <1>7

(* The worker.                                                             *)
LEMMA WorkerSessionInv ==
    ASSUME TypeInv, SessionInv, Calls \/ Progress
    PROVE SessionInv'
  <1>1. VmMatches /\ JobMatches /\ MainStays /\ ForegroundStays
    BY DEF SessionInv
  <1>2. UNCHANGED <<power, current, backend, storage, staged, installed>>
    BY DEF Calls, Progress, CallLaunch, CallArm, CallDisarm, CallInstall, CallSleep,
       CallTimer, WorkerPrepareFails, WorkerEnters, WorkerStartFails, LaunchWritten,
       SleepWritten, WorkerFinishes, WorkerFails, routeVars, vmVars, tempVars, inVars
  <1>3. MainStays' /\ ForegroundStays'
    BY <1>1, <1>2 DEF MainStays, ForegroundStays, Calls, Progress, Calling, CallLaunch, CallArm,
       CallDisarm, CallInstall, CallSleep, CallTimer, WorkerPrepareFails, WorkerEnters,
       WorkerStartFails, LaunchWritten, SleepWritten, WorkerFinishes, WorkerFails, inVars
  <1>4. CASE WorkerEnters \/ WorkerStartFails
    <2>1. stage = "starting" /\ stage' \in {"none", "handler"}
      BY <1>4 DEF WorkerEnters, WorkerStartFails, Working, EndJob
    <2>2. backend # "none" /\ current \in Ref
      BY <1>1, <2>1 DEF JobMatches, VmMatches, TypeInv, TypeOK, RouteOK
    <2>3. Loaded = Expected(current)
      BY <1>1, <2>2 DEF VmMatches, Loaded
    <2>4. session' \in {NoApp, Expected(current)}
      BY <1>1, <1>4, <2>3 DEF WorkerEnters, WorkerStartFails, VmMatches
    <2>5. VmMatches'
      BY <1>1, <1>2, <2>4 DEF VmMatches, Program, Expected, UsesFallback
    <2>6. JobMatches'
      BY <1>2, <1>4, <2>1, <2>2, <2>3, ExpectedNow DEF JobMatches, WorkerEnters,
         WorkerStartFails, EndJob
    <2>7. QED
      BY <1>3, <2>5, <2>6 DEF SessionInv
  <1>5. CASE ~WorkerEnters /\ ~WorkerStartFails
    <2>1. session' = session
      BY <1>5 DEF Calls, Progress, CallLaunch, CallArm, CallDisarm, CallInstall, CallSleep,
         CallTimer, WorkerPrepareFails, LaunchWritten, SleepWritten, WorkerFinishes,
         WorkerFails, vmVars
    <2>2. stage # "none" /\ (stage' \notin {"none", "starting"} => stage # "starting")
      BY <1>5 DEF Calls, Progress, Calling, Working, CallLaunch, CallArm, CallDisarm,
         CallInstall, CallSleep, CallTimer, WorkerPrepareFails, LaunchWritten, SleepWritten,
         WorkerFinishes, WorkerFails, EndJob, Refused, jobVars
    <2>3. VmMatches' /\ JobMatches'
      BY <1>1, <1>2, <2>1, <2>2, SameMatches DEF JobMatches
    <2>4. QED
      BY <1>3, <2>3 DEF SessionInv
  <1>6. QED
    BY <1>4, <1>5

(* A handler runs on the foreground app's own program, through a reader    *)
(* for it: launches, returns, installs, uploads, failures of storage and   *)
(* sleep do not separate the three (start_resolved_app, runtime_run_job).  *)
THEOREM SessionsInForeground ==
    ASSUME ForegroundFrames
    PROVE Spec => []SessionIsForeground
  <1>1. Init => SessionInv
    <2>1. Expected(NoApp) = NoApp
      BY Constants DEF Expected, UsesFallback
    <2>2. QED
      BY <2>1 DEF Init, ForegroundFrames, SessionInv, VmMatches, JobMatches, MainStays,
         ForegroundStays
  <1>2. TypeInv /\ SleepInv /\ SessionInv /\ [Next]_vars => SessionInv'
    <2> SUFFICES ASSUME TypeInv, SleepInv, SessionInv, [Next]_vars PROVE SessionInv'
      OBVIOUS
    <2>1. CASE UNCHANGED vars
      BY <2>1 DEF vars, jobVars, routeVars, vmVars, tempVars, inVars, SessionInv, VmMatches,
         JobMatches, MainStays, ForegroundStays, Program, Expected, UsesFallback
    <2>2. CASE Next
      BY <2>2, PollSessionInv, HostSessionInv, BootSessionInv, WorkerSessionInv DEF Next
    <2>3. QED
      BY <2>1, <2>2
  <1>3. SessionInv => SessionIsForeground
    BY DEF SessionInv, VmMatches, JobMatches, SessionIsForeground, Expected
  <1>4. QED
    BY <1>1, <1>2, <1>3, TypeInvariant, SleepInvariant, PTL DEF Spec

-----------------------------------------------------------------------------
(* The navigation of AppRouting.  A start that fails, for storage or for   *)
(* an id that is no path, loses the entry it took from the stack or leaves *)
(* the one it pushed; TEMP_RUN_BEGIN takes entries out of the middle; a    *)
(* host's launch can come between a handler's busy check and its write.    *)
RoutingFrames ==
    /\ ~StorageFaults /\ SafeApps = Apps
    /\ "temp" \notin HostFrames
    /\ "launch" \in HostFrames => AppCalls \cap {"launch", "sleep"} = {}

(* Without temp runs every reference is to an installed app;               *)
NoTempRefs ==
    /\ current = NoApp \/ ~current.temp
    /\ target = NoApp \/ ~target.temp
    /\ \A i \in DOMAIN stack : ~stack[i].temp

(* a launch is pending as long as there is a target, and a handler that    *)
(* found none pending still finds none when it writes: either handlers or  *)
(* the host write;                                                         *)
PendingTarget ==
    /\ phase \in {"launch-requested", "exit-for-launch"} <=> target # NoApp
    /\ phase = "exit-for-launch" => current # NoApp
    /\ stage \in {"launching", "sleeping"} =>
          phase = "idle" /\ AppCalls \cap {"launch", "sleep"} # {}

(* a device that is off has no route in memory.                            *)
NoRouteOff == power # "on" => current = NoApp /\ stack = <<>> /\ target = NoApp
RouteInv == NoTempRefs /\ PendingTarget /\ NoRouteOff

AppsOf(s) == [i \in DOMAIN s |-> s[i].app]

(* A reference stands for an app.                                          *)
LEMMA AppOfRef ==
    /\ \A r \in Ref : AppOf(r) = r.app /\ AppOf(r) \in Apps /\ AppOf(r) # NoApp
    /\ AppOf(NoApp) = NoApp
    /\ \A r \in Ref : ~r.temp => r = InstalledRef(r.app)
    /\ \A a \in Apps : AppOf(InstalledRef(a)) = a
  <1>1. \A r \in Ref : r.app \in Apps /\ r # NoApp /\ (~r.temp => r = InstalledRef(r.app))
    BY Constants DEF Ref, InstalledRef
  <1>2. \A a \in Apps : InstalledRef(a).app = a /\ InstalledRef(a) # NoApp
    BY Constants DEF InstalledRef
  <1>3. QED
    BY <1>1, <1>2, Constants DEF AppOf

(* The stack of apps is as long as the stack of references,                *)
LEMMA AppsOfType ==
    ASSUME NEW s \in Seq(Ref)
    PROVE /\ AppsOf(s) \in Seq(Apps) /\ Len(AppsOf(s)) = Len(s)
          /\ \A i \in 1..Len(s) : AppsOf(s)[i] = s[i].app
  <1>1. DOMAIN s = 1..Len(s) /\ Len(s) \in Nat /\ \A i \in 1..Len(s) : s[i] \in Ref
    OBVIOUS
  <1>2. \A i \in 1..Len(s) : s[i].app \in Apps
    BY <1>1 DEF Ref
  <1>3. QED
    BY <1>1, <1>2 DEF AppsOf

(* a push pushes the app, or nothing for the empty id,                     *)
LEMMA AppsOfPush ==
    ASSUME RouteOK, NEW r \in Ref \cup {NoApp}, CanPush(r)
    PROVE /\ AppsOf(Pushed(r)) = AppsOf(stack) \o Routing!Entry(AppOf(r))
          /\ Len(AppsOf(Pushed(r))) <= ReturnStackMax
  <1>1. stack \in Seq(Ref) /\ Pushed(r) \in Seq(Ref) /\ Len(Pushed(r)) <= ReturnStackMax
    BY PushType DEF RouteOK, Bounded
  <1>2. Len(AppsOf(Pushed(r))) <= ReturnStackMax
    BY <1>1, AppsOfType
  <1>3. CASE r = NoApp
    <2>1. Pushed(r) = stack /\ Routing!Entry(AppOf(r)) = << >>
      BY <1>3, AppOfRef DEF Pushed, Routing!Entry
    <2>2. AppsOf(stack) \in Seq(Apps)
      BY <1>1, AppsOfType
    <2>3. QED
      BY <1>2, <2>1, <2>2
  <1>4. CASE r \in Ref
    <2> DEFINE n == Len(stack)
               s == Append(stack, r)
               q == AppsOf(stack) \o <<r.app>>
    <2>1. Pushed(r) = s /\ Routing!Entry(AppOf(r)) = <<r.app>>
      BY <1>4, AppOfRef, Constants DEF Pushed, Routing!Entry
    <2>2. n \in Nat /\ Len(s) = n + 1 /\ s \in Seq(Ref)
      BY <1>1, <1>4
    <2>3. s[n + 1] = r /\ \A i \in 1..n : s[i] = stack[i]
      BY <1>1, <1>4
    <2>4. AppsOf(s) \in Seq(Apps) /\ Len(AppsOf(s)) = n + 1
      BY <2>2, AppsOfType
    <2>5. \A i \in 1..(n + 1) : AppsOf(s)[i] = s[i].app
      BY <2>2, AppsOfType
    <2>6. /\ AppsOf(stack) \in Seq(Apps) /\ Len(AppsOf(stack)) = n /\ r.app \in Apps
          /\ \A i \in 1..n : AppsOf(stack)[i] = stack[i].app
      BY <1>1, <1>4, AppsOfType DEF Ref
    <2>7. q \in Seq(Apps) /\ Len(q) = n + 1 /\ q[n + 1] = r.app
          /\ \A i \in 1..n : q[i] = AppsOf(stack)[i]
      BY <2>2, <2>6
    <2>8. \A i \in 1..(n + 1) : AppsOf(s)[i] = q[i]
      BY <2>2, <2>3, <2>5, <2>6, <2>7
    <2>9. AppsOf(s) = q
      <3> HIDE DEF s, q, n
      <3>1. QED
        BY <2>2, <2>4, <2>7, <2>8
    <2>10. QED
      BY <1>2, <2>1, <2>9
  <1>5. QED
    BY <1>3, <1>4

(* and a pop leads to its last app.                                        *)
LEMMA AppsOfPop ==
    ASSUME RouteOK
    PROVE /\ stack = <<>> => AppOf(Top) = Main /\ Popped = stack /\ AppsOf(stack) = <<>>
          /\ stack # <<>> =>
                /\ AppsOf(stack) # <<>> /\ AppOf(Top) = AppsOf(stack)[Len(AppsOf(stack))]
                /\ AppsOf(Popped) = SubSeq(AppsOf(stack), 1, Len(AppsOf(stack)) - 1)
  <1>1. stack \in Seq(Ref)
    BY DEF RouteOK, Bounded
  <1>2. CASE stack = <<>>
    BY <1>2, AppOfRef, Constants DEF Top, Popped, AppsOf
  <1>3. CASE stack # <<>>
    <2> DEFINE n == Len(stack) - 1
               s == SubSeq(stack, 1, n)
               q == SubSeq(AppsOf(stack), 1, n)
    <2>1. n \in Nat /\ Len(stack) = n + 1 /\ stack[n + 1] \in Ref
      BY <1>1, <1>3
    <2>2. s \in Seq(Ref) /\ Len(s) = n /\ \A i \in 1..n : s[i] = stack[i]
      BY <1>1, <2>1
    <2>3. /\ AppsOf(stack) \in Seq(Apps) /\ Len(AppsOf(stack)) = n + 1
          /\ \A i \in 1..(n + 1) : AppsOf(stack)[i] = stack[i].app
      BY <1>1, <2>1, AppsOfType
    <2>4. /\ AppsOf(s) \in Seq(Apps) /\ Len(AppsOf(s)) = n
          /\ \A i \in 1..n : AppsOf(s)[i] = s[i].app
      BY <2>2, AppsOfType
    <2>5. q \in Seq(Apps) /\ Len(q) = n /\ \A i \in 1..n : q[i] = AppsOf(stack)[i]
      BY <2>1, <2>3
    <2>6. \A i \in 1..n : AppsOf(s)[i] = q[i]
      BY <2>1, <2>2, <2>3, <2>4, <2>5
    <2>7. AppsOf(s) = q
      <3> HIDE DEF s, q, n
      <3>1. QED
        BY <2>1, <2>4, <2>5, <2>6
    <2>8. Popped = s /\ Top = stack[n + 1]
      BY <1>3, <2>1 DEF Popped, Top
    <2>9. AppOf(Top) = AppsOf(stack)[n + 1] /\ AppsOf(stack) # <<>>
      BY <2>1, <2>3, <2>8, AppOfRef
    <2>10. QED
      BY <1>3, <2>1, <2>3, <2>7, <2>8, <2>9
  <1>4. QED
    BY <1>2, <1>3

-----------------------------------------------------------------------------
(* One step of the navigation, or none.                                    *)
RouteStep == Routing!Next \/ UNCHANGED Routing!route

(* While the device is on, and stays on, the route is what is in memory.   *)
LEMMA RouteInMemory ==
    ASSUME power # "wake", power' # "wake"
    PROVE /\ RoutedForeground = AppOf(current) /\ RoutedForeground' = AppOf(current')
          /\ RoutedStack = AppsOf(stack) /\ RoutedStack' = AppsOf(stack')
          /\ AppOf(target)' = AppOf(target')
  BY DEF RoutedForeground, RoutedStack, AppsOf, AppOf

(* A step that leaves foreground, stack and target alone is none.          *)
LEMMA RouteKept ==
    ASSUME power # "wake", power' # "wake", UNCHANGED <<current, stack, target>>
    PROVE UNCHANGED Routing!route
  BY RouteInMemory DEF Routing!route

(* With storage that does not fail and ids that are paths, an installed    *)
(* app starts.                                                             *)
LEMMA InstalledStarts ==
    ASSUME RoutingFrames, NEW r \in Ref, ~r.temp, NEW sc
    PROVE ~StartFails(r, sc)
  BY DEF RoutingFrames, StartFails, Startable, Ref

(* Giving a launch up is Drop,                                             *)
LEMMA DropStep ==
    ASSUME power = "on", power' = "on", target \in Ref, target' = NoApp,
           UNCHANGED <<current, stack>>
    PROVE Routing!Next
  <1>1. Routing!Drop
    BY RouteInMemory, AppOfRef DEF Routing!Drop
  <1>2. QED
    BY <1>1 DEF Routing!Next

(* its target's start is Serve: the old app, or main when there is none    *)
(* and the target is not main, goes on the stack;                          *)
LEMMA ServeStep ==
    ASSUME TypeInv, power = "on", power' = "on", target \in Ref, target' = NoApp,
           current' = target,
           NEW r \in Ref \cup {NoApp}, CanPush(r), stack' = Pushed(r),
           IF current # NoApp THEN r = current
                              ELSE r = IF AppOf(target) = Main THEN NoApp ELSE InstalledRef(Main)
    PROVE Routing!Next
  <1>1. RouteOK
    BY DEF TypeInv, TypeOK
  <1>2. /\ AppsOf(stack') = AppsOf(stack) \o Routing!Entry(AppOf(r))
        /\ Len(AppsOf(stack')) <= ReturnStackMax
    BY <1>1, AppsOfPush
  <1>3. Routing!Push(AppOf(r))
    BY <1>2, RouteInMemory DEF Routing!Push
  <1>4. CASE current # NoApp
    <2>1. current \in Ref /\ r = current
      BY <1>1, <1>4 DEF RouteOK
    <2>2. Routing!Serve
      BY <1>3, <2>1, RouteInMemory, AppOfRef DEF Routing!Serve
    <2>3. QED
      BY <2>2 DEF Routing!Next
  <1>5. CASE current = NoApp
    <2>1. AppOf(r) = IF AppOf(target) = Main THEN NoApp ELSE Main
      BY <1>5, AppOfRef, Constants
    <2>2. Routing!Serve
      BY <1>3, <1>5, <2>1, RouteInMemory, AppOfRef DEF Routing!Serve
    <2>3. QED
      BY <2>2 DEF Routing!Next
  <1>6. QED
    BY <1>4, <1>5

(* the app an exit leads to is Return,                                     *)
LEMMA ReturnStep ==
    ASSUME TypeInv, power = "on", power' = "on", target = NoApp, target' = NoApp,
           current' = Top, stack' = Popped
    PROVE Routing!Next
  <1>1. RouteOK
    BY DEF TypeInv, TypeOK
  <1>2. Routing!Return
    BY <1>1, AppsOfPop, RouteInMemory, AppOfRef DEF Routing!Return
  <1>3. QED
    BY <1>2 DEF Routing!Next

(* and a due event of another app is Interrupt.                            *)
LEMMA InterruptStep ==
    ASSUME TypeInv, power = "on", power' = "on", target = NoApp, target' = NoApp,
           NoTempRefs, NEW a \in Apps, ~Names(current, a), current' = InstalledRef(a),
           CanPush(current), stack' = Pushed(current)
    PROVE Routing!Next
  <1>1. RouteOK /\ current \in Ref \cup {NoApp}
    BY DEF TypeInv, TypeOK, RouteOK
  <1>2. AppOf(current) # a
    BY <1>1, AppOfRef, Constants DEF NoTempRefs, Names
  <1>3. Routing!Interrupt(a)
    BY <1>1, <1>2, AppsOfPush, RouteInMemory, AppOfRef DEF Routing!Interrupt, Routing!Push
  <1>4. QED
    BY <1>3 DEF Routing!Next

-----------------------------------------------------------------------------
(* Each branch of the poll is one of these, or none of them.               *)
LEMMA PollRouting ==
    ASSUME RoutingFrames, TypeInv, SleepInv, RouteInv, Poll
    PROVE RouteInv' /\ RouteStep
  <1>1. stage = "none" /\ power = "on"
    BY DEF Poll, PollInstall, PollReturn, PollLaunchExit, PollLaunchDirect, PollLaunchTarget,
           PollSleep, PollCheckpoint, PollArmedTimer, PollUpload, PollArm, PollForeground,
           Settled, NextStep, Polling, JobDone, SleepInv
  <1>2. /\ NoTempRefs /\ PendingTarget /\ RouteOK
        /\ current \in Ref \cup {NoApp} /\ target \in Ref \cup {NoApp}
    BY DEF RouteInv, TypeInv, TypeOK, RouteOK
  <1>3. ASSUME NEW r \in Ref, ~r.temp, NEW sc, StartFails(r, sc) PROVE FALSE
    BY <1>3, InstalledStarts
  <1>4. ASSUME power' = "on", UNCHANGED <<current, stack, target>>, Begun,
               phase' = phase \/ (target = NoApp /\ phase' = "sleep-checkpoint")
                 \/ (target = NoApp /\ phase' = "idle")
                 \/ (phase = "launch-requested" /\ phase' = "exit-for-launch" /\ current # NoApp)
        PROVE RouteInv' /\ RouteStep
    <2>1. RouteInv'
      BY <1>1, <1>2, <1>4 DEF RouteInv, NoTempRefs, PendingTarget, NoRouteOff, Begun
    <2>2. QED
      BY <1>1, <1>4, <2>1, RouteKept DEF RouteStep
  <1>5. ASSUME power' = "on", target' = NoApp, phase' = "idle", Begun, NoTempRefs'
        PROVE RouteInv'
    BY <1>1, <1>5 DEF RouteInv, PendingTarget, NoRouteOff, Begun
  <1>6. ASSUME NEW r \in Ref \cup {NoApp}, r = NoApp \/ ~r.temp
        PROVE \A i \in DOMAIN Pushed(r) : ~Pushed(r)[i].temp
    <2>1. \A i \in DOMAIN Pushed(r) :
             (r # NoApp /\ Pushed(r)[i] = r) \/ \E j \in DOMAIN stack : Pushed(r)[i] = stack[j]
      <3>1. CASE r = NoApp
        BY <3>1 DEF Pushed
      <3>2. CASE r # NoApp
        BY <1>2, <3>2, PushRoutes
      <3>3. QED
        BY <3>1, <3>2
    <2>2. QED
      BY <1>2, <1>6, <2>1 DEF NoTempRefs
  <1>7. CASE PollInstall
    BY <1>1, <1>4, <1>7 DEF PollInstall, jobVars, routeVars, Begun
  <1>8. CASE PollReturn
    <2>1. Top \in Ref /\ ~Top.temp
      BY <1>2, PopType, PopRoutes DEF NoTempRefs, InstalledRef
    <2>2. StartJob(Top, "app.start", TRUE)
      BY <1>3, <1>8, <2>1 DEF PollReturn
    <2>3. current' = Top /\ stack' = Popped /\ target = NoApp /\ target' = NoApp
          /\ phase' = "idle" /\ power' = "on" /\ Begun
      BY <1>1, <1>2, <1>8, <2>2, StartStage DEF PollReturn, StartJob, PendingTarget
    <2>4. NoTempRefs'
      BY <1>2, <2>1, <2>3, PopRoutes DEF NoTempRefs
    <2>5. QED
      BY <1>1, <1>5, <2>3, <2>4, ReturnStep DEF RouteStep
  <1>9. CASE PollLaunchExit
    <2>1. StartJob(current, "app.exit", FALSE) /\ phase' = "exit-for-launch" /\ target' = target
      BY <1>2, <1>3, <1>9 DEF PollLaunchExit, NoTempRefs
    <2>2. current' = current /\ Begun
      BY <2>1, StartStage DEF StartJob
    <2>3. QED
      BY <1>1, <1>4, <1>9, <2>1, <2>2 DEF PollLaunchExit
  <1>10. ASSUME NEW failed, StartTarget(failed), target # NoApp
         PROVE current' = target /\ target' = NoApp /\ phase' = "idle" /\ Begun
    <2>1. StartJob(target, "app.start", TRUE)
      BY <1>2, <1>3, <1>10 DEF StartTarget, NoTempRefs
    <2>2. QED
      BY <1>10, <2>1, StartStage DEF StartTarget, StartJob
  <1>11. ASSUME NEW r \in Ref \cup {NoApp}, NEW failed, CanPush(r), stack' = Pushed(r),
                r = NoApp \/ ~r.temp, StartTarget(failed), power' = "on", target # NoApp,
                IF current # NoApp THEN r = current
                                   ELSE r = IF AppOf(target) = Main THEN NoApp ELSE InstalledRef(Main)
         PROVE RouteInv' /\ RouteStep
    <2>1. current' = target /\ target' = NoApp /\ phase' = "idle" /\ Begun
      BY <1>10, <1>11
    <2>2. NoTempRefs'
      BY <1>2, <1>6, <1>11, <2>1 DEF NoTempRefs
    <2>3. Routing!Next
      BY <1>1, <1>2, <1>11, <2>1, ServeStep
    <2>4. QED
      BY <1>5, <1>11, <2>1, <2>2, <2>3 DEF RouteStep
  <1>12. CASE PollLaunchDirect
    <2>1. target # NoApp /\ current = NoApp /\ StartTarget(exited) /\ power' = "on"
      BY <1>1, <1>2, <1>12 DEF PollLaunchDirect, PendingTarget
    <2>2. CASE Names(target, Main) /\ UNCHANGED stack
      <3>1. AppOf(target) = Main
        BY <1>2, <2>1, <2>2, AppOfRef DEF Names, InstalledRef, TempRef
      <3>2. CanPush(NoApp) /\ stack' = Pushed(NoApp)
        BY <2>2 DEF CanPush, Pushed
      <3>3. QED
        BY <1>11, <2>1, <3>1, <3>2
    <2>3. CASE ~Names(target, Main) /\ ~Full /\ stack' = Append(stack, InstalledRef(Main))
      <3>1. AppOf(target) # Main
        BY <1>2, <2>1, <2>3, AppOfRef DEF Names, NoTempRefs
      <3>2. InstalledRef(Main) \in Ref /\ ~InstalledRef(Main).temp
        BY Constants DEF InstalledRef
      <3>3. CanPush(InstalledRef(Main)) /\ stack' = Pushed(InstalledRef(Main))
        BY <2>3, <3>2, Constants DEF CanPush, Pushed
      <3>4. QED
        BY <1>11, <2>1, <3>1, <3>2, <3>3
    <2>4. QED
      BY <1>12, <2>2, <2>3 DEF PollLaunchDirect
  <1>13. CASE PollLaunchTarget
    <2>1. target # NoApp /\ current # NoApp /\ power' = "on"
      BY <1>1, <1>2, <1>13 DEF PollLaunchTarget, PendingTarget
    <2>2. CASE CanPush(current) /\ stack' = Pushed(current) /\ StartTarget(FALSE)
      BY <1>2, <1>11, <2>1, <2>2 DEF NoTempRefs
    <2>3. CASE DropLaunch /\ NoStart /\ UNCHANGED stack
      <3>1. target' = NoApp /\ phase' = "idle" /\ UNCHANGED <<current, stack>> /\ Begun
        BY <2>3, StartStage DEF DropLaunch, NoStart, jobVars, Begun
      <3>2. NoTempRefs'
        BY <1>2, <3>1 DEF NoTempRefs
      <3>3. QED
        BY <1>1, <1>2, <1>5, <2>1, <3>1, <3>2, DropStep DEF RouteStep
    <2>4. QED
      BY <1>13, <2>2, <2>3 DEF PollLaunchTarget
  <1>14. CASE PollSleep
    <2>1. phase' = "sleep-checkpoint" /\ UNCHANGED <<current, target>> /\ Begun
      <3>1. CASE current # NoApp
        <4>1. StartJob(current, "power.sleep", FALSE)
              /\ phase' = "sleep-checkpoint" /\ UNCHANGED target
          BY <1>2, <1>3, <1>14, <3>1 DEF PollSleep, NoTempRefs
        <4>2. QED
          BY <4>1, StartStage DEF StartJob
      <3>2. CASE current = NoApp
        BY <1>14, <3>2 DEF PollSleep, NoStart, jobVars, Begun
      <3>3. QED
        BY <3>1, <3>2
    <2>2. target = NoApp /\ UNCHANGED stack /\ power' = "on"
      BY <1>1, <1>2, <1>14 DEF PollSleep, PendingTarget
    <2>3. QED
      BY <1>4, <2>1, <2>2
  <1>15. CASE PollCheckpoint
    <2>1. target = NoApp
      BY <1>2, <1>15 DEF PollCheckpoint, PendingTarget
    <2>2. CASE Sleeps
      <3>1. /\ power' = "wake" /\ target' = NoApp /\ current # NoApp
            /\ current' = NoApp /\ stack' = <<>> /\ phase' = "idle" /\ stage' = "none"
            /\ resume' = ResumeRecord
        BY <2>2 DEF Sleeps, PowerCycle, CleanRuntime
      <3>2. RouteInv'
        BY <3>1 DEF RouteInv, NoTempRefs, PendingTarget, NoRouteOff
      <3>3. RoutedForeground' = RoutedForeground /\ RoutedStack' = RoutedStack
        BY <1>1, <3>1 DEF RoutedForeground, RoutedStack, ResumeRecord, AppOf
      <3>4. AppOf(target)' = AppOf(target)
        BY <2>1, <3>1 DEF AppOf
      <3>5. QED
        BY <3>2, <3>3, <3>4 DEF RouteStep, Routing!route
    <2>3. CASE StaysAwake
      BY <1>1, <1>4, <2>1, <2>3 DEF StaysAwake, jobVars, Begun
    <2>4. QED
      BY <1>15, <2>2, <2>3 DEF PollCheckpoint
  <1>16. ASSUME NEW a \in Apps, NEW ev, DueEvent(a, ev), Settled, UNCHANGED <<power, phase, target>>
         PROVE RouteInv' /\ RouteStep
    <2>1. target = NoApp /\ power' = "on" /\ target' = NoApp /\ phase' = "idle"
      BY <1>1, <1>2, <1>16 DEF Settled, PendingTarget
    <2>2. CASE /\ Names(current, a) /\ UNCHANGED stack
               /\ StartJob(current, ev, FALSE) \/ StartFails(current, FALSE)
      <3>1. current \in Ref /\ ~current.temp
        BY <1>2, <2>2, Constants DEF Names, NoTempRefs
      <3>2. StartJob(current, ev, FALSE)
        BY <1>3, <2>2, <3>1
      <3>3. current' = current /\ Begun
        BY <3>2, StartStage DEF StartJob
      <3>4. QED
        BY <1>4, <1>16, <2>1, <2>2, <3>3
    <2>3. CASE /\ ~Names(current, a) /\ CanPush(current) /\ stack' = Pushed(current)
               /\ StartJob(InstalledRef(a), ev, TRUE) \/ StartFails(InstalledRef(a), TRUE)
      <3>1. InstalledRef(a) \in Ref /\ ~InstalledRef(a).temp
        BY Constants DEF InstalledRef
      <3>2. StartJob(InstalledRef(a), ev, TRUE)
        BY <1>3, <2>3, <3>1
      <3>3. current' = InstalledRef(a) /\ Begun
        BY <3>2, StartStage DEF StartJob
      <3>4. NoTempRefs'
        BY <1>2, <1>6, <2>1, <2>3, <3>1, <3>3 DEF NoTempRefs
      <3>5. Routing!Next
        BY <1>1, <1>2, <2>1, <2>3, <3>3, InterruptStep
      <3>6. QED
        BY <1>5, <2>1, <3>3, <3>4, <3>5 DEF RouteStep
    <2>4. CASE NoStart /\ UNCHANGED stack
      <3>1. current' = current /\ Begun
        BY <2>4, StartStage DEF NoStart, jobVars, Begun
      <3>2. QED
        BY <1>4, <1>16, <2>1, <2>4, <3>1
    <2>5. QED
      BY <1>16, <2>2, <2>3, <2>4 DEF DueEvent
  <1>17. CASE (\E a \in Apps : PollArmedTimer(a)) \/ PollUpload
    <2>1. upload \in Apps \cup {NoApp}
      BY DEF TypeInv, TypeOK, QueueOK
    <2>2. QED
      BY <1>16, <1>17, <2>1 DEF PollArmedTimer, PollUpload
  <1>18. CASE PollArm \/ PollForeground
    BY <1>1, <1>4, <1>18 DEF PollArm, PollForeground, StartEvent, jobVars, routeVars, Begun
  <1>19. QED
    BY <1>7, <1>8, <1>9, <1>12, <1>13, <1>14, <1>15, <1>17, <1>18 DEF Poll

(* A launch frame is Request, a reset and a loss of power are Forget.      *)
LEMMA HostRouting ==
    ASSUME RoutingFrames, TypeInv, RouteInv, Host
    PROVE RouteInv' /\ RouteStep
  <1>1. /\ NoTempRefs /\ PendingTarget /\ NoRouteOff
        /\ current \in Ref \cup {NoApp} /\ target \in Ref \cup {NoApp}
    BY DEF RouteInv, TypeInv, TypeOK, RouteOK
  <1>2. power = "on"
    BY DEF Host, Frame, HostLaunch, HostTempBegin, HostTempCommit, HostKey, HostEvent,
           HostReset, UploadComplete, PowerLoss
  <1>3. CASE \E a \in Apps : HostLaunch(a)
    <2>1. PICK a \in Apps : HostLaunch(a)
      BY <1>3
    <2>2. /\ target = NoApp /\ target' = InstalledRef(a) /\ phase' = "launch-requested"
          /\ power' = "on" /\ UNCHANGED <<current, stack, stage>>
      BY <1>1, <1>2, <2>1 DEF HostLaunch, PendingTarget, jobVars
    <2>3. AppCalls \cap {"launch", "sleep"} = {}
      BY <2>1 DEF HostLaunch, Frame, RoutingFrames
    <2>4. InstalledRef(a) # NoApp /\ ~InstalledRef(a).temp
      BY Constants DEF InstalledRef
    <2>5. RouteInv'
      BY <1>1, <2>2, <2>3, <2>4 DEF RouteInv, NoTempRefs, PendingTarget, NoRouteOff
    <2>6. Routing!Request(a)
      BY <1>2, <2>2, RouteInMemory, AppOfRef DEF Routing!Request
    <2>7. QED
      BY <2>5, <2>6 DEF RouteStep, Routing!Next
  <1>4. CASE HostKey \/ \E a \in Apps : HostEvent(a) \/ UploadComplete(a)
    <2>1. /\ power' = "on" /\ UNCHANGED <<current, stack, target, phase>>
          /\ stage' \in {stage, "starting"}
      BY <1>2, <1>4 DEF HostKey, HostEvent, UploadComplete, StartEvent, jobVars, routeVars
    <2>2. RouteInv'
      BY <1>1, <2>1 DEF RouteInv, NoTempRefs, PendingTarget, NoRouteOff
    <2>3. QED
      BY <1>2, <2>1, <2>2, RouteKept DEF RouteStep
  <1>5. CASE HostReset \/ PowerLoss
    <2>1. /\ power' # "wake" /\ current' = NoApp /\ stack' = <<>> /\ target' = NoApp
          /\ phase' = "idle" /\ stage' = "none"
      BY <1>2, <1>5 DEF HostReset, PowerLoss, PowerCycle, CleanRuntime
    <2>2. RouteInv'
      BY <2>1 DEF RouteInv, NoTempRefs, PendingTarget, NoRouteOff
    <2>3. AppsOf(stack') = <<>>
      BY <2>1 DEF AppsOf
    <2>4. Routing!Forget
      BY <1>2, <2>1, <2>3, RouteInMemory, AppOfRef DEF Routing!Forget
    <2>5. QED
      BY <2>2, <2>4 DEF RouteStep, Routing!Next
  <1>6. ~HostTempCommit /\ \A a \in Apps : ~HostTempBegin(a)
    BY DEF HostTempCommit, HostTempBegin, Frame, RoutingFrames
  <1>7. QED
    BY <1>3, <1>4, <1>5, <1>6 DEF Host

(* A cold boot is Boot; after a planned sleep the route in the record is   *)
(* the one that is restored.                                               *)
LEMMA BootRouting ==
    ASSUME RoutingFrames, TypeInv, RouteInv, BootRoot \/ BootWake
    PROVE RouteInv' /\ RouteStep
  <1>1. NoTempRefs /\ PendingTarget /\ NoRouteOff
    BY DEF RouteInv
  <1>2. current = NoApp /\ stack = <<>> /\ target = NoApp /\ power' = "on"
        /\ UNCHANGED <<target, phase>>
    BY <1>1 DEF BootRoot, BootWake, NoRouteOff
  <1>3. ASSUME NEW a \in Apps, StartJob(InstalledRef(a), "app.start", TRUE),
               \A i \in DOMAIN stack' : ~stack'[i].temp
        PROVE current' = InstalledRef(a) /\ RouteInv'
    <2>1. current' = InstalledRef(a) /\ stage' = "starting" /\ InstalledRef(a) # NoApp
          /\ ~InstalledRef(a).temp
      BY <1>3, Constants DEF StartJob, StartEvent, InstalledRef
    <2>2. QED
      BY <1>1, <1>2, <1>3, <2>1 DEF RouteInv, NoTempRefs, PendingTarget, NoRouteOff
  <1>4. CASE BootRoot
    <2>1. power = "boot" /\ StartJob(InstalledRef(Main), "app.start", TRUE) /\ stack' = stack
      BY <1>4 DEF BootRoot, RoutingFrames
    <2>2. current' = InstalledRef(Main) /\ RouteInv'
      BY <1>1, <1>2, <1>3, <2>1, Constants DEF NoTempRefs
    <2>3. Routing!Boot
      BY <1>2, <2>1, <2>2, RouteInMemory, AppOfRef, Constants DEF Routing!Boot
    <2>4. QED
      BY <2>2, <2>3 DEF RouteStep, Routing!Next
  <1>5. CASE BootWake
    <2>1. power = "wake" /\ RestoreRoute /\ StartJob(InstalledRef(resume.app), "app.start", TRUE)
      BY <1>5 DEF BootWake, RoutingFrames
    <2>2. resume.app \in Apps /\ resume.stack \in Seq(Apps)
      BY <2>1 DEF TypeInv, HeldOK, Resume, Bounded
    <2>3. stack' = [i \in DOMAIN resume.stack |-> InstalledRef(resume.stack[i])]
      BY <2>1 DEF RestoreRoute
    <2>4. current' = InstalledRef(resume.app) /\ RouteInv'
      BY <1>3, <2>1, <2>2, <2>3 DEF InstalledRef
    <2>5. AppsOf(stack') = resume.stack
      <3>1. \A i \in DOMAIN resume.stack : stack'[i].app = resume.stack[i]
        BY <2>3 DEF InstalledRef
      <3>2. AppsOf(stack') = [i \in DOMAIN resume.stack |-> resume.stack[i]]
        BY <2>3, <3>1 DEF AppsOf
      <3>3. QED
        BY <2>2, <3>2
    <2>6. RoutedForeground = resume.app /\ RoutedStack = resume.stack
      BY <2>1 DEF RoutedForeground, RoutedStack
    <2>7. RoutedForeground' = AppOf(current') /\ RoutedStack' = AppsOf(stack')
      BY <1>2 DEF RoutedForeground, RoutedStack, AppOf, AppsOf
    <2>8. UNCHANGED Routing!route
      BY <1>2, <2>2, <2>4, <2>5, <2>6, <2>7, AppOfRef DEF Routing!route, AppOf
    <2>9. QED
      BY <2>4, <2>8 DEF RouteStep
  <1>6. QED
    BY <1>4, <1>5

(* The worker: app.launch is Request when it is written, a failed dispatch *)
(* drops what it has requested.                                            *)
LEMMA WorkerRouting ==
    ASSUME TypeInv, RouteInv, Calls \/ Progress
    PROVE RouteInv' /\ RouteStep
  <1>1. /\ NoTempRefs /\ PendingTarget /\ NoRouteOff
        /\ current \in Ref \cup {NoApp} /\ target \in Ref \cup {NoApp}
    BY DEF RouteInv, TypeInv, TypeOK, RouteOK
  <1>2. power = "on" /\ power' = "on" /\ UNCHANGED <<current, stack>>
    BY DEF Calls, Progress, Calling, Working, CallLaunch, CallArm, CallDisarm, CallInstall,
       CallSleep, CallTimer, WorkerPrepareFails, WorkerEnters, WorkerStartFails, LaunchWritten,
       SleepWritten, WorkerFinishes, WorkerFails, routeVars
  <1>3. ASSUME UNCHANGED <<phase, target>>,
               stage' \in {"launching", "sleeping"} =>
                  stage' = stage \/ (phase = "idle" /\ AppCalls \cap {"launch", "sleep"} # {})
        PROVE RouteInv' /\ RouteStep
    <2>1. RouteInv'
      BY <1>1, <1>2, <1>3 DEF RouteInv, NoTempRefs, PendingTarget, NoRouteOff
    <2>2. QED
      BY <1>2, <1>3, <2>1, RouteKept DEF RouteStep
  <1>4. CASE Calls
    BY <1>3, <1>4 DEF Calls, Calling, CallLaunch, CallArm, CallDisarm, CallInstall, CallSleep,
       CallTimer, Refused, SleepRefused, jobVars, routeVars
  <1>5. CASE WorkerPrepareFails \/ WorkerEnters \/ WorkerFinishes
    BY <1>3, <1>5 DEF WorkerPrepareFails, WorkerEnters, WorkerFinishes, EndJob, routeVars
  <1>6. CASE WorkerStartFails \/ WorkerFails
    <2>1. stage' = "none" /\ CancelPending
      BY <1>6 DEF WorkerStartFails, WorkerFails, EndJob
    <2>2. CASE phase \in {"launch-requested", "sleep-requested"}
      <3>1. phase' = "idle" /\ target' = NoApp
        BY <2>1, <2>2 DEF CancelPending
      <3>2. RouteInv'
        BY <1>1, <1>2, <2>1, <3>1 DEF RouteInv, NoTempRefs, PendingTarget, NoRouteOff
      <3>3. CASE target = NoApp
        BY <1>2, <3>1, <3>2, <3>3, RouteKept DEF RouteStep
      <3>4. CASE target # NoApp
        BY <1>1, <1>2, <3>1, <3>2, <3>4, DropStep DEF RouteStep
      <3>5. QED
        BY <3>3, <3>4
    <2>3. CASE phase \notin {"launch-requested", "sleep-requested"}
      BY <1>3, <2>1, <2>3 DEF CancelPending
    <2>4. QED
      BY <2>2, <2>3
  <1>7. CASE LaunchWritten
    <2>1. /\ target = NoApp /\ asking \in Apps /\ target' = InstalledRef(asking)
          /\ phase' = "launch-requested" /\ stage' = "handler"
      BY <1>1, <1>7 DEF LaunchWritten, Working, PendingTarget, TypeInv, HeldOK
    <2>2. InstalledRef(asking) # NoApp /\ ~InstalledRef(asking).temp
      BY <2>1, Constants DEF InstalledRef
    <2>3. RouteInv'
      BY <1>1, <1>2, <2>1, <2>2 DEF RouteInv, NoTempRefs, PendingTarget, NoRouteOff
    <2>4. Routing!Request(asking)
      BY <1>2, <2>1, RouteInMemory, AppOfRef DEF Routing!Request
    <2>5. QED
      BY <2>1, <2>3, <2>4 DEF RouteStep, Routing!Next
  <1>8. CASE SleepWritten
    <2>1. target = NoApp /\ target' = target /\ phase' = "sleep-requested" /\ stage' = "handler"
      BY <1>1, <1>8 DEF SleepWritten, Working, PendingTarget
    <2>2. RouteInv'
      BY <1>1, <1>2, <2>1 DEF RouteInv, NoTempRefs, PendingTarget, NoRouteOff
    <2>3. QED
      BY <1>2, <2>1, <2>2, RouteKept DEF RouteStep
  <1>9. QED
    BY <1>4, <1>5, <1>6, <1>7, <1>8 DEF Progress

(* The lifecycle implements the navigation of AppRouting: hand-offs, exits,*)
(* due events, failed dispatches, resets, planned sleeps and losses of     *)
(* power change foreground and return stack as AppRouting says             *)
(* (app_lifecycle.c, sq_device_protocol_poll, planned_resume.c).           *)
THEOREM RoutingRefined ==
    ASSUME RoutingFrames
    PROVE Spec => RoutingSpec
  <1>1. Init => RouteInv /\ Routing!Init
    <2> SUFFICES ASSUME Init PROVE RouteInv /\ Routing!Init
      OBVIOUS
    <2>1. RouteInv
      BY DEF Init, RouteInv, NoTempRefs, PendingTarget, NoRouteOff
    <2>2. Routing!Init
      BY AppOfRef DEF Init, Routing!Init, RoutedForeground, RoutedStack
    <2>3. QED
      BY <2>1, <2>2
  <1>2. TypeInv /\ SleepInv /\ RouteInv /\ [Next]_vars =>
           RouteInv' /\ [Routing!Next]_(Routing!route)
    <2> SUFFICES ASSUME TypeInv, SleepInv, RouteInv, [Next]_vars
                 PROVE RouteInv' /\ RouteStep
      BY DEF RouteStep
    <2>1. CASE UNCHANGED vars
      <3>1. RouteInv'
        BY <2>1 DEF vars, jobVars, routeVars, RouteInv, NoTempRefs, PendingTarget, NoRouteOff
      <3>2. UNCHANGED Routing!route
        BY <2>1 DEF vars, routeVars, Routing!route, RoutedForeground, RoutedStack, AppOf
      <3>3. QED
        BY <3>1, <3>2 DEF RouteStep
    <2>2. CASE Next
      BY <2>2, PollRouting, HostRouting, BootRouting, WorkerRouting DEF Next
    <2>3. QED
      BY <2>1, <2>2
  <1>3. QED
    BY <1>1, <1>2, TypeInvariant, SleepInvariant, PTL DEF Spec, RoutingSpec, Routing!Spec

=============================================================================
