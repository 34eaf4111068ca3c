------------------------- MODULE AppLifecycleProofs -------------------------
(* Theorems about AppLifecycle, for every set of apps, every size of the   *)
(* return stack and of the armed table, every choice of frames and calls.  *)
EXTENDS AppLifecycle, TLAPS, FiniteSetTheorems, SequenceTheorems

(* The type invariant is inductive with three facts about values that are  *)
(* written by one step and used by a later one: the argument of app.launch *)
(* between the check and the write, the staged app of an open temp         *)
(* session, and the record a wake boot finds.                              *)
HeldOK ==
    /\ stage = "launching" => asking \in Apps
    /\ tempPhase # "idle" => staged \in Apps
    /\ power = "wake" => resume \in Resume
TypeInv == TypeOK /\ HeldOK

(* Constants are typed, and NoApp is not a reference to an app.            *)
LEMMA Constants ==
    /\ Main \in Apps /\ SafeApps \subseteq Apps /\ NoApp \notin Apps /\ NoApp \notin Ref
    /\ ReturnStackMax \in Nat /\ ReturnStackMax > 0
    /\ \A a \in Apps : InstalledRef(a) \in Ref /\ TempRef(a) \in Ref
  BY LifecycleAssumption, RefAssumption DEF Ref, InstalledRef, TempRef

-----------------------------------------------------------------------------
(* The operators of the return stack.                                      *)

(* push_return keeps the stack within its bound.                           *)
LEMMA PushType ==
    ASSUME RouteOK, NEW r \in Ref \cup {NoApp}, CanPush(r)
    PROVE Pushed(r) \in Bounded(Ref)
  BY Constants DEF RouteOK, CanPush, Pushed, Full, Bounded

(* pop_return delivers an app reference and a shorter stack.               *)
LEMMA PopType ==
    ASSUME RouteOK
    PROVE Top \in Ref /\ Popped \in Bounded(Ref)
  <1>1. CASE stack = <<>>
    BY <1>1, Constants DEF RouteOK, Top, Popped, Bounded
  <1>2. CASE stack # <<>>
    <2> DEFINE n == Len(stack) - 1
    <2>1. stack \in Seq(Ref) /\ n \in Nat /\ Len(stack) = n + 1 /\ n + 1 <= ReturnStackMax
      BY <1>2 DEF RouteOK, Bounded
    <2>2. stack[Len(stack)] \in Ref /\ \A i \in 1..n : stack[i] \in Ref
      BY <2>1
    <2>3. 1 \in Int /\ n \in Int
      BY <2>1
    <2>4. /\ SubSeq(stack, 1, n) \in Seq(Ref)
          /\ Len(SubSeq(stack, 1, n)) <= ReturnStackMax
      <3> HIDE DEF n
      <3>1. SubSeq(stack, 1, n) \in Seq(Ref)
        BY <2>2, <2>3, SubSeqProperties, Zenon
      <3>2. Len(SubSeq(stack, 1, n)) = n
        BY <2>1
      <3>3. QED
        BY <2>1, <3>1, <3>2, Constants
    <2>5. QED
      BY <1>2, <2>2, <2>4 DEF Top, Popped, Bounded
  <1>3. QED
    BY <1>1, <1>2

(* clear_temp_routes leaves a stack of references, no longer than before,  *)
(* without a temp reference.                                               *)
LEMMA WithoutTempType ==
    ASSUME NEW s \in Bounded(Ref), NEW t \in WithoutTemp(s)
    PROVE t \in Bounded(Ref) /\ \A i \in DOMAIN t : ~t[i].temp
  <1> DEFINE Kept == {i \in DOMAIN s : ~s[i].temp}
  <1>1. s \in Seq(Ref) /\ Len(s) \in Nat /\ Len(s) <= ReturnStackMax /\ DOMAIN s = 1..Len(s)
    BY Constants DEF Bounded
  <1>2. IsFiniteSet(1..Len(s)) /\ Cardinality(1..Len(s)) = Len(s)
    BY <1>1, FS_Interval
  <1>3. Cardinality(Kept) \in Nat /\ Cardinality(Kept) <= Len(s)
    BY <1>1, <1>2, FS_Subset, FS_CardinalityType
  <1>4. PICK m \in [1..Cardinality(Kept) -> Kept] :
           t = [i \in 1..Cardinality(Kept) |-> s[m[i]]]
    BY DEF WithoutTemp
  <1>5. t \in Seq(Ref) /\ Len(t) = Cardinality(Kept)
    <2>1. \A i \in 1..Cardinality(Kept) : t[i] \in Ref
      BY <1>1, <1>4
    <2>2. QED
      BY <1>3, <1>4, <2>1
  <1>6. \A i \in DOMAIN t : ~t[i].temp
    BY <1>4
  <1>7. QED
    BY <1>1, <1>3, <1>5, <1>6, Constants DEF Bounded

-----------------------------------------------------------------------------
(* TypeInv is kept by the worker.                                          *)

(* What a reader delivers is a reference, the fallback, or nothing.        *)
LEMMA LoadedType ==
    ASSUME TypeOK PROVE Loaded \in Sessions
  <1>1. Program(backend) \in Sessions
    BY DEF TypeOK, VmOK, QueueOK, Program, Sessions
  <1>2. QED
    BY <1>1 DEF TypeOK, VmOK, Loaded

(* The steps of the worker that bring its job to an end.                   *)
LEMMA ProgressType ==
    ASSUME TypeInv, Progress
    PROVE TypeInv'
  <1> USE DEF TypeInv, TypeOK
  <1>1. CASE WorkerPrepareFails
    <2>1. JobOK'
      BY <1>1 DEF JobOK, Statuses, Stages, Events, jobVars, WorkerPrepareFails,
         Working, EndJob
    <2>2. RouteOK'
      BY <1>1 DEF RouteOK, Phases, routeVars, WorkerPrepareFails, Working, EndJob
    <2>3. VmOK'
      BY <1>1 DEF VmOK, Sessions, vmVars, WorkerPrepareFails, Working, EndJob
    <2>4. QueueOK'
      BY <1>1 DEF QueueOK, armVars, tempVars, inVars, WorkerPrepareFails, Working,
         EndJob
    <2>5. HeldOK'
      BY <1>1 DEF HeldOK, JobOK, QueueOK, jobVars, tempVars, WorkerPrepareFails,
         Working, EndJob
    <2> QED
      BY <2>1, <2>2, <2>3, <2>4, <2>5 DEF TypeInv, TypeOK
  <1>2. CASE WorkerEnters
    <2>1. JobOK'
      BY <1>2 DEF JobOK, Statuses, Stages, Events, jobVars, WorkerEnters, Working
    <2>2. RouteOK'
      BY <1>2 DEF RouteOK, Phases, routeVars, WorkerEnters, Working
    <2>3. VmOK'
      BY <1>2, LoadedType DEF VmOK, Sessions, vmVars, WorkerEnters, Working
    <2>4. QueueOK'
      BY <1>2 DEF QueueOK, armVars, tempVars, inVars, WorkerEnters, Working
    <2>5. HeldOK'
      BY <1>2 DEF HeldOK, JobOK, QueueOK, jobVars, tempVars, WorkerEnters, Working
    <2> QED
      BY <2>1, <2>2, <2>3, <2>4, <2>5 DEF TypeInv, TypeOK
  <1>3. CASE WorkerStartFails
    <2>1. JobOK'
      BY <1>3 DEF JobOK, Statuses, Stages, Events, jobVars, WorkerStartFails, Working,
         EndJob, CancelPending
    <2>2. RouteOK'
      BY <1>3 DEF RouteOK, Phases, routeVars, WorkerStartFails, Working, EndJob,
         CancelPending
    <2>3. VmOK'
      BY <1>3, LoadedType DEF VmOK, Sessions, vmVars, WorkerStartFails, Working,
         EndJob, CancelPending
    <2>4. QueueOK'
      BY <1>3 DEF QueueOK, armVars, tempVars, inVars, WorkerStartFails, Working,
         EndJob, CancelPending
    <2>5. HeldOK'
      BY <1>3 DEF HeldOK, JobOK, QueueOK, jobVars, tempVars, WorkerStartFails, Working,
         EndJob, CancelPending
    <2> QED
      BY <2>1, <2>2, <2>3, <2>4, <2>5 DEF TypeInv, TypeOK
  <1>4. CASE LaunchWritten
    <2>1. JobOK'
      BY <1>4 DEF JobOK, Statuses, Stages, Events, jobVars, LaunchWritten, Working
    <2>2. RouteOK'
      BY <1>4, Constants DEF RouteOK, Phases, routeVars, LaunchWritten, Working, HeldOK
    <2>3. VmOK'
      BY <1>4 DEF VmOK, Sessions, vmVars, LaunchWritten, Working
    <2>4. QueueOK'
      BY <1>4 DEF QueueOK, armVars, tempVars, inVars, LaunchWritten, Working
    <2>5. HeldOK'
      BY <1>4 DEF HeldOK, JobOK, QueueOK, jobVars, tempVars, LaunchWritten, Working
    <2> QED
      BY <2>1, <2>2, <2>3, <2>4, <2>5 DEF TypeInv, TypeOK
  <1>5. CASE SleepWritten
    <2>1. JobOK'
      BY <1>5 DEF JobOK, Statuses, Stages, Events, jobVars, SleepWritten, Working
    <2>2. RouteOK'
      BY <1>5 DEF RouteOK, Phases, routeVars, SleepWritten, Working
    <2>3. VmOK'
      BY <1>5 DEF VmOK, Sessions, vmVars, SleepWritten, Working
    <2>4. QueueOK'
      BY <1>5 DEF QueueOK, armVars, tempVars, inVars, SleepWritten, Working
    <2>5. HeldOK'
      BY <1>5 DEF HeldOK, JobOK, QueueOK, jobVars, tempVars, SleepWritten, Working
    <2> QED
      BY <2>1, <2>2, <2>3, <2>4, <2>5 DEF TypeInv, TypeOK
  <1>6. CASE WorkerFinishes
    <2>1. JobOK'
      BY <1>6 DEF JobOK, Statuses, Stages, Events, jobVars, WorkerFinishes, Working,
         EndJob
    <2>2. RouteOK'
      BY <1>6 DEF RouteOK, Phases, routeVars, WorkerFinishes, Working, EndJob
    <2>3. VmOK'
      BY <1>6 DEF VmOK, Sessions, vmVars, WorkerFinishes, Working, EndJob
    <2>4. QueueOK'
      BY <1>6 DEF QueueOK, armVars, tempVars, inVars, WorkerFinishes, Working, EndJob
    <2>5. HeldOK'
      BY <1>6 DEF HeldOK, JobOK, QueueOK, jobVars, tempVars, WorkerFinishes, Working,
         EndJob
    <2> QED
      BY <2>1, <2>2, <2>3, <2>4, <2>5 DEF TypeInv, TypeOK
  <1>7. CASE WorkerFails
    <2>1. JobOK'
      BY <1>7 DEF JobOK, Statuses, Stages, Events, jobVars, WorkerFails, Working,
         EndJob, CancelPending
    <2>2. RouteOK'
      BY <1>7 DEF RouteOK, Phases, routeVars, WorkerFails, Working, EndJob,
         CancelPending
    <2>3. VmOK'
      BY <1>7 DEF VmOK, Sessions, vmVars, WorkerFails, Working, EndJob, CancelPending
    <2>4. QueueOK'
      BY <1>7 DEF QueueOK, armVars, tempVars, inVars, WorkerFails, Working, EndJob,
         CancelPending
    <2>5. HeldOK'
      BY <1>7 DEF HeldOK, JobOK, QueueOK, jobVars, tempVars, WorkerFails, Working,
         EndJob, CancelPending
    <2> QED
      BY <2>1, <2>2, <2>3, <2>4, <2>5 DEF TypeInv, TypeOK
  <1> QED
    BY <1>1, <1>2, <1>3, <1>4, <1>5, <1>6, <1>7 DEF Progress

(* The host calls of a handler.                                            *)
LEMMA CallsType ==
    ASSUME TypeInv, Calls
    PROVE TypeInv'
  <1> USE DEF TypeInv, TypeOK
  <1>1. CASE \E a \in Apps : CallLaunch(a)
    <2>1. JobOK'
      BY <1>1 DEF JobOK, Statuses, Stages, Events, jobVars, CallLaunch, Calling,
         Working, Refused
    <2>2. RouteOK'
      BY <1>1 DEF RouteOK, Phases, routeVars, CallLaunch, Calling, Working, Refused
    <2>3. VmOK'
      BY <1>1 DEF VmOK, Sessions, vmVars, CallLaunch, Calling, Working, Refused
    <2>4. QueueOK'
      BY <1>1 DEF QueueOK, armVars, tempVars, inVars, CallLaunch, Calling, Working,
         Refused
    <2>5. HeldOK'
      BY <1>1 DEF HeldOK, JobOK, QueueOK, jobVars, tempVars, CallLaunch, Calling,
         Working, Refused
    <2> QED
      BY <2>1, <2>2, <2>3, <2>4, <2>5 DEF TypeInv, TypeOK
  <1>2. CASE \E a \in Apps : CallArm(a)
    <2>1. JobOK'
      BY <1>2 DEF JobOK, Statuses, Stages, Events, jobVars, CallArm, Calling, Working,
         Refused
    <2>2. RouteOK'
      BY <1>2 DEF RouteOK, Phases, routeVars, CallArm, Calling, Working, Refused
    <2>3. VmOK'
      BY <1>2 DEF VmOK, Sessions, vmVars, CallArm, Calling, Working, Refused
    <2>4. QueueOK'
      BY <1>2 DEF QueueOK, armVars, tempVars, inVars, CallArm, Calling, Working, Refused
    <2>5. HeldOK'
      BY <1>2 DEF HeldOK, JobOK, QueueOK, jobVars, tempVars, CallArm, Calling, Working,
         Refused
    <2> QED
      BY <2>1, <2>2, <2>3, <2>4, <2>5 DEF TypeInv, TypeOK
  <1>3. CASE \E a \in Apps : CallDisarm(a)
    <2>1. JobOK'
      BY <1>3 DEF JobOK, Statuses, Stages, Events, jobVars, CallDisarm, Calling,
         Working, TimerKinds
    <2>2. RouteOK'
      BY <1>3 DEF RouteOK, Phases, routeVars, CallDisarm, Calling, Working, TimerKinds
    <2>3. VmOK'
      BY <1>3 DEF VmOK, Sessions, vmVars, CallDisarm, Calling, Working, TimerKinds
    <2>4. QueueOK'
      BY <1>3 DEF QueueOK, armVars, tempVars, inVars, CallDisarm, Calling, Working,
         TimerKinds
    <2>5. HeldOK'
      BY <1>3 DEF HeldOK, JobOK, QueueOK, jobVars, tempVars, CallDisarm, Calling,
         Working, TimerKinds
    <2> QED
      BY <2>1, <2>2, <2>3, <2>4, <2>5 DEF TypeInv, TypeOK
  <1>4. CASE \E a \in Apps : CallInstall(a)
    <2>1. JobOK'
      BY <1>4 DEF JobOK, Statuses, Stages, Events, jobVars, CallInstall, Calling,
         Working
    <2>2. RouteOK'
      BY <1>4 DEF RouteOK, Phases, routeVars, CallInstall, Calling, Working
    <2>3. VmOK'
      BY <1>4 DEF VmOK, Sessions, vmVars, CallInstall, Calling, Working
    <2>4. QueueOK'
      BY <1>4 DEF QueueOK, armVars, tempVars, inVars, CallInstall, Calling, Working
    <2>5. HeldOK'
      BY <1>4 DEF HeldOK, JobOK, QueueOK, jobVars, tempVars, CallInstall, Calling,
         Working
    <2> QED
      BY <2>1, <2>2, <2>3, <2>4, <2>5 DEF TypeInv, TypeOK
  <1>5. CASE CallSleep
    <2>1. JobOK'
      BY <1>5 DEF JobOK, Statuses, Stages, Events, jobVars, CallSleep, Calling,
         Working, Refused
    <2>2. RouteOK'
      BY <1>5 DEF RouteOK, Phases, routeVars, CallSleep, Calling, Working, Refused
    <2>3. VmOK'
      BY <1>5 DEF VmOK, Sessions, vmVars, CallSleep, Calling, Working, Refused
    <2>4. QueueOK'
      BY <1>5 DEF QueueOK, armVars, tempVars, inVars, CallSleep, Calling, Working,
         Refused
    <2>5. HeldOK'
      BY <1>5 DEF HeldOK, JobOK, QueueOK, jobVars, tempVars, CallSleep, Calling,
         Working, Refused
    <2> QED
      BY <2>1, <2>2, <2>3, <2>4, <2>5 DEF TypeInv, TypeOK
  <1>6. CASE CallTimer
    <2>1. JobOK'
      BY <1>6 DEF JobOK, Statuses, Stages, Events, jobVars, CallTimer, Calling, Working
    <2>2. RouteOK'
      BY <1>6 DEF RouteOK, Phases, routeVars, CallTimer, Calling, Working
    <2>3. VmOK'
      BY <1>6 DEF VmOK, Sessions, vmVars, CallTimer, Calling, Working
    <2>4. QueueOK'
      BY <1>6 DEF QueueOK, armVars, tempVars, inVars, CallTimer, Calling, Working
    <2>5. HeldOK'
      BY <1>6 DEF HeldOK, JobOK, QueueOK, jobVars, tempVars, CallTimer, Calling, Working
    <2> QED
      BY <2>1, <2>2, <2>3, <2>4, <2>5 DEF TypeInv, TypeOK
  <1> QED
    BY <1>1, <1>2, <1>3, <1>4, <1>5, <1>6 DEF Calls

-----------------------------------------------------------------------------
(* TypeInv is kept by the main loop: first, starting a job.                *)

(* A started event is a typed job.                                         *)
LEMMA StartEventType ==
    ASSUME JobOK, NEW b, NEW ev \in Events, StartEvent(b, ev), power' = power \/ power' = "on"
    PROVE JobOK' /\ stage' = "starting"
  BY DEF JobOK, StartEvent, Statuses, Stages

(* What every start, and every failed one, leaves behind.                  *)
Started ==
    /\ JobOK' /\ VmOK' /\ current' \in Ref \cup {NoApp}
    /\ stage' = "launching" => asking' \in Apps

(* A start keeps the job, VM and foreground variables typed.               *)
LEMMA StartJobType ==
    ASSUME TypeInv, NEW r \in Ref, NEW ev \in Events, NEW sc \in BOOLEAN,
           StartJob(r, ev, sc), power' = power \/ power' = "on"
    PROVE Started
  <1>1. JobOK' /\ stage' = "starting"
    BY StartEventType DEF StartJob, TypeInv, TypeOK
  <1>2. VmOK'
    BY DEF TypeInv, TypeOK, VmOK, StartJob, StartEvent, BackendOf, Ref, Switches, Sessions
  <1>3. QED
    BY <1>1, <1>2 DEF TypeInv, TypeOK, RouteOK, StartJob, Started

(* So does a step that starts nothing,                                     *)
LEMMA NoStartType ==
    ASSUME TypeInv, NoStart, exited' \in BOOLEAN, power' = power \/ power' = "on",
           timers' \in BOOLEAN, storage' = storage, session' \in Sessions
    PROVE Started
  <1>1. JobOK' /\ stage' = stage /\ asking' = asking /\ current' = current
    BY DEF TypeInv, TypeOK, JobOK, NoStart, jobVars
  <1>2. VmOK'
    BY DEF TypeInv, TypeOK, VmOK, NoStart
  <1>3. QED
    BY <1>1, <1>2 DEF TypeInv, TypeOK, RouteOK, HeldOK, Started

(* a start that fails,                                                     *)
LEMMA StartFailsType ==
    ASSUME TypeInv, NEW r \in Ref, NEW sc \in BOOLEAN, StartFails(r, sc),
           power' = power, exited' \in BOOLEAN
    PROVE Started
  <1>1. NoStart /\ timers' \in BOOLEAN /\ storage' = storage /\ session' \in Sessions
    BY DEF TypeInv, TypeOK, VmOK, StartFails, Switches, Sessions
  <1>2. QED
    BY <1>1, NoStartType

(* and the start of a launch target, whichever way it ends.                *)
LEMMA StartTargetType ==
    ASSUME TypeInv, NEW failed \in BOOLEAN, StartTarget(failed), power' = power
    PROVE Started
  <1>1. CASE target # NoApp /\ StartJob(target, "app.start", TRUE)
    BY <1>1, StartJobType DEF TypeInv, TypeOK, RouteOK, Events
  <1>2. CASE target # NoApp /\ StartFails(target, TRUE) /\ exited' = failed
    BY <1>2, StartFailsType DEF TypeInv, TypeOK, RouteOK
  <1>3. CASE NoStart /\ exited' = failed /\ UNCHANGED <<timers, session, storage>>
    BY <1>3, NoStartType DEF TypeInv, TypeOK, VmOK
  <1>4. QED
    BY <1>1, <1>2, <1>3 DEF StartTarget

(* What a reset or a loss of power leaves is typed.                        *)
LEMMA CleanType ==
    ASSUME TypeInv, CleanRuntime, power' \in {"on", "boot", "wake"}
    PROVE JobOK' /\ RouteOK' /\ VmOK' /\ armed' \in [Apps -> TimerKinds]
          /\ stage' # "launching" /\ tempPhase' = "idle" /\ staged' = NoApp
  <1>1. NoTimers \in [Apps -> TimerKinds] /\ <<>> \in Bounded(Ref)
    BY Constants DEF NoTimers, TimerKinds, Bounded
  <1>2. QED
    BY <1>1 DEF CleanRuntime, JobOK, RouteOK, VmOK, Statuses, Stages, Events, Phases, Sessions

(* A power cycle keeps the invariant; a planned one has its record.        *)
LEMMA PowerCycleType ==
    ASSUME TypeInv, NEW next \in {"boot", "wake"}, PowerCycle(next),
           resume' \in Resume \cup {NoApp}, next = "wake" => resume' \in Resume
    PROVE TypeInv'
  <1>1. CleanRuntime /\ power' = next
    BY DEF PowerCycle
  <1>2. QueueOK'
    BY <1>1, CleanType DEF QueueOK, PowerCycle, CleanRuntime, TypeInv, TypeOK
  <1>3. QED
    BY <1>1, <1>2, CleanType DEF TypeInv, TypeOK, HeldOK

(* The dispatch of an armed timer or an upload keeps them typed.           *)
LEMMA DueEventType ==
    ASSUME TypeInv, NEW a \in Apps, NEW ev \in Events, DueEvent(a, ev), power' = power
    PROVE /\ Started /\ stack' \in Bounded(Ref)
          /\ reason' \in {"boot", "launch", "return", "wake"}
  <1>1. CASE /\ Names(current, a) /\ UNCHANGED <<reason, stack>>
             /\ \/ StartJob(current, ev, FALSE)
                \/ StartFails(current, FALSE) /\ UNCHANGED exited
    <2>1. current \in Ref /\ exited \in BOOLEAN
      BY <1>1, Constants DEF Names, TypeInv, TypeOK, JobOK
    <2>2. Started
      BY <1>1, <2>1, StartJobType, StartFailsType
    <2>3. QED
      BY <1>1, <2>2 DEF TypeInv, TypeOK, RouteOK
  <1>2. CASE /\ CanPush(current) /\ stack' = Pushed(current) /\ reason' = "launch"
             /\ \/ StartJob(InstalledRef(a), ev, TRUE)
                \/ StartFails(InstalledRef(a), TRUE) /\ UNCHANGED exited
    <2>1. InstalledRef(a) \in Ref /\ exited \in BOOLEAN
      BY Constants DEF TypeInv, TypeOK, JobOK
    <2>2. Started
      BY <1>2, <2>1, StartJobType, StartFailsType
    <2>3. stack' \in Bounded(Ref)
      BY <1>2, PushType DEF TypeInv, TypeOK, RouteOK
    <2>4. QED
      BY <1>2, <2>2, <2>3
  <1>3. CASE NoStart /\ UNCHANGED <<exited, reason, stack, timers, session, storage>>
    <2>1. Started
      BY <1>3, NoStartType DEF TypeInv, TypeOK, VmOK, JobOK
    <2>2. QED
      BY <1>3, <2>1 DEF TypeInv, TypeOK, RouteOK
  <1>4. QED
    BY <1>1, <1>2, <1>3 DEF DueEvent

(* One poll of the main loop.                                              *)
LEMMA ResumeType ==
    ASSUME RouteOK, current # NoApp
    PROVE ResumeRecord \in Resume
  <1>1. stack \in Seq(Ref) /\ Len(stack) \in Nat /\ Len(stack) <= ReturnStackMax
    BY Constants DEF RouteOK, Bounded
  <1>2. \A i \in 1..Len(stack) : stack[i].app \in Apps
    <2>1. \A i \in 1..Len(stack) : stack[i] \in Ref
      BY <1>1
    <2>2. QED
      BY <2>1 DEF Ref
  <1>3. [i \in DOMAIN stack |-> stack[i].app] \in Bounded(Apps)
    <2>1. DOMAIN stack = 1..Len(stack)
      BY <1>1
    <2>2. [i \in 1..Len(stack) |-> stack[i].app] \in Seq(Apps)
      BY <1>1, <1>2
    <2>3. Len([i \in 1..Len(stack) |-> stack[i].app]) = Len(stack)
      BY <1>1
    <2>4. QED
      BY <1>1, <2>1, <2>2, <2>3 DEF Bounded
  <1>4. current.app \in Apps
    BY DEF RouteOK, Ref
  <1>5. QED
    BY <1>3, <1>4 DEF ResumeRecord, Resume

(* TypeInv is kept by each branch of the poll.                             *)
LEMMA PollType ==
    ASSUME TypeInv, Poll
    PROVE TypeInv'
  <1> USE DEF TypeInv, TypeOK
  <1>1. CASE PollInstall
    <2>1. JobOK'
      BY <1>1 DEF JobOK, Statuses, Stages, Events, jobVars, PollInstall, Polling
    <2>2. RouteOK'
      BY <1>1 DEF RouteOK, Phases, routeVars, PollInstall, Polling
    <2>3. VmOK'
      BY <1>1 DEF VmOK, Sessions, vmVars, PollInstall, Polling
    <2>4. QueueOK'
      BY <1>1 DEF QueueOK, armVars, tempVars, inVars, PollInstall, Polling
    <2>5. HeldOK'
      BY <1>1 DEF HeldOK, JobOK, QueueOK, jobVars, tempVars, PollInstall, Polling
    <2> QED
      BY <2>1, <2>2, <2>3, <2>4, <2>5 DEF TypeInv, TypeOK
  <1>2. CASE PollReturn
    <2>1. Started
      BY <1>2, PopType, StartJobType, StartFailsType DEF PollReturn, JobOK, RouteOK,
         Events
    <2>2. RouteOK'
      BY <1>2, <2>1, PopType DEF RouteOK, Phases, routeVars, PollReturn, Started
    <2>3. QueueOK'
      BY <1>2 DEF QueueOK, armVars, tempVars, inVars, PollReturn, TakeDue, TimerKinds
    <2>4. HeldOK'
      BY <1>2, <2>1 DEF HeldOK, Started, NextStep, Polling, Settled, tempVars,
         PollReturn
    <2> QED
      BY <2>1, <2>2, <2>3, <2>4 DEF Started
  <1>3. CASE PollLaunchExit
    <2>1. Started
      BY <1>3, StartJobType, StartFailsType DEF PollLaunchExit, JobOK, RouteOK, Events
    <2>2. RouteOK'
      BY <1>3, <2>1 DEF RouteOK, Phases, routeVars, PollLaunchExit, Started, DropLaunch
    <2>3. QueueOK'
      BY <1>3 DEF QueueOK, armVars, tempVars, inVars, PollLaunchExit
    <2>4. HeldOK'
      BY <1>3, <2>1 DEF HeldOK, Started, NextStep, Polling, Settled, tempVars,
         PollLaunchExit
    <2> QED
      BY <2>1, <2>2, <2>3, <2>4 DEF Started
  <1>4. CASE PollLaunchDirect
    <2>1. Started
      BY <1>4, StartTargetType DEF PollLaunchDirect, JobOK, RouteOK, Events
    <2>2. RouteOK'
      BY <1>4, <2>1, Constants DEF RouteOK, Phases, routeVars, PollLaunchDirect,
         Started, Full, Bounded, StartTarget
    <2>3. QueueOK'
      BY <1>4 DEF QueueOK, armVars, tempVars, inVars, PollLaunchDirect
    <2>4. HeldOK'
      BY <1>4, <2>1 DEF HeldOK, Started, NextStep, Polling, Settled, tempVars,
         PollLaunchDirect
    <2> QED
      BY <2>1, <2>2, <2>3, <2>4 DEF Started
  <1>5. CASE PollLaunchTarget
    <2>1. Started
      BY <1>5, StartTargetType, NoStartType DEF PollLaunchTarget, JobOK, RouteOK,
         Events, VmOK
    <2>2. RouteOK'
      BY <1>5, <2>1, PushType DEF RouteOK, Phases, routeVars, PollLaunchTarget,
         Started, DropLaunch, StartTarget
    <2>3. QueueOK'
      BY <1>5 DEF QueueOK, armVars, tempVars, inVars, PollLaunchTarget
    <2>4. HeldOK'
      BY <1>5, <2>1 DEF HeldOK, Started, NextStep, Polling, Settled, tempVars,
         PollLaunchTarget
    <2> QED
      BY <2>1, <2>2, <2>3, <2>4 DEF Started
  <1>6. CASE PollSleep
    <2>1. Started
      BY <1>6, StartJobType, StartFailsType, NoStartType DEF PollSleep, JobOK, RouteOK,
         Events, VmOK
    <2>2. RouteOK'
      BY <1>6, <2>1 DEF RouteOK, Phases, routeVars, PollSleep, Started, DropLaunch
    <2>3. QueueOK'
      BY <1>6 DEF QueueOK, armVars, tempVars, inVars, PollSleep
    <2>4. HeldOK'
      BY <1>6, <2>1 DEF HeldOK, Started, NextStep, Polling, Settled, tempVars, PollSleep
    <2> QED
      BY <2>1, <2>2, <2>3, <2>4 DEF Started
  <1>7. CASE PollCheckpoint
    <2>1. CASE Sleeps
      BY <2>1, ResumeType, PowerCycleType DEF Sleeps
    <2>2. CASE StaysAwake
      <3> USE DEF StaysAwake
      <3>1. resume' \in Resume \cup {NoApp}
        BY <2>2, ResumeType DEF QueueOK
      <3>2. JobOK'
        BY <2>2 DEF JobOK, jobVars
      <3>3. RouteOK' /\ VmOK'
        BY <2>2 DEF RouteOK, VmOK, vmVars, Phases
      <3>4. QueueOK'
        BY <2>2, <3>1 DEF QueueOK, armVars, tempVars, inVars
      <3>5. HeldOK'
        BY <1>7, <2>2 DEF HeldOK, jobVars, tempVars, PollCheckpoint, NextStep, Polling
      <3>6. QED
        BY <3>2, <3>3, <3>4, <3>5
    <2>3. QED
      BY <1>7, <2>1, <2>2 DEF PollCheckpoint
  <1>8. CASE \E a \in Apps : PollArmedTimer(a)
    <2>1. Started
      BY <1>8, DueEventType DEF PollArmedTimer, JobOK, RouteOK, Events
    <2>2. RouteOK'
      BY <1>8, <2>1, DueEventType DEF RouteOK, Phases, routeVars, PollArmedTimer,
         Started, Events
    <2>3. QueueOK'
      BY <1>8 DEF QueueOK, armVars, tempVars, inVars, PollArmedTimer, TakeDue,
         TimerKinds
    <2>4. HeldOK'
      BY <1>8, <2>1 DEF HeldOK, Started, NextStep, Polling, Settled, tempVars,
         PollArmedTimer
    <2> QED
      BY <2>1, <2>2, <2>3, <2>4 DEF Started
  <1>9. CASE PollUpload
    <2>1. Started
      BY <1>9, DueEventType DEF PollUpload, JobOK, RouteOK, Events, QueueOK
    <2>2. RouteOK'
      BY <1>9, <2>1, DueEventType DEF RouteOK, Phases, routeVars, PollUpload, Started,
         Events, QueueOK
    <2>3. QueueOK'
      BY <1>9 DEF QueueOK, armVars, tempVars, inVars, PollUpload
    <2>4. HeldOK'
      BY <1>9, <2>1 DEF HeldOK, Started, NextStep, Polling, Settled, tempVars,
         PollUpload
    <2> QED
      BY <2>1, <2>2, <2>3, <2>4 DEF Started
  <1>10. CASE PollArm
    <2>1. JobOK'
      BY <1>10 DEF JobOK, Statuses, Stages, Events, jobVars, PollArm, Settled,
         NextStep, Polling
    <2>2. RouteOK'
      BY <1>10 DEF RouteOK, Phases, routeVars, PollArm, Settled, NextStep, Polling
    <2>3. VmOK'
      BY <1>10 DEF VmOK, Sessions, vmVars, PollArm, Settled, NextStep, Polling
    <2>4. QueueOK'
      BY <1>10 DEF QueueOK, armVars, tempVars, inVars, PollArm, Settled, NextStep,
         Polling, TimerKinds
    <2>5. HeldOK'
      BY <1>10 DEF HeldOK, JobOK, QueueOK, jobVars, tempVars, PollArm, Settled,
         NextStep, Polling
    <2> QED
      BY <2>1, <2>2, <2>3, <2>4, <2>5 DEF TypeInv, TypeOK
  <1>11. CASE PollForeground
    <2>1. JobOK'
      BY <1>11, StartEventType DEF JobOK, Statuses, Stages, Events, jobVars,
         PollForeground
    <2>2. RouteOK'
      BY <1>11 DEF RouteOK, Phases, routeVars, PollForeground
    <2>3. VmOK'
      BY <1>11 DEF VmOK, Sessions, vmVars, PollForeground, StartEvent
    <2>4. QueueOK'
      BY <1>11 DEF QueueOK, armVars, tempVars, inVars, PollForeground
    <2>5. HeldOK'
      BY <1>11 DEF HeldOK, JobOK, QueueOK, jobVars, tempVars, PollForeground,
         StartEvent, Settled, NextStep, Polling
    <2> QED
      BY <2>1, <2>2, <2>3, <2>4, <2>5 DEF TypeInv, TypeOK
  <1> QED
    BY <1>1, <1>2, <1>3, <1>4, <1>5, <1>6, <1>7, <1>8, <1>9, <1>10, <1>11 DEF Poll

(* One frame of the host.                                                  *)
LEMMA HostType ==
    ASSUME TypeInv, Host
    PROVE TypeInv'
  <1> USE DEF TypeInv, TypeOK, Frame
  <1>D. ASSUME NEW r \in Ref \cup {NoApp} PROVE DropTemp(r) \in Ref \cup {NoApp}
    BY DEF DropTemp
  <1>W. ASSUME stack' \in WithoutTemp(stack) PROVE stack' \in Bounded(Ref)
    BY <1>W, WithoutTempType DEF RouteOK
  <1>1. CASE \E a \in Apps : HostLaunch(a)
    <2>1. JobOK'
      BY <1>1 DEF JobOK, Statuses, Stages, Events, jobVars, HostLaunch
    <2>2. RouteOK'
      BY <1>1, Constants DEF RouteOK, Phases, routeVars, HostLaunch
    <2>3. VmOK'
      BY <1>1 DEF VmOK, Sessions, vmVars, HostLaunch
    <2>4. QueueOK'
      BY <1>1 DEF QueueOK, armVars, tempVars, inVars, HostLaunch
    <2>5. HeldOK'
      BY <1>1 DEF HeldOK, JobOK, QueueOK, jobVars, tempVars, HostLaunch
    <2> QED
      BY <2>1, <2>2, <2>3, <2>4, <2>5 DEF TypeInv, TypeOK
  <1>2. CASE \E a \in Apps : HostTempBegin(a)
    <2>1. JobOK'
      BY <1>2 DEF JobOK, Statuses, Stages, Events, jobVars, HostTempBegin, JobDone
    <2>2. RouteOK'
      BY <1>2, <1>D, <1>W DEF RouteOK, Phases, routeVars, HostTempBegin, JobDone
    <2>3. VmOK'
      BY <1>2 DEF VmOK, Sessions, vmVars, HostTempBegin, JobDone
    <2>4. QueueOK'
      BY <1>2 DEF QueueOK, armVars, tempVars, inVars, HostTempBegin, JobDone
    <2>5. HeldOK'
      BY <1>2 DEF HeldOK, JobOK, QueueOK, jobVars, tempVars, HostTempBegin, JobDone
    <2> QED
      BY <2>1, <2>2, <2>3, <2>4, <2>5 DEF TypeInv, TypeOK
  <1>3. CASE HostTempCommit
    <2>1. JobOK'
      BY <1>3 DEF JobOK, Statuses, Stages, Events, jobVars, HostTempCommit, JobDone
    <2>2. RouteOK'
      BY <1>3, <1>D, <1>W, Constants DEF RouteOK, Phases, routeVars, HostTempCommit,
         JobDone, HeldOK
    <2>3. VmOK'
      BY <1>3 DEF VmOK, Sessions, vmVars, HostTempCommit, JobDone
    <2>4. QueueOK'
      BY <1>3 DEF QueueOK, armVars, tempVars, inVars, HostTempCommit, JobDone
    <2>5. HeldOK'
      BY <1>3 DEF HeldOK, JobOK, QueueOK, jobVars, tempVars, HostTempCommit, JobDone
    <2> QED
      BY <2>1, <2>2, <2>3, <2>4, <2>5 DEF TypeInv, TypeOK
  <1>4. CASE HostKey
    <2>1. JobOK'
      BY <1>4 DEF JobOK, Statuses, Stages, Events, jobVars, HostKey, StartEvent
    <2>2. RouteOK'
      BY <1>4 DEF RouteOK, Phases, routeVars, HostKey, StartEvent
    <2>3. VmOK'
      BY <1>4 DEF VmOK, Sessions, vmVars, HostKey, StartEvent, RouteOK, Ref
    <2>4. QueueOK'
      BY <1>4 DEF QueueOK, armVars, tempVars, inVars, HostKey, StartEvent
    <2>5. HeldOK'
      BY <1>4 DEF HeldOK, JobOK, QueueOK, jobVars, tempVars, HostKey, StartEvent
    <2> QED
      BY <2>1, <2>2, <2>3, <2>4, <2>5 DEF TypeInv, TypeOK
  <1>5. CASE \E a \in Apps : HostEvent(a)
    <2>1. JobOK'
      BY <1>5 DEF JobOK, Statuses, Stages, Events, jobVars, HostEvent, StartEvent
    <2>2. RouteOK'
      BY <1>5 DEF RouteOK, Phases, routeVars, HostEvent, StartEvent
    <2>3. VmOK'
      BY <1>5 DEF VmOK, Sessions, vmVars, HostEvent, StartEvent
    <2>4. QueueOK'
      BY <1>5 DEF QueueOK, armVars, tempVars, inVars, HostEvent, StartEvent
    <2>5. HeldOK'
      BY <1>5 DEF HeldOK, JobOK, QueueOK, jobVars, tempVars, HostEvent, StartEvent
    <2> QED
      BY <2>1, <2>2, <2>3, <2>4, <2>5 DEF TypeInv, TypeOK
  <1>6. CASE HostReset
    <2>1. JobOK' /\ RouteOK' /\ VmOK'
      BY <1>6, CleanType DEF HostReset, JobOK
    <2>2. QueueOK'
      BY <1>6, CleanType DEF HostReset, QueueOK, inVars, CleanRuntime
    <2>3. HeldOK'
      BY <1>6, CleanType DEF HostReset, HeldOK
    <2> QED
      BY <2>1, <2>2, <2>3
  <1>7. CASE \E a \in Apps : UploadComplete(a)
    <2>1. JobOK'
      BY <1>7 DEF JobOK, Statuses, Stages, Events, jobVars, UploadComplete
    <2>2. RouteOK'
      BY <1>7 DEF RouteOK, Phases, routeVars, UploadComplete
    <2>3. VmOK'
      BY <1>7 DEF VmOK, Sessions, vmVars, UploadComplete
    <2>4. QueueOK'
      BY <1>7 DEF QueueOK, armVars, tempVars, inVars, UploadComplete
    <2>5. HeldOK'
      BY <1>7 DEF HeldOK, JobOK, QueueOK, jobVars, tempVars, UploadComplete
    <2> QED
      BY <2>1, <2>2, <2>3, <2>4, <2>5 DEF TypeInv, TypeOK
  <1>8. CASE PowerLoss
    BY <1>8, PowerCycleType DEF PowerLoss, QueueOK
  <1> HIDE DEF TypeInv
  <1> QED
    BY <1>1, <1>2, <1>3, <1>4, <1>5, <1>6, <1>7, <1>8 DEF Host

(* A boot.                                                                 *)
LEMMA BootType ==
    ASSUME TypeInv, BootRoot \/ BootWake
    PROVE TypeInv'
  <1> USE DEF TypeInv, TypeOK
  <1>1. CASE BootRoot
    <2>1. Started
      BY <1>1, Constants, StartJobType, NoStartType DEF BootRoot, Events, JobOK, VmOK
    <2>2. RouteOK' /\ QueueOK'
      BY <1>1, <2>1 DEF BootRoot, Started, RouteOK, QueueOK, armVars, tempVars, inVars
    <2>3. HeldOK'
      BY <1>1, <2>1 DEF BootRoot, Started, HeldOK, tempVars
    <2> QED
      BY <2>1, <2>2, <2>3 DEF Started
  <1>2. CASE BootWake
    <2>1. resume \in Resume /\ InstalledRef(resume.app) \in Ref
      BY <1>2, Constants DEF BootWake, HeldOK, Resume
    <2>2. Started
      BY <1>2, <2>1, Constants, StartJobType DEF BootWake, Events
    <2>3. ASSUME RestoreRoute
          PROVE stack' \in Bounded(Ref) /\ armed' \in [Apps -> TimerKinds]
      <3> DEFINE s == resume.stack
      <3>1. s \in Seq(Apps) /\ Len(s) \in Nat /\ Len(s) <= ReturnStackMax /\ DOMAIN s = 1..Len(s)
        BY <2>1, Constants DEF Resume, Bounded
      <3>2. stack' = [i \in 1..Len(s) |-> InstalledRef(s[i])]
        BY <2>3, <3>1 DEF RestoreRoute
      <3> HIDE DEF s
      <3>3. \A i \in 1..Len(s) : InstalledRef(s[i]) \in Ref
        BY <3>1, Constants
      <3>4. stack' \in Seq(Ref) /\ Len(stack') = Len(s)
        BY <3>1, <3>2, <3>3
      <3>5. QED
        BY <2>3, <3>1, <3>4 DEF RestoreRoute, Bounded
    <2>4. RouteOK'
      BY <1>2, <2>2, <2>3 DEF BootWake, Started, RouteOK
    <2>5. QueueOK'
      BY <1>2, <2>3 DEF BootWake, RestoreRoute, QueueOK, tempVars, inVars
    <2>6. HeldOK'
      BY <1>2, <2>2 DEF BootWake, Started, HeldOK, tempVars
    <2> QED
      BY <2>2, <2>4, <2>5, <2>6 DEF Started
  <1> QED
    BY <1>1, <1>2

-----------------------------------------------------------------------------
(* The inductive invariant.                                                *)
LEMMA TypeInvariant == Spec => []TypeInv
  <1>1. Init => TypeInv
    <2> SUFFICES ASSUME Init PROVE TypeInv
      OBVIOUS
    <2>1. NoTimers \in [Apps -> TimerKinds] /\ <<>> \in Bounded(Ref)
      BY Constants DEF NoTimers, TimerKinds, Bounded
    <2>2. JobOK /\ RouteOK /\ VmOK
      BY <2>1 DEF Init, JobOK, RouteOK, VmOK, Statuses, Stages, Events, Phases, Sessions
    <2>3. QueueOK /\ HeldOK
      BY <2>1, LifecycleAssumption DEF Init, QueueOK, HeldOK
    <2>4. QED
      BY <2>2, <2>3 DEF TypeInv, TypeOK
  <1>2. TypeInv /\ [Next]_vars => TypeInv'
    <2> SUFFICES ASSUME TypeInv, [Next]_vars PROVE TypeInv'
      OBVIOUS
    <2>1. CASE UNCHANGED vars
      <3> USE <2>1 DEF vars, jobVars, routeVars, armVars, vmVars, tempVars, inVars,
                       TypeInv, TypeOK
      <3>1. JobOK' /\ RouteOK'
        BY DEF JobOK, RouteOK
      <3>2. VmOK' /\ QueueOK' /\ HeldOK'
        BY DEF VmOK, QueueOK, HeldOK
      <3>3. QED
        BY <3>1, <3>2
    <2>2. CASE Next
      BY <2>2, PollType, HostType, BootType, CallsType, ProgressType DEF Next
    <2>3. QED
      BY <2>1, <2>2
  <1>3. QED
    BY <1>1, <1>2, PTL DEF Spec

(* The variables keep their types, and the return stack its bound, in      *)
(* every behaviour (struct sq_vm_runtime, the temp session, the flash).    *)
THEOREM TypeCorrect == Spec => []TypeOK
  <1>1. TypeInv => TypeOK
    BY DEF TypeInv
  <1>2. QED
    BY <1>1, TypeInvariant, PTL

-----------------------------------------------------------------------------
(* The routes of the lifecycle: temp apps, sleep and installs.             *)

(* References to temp apps, to installed apps and no reference differ.     *)
LEMMA RefsDiffer ==
    ASSUME NEW a \in Apps, NEW b
    PROVE /\ TempRef(a) # InstalledRef(b) /\ TempRef(a) # NoApp
          /\ TempRef(a) = TempRef(b) => a = b
  <1>1. TempRef(a) \in Ref
    BY DEF TempRef, Ref
  <1>2. TempRef(a) # NoApp
    BY <1>1, Constants
  <1>3. TempRef(a).temp = TRUE /\ InstalledRef(b).temp = FALSE
    BY DEF TempRef, InstalledRef
  <1>4. TempRef(a).app = a /\ TempRef(b).app = b
    BY DEF TempRef
  <1>5. QED
    BY <1>2, <1>3, <1>4

(* push_return adds its argument and nothing else.                         *)
LEMMA PushRoutes ==
    ASSUME RouteOK, NEW r, NEW i \in DOMAIN Pushed(r)
    PROVE Pushed(r)[i] = r \/ \E j \in DOMAIN stack : Pushed(r)[i] = stack[j]
  <1>1. stack \in Seq(Ref)
    BY DEF RouteOK, Bounded
  <1>2. CASE r = NoApp
    BY <1>2 DEF Pushed
  <1>3. CASE r # NoApp
    BY <1>1, <1>3 DEF Pushed
  <1>4. QED
    BY <1>2, <1>3

(* pop_return leads to main or to an app of the stack, and adds nothing.   *)
LEMMA PopRoutes ==
    ASSUME RouteOK
    PROVE /\ Top = InstalledRef(Main) \/ \E j \in DOMAIN stack : Top = stack[j]
          /\ \A i \in DOMAIN Popped : \E j \in DOMAIN stack : Popped[i] = stack[j]
  <1>1. CASE stack = <<>>
    BY <1>1 DEF Top, Popped
  <1>2. CASE stack # <<>>
    <2> DEFINE n == Len(stack) - 1
    <2>1. stack \in Seq(Ref) /\ n \in Nat /\ Len(stack) = n + 1
      BY <1>2 DEF RouteOK, Bounded
    <2>2. DOMAIN stack = 1..(n + 1) /\ Len(stack) \in DOMAIN stack
      BY <2>1
    <2>3. \A i \in DOMAIN SubSeq(stack, 1, n) :
             i \in DOMAIN stack /\ SubSeq(stack, 1, n)[i] = stack[i]
      BY <2>1
    <2>4. QED
      BY <1>2, <2>2, <2>3 DEF Top, Popped
  <1>3. QED
    BY <1>1, <1>2

(* A start makes at most its own app the foreground app.                   *)
LEMMA StartCurrent ==
    ASSUME NEW r, NEW ev, NEW sc, StartJob(r, ev, sc) \/ StartFails(r, sc) \/ NoStart
    PROVE current' \in {current, r}
  BY DEF StartJob, StartFails, NoStart

-----------------------------------------------------------------------------
(* Most steps give the firmware no new route to a temp app.                *)
NoNewRoute == \A a \in Apps : Routed(TempRef(a))' => Routed(TempRef(a))

(* Without a new temp route the staged program is still the one.           *)
LEMMA KeptRoutes ==
    ASSUME TempRoutesStaged, NoNewRoute, staged' = staged
    PROVE TempRoutesStaged'
  BY DEF TempRoutesStaged, NoNewRoute, TempRef

(* What a step may write into a route: an app that has one, an installed   *)
(* app, or none.                                                           *)
Known(r) == Routed(r) \/ r = NoApp \/ \E b : r = InstalledRef(b)

(* A step that writes known references only makes no new temp route.       *)
LEMMA KnownRoutes ==
    ASSUME Known(current'), Known(target'), \A i \in DOMAIN stack' : Known(stack'[i])
    PROVE NoNewRoute
  <1> SUFFICES ASSUME NEW a \in Apps, Routed(TempRef(a))' PROVE Routed(TempRef(a))
    BY DEF NoNewRoute
  <1>1. Known(TempRef(a))
    BY DEF Routed, TempRef
  <1>2. QED
    BY <1>1, RefsDiffer DEF Known

(* What is in the routes now is known, and so is any installed app.        *)
LEMMA KnownNow ==
    /\ Known(current) /\ Known(target) /\ Known(NoApp) /\ \A b : Known(InstalledRef(b))
    /\ \A i \in DOMAIN stack : Known(stack[i])
  BY DEF Known, Routed

(* The routes a push or a pop leaves are known.                            *)
LEMMA PushKnown ==
    ASSUME RouteOK, NEW r, Known(r)
    PROVE \A i \in DOMAIN Pushed(r) : Known(Pushed(r)[i])
  BY PushRoutes, KnownNow

(* A pop leaves known references and leads to one.                         *)
LEMMA PopKnown ==
    ASSUME RouteOK
    PROVE Known(Top) /\ \A i \in DOMAIN Popped : Known(Popped[i])
  BY PopRoutes, KnownNow

(* StartTarget makes the target the foreground app, or leaves it alone.    *)
LEMMA TargetKnown ==
    ASSUME NEW failed, StartTarget(failed)
    PROVE Known(current') /\ Known(target')
  <1>1. current' \in {current, target}
    BY StartCurrent DEF StartTarget
  <1>2. QED
    BY <1>1, KnownNow DEF StartTarget

(* A due event pushes the foreground app and starts an installed one.      *)
LEMMA DueEventKnown ==
    ASSUME RouteOK, NEW a, NEW ev, DueEvent(a, ev)
    PROVE Known(current') /\ \A i \in DOMAIN stack' : Known(stack'[i])
  <1>1. current' \in {current, InstalledRef(a)}
    BY StartCurrent DEF DueEvent
  <1>2. stack' \in {stack, Pushed(current)}
    BY DEF DueEvent
  <1>3. QED
    BY <1>1, <1>2, KnownNow, PushKnown

-----------------------------------------------------------------------------
(* TEMP_RUN_BEGIN and TEMP_RUN_COMMIT aside, a step that keeps the staged  *)
(* program makes no new route to a temp app.                               *)
LEMMA PollRoutes ==
    ASSUME RouteOK, Poll, power' = power
    PROVE NoNewRoute /\ staged' = staged
  <1> USE KnownNow
  <1>1. CASE PollInstall
    BY <1>1, KnownRoutes DEF PollInstall, routeVars, tempVars
  <1>2. CASE PollReturn
    <2>1. Known(current') /\ Known(target') /\ \A i \in DOMAIN stack' : Known(stack'[i])
      BY <1>2, StartCurrent, PopKnown DEF PollReturn
    <2>2. QED
      BY <1>2, <2>1, KnownRoutes DEF PollReturn, tempVars
  <1>3. CASE PollLaunchExit
    <2>1. current' = current /\ target' \in {target, NoApp}
      BY <1>3, StartCurrent DEF PollLaunchExit, DropLaunch
    <2>2. QED
      BY <1>3, <2>1, KnownRoutes DEF PollLaunchExit, tempVars
  <1>4. CASE PollLaunchDirect
    <2>1. Known(current') /\ Known(target')
      BY <1>4, TargetKnown DEF PollLaunchDirect
    <2>2. stack' \in {stack, Pushed(InstalledRef(Main))}
      BY <1>4, Constants DEF PollLaunchDirect, Pushed
    <2>3. QED
      BY <1>4, <2>1, <2>2, PushKnown, KnownRoutes DEF PollLaunchDirect, tempVars
  <1>5. CASE PollLaunchTarget
    <2>1. Known(current') /\ Known(target')
      BY <1>5, TargetKnown DEF PollLaunchTarget, NoStart, DropLaunch
    <2>2. stack' \in {stack, Pushed(current)}
      BY <1>5 DEF PollLaunchTarget
    <2>3. QED
      BY <1>5, <2>1, <2>2, PushKnown, KnownRoutes DEF PollLaunchTarget, tempVars
  <1>6. CASE PollSleep
    <2>1. current' = current /\ target' \in {target, NoApp}
      BY <1>6, StartCurrent DEF PollSleep, DropLaunch
    <2>2. QED
      BY <1>6, <2>1, KnownRoutes DEF PollSleep, tempVars
  <1>7. CASE PollCheckpoint
    <2>1. power # "wake" /\ ~Sleeps
      BY <1>7 DEF PollCheckpoint, NextStep, Polling, Sleeps, PowerCycle
    <2>2. QED
      BY <1>7, <2>1, KnownRoutes DEF PollCheckpoint, StaysAwake, tempVars
  <1>8. CASE \E a \in Apps : PollArmedTimer(a)
    BY <1>8, DueEventKnown, KnownRoutes DEF PollArmedTimer, tempVars
  <1>9. CASE PollUpload
    BY <1>9, DueEventKnown, KnownRoutes DEF PollUpload, tempVars
  <1>10. CASE PollArm
    BY <1>10, KnownRoutes DEF PollArm, routeVars, tempVars
  <1>11. CASE PollForeground
    BY <1>11, KnownRoutes DEF PollForeground, routeVars, tempVars
  <1>12. QED
    BY <1>1, <1>2, <1>3, <1>4, <1>5, <1>6, <1>7, <1>8, <1>9, <1>10, <1>11 DEF Poll

(* The worker writes no route but the target of an app.launch.             *)
WorkerRoute ==
    /\ current' = current /\ stack' = stack /\ staged' = staged
    /\ target' \in {target, NoApp, InstalledRef(asking)}

(* So a worker step makes no new temp route.                               *)
LEMMA WorkerRoutes ==
    ASSUME Calls \/ Progress
    PROVE NoNewRoute /\ staged' = staged
  <1> USE DEF WorkerRoute, routeVars, tempVars
  <1>1. ASSUME \E a \in Apps : CallLaunch(a) PROVE WorkerRoute
    BY <1>1 DEF CallLaunch
  <1>2. ASSUME \E a \in Apps : CallArm(a) PROVE WorkerRoute
    BY <1>2 DEF CallArm
  <1>3. ASSUME \E a \in Apps : CallDisarm(a) PROVE WorkerRoute
    BY <1>3 DEF CallDisarm
  <1>4. ASSUME \E a \in Apps : CallInstall(a) PROVE WorkerRoute
    BY <1>4 DEF CallInstall
  <1>5. ASSUME CallSleep PROVE WorkerRoute
    BY <1>5 DEF CallSleep
  <1>6. ASSUME CallTimer PROVE WorkerRoute
    BY <1>6 DEF CallTimer
  <1>7. ASSUME WorkerPrepareFails PROVE WorkerRoute
    BY <1>7 DEF WorkerPrepareFails
  <1>8. ASSUME WorkerEnters PROVE WorkerRoute
    BY <1>8 DEF WorkerEnters
  <1>9. ASSUME WorkerStartFails PROVE WorkerRoute
    BY <1>9 DEF WorkerStartFails, CancelPending
  <1>10. ASSUME LaunchWritten PROVE WorkerRoute
    BY <1>10 DEF LaunchWritten
  <1>11. ASSUME SleepWritten PROVE WorkerRoute
    BY <1>11 DEF SleepWritten
  <1>12. ASSUME WorkerFinishes PROVE WorkerRoute
    BY <1>12 DEF WorkerFinishes
  <1>13. ASSUME WorkerFails PROVE WorkerRoute
    BY <1>13 DEF WorkerFails, CancelPending
  <1>14. WorkerRoute
    BY <1>1, <1>2, <1>3, <1>4, <1>5, <1>6, <1>7, <1>8, <1>9, <1>10, <1>11, <1>12, <1>13
       DEF Calls, Progress
  <1>15. QED
    BY <1>14, KnownNow, KnownRoutes

(* A boot starts installed apps, and restores installed apps.              *)
LEMMA BootRoutes ==
    ASSUME BootRoot \/ BootWake
    PROVE NoNewRoute /\ staged' = staged
  <1> USE KnownNow
  <1>1. CASE BootRoot
    <2>1. target' = target /\ stack' = stack /\ staged' = staged
      BY <1>1 DEF BootRoot, tempVars
    <2>2. StartJob(InstalledRef(Main), "app.start", TRUE) \/ NoStart
      BY <1>1 DEF BootRoot
    <2>3. current' \in {current, InstalledRef(Main)}
      BY <2>2, StartCurrent
    <2>4. QED
      BY <2>1, <2>3, KnownRoutes
  <1>2. CASE BootWake
    <2>1. target' = target /\ staged' = staged
      BY <1>2 DEF BootWake, tempVars
    <2>2. \/ StartJob(InstalledRef(resume.app), "app.start", TRUE)
          \/ StartJob(InstalledRef(Main), "app.start", TRUE)
      BY <1>2 DEF BootWake
    <2>3. Known(current')
      <3>1. \/ current' \in {current, InstalledRef(resume.app)}
            \/ current' \in {current, InstalledRef(Main)}
        BY <2>2, StartCurrent
      <3>2. QED
        BY <3>1
    <2>4. \A i \in DOMAIN stack' : Known(stack'[i])
      <3>1. CASE RestoreRoute
        BY <3>1 DEF RestoreRoute
      <3>2. CASE stack' = stack
        BY <3>2
      <3>3. QED
        BY <1>2, <3>1, <3>2 DEF BootWake
    <2>5. QED
      BY <2>1, <2>3, <2>4, KnownRoutes
  <1>3. QED
    BY <1>1, <1>2

(* A reset, a planned sleep or a loss of power leaves no route.            *)
LEMMA CleanRoutes ==
    ASSUME CleanRuntime
    PROVE TempRoutesStaged'
  <1>1. \A a \in Apps : ~Routed(TempRef(a))'
    BY RefsDiffer DEF CleanRuntime, Routed, TempRef
  <1>2. QED
    BY <1>1 DEF TempRoutesStaged, TempRef

(* A temp run: after clear_temp_routes no route leads to a temp app, and   *)
(* TEMP_RUN_COMMIT makes one to the staged app.                            *)
LEMMA TempRunRoutes ==
    ASSUME TypeInv, TempRoutesStaged, (\E a \in Apps : HostTempBegin(a)) \/ HostTempCommit
    PROVE TempRoutesStaged'
  <1> DEFINE Cleared == stack' \in WithoutTemp(stack)
  <1>1. ASSUME Cleared, NEW a \in Apps, NEW i \in DOMAIN stack' PROVE stack'[i] # TempRef(a)
    BY <1>1, WithoutTempType DEF TypeInv, TypeOK, RouteOK, TempRef
  <1>2. ASSUME NEW a \in Apps, NEW r \in Ref \cup {NoApp} PROVE DropTemp(r) # TempRef(a)
    BY RefsDiffer DEF DropTemp, TempRef
  <1>3. current \in Ref \cup {NoApp} /\ target \in Ref \cup {NoApp}
    BY DEF TypeInv, TypeOK, RouteOK
  <1> HIDE DEF Cleared
  <1>4. CASE \E a \in Apps : HostTempBegin(a)
    <2>1. Cleared /\ current' = DropTemp(current) /\ target' = DropTemp(target)
      BY <1>4 DEF HostTempBegin, Cleared
    <2>2. \A a \in Apps : ~Routed(TempRef(a))'
      BY <2>1, <1>1, <1>2, <1>3 DEF Routed, TempRef
    <2>3. QED
      BY <2>2 DEF TempRoutesStaged, TempRef
  <1>5. CASE HostTempCommit
    <2>1. staged' = staged /\ staged \in Apps
      BY <1>5 DEF HostTempCommit, TypeInv, HeldOK
    <2>2. CASE UNCHANGED <<current, target, stack>>
      BY <2>1, <2>2 DEF TempRoutesStaged, Routed, TempRef
    <2>3. CASE /\ Cleared /\ current' = DropTemp(current)
               /\ target' \in {TempRef(staged), DropTemp(target)}
      <3>1. \A a \in Apps : Routed(TempRef(a))' => TempRef(a) = TempRef(staged)
        BY <2>3, <1>1, <1>2, <1>3 DEF Routed, TempRef
      <3>2. QED
        BY <2>1, <3>1, RefsDiffer DEF TempRoutesStaged, TempRef
    <2>4. QED
      BY <1>5, <2>2, <2>3 DEF HostTempCommit, Cleared
  <1>6. QED
    BY <1>4, <1>5

(* The frames keep TempRoutesStaged.                                       *)
LEMMA HostRoutes ==
    ASSUME TypeInv, TempRoutesStaged, Host
    PROVE TempRoutesStaged'
  <1> USE KnownNow, KnownRoutes, KeptRoutes
  <1>1. CASE \E a \in Apps : HostLaunch(a)
    <2>1. current' = current /\ stack' = stack /\ Known(target') /\ staged' = staged
      BY <1>1 DEF HostLaunch, tempVars
    <2>2. QED
      BY <2>1
  <1>2. CASE \/ \E a \in Apps : HostEvent(a) \/ UploadComplete(a)
             \/ HostKey
    <2>1. UNCHANGED routeVars /\ staged' = staged
      BY <1>2 DEF HostEvent, UploadComplete, HostKey, tempVars
    <2>2. QED
      BY <2>1 DEF routeVars
  <1>3. CASE HostReset \/ PowerLoss
    BY <1>3, CleanRoutes DEF HostReset, PowerLoss, PowerCycle
  <1>4. QED
    BY <1>1, <1>2, <1>3, TempRunRoutes DEF Host

(* No route leads to a temp app whose program is gone: TEMP_RUN_BEGIN      *)
(* drops every one it replaces (clear_temp_routes, app_lifecycle.c).       *)
THEOREM StagedRoutes == Spec => []TempRoutesStaged
  <1>1. Init => TempRoutesStaged
    BY RefsDiffer DEF Init, TempRoutesStaged, Routed, TempRef
  <1>2. TypeInv /\ TempRoutesStaged /\ [Next]_vars => TempRoutesStaged'
    <2> SUFFICES ASSUME TypeInv, TempRoutesStaged, [Next]_vars PROVE TempRoutesStaged'
      OBVIOUS
    <2>1. RouteOK
      BY DEF TypeInv, TypeOK
    <2>2. CASE UNCHANGED vars
      BY <2>2 DEF vars, routeVars, tempVars, TempRoutesStaged, Routed, TempRef
    <2>3. CASE Poll /\ power' = power
      BY <2>1, <2>3, PollRoutes, KeptRoutes
    <2>4. CASE Poll /\ power' # power
      BY <2>4, CleanRoutes DEF Poll, PollInstall, PollReturn, PollLaunchExit, PollLaunchDirect,
         PollLaunchTarget, PollSleep, PollCheckpoint, Sleeps, StaysAwake, PowerCycle,
         PollArmedTimer, PollUpload, PollArm, PollForeground
    <2>5. CASE Calls \/ Progress \/ BootRoot \/ BootWake
      BY <2>5, WorkerRoutes, BootRoutes, KeptRoutes
    <2>6. QED
      BY <2>2, <2>3, <2>4, <2>5, HostRoutes DEF Next
  <1>3. QED
    BY <1>1, <1>2, TypeInvariant, PTL DEF Spec

-----------------------------------------------------------------------------
(* A planned sleep.  The check of service.power.sleep is made by the       *)
(* worker and used by the main loop several steps later: the invariant     *)
(* ties the worker's stage to the foreground app in between.               *)
NotTemp == current = NoApp \/ ~current.temp
SleepPhase == phase \in {"sleep-requested", "sleep-checkpoint"}
SleepInv ==
    /\ stage # "none" => status = "running"
    /\ stage = "sleeping" \/ SleepPhase => NotTemp

(* A start begins a job or leaves the job as it is.                        *)
Begun ==
    \/ stage' = "starting" /\ status' = "running"
    \/ stage' = stage /\ status' = status

(* Every way a start can end is one of the two.                            *)
LEMMA StartStage ==
    ASSUME NEW r, NEW ev, NEW sc, StartJob(r, ev, sc) \/ StartFails(r, sc) \/ NoStart
    PROVE Begun
  BY DEF StartJob, StartEvent, StartFails, NoStart, jobVars, Begun

(* A poll finds no job, so no handler is between check and write.          *)
LEMMA PollSleepInv ==
    ASSUME SleepInv, Poll
    PROVE SleepInv'
  <1>1. stage = "none" /\ power = "on"
    BY DEF Poll, PollInstall, PollReturn, PollLaunchExit, PollLaunchDirect, PollLaunchTarget,
           PollSleep, PollCheckpoint, PollArmedTimer, PollUpload, PollArm, PollForeground,
           Settled, NextStep, Polling, JobDone, SleepInv
  <1>2. ASSUME Begun, phase' \in {"idle", "exit-for-launch"} PROVE SleepInv'
    BY <1>1, <1>2 DEF SleepInv, SleepPhase, Begun
  <1>3. ASSUME Begun, SleepPhase, current' = current PROVE SleepInv'
    BY <1>1, <1>3 DEF SleepInv, SleepPhase, NotTemp, Begun
  <1>4. ASSUME UNCHANGED <<jobVars, current, phase>> PROVE SleepInv'
    BY <1>4 DEF SleepInv, SleepPhase, NotTemp, jobVars
  <1>5. CASE PollInstall \/ PollArm
    BY <1>4, <1>5 DEF PollInstall, PollArm, routeVars
  <1>6. CASE PollReturn \/ PollLaunchExit
    <2>1. Begun
      BY <1>6, StartStage DEF PollReturn, PollLaunchExit
    <2>2. phase' \in {"idle", "exit-for-launch"}
      BY <1>6 DEF PollReturn, PollLaunchExit, DropLaunch
    <2>3. QED
      BY <2>1, <2>2, <1>2
  <1>7. CASE PollLaunchDirect \/ PollLaunchTarget
    <2>1. Begun
      BY <1>7, StartStage DEF PollLaunchDirect, PollLaunchTarget, StartTarget
    <2>2. phase' = "idle"
      BY <1>7 DEF PollLaunchDirect, PollLaunchTarget, StartTarget, DropLaunch
    <2>3. QED
      BY <2>1, <2>2, <1>2
  <1>8. CASE PollSleep
    <2>1. Begun
      BY <1>8, StartStage DEF PollSleep
    <2>2. SleepPhase /\ current' = current
      BY <1>8, StartCurrent DEF PollSleep, SleepPhase
    <2>3. QED
      BY <2>1, <2>2, <1>3
  <1>9. CASE PollCheckpoint
    <2>1. CASE Sleeps
      BY <2>1 DEF Sleeps, PowerCycle, CleanRuntime, SleepInv, SleepPhase
    <2>2. CASE StaysAwake
      <3>1. Begun /\ phase' = "idle"
        BY <2>2 DEF StaysAwake, jobVars, Begun
      <3>2. QED
        BY <3>1, <1>2
    <2>3. QED
      BY <1>9, <2>1, <2>2 DEF PollCheckpoint
  <1>10. CASE (\E a \in Apps : PollArmedTimer(a)) \/ PollUpload
    <2>1. PICK a, ev : DueEvent(a, ev)
      BY <1>10 DEF PollArmedTimer, PollUpload
    <2>2. Begun
      BY <2>1, StartStage DEF DueEvent
    <2>3. phase' = "idle"
      BY <1>10 DEF PollArmedTimer, PollUpload, Settled
    <2>4. QED
      BY <2>2, <2>3, <1>2
  <1>11. CASE PollForeground
    <2>1. Begun /\ phase' = "idle"
      BY <1>11 DEF PollForeground, StartEvent, Settled, routeVars, Begun
    <2>2. QED
      BY <2>1, <1>2
  <1>12. QED
    BY <1>5, <1>6, <1>7, <1>8, <1>9, <1>10, <1>11 DEF Poll

(* A frame keeps the foreground app, drops a temp one, or resets.          *)
LEMMA HostSleepInv ==
    ASSUME SleepInv, Host
    PROVE SleepInv'
  <1>1. ASSUME Begun, phase' \in {phase, "launch-requested"},
               current' \in {current, DropTemp(current)}
        PROVE SleepInv'
    BY <1>1 DEF SleepInv, SleepPhase, NotTemp, DropTemp, Begun
  <1>2. CASE HostReset \/ PowerLoss
    BY <1>2 DEF HostReset, PowerLoss, PowerCycle, CleanRuntime, SleepInv, SleepPhase
  <1>3. CASE \E a \in Apps : HostLaunch(a) \/ HostTempBegin(a) \/ UploadComplete(a)
    <2>1. stage' = stage /\ status' = status
      BY <1>3 DEF HostLaunch, HostTempBegin, UploadComplete, jobVars
    <2>2. phase' \in {phase, "launch-requested"} /\ current' \in {current, DropTemp(current)}
      BY <1>3 DEF HostLaunch, HostTempBegin, UploadComplete, routeVars
    <2>3. QED
      BY <2>1, <2>2, <1>1 DEF Begun
  <1>4. CASE HostTempCommit
    <2>1. stage' = stage /\ status' = status
      BY <1>4 DEF HostTempCommit, jobVars
    <2>2. phase' \in {phase, "launch-requested"} /\ current' \in {current, DropTemp(current)}
      BY <1>4 DEF HostTempCommit
    <2>3. QED
      BY <2>1, <2>2, <1>1 DEF Begun
  <1>5. CASE HostKey \/ \E a \in Apps : HostEvent(a)
    <2>1. Begun
      BY <1>5 DEF HostKey, HostEvent, StartEvent, jobVars, Begun
    <2>2. phase' = phase /\ current' = current
      BY <1>5 DEF HostKey, HostEvent, routeVars
    <2>3. QED
      BY <2>1, <2>2, <1>1
  <1>6. QED
    BY <1>2, <1>3, <1>4, <1>5 DEF Host

(* A boot starts an installed app; the worker checks before it writes.     *)
LEMMA BootSleepInv ==
    ASSUME SleepInv, BootRoot \/ BootWake
    PROVE SleepInv'
  <1>1. Begun
    BY StartStage DEF BootRoot, BootWake
  <1>2. phase' = phase /\ (current' = current \/ \E a : current' = InstalledRef(a))
    BY DEF BootRoot, BootWake, StartJob, NoStart
  <1>3. QED
    BY <1>1, <1>2 DEF SleepInv, SleepPhase, NotTemp, InstalledRef, Begun

(* A call or a step of the worker; CallSleep makes the check.              *)
LEMMA WorkerSleepInv ==
    ASSUME SleepInv, Calls \/ Progress
    PROVE SleepInv'
  <1> USE DEF SleepInv, SleepPhase, NotTemp, Working, Calling, routeVars
  <1>1. ASSUME NEW a \in Apps, CallLaunch(a) PROVE SleepInv'
    BY <1>1 DEF CallLaunch, Refused
  <1>2. ASSUME NEW a \in Apps, CallArm(a) PROVE SleepInv'
    BY <1>2 DEF CallArm, Refused
  <1>3. ASSUME NEW a \in Apps, CallDisarm(a) \/ CallInstall(a) PROVE SleepInv'
    BY <1>3 DEF CallDisarm, CallInstall, jobVars
  <1>4. CASE CallSleep
    BY <1>4 DEF CallSleep, SleepRefused, Refused
  <1>5. CASE CallTimer
    BY <1>5 DEF CallTimer, jobVars
  <1>6. CASE WorkerPrepareFails \/ WorkerFinishes
    BY <1>6 DEF WorkerPrepareFails, WorkerFinishes, EndJob
  <1>7. CASE WorkerEnters
    BY <1>7 DEF WorkerEnters
  <1>8. CASE WorkerStartFails
    BY <1>8 DEF WorkerStartFails, EndJob, CancelPending
  <1>9. CASE LaunchWritten
    BY <1>9 DEF LaunchWritten
  <1>10. CASE SleepWritten
    BY <1>10 DEF SleepWritten
  <1>11. CASE WorkerFails
    BY <1>11 DEF WorkerFails, EndJob, CancelPending
  <1>12. QED
    BY <1>1, <1>2, <1>3, <1>4, <1>5, <1>6, <1>7, <1>8, <1>9, <1>10, <1>11 DEF Calls, Progress

(* The worker has a stage only while its job runs, and its check of a      *)
(* sleep stays good until it writes.                                       *)
LEMMA SleepInvariant == Spec => []SleepInv
  <1>1. Init => SleepInv
    BY DEF Init, SleepInv, SleepPhase
  <1>2. SleepInv /\ [Next]_vars => SleepInv'
    <2> SUFFICES ASSUME SleepInv, [Next]_vars PROVE SleepInv'
      OBVIOUS
    <2>1. CASE UNCHANGED vars
      BY <2>1 DEF vars, jobVars, routeVars, SleepInv, SleepPhase, NotTemp
    <2>2. CASE Next
      BY <2>2, PollSleepInv, HostSleepInv, BootSleepInv, WorkerSleepInv DEF Next
    <2>3. QED
      BY <2>1, <2>2
  <1>3. QED
    BY <1>1, <1>2, PTL DEF Spec

(* No temp app is in the foreground while a planned sleep is under way:    *)
(* the wake boot can start the app the record names (request_sleep).       *)
THEOREM SleepingInstalled == Spec => []SleepNeedsInstalled
  <1>1. SleepInv => SleepNeedsInstalled
    BY DEF SleepInv, SleepPhase, NotTemp, SleepNeedsInstalled
  <1>2. QED
    BY <1>1, SleepInvariant, PTL

-----------------------------------------------------------------------------
(* Deferred installs.  A boot starts an app without looking at the queue,  *)
(* so it matters that no install is pending while the device is off.       *)
InstallInv == power # "on" => install = NoApp

(* Every step keeps the queue of a device that is off empty.               *)
LEMMA InstallInvKept ==
    ASSUME InstallInv, [Next]_vars
    PROVE InstallInv'
  <1> USE DEF InstallInv, inVars
  <1>1. CASE UNCHANGED vars
    BY <1>1 DEF vars
  <1>2. CASE Poll
    BY <1>2 DEF Poll, PollInstall, PollReturn, PollLaunchExit, PollLaunchDirect,
       PollLaunchTarget, PollSleep, PollCheckpoint, Sleeps, StaysAwake, PowerCycle,
       PollArmedTimer, PollUpload, PollArm, PollForeground, NextStep, Polling, Settled
  <1>3. CASE Host
    BY <1>3 DEF Host, Frame, HostLaunch, HostTempBegin, HostTempCommit, HostKey, HostEvent,
       HostReset, UploadComplete, PowerLoss, PowerCycle
  <1>4. CASE Calls \/ BootRoot \/ BootWake
    BY <1>4 DEF Calls, Calling, Working, CallLaunch, CallArm, CallDisarm, CallInstall,
       CallSleep, CallTimer, BootRoot, BootWake
  <1>5. CASE Progress
    BY <1>5 DEF Progress, Working, WorkerPrepareFails, WorkerEnters, WorkerStartFails,
       LaunchWritten, SleepWritten, WorkerFinishes, WorkerFails
  <1>6. QED
    BY <1>1, <1>2, <1>3, <1>4, <1>5 DEF Next

(* An app installed by a handler is installed before the app that handler  *)
(* launches, or any other, gets the foreground (perform_pending_install    *)
(* comes first in sq_device_protocol_poll).                                *)
THEOREM InstallsFirst == Spec => InstallFirst
  <1> DEFINE Foreground == install # NoApp => current' \in {current, NoApp}
  <1>1. Init => InstallInv
    BY DEF Init, InstallInv
  <1>2. InstallInv /\ [Next]_vars => [Foreground]_vars
    <2> SUFFICES ASSUME InstallInv, Next, install # NoApp PROVE current' \in {current, NoApp}
      OBVIOUS
    <2>1. CASE Poll
      BY <2>1 DEF Poll, PollInstall, PollReturn, PollLaunchExit, PollLaunchDirect,
         PollLaunchTarget, PollSleep, PollCheckpoint, PollArmedTimer, PollUpload, PollArm,
         PollForeground, NextStep, Settled, routeVars
    <2>2. CASE Host
      BY <2>2 DEF Host, HostLaunch, HostTempBegin, HostTempCommit, HostKey, HostEvent,
         HostReset, UploadComplete, PowerLoss, PowerCycle, CleanRuntime, DropTemp, routeVars
    <2>3. CASE Calls \/ Progress
      <3>1. current' = current
        BY <2>3 DEF Calls, Progress, CallLaunch, CallArm, CallDisarm, CallInstall, CallSleep,
           CallTimer, WorkerPrepareFails, WorkerEnters, WorkerStartFails, LaunchWritten,
           SleepWritten, WorkerFinishes, WorkerFails, routeVars
      <3>2. QED
        BY <3>1
    <2>4. CASE BootRoot \/ BootWake
      BY <2>4 DEF InstallInv, BootRoot, BootWake
    <2>5. QED
      BY <2>1, <2>2, <2>3, <2>4 DEF Next
  <1>3. QED
    BY <1>1, <1>2, InstallInvKept, PTL DEF Spec, InstallFirst
=============================================================================
