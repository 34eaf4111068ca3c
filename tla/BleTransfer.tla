---------------------------- MODULE BleTransfer ----------------------------
(***************************************************************************)
(* BLE file transfer: ble_file_transfer.c and ble_file_transfer_core.c,    *)
(* the host calls ble.start and ble.stop, and the consumer of a complete   *)
(* file in device_protocol.c (deliver, handler, deferred install).         *)
(*                                                                         *)
(* Three threads.  The Bluetooth thread runs the GATT callbacks and has    *)
(* the highest priority, so a callback is one step.  The main loop polls.  *)
(* The VM worker has the lowest priority: a callback or a frame can come   *)
(* between any two of its steps, also within ble.stop.                     *)
(*                                                                         *)
(* Bytes are counted in chunks.  A transfer is identified by a number that *)
(* the code does not have, in order to say whose bytes a file holds.       *)
(***************************************************************************)
EXTENDS Naturals

CONSTANTS
    Apps,          \* app ids
    Main,          \* the root app, which the firmware contains as a fallback
    NoApp,         \* no foreground app, or one that cannot receive (a temp run)
    FallbackSlot,  \* SQ_APP_REGISTRY_SLOT_FALLBACK
    NoSlot,        \* SQ_APP_REGISTRY_SLOT_INVALID; an empty path
    NoFile,        \* there is no such file
    Size,          \* chunks of a file
    MaxTransfers   \* how many transfers a behaviour begins (a bound)

Slots == Apps \cup {FallbackSlot}

(* The special values are no apps and no slots; a file is not empty.       *)
ASSUME TransferAssumption ==
    /\ Main \in Apps /\ NoApp \notin Apps
    /\ FallbackSlot \notin Apps /\ NoSlot \notin Slots
    /\ Size \in Nat \ {0} /\ MaxTransfers \in Nat

Ids == 1..MaxTransfers
Content == [id : Ids, size : 0..Size]
Whole(i) == [id |-> i, size |-> Size]

ASSUME NoFileAssumption == NoFile \notin Content

VARIABLES
    connected,   \* whether a client is connected
    framed,      \* sq_ble_framed: "off", "naming" or (name_done) "content"
    offset,      \* sq_ble_framed.content_off
    session,     \* sq_ble_file_transfer_session
    pending,     \* sq_ble_file_transfer_pending
    begun,       \* transfers that have opened their staging file
    file,        \* the staging file of each slot
    route,       \* slot of the only entry of the profile table
    registered,  \* apps in the registry
    current,     \* foreground app
    job,         \* what the VM worker does
    payload,     \* whether the runtime has pending event fields
    upload,      \* staging path the running handler was given
    install,     \* pending_install.file_ref
    installed    \* the contents that were renamed into the app store

btVars == <<connected, framed, offset, session, pending, begun>>
appVars == <<route, registered, current, job, payload, upload, install, installed>>
vars == <<btVars, file, appVars>>

NoSession == [active |-> FALSE, slot |-> NoSlot, path |-> NoSlot, open |-> FALSE, id |-> 0]
NoPending == [active |-> FALSE, slot |-> NoSlot, path |-> NoSlot, id |-> 0]

Stopping == job \in {"closing", "unlinking", "clearing"}

(* Paths are named by the slot: every transfer to a slot uses one path.    *)
BleTypeOK ==
    /\ connected \in BOOLEAN
    /\ framed \in {"off", "naming", "content"} /\ offset \in 0..Size
    /\ session \in [active : BOOLEAN, slot : Slots \cup {NoSlot},
                    path : Slots \cup {NoSlot}, open : BOOLEAN, id : 0..MaxTransfers]
    /\ pending \in [active : BOOLEAN, slot : Slots \cup {NoSlot},
                    path : Slots \cup {NoSlot}, id : 0..MaxTransfers]
    /\ begun \in 0..MaxTransfers
    /\ file \in [Slots -> Content \cup {NoFile}]
    /\ route \in Slots \cup {NoSlot}
    /\ registered \in SUBSET Apps /\ current \in Apps \cup {NoApp}
    /\ job \in {"idle", "starting", "handler", "closing", "unlinking", "clearing"}
    /\ payload \in BOOLEAN
    /\ upload \in Slots \cup {NoSlot} /\ install \in Slots \cup {NoSlot}
    /\ installed \in SUBSET Content

-----------------------------------------------------------------------------
(* The Bluetooth thread.                                                   *)

Unlinked(s) == IF s = NoSlot THEN file ELSE [file EXCEPT ![s] = NoFile]

(* sq_ble_file_transfer_abort, run in one go by a callback.                *)
Abort ==
    /\ framed' = "off" /\ offset' = 0
    /\ file' = Unlinked(session.path)
    /\ session' = NoSession

Connect ==
    /\ ~connected /\ connected' = TRUE
    /\ UNCHANGED <<framed, offset, session, pending, begun, file, appVars>>

(* The disconnected callback resets the transport, then the session.       *)
Disconnect ==
    /\ connected /\ connected' = FALSE
    /\ Abort
    /\ UNCHANGED <<pending, begun, appVars>>

(* BEGIN: refused while a session or a framing is active.                  *)
BeginFramed ==
    /\ connected /\ ~session.active /\ framed = "off"
    /\ framed' = "naming" /\ offset' = 0
    /\ UNCHANGED <<connected, session, pending, begun, file, appVars>>

(* The app that a slot stands for.                                         *)
AppAt(s) == IF s = FallbackSlot THEN Main
            ELSE IF s \in registered THEN s ELSE NoApp

(* The last NAME write: the name is routed by the profile table and the    *)
(* staging file is created or truncated.                                   *)
FeedName ==
    /\ connected /\ framed = "naming" /\ ~session.active
    /\ route # NoSlot /\ AppAt(route) # NoApp
    /\ begun < MaxTransfers
    /\ begun' = begun + 1
    /\ framed' = "content"
    /\ session' = [active |-> TRUE, slot |-> route, path |-> route,
                   open |-> TRUE, id |-> begun + 1]
    /\ file' = [file EXCEPT ![route] = [id |-> begun + 1, size |-> 0]]
    /\ UNCHANGED <<connected, offset, pending, appVars>>

(* Whether this chunk is the last one, and its mutants: one too early, and *)
(* only when the client sends more than it announced.                      *)
LastButOne == offset + 2 >= Size
OneTooMany == offset = Size
LastChunk == offset + 1 = Size

(* The file a session writes to; a file that was renamed or removed while  *)
(* it is open takes the bytes with it.                                     *)
Attached == session.path # NoSlot /\ file[session.path] # NoFile
            /\ file[session.path].id = session.id
Written == IF Attached THEN [file EXCEPT ![session.path].size = @ + 1] ELSE file

(* The path of a session after the hand-off of its file to the pending     *)
(* event.  The mutant does not detach it.                                  *)
KeptPath == session.path
DetachedPath == NoSlot

(* A content chunk; the last one publishes the pending event.  The session *)
(* stays active until the client aborts or disconnects.                    *)
FeedContent ==
    /\ connected /\ framed = "content" /\ session.active /\ session.open
    /\ offset' = offset + 1
    /\ file' = Written
    /\ IF LastChunk
       THEN /\ framed' = "off"
            /\ pending' = [active |-> TRUE, slot |-> session.slot,
                           path |-> session.path, id |-> session.id]
            /\ session' = [session EXCEPT !.path = DetachedPath, !.open = FALSE]
       ELSE UNCHANGED <<framed, pending, session>>
    /\ UNCHANGED <<connected, begun, appVars>>

(* ABORT; a NAME or content write out of order, with a bad name, without a *)
(* route or with a failing file: the front-end aborts the transfer.        *)
ClientAborts ==
    /\ connected
    /\ Abort
    /\ UNCHANGED <<connected, pending, begun, appVars>>

Bluetooth ==
    \/ Connect \/ Disconnect
    \/ BeginFramed \/ FeedName \/ FeedContent \/ ClientAborts

-----------------------------------------------------------------------------
(* The main loop.                                                          *)

SlotOf(a) == IF a \in registered THEN a
             ELSE IF a = Main THEN FallbackSlot ELSE NoSlot

(* clear_foreground_ble_profile, when another app is started.              *)
Cleared(a) == IF a # current /\ route = SlotOf(current) THEN NoSlot ELSE route

(* The start of an app; it may fail, before or after the route is cleared. *)
Start(a) ==
    \/ job' = "starting" /\ current' = a /\ route' = Cleared(a)
    \/ UNCHANGED <<job, current>> /\ route' \in {route, Cleared(a)}

(* A deferred install goes first: a file that begins with the SQBC magic   *)
(* is renamed into the app store and its app registered.                   *)
PollInstall ==
    /\ job = "idle" /\ install # NoSlot
    /\ install' = NoSlot
    /\ \/ /\ file[install] # NoFile /\ file[install].size > 0
          /\ installed' = installed \cup {file[install]}
          /\ file' = Unlinked(install)
          /\ registered' \in {registered} \cup {registered \cup {a} : a \in Apps}
       \/ UNCHANGED <<file, installed, registered>>
    /\ UNCHANGED <<btVars, route, current, job, payload, upload>>

(* Whether an event is there to be drained.  The mutant waits for the      *)
(* session to be over.                                                     *)
SessionOver == pending.active /\ ~session.active
PendingComplete == pending.active

(* The pending event is drained, its fields are attached to the runtime    *)
(* and the receiver is started with it.                                    *)
PollDeliver ==
    /\ job = "idle" /\ install = NoSlot
    /\ PendingComplete /\ AppAt(pending.slot) # NoApp
    /\ pending' = [pending EXCEPT !.active = FALSE]
    /\ payload' = TRUE
    /\ Start(AppAt(pending.slot))
    /\ UNCHANGED <<connected, framed, offset, session, begun, file,
                   registered, upload, install, installed>>

(* Any other start by the poll or a frame, for any app.                    *)
StartOther ==
    /\ job = "idle"
    /\ \E a \in Apps \cup {NoApp} : Start(a)
    /\ UNCHANGED <<btVars, file, registered, payload, upload, install, installed>>

(* RESET and the end of a temp run forget the current app, not its route.  *)
ForgetCurrent ==
    /\ job = "idle" /\ current' = NoApp
    /\ UNCHANGED <<btVars, file, route, registered, job, payload, upload, install,
                   installed>>

-----------------------------------------------------------------------------
(* The VM worker.                                                          *)

(* The dispatch takes the fields: the upload path is read from the pending *)
(* event, where the callbacks may have put a new one meanwhile.            *)
WorkerEnters ==
    /\ job = "starting" /\ job' = "handler"
    /\ upload' = IF payload THEN pending.path ELSE NoSlot
    /\ payload' = FALSE
    /\ UNCHANGED <<btVars, file, route, registered, current, install, installed>>

(* service.ble.start replaces the table by the entry of the running app.   *)
CallStart ==
    /\ job = "handler" /\ current # NoApp /\ SlotOf(current) # NoSlot
    /\ route' \in {SlotOf(current), NoSlot}
    /\ UNCHANGED <<btVars, file, registered, current, job, payload, upload, install,
                   installed>>

(* app.disarm removes the entry of any registered app.                     *)
CallDisarm ==
    /\ job = "handler" /\ route \in registered
    /\ route' = NoSlot
    /\ UNCHANGED <<btVars, file, registered, current, job, payload, upload, install,
                   installed>>

(* service.ble.stop removes the entry and aborts, in the worker's steps.   *)
CallStop ==
    /\ job = "handler" /\ current # NoApp /\ SlotOf(current) # NoSlot
    /\ job' = "closing"
    /\ route' = IF route = SlotOf(current) THEN NoSlot ELSE route
    /\ framed' = "off" /\ offset' = 0
    /\ UNCHANGED <<connected, session, pending, begun, file, registered, current, payload,
                   upload, install, installed>>

StopCloses ==
    /\ job = "closing" /\ job' = "unlinking"
    /\ session' = [session EXCEPT !.open = FALSE]
    /\ UNCHANGED <<connected, framed, offset, pending, begun, file, route, registered,
                   current, payload, upload, install, installed>>

StopUnlinks ==
    /\ job = "unlinking" /\ job' = "clearing"
    /\ file' = Unlinked(session.path)
    /\ session' = [session EXCEPT !.path = NoSlot]
    /\ UNCHANGED <<connected, framed, offset, pending, begun, route, registered,
                   current, payload, upload, install, installed>>

StopClears ==
    /\ job = "clearing" /\ job' = "handler"
    /\ session' = NoSession
    /\ UNCHANGED <<connected, framed, offset, pending, begun, file, route, registered,
                   current, payload, upload, install, installed>>

(* app.install(ev.upload) reads the app id from the file and queues it.    *)
CallInstall ==
    /\ job = "handler" /\ upload # NoSlot /\ file[upload] # NoFile
    /\ install' = upload
    /\ UNCHANGED <<btVars, file, route, registered, current, job, payload, upload, installed>>

(* The job ends; it may also fail before it reaches the handler, with the  *)
(* event's fields still attached.                                          *)
JobEnds ==
    /\ job \in {"starting", "handler"} /\ job' = "idle"
    /\ upload' = NoSlot
    /\ UNCHANGED <<btVars, file, route, registered, current, payload, install, installed>>

Worker ==
    \/ WorkerEnters \/ CallStart \/ CallDisarm \/ CallStop \/ CallInstall
    \/ StopCloses \/ StopUnlinks \/ StopClears \/ JobEnds

-----------------------------------------------------------------------------
Init ==
    /\ connected = FALSE /\ framed = "off" /\ offset = 0
    /\ session = NoSession /\ pending = NoPending /\ begun = 0
    /\ file = [s \in Slots |-> NoFile]
    /\ route = NoSlot /\ registered \in {Apps \ {Main}, Apps}
    /\ current = NoApp /\ job = "idle" /\ payload = FALSE
    /\ upload = NoSlot /\ install = NoSlot /\ installed = {}

Next == Bluetooth \/ PollInstall \/ PollDeliver \/ StartOther \/ ForgetCurrent \/ Worker

Spec == Init /\ [][Next]_vars

(* The main loop polls for ever; ble.stop returns; and a job ends, however *)
(* many calls its handler makes, as the VM counts its instructions.        *)
Fairness ==
    /\ WF_vars(PollInstall \/ PollDeliver)
    /\ WF_vars(StopCloses \/ StopUnlinks \/ StopClears)
    /\ SF_vars(JobEnds)
FairSpec == Spec /\ Fairness

-----------------------------------------------------------------------------
(* Properties.                                                             *)

(* An event is published with the whole file in its place, whatever the    *)
(* callbacks and an earlier ble.stop have done to the session.  Excepted   *)
(* are a transfer that ends within a running ble.stop, and one whose file  *)
(* an install of the event before has taken away.                          *)
TakenAway(i) == \E c \in installed : c.id = i
Publishes == pending'.active /\ pending'.id # pending.id
PublishedWhole ==
    [][ Publishes /\ ~Stopping /\ ~TakenAway(pending'.id)
            => /\ pending'.path # NoSlot
               /\ file'[pending'.path] = Whole(pending'.id) ]_vars

(* From its publication to the install a whole file belongs to the         *)
(* consumer: neither an abort nor a disconnect nor ble.stop removes or     *)
(* changes it.  Only a new transfer to the same slot does, or the install. *)
HandedOff(s) ==
    /\ (pending.active /\ pending.path = s) \/ upload = s \/ install = s
    /\ file[s] # NoFile /\ file[s].size = Size
HandedOffKept ==
    [][ \A s \in Slots :
            HandedOff(s)
                => \/ file'[s] = file[s]
                   \/ session'.path = s /\ session'.id # file[s].id
                   \/ install = s /\ install' = NoSlot ]_vars

(* A complete upload is taken by the poll sooner or later, unless other    *)
(* jobs come for ever or its receiver is no longer registered.             *)
UploadTaken ==
    <>[][~StartOther]_vars => (pending.active ~> ~pending.active)

=============================================================================
