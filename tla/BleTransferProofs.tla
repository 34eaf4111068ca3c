------------------------- MODULE BleTransferProofs -------------------------
(* Theorems about BleTransfer, for every set of apps, every size of a file *)
(* and every number of transfers.                                          *)
EXTENDS BleTransfer, TLAPS

(* What the session writes.  A partial file that ble.stop has left behind  *)
(* in mid-stream belongs to no session, so the parts speak of the path the *)
(* session still has.                                                      *)
Framing ==
    /\ framed = "naming" => offset = 0
    /\ framed = "content" => offset < Size
Known == \A s \in Slots : file[s] # NoFile => file[s].id <= begun
Partial ==
    /\ session.path # NoSlot => session.active
    /\ session.active => session.id \in Ids
    /\ session.path # NoSlot /\ file[session.path] # NoFile
         => /\ file[session.path].id = session.id
            /\ file[session.path].size < Size
            /\ framed = "content" /\ session.open
                 => file[session.path].size = offset
Streaming ==
    framed = "content" /\ session.active /\ session.open /\ ~Stopping
       => /\ session.path # NoSlot
          /\ file[session.path] # NoFile \/ TakenAway(session.id)
Held == Framing /\ Known /\ Partial /\ Streaming
TransferInv == BleTypeOK /\ Held

-----------------------------------------------------------------------------
(* Constants, and what unlinking leaves.                                   *)
LEMMA Constants ==
    /\ Apps \subseteq Slots /\ FallbackSlot \in Slots /\ NoSlot \notin Slots
    /\ Main \in Apps /\ NoFile \notin Content
    /\ Size \in Nat /\ Size > 0 /\ MaxTransfers \in Nat
  BY TransferAssumption, NoFileAssumption DEF Slots

LEMMA UnlinkedFiles ==
    ASSUME BleTypeOK, NEW s \in Slots \cup {NoSlot}
    PROVE /\ Unlinked(s) \in [Slots -> Content \cup {NoFile}]
          /\ \A u \in Slots : Unlinked(s)[u] = IF u = s THEN NoFile ELSE file[u]
  BY Constants DEF BleTypeOK, Unlinked

(* The slot of an app and the routes a start may leave.                    *)
LEMMA RouteType ==
    ASSUME BleTypeOK, NEW a
    PROVE SlotOf(a) \in Slots \cup {NoSlot} /\ Cleared(a) \in Slots \cup {NoSlot}
  BY Constants DEF BleTypeOK, SlotOf, Cleared

-----------------------------------------------------------------------------
(* The steps of the Bluetooth thread.                                      *)

(* A chunk grows the session's file, where it still has one, by one; the   *)
(* last one leaves the session without a path.                             *)
LEMMA ChunkFile ==
    ASSUME TransferInv, FeedContent
    PROVE /\ file' \in [Slots -> Content \cup {NoFile}]
          /\ \A u \in Slots : u # session.path => file'[u] = file[u]
          /\ session.path # NoSlot =>
               \/ file[session.path] = NoFile /\ file'[session.path] = NoFile
               \/ /\ file[session.path] # NoFile
                  /\ file'[session.path] = [id |-> session.id, size |-> offset + 1]
          /\ offset \in Nat /\ offset < Size
  <1> USE Constants
  <1>1. /\ file \in [Slots -> Content \cup {NoFile}] /\ offset \in Nat /\ offset < Size
        /\ session.path \in Slots \cup {NoSlot}
    BY DEF TransferInv, Held, BleTypeOK, Framing, FeedContent
  <1>2. file' = Written
    BY DEF FeedContent
  <1>3. CASE session.path # NoSlot /\ file[session.path] # NoFile
    <2>1. /\ session.path \in Slots /\ file[session.path] \in Content
          /\ file[session.path].id = session.id /\ file[session.path].size = offset
      BY <1>1, <1>3 DEF TransferInv, Held, Partial, FeedContent
    <2>2. file' = [file EXCEPT ![session.path].size = @ + 1]
      BY <1>2, <1>3, <2>1 DEF Written, Attached
    <2>3. [file[session.path] EXCEPT !.size = @ + 1] = [id |-> session.id, size |-> offset + 1]
      BY <2>1 DEF Content
    <2>4. [id |-> session.id, size |-> offset + 1] \in Content
      BY <1>1, <2>1 DEF Content
    <2>5. file' = [file EXCEPT ![session.path] = [id |-> session.id, size |-> offset + 1]]
      BY <2>2, <2>3, Zenon
    <2>6. QED
      BY <1>1, <2>1, <2>4, <2>5
  <1>4. CASE session.path = NoSlot \/ file[session.path] = NoFile
    BY <1>1, <1>2, <1>4 DEF Written, Attached
  <1>5. QED
    BY <1>3, <1>4

LEMMA ChunkKeeps ==
    ASSUME TransferInv, FeedContent
    PROVE TransferInv'
  <1> USE Constants DEF appVars, Ids
  <1> DEFINE Grown == [id |-> session.id, size |-> offset + 1]
  <1>1. /\ file' \in [Slots -> Content \cup {NoFile}]
        /\ \A u \in Slots : u # session.path => file'[u] = file[u]
        /\ session.path # NoSlot =>
             \/ file[session.path] = NoFile /\ file'[session.path] = NoFile
             \/ file[session.path] # NoFile /\ file'[session.path] = Grown
        /\ offset \in Nat /\ offset < Size /\ offset' = offset + 1
    BY ChunkFile DEF FeedContent
  <1>2. /\ session \in [active : BOOLEAN, slot : Slots \cup {NoSlot},
                    path : Slots \cup {NoSlot}, open : BOOLEAN, id : 0..MaxTransfers]
        /\ session.active /\ session.open /\ framed = "content" /\ session.id \in Ids
        /\ begun' = begun /\ UNCHANGED appVars
    BY DEF FeedContent, TransferInv, Held, BleTypeOK, Partial
  <1>3. Known'
    <2>1. session.path \in Slots /\ file[session.path] # NoFile => session.id <= begun
      BY DEF TransferInv, Held, Known, Partial
    <2>2. QED
      BY <1>1, <1>2, <2>1 DEF TransferInv, Held, Known
  <1>4. CASE LastChunk
    <2>1. session' = [session EXCEPT !.path = NoSlot, !.open = FALSE] /\ framed' = "off"
          /\ pending' = [active |-> TRUE, slot |-> session.slot,
                         path |-> session.path, id |-> session.id]
      BY <1>4 DEF FeedContent, DetachedPath
    <2>2. BleTypeOK'
      <3>1. session' \in [active : BOOLEAN, slot : Slots \cup {NoSlot},
                    path : Slots \cup {NoSlot}, open : BOOLEAN, id : 0..MaxTransfers]
        BY <1>2, <2>1
      <3>2. pending' \in [active : BOOLEAN, slot : Slots \cup {NoSlot},
                    path : Slots \cup {NoSlot}, id : 0..MaxTransfers]
        BY <1>2, <2>1
      <3>3. offset' \in 0..Size
        BY <1>1
      <3>4. QED
        BY <1>1, <1>2, <2>1, <3>1, <3>2, <3>3 DEF TransferInv, BleTypeOK, FeedContent
    <2>3. Framing' /\ Partial' /\ Streaming'
      BY <1>2, <2>1 DEF Framing, Partial, Streaming
    <2>4. QED
      BY <1>3, <2>2, <2>3 DEF TransferInv, Held
  <1>5. CASE ~LastChunk
    <2>1. session' = session /\ framed' = framed /\ pending' = pending /\ offset + 1 < Size
      BY <1>1, <1>5 DEF FeedContent, LastChunk
    <2>2. BleTypeOK'
      BY <1>1, <1>2, <2>1 DEF TransferInv, BleTypeOK, FeedContent
    <2>3. Framing'
      BY <1>1, <1>2, <2>1 DEF Framing
    <2>4. Partial'
      BY <1>1, <1>2, <2>1 DEF TransferInv, Held, Partial
    <2>5. Streaming'
      <3>1. Grown # NoFile
        BY <1>1, <1>2 DEF Content
      <3>2. QED
        BY <1>1, <1>2, <2>1, <3>1 DEF TransferInv, Held, Streaming, Stopping, TakenAway
    <2>6. QED
      BY <1>3, <2>2, <2>3, <2>4, <2>5 DEF TransferInv, Held
  <1>6. QED
    BY <1>4, <1>5

LEMMA BluetoothKeeps ==
    ASSUME TransferInv, Bluetooth
    PROVE TransferInv'
  <1> USE Constants DEF appVars, Ids
  <1>1. CASE Connect
    BY <1>1 DEF Connect, TransferInv, Held, BleTypeOK, Framing, Known, Partial, Streaming,
       TakenAway, Stopping
  <1>2. ASSUME Abort, UNCHANGED <<pending, begun, appVars>>, connected' \in BOOLEAN
        PROVE TransferInv'
    <2>1. /\ file' \in [Slots -> Content \cup {NoFile}]
          /\ \A u \in Slots : file'[u] # NoFile => file'[u] = file[u]
      BY <1>2, UnlinkedFiles DEF Abort, TransferInv, BleTypeOK
    <2>2. BleTypeOK'
      BY <1>2, <2>1 DEF Abort, TransferInv, BleTypeOK, NoSession
    <2>3. Known'
      BY <1>2, <2>1 DEF TransferInv, Held, Known
    <2>4. Framing' /\ Partial' /\ Streaming'
      BY <1>2 DEF Abort, NoSession, Framing, Partial, Streaming
    <2>5. QED
      BY <2>2, <2>3, <2>4 DEF TransferInv, Held
  <1>3. CASE BeginFramed
    BY <1>3 DEF BeginFramed, TransferInv, Held, BleTypeOK, Framing, Known, Partial, Streaming,
       TakenAway, Stopping
  <1>4. CASE FeedName
    <2> DEFINE new == [id |-> begun + 1, size |-> 0]
    <2>1. /\ route \in Slots /\ begun + 1 \in Ids /\ begun \in Nat /\ new \in Content
          /\ file \in [Slots -> Content \cup {NoFile}] /\ offset = 0
      BY <1>4 DEF FeedName, TransferInv, Held, Framing, BleTypeOK, Content
    <2>2. /\ file' \in [Slots -> Content \cup {NoFile}]
          /\ file'[route] = new
          /\ \A u \in Slots \ {route} : file'[u] = file[u]
      BY <1>4, <2>1 DEF FeedName
    <2>3. session' = [active |-> TRUE, slot |-> route, path |-> route,
                      open |-> TRUE, id |-> begun + 1]
      BY <1>4 DEF FeedName
    <2>4. BleTypeOK'
      <3>1. session' \in [active : BOOLEAN, slot : Slots \cup {NoSlot},
                    path : Slots \cup {NoSlot}, open : BOOLEAN, id : 0..MaxTransfers]
        BY <2>1, <2>3
      <3>2. QED
        BY <1>4, <2>1, <2>2, <3>1 DEF FeedName, TransferInv, BleTypeOK
    <2>5. Known'
      <3>1. \A u \in Slots : file[u] # NoFile => file[u].id \in Nat
        BY DEF TransferInv, BleTypeOK, Content
      <3>2. QED
        BY <1>4, <2>1, <2>2, <3>1 DEF FeedName, TransferInv, Held, Known
    <2>6. Framing' /\ Partial'
      BY <1>4, <2>1, <2>2, <2>3 DEF FeedName, Framing, Partial
    <2>7. Streaming'
      <3>1. new # NoFile
        BY <2>1
      <3>2. QED
        BY <2>1, <2>2, <2>3, <3>1 DEF Streaming
    <2>8. QED
      BY <2>4, <2>5, <2>6, <2>7 DEF TransferInv, Held
  <1>5. CASE FeedContent
    BY <1>5, ChunkKeeps
  <1>6. QED
    BY <1>1, <1>2, <1>3, <1>4, <1>5 DEF Bluetooth, Disconnect, ClientAborts

-----------------------------------------------------------------------------
(* The steps of the main loop and of the worker.                           *)

(* Held reads the session, the files and what was installed, not the       *)
(* routes and the registry.                                                *)
LEMMA QuietKeeps ==
    ASSUME Held, UNCHANGED <<framed, offset, session, begun, file, installed>>,
           Stopping => Stopping'
    PROVE Held'
  BY DEF Held, Framing, Known, Partial, Streaming, TakenAway

(* An install takes the file of its path away, and no other.               *)
LEMMA InstallKeeps ==
    ASSUME TransferInv, PollInstall
    PROVE TransferInv'
  <1> USE Constants DEF btVars
  <1>1. CASE UNCHANGED <<file, installed, registered>>
    <2>1. BleTypeOK'
      BY <1>1 DEF PollInstall, TransferInv, BleTypeOK
    <2>2. Held'
      BY <1>1, QuietKeeps DEF PollInstall, TransferInv, Stopping
    <2>3. QED
      BY <2>1, <2>2 DEF TransferInv
  <1>2. CASE /\ file[install] # NoFile
             /\ installed' = installed \cup {file[install]}
             /\ file' = Unlinked(install)
             /\ registered' \in {registered} \cup {registered \cup {a} : a \in Apps}
    <2>1. /\ install \in Slots /\ file[install] \in Content
          /\ file' \in [Slots -> Content \cup {NoFile}]
          /\ \A u \in Slots : file'[u] = IF u = install THEN NoFile ELSE file[u]
      BY <1>2, UnlinkedFiles DEF PollInstall, TransferInv, BleTypeOK
    <2>2. BleTypeOK'
      BY <1>2, <2>1 DEF PollInstall, TransferInv, BleTypeOK
    <2>3. Framing' /\ Known' /\ Partial'
      <3>1. Framing'
        BY DEF PollInstall, TransferInv, Held, Framing
      <3>2. Known'
        BY <2>1 DEF PollInstall, TransferInv, Held, Known
      <3>3. session.path \in Slots \cup {NoSlot}
        BY DEF TransferInv, BleTypeOK
      <3>4. Partial'
        BY <2>1, <3>3 DEF PollInstall, TransferInv, Held, Partial
      <3>5. QED
        BY <3>1, <3>2, <3>4
    <2>4. Streaming'
      <3>1. SUFFICES ASSUME framed = "content", session.active, session.open,
                            session.path # NoSlot,
                            file[session.path] # NoFile \/ TakenAway(session.id)
                     PROVE file'[session.path] # NoFile \/ TakenAway(session.id)'
        BY DEF PollInstall, TransferInv, Held, Streaming, Stopping
      <3>2. session.path \in Slots
        BY <3>1 DEF TransferInv, BleTypeOK
      <3>3. CASE TakenAway(session.id)
        BY <1>2, <3>3 DEF PollInstall, TakenAway
      <3>4. CASE file[session.path] # NoFile /\ session.path = install
        <4>1. file[install].id = session.id
          BY <3>4 DEF TransferInv, Held, Partial, PollInstall
        <4>2. QED
          BY <1>2, <4>1 DEF TakenAway, PollInstall
      <3>5. CASE file[session.path] # NoFile /\ session.path # install
        BY <2>1, <3>2, <3>5
      <3>6. QED
        BY <3>1, <3>3, <3>4, <3>5
    <2>5. QED
      BY <2>2, <2>3, <2>4 DEF TransferInv, Held
  <1>3. QED
    BY <1>1, <1>2 DEF PollInstall

LEMMA LoopKeeps ==
    ASSUME TransferInv, PollDeliver \/ StartOther \/ ForgetCurrent
    PROVE TransferInv'
  <1> USE Constants DEF btVars
  <1>1. ASSUME NEW a \in Apps \cup {NoApp}, Start(a)
        PROVE /\ job' \in {job, "starting"} /\ current' \in Apps \cup {NoApp}
              /\ route' \in Slots \cup {NoSlot}
    BY <1>1, RouteType DEF Start, TransferInv, BleTypeOK
  <1>2. CASE PollDeliver
    <2>1. AppAt(pending.slot) \in Apps \cup {NoApp}
      BY DEF AppAt, TransferInv, BleTypeOK
    <2>2. /\ job' \in {job, "starting"} /\ current' \in Apps \cup {NoApp}
          /\ route' \in Slots \cup {NoSlot}
      BY <1>1, <1>2, <2>1 DEF PollDeliver
    <2>3. pending' \in [active : BOOLEAN, slot : Slots \cup {NoSlot},
                    path : Slots \cup {NoSlot}, id : 0..MaxTransfers]
      BY <1>2 DEF PollDeliver, TransferInv, BleTypeOK
    <2>4. BleTypeOK'
      BY <1>2, <2>2, <2>3 DEF PollDeliver, TransferInv, BleTypeOK
    <2>5. Held'
      BY <1>2, QuietKeeps DEF PollDeliver, TransferInv, Stopping
    <2>6. QED
      BY <2>4, <2>5 DEF TransferInv
  <1>3. CASE StartOther
    <2>1. /\ job' \in {job, "starting"} /\ current' \in Apps \cup {NoApp}
          /\ route' \in Slots \cup {NoSlot}
      BY <1>1, <1>3 DEF StartOther
    <2>2. BleTypeOK'
      BY <1>3, <2>1 DEF StartOther, TransferInv, BleTypeOK
    <2>3. Held'
      BY <1>3, QuietKeeps DEF StartOther, TransferInv, Stopping
    <2>4. QED
      BY <2>2, <2>3 DEF TransferInv
  <1>4. CASE ForgetCurrent
    <2>1. BleTypeOK'
      BY <1>4 DEF ForgetCurrent, TransferInv, BleTypeOK
    <2>2. Held'
      BY <1>4, QuietKeeps DEF ForgetCurrent, TransferInv, Stopping
    <2>3. QED
      BY <2>1, <2>2 DEF TransferInv
  <1>5. QED
    BY <1>2, <1>3, <1>4

(* The three steps of ble.stop, of which the last takes the session away.  *)
LEMMA StopKeeps ==
    ASSUME TransferInv, CallStop \/ StopCloses \/ StopUnlinks \/ StopClears
    PROVE TransferInv'
  <1> USE Constants
  <1>1. CASE CallStop
    BY <1>1 DEF CallStop, TransferInv, Held, BleTypeOK, Framing, Known, Partial, Streaming,
       Stopping
  <1>2. CASE StopCloses
    <2>1. session' \in [active : BOOLEAN, slot : Slots \cup {NoSlot},
                    path : Slots \cup {NoSlot}, open : BOOLEAN, id : 0..MaxTransfers]
      BY <1>2 DEF StopCloses, TransferInv, BleTypeOK
    <2>2. BleTypeOK'
      BY <1>2, <2>1 DEF StopCloses, TransferInv, BleTypeOK
    <2>3. Framing' /\ Known'
      BY <1>2 DEF StopCloses, TransferInv, Held, Framing, Known
    <2>4. Partial' /\ Streaming'
      BY <1>2 DEF StopCloses, TransferInv, Held, BleTypeOK, Partial, Streaming
    <2>5. QED
      BY <2>2, <2>3, <2>4 DEF TransferInv, Held
  <1>3. CASE StopUnlinks
    <2>1. /\ file' \in [Slots -> Content \cup {NoFile}]
          /\ \A u \in Slots : file'[u] # NoFile => file'[u] = file[u]
      BY <1>3, UnlinkedFiles DEF StopUnlinks, TransferInv, BleTypeOK
    <2>2. session' \in [active : BOOLEAN, slot : Slots \cup {NoSlot},
                    path : Slots \cup {NoSlot}, open : BOOLEAN, id : 0..MaxTransfers]
      BY <1>3 DEF StopUnlinks, TransferInv, BleTypeOK
    <2>3. BleTypeOK'
      BY <1>3, <2>1, <2>2 DEF StopUnlinks, TransferInv, BleTypeOK
    <2>4. Framing' /\ Known'
      BY <1>3, <2>1 DEF StopUnlinks, TransferInv, Held, Framing, Known
    <2>5. Partial' /\ Streaming'
      BY <1>3 DEF StopUnlinks, TransferInv, Held, BleTypeOK, Partial, Streaming, Stopping
    <2>6. QED
      BY <2>3, <2>4, <2>5 DEF TransferInv, Held
  <1>4. CASE StopClears
    <2>1. BleTypeOK'
      BY <1>4 DEF StopClears, NoSession, TransferInv, BleTypeOK
    <2>2. Held'
      BY <1>4 DEF StopClears, NoSession, TransferInv, Held, Framing, Known, Partial, Streaming
    <2>3. QED
      BY <2>1, <2>2 DEF TransferInv
  <1>5. QED
    BY <1>1, <1>2, <1>3, <1>4

LEMMA WorkerKeeps ==
    ASSUME TransferInv, Worker
    PROVE TransferInv'
  <1> USE Constants DEF btVars
  <1>1. CASE CallStop \/ StopCloses \/ StopUnlinks \/ StopClears
    BY <1>1, StopKeeps
  <1>2. CASE WorkerEnters \/ CallStart \/ CallDisarm \/ CallInstall \/ JobEnds
    <2>1. SlotOf(current) \in Slots \cup {NoSlot}
      BY RouteType DEF TransferInv
    <2>2. BleTypeOK'
      BY <1>2, <2>1 DEF WorkerEnters, CallStart, CallDisarm, CallInstall, JobEnds, TransferInv,
         BleTypeOK
    <2>3. Held'
      BY <1>2, QuietKeeps DEF WorkerEnters, CallStart, CallDisarm, CallInstall, JobEnds,
         TransferInv, Stopping
    <2>4. QED
      BY <2>2, <2>3 DEF TransferInv
  <1>3. QED
    BY <1>1, <1>2 DEF Worker

-----------------------------------------------------------------------------
(* The theorems.                                                           *)

(* Every state of the transfer is typed, and a session that still has its  *)
(* path has a partial file of its own there, or none.                      *)
THEOREM TransferInvariant == Spec => []TransferInv
  <1>1. Init => TransferInv
    <2>1. SUFFICES ASSUME Init PROVE TransferInv
      OBVIOUS
    <2>2. BleTypeOK
      <3>1. /\ session \in [active : BOOLEAN, slot : Slots \cup {NoSlot},
                    path : Slots \cup {NoSlot}, open : BOOLEAN, id : 0..MaxTransfers]
            /\ pending \in [active : BOOLEAN, slot : Slots \cup {NoSlot},
                    path : Slots \cup {NoSlot}, id : 0..MaxTransfers]
        BY <2>1, Constants DEF Init, NoSession, NoPending
      <3>2. registered \in SUBSET Apps /\ file \in [Slots -> Content \cup {NoFile}]
        BY <2>1 DEF Init
      <3>3. offset \in 0..Size /\ begun \in 0..MaxTransfers
        BY <2>1, Constants DEF Init
      <3>4. connected \in BOOLEAN /\ payload \in BOOLEAN /\ installed \in SUBSET Content
        BY <2>1 DEF Init
      <3>5. QED
        BY <2>1, <3>1, <3>2, <3>3, <3>4 DEF Init, BleTypeOK
    <2>3. Held
      BY <2>1, Constants DEF Init, Held, Framing, Known, Partial, Streaming, NoSession
    <2>4. QED
      BY <2>2, <2>3 DEF TransferInv
  <1>2. TransferInv /\ [Next]_vars => TransferInv'
    <2>1. SUFFICES ASSUME TransferInv, [Next]_vars PROVE TransferInv'
      OBVIOUS
    <2>2. CASE UNCHANGED vars
      BY <2>1, <2>2 DEF vars, btVars, appVars, TransferInv, Held, BleTypeOK, Framing, Known,
         Partial, Streaming, TakenAway, Stopping
    <2>3. QED
      BY <2>1, <2>2, BluetoothKeeps, InstallKeeps, LoopKeeps, WorkerKeeps DEF Next
  <1>3. QED
    BY <1>1, <1>2, PTL DEF Spec

(* BleTypeOK of the run, for every value of the constants.                 *)
THEOREM TransferTypeCorrect == Spec => []BleTypeOK
  <1>1. TransferInv => BleTypeOK
    BY DEF TransferInv
  <1>2. QED
    BY <1>1, TransferInvariant, PTL

(* What the receiver is told of is the whole file: of all steps only the   *)
(* last chunk publishes, and Streaming and Partial give its file.          *)
THEOREM PublicationWhole == Spec => PublishedWhole
  <1> DEFINE A == Publishes /\ ~Stopping /\ ~TakenAway(pending'.id)
                    => /\ pending'.path # NoSlot
                       /\ file'[pending'.path] = Whole(pending'.id)
  <1>1. TransferInv /\ [Next]_vars => [A]_vars
    <2>1. SUFFICES ASSUME TransferInv, Next, Publishes, ~Stopping, ~TakenAway(pending'.id)
                   PROVE /\ pending'.path # NoSlot
                         /\ file'[pending'.path] = Whole(pending'.id)
      BY Zenon
    <2>2. FeedContent /\ LastChunk
      <3>1. [pending EXCEPT !.active = FALSE].id = pending.id
        BY <2>1 DEF TransferInv, BleTypeOK
      <3>2. QED
        BY <2>1, <3>1 DEF Next, Bluetooth, Connect, Disconnect, BeginFramed, FeedName, FeedContent,
           ClientAborts, PollInstall, PollDeliver, StartOther, ForgetCurrent, Worker,
           WorkerEnters, CallStart, CallDisarm, CallStop, StopCloses, StopUnlinks, StopClears,
           CallInstall, JobEnds, btVars, Publishes
    <2>3. pending'.path = session.path /\ pending'.id = session.id
      BY <2>2 DEF FeedContent
    <2>4. session.path # NoSlot /\ file[session.path] # NoFile
      BY <2>1, <2>2, <2>3 DEF FeedContent, TransferInv, Held, Streaming
    <2>5. file'[session.path] = [id |-> session.id, size |-> offset + 1]
      BY <2>1, <2>2, <2>4, ChunkFile
    <2>6. QED
      BY <2>2, <2>3, <2>4, <2>5 DEF LastChunk, Whole
  <1>2. QED
    BY <1>1, TransferInvariant, PTL DEF Spec, PublishedWhole

(* A whole file is the consumer's: what an abort, a disconnect or ble.stop *)
(* unlinks is the file of the session, which by Partial is not whole, and  *)
(* a new transfer to the path is a later one, by Known.                    *)
THEOREM HandedOffIsKept == Spec => HandedOffKept
  <1> DEFINE A == \A s \in Slots :
                    HandedOff(s)
                        => \/ file'[s] = file[s]
                           \/ session'.path = s /\ session'.id # file[s].id
                           \/ install = s /\ install' = NoSlot
  <1>1. TransferInv /\ [Next]_vars => [A]_vars
    <2>1. SUFFICES ASSUME TransferInv, Next, NEW s \in Slots, HandedOff(s)
                   PROVE \/ file'[s] = file[s]
                         \/ session'.path = s /\ session'.id # file[s].id
                         \/ install = s /\ install' = NoSlot
      BY Zenon
    <2>2. s # session.path /\ s # NoSlot
      <3>1. file[s] # NoFile /\ file[s].size = Size /\ s # NoSlot
        BY <2>1, Constants DEF HandedOff
      <3>2. CASE s = session.path
        BY <2>1, <3>1, <3>2, Constants DEF TransferInv, Held, Partial
      <3>3. QED
        BY <3>1, <3>2
    <2>3. Unlinked(session.path)[s] = file[s]
      BY <2>1, <2>2, UnlinkedFiles DEF TransferInv, BleTypeOK
    <2>4. CASE FeedName
      <3>1. begun \in Nat /\ file[s].id <= begun /\ file[s].id \in Nat
        BY <2>1 DEF HandedOff, TransferInv, Held, Known, BleTypeOK, Content, Ids
      <3>2. session'.path = route /\ session'.id = begun + 1
        BY <2>4 DEF FeedName
      <3>3. s # route => file'[s] = file[s]
        BY <2>1, <2>4 DEF FeedName, TransferInv, BleTypeOK
      <3>4. QED
        BY <3>1, <3>2, <3>3
    <2>5. CASE FeedContent
      BY <2>1, <2>2, <2>5, ChunkFile
    <2>6. CASE PollInstall
      <3>1. s # install => Unlinked(install)[s] = file[s]
        BY <2>1, UnlinkedFiles DEF TransferInv, BleTypeOK
      <3>2. QED
        BY <2>6, <3>1 DEF PollInstall
    <2>7. CASE Disconnect \/ ClientAborts \/ StopUnlinks
      BY <2>3, <2>7 DEF Disconnect, ClientAborts, StopUnlinks, Abort
    <2>8. QED
      BY <2>1, <2>4, <2>5, <2>6, <2>7 DEF Next, Bluetooth, Connect, BeginFramed, PollDeliver,
         StartOther, ForgetCurrent, Worker, WorkerEnters, CallStart, CallDisarm, CallStop,
         StopCloses, StopClears, CallInstall, JobEnds, btVars
  <1>2. QED
    BY <1>1, TransferInvariant, PTL DEF Spec, HandedOffKept

=============================================================================
