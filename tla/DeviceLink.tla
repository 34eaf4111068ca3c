----------------------------- MODULE DeviceLink -----------------------------
(***************************************************************************)
(* A host command over the serial line: SerialDevice of squidc, the frames *)
(* on the wire, serial_transport.c, and the transfer handlers of           *)
(* device_protocol.c with the files they write.                            *)
(*                                                                         *)
(* The wire carries units of 20 bytes: the first unit of a frame is its    *)
(* header, the others its payload.  A unit can be lost, the user can       *)
(* interrupt the command, the device can restart, a storage call can fail  *)
(* and the VM can stay busy: each is a fault, and faults are counted.      *)
(*                                                                         *)
(* The device is the main loop of main.c, so a handler is one step; a      *)
(* commit is two, because a restart can fall between the removal of the    *)
(* old file and the rename.                                                *)
(***************************************************************************)
EXTENDS TransferSessions, FiniteSets

CONSTANTS
    Jobs,       \* the commands a user gives
    Payload,    \* units of a file in a chunk (TransferCapabilities)
    AckWindow,  \* units between two acknowledgements
    ChunkBody,  \* payload units of a chunk frame
    Tries,      \* hellos that wait_until_ready sends
    MaxApps,    \* SQ_APP_STORE_MAX_APPS
    NoFile,     \* there is no file under a path
    MaxOpens,   \* how many commands a behaviour runs (a bound)
    MaxFaults   \* how many faults it has (a bound)

Single == {"reset", "check", "delete", "commit"}

\* Ids and names have a longest length, so there are finitely many.
ASSUME LinkAssumption ==
    /\ IsFiniteSet(Names)
    /\ \A j \in Jobs : /\ j.kind \in Kinds \cup Single
                       /\ j.name \in Names /\ j.file \in Files
    /\ Payload \in Nat \ {0} /\ AckWindow \in Nat /\ ChunkBody \in Nat \ {0}
    /\ Tries \in Nat \ {0} /\ MaxApps \in Nat
    /\ MaxOpens \in Nat /\ MaxFaults \in Nat
    /\ NoFile \notin Files /\ NoFile \notin Seq(Nat)

(***************************************************************************)
(* What a command sends.                                                   *)
(***************************************************************************)
(* serial_transfer_plan: all chunks but the last are full.                 *)
ChunkCount(total) == (total + Payload - 1) \div Payload
AckEvery == ((IF AckWindow > Payload THEN AckWindow ELSE Payload) + Payload - 1) \div Payload
AckRequested(total, i) == i % AckEvery = 0 \/ i = ChunkCount(total)

BaseSequence == [install |-> 10, temp |-> 30, resource |-> 50, content |-> 88]

Request(job, op, seq) ==
    [kind |-> job.kind, op |-> op, seq |-> seq, name |-> job.name, path |-> job.path,
     total |-> 0, crc |-> <<>>, offset |-> 0, bytes |-> <<>>, ack |-> TRUE, size |-> 0]

BeginRequest(job) ==
    [Request(job, "begin", BaseSequence[job.kind]) EXCEPT
        !.total = Len(job.file), !.crc = job.file, !.size = 1]

ChunkRequest(job, i) ==
    LET from == (i - 1) * Payload
        rest == Len(job.file) - from
    IN [Request(job, "chunk", BaseSequence[job.kind] + i) EXCEPT
           !.offset = from,
           !.bytes = SubSeq(job.file, from + 1, from + (IF rest < Payload THEN rest ELSE Payload)),
           !.ack = AckRequested(Len(job.file), i),
           !.size = ChunkBody]

CommitRequest(job) ==
    Request(job, "commit", BaseSequence[job.kind] + 1 + ChunkCount(Len(job.file)))

(* A single request: RESET, CONTENT_CHECK, CONTENT_DELETE, and the commit  *)
(* of an install that `squidc protocol raw` sends on its own.              *)
SingleRequest(job) ==
    CASE job.kind = "reset" -> Request(job, "reset", 80)
      [] job.kind = "check" -> [Request(job, "check", 91) EXCEPT !.size = 1, !.kind = "content"]
      [] job.kind = "delete" -> [Request(job, "delete", 93) EXCEPT !.size = 1, !.kind = "content"]
      [] job.kind = "commit" -> [Request(job, "commit", 1) EXCEPT !.kind = "install"]

Steps(job) == IF job.kind \in Single THEN 1 ELSE ChunkCount(Len(job.file)) + 2

RequestOf(job, step) ==
    CASE job.kind \in Single -> SingleRequest(job)
      [] job.kind \in Kinds /\ step = 1 -> BeginRequest(job)
      [] job.kind \in Kinds /\ step = Steps(job) -> CommitRequest(job)
      [] OTHER -> ChunkRequest(job, step - 1)

NoJob == [kind |-> "reset", name |-> LongName, path |-> NoName, file |-> <<>>]
HelloRequest == Request(NoJob, "hello", 1)

(***************************************************************************)
(* Frames as units.                                                        *)
(***************************************************************************)
Units(frame) == [i \in 1..frame.size + 1 |-> [frame |-> frame, part |-> i]]
Whole(units) == units # <<>> /\ Len(units) = units[1].frame.size + 1
Intact(units) == units = Units(units[1].frame)

(* A response has the opcode and the sequence of its request.              *)
Response(r, status, size, crc) ==
    [op |-> r.op, kind |-> r.kind, seq |-> r.seq, status |-> status, size |-> size, crc |-> crc]
OkResponse(r) == Response(r, "ok", 0, <<>>)
ErrorResponse(r) == Response(r, "error", 1, <<>>)
HelloResponse(r) == Response(r, "ok", 1, <<>>)
CheckResponse(r, file) == Response(r, "ok", 1, file)

VARIABLES
    host,        \* the command: its phase, job, step, hellos sent and result
    input,       \* units the host has read while it waits for a response
    up, down,    \* units on the way to the device and to the host
    buffer,      \* sq_serial_transport.request
    sessions,    \* the session of each kind
    publishing,  \* the commit whose old file has been removed
    store,       \* the files, by path
    registry,    \* apps in the registry
    launched,    \* contents whose temporary launch was requested
    opens,       \* commands so far
    faults       \* faults so far

hostVars == <<host, input, opens>>
deviceVars == <<buffer, sessions, publishing, store, registry, launched>>
vars == <<hostVars, up, down, deviceVars, faults>>

NoCommit == [HelloRequest EXCEPT !.op = "none"]

Finals == {Final(j) : j \in {k \in Jobs : k.kind \in Kinds \ {"temp"}}}
Stagings == {Staging(j) : j \in {k \in Jobs : k.kind \in Kinds}}
MainOf(name) == <<"apps", name, "main.sqbc">>
ContentOf(name) == <<"books", name>>
Paths == Finals \cup Stagings \cup {MainOf(n) : n \in Names} \cup {ContentOf(n) : n \in Names}

Init ==
    /\ host = [phase |-> "closed", job |-> NoJob, step |-> 0, tries |-> 0, result |-> "none"]
    /\ input = <<>> /\ up = <<>> /\ down = <<>> /\ buffer = <<>>
    /\ sessions = [k \in Kinds |-> NoSession]
    /\ publishing = NoCommit
    /\ store = [p \in Paths |-> NoFile]
    /\ registry = {} /\ launched = {}
    /\ opens = 0 /\ faults = 0

Fault == faults < MaxFaults /\ faults' = faults + 1

(***************************************************************************)
(* The host.                                                               *)
(***************************************************************************)
(* SerialDevice::open: the line is drained and a hello is written.         *)
SayHello(tries) ==
    /\ up' = up \o Units(HelloRequest) /\ down' = <<>> /\ input' = <<>>
    /\ host' = [host EXCEPT !.phase = "hello", !.tries = tries]

Open(job) ==
    /\ host.phase = "closed" /\ opens < MaxOpens
    /\ opens' = opens + 1
    /\ up' = up \o Units(HelloRequest) /\ down' = <<>> /\ input' = <<>>
    /\ host' = [phase |-> "hello", job |-> job, step |-> 1, tries |-> 1, result |-> "none"]
    /\ UNCHANGED <<deviceVars, faults>>

(* One read of the port returns some of the units that have arrived.       *)
ReadWhileHello ==
    /\ host.phase = "hello" /\ down # <<>>
    /\ \E n \in 1..Len(down) :
          /\ input' = input \o Prefix(down, n)
          /\ down' = SubSeq(down, n + 1, Len(down))
    /\ UNCHANGED <<host, opens, up, deviceVars, faults>>

Starts(units) == {i \in 1..Len(units) : units[i].part = 1}
First(units) == CHOOSE i \in Starts(units) : \A k \in Starts(units) : i <= k
FromFirst(units) == IF Starts(units) = {} THEN <<>> ELSE SubSeq(units, First(units), Len(units))
HasFrame(units) ==
    LET s == FromFirst(units) IN s # <<>> /\ Len(s) >= s[1].frame.size + 1
FrameUnits(units) ==
    LET s == FromFirst(units) IN Prefix(s, s[1].frame.size + 1)

FrameIn(units) == FrameUnits(units)[1].frame

(* decode_frame_from_stream: what is read can end too early, have a bad    *)
(* CRC, or hold a frame.                                                   *)
Decoded(units) ==
    IF ~HasFrame(units) THEN "early"
    ELSE IF Intact(FrameUnits(units)) THEN "frame" ELSE "bad"

Fail == [host EXCEPT !.phase = "closed", !.result = "failed"]

(* read_bytes_until_quiet ends when nothing more comes, or at its deadline *)
(* with nothing read; then the bytes are looked at.  A bad CRC is final.   *)
\* Wrong: one hello too many.
TriesLeftOnce == host.tries <= Tries
TriesLeft == host.tries < Tries
Identified == Decoded(input) = "frame" /\ FrameIn(input).op = "hello"
Quiet ==
    /\ host.phase = "hello" /\ down = <<>>
    /\ input # <<>> \/ (up = <<>> /\ publishing = NoCommit)
    /\ \/ /\ Identified
          /\ host' = [host EXCEPT !.phase = "ready"] /\ input' = <<>>
          /\ UNCHANGED <<up, down>>
       \/ /\ ~Identified /\ Decoded(input) # "bad" /\ TriesLeft
          /\ SayHello(host.tries + 1)
       \/ /\ ~Identified
          /\ Decoded(input) = "bad" \/ host.tries = Tries
          /\ host' = Fail /\ input' = <<>>
          /\ UNCHANGED <<up, down>>
    /\ UNCHANGED <<opens, deviceVars, faults>>

(* A chunk is written as it is, any other request after a drain.  Without  *)
(* an acknowledgement the next chunk follows at once.                      *)
Send ==
    /\ host.phase = "ready"
    /\ LET r == RequestOf(host.job, host.step)
       IN /\ up' = up \o Units(r)
          /\ down' = IF r.op = "chunk" THEN down ELSE <<>>
          /\ host' = IF r.ack THEN [host EXCEPT !.phase = "waiting"]
                     ELSE [host EXCEPT !.step = @ + 1]
    /\ input' = <<>>
    /\ UNCHANGED <<opens, deviceVars, faults>>

(* send_protocol_expect_ok and send_protocol_transfer_chunk; content-check *)
(* also compares what the device found with what the user expects.         *)
\* Wrong: any success will do.
ExpectedAny(response) == response.status = "ok"
Expected(response) ==
    LET r == RequestOf(host.job, host.step)
    IN /\ response.status = "ok" /\ response.op = r.op /\ response.kind = r.kind
       /\ response.seq = r.seq
       /\ r.op = "check" => response.crc = host.job.file

Advance ==
    IF host.step = Steps(host.job) THEN [host EXCEPT !.phase = "closed", !.result = "ok"]
    ELSE [host EXCEPT !.phase = "ready", !.step = @ + 1]

(* read_protocol_frame: what a read returns past the frame is dropped.     *)
Read ==
    /\ host.phase = "waiting" /\ down # <<>>
    /\ \E n \in 1..Len(down) :
          LET got == input \o Prefix(down, n)
          IN /\ down' = SubSeq(down, n + 1, Len(down))
             /\ \/ Decoded(got) = "early" /\ input' = got /\ UNCHANGED host
                \/ /\ Decoded(got) # "early" /\ input' = <<>>
                   /\ host' = IF Decoded(got) = "frame" /\ Expected(FrameIn(got))
                              THEN Advance ELSE Fail
    /\ UNCHANGED <<opens, up, deviceVars, faults>>

(* The deadline passes after all that could be answered has been.          *)
\* Wrong: the deadline is only for the first byte.
TimeoutFirst ==
    /\ host.phase = "waiting" /\ down = <<>> /\ up = <<>> /\ publishing = NoCommit
    /\ input = <<>>
    /\ host' = Fail /\ input' = <<>>
    /\ UNCHANGED <<opens, up, down, deviceVars, faults>>
Timeout ==
    /\ host.phase = "waiting" /\ down = <<>> /\ up = <<>> /\ publishing = NoCommit
    /\ host' = Fail /\ input' = <<>>
    /\ UNCHANGED <<opens, up, down, deviceVars, faults>>

(* The user stops the command; what it has not yet sent is never sent.     *)
Interrupt ==
    /\ host.phase # "closed" /\ Fault
    /\ host' = Fail /\ input' = <<>>
    /\ \E n \in 0..Len(up) : up' = Prefix(up, n)
    /\ UNCHANGED <<opens, down, deviceVars>>

(***************************************************************************)
(* The handlers.  In each, r is the request.                               *)
(***************************************************************************)
Reply(response) == down' = down \o Units(response)
Refuse(r) == Reply(ErrorResponse(r))

SessionOf(r) == sessions[r.kind]
SetSession(r, s) == sessions' = [sessions EXCEPT ![r.kind] = s]
WriteFile(path, file) == store' = [store EXCEPT ![path] = file]

Hello(r) ==
    /\ Reply(HelloResponse(r))
    /\ UNCHANGED <<sessions, publishing, store, registry, launched, faults>>

(* The staging file is opened with FS_O_TRUNC.                             *)
\* Wrong: opened without FS_O_TRUNC.
EmptiedIfNew(path) == IF store[path] = NoFile THEN WriteFile(path, <<>>) ELSE UNCHANGED store
Emptied(path) == WriteFile(path, <<>>)

(* begin_content_install refuses while it has a session; the others begin  *)
(* anew.                                                                   *)
\* Wrong: no kind begins anew.
BusyAny(r) == SessionOf(r).active
Busy(r) == r.kind = "content" /\ SessionOf(r).active

(* begin_install, begin_resource_install, begin_content_install.           *)
Begin(r) ==
    /\ \/ /\ ~BeginOk(r) \/ Busy(r)
          /\ Refuse(r)
          /\ UNCHANGED <<sessions, store, faults>>
       \/ /\ BeginOk(r) /\ r.kind = "temp" /\ Fault       \* the VM stays busy
          /\ Refuse(r)
          /\ UNCHANGED <<sessions, store>>
       \/ /\ BeginOk(r) /\ r.kind # "content" /\ Fault    \* the staging file
          /\ SetSession(r, NoSession) /\ Refuse(r)
          /\ UNCHANGED store
       \/ /\ BeginOk(r) /\ ~Busy(r)
          /\ SetSession(r, Receiving(r))
          /\ IF r.kind = "content" THEN UNCHANGED store ELSE Emptied(Staging(r))
          /\ Reply(OkResponse(r))
          /\ UNCHANGED faults
    /\ UNCHANGED <<publishing, registry, launched>>

(* The staging file after bytes were written at the session's offset, for  *)
(* content at the position of the file that is kept open.                  *)
\* Wrong: the staging file of an earlier upload is continued.
OpenedAsIs(s) == IF store[s.staging] = NoFile THEN <<>> ELSE store[s.staging]
Opened(s) == IF s.kind = "content" /\ ~s.open THEN <<>> ELSE store[s.staging]
Patched(s, bytes) ==
    IF s.kind = "content" THEN Opened(s) \o bytes
    ELSE LET old == Opened(s)
             end == Len(s.received) + Len(bytes)
         IN Prefix(old, Len(s.received)) \o bytes \o SubSeq(old, end + 1, Len(old))

(* append_install_chunk, append_resource_chunk, append_content_chunk.      *)
Chunk(r) ==
    LET s == SessionOf(r)
    IN /\ \/ /\ ~ChunkOk(s, r)
             /\ Refuse(r)
             /\ UNCHANGED <<sessions, store, faults>>
          \/ /\ ChunkOk(s, r) /\ Fault                    \* a write that fails half way
             /\ \E n \in 0..Len(r.bytes) : WriteFile(s.staging, Patched(s, Prefix(r.bytes, n)))
             /\ SetSession(r, [s EXCEPT !.open = (r.kind = "content")])
             /\ Refuse(r)
          \/ /\ ChunkOk(s, r)
             /\ WriteFile(s.staging, Patched(s, r.bytes))
             /\ SetSession(r, [Complete(s, r.bytes) EXCEPT !.open = (r.kind = "content")])
             /\ IF r.ack THEN Reply(OkResponse(r)) ELSE UNCHANGED down
             /\ UNCHANGED faults
       /\ UNCHANGED <<publishing, registry, launched>>

(* commit_install, commit_resource_install, commit_content_install up to   *)
(* the removal of the old file.                                            *)
Target(s) == Final(s)

Commit(r) ==
    LET s == SessionOf(r)
    IN /\ \/ /\ ~CommitOk(s) /\ Refuse(r)
             /\ IF s.active /\ s.kind = "content"
                THEN WriteFile(s.staging, NoFile) /\ SetSession(r, NoSession)
                ELSE UNCHANGED <<sessions, store>>
             /\ UNCHANGED <<publishing, faults>>
          \/ /\ CommitOk(s) /\ SetSession(r, [Committing(s) EXCEPT !.open = FALSE]) /\ Refuse(r)
             /\ \/ r.kind = "resource" /\ store[MainOf(s.name)] = NoFile /\ UNCHANGED faults
                \/ Fault                                  \* the VM is busy, or unlink fails
             /\ UNCHANGED <<store, publishing>>
          \/ /\ CommitOk(s) /\ SetSession(r, [Committing(s) EXCEPT !.open = FALSE])
             /\ r.kind = "resource" => store[MainOf(s.name)] # NoFile
             /\ WriteFile(Target(s), NoFile)
             /\ publishing' = r
             /\ UNCHANGED <<down, faults>>
       /\ UNCHANGED <<registry, launched>>

(* The rename, and for an app its registry entry: the path of the session  *)
(* is used as scratch and then names the published file.                   *)
Publish ==
    LET r == publishing
        s == SessionOf(r)
        kept == [store EXCEPT ![Target(s)] = store[s.staging], ![s.staging] = NoFile]
        room == s.name \in registry \/ Cardinality(registry) < MaxApps
    IN /\ publishing # NoCommit /\ publishing' = NoCommit
       /\ \/ /\ Fault \/ (store[s.staging] = NoFile /\ UNCHANGED faults)
             /\ Refuse(r) /\ UNCHANGED <<store, sessions, registry>>
          \/ /\ store[s.staging] # NoFile /\ store' = kept
             /\ \/ /\ r.kind # "install" \/ room
                   /\ registry' = IF r.kind = "install" THEN registry \cup {s.name} ELSE registry
                   /\ SetSession(r, NoSession) /\ Reply(OkResponse(r))
                \/ /\ r.kind = "install" /\ ~room
                   /\ SetSession(r, [s EXCEPT !.staging = Target(s)]) /\ Refuse(r)
                   /\ UNCHANGED registry
             /\ UNCHANGED faults
       /\ UNCHANGED <<hostVars, up, buffer, launched>>

(* commit_temp_run.                                                        *)
CommitTemp(r) ==
    LET s == SessionOf(r)
    IN /\ \/ /\ ~CommitOk(s) /\ Refuse(r) /\ UNCHANGED <<sessions, launched, faults>>
          \/ /\ CommitOk(s) /\ Fault /\ SetSession(r, Committing(s)) /\ Refuse(r)
             /\ UNCHANGED launched
          \/ /\ CommitOk(s) /\ launched' = launched \cup {store[s.staging]}
             /\ SetSession(r, [s EXCEPT !.active = FALSE, !.phase = "idle"])
             /\ Reply(OkResponse(r)) /\ UNCHANGED faults
       /\ UNCHANGED <<publishing, store, registry>>

(* clear_runtime_context and reset_runtime.                                *)
Reset(r) ==
    LET s == sessions["content"]
    IN /\ \/ Fault /\ Refuse(r) /\ UNCHANGED <<sessions, store>>
          \/ /\ sessions' = [k \in Kinds |-> NoSession]
             /\ IF s.active THEN WriteFile(s.staging, NoFile) ELSE UNCHANGED store
             /\ Reply(OkResponse(r)) /\ UNCHANGED faults
       /\ UNCHANGED <<publishing, registry, launched>>

ContentCheck(r) ==
    /\ IF store[ContentOf(r.name)] = NoFile THEN Refuse(r)
       ELSE Reply(CheckResponse(r, store[ContentOf(r.name)]))
    /\ UNCHANGED <<sessions, publishing, store, registry, launched, faults>>

ContentDelete(r) ==
    /\ WriteFile(ContentOf(r.name), NoFile)
    /\ Reply(OkResponse(r))
    /\ UNCHANGED <<sessions, publishing, registry, launched, faults>>

Handle(r) ==
    \/ r.op = "hello" /\ Hello(r)
    \/ r.op = "begin" /\ Begin(r)
    \/ r.op = "chunk" /\ Chunk(r)
    \/ r.op = "commit" /\ r.kind # "temp" /\ Commit(r)
    \/ r.op = "commit" /\ r.kind = "temp" /\ CommitTemp(r)
    \/ r.op = "reset" /\ Reset(r)
    \/ r.op = "check" /\ ContentCheck(r)
    \/ r.op = "delete" /\ ContentDelete(r)

(***************************************************************************)
(* sq_serial_transport_push_byte: units before a header are dropped, and a *)
(* frame that does not decode is dropped without an answer.                *)
(***************************************************************************)
Pushed(units, u) == IF units = <<>> /\ u.part # 1 THEN <<>> ELSE Append(units, u)

DeviceByte ==
    /\ up # <<>> /\ publishing = NoCommit
    /\ up' = Tail(up)
    /\ LET got == Pushed(buffer, Head(up))
       IN \/ /\ ~Whole(got) /\ buffer' = got
             /\ UNCHANGED <<down, sessions, publishing, store, registry, launched, faults>>
          \/ /\ Whole(got) /\ ~Intact(got) /\ buffer' = <<>>
             /\ UNCHANGED <<down, sessions, publishing, store, registry, launched, faults>>
          \/ /\ Whole(got) /\ Intact(got) /\ buffer' = <<>>
             /\ Handle(got[1].frame)
    /\ UNCHANGED hostVars

(***************************************************************************)
(* The line and the power.                                                 *)
(***************************************************************************)
LoseUp ==
    /\ up # <<>> /\ Fault /\ up' = Tail(up)
    /\ UNCHANGED <<hostVars, down, deviceVars>>

LoseDown ==
    /\ down # <<>> /\ Fault /\ down' = Tail(down)
    /\ UNCHANGED <<hostVars, up, deviceVars>>

(* Files stay; at boot the registry is read from the store.                *)
Restart ==
    /\ Fault
    /\ buffer' = <<>> /\ sessions' = [k \in Kinds |-> NoSession]
    /\ publishing' = NoCommit
    /\ LET apps == {n \in Names : store[MainOf(n)] # NoFile}
       IN \E R \in SUBSET apps :
             /\ Cardinality(R) <= MaxApps
             /\ R = apps \/ Cardinality(R) = MaxApps
             /\ registry' = R
    /\ UNCHANGED <<hostVars, up, down, store, launched>>

Next ==
    \/ \E job \in Jobs : Open(job)
    \/ ReadWhileHello \/ Quiet \/ Send \/ Read \/ Timeout \/ Interrupt
    \/ DeviceByte \/ Publish
    \/ LoseUp \/ LoseDown \/ Restart

Spec == Init /\ [][Next]_vars

(* The main loop polls the line for ever and the host reads until a        *)
(* deadline.  Nothing is assumed of the user or of the faults.             *)
Fairness ==
    /\ WF_vars(DeviceByte) /\ WF_vars(Publish)
    /\ WF_vars(ReadWhileHello) /\ WF_vars(Quiet) /\ WF_vars(Send)
    /\ WF_vars(Read) /\ WF_vars(Timeout)

FairSpec == Spec /\ Fairness

(***************************************************************************)
(* Properties.                                                             *)
(***************************************************************************)
FileJobs == {j \in Jobs : j.kind \in Kinds}
SessionType ==
    [active : BOOLEAN, phase : {"idle", "receiving", "committing"}, kind : Kinds,
     name : Names \cup {NoName}, path : {j.path : j \in Jobs} \cup {NoName}, total : Nat,
     received : Seq(Nat), crc : Files \cup {<<>>}, staging : Paths \cup {<<>>}, open : BOOLEAN]

(* The variables have the types of the C structures they stand for.        *)
LinkTypeOK ==
    /\ host.phase \in {"closed", "hello", "ready", "waiting"}
    /\ host.job \in Jobs \cup {NoJob} /\ host.tries \in 0..Tries
    /\ host.result \in {"none", "ok", "failed"}
    /\ sessions \in [Kinds -> SessionType]
    /\ DOMAIN store = Paths
    /\ registry \subseteq Names /\ Cardinality(registry) <= MaxApps
    /\ opens \in 0..MaxOpens /\ faults \in 0..MaxFaults

(* Whatever is lost, interrupted or restarted, a file that can be run or   *)
(* read is one that a host sent for that path, from its first to its last  *)
(* unit (the checks of sqdp_prepare_transfer_chunk and _commit).           *)
WholeFiles ==
    /\ \A p \in Finals : store[p] # NoFile =>
          \E j \in FileJobs : j.kind # "temp" /\ Final(j) = p /\ store[p] = j.file
    /\ \A f \in launched : \E j \in FileJobs : j.kind = "temp" /\ f = j.file

(* A session that receives has its bytes in its staging file, also after a *)
(* write that failed half way (append_install_chunk, append_content_chunk).*)
SessionIsStaged ==
    \A k \in Kinds :
        LET s == sessions[k]
        IN s.active /\ (k = "content" => s.open) /\ publishing = NoCommit =>
              /\ store[s.staging] # NoFile
              /\ Len(s.received) <= Len(store[s.staging])
              /\ Prefix(store[s.staging], Len(s.received)) = s.received

(* What a successful command tells its user is so: no response of an       *)
(* earlier command or of another request is taken for the answer           *)
(* (wait_until_ready, drain, send_protocol_expect_ok).                     *)
Done(job) ==
    CASE job.kind \in {"install", "resource", "content"} -> store[Final(job)] = job.file
      [] job.kind = "temp" -> job.file \in launched
      [] job.kind = "check" -> store[ContentOf(job.name)] = job.file
      [] job.kind = "delete" -> store[ContentOf(job.name)] = NoFile
      [] job.kind = "reset" -> \A k \in Kinds : ~sessions[k].active
      [] job.kind = "commit" -> store[MainOf(job.name)] # NoFile
SuccessIsTrue == host.phase = "closed" /\ host.result = "ok" => Done(host.job)

(* A published file goes only by a delete of it, or when a commit that has a     *)
(* whole file to put in its place removes it (commit_staged_install).      *)
PublishedKept ==
    [][\A p \in Finals : store[p] # NoFile /\ store'[p] = NoFile =>
          \/ up # <<>> /\ up[1].frame.op = "delete" /\ p = ContentOf(up[1].frame.name)
          \/ /\ publishing' # NoCommit
             /\ LET s == sessions'[publishing'.kind]
                IN Final(s) = p /\ store'[s.staging] = s.crc]_vars

(* Every command ends, with success or with an error, also when nothing    *)
(* answers (the deadlines of serial.rs).                                   *)
CommandEnds == host.phase # "closed" ~> host.phase = "closed"

(* A command that meets no fault, on a device where it can succeed,        *)
(* succeeds, even when an earlier command left the device in the middle of *)
(* a frame, unless more units of it are missing than there are hellos.     *)
Missing == IF buffer = <<>> THEN 0 ELSE buffer[1].frame.size + 1 - Len(buffer)
CanSucceed(job) ==
    /\ job.kind \in Kinds => BeginOk(BeginRequest(job))
    /\ job.kind = "install" => job.name \in registry \/ Cardinality(registry) < MaxApps
    /\ job.kind = "resource" => store[MainOf(job.name)] # NoFile
    /\ job.kind = "content" => ~sessions["content"].active
    /\ job.kind = "check" => store[ContentOf(job.name)] = job.file
    /\ job.kind # "commit"
Starting(n) ==
    /\ host.phase = "hello" /\ host.tries = 1 /\ input = <<>> /\ faults = n
    /\ up = Units(HelloRequest) /\ down = <<>> /\ publishing = NoCommit
    /\ Missing < Tries /\ CanSucceed(host.job)
CommandSucceeds ==
    \A n \in 0..MaxFaults :
        Starting(n) ~> (host.phase = "closed" /\ host.result = "ok") \/ faults > n
=============================================================================
