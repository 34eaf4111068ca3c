-------------------------- MODULE SessionMachines --------------------------
(***************************************************************************)
(* Two session machines for one protocol: ProtocolSessions of the protocol *)
(* crate, which its tests drive, and the sqdp_ helpers of squidvm-ffi,     *)
(* which the firmware drives.  Here both are given the same requests, in   *)
(* any order, and the storage operations between them succeed.             *)
(***************************************************************************)
EXTENDS TransferSessions

CONSTANT Requests   \* begin, chunk and commit requests of a host

ProtocolKinds == {"install", "temp", "resource"}

ASSUME RequestsAssumption ==
    \A r \in Requests :
        /\ r.kind \in ProtocolKinds
        /\ r.op \in {"begin", "chunk", "commit"}
        /\ r.total \in Nat /\ r.offset \in Nat
        /\ r.bytes \in Seq(Nat) /\ r.crc \in Seq(Nat)
        /\ r.kind # "resource" => r.path = NoName

VARIABLES
    ffi,     \* SqdpTransferSession, SqdpResourceSession of each kind
    proto    \* TransferSession, ResourceSession of each kind

vars == <<ffi, proto>>

Init ==
    /\ ffi = [k \in ProtocolKinds |-> NoSession]
    /\ proto = [k \in ProtocolKinds |-> NoTransfer]

(* What each machine says of a request.                                    *)
Helped(r) ==
    CASE r.op = "begin" -> BeginOk(r)
      [] r.op = "chunk" -> ChunkOk(ffi[r.kind], r)
      [] r.op = "commit" -> CommitOk(ffi[r.kind])

Verdict(r) ==
    CASE r.op = "begin" -> BeginAction(proto[r.kind], r).verdict
      [] r.op = "chunk" -> ValidateChunk(proto[r.kind], r)
      [] r.op = "commit" -> ValidateCommit(proto[r.kind])

(* A begin that sqdp_prepare_*_begin refuses leaves the session, one that  *)
(* ProtocolSessions refuses can change it.                                 *)
Begin(r) ==
    /\ ffi' = IF Helped(r) THEN [ffi EXCEPT ![r.kind] = Receiving(r)] ELSE ffi
    /\ proto' = [proto EXCEPT ![r.kind] = BeginAction(@, r).session]

(* A chunk is checked, stored by the host, and completed.                  *)
Chunk(r) ==
    /\ ffi' = IF Helped(r) THEN [ffi EXCEPT ![r.kind] = Complete(@, r.bytes)] ELSE ffi
    /\ proto' = IF Verdict(r) = "Ok" THEN [proto EXCEPT ![r.kind] = CompleteChunk(@, r.bytes)]
                ELSE proto

(* A commit that is accepted is followed by the clearing of the session.   *)
Commit(r) ==
    /\ ffi' = IF Helped(r) THEN [ffi EXCEPT ![r.kind] = NoSession] ELSE ffi
    /\ proto' = IF Verdict(r) = "Ok" THEN [proto EXCEPT ![r.kind] = NoTransfer] ELSE proto

Next ==
    \E r \in Requests :
        \/ r.op = "begin" /\ Begin(r)
        \/ r.op = "chunk" /\ Chunk(r)
        \/ r.op = "commit" /\ Commit(r)

Spec == Init /\ [][Next]_vars

(***************************************************************************)
(* Properties.                                                             *)
(***************************************************************************)
(* The documentation allows resource paths of up to 79 bytes; an empty     *)
(* path in a resource session is one that was refused.                     *)
AllowedPath(kind, path) == kind = "resource" => path \notin {NoName, LongPath, HugePath}

(* What a ProtocolSessions session with an allowed path is in the middle   *)
(* of, the session of the firmware is in the middle of too, at the same    *)
(* byte (lib.rs of the two crates).  The converse does not hold: a begin   *)
(* that is refused can end the first and leaves the second.                *)
Agree(f, p) ==
    /\ f.active
    /\ f.name = p.name /\ f.path = p.path /\ f.total = p.total
    /\ f.received = p.received /\ f.crc = p.crc
SessionsAgree ==
    \A k \in ProtocolKinds :
        proto[k].active /\ AllowedPath(k, proto[k].path) => Agree(ffi[k], proto[k])

(* A request for an allowed path that ProtocolSessions accepts is accepted *)
(* by the helpers that the firmware calls, so what the crate's tests show  *)
(* of such requests holds of the device.                                   *)
PathOf(r) == IF r.op = "begin" THEN r.path ELSE proto[r.kind].path
AcceptedByBoth ==
    \A r \in Requests : Verdict(r) = "Ok" /\ AllowedPath(r.kind, PathOf(r)) => Helped(r)
=============================================================================
