-------------------------- MODULE TransferSessions --------------------------
(***************************************************************************)
(* Requests and transfer sessions of the device protocol: the fields of a  *)
(* begin, chunk or commit, what the Rust helpers behind the sqdp_ C ABI    *)
(* accept, and what ProtocolSessions, the session machine of the shared    *)
(* protocol crate, accepts of the same requests.                           *)
(*                                                                         *)
(* A file is a sequence of units and its CRC32 is the file itself: two     *)
(* files with one CRC are outside the model.  What a session has received  *)
(* stands for its byte count and for its running CRC.                      *)
(***************************************************************************)
EXTENDS Naturals, Sequences

CONSTANTS
    Names,      \* app ids and content names
    LongName,   \* a name of MAX_APP_ID_LEN bytes or more
    NoName,     \* an empty name or path
    LongPath,   \* a resource path of SQDP_PATH_CAP (80) bytes or more
    HugePath,   \* a resource path of MAX_PATH_LEN (128) bytes or more
    Files,      \* what hosts send: sequences of units
    MaxBytes    \* MAX_APP_BYTES, MAX_RESOURCE_BYTES

Kinds == {"install", "temp", "resource", "content"}

ASSUME SessionsAssumption ==
    /\ LongName \in Names /\ NoName \notin Names
    /\ MaxBytes \in Nat
    /\ \A f \in Files : f \in Seq(Nat)

Prefix(f, n) == SubSeq(f, 1, n)

(* The path a file is published under, and the one it is written to.       *)
Final(r) ==
    CASE r.kind = "install" -> <<"apps", r.name, "main.sqbc">>
      [] r.kind = "resource" -> <<"apps", r.name, "resources", r.path>>
      [] r.kind = "content" -> <<"books", r.name>>
\* Wrong: written in place.
InPlace(r) == IF r.kind = "temp" THEN <<"tmp", "temp-run.sqbc.tmp">> ELSE Final(r)
Staging(r) ==
    CASE r.kind = "install" -> <<"apps", r.name, "main.sqbc.tmp">>
      [] r.kind = "temp" -> <<"tmp", "temp-run.sqbc.tmp">>
      [] r.kind = "resource" -> <<"tmp", "resource.tmp">>
      [] r.kind = "content" -> <<"books", r.name, "upload">>

NoSession ==
    [active |-> FALSE, phase |-> "idle", kind |-> "install", name |-> NoName,
     path |-> NoName, total |-> 0, received |-> <<>>, crc |-> <<>>, staging |-> <<>>,
     open |-> FALSE]

(* A session receiving the file of a begin request.                        *)
Receiving(r) ==
    [active |-> TRUE, phase |-> "receiving", kind |-> r.kind, name |-> r.name,
     path |-> r.path, total |-> r.total, received |-> <<>>, crc |-> r.crc,
     staging |-> Staging(r), open |-> FALSE]

(***************************************************************************)
(* sqdp_prepare_transfer_*, sqdp_complete_* and the resource helpers, and  *)
(* for content the checks of device_protocol.c.                            *)
(***************************************************************************)
BeginOk(r) ==
    /\ r.total # 0
    /\ r.kind # "content" => r.total <= MaxBytes /\ r.name \notin {NoName, LongName}
    /\ r.kind = "resource" => r.path \notin {NoName, LongPath, HugePath}

ChunkOk(s, r) ==
    /\ s.active
    /\ r.kind = "content" => s.phase = "receiving"
    /\ r.offset = Len(s.received)
    /\ Len(r.bytes) <= s.total - Len(s.received)

Complete(s, bytes) == [s EXCEPT !.received = @ \o bytes]

CommitOk(s) ==
    /\ s.active
    /\ Len(s.received) = s.total
    /\ s.received = s.crc

Committing(s) == [s EXCEPT !.phase = "committing"]

(***************************************************************************)
(* ProtocolSessions: next_action names the action for the host or the      *)
(* error, and the completion functions advance the session.                *)
(***************************************************************************)
NoTransfer == [active |-> FALSE, name |-> NoName, path |-> NoName, total |-> 0,
               received |-> <<>>, crc |-> <<>>]

ValidateLen(total) ==
    IF total = 0 THEN "InvalidRequest"
    ELSE IF total > MaxBytes THEN "TooLarge" ELSE "Ok"

(* The session after TransferSession::begin: a length that is refused      *)
(* leaves it, a name that is refused leaves it cleared.                    *)
TransferBegin(t, r) ==
    CASE ValidateLen(r.total) # "Ok" -> [verdict |-> ValidateLen(r.total), session |-> t]
      [] r.name \in {NoName, LongName} -> [verdict |-> "AppIdTooLong", session |-> NoTransfer]
      [] OTHER -> [verdict |-> "Ok",
                   session |-> [NoTransfer EXCEPT !.active = TRUE, !.name = r.name,
                                                  !.total = r.total, !.crc = r.crc]]

(* ResourceSession::begin clears first and takes the path last: a path     *)
(* that is refused leaves the session active.                              *)
ResourceBegin(r) ==
    LET begun == TransferBegin(NoTransfer, r)
    IN CASE begun.verdict # "Ok" -> begun
         [] begun.verdict = "Ok" /\ r.path \in {NoName, HugePath} ->
                [begun EXCEPT !.verdict = "PathTooLong"]
         [] OTHER -> [begun EXCEPT !.session.path = r.path]

BeginAction(t, r) == IF r.kind = "resource" THEN ResourceBegin(r) ELSE TransferBegin(t, r)

\* Wrong: the offset is not looked at.
ValidateAnyChunk(t, r) ==
    IF ~t.active THEN "Inactive"
    ELSE IF Len(r.bytes) > t.total - Len(t.received) THEN "Bounds" ELSE "Ok"
ValidateChunk(t, r) ==
    IF ~t.active THEN "Inactive"
    ELSE IF r.offset # Len(t.received) THEN "Offset"
    ELSE IF Len(r.bytes) > t.total - Len(t.received) THEN "Bounds" ELSE "Ok"

CompleteChunk(t, bytes) == [t EXCEPT !.received = @ \o bytes]

\* Wrong: the length is not looked at.
ValidateCrc(t) ==
    IF ~t.active THEN "Inactive" ELSE IF t.received # t.crc THEN "Crc" ELSE "Ok"
ValidateCommit(t) ==
    IF ~t.active THEN "Inactive"
    ELSE IF Len(t.received) # t.total THEN "Bounds"
    ELSE IF t.received # t.crc THEN "Crc" ELSE "Ok"
=============================================================================
