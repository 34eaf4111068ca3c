----------------------- MODULE SessionMachinesProofs -----------------------
(* Theorems about SessionMachines, for every set of requests, names and    *)
(* files and every limit on their size.                                    *)
EXTENDS SessionMachines, TLAPS

RequestNames == {r.name : r \in Requests} \cup {NoName}
RequestPaths == {r.path : r \in Requests} \cup {NoName}

Transfers ==
    [active : BOOLEAN, name : RequestNames, path : RequestPaths, total : Nat,
     received : Seq(Nat), crc : Seq(Nat)]
Sessions ==
    [active : BOOLEAN, phase : {"idle", "receiving"}, kind : Kinds, name : RequestNames,
     path : RequestPaths, total : Nat, received : Seq(Nat), crc : Seq(Nat),
     staging : {<<>>} \cup {Staging(r) : r \in Requests}, open : BOOLEAN]

SessionTypes == ffi \in [ProtocolKinds -> Sessions] /\ proto \in [ProtocolKinds -> Transfers]
SessionInv == SessionTypes /\ SessionsAgree

-----------------------------------------------------------------------------
(* What begins leave.                                                      *)
LEMMA RequestFields ==
    ASSUME NEW r \in Requests
    PROVE /\ r.kind \in ProtocolKinds /\ r.kind \in Kinds /\ r.kind # "content"
          /\ r.op \in {"begin", "chunk", "commit"}
          /\ r.total \in Nat /\ r.offset \in Nat /\ r.bytes \in Seq(Nat) /\ r.crc \in Seq(Nat)
          /\ r.name \in RequestNames /\ r.path \in RequestPaths
          /\ r.kind # "resource" => r.path = NoName
  BY RequestsAssumption DEF ProtocolKinds, Kinds, RequestNames, RequestPaths

LEMMA EmptyTypes == NoTransfer \in Transfers /\ NoSession \in Sessions
  BY DEF NoTransfer, NoSession, Transfers, Sessions, RequestNames, RequestPaths, Kinds

LEMMA ReceivingFields ==
    ASSUME NEW r \in Requests
    PROVE /\ Receiving(r) \in Sessions
          /\ Receiving(r).active
          /\ Receiving(r).name = r.name /\ Receiving(r).path = r.path
          /\ Receiving(r).total = r.total /\ Receiving(r).received = <<>>
          /\ Receiving(r).crc = r.crc
  <1> DEFINE staged == Staging(r)
  <1>1. staged \in {Staging(q) : q \in Requests}
    OBVIOUS
  <1>2. Receiving(r) =
          [active |-> TRUE, phase |-> "receiving", kind |-> r.kind, name |-> r.name,
           path |-> r.path, total |-> r.total, received |-> <<>>, crc |-> r.crc,
           staging |-> staged, open |-> FALSE]
    BY DEF Receiving
  <1>3. <<>> \in Seq(Nat)
    OBVIOUS
  <1> HIDE DEF staged
  <1> QED
    BY <1>1, <1>2, <1>3, RequestFields DEF Sessions

(* The transfer a begin of ProtocolSessions leaves: what was there, a      *)
(* cleared one, the begun one, or one whose path was refused.              *)
Begun(r) ==
    [NoTransfer EXCEPT !.active = TRUE, !.name = r.name, !.total = r.total, !.crc = r.crc]

LEMMA BegunFields ==
    ASSUME NEW r \in Requests, NEW p \in RequestPaths
    PROVE /\ Begun(r) \in Transfers /\ Begun(r).active /\ Begun(r).name = r.name
          /\ Begun(r).path = NoName /\ Begun(r).total = r.total
          /\ Begun(r).received = <<>> /\ Begun(r).crc = r.crc
          /\ [Begun(r) EXCEPT !.path = p] \in Transfers
          /\ [Begun(r) EXCEPT !.path = p].active
          /\ [Begun(r) EXCEPT !.path = p].name = r.name
          /\ [Begun(r) EXCEPT !.path = p].path = p
          /\ [Begun(r) EXCEPT !.path = p].total = r.total
          /\ [Begun(r) EXCEPT !.path = p].received = <<>>
          /\ [Begun(r) EXCEPT !.path = p].crc = r.crc
  BY RequestFields, EmptyTypes DEF Begun, NoTransfer, Transfers

LEMMA BeginVerdict ==
    ASSUME NEW r \in Requests, NEW t \in Transfers
    PROVE LET o == BeginAction(t, r)
          IN /\ o.verdict = "Ok" =>
                  /\ r.total # 0 /\ r.total <= MaxBytes /\ r.name \notin {NoName, LongName}
                  /\ r.kind = "resource" => r.path \notin {NoName, HugePath}
                  /\ r.kind # "resource" => o.session = Begun(r)
                  /\ r.kind = "resource" => o.session = [Begun(r) EXCEPT !.path = r.path]
             /\ o.verdict # "Ok" =>
                  /\ ~BeginOk(r)
                  /\ \/ o.session = NoTransfer
                     \/ r.kind # "resource" /\ o.session = t
                     \/ r.kind = "resource" /\ o.session = Begun(r)
  <1>1. r.total \in Nat /\ MaxBytes \in Nat /\ r.kind # "content"
    BY RequestFields, SessionsAssumption
  <1>2. CASE r.kind # "resource"
    BY <1>1, <1>2 DEF BeginAction, TransferBegin, ValidateLen, BeginOk, Begun
  <1>3. CASE r.kind = "resource"
    <2> DEFINE begun == TransferBegin(NoTransfer, r)
    <2>1. CASE begun.verdict # "Ok"
      BY <1>1, <1>3, <2>1 DEF BeginAction, ResourceBegin, TransferBegin, ValidateLen, BeginOk
    <2>2. CASE begun.verdict = "Ok"
      <3>1. /\ begun = [verdict |-> "Ok", session |-> Begun(r)]
            /\ r.total # 0 /\ r.total <= MaxBytes /\ r.name \notin {NoName, LongName}
        BY <1>1, <2>2 DEF TransferBegin, ValidateLen, Begun
      <3>2. BeginAction(t, r) =
              IF r.path \in {NoName, HugePath} THEN [begun EXCEPT !.verdict = "PathTooLong"]
              ELSE [begun EXCEPT !.session.path = r.path]
        BY <1>3, <2>2 DEF BeginAction, ResourceBegin
      <3>3. CASE r.path \in {NoName, HugePath}
        BY <1>3, <3>1, <3>2, <3>3 DEF BeginOk
      <3>4. CASE r.path \notin {NoName, HugePath}
        BY <1>3, <3>1, <3>2, <3>4
      <3> QED
        BY <3>3, <3>4
    <2> QED
      BY <2>1, <2>2
  <1> QED
    BY <1>2, <1>3

-----------------------------------------------------------------------------
(* Each request keeps the types and the agreement.                         *)
LEMMA Agreed ==
    ASSUME SessionInv, NEW r \in Requests, r.op \in {"chunk", "commit"},
           Verdict(r) = "Ok", AllowedPath(r.kind, proto[r.kind].path)
    PROVE Agree(ffi[r.kind], proto[r.kind]) /\ Helped(r)
  <1>1. proto[r.kind].active
    BY DEF Verdict, ValidateChunk, ValidateCommit
  <1>2. Agree(ffi[r.kind], proto[r.kind])
    BY <1>1, RequestFields DEF SessionInv, SessionsAgree
  <1>3. CASE r.op = "chunk"
    <2>1. ValidateChunk(proto[r.kind], r) = "Ok" /\ Helped(r) = ChunkOk(ffi[r.kind], r)
      BY <1>3 DEF Verdict, Helped
    <2>2. /\ r.offset = Len(proto[r.kind].received)
          /\ ~(Len(r.bytes) > proto[r.kind].total - Len(proto[r.kind].received))
      BY <1>1, <2>1 DEF ValidateChunk
    <2>3. /\ proto[r.kind].received \in Seq(Nat) /\ proto[r.kind].total \in Nat
          /\ r.bytes \in Seq(Nat) /\ r.kind # "content"
      BY RequestFields DEF SessionInv, SessionTypes, Transfers
    <2>4. ChunkOk(ffi[r.kind], r)
      BY <1>2, <2>2, <2>3 DEF ChunkOk, Agree
    <2> QED
      BY <1>2, <2>1, <2>4
  <1>4. CASE r.op = "commit"
    BY <1>1, <1>2, <1>4, RequestFields DEF Verdict, Helped, ValidateCommit, CommitOk, Agree
  <1> QED
    BY <1>2, <1>3, <1>4

LEMMA BeginKeeps ==
    ASSUME SessionInv, NEW r \in Requests, r.op = "begin", Begin(r)
    PROVE SessionInv'
  <1> DEFINE k == r.kind
             o == BeginAction(proto[k], r)
  <1>1. /\ k \in ProtocolKinds /\ ffi \in [ProtocolKinds -> Sessions]
        /\ proto \in [ProtocolKinds -> Transfers]
    BY RequestFields DEF SessionInv, SessionTypes
  <1>2. /\ ffi' = IF BeginOk(r) THEN [ffi EXCEPT ![k] = Receiving(r)] ELSE ffi
        /\ proto' = [proto EXCEPT ![k] = o.session]
    BY DEF Begin, Helped
  <1>3. /\ o.verdict = "Ok" =>
              /\ r.total # 0 /\ r.total <= MaxBytes /\ r.name \notin {NoName, LongName}
              /\ r.kind = "resource" => r.path \notin {NoName, HugePath}
              /\ r.kind # "resource" => o.session = Begun(r)
              /\ r.kind = "resource" => o.session = [Begun(r) EXCEPT !.path = r.path]
        /\ o.verdict # "Ok" =>
              /\ ~BeginOk(r)
              /\ \/ o.session = NoTransfer
                 \/ r.kind # "resource" /\ o.session = proto[k]
                 \/ r.kind = "resource" /\ o.session = Begun(r)
    BY <1>1, BeginVerdict
  <1>4. /\ r.path \in RequestPaths /\ (r.kind # "resource" => r.path = NoName)
        /\ Begun(r).active /\ Begun(r).name = r.name /\ Begun(r).path = NoName
        /\ Begun(r).total = r.total /\ Begun(r).received = <<>> /\ Begun(r).crc = r.crc
        /\ LET located == [Begun(r) EXCEPT !.path = r.path]
           IN /\ located.active /\ located.name = r.name /\ located.path = r.path
              /\ located.total = r.total /\ located.received = <<>> /\ located.crc = r.crc
    BY RequestFields, BegunFields
  <1> HIDE DEF o
  <1>5. SessionTypes'
    <2>1. r.path \in RequestPaths /\ Receiving(r) \in Sessions
      BY RequestFields, ReceivingFields
    <2>2. o.session \in Transfers
      BY <1>1, <1>3, <2>1, BegunFields, EmptyTypes
    <2> QED
      BY <1>1, <1>2, <2>1, <2>2 DEF SessionTypes
  <1>6. SessionsAgree'
    <2> SUFFICES ASSUME NEW q \in ProtocolKinds, proto'[q].active,
                        AllowedPath(q, proto'[q].path)
                 PROVE Agree(ffi'[q], proto'[q])
      BY DEF SessionsAgree, AllowedPath, Agree
    <2>1. CASE q # k
      BY <1>1, <1>2, <2>1 DEF SessionInv, SessionsAgree
    <2>2. CASE q = k /\ o.verdict # "Ok"
      <3>1. proto'[k] = o.session /\ ffi'[k] = ffi[k]
        BY <1>1, <1>2, <1>3, <2>2
      <3>2. o.session # NoTransfer
        BY <2>2, <3>1 DEF NoTransfer
      <3>3. ~(r.kind = "resource" /\ o.session = Begun(r))
        BY <1>4, <2>2, <3>1 DEF AllowedPath
      <3> QED
        BY <1>1, <1>3, <2>2, <3>1, <3>2, <3>3 DEF SessionInv, SessionsAgree
    <2>3. CASE q = k /\ o.verdict = "Ok"
      <3>1. proto'[k] = o.session
        BY <1>1, <1>2
      <3>2. /\ o.session.active /\ o.session.name = r.name /\ o.session.path = r.path
            /\ o.session.total = r.total /\ o.session.received = <<>>
            /\ o.session.crc = r.crc
        <4>1. CASE k = "resource"
          BY <1>3, <1>4, <2>3, <4>1
        <4>2. CASE k # "resource"
          BY <1>3, <1>4, <2>3, <4>2
        <4> QED
          BY <4>1, <4>2
      <3>3. BeginOk(r)
        BY <1>1, <1>3, <2>3, <3>1, <3>2, RequestFields DEF BeginOk, AllowedPath
      <3>4. ffi'[k] = Receiving(r)
        BY <1>1, <1>2, <3>3
      <3> QED
        BY <2>3, <3>1, <3>2, <3>4, ReceivingFields DEF Agree
    <2> QED
      BY <2>1, <2>2, <2>3
  <1> QED
    BY <1>5, <1>6 DEF SessionInv

(* What a chunk adds to a session.                                         *)
LEMMA CompleteFields ==
    ASSUME NEW bytes \in Seq(Nat), NEW s \in Sessions, NEW t \in Transfers
    PROVE /\ Complete(s, bytes) \in Sessions
          /\ CompleteChunk(t, bytes) \in Transfers
          /\ CompleteChunk(t, bytes).active = t.active
          /\ CompleteChunk(t, bytes).path = t.path
          /\ Agree(s, t) => Agree(Complete(s, bytes), CompleteChunk(t, bytes))
  <1>1. s.received \o bytes \in Seq(Nat) /\ t.received \o bytes \in Seq(Nat)
    BY DEF Sessions, Transfers
  <1> QED
    BY <1>1 DEF Complete, CompleteChunk, Sessions, Transfers, Agree

LEMMA ChunkKeeps ==
    ASSUME SessionInv, NEW r \in Requests, r.op = "chunk", Chunk(r)
    PROVE SessionInv'
  <1> DEFINE k == r.kind
  <1>1. /\ k \in ProtocolKinds /\ ffi \in [ProtocolKinds -> Sessions]
        /\ proto \in [ProtocolKinds -> Transfers] /\ r.bytes \in Seq(Nat)
    BY RequestFields DEF SessionInv, SessionTypes
  <1>2. /\ Complete(ffi[k], r.bytes) \in Sessions
        /\ CompleteChunk(proto[k], r.bytes) \in Transfers
        /\ CompleteChunk(proto[k], r.bytes).active = proto[k].active
        /\ CompleteChunk(proto[k], r.bytes).path = proto[k].path
        /\ Agree(ffi[k], proto[k]) =>
              Agree(Complete(ffi[k], r.bytes), CompleteChunk(proto[k], r.bytes))
    BY <1>1, CompleteFields
  <1>3. /\ ffi' = IF Helped(r) THEN [ffi EXCEPT ![k] = Complete(ffi[k], r.bytes)] ELSE ffi
        /\ proto' = IF Verdict(r) = "Ok"
                    THEN [proto EXCEPT ![k] = CompleteChunk(proto[k], r.bytes)] ELSE proto
    BY <1>1 DEF Chunk
  <1>4. SessionTypes'
    BY <1>1, <1>2, <1>3 DEF SessionTypes
  <1>5. SessionsAgree'
    <2> SUFFICES ASSUME NEW q \in ProtocolKinds, proto'[q].active,
                        AllowedPath(q, proto'[q].path)
                 PROVE Agree(ffi'[q], proto'[q])
      BY DEF SessionsAgree, AllowedPath, Agree
    <2>1. CASE q # k
      BY <1>1, <1>3, <2>1 DEF SessionInv, SessionsAgree
    <2>2. CASE q = k /\ Verdict(r) = "Ok"
      <3>1. AllowedPath(k, proto[k].path)
        BY <1>1, <1>2, <1>3, <2>2
      <3>2. Agree(ffi[k], proto[k]) /\ Helped(r)
        BY <2>2, <3>1, Agreed
      <3> QED
        BY <1>1, <1>2, <1>3, <2>2, <3>2
    <2>3. CASE q = k /\ Verdict(r) # "Ok"
      <3>1. proto' = proto
        BY <1>3, <2>3
      <3>2. Agree(ffi[k], proto[k]) /\ proto[k].active
        BY <1>1, <2>3, <3>1 DEF SessionInv, SessionsAgree
      <3>3. ~Helped(r)
        <4>1. ValidateChunk(proto[k], r) # "Ok" /\ Helped(r) = ChunkOk(ffi[k], r)
          BY <2>3 DEF Verdict, Helped
        <4>2. proto[k].received \in Seq(Nat) /\ proto[k].total \in Nat
          BY <1>1 DEF Transfers
        <4>3. ~ChunkOk(ffi[k], r)
          BY <1>1, <3>2, <4>1, <4>2 DEF ValidateChunk, ChunkOk, Agree
        <4> QED
          BY <4>1, <4>3
      <3> QED
        BY <1>3, <2>3, <3>1, <3>2, <3>3
    <2> QED
      BY <2>1, <2>2, <2>3
  <1> QED
    BY <1>4, <1>5 DEF SessionInv

LEMMA CommitKeeps ==
    ASSUME SessionInv, NEW r \in Requests, r.op = "commit", Commit(r)
    PROVE SessionInv'
  <1> DEFINE k == r.kind
  <1>1. /\ k \in ProtocolKinds /\ ffi \in [ProtocolKinds -> Sessions]
        /\ proto \in [ProtocolKinds -> Transfers]
    BY RequestFields DEF SessionInv, SessionTypes
  <1>2. /\ ffi' = IF Helped(r) THEN [ffi EXCEPT ![k] = NoSession] ELSE ffi
        /\ proto' = IF Verdict(r) = "Ok" THEN [proto EXCEPT ![k] = NoTransfer] ELSE proto
    BY DEF Commit
  <1>3. SessionTypes'
    BY <1>1, <1>2, EmptyTypes DEF SessionTypes
  <1>4. SessionsAgree'
    <2> SUFFICES ASSUME NEW q \in ProtocolKinds, proto'[q].active,
                        AllowedPath(q, proto'[q].path)
                 PROVE Agree(ffi'[q], proto'[q])
      BY DEF SessionsAgree, AllowedPath, Agree
    <2>1. CASE q # k
      BY <1>1, <1>2, <2>1 DEF SessionInv, SessionsAgree
    <2>2. CASE q = k /\ Verdict(r) = "Ok"
      BY <1>1, <1>2, <2>2 DEF NoTransfer
    <2>3. CASE q = k /\ Verdict(r) # "Ok"
      <3>1. proto' = proto
        BY <1>2, <2>3
      <3>2. Agree(ffi[k], proto[k]) /\ proto[k].active
        BY <1>1, <2>3, <3>1 DEF SessionInv, SessionsAgree
      <3>3. ~Helped(r)
        BY <1>1, <2>3, <3>2, RequestFields DEF Verdict, Helped, ValidateCommit, CommitOk, Agree
      <3> QED
        BY <1>2, <2>3, <3>1, <3>2, <3>3
    <2> QED
      BY <2>1, <2>2, <2>3
  <1> QED
    BY <1>3, <1>4 DEF SessionInv

-----------------------------------------------------------------------------
LEMMA SessionInvariant == Spec => []SessionInv
  <1>1. Init => SessionInv
    <2> SUFFICES ASSUME Init PROVE SessionInv
      OBVIOUS
    <2>1. SessionTypes
      BY EmptyTypes DEF Init, SessionTypes
    <2>2. SessionsAgree
      BY DEF Init, SessionsAgree, NoTransfer
    <2> QED
      BY <2>1, <2>2 DEF SessionInv
  <1>2. SessionInv /\ [Next]_vars => SessionInv'
    <2>1. ASSUME SessionInv, NEW r \in Requests, r.op = "begin", Begin(r)
          PROVE SessionInv'
      BY <2>1, BeginKeeps
    <2>2. ASSUME SessionInv, NEW r \in Requests, r.op = "chunk", Chunk(r)
          PROVE SessionInv'
      BY <2>2, ChunkKeeps
    <2>3. ASSUME SessionInv, NEW r \in Requests, r.op = "commit", Commit(r)
          PROVE SessionInv'
      BY <2>3, CommitKeeps
    <2>4. ASSUME SessionInv, UNCHANGED vars
          PROVE SessionInv'
      BY <2>4 DEF vars, SessionInv, SessionTypes, SessionsAgree
    <2> QED
      BY <2>1, <2>2, <2>3, <2>4 DEF Next
  <1> QED
    BY <1>1, <1>2, PTL DEF Spec

(* Whatever requests come in whatever order, a session of ProtocolSessions *)
(* with an allowed path is the one the firmware's helpers are in, at the   *)
(* same byte of the same file (the session types of the two crates).       *)
THEOREM MachinesAgree == Spec => []SessionsAgree
  <1>1. SessionInv => SessionsAgree
    BY DEF SessionInv
  <1> QED
    BY <1>1, SessionInvariant, PTL

(* A request for an allowed path that ProtocolSessions accepts in any state*)
(* the two can reach is accepted by the firmware's helpers                 *)
(* (next_action against the sqdp_prepare functions).                     *)
THEOREM AcceptanceTransfers == Spec => []AcceptedByBoth
  <1>1. ASSUME SessionInv, NEW r \in Requests, Verdict(r) = "Ok",
               AllowedPath(r.kind, PathOf(r))
        PROVE Helped(r)
    <2>1. CASE r.op = "begin"
      <3>1. proto[r.kind] \in Transfers /\ BeginAction(proto[r.kind], r).verdict = "Ok"
        BY <1>1, <2>1, RequestFields DEF SessionInv, SessionTypes, Verdict
      <3>2. /\ r.total # 0 /\ r.total <= MaxBytes /\ r.name \notin {NoName, LongName}
        BY <3>1, BeginVerdict
      <3> QED
        BY <1>1, <2>1, <3>2 DEF Helped, BeginOk, AllowedPath, PathOf
    <2>2. CASE r.op # "begin"
      BY <1>1, <2>2, Agreed, RequestFields DEF PathOf
    <2> QED
      BY <2>1, <2>2
  <1>2. SessionInv => AcceptedByBoth
    BY <1>1 DEF AcceptedByBoth
  <1> QED
    BY <1>2, SessionInvariant, PTL
=============================================================================
