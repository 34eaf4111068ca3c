-------------------------- MODULE DeviceLinkProofs --------------------------
(* Theorems about DeviceLink, for every set of commands, names and files,  *)
(* every size of a chunk and any number of commands and faults.            *)
EXTENDS DeviceLink, TLAPS, FiniteSetTheorems, SequenceTheorems

(* The frames a host sends, and the units they are cut into.               *)
Sent == {HelloRequest} \cup UNION {{RequestOf(j, s) : s \in 1..Steps(j)} : j \in Jobs}
SentUnits == [frame : Sent, part : Nat]

(* A session, or the begin request that opened it, is for a file of a      *)
(* command.                                                                *)
Fields(s, j) ==
    /\ s.kind = j.kind /\ s.name = j.name /\ s.path = j.path
    /\ s.crc = j.file /\ s.total = Len(j.file)
ForJob(s) == \E j \in FileJobs : Fields(s, j)

HostInv ==
    /\ host \in [phase : {"closed", "hello", "ready", "waiting"}, job : Jobs \cup {NoJob},
                 step : Nat, tries : 0..Tries, result : {"none", "ok", "failed"}]
    /\ host.phase # "closed" => host.job \in Jobs /\ host.step \in 1..Steps(host.job)
LineInv == up \in Seq(SentUnits) /\ buffer \in Seq(SentUnits)

(* The staging file begins with what the session has received, and is no   *)
(* longer than the file will be.                                           *)
Holds(file, s) ==
    /\ file \in Seq(Nat)
    /\ Len(s.received) <= Len(file) /\ Len(file) <= s.total
    /\ Prefix(file, Len(s.received)) = s.received

(* A session writes to the staging path of its kind; only the session of   *)
(* an app that found the registry full names the published file, and it    *)
(* has nothing left to receive.                                            *)
Session(k) ==
    LET s == sessions[k]
    IN s.active =>
          /\ s.kind = k /\ ForJob(s)
          /\ Len(s.received) <= s.total
          /\ \/ s.staging = Staging(s) /\ (k # "content" => Holds(store[s.staging], s))
             \/ k = "install" /\ s.staging = Final(s) /\ Len(s.received) = s.total
SessionsInv == sessions \in [Kinds -> SessionType] /\ \A k \in Kinds : Session(k)

PublishingInv ==
    publishing # NoCommit =>
       LET s == sessions[publishing.kind]
       IN /\ publishing.kind \in Kinds \ {"temp"} /\ CommitOk(s)
          /\ s.staging = Final(s) => store[s.staging] = NoFile

StoreInv == store = [p \in Paths |-> store[p]]
RegistryInv == registry \subseteq Names /\ Cardinality(registry) <= MaxApps

(* WholeFiles, but for books.                                              *)
WholeApps ==
    /\ \A p \in Finals : store[p] # NoFile =>
          \E j \in FileJobs : /\ j.kind # "temp" /\ Final(j) = p
                              /\ j.kind # "content" => store[p] = j.file
    /\ \A f \in launched : \E j \in FileJobs : j.kind = "temp" /\ f = j.file

DeviceInv ==
    /\ SessionsInv /\ PublishingInv /\ StoreInv /\ RegistryInv /\ WholeApps
    /\ faults \in 0..MaxFaults
LinkInv == HostInv /\ LineInv /\ opens \in 0..MaxOpens /\ DeviceInv

-----------------------------------------------------------------------------
(* Commands and their frames.                                              *)
LEMMA JobFields ==
    ASSUME NEW j \in Jobs
    PROVE /\ j.kind \in Kinds \cup Single /\ j.name \in Names
          /\ j.file \in Files /\ j.file \in Seq(Nat) /\ Len(j.file) \in Nat
          /\ ChunkCount(Len(j.file)) \in Nat /\ Steps(j) \in Nat /\ Steps(j) >= 1
          /\ j \in FileJobs <=> j.kind \in Kinds
  <1>1. /\ j.kind \in Kinds \cup Single /\ j.name \in Names
        /\ j.file \in Files /\ j.file \in Seq(Nat)
    BY LinkAssumption, SessionsAssumption
  <1>2. Len(j.file) \in Nat
    BY <1>1
  <1>3. Payload \in Nat /\ Payload > 0
    BY LinkAssumption
  <1>4. ChunkCount(Len(j.file)) \in Nat
    <2>1. \A t \in Nat : (t + Payload - 1) \div Payload \in Nat
      BY <1>3
    <2> QED
      BY <1>2, <2>1 DEF ChunkCount
  <1> QED
    BY <1>1, <1>2, <1>4 DEF Steps, FileJobs

(* Every chunk carries something: the last one begins before the end of    *)
(* the file.                                                               *)
LEMMA ChunkInFile ==
    ASSUME NEW total \in Nat, NEW i \in 1..ChunkCount(total)
    PROVE (i - 1) * Payload \in Nat /\ (i - 1) * Payload < total
  <1>1. Payload \in Nat /\ Payload > 0
    BY LinkAssumption
  <1> DEFINE n == (total + Payload - 1) \div Payload
  <1>2. n \in Nat /\ n * Payload <= total + Payload - 1
    BY <1>1
  <1>3. i \in Nat /\ i >= 1 /\ i <= n
    BY <1>2 DEF ChunkCount
  <1> HIDE DEF n
  <1>4. i * Payload <= n * Payload
    <2>1. PICK d \in Nat : n = i + d
      <3>1. n - i \in Nat /\ n = i + (n - i)
        BY <1>2, <1>3
      <3> QED
        BY <3>1
    <2>2. n * Payload = i * Payload + d * Payload
      BY <1>1, <1>3, <2>1
    <2>3. d * Payload \in Nat /\ i * Payload \in Nat
      BY <1>1, <1>3, <2>1
    <2> QED
      BY <2>2, <2>3
  <1>5. (i - 1) * Payload = i * Payload - Payload
    BY <1>1, <1>3
  <1>6. i - 1 \in Nat /\ i * Payload \in Nat /\ n * Payload \in Nat
    BY <1>1, <1>2, <1>3
  <1>7. (i - 1) * Payload \in Nat
    BY <1>1, <1>6
  <1> QED
    BY <1>1, <1>2, <1>4, <1>5, <1>6, <1>7

LEMMA ChunkFields ==
    ASSUME NEW j \in FileJobs, NEW i \in 1..ChunkCount(Len(j.file))
    PROVE LET r == ChunkRequest(j, i)
          IN r.op = "chunk" /\ r.kind = j.kind /\ r.bytes \in Seq(Nat) /\ Len(r.bytes) > 0
  <1> DEFINE from == (i - 1) * Payload
             rest == Len(j.file) - from
             size == IF rest < Payload THEN rest ELSE Payload
             bytes == SubSeq(j.file, from + 1, from + size)
  <1>1. j.file \in Seq(Nat) /\ Len(j.file) \in Nat
    BY JobFields DEF FileJobs
  <1>2. from \in Nat /\ from < Len(j.file)
    BY <1>1, ChunkInFile
  <1>3. Payload \in Nat /\ Payload > 0
    BY LinkAssumption
  <1> HIDE DEF from
  <1>4. size \in Nat /\ size > 0 /\ from + size <= Len(j.file)
    BY <1>1, <1>2, <1>3
  <1> HIDE DEF size
  <1>5. \A n \in from + 1 .. from + size : j.file[n] \in Nat
    BY <1>1, <1>2, <1>4
  <1>6. bytes \in Seq(Nat) /\ Len(bytes) = size
    BY <1>2, <1>4, <1>5, SubSeqProperties
  <1>7. /\ ChunkRequest(j, i).op = "chunk" /\ ChunkRequest(j, i).kind = j.kind
        /\ ChunkRequest(j, i).bytes = bytes
    BY DEF ChunkRequest, Request, from, size
  <1> QED
    BY <1>4, <1>6, <1>7

(* What the frames a host sends can be, by their opcode.                   *)
LEMMA SentRequest ==
    ASSUME NEW j \in Jobs, NEW s \in 1..Steps(j)
    PROVE \/ j.kind \in Single /\ RequestOf(j, s) = SingleRequest(j)
          \/ j \in FileJobs /\ RequestOf(j, s) = BeginRequest(j)
          \/ j \in FileJobs /\ s = Steps(j) /\ RequestOf(j, s) = CommitRequest(j)
          \/ /\ j \in FileJobs /\ s < Steps(j) /\ s - 1 \in 1..ChunkCount(Len(j.file))
             /\ RequestOf(j, s) = ChunkRequest(j, s - 1)
  <1>1. CASE j.kind \in Single
    BY <1>1 DEF RequestOf, Single, Kinds
  <1>2. CASE j.kind \notin Single
    <2>1. j.kind \in Kinds /\ j \in FileJobs
      BY <1>2, JobFields
    <2>2. Steps(j) = ChunkCount(Len(j.file)) + 2 /\ ChunkCount(Len(j.file)) \in Nat
      BY <1>2, JobFields DEF Steps
    <2>3. CASE s = 1
      BY <1>2, <2>1, <2>3 DEF RequestOf
    <2>4. CASE s # 1 /\ s = Steps(j)
      BY <1>2, <2>1, <2>4 DEF RequestOf
    <2>5. CASE s # 1 /\ s # Steps(j)
      <3>1. RequestOf(j, s) = ChunkRequest(j, s - 1)
        BY <1>2, <2>5 DEF RequestOf
      <3>2. s - 1 \in 1..ChunkCount(Len(j.file)) /\ s < Steps(j)
        BY <2>2, <2>5
      <3> QED
        BY <2>1, <3>1, <3>2
    <2> QED
      BY <2>3, <2>4, <2>5
  <1> QED
    BY <1>1, <1>2

WellFormed(r) ==
    /\ r.op = "begin" => r.kind \in Kinds /\ ForJob(r)
    /\ r.op = "chunk" => r.kind \in Kinds /\ r.bytes \in Seq(Nat) /\ Len(r.bytes) > 0
    /\ r.op = "commit" => r.kind \in Kinds
    /\ r.op = "delete" => r.name \in Names
    /\ r.size \in Nat

LEMMA FrameFields ==
    ASSUME NEW r \in Sent
    PROVE WellFormed(r)
  <1>0. ChunkBody \in Nat
    BY LinkAssumption
  <1>1. CASE r = HelloRequest
    BY <1>1 DEF WellFormed, HelloRequest, Request, NoJob
  <1>2. ASSUME NEW j \in Jobs, NEW s \in 1..Steps(j), r = RequestOf(j, s) PROVE WellFormed(r)
    <2>1. CASE j.kind \in Single /\ r = SingleRequest(j)
      <3>1. j.name \in Names
        BY JobFields
      <3> QED
        BY <2>1, <3>1 DEF WellFormed, SingleRequest, Request, Single, Kinds
    <2>2. CASE j \in FileJobs /\ r = BeginRequest(j)
      <3>1. r.op = "begin" /\ Fields(r, j) /\ r.size = 1
        BY <2>2 DEF BeginRequest, Request, Fields
      <3> QED
        BY <2>2, <3>1 DEF WellFormed, ForJob, FileJobs, Fields
    <2>3. CASE j \in FileJobs /\ r = CommitRequest(j)
      <3>1. r.op = "commit" /\ r.kind = j.kind /\ r.size = 0
        BY <2>3 DEF CommitRequest, Request
      <3> QED
        BY <2>3, <3>1 DEF WellFormed, FileJobs
    <2>4. CASE j \in FileJobs /\ s - 1 \in 1..ChunkCount(Len(j.file)) /\ r = ChunkRequest(j, s - 1)
      <3>1. r.op = "chunk" /\ r.kind = j.kind /\ r.bytes \in Seq(Nat) /\ Len(r.bytes) > 0
        BY <2>4, ChunkFields
      <3>2. r.size = ChunkBody
        BY <2>4 DEF ChunkRequest
      <3> QED
        BY <1>0, <2>4, <3>1, <3>2 DEF WellFormed, FileJobs
    <2> QED
      BY <1>2, <2>1, <2>2, <2>3, <2>4, SentRequest
  <1> QED
    BY <1>1, <1>2 DEF Sent

(* Only the last chunk and what is no chunk end a command.                 *)
LEMMA SendOn ==
    ASSUME NEW j \in Jobs, NEW s \in 1..Steps(j), ~RequestOf(j, s).ack
    PROVE s + 1 \in 1..Steps(j)
  <1>1. Steps(j) \in Nat
    BY JobFields
  <1>2. s < Steps(j)
    <2>1. CASE j.kind \in Single /\ RequestOf(j, s) = SingleRequest(j)
      BY <2>1 DEF SingleRequest, Request, Single
    <2>2. CASE RequestOf(j, s) = BeginRequest(j)
      BY <2>2 DEF BeginRequest, Request
    <2>3. CASE RequestOf(j, s) = CommitRequest(j)
      BY <2>3 DEF CommitRequest, Request
    <2> QED
      BY <2>1, <2>2, <2>3, SentRequest
  <1> QED
    BY <1>1, <1>2

-----------------------------------------------------------------------------
(* The paths of a session, and that no two kinds share one.                *)
LEMMA PathsApart ==
    ASSUME NEW s, NEW t, NEW n, s.kind \in Kinds, t.kind \in Kinds
    PROVE /\ s.kind # t.kind => Staging(s) # Staging(t)
          /\ t.kind # "temp" => Staging(s) # Final(t)
          /\ Staging(s) # ContentOf(n)
          /\ t.kind \in {"install", "resource"} => Final(t) # ContentOf(n)
          /\ t.kind = "content" => Final(t) = ContentOf(t.name)
          /\ s.kind = "install" /\ t.kind \in {"resource", "content"} => Final(s) # Final(t)
  BY DEF Staging, Final, ContentOf, Kinds

LEMMA JobPaths ==
    ASSUME NEW s, NEW j \in FileJobs, Fields(s, j)
    PROVE /\ s.kind \in Kinds /\ s.name \in Names /\ s.crc \in Files /\ s.crc \in Seq(Nat)
          /\ s.total \in Nat
          /\ s.path \in {k.path : k \in Jobs}
          /\ Staging(s) = Staging(j) /\ Staging(s) \in Paths
          /\ s.kind # "temp" => Final(s) = Final(j) /\ Final(s) \in Finals /\ Final(s) \in Paths
  <1>1. j \in Jobs /\ j.kind \in Kinds /\ s.kind = j.kind /\ s.name = j.name /\ s.path = j.path
    BY DEF FileJobs, Fields
  <1>2. Staging(s) = Staging(j) /\ (s.kind # "temp" => Final(s) = Final(j))
    BY <1>1 DEF Staging, Final, Kinds
  <1>3. Staging(j) \in Paths
    BY <1>1 DEF Paths, Stagings
  <1>4. s.kind # "temp" => Final(j) \in Finals /\ Final(j) \in Paths
    BY <1>1 DEF Paths, Finals
  <1> QED
    BY <1>1, <1>2, <1>3, <1>4, JobFields DEF Fields

LEMMA SessionPaths ==
    ASSUME SessionsInv, NEW k \in Kinds, sessions[k].active
    PROVE LET s == sessions[k]
          IN /\ s.kind = k /\ ForJob(s) /\ s.name \in Names
             /\ s.total \in Nat /\ s.received \in Seq(Nat) /\ s.crc \in Seq(Nat)
             /\ s.staging \in Paths /\ Staging(s) \in Paths
             /\ k # "temp" => Final(s) \in Finals /\ Final(s) \in Paths
             /\ s.staging = Staging(s) \/ (k = "install" /\ s.staging = Final(s))
  <1> DEFINE s == sessions[k]
  <1>1. s \in SessionType /\ Session(k)
    BY DEF SessionsInv
  <1>2. PICK j \in FileJobs : Fields(s, j)
    BY <1>1 DEF Session, ForJob
  <1>3. s.kind = k
    BY <1>1 DEF Session
  <1>4. s.received \in Seq(Nat)
    BY <1>1 DEF SessionType
  <1>5. s.staging = Staging(s) \/ (k = "install" /\ s.staging = Final(s))
    BY <1>1 DEF Session
  <1> HIDE DEF s
  <1>6. ForJob(s)
    BY <1>2 DEF ForJob
  <1>7. /\ s.name \in Names /\ s.crc \in Seq(Nat) /\ s.total \in Nat
        /\ Staging(s) \in Paths
        /\ s.kind # "temp" => Final(s) \in Finals /\ Final(s) \in Paths
    BY <1>2, JobPaths
  <1>8. s.staging \in Paths
    BY <1>3, <1>5, <1>7
  <1> QED
    BY <1>3, <1>4, <1>5, <1>6, <1>7, <1>8 DEF s

(* A session keeps its invariant when its record and, while it is active,  *)
(* its staging file stay.                                                  *)
LEMMA SessionStays ==
    ASSUME NEW k \in Kinds, Session(k), sessions'[k] = sessions[k],
           sessions[k].active /\ k # "content" /\ sessions[k].staging = Staging(sessions[k])
             => store'[sessions[k].staging] = store[sessions[k].staging]
    PROVE Session(k)'
  <1> DEFINE s == sessions[k]
  <1>1. CASE ~s.active
    BY <1>1 DEF Session
  <1>2. CASE s.active
    <2>1. /\ s.kind = k /\ ForJob(s) /\ Len(s.received) <= s.total
          /\ \/ s.staging = Staging(s) /\ (k # "content" => Holds(store[s.staging], s))
             \/ k = "install" /\ s.staging = Final(s) /\ Len(s.received) = s.total
      BY <1>2 DEF Session
    <2>2. \/ s.staging = Staging(s) /\ (k # "content" => Holds(store'[s.staging], s))
          \/ k = "install" /\ s.staging = Final(s) /\ Len(s.received) = s.total
      BY <1>2, <2>1
    <2> QED
      BY <2>1, <2>2 DEF Session
  <1> QED
    BY <1>1, <1>2

-----------------------------------------------------------------------------
(* Files.                                                                  *)
LEMMA PrefixOfConcat ==
    ASSUME NEW a \in Seq(Nat), NEW b \in Seq(Nat)
    PROVE Prefix(a \o b, Len(a)) = a
  <1>1. CASE a = <<>>
    BY <1>1, SubSeqEmpty DEF Prefix
  <1>2. CASE a # <<>>
    <2>1. Len(a) \in 1..Len(a) /\ 1 \in 1..Len(a)
      BY <1>2, EmptySeq
    <2>2. SubSeq(a \o b, 1, Len(a)) = SubSeq(a, 1, Len(a))
      BY <2>1, SubSeqOfConcat1
    <2> QED
      BY <2>2, SubSeqFull DEF Prefix
  <1> QED
    BY <1>1, <1>2

LEMMA Regrouped ==
    ASSUME NEW a \in Seq(Nat), NEW b \in Seq(Nat), NEW c \in Seq(Nat)
    PROVE (a \o b) \o c = a \o (b \o c)
  BY ConcatAssociative, SMT

LEMMA PrefixType ==
    ASSUME NEW a \in Seq(Nat), NEW n \in 0..Len(a)
    PROVE Prefix(a, n) \in Seq(Nat) /\ Len(Prefix(a, n)) = n
  <1>1. n \in Int /\ \A i \in 1..n : a[i] \in Nat
    BY LenProperties
  <1> QED
    BY <1>1, SubSeqProperties DEF Prefix

(* A file that is held to the end is the file of the session.              *)
LEMMA HeldWhole ==
    ASSUME NEW s, NEW file, Holds(file, s), s.received \in Seq(Nat), Len(s.received) = s.total
    PROVE file = s.received
  <1>1. file \in Seq(Nat) /\ Len(file) = Len(s.received) /\ Prefix(file, Len(s.received)) = s.received
    BY LenProperties DEF Holds
  <1> QED
    BY <1>1, SubSeqFull DEF Prefix

(* Writing at the offset of a session keeps what was received, adds the    *)
(* bytes, and does not outgrow the file.                                   *)
LEMMA PatchedHolds ==
    ASSUME NEW s, NEW bytes \in Seq(Nat), s.kind # "content", s.received \in Seq(Nat),
           s.total \in Nat, Holds(store[s.staging], s),
           Len(bytes) <= s.total - Len(s.received)
    PROVE LET file == Patched(s, bytes)
          IN /\ Holds(file, s)
             /\ file \in Seq(Nat) /\ Len(file) <= s.total
             /\ s.received \o bytes \in Seq(Nat)
             /\ Len(s.received \o bytes) <= Len(file)
             /\ Prefix(file, Len(s.received \o bytes)) = s.received \o bytes
  <1> DEFINE old == store[s.staging]
             end == Len(s.received) + Len(bytes)
             rest == SubSeq(old, end + 1, Len(old))
             file == Patched(s, bytes)
             head == s.received \o bytes
  <1>1. /\ old \in Seq(Nat) /\ Len(s.received) <= Len(old) /\ Len(old) <= s.total
        /\ Prefix(old, Len(s.received)) = s.received
    BY DEF Holds
  <1>2. Len(old) \in Nat /\ Len(s.received) \in Nat /\ Len(bytes) \in Nat
    BY <1>1, LenProperties
  <1>3. file = head \o rest
    BY <1>1 DEF Patched, Opened
  <1>4. rest \in Seq(Nat) /\ Len(rest) = IF end + 1 <= Len(old) THEN Len(old) - end ELSE 0
    <2> HIDE DEF old
    <2>1. \A i \in end + 1 .. Len(old) : old[i] \in Nat
      BY <1>1, <1>2
    <2>2. end + 1 \in Int /\ Len(old) \in Int
      BY <1>2
    <2> HIDE DEF end
    <2>3. rest \in Seq(Nat) /\ Len(rest) = IF end + 1 <= Len(old) THEN Len(old) - (end + 1) + 1 ELSE 0
      BY <2>1, <2>2, SubSeqProperties
    <2>4. end \in Int
      BY <1>2 DEF end
    <2> HIDE DEF rest
    <2> QED
      BY <1>2, <2>3, <2>4
  <1>5. head \in Seq(Nat) /\ Len(head) = end
    BY ConcatProperties
  <1> HIDE DEF rest, head, file, old
  <1>6. file \in Seq(Nat) /\ Len(file) = end + Len(rest)
    <2>1. rest \in Seq(Nat) /\ head \in Seq(Nat)
      BY <1>4, <1>5
    <2>2. head \o rest \in Seq(Nat) /\ Len(head \o rest) = Len(head) + Len(rest)
      BY <2>1, ConcatProperties
    <2> QED
      BY <1>3, <1>5, <2>2
  <1>7. end <= Len(file) /\ Len(file) <= s.total
    <2> HIDE DEF end
    <2>1. end \in Nat /\ end <= s.total
      BY <1>2 DEF end
    <2>2. Len(old) \in Nat /\ Len(old) <= s.total
      BY <1>1, <1>2 DEF old
    <2>3. Len(rest) \in Nat /\ (Len(rest) = 0 \/ Len(rest) = Len(old) - end)
      BY <1>4, <2>1, <2>2
    <2> QED
      BY <1>6, <2>1, <2>2, <2>3
  <1>8. Prefix(file, Len(head)) = head
    BY <1>3, <1>4, <1>5, PrefixOfConcat
  <1>9. Prefix(file, Len(s.received)) = s.received
    <2>1. file = s.received \o (bytes \o rest)
      <3>1. rest \in Seq(Nat)
        BY <1>4
      <3>2. (s.received \o bytes) \o rest = s.received \o (bytes \o rest)
        <4> HIDE DEF rest
        <4> QED
          BY <3>1, Regrouped
      <3> QED
        BY <1>3, <3>2 DEF head
    <2>2. bytes \o rest \in Seq(Nat)
      BY <1>4, ConcatProperties
    <2> QED
      BY <2>1, <2>2, PrefixOfConcat
  <1>10. Holds(file, s)
    BY <1>2, <1>6, <1>7, <1>9 DEF Holds
  <1>11. /\ head \in Seq(Nat) /\ Len(head) <= Len(file) /\ Prefix(file, Len(head)) = head
    BY <1>5, <1>7, <1>8
  <1> QED
    BY <1>6, <1>7, <1>10, <1>11 DEF file, head

-----------------------------------------------------------------------------
(* What the handlers write.                                                *)
LEMMA NoSessionType == NoSession \in SessionType /\ ~NoSession.active
  BY DEF NoSession, SessionType, Kinds

LEMMA ReceivingType ==
    ASSUME NEW r, r.kind \in Kinds, ForJob(r)
    PROVE /\ Receiving(r) \in SessionType /\ Receiving(r).active
          /\ Receiving(r).kind = r.kind /\ ForJob(Receiving(r))
          /\ Receiving(r).received = <<>> /\ Receiving(r).total = r.total /\ r.total \in Nat
          /\ Receiving(r).staging = Staging(r) /\ Staging(Receiving(r)) = Staging(r)
  <1>1. PICK j \in FileJobs : Fields(r, j)
    BY DEF ForJob
  <1>2. /\ r.name \in Names /\ r.crc \in Files /\ r.total \in Nat
        /\ r.path \in {k.path : k \in Jobs} /\ Staging(r) \in Paths
    BY <1>1, JobPaths
  <1> DEFINE staged == Staging(r)
  <1>3. Receiving(r) =
          [active |-> TRUE, phase |-> "receiving", kind |-> r.kind, name |-> r.name,
           path |-> r.path, total |-> r.total, received |-> <<>>, crc |-> r.crc,
           staging |-> staged, open |-> FALSE]
    BY DEF Receiving
  <1>4. staged \in Paths
    BY <1>2
  <1>5. Staging(Receiving(r)) = Staging(r)
    BY DEF Receiving, Staging
  <1>6. Fields(Receiving(r), j)
    BY <1>1, <1>3 DEF Fields
  <1>7. ForJob(Receiving(r))
    BY <1>6 DEF ForJob
  <1> HIDE DEF staged
  <1>8. Receiving(r) \in SessionType
    BY <1>2, <1>3, <1>4 DEF SessionType
  <1> QED
    BY <1>2, <1>3, <1>5, <1>7, <1>8 DEF staged

(* What a chunk or a commit changes in a session.                          *)
LEMMA SessionUpdates ==
    ASSUME NEW s \in SessionType, NEW b \in BOOLEAN, NEW bytes \in Seq(Nat)
    PROVE /\ [s EXCEPT !.open = b] \in SessionType
          /\ [Complete(s, bytes) EXCEPT !.open = b] =
                [s EXCEPT !.received = s.received \o bytes, !.open = b]
          /\ [Complete(s, bytes) EXCEPT !.open = b] \in SessionType
          /\ [Committing(s) EXCEPT !.open = b] = [s EXCEPT !.phase = "committing", !.open = b]
          /\ Committing(s) \in SessionType
          /\ [Committing(s) EXCEPT !.open = b] \in SessionType
          /\ [s EXCEPT !.active = FALSE, !.phase = "idle"] \in SessionType
  <1>1. s.received \o bytes \in Seq(Nat)
    BY ConcatProperties DEF SessionType
  <1>2. [Complete(s, bytes) EXCEPT !.open = b] =
                [s EXCEPT !.received = s.received \o bytes, !.open = b]
    BY DEF Complete, SessionType
  <1>3. [Committing(s) EXCEPT !.open = b] = [s EXCEPT !.phase = "committing", !.open = b]
    BY DEF Committing, SessionType
  <1> DEFINE all == s.received \o bytes
  <1> HIDE DEF all
  <1>4. all \in Seq(Nat)
    BY <1>1 DEF all
  <1>5. [s EXCEPT !.received = all, !.open = b] \in SessionType
    BY <1>4 DEF SessionType
  <1>6. /\ [s EXCEPT !.open = b] \in SessionType
        /\ [s EXCEPT !.phase = "committing", !.open = b] \in SessionType
        /\ [s EXCEPT !.active = FALSE, !.phase = "idle"] \in SessionType
        /\ Committing(s) \in SessionType
    BY DEF SessionType, Committing
  <1> QED
    BY <1>2, <1>3, <1>5, <1>6 DEF all

-----------------------------------------------------------------------------
(* What a write to a file leaves.                                          *)
LEMMA Faults == Fault /\ faults \in 0..MaxFaults => faults' \in 0..MaxFaults
  BY LinkAssumption DEF Fault

LEMMA StoreWritten ==
    ASSUME StoreInv, NEW p \in Paths, NEW file, WriteFile(p, file)
    PROVE StoreInv' /\ store'[p] = file /\ \A q \in Paths : q # p => store'[q] = store[q]
  BY DEF StoreInv, WriteFile

LEMMA StagingNotFinal ==
    ASSUME NEW s, s.kind \in Kinds
    PROVE Staging(s) \notin Finals
  <1> SUFFICES ASSUME NEW j \in Jobs, j.kind \in Kinds \ {"temp"}, Staging(s) = Final(j)
               PROVE FALSE
    BY DEF Finals
  <1> QED
    BY PathsApart

LEMMA FinalsArePaths == Finals \subseteq Paths
  BY DEF Paths

LEMMA WholeStays ==
    ASSUME WholeApps, launched' = launched,
           \A p \in Finals : store'[p] = store[p] \/ store'[p] = NoFile
    PROVE WholeApps'
  BY DEF WholeApps

(* Other sessions do not see what a session writes.                        *)
LEMMA OtherSessions ==
    ASSUME SessionsInv, NEW k \in Kinds, NEW ns \in SessionType, Session(k)',
           sessions' = [sessions EXCEPT ![k] = ns],
           \A q \in Kinds \ {k} :
              sessions[q].active /\ sessions[q].staging = Staging(sessions[q])
                => store'[sessions[q].staging] = store[sessions[q].staging]
    PROVE SessionsInv'
  <1>1. sessions' \in [Kinds -> SessionType]
    BY DEF SessionsInv
  <1>2. ASSUME NEW q \in Kinds PROVE Session(q)'
    <2>1. CASE q = k
      BY <2>1
    <2>2. CASE q # k
      <3>1. Session(q) /\ sessions'[q] = sessions[q]
        BY <2>2 DEF SessionsInv
      <3> QED
        BY <2>2, <3>1, SessionStays
    <2> QED
      BY <2>1, <2>2
  <1> QED
    BY <1>1, <1>2 DEF SessionsInv

LEMMA StagingWritten ==
    ASSUME SessionsInv, StoreInv, NEW s, s.kind \in Kinds, NEW file,
           Staging(s) \in Paths, WriteFile(Staging(s), file)
    PROVE /\ StoreInv' /\ store'[Staging(s)] = file
          /\ \A p \in Finals : store'[p] = store[p]
          /\ \A q \in Kinds \ {s.kind} :
                sessions[q].active /\ sessions[q].staging = Staging(sessions[q])
                  => store'[sessions[q].staging] = store[sessions[q].staging]
  <1>1. StoreInv' /\ store'[Staging(s)] = file
        /\ \A q \in Paths : q # Staging(s) => store'[q] = store[q]
    BY StoreWritten
  <1>2. \A p \in Finals : store'[p] = store[p]
    BY <1>1, StagingNotFinal, FinalsArePaths
  <1>3. ASSUME NEW q \in Kinds \ {s.kind}, sessions[q].active,
               sessions[q].staging = Staging(sessions[q])
        PROVE store'[sessions[q].staging] = store[sessions[q].staging]
    <2>1. sessions[q].kind = q /\ sessions[q].staging \in Paths
      BY <1>3, SessionPaths
    <2>2. Staging(sessions[q]) # Staging(s)
      BY <2>1, PathsApart
    <2> QED
      BY <1>1, <1>3, <2>1, <2>2
  <1> QED
    BY <1>1, <1>2, <1>3

-----------------------------------------------------------------------------
(* The handlers.  Between two requests no commit is half way.              *)
LEMMA BeginStep ==
    ASSUME DeviceInv, publishing = NoCommit, NEW r, WellFormed(r), r.op = "begin", Begin(r)
    PROVE DeviceInv'
  <1> DEFINE k == r.kind
  <1>1. k \in Kinds /\ ForJob(r)
    BY DEF WellFormed
  <1>2. PublishingInv' /\ RegistryInv' /\ launched' = launched
    BY DEF DeviceInv, Begin, PublishingInv, RegistryInv
  <1>3. faults' \in 0..MaxFaults
    BY Faults DEF DeviceInv, Begin
  <1>4. CASE UNCHANGED <<sessions, store>>
    <2>1. SessionsInv' /\ StoreInv' /\ WholeApps'
      BY <1>2, <1>4 DEF DeviceInv, SessionsInv, Session, Holds, StoreInv, WholeApps
    <2> QED
      BY <1>2, <1>3, <2>1 DEF DeviceInv
  <1>5. CASE SetSession(r, NoSession) /\ UNCHANGED store
    <2>1. sessions' = [sessions EXCEPT ![k] = NoSession] /\ store' = store
      BY <1>5 DEF SetSession
    <2>2. Session(k)'
      BY <1>1, <2>1, NoSessionType DEF Session, DeviceInv, SessionsInv
    <2>3. SessionsInv'
      BY <1>1, <2>1, <2>2, NoSessionType, OtherSessions DEF DeviceInv
    <2>4. StoreInv' /\ WholeApps'
      BY <1>2, <2>1 DEF DeviceInv, StoreInv, WholeApps
    <2> QED
      BY <1>2, <1>3, <2>3, <2>4 DEF DeviceInv
  <1>6. CASE /\ SetSession(r, Receiving(r))
             /\ IF r.kind = "content" THEN UNCHANGED store ELSE Emptied(Staging(r))
    <2> DEFINE s == Receiving(r)
    <2>1. sessions' = [sessions EXCEPT ![k] = s]
      BY <1>6 DEF SetSession
    <2>2. /\ s \in SessionType /\ s.active /\ s.kind = k /\ ForJob(s)
          /\ s.received = <<>> /\ s.total \in Nat
          /\ s.staging = Staging(r) /\ Staging(s) = Staging(r)
      BY <1>1, ReceivingType
    <2>3. Staging(r) \in Paths
      BY <1>1, JobPaths DEF ForJob
    <2>4. sessions'[k] = s
      BY <1>1, <2>1 DEF DeviceInv, SessionsInv
    <2> HIDE DEF s
    <2>5. Len(s.received) <= s.total
      BY <2>2
    <2>6. CASE k = "content" /\ store' = store
      <3>1. Session(k)'
        BY <2>2, <2>4, <2>5, <2>6 DEF Session
      <3>2. SessionsInv'
        BY <1>1, <2>1, <2>2, <2>6, <3>1, OtherSessions DEF DeviceInv
      <3>3. StoreInv' /\ WholeApps'
        BY <1>2, <2>6 DEF DeviceInv, StoreInv, WholeApps
      <3> QED
        BY <1>2, <1>3, <3>2, <3>3 DEF DeviceInv
    <2>7. CASE k # "content" /\ WriteFile(Staging(r), <<>>)
      <3>1. /\ StoreInv' /\ store'[Staging(r)] = <<>>
            /\ \A p \in Finals : store'[p] = store[p]
            /\ \A q \in Kinds \ {k} :
                  sessions[q].active /\ sessions[q].staging = Staging(sessions[q])
                    => store'[sessions[q].staging] = store[sessions[q].staging]
        BY <1>1, <2>3, <2>7, StagingWritten DEF DeviceInv
      <3>2. Holds(store'[s.staging], s)
        <4>1. Prefix(<<>>, 0) = <<>>
          BY SubSeqEmpty DEF Prefix
        <4> QED
          BY <2>2, <3>1, <4>1 DEF Holds
      <3>3. Session(k)'
        BY <2>2, <2>4, <2>5, <3>2 DEF Session
      <3>4. SessionsInv'
        BY <1>1, <2>1, <2>2, <3>1, <3>3, OtherSessions DEF DeviceInv
      <3>5. WholeApps'
        BY <1>2, <3>1, WholeStays DEF DeviceInv
      <3> QED
        BY <1>2, <1>3, <3>1, <3>4, <3>5 DEF DeviceInv
    <2> QED
      BY <1>6, <2>6, <2>7 DEF Emptied
  <1> QED
    BY <1>4, <1>5, <1>6 DEF Begin

(* A chunk goes to a session that has something left to receive, so never  *)
(* to one that names a published file.                                     *)
LEMMA ChunkSession ==
    ASSUME DeviceInv, NEW r, WellFormed(r), r.op = "chunk", ChunkOk(SessionOf(r), r)
    PROVE LET s == SessionOf(r)
          IN /\ r.kind \in Kinds /\ s \in SessionType /\ s.active /\ s.kind = r.kind
             /\ ForJob(s) /\ s.received \in Seq(Nat) /\ s.total \in Nat
             /\ r.bytes \in Seq(Nat) /\ Len(r.bytes) <= s.total - Len(s.received)
             /\ s.staging = Staging(s) /\ Staging(s) \in Paths
             /\ r.kind # "content" => Holds(store[s.staging], s)
  <1> DEFINE s == sessions[r.kind]
  <1>1. r.kind \in Kinds /\ r.bytes \in Seq(Nat) /\ Len(r.bytes) > 0
    BY DEF WellFormed
  <1>2. s.active /\ Len(r.bytes) <= s.total - Len(s.received)
    BY DEF ChunkOk, SessionOf
  <1>3. /\ s.kind = r.kind /\ ForJob(s) /\ s.total \in Nat /\ s.received \in Seq(Nat)
        /\ Staging(s) \in Paths
    BY <1>1, <1>2, SessionPaths DEF DeviceInv
  <1>4. s \in SessionType
    BY <1>1 DEF DeviceInv, SessionsInv
  <1>5. Len(s.received) # s.total
    BY <1>1, <1>2, <1>3, LenProperties
  <1>6. s.staging = Staging(s) /\ (r.kind # "content" => Holds(store[s.staging], s))
    BY <1>1, <1>2, <1>5 DEF DeviceInv, SessionsInv, Session
  <1> HIDE DEF s
  <1> QED
    BY <1>1, <1>2, <1>3, <1>4, <1>6 DEF s, SessionOf

(* What a chunk leaves of its session and of the file: some of its bytes   *)
(* written and none counted, or all of them written and counted.           *)
LEMMA ChunkStep ==
    ASSUME DeviceInv, publishing = NoCommit, NEW r, WellFormed(r), r.op = "chunk", Chunk(r)
    PROVE DeviceInv'
  <1> DEFINE k == r.kind
             s == sessions[r.kind]
  <1>1. PublishingInv' /\ RegistryInv' /\ launched' = launched
    BY DEF DeviceInv, Chunk, PublishingInv, RegistryInv
  <1>2. faults' \in 0..MaxFaults
    BY Faults DEF DeviceInv, Chunk
  <1>3. CASE UNCHANGED <<sessions, store>>
    <2>1. SessionsInv' /\ StoreInv' /\ WholeApps'
      BY <1>1, <1>3 DEF DeviceInv, SessionsInv, Session, Holds, StoreInv, WholeApps
    <2> QED
      BY <1>1, <1>2, <2>1 DEF DeviceInv
  <1>4. ASSUME ChunkOk(s, r), NEW file, NEW ns \in SessionType,
               WriteFile(s.staging, file), SetSession(r, ns),
               ns.active, ns.kind = s.kind, ns.name = s.name, ns.path = s.path,
               ns.crc = s.crc, ns.total = s.total, ns.staging = s.staging,
               Len(ns.received) <= s.total,
               k # "content" => Holds(file, ns)
        PROVE DeviceInv'
    <2>1. /\ k \in Kinds /\ s.kind = k /\ ForJob(s) /\ s.staging = Staging(s)
          /\ Staging(s) \in Paths
      BY <1>4, ChunkSession DEF SessionOf
    <2>2. sessions' = [sessions EXCEPT ![k] = ns] /\ sessions'[k] = ns
      BY <1>4, <2>1 DEF SetSession, DeviceInv, SessionsInv
    <2>3. /\ StoreInv' /\ store'[Staging(s)] = file
          /\ \A p \in Finals : store'[p] = store[p]
          /\ \A q \in Kinds \ {k} :
                sessions[q].active /\ sessions[q].staging = Staging(sessions[q])
                  => store'[sessions[q].staging] = store[sessions[q].staging]
      <3>1. WriteFile(Staging(s), file)
        BY <1>4, <2>1
      <3> HIDE DEF s
      <3> QED
        BY <2>1, <3>1, StagingWritten DEF DeviceInv
    <2>4. ForJob(ns) /\ Staging(ns) = Staging(s)
      BY <1>4, <2>1 DEF ForJob, Fields, Staging
    <2>5. Session(k)'
      BY <1>4, <2>1, <2>2, <2>3, <2>4 DEF Session
    <2>6. SessionsInv'
      BY <1>4, <2>1, <2>2, <2>3, <2>5, OtherSessions DEF DeviceInv
    <2>7. WholeApps'
      BY <1>1, <2>3, WholeStays DEF DeviceInv
    <2> QED
      BY <1>1, <1>2, <2>3, <2>6, <2>7 DEF DeviceInv
  <1>5. ASSUME ChunkOk(s, r), NEW n \in 0..Len(r.bytes),
               WriteFile(s.staging, Patched(s, Prefix(r.bytes, n))),
               SetSession(r, [s EXCEPT !.open = (r.kind = "content")])
        PROVE DeviceInv'
    <2> DEFINE bytes == Prefix(r.bytes, n)
               ns == [s EXCEPT !.open = (r.kind = "content")]
    <2>1. /\ k \in Kinds /\ s \in SessionType /\ s.active /\ s.kind = k
          /\ s.received \in Seq(Nat) /\ s.total \in Nat
          /\ r.bytes \in Seq(Nat) /\ Len(r.bytes) <= s.total - Len(s.received)
          /\ k # "content" => Holds(store[s.staging], s)
      BY <1>5, ChunkSession DEF SessionOf
    <2>2. bytes \in Seq(Nat) /\ Len(bytes) <= s.total - Len(s.received)
      BY <2>1, PrefixType, LenProperties
    <2>3. /\ ns \in SessionType /\ ns.active /\ ns.kind = s.kind /\ ns.name = s.name
          /\ ns.path = s.path /\ ns.crc = s.crc /\ ns.total = s.total
          /\ ns.staging = s.staging /\ ns.received = s.received
      BY <2>1 DEF SessionType
    <2>4. Len(s.received) <= s.total
      BY <2>1, <2>2, LenProperties
    <2> HIDE DEF bytes, ns
    <2>5. k # "content" => Holds(Patched(s, bytes), s)
      BY <2>1, <2>2, PatchedHolds
    <2>6. k # "content" => Holds(Patched(s, bytes), ns)
      BY <2>3, <2>5 DEF Holds
    <2>7. WriteFile(s.staging, Patched(s, bytes)) /\ SetSession(r, ns)
      BY <1>5 DEF bytes, ns
    <2> QED
      BY <1>4, <1>5, <2>3, <2>4, <2>6, <2>7
  <1>6. ASSUME ChunkOk(s, r), WriteFile(s.staging, Patched(s, r.bytes)),
               SetSession(r, [Complete(s, r.bytes) EXCEPT !.open = (r.kind = "content")])
        PROVE DeviceInv'
    <2> DEFINE all == s.received \o r.bytes
               ns == [Complete(s, r.bytes) EXCEPT !.open = (r.kind = "content")]
               file == Patched(s, r.bytes)
    <2>1. /\ k \in Kinds /\ s \in SessionType /\ s.active /\ s.kind = k
          /\ s.received \in Seq(Nat) /\ s.total \in Nat
          /\ r.bytes \in Seq(Nat) /\ Len(r.bytes) <= s.total - Len(s.received)
          /\ k # "content" => Holds(store[s.staging], s)
      BY <1>6, ChunkSession DEF SessionOf
    <2>2. /\ ns \in SessionType
          /\ ns = [s EXCEPT !.received = all, !.open = (r.kind = "content")]
      BY <2>1, SessionUpdates
    <2>3. all \in Seq(Nat) /\ Len(all) <= s.total
      <3> HIDE DEF s
      <3>1. all \in Seq(Nat) /\ Len(all) = Len(s.received) + Len(r.bytes)
        BY <2>1, ConcatProperties
      <3>2. Len(s.received) \in Nat /\ Len(r.bytes) \in Nat
        BY <2>1, LenProperties
      <3>3. s.total \in Nat /\ Len(r.bytes) <= s.total - Len(s.received)
        BY <2>1
      <3>4. Len(s.received) + Len(r.bytes) <= s.total
        <4>1. \A m, n, l \in Nat : m <= l - n => n + m <= l
          OBVIOUS
        <4> QED
          BY <3>2, <3>3, <4>1, Zenon
      <3> HIDE DEF all
      <3> QED
        BY <3>1, <3>4
    <2> HIDE DEF all, ns
    <2>4. /\ ns.active /\ ns.kind = s.kind /\ ns.name = s.name
          /\ ns.path = s.path /\ ns.crc = s.crc /\ ns.total = s.total
          /\ ns.staging = s.staging /\ ns.received = all
      BY <2>1, <2>2 DEF SessionType
    <2>5. k # "content" =>
             /\ file \in Seq(Nat) /\ Len(file) <= s.total
             /\ Len(all) <= Len(file) /\ Prefix(file, Len(all)) = all
      BY <2>1, PatchedHolds DEF all
    <2> HIDE DEF file
    <2>6. k # "content" => Holds(file, ns)
      BY <2>4, <2>5 DEF Holds
    <2>7. WriteFile(s.staging, file) /\ SetSession(r, ns)
      BY <1>6 DEF file, ns
    <2> QED
      BY <1>4, <1>6, <2>2, <2>3, <2>4, <2>6, <2>7
  <1> QED
    BY <1>3, <1>5, <1>6 DEF Chunk, SessionOf

(* A commit that is accepted finds the whole file, in the session and,     *)
(* where it is staged, in its staging file.                                *)
LEMMA CommitSession ==
    ASSUME SessionsInv, NEW k \in Kinds, CommitOk(sessions[k])
    PROVE LET s == sessions[k]
          IN /\ s \in SessionType /\ s.active /\ s.kind = k /\ ForJob(s)
             /\ s.received = s.crc /\ Len(s.received) = s.total
             /\ s.staging = Staging(s) \/ (k = "install" /\ s.staging = Final(s))
             /\ s.staging \in Paths /\ Staging(s) \in Paths
             /\ k # "temp" => Final(s) \in Finals /\ Final(s) \in Paths
             /\ k # "content" /\ s.staging = Staging(s) =>
                   store[s.staging] = s.crc /\ Holds(store[s.staging], s)
  <1> DEFINE s == sessions[k]
  <1>1. s.active /\ s.received = s.crc /\ Len(s.received) = s.total
    BY DEF CommitOk
  <1>2. /\ s.kind = k /\ ForJob(s) /\ s.received \in Seq(Nat)
        /\ s.staging = Staging(s) \/ (k = "install" /\ s.staging = Final(s))
        /\ s.staging \in Paths /\ Staging(s) \in Paths
        /\ k # "temp" => Final(s) \in Finals /\ Final(s) \in Paths
    BY <1>1, SessionPaths
  <1>3. s \in SessionType /\ Session(k)
    BY DEF SessionsInv
  <1>4. k # "temp" => Staging(s) # Final(s)
    BY <1>2, PathsApart
  <1>5. ASSUME k # "content", s.staging = Staging(s)
        PROVE Holds(store[s.staging], s)
    <2>1. k # "install" \/ s.staging # Final(s)
      BY <1>4, <1>5
    <2> QED
      BY <1>1, <1>3, <1>5, <2>1 DEF Session
  <1>6. ASSUME k # "content", s.staging = Staging(s)
        PROVE store[s.staging] = s.crc
    <2>1. Holds(store[s.staging], s)
      BY <1>5, <1>6
    <2> HIDE DEF s
    <2> QED
      BY <1>1, <1>2, <2>1, HeldWhole
  <1> QED
    BY <1>1, <1>2, <1>3, <1>5, <1>6

LEMMA CommitStep ==
    ASSUME DeviceInv, publishing = NoCommit, NEW r, WellFormed(r), r.op = "commit",
           r.kind # "temp", Commit(r)
    PROVE DeviceInv'
  <1> DEFINE k == r.kind
             s == sessions[r.kind]
  <1>1. k \in Kinds /\ k # "temp"
    BY DEF WellFormed
  <1>2. RegistryInv' /\ launched' = launched
    BY DEF DeviceInv, Commit, RegistryInv
  <1>3. faults' \in 0..MaxFaults
    BY Faults DEF DeviceInv, Commit
  <1>4. CASE UNCHANGED <<sessions, store, publishing>>
    <2>1. SessionsInv' /\ StoreInv' /\ WholeApps' /\ PublishingInv'
      BY <1>2, <1>4 DEF DeviceInv, SessionsInv, Session, Holds, StoreInv, WholeApps, PublishingInv
    <2> QED
      BY <1>2, <1>3, <2>1 DEF DeviceInv
  <1>5. CASE /\ s.active /\ s.kind = "content" /\ UNCHANGED publishing
             /\ WriteFile(s.staging, NoFile) /\ SetSession(r, NoSession)
    <2>1. s.kind = k /\ s.staging = Staging(s) /\ Staging(s) \in Paths
      BY <1>1, <1>5, SessionPaths DEF DeviceInv
    <2>2. sessions' = [sessions EXCEPT ![k] = NoSession] /\ sessions'[k] = NoSession
      BY <1>1, <1>5 DEF SetSession, DeviceInv, SessionsInv
    <2>3. WriteFile(Staging(s), NoFile)
      BY <1>5, <2>1
    <2> HIDE DEF s
    <2>4. /\ StoreInv' /\ \A p \in Finals : store'[p] = store[p]
          /\ \A q \in Kinds \ {k} :
                sessions[q].active /\ sessions[q].staging = Staging(sessions[q])
                  => store'[sessions[q].staging] = store[sessions[q].staging]
      BY <1>1, <2>1, <2>3, StagingWritten DEF DeviceInv
    <2>5. Session(k)'
      BY <2>2, NoSessionType DEF Session
    <2>6. SessionsInv'
      BY <1>1, <2>2, <2>4, <2>5, NoSessionType, OtherSessions DEF DeviceInv
    <2>7. WholeApps'
      BY <1>2, <2>4, WholeStays DEF DeviceInv
    <2>8. PublishingInv'
      BY <1>5 DEF PublishingInv
    <2> QED
      BY <1>2, <1>3, <2>4, <2>6, <2>7, <2>8 DEF DeviceInv
  <1>6. ASSUME CommitOk(s), SetSession(r, [Committing(s) EXCEPT !.open = FALSE]),
               \/ UNCHANGED <<store, publishing>>
               \/ WriteFile(Target(s), NoFile) /\ publishing' = r
        PROVE DeviceInv'
    <2> DEFINE ns == [Committing(s) EXCEPT !.open = FALSE]
    <2>1. /\ s \in SessionType /\ s.active /\ s.kind = k /\ ForJob(s)
          /\ s.received = s.crc /\ Len(s.received) = s.total
          /\ s.staging = Staging(s) \/ (k = "install" /\ s.staging = Final(s))
          /\ s.staging \in Paths /\ Final(s) \in Finals /\ Final(s) \in Paths
          /\ k # "content" /\ s.staging = Staging(s) => Holds(store[s.staging], s)
      BY <1>1, <1>6, CommitSession DEF DeviceInv
    <2>2. sessions' = [sessions EXCEPT ![k] = ns] /\ sessions'[k] = ns
      BY <1>1, <1>6 DEF SetSession, DeviceInv, SessionsInv
    <2>3. ns = [s EXCEPT !.phase = "committing", !.open = FALSE] /\ ns \in SessionType
      <3>1. <<>> \in Seq(Nat) /\ FALSE \in BOOLEAN
        OBVIOUS
      <3> HIDE DEF s
      <3> QED
        BY <2>1, <3>1, SessionUpdates
    <2> HIDE DEF ns
    <2>4. /\ ns.active /\ ns.kind = s.kind /\ ns.name = s.name /\ ns.path = s.path
          /\ ns.crc = s.crc /\ ns.total = s.total /\ ns.staging = s.staging
          /\ ns.received = s.received
      BY <2>1, <2>3 DEF SessionType
    <2>5. ForJob(ns) /\ Staging(ns) = Staging(s) /\ Final(ns) = Final(s)
      BY <2>1, <2>4 DEF ForJob, Fields, Staging, Final
    <2>6. Final(s) # Staging(s)
      BY <1>1, <2>1, PathsApart
    <2>7. store' = store \/ WriteFile(Final(s), NoFile)
      BY <1>6 DEF Target
    <2>8. /\ StoreInv' /\ \A q \in Paths : q # Final(s) => store'[q] = store[q]
          /\ store'[Final(s)] = store[Final(s)] \/ store'[Final(s)] = NoFile
      <3> HIDE DEF s
      <3>1. CASE store' = store
        BY <3>1 DEF StoreInv, DeviceInv
      <3>2. CASE WriteFile(Final(s), NoFile)
        BY <2>1, <3>2, StoreWritten DEF DeviceInv
      <3> QED
        BY <2>7, <3>1, <3>2
    <2>9. ASSUME NEW q \in Kinds, sessions[q].active, sessions[q].staging = Staging(sessions[q])
          PROVE store'[sessions[q].staging] = store[sessions[q].staging]
      <3>1. sessions[q].kind = q /\ sessions[q].staging \in Paths
        BY <2>9, SessionPaths DEF DeviceInv
      <3>2. Staging(sessions[q]) # Final(s)
        BY <1>1, <2>1, <3>1, PathsApart
      <3> QED
        BY <2>8, <2>9, <3>1, <3>2
    <2>10. Session(k)'
      <3>1. CASE s.staging = Staging(s)
        <4>1. k # "content" => Holds(store'[ns.staging], ns)
          <5>1. store'[s.staging] = store[s.staging]
            BY <2>1, <2>6, <2>8, <3>1
          <5>2. k # "content" => Holds(store'[s.staging], s)
            BY <2>1, <3>1, <5>1
          <5> QED
            BY <2>4, <5>2 DEF Holds
        <4>2. ns.staging = Staging(ns) /\ Len(ns.received) <= ns.total /\ ns.kind = k
          BY <2>1, <2>4, <2>5, <3>1 DEF SessionType
        <4> QED
          BY <2>2, <2>4, <2>5, <4>1, <4>2 DEF Session
      <3>2. CASE s.staging # Staging(s)
        <4>1. /\ k = "install" /\ ns.staging = Final(ns) /\ Len(ns.received) = ns.total
              /\ Len(ns.received) <= ns.total /\ ns.kind = k
          BY <2>1, <2>4, <2>5, <3>2 DEF SessionType
        <4> QED
          BY <2>2, <2>4, <2>5, <4>1 DEF Session
      <3> QED
        BY <3>1, <3>2
    <2>11. SessionsInv'
      BY <1>1, <2>2, <2>3, <2>9, <2>10, OtherSessions DEF DeviceInv
    <2>12. WholeApps'
      BY <1>2, <2>8, FinalsArePaths, WholeStays DEF DeviceInv
    <2>13. PublishingInv'
      <3>1. CASE publishing' = publishing
        BY <3>1 DEF PublishingInv
      <3>2. CASE WriteFile(Target(s), NoFile) /\ publishing' = r
        <4>1. CommitOk(ns)
          BY <2>1, <2>4 DEF CommitOk
        <4>2. store'[Final(s)] = NoFile
          <5>1. WriteFile(Final(s), NoFile) /\ Final(s) \in Paths
            BY <2>1, <3>2 DEF Target
          <5> HIDE DEF s
          <5> QED
            BY <5>1, StoreWritten DEF DeviceInv
        <4>3. ns.staging = Final(ns) => store'[ns.staging] = NoFile
          BY <2>5, <4>2
        <4> QED
          BY <1>1, <2>2, <3>2, <4>1, <4>3 DEF PublishingInv
      <3> QED
        BY <1>6, <3>1, <3>2
    <2> QED
      BY <1>2, <1>3, <2>8, <2>11, <2>12, <2>13 DEF DeviceInv
  <1> QED
    BY <1>4, <1>5, <1>6 DEF Commit, SessionOf

LEMMA CommitTempStep ==
    ASSUME DeviceInv, publishing = NoCommit, NEW r, WellFormed(r), r.op = "commit",
           r.kind = "temp", CommitTemp(r)
    PROVE DeviceInv'
  <1> DEFINE s == sessions["temp"]
  <1>1. "temp" \in Kinds /\ SessionOf(r) = s
    BY DEF Kinds, SessionOf
  <1>2. RegistryInv' /\ PublishingInv' /\ StoreInv' /\ store' = store
    BY DEF DeviceInv, CommitTemp, RegistryInv, PublishingInv, StoreInv
  <1>3. faults' \in 0..MaxFaults
    BY Faults DEF DeviceInv, CommitTemp
  <1>4. CASE UNCHANGED <<sessions, launched>>
    <2>1. SessionsInv' /\ WholeApps'
      BY <1>2, <1>4 DEF DeviceInv, SessionsInv, Session, Holds, WholeApps
    <2> QED
      BY <1>2, <1>3, <2>1 DEF DeviceInv
  <1>5. ASSUME CommitOk(s)
        PROVE /\ s \in SessionType /\ s.active /\ s.kind = "temp" /\ ForJob(s)
              /\ s.staging = Staging(s) /\ Len(s.received) = s.total
              /\ store[s.staging] = s.crc /\ Holds(store[s.staging], s)
    BY <1>1, <1>5, CommitSession DEF DeviceInv
  <1>6. CASE CommitOk(s) /\ SetSession(r, Committing(s)) /\ launched' = launched
    <2> DEFINE ns == Committing(s)
    <2>1. sessions' = [sessions EXCEPT !["temp"] = ns] /\ sessions'["temp"] = ns
      BY <1>1, <1>6 DEF SetSession, DeviceInv, SessionsInv
    <2>2. /\ ns \in SessionType /\ ns.active /\ ns.kind = s.kind /\ ns.name = s.name
          /\ ns.path = s.path /\ ns.crc = s.crc /\ ns.total = s.total
          /\ ns.staging = s.staging /\ ns.received = s.received
      BY <1>5, <1>6 DEF Committing, SessionType
    <2> HIDE DEF ns
    <2>3. ForJob(ns) /\ Staging(ns) = Staging(s) /\ Holds(store'[ns.staging], ns)
      BY <1>2, <1>5, <1>6, <2>2 DEF ForJob, Fields, Staging, Holds
    <2>4. Len(ns.received) <= ns.total
      BY <1>5, <1>6, <2>2 DEF SessionType
    <2>5. Session("temp")'
      BY <1>5, <1>6, <2>1, <2>2, <2>3, <2>4 DEF Session
    <2>6. SessionsInv'
      BY <1>1, <1>2, <2>1, <2>2, <2>5, OtherSessions DEF DeviceInv
    <2>7. WholeApps'
      BY <1>2, <1>6 DEF WholeApps, DeviceInv
    <2> QED
      BY <1>2, <1>3, <2>6, <2>7 DEF DeviceInv
  <1>7. CASE /\ CommitOk(s) /\ launched' = launched \cup {store[s.staging]}
             /\ SetSession(r, [s EXCEPT !.active = FALSE, !.phase = "idle"])
    <2> DEFINE ns == [s EXCEPT !.active = FALSE, !.phase = "idle"]
    <2>1. sessions' = [sessions EXCEPT !["temp"] = ns] /\ sessions'["temp"] = ns
      BY <1>1, <1>7 DEF SetSession, DeviceInv, SessionsInv
    <2>2. ns \in SessionType /\ ~ns.active
      BY <1>5, <1>7 DEF SessionType
    <2> HIDE DEF ns
    <2>3. Session("temp")'
      BY <2>1, <2>2 DEF Session
    <2>4. SessionsInv'
      BY <1>1, <1>2, <2>1, <2>2, <2>3, OtherSessions DEF DeviceInv
    <2>5. PICK j \in FileJobs : j.kind = "temp" /\ store[s.staging] = j.file
      BY <1>5, <1>7 DEF ForJob, Fields
    <2>6. WholeApps'
      BY <1>2, <1>7, <2>5 DEF WholeApps, DeviceInv
    <2> QED
      BY <1>2, <1>3, <2>4, <2>6 DEF DeviceInv
  <1> QED
    BY <1>1, <1>4, <1>6, <1>7 DEF CommitTemp

LEMMA NoSessions ==
    ASSUME sessions' = [k \in Kinds |-> NoSession]
    PROVE SessionsInv'
  <1>1. \A k \in Kinds : sessions'[k] = NoSession
    OBVIOUS
  <1>2. sessions' \in [Kinds -> SessionType]
    BY NoSessionType
  <1>3. \A k \in Kinds : Session(k)'
    BY <1>1, NoSessionType DEF Session
  <1> QED
    BY <1>2, <1>3 DEF SessionsInv

LEMMA ResetStep ==
    ASSUME DeviceInv, publishing = NoCommit, NEW r, Reset(r)
    PROVE DeviceInv'
  <1> DEFINE s == sessions["content"]
  <1>1. RegistryInv' /\ PublishingInv' /\ launched' = launched
    BY DEF DeviceInv, Reset, RegistryInv, PublishingInv
  <1>2. faults' \in 0..MaxFaults
    BY Faults DEF DeviceInv, Reset
  <1>3. CASE UNCHANGED <<sessions, store>>
    <2>1. SessionsInv' /\ StoreInv' /\ WholeApps'
      BY <1>1, <1>3 DEF DeviceInv, SessionsInv, Session, Holds, StoreInv, WholeApps
    <2> QED
      BY <1>1, <1>2, <2>1 DEF DeviceInv
  <1>4. CASE /\ sessions' = [k \in Kinds |-> NoSession]
             /\ IF s.active THEN WriteFile(s.staging, NoFile) ELSE UNCHANGED store
    <2>1. SessionsInv'
      BY <1>4, NoSessions
    <2>2. StoreInv' /\ \A p \in Finals : store'[p] = store[p]
      <3>1. CASE ~s.active
        BY <1>4, <3>1 DEF DeviceInv, StoreInv
      <3>2. CASE s.active
        <4>1. s.kind \in Kinds /\ s.staging = Staging(s) /\ Staging(s) \in Paths
          BY <3>2, SessionPaths DEF Kinds, DeviceInv
        <4>2. WriteFile(Staging(s), NoFile)
          BY <1>4, <3>2, <4>1
        <4> HIDE DEF s
        <4> QED
          BY <4>1, <4>2, StagingWritten DEF DeviceInv
      <3> QED
        BY <3>1, <3>2
    <2>3. WholeApps'
      BY <1>1, <2>2, WholeStays DEF DeviceInv
    <2> QED
      BY <1>1, <1>2, <2>1, <2>2, <2>3 DEF DeviceInv
  <1> QED
    BY <1>3, <1>4 DEF Reset

LEMMA DeleteStep ==
    ASSUME DeviceInv, publishing = NoCommit, NEW r, WellFormed(r), r.op = "delete",
           ContentDelete(r)
    PROVE DeviceInv'
  <1>1. RegistryInv' /\ PublishingInv' /\ launched' = launched /\ sessions' = sessions
    BY DEF DeviceInv, ContentDelete, RegistryInv, PublishingInv
  <1>2. ContentOf(r.name) \in Paths
    BY DEF WellFormed, Paths
  <1>3. /\ StoreInv' /\ store'[ContentOf(r.name)] = NoFile
        /\ \A q \in Paths : q # ContentOf(r.name) => store'[q] = store[q]
    BY <1>2, StoreWritten DEF ContentDelete, DeviceInv
  <1>4. ASSUME NEW k \in Kinds PROVE Session(k)'
    <2>1. ASSUME sessions[k].active, sessions[k].staging = Staging(sessions[k])
          PROVE store'[sessions[k].staging] = store[sessions[k].staging]
      <3>1. sessions[k].kind = k /\ sessions[k].staging \in Paths
        BY <2>1, SessionPaths DEF DeviceInv
      <3>2. Staging(sessions[k]) # ContentOf(r.name)
        BY <3>1, PathsApart
      <3> QED
        BY <1>3, <2>1, <3>1, <3>2
    <2>2. Session(k)
      BY DEF DeviceInv, SessionsInv
    <2> QED
      BY <1>1, <2>1, <2>2, SessionStays
  <1>5. SessionsInv'
    BY <1>1, <1>4 DEF DeviceInv, SessionsInv
  <1>6. WholeApps'
    BY <1>1, <1>3, FinalsArePaths, WholeStays DEF DeviceInv
  <1>7. faults' \in 0..MaxFaults
    BY DEF ContentDelete, DeviceInv
  <1> QED
    BY <1>1, <1>3, <1>5, <1>6, <1>7 DEF DeviceInv

-----------------------------------------------------------------------------
(* The second half of a commit, and a restart.                             *)
LEMMA RegistryGrows ==
    ASSUME RegistryInv, NEW n \in Names, n \in registry \/ Cardinality(registry) < MaxApps,
           registry' = registry \cup {n}
    PROVE RegistryInv'
  <1>1. IsFiniteSet(registry) /\ Cardinality(registry) \in Nat
    BY LinkAssumption, FS_Subset, FS_CardinalityType DEF RegistryInv
  <1>2. Cardinality(registry \cup {n}) =
          IF n \in registry THEN Cardinality(registry) ELSE Cardinality(registry) + 1
    BY <1>1, FS_AddElement
  <1>3. MaxApps \in Nat
    BY LinkAssumption
  <1>4. Cardinality(registry \cup {n}) <= MaxApps
    BY <1>1, <1>2, <1>3 DEF RegistryInv
  <1> QED
    BY <1>4 DEF RegistryInv

(* The published file is the one the session announced.                    *)
LEMMA PublishStep ==
    ASSUME DeviceInv, Publish
    PROVE DeviceInv'
  <1>0. PICK k \in Kinds : k = publishing.kind
    BY DEF DeviceInv, PublishingInv, Publish
  <1> DEFINE s == sessions[k]
             new == Final(s)
             kept == [store EXCEPT ![new] = store[s.staging], ![s.staging] = NoFile]
  <1>1. /\ k \in Kinds /\ k # "temp" /\ CommitOk(s)
        /\ s.staging = Final(s) => store[s.staging] = NoFile
    BY <1>0 DEF DeviceInv, PublishingInv, Publish
  <1>2. /\ s \in SessionType /\ s.active /\ s.kind = k /\ ForJob(s)
        /\ s.received = s.crc /\ Len(s.received) = s.total
        /\ s.staging = Staging(s) \/ (k = "install" /\ s.staging = Final(s))
        /\ s.staging \in Paths /\ Final(s) \in Finals /\ Final(s) \in Paths
        /\ k # "content" /\ s.staging = Staging(s) => store[s.staging] = s.crc
    BY <1>1, CommitSession DEF DeviceInv
  <1>3. PublishingInv' /\ launched' = launched
    BY DEF Publish, PublishingInv
  <1>4. faults' \in 0..MaxFaults
    BY Faults DEF DeviceInv, Publish
  <1>5. CASE UNCHANGED <<store, sessions, registry>>
    <2>1. SessionsInv' /\ StoreInv' /\ WholeApps' /\ RegistryInv'
      BY <1>3, <1>5 DEF DeviceInv, SessionsInv, Session, Holds, StoreInv, WholeApps, RegistryInv
    <2> QED
      BY <1>3, <1>4, <2>1 DEF DeviceInv
  <1>6. ASSUME store[s.staging] # NoFile, store' = kept, NEW ns \in SessionType,
               sessions' = [sessions EXCEPT ![k] = ns],
               ~ns.active \/ (k = "install" /\ ns = [s EXCEPT !.staging = new]),
               registry' = registry
                 \/ (/\ registry' = registry \cup {s.name}
                     /\ s.name \in registry \/ Cardinality(registry) < MaxApps)
        PROVE DeviceInv'
    <2>1. s.staging = Staging(s)
      BY <1>1, <1>2, <1>6
    <2>2. k # "content" => store[s.staging] = s.crc
      BY <1>2, <2>1
    <2>3. Staging(s) # new
      BY <1>1, <1>2, PathsApart
    <2>4. /\ StoreInv' /\ store'[new] = store[s.staging] /\ store'[s.staging] = NoFile
          /\ \A p \in Paths : p # new /\ p # s.staging => store'[p] = store[p]
      <3> HIDE DEF s, new
      <3>1. store' = kept /\ StoreInv /\ new # s.staging /\ new \in Paths /\ s.staging \in Paths
        BY <1>2, <1>6, <2>1, <2>3 DEF DeviceInv, new
      <3> QED
        BY <3>1 DEF StoreInv
    <2>5. ASSUME NEW q \in Kinds \ {k}, sessions[q].active,
                 sessions[q].staging = Staging(sessions[q])
          PROVE store'[sessions[q].staging] = store[sessions[q].staging]
      <3>1. sessions[q].kind = q /\ sessions[q].staging \in Paths
        BY <2>5, SessionPaths DEF DeviceInv
      <3>2. Staging(sessions[q]) # new /\ Staging(sessions[q]) # Staging(s)
        BY <1>1, <1>2, <3>1, PathsApart
      <3> QED
        BY <2>1, <2>4, <2>5, <3>1, <3>2
    <2>6. Session(k)'
      <3>1. sessions'[k] = ns
        BY <1>1, <1>6 DEF DeviceInv, SessionsInv
      <3>2. CASE ~ns.active
        BY <3>1, <3>2 DEF Session
      <3>3. CASE k = "install" /\ ns = [s EXCEPT !.staging = new]
        <4> HIDE DEF new
        <4>1. /\ ns.active /\ ns.kind = s.kind /\ ns.name = s.name /\ ns.path = s.path
              /\ ns.crc = s.crc /\ ns.total = s.total /\ ns.staging = new
              /\ ns.received = s.received
          BY <1>2, <3>3 DEF SessionType
        <4>2. ForJob(ns) /\ Final(ns) = new
          BY <1>2, <4>1 DEF ForJob, Fields, Final, new
        <4>3. Len(ns.received) = ns.total /\ Len(ns.received) <= ns.total
          BY <1>2, <4>1 DEF SessionType
        <4> QED
          BY <1>2, <3>1, <3>3, <4>1, <4>2, <4>3 DEF Session
      <3> QED
        BY <1>6, <3>2, <3>3
    <2>7. SessionsInv'
      <3> HIDE DEF s, new
      <3> QED
        BY <1>1, <1>6, <2>5, <2>6, OtherSessions DEF DeviceInv
    <2>8. RegistryInv'
      <3>1. s.name \in Names
        BY <1>1, <1>2, SessionPaths DEF DeviceInv
      <3>2. CASE registry' = registry
        BY <3>2 DEF RegistryInv, DeviceInv
      <3> HIDE DEF s
      <3> QED
        BY <1>6, <3>1, <3>2, RegistryGrows DEF DeviceInv
    <2>9. WholeApps'
      <3>1. PICK j \in FileJobs : Fields(s, j)
        BY <1>2 DEF ForJob
      <3>2. /\ j.kind = k /\ Final(j) = new /\ j.kind # "temp"
            /\ j.kind # "content" => store'[new] = j.file
        BY <1>1, <1>2, <2>2, <2>4, <3>1, JobPaths DEF Fields
      <3>3. ASSUME NEW p \in Finals, p # new PROVE store'[p] = store[p]
        <4>1. p # s.staging
          BY <1>2, <2>1, StagingNotFinal
        <4> QED
          BY <2>4, <3>3, <4>1, FinalsArePaths
      <3> HIDE DEF new
      <3> QED
        BY <1>3, <3>2, <3>3 DEF WholeApps, DeviceInv
    <2> QED
      BY <1>3, <1>4, <2>4, <2>7, <2>8, <2>9 DEF DeviceInv
  <1>7. CASE /\ store[s.staging] # NoFile /\ store' = kept
             /\ SetSession(publishing, NoSession)
             /\ registry' = IF k = "install" THEN registry \cup {s.name} ELSE registry
             /\ k # "install" \/ s.name \in registry \/ Cardinality(registry) < MaxApps
    <2>1. sessions' = [sessions EXCEPT ![k] = NoSession]
      BY <1>0, <1>7 DEF SetSession
    <2> HIDE DEF s, kept
    <2> QED
      BY <1>6, <1>7, <2>1, NoSessionType
  <1>8. CASE /\ store[s.staging] # NoFile /\ store' = kept /\ k = "install"
             /\ SetSession(publishing, [s EXCEPT !.staging = new]) /\ registry' = registry
    <2> DEFINE ns == [s EXCEPT !.staging = new]
    <2>1. sessions' = [sessions EXCEPT ![k] = ns]
      BY <1>0, <1>8 DEF SetSession
    <2>2. ns \in SessionType
      <3> HIDE DEF new
      <3>1. new \in Paths
        BY <1>2 DEF new
      <3> QED
        BY <1>2, <3>1 DEF SessionType
    <2> HIDE DEF s, kept
    <2> QED
      BY <1>6, <1>8, <2>1, <2>2
  <1> QED
    BY <1>0, <1>5, <1>7, <1>8 DEF Publish, SessionOf, Target

LEMMA RestartStep ==
    ASSUME DeviceInv, Restart
    PROVE DeviceInv'
  <1>1. SessionsInv'
    BY NoSessions DEF Restart
  <1>2. PublishingInv' /\ StoreInv' /\ WholeApps'
    BY DEF Restart, DeviceInv, PublishingInv, StoreInv, WholeApps
  <1>3. RegistryInv'
    BY DEF Restart, RegistryInv
  <1>4. faults' \in 0..MaxFaults
    BY Faults DEF DeviceInv, Restart
  <1> QED
    BY <1>1, <1>2, <1>3, <1>4 DEF DeviceInv

-----------------------------------------------------------------------------
(* The line.                                                               *)
LEMMA RequestSent ==
    ASSUME NEW j \in Jobs, NEW s \in 1..Steps(j)
    PROVE RequestOf(j, s) \in Sent
  BY DEF Sent

LEMMA UnitsSent ==
    ASSUME NEW f \in Sent
    PROVE Units(f) \in Seq(SentUnits)
  <1>1. f.size + 1 \in Nat
    BY FrameFields DEF WellFormed
  <1>2. \A i \in 1..f.size + 1 : [frame |-> f, part |-> i] \in SentUnits
    BY <1>1 DEF SentUnits
  <1>3. Units(f) \in [1..f.size + 1 -> SentUnits]
    BY <1>2 DEF Units
  <1> QED
    BY <1>1, <1>3, SeqDef

LEMMA LineGrows ==
    ASSUME LineInv, NEW f \in Sent, up' = up \o Units(f), UNCHANGED buffer
    PROVE LineInv'
  <1>1. Units(f) \in Seq(SentUnits)
    BY UnitsSent
  <1> QED
    BY <1>1, ConcatProperties DEF LineInv

LEMMA LineShrinks ==
    ASSUME LineInv, up # <<>>
    PROVE Tail(up) \in Seq(SentUnits) /\ Head(up) \in SentUnits
  BY HeadTailProperties DEF LineInv

LEMMA LineCut ==
    ASSUME LineInv, NEW n \in 0..Len(up)
    PROVE Prefix(up, n) \in Seq(SentUnits)
  <1>1. n \in Int /\ \A i \in 1..n : up[i] \in SentUnits
    BY LenProperties DEF LineInv
  <1> QED
    BY <1>1, SubSeqProperties DEF Prefix

LEMMA HelloSent == HelloRequest \in Sent
  BY DEF Sent

(* What the buffer holds when a unit has been pushed.                      *)
LEMMA BufferGrows ==
    ASSUME LineInv, up # <<>>
    PROVE LET got == Pushed(buffer, Head(up))
          IN got \in Seq(SentUnits) /\ (Whole(got) => WellFormed(got[1].frame))
  <1> DEFINE got == Pushed(buffer, Head(up))
  <1>1. Head(up) \in SentUnits /\ buffer \in Seq(SentUnits)
    BY LineShrinks DEF LineInv
  <1>2. got \in Seq(SentUnits)
    <2>1. <<>> \in Seq(SentUnits)
      BY EmptySeq
    <2>2. Append(buffer, Head(up)) \in Seq(SentUnits)
      BY <1>1, AppendProperties
    <2> QED
      BY <2>1, <2>2 DEF Pushed
  <1> HIDE DEF got
  <1>3. ASSUME Whole(got) PROVE WellFormed(got[1].frame)
    <2>1. got # <<>>
      BY <1>3 DEF Whole
    <2>2. got[1] \in SentUnits
      <3>1. Len(got) \in Nat \ {0}
        BY <1>2, <2>1, EmptySeq
      <3>2. 1 \in 1..Len(got)
        BY <3>1
      <3> QED
        BY <1>2, <3>2, ElementOfSeq
    <2>3. got[1].frame \in Sent
      BY <2>2 DEF SentUnits
    <2> QED
      BY <2>3, FrameFields
  <1> QED
    BY <1>2, <1>3 DEF got

LEMMA HandleStep ==
    ASSUME DeviceInv, publishing = NoCommit, NEW r, WellFormed(r), Handle(r)
    PROVE DeviceInv'
  <1>1. CASE r.op = "begin" /\ Begin(r)
    BY <1>1, BeginStep
  <1>2. CASE r.op = "chunk" /\ Chunk(r)
    BY <1>2, ChunkStep
  <1>3. CASE r.op = "commit" /\ r.kind # "temp" /\ Commit(r)
    BY <1>3, CommitStep
  <1>4. CASE r.op = "commit" /\ r.kind = "temp" /\ CommitTemp(r)
    BY <1>4, CommitTempStep
  <1>5. CASE Reset(r)
    BY <1>5, ResetStep
  <1>6. CASE r.op = "delete" /\ ContentDelete(r)
    BY <1>6, DeleteStep
  <1>7. CASE UNCHANGED <<sessions, publishing, store, registry, launched, faults>>
    BY <1>7 DEF DeviceInv, SessionsInv, Session, Holds, PublishingInv, StoreInv, RegistryInv,
                WholeApps
  <1> QED
    BY <1>1, <1>2, <1>3, <1>4, <1>5, <1>6, <1>7 DEF Handle, Hello, ContentCheck

LEMMA DeviceByteStep ==
    ASSUME LinkInv, DeviceByte
    PROVE LinkInv'
  <1> DEFINE got == Pushed(buffer, Head(up))
  <1>1. HostInv' /\ opens' \in 0..MaxOpens
    BY DEF LinkInv, HostInv, DeviceByte, hostVars
  <1>2. got \in Seq(SentUnits) /\ (Whole(got) => WellFormed(got[1].frame))
    BY BufferGrows DEF LinkInv, DeviceByte
  <1>3. LineInv'
    <2>1. up' \in Seq(SentUnits)
      BY LineShrinks DEF LinkInv, DeviceByte
    <2>2. buffer' = got \/ buffer' = <<>>
      BY DEF DeviceByte
    <2>3. <<>> \in Seq(SentUnits)
      BY EmptySeq
    <2> HIDE DEF got
    <2> QED
      BY <1>2, <2>1, <2>2, <2>3 DEF LineInv
  <1>4. DeviceInv'
    <2> HIDE DEF got
    <2>1. CASE UNCHANGED <<sessions, publishing, store, registry, launched, faults>>
      BY <2>1 DEF LinkInv, DeviceInv, SessionsInv, Session, Holds, PublishingInv, StoreInv,
                  RegistryInv, WholeApps
    <2>2. CASE Whole(got) /\ Handle(got[1].frame)
      BY <1>2, <2>2, HandleStep DEF LinkInv, DeviceByte
    <2> QED
      BY <2>1, <2>2 DEF DeviceByte, got
  <1> QED
    BY <1>1, <1>3, <1>4 DEF LinkInv

-----------------------------------------------------------------------------
(* The host, and what is lost on the line.                                 *)
LEMMA DeviceStays ==
    ASSUME DeviceInv, UNCHANGED deviceVars, faults' \in 0..MaxFaults
    PROVE DeviceInv'
  BY DEF DeviceInv, deviceVars, SessionsInv, Session, Holds, PublishingInv, StoreInv,
         RegistryInv, WholeApps

LEMMA OpenStep ==
    ASSUME LinkInv, NEW job \in Jobs, Open(job)
    PROVE LinkInv'
  <1>1. Tries \in Nat /\ Tries > 0 /\ MaxOpens \in Nat
    BY LinkAssumption
  <1>2. 1 \in 1..Steps(job)
    BY JobFields
  <1>3. HostInv' /\ opens' \in 0..MaxOpens
    BY <1>1, <1>2 DEF Open, LinkInv, HostInv
  <1>4. LineInv'
    BY LineGrows, HelloSent DEF Open, LinkInv, deviceVars
  <1>5. DeviceInv'
    BY DeviceStays DEF Open, LinkInv, DeviceInv
  <1> QED
    BY <1>3, <1>4, <1>5 DEF LinkInv

LEMMA QuietStep ==
    ASSUME LinkInv, Quiet
    PROVE LinkInv'
  <1>1. opens' \in 0..MaxOpens /\ DeviceInv'
    BY DeviceStays DEF Quiet, LinkInv, DeviceInv
  <1>2. buffer' = buffer
    BY DEF Quiet, deviceVars
  <1>3. CASE /\ host' = [host EXCEPT !.phase = "ready"] \/ host' = Fail
             /\ up' = up
    <2>1. HostInv'
      BY <1>3 DEF Quiet, LinkInv, HostInv, Fail
    <2>2. LineInv'
      BY <1>2, <1>3 DEF LinkInv, LineInv
    <2> QED
      BY <1>1, <2>1, <2>2 DEF LinkInv
  <1>4. CASE TriesLeft /\ SayHello(host.tries + 1)
    <2>1. HostInv'
      <3>1. host.tries + 1 \in 0..Tries
        BY <1>4, LinkAssumption DEF TriesLeft, LinkInv, HostInv
      <3> QED
        BY <1>4, <3>1 DEF SayHello, Quiet, LinkInv, HostInv
    <2>2. LineInv'
      BY <1>2, <1>4, LineGrows, HelloSent DEF SayHello, LinkInv
    <2> QED
      BY <1>1, <2>1, <2>2 DEF LinkInv
  <1> QED
    BY <1>3, <1>4 DEF Quiet

LEMMA SendStep ==
    ASSUME LinkInv, Send
    PROVE LinkInv'
  <1> DEFINE r == RequestOf(host.job, host.step)
  <1>1. host.job \in Jobs /\ host.step \in 1..Steps(host.job)
    BY DEF Send, LinkInv, HostInv
  <1>2. r \in Sent
    BY <1>1, RequestSent
  <1>3. LineInv'
    BY <1>2, LineGrows DEF Send, LinkInv, deviceVars
  <1>4. opens' \in 0..MaxOpens /\ DeviceInv'
    BY DeviceStays DEF Send, LinkInv, DeviceInv
  <1>5. HostInv'
    <2>1. ~r.ack => host.step + 1 \in 1..Steps(host.job)
      BY <1>1, SendOn
    <2>2. host' = IF r.ack THEN [host EXCEPT !.phase = "waiting"]
                  ELSE [host EXCEPT !.step = host.step + 1]
      BY DEF Send, LinkInv, HostInv
    <2> HIDE DEF r
    <2>3. host.step + 1 \in Nat
      BY DEF LinkInv, HostInv
    <2> QED
      BY <1>1, <2>1, <2>2, <2>3 DEF LinkInv, HostInv
  <1> QED
    BY <1>3, <1>4, <1>5 DEF LinkInv

LEMMA ReadStep ==
    ASSUME LinkInv, Read
    PROVE LinkInv'
  <1>1. host.job \in Jobs /\ host.step \in 1..Steps(host.job) /\ Steps(host.job) \in Nat
    BY JobFields DEF Read, LinkInv, HostInv
  <1>2. host' \in {host, Advance, Fail}
    BY DEF Read
  <1>3. HostInv'
    <2>1. CASE host' = host
      BY <2>1 DEF LinkInv, HostInv
    <2>2. CASE host' = Fail
      BY <2>2 DEF LinkInv, HostInv, Fail
    <2>3. CASE host' = Advance
      <3>1. CASE host.step = Steps(host.job)
        BY <2>3, <3>1 DEF LinkInv, HostInv, Advance
      <3>2. CASE host.step # Steps(host.job)
        <4>1. host.step + 1 \in 1..Steps(host.job) /\ host.step + 1 \in Nat
          BY <1>1, <3>2
        <4> QED
          BY <1>1, <2>3, <3>2, <4>1 DEF LinkInv, HostInv, Advance
      <3> QED
        BY <3>1, <3>2
    <2> QED
      BY <1>2, <2>1, <2>2, <2>3
  <1>4. LineInv' /\ opens' \in 0..MaxOpens /\ DeviceInv'
    BY DeviceStays DEF Read, LinkInv, DeviceInv, LineInv, deviceVars
  <1> QED
    BY <1>3, <1>4 DEF LinkInv

LEMMA TimeoutStep ==
    ASSUME LinkInv, Timeout
    PROVE LinkInv'
  <1>1. HostInv'
    BY DEF Timeout, LinkInv, HostInv, Fail
  <1>2. LineInv' /\ opens' \in 0..MaxOpens /\ DeviceInv'
    BY DeviceStays DEF Timeout, LinkInv, DeviceInv, LineInv, deviceVars
  <1> QED
    BY <1>1, <1>2 DEF LinkInv

LEMMA InterruptStep ==
    ASSUME LinkInv, Interrupt
    PROVE LinkInv'
  <1>1. HostInv'
    BY DEF Interrupt, LinkInv, HostInv, Fail
  <1>2. LineInv'
    BY LineCut DEF Interrupt, LinkInv, LineInv, deviceVars
  <1>3. opens' \in 0..MaxOpens /\ DeviceInv'
    BY DeviceStays, Faults DEF Interrupt, LinkInv, DeviceInv
  <1> QED
    BY <1>1, <1>2, <1>3 DEF LinkInv

LEMMA LossStep ==
    ASSUME LinkInv, LoseUp \/ LoseDown
    PROVE LinkInv'
  <1>1. HostInv' /\ opens' \in 0..MaxOpens
    BY DEF LoseUp, LoseDown, LinkInv, HostInv, hostVars
  <1>2. LineInv'
    BY LineShrinks DEF LoseUp, LoseDown, LinkInv, LineInv, deviceVars
  <1>3. DeviceInv'
    BY DeviceStays, Faults DEF LoseUp, LoseDown, LinkInv, DeviceInv
  <1> QED
    BY <1>1, <1>2, <1>3 DEF LinkInv

-----------------------------------------------------------------------------
LEMMA LinkInit == Init => LinkInv
  <1> SUFFICES ASSUME Init PROVE LinkInv
    OBVIOUS
  <1>1. MaxOpens \in Nat /\ MaxFaults \in Nat /\ MaxApps \in Nat /\ Tries \in Nat
    BY LinkAssumption
  <1>2. HostInv /\ opens \in 0..MaxOpens /\ faults \in 0..MaxFaults
    BY <1>1 DEF Init, HostInv
  <1>3. LineInv
    BY EmptySeq DEF Init, LineInv
  <1>4. SessionsInv
    <2>1. \A k \in Kinds : sessions[k] = NoSession
      BY DEF Init
    <2>2. sessions \in [Kinds -> SessionType]
      BY NoSessionType DEF Init
    <2>3. \A k \in Kinds : Session(k)
      BY <2>1, NoSessionType DEF Session
    <2> QED
      BY <2>2, <2>3 DEF SessionsInv
  <1>5. PublishingInv /\ StoreInv
    BY DEF Init, PublishingInv, StoreInv
  <1>6. RegistryInv
    BY <1>1, FS_EmptySet DEF Init, RegistryInv
  <1>7. WholeApps
    BY FinalsArePaths DEF Init, WholeApps
  <1> QED
    BY <1>2, <1>3, <1>4, <1>5, <1>6, <1>7 DEF LinkInv, DeviceInv

LEMMA LinkNext == LinkInv /\ [Next]_vars => LinkInv'
  <1> SUFFICES ASSUME LinkInv, [Next]_vars PROVE LinkInv'
    OBVIOUS
  <1>1. CASE UNCHANGED vars
    <2>1. DeviceInv'
      BY <1>1, DeviceStays DEF vars, LinkInv, DeviceInv
    <2> QED
      BY <1>1, <2>1 DEF vars, hostVars, deviceVars, LinkInv, HostInv, LineInv
  <1>2. CASE ReadWhileHello
    <2>1. DeviceInv'
      BY <1>2, DeviceStays DEF ReadWhileHello, LinkInv, DeviceInv
    <2> QED
      BY <1>2, <2>1 DEF ReadWhileHello, deviceVars, LinkInv, HostInv, LineInv
  <1>3. CASE Publish
    <2>1. DeviceInv'
      BY <1>3, PublishStep DEF LinkInv
    <2> QED
      BY <1>3, <2>1 DEF Publish, hostVars, LinkInv, HostInv, LineInv
  <1>4. CASE Restart
    <2>1. DeviceInv'
      BY <1>4, RestartStep DEF LinkInv
    <2>2. LineInv'
      BY <1>4, EmptySeq DEF Restart, LinkInv, LineInv
    <2> QED
      BY <1>4, <2>1, <2>2 DEF Restart, hostVars, LinkInv, HostInv
  <1> QED
    BY <1>1, <1>2, <1>3, <1>4, OpenStep, QuietStep, SendStep, ReadStep, TimeoutStep,
       InterruptStep, DeviceByteStep, LossStep DEF Next

(* What the sessions hold, what is staged and what is published, for every *)
(* command, chunk size, loss, interruption, failure and restart.           *)
LEMMA LinkInvariant == Spec => []LinkInv
  BY LinkInit, LinkNext, PTL DEF Spec

-----------------------------------------------------------------------------
(* The variables of the host, the line and the device have the types of    *)
(* the structures they stand for: a session has a name and a file of some  *)
(* command, the registry never outgrows SQ_APP_STORE_MAX_APPS.             *)
THEOREM LinkTypeCorrect == Spec => []LinkTypeOK
  <1>1. LinkInv => LinkTypeOK
    BY DEF LinkInv, HostInv, DeviceInv, SessionsInv, StoreInv, RegistryInv, LinkTypeOK
  <1> QED
    BY <1>1, LinkInvariant, PTL

(* Without books, of which the device opens the staging file once and      *)
(* writes on where the last write stopped, a file under a final path is    *)
(* one that a host sent for that path, and a temporary app that is         *)
(* launched one that a host sent: whole, whatever was lost, interrupted or *)
(* restarted on the way (commit_install, commit_resource_install,          *)
(* commit_temp_run).                                                       *)
NoBooks == \A j \in Jobs : j.kind # "content"

THEOREM FilesWhole ==
    ASSUME NoBooks
    PROVE Spec => []WholeFiles
  <1>1. LinkInv => WholeFiles
    BY DEF LinkInv, DeviceInv, WholeApps, WholeFiles, NoBooks, FileJobs
  <1> QED
    BY <1>1, LinkInvariant, PTL

(* Books or not, the files of apps and resources under their final paths   *)
(* are whole ones that a host sent for that path, and so are the temporary *)
(* apps that are launched.                                                 *)
THEOREM AppsWhole == Spec => []WholeApps
  <1>1. LinkInv => WholeApps
    BY DEF LinkInv, DeviceInv
  <1> QED
    BY <1>1, LinkInvariant, PTL

-----------------------------------------------------------------------------
(* With room in the registry for every app that is installed, no session   *)
(* ever names a published file.                                            *)
Installed == {j.name : j \in {k \in Jobs : k.kind = "install"}}
EnoughRoom == Cardinality(Installed) <= MaxApps

AppPaths ==
    {Final(j) : j \in {k \in Jobs : k.kind \in {"install", "resource"}}}
      \cup {MainOf(n) : n \in Names}

InStaging ==
    \A k \in Kinds : sessions[k].active => sessions[k].staging = Staging(sessions[k])
RoomInv ==
    /\ InStaging
    /\ registry \subseteq Installed
    /\ \A n \in Names : store[MainOf(n)] # NoFile => n \in Installed

(* The step removes the file under p for a commit that has another.        *)
Replaces(p) ==
    /\ publishing' # NoCommit
    /\ LET s == sessions'[publishing'.kind] IN Final(s) = p /\ store'[s.staging] = s.crc

LEMMA AppPathsApart ==
    ASSUME NEW s, NEW n, s.kind \in Kinds
    PROVE /\ AppPaths \subseteq Paths
          /\ Staging(s) \notin AppPaths /\ ContentOf(n) \notin AppPaths
          /\ s.kind = "content" => Final(s) \notin AppPaths
          /\ s.kind = "install" => Final(s) = MainOf(s.name)
          /\ Final(s) = MainOf(n) /\ s.kind # "temp" => s.kind = "install" /\ s.name = n
  <1>1. AppPaths \subseteq Paths
    BY DEF AppPaths, Paths, Finals, Kinds
  <1>2. ASSUME NEW p \in AppPaths PROVE p # Staging(s) /\ p # ContentOf(n) /\ p # ContentOf(s.name)
    <2>1. CASE \E j \in Jobs : j.kind \in {"install", "resource"} /\ p = Final(j)
      BY <2>1, PathsApart DEF Kinds
    <2>2. CASE \E m \in Names : p = MainOf(m)
      BY <2>2 DEF MainOf, ContentOf, Staging, Kinds
    <2> QED
      BY <2>1, <2>2 DEF AppPaths
  <1>3. s.kind = "content" => Final(s) = ContentOf(s.name)
    BY DEF Final, ContentOf
  <1>4. s.kind = "install" => Final(s) = MainOf(s.name)
    BY DEF Final, MainOf
  <1>5. Final(s) = MainOf(n) /\ s.kind # "temp" => s.kind = "install" /\ s.name = n
    BY DEF Final, MainOf, Kinds
  <1> QED
    BY <1>1, <1>2, <1>3, <1>4, <1>5

(* A request leaves the published files of the apps, or it is a commit     *)
(* with a whole file in its staging file.                                  *)
Kept == \A p \in AppPaths : store'[p] = store[p] \/ (store'[p] = NoFile /\ Replaces(p))

LEMMA StagingKeeps ==
    ASSUME StoreInv, NEW s, s.kind \in Kinds, Staging(s) \in Paths, NEW file,
           WriteFile(Staging(s), file)
    PROVE Kept
  BY AppPathsApart, StoreWritten DEF Kept

LEMMA SessionSet ==
    ASSUME SessionsInv, InStaging, NEW r, r.kind \in Kinds, NEW ns, SetSession(r, ns),
           ns.active => ns.staging = Staging(ns)
    PROVE InStaging'
  BY DEF SetSession, InStaging, SessionsInv

LEMMA BeginKeeps ==
    ASSUME DeviceInv, InStaging, NEW r, WellFormed(r), r.op = "begin", Begin(r)
    PROVE InStaging' /\ Kept
  <1>1. r.kind \in Kinds /\ ForJob(r) /\ Staging(r) \in Paths
    BY JobPaths DEF WellFormed, ForJob
  <1>2. InStaging'
    <2>1. Receiving(r).staging = Staging(Receiving(r))
      BY <1>1, ReceivingType
    <2> QED
      BY <1>1, <2>1, NoSessionType, SessionSet DEF DeviceInv, Begin, InStaging
  <1>3. store' = store \/ WriteFile(Staging(r), <<>>)
    BY DEF Begin, Emptied
  <1> QED
    BY <1>1, <1>2, <1>3, StagingKeeps DEF DeviceInv, Kept

LEMMA ChunkKeeps ==
    ASSUME DeviceInv, InStaging, NEW r, WellFormed(r), r.op = "chunk", Chunk(r)
    PROVE InStaging' /\ Kept
  <1> DEFINE s == sessions[r.kind]
  <1>1. CASE UNCHANGED <<sessions, store>>
    BY <1>1 DEF InStaging, Kept
  <1>2. CASE ChunkOk(s, r)
    <2>1. /\ r.kind \in Kinds /\ s \in SessionType /\ s.active /\ s.kind \in Kinds
          /\ r.bytes \in Seq(Nat) /\ s.staging = Staging(s) /\ Staging(s) \in Paths
      BY <1>2, ChunkSession DEF SessionOf
    <2>2. Kept
      <3>1. store' = store \/ \E file : WriteFile(s.staging, file)
        BY DEF Chunk, SessionOf
      <3> HIDE DEF s
      <3> QED
        BY <2>1, <3>1, StagingKeeps DEF DeviceInv, Kept
    <2>3. InStaging'
      <3>1. ASSUME NEW ns \in SessionType, SetSession(r, ns), ns.staging = s.staging,
                   ns.kind = s.kind, ns.name = s.name
            PROVE InStaging'
        <4>1. Staging(ns) = Staging(s)
          BY <2>1, <3>1 DEF Staging
        <4> QED
          BY <2>1, <3>1, <4>1, SessionSet DEF DeviceInv
      <3>2. CASE SetSession(r, [s EXCEPT !.open = (r.kind = "content")])
        BY <2>1, <3>1, <3>2 DEF SessionType
      <3>3. CASE SetSession(r, [Complete(s, r.bytes) EXCEPT !.open = (r.kind = "content")])
        <4> DEFINE all == s.received \o r.bytes
                   ns == [Complete(s, r.bytes) EXCEPT !.open = (r.kind = "content")]
        <4>1. ns \in SessionType /\ ns = [s EXCEPT !.received = all, !.open = (r.kind = "content")]
          BY <2>1, SessionUpdates
        <4> HIDE DEF all, ns
        <4>2. ns.staging = s.staging /\ ns.kind = s.kind /\ ns.name = s.name
          BY <2>1, <4>1 DEF SessionType
        <4>3. SetSession(r, ns)
          BY <3>3 DEF ns
        <4> QED
          BY <3>1, <4>1, <4>2, <4>3
      <3>4. CASE UNCHANGED sessions
        BY <3>4 DEF InStaging
      <3> QED
        BY <3>2, <3>3, <3>4 DEF Chunk, SessionOf
    <2> QED
      BY <2>2, <2>3
  <1> QED
    BY <1>1, <1>2 DEF Chunk, SessionOf

LEMMA CommitKeeps ==
    ASSUME DeviceInv, InStaging, publishing = NoCommit, NEW r, WellFormed(r), r.op = "commit",
           r.kind # "temp", Commit(r)
    PROVE InStaging' /\ Kept
  <1> DEFINE k == r.kind
             s == sessions[r.kind]
  <1>1. k \in Kinds /\ k # "temp" /\ r # NoCommit
    BY DEF WellFormed, NoCommit, HelloRequest, Request
  <1>2. CASE UNCHANGED <<sessions, store>>
    BY <1>2 DEF InStaging, Kept
  <1>3. CASE s.active /\ WriteFile(s.staging, NoFile) /\ SetSession(r, NoSession)
    <2>1. s.kind \in Kinds /\ Staging(s) \in Paths
      BY <1>1, <1>3, SessionPaths DEF DeviceInv
    <2>2. s.staging = Staging(s)
      BY <1>1, <1>3 DEF InStaging
    <2>3. WriteFile(Staging(s), NoFile)
      BY <1>3, <2>2
    <2> HIDE DEF s
    <2>4. Kept
      BY <2>1, <2>3, StagingKeeps DEF DeviceInv
    <2> QED
      BY <1>1, <1>3, <2>4, NoSessionType, SessionSet DEF DeviceInv
  <1>4. ASSUME CommitOk(s), SetSession(r, [Committing(s) EXCEPT !.open = FALSE]),
               store' = store \/ (WriteFile(Target(s), NoFile) /\ publishing' = r)
        PROVE InStaging' /\ Kept
    <2> DEFINE ns == [Committing(s) EXCEPT !.open = FALSE]
    <2>1. /\ s \in SessionType /\ s.active /\ s.kind = k
          /\ s.staging \in Paths /\ Final(s) \in Paths
          /\ k # "content" /\ s.staging = Staging(s) => store[s.staging] = s.crc
      BY <1>1, <1>4, CommitSession DEF DeviceInv
    <2>2. s.staging = Staging(s)
      BY <1>1, <2>1 DEF InStaging
    <2>3. sessions'[k] = ns
      BY <1>1, <1>4 DEF SetSession, DeviceInv, SessionsInv
    <2>4. ns = [s EXCEPT !.phase = "committing", !.open = FALSE]
      <3>1. <<>> \in Seq(Nat) /\ FALSE \in BOOLEAN
        OBVIOUS
      <3> HIDE DEF s
      <3> QED
        BY <2>1, <3>1, SessionUpdates
    <2> HIDE DEF ns
    <2>5. /\ ns.active /\ ns.kind = s.kind /\ ns.name = s.name /\ ns.path = s.path
          /\ ns.crc = s.crc /\ ns.staging = s.staging
      BY <2>1, <2>4 DEF SessionType
    <2>6. Staging(ns) = Staging(s) /\ Final(ns) = Final(s)
      BY <2>1, <2>5 DEF Staging, Final
    <2>7. InStaging'
      <3>1. SetSession(r, ns)
        BY <1>4 DEF ns
      <3> QED
        BY <1>1, <2>2, <2>5, <2>6, <3>1, SessionSet DEF DeviceInv
    <2>8. Kept
      <3>1. CASE store' = store
        BY <3>1 DEF Kept
      <3>2. CASE WriteFile(Target(s), NoFile) /\ publishing' = r
        <4>1. Final(s) # Staging(s)
          BY <1>1, <2>1, PathsApart
        <4>2. WriteFile(Final(s), NoFile)
          BY <3>2 DEF Target
        <4>3. store'[Final(s)] = NoFile /\ \A q \in Paths : q # Final(s) => store'[q] = store[q]
          <5> HIDE DEF s
          <5> QED
            BY <2>1, <4>2, StoreWritten DEF DeviceInv
        <4>4. CASE k = "content"
          <5>1. Final(s) \notin AppPaths /\ AppPaths \subseteq Paths
            BY <1>1, <2>1, <4>4, AppPathsApart
          <5> QED
            BY <4>3, <5>1 DEF Kept
        <4>5. CASE k # "content"
          <5>1. store'[s.staging] = s.crc
            BY <2>1, <2>2, <4>1, <4>3, <4>5
          <5>2. Replaces(Final(s))
            BY <1>1, <2>3, <2>5, <2>6, <3>2, <5>1 DEF Replaces
          <5>3. AppPaths \subseteq Paths
            BY <1>1, <2>1, AppPathsApart
          <5> QED
            BY <4>3, <5>2, <5>3 DEF Kept
        <4> QED
          BY <4>4, <4>5
      <3> QED
        BY <1>4, <3>1, <3>2
    <2> QED
      BY <2>7, <2>8
  <1> QED
    BY <1>2, <1>3, <1>4 DEF Commit, SessionOf

LEMMA CommitTempKeeps ==
    ASSUME DeviceInv, InStaging, NEW r, WellFormed(r), r.op = "commit", r.kind = "temp",
           CommitTemp(r)
    PROVE InStaging' /\ Kept
  <1> DEFINE s == sessions["temp"]
  <1>1. "temp" \in Kinds /\ SessionOf(r) = s /\ s \in SessionType
    BY DEF Kinds, SessionOf, DeviceInv, SessionsInv
  <1>2. Kept
    BY DEF CommitTemp, Kept
  <1>3. CASE UNCHANGED sessions
    BY <1>2, <1>3 DEF InStaging
  <1>4. CASE CommitOk(s) /\ SetSession(r, Committing(s))
    <2> DEFINE ns == Committing(s)
    <2>1. ns.staging = s.staging /\ ns.kind = s.kind /\ ns.name = s.name
      BY <1>1 DEF Committing, SessionType
    <2> HIDE DEF ns
    <2>2. s.active /\ s.kind = "temp"
      BY <1>1, <1>4, SessionPaths DEF CommitOk, DeviceInv
    <2>3. ns.staging = Staging(ns)
      BY <1>1, <2>1, <2>2 DEF InStaging, Staging
    <2>4. SetSession(r, ns)
      BY <1>4 DEF ns
    <2> QED
      BY <1>1, <1>2, <2>3, <2>4, SessionSet DEF DeviceInv
  <1>5. CASE SetSession(r, [s EXCEPT !.active = FALSE, !.phase = "idle"])
    <2> DEFINE ns == [s EXCEPT !.active = FALSE, !.phase = "idle"]
    <2>1. ~ns.active
      BY <1>1 DEF SessionType
    <2> HIDE DEF ns
    <2>2. SetSession(r, ns)
      BY <1>5 DEF ns
    <2> QED
      BY <1>1, <1>2, <2>1, <2>2, SessionSet DEF DeviceInv
  <1> QED
    BY <1>1, <1>3, <1>4, <1>5 DEF CommitTemp

LEMMA ResetKeeps ==
    ASSUME DeviceInv, InStaging, NEW r, Reset(r)
    PROVE InStaging' /\ Kept
  <1> DEFINE s == sessions["content"]
  <1>1. CASE UNCHANGED <<sessions, store>>
    BY <1>1 DEF InStaging, Kept
  <1>2. CASE /\ sessions' = [k \in Kinds |-> NoSession]
             /\ IF s.active THEN WriteFile(s.staging, NoFile) ELSE UNCHANGED store
    <2>1. InStaging'
      BY <1>2, NoSessionType DEF InStaging
    <2>2. CASE ~s.active
      BY <1>2, <2>1, <2>2 DEF Kept
    <2>3. CASE s.active
      <3>1. s.kind \in Kinds /\ s.staging = Staging(s) /\ Staging(s) \in Paths
        BY <2>3, SessionPaths DEF Kinds, DeviceInv
      <3>2. WriteFile(Staging(s), NoFile)
        BY <1>2, <2>3, <3>1
      <3> HIDE DEF s
      <3> QED
        BY <2>1, <3>1, <3>2, StagingKeeps DEF DeviceInv
    <2> QED
      BY <2>2, <2>3
  <1> QED
    BY <1>1, <1>2 DEF Reset

LEMMA DeleteKeeps ==
    ASSUME DeviceInv, InStaging, NEW r, WellFormed(r), r.op = "delete", ContentDelete(r)
    PROVE InStaging' /\ Kept
  <1>1. ContentOf(r.name) \in Paths
    BY DEF WellFormed, Paths
  <1>2. \A q \in Paths : q # ContentOf(r.name) => store'[q] = store[q]
    BY <1>1, StoreWritten DEF ContentDelete, DeviceInv
  <1>3. AppPaths \subseteq Paths /\ ContentOf(r.name) \notin AppPaths
    <2>1. HelloRequest.kind = "reset" /\ NoSession.kind \in Kinds
      BY DEF HelloRequest, Request, NoJob, NoSession, Kinds
    <2> QED
      BY <2>1, AppPathsApart
  <1> QED
    BY <1>2, <1>3 DEF ContentDelete, InStaging, Kept

LEMMA HandleKeeps ==
    ASSUME DeviceInv, InStaging, publishing = NoCommit, NEW r, WellFormed(r), Handle(r)
    PROVE InStaging' /\ Kept /\ registry' = registry
  <1>1. registry' = registry
    BY DEF Handle, Hello, Begin, Chunk, Commit, CommitTemp, Reset, ContentCheck, ContentDelete
  <1>2. CASE UNCHANGED <<sessions, store>>
    BY <1>1, <1>2 DEF InStaging, Kept
  <1> QED
    BY <1>1, <1>2, BeginKeeps, ChunkKeeps, CommitKeeps, CommitTempKeeps, ResetKeeps, DeleteKeeps
    DEF Handle, Hello, ContentCheck

(* There is room for the app of a commit.                                  *)
LEMMA RoomToPublish ==
    ASSUME EnoughRoom, registry \subseteq Installed, NEW n \in Installed
    PROVE n \in registry \/ Cardinality(registry) < MaxApps
  <1>1. Installed \subseteq Names
    BY JobFields DEF Installed
  <1>2. IsFiniteSet(Installed)
    BY <1>1, LinkAssumption, FS_Subset
  <1>3. /\ IsFiniteSet(registry) /\ Cardinality(registry) <= Cardinality(Installed)
        /\ Cardinality(registry) = Cardinality(Installed) => registry = Installed
    BY <1>2, FS_Subset
  <1>4. Cardinality(registry) \in Nat /\ Cardinality(Installed) \in Nat /\ MaxApps \in Nat
    BY <1>2, <1>3, FS_CardinalityType, LinkAssumption
  <1>5. CASE Cardinality(registry) = Cardinality(Installed)
    BY <1>3, <1>5
  <1>6. CASE Cardinality(registry) # Cardinality(Installed)
    BY <1>3, <1>4, <1>6 DEF EnoughRoom
  <1> QED
    BY <1>5, <1>6

(* The second half of a commit publishes and removes nothing else.         *)
LEMMA PublishKeeps ==
    ASSUME EnoughRoom, DeviceInv, RoomInv, Publish
    PROVE /\ RoomInv'
          /\ \A p \in AppPaths : store[p] # NoFile => store'[p] # NoFile
  <1>0. PICK k \in Kinds : k = publishing.kind
    BY DEF DeviceInv, PublishingInv, Publish
  <1> DEFINE s == sessions[k]
             new == Final(s)
             kept == [store EXCEPT ![new] = store[s.staging], ![s.staging] = NoFile]
  <1>1. k # "temp" /\ CommitOk(s)
    BY <1>0 DEF DeviceInv, PublishingInv, Publish
  <1>2. /\ s \in SessionType /\ s.active /\ s.kind = k /\ ForJob(s)
        /\ s.staging \in Paths /\ new \in Paths
    BY <1>1, CommitSession DEF DeviceInv
  <1>3. s.staging = Staging(s)
    BY <1>2 DEF RoomInv, InStaging
  <1>4. k = "install" => s.name \in Installed
    BY <1>2 DEF ForJob, Fields, FileJobs, Installed
  <1>5. k = "install" => s.name \in registry \/ Cardinality(registry) < MaxApps
    BY <1>4, RoomToPublish DEF RoomInv
  <1>6. CASE UNCHANGED <<store, sessions, registry>>
    BY <1>6 DEF RoomInv, InStaging
  <1>7. CASE /\ store[s.staging] # NoFile /\ store' = kept /\ SetSession(publishing, NoSession)
             /\ registry' = IF k = "install" THEN registry \cup {s.name} ELSE registry
    <2>1. /\ store'[new] # NoFile
          /\ \A p \in Paths : p # new /\ p # s.staging => store'[p] = store[p]
      <3>1. new # s.staging
        BY <1>1, <1>2, <1>3, PathsApart
      <3>2. StoreInv /\ store' = kept
        BY <1>7 DEF DeviceInv
      <3> HIDE DEF s, new
      <3>3. store' = [store EXCEPT ![new] = store[s.staging], ![s.staging] = NoFile]
        BY <3>2
      <3> QED
        BY <1>2, <1>7, <3>1, <3>2, <3>3 DEF StoreInv
    <2>2. AppPaths \subseteq Paths /\ s.staging \notin AppPaths
      BY <1>2, <1>3, AppPathsApart
    <2>3. \A p \in AppPaths : store[p] # NoFile => store'[p] # NoFile
      BY <2>1, <2>2
    <2>4. InStaging'
      <3>1. sessions' = [sessions EXCEPT ![k] = NoSession]
        BY <1>0, <1>7 DEF SetSession
      <3>2. \A q \in Kinds : sessions'[q] = NoSession \/ sessions'[q] = sessions[q]
        BY <3>1 DEF DeviceInv, SessionsInv
      <3> QED
        BY <3>2, NoSessionType DEF RoomInv, InStaging
    <2>5. registry' \subseteq Installed
      BY <1>4, <1>7 DEF RoomInv
    <2>6. ASSUME NEW n \in Names, store'[MainOf(n)] # NoFile PROVE n \in Installed
      <3>1. CASE MainOf(n) = new
        <4>1. k = "install" /\ s.name = n
          BY <1>1, <1>2, <3>1, AppPathsApart
        <4> QED
          BY <1>4, <4>1
      <3>2. CASE MainOf(n) # new
        <4>1. MainOf(n) \in AppPaths
          BY DEF AppPaths
        <4>2. store'[MainOf(n)] = store[MainOf(n)]
          BY <2>1, <2>2, <3>2, <4>1
        <4> QED
          BY <2>6, <4>2 DEF RoomInv
      <3> QED
        BY <3>1, <3>2
    <2> QED
      BY <2>3, <2>4, <2>5, <2>6 DEF RoomInv
  <1> QED
    BY <1>0, <1>5, <1>6, <1>7 DEF Publish, SessionOf, Target

(* Every step: the room stays, and a file of an app goes only for another. *)
LEMMA RoomStep ==
    ASSUME EnoughRoom, LinkInv, RoomInv, [Next]_vars
    PROVE RoomInv' /\ \A p \in AppPaths : store[p] # NoFile /\ store'[p] = NoFile => Replaces(p)
  <1>1. CASE UNCHANGED <<sessions, store, registry>>
    BY <1>1 DEF RoomInv, InStaging
  <1>2. CASE DeviceByte
    <2> DEFINE got == Pushed(buffer, Head(up))
    <2>1. Whole(got) => WellFormed(got[1].frame)
      BY <1>2, BufferGrows DEF LinkInv, DeviceByte
    <2> HIDE DEF got
    <2>2. CASE UNCHANGED <<sessions, store, registry>>
      BY <1>1, <2>2
    <2>3. CASE Whole(got) /\ Handle(got[1].frame)
      <3>1. InStaging' /\ Kept /\ registry' = registry
        BY <1>2, <2>1, <2>3, HandleKeeps DEF LinkInv, RoomInv, DeviceByte
      <3>2. \A n \in Names : MainOf(n) \in AppPaths
        BY DEF AppPaths
      <3> QED
        BY <3>1, <3>2 DEF RoomInv, Kept
    <2> QED
      BY <1>2, <2>2, <2>3 DEF DeviceByte, got
  <1>3. CASE Publish
    BY <1>3, PublishKeeps DEF LinkInv
  <1>4. CASE Restart
    <2>1. \A k \in Kinds : sessions'[k] = NoSession
      BY <1>4 DEF Restart
    <2>2. store' = store /\ registry' \subseteq {n \in Names : store[MainOf(n)] # NoFile}
      BY <1>4 DEF Restart
    <2> QED
      BY <2>1, <2>2, NoSessionType DEF RoomInv, InStaging
  <1> QED
    BY <1>1, <1>2, <1>3, <1>4 DEF Next, Open, ReadWhileHello, Quiet, Send, Read, Timeout,
       Interrupt, LoseUp, LoseDown, vars, deviceVars

LEMMA RoomInit == Init => RoomInv
  <1> SUFFICES ASSUME Init PROVE RoomInv
    OBVIOUS
  <1>1. InStaging /\ registry \subseteq Installed
    BY NoSessionType DEF Init, InStaging
  <1>2. \A n \in Names : store[MainOf(n)] = NoFile
    BY DEF Init, Paths
  <1> QED
    BY <1>1, <1>2 DEF RoomInv

LEMMA RoomInvariant ==
    ASSUME EnoughRoom
    PROVE Spec => [](LinkInv /\ RoomInv)
  <1>1. LinkInv /\ RoomInv /\ [Next]_vars => LinkInv' /\ RoomInv'
    BY LinkNext, RoomStep
  <1> QED
    BY <1>1, LinkInit, RoomInit, PTL DEF Spec

(* Without books, and with room for every app that is installed, a session *)
(* that receives has its bytes in its staging file, also after a write     *)
(* that failed half way (append_install_chunk, append_resource_chunk).     *)
THEOREM SessionsStaged ==
    ASSUME NoBooks, EnoughRoom
    PROVE Spec => []SessionIsStaged
  <1>1. ASSUME LinkInv, RoomInv PROVE SessionIsStaged
    <2> SUFFICES ASSUME NEW k \in Kinds, sessions[k].active
                 PROVE LET s == sessions[k]
                       IN /\ store[s.staging] # NoFile
                          /\ Len(s.received) <= Len(store[s.staging])
                          /\ Prefix(store[s.staging], Len(s.received)) = s.received
      BY DEF SessionIsStaged
    <2> DEFINE s == sessions[k]
    <2>1. s.kind = k /\ ForJob(s) /\ s.staging = Staging(s) /\ Session(k)
      BY <1>1 DEF LinkInv, DeviceInv, SessionsInv, Session, RoomInv, InStaging
    <2>2. k # "content"
      BY <2>1 DEF ForJob, Fields, FileJobs, NoBooks
    <2>3. k = "install" => Staging(s) # Final(s)
      BY <2>1, PathsApart
    <2>4. Holds(store[s.staging], s)
      BY <2>1, <2>2, <2>3 DEF Session
    <2>5. NoFile \notin Seq(Nat)
      BY LinkAssumption
    <2> QED
      BY <2>4, <2>5 DEF Holds
  <1> QED
    BY <1>1, RoomInvariant, PTL

(* Without books, and with room for every app that is installed, a         *)
(* published file goes only for a commit that has a whole one to put in    *)
(* its place (commit_staged_install, commit_staged_resource_with_path).    *)
THEOREM PublishedStays ==
    ASSUME NoBooks, EnoughRoom
    PROVE Spec => PublishedKept
  <1>1. Finals \subseteq AppPaths
    BY DEF Finals, AppPaths, NoBooks, Kinds
  <1>2. LinkInv /\ RoomInv /\ [Next]_vars =>
          [\A p \in Finals : store[p] # NoFile /\ store'[p] = NoFile =>
             \/ up # <<>> /\ up[1].frame.op = "delete" /\ p = ContentOf(up[1].frame.name)
             \/ /\ publishing' # NoCommit
                /\ LET s == sessions'[publishing'.kind]
                   IN Final(s) = p /\ store'[s.staging] = s.crc]_vars
    BY <1>1, RoomStep DEF Replaces
  <1> QED
    BY <1>2, RoomInvariant, PTL DEF Spec, PublishedKept

(* Books or not, with room for every app that is installed, the file of an *)
(* app or a resource goes only for a commit that has a whole one to put in *)
(* its place.                                                              *)
THEOREM AppFilesStay ==
    ASSUME EnoughRoom
    PROVE Spec => [][\A p \in AppPaths :
                        store[p] # NoFile /\ store'[p] = NoFile => Replaces(p)]_vars
  <1>1. LinkInv /\ RoomInv /\ [Next]_vars =>
          [\A p \in AppPaths : store[p] # NoFile /\ store'[p] = NoFile => Replaces(p)]_vars
    BY RoomStep
  <1> QED
    BY <1>1, RoomInvariant, PTL DEF Spec
=============================================================================
