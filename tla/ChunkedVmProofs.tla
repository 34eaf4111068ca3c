--------------------------- MODULE ChunkedVmProofs ---------------------------
(* Theorems about ChunkedVm, for every image, every answer of the host and *)
(* every limit: the code that is executed is the code of the app.          *)
EXTENDS ChunkedVm, TLAPS, SequenceTheorems, WellFoundedInduction

(* A buffer is marked with the chunk whose bytes it holds, from the start, *)
(* after every read and after every step that leaves it alone.             *)
Marked == code.holds = code.chunk

LEMMA StepsKeepMarked ==
    ASSUME Marked, [Next]_vmVars
    PROVE Marked'
  <1>1. CASE \E event \in Events, payload \in Payloads : VmStart(event, payload)
    BY <1>1 DEF VmStart, Marked
  <1>2. CASE VmWork
    <2>1. CASE ReadNow
      BY <2>1 DEF ReadNow, Filled, Marked
    <2>2. CASE ReadRequest \/ VmEndFrame \/ VmInstruction \/ VmExceed
      BY <2>2 DEF ReadRequest, VmEndFrame, VmInstruction, VmExceed, Marked
    <2> QED
      BY <1>2, <2>1, <2>2 DEF VmWork
  <1>3. CASE Answer
    <2>1. CASE ReadDone
      BY <2>1 DEF ReadDone, Filled, Marked
    <2>2. CASE ReadFails \/ VmHostDone
      BY <2>2 DEF ReadFails, VmHostDone, Marked
    <2> QED
      BY <1>3, <2>1, <2>2 DEF Answer
  <1>4. CASE VmRelaunch
    BY <1>4 DEF VmRelaunch, NoCode, Marked
  <1>5. CASE UNCHANGED vmVars
    BY <1>5 DEF vmVars, Marked
  <1> QED
    BY <1>1, <1>2, <1>3, <1>4, <1>5 DEF Next

LEMMA AlwaysMarked == Spec => []Marked
  <1>1. Init => Marked
    BY DEF Init, NoCode, Marked
  <1>2. Marked /\ [Next]_vmVars => Marked'
    BY StepsKeepMarked
  <1> QED
    BY <1>1, <1>2, PTL DEF Spec

(* Whatever was read, abandoned or refused before, the instruction that    *)
(* runs next is the one the app's file has at the frame's address          *)
(* (vm.rs load_chunk_resumable, resume_storage).                           *)
THEOREM FetchesTheFile == Spec => []FetchesFile
  <1>1. Marked => FetchesFile
    BY DEF Marked, FetchesFile, Resident
  <1> QED
    BY <1>1, AlwaysMarked, PTL

-----------------------------------------------------------------------------
(* Induction: a set of numbers that is not empty has a least one.          *)
LEMMA LeastNumber ==
    ASSUME NEW T \in SUBSET Nat, T # {}
    PROVE \E n \in T : \A k \in T : ~(k < n)
  <1>1. PICK n \in T : \A k \in T : <<k, n>> \notin OpToRel(<, Nat)
    BY NatLessThanWellFounded, WFMin
  <1>2. \A k \in T : k < n => <<k, n>> \in OpToRel(<, Nat)
    BY DEF OpToRel
  <1> QED
    BY <1>1, <1>2

(* The machine: what its arrays hold, and that its frames run code.        *)
Fields == {"state", "stack", "frames", "screen", "exited", "count", "recs", "nextRec", "lists",
           "nextList", "texts", "failed"}
StateOK(st) == DOMAIN st = DOMAIN Image.slots /\ \A i \in DOMAIN st : Accepts(Image.slots[i], st[i])
StackOK(s) == s \in Seq(ToSet(s)) /\ Len(s) <= MaxStack
IsFrame(f, i) ==
    /\ DOMAIN f = {"chunk", "ip", "locals", "depth"}
    /\ f.chunk \in DOMAIN Image.code /\ f.ip \in 1 .. Len(Image.code[f.chunk]) + 1
    /\ f.depth = i - 1
FramesOK(fs) ==
    fs \in Seq(ToSet(fs)) /\ Len(fs) <= MaxDepth + 1 /\ \A i \in 1 .. Len(fs) : IsFrame(fs[i], i)
Sound(n) ==
    /\ DOMAIN n = Fields
    /\ StateOK(n.state) /\ StackOK(n.stack) /\ FramesOK(n.frames)
    /\ n.nextRec \in 0 .. MaxRecs - 1 /\ n.nextList \in 0 .. MaxLists - 1
    /\ DOMAIN n.lists = 0 .. MaxLists - 1
    /\ n.failed \in BOOLEAN

(* What an operation on a machine leaves of it.                            *)
Kept(n, p) == Sound(p) /\ p.count = n.count

LEMMA KeptTwice ==
    ASSUME NEW n, NEW p, NEW q, Kept(n, p), Kept(p, q)
    PROVE Kept(n, q)
  BY DEF Kept

LEMMA KeptSelf ==
    ASSUME NEW n, Sound(n)
    PROVE Kept(n, n)
  BY DEF Kept

LEMMA Ranged ==
    ASSUME NEW S, NEW s \in Seq(S)
    PROVE s \in Seq(ToSet(s)) /\ Len(s) \in Nat /\ DOMAIN s = 1 .. Len(s)
  <1>1. Len(s) \in Nat /\ s \in [1 .. Len(s) -> S] /\ DOMAIN s = 1 .. Len(s)
    BY LenProperties
  <1>2. s \in [1 .. Len(s) -> ToSet(s)]
    BY <1>1 DEF ToSet
  <1> QED
    BY <1>1, <1>2, SeqDef

(* One field of the machine changes.                                       *)
LEMMA WithFailed ==
    ASSUME NEW n, Sound(n)
    PROVE Kept(n, Fail(n)) /\ Fail(n).failed = TRUE
  BY DEF Sound, Kept, Fail, Fields

LEMMA WithStack ==
    ASSUME NEW n, NEW s, Sound(n), StackOK(s)
    PROVE /\ Kept(n, [n EXCEPT !.stack = s])
          /\ [n EXCEPT !.stack = s].frames = n.frames
          /\ [n EXCEPT !.stack = s].failed = n.failed
  BY DEF Sound, Kept, Fields

LEMMA WithFrames ==
    ASSUME NEW n, NEW fs, Sound(n), FramesOK(fs)
    PROVE /\ Kept(n, [n EXCEPT !.frames = fs])
          /\ [n EXCEPT !.frames = fs].frames = fs
          /\ [n EXCEPT !.frames = fs].stack = n.stack
          /\ [n EXCEPT !.frames = fs].failed = n.failed
  BY DEF Sound, Kept, Fields

LEMMA WithState ==
    ASSUME NEW n, NEW st, Sound(n), StateOK(st)
    PROVE /\ Kept(n, [n EXCEPT !.state = st])
          /\ [n EXCEPT !.state = st].state = st
          /\ [n EXCEPT !.state = st].frames = n.frames
          /\ [n EXCEPT !.state = st].failed = n.failed
  BY DEF Sound, Kept, Fields

(* The fields that bear on no property here.                               *)
LEMMA WithOther ==
    ASSUME NEW n, NEW f \in {"screen", "exited", "recs", "texts"}, NEW v, Sound(n)
    PROVE /\ Kept(n, [n EXCEPT ![f] = v])
          /\ [n EXCEPT ![f] = v].frames = n.frames /\ [n EXCEPT ![f] = v].stack = n.stack
          /\ [n EXCEPT ![f] = v].failed = n.failed /\ [n EXCEPT ![f] = v].state = n.state
  BY DEF Sound, Kept, Fields

LEMMA WithLists ==
    ASSUME NEW n, NEW ls, Sound(n), DOMAIN ls = 0 .. MaxLists - 1
    PROVE /\ Kept(n, [n EXCEPT !.lists = ls])
          /\ [n EXCEPT !.lists = ls].frames = n.frames
  BY DEF Sound, Kept, Fields

LEMMA Numbers ==
    /\ MaxStack \in Nat /\ MaxDepth \in Nat /\ MaxInstr \in Nat
    /\ MaxRecs \in Nat \ {0} /\ MaxLists \in Nat \ {0}
  BY VmLimits, MachineLimits

LEMMA WithRings ==
    ASSUME NEW n, Sound(n), NEW k \in 0 .. MaxRecs - 1, NEW l \in 0 .. MaxLists - 1
    PROVE /\ Kept(n, [n EXCEPT !.nextRec = k]) /\ Kept(n, [n EXCEPT !.nextList = l])
          /\ [n EXCEPT !.nextRec = k].failed = n.failed
          /\ [n EXCEPT !.nextList = l].failed = n.failed
          /\ [n EXCEPT !.nextRec = k].frames = n.frames
          /\ [n EXCEPT !.nextList = l].frames = n.frames
  BY DEF Sound, Kept, Fields

(* The stack.                                                              *)
LEMMA PushKeeps ==
    ASSUME NEW n, NEW v, Sound(n)
    PROVE Kept(n, Push(n, v)) /\ Push(n, v).frames = n.frames
  <1>1. CASE Len(n.stack) = MaxStack
    <2>1. Fail(n).frames = n.frames
      BY DEF Sound, Fail, Fields
    <2> QED
      BY <1>1, <2>1, WithFailed DEF Push
  <1>2. CASE Len(n.stack) # MaxStack
    <2> DEFINE S == ToSet(n.stack) \cup {v}
               s == Append(n.stack, v)
    <2>1. n.stack \in Seq(ToSet(n.stack)) /\ Len(n.stack) <= MaxStack
      BY DEF Sound, StackOK
    <2>2. n.stack \in Seq(S) /\ v \in S
      BY <2>1, SeqMonotonic
    <2>3. s \in Seq(S) /\ Len(s) = Len(n.stack) + 1
      BY <2>2, AppendProperties
    <2>4. Len(n.stack) \in Nat
      BY <2>1, Ranged
    <2> HIDE DEF s, S
    <2>5. StackOK(s)
      <3>1. s \in Seq(ToSet(s))
        BY <2>3, Ranged
      <3>2. Len(s) <= MaxStack
        BY <1>2, <2>1, <2>3, <2>4, Numbers
      <3> QED
        BY <3>1, <3>2 DEF StackOK
    <2>6. Push(n, v) = [n EXCEPT !.stack = s]
      BY <1>2 DEF Push, s
    <2> QED
      BY <2>5, <2>6, WithStack
  <1> QED
    BY <1>1, <1>2

LEMMA DropKeeps ==
    ASSUME NEW n, Sound(n), NEW k \in Nat, k <= Len(n.stack)
    PROVE Kept(n, Drop(n, k)) /\ Drop(n, k).frames = n.frames
  <1> DEFINE S == ToSet(n.stack)
             s == SubSeq(n.stack, 1, Len(n.stack) - k)
  <1>1. n.stack \in Seq(S) /\ Len(n.stack) <= MaxStack /\ Len(n.stack) \in Nat
    BY Ranged DEF Sound, StackOK
  <1>2. \A i \in 1 .. (Len(n.stack) - k) : n.stack[i] \in S
    BY <1>1, ElementOfSeq
  <1>3. s \in Seq(S) /\ Len(s) <= Len(n.stack)
    BY <1>1, <1>2, SubSeqProperties
  <1> HIDE DEF s, S
  <1>4. StackOK(s)
    <2>1. s \in Seq(ToSet(s)) /\ Len(s) \in Nat
      BY <1>3, Ranged
    <2>2. Len(s) <= MaxStack
      BY <1>1, <1>3, <2>1, Numbers
    <2> QED
      BY <2>1, <2>2 DEF StackOK
  <1>5. Drop(n, k) = [n EXCEPT !.stack = s]
    BY DEF Drop, s
  <1> QED
    BY <1>4, <1>5, WithStack

LEMMA PopKeeps ==
    ASSUME NEW n, Sound(n), NEW types, Len(types) \in Nat
    PROVE Kept(n, Pop(n, types)) /\ Pop(n, types).frames = n.frames
  <1> DEFINE have == Len(n.stack)
             bad == {i \in 1 .. Len(types) : i > have \/ ~Fits(types[i], Arg(n, i))}
             first == CHOOSE i \in bad : \A j \in bad : i <= j
             k == IF first > have THEN have ELSE first
  <1>1. have \in Nat
    BY Ranged DEF Sound, StackOK
  <1>2. CASE bad = {}
    <2>1. Len(types) <= have
      <3>1. CASE Len(types) = 0
        BY <1>1, <3>1
      <3>2. CASE Len(types) # 0
        <4>1. Len(types) \in 1 .. Len(types)
          BY <3>2
        <4>2. ~(Len(types) > have)
          BY <1>2, <4>1
        <4> QED
          BY <1>1, <4>2
      <3> QED
        BY <3>1, <3>2
    <2>2. Pop(n, types) = Drop(n, Len(types))
      BY <1>2 DEF Pop
    <2> QED
      BY <2>1, <2>2, DropKeeps
  <1>3. CASE bad # {}
    <2>1. first \in Nat
      <3>1. bad \in SUBSET Nat
        OBVIOUS
      <3> HIDE DEF bad
      <3>2. \E i \in bad : \A j \in bad : ~(j < i)
        BY <1>3, <3>1, LeastNumber
      <3>3. \E i \in bad : \A j \in bad : i <= j
        BY <3>1, <3>2
      <3> QED
        BY <3>1, <3>3
    <2> HIDE DEF first
    <2>2. k \in Nat /\ k <= have
      BY <1>1, <2>1
    <2>3. Pop(n, types) = Fail(Drop(n, k))
      BY <1>3 DEF Pop, first
    <2> HIDE DEF k
    <2>4. Kept(n, Drop(n, k)) /\ Drop(n, k).frames = n.frames
      BY <2>2, DropKeeps
    <2>5. Kept(Drop(n, k), Fail(Drop(n, k)))
      BY <2>4, WithFailed DEF Kept
    <2>6. Fail(Drop(n, k)).frames = Drop(n, k).frames
      BY <2>4 DEF Kept, Sound, Fail, Fields
    <2> QED
      BY <2>3, <2>4, <2>5, <2>6, KeptTwice
  <1> QED
    BY <1>2, <1>3

(* The frames: the one on top runs, at an address of its chunk.            *)
LEMMA TopFacts ==
    ASSUME NEW n, Sound(n), n.frames # <<>>
    PROVE /\ Depth(n) \in Nat \ {0} /\ Depth(n) \in 1 .. Len(n.frames) /\ Depth(n) <= MaxDepth + 1
          /\ IsFrame(Top(n), Depth(n))
          /\ Len(Image.code[Top(n).chunk]) \in Nat
  <1>1. n.frames \in Seq(ToSet(n.frames)) /\ Len(n.frames) <= MaxDepth + 1
    BY DEF Sound, FramesOK
  <1>2. Len(n.frames) \in Nat \ {0}
    BY <1>1, EmptySeq
  <1>3. IsFrame(Top(n), Depth(n))
    BY <1>2 DEF Sound, FramesOK, Top, Depth
  <1>4. Len(Image.code[Top(n).chunk]) \in Nat
    BY <1>3, ImageAssumption DEF IsFrame, IsSeq
  <1> QED
    BY <1>1, <1>2, <1>3, <1>4 DEF Depth

LEMMA WithTop ==
    ASSUME NEW n, Sound(n), n.frames # <<>>, NEW f, IsFrame(f, Depth(n))
    PROVE /\ FramesOK([n.frames EXCEPT ![Depth(n)] = f])
          /\ [n.frames EXCEPT ![Depth(n)] = f] # <<>>
  <1> DEFINE S == ToSet(n.frames) \cup {f}
             d == Depth(n)
             fs == [n.frames EXCEPT ![d] = f]
  <1>1. n.frames \in Seq(S) /\ f \in S
    BY SeqMonotonic DEF Sound, FramesOK
  <1>2. d \in 1 .. Len(n.frames)
    BY TopFacts
  <1>3. /\ fs \in Seq(S) /\ Len(fs) = Len(n.frames)
        /\ \A j \in 1 .. Len(n.frames) : fs[j] = IF j = d THEN f ELSE n.frames[j]
    BY <1>1, <1>2, ExceptSeq
  <1> HIDE DEF fs, S
  <1>4. \A j \in 1 .. Len(n.frames) : IsFrame(fs[j], j)
    BY <1>3 DEF Sound, FramesOK
  <1>5. fs \in Seq(ToSet(fs))
    BY <1>3, Ranged
  <1>6. Len(fs) <= MaxDepth + 1
    BY <1>3 DEF Sound, FramesOK
  <1>7. FramesOK(fs)
    BY <1>3, <1>4, <1>5, <1>6 DEF FramesOK
  <1>8. fs # <<>>
    <2>1. Len(n.frames) > 0 /\ Len(<<>>) = 0
      BY TopFacts, EmptySeq
    <2> QED
      BY <1>3, <2>1
  <1> QED
    BY <1>7, <1>8 DEF fs

LEMMA GoToKeeps ==
    ASSUME NEW n, Sound(n), n.frames # <<>>,
           NEW ip \in 1 .. Len(Image.code[Top(n).chunk]) + 1
    PROVE Kept(n, GoTo(n, ip)) /\ GoTo(n, ip).frames # <<>> /\ GoTo(n, ip).failed = n.failed
  <1> DEFINE f == [Top(n) EXCEPT !.ip = ip]
             fs == [n.frames EXCEPT ![Depth(n)] = f]
  <1>1. IsFrame(f, Depth(n))
    BY TopFacts DEF IsFrame
  <1> HIDE DEF f
  <1>2. FramesOK(fs) /\ fs # <<>>
    BY <1>1, WithTop
  <1>3. GoTo(n, ip) = [n EXCEPT !.frames = fs]
    BY DEF GoTo, f, Top
  <1> HIDE DEF fs
  <1> QED
    BY <1>2, <1>3, WithFrames

LEMMA PushFrameKeeps ==
    ASSUME NEW n, Sound(n), NEW chunk \in DOMAIN Image.code, NEW depth, depth = Depth(n)
    PROVE /\ Kept(n, PushFrame(n, chunk, depth))
          /\ PushFrame(n, chunk, depth).failed # TRUE => PushFrame(n, chunk, depth).frames # <<>>
          /\ PushFrame(n, chunk, depth).stack = n.stack
  <1>1. CASE depth > MaxDepth \/ Depth(n) > MaxDepth
    <2>1. PushFrame(n, chunk, depth) = Fail(n)
      BY <1>1 DEF PushFrame
    <2>2. Fail(n).stack = n.stack
      BY DEF Sound, Fail, Fields
    <2> QED
      BY <2>1, <2>2, WithFailed
  <1>2. CASE ~(depth > MaxDepth \/ Depth(n) > MaxDepth)
    <2> DEFINE f == Frame(chunk, depth)
               S == ToSet(n.frames) \cup {f}
               fs == Append(n.frames, f)
    <2>1. n.frames \in Seq(ToSet(n.frames)) /\ Len(n.frames) \in Nat
      BY Ranged DEF Sound, FramesOK
    <2>2. n.frames \in Seq(S) /\ f \in S
      BY <2>1, SeqMonotonic
    <2>3. /\ fs \in Seq(S) /\ Len(fs) = Len(n.frames) + 1 /\ fs # <<>>
          /\ \A i \in 1 .. Len(n.frames) : fs[i] = n.frames[i]
          /\ fs[Len(n.frames) + 1] = f
      BY <2>2, AppendProperties
    <2>4. IsFrame(f, Len(n.frames) + 1)
      <3>1. Len(Image.code[chunk]) \in Nat
        BY ImageAssumption DEF IsSeq
      <3> QED
        BY <2>1, <3>1 DEF IsFrame, Frame, Depth
    <2> HIDE DEF f, fs, S
    <2>5. \A i \in 1 .. Len(fs) : IsFrame(fs[i], i)
      <3> SUFFICES ASSUME NEW i \in 1 .. Len(fs) PROVE IsFrame(fs[i], i)
        OBVIOUS
      <3>1. CASE i = Len(n.frames) + 1
        BY <2>3, <2>4, <3>1
      <3>2. CASE i # Len(n.frames) + 1
        <4>1. i \in 1 .. Len(n.frames)
          BY <2>1, <2>3, <3>2
        <4> QED
          BY <2>3, <4>1 DEF Sound, FramesOK
      <3> QED
        BY <3>1, <3>2
    <2>6. Len(fs) <= MaxDepth + 1
      BY <1>2, <2>1, <2>3, Numbers DEF Depth
    <2>7. FramesOK(fs)
      <3>1. fs \in Seq(ToSet(fs))
        BY <2>3, Ranged
      <3> QED
        BY <2>5, <2>6, <3>1 DEF FramesOK
    <2>8. PushFrame(n, chunk, depth) = [n EXCEPT !.frames = fs]
      BY <1>2 DEF PushFrame, fs, f
    <2>9. /\ Kept(n, [n EXCEPT !.frames = fs]) /\ [n EXCEPT !.frames = fs].frames = fs
          /\ [n EXCEPT !.frames = fs].stack = n.stack
      BY <2>7, WithFrames
    <2> QED
      BY <2>3, <2>8, <2>9
  <1> QED
    BY <1>1, <1>2

LEMMA CompleteFrameKeeps ==
    ASSUME NEW n, Sound(n), n.frames # <<>>, NEW v
    PROVE Kept(n, CompleteFrame(n, v))
  <1> DEFINE k == Len(n.frames) - 1
             S == ToSet(n.frames)
             fs == SubSeq(n.frames, 1, k)
             below == [n EXCEPT !.frames = fs]
  <1>1. n.frames \in Seq(S) /\ Len(n.frames) \in Nat \ {0} /\ Len(n.frames) <= MaxDepth + 1
    BY EmptySeq DEF Sound, FramesOK
  <1>2. \A i \in 1 .. k : n.frames[i] \in S
    BY <1>1, ElementOfSeq
  <1>3. k \in Nat
    BY <1>1
  <1>4. fs \in Seq(S) /\ Len(fs) = k /\ \A i \in 1 .. k : fs[i] = n.frames[i]
    <2>1. /\ fs \in Seq(S) /\ Len(fs) = IF 1 <= k THEN k - 1 + 1 ELSE 0
          /\ \A i \in 1 .. k - 1 + 1 : fs[i] = n.frames[1 + i - 1]
      BY <1>2, <1>3, SubSeqProperties
    <2> HIDE DEF fs, k
    <2>2. \A i \in 1 .. k : i \in 1 .. k - 1 + 1 /\ 1 + i - 1 = i
      BY <1>3
    <2>3. Len(fs) = k
      BY <1>3, <2>1
    <2> QED
      BY <2>1, <2>2, <2>3
  <1> HIDE DEF fs, S
  <1>5. FramesOK(fs)
    <2>1. fs \in Seq(ToSet(fs))
      BY <1>4, Ranged
    <2>2. Len(fs) <= MaxDepth + 1
      BY <1>1, <1>4, Numbers
    <2>3. \A i \in 1 .. Len(fs) : IsFrame(fs[i], i)
      BY <1>1, <1>4 DEF Sound, FramesOK
    <2> QED
      BY <2>1, <2>2, <2>3 DEF FramesOK
  <1>6. Kept(n, below)
    BY <1>5, WithFrames
  <1>7. CompleteFrame(n, v) \in {Push(below, v), below}
    BY DEF CompleteFrame, fs
  <1> HIDE DEF below
  <1>8. Kept(below, Push(below, v))
    BY <1>6, PushKeeps DEF Kept
  <1> QED
    BY <1>6, <1>7, <1>8, KeptTwice

-----------------------------------------------------------------------------
(* Runtime strings, records and lists.                                     *)
LEMMA InternKeeps ==
    ASSUME NEW n, Sound(n), NEW t
    PROVE Kept(n, Intern(n, t)) /\ Intern(n, t).frames = n.frames
  <1>1. Intern(n, t) \in {n, Fail(n), [n EXCEPT !.texts = n.texts \cup {t}]}
    BY DEF Intern
  <1>2. Fail(n).frames = n.frames
    BY DEF Sound, Fail, Fields
  <1>3. /\ Kept(n, [n EXCEPT !.texts = n.texts \cup {t}])
        /\ [n EXCEPT !.texts = n.texts \cup {t}].frames = n.frames
    BY WithOther
  <1> QED
    BY <1>1, <1>2, <1>3, WithFailed, KeptSelf

LEMMA AllocRecordsKeeps ==
    ASSUME NEW n, Sound(n), NEW fields, NEW k \in Nat
    PROVE Kept(n, AllocRecords(n, fields, k)) /\ AllocRecords(n, fields, k).frames = n.frames
  <1> DEFINE rs == [r \in 0 .. MaxRecs - 1 |->
                      IF r \in {(n.nextRec + j) % MaxRecs : j \in 0 .. k - 1} THEN fields ELSE n.recs[r]]
             next == (n.nextRec + k) % MaxRecs
             stored == [n EXCEPT !.recs = rs]
  <1>1. n.nextRec \in 0 .. MaxRecs - 1
    BY DEF Sound
  <1>2. next \in 0 .. MaxRecs - 1
    BY <1>1, Numbers
  <1>3. AllocRecords(n, fields, k) = [stored EXCEPT !.nextRec = next]
    BY DEF AllocRecords, Sound, Fields
  <1> HIDE DEF rs, next
  <1>4. Kept(n, stored) /\ stored.frames = n.frames
    BY WithOther
  <1> HIDE DEF stored
  <1>5. Kept(stored, [stored EXCEPT !.nextRec = next]) /\ [stored EXCEPT !.nextRec = next].frames = stored.frames
    <2>1. stored.nextList \in 0 .. MaxLists - 1
      BY <1>4 DEF Kept, Sound
    <2> QED
      BY <1>2, <1>4, <2>1, WithRings DEF Kept
  <1> QED
    BY <1>3, <1>4, <1>5, KeptTwice

LEMMA AllocListKeeps ==
    ASSUME NEW n, Sound(n), NEW items
    PROVE Kept(n, AllocList(n, items)) /\ AllocList(n, items).frames = n.frames
  <1> DEFINE ls == [n.lists EXCEPT ![n.nextList] = items]
             next == (n.nextList + 1) % MaxLists
             stored == [n EXCEPT !.lists = ls]
  <1>1. n.nextList \in 0 .. MaxLists - 1
    BY DEF Sound
  <1>2. next \in 0 .. MaxLists - 1
    BY <1>1, Numbers
  <1>3. AllocList(n, items) = [stored EXCEPT !.nextList = next]
    BY DEF AllocList, Sound, Fields
  <1>0. DOMAIN ls = 0 .. MaxLists - 1
    BY DEF Sound
  <1> HIDE DEF ls, next
  <1>4. Kept(n, stored) /\ stored.frames = n.frames
    BY <1>0, WithLists
  <1> HIDE DEF stored
  <1>5. Kept(stored, [stored EXCEPT !.nextList = next]) /\ [stored EXCEPT !.nextList = next].frames = stored.frames
    <2>1. stored.nextRec \in 0 .. MaxRecs - 1
      BY <1>4 DEF Kept, Sound
    <2> QED
      BY <1>2, <1>4, <2>1, WithRings DEF Kept
  <1> QED
    BY <1>3, <1>4, <1>5, KeptTwice

LEMMA PushRecordKeeps ==
    ASSUME NEW n, Sound(n), NEW fields
    PROVE Kept(n, PushRecord(n, fields))
  <1>1. Kept(n, AllocRecords(n, fields, 1))
    BY AllocRecordsKeeps
  <1> QED
    BY <1>1, PushKeeps, KeptTwice DEF PushRecord, Kept

LEMMA WithEntriesKeeps ==
    ASSUME NEW n, Sound(n), NEW gives, NEW a, a.count \in Nat
    PROVE Kept(n, WithEntries(n, gives, a))
  <1>1. Items(a) \in Nat
    <2>1. MaxItems \in Nat
      BY VmLimits
    <2> QED
      BY <2>1 DEF Items
  <1>2. Kept(n, AllocRecords(n, FieldsOf(gives.entry, a), Items(a)))
    BY <1>1, AllocRecordsKeeps
  <1> QED
    BY <1>2, AllocListKeeps, KeptTwice DEF WithEntries, Kept

What == {"nothing", "bool", "text", "texts", "records", "record", "entry", "page", "lines", "item"}

LEMMA GiveKeeps ==
    ASSUME NEW n, Sound(n), NEW gives, gives.what \in What, NEW a, a.count \in Nat
    PROVE Kept(n, Give(n, gives, a))
  <1>1. \A v : Kept(n, Push(n, v))
    BY PushKeeps
  <1>2. \A items : Kept(n, AllocList(n, items)) /\ Sound(AllocList(n, items))
    BY AllocListKeeps DEF Kept
  <1>3. \A items, v : Kept(n, Push(AllocList(n, items), v))
    BY <1>2, PushKeeps, KeptTwice
  <1>4. \A items, fields : Kept(n, PushRecord(AllocList(n, items), fields))
    BY <1>2, PushRecordKeeps, KeptTwice
  <1>5. Kept(n, WithEntries(n, gives, a)) /\ Sound(WithEntries(n, gives, a))
    BY WithEntriesKeeps DEF Kept
  <1>6. /\ \A v : Kept(n, Push(WithEntries(n, gives, a), v))
        /\ \A fields : Kept(n, PushRecord(WithEntries(n, gives, a), fields))
    BY <1>5, PushKeeps, PushRecordKeeps, KeptTwice
  <1>7. (\A fields : Kept(n, PushRecord(n, fields))) /\ Kept(n, n)
    BY PushRecordKeeps, KeptSelf
  <1> QED
    BY <1>1, <1>3, <1>4, <1>6, <1>7 DEF Give, What

-----------------------------------------------------------------------------
(* Every builtin takes a number of operands and gives a value of some kind.*)
IsSig(sig) == Len(sig.pops) \in Nat /\ sig.gives.what \in What

LEMMA Shapes ==
    /\ \A pops : Len(pops) \in Nat => IsSig(Silent(pops))
    /\ \A pops, gives : Len(pops) \in Nat /\ gives.what \in What =>
           IsSig(Sig(pops, gives)) /\ IsSig(OfStrings(pops, gives))
  BY DEF IsSig, Silent, Sig, OfStrings, Nothing, Gives, What

LEMMA NotRefused ==
    ASSUME NEW pops, NEW gives, Len(pops) \in Nat, gives.what \in What
    PROVE IsSig([Sig(pops, gives) EXCEPT !.refuses = FALSE])
  BY DEF IsSig, Sig

LEMMA Results ==
    /\ Nothing.what \in What
    /\ \A what \in What : Plain(what).what \in What
    /\ \A shape : Record(shape).what \in What /\ Lines(shape).what \in What
    /\ \A shape, entry : Page(shape, entry).what \in What
    /\ \A what \in What : \A shape, entry : Gives(what, shape, entry).what \in What
  BY DEF Nothing, Plain, Record, Page, Lines, Gives, What

IsTable(table) == \A name \in DOMAIN table : IsSig(table[name])

LEMMA DisplayTable == IsTable(DisplayBuiltins)
  BY Shapes, Results DEF IsTable, DisplayBuiltins, Box

LEMMA HardwareTable == IsTable(HardwareBuiltins)
  BY Shapes, Results DEF IsTable, HardwareBuiltins, What

LEMMA AppTable == IsTable(AppBuiltins)
  <1>1. IsSig([Sig(<<"int", "list">>, Plain("item")) EXCEPT !.refuses = FALSE])
    <2>1. Plain("item").what \in What
      BY Results DEF What
    <2> QED
      BY <2>1, NotRefused
  <1>2. IsSig(AppBuiltins["app_armed_stack_get"])
    BY <1>1 DEF AppBuiltins
  <1>3. \A name \in {"app_launch", "app_arm", "app_disarm", "app_install", "app_install_metadata"} :
            IsSig(AppBuiltins[name])
    BY Shapes, Results DEF AppBuiltins
  <1>4. \A name \in {"app_registry_list", "app_registry_get", "app_process_stack",
                     "app_armed_stack"} : IsSig(AppBuiltins[name])
    BY Shapes, Results DEF AppBuiltins, What
  <1>5. DOMAIN AppBuiltins = {"app_launch", "app_arm", "app_disarm", "app_install",
            "app_install_metadata", "app_registry_list", "app_registry_get", "app_process_stack",
            "app_armed_stack", "app_armed_stack_get"}
    BY DEF AppBuiltins
  <1> QED
    BY <1>2, <1>3, <1>4, <1>5 DEF IsTable

LEMMA ServiceTable == IsTable(ServiceBuiltins)
  BY Shapes, Results DEF IsTable, ServiceBuiltins

LEMMA WifiTable == IsTable(WifiBuiltins)
  BY Shapes, Results DEF IsTable, WifiBuiltins

LEMMA ConfigTable == IsTable(DeviceConfigBuiltins)
  BY Shapes, Results DEF IsTable, DeviceConfigBuiltins

LEMMA ContentTable == IsTable(ContentBuiltins)
  BY Shapes, Results DEF IsTable, ContentBuiltins, What

LEMMA Signatures ==
    ASSUME NEW name \in BuiltinNames
    PROVE IsSig(Signature(name))
  <1>1. \A table \in BuiltinTables : IsTable(table)
    BY DisplayTable, HardwareTable, AppTable, ServiceTable, WifiTable, ConfigTable, ContentTable
       DEF BuiltinTables
  <1>2. \E table \in BuiltinTables : name \in DOMAIN table
    BY DEF BuiltinNames
  <1> QED
    BY <1>1, <1>2 DEF Signature, IsTable

LEMMA CallKeeps ==
    ASSUME NEW n, Sound(n), NEW name, NEW a, a.count \in Nat
    PROVE Kept(n, Call(n, name, a))
  <1>1. CASE name \notin BuiltinNames
    BY <1>1, WithFailed DEF Call
  <1>2. CASE name \in BuiltinNames
    <2> DEFINE sig == Signature(name)
               popped == Pop(n, sig.pops)
               texted == IF UsesText(sig.gives, a) THEN Intern(popped, a.text) ELSE popped
    <2>1. IsSig(sig)
      BY <1>2, Signatures
    <2>2. Kept(n, popped) /\ Sound(popped)
      BY <2>1, PopKeeps DEF IsSig, Kept
    <2>3. /\ Call(n, name, a) \in {popped, Fail(popped), texted, Give(texted, sig.gives, a)}
             \/ \E v : Call(n, name, a) = Push(popped, v)
      BY <1>2 DEF Call, Then
    <2> HIDE DEF sig, popped
    <2>4. Kept(popped, texted) /\ Sound(texted)
      BY <2>2, InternKeeps, KeptSelf DEF Kept
    <2> HIDE DEF texted
    <2>5. Kept(texted, Give(texted, sig.gives, a))
      BY <2>1, <2>4, GiveKeeps DEF IsSig
    <2>6. Kept(popped, Fail(popped)) /\ \A v : Kept(popped, Push(popped, v))
      BY <2>2, WithFailed, PushKeeps
    <2> QED
      BY <2>2, <2>3, <2>4, <2>5, <2>6, KeptTwice
  <1> QED
    BY <1>1, <1>2

-----------------------------------------------------------------------------
(* The instructions, one after the other.                                  *)
LEMMA Lengths ==
    /\ Len(<<"any">>) \in Nat /\ Len(<<"any", "any">>) \in Nat /\ Len(<<"literal">>) \in Nat
    /\ Len(<<"record">>) \in Nat /\ Len(<<"list">>) \in Nat /\ Len(<<"int", "list">>) \in Nat
  OBVIOUS

LEMMA ThenPush ==
    ASSUME NEW n, NEW p, Kept(n, p), NEW q,
           q \in {p, Fail(p)} \/ \E v : q = Push(p, v)
    PROVE Kept(n, q)
  <1>1. Kept(p, p) /\ Kept(p, Fail(p)) /\ \A v : Kept(p, Push(p, v))
    BY PushKeeps, WithFailed, KeptSelf DEF Kept
  <1>2. Kept(p, q)
    BY <1>1
  <1> QED
    BY <1>2, KeptTwice

LEMMA PlainKeeps ==
    ASSUME NEW n, Sound(n), NEW i, NEW name
    PROVE /\ Kept(n, GetState(n, i)) /\ Kept(n, GetLocal(n, i)) /\ Kept(n, GetField(n, name))
          /\ Kept(n, ListLen(n)) /\ Kept(n, ListGet(n)) /\ Kept(n, Binary(n, name))
  <1>1. Kept(n, n)
    BY KeptSelf
  <1>2. Kept(n, GetState(n, i)) /\ Kept(n, GetLocal(n, i))
    BY PushKeeps, WithFailed DEF GetState, GetLocal
  <1>3. Kept(n, GetField(n, name))
    <2> DEFINE popped == Pop(n, <<"record">>)
    <2>1. Kept(n, popped)
      BY PopKeeps, Lengths
    <2>2. GetField(n, name) \in {popped, Fail(popped)} \/ \E v : GetField(n, name) = Push(popped, v)
      BY DEF GetField
    <2> QED
      BY <2>1, <2>2, ThenPush
  <1>4. Kept(n, ListLen(n))
    <2> DEFINE popped == Pop(n, <<"list">>)
    <2>1. Kept(n, popped)
      BY PopKeeps, Lengths
    <2>2. ListLen(n) \in {popped, Fail(popped)} \/ \E v : ListLen(n) = Push(popped, v)
      BY DEF ListLen, Then
    <2> QED
      BY <2>1, <2>2, ThenPush
  <1>5. Kept(n, ListGet(n))
    <2> DEFINE popped == Pop(n, <<"int", "list">>)
    <2>1. Kept(n, popped)
      BY PopKeeps, Lengths
    <2>2. ListGet(n) \in {popped, Fail(popped)} \/ \E v : ListGet(n) = Push(popped, v)
      BY DEF ListGet
    <2> QED
      BY <2>1, <2>2, ThenPush
  <1>6. Kept(n, Binary(n, name))
    <2> DEFINE popped == Pop(n, <<"any", "any">>)
    <2>1. Kept(n, popped)
      BY PopKeeps, Lengths
    <2>2. Binary(n, name) \in {popped, Fail(popped)} \/ \E v : Binary(n, name) = Push(popped, v)
      BY DEF Binary
    <2> QED
      BY <2>1, <2>2, ThenPush
  <1> QED
    BY <1>2, <1>3, <1>4, <1>5, <1>6

LEMMA AddKeeps ==
    ASSUME NEW n, Sound(n)
    PROVE Kept(n, Add(n))
  <1> DEFINE popped == Pop(n, <<"any", "any">>)
             text == Arg(n, 2)[2] \o Arg(n, 1)[2]
             joined == Intern(popped, text)
  <1>1. Kept(n, popped)
    BY PopKeeps, Lengths
  <1>2. \/ Add(n) \in {popped, Fail(popped)} \/ \E v : Add(n) = Push(popped, v)
        \/ Add(n) \in {joined, Fail(joined)} \/ \E v : Add(n) = Push(joined, v)
    BY DEF Add, Then
  <1> HIDE DEF popped, text
  <1>3. Kept(n, joined)
    BY <1>1, InternKeeps, KeptTwice DEF Kept
  <1> QED
    BY <1>1, <1>2, <1>3, ThenPush

LEMMA SetStateKeeps ==
    ASSUME NEW n, Sound(n), NEW i
    PROVE Kept(n, SetState(n, i))
  <1> DEFINE popped == Pop(n, <<"any">>)
             v == Arg(n, 1)
             st == [popped.state EXCEPT ![i] = v]
  <1>1. Kept(n, popped)
    BY PopKeeps, Lengths
  <1>2. CASE popped.failed
    BY <1>1, <1>2 DEF SetState
  <1>3. CASE ~popped.failed /\ i \in DOMAIN n.state /\ Accepts(Image.slots[i], v)
    <2>1. SetState(n, i) = [popped EXCEPT !.state = st]
      BY <1>3 DEF SetState
    <2> HIDE DEF popped, v
    <2>2. StateOK(st)
      BY <1>1, <1>3 DEF Kept, Sound, StateOK
    <2> HIDE DEF st
    <2>3. Kept(popped, [popped EXCEPT !.state = st])
      BY <1>1, <2>2, WithState DEF Kept
    <2> QED
      BY <1>1, <2>1, <2>3, KeptTwice
  <1>4. CASE ~popped.failed /\ ~(i \in DOMAIN n.state /\ Accepts(Image.slots[i], v))
    <2>1. SetState(n, i) = Fail(popped)
      BY <1>4 DEF SetState
    <2> QED
      BY <1>1, <2>1, ThenPush
  <1> QED
    BY <1>2, <1>3, <1>4

LEMMA SetLocalKeeps ==
    ASSUME NEW n, Sound(n), n.frames # <<>>, NEW i
    PROVE Kept(n, SetLocal(n, i))
  <1> DEFINE popped == Pop(n, <<"any">>)
             v == Arg(n, 1)
             f == [Top(n) EXCEPT !.locals[i] = v]
             fs == [popped.frames EXCEPT ![Depth(n)] = f]
  <1>1. Kept(n, popped) /\ popped.frames = n.frames
    BY PopKeeps, Lengths
  <1>2. CASE popped.failed \/ i \notin 1 .. MaxLocals
    <2>1. SetLocal(n, i) = Fail(popped)
      BY <1>2 DEF SetLocal
    <2> QED
      BY <1>1, <2>1, ThenPush
  <1>3. CASE ~(popped.failed \/ i \notin 1 .. MaxLocals)
    <2>1. SetLocal(n, i) = [popped EXCEPT !.frames = fs]
      BY <1>1, <1>3 DEF SetLocal, Top, Depth
    <2> HIDE DEF popped, v
    <2>2. IsFrame(f, Depth(n))
      BY TopFacts DEF IsFrame
    <2> HIDE DEF f
    <2>3. FramesOK(fs)
      BY <1>1, <2>2, WithTop
    <2> HIDE DEF fs
    <2>4. Kept(popped, [popped EXCEPT !.frames = fs])
      BY <1>1, <2>3, WithFrames DEF Kept
    <2> QED
      BY <1>1, <2>1, <2>4, KeptTwice
  <1> QED
    BY <1>2, <1>3

LEMMA JumpKeeps ==
    ASSUME NEW n, Sound(n), n.frames # <<>>, NEW to \in Nat \ {0}
    PROVE Kept(n, Jump(n, to)) /\ Kept(n, JumpIfFalse(n, to))
  <1>1. ASSUME NEW p, Sound(p), p.frames # <<>>
        PROVE Kept(p, Jump(p, to))
    <2>1. CASE to > Len(Image.code[Top(p).chunk]) + 1
      BY <1>1, <2>1, WithFailed DEF Jump
    <2>2. CASE ~(to > Len(Image.code[Top(p).chunk]) + 1)
      <3>1. to \in 1 .. Len(Image.code[Top(p).chunk]) + 1
        BY <1>1, <2>2, TopFacts
      <3> QED
        BY <1>1, <2>2, <3>1, GoToKeeps DEF Jump
    <2> QED
      BY <2>1, <2>2
  <1> DEFINE popped == Pop(n, <<"any">>)
  <1>2. Kept(n, popped) /\ popped.frames = n.frames
    BY PopKeeps, Lengths
  <1>3. JumpIfFalse(n, to) \in {popped, Jump(popped, to)}
    BY DEF JumpIfFalse
  <1> HIDE DEF popped
  <1>4. Kept(popped, Jump(popped, to))
    BY <1>1, <1>2 DEF Kept
  <1> QED
    BY <1>1, <1>2, <1>3, <1>4, KeptTwice

LEMMA ReturnKeeps ==
    ASSUME NEW n, Sound(n), n.frames # <<>>
    PROVE Kept(n, Return(n))
  <1> DEFINE popped == Pop(n, <<"any">>)
  <1>1. Kept(n, popped) /\ popped.frames = n.frames
    BY PopKeeps, Lengths
  <1>2. Return(n) \in {popped, CompleteFrame(popped, Arg(n, 1))}
    BY DEF Return, Then
  <1> HIDE DEF popped
  <1>3. Kept(popped, CompleteFrame(popped, Arg(n, 1)))
    BY <1>1, CompleteFrameKeeps DEF Kept
  <1> QED
    BY <1>1, <1>2, <1>3, KeptTwice

LEMMA OtherKeeps ==
    ASSUME NEW n, Sound(n), NEW a
    PROVE /\ Kept(n, AppExit(n, a)) /\ Kept(n, Pop(n, <<"any">>))
          /\ \A k \in Nat : Kept(n, DebugPrint(n, k))
  <1>1. Kept(n, [n EXCEPT !.exited = TRUE])
    BY WithOther
  <1>2. Kept(n, Fail(n))
    BY WithFailed
  <1>3. Kept(n, AppExit(n, a))
    BY <1>1, <1>2 DEF AppExit
  <1>4. ASSUME NEW k \in Nat PROVE Kept(n, DebugPrint(n, k))
    <2>1. Len(n.stack) \in Nat
      BY Ranged DEF Sound, StackOK
    <2>2. CASE k > Len(n.stack)
      BY <1>2, <2>2 DEF DebugPrint
    <2>3. CASE ~(k > Len(n.stack))
      <3>1. k <= Len(n.stack)
        BY <2>1, <2>3
      <3>2. Kept(n, Drop(n, k))
        BY <3>1, DropKeeps
      <3> QED
        BY <2>3, <3>2 DEF DebugPrint
    <2> QED
      BY <2>2, <2>3
  <1> QED
    BY <1>3, <1>4, PopKeeps, Lengths

(* A screen or a function that is entered has code.                        *)
LEMMA TargetHasCode ==
    ASSUME NEW n, NEW ins, Enters(n, ins)
    PROVE Target(n, ins) \in DOMAIN Image.code
  <1>1. CASE ins.op = "ScreenOpen"
    <2>1. Target(n, ins) = <<"screen", Arg(n, 1)[2]>> /\ Arg(n, 1)[2] \in Image.screens
      BY <1>1 DEF Enters, Target
    <2> QED
      BY <2>1, ImageAssumption
  <1>2. CASE ins.op = "ScreenRefresh"
    <2>1. Target(n, ins) = <<"screen", n.screen[2]>> /\ n.screen[2] \in Image.screens
      BY <1>2 DEF Enters, Target
    <2> QED
      BY <2>1, ImageAssumption
  <1>3. CASE ins.op = "CallFunction"
    <2>1. Target(n, ins) = <<"function", ins.v>> /\ ins.v \in DOMAIN Image.functions
      BY <1>3 DEF Enters, Target
    <2> QED
      BY <2>1, ImageAssumption
  <1> QED
    BY <1>1, <1>2, <1>3 DEF Enters

LEMMA NextDepth ==
    ASSUME NEW n, Sound(n), n.frames # <<>>
    PROVE Top(n).depth + 1 = Depth(n)
  BY TopFacts DEF IsFrame

LEMMA ScreenKeeps ==
    ASSUME NEW n, Sound(n), n.frames # <<>>, NEW ins
    PROVE Kept(n, OpenScreen(n, ins)) /\ Kept(n, RefreshScreen(n, ins))
  <1> DEFINE depth == Top(n).depth + 1
             popped == Pop(n, <<"literal">>)
             current == [popped EXCEPT !.screen = Arg(n, 1)]
  <1>1. depth = Depth(n)
    BY NextDepth
  <1>2. Kept(n, RefreshScreen(n, ins))
    <2>1. CASE ~Enters(n, ins)
      BY <2>1, WithFailed DEF RefreshScreen
    <2>2. CASE Enters(n, ins)
      <3>1. Kept(n, PushFrame(n, Target(n, ins), depth))
        BY <1>1, <2>2, TargetHasCode, PushFrameKeeps
      <3> QED
        BY <2>2, <3>1 DEF RefreshScreen
    <2> QED
      BY <2>1, <2>2
  <1>3. Kept(n, popped) /\ popped.frames = n.frames
    BY PopKeeps, Lengths
  <1>4. OpenScreen(n, ins) = IF popped.failed THEN popped
                             ELSE IF ~Enters(n, ins) THEN Fail(current)
                             ELSE PushFrame(current, Target(n, ins), depth)
    BY DEF OpenScreen
  <1> HIDE DEF popped, depth
  <1>5. Kept(popped, current) /\ current.frames = popped.frames
    BY <1>3, WithOther DEF Kept
  <1> HIDE DEF current
  <1>6. Sound(current)
    BY <1>5 DEF Kept
  <1>7. Kept(current, Fail(current))
    BY <1>6, WithFailed
  <1>8. Enters(n, ins) => Kept(current, PushFrame(current, Target(n, ins), depth))
    <2>1. depth = Depth(current)
      BY <1>1, <1>3, <1>5 DEF Depth
    <2> QED
      BY <1>6, <2>1, TargetHasCode, PushFrameKeeps
  <1>9. Kept(n, OpenScreen(n, ins))
    BY <1>3, <1>4, <1>5, <1>7, <1>8, KeptTwice
  <1> QED
    BY <1>2, <1>9

LEMMA CallFunctionKeeps ==
    ASSUME NEW n, Sound(n), n.frames # <<>>, NEW ins, ins.op = "CallFunction"
    PROVE Kept(n, CallFunction(n, ins))
  <1> DEFINE depth == Top(n).depth + 1
             entered == PushFrame(n, Target(n, ins), depth)
             args == SubSeq(n.stack, Len(n.stack) - ins.n + 1, Len(n.stack))
             locals == [i \in 1 .. MaxLocals |-> IF i <= ins.n THEN args[i] ELSE Null]
             f == [Top(entered) EXCEPT !.locals = locals]
             filled == SetTop(entered, f)
  <1>1. CASE ~Enters(n, ins) \/ entered.failed
    <2>1. CallFunction(n, ins) = Fail(n)
      BY <1>1 DEF CallFunction
    <2> QED
      BY <2>1, WithFailed
  <1>2. CASE ~(~Enters(n, ins) \/ entered.failed)
    <2>1. CallFunction(n, ins) = Drop(filled, ins.n)
      BY <1>2 DEF CallFunction
    <2>2. ins.n \in Nat /\ ins.n <= Len(n.stack)
      <3>1. ins.v \in DOMAIN Image.functions /\ ins.n = Image.functions[ins.v].params
            /\ ins.n <= Len(n.stack)
        BY <1>2 DEF Enters
      <3> QED
        BY <3>1, ImageAssumption
    <2> HIDE DEF locals
    <2>3. Kept(n, entered) /\ entered.frames # <<>> /\ entered.stack = n.stack
      <3>1. depth = Depth(n) /\ Target(n, ins) \in DOMAIN Image.code
        BY <1>2, NextDepth, TargetHasCode
      <3> HIDE DEF depth
      <3> QED
        BY <1>2, <3>1, PushFrameKeeps
    <2> HIDE DEF entered
    <2>4. IsFrame(f, Depth(entered))
      <3>1. IsFrame(Top(entered), Depth(entered))
        BY <2>3, TopFacts DEF Kept
      <3> QED
        BY <3>1 DEF IsFrame
    <2>5. filled = [entered EXCEPT !.frames = [entered.frames EXCEPT ![Depth(entered)] = f]]
      BY DEF SetTop
    <2> HIDE DEF f
    <2>6. FramesOK([entered.frames EXCEPT ![Depth(entered)] = f])
      BY <2>3, <2>4, WithTop DEF Kept
    <2>7. Kept(entered, filled) /\ filled.stack = entered.stack
      BY <2>3, <2>5, <2>6, WithFrames DEF Kept
    <2> HIDE DEF filled
    <2>8. Kept(filled, Drop(filled, ins.n))
      BY <2>2, <2>3, <2>7, DropKeeps DEF Kept
    <2> QED
      BY <2>1, <2>3, <2>7, <2>8, KeptTwice
  <1> QED
    BY <1>1, <1>2

(* Whatever an instruction does, the machine stays sound.                  *)
CanRun(ins) ==
    /\ ins.op \in {"Jump", "JumpIfFalse"} => ins.v \in Nat \ {0}
    /\ ins.op = "DebugPrint" => ins.v \in Nat

LEMMA ExecuteKeeps ==
    ASSUME NEW n, Sound(n), n.frames # <<>>, NEW ins, CanRun(ins), NEW a, a.count \in Nat
    PROVE Kept(n, Execute(n, ins, a))
  <1>1. CASE ins.op \in {"Push", "GetState", "GetLocal", "GetField", "ListLen", "ListGet", "Binary"}
    BY <1>1, PushKeeps, PlainKeeps DEF Execute
  <1>2. CASE ins.op \in {"SetState", "SetLocal", "Add", "Call"}
    BY <1>2, SetStateKeeps, SetLocalKeeps, AddKeeps, CallKeeps DEF Execute
  <1>3. CASE ins.op \in {"Jump", "JumpIfFalse"}
    <2>1. Kept(n, Jump(n, ins.v)) /\ Kept(n, JumpIfFalse(n, ins.v))
      BY <1>3, JumpKeeps DEF CanRun
    <2> QED
      BY <1>3, <2>1 DEF Execute
  <1>4. CASE ins.op \in {"AppExit", "DebugPrint", "Pop"}
    BY <1>4, OtherKeeps DEF Execute, CanRun
  <1>5. CASE ins.op \in {"ScreenOpen", "ScreenRefresh"}
    BY <1>5, ScreenKeeps DEF Execute
  <1>6. CASE ins.op \in {"CallFunction", "Return", "Halt"}
    BY <1>6, CallFunctionKeeps, ReturnKeeps, CompleteFrameKeeps DEF Execute
  <1>7. CASE ins.op \notin {"Push", "GetState", "GetLocal", "GetField", "ListLen", "ListGet", "Binary",
                           "SetState", "SetLocal", "Add", "Call", "Jump", "JumpIfFalse", "AppExit",
                           "DebugPrint", "Pop", "ScreenOpen", "ScreenRefresh", "CallFunction",
                           "Return", "Halt"}
    <2>1. Execute(n, ins, a) = Fail(n)
      BY <1>7 DEF Execute
    <2> QED
      BY <2>1, WithFailed
  <1> QED
    BY <1>1, <1>2, <1>3, <1>4, <1>5, <1>6, <1>7

-----------------------------------------------------------------------------
(* A record is applied entry by entry: a slot with the entry's name then   *)
(* holds its value, the others keep theirs.                                *)
Applies(n, e, p) ==
    \A i \in DOMAIN Image.slots :
        IF Image.slots[i].name = e.name THEN Entry(i, p.state) = e ELSE p.state[i] = n.state[i]
EntryDone(n, e, p) ==
    /\ Kept(n, p) /\ p.frames = n.frames
    /\ p.failed = FALSE => n.failed = FALSE /\ Applies(n, e, p)

LEMMA FailedDone ==
    ASSUME NEW n, NEW e, NEW q, Kept(n, q), q.frames = n.frames
    PROVE EntryDone(n, e, Fail(q))
  <1>1. Kept(q, Fail(q)) /\ Fail(q).failed = TRUE
    BY WithFailed DEF Kept
  <1>2. Fail(q).frames = q.frames
    BY DEF Kept, Sound, Fail, Fields
  <1> QED
    BY <1>1, <1>2, KeptTwice DEF EntryDone

LEMMA EntryReads ==
    ASSUME NEW e, IsEntry(e), Readable(e), NEW i \in DOMAIN Image.slots,
           Image.slots[i].name = e.name, Image.slots[i].type = e.type,
           Image.slots[i].nullable = e.nullable, NEW st,
           st[i] = IF e.value[1] = "text" THEN TextVal(e.value[2]) ELSE e.value
    PROVE Accepts(Image.slots[i], st[i]) /\ Entry(i, st) = e
  <1>1. Image.slots[i].type \in {"int", "bool", "string"}
    BY ImageAssumption
  <1>2. e.value[1] = "text" => e.value = <<"text", e.value[2]>>
    BY DEF IsEntry
  <1>3. CASE e.value[1] = "text"
    <2>1. st[i] = TextVal(e.value[2]) /\ IsString(st[i]) /\ st[i][2] = e.value[2] /\ st[i] # Null
      BY <1>3 DEF TextVal, IsString, Type, Null
    <2>2. e.type = "string"
      BY <1>1, <1>3 DEF Readable, Null
    <2>3. Accepts(Image.slots[i], st[i])
      BY <2>1, <2>2 DEF Accepts, IsString
    <2>4. e.value = <<"text", e.value[2]>>
      BY <1>2, <1>3
    <2>5. Entry(i, st) = e
      BY <2>1, <2>4 DEF Entry, IsEntry
    <2> QED
      BY <2>3, <2>5
  <1>4. CASE e.value[1] # "text"
    <2>1. st[i] = e.value /\ ~IsString(st[i])
      BY <1>4 DEF IsString, Type, IsEntry
    <2>2. Accepts(Image.slots[i], st[i])
      BY <1>1, <1>4, <2>1 DEF Accepts, Readable, Type, IsEntry
    <2>3. Entry(i, st) = e
      BY <2>1 DEF Entry, IsEntry
    <2> QED
      BY <2>2, <2>3
  <1> QED
    BY <1>3, <1>4

LEMMA ApplyEntryDone ==
    ASSUME NEW n, Sound(n), NEW e, IsEntry(e)
    PROVE EntryDone(n, e, ApplyEntry(n, e))
  <1> DEFINE i == CHOOSE j \in SlotsNamed(e.name) : \A k \in SlotsNamed(e.name) : j <= k
             texted == IF e.value[1] = "text" THEN Intern(n, e.value[2]) ELSE n
             v == IF e.value[1] = "text" THEN TextVal(e.value[2]) ELSE e.value
             st == [texted.state EXCEPT ![i] = v]
             stored == [texted EXCEPT !.state = st]
  <1>1. ApplyEntry(n, e) =
            IF n.failed \/ ~Readable(e) THEN Fail(n)
            ELSE IF SlotsNamed(e.name) = {} THEN n
            ELSE IF Image.slots[i].type # e.type \/ Image.slots[i].nullable # e.nullable THEN Fail(n)
            ELSE IF texted.failed THEN texted ELSE stored
    BY DEF ApplyEntry, Then
  <1>2. Kept(n, n) /\ EntryDone(n, e, Fail(n))
    BY KeptSelf, FailedDone
  <1>3. n.failed \in BOOLEAN
    BY DEF Sound
  <1>4. CASE n.failed = FALSE /\ SlotsNamed(e.name) = {}
    <2>1. Applies(n, e, n)
      BY <1>4 DEF Applies, SlotsNamed
    <2> QED
      BY <1>1, <1>2, <1>4, <2>1 DEF EntryDone
  <1>5. CASE /\ n.failed = FALSE /\ Readable(e) /\ SlotsNamed(e.name) # {}
             /\ Image.slots[i].type = e.type /\ Image.slots[i].nullable = e.nullable
    <2>1. i \in DOMAIN Image.slots /\ Image.slots[i].name = e.name
          /\ \A j \in DOMAIN Image.slots : Image.slots[j].name = e.name => j = i
      <3>1. PICK j \in DOMAIN Image.slots : Image.slots[j].name = e.name
        BY <1>5 DEF SlotsNamed
      <3>2. SlotsNamed(e.name) = {j}
        BY <3>1, ImageAssumption DEF SlotsNamed
      <3>3. j <= j
        BY <3>1, ImageAssumption DEF IsSeq
      <3>4. i = j
        BY <3>2, <3>3
      <3>5. \A k \in DOMAIN Image.slots : Image.slots[k].name = e.name => k = j
        BY <3>2 DEF SlotsNamed
      <3> HIDE DEF i
      <3> QED
        BY <3>1, <3>4, <3>5
    <2>2. Kept(n, texted) /\ texted.frames = n.frames
      BY <1>2, InternKeeps
    <2>3. texted.state = n.state
      <3>1. \A t : Intern(n, t).state = n.state
        BY DEF Intern, Fail, Sound, Fields
      <3> QED
        BY <3>1
    <2>4. ApplyEntry(n, e) = IF texted.failed THEN texted ELSE stored
      BY <1>1, <1>5
    <2> HIDE DEF i, texted
    <2>5. DOMAIN n.state = DOMAIN Image.slots /\ \A j \in DOMAIN n.state : Accepts(Image.slots[j], n.state[j])
      BY DEF Sound, StateOK
    <2>6. st[i] = v /\ DOMAIN st = DOMAIN Image.slots
          /\ \A j \in DOMAIN Image.slots : j # i => st[j] = n.state[j]
      BY <2>1, <2>3, <2>5
    <2> HIDE DEF st
    <2>7. Accepts(Image.slots[i], st[i]) /\ Entry(i, st) = e
      BY <1>5, <2>1, <2>6, EntryReads
    <2>8. StateOK(st)
      BY <2>5, <2>6, <2>7 DEF StateOK
    <2>9. Kept(texted, stored) /\ stored.state = st /\ stored.frames = texted.frames
      BY <2>2, <2>8, WithState DEF Kept
    <2> HIDE DEF stored
    <2>10. Applies(n, e, stored)
      BY <2>1, <2>6, <2>7, <2>9 DEF Applies, Entry
    <2>11. Kept(n, stored)
      BY <2>2, <2>9, KeptTwice
    <2>12. texted.failed \in BOOLEAN
      BY <2>2 DEF Kept, Sound
    <2>13. CASE texted.failed = TRUE
      BY <2>2, <2>4, <2>13 DEF EntryDone
    <2>14. CASE texted.failed = FALSE
      BY <1>5, <2>2, <2>4, <2>9, <2>10, <2>11, <2>14 DEF EntryDone
    <2> QED
      BY <2>12, <2>13, <2>14
  <1> HIDE DEF i, texted, stored
  <1> QED
    BY <1>1, <1>2, <1>3, <1>4, <1>5

(* The fold over the entries of a record is a run of machines, each from   *)
(* the one before.                                                         *)
LEMMA GreatestIndex ==
    ASSUME NEW n \in Nat, NEW s \in SUBSET (1 .. n), s # {}
    PROVE Max(s) \in s /\ \A i \in s : i <= Max(s)
  <1> DEFINE T == {k \in Nat : \A i \in s : i <= k}
  <1>1. PICK k \in T : \A j \in T : ~(j < k)
    <2>1. n \in T
      OBVIOUS
    <2> QED
      BY <2>1, LeastNumber
  <1>2. k \in s
    <2> SUFFICES ASSUME k \notin s PROVE FALSE
      OBVIOUS
    <2>1. PICK i \in s : i \in 1 .. n /\ i <= k
      BY <1>1
    <2>2. k - 1 \in Nat /\ \A j \in s : j <= k - 1
      BY <1>1, <2>1
    <2> QED
      BY <1>1, <2>2
  <1>3. \E x \in s : \A y \in s : x >= y
    BY <1>1, <1>2
  <1>4. Max(s) \in s /\ \A y \in s : Max(s) >= y
    BY <1>3 DEF Max
  <1> QED
    BY <1>4

Folds(f, n, es, k) ==
    f = [s \in SUBSET (1 .. k) |-> IF s = {} THEN n ELSE ApplyEntry(f[s \ {Max(s)}], es[Max(s)])]

LEMMA FoldExists ==
    ASSUME NEW n, NEW es, NEW k \in Nat
    PROVE \E f : Folds(f, n, es, k)
  <1> DEFINE T == {j \in Nat : ~\E f : Folds(f, n, es, j)}
  <1> SUFFICES ASSUME T # {} PROVE FALSE
    OBVIOUS
  <1>1. PICK l \in T : \A j \in T : ~(j < l)
    BY LeastNumber
  <1>2. CASE l = 0
    <2>1. SUBSET (1 .. l) = {{}}
      BY <1>2
    <2>2. Folds([s \in {{}} |-> n], n, es, l)
      BY <2>1 DEF Folds
    <2> QED
      BY <1>1, <2>2
  <1>3. CASE l > 0
    <2>1. l - 1 \in Nat /\ l - 1 < l
      BY <1>3
    <2>2. PICK f : Folds(f, n, es, l - 1)
      BY <1>1, <2>1
    <2> DEFINE g == [s \in SUBSET (1 .. l) |-> IF l \in s THEN ApplyEntry(f[s \ {l}], es[l]) ELSE f[s]]
    <2>3. ASSUME NEW s \in SUBSET (1 .. l)
          PROVE g[s] = IF s = {} THEN n ELSE ApplyEntry(g[s \ {Max(s)}], es[Max(s)])
      <3>1. CASE l \in s
        <4>1. Max(s) = l
          <5>1. Max(s) \in s /\ l <= Max(s)
            BY <3>1, GreatestIndex
          <5>2. Max(s) \in 1 .. l /\ l \in Nat
            BY <5>1
          <5> QED
            BY <5>1, <5>2
        <4>2. s \ {l} \in SUBSET (1 .. l) /\ l \notin s \ {l}
          OBVIOUS
        <4>3. g[s \ {l}] = f[s \ {l}]
          BY <4>2
        <4>4. g[s] = ApplyEntry(f[s \ {l}], es[l])
          BY <3>1
        <4> QED
          BY <3>1, <4>1, <4>3, <4>4
      <3>2. CASE l \notin s
        <4>1. s \in SUBSET (1 .. (l - 1))
          BY <3>2
        <4>2. f[s] = IF s = {} THEN n ELSE ApplyEntry(f[s \ {Max(s)}], es[Max(s)])
          BY <2>2, <4>1 DEF Folds
        <4>3. s \ {Max(s)} \in SUBSET (1 .. l) /\ l \notin s \ {Max(s)}
          BY <3>2
        <4>4. g[s] = f[s] /\ g[s \ {Max(s)}] = f[s \ {Max(s)}]
          BY <3>2, <4>3
        <4> QED
          BY <4>2, <4>4
      <3> QED
        BY <3>1, <3>2
    <2>4. Folds(g, n, es, l)
      <3> HIDE DEF g
      <3>1. g = [s \in SUBSET (1 .. l) |-> g[s]]
        BY DEF g
      <3> QED
        BY <2>3, <3>1 DEF Folds
    <2> QED
      BY <1>1, <2>4
  <1> QED
    BY <1>2, <1>3

RunOf(run, n, es) ==
    run[0] = n /\ \A i \in 1 .. Len(es) : run[i] = ApplyEntry(run[i - 1], es[i])

Folded(n, es) == FoldLeft(ApplyEntry, n, es)

LEMMA EntriesRun ==
    ASSUME NEW n, NEW es, IsSeq(es)
    PROVE \E run : RunOf(run, n, es) /\ Folded(n, es) = run[Len(es)]
  <1> DEFINE k == Len(es)
             f == CHOOSE g : Folds(g, n, es, k)
             run == [i \in 0 .. k |-> f[1 .. i]]
  <1>0. k \in Nat /\ DOMAIN es = 1 .. k
    BY DEF IsSeq
  <1>1. Folds(f, n, es, k)
    BY <1>0, FoldExists
  <1>2. Folded(n, es) = f[1 .. k]
    BY <1>0 DEF Folded, FoldLeft, MapThenFoldSet, Folds
  <1> HIDE DEF f
  <1>3. run[0] = n
    <2>1. 1 .. 0 = {} /\ {} \in SUBSET (1 .. k) /\ 0 \in 0 .. k
      BY <1>0
    <2> QED
      BY <1>1, <2>1 DEF Folds
  <1>4. ASSUME NEW i \in 1 .. k PROVE run[i] = ApplyEntry(run[i - 1], es[i])
    <2>0. i \in Nat /\ i <= k /\ i \in 1 .. i
      BY <1>0
    <2>1. 1 .. i \in SUBSET (1 .. k) /\ 1 .. i # {} /\ i \in Nat /\ i \in 1 .. i
      <3>1. \A j \in 1 .. i : j \in 1 .. k
        BY <1>0, <2>0
      <3> QED
        BY <2>0, <3>1
    <2>2. Max(1 .. i) = i
      <3>1. Max(1 .. i) \in 1 .. i /\ i <= Max(1 .. i)
        BY <2>1, GreatestIndex
      <3> QED
        BY <3>1
    <2>3. (1 .. i) \ {i} = 1 .. (i - 1)
      BY <2>1
    <2>4. f[1 .. i] = ApplyEntry(f[1 .. (i - 1)], es[i])
      BY <1>1, <2>1, <2>2, <2>3 DEF Folds
    <2>5. i \in 0 .. k /\ i - 1 \in 0 .. k
      BY <1>0
    <2> QED
      BY <2>4, <2>5
  <1>5. run[k] = f[1 .. k]
    BY <1>0
  <1> QED
    BY <1>2, <1>3, <1>4, <1>5 DEF RunOf

(* After k entries without a failure, a slot holds the value of the last   *)
(* of them that has its name, and what it held before if there is none.    *)
Loaded(n, es, p, k) ==
    \A i \in DOMAIN Image.slots :
        IF \E j \in 1 .. k : es[j].name = Image.slots[i].name
        THEN \E j \in 1 .. k : es[j].name = Image.slots[i].name /\ Entry(i, p.state) = es[j]
        ELSE p.state[i] = n.state[i]
RunDone(n, es, p, k) ==
    Kept(n, p) /\ p.frames = n.frames /\ (p.failed = FALSE => Loaded(n, es, p, k))

LEMMA RunLoads ==
    ASSUME NEW n, Sound(n), NEW es, IsSeq(es), \A i \in DOMAIN es : IsEntry(es[i]),
           NEW run, RunOf(run, n, es), NEW k \in 0 .. Len(es)
    PROVE RunDone(n, es, run[k], k)
  <1> DEFINE T == {l \in 0 .. Len(es) : ~RunDone(n, es, run[l], l)}
  <1>0. Len(es) \in Nat /\ DOMAIN es = 1 .. Len(es)
    BY DEF IsSeq
  <1> SUFFICES ASSUME T # {} PROVE FALSE
    OBVIOUS
  <1>1. T \in SUBSET Nat
    BY <1>0
  <1>2. PICK l \in T : \A j \in T : ~(j < l)
    <2> HIDE DEF T
    <2> QED
      BY <1>1, LeastNumber
  <1>3. CASE l = 0
    <2>1. run[0] = n
      BY DEF RunOf
    <2>2. Loaded(n, es, n, 0)
      <3>1. \A j \in 1 .. 0 : FALSE
        OBVIOUS
      <3> QED
        BY <3>1 DEF Loaded
    <2> QED
      BY <1>2, <1>3, <2>1, <2>2, KeptSelf DEF RunDone
  <1>4. CASE l # 0
    <2> DEFINE p == run[l - 1]
               q == run[l]
    <2>1. l \in 1 .. Len(es) /\ l - 1 \in 0 .. Len(es) /\ l - 1 < l /\ l \in Nat
      BY <1>0, <1>2, <1>4
    <2>2. RunDone(n, es, p, l - 1)
      BY <1>2, <2>1
    <2>3. q = ApplyEntry(p, es[l])
      BY <2>1 DEF RunOf
    <2> HIDE DEF p, q
    <2>4. EntryDone(p, es[l], q)
      BY <1>0, <2>1, <2>2, <2>3, ApplyEntryDone DEF RunDone, Kept
    <2>5. Kept(n, q) /\ q.frames = n.frames
      BY <2>2, <2>4, KeptTwice DEF RunDone, EntryDone
    <2>6. ASSUME q.failed = FALSE PROVE Loaded(n, es, q, l)
      <3>1. Applies(p, es[l], q) /\ Loaded(n, es, p, l - 1)
        BY <2>2, <2>4, <2>6 DEF RunDone, EntryDone
      <3>2. \A j : j \in 1 .. l <=> j = l \/ j \in 1 .. l - 1
        BY <2>1
      <3>3. ASSUME NEW i \in DOMAIN Image.slots
            PROVE IF \E j \in 1 .. l : es[j].name = Image.slots[i].name
                  THEN \E j \in 1 .. l : es[j].name = Image.slots[i].name /\ Entry(i, q.state) = es[j]
                  ELSE q.state[i] = n.state[i]
        <4>1. CASE Image.slots[i].name = es[l].name
          <5>1. Entry(i, q.state) = es[l]
            BY <3>1, <4>1 DEF Applies
          <5> QED
            BY <3>2, <4>1, <5>1
        <4>2. CASE Image.slots[i].name # es[l].name
          <5>1. q.state[i] = p.state[i]
            BY <3>1, <4>2 DEF Applies
          <5>2. Entry(i, q.state) = Entry(i, p.state)
            BY <5>1 DEF Entry
          <5> QED
            BY <3>1, <3>2, <4>2, <5>1, <5>2 DEF Loaded
        <4> QED
          BY <4>1, <4>2
      <3> QED
        BY <3>3 DEF Loaded
    <2>7. RunDone(n, es, q, l)
      BY <2>5, <2>6 DEF RunDone
    <2> QED
      BY <1>2, <2>7 DEF q
  <1> QED
    BY <1>3, <1>4

LEMMA FoldLoads ==
    ASSUME NEW n, Sound(n), NEW es, IsSeq(es), \A i \in DOMAIN es : IsEntry(es[i])
    PROVE RunDone(n, es, Folded(n, es), Len(es))
  <1>1. PICK run : RunOf(run, n, es) /\ Folded(n, es) = run[Len(es)]
    BY EntriesRun
  <1>2. Len(es) \in 0 .. Len(es)
    BY DEF IsSeq
  <1> QED
    BY <1>1, <1>2, RunLoads

LEMMA RecordLoads ==
    ASSUME Sound(m), NEW rec, IsRecord(rec)
    PROVE /\ Kept(m, ApplyRecord(rec)) /\ ApplyRecord(rec).frames = m.frames
          /\ ApplyRecord(rec).failed = FALSE => Loaded(m, rec.entries, ApplyRecord(rec), Len(rec.entries))
  <1> DEFINE p == Folded(m, rec.entries)
  <1>1. RunDone(m, rec.entries, p, Len(rec.entries))
    BY FoldLoads DEF IsRecord
  <1>2. ApplyRecord(rec) = IF rec.ok THEN p ELSE Fail(p)
    BY DEF ApplyRecord, Folded
  <1> HIDE DEF p
  <1>3. Kept(p, Fail(p)) /\ Fail(p).failed = TRUE
    BY <1>1, WithFailed DEF RunDone, Kept
  <1>4. Fail(p).frames = p.frames
    BY <1>1 DEF RunDone, Kept, Sound, Fail, Fields
  <1> QED
    BY <1>1, <1>2, <1>3, <1>4, KeptTwice DEF RunDone

-----------------------------------------------------------------------------
(* The inductive invariant: a sound machine that, while it runs or waits,  *)
(* has a frame, has not failed and has instructions left; a record that    *)
(* can be read; a buffer that is what it is marked as; and a host that is  *)
(* asked for code only by a frame that runs some.                          *)
AppInv ==
    /\ Sound(m) /\ m.count \in 0 .. MaxInstr + 1
    /\ phase \in {"idle", "run", "load", "save", "reset"}
    /\ phase # "idle" => m.frames # <<>> /\ m.failed = FALSE /\ m.count <= MaxInstr
    /\ IsRecord(saved)
AskedInv == asked \in BOOLEAN /\ (asked => phase = "run" /\ ~AtEnd(m))
VmInv == AppInv /\ AskedInv /\ Marked

LEMMA SlotsAre ==
    /\ DOMAIN Image.slots = 1 .. Len(Image.slots) /\ Len(Image.slots) \in Nat
    /\ \A i \in DOMAIN Image.slots : Accepts(Image.slots[i], Image.slots[i].default)
  BY ImageAssumption DEF IsSeq

LEMMA FreshSound == Sound(Fresh) /\ Fresh.count = 0
  <1>1. StateOK(Fresh.state)
    BY SlotsAre DEF Fresh, StateOK
  <1>2. StackOK(Fresh.stack) /\ FramesOK(Fresh.frames)
    <2>1. <<>> \in Seq(ToSet(<<>>)) /\ Len(<<>>) = 0
      BY EmptySeq
    <2>2. \A i \in 1 .. 0 : FALSE
      OBVIOUS
    <2>3. StackOK(<<>>) /\ FramesOK(<<>>)
      BY <2>1, <2>2, Numbers DEF StackOK, FramesOK
    <2> QED
      BY <2>3 DEF Fresh
  <1>3. DOMAIN Fresh = Fields /\ Fresh.nextRec = 0 /\ Fresh.nextList = 0 /\ Fresh.failed = FALSE
        /\ Fresh.count = 0 /\ DOMAIN Fresh.lists = 0 .. MaxLists - 1
    BY DEF Fresh, Fields
  <1>4. 0 \in 0 .. MaxRecs - 1 /\ 0 \in 0 .. MaxLists - 1 /\ FALSE \in BOOLEAN
    BY Numbers
  <1> QED
    BY <1>1, <1>2, <1>3, <1>4 DEF Sound

LEMMA SavedIsRecord ==
    ASSUME NEW st, StateOK(st)
    PROVE IsRecord(SavedRecord(st))
  <1> DEFINE es == SavedRecord(st).entries
  <1>1. es = [i \in 1 .. Len(Image.slots) |-> Entry(i, st)]
    BY SlotsAre DEF SavedRecord, StateOK
  <1>2. IsSeq(es)
    <2> DEFINE S == {Entry(i, st) : i \in 1 .. Len(Image.slots)}
    <2>1. es \in [1 .. Len(Image.slots) -> S]
      BY <1>1
    <2>2. es \in Seq(S)
      BY <2>1, SlotsAre, SeqDef
    <2> HIDE DEF es, S
    <2> QED
      BY <2>2, LenProperties DEF IsSeq
  <1>3. ASSUME NEW i \in DOMAIN es PROVE IsEntry(es[i])
    <2>1. i \in DOMAIN Image.slots /\ es[i] = Entry(i, st) /\ Accepts(Image.slots[i], st[i])
      BY <1>1, SlotsAre DEF StateOK
    <2>2. Image.slots[i].type \in {"int", "bool", "string"}
      BY <2>1, ImageAssumption
    <2>3. IsEntry(Entry(i, st))
      <3>1. CASE IsString(st[i])
        BY <3>1 DEF IsEntry, Entry
      <3>2. CASE ~IsString(st[i])
        <4>1. st[i][1] \in {"null", "int", "bool"}
          BY <2>1, <2>2, <3>2 DEF Accepts, Null, Type, IsString
        <4>2. Entry(i, st).value = st[i]
          BY <3>2 DEF Entry
        <4> QED
          BY <4>1, <4>2 DEF IsEntry, Entry
      <3> QED
        BY <3>1, <3>2
    <2> QED
      BY <2>1, <2>3
  <1> HIDE DEF es
  <1> QED
    BY <1>2, <1>3 DEF IsRecord, es

LEMMA SteppedKeeps ==
    ASSUME NEW n, Sound(n), n.frames # <<>>, ~AtEnd(n), n.count \in Nat
    PROVE /\ Sound(Stepped(n)) /\ Stepped(n).count = n.count + 1
          /\ Stepped(n).frames # <<>> /\ Stepped(n).failed = n.failed
  <1> DEFINE counted == [n EXCEPT !.count = n.count + 1]
             ip == Top(n).ip + 1
  <1>1. Sound(counted) /\ counted.count = n.count + 1 /\ counted.frames = n.frames
        /\ counted.failed = n.failed
    BY DEF Sound, Fields
  <1>2. Stepped(n) = GoTo(counted, ip)
    BY DEF Stepped
  <1>3. Top(counted) = Top(n)
    BY <1>1 DEF Top, Depth
  <1>4. ip \in 1 .. Len(Image.code[Top(n).chunk]) + 1
    BY TopFacts DEF AtEnd, IsFrame
  <1> HIDE DEF counted, ip
  <1>5. Kept(counted, GoTo(counted, ip)) /\ GoTo(counted, ip).frames # <<>>
        /\ GoTo(counted, ip).failed = counted.failed
    BY <1>1, <1>3, <1>4, GoToKeeps
  <1> QED
    BY <1>1, <1>2, <1>5 DEF Kept

LEMMA ResetKeeps ==
    ASSUME NEW n, Sound(n)
    PROVE /\ Kept(n, ResetState(n)) /\ ResetState(n).frames = n.frames
          /\ ResetState(n).failed = n.failed
  <1> DEFINE st == [i \in DOMAIN n.state |-> Image.slots[i].default]
  <1>1. StateOK(st)
    BY SlotsAre DEF Sound, StateOK
  <1>2. ResetState(n) = [n EXCEPT !.state = st]
    BY DEF ResetState
  <1> HIDE DEF st
  <1> QED
    BY <1>1, <1>2, WithState

(* The instruction a frame stands at can run.                              *)
LEMMA FetchedCanRun ==
    ASSUME NEW n, Sound(n), n.frames # <<>>, ~AtEnd(n)
    PROVE CanRun(Image.code[Top(n).chunk][Top(n).ip])
  <1>1. Top(n).chunk \in DOMAIN Image.code
    BY TopFacts DEF IsFrame
  <1>2. Top(n).ip \in 1 .. Len(Image.code[Top(n).chunk])
    BY TopFacts DEF IsFrame, AtEnd
  <1>3. DOMAIN Image.code[Top(n).chunk] = 1 .. Len(Image.code[Top(n).chunk])
    BY <1>1, ImageAssumption DEF IsSeq
  <1> QED
    BY <1>1, <1>2, <1>3, ImageAssumption DEF CanRun

(* The cleanup before an event and the event's payload.                    *)
LEMMA PayloadKeeps ==
    ASSUME NEW n, Sound(n), n.frames # <<>>, NEW payload
    PROVE Kept(n, WithPayload(n, payload))
  <1> DEFINE texted == Intern(n, payload.text)
             fields == [f \in payload.fields |-> TextVal(payload.text)]
             stored == AllocRecords(texted, fields, 1)
             f == [Top(stored) EXCEPT !.locals[1] = <<"record", texted.nextRec>>]
  <1>1. WithPayload(n, payload) \in {texted, SetTop(stored, f)}
    BY DEF WithPayload, Then
  <1> HIDE DEF fields
  <1>2. Kept(n, texted) /\ texted.frames = n.frames
    BY InternKeeps
  <1> HIDE DEF texted
  <1>3. Kept(texted, stored) /\ stored.frames = texted.frames
    BY <1>2, AllocRecordsKeeps DEF Kept
  <1> HIDE DEF stored
  <1>4. Sound(stored) /\ stored.frames # <<>>
    BY <1>2, <1>3 DEF Kept
  <1>5. IsFrame(f, Depth(stored))
    BY <1>4, TopFacts DEF IsFrame
  <1>6. SetTop(stored, f) = [stored EXCEPT !.frames = [stored.frames EXCEPT ![Depth(stored)] = f]]
    BY DEF SetTop
  <1> HIDE DEF f
  <1>7. Kept(stored, SetTop(stored, f))
    <2>1. FramesOK([stored.frames EXCEPT ![Depth(stored)] = f])
      BY <1>4, <1>5, WithTop
    <2> QED
      BY <1>4, <1>6, <2>1, WithFrames
  <1> QED
    BY <1>1, <1>2, <1>3, <1>7, KeptTwice

Begun(n, event) ==
    [n EXCEPT !.texts = StateTexts(n.state), !.nextRec = 0, !.nextList = 0,
              !.count = 0, !.failed = FALSE, !.frames = <<Frame(<<"handler", event>>, 0)>>]

LEMMA BegunSound ==
    ASSUME NEW n, Sound(n), NEW event \in DOMAIN Image.handlers
    PROVE Sound(Begun(n, event)) /\ Begun(n, event).count = 0 /\ Begun(n, event).frames # <<>>
  <1> DEFINE f == Frame(<<"handler", event>>, 0)
             fs == <<f>>
  <1>1. IsFrame(f, 1)
    <2>1. <<"handler", event>> \in DOMAIN Image.code
      BY ImageAssumption
    <2>2. Len(Image.code[<<"handler", event>>]) \in Nat
      BY <2>1, ImageAssumption DEF IsSeq
    <2> QED
      BY <2>1, <2>2 DEF Frame, IsFrame
  <1> HIDE DEF f
  <1>2. fs \in Seq({f}) /\ Len(fs) = 1 /\ fs[1] = f /\ fs # <<>>
    OBVIOUS
  <1> HIDE DEF fs
  <1>3. FramesOK(fs)
    <2>1. fs \in Seq(ToSet(fs))
      BY <1>2, Ranged
    <2>2. \A i \in 1 .. Len(fs) : IsFrame(fs[i], i)
      BY <1>1, <1>2
    <2> QED
      BY <1>2, <2>1, <2>2, Numbers DEF FramesOK
  <1> DEFINE p == Begun(n, event)
  <1>4. /\ DOMAIN p = DOMAIN n
        /\ p.state = n.state /\ p.stack = n.stack /\ p.lists = n.lists
    BY DEF Begun, Sound, Fields
  <1>5. p.nextRec = 0 /\ p.nextList = 0 /\ p.count = 0 /\ p.failed = FALSE /\ p.frames = fs
    BY DEF Begun, Sound, Fields, fs, f
  <1> HIDE DEF p
  <1>6. Sound(p)
    <2>1. 0 \in 0 .. MaxRecs - 1 /\ 0 \in 0 .. MaxLists - 1 /\ FALSE \in BOOLEAN
      BY Numbers
    <2> QED
      BY <1>3, <1>4, <1>5, <2>1 DEF Sound
  <1> QED
    BY <1>2, <1>5, <1>6 DEF p

Counted(n, p) == p.count = 0 \/ (p.count = n.count /\ p.failed = TRUE)

LEMMA PrologueKeeps ==
    ASSUME Sound(m), NEW event \in DOMAIN Image.handlers, NEW payload
    PROVE Sound(Prologue(event, payload)) /\ Counted(m, Prologue(event, payload))
  <1> DEFINE begun == Begun(m, event)
  <1>1. Sound(begun) /\ begun.count = 0 /\ begun.frames # <<>>
    BY BegunSound
  <1>2. Prologue(event, payload) \in {Fail(m), Fail(begun), WithPayload(begun, payload), begun}
    BY DEF Prologue, Begun
  <1> HIDE DEF begun
  <1>3. Kept(m, Fail(m)) /\ Fail(m).failed = TRUE /\ Kept(begun, Fail(begun))
    BY <1>1, WithFailed
  <1>4. Kept(begun, WithPayload(begun, payload))
    BY <1>1, PayloadKeeps
  <1> QED
    BY <1>1, <1>2, <1>3, <1>4 DEF Kept, Counted

(* The machine after a step that ends or goes on with the event.           *)
LEMMA Settles ==
    ASSUME Sound(m'), m'.count \in 0 .. MaxInstr + 1, m'.count <= MaxInstr \/ m'.failed = TRUE,
           phase' = Settled(m'), IsRecord(saved')
    PROVE AppInv'
  <1>1. m'.failed \in BOOLEAN
    BY DEF Sound
  <1> QED
    BY <1>1 DEF AppInv, Settled

LEMMA StartKeeps ==
    ASSUME AppInv, NEW event, NEW payload, Start(event, payload)
    PROVE AppInv'
  <1>1. /\ Sound(m') /\ IsRecord(saved') /\ phase' = Settled(m')
        /\ Counted(m, m')
    <2>1. event \in DOMAIN Image.handlers /\ m' = Prologue(event, payload) /\ Sound(m)
          /\ phase' = Settled(m') /\ IsRecord(saved')
      BY DEF Start, AppInv
    <2>2. Sound(Prologue(event, payload))
      BY <2>1, PrologueKeeps
    <2>3. Counted(m, Prologue(event, payload))
      BY <2>1, PrologueKeeps
    <2>4. Sound(m')
      BY <2>1, <2>2
    <2>5. Counted(m, m')
      BY <2>1, <2>3
    <2> QED
      BY <2>1, <2>4, <2>5
  <1>2. m'.count \in 0 .. MaxInstr + 1 /\ (m'.count <= MaxInstr \/ m'.failed = TRUE)
    BY <1>1, Numbers DEF AppInv, Counted
  <1> QED
    BY <1>1, <1>2, Settles

LEMMA StepKeeps ==
    ASSUME AppInv, phase = "run", ~AtEnd(m), ~OutOfBudget, NEW ins, CanRun(ins), Step(ins)
    PROVE AppInv'
  <1> DEFINE n == Stepped(m)
  <1>1. m.count \in Nat /\ m.count + 1 \in 0 .. MaxInstr /\ m.frames # <<>> /\ m.failed = FALSE
    BY Numbers DEF AppInv, OutOfBudget
  <1>2. Sound(n) /\ n.count = m.count + 1 /\ n.frames # <<>> /\ n.failed = FALSE
    BY <1>1, SteppedKeeps DEF AppInv
  <1> HIDE DEF n
  <1>3. CASE Run(ins)
    <2>1. PICK a \in (IF AsksHost(ins) THEN Answers ELSE {NoAnswer}) : m' = Execute(n, ins, a)
      BY <1>3 DEF Run, n
    <2>2. a.count \in Nat
      <3>1. NoAnswer.count = 0
        BY DEF NoAnswer
      <3> QED
        BY <2>1, <3>1, HostAssumption
    <2>3. Kept(n, m')
      BY <1>2, <2>1, <2>2, ExecuteKeeps
    <2>4. phase' = Settled(m') /\ IsRecord(saved')
      BY <1>3 DEF Run, AppInv
    <2>5. m'.count \in 0 .. MaxInstr + 1 /\ m'.count <= MaxInstr
      BY <1>1, <1>2, <2>3, Numbers DEF Kept
    <2> QED
      BY <2>3, <2>4, <2>5, Settles DEF Kept
  <1>4. CASE Stores(ins) /\ Ask(ins)
    <2>1. /\ \/ m' = n /\ phase' \in {"load", "save"}
             \/ m' = Fail(n) /\ phase' = "idle"
             \/ m' = ResetState(n) /\ phase' = "reset"
          /\ IsRecord(saved')
      BY <1>4 DEF Ask, Stores, n, AppInv
    <2>2. n.count \in 0 .. MaxInstr + 1 /\ n.count <= MaxInstr
      BY <1>1, <1>2, Numbers
    <2>3. CASE m' = n /\ phase' \in {"load", "save"}
      BY <1>2, <2>1, <2>2, <2>3 DEF AppInv
    <2>4. CASE m' = Fail(n) /\ phase' = "idle"
      BY <1>2, <2>1, <2>2, <2>4, WithFailed DEF AppInv, Kept
    <2>5. CASE m' = ResetState(n) /\ phase' = "reset"
      <3>1. Sound(m') /\ m'.count = n.count /\ m'.frames = n.frames /\ m'.failed = n.failed
        BY <1>2, <2>5, ResetKeeps DEF Kept
      <3> QED
        BY <1>2, <2>1, <2>2, <2>5, <3>1 DEF AppInv
    <2> QED
      BY <2>1, <2>3, <2>4, <2>5
  <1> QED
    BY <1>3, <1>4 DEF Step

LEMMA LoadKeeps ==
    ASSUME AppInv, LoadDone
    PROVE AppInv'
  <1>1. Kept(m, m') /\ m'.frames = m.frames
    BY RecordLoads DEF LoadDone, AppInv
  <1>2. m'.count \in 0 .. MaxInstr + 1 /\ m'.count <= MaxInstr
    BY <1>1 DEF LoadDone, AppInv, Kept
  <1>3. phase' = Settled(m') /\ IsRecord(saved')
    BY DEF LoadDone, AppInv
  <1> QED
    BY <1>1, <1>2, <1>3, Settles DEF Kept

LEMMA HostKeeps ==
    ASSUME AppInv, SaveDone \/ ResetDone \/ Abandon
    PROVE AppInv'
  <1>1. CASE SaveDone
    <2>1. IsRecord(SavedRecord(m.state))
      BY SavedIsRecord DEF AppInv, Sound
    <2> QED
      BY <1>1, <2>1 DEF AppInv, SaveDone
  <1>2. CASE ResetDone
    <2>1. IsRecord(NoRecord)
      <3>1. Len(<<>>) = 0 /\ DOMAIN <<>> = {}
        OBVIOUS
      <3> QED
        BY <3>1 DEF IsRecord, IsSeq, NoRecord
    <2> QED
      BY <1>2, <2>1 DEF AppInv, ResetDone
  <1>3. CASE Abandon
    BY <1>3 DEF AppInv, Abandon
  <1> QED
    BY <1>1, <1>2, <1>3

LEMMA EndKeeps ==
    ASSUME AppInv, EndFrame \/ Exceed \/ Unreadable \/ Relaunch
    PROVE AppInv'
  <1>1. CASE EndFrame
    <2>1. Kept(m, m')
      BY <1>1, CompleteFrameKeeps DEF EndFrame, AppInv
    <2>2. m'.count \in 0 .. MaxInstr + 1 /\ m'.count <= MaxInstr
      BY <1>1, <2>1 DEF EndFrame, AppInv, Kept
    <2>3. phase' = Settled(m') /\ IsRecord(saved')
      BY <1>1 DEF EndFrame, AppInv
    <2> QED
      BY <2>1, <2>2, <2>3, Settles DEF Kept
  <1>2. CASE Exceed
    <2> DEFINE n == [m EXCEPT !.count = m.count + 1]
    <2>1. Sound(n) /\ n.count = m.count + 1
      BY DEF AppInv, Sound, Fields
    <2>2. m' = Fail(n) /\ phase' = "idle" /\ saved' = saved /\ m.count <= MaxInstr /\ m.count \in Nat
      BY <1>2 DEF Exceed, AppInv
    <2> HIDE DEF n
    <2>3. Sound(m') /\ m'.count = m.count + 1
      BY <2>1, <2>2, WithFailed DEF Kept
    <2>4. m'.count \in 0 .. MaxInstr + 1
      BY <2>2, <2>3, Numbers
    <2> QED
      BY <2>2, <2>3, <2>4 DEF AppInv
  <1>3. CASE Unreadable
    <2>1. Sound(m') /\ m'.count = m.count
      BY <1>3, WithFailed DEF Unreadable, AppInv, Kept
    <2> QED
      BY <1>3, <2>1 DEF Unreadable, AppInv
  <1>4. CASE Relaunch
    <2>1. 0 \in 0 .. MaxInstr + 1
      BY Numbers
    <2> QED
      BY <1>4, <2>1, FreshSound DEF Relaunch, AppInv
  <1> QED
    BY <1>1, <1>2, <1>3, <1>4

LEMMA AskedKeeps ==
    ASSUME AskedInv, Next
    PROVE AskedInv'
  <1>1. CASE \E event \in Events, payload \in Payloads : VmStart(event, payload)
    BY <1>1 DEF VmStart, Start, AskedInv
  <1>2. CASE VmWork
    <2>1. CASE ReadNow \/ ReadRequest
      <3>1. phase = "run" /\ ~AtEnd(m) /\ m' = m /\ phase' = phase /\ asked' \in {asked, TRUE}
        BY <2>1 DEF ReadNow, ReadRequest, Needed
      <3> QED
        BY <3>1 DEF AskedInv
    <2>2. CASE VmEndFrame \/ VmInstruction \/ VmExceed
      BY <2>2 DEF VmEndFrame, VmInstruction, VmExceed, AskedInv
    <2> QED
      BY <1>2, <2>1, <2>2 DEF VmWork
  <1>3. CASE Answer
    <2>1. CASE VmHostDone
      BY <2>1 DEF VmHostDone, HostDone, LoadDone, SaveDone, ResetDone, Abandon, AskedInv
    <2>2. CASE ReadDone \/ ReadFails
      BY <2>2 DEF ReadDone, ReadFails, AskedInv
    <2> QED
      BY <1>3, <2>1, <2>2 DEF Answer
  <1>4. CASE VmRelaunch
    BY <1>4 DEF VmRelaunch, AskedInv
  <1> QED
    BY <1>1, <1>2, <1>3, <1>4 DEF Next

(* A step of the machine that reads its code in chunks is a step of the    *)
(* one that has it at hand, or brings code and changes nothing else.       *)
LEMMA StepIsTheApps ==
    ASSUME AskedInv, Marked, Next
    PROVE AppNext \/ UNCHANGED appVars
  <1>1. CASE \E event \in Events, payload \in Payloads : VmStart(event, payload)
    BY <1>1 DEF VmStart, AppNext
  <1>2. CASE VmInstruction
    <2>1. Image.code[code.holds][Top(m).ip] = Fetch
      BY <1>2 DEF VmInstruction, Resident, Marked, Fetch
    <2>2. RunStep
      BY <1>2, <2>1 DEF VmInstruction, RunStep
    <2> QED
      BY <2>2 DEF AppNext, Work
  <1>3. CASE VmEndFrame \/ VmExceed
    BY <1>3 DEF VmEndFrame, VmExceed, AppNext, Work
  <1>4. CASE ReadNow \/ ReadRequest \/ ReadDone
    BY <1>4 DEF ReadNow, ReadRequest, ReadDone, appVars
  <1>5. CASE ReadFails
    <2>1. Unreadable
      BY <1>5 DEF ReadFails, Needed, Unreadable, AskedInv
    <2> QED
      BY <2>1 DEF AppNext, Work
  <1>6. CASE VmHostDone \/ VmRelaunch
    BY <1>6 DEF VmHostDone, VmRelaunch, AppNext
  <1> QED
    BY <1>1, <1>2, <1>3, <1>4, <1>5, <1>6 DEF Next, VmWork, Answer

LEMMA AppStepKeeps ==
    ASSUME AppInv, AppNext
    PROVE AppInv'
  <1>1. CASE \E event \in Events, payload \in Payloads : Start(event, payload)
    BY <1>1, StartKeeps
  <1>2. CASE RunStep
    <2>1. CanRun(Fetch)
      BY <1>2, FetchedCanRun DEF RunStep, Fetch, AppInv
    <2> QED
      BY <1>2, <2>1, StepKeeps DEF RunStep
  <1>3. CASE EndFrame \/ Exceed \/ Unreadable \/ Relaunch
    BY <1>3, EndKeeps
  <1>4. CASE HostDone
    BY <1>4, LoadKeeps, HostKeeps DEF HostDone
  <1> QED
    BY <1>1, <1>2, <1>3, <1>4 DEF AppNext, Work

LEMMA VmInvHolds == Spec => []VmInv
  <1>1. Init => VmInv
    <2>1. 0 \in 0 .. MaxInstr + 1
      BY Numbers
    <2>2. \A rec \in OldRecords : IsRecord(rec)
      BY HostAssumption
    <2>3. Init => AppInv
      BY <2>1, <2>2, FreshSound DEF Init, AppInit, AppInv
    <2>4. Init => AskedInv
      BY DEF Init, AskedInv
    <2>5. Init => Marked
      BY DEF Init, NoCode, Marked
    <2> QED
      BY <2>3, <2>4, <2>5 DEF VmInv
  <1>2. VmInv /\ [Next]_vmVars => VmInv'
    <2>1. ASSUME VmInv, Next PROVE VmInv'
      <3>1. AppInv'
        <4>1. CASE AppNext
          BY <2>1, <4>1, AppStepKeeps DEF VmInv
        <4>2. CASE UNCHANGED appVars
          BY <2>1, <4>2 DEF appVars, AppInv, VmInv
        <4> QED
          BY <2>1, <4>1, <4>2, StepIsTheApps DEF VmInv
      <3> QED
        BY <2>1, <3>1, AskedKeeps, StepsKeepMarked DEF VmInv
    <2>2. ASSUME VmInv, UNCHANGED vmVars PROVE VmInv'
      BY <2>2 DEF vmVars, VmInv, AppInv, AskedInv, Marked
    <2> QED
      BY <2>1, <2>2
  <1> QED
    BY <1>1, <1>2, PTL DEF Spec

(* The refinement: with the buffer and the requests for code hidden, the   *)
(* machine that reads its code chunk by chunk is one that has all of it at *)
(* hand: no read, refused read or abandoned read shows in what an app does *)
(* (vm.rs run_resumable, load_chunk_resumable, resume_storage).            *)
THEOREM ImplementsTheApp == Spec => ImplementsAppMachine
  <1>1. Init => AppInit
    BY DEF Init
  <1>2. VmInv /\ [Next]_vmVars => [AppNext]_appVars
    <2>1. VmInv /\ Next => AppNext \/ UNCHANGED appVars
      BY StepIsTheApps DEF VmInv
    <2>2. UNCHANGED vmVars => UNCHANGED appVars
      BY DEF vmVars, appVars
    <2> QED
      BY <2>1, <2>2
  <1> QED
    BY <1>1, <1>2, VmInvHolds, PTL DEF Spec, AppSpec, ImplementsAppMachine

(* The machine stays within its arrays and limits: whatever the program,   *)
(* the answers of the host and the records it finds, operands, frames,     *)
(* the instruction count and the two rings never go past their bounds, and *)
(* a machine that runs or waits has a frame and has not failed (vm.rs,     *)
(* push, push_frame, run_resumable).                                       *)
THEOREM MachineTypeCorrect == Spec => []TypeOK
  <1>1. VmInv => TypeOK
    <2> SUFFICES ASSUME VmInv PROVE TypeOK
      OBVIOUS
    <2>1. AppInv /\ Sound(m) /\ FramesOK(m.frames) /\ StackOK(m.stack)
      BY DEF VmInv, AppInv, Sound
    <2>2. \A i \in 1 .. Depth(m) :
             m.frames[i].depth = i - 1 /\ m.frames[i].ip \in 1 .. Len(Image.code[m.frames[i].chunk]) + 1
      BY <2>1 DEF FramesOK, IsFrame, Depth
    <2> QED
      BY <2>1, <2>2 DEF TypeOK, VmInv, AskedInv, AppInv, FramesOK, StackOK, Sound, Depth
  <1> QED
    BY <1>1, VmInvHolds, PTL

(* A slot of the app state only ever holds a value of its type, through    *)
(* assignments, resets and records of other versions of the app that were  *)
(* read half way (vm.rs OP_SET_STATE, state.rs apply_state_record).        *)
THEOREM StatesTyped == Spec => []StateTyped
  <1>1. VmInv => StateTyped
    BY DEF VmInv, AppInv, Sound, StateOK, StateTyped
  <1> QED
    BY <1>1, VmInvHolds, PTL

(* A load that succeeds leaves in each slot what the record says of it,    *)
(* the last of its entries with that name, and leaves the other slots as   *)
(* they were (state.rs encode_state_record, apply_state_record).           *)
THEOREM LoadsSaved == Spec => LoadsWhatWasSaved
  <1> DEFINE mine(i) == {e \in {saved.entries[k] : k \in DOMAIN saved.entries} :
                             e.name = Image.slots[i].name}
             Loads == \A i \in DOMAIN m.state :
                          IF mine(i) = {} THEN m'.state[i] = m.state[i]
                          ELSE SavedRecord(m'.state).entries[i] \in mine(i)
  <1>1. ASSUME VmInv, [Next]_vmVars, phase = "load", phase' = "run"
        PROVE Loads
    <2>1. LoadDone
      <3>1. CASE \E event \in Events, payload \in Payloads : VmStart(event, payload)
        BY <1>1, <3>1 DEF VmStart, Start
      <3>2. CASE VmWork
        BY <1>1, <3>2 DEF VmWork, ReadNow, ReadRequest, VmEndFrame, VmInstruction, VmExceed,
                          Needed, EndFrame, Exceed
      <3>3. CASE Answer
        BY <1>1, <3>3 DEF Answer, ReadDone, ReadFails, Needed, VmHostDone, HostDone, SaveDone,
                          ResetDone, Abandon, VmInv, AskedInv
      <3>4. CASE VmRelaunch \/ UNCHANGED vmVars
        BY <1>1, <3>4 DEF VmRelaunch, Relaunch, vmVars
      <3> QED
        BY <1>1, <3>1, <3>2, <3>3, <3>4 DEF Next
    <2>2. AppInv /\ IsRecord(saved) /\ Sound(m)
      BY <1>1 DEF VmInv, AppInv
    <2>3. m' = ApplyRecord(saved) /\ Kept(m, m') /\ m'.failed = FALSE
      <3>1. m' = ApplyRecord(saved) /\ Settled(m') = "run"
        BY <1>1, <2>1 DEF LoadDone
      <3>2. Kept(m, m')
        BY <2>2, <3>1, RecordLoads
      <3>3. m'.failed \in BOOLEAN
        BY <3>2 DEF Kept, Sound
      <3> QED
        BY <3>1, <3>2, <3>3 DEF Settled
    <2>4. Loaded(m, saved.entries, m', Len(saved.entries))
      BY <2>2, <2>3, RecordLoads
    <2>5. DOMAIN saved.entries = 1 .. Len(saved.entries)
      BY <2>2 DEF IsRecord, IsSeq
    <2>6. DOMAIN m.state = DOMAIN Image.slots /\ DOMAIN m'.state = DOMAIN Image.slots
      BY <2>2, <2>3 DEF Kept, Sound, StateOK
    <2>7. ASSUME NEW i \in DOMAIN m.state
          PROVE IF mine(i) = {} THEN m'.state[i] = m.state[i]
                ELSE SavedRecord(m'.state).entries[i] \in mine(i)
      <3>1. SavedRecord(m'.state).entries[i] = Entry(i, m'.state)
        BY <2>6, <2>7 DEF SavedRecord
      <3>2. CASE mine(i) = {}
        <4>1. ~\E j \in 1 .. Len(saved.entries) : saved.entries[j].name = Image.slots[i].name
          BY <2>5, <3>2
        <4> QED
          BY <2>4, <2>6, <2>7, <3>2, <4>1 DEF Loaded
      <3>3. CASE mine(i) # {}
        <4>1. \E j \in 1 .. Len(saved.entries) : saved.entries[j].name = Image.slots[i].name
          BY <2>5, <3>3
        <4>2. PICK j \in 1 .. Len(saved.entries) :
                 saved.entries[j].name = Image.slots[i].name /\ Entry(i, m'.state) = saved.entries[j]
          BY <2>4, <2>6, <2>7, <4>1 DEF Loaded
        <4>3. Entry(i, m'.state) \in mine(i)
          BY <2>5, <4>2
        <4> QED
          BY <3>1, <3>3, <4>3
      <3> QED
        BY <3>2, <3>3
    <2> QED
      BY <2>7
  <1>2. VmInv /\ [Next]_vmVars => (phase = "load" /\ phase' = "run" => Loads)
    BY <1>1
  <1>3. VmInv /\ [Next]_vmVars =>
            [phase = "load" /\ phase' = "run" =>
               \A i \in DOMAIN m.state :
                   LET own == {e \in {saved.entries[k] : k \in DOMAIN saved.entries} :
                                    e.name = Image.slots[i].name}
                   IN  IF own = {} THEN m'.state[i] = m.state[i]
                       ELSE SavedRecord(m'.state).entries[i] \in own]_vmVars
    BY <1>2
  <1> QED
    BY <1>3, VmInvHolds, PTL DEF Spec, LoadsWhatWasSaved
=============================================================================
