-------------------------- MODULE ChunkedVmTextProofs --------------------------
(* A theorem about ChunkedVm for every image whose code adds up: what a    *)
(* handler can reach, the arena of runtime strings still has.              *)
EXTENDS ChunkedVmProofs, VmOperands

(* What a value refers to is there: W.texts are texts the arena has,       *)
(* W.recs and W.lists the slots of the two rings that were filled since    *)
(* the event began.                                                        *)
Good(v, W) ==
    /\ Type(v) = "dynamic" => v[2] \in W.texts
    /\ Type(v) = "record" => v[2] \in W.recs
    /\ Type(v) = "list" => v[2] \in W.lists

StateGood(st, W) == \A i \in DOMAIN st : Good(st[i], W)
\* What lies at or below `base' is left from earlier events.
StackGood(s, base, W) == \A i \in 1 .. Len(s) : base < i => Good(s[i], W)
LocalsGood(l, W) == DOMAIN l = 1 .. MaxLocals /\ \A i \in 1 .. MaxLocals : Good(l[i], W)
FramesGood(fs, W) == \A d \in 1 .. Len(fs) : LocalsGood(fs[d].locals, W)
RecordGood(fields, W) == \A f \in DOMAIN fields : Good(fields[f], W)
ListGood(items, W) == IsSeq(items) /\ \A i \in 1 .. Len(items) : Good(items[i], W)
HeapGood(recs, lists, W) ==
    /\ W.recs \subseteq 0 .. MaxRecs - 1 /\ W.lists \subseteq 0 .. MaxLists - 1
    /\ \A r \in W.recs : RecordGood(recs[r], W)
    /\ \A l \in W.lists : ListGood(lists[l], W)

Alive(n, base, W) ==
    /\ W.texts \subseteq n.texts
    /\ StateGood(n.state, W) /\ StackGood(n.stack, base, W) /\ FramesGood(n.frames, W)
    /\ HeapGood(n.recs, n.lists, W)

Within(W, V) == W.texts \subseteq V.texts /\ W.recs \subseteq V.recs /\ W.lists \subseteq V.lists

LEMMA GoodGrows ==
    ASSUME NEW W, NEW V, Within(W, V)
    PROVE /\ \A v : Good(v, W) => Good(v, V)
          /\ \A st : StateGood(st, W) => StateGood(st, V)
          /\ \A s, base : StackGood(s, base, W) => StackGood(s, base, V)
          /\ \A fs : FramesGood(fs, W) => FramesGood(fs, V)
          /\ \A fields : RecordGood(fields, W) => RecordGood(fields, V)
          /\ \A items : ListGood(items, W) => ListGood(items, V)
  <1>1. \A v : Good(v, W) => Good(v, V)
    BY DEF Good, Within
  <1>2. \A l : LocalsGood(l, W) => LocalsGood(l, V)
    BY <1>1 DEF LocalsGood
  <1>3. \A fs : FramesGood(fs, W) => FramesGood(fs, V)
    BY <1>2 DEF FramesGood
  <1> QED
    BY <1>1, <1>3 DEF StateGood, StackGood, RecordGood, ListGood

\* A value that refers to nothing.
Simple(v) == Type(v) \notin {"dynamic", "record", "list"}
LEMMA SimpleIsGood ==
    ASSUME NEW v, Simple(v), NEW W
    PROVE Good(v, W)
  BY DEF Simple, Good

LEMMA SimpleValues ==
    /\ Simple(Null) /\ \A x : Simple(IntVal(x)) /\ Simple(BoolVal(x)) /\ Simple(Handle(x))
    /\ \A v : IsConstant(v) => Simple(v)
  BY DEF Simple, Type, Null, IntVal, BoolVal, Handle, IsConstant

-----------------------------------------------------------------------------
(* The operations on a machine that lives.                                 *)
SameHeap(n, p) ==
    p.state = n.state /\ p.recs = n.recs /\ p.lists = n.lists /\ p.texts = n.texts
SameRings(n, p) == p.nextRec = n.nextRec /\ p.nextList = n.nextList

LEMMA FieldsOfStack ==
    ASSUME NEW n, Sound(n), NEW s
    PROVE /\ SameHeap(n, [n EXCEPT !.stack = s]) /\ SameRings(n, [n EXCEPT !.stack = s])
          /\ [n EXCEPT !.stack = s].frames = n.frames /\ [n EXCEPT !.stack = s].stack = s
          /\ [n EXCEPT !.stack = s].screen = n.screen
          /\ [n EXCEPT !.stack = s].failed = n.failed
  BY DEF Sound, Fields, SameHeap, SameRings

LEMMA SameHeapAlive ==
    ASSUME NEW n, NEW p, NEW base, NEW W, Alive(n, base, W), SameHeap(n, p),
           StackGood(p.stack, base, W), FramesGood(p.frames, W)
    PROVE Alive(p, base, W)
  BY DEF Alive, SameHeap

LEMMA StackIs ==
    ASSUME NEW n, Sound(n)
    PROVE /\ n.stack \in Seq(ToSet(n.stack)) /\ Len(n.stack) \in Nat
          /\ DOMAIN n.stack = 1 .. Len(n.stack)
  BY Ranged DEF Sound, StackOK

LEMMA FailedIs ==
    ASSUME NEW n, Sound(n)
    PROVE Fail(n).failed = TRUE
  BY WithFailed

\* An operation that went well left this on top of what was there.
Put(n, p, v) ==
    /\ SameHeap(n, p) /\ SameRings(n, p) /\ p.frames = n.frames
    /\ Len(p.stack) = Len(n.stack) + 1
    /\ \A i \in 1 .. Len(n.stack) : p.stack[i] = n.stack[i]
    /\ p.stack[Len(n.stack) + 1] = v

LEMMA PushPuts ==
    ASSUME NEW n, Sound(n), NEW v, Push(n, v).failed = FALSE
    PROVE Put(n, Push(n, v), v)
  <1> DEFINE s == Append(n.stack, v)
             S == ToSet(n.stack) \cup {v}
  <1>1. Push(n, v) = [n EXCEPT !.stack = s]
    BY FailedIs DEF Push
  <1>2. n.stack \in Seq(S) /\ v \in S
    BY StackIs, SeqMonotonic
  <1>3. /\ Len(s) = Len(n.stack) + 1 /\ s[Len(n.stack) + 1] = v
        /\ \A i \in 1 .. Len(n.stack) : s[i] = n.stack[i]
    BY <1>2, AppendProperties
  <1> HIDE DEF s
  <1>4. /\ SameHeap(n, [n EXCEPT !.stack = s]) /\ SameRings(n, [n EXCEPT !.stack = s])
        /\ [n EXCEPT !.stack = s].frames = n.frames /\ [n EXCEPT !.stack = s].stack = s
    BY FieldsOfStack
  <1> QED
    BY <1>1, <1>3, <1>4 DEF Put

LEMMA PutAlive ==
    ASSUME NEW n, Sound(n), NEW base, NEW W, Alive(n, base, W), NEW v, Good(v, W),
           NEW p, Put(n, p, v)
    PROVE Alive(p, base, W)
  <1>1. StackGood(p.stack, base, W)
    <2> SUFFICES ASSUME NEW i \in 1 .. Len(p.stack), base < i PROVE Good(p.stack[i], W)
      BY DEF StackGood
    <2>1. Len(n.stack) \in Nat /\ Len(p.stack) = Len(n.stack) + 1
      BY StackIs DEF Put
    <2>2. CASE i = Len(n.stack) + 1
      BY <2>2 DEF Put
    <2>3. CASE i # Len(n.stack) + 1
      <3>1. i \in 1 .. Len(n.stack)
        BY <2>1, <2>3
      <3>2. p.stack[i] = n.stack[i]
        BY <3>1 DEF Put
      <3> QED
        BY <3>1, <3>2 DEF Alive, StackGood
    <2> QED
      BY <2>2, <2>3
  <1>2. FramesGood(p.frames, W)
    BY DEF Put, Alive
  <1> QED
    BY <1>1, <1>2, SameHeapAlive DEF Put

LEMMA PushAlive ==
    ASSUME NEW n, Sound(n), NEW base, NEW W, Alive(n, base, W), NEW v, Good(v, W),
           Push(n, v).failed = FALSE
    PROVE /\ Alive(Push(n, v), base, W) /\ Push(n, v).frames = n.frames
          /\ Len(Push(n, v).stack) = Len(n.stack) + 1
  <1>1. Put(n, Push(n, v), v)
    BY PushPuts
  <1> QED
    BY <1>1, PutAlive DEF Put

\* An operation that went well took k operands off.
Took(n, p, k) ==
    /\ SameHeap(n, p) /\ SameRings(n, p) /\ p.frames = n.frames /\ p.screen = n.screen
    /\ p.failed = n.failed
    /\ k \in Nat /\ k <= Len(n.stack) /\ Len(p.stack) = Len(n.stack) - k
    /\ \A i \in 1 .. Len(n.stack) - k : p.stack[i] = n.stack[i]

LEMMA DropTakes ==
    ASSUME NEW n, Sound(n), NEW k \in Nat, k <= Len(n.stack)
    PROVE Took(n, Drop(n, k), k)
  <1> DEFINE S == ToSet(n.stack)
             l == Len(n.stack) - k
             s == SubSeq(n.stack, 1, l)
  <1>1. n.stack \in Seq(S) /\ Len(n.stack) \in Nat
    BY StackIs
  <1>2. l \in Nat /\ \A i \in 1 .. l : n.stack[i] \in S
    BY <1>1, ElementOfSeq
  <1>3. Len(s) = l /\ \A i \in 1 .. l : s[i] = n.stack[i]
    <2>1. /\ Len(s) = IF 1 <= l THEN l - 1 + 1 ELSE 0
          /\ \A i \in 1 .. l - 1 + 1 : s[i] = n.stack[1 + i - 1]
      BY <1>1, <1>2, SubSeqProperties
    <2> HIDE DEF s, l
    <2>2. \A i \in 1 .. l : i \in 1 .. l - 1 + 1 /\ 1 + i - 1 = i
      BY <1>2
    <2>3. Len(s) = l
      BY <1>2, <2>1
    <2> QED
      BY <2>1, <2>2, <2>3
  <1>4. Drop(n, k) = [n EXCEPT !.stack = s]
    BY DEF Drop
  <1> HIDE DEF s
  <1>5. Took(n, [n EXCEPT !.stack = s], k)
    <2> DEFINE p == [n EXCEPT !.stack = s]
    <2>1. /\ SameHeap(n, p) /\ SameRings(n, p) /\ p.frames = n.frames /\ p.stack = s
          /\ p.screen = n.screen /\ p.failed = n.failed
      BY FieldsOfStack
    <2> HIDE DEF p
    <2>2. Took(n, p, k)
      BY <1>3, <2>1 DEF Took
    <2> QED
      BY <2>2 DEF p
  <1> QED
    BY <1>4, <1>5

LEMMA TookAlive ==
    ASSUME NEW n, Sound(n), NEW base, NEW W, Alive(n, base, W), NEW k, NEW p, Took(n, p, k)
    PROVE Alive(p, base, W)
  <1>1. StackGood(p.stack, base, W)
    <2> SUFFICES ASSUME NEW i \in 1 .. Len(p.stack), base < i PROVE Good(p.stack[i], W)
      BY DEF StackGood
    <2>1. i \in 1 .. Len(n.stack) - k /\ i \in 1 .. Len(n.stack)
      BY StackIs DEF Took
    <2> QED
      BY <2>1 DEF Took, Alive, StackGood
  <1>2. FramesGood(p.frames, W)
    BY DEF Took, Alive
  <1> QED
    BY <1>1, <1>2, SameHeapAlive DEF Took

LEMMA PopTakes ==
    ASSUME NEW n, Sound(n), NEW types, Len(types) \in Nat, Pop(n, types).failed = FALSE
    PROVE /\ Took(n, Pop(n, types), Len(types))
          /\ \A i \in 1 .. Len(types) : Fits(types[i], Arg(n, i))
  <1> DEFINE have == Len(n.stack)
             bad == {i \in 1 .. Len(types) : i > have \/ ~Fits(types[i], Arg(n, i))}
             first == CHOOSE i \in bad : \A j \in bad : i <= j
             k == IF first > have THEN have ELSE first
  <1>1. have \in Nat
    BY StackIs
  <1>2. bad = {}
    <2> SUFFICES ASSUME bad # {} PROVE FALSE
      OBVIOUS
    <2>1. Pop(n, types) = Fail(Drop(n, k))
      BY DEF Pop
    <2> HIDE DEF k
    <2>2. DOMAIN Drop(n, k) = Fields
      BY DEF Drop, Sound
    <2>3. Fail(Drop(n, k)).failed = TRUE
      BY <2>2 DEF Fail, Fields
    <2> QED
      BY <2>1, <2>3
  <1>3. Pop(n, types) = Drop(n, Len(types))
    BY <1>2 DEF Pop
  <1>4. Len(types) <= have
    <2>1. CASE Len(types) = 0
      BY <1>1, <2>1
    <2>2. CASE Len(types) # 0
      <3>1. Len(types) \in 1 .. Len(types)
        BY <2>2
      <3>2. ~(Len(types) > have)
        BY <1>2, <3>1
      <3> QED
        BY <1>1, <3>2
    <2> QED
      BY <2>1, <2>2
  <1>5. \A i \in 1 .. Len(types) : Fits(types[i], Arg(n, i))
    BY <1>2
  <1> QED
    BY <1>3, <1>4, <1>5, DropTakes

LEMMA PopFits ==
    ASSUME NEW n, Sound(n), NEW types, Len(types) \in Nat, Pop(n, types).failed = FALSE,
           NEW i \in 1 .. Len(types)
    PROVE Fits(types[i], Arg(n, i))
  <1>1. \A j \in 1 .. Len(types) : Fits(types[j], Arg(n, j))
    BY PopTakes
  <1> QED
    BY <1>1

\* The operands of the event itself.
LEMMA ArgGood ==
    ASSUME NEW n, Sound(n), NEW base \in Nat, NEW W, Alive(n, base, W),
           NEW i \in Nat, 0 < i, base + i <= Len(n.stack)
    PROVE Good(Arg(n, i), W)
  <1>1. Len(n.stack) - i + 1 \in 1 .. Len(n.stack) /\ base < Len(n.stack) - i + 1
    BY StackIs
  <1> QED
    BY <1>1 DEF Arg, Alive, StackGood

-----------------------------------------------------------------------------
(* An instruction that enters and leaves no frame: `out' and `in' are the  *)
(* operands it takes and leaves.                                           *)
SameFrames(n, p) ==
    /\ Len(p.frames) = Len(n.frames)
    /\ \A d \in 1 .. Len(n.frames) :
           p.frames[d].chunk = n.frames[d].chunk /\ p.frames[d].ip = n.frames[d].ip
Does(n, p, base, out, in) ==
    /\ SameFrames(n, p) /\ Len(p.stack) = Len(n.stack) - out + in
    /\ \E W : Alive(p, base, W)

LEMMA PushDoes ==
    ASSUME NEW n, Sound(n), NEW base, NEW W, Alive(n, base, W), NEW v, Good(v, W),
           Push(n, v).failed = FALSE
    PROVE Does(n, Push(n, v), base, 0, 1)
  <1>1. Alive(Push(n, v), base, W) /\ Push(n, v).frames = n.frames
        /\ Len(Push(n, v).stack) = Len(n.stack) + 1
    BY PushAlive
  <1>2. Len(n.stack) \in Nat
    BY StackIs
  <1> QED
    BY <1>1, <1>2 DEF Does, SameFrames

LEMMA PopDoes ==
    ASSUME NEW n, Sound(n), NEW base, NEW W, Alive(n, base, W),
           NEW types, Len(types) \in Nat, Pop(n, types).failed = FALSE
    PROVE Does(n, Pop(n, types), base, Len(types), 0)
  <1> DEFINE p == Pop(n, types)
  <1>1. Took(n, p, Len(types))
    BY PopTakes
  <1> HIDE DEF p
  <1>2. Alive(p, base, W)
    BY <1>1, TookAlive
  <1>3. Len(n.stack) \in Nat /\ Len(p.stack) = Len(n.stack) - Len(types) + 0
    BY <1>1, StackIs DEF Took
  <1> QED
    BY <1>1, <1>2, <1>3 DEF Does, SameFrames, Took, p

LEMMA PopPushDoes ==
    ASSUME NEW n, Sound(n), NEW base, NEW W, Alive(n, base, W),
           NEW types, Len(types) \in Nat, NEW v, Good(v, W),
           Pop(n, types).failed = FALSE, Push(Pop(n, types), v).failed = FALSE
    PROVE Does(n, Push(Pop(n, types), v), base, Len(types), 1)
  <1> DEFINE p == Pop(n, types)
             q == Push(p, v)
  <1>1. Took(n, p, Len(types)) /\ Sound(p)
    BY PopTakes, PopKeeps DEF Kept
  <1> HIDE DEF p
  <1>2. Alive(p, base, W)
    BY <1>1, TookAlive
  <1>3. q.failed = FALSE
    BY DEF p
  <1>4. Alive(q, base, W) /\ q.frames = p.frames /\ Len(q.stack) = Len(p.stack) + 1
    BY <1>1, <1>2, <1>3, PushAlive
  <1> HIDE DEF q
  <1>5. Len(n.stack) \in Nat /\ Len(q.stack) = Len(n.stack) - Len(types) + 1
    BY <1>1, <1>4, StackIs DEF Took
  <1>6. q.frames = n.frames
    BY <1>1, <1>4 DEF Took
  <1> QED
    BY <1>4, <1>5, <1>6 DEF Does, SameFrames, p, q

LEMMA Operands ==
    /\ Len(<<"any">>) = 1 /\ Len(<<"any", "any">>) = 2 /\ Len(<<"literal">>) = 1
    /\ Len(<<"record">>) = 1 /\ Len(<<"list">>) = 1 /\ Len(<<"int", "list">>) = 2
  OBVIOUS

LEMMA Popped ==
    ASSUME NEW n, Sound(n), NEW types, Len(types) \in Nat
    PROVE Sound(Pop(n, types)) /\ Pop(n, types).failed \in BOOLEAN
  BY PopKeeps DEF Kept, Sound

LEMMA GetStateDoes ==
    ASSUME NEW n, Sound(n), NEW base, NEW W, Alive(n, base, W), NEW i,
           GetState(n, i).failed = FALSE
    PROVE Does(n, GetState(n, i), base, 0, 1)
  <1>1. CASE i \in DOMAIN n.state
    <2>1. Good(n.state[i], W)
      BY <1>1 DEF Alive, StateGood
    <2> QED
      BY <1>1, <2>1, PushDoes DEF GetState
  <1>2. CASE i \notin DOMAIN n.state
    BY <1>2, FailedIs DEF GetState
  <1> QED
    BY <1>1, <1>2

LEMMA GetLocalDoes ==
    ASSUME NEW n, Sound(n), n.frames # <<>>, NEW base, NEW W, Alive(n, base, W), NEW i,
           GetLocal(n, i).failed = FALSE
    PROVE Does(n, GetLocal(n, i), base, 0, 1)
  <1>1. CASE i \in 1 .. MaxLocals
    <2>1. Depth(n) \in 1 .. Len(n.frames)
      BY TopFacts
    <2>2. Good(Top(n).locals[i], W)
      BY <1>1, <2>1 DEF Top, Alive, FramesGood, LocalsGood
    <2> QED
      BY <1>1, <2>2, PushDoes DEF GetLocal
  <1>2. CASE i \notin 1 .. MaxLocals
    BY <1>2, FailedIs DEF GetLocal
  <1> QED
    BY <1>1, <1>2

LEMMA GetFieldDoes ==
    ASSUME NEW n, Sound(n), NEW base \in Nat, NEW W, Alive(n, base, W), NEW name,
           base + 1 <= Len(n.stack), GetField(n, name).failed = FALSE
    PROVE Does(n, GetField(n, name), base, 1, 1)
  <1> DEFINE popped == Pop(n, <<"record">>)
             fields == n.recs[Arg(n, 1)[2]]
  <1>0. Len(<<"record">>) = 1 /\ Len(<<"record">>) \in Nat
    BY Operands
  <1>1. Sound(popped) /\ popped.failed \in BOOLEAN
    BY <1>0, Popped
  <1>2. popped.failed = FALSE /\ name \in DOMAIN fields /\ GetField(n, name) = Push(popped, fields[name])
    BY <1>1, FailedIs DEF GetField
  <1>3. Fits("record", Arg(n, 1))
    <2> DEFINE types == <<"record">>
    <2>1. Len(types) \in Nat /\ 1 \in 1 .. Len(types) /\ types[1] = "record"
      BY <1>0
    <2> HIDE DEF types
    <2>2. Fits(types[1], Arg(n, 1))
      BY <1>2, <2>1, PopFits DEF types
    <2> QED
      BY <2>1, <2>2
  <1>4. Arg(n, 1)[2] \in W.recs
    BY <1>3, ArgGood DEF Fits, Good
  <1>5. Good(fields[name], W)
    BY <1>2, <1>4 DEF Alive, HeapGood, RecordGood
  <1> HIDE DEF fields
  <1>6. Does(n, Push(popped, fields[name]), base, Len(<<"record">>), 1)
    BY <1>0, <1>2, <1>5, PopPushDoes
  <1> QED
    BY <1>0, <1>2, <1>6

LEMMA ListLenDoes ==
    ASSUME NEW n, Sound(n), NEW base, NEW W, Alive(n, base, W), ListLen(n).failed = FALSE
    PROVE Does(n, ListLen(n), base, 1, 1)
  <1> DEFINE popped == Pop(n, <<"list">>)
             v == IntVal(Len(n.lists[Arg(n, 1)[2]]))
  <1>0. Len(<<"list">>) = 1 /\ Len(<<"list">>) \in Nat
    BY Operands
  <1>1. Sound(popped) /\ popped.failed \in BOOLEAN
    BY <1>0, Popped
  <1>2. popped.failed = FALSE /\ ListLen(n) = Push(popped, v)
    BY <1>1 DEF ListLen, Then
  <1>3. Good(v, W)
    BY SimpleValues, SimpleIsGood
  <1> HIDE DEF v
  <1>4. Does(n, Push(popped, v), base, Len(<<"list">>), 1)
    BY <1>0, <1>2, <1>3, PopPushDoes
  <1> QED
    BY <1>0, <1>2, <1>4

LEMMA ItemGood ==
    ASSUME NEW n, Sound(n), NEW base \in Nat, NEW W, Alive(n, base, W), base + 2 <= Len(n.stack),
           Fits("list", Arg(n, 2)), HasItem(n, Arg(n, 2), Arg(n, 1))
    PROVE Good(ListItem(n, Arg(n, 2), Arg(n, 1)), W)
  <1>1. Arg(n, 2)[2] \in W.lists
    BY ArgGood DEF Fits, Good
  <1> DEFINE items == n.lists[Arg(n, 2)[2]]
             k == Arg(n, 1)[2]
  <1>2. ListGood(items, W)
    BY <1>1 DEF Alive, HeapGood
  <1>3. k \in 0 .. Len(items) - 1
    BY DEF HasItem
  <1> HIDE DEF items, k
  <1>4. k + 1 \in 1 .. Len(items) /\ Good(items[k + 1], W)
    BY <1>2, <1>3 DEF ListGood, IsSeq
  <1> QED
    BY <1>4 DEF ListItem, items, k

LEMMA ListGetDoes ==
    ASSUME NEW n, Sound(n), NEW base \in Nat, NEW W, Alive(n, base, W), base + 2 <= Len(n.stack),
           ListGet(n).failed = FALSE
    PROVE Does(n, ListGet(n), base, 2, 1)
  <1> DEFINE types == <<"int", "list">>
             popped == Pop(n, types)
             v == ListItem(n, Arg(n, 2), Arg(n, 1))
  <1>0. Len(types) = 2 /\ Len(types) \in Nat /\ types[2] = "list"
    BY Operands
  <1>1. Sound(popped) /\ popped.failed \in BOOLEAN
    BY <1>0, Popped
  <1>2. popped.failed = FALSE /\ HasItem(n, Arg(n, 2), Arg(n, 1)) /\ ListGet(n) = Push(popped, v)
    BY <1>1, FailedIs DEF ListGet
  <1> HIDE DEF types
  <1>3. Fits("list", Arg(n, 2))
    <2>1. 2 \in 1 .. Len(types)
      BY <1>0
    <2>2. Fits(types[2], Arg(n, 2))
      BY <1>0, <1>2, <2>1, PopFits
    <2> QED
      BY <1>0, <2>2
  <1>4. Good(v, W)
    BY <1>2, <1>3, ItemGood
  <1> HIDE DEF v
  <1>5. Does(n, Push(popped, v), base, Len(types), 1)
    BY <1>0, <1>2, <1>4, PopPushDoes
  <1> QED
    BY <1>0, <1>2, <1>5

LEMMA BinaryDoes ==
    ASSUME NEW n, Sound(n), NEW base, NEW W, Alive(n, base, W), NEW op, Binary(n, op).failed = FALSE
    PROVE Does(n, Binary(n, op), base, 2, 1)
  <1> DEFINE types == <<"any", "any">>
             popped == Pop(n, types)
  <1>0. Len(types) = 2 /\ Len(types) \in Nat
    BY Operands
  <1>1. Sound(popped) /\ popped.failed \in BOOLEAN
    BY <1>0, Popped
  <1>2. popped.failed = FALSE /\ \E x : Binary(n, op) \in {Push(popped, IntVal(x)), Push(popped, BoolVal(x))}
    BY <1>1, FailedIs DEF Binary
  <1>3. PICK v : Simple(v) /\ Binary(n, op) = Push(popped, v)
    BY <1>2, SimpleValues
  <1> HIDE DEF types
  <1>4. Good(v, W)
    BY <1>3, SimpleIsGood
  <1>5. Does(n, Push(popped, v), base, Len(types), 1)
    BY <1>0, <1>2, <1>3, <1>4, PopPushDoes
  <1> QED
    BY <1>0, <1>3, <1>5

-----------------------------------------------------------------------------
(* What is made at run time: strings, records and lists.                   *)
Keeps(n, p) == p.stack = n.stack /\ p.frames = n.frames

LEMMA DoesFrom ==
    ASSUME NEW n, NEW p, Keeps(n, p), NEW q, NEW base, NEW out, NEW in, Does(p, q, base, out, in)
    PROVE Does(n, q, base, out, in)
  BY DEF Keeps, Does, SameFrames

LEMMA AliveWider ==
    ASSUME NEW n, NEW base, NEW W, Alive(n, base, W), NEW V, Within(W, V),
           V.recs = W.recs, V.lists = W.lists, V.texts \subseteq n.texts
    PROVE Alive(n, base, V)
  <1>1. StateGood(n.state, V) /\ StackGood(n.stack, base, V) /\ FramesGood(n.frames, V)
    BY GoodGrows DEF Alive
  <1>2. HeapGood(n.recs, n.lists, V)
    BY GoodGrows DEF Alive, HeapGood
  <1> QED
    BY <1>1, <1>2 DEF Alive

LEMMA InternAlive ==
    ASSUME NEW n, Sound(n), NEW base, NEW W, Alive(n, base, W), NEW t,
           Intern(n, t).failed = FALSE
    PROVE /\ Keeps(n, Intern(n, t)) /\ Sound(Intern(n, t))
          /\ \E V : Within(W, V) /\ Alive(Intern(n, t), base, V) /\ Good(TextVal(t), V)
  <1> DEFINE p == Intern(n, t)
             V == [texts |-> p.texts, recs |-> W.recs, lists |-> W.lists]
  <1>1. Sound(p)
    BY InternKeeps DEF Kept
  <1>2. /\ p.state = n.state /\ p.recs = n.recs /\ p.lists = n.lists /\ p.stack = n.stack
        /\ p.frames = n.frames /\ n.texts \subseteq p.texts
        /\ t \in Image.strings \/ t \in p.texts
    <2>1. CASE p = n /\ t \in Image.strings \cup n.texts
      BY <2>1
    <2>2. CASE p = [n EXCEPT !.texts = n.texts \cup {t}]
      BY <2>2 DEF Sound, Fields
    <2> QED
      BY <2>1, <2>2, FailedIs DEF Intern
  <1> HIDE DEF p
  <1>3. V.texts = p.texts /\ V.recs = W.recs /\ V.lists = W.lists
    OBVIOUS
  <1> HIDE DEF V
  <1>4. Alive(p, base, W)
    BY <1>2 DEF Alive
  <1>5. Within(W, V)
    BY <1>3, <1>4 DEF Within, Alive
  <1>6. Alive(p, base, V)
    BY <1>3, <1>4, <1>5, AliveWider
  <1>7. Good(TextVal(t), V)
    BY <1>2, <1>3 DEF Good, TextVal, Type
  <1> QED
    BY <1>1, <1>2, <1>5, <1>6, <1>7 DEF Keeps, p

LEMMA AllocRecordsFields ==
    ASSUME NEW n, Sound(n), NEW fields, NEW k
    PROVE LET p == AllocRecords(n, fields, k) IN
          /\ p.state = n.state /\ p.stack = n.stack /\ p.frames = n.frames /\ p.texts = n.texts
          /\ p.lists = n.lists /\ p.nextList = n.nextList
          /\ p.recs = [r \in 0 .. MaxRecs - 1 |->
                          IF r \in {(n.nextRec + j) % MaxRecs : j \in 0 .. k - 1} THEN fields
                          ELSE n.recs[r]]
  BY DEF AllocRecords, Sound, Fields

LEMMA AllocRecordsAlive ==
    ASSUME NEW n, Sound(n), NEW base, NEW W, Alive(n, base, W), NEW fields, NEW k \in Nat,
           k # 0 => RecordGood(fields, W)
    PROVE /\ Keeps(n, AllocRecords(n, fields, k)) /\ Sound(AllocRecords(n, fields, k))
          /\ AllocRecords(n, fields, k).nextList = n.nextList
          /\ \E V : /\ Within(W, V) /\ Alive(AllocRecords(n, fields, k), base, V)
                    /\ \A j \in 0 .. k - 1 : (n.nextRec + j) % MaxRecs \in V.recs
  <1> DEFINE p == AllocRecords(n, fields, k)
             fresh == {(n.nextRec + j) % MaxRecs : j \in 0 .. k - 1}
             V == [texts |-> W.texts, recs |-> W.recs \cup fresh, lists |-> W.lists]
  <1>1. Sound(p)
    BY AllocRecordsKeeps DEF Kept
  <1>2. /\ p.state = n.state /\ p.stack = n.stack /\ p.frames = n.frames /\ p.texts = n.texts
        /\ p.lists = n.lists /\ p.nextList = n.nextList
        /\ p.recs = [r \in 0 .. MaxRecs - 1 |-> IF r \in fresh THEN fields ELSE n.recs[r]]
    BY AllocRecordsFields
  <1>3. fresh \subseteq 0 .. MaxRecs - 1 /\ (fresh # {} => k # 0)
    BY Numbers DEF Sound
  <1>4. \A j \in 0 .. k - 1 : (n.nextRec + j) % MaxRecs \in fresh
    OBVIOUS
  <1> HIDE DEF p, fresh
  <1>5. V.texts = W.texts /\ V.recs = W.recs \cup fresh /\ V.lists = W.lists
    OBVIOUS
  <1> HIDE DEF V
  <1>6. Within(W, V)
    BY <1>5 DEF Within
  <1>7. StateGood(p.state, V) /\ StackGood(p.stack, base, V) /\ FramesGood(p.frames, V)
    BY <1>2, <1>6, GoodGrows DEF Alive
  <1>8. HeapGood(p.recs, p.lists, V)
    <2>1. ASSUME NEW r \in V.recs PROVE RecordGood(p.recs[r], V)
      <3>1. r \in 0 .. MaxRecs - 1
        BY <1>3, <1>5 DEF Alive, HeapGood
      <3>2. CASE r \in fresh
        BY <1>2, <1>3, <1>6, <3>1, <3>2, GoodGrows
      <3>3. CASE r \notin fresh
        <4>1. RecordGood(n.recs[r], W)
          BY <1>5, <3>3 DEF Alive, HeapGood
        <4> QED
          BY <1>2, <1>6, <3>1, <3>3, <4>1, GoodGrows
      <3> QED
        BY <3>2, <3>3
    <2>2. \A l \in V.lists : ListGood(p.lists[l], V)
      BY <1>2, <1>5, <1>6, GoodGrows DEF Alive, HeapGood
    <2> QED
      BY <1>3, <1>5, <2>1, <2>2 DEF Alive, HeapGood
  <1>9. Alive(p, base, V)
    BY <1>2, <1>5, <1>7, <1>8 DEF Alive
  <1> QED
    BY <1>1, <1>2, <1>4, <1>5, <1>6, <1>9 DEF Keeps, p

LEMMA AllocListFields ==
    ASSUME NEW n, Sound(n), NEW items
    PROVE LET p == AllocList(n, items) IN
          /\ p.state = n.state /\ p.stack = n.stack /\ p.frames = n.frames /\ p.texts = n.texts
          /\ p.recs = n.recs /\ p.nextRec = n.nextRec
          /\ p.lists = [n.lists EXCEPT ![n.nextList] = items]
  BY DEF AllocList, Sound, Fields

LEMMA AllocListAlive ==
    ASSUME NEW n, Sound(n), NEW base, NEW W, Alive(n, base, W), NEW items, ListGood(items, W)
    PROVE /\ Keeps(n, AllocList(n, items)) /\ Sound(AllocList(n, items))
          /\ AllocList(n, items).nextRec = n.nextRec
          /\ \E V : /\ Within(W, V) /\ Alive(AllocList(n, items), base, V)
                    /\ n.nextList \in V.lists
  <1> DEFINE p == AllocList(n, items)
             V == [texts |-> W.texts, recs |-> W.recs, lists |-> W.lists \cup {n.nextList}]
  <1>1. Sound(p)
    BY AllocListKeeps DEF Kept
  <1>2. /\ p.state = n.state /\ p.stack = n.stack /\ p.frames = n.frames /\ p.texts = n.texts
        /\ p.recs = n.recs /\ p.nextRec = n.nextRec
        /\ p.lists = [n.lists EXCEPT ![n.nextList] = items]
    BY AllocListFields
  <1> HIDE DEF p
  <1>3. V.texts = W.texts /\ V.recs = W.recs /\ V.lists = W.lists \cup {n.nextList}
    OBVIOUS
  <1> HIDE DEF V
  <1>4. Within(W, V)
    BY <1>3 DEF Within
  <1>5. StateGood(p.state, V) /\ StackGood(p.stack, base, V) /\ FramesGood(p.frames, V)
    BY <1>2, <1>4, GoodGrows DEF Alive
  <1>6. n.nextList \in 0 .. MaxLists - 1 /\ DOMAIN n.lists = 0 .. MaxLists - 1
    BY DEF Sound
  <1>7. HeapGood(p.recs, p.lists, V)
    <2>1. ASSUME NEW l \in V.lists PROVE ListGood(p.lists[l], V)
      <3>1. CASE l = n.nextList
        BY <1>2, <1>4, <1>6, <3>1, GoodGrows
      <3>2. CASE l # n.nextList
        <4>1. l \in 0 .. MaxLists - 1 /\ ListGood(n.lists[l], W)
          BY <1>3, <3>2 DEF Alive, HeapGood
        <4> QED
          BY <1>2, <1>4, <1>6, <3>2, <4>1, GoodGrows
      <3> QED
        BY <3>1, <3>2
    <2>2. \A r \in V.recs : RecordGood(p.recs[r], V)
      BY <1>2, <1>3, <1>4, GoodGrows DEF Alive, HeapGood
    <2> QED
      BY <1>3, <1>6, <2>1, <2>2 DEF Alive, HeapGood
  <1>8. Alive(p, base, V)
    BY <1>2, <1>3, <1>5, <1>7 DEF Alive
  <1> QED
    BY <1>1, <1>2, <1>3, <1>4, <1>8 DEF Keeps, p

LEMMA PushRecordDoes ==
    ASSUME NEW n, Sound(n), NEW base, NEW W, Alive(n, base, W), NEW fields, RecordGood(fields, W),
           PushRecord(n, fields).failed = FALSE
    PROVE Does(n, PushRecord(n, fields), base, 0, 1)
  <1> DEFINE p == AllocRecords(n, fields, 1)
             v == <<"record", n.nextRec>>
  <1>1. Keeps(n, p) /\ Sound(p)
    BY AllocRecordsAlive
  <1>2. PICK V : Alive(p, base, V) /\ \A j \in 0 .. 1 - 1 : (n.nextRec + j) % MaxRecs \in V.recs
    BY AllocRecordsAlive
  <1>3. n.nextRec \in V.recs
    <2>1. n.nextRec \in 0 .. MaxRecs - 1 /\ MaxRecs \in Nat \ {0}
      BY Numbers DEF Sound
    <2>2. (n.nextRec + 0) % MaxRecs = n.nextRec /\ 0 \in 0 .. 1 - 1
      BY <2>1
    <2> QED
      BY <1>2, <2>2
  <1>4. Good(v, V)
    BY <1>3 DEF Good, Type
  <1>5. Push(p, v).failed = FALSE /\ PushRecord(n, fields) = Push(p, v)
    BY DEF PushRecord
  <1> HIDE DEF p, v
  <1>6. Does(p, Push(p, v), base, 0, 1)
    BY <1>1, <1>2, <1>4, <1>5, PushDoes
  <1> QED
    BY <1>1, <1>5, <1>6, DoesFrom

-----------------------------------------------------------------------------
(* What a builtin gives back.                                              *)
LEMMA FieldsGood ==
    ASSUME NEW shape, NEW a, NEW W,
           shape.texts # {} \/ (shape.optTexts # {} /\ a.some) => Good(TextVal(a.text), W)
    PROVE RecordGood(FieldsOf(shape, a), W)
  <1> DEFINE names == shape.bools \cup shape.ints \cup shape.texts \cup shape.optTexts \cup shape.handles
  <1>1. Good(BoolVal(a.flag), W) /\ Good(IntVal(a.number), W) /\ Good(Null, W)
        /\ Good(Handle(a.number), W)
    BY SimpleValues, SimpleIsGood
  <1>2. shape.optTexts # {} => Good(OptText(a), W)
    BY <1>1 DEF OptText
  <1>3. ASSUME NEW f \in names PROVE Good(FieldsOf(shape, a)[f], W)
    BY <1>1, <1>2 DEF FieldsOf
  <1>4. DOMAIN FieldsOf(shape, a) = names
    BY DEF FieldsOf
  <1> HIDE DEF names
  <1> QED
    BY <1>3, <1>4 DEF RecordGood

LEMMA WithFieldGood ==
    ASSUME NEW fields, NEW name, NEW v, NEW W, RecordGood(fields, W), Good(v, W)
    PROVE RecordGood(WithField(fields, name, v), W)
  BY DEF WithField, RecordGood

LEMMA ItemsAre ==
    ASSUME NEW a, a.count \in Nat
    PROVE Items(a) \in Nat /\ (Items(a) # 0 => a.count > 0)
  <1>1. MaxItems \in Nat
    BY VmLimits
  <1> QED
    BY <1>1 DEF Items

LEMMA ListIs ==
    ASSUME NEW items, NEW k \in Nat, NEW W, DOMAIN items = 1 .. k,
           items = [i \in 1 .. k |-> items[i]], \A i \in 1 .. k : Good(items[i], W)
    PROVE ListGood(items, W)
  <1> DEFINE S == {items[i] : i \in 1 .. k}
  <1>1. items \in [1 .. k -> S]
    OBVIOUS
  <1> HIDE DEF S
  <1>2. items \in Seq(S)
    BY <1>1, SeqDef
  <1>3. Len(items) \in Nat /\ DOMAIN items = 1 .. Len(items)
    BY <1>2, LenProperties
  <1>4. Len(items) = k
    BY <1>3
  <1> QED
    BY <1>3, <1>4 DEF ListGood, IsSeq

LEMMA TextItemsGood ==
    ASSUME NEW a, a.count \in Nat, NEW W, a.count > 0 => Good(TextVal(a.text), W)
    PROVE ListGood(TextItems(a), W)
  <1> DEFINE items == TextItems(a)
  <1>1. items = [i \in 1 .. Items(a) |-> TextVal(a.text)]
    BY DEF TextItems
  <1> HIDE DEF items
  <1>2. Items(a) \in Nat /\ (Items(a) # 0 => a.count > 0)
    BY ItemsAre
  <1>3. \A i \in 1 .. Items(a) : Good(items[i], W)
    <2> SUFFICES ASSUME NEW i \in 1 .. Items(a) PROVE Good(items[i], W)
      OBVIOUS
    <2>1. a.count > 0
      BY <1>2
    <2> QED
      BY <1>1, <2>1
  <1>4. DOMAIN items = 1 .. Items(a) /\ items = [i \in 1 .. Items(a) |-> items[i]]
    BY <1>1
  <1>5. ListGood(items, W)
    BY <1>2, <1>3, <1>4, ListIs
  <1> QED
    BY <1>5 DEF items

LEMMA PushListDoes ==
    ASSUME NEW n, Sound(n), NEW base, NEW W, Alive(n, base, W), NEW items, ListGood(items, W)
    PROVE /\ Push(AllocList(n, items), <<"list", n.nextList>>).failed = FALSE
                => Does(n, Push(AllocList(n, items), <<"list", n.nextList>>), base, 0, 1)
          /\ \A fields, name :
                /\ RecordGood(fields, W)
                /\ PushRecord(AllocList(n, items), WithField(fields, name, <<"list", n.nextList>>)).failed = FALSE
                => Does(n, PushRecord(AllocList(n, items), WithField(fields, name, <<"list", n.nextList>>)), base, 0, 1)
  <1> DEFINE p == AllocList(n, items)
             v == <<"list", n.nextList>>
  <1>1. Keeps(n, p) /\ Sound(p)
    BY AllocListAlive
  <1>2. PICK V : Within(W, V) /\ Alive(p, base, V) /\ n.nextList \in V.lists
    BY AllocListAlive
  <1>3. Good(v, V)
    BY <1>2 DEF Good, Type
  <1> HIDE DEF p, v
  <1>4. Push(p, v).failed = FALSE => Does(n, Push(p, v), base, 0, 1)
    BY <1>1, <1>2, <1>3, PushDoes, DoesFrom
  <1>5. ASSUME NEW fields, NEW name, RecordGood(fields, W),
               PushRecord(p, WithField(fields, name, v)).failed = FALSE
        PROVE Does(n, PushRecord(p, WithField(fields, name, v)), base, 0, 1)
    <2>1. RecordGood(WithField(fields, name, v), V)
      BY <1>2, <1>3, <1>5, GoodGrows, WithFieldGood
    <2>2. Does(p, PushRecord(p, WithField(fields, name, v)), base, 0, 1)
      BY <1>1, <1>2, <1>5, <2>1, PushRecordDoes
    <2> QED
      BY <1>1, <2>2, DoesFrom
  <1> QED
    BY <1>4, <1>5 DEF p, v

\* The entries of a page, then the list of them.
Lists(n, base, W, gives, a, V) ==
    /\ Within(W, V) /\ Alive(AllocRecords(n, FieldsOf(gives.entry, a), Items(a)), base, V)
    /\ ListGood(RecordItems(n, a), V)

LEMMA EntriesAlive ==
    ASSUME NEW n, Sound(n), NEW base, NEW W, Alive(n, base, W), NEW gives, NEW a, a.count \in Nat,
           a.count > 0 => RecordGood(FieldsOf(gives.entry, a), W)
    PROVE /\ Keeps(n, AllocRecords(n, FieldsOf(gives.entry, a), Items(a)))
          /\ Sound(AllocRecords(n, FieldsOf(gives.entry, a), Items(a)))
          /\ AllocRecords(n, FieldsOf(gives.entry, a), Items(a)).nextList = n.nextList
          /\ \E V : Lists(n, base, W, gives, a, V)
  <1> DEFINE fields == FieldsOf(gives.entry, a)
             k == Items(a)
             p == AllocRecords(n, fields, k)
             items == RecordItems(n, a)
  <1>1. k \in Nat /\ (k # 0 => RecordGood(fields, W))
    BY ItemsAre
  <1>2. items = [i \in 1 .. k |-> <<"record", (n.nextRec + i - 1) % MaxRecs>>]
    BY DEF RecordItems
  <1> HIDE DEF fields, k, items
  <1>3. Keeps(n, p) /\ Sound(p) /\ p.nextList = n.nextList
    BY <1>1, AllocRecordsAlive
  <1>4. PICK V : /\ Within(W, V) /\ Alive(p, base, V)
                 /\ \A j \in 0 .. k - 1 : (n.nextRec + j) % MaxRecs \in V.recs
    BY <1>1, AllocRecordsAlive
  <1> HIDE DEF p
  <1>5. \A i \in 1 .. k : Good(items[i], V)
    <2> SUFFICES ASSUME NEW i \in 1 .. k PROVE Good(items[i], V)
      OBVIOUS
    <2>1. i - 1 \in 0 .. k - 1 /\ n.nextRec + i - 1 = n.nextRec + (i - 1)
      BY <1>1, Numbers DEF Sound
    <2>2. (n.nextRec + i - 1) % MaxRecs \in V.recs
      BY <1>4, <2>1
    <2> QED
      BY <1>2, <2>2 DEF Good, Type
  <1>6. DOMAIN items = 1 .. k /\ items = [i \in 1 .. k |-> items[i]]
    BY <1>2
  <1>7. ListGood(items, V)
    BY <1>1, <1>5, <1>6, ListIs
  <1> QED
    BY <1>3, <1>4, <1>7 DEF Lists, p, fields, k, items

LEMMA PageDoes ==
    ASSUME NEW n, Sound(n), NEW base, NEW W, Alive(n, base, W), NEW gives, NEW a, a.count \in Nat,
           a.count > 0 => RecordGood(FieldsOf(gives.entry, a), W)
    PROVE /\ Push(WithEntries(n, gives, a), <<"list", n.nextList>>).failed = FALSE
                => Does(n, Push(WithEntries(n, gives, a), <<"list", n.nextList>>), base, 0, 1)
          /\ \A fields, name :
                /\ RecordGood(fields, W)
                /\ PushRecord(WithEntries(n, gives, a), WithField(fields, name, <<"list", n.nextList>>)).failed = FALSE
                => Does(n, PushRecord(WithEntries(n, gives, a), WithField(fields, name, <<"list", n.nextList>>)), base, 0, 1)
  <1> DEFINE p == AllocRecords(n, FieldsOf(gives.entry, a), Items(a))
             items == RecordItems(n, a)
             q == AllocList(p, items)
             v == <<"list", p.nextList>>
  <1>1. Keeps(n, p) /\ Sound(p) /\ p.nextList = n.nextList
    BY EntriesAlive
  <1>2. PICK V : Within(W, V) /\ Alive(p, base, V) /\ ListGood(items, V)
    <2>1. \E V : Lists(n, base, W, gives, a, V)
      BY EntriesAlive
    <2> QED
      BY <2>1 DEF Lists
  <1>3. WithEntries(n, gives, a) = q /\ v = <<"list", n.nextList>>
    BY <1>1 DEF WithEntries
  <1> HIDE DEF p, items
  <1>4. Push(q, v).failed = FALSE => Does(p, Push(q, v), base, 0, 1)
    BY <1>1, <1>2, PushListDoes
  <1>5. ASSUME NEW fields, NEW name, RecordGood(fields, W),
               PushRecord(q, WithField(fields, name, v)).failed = FALSE
        PROVE Does(p, PushRecord(q, WithField(fields, name, v)), base, 0, 1)
    <2>1. RecordGood(fields, V)
      BY <1>2, <1>5, GoodGrows
    <2> QED
      BY <1>1, <1>2, <1>5, <2>1, PushListDoes
  <1> HIDE DEF q, v
  <1> QED
    BY <1>1, <1>3, <1>4, <1>5, DoesFrom

Given(gives) == IF gives.what = "nothing" THEN 0 ELSE 1

LEMMA GiveDoes ==
    ASSUME NEW n, Sound(n), NEW base, NEW W, Alive(n, base, W),
           NEW gives, gives.what \in What \ {"item"}, gives.entry.optTexts = {},
           NEW a, a.count \in Nat, UsesText(gives, a) => Good(TextVal(a.text), W),
           Give(n, gives, a).failed = FALSE
    PROVE Does(n, Give(n, gives, a), base, 0, Given(gives))
  <1> DEFINE fields == FieldsOf(gives.shape, a)
             list == <<"list", n.nextList>>
             p == Give(n, gives, a)
  <1>1. RecordGood(fields, W)
    <2>1. gives.shape.texts # {} \/ (gives.shape.optTexts # {} /\ a.some) => Good(TextVal(a.text), W)
      BY DEF UsesText
    <2> QED
      BY <2>1, FieldsGood
  <1> HIDE DEF fields
  <1>2. CASE gives.what = "nothing"
    <2>1. p = n /\ Len(n.stack) \in Nat
      BY <1>2, StackIs DEF Give
    <2> QED
      BY <1>2, <2>1 DEF Does, SameFrames, Given
  <1>3. CASE gives.what \in {"bool", "text"}
    <2>1. PICK v : p = Push(n, v) /\ v \in {BoolVal(a.flag), TextVal(a.text)}
                   /\ (v = TextVal(a.text) => UsesText(gives, a))
      BY <1>3 DEF Give, UsesText, BoolVal, TextVal
    <2>2. Good(v, W)
      BY <2>1, SimpleValues, SimpleIsGood
    <2>3. Does(n, Push(n, v), base, 0, 1)
      <3>1. Push(n, v).failed = FALSE
        BY <2>1
      <3> QED
        BY <2>2, <3>1, PushDoes
    <2> QED
      BY <1>3, <2>1, <2>3 DEF Given
  <1>4. CASE gives.what \in {"record", "entry"}
    <2>1. p = PushRecord(n, fields)
      BY <1>4 DEF Give, fields
    <2>2. Does(n, PushRecord(n, fields), base, 0, 1)
      <3>1. PushRecord(n, fields).failed = FALSE
        BY <2>1
      <3> QED
        BY <1>1, <3>1, PushRecordDoes
    <2> QED
      BY <1>4, <2>1, <2>2 DEF Given
  <1>5. CASE gives.what \in {"texts", "lines"}
    <2>1. ListGood(TextItems(a), W)
      <3>1. a.count > 0 => Good(TextVal(a.text), W)
        BY <1>5 DEF UsesText
      <3> QED
        BY <3>1, TextItemsGood
    <2>2. CASE gives.what = "texts"
      <3>1. p = Push(AllocList(n, TextItems(a)), list)
        BY <2>2 DEF Give
      <3>2. Does(n, Push(AllocList(n, TextItems(a)), list), base, 0, 1)
        <4>1. Push(AllocList(n, TextItems(a)), list).failed = FALSE
          BY <3>1
        <4> QED
          BY <2>1, <4>1, PushListDoes
      <3> QED
        BY <2>2, <3>1, <3>2 DEF Given
    <2>3. CASE gives.what = "lines"
      <3>1. p = PushRecord(AllocList(n, TextItems(a)), WithField(fields, "lines", list))
        BY <2>3 DEF Give, fields
      <3>2. Does(n, PushRecord(AllocList(n, TextItems(a)), WithField(fields, "lines", list)), base, 0, 1)
        <4>1. PushRecord(AllocList(n, TextItems(a)), WithField(fields, "lines", list)).failed = FALSE
          BY <3>1
        <4> QED
          BY <1>1, <2>1, <4>1, PushListDoes
      <3> QED
        BY <2>3, <3>1, <3>2 DEF Given
    <2> QED
      BY <1>5, <2>2, <2>3
  <1>6. CASE gives.what \in {"records", "page"}
    <2>1. a.count > 0 => RecordGood(FieldsOf(gives.entry, a), W)
      <3> SUFFICES ASSUME a.count > 0 PROVE RecordGood(FieldsOf(gives.entry, a), W)
        OBVIOUS
      <3>1. gives.entry.texts # {} => Good(TextVal(a.text), W)
        BY DEF UsesText
      <3> QED
        BY <3>1, FieldsGood
    <2>2. CASE gives.what = "records"
      <3>1. p = Push(WithEntries(n, gives, a), list)
        BY <2>2 DEF Give
      <3>2. Does(n, Push(WithEntries(n, gives, a), list), base, 0, 1)
        <4>1. Push(WithEntries(n, gives, a), list).failed = FALSE
          BY <3>1
        <4> QED
          BY <2>1, <4>1, PageDoes
      <3> QED
        BY <2>2, <3>1, <3>2 DEF Given
    <2>3. CASE gives.what = "page"
      <3>1. p = PushRecord(WithEntries(n, gives, a), WithField(fields, "items", list))
        BY <2>3 DEF Give, fields
      <3>2. Does(n, PushRecord(WithEntries(n, gives, a), WithField(fields, "items", list)), base, 0, 1)
        <4>1. PushRecord(WithEntries(n, gives, a), WithField(fields, "items", list)).failed = FALSE
          BY <3>1
        <4> QED
          BY <1>1, <2>1, <4>1, PageDoes
      <3> QED
        BY <2>3, <3>1, <3>2 DEF Given
    <2> QED
      BY <1>6, <2>2, <2>3
  <1> QED
    BY <1>2, <1>3, <1>4, <1>5, <1>6 DEF What

-----------------------------------------------------------------------------
(* The tables: the records of a list have no text that may be missing, and *)
(* only a call whose second operand is a list gives an item of it.         *)
IsGift(gives) == gives.entry.optTexts = {} /\ gives.what # "item"
IsCall(sig) ==
    /\ sig.gives.entry.optTexts = {}
    /\ sig.gives.what = "item" => Len(sig.pops) = 2 /\ sig.pops[2] = "list"
AreCalls(table) == \A name \in DOMAIN table : IsCall(table[name])

LEMMA Gifts ==
    /\ IsGift(Nothing) /\ \A what : what # "item" => IsGift(Plain(what))
    /\ \A shape : IsGift(Record(shape)) /\ IsGift(Lines(shape))
    /\ \A shape, entry : entry.optTexts = {} => IsGift(Page(shape, entry))
    /\ \A what, shape, entry : what # "item" /\ entry.optTexts = {} => IsGift(Gives(what, shape, entry))
  BY DEF IsGift, Nothing, Plain, Record, Lines, Page, Gives, NoShape, Shape

LEMMA Calls ==
    /\ \A pops : IsCall(Silent(pops))
    /\ \A pops, gives : IsGift(gives) => IsCall(Sig(pops, gives)) /\ IsCall(OfStrings(pops, gives))
  BY Gifts DEF IsCall, IsGift, Silent, Sig, OfStrings

LEMMA Entries ==
    /\ NoShape.optTexts = {} /\ AppArmedEntry.optTexts = {}
    /\ BookChapterEntry.optTexts = {} /\ ContentEntry.optTexts = {}
  BY DEF NoShape, AppArmedEntry, BookChapterEntry, ContentEntry, Shape

LEMMA DisplayCalls == AreCalls(DisplayBuiltins)
  BY Calls, Gifts DEF AreCalls, DisplayBuiltins

LEMMA HardwareCalls == AreCalls(HardwareBuiltins)
  BY Calls, Gifts DEF AreCalls, HardwareBuiltins

LEMMA AppCalls == AreCalls(AppBuiltins)
  <1>1. IsCall([Sig(<<"int", "list">>, Plain("item")) EXCEPT !.refuses = FALSE])
    BY Entries DEF IsCall, Sig, Plain, Gives
  <1>2. IsCall(AppBuiltins["app_armed_stack_get"])
    BY <1>1 DEF AppBuiltins
  <1>3. \A name \in {"app_launch", "app_arm", "app_disarm", "app_install", "app_install_metadata"} :
            IsCall(AppBuiltins[name])
    BY Calls, Gifts DEF AppBuiltins
  <1>4. \A name \in {"app_registry_list", "app_registry_get", "app_process_stack",
                     "app_armed_stack"} : IsCall(AppBuiltins[name])
    BY Calls, Gifts, Entries DEF AppBuiltins
  <1>5. DOMAIN AppBuiltins = {"app_launch", "app_arm", "app_disarm", "app_install",
            "app_install_metadata", "app_registry_list", "app_registry_get", "app_process_stack",
            "app_armed_stack", "app_armed_stack_get"}
    BY DEF AppBuiltins
  <1> QED
    BY <1>2, <1>3, <1>4, <1>5 DEF AreCalls

LEMMA ServiceCalls == AreCalls(ServiceBuiltins)
  BY Calls, Gifts DEF AreCalls, ServiceBuiltins

LEMMA WifiCalls == AreCalls(WifiBuiltins)
  BY Calls, Gifts DEF AreCalls, WifiBuiltins

LEMMA ConfigCalls == AreCalls(DeviceConfigBuiltins)
  BY Calls, Gifts DEF AreCalls, DeviceConfigBuiltins

LEMMA ContentCalls == AreCalls(ContentBuiltins)
  BY Calls, Gifts, Entries DEF AreCalls, ContentBuiltins

LEMMA SignatureCalls ==
    ASSUME NEW name \in BuiltinNames
    PROVE IsCall(Signature(name))
  <1>1. \A table \in BuiltinTables : AreCalls(table)
    BY DisplayCalls, HardwareCalls, AppCalls, ServiceCalls, WifiCalls, ConfigCalls, ContentCalls
       DEF BuiltinTables
  <1>2. \E table \in BuiltinTables : name \in DOMAIN table
    BY DEF BuiltinNames
  <1> QED
    BY <1>1, <1>2 DEF Signature, AreCalls

LEMMA TookDoes ==
    ASSUME NEW n, Sound(n), NEW k, NEW p, Took(n, p, k), NEW q, NEW base, NEW in \in Nat,
           Does(p, q, base, 0, in)
    PROVE Does(n, q, base, k, in)
  <1>1. SameFrames(n, q)
    BY DEF Took, Does, SameFrames
  <1>2. Len(n.stack) \in Nat /\ k \in Nat /\ Len(p.stack) = Len(n.stack) - k
    BY StackIs DEF Took
  <1>3. Len(q.stack) = Len(n.stack) - k + in
    BY <1>2 DEF Does
  <1> QED
    BY <1>1, <1>3 DEF Does

LEMMA CallDoes ==
    ASSUME NEW n, Sound(n), NEW base \in Nat, NEW W, Alive(n, base, W), NEW name, NEW a,
           a.count \in Nat, name \in BuiltinNames => base + Arity(name) <= Len(n.stack),
           Call(n, name, a).failed = FALSE
    PROVE name \in BuiltinNames /\ Does(n, Call(n, name, a), base, Arity(name), ResultCount(name))
  <1>1. name \in BuiltinNames
    BY FailedIs DEF Call
  <1> DEFINE sig == Signature(name)
             popped == Pop(n, sig.pops)
             texted == IF UsesText(sig.gives, a) THEN Intern(popped, a.text) ELSE popped
             given == Give(texted, sig.gives, a)
             item == ListItem(n, Arg(n, 2), Arg(n, 1))
             q == Call(n, name, a)
  <1>2. IsSig(sig) /\ IsCall(sig)
    BY <1>1, Signatures, SignatureCalls
  <1>3. Arity(name) = Len(sig.pops) /\ ResultCount(name) = Given(sig.gives)
    BY DEF Arity, ResultCount, Given
  <1>4. Sound(popped) /\ popped.failed \in BOOLEAN
    BY <1>2, Popped DEF IsSig
  <1>5. /\ popped.failed = FALSE
        /\ \/ /\ sig.gives.what = "item" /\ HasItem(n, Arg(n, 2), Arg(n, 1))
              /\ q = Push(popped, item)
           \/ sig.gives.what # "item" /\ q = IF texted.failed THEN texted ELSE given
    BY <1>1, <1>4, FailedIs DEF Call, Then
  <1> HIDE DEF sig, q
  <1>6. Took(n, popped, Len(sig.pops))
    BY <1>2, <1>5, PopTakes DEF IsSig
  <1>7. Alive(popped, base, W)
    BY <1>6, TookAlive
  <1>8. CASE sig.gives.what = "item"
    <2>1. q = Push(popped, item) /\ HasItem(n, Arg(n, 2), Arg(n, 1))
      BY <1>5, <1>8
    <2>2. Len(sig.pops) = 2 /\ sig.pops[2] = "list" /\ 2 \in 1 .. Len(sig.pops)
      BY <1>2, <1>8 DEF IsCall
    <2>3. Fits("list", Arg(n, 2))
      BY <1>2, <1>5, <2>2, PopFits DEF IsSig
    <2>4. base + 2 <= Len(n.stack)
      BY <1>1, <1>3, <2>2
    <2>5. Good(item, W)
      BY <2>1, <2>3, <2>4, ItemGood
    <2> HIDE DEF item
    <2>6. Does(n, Push(popped, item), base, Len(sig.pops), 1)
      BY <1>2, <1>5, <2>1, <2>5, PopPushDoes DEF IsSig, q
    <2> QED
      BY <1>1, <1>3, <1>8, <2>1, <2>6 DEF Given, q
  <1>9. CASE sig.gives.what # "item"
    <2> HIDE DEF popped
    <2>1. texted.failed = FALSE /\ q = given
      <3>1. Sound(texted)
        BY <1>4, InternKeeps DEF Kept
      <3> HIDE DEF texted, given
      <3>2. q = (IF texted.failed THEN texted ELSE given) /\ q.failed = FALSE
        BY <1>5, <1>9 DEF q
      <3>3. texted.failed \in BOOLEAN
        BY <3>1 DEF Sound
      <3> QED
        BY <3>2, <3>3
    <2>2. PICK V : /\ Keeps(popped, texted) /\ Sound(texted) /\ Alive(texted, base, V)
                   /\ UsesText(sig.gives, a) => Good(TextVal(a.text), V)
      <3>1. CASE UsesText(sig.gives, a)
        BY <1>4, <1>7, <2>1, <3>1, InternAlive
      <3>2. CASE ~UsesText(sig.gives, a)
        BY <1>4, <1>7, <3>2 DEF Keeps
      <3> QED
        BY <3>1, <3>2
    <2> HIDE DEF texted
    <2>3. Does(texted, given, base, 0, Given(sig.gives))
      <3>1. sig.gives.what \in What \ {"item"} /\ sig.gives.entry.optTexts = {}
        BY <1>2, <1>9 DEF IsSig, IsCall
      <3>2. given.failed = FALSE
        BY <2>1 DEF q
      <3> QED
        BY <2>2, <3>1, <3>2, GiveDoes
    <2>4. Does(popped, given, base, 0, Given(sig.gives))
      BY <2>2, <2>3, DoesFrom
    <2>5. Does(n, given, base, Len(sig.pops), Given(sig.gives))
      BY <1>6, <2>4, TookDoes DEF Given
    <2> QED
      BY <1>1, <1>3, <2>1, <2>5 DEF q
  <1> QED
    BY <1>8, <1>9

-----------------------------------------------------------------------------
(* The instructions that enter and leave no frame.                         *)
LEMMA AddDoes ==
    ASSUME NEW n, Sound(n), NEW base, NEW W, Alive(n, base, W), Add(n).failed = FALSE
    PROVE Does(n, Add(n), base, 2, 1)
  <1> DEFINE types == <<"any", "any">>
             popped == Pop(n, types)
             text == Arg(n, 2)[2] \o Arg(n, 1)[2]
             joined == Intern(popped, text)
             q == Add(n)
  <1>0. Len(types) = 2 /\ Len(types) \in Nat
    BY Operands
  <1>1. Sound(popped) /\ popped.failed \in BOOLEAN
    BY <1>0, Popped
  <1>2. /\ popped.failed = FALSE
        /\ \/ \E x : q = Push(popped, IntVal(x))
           \/ q = IF joined.failed THEN joined ELSE Push(joined, TextVal(text))
    BY <1>1, FailedIs DEF Add, Then
  <1>3. q.failed = FALSE
    OBVIOUS
  <1> HIDE DEF types, text, q
  <1>4. CASE \E x : q = Push(popped, IntVal(x))
    <2>1. PICK x : q = Push(popped, IntVal(x))
      BY <1>4
    <2>2. Good(IntVal(x), W)
      BY SimpleValues, SimpleIsGood
    <2>3. Does(n, Push(popped, IntVal(x)), base, Len(types), 1)
      BY <1>0, <1>2, <1>3, <2>1, <2>2, PopPushDoes
    <2> QED
      BY <1>0, <2>1, <2>3 DEF q
  <1>5. CASE q = IF joined.failed THEN joined ELSE Push(joined, TextVal(text))
    <2>1. Took(n, popped, 2)
      BY <1>0, <1>2, PopTakes
    <2>2. Alive(popped, base, W)
      BY <2>1, TookAlive
    <2> HIDE DEF popped
    <2>3. joined.failed \in BOOLEAN
      BY <1>1, InternKeeps DEF Kept, Sound
    <2>4. joined.failed = FALSE /\ q = Push(joined, TextVal(text))
      BY <1>3, <1>5, <2>3
    <2>5. Keeps(popped, joined) /\ Sound(joined)
      BY <1>1, <2>2, <2>4, InternAlive
    <2>6. PICK V : Alive(joined, base, V) /\ Good(TextVal(text), V)
      BY <1>1, <2>2, <2>4, InternAlive
    <2> HIDE DEF joined
    <2>7. Does(joined, q, base, 0, 1)
      BY <1>3, <2>4, <2>5, <2>6, PushDoes
    <2>8. Does(popped, q, base, 0, 1)
      BY <2>5, <2>7, DoesFrom
    <2> QED
      BY <2>1, <2>8, TookDoes DEF q
  <1> QED
    BY <1>2, <1>4, <1>5

LEMMA SetStateDoes ==
    ASSUME NEW n, Sound(n), NEW base \in Nat, NEW W, Alive(n, base, W), base + 1 <= Len(n.stack),
           NEW i, SetState(n, i).failed = FALSE
    PROVE Does(n, SetState(n, i), base, 1, 0)
  <1> DEFINE popped == Pop(n, <<"any">>)
             v == Arg(n, 1)
             st == [popped.state EXCEPT ![i] = v]
             q == [popped EXCEPT !.state = st]
  <1>0. Len(<<"any">>) = 1 /\ Len(<<"any">>) \in Nat
    BY Operands
  <1>1. Sound(popped) /\ popped.failed \in BOOLEAN
    BY <1>0, Popped
  <1>2. popped.failed = FALSE /\ SetState(n, i) = q
    BY <1>1, FailedIs DEF SetState
  <1>3. Took(n, popped, 1)
    BY <1>0, <1>2, PopTakes
  <1>4. Alive(popped, base, W)
    BY <1>3, TookAlive
  <1>5. Good(v, W)
    BY ArgGood
  <1> HIDE DEF popped, v
  <1>6. StateGood(st, W)
    BY <1>4, <1>5 DEF Alive, StateGood
  <1> HIDE DEF st
  <1>7. /\ q.state = st /\ q.stack = popped.stack /\ q.frames = popped.frames
        /\ q.recs = popped.recs /\ q.lists = popped.lists /\ q.texts = popped.texts
    BY <1>1 DEF Sound, Fields
  <1> HIDE DEF q
  <1>8. Alive(q, base, W)
    BY <1>4, <1>6, <1>7 DEF Alive
  <1>9. Does(popped, q, base, 0, 0)
    BY <1>1, <1>7, <1>8, StackIs DEF Does, SameFrames
  <1> QED
    BY <1>2, <1>3, <1>9, TookDoes

LEMMA SetLocalDoes ==
    ASSUME NEW n, Sound(n), n.frames # <<>>, NEW base \in Nat, NEW W, Alive(n, base, W),
           base + 1 <= Len(n.stack), NEW i, SetLocal(n, i).failed = FALSE
    PROVE Does(n, SetLocal(n, i), base, 1, 0)
  <1> DEFINE popped == Pop(n, <<"any">>)
             v == Arg(n, 1)
             d == Depth(n)
             f == [popped.frames[d] EXCEPT !.locals[i] = v]
             fs == [popped.frames EXCEPT ![d] = f]
             q == [popped EXCEPT !.frames = fs]
  <1>0. Len(<<"any">>) = 1 /\ Len(<<"any">>) \in Nat
    BY Operands
  <1>1. Sound(popped) /\ popped.failed \in BOOLEAN
    BY <1>0, Popped
  <1>2. popped.failed = FALSE /\ i \in 1 .. MaxLocals /\ SetLocal(n, i) = q
    <2>1. ~(popped.failed \/ i \notin 1 .. MaxLocals)
      BY <1>1, FailedIs DEF SetLocal
    <2> QED
      BY <1>1, <2>1 DEF SetLocal
  <1>3. Took(n, popped, 1)
    BY <1>0, <1>2, PopTakes
  <1>4. Alive(popped, base, W)
    BY <1>3, TookAlive
  <1>5. Good(v, W)
    BY ArgGood
  <1>6. d \in 1 .. Len(popped.frames) /\ Len(popped.frames) \in Nat
        /\ popped.frames \in Seq(ToSet(popped.frames))
    BY <1>3, TopFacts DEF Took, Depth, Sound, FramesOK
  <1>7. IsFrame(popped.frames[d], d)
    BY <1>1, <1>6 DEF Sound, FramesOK
  <1> HIDE DEF popped, v, d
  <1>8. /\ f.chunk = popped.frames[d].chunk /\ f.ip = popped.frames[d].ip
        /\ f.locals = [popped.frames[d].locals EXCEPT ![i] = v]
    BY <1>7 DEF IsFrame
  <1>9. LocalsGood(f.locals, W)
    BY <1>2, <1>4, <1>5, <1>6, <1>8 DEF Alive, FramesGood, LocalsGood
  <1> HIDE DEF f
  <1>10. Len(fs) = Len(popped.frames)
         /\ \A j \in 1 .. Len(popped.frames) : fs[j] = IF j = d THEN f ELSE popped.frames[j]
    <2> DEFINE S == ToSet(popped.frames) \cup {f}
    <2>1. popped.frames \in Seq(S) /\ f \in S
      BY <1>6, SeqMonotonic
    <2> HIDE DEF S
    <2> QED
      BY <1>6, <2>1, ExceptSeq
  <1> HIDE DEF fs
  <1>11. FramesGood(fs, W)
    BY <1>4, <1>9, <1>10 DEF Alive, FramesGood
  <1>12. /\ q.state = popped.state /\ q.stack = popped.stack /\ q.frames = fs
         /\ q.recs = popped.recs /\ q.lists = popped.lists /\ q.texts = popped.texts
    BY <1>1 DEF Sound, Fields
  <1> HIDE DEF q
  <1>13. Alive(q, base, W)
    BY <1>4, <1>11, <1>12 DEF Alive
  <1>14. SameFrames(popped, q)
    BY <1>8, <1>10, <1>12 DEF SameFrames
  <1>15. Does(popped, q, base, 0, 0)
    BY <1>1, <1>12, <1>13, <1>14, StackIs DEF Does
  <1> QED
    BY <1>2, <1>3, <1>15, TookDoes

LEMMA DebugPrintDoes ==
    ASSUME NEW n, Sound(n), NEW base, NEW W, Alive(n, base, W), NEW k \in Nat,
           DebugPrint(n, k).failed = FALSE
    PROVE Does(n, DebugPrint(n, k), base, k, 0)
  <1>1. k <= Len(n.stack) /\ DebugPrint(n, k) = Drop(n, k)
    <2>1. ~(k > Len(n.stack))
      BY FailedIs DEF DebugPrint
    <2>2. Len(n.stack) \in Nat
      BY StackIs
    <2> QED
      BY <2>1, <2>2 DEF DebugPrint
  <1>2. Took(n, Drop(n, k), k)
    BY <1>1, DropTakes
  <1> DEFINE p == Drop(n, k)
  <1>3. Alive(p, base, W)
    BY <1>2, TookAlive
  <1> HIDE DEF p
  <1>4. Len(n.stack) \in Nat /\ Len(p.stack) = Len(n.stack) - k + 0
    BY <1>2, StackIs DEF Took, p
  <1>5. SameFrames(n, p)
    BY <1>2 DEF Took, SameFrames, p
  <1> QED
    BY <1>1, <1>3, <1>4, <1>5 DEF Does, p

LEMMA AppExitDoes ==
    ASSUME NEW n, Sound(n), NEW base, NEW W, Alive(n, base, W), NEW a, AppExit(n, a).failed = FALSE
    PROVE Does(n, AppExit(n, a), base, 0, 0)
  <1> DEFINE p == [n EXCEPT !.exited = TRUE]
  <1>1. AppExit(n, a) = p
    BY FailedIs DEF AppExit
  <1>2. /\ p.state = n.state /\ p.stack = n.stack /\ p.frames = n.frames
        /\ p.recs = n.recs /\ p.lists = n.lists /\ p.texts = n.texts
    BY DEF Sound, Fields
  <1> HIDE DEF p
  <1>3. Alive(p, base, W)
    BY <1>2 DEF Alive
  <1> QED
    BY <1>1, <1>2, <1>3, StackIs DEF Does, SameFrames

Simply == {"Push", "GetState", "SetState", "GetLocal", "SetLocal", "GetField", "Add", "Binary",
           "ListLen", "ListGet", "Call", "AppExit", "DebugPrint", "Pop"}
LEMMA SimplyDoes ==
    ASSUME NEW n, Sound(n), n.frames # <<>>, NEW base \in Nat, NEW W, Alive(n, base, W),
           NEW ins, ins.op \in Simply, CanRun(ins), ins.op = "Push" => IsConstant(ins.v),
           NEW a, a.count \in Nat, base + Takes(ins) <= Len(n.stack),
           Execute(n, ins, a).failed = FALSE
    PROVE Does(n, Execute(n, ins, a), base, Takes(ins), Leaves(ins))
  <1> DEFINE q == Execute(n, ins, a)
  <1>0. q.failed = FALSE
    OBVIOUS
  <1>1. CASE ins.op = "Push"
    <2>1. q = Push(n, ins.v) /\ Takes(ins) = 0 /\ Leaves(ins) = 1
      BY <1>1 DEF Execute, Takes, Leaves
    <2>2. Good(ins.v, W)
      BY <1>1, SimpleValues, SimpleIsGood
    <2> QED
      BY <1>0, <2>1, <2>2, PushDoes
  <1>2. CASE ins.op \in {"GetState", "GetLocal"}
    <2>1. q = (IF ins.op = "GetState" THEN GetState(n, ins.v) ELSE GetLocal(n, ins.v))
          /\ Takes(ins) = 0 /\ Leaves(ins) = 1
      BY <1>2 DEF Execute, Takes, Leaves
    <2> QED
      BY <1>0, <1>2, <2>1, GetStateDoes, GetLocalDoes
  <1>3. CASE ins.op \in {"SetState", "SetLocal"}
    <2>1. q = (IF ins.op = "SetState" THEN SetState(n, ins.v) ELSE SetLocal(n, ins.v))
          /\ Takes(ins) = 1 /\ Leaves(ins) = 0
      BY <1>3 DEF Execute, Takes, Leaves
    <2> QED
      BY <1>0, <1>3, <2>1, SetStateDoes, SetLocalDoes
  <1>4. CASE ins.op \in {"GetField", "ListLen"}
    <2>1. q = (IF ins.op = "GetField" THEN GetField(n, ins.v) ELSE ListLen(n))
          /\ Takes(ins) = 1 /\ Leaves(ins) = 1
      BY <1>4 DEF Execute, Takes, Leaves
    <2> QED
      BY <1>0, <1>4, <2>1, GetFieldDoes, ListLenDoes
  <1>5. CASE ins.op \in {"Add", "Binary", "ListGet"}
    <2>1. q = (IF ins.op = "Add" THEN Add(n) ELSE IF ins.op = "Binary" THEN Binary(n, ins.v) ELSE ListGet(n))
          /\ Takes(ins) = 2 /\ Leaves(ins) = 1
      BY <1>5 DEF Execute, Takes, Leaves
    <2> QED
      BY <1>0, <1>5, <2>1, AddDoes, BinaryDoes, ListGetDoes
  <1>6. CASE ins.op = "Call"
    <2>1. q = Call(n, ins.v, a)
          /\ Takes(ins) = (IF ins.v \in BuiltinNames THEN Arity(ins.v) ELSE 0)
          /\ Leaves(ins) = (IF ins.v \in BuiltinNames THEN ResultCount(ins.v) ELSE 0)
      BY <1>6 DEF Execute, Takes, Leaves
    <2> QED
      BY <1>0, <2>1, CallDoes
  <1>7. CASE ins.op = "AppExit"
    <2>1. q = AppExit(n, a) /\ Takes(ins) = 0 /\ Leaves(ins) = 0
      BY <1>7 DEF Execute, Takes, Leaves
    <2> QED
      BY <1>0, <2>1, AppExitDoes
  <1>8. CASE ins.op = "DebugPrint"
    <2>1. q = DebugPrint(n, ins.v) /\ Takes(ins) = ins.v /\ Leaves(ins) = 0 /\ ins.v \in Nat
      BY <1>8 DEF Execute, Takes, Leaves, CanRun
    <2> QED
      BY <1>0, <2>1, DebugPrintDoes
  <1>9. CASE ins.op = "Pop"
    <2> DEFINE types == <<"any">>
    <2>1. q = Pop(n, types) /\ Takes(ins) = 1 /\ Leaves(ins) = 0
      BY <1>9 DEF Execute, Takes, Leaves
    <2>2. Len(types) = 1 /\ Len(types) \in Nat
      BY Operands
    <2> HIDE DEF types, q
    <2>3. Does(n, q, base, Len(types), 0)
      BY <1>0, <2>1, <2>2, PopDoes
    <2> QED
      BY <2>1, <2>2, <2>3 DEF q
  <1> QED
    BY <1>1, <1>2, <1>3, <1>4, <1>5, <1>6, <1>7, <1>8, <1>9 DEF Simply

-----------------------------------------------------------------------------
(* How high the stack is: each frame has a floor, above which it finds as  *)
(* many operands as its code counts on; a function owes its caller one.    *)
High(f, height) == height[f.chunk][f.ip]
Owed(f) == IF f.chunk[1] = "function" THEN 1 ELSE 0
Deep(n, base, floor, k, height) ==
    /\ floor \in [Nat -> Nat]
    /\ \A d \in 1 .. Len(n.frames) : base <= floor[d]
    /\ \A d \in 1 .. Len(n.frames) - 1 :
           floor[d] + High(n.frames[d], height) <= floor[d + 1] + Owed(n.frames[d + 1])
    /\ floor[Len(n.frames)] + k <= Len(n.stack)
Lives(n, height) ==
    \E base, W, floor :
        base \in Nat /\ Alive(n, base, W) /\ Deep(n, base, floor, High(Top(n), height), height)

LEMMA HighIs ==
    ASSUME NEW height, Balanced(height), NEW n, Sound(n), NEW d \in 1 .. Len(n.frames)
    PROVE High(n.frames[d], height) \in Nat
  <1>1. IsFrame(n.frames[d], d)
    BY DEF Sound, FramesOK
  <1>2. /\ n.frames[d].chunk \in DOMAIN Image.code
        /\ n.frames[d].ip \in 1 .. Len(Image.code[n.frames[d].chunk]) + 1
    BY <1>1 DEF IsFrame
  <1>3. height[n.frames[d].chunk] \in [1 .. Len(Image.code[n.frames[d].chunk]) + 1 -> Nat]
    BY <1>2 DEF Balanced
  <1> QED
    BY <1>2, <1>3 DEF High

LEMMA FramesAre ==
    ASSUME NEW n, Sound(n), n.frames # <<>>
    PROVE /\ Len(n.frames) \in Nat \ {0} /\ Len(n.frames) \in 1 .. Len(n.frames)
          /\ Top(n) = n.frames[Len(n.frames)] /\ Depth(n) = Len(n.frames)
          /\ n.frames \in Seq(ToSet(n.frames))
  BY TopFacts DEF Top, Depth, Sound, FramesOK

\* The frame goes on where its code counts on no more than there is.
LEMMA DeepLives ==
    ASSUME NEW height, Balanced(height), NEW n, Sound(n), n.frames # <<>>, NEW base \in Nat, NEW W,
           Alive(n, base, W), NEW floor, NEW k \in Int, Deep(n, base, floor, k, height),
           High(Top(n), height) <= k
    PROVE Lives(n, height)
  <1>1. Len(n.frames) \in Nat \ {0} /\ High(Top(n), height) \in Nat /\ Len(n.stack) \in Nat
    BY FramesAre, HighIs, StackIs
  <1>2. floor[Len(n.frames)] \in Nat
    BY <1>1 DEF Deep
  <1>3. floor[Len(n.frames)] + High(Top(n), height) <= Len(n.stack)
    <2> DEFINE f == floor[Len(n.frames)]
               h == High(Top(n), height)
               l == Len(n.stack)
    <2>1. f + k <= l
      BY DEF Deep
    <2>2. f \in Nat /\ h \in Nat /\ l \in Nat /\ h <= k
      BY <1>1, <1>2
    <2> HIDE DEF f, h, l
    <2>3. f + h <= l
      BY <2>1, <2>2
    <2> QED
      BY <2>3 DEF f, h, l
  <1>4. Deep(n, base, floor, High(Top(n), height), height)
    BY <1>3 DEF Deep
  <1> QED
    BY <1>4 DEF Lives

LEMMA OperandsThere ==
    ASSUME NEW n, Sound(n), n.frames # <<>>, NEW base \in Nat, NEW floor, NEW k \in Int, NEW height,
           Deep(n, base, floor, k, height)
    PROVE base + k <= Len(n.stack)
  <1>1. Len(n.frames) \in Nat /\ Len(n.frames) \in 1 .. Len(n.frames) /\ Len(n.stack) \in Nat
    BY FramesAre, StackIs
  <1> DEFINE f == floor[Len(n.frames)]
             l == Len(n.stack)
  <1>2. f \in Nat /\ base <= f /\ f + k <= l
    BY <1>1 DEF Deep
  <1>3. l \in Nat
    BY <1>1
  <1> HIDE DEF f, l
  <1>4. base + k <= l
    BY <1>2, <1>3
  <1> QED
    BY <1>4 DEF l

LEMMA SameTop ==
    ASSUME NEW n, Sound(n), n.frames # <<>>, NEW p, SameFrames(n, p)
    PROVE Top(p).chunk = Top(n).chunk /\ Top(p).ip = Top(n).ip
  <1>1. Len(p.frames) = Len(n.frames) /\ Len(n.frames) \in 1 .. Len(n.frames)
    BY FramesAre DEF SameFrames
  <1> QED
    BY <1>1 DEF SameFrames, Top, Depth

LEMMA SameDeep ==
    ASSUME NEW height, NEW n, Sound(n), n.frames # <<>>, NEW base \in Nat, NEW floor, NEW k \in Int,
           Deep(n, base, floor, k, height), NEW p, SameFrames(n, p), NEW l \in Int,
           Len(p.stack) = Len(n.stack) + l
    PROVE Deep(p, base, floor, k + l, height)
  <1>1. Len(p.frames) = Len(n.frames) /\ Len(n.frames) \in Nat \ {0} /\ Len(n.stack) \in Nat
        /\ Len(n.frames) \in 1 .. Len(n.frames)
    BY FramesAre, StackIs DEF SameFrames
  <1>2. \A d \in 1 .. Len(n.frames) : High(p.frames[d], height) = High(n.frames[d], height)
                                      /\ Owed(p.frames[d]) = Owed(n.frames[d])
    BY DEF SameFrames, High, Owed
  <1>3. ASSUME NEW d \in 1 .. Len(p.frames) - 1
        PROVE floor[d] + High(p.frames[d], height) <= floor[d + 1] + Owed(p.frames[d + 1])
    <2>1. d \in 1 .. Len(n.frames) /\ d + 1 \in 1 .. Len(n.frames) /\ d \in 1 .. Len(n.frames) - 1
      BY <1>1
    <2> QED
      BY <1>2, <2>1 DEF Deep
  <1>4. floor[Len(p.frames)] + (k + l) <= Len(p.stack)
    <2>1. floor[Len(n.frames)] \in Nat /\ floor[Len(n.frames)] + k <= Len(n.stack)
      BY <1>1 DEF Deep
    <2> QED
      BY <1>1, <2>1
  <1> QED
    BY <1>1, <1>3, <1>4 DEF Deep

LEMMA DoesLives ==
    ASSUME NEW height, Balanced(height), NEW n, Sound(n), n.frames # <<>>, NEW base \in Nat,
           NEW floor, NEW k \in Int, Deep(n, base, floor, k, height),
           NEW q, Sound(q), NEW out \in Int, NEW in \in Int, Does(n, q, base, out, in),
           High(Top(n), height) <= k - out + in
    PROVE Lives(q, height)
  <1>1. SameFrames(n, q) /\ Len(q.stack) = Len(n.stack) + (in - out)
    BY StackIs DEF Does
  <1>2. PICK W : Alive(q, base, W)
    BY DEF Does
  <1> DEFINE l == in - out
  <1>3. l \in Int /\ Len(q.stack) = Len(n.stack) + l
    BY <1>1
  <1>4. SameFrames(n, q)
    BY <1>1
  <1> HIDE DEF l
  <1>5. Deep(q, base, floor, k + l, height) /\ Top(q).chunk = Top(n).chunk /\ Top(q).ip = Top(n).ip
    <2>1. Deep(q, base, floor, k + l, height)
      BY <1>3, <1>4, SameDeep
    <2>2. Top(q).chunk = Top(n).chunk /\ Top(q).ip = Top(n).ip
      BY <1>4, SameTop
    <2> QED
      BY <2>1, <2>2
  <1>6. Deep(q, base, floor, k + (in - out), height) /\ High(Top(q), height) = High(Top(n), height)
    BY <1>5 DEF High, l
  <1>7. q.frames # <<>>
    <2>1. Len(q.frames) = Len(n.frames) /\ Len(n.frames) \in Nat \ {0} /\ Len(<<>>) = 0
      BY <1>1, FramesAre, EmptySeq DEF SameFrames
    <2> QED
      BY <2>1
  <1>8. k + (in - out) = k - out + in /\ k + (in - out) \in Int
    OBVIOUS
  <1> QED
    BY <1>2, <1>6, <1>7, <1>8, DeepLives

\* The frame on top goes on elsewhere.
LEMMA GoToFrames ==
    ASSUME NEW n, Sound(n), n.frames # <<>>, NEW ip
    PROVE LET q == GoTo(n, ip)
              d == Len(n.frames) IN
          /\ SameHeap(n, q) /\ q.stack = n.stack /\ Len(q.frames) = d
          /\ \A j \in 1 .. d : /\ q.frames[j].chunk = n.frames[j].chunk
                               /\ q.frames[j].locals = n.frames[j].locals
                               /\ j # d => q.frames[j].ip = n.frames[j].ip
          /\ q.frames[d].ip = ip
  <1> DEFINE d == Len(n.frames)
             f == [n.frames[d] EXCEPT !.ip = ip]
             fs == [n.frames EXCEPT ![d] = f]
             q == GoTo(n, ip)
  <1>1. d \in 1 .. d /\ d \in Nat /\ n.frames \in Seq(ToSet(n.frames))
    BY FramesAre
  <1>2. IsFrame(n.frames[d], d)
    BY <1>1 DEF Sound, FramesOK
  <1>3. f.chunk = n.frames[d].chunk /\ f.locals = n.frames[d].locals /\ f.ip = ip
    BY <1>2 DEF IsFrame
  <1>4. q = [n EXCEPT !.frames = fs]
    BY DEF GoTo, Depth
  <1> HIDE DEF f
  <1>5. Len(fs) = d /\ \A j \in 1 .. d : fs[j] = IF j = d THEN f ELSE n.frames[j]
    <2> DEFINE S == ToSet(n.frames) \cup {f}
    <2>1. n.frames \in Seq(S) /\ f \in S
      BY <1>1, SeqMonotonic
    <2> HIDE DEF S
    <2> QED
      BY <1>1, <2>1, ExceptSeq
  <1> HIDE DEF fs
  <1>6. q.frames = fs /\ q.stack = n.stack /\ SameHeap(n, q)
    BY <1>4 DEF Sound, Fields, SameHeap
  <1> HIDE DEF q
  <1> QED
    BY <1>1, <1>3, <1>5, <1>6 DEF q

LEMMA GoToDeep ==
    ASSUME NEW height, NEW n, Sound(n), n.frames # <<>>, NEW base \in Nat, NEW W, Alive(n, base, W),
           NEW floor, NEW k \in Int, Deep(n, base, floor, k, height), NEW ip
    PROVE /\ Alive(GoTo(n, ip), base, W) /\ Deep(GoTo(n, ip), base, floor, k, height)
          /\ Top(GoTo(n, ip)).chunk = Top(n).chunk /\ Top(GoTo(n, ip)).ip = ip
  <1> DEFINE q == GoTo(n, ip)
             d == Len(n.frames)
  <1>1. /\ SameHeap(n, q) /\ q.stack = n.stack /\ Len(q.frames) = d
        /\ \A j \in 1 .. d : /\ q.frames[j].chunk = n.frames[j].chunk
                             /\ q.frames[j].locals = n.frames[j].locals
                             /\ j # d => q.frames[j].ip = n.frames[j].ip
        /\ q.frames[d].ip = ip
    BY GoToFrames
  <1>2. d \in Nat \ {0} /\ Top(n) = n.frames[d]
    BY FramesAre
  <1> HIDE DEF q, d
  <1>3. FramesGood(q.frames, W) /\ StackGood(q.stack, base, W)
    BY <1>1 DEF Alive, FramesGood, d
  <1>4. Alive(q, base, W)
    BY <1>1, <1>3, SameHeapAlive
  <1>5. \A j \in 1 .. d - 1 : High(q.frames[j], height) = High(n.frames[j], height)
    BY <1>1, <1>2 DEF High
  <1>6. \A j \in 1 .. d : Owed(q.frames[j]) = Owed(n.frames[j])
    BY <1>1 DEF Owed
  <1>7. ASSUME NEW j \in 1 .. d - 1
        PROVE floor[j] + High(q.frames[j], height) <= floor[j + 1] + Owed(q.frames[j + 1])
    <2>1. j + 1 \in 1 .. d /\ j \in 1 .. d - 1
      BY <1>2
    <2>2. floor[j] + High(n.frames[j], height) <= floor[j + 1] + Owed(n.frames[j + 1])
      BY <2>1 DEF Deep, d
    <2> QED
      BY <1>5, <1>6, <2>1, <2>2
  <1>8. Deep(q, base, floor, k, height)
    BY <1>1, <1>7 DEF Deep, d
  <1>9. Top(q).chunk = Top(n).chunk /\ Top(q).ip = ip
    BY <1>1, <1>2 DEF Top, Depth
  <1> QED
    BY <1>4, <1>8, <1>9 DEF q


-----------------------------------------------------------------------------
(* A frame is entered: its floor is the stack as it is.                    *)
Entered(n, q, f) ==
    /\ SameHeap(n, q) /\ q.stack = n.stack
    /\ Len(q.frames) = Len(n.frames) + 1 /\ q.frames[Len(n.frames) + 1] = f
    /\ \A d \in 1 .. Len(n.frames) : q.frames[d] = n.frames[d]

LEMMA EnterAlive ==
    ASSUME NEW n, Sound(n), n.frames # <<>>, NEW base, NEW W, Alive(n, base, W),
           NEW q, NEW f, Entered(n, q, f), LocalsGood(f.locals, W)
    PROVE Alive(q, base, W)
  <1>1. Len(n.frames) \in Nat
    BY FramesAre
  <1>2. FramesGood(q.frames, W)
    <2> SUFFICES ASSUME NEW d \in 1 .. Len(q.frames) PROVE LocalsGood(q.frames[d].locals, W)
      BY DEF FramesGood
    <2>1. CASE d = Len(n.frames) + 1
      BY <2>1 DEF Entered
    <2>2. CASE d # Len(n.frames) + 1
      <3>1. d \in 1 .. Len(n.frames)
        BY <1>1, <2>2 DEF Entered
      <3> QED
        BY <3>1 DEF Entered, Alive, FramesGood
    <2> QED
      BY <2>1, <2>2
  <1> QED
    BY <1>2, SameHeapAlive DEF Entered, Alive

LEMMA EnterDeep ==
    ASSUME NEW height, Balanced(height), NEW n, Sound(n), n.frames # <<>>, NEW base \in Nat,
           NEW floor, NEW k \in Nat, Deep(n, base, floor, k, height),
           NEW q, NEW f, Entered(n, q, f), High(Top(n), height) <= k + Owed(f)
    PROVE Deep(q, base, [floor EXCEPT ![Len(n.frames) + 1] = Len(n.stack)], 0, height)
  <1> DEFINE D == Len(n.frames)
             l == Len(n.stack)
             h == High(Top(n), height)
             o == Owed(f)
             new == [floor EXCEPT ![D + 1] = l]
  <1>1. D \in Nat \ {0} /\ D \in 1 .. D /\ Top(n) = n.frames[D]
    BY FramesAre
  <1>2. l \in Nat /\ h \in Nat /\ o \in Nat /\ h <= k + o
    BY <1>1, HighIs, StackIs DEF Owed
  <1>3. floor \in [Nat -> Nat] /\ base <= floor[D] /\ floor[D] + k <= l
    BY <1>1 DEF Deep
  <1>4. /\ q.stack = n.stack /\ Len(q.frames) = D + 1 /\ q.frames[D + 1] = f
        /\ \A d \in 1 .. D : q.frames[d] = n.frames[d]
    BY DEF Entered
  <1>5. \A d \in 1 .. D : base <= floor[d]
    BY DEF Deep
  <1>6. \A d \in 1 .. D - 1 :
            floor[d] + High(n.frames[d], height) <= floor[d + 1] + Owed(n.frames[d + 1])
    BY DEF Deep
  <1>7. High(n.frames[D], height) = h
    BY <1>1
  <1> HIDE DEF D, l, h, o
  <1>8. new \in [Nat -> Nat] /\ new[D + 1] = l /\ \A d \in 1 .. D : new[d] = floor[d]
    <2>1. D + 1 \in Nat /\ \A d \in 1 .. D : d \in Nat /\ d # D + 1
      BY <1>1
    <2>2. DOMAIN floor = Nat
      BY <1>3
    <2> QED
      BY <1>2, <1>3, <2>1, <2>2
  <1> HIDE DEF new
  <1>9. base <= l /\ floor[D] + h <= l + o
    <2> DEFINE fl == floor[D]
    <2>1. fl \in Nat /\ base <= fl /\ fl + k <= l
      BY <1>1, <1>3
    <2> HIDE DEF fl
    <2>2. base <= l /\ fl + h <= l + o
      BY <1>2, <2>1
    <2> QED
      BY <2>2 DEF fl
  <1>10. \A d \in 1 .. D + 1 : base <= new[d]
    <2>1. \A d \in 1 .. D + 1 : d = D + 1 \/ d \in 1 .. D
      BY <1>1
    <2> QED
      BY <1>5, <1>8, <1>9, <2>1
  <1>11. ASSUME NEW d \in 1 .. D
         PROVE new[d] + High(q.frames[d], height) <= new[d + 1] + Owed(q.frames[d + 1])
    <2>1. CASE d = D
      BY <1>1, <1>4, <1>7, <1>8, <1>9, <2>1 DEF o
    <2>2. CASE d # D
      <3>1. d \in 1 .. D - 1 /\ d + 1 \in 1 .. D
        BY <1>1, <2>2
      <3>2. new[d] = floor[d] /\ new[d + 1] = floor[d + 1]
        BY <1>8, <3>1
      <3> QED
        BY <1>4, <1>6, <3>1, <3>2
    <2> QED
      BY <2>1, <2>2
  <1>12. D + 1 - 1 = D /\ l + 0 = l /\ l <= l
    BY <1>1, <1>2
  <1>13. Deep(q, base, new, 0, height)
    <2>1. Len(q.frames) = D + 1 /\ Len(q.frames) - 1 = D /\ q.stack = n.stack
      BY <1>1, <1>4
    <2>2. new[Len(q.frames)] + 0 <= Len(q.stack)
      BY <1>8, <1>12, <2>1 DEF l
    <2>3. \A d \in 1 .. Len(q.frames) : base <= new[d]
      BY <1>10, <2>1
    <2>4. \A d \in 1 .. Len(q.frames) - 1 :
              new[d] + High(q.frames[d], height) <= new[d + 1] + Owed(q.frames[d + 1])
      BY <1>11, <2>1
    <2> QED
      BY <1>8, <2>2, <2>3, <2>4 DEF Deep
  <1> QED
    BY <1>13 DEF new, D, l

LEMMA EnterLives ==
    ASSUME NEW height, Balanced(height), NEW n, Sound(n), n.frames # <<>>, NEW base \in Nat,
           NEW W, Alive(n, base, W), NEW floor, NEW k \in Nat, Deep(n, base, floor, k, height),
           NEW q, NEW f, Entered(n, q, f), LocalsGood(f.locals, W),
           f.chunk \in DOMAIN Image.code, f.ip = 1, High(Top(n), height) <= k + Owed(f)
    PROVE Lives(q, height)
  <1> DEFINE new == [floor EXCEPT ![Len(n.frames) + 1] = Len(n.stack)]
  <1>1. Alive(q, base, W)
    BY EnterAlive
  <1>2. Deep(q, base, new, 0, height)
    BY EnterDeep
  <1>3. Top(q) = f
    BY DEF Top, Depth, Entered
  <1>4. High(Top(q), height) = 0
    BY <1>3 DEF High, Balanced
  <1> QED
    BY <1>1, <1>2, <1>4 DEF Lives

LEMMA FrameIs ==
    ASSUME NEW chunk, NEW depth, NEW W
    PROVE /\ Frame(chunk, depth).chunk = chunk /\ Frame(chunk, depth).ip = 1
          /\ LocalsGood(Frame(chunk, depth).locals, W)
  BY DEF Frame, NoLocals, LocalsGood, Good, Null, Type

LEMMA PushFrameEnters ==
    ASSUME NEW n, Sound(n), NEW chunk, NEW depth, PushFrame(n, chunk, depth).failed = FALSE
    PROVE Entered(n, PushFrame(n, chunk, depth), Frame(chunk, depth))
  <1> DEFINE f == Frame(chunk, depth)
             fs == Append(n.frames, f)
             S == ToSet(n.frames) \cup {f}
  <1>1. PushFrame(n, chunk, depth) = [n EXCEPT !.frames = fs]
    BY FailedIs DEF PushFrame
  <1>2. n.frames \in Seq(S) /\ f \in S
    BY SeqMonotonic DEF Sound, FramesOK
  <1> HIDE DEF f, S
  <1>3. /\ Len(fs) = Len(n.frames) + 1 /\ fs[Len(n.frames) + 1] = f
        /\ \A d \in 1 .. Len(n.frames) : fs[d] = n.frames[d]
    BY <1>2, AppendProperties
  <1> HIDE DEF fs
  <1>4. LET q == [n EXCEPT !.frames = fs] IN
            SameHeap(n, q) /\ q.stack = n.stack /\ q.frames = fs
    BY DEF Sound, Fields, SameHeap
  <1> QED
    BY <1>1, <1>3, <1>4 DEF Entered, f, fs


(* The instructions that enter a frame.                                    *)
LEMMA RefreshScreenLives ==
    ASSUME NEW height, Balanced(height), NEW n, Sound(n), n.frames # <<>>, NEW base \in Nat,
           NEW W, Alive(n, base, W), NEW floor, NEW k \in Nat, Deep(n, base, floor, k, height),
           NEW ins, ins.op = "ScreenRefresh", High(Top(n), height) <= k,
           RefreshScreen(n, ins).failed = FALSE
    PROVE Lives(RefreshScreen(n, ins), height)
  <1> DEFINE chunk == Target(n, ins)
             depth == Top(n).depth + 1
             q == RefreshScreen(n, ins)
             f == Frame(chunk, depth)
  <1>1. Enters(n, ins) /\ q = PushFrame(n, chunk, depth)
    BY FailedIs DEF RefreshScreen
  <1>2. chunk \in DOMAIN Image.code /\ chunk[1] # "function"
    BY <1>1, TargetHasCode DEF Target
  <1> HIDE DEF chunk, depth
  <1>3. q.failed = FALSE
    OBVIOUS
  <1> HIDE DEF q
  <1>4. Entered(n, q, f)
    BY <1>1, <1>3, PushFrameEnters
  <1>5. f.chunk = chunk /\ f.ip = 1 /\ LocalsGood(f.locals, W)
    BY FrameIs
  <1> HIDE DEF f
  <1>6. Owed(f) = 0 /\ High(Top(n), height) <= k + Owed(f)
    <2>1. Owed(f) = 0
      BY <1>2, <1>5 DEF Owed
    <2> QED
      BY <2>1
  <1>7. Lives(q, height)
    BY <1>2, <1>4, <1>5, <1>6, EnterLives
  <1> QED
    BY <1>7 DEF q

LEMMA OpenScreenLives ==
    ASSUME NEW height, Balanced(height), NEW n, Sound(n), n.frames # <<>>, NEW base \in Nat,
           NEW W, Alive(n, base, W), NEW floor, NEW k \in Nat, Deep(n, base, floor, k, height),
           NEW ins, ins.op = "ScreenOpen", k - 1 \in Nat, High(Top(n), height) <= k - 1,
           OpenScreen(n, ins).failed = FALSE
    PROVE Lives(OpenScreen(n, ins), height)
  <1> DEFINE chunk == Target(n, ins)
             depth == Top(n).depth + 1
             popped == Pop(n, <<"literal">>)
             p == [popped EXCEPT !.screen = Arg(n, 1)]
             q == OpenScreen(n, ins)
             f == Frame(chunk, depth)
             types == <<"literal">>
  <1>1. popped.failed = FALSE /\ Enters(n, ins) /\ q = PushFrame(p, chunk, depth)
    <2>1. Sound(popped) /\ popped.failed \in BOOLEAN
      BY Popped, Operands
    <2>2. Sound(p)
      <3> HIDE DEF popped
      <3> QED
        BY <2>1, WithOther DEF Kept
    <2>3. q = IF popped.failed THEN popped ELSE IF ~Enters(n, ins) THEN Fail(p)
              ELSE PushFrame(p, chunk, depth)
      BY DEF OpenScreen
    <2>4. q.failed = FALSE /\ Fail(p).failed = TRUE
      BY <2>2, FailedIs
    <2> HIDE DEF popped, q, p, chunk, depth
    <2> QED
      BY <2>1, <2>3, <2>4
  <1>2. chunk \in DOMAIN Image.code /\ chunk[1] # "function"
    BY <1>1, TargetHasCode DEF Target
  <1> HIDE DEF chunk, depth
  <1>3. q.failed = FALSE
    OBVIOUS
  <1> HIDE DEF q
  <1>4. Len(types) = 1 /\ Len(types) \in Nat
    BY Operands
  <1>5. Took(n, popped, 1) /\ Sound(popped) /\ popped.frames = n.frames
    <2>1. popped = Pop(n, types) /\ Pop(n, types).failed = FALSE
      BY <1>1
    <2> HIDE DEF types, popped
    <2>2. Took(n, Pop(n, types), Len(types)) /\ Sound(Pop(n, types))
      BY <1>4, <2>1, PopTakes, PopKeeps DEF Kept
    <2> QED
      BY <1>4, <2>1, <2>2 DEF Took
  <1> HIDE DEF popped, types
  <1>6. Sound(p) /\ p.frames = popped.frames /\ p.stack = popped.stack
    BY <1>5 DEF Sound, Fields
  <1>7. SameHeap(popped, p)
    BY <1>5 DEF Sound, Fields, SameHeap
  <1> HIDE DEF p
  <1>8. Alive(popped, base, W)
    BY <1>5, TookAlive
  <1>9. Alive(p, base, W)
    BY <1>6, <1>7, <1>8, SameHeapAlive DEF Alive
  <1>10. p.frames = n.frames /\ Len(p.stack) = Len(n.stack) + (-1) /\ SameFrames(n, p)
    BY <1>5, <1>6, StackIs DEF Took, SameFrames
  <1>11. Deep(p, base, floor, k - 1, height) /\ Top(p) = Top(n)
    <2> DEFINE l == -1
    <2>1. l \in Int /\ Len(p.stack) = Len(n.stack) + l /\ k + l = k - 1
      BY <1>10
    <2> HIDE DEF l
    <2>2. Deep(p, base, floor, k + l, height)
      BY <1>10, <2>1, SameDeep
    <2> QED
      BY <1>10, <2>1, <2>2 DEF Top, Depth
  <1>12. Entered(p, q, f)
    BY <1>1, <1>3, <1>6, PushFrameEnters
  <1>13. f.chunk = chunk /\ f.ip = 1 /\ LocalsGood(f.locals, W)
    BY FrameIs
  <1> HIDE DEF f
  <1> DEFINE left == k - 1
  <1>14. left \in Nat /\ Owed(f) = 0 /\ High(Top(p), height) <= left + Owed(f)
    <2>1. Owed(f) = 0
      BY <1>2, <1>13 DEF Owed
    <2> QED
      BY <1>11, <2>1
  <1>15. Deep(p, base, floor, left, height) /\ p.frames # <<>>
    BY <1>10, <1>11
  <1> HIDE DEF left
  <1>16. Lives(q, height)
    BY <1>2, <1>6, <1>9, <1>12, <1>13, <1>14, <1>15, EnterLives
  <1> QED
    BY <1>16 DEF q

LEMMA CallEnters ==
    ASSUME NEW n, Sound(n), n.frames # <<>>, NEW ins, ins.op = "CallFunction", ins.n \in Nat,
           CallFunction(n, ins).failed = FALSE
    PROVE /\ Enters(n, ins) /\ ins.n <= Len(n.stack)
          /\ Entered(Drop(n, ins.n), CallFunction(n, ins),
                     [Frame(Target(n, ins), Top(n).depth + 1) EXCEPT
                          !.locals = [i \in 1 .. MaxLocals |->
                                         IF i <= ins.n
                                         THEN SubSeq(n.stack, Len(n.stack) - ins.n + 1, Len(n.stack))[i]
                                         ELSE Null]])
  <1> DEFINE chunk == Target(n, ins)
             depth == Top(n).depth + 1
             entered == PushFrame(n, chunk, depth)
             args == SubSeq(n.stack, Len(n.stack) - ins.n + 1, Len(n.stack))
             locals == [i \in 1 .. MaxLocals |-> IF i <= ins.n THEN args[i] ELSE Null]
             f == Frame(chunk, depth)
             fs == Append(n.frames, f)
             g == [f EXCEPT !.locals = locals]
             q == CallFunction(n, ins)
             S == ToSet(n.frames) \cup {f, g}
             D == Len(n.frames)
             s == SubSeq(n.stack, 1, Len(n.stack) - ins.n)
             gs == [fs EXCEPT ![D + 1] = g]
  <1>1. Enters(n, ins) /\ ~entered.failed
        /\ q = Drop(SetTop(entered, [Top(entered) EXCEPT !.locals = locals]), ins.n)
    BY FailedIs DEF CallFunction
  <1>2. ins.n <= Len(n.stack)
    BY <1>1 DEF Enters
  <1>3. entered.failed \in BOOLEAN
    <2>1. depth = Depth(n) /\ chunk \in DOMAIN Image.code
      BY <1>1, NextDepth, TargetHasCode
    <2> HIDE DEF chunk, depth
    <2>2. Kept(n, entered)
      BY <2>1, PushFrameKeeps
    <2> QED
      BY <2>2 DEF Kept, Sound
  <1>4. entered = [n EXCEPT !.frames = fs]
    <2>1. entered.failed = FALSE
      BY <1>1, <1>3
    <2> HIDE DEF chunk, depth
    <2> QED
      BY <2>1, FailedIs DEF PushFrame
  <1>5. n.frames \in Seq(S) /\ f \in S /\ g \in S /\ D \in Nat
    <2>1. n.frames \in Seq(ToSet(n.frames)) /\ D \in Nat
      BY FramesAre
    <2> QED
      BY <2>1, SeqMonotonic
  <1> HIDE DEF entered, locals, f, g, S
  <1>6. /\ fs \in Seq(S) /\ Len(fs) = D + 1 /\ fs[D + 1] = f
        /\ \A d \in 1 .. D : fs[d] = n.frames[d]
    BY <1>5, AppendProperties
  <1> HIDE DEF fs, D
  <1>7. Len(gs) = D + 1 /\ gs[D + 1] = g /\ \A d \in 1 .. D : gs[d] = n.frames[d]
    <2>1. D + 1 \in 1 .. Len(fs)
      BY <1>5, <1>6
    <2>2. Len(gs) = Len(fs)
          /\ \A j \in 1 .. Len(fs) : gs[j] = IF j = D + 1 THEN g ELSE fs[j]
      BY <1>5, <1>6, <2>1, ExceptSeq
    <2>3. \A d \in 1 .. D : d \in 1 .. D + 1 /\ d # D + 1
      BY <1>5
    <2> QED
      BY <1>6, <2>1, <2>2, <2>3
  <1>8. entered.frames = fs /\ entered.stack = n.stack
    BY <1>4 DEF Sound, Fields
  <1>9. Depth(entered) = D + 1 /\ Top(entered) = f
    BY <1>6, <1>8 DEF Depth, Top
  <1> HIDE DEF gs
  <1>10. q = [[entered EXCEPT !.frames = gs] EXCEPT !.stack = s]
    <2>1. SetTop(entered, g) = [entered EXCEPT !.frames = gs]
      BY <1>8, <1>9 DEF SetTop, gs
    <2>2. q = Drop(SetTop(entered, g), ins.n)
      BY <1>1, <1>9 DEF g
    <2>3. [entered EXCEPT !.frames = gs].stack = n.stack
      BY <1>4 DEF Sound, Fields
    <2> QED
      BY <2>1, <2>2, <2>3 DEF Drop
  <1>11. Drop(n, ins.n) = [n EXCEPT !.stack = s]
    BY DEF Drop
  <1> HIDE DEF s, q
  <1>12. /\ q.frames = gs /\ q.stack = s
         /\ q.state = n.state /\ q.recs = n.recs /\ q.lists = n.lists /\ q.texts = n.texts
    BY <1>4, <1>10 DEF Sound, Fields
  <1>13. /\ Drop(n, ins.n).stack = s /\ Drop(n, ins.n).frames = n.frames
         /\ SameHeap(n, Drop(n, ins.n))
    <2>1. /\ [n EXCEPT !.stack = s].stack = s /\ [n EXCEPT !.stack = s].frames = n.frames
          /\ SameHeap(n, [n EXCEPT !.stack = s])
      BY FieldsOfStack
    <2> QED
      BY <1>11, <2>1
  <1>14. Entered(Drop(n, ins.n), q, g)
    BY <1>7, <1>12, <1>13 DEF Entered, SameHeap, D
  <1> QED
    BY <1>1, <1>2, <1>14 DEF q, g, f, locals


LEMMA CallFunctionLives ==
    ASSUME NEW height, Balanced(height), NEW n, Sound(n), n.frames # <<>>, NEW base \in Nat,
           NEW W, Alive(n, base, W), NEW floor, NEW k \in Nat, Deep(n, base, floor, k, height),
           NEW ins, ins.op = "CallFunction", ins.n \in Nat, ins.n <= k,
           High(Top(n), height) <= k - ins.n + 1, CallFunction(n, ins).failed = FALSE
    PROVE Lives(CallFunction(n, ins), height)
  <1> DEFINE j == ins.n
             p == Drop(n, j)
             q == CallFunction(n, ins)
             l == Len(n.stack)
             args == SubSeq(n.stack, l - j + 1, l)
             locals == [i \in 1 .. MaxLocals |-> IF i <= j THEN args[i] ELSE Null]
             chunk == Target(n, ins)
             e == Frame(chunk, Top(n).depth + 1)
             f == [e EXCEPT !.locals = locals]
  <1>1. Enters(n, ins) /\ j <= l /\ Entered(p, q, f)
    BY CallEnters
  <1>2. chunk \in DOMAIN Image.code /\ chunk[1] = "function"
    BY <1>1, TargetHasCode DEF Target
  <1>3. f.chunk = chunk /\ f.ip = 1 /\ f.locals = locals
    BY DEF Frame
  <1>4. j \in Nat /\ l \in Nat /\ base + k <= l
    BY StackIs, OperandsThere
  <1>5. \A i \in 1 .. j : Good(args[i], W)
    <2> SUFFICES ASSUME NEW i \in 1 .. j PROVE Good(args[i], W)
      OBVIOUS
    <2> DEFINE S == ToSet(n.stack)
               from == l - j + 1
    <2>1. n.stack \in Seq(S)
      BY StackIs
    <2>6. j <= l /\ i \in 1 .. j
      BY <1>1
    <2> HIDE DEF l, j
    <2>2. from \in Nat /\ from <= l + 1 /\ from \in 1 .. l + 1
      BY <1>4, <2>6
    <2>3. \A x \in from .. l : n.stack[x] \in S
      <3>1. \A x \in from .. l : x \in 1 .. l
        BY <1>4, <2>2
      <3>2. l = Len(n.stack)
        BY DEF l
      <3> HIDE DEF S, from
      <3> QED
        BY <2>1, <3>1, <3>2, ElementOfSeq
    <2>4. from + i - 1 \in 1 .. l /\ base < from + i - 1 /\ i \in 1 .. l - from + 1
      <3>1. j <= k
        BY DEF j
      <3> QED
        BY <1>4, <2>6, <3>1
    <2> HIDE DEF S, from
    <2>5. SubSeq(n.stack, from, l)[i] = n.stack[from + i - 1]
      BY <1>4, <2>1, <2>2, <2>3, <2>4, SubSeqProperties
    <2>7. Good(n.stack[from + i - 1], W)
      BY <2>4 DEF Alive, StackGood, l
    <2> QED
      BY <2>5, <2>7 DEF from
  <1>6. LocalsGood(locals, W)
    <2> HIDE DEF args
    <2>1. \A i \in 1 .. MaxLocals : Good(locals[i], W)
      <3> SUFFICES ASSUME NEW i \in 1 .. MaxLocals PROVE Good(locals[i], W)
        OBVIOUS
      <3>1. CASE i <= j
        <4>1. i \in 1 .. j
          BY <1>4, <3>1
        <4> QED
          BY <1>5, <3>1, <4>1
      <3>2. CASE ~(i <= j)
        BY <3>2 DEF Good, Null, Type
      <3> QED
        BY <3>1, <3>2
    <2> QED
      BY <2>1 DEF LocalsGood
  <1> HIDE DEF locals, f, e, chunk, q, l
  <1>7. Took(n, p, j) /\ Sound(p)
    BY <1>1, <1>4, DropTakes, DropKeeps DEF l, Kept
  <1> HIDE DEF p
  <1>8. Alive(p, base, W)
    BY <1>7, TookAlive
  <1>9. p.frames = n.frames /\ Len(p.stack) = l - j /\ SameFrames(n, p) /\ Top(p) = Top(n)
    BY <1>7 DEF Took, SameFrames, Top, Depth, l
  <1> DEFINE d == -j
             left == k + d
  <1>10. Deep(p, base, floor, left, height)
    <2>1. d \in Int /\ Len(p.stack) = Len(n.stack) + d
      BY <1>4, <1>9 DEF l
    <2> HIDE DEF d, j
    <2>3. SameFrames(n, p) /\ k \in Int
      BY <1>9
    <2>2. Deep(p, base, floor, k + d, height)
      BY <2>1, <2>3, SameDeep
    <2> QED
      BY <2>2
  <1>11. left \in Nat /\ Owed(f) = 1 /\ High(Top(p), height) <= left + Owed(f)
    <2>1. Owed(f) = 1
      BY <1>2, <1>3 DEF Owed
    <2>2. High(Top(n), height) \in Int
      <3>1. Top(n) = n.frames[Len(n.frames)] /\ Len(n.frames) \in 1 .. Len(n.frames)
        BY FramesAre
      <3> QED
        BY <3>1, HighIs
    <2>3. left \in Nat /\ left + 1 = k - j + 1
      BY <1>4
    <2> QED
      BY <1>9, <2>1, <2>2, <2>3
  <1> HIDE DEF left, j
  <1>12. p.frames # <<>>
    BY <1>9
  <1>13. Lives(q, height)
    BY <1>1, <1>2, <1>3, <1>6, <1>7, <1>8, <1>10, <1>11, <1>12, EnterLives
  <1> QED
    BY <1>13 DEF q

(* The frame on top is left: what it did not use stays.                    *)
Below(n) == [n EXCEPT !.frames = SubSeq(@, 1, Len(@) - 1)]

LEMMA BelowIs ==
    ASSUME NEW n, Sound(n), n.frames # <<>>
    PROVE /\ Sound(Below(n)) /\ SameHeap(n, Below(n)) /\ Below(n).stack = n.stack
          /\ Len(Below(n).frames) = Len(n.frames) - 1
          /\ \A d \in 1 .. Len(n.frames) - 1 : Below(n).frames[d] = n.frames[d]
  <1> DEFINE k == Len(n.frames) - 1
             S == ToSet(n.frames)
             fs == SubSeq(n.frames, 1, k)
  <1>1. n.frames \in Seq(S) /\ Len(n.frames) \in Nat \ {0} /\ Len(n.frames) <= MaxDepth + 1
    BY EmptySeq DEF Sound, FramesOK
  <1>2. \A i \in 1 .. k : n.frames[i] \in S
    BY <1>1, ElementOfSeq
  <1>3. k \in Nat
    BY <1>1
  <1>4. fs \in Seq(S) /\ Len(fs) = k /\ \A i \in 1 .. k : fs[i] = n.frames[i]
    <2>1. /\ fs \in Seq(S) /\ Len(fs) = IF 1 <= k THEN k - 1 + 1 ELSE 0
          /\ \A i \in 1 .. k - 1 + 1 : fs[i] = n.frames[1 + i - 1]
      BY <1>2, <1>3, SubSeqProperties
    <2> HIDE DEF fs, k
    <2>2. \A i \in 1 .. k : i \in 1 .. k - 1 + 1 /\ 1 + i - 1 = i
      BY <1>3
    <2>3. Len(fs) = k
      BY <1>3, <2>1
    <2> QED
      BY <2>1, <2>2, <2>3
  <1>5. Below(n) = [n EXCEPT !.frames = fs]
    BY DEF Below
  <1> HIDE DEF fs, S
  <1>6. FramesOK(fs)
    <2>1. fs \in Seq(ToSet(fs))
      BY <1>4, Ranged
    <2>2. Len(fs) <= MaxDepth + 1
      BY <1>1, <1>4, Numbers
    <2>3. \A i \in 1 .. Len(fs) : IsFrame(fs[i], i)
      BY <1>1, <1>4 DEF Sound, FramesOK
    <2> QED
      BY <2>1, <2>2, <2>3 DEF FramesOK
  <1>7. Sound([n EXCEPT !.frames = fs])
    BY <1>6, WithFrames DEF Kept
  <1>8. LET q == [n EXCEPT !.frames = fs] IN
            SameHeap(n, q) /\ q.stack = n.stack /\ q.frames = fs
    BY DEF Sound, Fields, SameHeap
  <1> QED
    BY <1>4, <1>5, <1>7, <1>8

LEMMA LeaveLives ==
    ASSUME NEW height, Balanced(height), NEW n, Sound(n), n.frames # <<>>, NEW base \in Nat,
           NEW W, Alive(n, base, W), NEW floor, NEW k \in Nat, Deep(n, base, floor, k, height),
           NEW v, Good(v, W), CompleteFrame(n, v).failed = FALSE,
           CompleteFrame(n, v).frames # <<>>
    PROVE Lives(CompleteFrame(n, v), height)
  <1> DEFINE D == Len(n.frames)
             c == D - 1
             below == Below(n)
             q == CompleteFrame(n, v)
             o == Owed(n.frames[D])
             l == Len(n.stack)
  <1>1. /\ Sound(below) /\ SameHeap(n, below) /\ below.stack = n.stack /\ Len(below.frames) = c
        /\ \A d \in 1 .. c : below.frames[d] = n.frames[d]
    BY BelowIs
  <1>2. D \in Nat \ {0} /\ c \in Nat /\ l \in Nat /\ Top(n) = n.frames[D]
    BY FramesAre, StackIs
  <1>3. q = IF Top(n).chunk[1] = "function" /\ c > 0 THEN Push(below, v) ELSE below
    BY <1>1 DEF CompleteFrame, Below, Depth
  <1>4. q.failed = FALSE /\ q.frames # <<>> /\ Sound(q)
    BY CompleteFrameKeeps DEF Kept
  <1> HIDE DEF below, q
  <1>5. Alive(below, base, W)
    <2>1. FramesGood(below.frames, W)
      <3>1. \A d \in 1 .. c : d \in 1 .. D
        BY <1>2
      <3> QED
        BY <1>1, <3>1 DEF Alive, FramesGood
    <2> QED
      BY <1>1, <2>1, SameHeapAlive DEF Alive
  <1>6. q.frames = below.frames /\ Alive(q, base, W) /\ (c > 0 => Len(q.stack) = l + o)
    <2>1. CASE Top(n).chunk[1] = "function" /\ c > 0
      <3>1. o = 1
        BY <1>2, <2>1 DEF Owed
      <3>2. q = Push(below, v)
        BY <1>3, <2>1
      <3>3. Alive(q, base, W) /\ q.frames = below.frames /\ Len(q.stack) = Len(below.stack) + 1
        <4>1. Sound(below) /\ Push(below, v).failed = FALSE
          BY <1>1, <1>4, <3>2
        <4>2. Alive(Push(below, v), base, W) /\ Push(below, v).frames = below.frames
              /\ Len(Push(below, v).stack) = Len(below.stack) + 1
          BY <1>5, <4>1, PushAlive
        <4> QED
          BY <3>2, <4>2
      <3> QED
        BY <1>1, <3>1, <3>3
    <2>2. CASE ~(Top(n).chunk[1] = "function" /\ c > 0)
      <3>1. q = below
        BY <1>3, <2>2
      <3>2. c > 0 => o = 0
        BY <1>2, <2>2 DEF Owed
      <3>3. l + 0 = l
        BY <1>2
      <3> QED
        BY <1>1, <1>5, <3>1, <3>2, <3>3
    <2> QED
      BY <2>1, <2>2
  <1>7. c > 0 /\ c \in 1 .. D - 1
    <2>1. q.frames \in Seq(ToSet(q.frames)) /\ Len(q.frames) = c
      BY <1>1, <1>4, <1>6 DEF Sound, FramesOK
    <2>2. c # 0
      BY <1>4, <2>1, EmptySeq
    <2> HIDE DEF D
    <2>3. c > 0 /\ c <= D - 1
      BY <1>2, <2>2
    <2> QED
      BY <1>2, <2>3
  <1> DEFINE h == High(n.frames[c], height)
             left == Len(q.stack) - floor[c]
  <1>8. h \in Nat /\ High(Top(q), height) = h
    <2>1. c \in 1 .. D /\ c \in 1 .. c
      BY <1>2, <1>7
    <2>2. Top(q) = n.frames[c]
      BY <1>1, <1>6, <2>1 DEF Top, Depth
    <2> QED
      BY <2>1, <2>2, HighIs
  <1>9. /\ floor \in [Nat -> Nat] /\ floor[c] + h <= floor[D] + o /\ floor[D] + k <= l
        /\ \A d \in 1 .. D : base <= floor[d]
        /\ \A d \in 1 .. D - 1 :
               floor[d] + High(n.frames[d], height) <= floor[d + 1] + Owed(n.frames[d + 1])
    <2>1. c + 1 = D
      BY <1>2
    <2> QED
      BY <1>7, <2>1 DEF Deep
  <1>10. /\ left \in Int /\ h <= left
         /\ floor[c] + left <= Len(q.stack)
    <2> DEFINE a == floor[c]
               b == floor[D]
               s == Len(q.stack)
    <2>1. a \in Nat /\ b \in Nat /\ o \in Nat
      BY <1>2, <1>9 DEF Owed
    <2>2. a + h <= b + o /\ b + k <= l /\ s = l + o
      BY <1>6, <1>7, <1>9
    <2> HIDE DEF a, b, s, h, o, l
    <2>3. s - a \in Int /\ h <= s - a /\ a + (s - a) <= s
      BY <1>2, <1>8, <2>1, <2>2
    <2> QED
      BY <2>3 DEF a, s
  <1> HIDE DEF left
  <1>11. Deep(q, base, floor, left, height)
    <2>1. Len(q.frames) = c /\ \A d \in 1 .. c : q.frames[d] = n.frames[d]
      BY <1>1, <1>6
    <2>2. \A d \in 1 .. c - 1 : d \in 1 .. D - 1 /\ d \in 1 .. c /\ d + 1 \in 1 .. c
      BY <1>2
    <2>3. \A d \in 1 .. c : base <= floor[d]
      <3>1. \A d \in 1 .. c : d \in 1 .. D
        BY <1>2
      <3> QED
        BY <1>9, <3>1
    <2>4. \A d \in 1 .. c - 1 :
              floor[d] + High(q.frames[d], height) <= floor[d + 1] + Owed(q.frames[d + 1])
      BY <1>9, <2>1, <2>2
    <2> HIDE DEF c
    <2> QED
      BY <1>9, <1>10, <2>1, <2>3, <2>4 DEF Deep
  <1>12. Lives(q, height)
    BY <1>4, <1>6, <1>8, <1>10, <1>11, DeepLives
  <1> QED
    BY <1>12 DEF q


(* One operand is taken off and the frame goes on, elsewhere or not.       *)
LEMMA PopDeep ==
    ASSUME NEW height, NEW n, Sound(n), n.frames # <<>>, NEW base \in Nat,
           NEW W, Alive(n, base, W), NEW floor, NEW k \in Nat, Deep(n, base, floor, k, height),
           1 <= k, Pop(n, <<"any">>).failed = FALSE
    PROVE /\ Alive(Pop(n, <<"any">>), base, W) /\ Sound(Pop(n, <<"any">>))
          /\ Deep(Pop(n, <<"any">>), base, floor, k - 1, height)
          /\ Pop(n, <<"any">>).frames = n.frames /\ Good(Arg(n, 1), W)
  <1> DEFINE types == <<"any">>
             popped == Pop(n, types)
  <1>1. Len(types) = 1 /\ Len(types) \in Nat
    BY Operands
  <1>2. popped.failed = FALSE
    OBVIOUS
  <1> HIDE DEF types
  <1>3. Took(n, popped, 1) /\ Sound(popped)
    <2>1. Took(n, Pop(n, types), Len(types)) /\ Sound(Pop(n, types))
      BY <1>1, <1>2, PopTakes, PopKeeps DEF Kept
    <2> QED
      BY <1>1, <2>1
  <1> HIDE DEF popped
  <1>4. Alive(popped, base, W)
    BY <1>3, TookAlive
  <1>5. popped.frames = n.frames /\ SameFrames(n, popped) /\ Len(popped.stack) = Len(n.stack) + (-1)
    BY <1>3, StackIs DEF Took, SameFrames
  <1>6. Deep(popped, base, floor, k - 1, height)
    <2> DEFINE l == -1
    <2>1. l \in Int /\ Len(popped.stack) = Len(n.stack) + l /\ k + l = k - 1
      BY <1>5
    <2> HIDE DEF l
    <2>2. SameFrames(n, popped) /\ k \in Int
      BY <1>5
    <2>3. Deep(popped, base, floor, k + l, height)
      BY <2>1, <2>2, SameDeep
    <2> QED
      BY <2>1, <2>3
  <1>7. Good(Arg(n, 1), W)
    <2>1. base + k <= Len(n.stack) /\ Len(n.stack) \in Nat
      BY StackIs, OperandsThere
    <2>2. base + 1 <= Len(n.stack)
      BY <2>1
    <2> QED
      BY <2>2, ArgGood
  <1> QED
    BY <1>3, <1>4, <1>5, <1>6, <1>7 DEF popped, types

LEMMA JumpLives ==
    ASSUME NEW height, Balanced(height), NEW n, Sound(n), n.frames # <<>>, NEW base \in Nat,
           NEW W, Alive(n, base, W), NEW floor, NEW k \in Nat, Deep(n, base, floor, k, height),
           NEW to \in Nat \ {0}, Jump(n, to).failed = FALSE,
           to \in 1 .. Len(Image.code[Top(n).chunk]) + 1 => height[Top(n).chunk][to] <= k
    PROVE Lives(Jump(n, to), height)
  <1> DEFINE q == GoTo(n, to)
  <1>1. ~(to > Len(Image.code[Top(n).chunk]) + 1) /\ Jump(n, to) = q
    BY FailedIs DEF Jump
  <1>2. to \in 1 .. Len(Image.code[Top(n).chunk]) + 1
    BY <1>1, TopFacts
  <1>3. Sound(q) /\ q.frames # <<>>
    BY <1>2, GoToKeeps DEF Kept
  <1>4. Alive(q, base, W) /\ Deep(q, base, floor, k, height)
    BY GoToDeep
  <1>5. Top(q).chunk = Top(n).chunk /\ Top(q).ip = to
    <2>1. /\ SameHeap(n, q) /\ Len(q.frames) = Len(n.frames)
          /\ \A j \in 1 .. Len(n.frames) : q.frames[j].chunk = n.frames[j].chunk
          /\ q.frames[Len(n.frames)].ip = to
      BY GoToFrames
    <2>2. Len(n.frames) \in 1 .. Len(n.frames)
      BY FramesAre
    <2> HIDE DEF q
    <2> QED
      BY <2>1, <2>2 DEF Top, Depth
  <1> HIDE DEF q
  <1>6. High(Top(q), height) <= k
    BY <1>2, <1>5 DEF High
  <1>7. Lives(q, height)
    BY <1>3, <1>4, <1>6, DeepLives
  <1> QED
    BY <1>1, <1>7

LEMMA JumpIfFalseLives ==
    ASSUME NEW height, Balanced(height), NEW n, Sound(n), n.frames # <<>>, NEW base \in Nat,
           NEW W, Alive(n, base, W), NEW floor, NEW k \in Nat, Deep(n, base, floor, k, height),
           NEW to \in Nat \ {0}, 1 <= k, JumpIfFalse(n, to).failed = FALSE,
           High(Top(n), height) <= k - 1,
           to \in 1 .. Len(Image.code[Top(n).chunk]) + 1 => height[Top(n).chunk][to] <= k - 1
    PROVE Lives(JumpIfFalse(n, to), height)
  <1> DEFINE popped == Pop(n, <<"any">>)
             q == JumpIfFalse(n, to)
             left == k - 1
  <1>1. popped.failed = FALSE /\ q \in {popped, Jump(popped, to)}
    <2>1. popped.failed \in BOOLEAN
      BY Popped, Operands
    <2>2. q = IF popped.failed \/ Truthy(Arg(n, 1)) THEN popped ELSE Jump(popped, to)
      BY DEF JumpIfFalse
    <2>3. q.failed = FALSE
      OBVIOUS
    <2> HIDE DEF popped, q
    <2> QED
      BY <2>1, <2>2, <2>3
  <1>2. /\ Alive(popped, base, W) /\ Sound(popped) /\ Deep(popped, base, floor, left, height)
        /\ popped.frames = n.frames
    BY <1>1, PopDeep
  <1>3. left \in Nat
    OBVIOUS
  <1>4. q.failed = FALSE
    OBVIOUS
  <1> HIDE DEF popped, q
  <1>5. popped.frames # <<>> /\ Top(popped) = Top(n)
    BY <1>2 DEF Top, Depth
  <1>6. High(Top(popped), height) <= left
    BY <1>5
  <1>7. to \in 1 .. Len(Image.code[Top(popped).chunk]) + 1 => height[Top(popped).chunk][to] <= left
    BY <1>5
  <1> HIDE DEF left
  <1>8. CASE q = popped
    <2>1. Lives(popped, height)
      BY <1>2, <1>3, <1>5, <1>6, DeepLives
    <2> QED
      BY <1>8, <2>1 DEF q
  <1>9. CASE q = Jump(popped, to)
    <2>1. Lives(Jump(popped, to), height)
      BY <1>2, <1>3, <1>4, <1>5, <1>7, <1>9, JumpLives
    <2> QED
      BY <1>9, <2>1 DEF q
  <1> QED
    BY <1>1, <1>8, <1>9

LEMMA ReturnLives ==
    ASSUME NEW height, Balanced(height), NEW n, Sound(n), n.frames # <<>>, NEW base \in Nat,
           NEW W, Alive(n, base, W), NEW floor, NEW k \in Nat, Deep(n, base, floor, k, height),
           1 <= k, Return(n).failed = FALSE, Return(n).frames # <<>>
    PROVE Lives(Return(n), height)
  <1> DEFINE popped == Pop(n, <<"any">>)
             v == Arg(n, 1)
             q == Return(n)
             left == k - 1
  <1>1. popped.failed = FALSE /\ q = CompleteFrame(popped, v)
    <2>1. popped.failed \in BOOLEAN
      BY Popped, Operands
    <2>2. q = IF popped.failed THEN popped ELSE CompleteFrame(popped, v)
      BY DEF Return, Then
    <2>3. q.failed = FALSE
      OBVIOUS
    <2> HIDE DEF popped, q
    <2> QED
      BY <2>1, <2>2, <2>3
  <1>2. /\ Alive(popped, base, W) /\ Sound(popped) /\ Deep(popped, base, floor, left, height)
        /\ popped.frames = n.frames /\ Good(v, W)
    BY <1>1, PopDeep
  <1>3. left \in Nat
    OBVIOUS
  <1>4. CompleteFrame(popped, v).failed = FALSE /\ CompleteFrame(popped, v).frames # <<>>
    BY <1>1
  <1> HIDE DEF popped, v, left
  <1>5. popped.frames # <<>>
    BY <1>2
  <1>6. Lives(CompleteFrame(popped, v), height)
    BY <1>2, <1>3, <1>4, <1>5, LeaveLives
  <1> QED
    BY <1>1, <1>6


(* Any instruction whose operands its own frame put there.                 *)
LEMMA ExecuteLives ==
    ASSUME NEW height, Balanced(height), NEW n, Sound(n), n.frames # <<>>, NEW base \in Nat,
           NEW W, Alive(n, base, W), NEW floor, NEW k \in Nat, Deep(n, base, floor, k, height),
           NEW ins, CanRun(ins), ins.op = "Push" => IsConstant(ins.v),
           ins.op = "CallFunction" => ins.n \in Nat, NEW a, a.count \in Nat,
           Takes(ins) \in Nat, Leaves(ins) \in Nat, Takes(ins) <= k,
           GoesOn(ins) => High(Top(n), height) <= k - Takes(ins) + Leaves(ins),
           \A to \in 1 .. Len(Image.code[Top(n).chunk]) + 1 :
               JumpsTo(ins, to) => height[Top(n).chunk][to] <= k - Takes(ins),
           Execute(n, ins, a).failed = FALSE, Execute(n, ins, a).frames # <<>>
    PROVE Lives(Execute(n, ins, a), height)
  <1> DEFINE q == Execute(n, ins, a)
  <1>1. Sound(q)
    BY ExecuteKeeps DEF Kept
  <1>2. CASE ins.op \in Simply
    <2>1. base + Takes(ins) <= Len(n.stack)
      <3>1. base + k <= Len(n.stack) /\ Len(n.stack) \in Nat
        BY StackIs, OperandsThere
      <3> DEFINE t == Takes(ins)
      <3> HIDE DEF t
      <3>2. t \in Nat /\ t <= k
        BY DEF t
      <3>3. base + t <= Len(n.stack)
        BY <3>1, <3>2
      <3> QED
        BY <3>3 DEF t
    <2>2. Does(n, q, base, Takes(ins), Leaves(ins))
      BY <1>2, <2>1, SimplyDoes
    <2>3. GoesOn(ins)
      BY <1>2 DEF Simply, GoesOn
    <2> HIDE DEF q
    <2> QED
      BY <1>1, <2>2, <2>3, DoesLives DEF q
  <1>3. CASE ins.op = "Jump"
    <2>1. q = Jump(n, ins.v) /\ Takes(ins) = 0 /\ ins.v \in Nat \ {0}
      BY <1>3 DEF Execute, Takes, CanRun
    <2>2. ins.v \in 1 .. Len(Image.code[Top(n).chunk]) + 1 => height[Top(n).chunk][ins.v] <= k
      BY <1>3, <2>1 DEF JumpsTo
    <2> QED
      BY <2>1, <2>2, JumpLives
  <1>4. CASE ins.op = "JumpIfFalse"
    <2>1. q = JumpIfFalse(n, ins.v) /\ Takes(ins) = 1 /\ Leaves(ins) = 0 /\ ins.v \in Nat \ {0}
      BY <1>4 DEF Execute, Takes, Leaves, CanRun
    <2>2. ins.v \in 1 .. Len(Image.code[Top(n).chunk]) + 1 => height[Top(n).chunk][ins.v] <= k - 1
      BY <1>4, <2>1 DEF JumpsTo
    <2>3. High(Top(n), height) <= k - 1 /\ 1 <= k
      <3>1. GoesOn(ins) /\ k - 1 + 0 = k - 1
        BY <1>4 DEF GoesOn
      <3> QED
        BY <2>1, <3>1
    <2> QED
      BY <2>1, <2>2, <2>3, JumpIfFalseLives
  <1>5. CASE ins.op = "ScreenOpen"
    <2>1. q = OpenScreen(n, ins) /\ Takes(ins) = 1 /\ Leaves(ins) = 0
      BY <1>5 DEF Execute, Takes, Leaves
    <2>2. High(Top(n), height) <= k - 1 /\ k - 1 \in Nat
      <3>1. GoesOn(ins) /\ k - 1 + 0 = k - 1
        BY <1>5 DEF GoesOn
      <3> QED
        BY <2>1, <3>1
    <2> QED
      BY <1>5, <2>1, <2>2, OpenScreenLives
  <1>6. CASE ins.op = "ScreenRefresh"
    <2>1. q = RefreshScreen(n, ins) /\ Takes(ins) = 0 /\ Leaves(ins) = 0
      BY <1>6 DEF Execute, Takes, Leaves
    <2>2. High(Top(n), height) <= k
      <3>1. GoesOn(ins) /\ k - 0 + 0 = k
        BY <1>6 DEF GoesOn
      <3> QED
        BY <2>1, <3>1
    <2> QED
      BY <1>6, <2>1, <2>2, RefreshScreenLives
  <1>7. CASE ins.op = "CallFunction"
    <2>1. q = CallFunction(n, ins) /\ Takes(ins) = ins.n /\ Leaves(ins) = 1
      BY <1>7 DEF Execute, Takes, Leaves
    <2>2. GoesOn(ins)
      BY <1>7 DEF GoesOn
    <2>3. ins.n \in Nat /\ ins.n <= k /\ High(Top(n), height) <= k - ins.n + 1
      BY <1>7, <2>1, <2>2
    <2> QED
      BY <1>7, <2>1, <2>3, CallFunctionLives
  <1>8. CASE ins.op = "Return"
    <2>1. q = Return(n) /\ Takes(ins) = 1
      BY <1>8 DEF Execute, Takes
    <2> QED
      BY <2>1, ReturnLives
  <1>9. CASE ins.op = "Halt"
    <2>1. q = CompleteFrame(n, Null)
      BY <1>9 DEF Execute
    <2>2. Good(Null, W)
      BY DEF Good, Null, Type
    <2> QED
      BY <2>1, <2>2, LeaveLives
  <1>10. CASE ins.op \notin Simply \cup {"Jump", "JumpIfFalse", "ScreenOpen", "ScreenRefresh",
                                         "CallFunction", "Return", "Halt"}
    <2>1. q = Fail(n)
      BY <1>10 DEF Execute, Simply
    <2> QED
      BY <2>1, FailedIs
  <1> QED
    BY <1>2, <1>3, <1>4, <1>5, <1>6, <1>7, <1>8, <1>9, <1>10

(* An instruction is counted and stepped behind before it is executed.     *)
LEMMA SteppedDeep ==
    ASSUME NEW height, NEW n, Sound(n), n.frames # <<>>, NEW base \in Nat, NEW W, Alive(n, base, W),
           NEW floor, NEW k \in Int, Deep(n, base, floor, k, height)
    PROVE Alive(Stepped(n), base, W) /\ Deep(Stepped(n), base, floor, k, height)
  <1> DEFINE counted == [n EXCEPT !.count = n.count + 1]
             ip == Top(n).ip + 1
  <1>1. Sound(counted) /\ counted.frames = n.frames /\ counted.stack = n.stack
        /\ SameHeap(n, counted)
    BY DEF Sound, Fields, SameHeap
  <1>2. Stepped(n) = GoTo(counted, ip)
    BY DEF Stepped
  <1> HIDE DEF counted, ip
  <1>3. Alive(counted, base, W)
    BY <1>1, SameHeapAlive DEF Alive
  <1>4. Deep(counted, base, floor, k, height)
    BY <1>1 DEF Deep
  <1>5. counted.frames # <<>>
    BY <1>1
  <1>6. Alive(GoTo(counted, ip), base, W) /\ Deep(GoTo(counted, ip), base, floor, k, height)
    BY <1>1, <1>3, <1>4, <1>5, GoToDeep
  <1> QED
    BY <1>2, <1>6

LEMMA SteppedTop ==
    ASSUME NEW n, Sound(n), n.frames # <<>>
    PROVE Top(Stepped(n)).chunk = Top(n).chunk /\ Top(Stepped(n)).ip = Top(n).ip + 1
  <1> DEFINE counted == [n EXCEPT !.count = n.count + 1]
             ip == Top(n).ip + 1
             q == GoTo(counted, ip)
             d == Len(n.frames)
  <1>1. Sound(counted) /\ counted.frames = n.frames
    BY DEF Sound, Fields
  <1>2. Stepped(n) = q /\ d \in 1 .. d
    BY FramesAre DEF Stepped
  <1> HIDE DEF counted, ip
  <1>3. /\ Len(q.frames) = Len(counted.frames) /\ q.frames[Len(counted.frames)].ip = ip
        /\ \A j \in 1 .. Len(counted.frames) : q.frames[j].chunk = counted.frames[j].chunk
    <2>1. counted.frames # <<>>
      BY <1>1
    <2> QED
      BY <1>1, <2>1, GoToFrames
  <1> HIDE DEF q
  <1> QED
    BY <1>1, <1>2, <1>3 DEF Top, Depth, ip


-----------------------------------------------------------------------------
(* An event begins, above whatever the stack has from earlier ones.        *)
Lone(height, n, base, W) ==
    Alive(n, base, W) /\ \E floor : Deep(n, base, floor, High(Top(n), height), height)

LEMMA BegunLone ==
    ASSUME NEW height, Balanced(height), NEW n, Sound(n), NEW event \in DOMAIN Image.handlers
    PROVE /\ Len(n.stack) \in Nat
          /\ \E W : Lone(height, Begun(n, event), Len(n.stack), W)
  <1> DEFINE base == Len(n.stack)
             chunk == <<"handler", event>>
             f == Frame(chunk, 0)
             W == [texts |-> StateTexts(n.state), recs |-> {}, lists |-> {}]
             p == Begun(n, event)
             floor == [i \in Nat |-> base]
  <1>1. base \in Nat
    BY StackIs
  <1>2. /\ p.state = n.state /\ p.stack = n.stack /\ p.frames = <<f>>
        /\ p.texts = StateTexts(n.state) /\ p.recs = n.recs /\ p.lists = n.lists
    BY DEF Begun, Sound, Fields
  <1>3. W.texts = StateTexts(n.state) /\ W.recs = {} /\ W.lists = {}
    OBVIOUS
  <1> HIDE DEF p, W
  <1>4. StateGood(p.state, W)
    <2> SUFFICES ASSUME NEW i \in DOMAIN n.state PROVE Good(n.state[i], W)
      BY <1>2 DEF StateGood
    <2>1. Accepts(Image.slots[i], n.state[i]) /\ Image.slots[i].type \in {"int", "bool", "string"}
      BY ImageAssumption DEF Sound, StateOK
    <2>2. Type(n.state[i]) \notin {"record", "list"}
      BY <2>1 DEF Accepts, Null, Type
    <2>3. Type(n.state[i]) = "dynamic" => n.state[i][2] \in StateTexts(n.state)
      BY DEF StateTexts
    <2> QED
      BY <1>3, <2>2, <2>3 DEF Good
  <1>5. StackGood(p.stack, base, W)
    BY <1>1, <1>2 DEF StackGood
  <1>6. f.chunk = chunk /\ f.ip = 1 /\ LocalsGood(f.locals, W)
    BY FrameIs
  <1> HIDE DEF f
  <1>7. Len(p.frames) = 1 /\ p.frames[1] = f /\ Top(p) = f
    BY <1>2 DEF Top, Depth
  <1>8. FramesGood(p.frames, W)
    BY <1>6, <1>7 DEF FramesGood
  <1>9. HeapGood(p.recs, p.lists, W)
    BY <1>3 DEF HeapGood
  <1>10. Alive(p, base, W)
    BY <1>2, <1>3, <1>4, <1>5, <1>8, <1>9 DEF Alive
  <1>11. High(Top(p), height) = 0
    <2>1. chunk \in DOMAIN Image.code
      BY ImageAssumption
    <2> QED
      BY <1>6, <1>7, <2>1 DEF High, Balanced
  <1>12. Deep(p, base, floor, 0, height)
    <2>1. \A d \in 1 .. Len(p.frames) - 1 : FALSE
      BY <1>7
    <2>2. floor \in [Nat -> Nat] /\ \A d \in 1 .. Len(p.frames) : base <= floor[d]
      BY <1>1, <1>7
    <2>3. floor[Len(p.frames)] + 0 <= Len(p.stack)
      BY <1>1, <1>2, <1>7
    <2> HIDE DEF floor
    <2> QED
      BY <2>1, <2>2, <2>3 DEF Deep
  <1> HIDE DEF base, floor
  <1>13. Lone(height, p, base, W)
    BY <1>10, <1>11, <1>12 DEF Lone
  <1> QED
    BY <1>1, <1>13 DEF p, base

(* The payload of an event is a record in its first local.                 *)
LEMMA SetTopFrames ==
    ASSUME NEW n, Sound(n), n.frames # <<>>, NEW f
    PROVE LET q == SetTop(n, f)
              d == Len(n.frames) IN
          /\ SameHeap(n, q) /\ q.stack = n.stack /\ Len(q.frames) = d
          /\ \A j \in 1 .. d : q.frames[j] = IF j = d THEN f ELSE n.frames[j]
  <1> DEFINE d == Len(n.frames)
             fs == [n.frames EXCEPT ![d] = f]
             q == SetTop(n, f)
  <1>1. d \in 1 .. d /\ d \in Nat /\ n.frames \in Seq(ToSet(n.frames))
    BY FramesAre
  <1>2. q = [n EXCEPT !.frames = fs]
    BY DEF SetTop, Depth
  <1>3. Len(fs) = d /\ \A j \in 1 .. d : fs[j] = IF j = d THEN f ELSE n.frames[j]
    <2> DEFINE S == ToSet(n.frames) \cup {f}
    <2>1. n.frames \in Seq(S) /\ f \in S
      BY <1>1, SeqMonotonic
    <2> HIDE DEF S
    <2> QED
      BY <1>1, <2>1, ExceptSeq
  <1> HIDE DEF fs
  <1>4. q.frames = fs /\ q.stack = n.stack /\ SameHeap(n, q)
    BY <1>2 DEF Sound, Fields, SameHeap
  <1> HIDE DEF q
  <1> QED
    BY <1>3, <1>4 DEF q

LEMMA PayloadLone ==
    ASSUME NEW height, NEW n, Sound(n), n.frames # <<>>, NEW base \in Nat, NEW W,
           Lone(height, n, base, W), NEW payload, WithPayload(n, payload).failed = FALSE
    PROVE \E V : Lone(height, WithPayload(n, payload), base, V)
  <1> DEFINE texted == Intern(n, payload.text)
             fields == [x \in payload.fields |-> TextVal(payload.text)]
             stored == AllocRecords(texted, fields, 1)
             v == <<"record", texted.nextRec>>
             f == [Top(stored) EXCEPT !.locals[1] = v]
             q == WithPayload(n, payload)
             D == Len(n.frames)
  <1>0. Alive(n, base, W)
    BY DEF Lone
  <1>1. Sound(texted)
    BY InternKeeps DEF Kept
  <1>2. texted.failed = FALSE /\ q = SetTop(stored, f)
    <2>1. q = IF texted.failed THEN texted ELSE SetTop(stored, f)
      BY DEF WithPayload, Then
    <2>2. texted.failed \in BOOLEAN /\ q.failed = FALSE
      BY <1>1 DEF Sound
    <2> HIDE DEF texted, q
    <2> QED
      BY <2>1, <2>2
  <1>3. Keeps(n, texted)
    BY <1>0, <1>2, InternAlive
  <1>4. PICK V : Within(W, V) /\ Alive(texted, base, V) /\ Good(TextVal(payload.text), V)
    BY <1>0, <1>2, InternAlive
  <1>5. RecordGood(fields, V)
    BY <1>4 DEF RecordGood
  <1> HIDE DEF texted, fields, q
  <1>6. Keeps(texted, stored) /\ Sound(stored)
    BY <1>1, <1>4, <1>5, AllocRecordsAlive
  <1>7. PICK U : /\ Within(V, U) /\ Alive(stored, base, U)
                 /\ \A j \in 0 .. 1 - 1 : (texted.nextRec + j) % MaxRecs \in U.recs
    BY <1>1, <1>4, <1>5, AllocRecordsAlive
  <1>8. Good(v, U)
    <2>1. texted.nextRec \in 0 .. MaxRecs - 1 /\ MaxRecs \in Nat \ {0}
      BY <1>1, Numbers DEF Sound
    <2>2. (texted.nextRec + 0) % MaxRecs = texted.nextRec
      BY <2>1
    <2>3. texted.nextRec \in U.recs
      BY <1>7, <2>2
    <2> QED
      BY <2>3 DEF Good, Type
  <1> HIDE DEF stored, v
  <1>9. stored.frames = n.frames /\ stored.stack = n.stack /\ stored.frames # <<>>
    BY <1>3, <1>6 DEF Keeps
  <1>10. D \in Nat \ {0} /\ D \in 1 .. D /\ Top(n) = n.frames[D] /\ Top(stored) = n.frames[D]
    BY <1>9, FramesAre DEF Top, Depth
  <1>11. /\ SameHeap(stored, q) /\ q.stack = stored.stack /\ Len(q.frames) = D
         /\ \A j \in 1 .. D : q.frames[j] = IF j = D THEN f ELSE n.frames[j]
    <2> HIDE DEF f
    <2> QED
      BY <1>2, <1>6, <1>9, SetTopFrames
  <1>12. f.chunk = Top(n).chunk /\ f.ip = Top(n).ip /\ LocalsGood(f.locals, U)
    <2>1. IsFrame(Top(stored), Depth(stored))
      BY <1>6, <1>9, TopFacts
    <2>2. LocalsGood(Top(stored).locals, U)
      BY <1>7, <1>9, <1>10 DEF Alive, FramesGood
    <2>3. f.locals = [Top(stored).locals EXCEPT ![1] = v] /\ f.chunk = Top(stored).chunk
          /\ f.ip = Top(stored).ip
      BY <2>1 DEF IsFrame
    <2>4. MaxLocals \in Nat \ {0}
      BY VmLimits
    <2> HIDE DEF f
    <2>5. DOMAIN f.locals = 1 .. MaxLocals
          /\ \A i \in 1 .. MaxLocals : f.locals[i] = v \/ f.locals[i] = Top(stored).locals[i]
      BY <2>2, <2>3, <2>4 DEF LocalsGood
    <2> QED
      BY <1>8, <1>10, <2>2, <2>3, <2>5 DEF LocalsGood
  <1> HIDE DEF f
  <1>13. FramesGood(q.frames, U)
    <2> SUFFICES ASSUME NEW d \in 1 .. D PROVE LocalsGood(q.frames[d].locals, U)
      BY <1>11 DEF FramesGood
    <2>1. CASE d = D
      BY <1>11, <1>12, <2>1
    <2>2. CASE d # D
      BY <1>7, <1>9, <1>11, <2>2 DEF Alive, FramesGood
    <2> QED
      BY <2>1, <2>2
  <1>14. Alive(q, base, U)
    BY <1>7, <1>11, <1>13, SameHeapAlive DEF Alive
  <1>15. SameFrames(n, q)
    BY <1>10, <1>11, <1>12 DEF SameFrames
  <1>16. PICK floor : Deep(n, base, floor, High(Top(n), height), height)
    BY DEF Lone
  <1> DEFINE k == High(Top(n), height)
  <1>17. Len(q.frames) = Len(n.frames) /\ q.stack = n.stack
    BY <1>9, <1>11
  <1>18. \A d \in 1 .. Len(n.frames) : High(q.frames[d], height) = High(n.frames[d], height)
                                       /\ Owed(q.frames[d]) = Owed(n.frames[d])
    BY <1>15 DEF SameFrames, High, Owed
  <1>19. Deep(q, base, floor, k, height)
    <2>1. \A d \in 1 .. Len(n.frames) - 1 : d \in 1 .. Len(n.frames) /\ d + 1 \in 1 .. Len(n.frames)
      BY <1>10
    <2>2. Deep(n, base, floor, k, height)
      BY <1>16
    <2> HIDE DEF k
    <2>3. \A d \in 1 .. Len(n.frames) - 1 :
              floor[d] + High(q.frames[d], height) <= floor[d + 1] + Owed(q.frames[d + 1])
      BY <1>18, <2>1, <2>2 DEF Deep
    <2> QED
      BY <1>17, <2>2, <2>3 DEF Deep
  <1>20. High(Top(q), height) = k
    <2>1. Top(q).chunk = Top(n).chunk /\ Top(q).ip = Top(n).ip
      BY <1>15, SameTop
    <2> QED
      BY <2>1 DEF High
  <1>21. Lone(height, q, base, U)
    BY <1>14, <1>19, <1>20 DEF Lone
  <1> QED
    BY <1>21 DEF q


LEMMA StartLives ==
    ASSUME NEW height, Balanced(height), Sound(m), NEW event, NEW payload, Start(event, payload),
           phase' # "idle"
    PROVE Lives(m', height)
  <1> DEFINE begun == Begun(m, event)
             q == Prologue(event, payload)
             base == Len(m.stack)
  <1>1. event \in DOMAIN Image.handlers /\ m' = q /\ phase' = Settled(q)
    BY DEF Start
  <1>2. Sound(q) /\ q.failed = FALSE
    <2>1. Sound(q)
      BY <1>1, PrologueKeeps
    <2>2. ~q.failed
      BY <1>1 DEF Settled
    <2> HIDE DEF q
    <2> QED
      BY <2>1, <2>2 DEF Sound
  <1>3. base \in Nat /\ \E W : Lone(height, begun, base, W)
    BY <1>1, BegunLone
  <1>4. Sound(begun) /\ begun.frames # <<>>
    BY <1>1, BegunSound
  <1>5. q \in {begun, WithPayload(begun, payload)}
    <2>1. q \in {Fail(m), Fail(begun), begun, WithPayload(begun, payload)}
      BY DEF Prologue, Begun
    <2> HIDE DEF q, begun
    <2>2. Fail(m).failed = TRUE /\ Fail(begun).failed = TRUE
      BY <1>4, FailedIs
    <2> QED
      BY <1>2, <2>1, <2>2
  <1> HIDE DEF q, begun, base
  <1>6. \E V : Lone(height, q, base, V)
    <2>1. CASE q = begun
      BY <1>3, <2>1
    <2>2. CASE q = WithPayload(begun, payload)
      <3>1. PICK W : Lone(height, begun, base, W)
        BY <1>3
      <3>2. WithPayload(begun, payload).failed = FALSE
        BY <1>2, <2>2
      <3>3. \E V : Lone(height, WithPayload(begun, payload), base, V)
        BY <1>3, <1>4, <3>1, <3>2, PayloadLone
      <3> QED
        BY <2>2, <3>3
    <2> QED
      BY <1>5, <2>1, <2>2
  <1>7. Lives(q, height)
    BY <1>3, <1>6 DEF Lone, Lives
  <1> QED
    BY <1>1, <1>7

-----------------------------------------------------------------------------
(* A record that is loaded brings its own texts.                           *)
Fed(n, p, base) == Keeps(n, p) /\ \E V : Alive(p, base, V)

LEMMA StateAlive ==
    ASSUME NEW n, Sound(n), NEW base, NEW W, Alive(n, base, W), NEW st, StateGood(st, W)
    PROVE /\ Keeps(n, [n EXCEPT !.state = st]) /\ Alive([n EXCEPT !.state = st], base, W)
  <1> DEFINE p == [n EXCEPT !.state = st]
  <1>1. /\ p.state = st /\ p.stack = n.stack /\ p.frames = n.frames
        /\ p.recs = n.recs /\ p.lists = n.lists /\ p.texts = n.texts
    BY DEF Sound, Fields
  <1> HIDE DEF p
  <1>2. Alive(p, base, W)
    BY <1>1 DEF Alive
  <1> QED
    BY <1>1, <1>2 DEF Keeps, p

LEMMA ApplyEntryFed ==
    ASSUME NEW n, Sound(n), NEW base, NEW W, Alive(n, base, W), NEW e, IsEntry(e),
           ApplyEntry(n, e).failed = FALSE
    PROVE Fed(n, ApplyEntry(n, e), base)
  <1> DEFINE i == CHOOSE j \in SlotsNamed(e.name) : \A k \in SlotsNamed(e.name) : j <= k
             texted == IF e.value[1] = "text" THEN Intern(n, e.value[2]) ELSE n
             v == IF e.value[1] = "text" THEN TextVal(e.value[2]) ELSE e.value
             st == [texted.state EXCEPT ![i] = v]
             stored == [texted EXCEPT !.state = st]
             q == ApplyEntry(n, e)
  <1>1. q = IF n.failed \/ ~Readable(e) THEN Fail(n)
            ELSE IF SlotsNamed(e.name) = {} THEN n
            ELSE IF Image.slots[i].type # e.type \/ Image.slots[i].nullable # e.nullable THEN Fail(n)
            ELSE IF texted.failed THEN texted ELSE stored
    BY DEF ApplyEntry, Then
  <1>2. Sound(texted)
    BY InternKeeps DEF Kept
  <1>3. q = n \/ (texted.failed = FALSE /\ q = stored)
    <2>1. texted.failed \in BOOLEAN /\ q.failed = FALSE /\ Fail(n).failed = TRUE
      BY <1>2, FailedIs DEF Sound
    <2> HIDE DEF texted, q, stored, i
    <2> QED
      BY <1>1, <2>1
  <1>4. CASE q = n
    BY <1>4 DEF Fed, Keeps
  <1>5. CASE texted.failed = FALSE /\ q = stored
    <2>1. PICK V : Keeps(n, texted) /\ Alive(texted, base, V) /\ Good(v, V)
      <3>1. CASE e.value[1] = "text"
        <4>1. texted = Intern(n, e.value[2]) /\ v = TextVal(e.value[2])
          BY <3>1
        <4>2. Intern(n, e.value[2]).failed = FALSE
          BY <1>5, <4>1
        <4> HIDE DEF texted, v
        <4>3. /\ Keeps(n, Intern(n, e.value[2]))
              /\ \E V : Within(W, V) /\ Alive(Intern(n, e.value[2]), base, V)
                        /\ Good(TextVal(e.value[2]), V)
          BY <4>2, InternAlive
        <4> QED
          BY <4>1, <4>3
      <3>2. CASE e.value[1] # "text"
        <4>1. texted = n /\ v = e.value
          BY <3>2
        <4>2. Good(e.value, W)
          BY <3>2 DEF IsEntry, Good, Type
        <4> HIDE DEF texted, v
        <4> QED
          BY <4>1, <4>2 DEF Keeps
      <3> QED
        BY <3>1, <3>2
    <2> HIDE DEF texted, v, i
    <2>2. StateGood(st, V)
      BY <2>1 DEF Alive, StateGood
    <2> HIDE DEF st
    <2>3. Keeps(texted, stored) /\ Alive(stored, base, V)
      BY <1>2, <2>1, <2>2, StateAlive
    <2> HIDE DEF stored
    <2>4. Keeps(n, stored)
      BY <2>1, <2>3 DEF Keeps
    <2>5. Fed(n, stored, base)
      BY <2>3, <2>4 DEF Fed
    <2> QED
      BY <1>5, <2>5 DEF q
  <1> QED
    BY <1>3, <1>4, <1>5

LEMMA RunFeeds ==
    ASSUME NEW n, Sound(n), NEW base, NEW W, Alive(n, base, W), NEW es, IsSeq(es),
           \A i \in DOMAIN es : IsEntry(es[i]), NEW run, RunOf(run, n, es),
           NEW k \in 0 .. Len(es), run[k].failed = FALSE
    PROVE Fed(n, run[k], base)
  <1> DEFINE T == {l \in 0 .. Len(es) : run[l].failed = FALSE /\ ~Fed(n, run[l], base)}
  <1>0. Len(es) \in Nat /\ DOMAIN es = 1 .. Len(es)
    BY DEF IsSeq
  <1> SUFFICES ASSUME T # {} PROVE FALSE
    OBVIOUS
  <1>1. T \in SUBSET Nat
    BY <1>0
  <1>2. PICK l \in T : \A j \in T : ~(j < l)
    <2> HIDE DEF T
    <2> QED
      BY <1>1, LeastNumber
  <1>3. CASE l = 0
    <2>1. run[0] = n
      BY DEF RunOf
    <2> QED
      BY <1>2, <1>3, <2>1 DEF Fed, Keeps
  <1>4. CASE l # 0
    <2> DEFINE p == run[l - 1]
               q == run[l]
    <2>1. l \in 1 .. Len(es) /\ l - 1 \in 0 .. Len(es) /\ l - 1 < l /\ l \in Nat
      BY <1>0, <1>2, <1>4
    <2>2. RunDone(n, es, p, l - 1) /\ q.failed = FALSE
      BY <1>2, <2>1, RunLoads
    <2>3. q = ApplyEntry(p, es[l]) /\ IsEntry(es[l])
      BY <1>0, <2>1 DEF RunOf
    <2>4. p.failed = FALSE => Fed(n, p, base)
      BY <1>2, <2>1
    <2> HIDE DEF p, q
    <2>5. Sound(p)
      BY <2>2 DEF RunDone, Kept
    <2>6. p.failed = FALSE
      BY <2>2, <2>3, <2>5, ApplyEntryDone DEF EntryDone
    <2>7. PICK V : Keeps(n, p) /\ Alive(p, base, V)
      BY <2>4, <2>6 DEF Fed
    <2>8. ApplyEntry(p, es[l]).failed = FALSE
      BY <2>2, <2>3
    <2>9. Fed(p, ApplyEntry(p, es[l]), base)
      BY <2>3, <2>5, <2>7, <2>8, ApplyEntryFed
    <2>10. Fed(n, q, base)
      BY <2>3, <2>7, <2>9 DEF Fed, Keeps
    <2> QED
      BY <1>2, <2>10 DEF q
  <1> QED
    BY <1>3, <1>4

LEMMA SameLives ==
    ASSUME NEW height, NEW n, NEW base \in Nat, NEW floor,
           Deep(n, base, floor, High(Top(n), height), height), NEW p, Keeps(n, p), NEW V, Alive(p, base, V)
    PROVE Lives(p, height)
  <1>1. Top(p) = Top(n) /\ Deep(p, base, floor, High(Top(p), height), height)
    BY DEF Keeps, Top, Depth, Deep
  <1> QED
    BY <1>1 DEF Lives

LEMMA LoadLives ==
    ASSUME NEW height, Sound(m), Lives(m, height), NEW rec, IsRecord(rec),
           ApplyRecord(rec).failed = FALSE
    PROVE Lives(ApplyRecord(rec), height)
  <1> DEFINE es == rec.entries
             p == Folded(m, es)
  <1>1. PICK base, W, floor : /\ base \in Nat /\ Alive(m, base, W)
                              /\ Deep(m, base, floor, High(Top(m), height), height)
    BY DEF Lives
  <1>2. IsSeq(es) /\ \A i \in DOMAIN es : IsEntry(es[i])
    BY DEF IsRecord
  <1> HIDE DEF es
  <1>3. PICK run : RunOf(run, m, es) /\ p = run[Len(es)]
    BY <1>2, EntriesRun
  <1>4. Sound(p)
    BY <1>2, FoldLoads DEF RunDone, Kept
  <1>5. ApplyRecord(rec) = p /\ p.failed = FALSE
    <2>1. ApplyRecord(rec) = IF rec.ok THEN p ELSE Fail(p)
      BY DEF ApplyRecord, Folded, es
    <2> HIDE DEF p
    <2>2. Fail(p).failed = TRUE
      BY <1>4, FailedIs
    <2> QED
      BY <2>1, <2>2
  <1> HIDE DEF p
  <1>6. Fed(m, p, base)
    <2>1. Len(es) \in 0 .. Len(es) /\ run[Len(es)].failed = FALSE
      BY <1>2, <1>3, <1>5 DEF IsSeq
    <2>2. Fed(m, run[Len(es)], base)
      BY <1>1, <1>2, <1>3, <2>1, RunFeeds
    <2> QED
      BY <1>3, <2>2
  <1>7. Lives(p, height)
    BY <1>1, <1>6, SameLives DEF Fed
  <1> QED
    BY <1>5, <1>7


-----------------------------------------------------------------------------
(* One instruction of the frame on top.                                    *)
LEMMA OperandCounts ==
    ASSUME NEW ins, CanRun(ins), ins.op = "CallFunction" => ins.n \in Nat
    PROVE Takes(ins) \in Nat /\ Leaves(ins) \in Nat
  <1>1. ins.v \in BuiltinNames => Arity(ins.v) \in Nat /\ ResultCount(ins.v) \in Nat
    BY Signatures DEF IsSig, Arity, ResultCount
  <1>2. Takes(ins) \in Nat
    BY <1>1 DEF Takes, CanRun
  <1>3. Leaves(ins) \in Nat
    BY <1>1 DEF Leaves
  <1> QED
    BY <1>2, <1>3

LEMMA FetchedIs ==
    ASSUME NEW height, Balanced(height), NEW n, Sound(n), n.frames # <<>>, ~AtEnd(n)
    PROVE LET c == Top(n).chunk
              i == Top(n).ip
              ins == Image.code[c][i]
              left == height[c][i] - Takes(ins) IN
          /\ 0 <= left /\ height[c][i] \in Nat
          /\ GoesOn(ins) => height[c][i + 1] <= left + Leaves(ins)
          /\ \A to \in 1 .. Len(Image.code[c]) + 1 : JumpsTo(ins, to) => height[c][to] <= left
          /\ ins.op = "Push" => IsConstant(ins.v)
  <1> DEFINE c == Top(n).chunk
             i == Top(n).ip
             ins == Image.code[c][i]
  <1>1. c \in DOMAIN Image.code
    BY TopFacts DEF IsFrame
  <1>2. i \in 1 .. Len(Image.code[c]) /\ i \in 1 .. Len(Image.code[c]) + 1
    BY TopFacts DEF IsFrame, AtEnd
  <1>3. DOMAIN Image.code[c] = 1 .. Len(Image.code[c])
    BY <1>1, ImageAssumption DEF IsSeq
  <1> HIDE DEF c, i
  <1>4. ins.op = "Push" => IsConstant(ins.v)
    BY <1>1, <1>2, <1>3, ConstantsAssumption
  <1>5. height[c] \in [1 .. Len(Image.code[c]) + 1 -> Nat]
    BY <1>1 DEF Balanced
  <1>6. /\ 0 <= height[c][i] - Takes(ins)
        /\ GoesOn(ins) => height[c][i + 1] <= height[c][i] - Takes(ins) + Leaves(ins)
        /\ \A to \in 1 .. Len(Image.code[c]) + 1 :
               JumpsTo(ins, to) => height[c][to] <= height[c][i] - Takes(ins)
    BY <1>1, <1>2 DEF Balanced
  <1>7. height[c][i] \in Nat
    BY <1>2, <1>5
  <1> QED
    BY <1>4, <1>6, <1>7 DEF c, i

LEMMA InstructionLives ==
    ASSUME NEW height, Balanced(height), NEW n, Sound(n), n.frames # <<>>, ~AtEnd(n), n.count \in Nat,
           Lives(n, height), NEW ins, ins = Image.code[Top(n).chunk][Top(n).ip],
           NEW a, a.count \in Nat,
           Execute(Stepped(n), ins, a).failed = FALSE, Execute(Stepped(n), ins, a).frames # <<>>
    PROVE Lives(Execute(Stepped(n), ins, a), height)
  <1> DEFINE p == Stepped(n)
             q == Execute(p, ins, a)
             k == High(Top(n), height)
             t == Takes(ins)
             l == Leaves(ins)
  <1>1. PICK base, W, floor : /\ base \in Nat /\ Alive(n, base, W)
                              /\ Deep(n, base, floor, High(Top(n), height), height)
    BY DEF Lives
  <1>2. Sound(p) /\ p.frames # <<>>
    BY SteppedKeeps
  <1>3. CanRun(ins)
    BY FetchedCanRun
  <1>4. ins.op = "CallFunction" => ins.n \in Nat
    <2> SUFFICES ASSUME ins.op = "CallFunction" PROVE ins.n \in Nat
      OBVIOUS
    <2>1. CallFunction(p, ins).failed = FALSE
      BY DEF Execute
    <2> HIDE DEF p
    <2>2. Enters(p, ins)
      BY <1>2, <2>1, FailedIs DEF CallFunction
    <2>3. ins.v \in DOMAIN Image.functions /\ ins.n = Image.functions[ins.v].params
      BY <2>2 DEF Enters
    <2> QED
      BY <2>3, ImageAssumption
  <1>5. t \in Nat /\ l \in Nat
    BY <1>3, <1>4, OperandCounts
  <1>6. /\ k \in Nat /\ 0 <= k - t
        /\ GoesOn(ins) => height[Top(n).chunk][Top(n).ip + 1] <= k - t + l
        /\ \A to \in 1 .. Len(Image.code[Top(n).chunk]) + 1 :
               JumpsTo(ins, to) => height[Top(n).chunk][to] <= k - t
        /\ ins.op = "Push" => IsConstant(ins.v)
    <2>1. LET c == Top(n).chunk
              i == Top(n).ip IN
          /\ 0 <= height[c][i] - Takes(ins) /\ height[c][i] \in Nat
          /\ GoesOn(ins) => height[c][i + 1] <= height[c][i] - Takes(ins) + Leaves(ins)
          /\ \A to \in 1 .. Len(Image.code[c]) + 1 :
                 JumpsTo(ins, to) => height[c][to] <= height[c][i] - Takes(ins)
          /\ ins.op = "Push" => IsConstant(ins.v)
      BY FetchedIs
    <2> QED
      BY <2>1 DEF High
  <1>7. Top(p).chunk = Top(n).chunk /\ Top(p).ip = Top(n).ip + 1
    BY SteppedTop
  <1>8. Alive(p, base, W) /\ Deep(p, base, floor, k, height)
    <2>1. k \in Int
      BY <1>6
    <2> QED
      BY <1>1, <2>1, SteppedDeep
  <1>9. q.failed = FALSE /\ q.frames # <<>>
    OBVIOUS
  <1> HIDE DEF p, k
  <1>10. GoesOn(ins) => High(Top(p), height) <= k - t + l
    BY <1>6, <1>7 DEF High
  <1>11. \A to \in 1 .. Len(Image.code[Top(p).chunk]) + 1 :
             JumpsTo(ins, to) => height[Top(p).chunk][to] <= k - t
    BY <1>6, <1>7
  <1>12. t <= k
    <2> HIDE DEF t
    <2> QED
      BY <1>5, <1>6
  <1>13. ins.op = "Push" => IsConstant(ins.v)
    BY <1>6
  <1>14. Lives(q, height)
    BY <1>1, <1>2, <1>3, <1>4, <1>5, <1>6, <1>8, <1>9, <1>10, <1>11, <1>12, <1>13, ExecuteLives
  <1> QED
    BY <1>14 DEF p

LEMMA SteppedLives ==
    ASSUME NEW height, Balanced(height), NEW n, Sound(n), n.frames # <<>>, ~AtEnd(n), n.count \in Nat,
           Lives(n, height), Stores(Image.code[Top(n).chunk][Top(n).ip])
    PROVE Lives(Stepped(n), height)
  <1> DEFINE ins == Image.code[Top(n).chunk][Top(n).ip]
             p == Stepped(n)
             k == High(Top(n), height)
  <1>1. PICK base, W, floor : /\ base \in Nat /\ Alive(n, base, W)
                              /\ Deep(n, base, floor, High(Top(n), height), height)
    BY DEF Lives
  <1>2. Sound(p) /\ p.frames # <<>>
    BY SteppedKeeps
  <1>3. GoesOn(ins) /\ Takes(ins) = 0 /\ Leaves(ins) = 0
    BY DEF Stores, GoesOn, Takes, Leaves
  <1>4. k \in Nat /\ height[Top(n).chunk][Top(n).ip + 1] <= k - 0 + 0
    BY <1>3, FetchedIs DEF High
  <1>5. Top(p).chunk = Top(n).chunk /\ Top(p).ip = Top(n).ip + 1
    BY SteppedTop
  <1>6. Alive(p, base, W) /\ Deep(p, base, floor, k, height)
    <2>1. k \in Int
      BY <1>4
    <2> QED
      BY <1>1, <2>1, SteppedDeep
  <1> HIDE DEF p, k
  <1>7. High(Top(p), height) <= k /\ k \in Int
    BY <1>4, <1>5 DEF High
  <1>8. Lives(p, height)
    BY <1>1, <1>2, <1>6, <1>7, DeepLives
  <1> QED
    BY <1>8 DEF p

LEMMA ResetLives ==
    ASSUME NEW height, NEW n, Sound(n), Lives(n, height)
    PROVE Lives(ResetState(n), height)
  <1> DEFINE st == [i \in DOMAIN n.state |-> Image.slots[i].default]
             p == [n EXCEPT !.state = st]
  <1>1. PICK base, W, floor : /\ base \in Nat /\ Alive(n, base, W)
                              /\ Deep(n, base, floor, High(Top(n), height), height)
    BY DEF Lives
  <1>2. ResetState(n) = p
    BY DEF ResetState
  <1>3. StateGood(st, W)
    <2> SUFFICES ASSUME NEW i \in DOMAIN Image.slots PROVE Good(Image.slots[i].default, W)
      BY DEF StateGood, Sound, StateOK
    <2>1. IsConstant(Image.slots[i].default)
      BY ConstantsAssumption
    <2> QED
      BY <2>1, SimpleValues, SimpleIsGood
  <1> HIDE DEF st
  <1>4. Keeps(n, p) /\ Alive(p, base, W)
    BY <1>1, <1>3, StateAlive
  <1> HIDE DEF p
  <1>5. Lives(p, height)
    BY <1>1, <1>4, SameLives
  <1> QED
    BY <1>2, <1>5

LEMMA EndLives ==
    ASSUME NEW height, Balanced(height), NEW n, Sound(n), n.frames # <<>>, Lives(n, height),
           CompleteFrame(n, Null).failed = FALSE, CompleteFrame(n, Null).frames # <<>>
    PROVE Lives(CompleteFrame(n, Null), height)
  <1>1. PICK base, W, floor : /\ base \in Nat /\ Alive(n, base, W)
                              /\ Deep(n, base, floor, High(Top(n), height), height)
    BY DEF Lives
  <1>2. Good(Null, W)
    BY DEF Good, Null, Type
  <1>3. High(Top(n), height) \in Nat
    BY FramesAre, HighIs
  <1> QED
    BY <1>1, <1>2, <1>3, LeaveLives

-----------------------------------------------------------------------------
(* The inductive invariant: a machine that runs or waits is alive, with a  *)
(* floor under every frame.                                                *)
LivesInv(height) == phase # "idle" => Lives(m, height)

LEMMA StepLives ==
    ASSUME NEW height, Balanced(height), AppInv, LivesInv(height), RunStep, phase' # "idle"
    PROVE Lives(m', height)
  <1> DEFINE ins == Fetch
             p == Stepped(m)
  <1>1. /\ Sound(m) /\ m.frames # <<>> /\ ~AtEnd(m) /\ m.count \in Nat /\ Lives(m, height)
        /\ ins = Image.code[Top(m).chunk][Top(m).ip]
    BY DEF RunStep, AppInv, LivesInv, Fetch
  <1>2. Sound(m')
    BY AppStepKeeps DEF AppNext, Work, AppInv
  <1>3. CASE Run(ins)
    <2>1. PICK a \in (IF AsksHost(ins) THEN Answers ELSE {NoAnswer}) : m' = Execute(p, ins, a)
      BY <1>3 DEF Run
    <2>2. a.count \in Nat
      <3>1. NoAnswer.count = 0
        BY DEF NoAnswer
      <3> QED
        BY <2>1, <3>1, HostAssumption
    <2>3. m'.failed = FALSE /\ m'.frames # <<>>
      BY <1>2, <1>3 DEF Run, Settled, Sound
    <2>4. Execute(Stepped(m), ins, a).failed = FALSE /\ Execute(Stepped(m), ins, a).frames # <<>>
      BY <2>1, <2>3
    <2> HIDE DEF ins
    <2>5. Lives(Execute(Stepped(m), ins, a), height)
      BY <1>1, <2>2, <2>4, InstructionLives
    <2> QED
      BY <2>1, <2>5
  <1>4. CASE Stores(ins) /\ Ask(ins)
    <2>1. m' = p \/ m' = ResetState(p)
      BY <1>4 DEF Ask, Stores
    <2>2. Lives(p, height)
      BY <1>1, <1>4, SteppedLives
    <2>3. Sound(p)
      BY <1>1, SteppedKeeps
    <2> HIDE DEF p
    <2>4. Lives(ResetState(p), height)
      BY <2>2, <2>3, ResetLives
    <2> QED
      BY <2>1, <2>2, <2>4
  <1> QED
    BY <1>3, <1>4 DEF RunStep, Step

LEMMA StaysLiving ==
    ASSUME NEW height, Balanced(height), AppInv, LivesInv(height), AppNext
    PROVE LivesInv(height)'
  <1> SUFFICES ASSUME phase' # "idle" PROVE Lives(m', height)
    BY DEF LivesInv
  <1>1. CASE \E event \in Events, payload \in Payloads : Start(event, payload)
    <2>1. PICK event \in Events, payload \in Payloads : Start(event, payload)
      BY <1>1
    <2> QED
      BY <2>1, StartLives DEF AppInv
  <1>2. CASE RunStep
    BY <1>2, StepLives
  <1>3. CASE EndFrame
    <2>1. /\ Sound(m) /\ m.frames # <<>> /\ Lives(m, height) /\ m' = CompleteFrame(m, Null)
          /\ Settled(m') # "idle"
      BY <1>3 DEF EndFrame, AppInv, LivesInv
    <2>2. Sound(CompleteFrame(m, Null))
      BY <2>1, CompleteFrameKeeps DEF Kept
    <2>3. CompleteFrame(m, Null).failed = FALSE /\ CompleteFrame(m, Null).frames # <<>>
      BY <2>1, <2>2 DEF Settled, Sound
    <2>4. Lives(CompleteFrame(m, Null), height)
      BY <2>1, <2>3, EndLives
    <2> QED
      BY <2>1, <2>4
  <1>4. CASE LoadDone
    <2>1. /\ Sound(m) /\ Lives(m, height) /\ IsRecord(saved) /\ m' = ApplyRecord(saved)
          /\ Settled(m') # "idle"
      BY <1>4 DEF LoadDone, AppInv, LivesInv
    <2>2. Sound(ApplyRecord(saved))
      BY <2>1, RecordLoads DEF Kept
    <2>3. ApplyRecord(saved).failed = FALSE
      BY <2>1, <2>2 DEF Settled, Sound
    <2>4. Lives(ApplyRecord(saved), height)
      BY <2>1, <2>3, LoadLives
    <2> QED
      BY <2>1, <2>4
  <1>5. CASE SaveDone \/ ResetDone
    BY <1>5 DEF SaveDone, ResetDone, LivesInv
  <1>6. CASE Exceed \/ Unreadable \/ Abandon \/ Relaunch
    BY <1>6 DEF Exceed, Unreadable, Abandon, Relaunch
  <1> QED
    BY <1>1, <1>2, <1>3, <1>4, <1>5, <1>6 DEF AppNext, Work, HostDone

LEMMA LivingTexts ==
    ASSUME NEW height, AppInv, LivesInv(height)
    PROVE TextsAlive
  <1> SUFFICES ASSUME phase = "run" PROVE TextsAlive
    BY DEF TextsAlive
  <1>1. PICK base, W : Alive(m, base, W)
    BY DEF LivesInv, Lives
  <1>2. \A v \in Reachable : Good(v, W)
    BY <1>1 DEF Reachable, Alive, StateGood, FramesGood, LocalsGood, Depth
  <1>3. \A r \in ReachableRecords : \A f \in DOMAIN r : Good(r[f], W)
    BY <1>1, <1>2 DEF ReachableRecords, Good, Alive, HeapGood, RecordGood
  <1>4. W.texts \subseteq m.texts
    BY <1>1 DEF Alive
  <1>5. ASSUME NEW v \in Reachable \cup UNION {{r[f] : f \in DOMAIN r} : r \in ReachableRecords},
               Type(v) = "dynamic"
        PROVE v[2] \in m.texts
    BY <1>2, <1>3, <1>4, <1>5 DEF Good
  <1> QED
    BY <1>5 DEF TextsAlive

(* Whatever a handler can reach, the arena of strings still has: the       *)
(* cleanup before an event keeps the texts of the state, and nothing that  *)
(* the event then makes, is handed, stores or loads refers to one that was *)
(* dropped.  This holds of every image whose code finds its operands among *)
(* those its own frame has put on the stack (strings.rs                    *)
(* retain_state_values, vm.rs dispatch_resumable_with_payload).            *)
THEOREM TextsStayAlive ==
    ASSUME NEW height, Balanced(height)
    PROVE Spec => []TextsAlive
  <1>1. Init => LivesInv(height)
    BY DEF Init, AppInit, LivesInv
  <1>2. VmInv /\ LivesInv(height) /\ [Next]_vmVars => LivesInv(height)'
    <2>1. ASSUME VmInv, LivesInv(height), Next PROVE LivesInv(height)'
      <3>1. CASE AppNext
        BY <2>1, <3>1, StaysLiving DEF VmInv
      <3>2. CASE UNCHANGED appVars
        BY <2>1, <3>2 DEF appVars, LivesInv
      <3> QED
        BY <2>1, <3>1, <3>2, StepIsTheApps DEF VmInv
    <2>2. ASSUME LivesInv(height), UNCHANGED vmVars PROVE LivesInv(height)'
      BY <2>2 DEF vmVars, LivesInv
    <2> QED
      BY <2>1, <2>2
  <1>3. VmInv /\ LivesInv(height) => TextsAlive
    BY LivingTexts DEF VmInv
  <1> QED
    BY <1>1, <1>2, <1>3, VmInvHolds, PTL DEF Spec
=============================================================================
