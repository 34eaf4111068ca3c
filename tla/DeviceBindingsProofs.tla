------------------------ MODULE DeviceBindingsProofs ------------------------
(* Theorems about DeviceConfig and DeviceBindings, for every text, package *)
(* and limit: the two readers of SQDEVICE texts and of SQDC files agree,   *)
(* drafts stay valid, and a start binds what it should.                    *)
EXTENDS DeviceBindings, TLAPS, FiniteSetTheorems, SequenceTheorems, WellFoundedInduction

(* The record of a line has the key of the line.                           *)
LEMMA RecordsOfLines ==
    ASSUME NEW t, NEW i \in DOMAIN t.lines
    PROVE /\ DOMAIN Records(t) = DOMAIN t.lines
          /\ Records(t)[i].key = t.lines[i].key
  BY DEF Records, Record

(* A text the firmware reads is one the compiler reads: what the bounded   *)
(* core refuses, forms with a plus sign, long keys, texts and lists, is all*)
(* that tells the two apart (parse_sqdevice, sqdc_parse_sqdevice).         *)
THEOREM CompilerReadsMore ==
    ASSUME NEW t, FirmwareReads(t)
    PROVE CompilerReads(t)
  <1>1. t.header /\ \A i \in DOMAIN t.lines : CompilerValue(t.lines[i])
    BY DEF FirmwareReads, FirmwareValue, CompilerValue
  <1>2. ASSUME NEW i \in DOMAIN t.lines, NEW j \in DOMAIN t.lines,
               t.lines[i].key = t.lines[j].key
        PROVE i = j
    <2>1. i \in DOMAIN Records(t) /\ j \in DOMAIN Records(t)
      BY RecordsOfLines
    <2>2. Records(t)[i].key = Records(t)[j].key
      BY <1>2, RecordsOfLines
    <2> QED
      BY <2>1, <2>2 DEF FirmwareReads, Valid
  <1> QED
    BY <1>1, <1>2 DEF CompilerReads

(* A file the firmware decodes is one the compiler decodes                 *)
(* (sqdc_decode_sqdc, decode_sqdc).                                        *)
LEMMA CompilerDecodesMore ==
    ASSUME NEW f, FirmwareDecodes(f)
    PROVE CompilerDecodes(f)
  BY DEF FirmwareDecodes, CompilerDecodes, Valid

(* A valid configuration that is written is read back by both.             *)
LEMMA EncodedIsRead ==
    ASSUME NEW config, Valid(config)
    PROVE /\ FirmwareDecodes(Encode(config)) /\ CompilerDecodes(Encode(config))
          /\ Encode(config).records = config
  <1>1. FirmwareDecodes(Encode(config)) /\ Encode(config).records = config
    BY DEF FirmwareDecodes, Whole, Encode
  <1> QED
    BY <1>1, CompilerDecodesMore

(* Whatever an app loads, and whatever was called before it, the draft is  *)
(* what the compiler crate reads in the same text.                         *)
THEOREM LoadedDrafts == Spec => []LoadsAgree
  <1>1. Init => LoadsAgree
    <2>1. Init => last.op = "reset"
      BY DEF Init, Answer
    <2> QED
      BY <2>1 DEF LoadsAgree
  <1>2. LoadsAgree /\ [Next]_vars => LoadsAgree'
    <2> SUFFICES ASSUME LoadsAgree, [Next]_vars
                 PROVE LoadsAgree'
      OBVIOUS
    <2>1. ASSUME NEW path, NEW io \in BOOLEAN, Load(path, io)
          PROVE LoadsAgree'
      <3>1. last'.what = path /\ (last'.ok => FirmwareReads(Package[path]) /\ draft' = Records(Package[path]))
        BY <2>1 DEF Load, Answer
      <3> QED
        BY <3>1, CompilerReadsMore DEF LoadsAgree
    <2>2. CASE \/ \E a \in Apps, io \in BOOLEAN, faulty \in Faults : Start(a, io, faulty)
               \/ \E record : SetKey(record)
               \/ \E alias, faulty : Rebind(alias, faulty)
               \/ \E io \in BOOLEAN : Save(io)
               \/ Reset
      <3>1. CASE \E a \in Apps, io \in BOOLEAN, faulty \in Faults : Start(a, io, faulty)
        <4>1. last'.op = "start"
          BY <3>1 DEF Start, Answer
        <4> QED
          BY <4>1 DEF LoadsAgree
      <3>2. CASE \E record : SetKey(record)
        <4>1. last'.op = "set"
          BY <3>2 DEF SetKey, Answer
        <4> QED
          BY <4>1 DEF LoadsAgree
      <3>3. CASE \E alias, faulty : Rebind(alias, faulty)
        <4>1. last'.op = "rebind"
          BY <3>3 DEF Rebind, Answer
        <4> QED
          BY <4>1 DEF LoadsAgree
      <3>4. CASE (\E io \in BOOLEAN : Save(io)) \/ Reset
        <4>1. last'.op = "save" \/ last'.op = "reset"
          BY <3>4 DEF Save, Reset, Answer
        <4> QED
          BY <4>1 DEF LoadsAgree
      <3> QED
        BY <2>2, <3>1, <3>2, <3>3, <3>4
    <2>3. CASE UNCHANGED vars
      BY <2>3 DEF vars, LoadsAgree
    <2>4. CASE \E c \in Calls : Call(c)
      BY <2>1, <2>2, <2>4 DEF Call
    <2> QED
      BY <2>2, <2>3, <2>4 DEF Next
  <1> QED
    BY <1>1, <1>2, PTL DEF Spec

-----------------------------------------------------------------------------
(* Induction: a set of numbers that is not empty has a least one.          *)
LEMMA LeastNumber ==
    ASSUME NEW T \in SUBSET Nat, T # {}
    PROVE \E n \in T : \A k \in T : ~(k < n)
  <1>1. PICK n \in T : \A k \in T : <<k, n>> \notin OpToRel(<, Nat)
    BY NatLessThanWellFounded, WFMin
  <1>2. \A k \in T : k < n => <<k, n>> \in OpToRel(<, Nat)
    BY DEF OpToRel
  <1> QED
    BY <1>1, <1>2

LEMMA GreatestIndex ==
    ASSUME NEW n \in Nat, NEW s \in SUBSET (1..n), s # {}
    PROVE Max(s) \in s /\ \A i \in s : i <= Max(s)
  <1> DEFINE T == {k \in Nat : \A i \in s : i <= k}
  <1>1. PICK k \in T : \A j \in T : ~(j < k)
    <2>1. n \in T
      OBVIOUS
    <2> QED
      BY <2>1, LeastNumber
  <1>2. k \in s
    <2> SUFFICES ASSUME k \notin s PROVE FALSE
      OBVIOUS
    <2>1. PICK i \in s : i \in 1..n /\ i <= k
      BY <1>1
    <2>2. k - 1 \in Nat /\ \A j \in s : j <= k - 1
      BY <1>1, <2>1
    <2> QED
      BY <1>1, <2>2
  <1>3. \E x \in s : \A y \in s : x >= y
    BY <1>1, <1>2
  <1>4. Max(s) \in s /\ \A y \in s : Max(s) >= y
    BY <1>3 DEF Max
  <1> QED
    BY <1>4

(* The bindings of a section are applied one after the other: there is a   *)
(* run of outcomes, each from the one before.                              *)
Folds(f, p, bs, faulty, n) ==
    f = [s \in SUBSET (1..n) |->
           IF s = {} THEN p ELSE ApplyBinding(f[s \ {Max(s)}], bs[Max(s)], faulty)]

LEMMA FoldExists ==
    ASSUME NEW p, NEW bs, NEW faulty, NEW n \in Nat
    PROVE \E f : Folds(f, p, bs, faulty, n)
  <1> DEFINE T == {k \in Nat : ~\E f : Folds(f, p, bs, faulty, k)}
  <1> SUFFICES ASSUME T # {} PROVE FALSE
    OBVIOUS
  <1>1. PICK k \in T : \A j \in T : ~(j < k)
    BY LeastNumber
  <1>2. CASE k = 0
    <2>1. SUBSET (1..k) = {{}}
      BY <1>2
    <2>2. Folds([s \in {{}} |-> p], p, bs, faulty, k)
      BY <2>1 DEF Folds
    <2> QED
      BY <1>1, <2>2
  <1>3. CASE k > 0
    <2>1. k - 1 \in Nat /\ k - 1 < k
      BY <1>3
    <2>2. PICK f : Folds(f, p, bs, faulty, k - 1)
      BY <1>1, <2>1
    <2> DEFINE g == [s \in SUBSET (1..k) |->
                       IF k \in s THEN ApplyBinding(f[s \ {k}], bs[k], faulty) ELSE f[s]]
    <2>3. ASSUME NEW s \in SUBSET (1..k)
          PROVE g[s] = IF s = {} THEN p ELSE ApplyBinding(g[s \ {Max(s)}], bs[Max(s)], faulty)
      <3>1. CASE k \in s
        <4>1. Max(s) = k
          <5>1. Max(s) \in s /\ k <= Max(s)
            BY <3>1, GreatestIndex
          <5>2. Max(s) \in 1..k /\ k \in Nat
            BY <5>1
          <5> QED
            BY <5>1, <5>2
        <4>2. s \ {k} \in SUBSET (1..k) /\ k \notin s \ {k}
          OBVIOUS
        <4>3. g[s \ {k}] = f[s \ {k}]
          BY <4>2
        <4>4. g[s] = ApplyBinding(f[s \ {k}], bs[k], faulty)
          BY <3>1
        <4> QED
          BY <3>1, <4>1, <4>3, <4>4
      <3>2. CASE k \notin s
        <4>1. s \in SUBSET (1..(k - 1))
          BY <3>2
        <4>2. f[s] = IF s = {} THEN p ELSE ApplyBinding(f[s \ {Max(s)}], bs[Max(s)], faulty)
          BY <2>2, <4>1 DEF Folds
        <4>3. s \ {Max(s)} \in SUBSET (1..k) /\ k \notin s \ {Max(s)}
          BY <3>2
        <4>4. g[s] = f[s] /\ g[s \ {Max(s)}] = f[s \ {Max(s)}]
          BY <3>2, <4>3
        <4> QED
          BY <4>2, <4>4
      <3> QED
        BY <3>1, <3>2
    <2>4. Folds(g, p, bs, faulty, k)
      <3> HIDE DEF g
      <3>1. g = [s \in SUBSET (1..k) |-> g[s]]
        BY DEF g
      <3> QED
        BY <2>3, <3>1 DEF Folds
    <2> QED
      BY <1>1, <2>4
  <1> QED
    BY <1>2, <1>3

RunOf(run, p, bs, faulty) ==
    /\ run[0] = p
    /\ \A i \in 1..Len(bs) : run[i] = ApplyBinding(run[i - 1], bs[i], faulty)

Folded(p, bs, faulty) == FoldLeft(LAMBDA q, b : ApplyBinding(q, b, faulty), p, bs)

LEMMA SectionRun ==
    ASSUME NEW p, NEW bs, NEW faulty, DOMAIN bs = 1..Len(bs), Len(bs) \in Nat
    PROVE \E run : /\ RunOf(run, p, bs, faulty)
                   /\ Folded(p, bs, faulty) = run[Len(bs)]
  <1> DEFINE n == Len(bs)
             f == CHOOSE g : Folds(g, p, bs, faulty, n)
             run == [i \in 0..n |-> f[1..i]]
  <1>1. Folds(f, p, bs, faulty, n)
    BY FoldExists
  <1>2. Folded(p, bs, faulty) = f[1..n]
    BY DEF Folded, FoldLeft, MapThenFoldSet, Folds
  <1> HIDE DEF f
  <1>3. run[0] = p
    <2>1. 1..0 = {} /\ {} \in SUBSET (1..n) /\ 0 \in 0..n
      OBVIOUS
    <2> QED
      BY <1>1, <2>1 DEF Folds
  <1>4. ASSUME NEW i \in 1..n PROVE run[i] = ApplyBinding(run[i - 1], bs[i], faulty)
    <2>1. 1..i \in SUBSET (1..n) /\ 1..i # {} /\ i \in Nat /\ i \in 1..i
      OBVIOUS
    <2>2. Max(1..i) = i
      <3>1. Max(1..i) \in 1..i /\ i <= Max(1..i)
        BY <2>1, GreatestIndex
      <3> QED
        BY <3>1
    <2>3. (1..i) \ {i} = 1..(i - 1)
      OBVIOUS
    <2>4. f[1..i] = ApplyBinding(f[1..(i - 1)], bs[i], faulty)
      BY <1>1, <2>1, <2>2, <2>3 DEF Folds
    <2>5. i \in 0..n /\ i - 1 \in 0..n
      OBVIOUS
    <2> QED
      BY <2>4, <2>5
  <1>5. run[n] = f[1..n]
    OBVIOUS
  <1> QED
    BY <1>2, <1>3, <1>4, <1>5 DEF RunOf

-----------------------------------------------------------------------------
(* The bindings: distinct aliases, one button a pin, and their counts.     *)
IsBound(b) ==
    b = [active |-> b.active, indicator |-> b.indicator, buttons |-> b.buttons,
         buttonCount |-> b.buttonCount]

Held(b) == {i \in 1..MaxButtons : b.buttons[i].active}
Shaped(b) ==
    /\ IsBound(b)
    /\ b.active \in Seq(ToSet(b.active)) /\ Len(b.active) <= MaxBindings
    /\ IsInjective(b.active)
    /\ b.buttons = [i \in 1..MaxButtons |-> b.buttons[i]]
    /\ \A i \in 1..MaxButtons : b.buttons[i].active \in BOOLEAN
    /\ b.buttonCount = Cardinality(Held(b))
    /\ \A i, j \in Held(b) : b.buttons[i].pin = b.buttons[j].pin => i = j

LEMMA Appended ==
    ASSUME NEW s, s \in Seq(ToSet(s)), NEW x
    PROVE LET t == Append(s, x)
          IN /\ t \in Seq(ToSet(t)) /\ ToSet(t) = ToSet(s) \cup {x}
             /\ Len(t) = Len(s) + 1 /\ Len(s) \in Nat
             /\ DOMAIN s = 1..Len(s) /\ DOMAIN t = 1..(Len(s) + 1)
             /\ t[Len(s) + 1] = x /\ \A i \in 1..Len(s) : t[i] = s[i]
  <1> DEFINE t == Append(s, x)
             S == ToSet(s) \cup {x}
  <1>1. s \in Seq(S) /\ x \in S
    <2>1. ToSet(s) \subseteq S
      OBVIOUS
    <2>2. Seq(ToSet(s)) \subseteq Seq(S)
      BY <2>1
    <2> QED
      BY <2>2
  <1> HIDE DEF S
  <1>2. /\ t \in Seq(S) /\ Len(t) = Len(s) + 1 /\ Len(s) \in Nat
        /\ DOMAIN s = 1..Len(s) /\ DOMAIN t = 1..(Len(s) + 1)
        /\ t[Len(s) + 1] = x /\ \A i \in 1..Len(s) : t[i] = s[i]
    BY <1>1
  <1> HIDE DEF t
  <1>3. ToSet(t) = S
    <2>1. S \subseteq ToSet(t)
      <3>1. x \in ToSet(t)
        BY <1>2 DEF ToSet
      <3>2. ASSUME NEW y \in ToSet(s) PROVE y \in ToSet(t)
        <4>1. PICK i \in 1..Len(s) : y = s[i]
          BY <1>2, <3>2 DEF ToSet
        <4>2. i \in DOMAIN t /\ t[i] = y
          BY <1>2, <4>1
        <4> QED
          BY <4>2 DEF ToSet
      <3> QED
        BY <3>1, <3>2 DEF S
    <2>2. ASSUME NEW y \in ToSet(t) PROVE y \in S
      <3>1. PICK i \in 1..(Len(s) + 1) : y = t[i]
        BY <1>2, <2>2 DEF ToSet
      <3> QED
        BY <1>2, <3>1
    <2> QED
      BY <2>1, <2>2
  <1> QED
    BY <1>2, <1>3 DEF S, t

(* A distinct alias each: as many aliases as entries.                      *)
LEMMA DistinctCount ==
    ASSUME NEW s, s \in Seq(ToSet(s)), IsInjective(s)
    PROVE IsFiniteSet(ToSet(s)) /\ Cardinality(ToSet(s)) = Len(s)
  <1>1. DOMAIN s = 1..Len(s) /\ Len(s) \in Nat /\ s \in [1..Len(s) -> ToSet(s)]
    OBVIOUS
  <1>2. s \in Injection(1..Len(s), ToSet(s))
    BY <1>1 DEF Injection
  <1>3. \A y \in ToSet(s) : \E i \in 1..Len(s) : s[i] = y
    BY <1>1 DEF ToSet
  <1>4. s \in Surjection(1..Len(s), ToSet(s))
    BY <1>1, <1>3 DEF Surjection
  <1>5. IsFiniteSet(1..Len(s)) /\ Cardinality(1..Len(s)) = Len(s)
    BY <1>1, FS_Interval
  <1>6. ExistsBijection(1..Len(s), ToSet(s))
    BY <1>2, <1>4 DEF ExistsBijection, Bijection
  <1> QED
    BY <1>5, <1>6, FS_Bijection

LEMMA BoundUpdates ==
    ASSUME NEW b, IsBound(b), NEW x
    PROVE /\ [b EXCEPT !.active = x] =
                [active |-> x, indicator |-> b.indicator, buttons |-> b.buttons,
                 buttonCount |-> b.buttonCount]
          /\ [b EXCEPT !.indicator = x] =
                [active |-> b.active, indicator |-> x, buttons |-> b.buttons,
                 buttonCount |-> b.buttonCount]
          /\ [b EXCEPT !.buttons = x] =
                [active |-> b.active, indicator |-> b.indicator, buttons |-> x,
                 buttonCount |-> b.buttonCount]
  BY DEF IsBound

(* runtime_activate_binding.                                               *)
LEMMA ActivateKeeps ==
    ASSUME NEW b, Shaped(b), NEW alias
    PROVE /\ Shaped(Activate(b, alias).bound) /\ Activate(b, alias).ok \in BOOLEAN
          /\ Activate(b, alias).bound.indicator = b.indicator
          /\ Activate(b, alias).bound.buttons = b.buttons
          /\ Activate(b, alias).ok =>
                ToSet(Activate(b, alias).bound.active) = ToSet(b.active) \cup {alias}
          /\ ~Activate(b, alias).ok =>
                alias \notin ToSet(b.active) /\ Len(b.active) = MaxBindings
  <1> DEFINE o == Activate(b, alias)
  <1>1. CASE alias \in ToSet(b.active)
    <2>1. o.bound = b /\ o.ok = TRUE
      BY <1>1 DEF Activate
    <2> QED
      BY <1>1, <2>1
  <1>2. CASE alias \notin ToSet(b.active) /\ Len(b.active) < MaxBindings
    <2> DEFINE t == Append(b.active, alias)
    <2>1. o.ok = TRUE /\ o.bound = [b EXCEPT !.active = t]
      BY <1>2 DEF Activate
    <2>2. [b EXCEPT !.active = t] = [active |-> t, indicator |-> b.indicator,
             buttons |-> b.buttons, buttonCount |-> b.buttonCount]
      BY BoundUpdates DEF Shaped
    <2>3. /\ t \in Seq(ToSet(t)) /\ ToSet(t) = ToSet(b.active) \cup {alias}
          /\ Len(t) = Len(b.active) + 1 /\ Len(b.active) \in Nat
          /\ DOMAIN b.active = 1..Len(b.active) /\ DOMAIN t = 1..(Len(b.active) + 1)
          /\ t[Len(b.active) + 1] = alias /\ \A i \in 1..Len(b.active) : t[i] = b.active[i]
      BY Appended DEF Shaped
    <2> HIDE DEF t
    <2>4. IsInjective(t)
      <3> SUFFICES ASSUME NEW i \in DOMAIN t, NEW j \in DOMAIN t, t[i] = t[j] PROVE i = j
        BY DEF IsInjective
      <3>1. \A k \in 1..Len(b.active) : b.active[k] # alias
        BY <1>2, <2>3 DEF ToSet
      <3>2. IsInjective(b.active)
        BY DEF Shaped
      <3> QED
        BY <2>3, <3>1, <3>2 DEF IsInjective
    <2>5. Len(t) <= MaxBindings
      BY <1>2, <2>3, BindingsAssumption
    <2>6. /\ o.bound.active = t /\ o.bound.indicator = b.indicator
          /\ o.bound.buttons = b.buttons /\ o.bound.buttonCount = b.buttonCount
          /\ IsBound(o.bound)
      BY <2>1, <2>2 DEF IsBound
    <2>7. Held(o.bound) = Held(b)
      BY <2>6 DEF Held
    <2>8. Shaped(o.bound)
      BY <2>3, <2>4, <2>5, <2>6, <2>7 DEF Shaped
    <2> QED
      BY <2>1, <2>3, <2>6, <2>8
  <1>3. CASE alias \notin ToSet(b.active) /\ ~(Len(b.active) < MaxBindings)
    <2>1. o.bound = b /\ o.ok = FALSE
      BY <1>3 DEF Activate
    <2>2. Len(b.active) \in Nat /\ Len(b.active) <= MaxBindings
      BY DEF Shaped
    <2>3. Len(b.active) = MaxBindings
      BY <1>3, <2>2, BindingsAssumption
    <2> QED
      BY <1>3, <2>1, <2>3
  <1> QED
    BY <1>1, <1>2, <1>3

(* One slot of the buttons is written.                                     *)
SlotWritten(b, i, x, n) ==
    [active |-> b.active, indicator |-> b.indicator,
     buttons |-> [b.buttons EXCEPT ![i] = x], buttonCount |-> n]
SlotTaken(b, i, x, t) == [b EXCEPT !.buttons[i] = x, !.buttonCount = @ + t]
SlotFreed(b, i, x, t) == [b EXCEPT !.buttons[i] = x, !.buttonCount = @ + t - 1]
OtherButtons(b, i) == {b.buttons[j] : j \in Held(b) \ {i}}
HeldAfter(b, i, x) == IF x.active THEN Held(b) \cup {i} ELSE Held(b) \ {i}

LEMMA SlotKeeps ==
    ASSUME NEW b, Shaped(b), NEW i \in 1..MaxButtons, NEW x, x.active \in BOOLEAN,
           x.active => \A j \in Held(b) : b.buttons[j].pin = x.pin => j = i,
           NEW n, n = Cardinality(HeldAfter(b, i, x))
    PROVE /\ Shaped(SlotWritten(b, i, x, n))
          /\ SlotWritten(b, i, x, n).active = b.active
          /\ SlotWritten(b, i, x, n).indicator = b.indicator
          /\ x.active => Buttons(SlotWritten(b, i, x, n)) = OtherButtons(b, i) \cup {x}
  <1> DEFINE c == SlotWritten(b, i, x, n)
  <1>1. /\ c.active = b.active /\ c.indicator = b.indicator /\ c.buttonCount = n
        /\ c.buttons = [b.buttons EXCEPT ![i] = x] /\ IsBound(c)
    BY DEF SlotWritten, IsBound
  <1> HIDE DEF c
  <1>2. /\ c.buttons = [j \in 1..MaxButtons |-> c.buttons[j]]
        /\ c.buttons[i] = x /\ \A j \in 1..MaxButtons : j # i => c.buttons[j] = b.buttons[j]
    BY <1>1 DEF Shaped
  <1>3. Held(c) = HeldAfter(b, i, x)
    BY <1>2 DEF Held, HeldAfter
  <1>4. \A j \in 1..MaxButtons : c.buttons[j].active \in BOOLEAN
    BY <1>2 DEF Shaped
  <1>5. ASSUME NEW j \in Held(c), NEW k \in Held(c), c.buttons[j].pin = c.buttons[k].pin
        PROVE j = k
    <2>1. j \in 1..MaxButtons /\ k \in 1..MaxButtons
      BY DEF Held
    <2>2. CASE j # i /\ k # i
      <3>1. j \in Held(b) /\ k \in Held(b)
        BY <1>3, <2>2 DEF HeldAfter
      <3> QED
        BY <1>2, <1>5, <2>1, <2>2, <3>1 DEF Shaped
    <2>3. CASE j = i /\ k # i
      <3>1. x.active /\ k \in Held(b)
        BY <1>3, <2>3 DEF HeldAfter
      <3> QED
        BY <1>2, <1>5, <2>1, <2>3, <3>1
    <2>4. CASE j # i /\ k = i
      <3>1. x.active /\ j \in Held(b)
        BY <1>3, <2>4 DEF HeldAfter
      <3> QED
        BY <1>2, <1>5, <2>1, <2>4, <3>1
    <2> QED
      BY <2>2, <2>3, <2>4
  <1>6. Shaped(c)
    BY <1>1, <1>2, <1>3, <1>4, <1>5 DEF Shaped
  <1>7. Buttons(c) = {c.buttons[j] : j \in Held(c)}
    BY DEF Buttons, Held
  <1>8. x.active => {c.buttons[j] : j \in Held(c)} = OtherButtons(b, i) \cup {x}
    <2>1. \A j \in Held(b) : j \in 1..MaxButtons
      BY DEF Held
    <2> QED
      BY <1>2, <1>3, <2>1 DEF HeldAfter, OtherButtons
  <1> QED
    BY <1>1, <1>6, <1>7, <1>8 DEF c

LEMMA SlotUpdates ==
    ASSUME NEW b, IsBound(b), NEW i, NEW x, NEW t
    PROVE /\ SlotTaken(b, i, x, t) = SlotWritten(b, i, x, b.buttonCount + t)
          /\ SlotFreed(b, i, x, t) = SlotWritten(b, i, x, b.buttonCount + t - 1)
  <1> DEFINE c == [b EXCEPT !.buttons[i] = x]
             u == [b.buttons EXCEPT ![i] = x]
  <1>1. c = [active |-> b.active, indicator |-> b.indicator, buttons |-> u,
             buttonCount |-> b.buttonCount]
    <2>1. c = [b EXCEPT !.buttons = u]
      BY DEF IsBound
    <2> HIDE DEF u
    <2> QED
      BY <2>1, BoundUpdates
  <1>2. [b EXCEPT !.buttons[i] = x, !.buttonCount = @ + t] = [c EXCEPT !.buttonCount = @ + t]
    BY DEF IsBound
  <1>3. [b EXCEPT !.buttons[i] = x, !.buttonCount = @ + t - 1]
          = [c EXCEPT !.buttonCount = @ + t - 1]
    BY DEF IsBound
  <1> HIDE DEF c, u
  <1>4. [c EXCEPT !.buttonCount = @ + t] =
          [active |-> b.active, indicator |-> b.indicator, buttons |-> u,
           buttonCount |-> b.buttonCount + t]
    BY <1>1
  <1>5. [c EXCEPT !.buttonCount = @ + t - 1] =
          [active |-> b.active, indicator |-> b.indicator, buttons |-> u,
           buttonCount |-> b.buttonCount + t - 1]
    BY <1>1
  <1> QED
    BY <1>2, <1>3, <1>4, <1>5 DEF SlotWritten, SlotTaken, SlotFreed, u

(* The slot that a button takes is the pin's own, if it has one.           *)
LEMMA SlotOfPin ==
    ASSUME NEW b, Shaped(b), NEW pin
    PROVE /\ ButtonSlots(b, pin) = {} =>
               Held(b) = 1..MaxButtons /\ \A j \in Held(b) : b.buttons[j].pin # pin
          /\ \A i \in ButtonSlots(b, pin) :
                /\ i \in 1..MaxButtons
                /\ b.buttons[i].active => b.buttons[i].pin = pin
                /\ \A j \in Held(b) : b.buttons[j].pin = pin => j = i
  <1> DEFINE held == {i \in 1..MaxButtons : b.buttons[i].active /\ b.buttons[i].pin = pin}
             free == {i \in 1..MaxButtons : ~b.buttons[i].active}
             slots == IF held # {} THEN held ELSE free
  <1>1. ButtonSlots(b, pin) = {i \in slots : \A j \in slots : i <= j}
    BY DEF ButtonSlots
  <1>2. ASSUME slots # {} PROVE ButtonSlots(b, pin) # {}
    <2>1. slots \in SUBSET Nat
      OBVIOUS
    <2> HIDE DEF slots
    <2>2. PICK i \in slots : \A j \in slots : ~(j < i)
      BY <1>2, <2>1, LeastNumber
    <2>3. \A j \in slots : i <= j
      BY <2>1, <2>2
    <2> QED
      BY <1>1, <2>3
  <1>3. ASSUME slots = {}
        PROVE Held(b) = 1..MaxButtons /\ \A j \in Held(b) : b.buttons[j].pin # pin
    <2>1. held = {} /\ free = {}
      BY <1>3
    <2> QED
      BY <2>1 DEF Held
  <1>4. ASSUME NEW i \in ButtonSlots(b, pin)
        PROVE /\ i \in 1..MaxButtons
              /\ b.buttons[i].active => b.buttons[i].pin = pin
              /\ \A j \in Held(b) : b.buttons[j].pin = pin => j = i
    <2>1. i \in slots
      BY <1>1, <1>4
    <2>2. CASE held # {}
      <3>1. i \in held
        BY <2>1, <2>2
      <3> QED
        BY <3>1 DEF Held, Shaped
    <2>3. CASE held = {}
      <3>1. i \in free
        BY <2>1, <2>3
      <3>2. \A j \in Held(b) : b.buttons[j].pin # pin
        BY <2>3 DEF Held
      <3> QED
        BY <3>1, <3>2
    <2> QED
      BY <2>2, <2>3
  <1> QED
    BY <1>2, <1>3, <1>4

WithoutPin(b, pin) == {x \in Buttons(b) : x.pin # pin}
NoSlot(b, pin) == Held(b) = 1..MaxButtons /\ \A j \in Held(b) : b.buttons[j].pin # pin

\* What activating a button answers.
ButtonDone(o, b, pin, button, works) ==
    /\ Shaped(o.bound) /\ o.ok \in BOOLEAN
    /\ o.bound.active = b.active /\ o.bound.indicator = b.indicator
    /\ o.ok => Buttons(o.bound) = WithoutPin(b, pin) \cup {button}
    /\ ~o.ok /\ works = TRUE => NoSlot(b, pin)

(* runtime_activate_input_button.                                          *)
LEMMA ActivateButtonKeeps ==
    ASSUME NEW b, Shaped(b), NEW pin, NEW button, button.active = TRUE, button.pin = pin,
           NEW works \in BOOLEAN
    PROVE ButtonDone(ActivateButton(b, pin, button, works), b, pin, button, works)
  <1> DEFINE o == ActivateButton(b, pin, button, works)
  <1>1. CASE ButtonSlots(b, pin) = {}
    <2>1. o.bound = b /\ o.ok = FALSE
      BY <1>1 DEF ActivateButton
    <2>2. NoSlot(b, pin)
      BY <1>1, SlotOfPin DEF NoSlot
    <2> HIDE DEF o
    <2>3. ButtonDone(o, b, pin, button, works)
      BY <2>1, <2>2 DEF ButtonDone
    <2> QED
      BY <2>3 DEF o
  <1>2. CASE ButtonSlots(b, pin) # {}
    <2> DEFINE i == CHOOSE i \in ButtonSlots(b, pin) : TRUE
               taken == IF b.buttons[i].active THEN 0 ELSE 1
    <2>1. i \in ButtonSlots(b, pin)
      BY <1>2
    <2>2. o = IF works
              THEN [bound |-> [b EXCEPT !.buttons[i] = button, !.buttonCount = @ + taken],
                    ok |-> TRUE]
              ELSE [bound |-> [b EXCEPT !.buttons[i] = NoButton,
                                        !.buttonCount = @ + taken - 1],
                    ok |-> FALSE]
      BY <1>2 DEF ActivateButton
    <2> HIDE DEF i
    <2>3. /\ i \in 1..MaxButtons
          /\ b.buttons[i].active => b.buttons[i].pin = pin
          /\ \A j \in Held(b) : b.buttons[j].pin = pin => j = i
      BY <2>1, SlotOfPin
    <2>4. IsFiniteSet(Held(b)) /\ Cardinality(Held(b)) \in Nat
      <3>1. IsFiniteSet(1..MaxButtons)
        BY BindingsAssumption, FS_Interval
      <3>2. Held(b) \in SUBSET (1..MaxButtons)
        BY DEF Held
      <3> QED
        BY <3>1, <3>2, FS_Subset, FS_CardinalityType
    <2>5. b.buttonCount = Cardinality(Held(b)) /\ IsBound(b)
      BY DEF Shaped
    <2>6. i \in Held(b) <=> b.buttons[i].active
      BY <2>3 DEF Held
    <2>7. CASE works
      <3>1. HeldAfter(b, i, button) = Held(b) \cup {i}
        BY DEF HeldAfter
      <3>2. Cardinality(Held(b) \cup {i}) = b.buttonCount + taken
        <4>1. b.buttons[i].active \in BOOLEAN
          BY <2>3 DEF Shaped
        <4>2. Cardinality(Held(b) \cup {i}) =
                IF i \in Held(b) THEN Cardinality(Held(b)) ELSE Cardinality(Held(b)) + 1
          BY <2>4, FS_AddElement
        <4>3. CASE b.buttons[i].active
          BY <2>4, <2>5, <2>6, <4>2, <4>3
        <4>4. CASE ~b.buttons[i].active
          BY <2>4, <2>5, <2>6, <4>2, <4>4
        <4> QED
          BY <4>1, <4>3, <4>4
      <3> HIDE DEF taken
      <3>3. o.bound = SlotWritten(b, i, button, b.buttonCount + taken) /\ o.ok = TRUE
        <4>1. SlotTaken(b, i, button, taken) = SlotWritten(b, i, button, b.buttonCount + taken)
          BY <2>5, SlotUpdates
        <4>2. o = [bound |-> SlotTaken(b, i, button, taken), ok |-> TRUE]
          BY <2>2, <2>7 DEF SlotTaken
        <4>3. o = [bound |-> SlotWritten(b, i, button, b.buttonCount + taken), ok |-> TRUE]
          BY <4>1, <4>2
        <4> QED
          BY <4>3
      <3>4. /\ Shaped(o.bound) /\ o.bound.active = b.active /\ o.bound.indicator = b.indicator
            /\ Buttons(o.bound) = OtherButtons(b, i) \cup {button}
        <4> DEFINE n == b.buttonCount + taken
                   c == SlotWritten(b, i, button, n)
        <4>1. n = Cardinality(HeldAfter(b, i, button))
          BY <3>1, <3>2
        <4> HIDE DEF n
        <4>2. /\ Shaped(c) /\ c.active = b.active /\ c.indicator = b.indicator
              /\ Buttons(c) = OtherButtons(b, i) \cup {button}
          <5>1. button.active \in BOOLEAN
            OBVIOUS
          <5>2. \A j \in Held(b) : b.buttons[j].pin = button.pin => j = i
            BY <2>3
          <5> QED
            BY <2>3, <4>1, <5>1, <5>2, SlotKeeps
        <4>3. o.bound = c
          BY <3>3 DEF n
        <4> HIDE DEF c, o
        <4> QED
          BY <4>2, <4>3
      <3>5. OtherButtons(b, i) = WithoutPin(b, pin)
        <4>1. Buttons(b) = {b.buttons[j] : j \in Held(b)}
          BY DEF Buttons, Held
        <4>2. \A j \in Held(b) : b.buttons[j].pin = pin <=> j = i
          BY <2>3 DEF Held
        <4> QED
          BY <4>1, <4>2 DEF OtherButtons, WithoutPin
      <3> QED
        BY <2>7, <3>3, <3>4, <3>5 DEF ButtonDone
    <2>8. CASE ~works
      <3>1. HeldAfter(b, i, NoButton) = Held(b) \ {i} /\ NoButton.active = FALSE
        BY DEF HeldAfter, NoButton
      <3>2. Cardinality(Held(b) \ {i}) = b.buttonCount + taken - 1
        <4>1. b.buttons[i].active \in BOOLEAN
          BY <2>3 DEF Shaped
        <4>2. Cardinality(Held(b) \ {i}) =
                IF i \in Held(b) THEN Cardinality(Held(b)) - 1 ELSE Cardinality(Held(b))
          BY <2>4, FS_RemoveElement
        <4>3. CASE b.buttons[i].active
          BY <2>4, <2>5, <2>6, <4>2, <4>3
        <4>4. CASE ~b.buttons[i].active
          BY <2>4, <2>5, <2>6, <4>2, <4>4
        <4> QED
          BY <4>1, <4>3, <4>4
      <3> HIDE DEF taken
      <3>3. o.bound = SlotWritten(b, i, NoButton, b.buttonCount + taken - 1) /\ o.ok = FALSE
        <4>1. SlotFreed(b, i, NoButton, taken) = SlotWritten(b, i, NoButton, b.buttonCount + taken - 1)
          BY <2>5, SlotUpdates
        <4>2. o = [bound |-> SlotFreed(b, i, NoButton, taken), ok |-> FALSE]
          BY <2>2, <2>8 DEF SlotFreed
        <4>3. o = [bound |-> SlotWritten(b, i, NoButton, b.buttonCount + taken - 1), ok |-> FALSE]
          BY <4>1, <4>2
        <4> QED
          BY <4>3
      <3>4. /\ Shaped(o.bound) /\ o.bound.active = b.active /\ o.bound.indicator = b.indicator
        <4> DEFINE n == b.buttonCount + taken - 1
                   c == SlotWritten(b, i, NoButton, n)
        <4>1. n = Cardinality(HeldAfter(b, i, NoButton))
          BY <3>1, <3>2
        <4> HIDE DEF n
        <4>2. Shaped(c) /\ c.active = b.active /\ c.indicator = b.indicator
          <5>1. NoButton.active \in BOOLEAN /\ ~NoButton.active
            BY <3>1
          <5> QED
            BY <2>3, <4>1, <5>1, SlotKeeps
        <4>3. o.bound = c
          BY <3>3 DEF n
        <4> HIDE DEF c, o
        <4> QED
          BY <4>2, <4>3
      <3> QED
        BY <2>8, <3>3, <3>4 DEF ButtonDone
    <2> QED
      BY <2>7, <2>8
  <1> QED
    BY <1>1, <1>2

ButtonOf(config) ==
    [active |-> TRUE, pin |-> PinOf(config), event |-> TextOf(config, "event"),
     low |-> LowOf(config)]
LampOf(config) == [active |-> TRUE, pin |-> PinOf(config), low |-> LowOf(config)]
IsLamp(config, alias) == alias = Indicator /\ ~IsButton(config)

\* c is b with one more configuration bound.
BoundMore(c, b, config, alias) ==
    /\ ToSet(c.active) = ToSet(b.active) \cup {alias}
    /\ c.indicator = IF IsLamp(config, alias) THEN LampOf(config) ELSE b.indicator
    /\ Buttons(c) = IF IsButton(config)
                    THEN WithoutPin(b, PinOf(config)) \cup {ButtonOf(config)}
                    ELSE Buttons(b)
\* Nothing failed, and still it cannot be bound.
Unbindable(b, config, alias) ==
    \/ ~Bindable(config, alias)
    \/ alias \notin ToSet(b.active) /\ Len(b.active) = MaxBindings
    \/ IsButton(config) /\ NoSlot(b, PinOf(config))

LEMMA LampKeeps ==
    ASSUME NEW b, Shaped(b), NEW x
    PROVE LET c == [b EXCEPT !.indicator = x]
          IN Shaped(c) /\ c.indicator = x /\ c.active = b.active /\ c.buttons = b.buttons
  <1> DEFINE c == [b EXCEPT !.indicator = x]
  <1>1. c = [active |-> b.active, indicator |-> x, buttons |-> b.buttons,
             buttonCount |-> b.buttonCount]
    BY BoundUpdates DEF Shaped
  <1> HIDE DEF c
  <1>2. /\ c.indicator = x /\ c.active = b.active /\ c.buttons = b.buttons
        /\ c.buttonCount = b.buttonCount /\ IsBound(c)
    BY <1>1 DEF IsBound
  <1>3. Held(c) = Held(b)
    BY <1>2 DEF Held
  <1>4. Shaped(c)
    BY <1>2, <1>3 DEF Shaped
  <1> QED
    BY <1>2, <1>4 DEF c

LEMMA SameButtons ==
    ASSUME NEW b, NEW c, c.buttons = b.buttons
    PROVE /\ Buttons(c) = Buttons(b) /\ Held(c) = Held(b)
          /\ \A pin : WithoutPin(c, pin) = WithoutPin(b, pin) /\ (NoSlot(c, pin) <=> NoSlot(b, pin))
  BY DEF Buttons, Held, WithoutPin, NoSlot

(* sq_vm_runtime_device_config_rebind.                                     *)
LEMMA BindKeeps ==
    ASSUME NEW b, Shaped(b), NEW config, NEW alias, NEW faulty
    PROVE /\ Shaped(Bind(b, config, alias, faulty).bound)
          /\ Bind(b, config, alias, faulty).ok \in BOOLEAN
          /\ Bind(b, config, alias, faulty).ok =>
                /\ Bindable(config, alias)
                /\ BoundMore(Bind(b, config, alias, faulty).bound, b, config, alias)
          /\ ~Bind(b, config, alias, faulty).ok /\ faulty = {} => Unbindable(b, config, alias)
  <1> DEFINE o == Bind(b, config, alias, faulty)
             made == Activate(b, alias)
             pin == PinOf(config)
             low == LowOf(config)
             button == ButtonOf(config)
             lamp == [b EXCEPT !.indicator = LampOf(config)]
             works == pin \notin faulty
             tried == ActivateButton(made.bound, pin, button, works)
  <1>1. CASE ~Bindable(config, alias)
    <2>1. o = [bound |-> b, ok |-> FALSE]
      BY <1>1 DEF Bind
    <2> HIDE DEF o
    <2>2. Shaped(o.bound) /\ o.ok = FALSE
      BY <2>1
    <2> QED
      BY <1>1, <2>2 DEF Unbindable, o
  <1>2. CASE Bindable(config, alias) /\ IsButton(config)
    <2>1. o = IF made.ok THEN tried ELSE made
      BY <1>2 DEF Bind, PinOf, LowOf, ButtonOf
    <2>2. /\ Shaped(made.bound) /\ made.ok \in BOOLEAN
          /\ made.bound.indicator = b.indicator /\ made.bound.buttons = b.buttons
          /\ made.ok => ToSet(made.bound.active) = ToSet(b.active) \cup {alias}
          /\ ~made.ok => alias \notin ToSet(b.active) /\ Len(b.active) = MaxBindings
      BY ActivateKeeps
    <2>3. button.active = TRUE /\ button.pin = pin
      BY DEF ButtonOf
    <2>8. works \in BOOLEAN /\ (faulty = {} => works = TRUE)
      OBVIOUS
    <2> HIDE DEF o, made, button, pin, works
    <2>4. /\ Shaped(tried.bound) /\ tried.ok \in BOOLEAN
          /\ tried.bound.active = made.bound.active
          /\ tried.bound.indicator = made.bound.indicator
          /\ tried.ok => Buttons(tried.bound) = WithoutPin(made.bound, pin) \cup {button}
          /\ ~tried.ok /\ works = TRUE => NoSlot(made.bound, pin)
      <3> DEFINE c == made.bound
      <3>1. Shaped(c)
        BY <2>2
      <3> HIDE DEF c
      <3>2. ButtonDone(ActivateButton(c, pin, button, works), c, pin, button, works)
        BY <2>3, <2>8, <3>1, ActivateButtonKeeps
      <3>3. ButtonDone(tried, c, pin, button, works)
        BY <3>2 DEF c
      <3> HIDE DEF tried
      <3> QED
        BY <3>3 DEF ButtonDone, c
    <2> HIDE DEF tried
    <2>5. WithoutPin(made.bound, pin) = WithoutPin(b, pin) /\ (NoSlot(made.bound, pin) => NoSlot(b, pin))
      BY <2>2, SameButtons
    <2>6. CASE made.ok
      <3>1. o = tried
        BY <2>1, <2>6
      <3>2. o.ok => BoundMore(o.bound, b, config, alias)
        BY <1>2, <2>2, <2>4, <2>5, <2>6, <3>1 DEF BoundMore, IsLamp, button, pin
      <3>3. ~o.ok /\ faulty = {} => Unbindable(b, config, alias)
        BY <1>2, <2>4, <2>5, <2>8, <3>1 DEF Unbindable, pin
      <3> QED
        BY <1>2, <2>4, <3>1, <3>2, <3>3 DEF o
    <2>7. CASE ~made.ok
      <3>1. o = made
        BY <2>1, <2>7
      <3> QED
        BY <2>2, <2>7, <3>1 DEF o, Unbindable
    <2> QED
      BY <2>2, <2>6, <2>7
  <1>3. CASE Bindable(config, alias) /\ ~IsButton(config) /\ alias = Indicator
    <2>1. o = Activate(lamp, alias)
      BY <1>3 DEF Bind, ActivateIndicator, PinOf, LowOf, LampOf
    <2>2. /\ Shaped(lamp) /\ lamp.indicator = LampOf(config)
          /\ lamp.active = b.active /\ lamp.buttons = b.buttons
      BY LampKeeps
    <2> HIDE DEF o, lamp
    <2>3. /\ Shaped(o.bound) /\ o.ok \in BOOLEAN
          /\ o.bound.indicator = lamp.indicator /\ o.bound.buttons = lamp.buttons
          /\ o.ok => ToSet(o.bound.active) = ToSet(lamp.active) \cup {alias}
          /\ ~o.ok => alias \notin ToSet(lamp.active) /\ Len(lamp.active) = MaxBindings
      BY <2>1, <2>2, ActivateKeeps
    <2>4. o.bound.buttons = b.buttons
      BY <2>2, <2>3
    <2>5. Buttons(o.bound) = Buttons(b)
      BY <2>4, SameButtons
    <2>6. o.ok => BoundMore(o.bound, b, config, alias)
      BY <1>3, <2>2, <2>3, <2>5 DEF BoundMore, IsLamp
    <2>7. ~o.ok => Unbindable(b, config, alias)
      BY <2>2, <2>3 DEF Unbindable
    <2> QED
      BY <1>3, <2>3, <2>6, <2>7 DEF o
  <1>4. CASE Bindable(config, alias) /\ ~IsButton(config) /\ alias # Indicator
    <2>1. o = made
      BY <1>4 DEF Bind
    <2>2. /\ Shaped(made.bound) /\ made.ok \in BOOLEAN
          /\ made.bound.indicator = b.indicator /\ made.bound.buttons = b.buttons
          /\ made.ok => ToSet(made.bound.active) = ToSet(b.active) \cup {alias}
          /\ ~made.ok => alias \notin ToSet(b.active) /\ Len(b.active) = MaxBindings
      BY ActivateKeeps
    <2> HIDE DEF o, made
    <2>3. Buttons(made.bound) = Buttons(b)
      BY <2>2, SameButtons
    <2>4. made.ok => BoundMore(made.bound, b, config, alias)
      BY <1>4, <2>2, <2>3 DEF BoundMore, IsLamp
    <2>5. ~made.ok => Unbindable(b, config, alias)
      BY <2>2 DEF Unbindable
    <2> QED
      BY <1>4, <2>1, <2>2, <2>4, <2>5 DEF o
  <1> QED
    BY <1>1, <1>2, <1>3, <1>4
-----------------------------------------------------------------------------
(* Configurations: the drafts and the saved records.                       *)
IsConfig(config) == config \in Seq(ToSet(config)) /\ Valid(config)

LEMMA ConfigOfRecords ==
    ASSUME NEW S, NEW config \in Seq(S), Valid(config)
    PROVE IsConfig(config)
  <1>1. config \in [1..Len(config) -> S] /\ DOMAIN config = 1..Len(config) /\ Len(config) \in Nat
    OBVIOUS
  <1>2. \A i \in DOMAIN config : config[i] \in ToSet(config)
    BY DEF ToSet
  <1>3. config = [i \in 1..Len(config) |-> config[i]]
    BY <1>1
  <1>4. config \in [1..Len(config) -> ToSet(config)]
    BY <1>1, <1>2, <1>3
  <1>5. config \in Seq(ToSet(config))
    BY <1>1, <1>4
  <1> QED
    BY <1>5 DEF IsConfig

LEMMA NoRecords == IsConfig(<<>>)
  <1>1. <<>> \in Seq({}) /\ Len(<<>>) = 0 /\ DOMAIN <<>> = {}
    OBVIOUS
  <1>2. Valid(<<>>)
    BY <1>1, ConfigAssumption DEF Valid
  <1> QED
    BY <1>1, <1>2, ConfigOfRecords

LEMMA SetIsConfig ==
    ASSUME NEW config, IsConfig(config), NEW r, CanSet(config, r)
    PROVE IsConfig(Set(config, r))
  <1>1. /\ config \in Seq(ToSet(config)) /\ DOMAIN config = 1..Len(config) /\ Len(config) \in Nat
        /\ Len(config) <= MaxRecords
        /\ \A i \in DOMAIN config : ValidKey(config[i].key) /\ IsBounded(config[i])
        /\ \A i, j \in DOMAIN config : config[i].key = config[j].key => i = j
    BY DEF IsConfig, Valid
  <1>2. ValidKey(r.key) /\ IsBounded(r)
    BY DEF CanSet
  <1>3. CASE r.key \in Keys(config)
    <2> DEFINE c == [i \in 1..Len(config) |-> IF config[i].key = r.key THEN r ELSE config[i]]
    <2>1. Set(config, r) = c
      BY <1>1, <1>3 DEF Set
    <2>2. \A i \in 1..Len(config) : c[i] \in ToSet(config) \cup {r}
      BY <1>1 DEF ToSet
    <2>3. c \in Seq(ToSet(config) \cup {r}) /\ Len(c) = Len(config) /\ DOMAIN c = 1..Len(config)
      BY <1>1, <2>2
    <2>4. \A i \in 1..Len(config) : c[i].key = config[i].key /\ ValidKey(c[i].key) /\ IsBounded(c[i])
      BY <1>1, <1>2
    <2> HIDE DEF c
    <2>5. Valid(c)
      BY <1>1, <2>3, <2>4 DEF Valid
    <2> QED
      BY <2>1, <2>3, <2>5, ConfigOfRecords
  <1>4. CASE r.key \notin Keys(config)
    <2> DEFINE c == Append(config, r)
    <2>1. Set(config, r) = c /\ Len(config) < MaxRecords
      BY <1>4 DEF Set, CanSet
    <2>2. /\ c \in Seq(ToSet(c)) /\ Len(c) = Len(config) + 1 /\ DOMAIN c = 1..(Len(config) + 1)
          /\ c[Len(config) + 1] = r /\ \A i \in 1..Len(config) : c[i] = config[i]
      BY <1>1, Appended
    <2> HIDE DEF c
    <2>3. \A i \in 1..Len(config) : config[i].key # r.key
      BY <1>1, <1>4 DEF Keys
    <2>4. \A i \in DOMAIN c : ValidKey(c[i].key) /\ IsBounded(c[i])
      BY <1>1, <1>2, <2>2
    <2>5. \A i, j \in DOMAIN c : c[i].key = c[j].key => i = j
      BY <1>1, <2>2, <2>3
    <2>6. Len(c) <= MaxRecords
      BY <1>1, <2>1, <2>2, ConfigAssumption
    <2> QED
      BY <2>1, <2>2, <2>4, <2>5, <2>6 DEF IsConfig, Valid
  <1> QED
    BY <1>3, <1>4

LEMMA PackageIsConfig ==
    ASSUME NEW path \in DOMAIN Package, FirmwareReads(Package[path])
    PROVE IsConfig(Records(Package[path]))
  <1> DEFINE lines == Package[path].lines
             c == Records(Package[path])
  <1>1. lines \in Seq(ToSet(lines))
    BY BindingsAssumption
  <1>2. DOMAIN lines = 1..Len(lines) /\ Len(lines) \in Nat
    BY <1>1
  <1>3. c = [i \in 1..Len(lines) |-> Record(lines[i])]
    BY <1>2 DEF Records
  <1> HIDE DEF c
  <1>4. c \in Seq({Record(l) : l \in ToSet(lines)})
    BY <1>2, <1>3 DEF ToSet
  <1>5. Valid(c)
    BY DEF FirmwareReads, c
  <1> QED
    BY <1>4, <1>5, ConfigOfRecords DEF c

LEMMA OwnKeys ==
    /\ ValidKey("service") /\ ValidKey("mode") /\ ValidKey("pinName") /\ ValidKey("event")
    /\ ValidKey("activeLow")
  BY TextsAssumption DEF ValidKey

LEMMA GpioIsConfig ==
    ASSUME NEW alias, NEW pin, NEW low, alias # LongText, pin # LongText
    PROVE IsConfig(GpioConfig(alias, pin, low))
  <1> DEFINE c == GpioConfig(alias, pin, low)
             r1 == StringAt("service", alias)
             r2 == StringAt("mode", "gpio")
             r3 == StringAt("pinName", pin)
             r4 == BoolAt("activeLow", low)
  <1>1. c = <<r1, r2, r3, r4>>
    BY DEF GpioConfig
  <1>2. /\ r1.key = "service" /\ r2.key = "mode" /\ r3.key = "pinName" /\ r4.key = "activeLow"
        /\ r1.text = alias /\ r2.text = "gpio" /\ r3.text = pin /\ r4.kind = "bool"
    BY DEF StringAt, BoolAt
  <1>3. IsBounded(r1) /\ IsBounded(r2) /\ IsBounded(r3) /\ IsBounded(r4)
    BY <1>2, TextsAssumption DEF IsBounded
  <1> HIDE DEF c, r1, r2, r3, r4
  <1>4. /\ c \in Seq({r1, r2, r3, r4}) /\ Len(c) = 4 /\ DOMAIN c = {1, 2, 3, 4}
        /\ c[1] = r1 /\ c[2] = r2 /\ c[3] = r3 /\ c[4] = r4
    BY <1>1
  <1>5. Valid(c)
    <2>1. Len(c) <= MaxRecords
      BY <1>4, TextsAssumption, ConfigAssumption
    <2>2. \A i \in DOMAIN c : ValidKey(c[i].key) /\ IsBounded(c[i])
      BY <1>2, <1>3, <1>4, OwnKeys
    <2>3. \A i, j \in DOMAIN c : c[i].key = c[j].key => i = j
      BY <1>2, <1>4
    <2> QED
      BY <2>1, <2>2, <2>3 DEF Valid
  <1> QED
    BY <1>4, <1>5, ConfigOfRecords DEF c

LEMMA ButtonIsConfig ==
    ASSUME NEW alias, NEW r, alias # LongText, r.pin # LongText, r.event # LongText
    PROVE IsConfig(ButtonConfig(alias, r))
  <1> DEFINE c == ButtonConfig(alias, r)
             r1 == StringAt("service", alias)
             r2 == StringAt("mode", "gpio-button")
             r3 == StringAt("pinName", r.pin)
             r4 == StringAt("event", r.event)
             r5 == BoolAt("activeLow", r.polarity = "activeLow")
  <1>1. c = <<r1, r2, r3, r4, r5>>
    BY DEF ButtonConfig
  <1>2. /\ r1.key = "service" /\ r2.key = "mode" /\ r3.key = "pinName" /\ r4.key = "event"
        /\ r5.key = "activeLow" /\ r1.text = alias /\ r2.text = "gpio-button"
        /\ r3.text = r.pin /\ r4.text = r.event /\ r5.kind = "bool"
    BY DEF StringAt, BoolAt
  <1>3. IsBounded(r1) /\ IsBounded(r2) /\ IsBounded(r3) /\ IsBounded(r4) /\ IsBounded(r5)
    BY <1>2, TextsAssumption DEF IsBounded
  <1> HIDE DEF c, r1, r2, r3, r4, r5
  <1>4. /\ c \in Seq({r1, r2, r3, r4, r5}) /\ Len(c) = 5 /\ DOMAIN c = {1, 2, 3, 4, 5}
        /\ c[1] = r1 /\ c[2] = r2 /\ c[3] = r3 /\ c[4] = r4 /\ c[5] = r5
    BY <1>1
  <1>5. Valid(c)
    <2>1. Len(c) <= MaxRecords
      BY <1>4, TextsAssumption, ConfigAssumption
    <2>2. \A i \in DOMAIN c : ValidKey(c[i].key) /\ IsBounded(c[i])
      BY <1>2, <1>3, <1>4, OwnKeys
    <2>3. \A i, j \in DOMAIN c : c[i].key = c[j].key => i = j
      BY <1>2, <1>4
    <2> QED
      BY <2>1, <2>2, <2>3 DEF Valid
  <1> QED
    BY <1>4, <1>5, ConfigOfRecords DEF c

LEMMA DefaultIsConfig ==
    ASSUME NEW pin \in Defaults
    PROVE IsConfig(DefaultConfig(pin))
  <1>1. Indicator # LongText /\ pin # LongText
    BY TextsAssumption
  <1> QED
    BY <1>1, GpioIsConfig DEF DefaultConfig

LEMMA PlannedIsConfig ==
    ASSUME NEW a \in Apps, NEW i \in DOMAIN Section[a], Plannable(Section[a][i])
    PROVE IsConfig(Planned(Section[a][i]))
  <1> DEFINE b == Section[a][i]
  <1>1. Alias(b) # LongText
    BY TextsAssumption DEF Plannable
  <1>2. CASE GpioText(b.resource)
    <2>1. b.resource.form = "gpio" /\ b.resource.pin # LongText
      BY <1>2, TextsAssumption DEF GpioText
    <2>2. Planned(b) = GpioConfig(Alias(b), b.resource.pin, FALSE)
      BY <2>1 DEF Planned
    <2> QED
      BY <1>1, <2>1, <2>2, GpioIsConfig
  <1>3. CASE ButtonText(b.resource)
    <2>1. /\ b.resource.form = "gpio-button" /\ b.resource.pin # LongText
          /\ b.resource.event # LongText
      BY <1>3, TextsAssumption DEF ButtonText
    <2>2. Planned(b) = ButtonConfig(Alias(b), b.resource)
      BY <2>1 DEF Planned
    <2> QED
      BY <1>1, <2>1, <2>2, ButtonIsConfig
  <1>4. CASE PackagePath(b.resource)
    <2>1. Planned(b) = <<>>
      BY <1>4 DEF PackagePath, Planned
    <2> QED
      BY <2>1, NoRecords
  <1> QED
    BY <1>2, <1>3, <1>4 DEF Plannable
-----------------------------------------------------------------------------
(* The steps of a start.                                                   *)
IsStep(p) == p = [draft |-> p.draft, loaded |-> p.loaded, ok |-> p.ok, bound |-> p.bound]
Stepped(p) ==
    /\ IsStep(p)
    /\ IsConfig(p.draft) /\ p.loaded \in BOOLEAN /\ p.ok \in BOOLEAN /\ Shaped(p.bound)

LEMMA UnboundIsShaped ==
    /\ Shaped(Unbound) /\ Unbound.indicator = NoIndicator /\ Buttons(Unbound) = {}
    /\ ToSet(Unbound.active) = {}
  <1>1. Unbound = [active |-> <<>>, indicator |-> NoIndicator,
                   buttons |-> [i \in 1..MaxButtons |-> NoButton], buttonCount |-> 0]
    BY DEF Unbound
  <1> DEFINE b == Unbound
  <1>2. /\ b.active = <<>> /\ b.indicator = NoIndicator /\ b.buttonCount = 0
        /\ b.buttons = [i \in 1..MaxButtons |-> NoButton] /\ IsBound(b)
    BY <1>1 DEF IsBound
  <1> HIDE DEF b
  <1>3. NoButton.active = FALSE
    BY DEF NoButton
  <1>4. \A i \in 1..MaxButtons : b.buttons[i] = NoButton
    BY <1>2
  <1>5. Held(b) = {} /\ Buttons(b) = {}
    BY <1>3, <1>4 DEF Held, Buttons
  <1>6. ToSet(b.active) = {} /\ b.active \in Seq(ToSet(b.active)) /\ Len(b.active) = 0
    <2>1. ToSet(b.active) = {}
      BY <1>2 DEF ToSet
    <2> QED
      BY <1>2, <2>1
  <1>7. IsInjective(b.active)
    BY <1>2 DEF IsInjective
  <1>8. Cardinality({}) = 0
    BY FS_EmptySet
  <1>9. Shaped(b)
    <2>1. Len(b.active) <= MaxBindings
      BY <1>6, BindingsAssumption
    <2>2. b.buttons = [i \in 1..MaxButtons |-> b.buttons[i]]
      BY <1>2
    <2>3. \A i \in 1..MaxButtons : b.buttons[i].active \in BOOLEAN
      BY <1>3, <1>4
    <2> QED
      BY <1>2, <1>5, <1>6, <1>7, <1>8, <2>1, <2>2, <2>3 DEF Shaped
  <1> QED
    BY <1>2, <1>5, <1>6, <1>9 DEF b

LEMMA StepFields ==
    ASSUME NEW p, IsStep(p), NEW x
    PROVE /\ [p EXCEPT !.draft = x] =
                [draft |-> x, loaded |-> p.loaded, ok |-> p.ok, bound |-> p.bound]
          /\ [p EXCEPT !.loaded = x] =
                [draft |-> p.draft, loaded |-> x, ok |-> p.ok, bound |-> p.bound]
          /\ [p EXCEPT !.ok = x] =
                [draft |-> p.draft, loaded |-> p.loaded, ok |-> x, bound |-> p.bound]
          /\ [p EXCEPT !.bound = x] =
                [draft |-> p.draft, loaded |-> p.loaded, ok |-> p.ok, bound |-> x]
  BY DEF IsStep

LEMMA StepUpdates ==
    ASSUME NEW p, IsStep(p), NEW config
    PROVE /\ Fails(p) = [draft |-> p.draft, loaded |-> p.loaded, ok |-> FALSE, bound |-> p.bound]
          /\ Drafted(p, config) =
                [draft |-> config, loaded |-> TRUE, ok |-> p.ok, bound |-> p.bound]
          /\ [p EXCEPT !.draft = config] =
                [draft |-> config, loaded |-> p.loaded, ok |-> p.ok, bound |-> p.bound]
  <1>1. Fails(p) = [draft |-> p.draft, loaded |-> p.loaded, ok |-> FALSE, bound |-> p.bound]
    BY StepFields DEF Fails
  <1>2. [p EXCEPT !.draft = config] =
           [draft |-> config, loaded |-> p.loaded, ok |-> p.ok, bound |-> p.bound]
    BY StepFields
  <1>3. ASSUME NEW x, NEW y
        PROVE [[p EXCEPT !.draft = x] EXCEPT !.loaded = y] =
                [draft |-> x, loaded |-> y, ok |-> p.ok, bound |-> p.bound]
    <2> DEFINE q == [p EXCEPT !.draft = x]
    <2>1. q = [draft |-> x, loaded |-> p.loaded, ok |-> p.ok, bound |-> p.bound]
      BY StepFields
    <2> HIDE DEF q
    <2>2. IsStep(q) /\ q.draft = x /\ q.ok = p.ok /\ q.bound = p.bound
      BY <2>1 DEF IsStep
    <2>3. [q EXCEPT !.loaded = y] =
             [draft |-> q.draft, loaded |-> y, ok |-> q.ok, bound |-> q.bound]
      BY <2>2 DEF IsStep
    <2>4. [q EXCEPT !.loaded = y] = [draft |-> x, loaded |-> y, ok |-> p.ok, bound |-> p.bound]
      BY <2>2, <2>3
    <2> QED
      BY <2>4 DEF q
  <1>6. Drafted(p, config) = [draft |-> config, loaded |-> TRUE, ok |-> p.ok, bound |-> p.bound]
    BY <1>3 DEF Drafted
  <1> QED
    BY <1>1, <1>2, <1>6

ReboundTo(q, p, o) ==
    q = [draft |-> p.draft, loaded |-> p.loaded, ok |-> o.ok, bound |-> o.bound]
LEMMA ReboundFields ==
    ASSUME NEW p, IsStep(p), NEW alias, NEW faulty
    PROVE ReboundTo(Rebound(p, alias, faulty), p, Bind(p.bound, p.draft, alias, faulty))
  <1>1. ASSUME NEW x, NEW y
        PROVE [[p EXCEPT !.bound = x] EXCEPT !.ok = y] =
                [draft |-> p.draft, loaded |-> p.loaded, ok |-> y, bound |-> x]
    <2> DEFINE q == [p EXCEPT !.bound = x]
    <2>1. q = [draft |-> p.draft, loaded |-> p.loaded, ok |-> p.ok, bound |-> x]
      BY StepFields
    <2> HIDE DEF q
    <2>2. IsStep(q) /\ q.draft = p.draft /\ q.loaded = p.loaded /\ q.bound = x
      BY <2>1 DEF IsStep
    <2>3. [q EXCEPT !.ok = y] =
             [draft |-> q.draft, loaded |-> q.loaded, ok |-> y, bound |-> q.bound]
      BY <2>2, StepFields
    <2>4. [q EXCEPT !.ok = y] =
             [draft |-> p.draft, loaded |-> p.loaded, ok |-> y, bound |-> x]
      BY <2>2, <2>3
    <2> QED
      BY <2>4 DEF q
  <1> DEFINE o == Bind(p.bound, p.draft, alias, faulty)
  <1>2. Rebound(p, alias, faulty) = [[p EXCEPT !.bound = o.bound] EXCEPT !.ok = o.ok]
    BY DEF Rebound
  <1> HIDE DEF o
  <1> QED
    BY <1>1, <1>2 DEF ReboundTo, o

LEMMA FailsKeeps ==
    ASSUME NEW p, Stepped(p)
    PROVE Stepped(Fails(p)) /\ Fails(p).ok = FALSE
  <1>1. Fails(p) = [draft |-> p.draft, loaded |-> p.loaded, ok |-> FALSE, bound |-> p.bound]
    BY StepUpdates DEF Stepped
  <1> DEFINE q == Fails(p)
  <1> HIDE DEF q
  <1>2. /\ IsStep(q)
        /\ q.draft = p.draft /\ q.loaded = p.loaded /\ q.bound = p.bound /\ q.ok = FALSE
    BY <1>1 DEF q, IsStep
  <1> QED
    BY <1>2 DEF Stepped, q

\* The outcome of binding a configuration, as a step of the start.
StepBound(q, p, config, alias, faulty) ==
    /\ Stepped(q)
    /\ q.ok = TRUE => Bindable(config, alias) /\ BoundMore(q.bound, p.bound, config, alias)
    /\ q.ok = FALSE /\ faulty = {} => Unbindable(p.bound, config, alias)

LEMMA RebindStep ==
    ASSUME NEW p, Stepped(p), NEW config, IsConfig(config), NEW alias, NEW faulty
    PROVE StepBound(Rebound(Drafted(p, config), alias, faulty), p, config, alias, faulty)
  <1> DEFINE d == Drafted(p, config)
             o == Bind(p.bound, config, alias, faulty)
             q == Rebound(d, alias, faulty)
  <1>1. d = [draft |-> config, loaded |-> TRUE, ok |-> p.ok, bound |-> p.bound]
    BY StepUpdates DEF Stepped
  <1> HIDE DEF d
  <1>2. /\ IsStep(d)
        /\ d.draft = config /\ d.loaded = TRUE /\ d.bound = p.bound
    BY <1>1 DEF IsStep
  <1>3. q = [draft |-> config, loaded |-> TRUE, ok |-> o.ok, bound |-> o.bound]
    <2>1. ReboundTo(q, d, Bind(d.bound, d.draft, alias, faulty))
      BY <1>2, ReboundFields
    <2>2. ReboundTo(q, d, o)
      BY <1>2, <2>1
    <2> HIDE DEF o
    <2> QED
      BY <1>2, <2>2 DEF ReboundTo
  <1>4. Shaped(p.bound)
    BY DEF Stepped
  <1>5. Shaped(o.bound)
    BY <1>4, BindKeeps
  <1>6. o.ok \in BOOLEAN
    BY <1>4, BindKeeps
  <1>7. o.ok = TRUE => Bindable(config, alias) /\ BoundMore(o.bound, p.bound, config, alias)
    BY <1>4, BindKeeps
  <1>8. o.ok = FALSE /\ faulty = {} => Unbindable(p.bound, config, alias)
    BY <1>4, BindKeeps
  <1> HIDE DEF q, o
  <1>9. /\ IsStep(q)
        /\ q.draft = config /\ q.loaded = TRUE /\ q.ok = o.ok /\ q.bound = o.bound
    BY <1>3 DEF IsStep
  <1>10. Stepped(q)
    BY <1>5, <1>6, <1>9 DEF Stepped
  <1> QED
    BY <1>7, <1>8, <1>9, <1>10 DEF StepBound, q, d
-----------------------------------------------------------------------------
(* The configurations of a start, by the place from which they come.       *)
TargetLayers ==
    IF target = NoPin THEN <<>>
    ELSE <<[alias |-> Indicator, config |-> DefaultConfig(target)]>>
SavedLayers ==
    IF file.there THEN <<[alias |-> Indicator, config |-> file.records]>> ELSE <<>>
SectionLayers(a) ==
    [i \in DOMAIN Section[a] |->
        [alias |-> Alias(Section[a][i]), config |-> ConfigOf(Section[a][i])]]
AfterTarget == IF target = NoPin THEN 0 ELSE 1
BeforeSection == AfterTarget + (IF file.there THEN 1 ELSE 0)

LEMMA Concats ==
    ASSUME NEW S, NEW s \in Seq(S), NEW t \in Seq(S)
    PROVE /\ s \o t \in Seq(S) /\ Len(s) \in Nat /\ Len(t) \in Nat
          /\ Len(s \o t) = Len(s) + Len(t) /\ DOMAIN (s \o t) = 1..(Len(s) + Len(t))
          /\ \A i \in 1..Len(s) : (s \o t)[i] = s[i]
          /\ \A i \in 1..Len(t) : (s \o t)[Len(s) + i] = t[i]
  OBVIOUS

LEMMA LayerFacts ==
    ASSUME NEW a \in Apps
    PROVE /\ AfterTarget \in Nat /\ BeforeSection \in Nat /\ Len(Section[a]) \in Nat
          /\ DOMAIN Section[a] = 1..Len(Section[a])
          /\ DOMAIN Layers(a) = 1..(BeforeSection + Len(Section[a]))
          /\ target # NoPin =>
                Layers(a)[1].alias = Indicator /\ Layers(a)[1].config = DefaultConfig(target)
          /\ file.there => /\ BeforeSection = AfterTarget + 1
                           /\ Layers(a)[BeforeSection].alias = Indicator
                           /\ Layers(a)[BeforeSection].config = file.records
          /\ \A i \in 1..Len(Section[a]) :
                /\ Layers(a)[BeforeSection + i].alias = Alias(Section[a][i])
                /\ Layers(a)[BeforeSection + i].config = ConfigOf(Section[a][i])
  <1> DEFINE s == TargetLayers
             t == SavedLayers
             u == SectionLayers(a)
             S == ToSet(s) \cup ToSet(t) \cup ToSet(u)
  <1>1. Layers(a) = (s \o t) \o u
    BY DEF Layers, TargetLayers, SavedLayers, SectionLayers
  <1>2. s \in Seq(ToSet(s)) /\ Len(s) = AfterTarget
    <2>1. CASE target = NoPin
      <3>1. s = <<>> /\ AfterTarget = 0
        BY <2>1 DEF TargetLayers, AfterTarget
      <3> HIDE DEF s
      <3> QED
        BY <3>1
    <2>2. CASE target # NoPin
      <3> DEFINE x == [alias |-> Indicator, config |-> DefaultConfig(target)]
      <3>1. s = <<x>> /\ AfterTarget = 1
        BY <2>2 DEF TargetLayers, AfterTarget
      <3> HIDE DEF s, x
      <3>2. x \in ToSet(s)
        BY <3>1 DEF ToSet
      <3> QED
        BY <3>1, <3>2
    <2> QED
      BY <2>1, <2>2
  <1>3. t \in Seq(ToSet(t)) /\ Len(t) = IF file.there THEN 1 ELSE 0
    <2>1. CASE ~file.there
      <3>1. t = <<>>
        BY <2>1 DEF SavedLayers
      <3> HIDE DEF t
      <3> QED
        BY <2>1, <3>1
    <2>2. CASE file.there
      <3> DEFINE x == [alias |-> Indicator, config |-> file.records]
      <3>1. t = <<x>>
        BY <2>2 DEF SavedLayers
      <3> HIDE DEF t, x
      <3>2. x \in ToSet(t)
        BY <3>1 DEF ToSet
      <3> QED
        BY <2>2, <3>1, <3>2
    <2> QED
      BY <2>1, <2>2
  <1>4. /\ DOMAIN Section[a] = 1..Len(Section[a]) /\ Len(Section[a]) \in Nat
        /\ Len(u) = Len(Section[a]) /\ u \in Seq(ToSet(u))
    <2>1. Section[a] \in Seq(ToSet(Section[a]))
      BY BindingsAssumption
    <2>2. DOMAIN Section[a] = 1..Len(Section[a]) /\ Len(Section[a]) \in Nat
      BY <2>1
    <2>3. u = [i \in 1..Len(Section[a]) |-> u[i]]
      BY <2>2 DEF SectionLayers
    <2> HIDE DEF u
    <2>4. DOMAIN u = 1..Len(Section[a])
      BY <2>3
    <2>5. \A i \in 1..Len(Section[a]) : u[i] \in ToSet(u)
      BY <2>4 DEF ToSet
    <2>6. u \in [1..Len(Section[a]) -> ToSet(u)]
      BY <2>3, <2>5
    <2> QED
      BY <2>2, <2>6
  <1>5. /\ \A i \in 1..Len(Section[a]) : /\ u[i].alias = Alias(Section[a][i])
                                         /\ u[i].config = ConfigOf(Section[a][i])
    BY <1>4 DEF SectionLayers
  <1>6. target # NoPin => s[1].alias = Indicator /\ s[1].config = DefaultConfig(target)
    <2> SUFFICES ASSUME target # NoPin PROVE s[1] = [alias |-> Indicator, config |-> DefaultConfig(target)]
      OBVIOUS
    <2>1. s = <<[alias |-> Indicator, config |-> DefaultConfig(target)]>>
      BY DEF TargetLayers
    <2> QED
      BY <2>1
  <1>7. file.there => t[1].alias = Indicator /\ t[1].config = file.records
    <2> SUFFICES ASSUME file.there PROVE t[1] = [alias |-> Indicator, config |-> file.records]
      OBVIOUS
    <2>1. t = <<[alias |-> Indicator, config |-> file.records]>>
      BY DEF SavedLayers
    <2> QED
      BY <2>1
  <1> HIDE DEF s, t, u
  <1>8. s \in Seq(S) /\ t \in Seq(S) /\ u \in Seq(S)
    <2>1. ToSet(s) \subseteq S /\ ToSet(t) \subseteq S /\ ToSet(u) \subseteq S
      OBVIOUS
    <2> HIDE DEF S
    <2> QED
      BY <1>2, <1>3, <1>4, <2>1
  <1> HIDE DEF S
  <1> DEFINE st == s \o t
  <1>9. /\ st \in Seq(S) /\ Len(s) \in Nat /\ Len(t) \in Nat /\ Len(st) = Len(s) + Len(t)
        /\ \A i \in 1..Len(s) : st[i] = s[i]
        /\ \A i \in 1..Len(t) : st[Len(s) + i] = t[i]
    BY <1>8, Concats
  <1> HIDE DEF st
  <1>10. /\ DOMAIN (st \o u) = 1..(Len(st) + Len(u))
         /\ \A i \in 1..Len(st) : (st \o u)[i] = st[i]
         /\ \A i \in 1..Len(u) : (st \o u)[Len(st) + i] = u[i]
    <2>1. st \in Seq(S) /\ u \in Seq(S)
      BY <1>8, <1>9
    <2> QED
      BY <2>1, Concats
  <1>11. AfterTarget \in Nat /\ BeforeSection = Len(st) /\ BeforeSection \in Nat
    BY <1>2, <1>3, <1>9 DEF BeforeSection
  <1>12. Layers(a) = st \o u
    BY <1>1 DEF st
  <1>13. target # NoPin => Layers(a)[1] = s[1]
    <2> SUFFICES ASSUME target # NoPin PROVE Layers(a)[1] = s[1]
      OBVIOUS
    <2>1. Len(s) = 1
      BY <1>2 DEF AfterTarget
    <2> QED
      BY <2>1, <1>9, <1>10, <1>12
  <1>14. file.there => BeforeSection = AfterTarget + 1 /\ Layers(a)[BeforeSection] = t[1]
    <2> SUFFICES ASSUME file.there
                 PROVE BeforeSection = AfterTarget + 1 /\ Layers(a)[BeforeSection] = t[1]
      OBVIOUS
    <2>1. Len(t) = 1
      BY <1>3
    <2> QED
      BY <2>1, <1>2, <1>9, <1>10, <1>11, <1>12
  <1>15. \A i \in 1..Len(Section[a]) : Layers(a)[BeforeSection + i] = u[i]
    BY <1>4, <1>10, <1>11, <1>12
  <1> QED
    BY <1>4, <1>5, <1>6, <1>7, <1>10, <1>11, <1>12, <1>13, <1>14, <1>15
(* The bindings that the first k layers leave.                             *)
Lamps(l, k) == {i \in 1..k : IsLamp(l[i].config, l[i].alias)}
Keyed(l, k) == {i \in 1..k : IsButton(l[i].config)}
LastKeyed(l, k) ==
    {i \in Keyed(l, k) : \A j \in Keyed(l, k) : PinOf(l[j].config) = PinOf(l[i].config) => j <= i}
BoundBy(b, l, k) ==
    /\ ToSet(b.active) = {l[i].alias : i \in 1..k}
    /\ IF Lamps(l, k) = {} THEN b.indicator = NoIndicator
       ELSE \E i \in Lamps(l, k) : /\ \A j \in Lamps(l, k) : j <= i
                                   /\ b.indicator = LampOf(l[i].config)
    /\ Buttons(b) = {ButtonOf(l[i].config) : i \in LastKeyed(l, k)}

LEMMA BoundByNone ==
    ASSUME NEW l
    PROVE BoundBy(Unbound, l, 0)
  <1>1. Lamps(l, 0) = {} /\ LastKeyed(l, 0) = {}
    BY DEF Lamps, LastKeyed, Keyed
  <1> QED
    BY <1>1, UnboundIsShaped DEF BoundBy

LEMMA ButtonPin == ASSUME NEW config PROVE ButtonOf(config).pin = PinOf(config)
  BY DEF ButtonOf

LEMMA BoundByMore ==
    ASSUME NEW l, NEW k \in Nat, NEW b, NEW c, BoundBy(b, l, k),
           BoundMore(c, b, l[k + 1].config, l[k + 1].alias)
    PROVE BoundBy(c, l, k + 1)
  <1> DEFINE n == k + 1
  <1>0. 1..n = 1..k \cup {n} /\ n \notin 1..k /\ n \in 1..n /\ \A i \in 1..k : i \in 1..n /\ i <= n
    OBVIOUS
  <1>1. ToSet(c.active) = {l[i].alias : i \in 1..n}
    BY <1>0 DEF BoundBy, BoundMore
  <1>2. CASE IsLamp(l[n].config, l[n].alias)
    <2>1. n \in Lamps(l, n) /\ \A j \in Lamps(l, n) : j <= n
      BY <1>0, <1>2 DEF Lamps
    <2>2. c.indicator = LampOf(l[n].config)
      BY <1>2 DEF BoundMore
    <2>3. ~IsButton(l[n].config)
      BY <1>2 DEF IsLamp
    <2>4. Keyed(l, n) = Keyed(l, k)
      BY <1>0, <2>3 DEF Keyed
    <2>5. LastKeyed(l, n) = LastKeyed(l, k)
      BY <2>4 DEF LastKeyed
    <2>6. Buttons(c) = Buttons(b)
      BY <2>3 DEF BoundMore
    <2>7. Buttons(c) = {ButtonOf(l[i].config) : i \in LastKeyed(l, n)}
      BY <2>5, <2>6 DEF BoundBy
    <2>8. BoundBy(c, l, n)
      <3> HIDE DEF n
      <3> QED
        BY <1>1, <2>1, <2>2, <2>7 DEF BoundBy
    <2> QED
      BY <2>8
  <1>3. CASE ~IsLamp(l[n].config, l[n].alias)
    <2>1. Lamps(l, n) = Lamps(l, k)
      BY <1>0, <1>3 DEF Lamps
    <2>2. c.indicator = b.indicator
      BY <1>3 DEF BoundMore
    <2>3. IF Lamps(l, n) = {} THEN c.indicator = NoIndicator
          ELSE \E i \in Lamps(l, n) : /\ \A j \in Lamps(l, n) : j <= i
                                      /\ c.indicator = LampOf(l[i].config)
      BY <2>1, <2>2 DEF BoundBy
    <2>4. Buttons(c) = {ButtonOf(l[i].config) : i \in LastKeyed(l, n)}
      <3>1. CASE ~IsButton(l[n].config)
        <4>1. Keyed(l, n) = Keyed(l, k)
          BY <1>0, <3>1 DEF Keyed
        <4>2. LastKeyed(l, n) = LastKeyed(l, k)
          BY <4>1 DEF LastKeyed
        <4>3. Buttons(c) = Buttons(b)
          BY <3>1 DEF BoundMore
        <4> QED
          BY <4>2, <4>3 DEF BoundBy
      <3>2. CASE IsButton(l[n].config)
        <4> DEFINE pin == PinOf(l[n].config)
        <4>1. Buttons(c) = {x \in Buttons(b) : x.pin # pin} \cup {ButtonOf(l[n].config)}
          BY <3>2 DEF BoundMore, WithoutPin
        <4>2. Keyed(l, n) = Keyed(l, k) \cup {n}
          BY <1>0, <3>2 DEF Keyed
        <4>3. LastKeyed(l, n) = {i \in LastKeyed(l, k) : PinOf(l[i].config) # pin} \cup {n}
          <5>1. \A i \in Keyed(l, k) : i <= n /\ i # n /\ i \in Nat
            BY <1>0 DEF Keyed
          <5>2. n \in LastKeyed(l, n)
            BY <1>0, <4>2, <5>1 DEF LastKeyed
          <5>3. ASSUME NEW i \in Keyed(l, k)
                PROVE i \in LastKeyed(l, n) <=> i \in LastKeyed(l, k) /\ PinOf(l[i].config) # pin
            <6>1. i <= n /\ ~(n <= i)
              BY <5>1
            <6> QED
              BY <4>2, <6>1 DEF LastKeyed
          <5>4. LastKeyed(l, n) \subseteq Keyed(l, n) /\ LastKeyed(l, k) \subseteq Keyed(l, k)
            BY DEF LastKeyed
          <5> HIDE DEF n, pin
          <5> QED
            BY <4>2, <5>1, <5>2, <5>3, <5>4
        <4>4. \A i \in LastKeyed(l, k) : ButtonOf(l[i].config).pin = PinOf(l[i].config)
          BY ButtonPin
        <4>5. Buttons(b) = {ButtonOf(l[i].config) : i \in LastKeyed(l, k)}
          BY DEF BoundBy
        <4> HIDE DEF n, pin
        <4> QED
          BY <4>1, <4>3, <4>4, <4>5
      <3> QED
        BY <3>1, <3>2
    <2>8. BoundBy(c, l, n)
      <3> HIDE DEF n
      <3> QED
        BY <1>1, <2>3, <2>4 DEF BoundBy
    <2> QED
      BY <2>8
  <1> QED
    BY <1>2, <1>3

\* Wanted, of given bindings and layers.
WantedOf(b, l) ==
    LET lamps == {i \in DOMAIN l : l[i].alias = Indicator /\ ~IsButton(l[i].config)}
        keys == {i \in DOMAIN l : IsButton(l[i].config)}
    IN /\ ToSet(b.active) = {l[i].alias : i \in DOMAIN l}
       /\ IF lamps = {} THEN b.indicator = NoIndicator
          ELSE \E i \in lamps : /\ \A j \in lamps : j <= i
                                /\ b.indicator = [active |-> TRUE, pin |-> PinOf(l[i].config),
                                                  low |-> LowOf(l[i].config)]
       /\ Buttons(b) =
            {[active |-> TRUE, pin |-> PinOf(l[i].config), event |-> TextOf(l[i].config, "event"),
              low |-> LowOf(l[i].config)] :
                i \in {k \in keys : \A j \in keys :
                          PinOf(l[j].config) = PinOf(l[k].config) => j <= k}}

LEMMA BoundByAll ==
    ASSUME NEW b, NEW l, NEW n \in Nat, DOMAIN l = 1..n, BoundBy(b, l, n)
    PROVE WantedOf(b, l)
  <1> DEFINE lamps == {i \in DOMAIN l : l[i].alias = Indicator /\ ~IsButton(l[i].config)}
             keys == {i \in DOMAIN l : IsButton(l[i].config)}
             ends == {k \in keys : \A j \in keys :
                          PinOf(l[j].config) = PinOf(l[k].config) => j <= k}
  <1>1. lamps = Lamps(l, n) /\ keys = Keyed(l, n)
    BY DEF Lamps, Keyed, IsLamp
  <1>2. ends = LastKeyed(l, n)
    BY <1>1 DEF LastKeyed
  <1>3. ToSet(b.active) = {l[i].alias : i \in DOMAIN l}
    BY DEF BoundBy
  <1>4. IF lamps = {} THEN b.indicator = NoIndicator
        ELSE \E i \in lamps : /\ \A j \in lamps : j <= i
                              /\ b.indicator = [active |-> TRUE, pin |-> PinOf(l[i].config),
                                                low |-> LowOf(l[i].config)]
    BY <1>1 DEF BoundBy, LampOf
  <1>5. Buttons(b) = {[active |-> TRUE, pin |-> PinOf(l[i].config),
                       event |-> TextOf(l[i].config, "event"), low |-> LowOf(l[i].config)] :
                          i \in ends}
    BY <1>2 DEF BoundBy, ButtonOf
  <1> QED
    BY <1>3, <1>4, <1>5 DEF WantedOf
(* The limits: the aliases that are bound and the pins of the buttons.     *)
Aliases(l) == {l[i].alias : i \in DOMAIN l}
ButtonPins(l) == {PinOf(l[i].config) : i \in {j \in DOMAIN l : IsButton(l[j].config)}}
WithinLimits(l) == Cardinality(Aliases(l)) <= MaxBindings /\ Cardinality(ButtonPins(l)) <= MaxButtons

PinsOf(b) == {b.buttons[i].pin : i \in Held(b)}

LEMMA PinCount ==
    ASSUME NEW b, Shaped(b)
    PROVE /\ IsFiniteSet(Held(b)) /\ Cardinality(Held(b)) <= MaxButtons
          /\ IsFiniteSet(PinsOf(b)) /\ Cardinality(PinsOf(b)) = Cardinality(Held(b))
          /\ PinsOf(b) = {x.pin : x \in Buttons(b)}
          /\ Cardinality(Buttons(b)) = Cardinality(PinsOf(b))
  <1> DEFINE f == [i \in Held(b) |-> b.buttons[i].pin]
             g == [i \in Held(b) |-> b.buttons[i]]
  <1>1. IsFiniteSet(1..MaxButtons) /\ Cardinality(1..MaxButtons) = MaxButtons
    <2>1. MaxButtons \in Nat
      BY BindingsAssumption
    <2> QED
      BY <2>1, FS_Interval
  <1>2. Held(b) \in SUBSET (1..MaxButtons)
    BY DEF Held
  <1>3. IsFiniteSet(Held(b)) /\ Cardinality(Held(b)) <= MaxButtons
    BY <1>1, <1>2, FS_Subset
  <1>4. \A i, j \in Held(b) : b.buttons[i].pin = b.buttons[j].pin => i = j
    BY DEF Shaped
  <1>5. f \in Bijection(Held(b), PinsOf(b))
    <2>1. f \in [Held(b) -> PinsOf(b)] /\ \A y \in PinsOf(b) : \E i \in Held(b) : f[i] = y
      BY DEF PinsOf
    <2>2. \A i, j \in Held(b) : f[i] = f[j] => i = j
      BY <1>4
    <2> HIDE DEF f
    <2> QED
      BY <2>1, <2>2 DEF Bijection, Injection, Surjection, IsInjective
  <1>6. IsFiniteSet(PinsOf(b)) /\ Cardinality(PinsOf(b)) = Cardinality(Held(b))
    BY <1>3, <1>5, FS_Bijection DEF ExistsBijection
  <1>7. Buttons(b) = {b.buttons[i] : i \in Held(b)}
    BY DEF Buttons, Held
  <1>8. g \in Bijection(Held(b), Buttons(b))
    <2>1. g \in [Held(b) -> Buttons(b)] /\ \A y \in Buttons(b) : \E i \in Held(b) : g[i] = y
      BY <1>7
    <2>2. \A i, j \in Held(b) : g[i] = g[j] => i = j
      BY <1>4
    <2> HIDE DEF g
    <2> QED
      BY <2>1, <2>2 DEF Bijection, Injection, Surjection, IsInjective
  <1>9. Cardinality(Buttons(b)) = Cardinality(Held(b))
    BY <1>3, <1>8, FS_Bijection DEF ExistsBijection
  <1>10. PinsOf(b) = {x.pin : x \in Buttons(b)}
    BY <1>7 DEF PinsOf
  <1> QED
    BY <1>3, <1>6, <1>9, <1>10

LEMMA LimitsAreFinite ==
    ASSUME NEW l, NEW n \in Nat, DOMAIN l = 1..n
    PROVE IsFiniteSet(Aliases(l)) /\ IsFiniteSet(ButtonPins(l))
  <1> DEFINE keyed == {j \in DOMAIN l : IsButton(l[j].config)}
             f == [i \in 1..n |-> l[i].alias]
             g == [i \in keyed |-> PinOf(l[i].config)]
  <1>1. IsFiniteSet(1..n)
    BY FS_Interval
  <1>2. IsFiniteSet(keyed)
    <2>1. keyed \in SUBSET (1..n)
      OBVIOUS
    <2> QED
      BY <1>1, <2>1, FS_Subset
  <1>3. f \in Surjection(1..n, Aliases(l))
    BY DEF Surjection, Aliases
  <1>4. g \in Surjection(keyed, ButtonPins(l))
    BY DEF Surjection, ButtonPins
  <1>5. IsFiniteSet(Aliases(l))
    BY <1>1, <1>3, FS_Surjection
  <1>6. IsFiniteSet(ButtonPins(l))
    BY <1>2, <1>4, FS_Surjection
  <1> QED
    BY <1>5, <1>6

LEMMA BoundFits ==
    ASSUME NEW b, Shaped(b), NEW l, NEW n \in Nat, DOMAIN l = 1..n, BoundBy(b, l, n)
    PROVE WithinLimits(l)
  <1>1. Cardinality(Aliases(l)) <= MaxBindings
    <2>1. Aliases(l) = ToSet(b.active)
      BY DEF BoundBy, Aliases
    <2> QED
      BY <2>1, DistinctCount DEF Shaped
  <1>2. ButtonPins(l) \subseteq PinsOf(b)
    <2> SUFFICES ASSUME NEW m \in Keyed(l, n) PROVE PinOf(l[m].config) \in PinsOf(b)
      BY DEF ButtonPins, Keyed
    <2> DEFINE pin == PinOf(l[m].config)
               s == {i \in Keyed(l, n) : PinOf(l[i].config) = pin}
               e == Max(s)
    <2>1. s \in SUBSET (1..n) /\ s # {}
      BY DEF Keyed
    <2>2. e \in s /\ \A i \in s : i <= e
      BY <2>1, GreatestIndex
    <2> HIDE DEF e
    <2>3. e \in LastKeyed(l, n) /\ PinOf(l[e].config) = pin
      BY <2>2 DEF LastKeyed
    <2>4. ButtonOf(l[e].config) \in Buttons(b)
      BY <2>3 DEF BoundBy
    <2>5. ButtonOf(l[e].config).pin = pin
      BY <2>3, ButtonPin
    <2> QED
      BY <2>4, <2>5, PinCount
  <1>3. Cardinality(ButtonPins(l)) <= MaxButtons
    <2>1. /\ IsFiniteSet(PinsOf(b)) /\ Cardinality(PinsOf(b)) <= MaxButtons
          /\ Cardinality(PinsOf(b)) \in Nat
      BY PinCount, FS_CardinalityType
    <2>2. IsFiniteSet(ButtonPins(l)) /\ Cardinality(ButtonPins(l)) <= Cardinality(PinsOf(b))
      BY <1>2, <2>1, FS_Subset
    <2>3. Cardinality(ButtonPins(l)) \in Nat /\ MaxButtons \in Nat
      BY <2>2, FS_CardinalityType, BindingsAssumption
    <2> QED
      BY <2>1, <2>2, <2>3
  <1> QED
    BY <1>1, <1>3 DEF WithinLimits

LEMMA Unfitting ==
    ASSUME NEW b, Shaped(b), NEW l, NEW n \in Nat, DOMAIN l = 1..n,
           NEW k \in Nat, k + 1 \in 1..n, BoundBy(b, l, k),
           Unbindable(b, l[k + 1].config, l[k + 1].alias),
           Bindable(l[k + 1].config, l[k + 1].alias)
    PROVE ~WithinLimits(l)
  <1>0. IsFiniteSet(Aliases(l)) /\ IsFiniteSet(ButtonPins(l)) /\ 1..k \subseteq 1..n
    BY LimitsAreFinite
  <1>1. CASE l[k + 1].alias \notin ToSet(b.active) /\ Len(b.active) = MaxBindings
    <2> DEFINE s == ToSet(b.active) \cup {l[k + 1].alias}
    <2>1. s \subseteq Aliases(l)
      BY <1>0 DEF BoundBy, Aliases
    <2>2. IsFiniteSet(ToSet(b.active)) /\ Cardinality(ToSet(b.active)) = MaxBindings
      BY <1>1, DistinctCount DEF Shaped
    <2>3. Cardinality(s) = MaxBindings + 1
      BY <1>1, <2>2, FS_AddElement
    <2>4. Cardinality(s) <= Cardinality(Aliases(l))
      BY <1>0, <2>1, FS_Subset
    <2>5. Cardinality(Aliases(l)) \in Nat /\ MaxBindings \in Nat
      BY <1>0, FS_CardinalityType, BindingsAssumption
    <2> QED
      BY <2>3, <2>4, <2>5 DEF WithinLimits
  <1>2. CASE IsButton(l[k + 1].config) /\ NoSlot(b, PinOf(l[k + 1].config))
    <2> DEFINE pin == PinOf(l[k + 1].config)
               s == PinsOf(b) \cup {pin}
    <2>1. pin \in ButtonPins(l)
      BY <1>2 DEF ButtonPins
    <2>2. PinsOf(b) \subseteq ButtonPins(l)
      <3>1. PinsOf(b) = {x.pin : x \in Buttons(b)}
        BY PinCount
      <3>2. Buttons(b) = {ButtonOf(l[i].config) : i \in LastKeyed(l, k)}
        BY DEF BoundBy
      <3>3. \A i \in LastKeyed(l, k) : i \in DOMAIN l /\ IsButton(l[i].config)
        BY <1>0 DEF LastKeyed, Keyed
      <3>4. \A i \in LastKeyed(l, k) : ButtonOf(l[i].config).pin \in ButtonPins(l)
        BY <3>3, ButtonPin DEF ButtonPins
      <3> QED
        BY <3>1, <3>2, <3>4
    <2>3. pin \notin PinsOf(b) /\ Held(b) = 1..MaxButtons
      BY <1>2 DEF NoSlot, PinsOf
    <2>4. IsFiniteSet(PinsOf(b)) /\ Cardinality(PinsOf(b)) = MaxButtons
      <3>1. MaxButtons \in Nat
        BY BindingsAssumption
      <3>2. Cardinality(1..MaxButtons) = MaxButtons
        BY <3>1, FS_Interval
      <3> QED
        BY <2>3, <3>2, PinCount
    <2>5. Cardinality(s) = MaxButtons + 1
      BY <2>3, <2>4, FS_AddElement
    <2>6. Cardinality(s) <= Cardinality(ButtonPins(l))
      <3>1. s \subseteq ButtonPins(l)
        BY <2>1, <2>2
      <3> QED
        BY <1>0, <3>1, FS_Subset
    <2>7. Cardinality(ButtonPins(l)) \in Nat /\ MaxButtons \in Nat
      BY <1>0, FS_CardinalityType, BindingsAssumption
    <2> QED
      BY <2>5, <2>6, <2>7 DEF WithinLimits
  <1> QED
    BY <1>1, <1>2 DEF Unbindable
-----------------------------------------------------------------------------
(* What the bindings, the draft and the file are between two operations.   *)
BindInv ==
    /\ target \in Defaults /\ app \in Apps \cup {NoApp} /\ draftLoaded \in BOOLEAN
    /\ IsConfig(draft) /\ Shaped(bound)
    /\ file.there \in BOOLEAN /\ file.records \in Seq(ToSet(file.records))

(* What Startable asks, place by place.                                    *)
SavedFits == file.there => FirmwareDecodes(file) /\ Bindable(file.records, Indicator)
Readable(b) ==
    b.resource.form = "package" => /\ b.resource.path \in DOMAIN Package
                                   /\ FirmwareReads(Package[b.resource.path])
BindingFits(b) == Plannable(b) /\ Readable(b) /\ Bindable(ConfigOf(b), Alias(b))

LEMMA StartableIs ==
    ASSUME NEW a
    PROVE Startable(a) <=> /\ SavedFits /\ Len(Section[a]) <= MaxSection
                           /\ \A i \in DOMAIN Section[a] : BindingFits(Section[a][i])
                           /\ WithinLimits(Layers(a))
  <1>1. (\A i \in DOMAIN Section[a] : BindingFits(Section[a][i])) <=>
        (\A i \in DOMAIN Section[a] :
            LET b == Section[a][i]
            IN /\ Plannable(b)
               /\ b.resource.form = "package" =>
                     /\ b.resource.path \in DOMAIN Package
                     /\ FirmwareReads(Package[b.resource.path])
               /\ Bindable(ConfigOf(b), Alias(b)))
    BY DEF BindingFits, Readable
  <1>2. WithinLimits(Layers(a)) <=>
        (LET l == Layers(a)
             pins == {PinOf(l[i].config) : i \in {j \in DOMAIN l : IsButton(l[j].config)}}
         IN /\ Cardinality({l[i].alias : i \in DOMAIN l}) <= MaxBindings
            /\ Cardinality(pins) <= MaxButtons)
    BY DEF WithinLimits, Aliases, ButtonPins
  <1> QED
    BY <1>1, <1>2 DEF Startable, SavedFits

LEMMA DefaultLamp ==
    ASSUME NEW pin
    PROVE /\ IsLamp(DefaultConfig(pin), Indicator)
          /\ LampOf(DefaultConfig(pin)) = [active |-> TRUE, pin |-> PinNumber[pin], low |-> TRUE]
  <1> DEFINE c == DefaultConfig(pin)
             r1 == StringAt("service", Indicator)
             r2 == StringAt("mode", "gpio")
             r3 == StringAt("pinName", pin)
             r4 == BoolAt("activeLow", TRUE)
  <1>1. c = <<r1, r2, r3, r4>>
    BY DEF DefaultConfig, GpioConfig
  <1>2. /\ r1.key = "service" /\ r2.key = "mode" /\ r3.key = "pinName" /\ r4.key = "activeLow"
        /\ r2.text = "gpio" /\ r3.text = pin /\ r4.text = "true"
    BY DEF StringAt, BoolAt
  <1> HIDE DEF c, r1, r2, r3, r4
  <1>3. /\ DOMAIN c = {1, 2, 3, 4}
        /\ c[1] = r1 /\ c[2] = r2 /\ c[3] = r3 /\ c[4] = r4
    BY <1>1
  <1>4. ToSet(c) = {r1, r2, r3, r4}
    BY <1>3 DEF ToSet
  <1>5. ~IsButton(c)
    <2> SUFFICES ASSUME NEW i \in DOMAIN c,
                        c[i] = [key |-> "mode", kind |-> "string", text |-> "gpio-button"]
                 PROVE FALSE
      BY DEF IsButton, Says
    <2>1. c[i].key = "mode" /\ c[i].text = "gpio-button"
      OBVIOUS
    <2> QED
      BY <1>2, <1>3, <2>1
  <1>6. (CHOOSE r \in ToSet(c) : r.key = "pinName") = r3
    BY <1>2, <1>4
  <1>7. (CHOOSE r \in ToSet(c) : r.key = "activeLow") = r4
    BY <1>2, <1>4
  <1>8. TextOf(c, "pinName") = pin /\ TextOf(c, "activeLow") = "true"
    BY <1>2, <1>6, <1>7 DEF TextOf
  <1>9. PinOf(c) = PinNumber[pin] /\ LowOf(c) = TRUE
    BY <1>8 DEF PinOf, LowOf
  <1> QED
    BY <1>5, <1>9 DEF IsLamp, LampOf, c

(* The default indicator binds, and nothing of the app before stays.       *)
LEMMA TargetStep ==
    ASSUME BindInv, NEW a \in Apps
    PROVE /\ Stepped(ApplyTarget(bound)) /\ ApplyTarget(bound).ok = TRUE
          /\ BoundBy(ApplyTarget(bound).bound, Layers(a), AfterTarget)
  <1> DEFINE q == ApplyTarget(bound)
  <1>1. CASE target = NoPin
    <2>1. q = [draft |-> <<>>, loaded |-> FALSE, ok |-> TRUE, bound |-> Unbound]
      BY <1>1 DEF ApplyTarget
    <2> HIDE DEF q
    <2>2. IsStep(q) /\ q.draft = <<>> /\ q.loaded = FALSE /\ q.ok = TRUE /\ q.bound = Unbound
      BY <2>1 DEF IsStep
    <2>3. Stepped(q)
      BY <2>2, NoRecords, UnboundIsShaped DEF Stepped
    <2>4. BoundBy(q.bound, Layers(a), AfterTarget)
      BY <1>1, <2>2, BoundByNone DEF AfterTarget
    <2> QED
      BY <2>2, <2>3, <2>4 DEF q
  <1>2. CASE target # NoPin
    <2> DEFINE config == DefaultConfig(target)
               lamp == [Unbound EXCEPT !.indicator = LampOf(config)]
               o == Activate(lamp, Indicator)
    <2>1. q = [draft |-> config, loaded |-> TRUE, ok |-> TRUE, bound |-> o.bound]
      BY <1>2, DefaultLamp DEF ApplyTarget, ActivateIndicator
    <2>2. /\ Shaped(lamp) /\ lamp.indicator = LampOf(config)
          /\ lamp.active = Unbound.active /\ lamp.buttons = Unbound.buttons
      BY UnboundIsShaped, LampKeeps
    <2> HIDE DEF q, lamp
    <2>3. /\ Shaped(o.bound) /\ o.ok \in BOOLEAN
          /\ o.bound.indicator = lamp.indicator /\ o.bound.buttons = lamp.buttons
          /\ o.ok => ToSet(o.bound.active) = ToSet(lamp.active) \cup {Indicator}
          /\ ~o.ok => Indicator \notin ToSet(lamp.active) /\ Len(lamp.active) = MaxBindings
      BY <2>2, ActivateKeeps
    <2>4. Len(lamp.active) = 0
      BY <2>2 DEF Unbound
    <2>5. o.ok
      BY <2>3, <2>4, BindingsAssumption
    <2> HIDE DEF o
    <2>6. IsStep(q) /\ q.draft = config /\ q.loaded = TRUE /\ q.ok = TRUE /\ q.bound = o.bound
      BY <2>1 DEF IsStep
    <2>7. IsConfig(config)
      BY DefaultIsConfig DEF BindInv
    <2> HIDE DEF config
    <2>8. Stepped(q)
      BY <2>3, <2>6, <2>7 DEF Stepped
    <2>9. IsLamp(config, Indicator)
      BY DefaultLamp DEF config
    <2>10. Buttons(o.bound) = Buttons(Unbound)
      <3>1. o.bound.buttons = Unbound.buttons
        BY <2>2, <2>3
      <3> QED
        BY <3>1, SameButtons
    <2>11. BoundMore(o.bound, Unbound, config, Indicator)
      BY <2>2, <2>3, <2>5, <2>9, <2>10 DEF BoundMore, IsLamp
    <2>12. AfterTarget = 1 /\ Layers(a)[1].alias = Indicator /\ Layers(a)[1].config = config
      BY <1>2, LayerFacts DEF AfterTarget, config
    <2>13. BoundBy(q.bound, Layers(a), AfterTarget)
      <3>1. BoundMore(q.bound, Unbound, Layers(a)[0 + 1].config, Layers(a)[0 + 1].alias)
        BY <2>6, <2>11, <2>12
      <3>2. BoundBy(q.bound, Layers(a), 0 + 1)
        BY <3>1, BoundByNone, BoundByMore
      <3> QED
        BY <2>12, <3>2
    <2> QED
      BY <2>6, <2>8, <2>13 DEF q
  <1> QED
    BY <1>1, <1>2
(* A layer that binds, or the reason why it does not.                      *)
LayerStep(q, p, a, k, config, alias, calm) ==
    /\ Stepped(q)
    /\ q.ok = TRUE => Bindable(config, alias) /\ BoundBy(q.bound, Layers(a), k + 1)
    /\ q.ok = FALSE /\ calm => ~Bindable(config, alias) \/ ~WithinLimits(Layers(a))

LEMMA OneLayer ==
    ASSUME NEW a \in Apps, NEW p, Stepped(p), NEW k \in Nat, BoundBy(p.bound, Layers(a), k),
           NEW n \in Nat, DOMAIN Layers(a) = 1..n, k + 1 \in 1..n,
           NEW config, IsConfig(config), NEW alias, NEW faulty, NEW calm, calm => faulty = {},
           Layers(a)[k + 1].config = config, Layers(a)[k + 1].alias = alias
    PROVE LayerStep(Rebound(Drafted(p, config), alias, faulty), p, a, k, config, alias, calm)
  <1> DEFINE q == Rebound(Drafted(p, config), alias, faulty)
             l == Layers(a)
  <1>1. StepBound(q, p, config, alias, faulty)
    BY RebindStep
  <1> HIDE DEF q, l
  <1>2. Stepped(q) /\ Shaped(p.bound)
    BY <1>1 DEF StepBound, Stepped
  <1>3. ASSUME q.ok = TRUE PROVE Bindable(config, alias) /\ BoundBy(q.bound, l, k + 1)
    <2>1. Bindable(config, alias) /\ BoundMore(q.bound, p.bound, config, alias)
      BY <1>1, <1>3 DEF StepBound
    <2>2. BoundMore(q.bound, p.bound, l[k + 1].config, l[k + 1].alias)
      BY <2>1 DEF l
    <2> QED
      BY <2>1, <2>2, BoundByMore DEF l
  <1>4. ASSUME q.ok = FALSE, calm, Bindable(config, alias) PROVE ~WithinLimits(l)
    <2>1. Unbindable(p.bound, config, alias)
      BY <1>1, <1>4 DEF StepBound
    <2>2. Unbindable(p.bound, l[k + 1].config, l[k + 1].alias) /\ Bindable(l[k + 1].config, l[k + 1].alias)
      BY <1>4, <2>1 DEF l
    <2>3. DOMAIN l = 1..n /\ BoundBy(p.bound, l, k)
      BY DEF l
    <2> QED
      BY <1>2, <2>2, <2>3, Unfitting
  <1> QED
    BY <1>2, <1>3, <1>4 DEF LayerStep, q, l

(* The saved configuration, when there is one.                             *)
SavedDone(q, a, calm) ==
    /\ Stepped(q)
    /\ q.ok = TRUE => SavedFits /\ BoundBy(q.bound, Layers(a), BeforeSection)
    /\ q.ok = FALSE /\ calm => ~SavedFits \/ ~WithinLimits(Layers(a))

LEMMA SavedStep ==
    ASSUME BindInv, NEW a \in Apps, NEW p, Stepped(p), p.ok = TRUE,
           BoundBy(p.bound, Layers(a), AfterTarget),
           NEW io \in BOOLEAN, NEW faulty, NEW calm, calm => io /\ faulty = {}
    PROVE SavedDone(ApplySaved(p, io, faulty), a, calm)
  <1>1. CASE ~io
    <2>1. ApplySaved(p, io, faulty) = Fails(p)
      BY <1>1 DEF ApplySaved
    <2> QED
      BY <1>1, <2>1, FailsKeeps DEF SavedDone
  <1>2. CASE io /\ ~file.there
    <2>1. ApplySaved(p, io, faulty) = p
      BY <1>2 DEF ApplySaved
    <2>2. BeforeSection = AfterTarget
      BY <1>2, LayerFacts DEF BeforeSection
    <2> QED
      BY <1>2, <2>1, <2>2 DEF SavedDone, SavedFits
  <1>3. CASE io /\ file.there /\ ~FirmwareDecodes(file)
    <2>1. ApplySaved(p, io, faulty) = Fails(p)
      BY <1>3 DEF ApplySaved
    <2>2. ~SavedFits
      BY <1>3 DEF SavedFits
    <2> QED
      BY <2>1, <2>2, FailsKeeps DEF SavedDone
  <1>4. CASE io /\ file.there /\ FirmwareDecodes(file)
    <2> DEFINE config == file.records
               q == Rebound(Drafted(p, config), Indicator, faulty)
               n == BeforeSection + Len(Section[a])
    <2>1. ApplySaved(p, io, faulty) = q
      BY <1>4 DEF ApplySaved
    <2>2. IsConfig(config)
      BY <1>4 DEF BindInv, FirmwareDecodes, IsConfig
    <2>3. /\ AfterTarget \in Nat /\ n \in Nat /\ DOMAIN Layers(a) = 1..n
          /\ BeforeSection = AfterTarget + 1 /\ AfterTarget + 1 \in 1..n
          /\ Layers(a)[AfterTarget + 1].alias = Indicator
          /\ Layers(a)[AfterTarget + 1].config = config
      <3>1. /\ AfterTarget \in Nat /\ BeforeSection \in Nat /\ Len(Section[a]) \in Nat
            /\ DOMAIN Layers(a) = 1..n
        BY LayerFacts
      <3>2. /\ BeforeSection = AfterTarget + 1
            /\ Layers(a)[BeforeSection].alias = Indicator
            /\ Layers(a)[BeforeSection].config = config
        BY <1>4, LayerFacts
      <3>3. n \in Nat /\ AfterTarget + 1 \in 1..n
        BY <3>1, <3>2
      <3> HIDE DEF n, config
      <3> QED
        BY <3>1, <3>2, <3>3
    <2> HIDE DEF n, config
    <2>4. calm => faulty = {}
      OBVIOUS
    <2>5. LayerStep(q, p, a, AfterTarget, config, Indicator, calm)
      BY <2>2, <2>3, <2>4, OneLayer
    <2> HIDE DEF q
    <2>6. SavedFits <=> Bindable(config, Indicator)
      BY <1>4 DEF SavedFits, config
    <2>7. SavedDone(q, a, calm)
      BY <2>3, <2>5, <2>6 DEF LayerStep, SavedDone
    <2> QED
      BY <2>1, <2>7
  <1> QED
    BY <1>1, <1>2, <1>3, <1>4 DEF BindInv

(* A binding of the section.                                               *)
BindingDone(q, a, i, calm) ==
    /\ Stepped(q)
    /\ q.ok = TRUE => /\ BindingFits(Section[a][i])
                      /\ BoundBy(q.bound, Layers(a), BeforeSection + i)
    /\ q.ok = FALSE /\ calm => ~BindingFits(Section[a][i]) \/ ~WithinLimits(Layers(a))

LEMMA BindingStep ==
    ASSUME NEW a \in Apps, NEW i \in 1..Len(Section[a]), NEW p, Stepped(p), p.ok = TRUE,
           BoundBy(p.bound, Layers(a), BeforeSection + (i - 1)),
           NEW faulty, NEW calm, calm => faulty = {}
    PROVE BindingDone(ApplyBinding(p, Section[a][i], faulty), a, i, calm)
  <1> DEFINE b == Section[a][i]
             k == BeforeSection + (i - 1)
             n == BeforeSection + Len(Section[a])
  <1>1. /\ k \in Nat /\ n \in Nat /\ DOMAIN Layers(a) = 1..n /\ k + 1 \in 1..n
        /\ k + 1 = BeforeSection + i /\ i \in DOMAIN Section[a]
        /\ Layers(a)[k + 1].alias = Alias(b) /\ Layers(a)[k + 1].config = ConfigOf(b)
    <2>1. BeforeSection \in Nat /\ Len(Section[a]) \in Nat /\ DOMAIN Layers(a) = 1..n
      BY LayerFacts
    <2>2. i \in DOMAIN Section[a]
      BY LayerFacts
    <2>3. k \in Nat /\ n \in Nat /\ k + 1 \in 1..n /\ k + 1 = BeforeSection + i
      BY <2>1
    <2>4. /\ Layers(a)[BeforeSection + i].alias = Alias(b)
          /\ Layers(a)[BeforeSection + i].config = ConfigOf(b)
      BY LayerFacts
    <2> HIDE DEF b, k, n
    <2> QED
      BY <2>1, <2>2, <2>3, <2>4
  <1> HIDE DEF n, k
  <1>2. CASE ~Plannable(b)
    <2>1. ApplyBinding(p, b, faulty) = Fails(p)
      BY <1>2 DEF ApplyBinding
    <2> QED
      BY <1>2, <2>1, FailsKeeps DEF BindingDone, BindingFits
  <1>3. CASE Plannable(b) /\ b.resource.form # "package"
    <2> DEFINE q == Rebound(Drafted(p, ConfigOf(b)), Alias(b), faulty)
    <2>1. ApplyBinding(p, b, faulty) = q /\ ConfigOf(b) = Planned(b)
      BY <1>3 DEF ApplyBinding, ConfigOf
    <2>2. IsConfig(ConfigOf(b))
      BY <1>1, <1>3, <2>1, PlannedIsConfig
    <2>3. LayerStep(q, p, a, k, ConfigOf(b), Alias(b), calm)
      BY <1>1, <2>2, OneLayer DEF k
    <2> HIDE DEF q
    <2>4. BindingFits(b) <=> Bindable(ConfigOf(b), Alias(b))
      BY <1>3 DEF BindingFits, Readable
    <2>5. BindingDone(q, a, i, calm)
      BY <1>1, <2>3, <2>4 DEF LayerStep, BindingDone
    <2> QED
      BY <2>1, <2>5
  <1>4. CASE Plannable(b) /\ b.resource.form = "package"
    <2> DEFINE e == [p EXCEPT !.draft = <<>>]
    <2>1. e = [draft |-> <<>>, loaded |-> p.loaded, ok |-> p.ok, bound |-> p.bound]
      BY StepUpdates DEF Stepped
    <2>2. ApplyBinding(p, b, faulty) =
            IF Readable(b) THEN Rebound(Drafted(e, Records(Package[b.resource.path])), Alias(b), faulty)
            ELSE Fails(e)
      BY <1>4 DEF ApplyBinding, Readable
    <2> HIDE DEF e
    <2>3. Stepped(e) /\ e.bound = p.bound
      <3>1. /\ IsStep(e) /\ e.draft = <<>> /\ e.loaded = p.loaded /\ e.ok = p.ok
            /\ e.bound = p.bound
        BY <2>1 DEF IsStep
      <3> QED
        BY <3>1, NoRecords DEF Stepped
    <2>4. CASE Readable(b)
      <3> DEFINE q == Rebound(Drafted(e, ConfigOf(b)), Alias(b), faulty)
      <3>1. ApplyBinding(p, b, faulty) = q
        BY <1>4, <2>2, <2>4 DEF ConfigOf
      <3>2. IsConfig(ConfigOf(b))
        BY <1>4, <2>4, PackageIsConfig DEF Readable, ConfigOf
      <3>3. BoundBy(e.bound, Layers(a), k)
        BY <2>3 DEF k
      <3>4. LayerStep(q, e, a, k, ConfigOf(b), Alias(b), calm)
        BY <1>1, <2>3, <3>2, <3>3, OneLayer
      <3> HIDE DEF q
      <3>5. BindingFits(b) <=> Bindable(ConfigOf(b), Alias(b))
        BY <1>4, <2>4 DEF BindingFits
      <3>6. BindingDone(q, a, i, calm)
        BY <1>1, <3>4, <3>5 DEF LayerStep, BindingDone
      <3> QED
        BY <3>1, <3>6
    <2>5. CASE ~Readable(b)
      <3>1. ApplyBinding(p, b, faulty) = Fails(e)
        BY <2>2, <2>5
      <3> QED
        BY <2>3, <2>5, <3>1, FailsKeeps DEF BindingDone, BindingFits
    <2> QED
      BY <2>4, <2>5
  <1> QED
    BY <1>2, <1>3, <1>4

(* The section, binding by binding: by induction over its run.             *)
SectionDone(q, a, i, calm) ==
    /\ Stepped(q)
    /\ q.ok = TRUE => /\ \A j \in 1..i : BindingFits(Section[a][j])
                      /\ BoundBy(q.bound, Layers(a), BeforeSection + i)
    /\ q.ok = FALSE /\ calm => ~Startable(a)

LEMMA SectionSteps ==
    ASSUME NEW a \in Apps, NEW faulty, NEW calm, calm => faulty = {},
           NEW p, SectionDone(p, a, 0, calm), NEW run, RunOf(run, p, Section[a], faulty),
           NEW n \in 0..Len(Section[a])
    PROVE SectionDone(run[n], a, n, calm)
  <1> DEFINE T == {m \in Nat : m <= Len(Section[a]) /\ ~SectionDone(run[m], a, m, calm)}
  <1>0. Len(Section[a]) \in Nat /\ DOMAIN Section[a] = 1..Len(Section[a])
    BY LayerFacts
  <1>1. SUFFICES ASSUME T # {} PROVE FALSE
    BY <1>0
  <1>2. PICK m \in T : \A k \in T : ~(k < m)
    <2>1. T \in SUBSET Nat
      OBVIOUS
    <2> HIDE DEF T
    <2> QED
      BY <1>1, <2>1, LeastNumber
  <1>3. CASE m = 0
    <2>1. run[0] = p
      BY DEF RunOf
    <2> QED
      BY <1>2, <1>3, <2>1
  <1>4. CASE m > 0
    <2> DEFINE k == m - 1
               q == run[k]
    <2>1. k \in Nat /\ k < m /\ k <= Len(Section[a]) /\ m \in 1..Len(Section[a])
      BY <1>0, <1>4
    <2>2. SectionDone(q, a, k, calm)
      BY <1>2, <2>1
    <2>3. run[m] = ApplyBinding(q, Section[a][m], faulty)
      BY <2>1 DEF RunOf
    <2> HIDE DEF q
    <2>4. Stepped(q) /\ q.ok \in BOOLEAN
      BY <2>2 DEF SectionDone, Stepped
    <2>5. CASE q.ok = FALSE
      <3>1. run[m] = q
        BY <2>3, <2>5 DEF ApplyBinding
      <3>2. SectionDone(q, a, m, calm)
        BY <2>2, <2>5 DEF SectionDone
      <3> QED
        BY <1>2, <3>1, <3>2
    <2>6. CASE q.ok = TRUE
      <3> DEFINE r == run[m]
      <3>1. BoundBy(q.bound, Layers(a), BeforeSection + (m - 1))
        BY <2>2, <2>6 DEF SectionDone
      <3>2. BindingDone(r, a, m, calm)
        BY <2>1, <2>3, <2>4, <2>6, <3>1, BindingStep
      <3> HIDE DEF r
      <3>3. \A j \in 1..k : BindingFits(Section[a][j])
        BY <2>2, <2>6 DEF SectionDone
      <3>4. 1..m = 1..k \cup {m}
        BY <2>1
      <3>5. r.ok = TRUE => /\ \A j \in 1..m : BindingFits(Section[a][j])
                           /\ BoundBy(r.bound, Layers(a), BeforeSection + m)
        BY <3>2, <3>3, <3>4 DEF BindingDone
      <3>6. r.ok = FALSE /\ calm => ~Startable(a)
        <4>1. m \in DOMAIN Section[a]
          BY <1>0, <2>1
        <4> QED
          BY <3>2, <4>1, StartableIs DEF BindingDone
      <3>7. SectionDone(r, a, m, calm)
        BY <3>2, <3>5, <3>6 DEF SectionDone, BindingDone
      <3> QED
        BY <1>2, <3>7 DEF r
    <2> QED
      BY <2>4, <2>5, <2>6
  <1> QED
    BY <1>3, <1>4

Started(a, io, faulty) ==
    ApplySection(ApplySaved(ApplyTarget(bound), io, faulty), Section[a], faulty)
StartDone(q, a, calm) ==
    /\ Stepped(q)
    /\ q.ok = TRUE => Startable(a) /\ WantedOf(q.bound, Layers(a))
    /\ q.ok = FALSE /\ calm => ~Startable(a)

LEMMA StartSteps ==
    ASSUME BindInv, NEW a \in Apps, NEW io \in BOOLEAN, NEW faulty
    PROVE StartDone(Started(a, io, faulty), a, io /\ faulty = {})
  <1> DEFINE t == ApplyTarget(bound)
             p == ApplySaved(t, io, faulty)
             q == Started(a, io, faulty)
             n == Len(Section[a])
             total == BeforeSection + n
             calm == io /\ faulty = {}
  <1>1. q = ApplySection(p, Section[a], faulty)
    BY DEF Started
  <1>2. Stepped(t) /\ t.ok = TRUE /\ BoundBy(t.bound, Layers(a), AfterTarget)
    BY TargetStep
  <1>3. /\ BeforeSection \in Nat /\ n \in Nat /\ DOMAIN Section[a] = 1..n
        /\ total \in Nat /\ DOMAIN Layers(a) = 1..total
    BY LayerFacts
  <1> HIDE DEF t
  <1>4. SavedDone(p, a, calm)
    BY <1>2, SavedStep
  <1> HIDE DEF p, q, calm, total
  <1>5. Stepped(p) /\ p.ok \in BOOLEAN
    BY <1>4 DEF SavedDone, Stepped
  <1>6. CASE p.ok = FALSE
    <2>1. q = p
      BY <1>1, <1>6 DEF ApplySection
    <2>2. calm => ~Startable(a)
      BY <1>4, <1>6, StartableIs DEF SavedDone
    <2>3. StartDone(q, a, calm)
      BY <1>5, <1>6, <2>1, <2>2 DEF StartDone
    <2> QED
      BY <2>3 DEF q, calm
  <1>7. CASE p.ok = TRUE /\ n > MaxSection
    <2>1. q = Fails(p)
      BY <1>1, <1>7 DEF ApplySection
    <2>2. ~Startable(a)
      <3>1. MaxSection \in Nat
        BY BindingsAssumption
      <3> QED
        BY <1>3, <1>7, <3>1, StartableIs
    <2>3. StartDone(q, a, calm)
      BY <1>5, <2>1, <2>2, FailsKeeps DEF StartDone
    <2> QED
      BY <2>3 DEF q, calm
  <1>8. CASE p.ok = TRUE /\ ~(n > MaxSection)
    <2>1. q = Folded(p, Section[a], faulty)
      BY <1>1, <1>8 DEF ApplySection, Folded
    <2>2. PICK run : RunOf(run, p, Section[a], faulty) /\ q = run[n]
      BY <1>3, <2>1, SectionRun
    <2>3. SectionDone(p, a, 0, calm)
      <3>1. BoundBy(p.bound, Layers(a), BeforeSection + 0)
        BY <1>3, <1>4, <1>8 DEF SavedDone
      <3> QED
        BY <1>5, <1>8, <3>1 DEF SectionDone
    <2>4. SectionDone(q, a, n, calm)
      <3>1. n \in 0..Len(Section[a]) /\ (calm => faulty = {})
        BY <1>3 DEF calm
      <3>2. SectionDone(run[n], a, n, calm)
        BY <2>2, <2>3, <3>1, SectionSteps
      <3> QED
        BY <2>2, <3>2
    <2>5. ASSUME q.ok = TRUE PROVE Startable(a) /\ WantedOf(q.bound, Layers(a))
      <3>1. /\ \A j \in 1..n : BindingFits(Section[a][j])
            /\ BoundBy(q.bound, Layers(a), total) /\ Shaped(q.bound)
        BY <2>4, <2>5 DEF SectionDone, Stepped, total
      <3>2. WithinLimits(Layers(a))
        BY <1>3, <3>1, BoundFits
      <3>3. SavedFits
        BY <1>4, <1>8 DEF SavedDone
      <3>4. n <= MaxSection
        BY <1>3, <1>8, BindingsAssumption
      <3>5. Startable(a)
        BY <1>3, <3>1, <3>2, <3>3, <3>4, StartableIs
      <3>6. WantedOf(q.bound, Layers(a))
        BY <1>3, <3>1, BoundByAll
      <3> QED
        BY <3>5, <3>6
    <2>6. StartDone(q, a, calm)
      BY <2>4, <2>5 DEF SectionDone, StartDone
    <2> QED
      BY <2>6 DEF q, calm
  <1> QED
    BY <1>5, <1>6, <1>7, <1>8
-----------------------------------------------------------------------------
(* The theorems about the bindings.                                        *)
LEMMA BindInit == Init => BindInv
  <1> SUFFICES ASSUME Init PROVE BindInv
    OBVIOUS
  <1>1. file = [there |-> FALSE, magic |-> FALSE, count |-> 0, records |-> <<>>]
    BY DEF Init, Absent
  <1>2. file.there = FALSE /\ file.records = <<>>
    BY <1>1
  <1>3. file.records \in Seq(ToSet(file.records))
    BY <1>2, NoRecords DEF IsConfig
  <1>4. /\ target \in Defaults /\ draft = <<>> /\ draftLoaded = FALSE /\ bound = Unbound
        /\ app = NoApp
    BY DEF Init
  <1> QED
    BY <1>2, <1>3, <1>4, NoRecords, UnboundIsShaped DEF BindInv

LEMMA BindStart ==
    ASSUME BindInv, NEW a \in Apps, NEW io \in BOOLEAN, NEW faulty, Start(a, io, faulty)
    PROVE BindInv' /\ StartBinds' /\ SavedReadsBack'
  <1> DEFINE p == Started(a, io, faulty)
             calm == io /\ faulty = {}
  <1>1. /\ draft' = p.draft /\ draftLoaded' = p.loaded /\ bound' = p.bound
        /\ app' = IF p.ok THEN a ELSE NoApp
        /\ last' = Answer("start", a, p.ok, calm)
        /\ target' = target /\ file' = file
    BY DEF Start, Started
  <1>2. StartDone(p, a, calm)
    BY StartSteps
  <1> HIDE DEF p, calm
  <1>3. IsConfig(p.draft) /\ p.loaded \in BOOLEAN /\ Shaped(p.bound) /\ p.ok \in BOOLEAN
    BY <1>2 DEF StartDone, Stepped
  <1>4. BindInv'
    BY <1>1, <1>3 DEF BindInv
  <1>5. /\ last'.op = "start" /\ last'.what = a /\ last'.ok = p.ok
        /\ last'.calm = calm
    BY <1>1 DEF Answer
  <1>6. Layers(a)' = Layers(a)
    BY <1>1 DEF Layers
  <1>7. SavedFits' <=> SavedFits
    BY <1>1 DEF SavedFits
  <1>8. Startable(a)' <=> Startable(a)
    BY <1>1, <1>6 DEF Startable
  <1>9. Wanted(a)' <=> WantedOf(p.bound, Layers(a))
    BY <1>1, <1>6 DEF Wanted, WantedOf
  <1>10. p.ok = TRUE => Startable(a)' /\ Wanted(a)'
    BY <1>2, <1>8, <1>9 DEF StartDone
  <1>11. p.ok = FALSE /\ calm => ~Startable(a)'
    BY <1>2, <1>8 DEF StartDone
  <1>12. StartBinds'
    BY <1>3, <1>5, <1>10, <1>11 DEF StartBinds
  <1>13. SavedReadsBack'
    BY <1>5 DEF SavedReadsBack
  <1> QED
    BY <1>4, <1>12, <1>13

LEMMA BindCall ==
    ASSUME BindInv, NEW c \in Calls, Call(c)
    PROVE BindInv' /\ StartBinds' /\ SavedReadsBack'
  <1>1. ASSUME NEW path, NEW io \in BOOLEAN, Load(path, io)
        PROVE BindInv' /\ last'.op = "load"
    <2>1. /\ target' = target /\ bound' = bound /\ file' = file /\ app' = app
          /\ last'.op = "load"
      BY <1>1 DEF Load, Answer
    <2>2. \/ draft' = draft /\ draftLoaded' = draftLoaded
          \/ /\ path \in DOMAIN Package /\ FirmwareReads(Package[path])
             /\ draft' = Records(Package[path]) /\ draftLoaded' = TRUE
      BY <1>1 DEF Load
    <2>3. IsConfig(draft') /\ draftLoaded' \in BOOLEAN
      BY <2>2, PackageIsConfig DEF BindInv
    <2> QED
      BY <2>1, <2>3 DEF BindInv
  <1>2. ASSUME NEW record, SetKey(record) PROVE BindInv' /\ last'.op = "set"
    <2>1. /\ target' = target /\ bound' = bound /\ file' = file /\ app' = app
          /\ draftLoaded' = draftLoaded /\ last'.op = "set"
      BY <1>2 DEF SetKey, Answer
    <2>2. draft' = draft \/ (CanSet(draft, record) /\ draft' = Set(draft, record))
      BY <1>2 DEF SetKey
    <2>3. IsConfig(draft')
      BY <2>2, SetIsConfig DEF BindInv
    <2> QED
      BY <2>1, <2>3 DEF BindInv
  <1>3. ASSUME NEW alias, NEW faulty, Rebind(alias, faulty)
        PROVE BindInv' /\ last'.op = "rebind"
    <2>1. /\ target' = target /\ draft' = draft /\ file' = file /\ app' = app
          /\ draftLoaded' = draftLoaded /\ last'.op = "rebind"
      BY <1>3 DEF Rebind, Answer
    <2>2. bound' = bound \/ bound' = Bind(bound, draft, alias, faulty).bound
      BY <1>3 DEF Rebind
    <2>3. Shaped(bound) /\ Shaped(Bind(bound, draft, alias, faulty).bound)
      BY BindKeeps DEF BindInv
    <2>4. Shaped(bound')
      BY <2>2, <2>3
    <2> QED
      BY <2>1, <2>4 DEF BindInv
  <1>4. BindInv' /\ last'.op \in {"load", "set", "rebind"}
    BY <1>1, <1>2, <1>3 DEF Call
  <1>5. StartBinds' /\ SavedReadsBack'
    BY <1>4 DEF StartBinds, SavedReadsBack
  <1> QED
    BY <1>4, <1>5

LEMMA CreatedIsFile ==
    ASSUME BindInv, NEW f \in {file, Created}
    PROVE f.there \in BOOLEAN /\ f.records \in Seq(ToSet(f.records))
  <1>1. DOMAIN Absent = {"there", "magic", "count", "records"} /\ Absent.records = <<>>
    BY DEF Absent
  <1>2. Empty.there = TRUE /\ Empty.records = <<>>
    BY <1>1 DEF Empty
  <1>3. Empty.records \in Seq(ToSet(Empty.records))
    BY <1>2, NoRecords DEF IsConfig
  <1>4. f = file \/ f = Empty
    BY DEF Created
  <1> QED
    BY <1>2, <1>3, <1>4 DEF BindInv

LEMMA BindSave ==
    ASSUME BindInv, NEW io \in BOOLEAN, Save(io)
    PROVE BindInv' /\ StartBinds' /\ SavedReadsBack'
  <1>1. /\ target' = target /\ draft' = draft /\ bound' = bound /\ app' = app
        /\ draftLoaded' = draftLoaded
        /\ last'.op = "save" /\ last'.ok = (draftLoaded /\ io)
    BY DEF Save, Answer
  <1>2. CASE draftLoaded /\ io
    <2>1. file' = Encode(draft)
      BY <1>2 DEF Save
    <2>2. /\ FirmwareDecodes(Encode(draft)) /\ CompilerDecodes(Encode(draft))
          /\ Encode(draft).records = draft
      BY EncodedIsRead DEF BindInv, IsConfig
    <2>3. Encode(draft).there = TRUE
      BY DEF Encode
    <2>4. file'.there = TRUE /\ file'.records = draft
      BY <2>1, <2>2, <2>3
    <2>5. BindInv'
      BY <1>1, <2>4 DEF BindInv, IsConfig
    <2>6. SavedReadsBack'
      BY <1>1, <2>1, <2>2 DEF SavedReadsBack
    <2> QED
      BY <1>1, <2>5, <2>6 DEF StartBinds
  <1>3. CASE ~(draftLoaded /\ io)
    <2>1. file' \in {file, Created}
      BY <1>3 DEF Save
    <2>2. file'.there \in BOOLEAN /\ file'.records \in Seq(ToSet(file'.records))
      BY <2>1, CreatedIsFile
    <2>3. BindInv'
      BY <1>1, <2>2 DEF BindInv
    <2>4. ~last'.ok
      BY <1>1, <1>3
    <2> QED
      BY <1>1, <2>3, <2>4 DEF StartBinds, SavedReadsBack
  <1> QED
    BY <1>2, <1>3

LEMMA BindReset ==
    ASSUME BindInv, Reset
    PROVE BindInv' /\ StartBinds' /\ SavedReadsBack'
  <1>1. /\ target' = target /\ draft' = <<>> /\ bound' = Unbound /\ app' = NoApp
        /\ draftLoaded' = FALSE /\ last'.op = "reset"
    BY DEF Reset, Answer
  <1>2. file' \in {file, Created}
    BY DEF Reset
  <1>3. file'.there \in BOOLEAN /\ file'.records \in Seq(ToSet(file'.records))
    BY <1>2, CreatedIsFile
  <1>4. BindInv'
    BY <1>1, <1>3, NoRecords, UnboundIsShaped DEF BindInv
  <1> QED
    BY <1>1, <1>4 DEF StartBinds, SavedReadsBack

BoundInv == BindInv /\ StartBinds /\ SavedReadsBack

LEMMA BoundInvHolds == Spec => []BoundInv
  <1>1. Init => BoundInv
    <2> SUFFICES ASSUME Init PROVE BoundInv
      OBVIOUS
    <2>1. last.op = "reset"
      BY DEF Init, Answer
    <2> QED
      BY <2>1, BindInit DEF BoundInv, StartBinds, SavedReadsBack
  <1>2. BoundInv /\ [Next]_vars => BoundInv'
    <2> SUFFICES ASSUME BoundInv, [Next]_vars PROVE BoundInv'
      OBVIOUS
    <2>0. BindInv
      BY DEF BoundInv
    <2>1. ASSUME NEW a \in Apps, NEW io \in BOOLEAN, NEW faulty \in Faults, Start(a, io, faulty)
          PROVE BoundInv'
      BY <2>0, <2>1, BindStart DEF BoundInv
    <2>2. ASSUME NEW c \in Calls, Call(c) PROVE BoundInv'
      BY <2>0, <2>2, BindCall DEF BoundInv
    <2>3. ASSUME NEW io \in BOOLEAN, Save(io) PROVE BoundInv'
      BY <2>0, <2>3, BindSave DEF BoundInv
    <2>4. CASE Reset
      BY <2>0, <2>4, BindReset DEF BoundInv
    <2>5. CASE UNCHANGED vars
      <3>1. BindInv'
        BY <2>0, <2>5 DEF BindInv, vars
      <3>2. SavedReadsBack'
        BY <2>5 DEF BoundInv, SavedReadsBack, vars
      <3>3. last' = last /\ target' = target /\ file' = file /\ bound' = bound
        BY <2>5 DEF vars
      <3>4. \A a : Layers(a)' = Layers(a)
        BY <3>3 DEF Layers
      <3>5. \A a : Startable(a)' <=> Startable(a)
        BY <3>3, <3>4 DEF Startable
      <3>6. \A a : Wanted(a)' <=> Wanted(a)
        <4>1. \A a : Wanted(a) <=> WantedOf(bound, Layers(a))
          BY DEF Wanted, WantedOf
        <4>2. \A a : Wanted(a)' <=> WantedOf(bound', Layers(a)')
          BY DEF Wanted, WantedOf
        <4> QED
          BY <3>3, <3>4, <4>1, <4>2
      <3>7. StartBinds'
        BY <3>3, <3>5, <3>6 DEF BoundInv, StartBinds
      <3> QED
        BY <3>1, <3>2, <3>7 DEF BoundInv
    <2> QED
      BY <2>1, <2>2, <2>3, <2>4, <2>5 DEF Next
  <1> QED
    BY <1>1, <1>2, PTL DEF Spec

(* Drafts stay configurations whatever is loaded and set; aliases stay     *)
(* distinct, no two buttons share a pin, and their count is the number of  *)
(* active slots, also where a pin's driver fails half way                  *)
(* (sqdc_config_set_, runtime_activate_binding,                            *)
(* runtime_activate_input_button).                                         *)
THEOREM BindingsTypeCorrect == Spec => []BindingsTypeOK
  <1>1. BoundInv => BindingsTypeOK
    <2> SUFFICES ASSUME BindInv PROVE BindingsTypeOK
      BY DEF BoundInv
    <2>1. Shaped(bound)
      BY DEF BindInv
    <2>2. /\ Cardinality(Buttons(bound)) = Cardinality(PinsOf(bound))
          /\ PinsOf(bound) = {x.pin : x \in Buttons(bound)}
      BY <2>1, PinCount
    <2>3. bound.buttonCount = Cardinality({i \in 1..MaxButtons : bound.buttons[i].active})
      BY <2>1 DEF Shaped, Held
    <2> QED
      BY <2>1, <2>2, <2>3 DEF BindingsTypeOK, BindInv, IsConfig, Shaped
  <1> QED
    BY <1>1, BoundInvHolds, PTL

(* A save that answered ok is read back by the firmware's next start and by*)
(* the compiler's decoder (sqdc_encode_sqdc, sqdc_decode_sqdc, decode_sqdc)*)
THEOREM SavedDrafts == Spec => []SavedReadsBack
  <1>1. BoundInv => SavedReadsBack
    BY DEF BoundInv
  <1> QED
    BY <1>1, BoundInvHolds, PTL

(* A start binds what it should: the target's default, then the saved      *)
(* configuration, then the app's section, later ones over earlier ones; and*)
(* where nothing failed it is refused only for what cannot be bound        *)
(* (sq_vm_runtime_prepare_app_start).                                      *)
THEOREM StartsBind == Spec => []StartBinds
  <1>1. BoundInv => StartBinds
    BY DEF BoundInv
  <1> QED
    BY <1>1, BoundInvHolds, PTL
=============================================================================
