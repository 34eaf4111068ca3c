------------------------------ MODULE VmOperands ------------------------------
(***************************************************************************)
(* What the instructions take from the operand stack and what they leave   *)
(* on it, and code in which that adds up.  The loader does not look at it  *)
(* and the stack is the app's, not the frame's or the event's: code that   *)
(* takes more than it put there gets what an earlier event left behind.    *)
(***************************************************************************)
EXTENDS VmInstructions

\* The operands of an instruction, and what it puts in their place.
Takes(ins) ==
    CASE ins.op = "Call" -> IF ins.v \in BuiltinNames THEN Arity(ins.v) ELSE 0
      [] ins.op = "CallFunction" -> ins.n
      [] ins.op = "DebugPrint" -> ins.v
      [] ins.op \in {"Add", "Binary", "ListGet"} -> 2
      [] ins.op \in {"SetState", "SetLocal", "GetField", "ListLen", "JumpIfFalse", "ScreenOpen",
                     "Return", "Pop"} -> 1
      [] OTHER -> 0
Leaves(ins) ==
    CASE ins.op = "Call" -> IF ins.v \in BuiltinNames THEN ResultCount(ins.v) ELSE 0
      [] ins.op \in {"Push", "GetState", "GetLocal", "GetField", "Add", "Binary", "ListLen",
                     "ListGet", "CallFunction"} -> 1
      [] OTHER -> 0
GoesOn(ins) == ins.op \notin {"Jump", "Return", "Halt"}
JumpsTo(ins, to) == ins.op \in {"Jump", "JumpIfFalse"} /\ ins.v = to

\* Every instruction finds its operands among those its own frame put on the stack: height[c][i]
\* is how many of these there are, at least, where chunk c goes on with instruction i.
Balanced(height) ==
    \A c \in DOMAIN Image.code : LET ends == Len(Image.code[c]) + 1 IN
        /\ height[c] \in [1 .. ends -> Nat] /\ height[c][1] = 0
        /\ \A i \in 1 .. Len(Image.code[c]) :
               LET ins == Image.code[c][i]
                   left == height[c][i] - Takes(ins)
               IN  /\ 0 <= left
                   /\ GoesOn(ins) => height[c][i + 1] <= left + Leaves(ins)
                   /\ \A to \in 1 .. ends : JumpsTo(ins, to) => height[c][to] <= left
=============================================================================
