----------------------------- MODULE AppRouting -----------------------------
(***************************************************************************)
(* What the lifecycle promises about navigation, without phases, jobs or   *)
(* threads: there is a foreground app, a bounded stack of the apps to come *)
(* back to, and at most one launch request.  Every change of the           *)
(* foreground is one of the steps below, and takes the stack along.        *)
(***************************************************************************)
EXTENDS Naturals, Sequences

CONSTANTS Apps, Main, None, Max

VARIABLES foreground, stack, request

route == <<foreground, stack, request>>

Entry(a) == IF a = None THEN <<>> ELSE <<a>>
Push(a) == stack' = stack \o Entry(a) /\ Len(stack') <= Max

Init == foreground = None /\ stack = <<>> /\ request = None

(* Somebody asks for an app; nobody else has asked since the last answer.  *)
Request(a) == request = None /\ request' = a /\ UNCHANGED <<foreground, stack>>

(* The answer: the app takes the foreground, the old foreground (or main)  *)
(* is where its exit leads.                                                *)
Serve ==
    /\ request # None /\ request' = None
    /\ foreground' = request
    /\ \/ foreground # None /\ Push(foreground)
       \/ foreground = None /\ Push(IF request = Main THEN None ELSE Main)

(* Or the request is dropped, and nothing else happens.                    *)
Drop == request # None /\ request' = None /\ UNCHANGED <<foreground, stack>>

(* The foreground app exits: back to where it came from, main at the end.  *)
Return ==
    /\ request = None /\ UNCHANGED request
    /\ \/ /\ stack = <<>>
          /\ foreground' = Main /\ UNCHANGED stack
       \/ /\ stack # <<>>
          /\ foreground' = stack[Len(stack)]
          /\ stack' = SubSeq(stack, 1, Len(stack) - 1)

(* An armed timer or an upload brings another app to the foreground.       *)
Interrupt(a) ==
    /\ request = None /\ UNCHANGED request
    /\ a # foreground /\ foreground' = a
    /\ Push(foreground)

(* A boot starts main; a reset or a loss of power forgets everything.  A   *)
(* planned sleep is none of the two: the route survives it.                *)
Boot == foreground = None /\ foreground' = Main /\ UNCHANGED <<stack, request>>
Forget == foreground' = None /\ stack' = <<>> /\ request' = None

Next ==
    \/ \E a \in Apps : Request(a) \/ Interrupt(a)
    \/ Serve \/ Drop \/ Return \/ Boot \/ Forget

Spec == Init /\ [][Next]_route

=============================================================================
