------------------------- MODULE AppLifecycleRouting -------------------------
(* The lifecycle, seen as the navigation of AppRouting: the phases of a    *)
(* hand-off and a planned sleep with its wake boot are invisible.          *)
EXTENDS AppLifecycle

AppOf(r) == IF r = NoApp THEN NoApp ELSE r.app

(* While the device sleeps the route is in the planned-resume record.      *)
RoutedForeground == IF power = "wake" THEN resume.app ELSE AppOf(current)
RoutedStack ==
    IF power = "wake" THEN resume.stack
    ELSE [i \in DOMAIN stack |-> stack[i].app]

Routing == INSTANCE AppRouting
    WITH None <- NoApp, Max <- ReturnStackMax,
         foreground <- RoutedForeground, stack <- RoutedStack,
         request <- AppOf(target)

(* The firmware implements that navigation: no hand-off, return, event,    *)
(* failure of a dispatch, reset or planned sleep moves the foreground and  *)
(* the return stack in another way, and a launch request is answered or    *)
(* dropped before there is another one.                                    *)
RoutingSpec == Routing!Spec

=============================================================================
