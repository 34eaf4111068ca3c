--------------------------- MODULE MCAppLifecycle ---------------------------
(* AppLifecycle on a few apps: the configurations of this module choose    *)
(* which host frames arrive and which host calls handlers make.            *)
EXTENDS AppLifecycleRouting, AppLifecycleClaims
=============================================================================
