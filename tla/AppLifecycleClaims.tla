------------------------- MODULE AppLifecycleClaims -------------------------
(* What the repository's documents say of the lifecycle and the code does  *)
(* not do: a run finds the formula violated.                               *)
EXTENDS AppLifecycle

(* "If sleep prep, checkpointing, or wake configuration fails, firmware    *)
(* remains awake": the device sleeps only after a power.sleep dispatch     *)
(* that has not failed.                                                    *)
FailedPrepStaysAwake == [][ power' = "wake" => status # "error" ]_vars

=============================================================================
