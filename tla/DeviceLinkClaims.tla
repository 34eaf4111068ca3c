-------------------------- MODULE DeviceLinkClaims --------------------------
(* What the documentation says of the transfer sessions and the code does  *)
(* not do.                                                                 *)
EXTENDS MCDeviceLink

(* docs/firmware_state_machines.md: a failure to publish leaves the        *)
(* session in Committing and is retryable.  A session can be retried as    *)
(* long as its staging path leads to its bytes; after a full registry it   *)
(* leads to the published file, which the retry removes                    *)
(* (commit_install, sq_app_store_update_registry_entry_with_path).         *)
CommitRetryable ==
    \A k \in {"install", "temp", "resource"} :
        sessions[k].phase = "committing" /\ publishing = NoCommit =>
            store[sessions[k].staging] = sessions[k].crc
=============================================================================
