-------------------------- MODULE VersionedConfig --------------------------
(***************************************************************************)
(* What ConfigStore promises (core/src/store.rs, core/src/config.rs): the  *)
(* configuration in force carries a version that every successful reload   *)
(* increments by one, and a reload never goes back to content older than   *)
(* what is in force. Contents are numbered in the order they were saved.   *)
(***************************************************************************)
EXTENDS Naturals

VARIABLES
    saved,    \* number of the content last saved to the file
    version,  \* version of the snapshot in force
    content   \* number of the content in force

vars == <<saved, version, content>>

Init == saved = 0 /\ version = 1 /\ content = 0

Save == saved' = saved + 1 /\ UNCHANGED <<version, content>>

Load ==
    /\ version' = version + 1
    /\ content' \in content..saved
    /\ UNCHANGED saved

Next == Save \/ Load

Spec == Init /\ [][Next]_vars

=============================================================================
