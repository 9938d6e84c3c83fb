---------------------------- MODULE StorageLease -----------------------------
(***************************************************************************)
(* What a stage's directives promise about the storage they are lent       *)
(* (step/mod.rs, Retained; step/execution.rs, ExecutedStorage).            *)
(*                                                                         *)
(* The storage is mounted for one directive at a time.  Processes may use  *)
(* it, or be created and die, while it is mounted.  It is unmounted or     *)
(* dropped only when no process is left.  If that cannot be shown, it is   *)
(* retained, for ever, and the processes with it.                          *)
(***************************************************************************)
CONSTANT Tenants

VARIABLES
    storage,  \* where the storage is
    tenants,  \* the processes that may still use it
    stage     \* "open" until the directives have ended

vars == <<storage, tenants, stage>>

Init == storage = "unmounted" /\ tenants = {} /\ stage = "open"

Mount ==
    /\ stage = "open" /\ storage = "unmounted"
    /\ storage' = "mounted"
    /\ UNCHANGED <<tenants, stage>>

Use ==
    /\ storage \in {"mounted", "retained"}
    /\ tenants' \in SUBSET Tenants
    /\ UNCHANGED <<storage, stage>>

Return ==
    /\ stage = "open" /\ storage = "mounted" /\ tenants = {}
    /\ storage' = "unmounted"
    /\ UNCHANGED <<tenants, stage>>

Complete ==
    /\ stage = "open" /\ storage = "unmounted"
    /\ stage' = "completed"
    /\ UNCHANGED <<storage, tenants>>

Reject ==
    /\ stage = "open" /\ tenants = {}
    /\ storage' = "discarded" /\ stage' = "rejected"
    /\ UNCHANGED tenants

Retain ==
    /\ stage = "open" /\ storage = "mounted"
    /\ storage' = "retained" /\ stage' = "retained"
    /\ tenants' \in SUBSET tenants

Next == Mount \/ Use \/ Return \/ Complete \/ Reject \/ Retain

Spec == Init /\ [][Next]_vars

=============================================================================
