-------------------------- MODULE AtomicPublication --------------------------
(***************************************************************************)
(* What publishing an image promises to a reader that takes a directory    *)
(* for an image once it finds the oci-layout marker: the image is never    *)
(* seen in parts, is never withdrawn once it is seen, and is there when    *)
(* the build reports success.  A build that fails or dies may already have *)
(* published: see NoImageOnFailure in Publication.                         *)
(***************************************************************************)
VARIABLES
    image,      \* "none" or "whole", as the reader finds it
    verdict     \* "pending", "ok", "failed" or "crashed"

vars == <<image, verdict>>

Init == image = "none" /\ verdict = "pending"

\* The image appears, whole, in one step; that step may also end the build.
Expose ==
    /\ verdict = "pending" /\ image = "none"
    /\ image' = "whole"
    /\ verdict' \in {"pending", "ok"}

\* Success is only reported of an image that is there.
Succeed ==
    /\ verdict = "pending" /\ image = "whole"
    /\ verdict' = "ok"
    /\ UNCHANGED image

GiveUp ==
    /\ verdict = "pending"
    /\ verdict' \in {"failed", "crashed"}
    /\ UNCHANGED image

Next == Expose \/ Succeed \/ GiveUp

Spec == Init /\ [][Next]_vars
=============================================================================
