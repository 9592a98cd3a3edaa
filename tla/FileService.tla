------------------------------ MODULE FileService ------------------------------
(***************************************************************************)
(* What a host promises a node that asks it for files (docs/extensions/    *)
(* file-browse.md): it looks at its shared folder once, at some moment     *)
(* between the request and the answer, and answers what it found, with the *)
(* whole file or with no-file, unless the link is lost in between.         *)
(***************************************************************************)
EXTENDS Naturals

CONSTANT Xids

VARIABLES
  share,   \* the transfers whose file is in the folder
  status   \* of each transfer

service == <<share, status>>

Init == share \in SUBSET Xids /\ status = [x \in Xids |-> "unasked"]

Becomes(x, s) == status' = [status EXCEPT ![x] = s] /\ UNCHANGED share

Ask(x) == status[x] = "unasked" /\ Becomes(x, "asked")
Push(x) == status[x] = "unasked" /\ Becomes(x, "yes")
Look(x) == status[x] = "asked" /\ Becomes(x, IF x \in share THEN "yes" ELSE "no")
Tell(x) ==
  \/ status[x] = "yes" /\ Becomes(x, "ok")
  \/ status[x] = "no" /\ Becomes(x, "absent")

ShareChanges == share' \in SUBSET Xids /\ UNCHANGED status

\* The link is lost with all that was open, but for files that had arrived
\* whole and are still to be handed over.
Lose ==
  \E arrived \in SUBSET {x \in Xids : status[x] = "yes"} :
    /\ status' = [x \in Xids |->
                   IF status[x] \in {"asked", "yes", "no"} /\ x \notin arrived
                   THEN "lost" ELSE status[x]]
    /\ UNCHANGED share

Next == (\E x \in Xids : Ask(x) \/ Push(x) \/ Look(x) \/ Tell(x)) \/ ShareChanges \/ Lose

Spec == Init /\ [][Next]_service
=============================================================================
