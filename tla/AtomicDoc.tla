----------------------------- MODULE AtomicDoc ------------------------------
(***************************************************************************)
(* What storage/store.py promises its callers about the panel document:    *)
(* there is one document, only a call of save_all() changes it, to exactly *)
(* the document of that call; a call that returns has taken effect, and a  *)
(* call that fails, or dies with the process, has taken effect or has not. *)
(* Databases, snapshots, imports and restarts do not show.                 *)
(***************************************************************************)
CONSTANTS Docs,   \* documents that may be stored
          Writes, \* documents that callers save
          None    \* no call in progress

VARIABLES doc,      \* the document a load would return
          pending,  \* the document of the save in progress, or None
          answer    \* how the last save ended

Init == doc \in Docs /\ pending = None /\ answer = "ok"

Call == \E d \in Writes :
    /\ pending = None
    /\ pending' = d
    /\ doc' \in {doc, d}
    /\ UNCHANGED answer

Return ==
    /\ pending # None
    /\ doc' = pending
    /\ pending' = None
    /\ answer' = "ok"

Fail ==
    /\ pending # None
    /\ doc' \in {doc, pending}
    /\ pending' = None
    /\ answer' = "failed"

Next == Call \/ Return \/ Fail

Spec == Init /\ [][Next]_<<doc, pending, answer>>
=============================================================================
