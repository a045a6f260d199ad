--------------------------- MODULE AbstractIndex ---------------------------
(***************************************************************************)
(* What the index promises to whoever reads it from disk while ingestion   *)
(* runs, is killed and runs again: it cannot be read at all, or it shows of*)
(* each episode everything one run made of it, or nothing.  From one       *)
(* reading to the next at most one episode is different, and it is emptied *)
(* before it is filled again.                                              *)
(***************************************************************************)
CONSTANTS
    Episodes,
    Made(_)         \* what a run may make of an episode: sets of chunks

VARIABLES
    readable,
    index           \* what was shown when the index was last readable

indexVars == <<readable, index>>

Init ==
    /\ readable = TRUE
    /\ index = [e \in Episodes |-> {}]

Hide ==
    /\ readable' = FALSE
    /\ UNCHANGED index

\* The index is readable again, as it was.
Show ==
    /\ readable' = TRUE
    /\ UNCHANGED index

Empty(e) ==
    /\ readable' = TRUE
    /\ index' = [index EXCEPT ![e] = {}]

Fill(e) ==
    /\ index[e] = {}
    /\ readable' = TRUE
    /\ \E chunks \in Made(e) : index' = [index EXCEPT ![e] = chunks]

Next ==
    \/ Hide \/ Show
    \/ \E e \in Episodes : Empty(e) \/ Fill(e)

Spec == Init /\ [][Next]_indexVars

=============================================================================
