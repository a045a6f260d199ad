---------------------------- MODULE IngestIndex ----------------------------
(***************************************************************************)
(* Ingestion as seen by a server that starts at any instant: Ingest with a *)
(* history variable for what the index showed when it was last readable,   *)
(* and the claim that it implements AbstractIndex.                         *)
(***************************************************************************)
EXTENDS Ingest

VARIABLE shown      \* history: the chunks of each episode, as last readable

indexVars == <<vars, shown>>

ChunksShown ==
    [e \in Episodes |-> {c \in ToSet(Loaded.chunks) : c.ep = e}]

IndexInit == Init /\ shown = ChunksShown

IndexNext ==
    /\ Next
    /\ shown' = IF Loads' THEN ChunksShown' ELSE shown

IndexSpec == IndexInit /\ [][IndexNext]_indexVars

\* Everything a run makes of an episode: the first chunks of one transcription.
MadeOf(e) ==
    {{[ep |-> e, ix |-> k, heard |-> w] : k \in 1..n} : n \in 1..MaxChunks, w \in Transcribers}

Index == INSTANCE AbstractIndex WITH Made <- MadeOf, readable <- Loads, index <- shown

\* Whoever reads the files, between any two writes or behind any kill, gets each
\* episode whole or not at all, and never two versions of one.
ShowsWhole == Index!Spec

=============================================================================
