------------------------------ MODULE MCIngest ------------------------------
(* Two episodes, one or two embedders and transcribers, slugs that differ or *)
(* coincide.                                                                 *)
EXTENDS Ingest

CONSTANTS m1, m2, w1, w2

TwoEpisodes == {1, 2}
OneEmbedder == {m1}
TwoEmbedders == {m1, m2}
OneTranscriber == {w1}
TwoTranscribers == {w1, w2}

SameDim == [m \in Embedders |-> 1]
OwnDim == [m \in Embedders |-> IF m = m1 THEN 1 ELSE 2]

OwnSlug == [e \in Episodes |-> e]
OneSlug == [e \in Episodes |-> 1]

=============================================================================
