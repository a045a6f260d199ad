--------------------------- MODULE MCChromaIngest ---------------------------
(* Transcripts of up to four segments that fit or are blank, and of up to    *)
(* two when some have to be split into up to three words.                    *)
EXTENDS ChromaIngest

Blank == [size |-> 0, words |-> <<>>]
Fitting == {[size |-> n, words |-> <<1>>] : n \in 1..MaxTokens}
Oversized ==
    {[size |-> MaxTokens + 1, words |-> ws] : ws \in BoundedSeq({0, 2, MaxTokens + 1}, 3) \ {<<>>}}

ShortTranscripts ==
    BoundedSeq({Blank} \cup Fitting, 4) \cup BoundedSeq({Blank} \cup Fitting \cup Oversized, 2)

=============================================================================
