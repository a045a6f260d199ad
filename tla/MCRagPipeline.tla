--------------------------- MODULE MCRagPipeline ---------------------------
(* Two workers, a cache of two entries, and four questions with three keys:  *)
(* two wordings of one question, of which one finds nothing, the same        *)
(* question to another depth, and another question.                          *)
EXTENDS RagPipeline

CONSTANTS x1, x2, said

TwoWorkers == {x1, x2}

FourQuestions ==
    { [asks |-> 1, wording |-> 1, depth |-> 1],
      [asks |-> 1, wording |-> 2, depth |-> 1],
      [asks |-> 1, wording |-> 1, depth |-> 2],
      [asks |-> 2, wording |-> 1, depth |-> 1] }

OtherWording == {q \in Questions : q.wording = 2}
TwoTexts == {said, RefusalText}
ThreeKeys == {Key(q) : q \in Questions}

Symmetry == Permutations(Workers)

=============================================================================
