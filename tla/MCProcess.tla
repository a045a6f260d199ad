----------------------------- MODULE MCProcess -----------------------------
(* Two threads, two embedders, every index of up to two rows, whole or not.  *)
EXTENDS Process

CONSTANTS t1, t2, m1, m2

TwoThreads == {t1, t2}
TwoEmbedders == {m1, m2}

=============================================================================
