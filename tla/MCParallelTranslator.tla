-------------------------- MODULE MCParallelTranslator --------------------------
(* ParallelTranslator with small batches for TLC. *)
EXTENDS ParallelTranslator

CONSTANTS a, b, c

MCTexts == {a, b, c}

\* A repeated text, a batch with three goroutines, and one below the threshold.
MCDocuments == {<<b, a, b>>, <<c, a, b>>, <<a>>}
=============================================================================
