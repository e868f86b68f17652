---------------------------- MODULE MCMemoryGraph ----------------------------
(***************************************************************************)
(* Values of MemoryGraph's constants for TLC: an owner and a trial account *)
(* whose facts share a concept.                                            *)
(***************************************************************************)
EXTENDS MemoryGraph, TLC

CONSTANTS owner, trial, plain, long, tea, greenTea

\* "tea" is a phrase of "green tea"; the long text is cut in two ways.
ThePhrases == {<<tea, tea>>, <<greenTea, greenTea>>, <<tea, greenTea>>}
TheSegmentations == (plain :> {<<tea>>}) @@ (long :> {<<greenTea, tea>>, <<tea>>})
TheTurnFacts == {<<>>, <<plain, long>>}
=============================================================================
