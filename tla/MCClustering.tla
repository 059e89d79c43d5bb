---------------------------- MODULE MCClustering ----------------------------
(* The classifier answers with one of four labels, with a sentence that    *)
(* mentions two, or with nothing of the vocabulary.                        *)
EXTENDS Clustering

MCAnswered == {{"INE_FRONT"}, {"INE_BACK"}, {"INE_COMBINED"}, {"INVOICE"},
               {"INE_FRONT", "INE_BACK"}, {}}
=============================================================================
