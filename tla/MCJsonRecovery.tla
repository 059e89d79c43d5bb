---------------------------- MODULE MCJsonRecovery ----------------------------
(* Answers put together from pieces: prose, braces, a quote, a key, and    *)
(* strings with a brace, an escaped quote and an escaped backslash in them.*)
EXTENDS JsonRecovery, SequencesExt

CONSTANT MaxPieces

Pieces ==
  {<<LBrace>>, <<RBrace>>, <<"x">>, <<Quote>>, <<Quote, "x", Quote, Colon>>,
   <<Quote, RBrace, Quote>>, <<Quote, Backslash, Quote, Quote>>,
   <<Quote, Backslash, Backslash, Quote>>}

MCResponses == {FlattenSeq(pieces) : pieces \in BoundedSeq(Pieces, MaxPieces)}
=============================================================================
