--------------------------- MODULE MCTranscripts ----------------------------
(* A small instance of Transcripts for TLC.                                 *)
EXTENDS Transcripts

(* A permutation without collisions: its cells are terms.                   *)
Term(state, i) == <<"cell", i, state>>

=============================================================================
