--------------------------- MODULE MCMusicPlayer ---------------------------
EXTENDS MusicPlayer
(* The addresses are only compared with each other. *)
Addresses == Permutations(Node)
=============================================================================
