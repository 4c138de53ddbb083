--------------------------- MODULE MC_PlPlaylist ---------------------------
(***************************************************************************)
(* Two playlists, two iterators and a few elements.                        *)
(***************************************************************************)
EXTENDS PlPlaylist, TLC

MCPositions == {-1, 0, 1, 2}
MCSymmetry == Permutations(Node) \cup Permutations(Iter) \cup Permutations(Playlist)

=============================================================================
