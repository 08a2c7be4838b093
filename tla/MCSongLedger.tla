---------------------------- MODULE MCSongLedger ----------------------------
(***************************************************************************)
(* SongLedger on small libraries.                                          *)
(***************************************************************************)
EXTENDS SongLedger, TLC

OneSong    == {1}
TwoSongs   == {1, 2}
ThreeSongs == {1, 2, 3}
SecondSong == {2}

=============================================================================
