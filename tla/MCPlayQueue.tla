---------------------------- MODULE MCPlayQueue ----------------------------
(* Instances of PlayQueue for TLC: three songs, short lists.               *)
EXTENDS PlayQueue

McSongs == {"a", "b", "c"}
NoLists == {}
Single  == {<<"b">>}
Two     == {<<"a", "b">>}
Three   == {<<"a", "b", "c">>}
=============================================================================
