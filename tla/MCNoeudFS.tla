------------------------------- MODULE MCNoeudFS -------------------------------
(* Two backups: one with a directory in a directory, files at two levels   *)
(* and an empty directory; one with two files.                             *)
EXTENDS CR_NoeudFS

MCNoms == {"full", "incr", "d", "e", "s", "f", "g"}

MCRepertoires ==
    {<<"full">>, <<"full", "d">>, <<"full", "d", "s">>, <<"full", "e">>,
     <<"incr">>}

MCNoeuds ==
    MCRepertoires \cup
    {<<"full", "d", "f">>, <<"full", "d", "s", "f">>, <<"full", "d", "s", "g">>,
     <<"incr", "f">>, <<"incr", "g">>}
=============================================================================
