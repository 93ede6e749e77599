------------------------- MODULE MC_DocumentLayout -------------------------
(***************************************************************************)
(* Base /r.  Under it: b and c (two files of '.', inserted after the      *)
(* subdirectories); a/b and a/c (two files of one directory);             *)
(* a/a/b (a directory that sorts between a and a- as Paths); a-/b (a      *)
(* directory whose '-' sorts before '/').  Outside it: /q/b, which the    *)
(* tree drops and the blocks keep.  Characters are code points.           *)
(***************************************************************************)
EXTENDS DocumentLayout

A == <<97>>
B == <<98>>
C == <<99>>
ADash == <<97, 45>>
Q == <<113>>
R == <<114>>

MCBase == <<R>>
MCUniverse ==
    {<<R, B>>, <<R, C>>, <<R, A, B>>, <<R, A, C>>, <<R, A, A, B>>, <<R, ADash, B>>, <<Q, B>>}

\* Each side of the KB and MB boundaries, a tie that rounds to even
\* (1075 B = 1.0498 KB; 1126 B = 1.099..; 1024 * 1.25 = 1280 B is "1.2"),
\* the 1023.95 KB that rounds up to "1024.0 KB", and zero.
MCSizes == {0, 1023, 1024, 1280, 1048524, 1048575, 1048576, 104857600}
=============================================================================
