----------------------------- MODULE MCPlaylist -----------------------------
(***************************************************************************)
(* Small instance of Playlist: a list of three items, an add, a preset of  *)
(* two, two deletes, a reorder and a patch with one of two keys, and a     *)
(* replacement in the portal.                                              *)
(***************************************************************************)
EXTENDS Playlist, TLC

CONSTANTS add, preset, delete1, delete2, reorder, patch, replace, keyA, keyB

Created == 2 :> 0 @@ 1 :> 1 @@ 3 :> 2
Does == add :> "add" @@ preset :> "preset" @@ delete1 :> "delete" @@ delete2 :> "delete"
        @@ reorder :> "reorder" @@ patch :> "patch" @@ replace :> "replace"
Item == [j \in Jobs |-> CASE j = delete1 -> 2 [] j = delete2 -> 1 [] j = patch -> 1 [] OTHER -> None]
New == [j \in Jobs |-> CASE j = add -> 4 :> 0
                         [] j = preset -> 6 :> 0 @@ 5 :> 1
                         [] j = replace -> 7 :> 0
                         [] OTHER -> Nothing]
UsedKey == [j \in Jobs |-> CASE j = replace -> None
                             [] j \in {add, delete1, reorder} -> keyA
                             [] OTHER -> keyB]
=============================================================================
