--------------------------- MODULE MCObjectStore ---------------------------
(***************************************************************************)
(* ObjectStore with two clients, whose ids are not the beginning of one    *)
(* another, and the same clients with ids 1 and 10 of osd.c's hex names.   *)
(***************************************************************************)
EXTENDS ObjectStore, TLC

CONSTANTS c1, c2, g1, g2

MCUidOf == (c1 :> 1) @@ (c2 :> 16)
MCBegins == {<<1, 16>>}
MCNoBegins == {}
\* The device picks any name; nothing tells the groups it made apart.
GroupNames == Permutations({g1, g2})
=============================================================================
