---------------------------- MODULE MC_TabsPost ----------------------------
(* Instance of TabsPost: keys that collide after normalisation ("a", "A",  *)
(* "a b", "ab") and a key with a "]" in it.                         *)
EXTENDS TabsPost

MC_Keys == {<<"a">>, <<"A">>, <<"a", " ", "b">>, <<"a", "b">>}
MC_KeysBracket == {<<"a">>, <<"a", "]">>}
MC_Layouts == {"same"}
MC_LayoutsReordered == {"same", "reversed"}
MC_LayoutsDangling == {"same", "missing"}
=============================================================================
