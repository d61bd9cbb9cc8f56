----------------------------- MODULE MC_TabsPre -----------------------------
(* Instance of TabsPre: two keys, two content words and one text word,    *)
(* each word a single character.                                          *)
EXTENDS TabsPre

MC_Keys == {<<"a">>, <<"a", " ", "b">>}
MC_Values == {"v", "w"}
MC_Texts == {"t"}
MC_Starts == {"own", "inline", "after_text"}
MC_Ends == {"own", "inline"}
MC_EndsIndented == {"own", "indented"}
=============================================================================
