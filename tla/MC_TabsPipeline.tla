--------------------------- MODULE MC_TabsPipeline ---------------------------
(* Instance of TabsPipeline: keys that collide after lower(), two values,   *)
(* every <tabber> layout the preprocessor handles.                         *)
EXTENDS TabsPipeline

MC_Keys == {<<"a">>, <<"A">>, <<"a", " ", "b">>}
MC_Values == {"v", "w"}
MC_Starts == {"own", "inline", "after_text"}
MC_Ends == {"own", "inline"}
MC_Texts == {"t"}
=============================================================================
