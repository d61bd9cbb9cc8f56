----------------------------- MODULE MC_MdBlocks -----------------------------
(* Instance of MdBlocks.  Diagram lines: "A->B: hi", "A-->>B:hi",          *)
(* "Title: x", "participant A"; with notes, "Note left of A: x" and        *)
(* "Note over A: x".  Prose: "a b", "each participant signs".  Code:       *)
(* "    p->next", "    default:", "    x".  Raw HTML: <pre>x</pre> and     *)
(* <pre><code>x</code></pre>.                                              *)
EXTENDS MdBlocks

(* The site's extensions, with the sequence-diagram extension added.      *)
MC_Extensions == MD_EXTENSIONS \cup {"sequence_diagrams"}

MC_Signals ==
    {<<"x", "-", ">", "x", ":", " ", "x">>, <<"x", "-", "-", ">", ">", "x", ":", "x">>,
     <<"title", ":", " ", "x">>, <<"participant", " ", "x">>}
MC_Notes ==
    {<<"note", " ", "left", " ", "of", " ", "x", ":", " ", "x">>,
     <<"note", " ", "over", " ", "x", ":", " ", "x">>}
MC_DiagramLines == MC_Signals
MC_DiagramLinesNotes == MC_Signals \cup MC_Notes
MC_ProseLines == {<<"x", " ", "x">>, <<"x", " ", "participant", " ", "x">>}
MC_CodeLines ==
    {<<" ", " ", " ", " ", "x", "-", ">", "x">>, <<" ", " ", " ", " ", "x", ":">>,
     <<" ", " ", " ", " ", "x">>}
MC_RawBlocks ==
    {<<"<pre>", "TXT", "</pre>">>, <<"<pre>", "<code>", "TXT", "</code>", "</pre>">>}
=============================================================================
