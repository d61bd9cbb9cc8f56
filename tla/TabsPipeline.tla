----------------------------- MODULE TabsPipeline -----------------------------
(***************************************************************************)
(* The tab extension end to end (Bootstrap_Markdown_Extension of           *)
(* mdext/togglable_tabs.py): Markdown runs TabbedNavPre on the document's  *)
(* lines, isolates the markup blocks with TabbedNavBlockProcessor (their   *)
(* text is kept verbatim), converts the rest, and runs TabbedNavPost on    *)
(* the HTML.  The preprocessor is the TabsPre module, the postprocessor    *)
(* the TabsPost module, both instantiated on this module's variables.      *)
(* Markdown's own conversion of the tab contents is left out: the          *)
(* postprocessor's substitutions only see the markup lines, in document   *)
(* order (MarkupIsolated in TabsPre checks that Markdown does not touch    *)
(* them).                                                                  *)
(***************************************************************************)
EXTENDS Naturals, Sequences, SequencesExt, FiniteSets

CONSTANTS Keys, Values, Texts, StartLayouts, EndLayouts, MaxItems, MaxSegs

VARIABLES
    doc,          \* the wikitext document
    lines,        \* its lines
    pre_out,      \* TabbedNavPre.run's result, <<>> before it runs
    keys_taken,   \* the postprocessor's keys_taken
    html          \* TabbedNavPost.run's result (markup tokens), <<>> before

vars == <<doc, lines, pre_out, keys_taken, html>>

Pre == INSTANCE TabsPre WITH out <- pre_out, EqChoices <- {TRUE}, RepeatKeys <- FALSE
Post == INSTANCE TabsPost WITH PaneLayouts <- {"same"}, MaxGroups <- MaxItems,
         MaxTabs <- MaxSegs

(* The markup lines of the preprocessor's output as the postprocessor's    *)
(* regexes match them, each tagged with its group; a declaration split by  *)
(* a newline matches no regex and is left as text.                         *)
MarkupTokens(ls) ==
    LET phys == Pre!Physical(ls)
        Group(i) == Cardinality({j \in 1..i : phys[j] = <<"KO">>})
        Closer(k) == IF k \in {"AKD", "KD"} THEN "]}" ELSE "]"
        IsDecl(l) == l[1] \in {"AKD", "KD", "APD", "PD"} /\ Len(l) >= 2 /\ l[Len(l)] = Closer(l[1])
        Key(l) == IF IsDecl(l) THEN SubSeq(l, 2, Len(l) - 1) ELSE <<>>
        marks == SelectSeq([i \in DOMAIN phys |-> i],
                   LAMBDA i : phys[i] \in {<<"KO">>, <<"KC">>, <<"PO">>, <<"PE">>, <<"PC">>}
                              \/ (Pre!IsMarker(phys[i]) /\ IsDecl(phys[i])))
    IN [n \in DOMAIN marks |-> [t |-> Post!Tok(phys[marks[n]][1], Key(phys[marks[n]])),
                                g |-> Group(marks[n])]]

-----------------------------------------------------------------------------
Init ==
    /\ Pre!Init
    /\ pre_out = <<>>
    /\ keys_taken = <<>>
    /\ html = <<>>

(* Markdown's preprocessor stage.                                          *)
Preprocess ==
    /\ Pre!Run
    /\ UNCHANGED <<keys_taken, html>>

(* Markdown's postprocessor stage, on the isolated markup.                 *)
Postprocess ==
    /\ pre_out # <<>> /\ html = <<>>
    /\ LET tk == MarkupTokens(pre_out)
           r  == Post!PostRun([i \in DOMAIN tk |-> tk[i].t], keys_taken)
       IN html' = r.text /\ keys_taken' = r.reg
    /\ UNCHANGED <<doc, lines, pre_out>>

Next == Preprocess \/ Postprocess

Spec == Init /\ [][Next]_vars

-----------------------------------------------------------------------------
TypeOK ==
    /\ Pre!TypeOK
    /\ keys_taken \in Seq(Seq(STRING))
    /\ html \in Seq(Post!HtmlToken)

(* The preprocessor's own promises, on the pipeline's documents: no text   *)
(* is lost or moved and each key keeps its value (TabsPre's PreFaithful),  *)
(* and every markup block is claimed by TabbedNavBlockProcessor.test and   *)
(* holds only markup (MarkupIsolated).                                     *)
PreFaithful == Pre!PreFaithful
MarkupIsolated == Pre!MarkupIsolated

(* Every tab link the wikitext yields opens the pane of the same key in    *)
(* the same <tabber>, also when keys of different groups collide after     *)
(* normalisation: the preprocessor writes the key and pane declarations    *)
(* the postprocessor's id matching relies on.                              *)
TabsLinked ==
    html # <<>> =>
        LET tk == MarkupTokens(pre_out) IN
        \A i, j \in DOMAIN html :
            (/\ html[i].kind \in {"li", "ali"} /\ html[j].kind \in {"pane", "apane"}
             /\ tk[i].g = tk[j].g /\ tk[i].t.key = tk[j].t.key)
                => html[i].key = html[j].key

=============================================================================
