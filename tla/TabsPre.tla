------------------------------- MODULE TabsPre -------------------------------
(***************************************************************************)
(* TabbedNavPre (mdext/togglable_tabs.py): the Markdown preprocessor that  *)
(* rewrites wikitext tabs                                                  *)
(*     <tabber>KEY=  VALUE  |-| KEY2=  VALUE  </tabber>                    *)
(* into the two-section markup of TabbedNavPost, and the test of           *)
(* TabbedNavBlockProcessor, which claims the blocks of that markup so that *)
(* Markdown leaves them alone.  run(lines) makes three passes:             *)
(*   1. split lines at a mid-line <tabber> or </tabber>, and join the      *)
(*      lines from a line starting with <tabber> to a line starting with   *)
(*      </tabber> into one element of new_lines;                           *)
(*   2. replace each joined element by the key section and the panes,      *)
(*      parsing it into KEY=VALUE segments at |-|;                         *)
(*   3. insert blank lines around the markup.                              *)
(*                                                                         *)
(* Data abstraction.  A line is a sequence of symbols: "S" <tabber>, "E"   *)
(* </tabber>, "B" |-|, "Q" =, " " a space, "NL" a newline inside an        *)
(* element, and any other string a word of text.  The markup lines the     *)
(* code writes are sequences too: <<"KO">> "{@", <<"AKD">> \o key \o       *)
(* <<"]}">> "{@$[key]}", <<"KD">> ... "{@[key]}", <<"KC">> "@}",           *)
(* <<"PO">> "{{@", <<"APD">> \o key \o <<"]">> "{{@$[key]", <<"PD">> ...,  *)
(* <<"PE">> "/@}}", <<"PC">> "@}}".  The tag regexes also accept spaces    *)
(* inside the tags ("< /tabber >"); tags here are written without them.    *)
(***************************************************************************)
EXTENDS Naturals, Sequences, SequencesExt

CONSTANTS
    Keys,          \* key texts (sequences of characters)
    Values,        \* words of tab contents
    Texts,         \* words of text outside tabs
    StartLayouts,  \* how a group's <tabber> is written (see GroupLines)
    EndLayouts,    \* how its </tabber> is written
    EqChoices,     \* whether a segment has its "="
    RepeatKeys,    \* whether a group may repeat a key
    MaxItems,      \* texts and tab groups in the document
    MaxSegs        \* segments per group

VARIABLES
    doc,           \* the document as written (see Docs)
    lines,         \* its lines, as run() receives them
    out            \* the lines run() returns, <<>> before it runs

vars == <<doc, lines, out>>

Whitespace == {" ", "NL"}
Markers == {"KO", "AKD", "KD", "KC", "PO", "APD", "PD", "PE", "PC"}

-----------------------------------------------------------------------------
(* str.strip()                                                             *)
Strip(s) ==
    LET in == {i \in DOMAIN s : s[i] \notin Whitespace}
    IN IF in = {} THEN <<>> ELSE SubSeq(s, Min(in), Max(in))

StartsWith(s, x) == s # <<>> /\ s[1] = x
Has(s, x) == \E i \in DOMAIN s : s[i] = x

(* [line[:line.find(tag)], line[line.find(tag):]]                          *)
SplitAt(line, tag) ==
    LET i == SelectInSeq(line, LAMBDA c : c = tag)
    IN <<SubSeq(line, 1, i - 1), SubSeq(line, i, Len(line))>>

(* s.split(sep)                                                            *)
RECURSIVE SplitOn(_, _)
SplitOn(s, sep) ==
    LET i == SelectInSeq(s, LAMBDA c : c = sep)
    IN IF i = 0 THEN <<s>>
       ELSE <<SubSeq(s, 1, i - 1)>> \o SplitOn(SubSeq(s, i + 1, Len(s)), sep)

(* The first while loop of run(), from the remaining lines ls and the      *)
(* state st = [new_lines, block (tabbed_block), inside (inside_block)].    *)
RECURSIVE CollectBlocks(_, _)
CollectBlocks(ls, st) ==
    IF ls = <<>> THEN st
    ELSE LET line   == Head(ls)
             s      == Strip(line)
             inside == st.inside \/ StartsWith(s, "S")
         IN IF ~StartsWith(s, "E") /\ Has(s, "E")
            THEN CollectBlocks(SplitAt(line, "E") \o Tail(ls), [st EXCEPT !.inside = inside])
            ELSE IF ~StartsWith(s, "S") /\ Has(s, "S")
            THEN CollectBlocks(SplitAt(line, "S") \o Tail(ls), [st EXCEPT !.inside = inside])
            ELSE LET l   == IF s = <<>> /\ inside THEN <<"NL">> ELSE line
                     st1 == IF inside
                            THEN [st EXCEPT !.block = @ \o <<"NL">> \o l, !.inside = TRUE]
                            ELSE [st EXCEPT !.new_lines = Append(@, l), !.inside = FALSE]
                 IN CollectBlocks(Tail(ls),
                        IF StartsWith(l, "E")
                        THEN [new_lines |-> Append(st1.new_lines, st1.block),
                              block |-> <<>>, inside |-> FALSE]
                        ELSE st1)

(* Mutant: the value is taken from the "=" on (keyval[sep:]).              *)
SegmentValFromSep(keyval) ==
    LET q == SelectInSeq(keyval, LAMBDA c : c = "Q")
    IN [key |-> Strip(IF q > 0 THEN SubSeq(keyval, 1, q - 1) ELSE SubSeq(keyval, 1, Len(keyval) - 1)),
        val |-> IF q > 0 THEN SubSeq(keyval, q, Len(keyval)) ELSE keyval]

(* One segment: sep = keyval.find("="); key = keyval[:sep].strip() and     *)
(* val = keyval[sep+1:].  Without "=", sep = -1: the key is all but the    *)
(* segment's last character and the value the whole segment (the model's  *)
(* words are single characters, so a symbol is one character).            *)
Segment(keyval) ==
    LET q == SelectInSeq(keyval, LAMBDA c : c = "Q")
    IN [key |-> Strip(IF q > 0 THEN SubSeq(keyval, 1, q - 1) ELSE SubSeq(keyval, 1, Len(keyval) - 1)),
        val |-> IF q > 0 THEN SubSeq(keyval, q + 1, Len(keyval)) ELSE keyval]

(* The second pass on one joined element: the tags are removed, the        *)
(* segments parsed (values[key] keeps the last value of a repeated key),   *)
(* and the key section and the panes written, the first key active.        *)
Expand(block) ==
    LET parts  == SplitOn(SelectSeq(block, LAMBDA c : c \notin {"S", "E"}), "B")
        segs   == [i \in DOMAIN parts |-> Segment(parts[i])]
        keys   == [i \in DOMAIN segs |-> segs[i].key]
        Val(k) == segs[SelectLastInSeq(segs, LAMBDA sg : sg.key = k)].val
        Mark(i, plain, active) == IF i = 1 THEN active ELSE plain
    IN <<<<"KO">>>>
       \o [i \in DOMAIN keys |-> <<Mark(i, "KD", "AKD")>> \o keys[i] \o <<"]}">>]
       \o <<<<"KC">>, <<"PO">>>>
       \o FlattenSeq([i \in DOMAIN keys |->
             <<<<Mark(i, "PD", "APD")>> \o keys[i] \o <<"]">>>>
             \o SplitOn(Val(keys[i]), "NL") \o <<<<"PE">>>>])
       \o <<<<"PC">>>>

(* Mutant: no blank line after "@}}".                                     *)
AddBlanksNoneAfterClose(ls) ==
    LET Before(l) == IF l \in {<<"KO">>, <<"PE">>} THEN <<<<"NL">>>> ELSE <<>>
        After(l)  == IF /\ l # <<>> /\ l[1] \in {"PD", "APD"}
                        /\ ~Has(l, "NL") /\ l[Len(l)] = "]"
                     THEN <<<<"NL">>>> ELSE <<>>
    IN FlattenSeq([i \in DOMAIN ls |-> Before(ls[i]) \o <<ls[i]>> \o After(ls[i])])

(* The third pass: a blank line before "{@" and "/@}}", and after "@}}"    *)
(* and after a line matching {{@\[.*\]$ or {{@\$\[.*\]$ ("." stops at a    *)
(* newline).                                                               *)
AddBlanks(ls) ==
    LET Before(l) == IF l \in {<<"KO">>, <<"PE">>} THEN <<<<"NL">>>> ELSE <<>>
        After(l)  == IF \/ l = <<"PC">>
                        \/ /\ l # <<>> /\ l[1] \in {"PD", "APD"}
                           /\ ~Has(l, "NL") /\ l[Len(l)] = "]"
                     THEN <<<<"NL">>>> ELSE <<>>
    IN FlattenSeq([i \in DOMAIN ls |-> Before(ls[i]) \o <<ls[i]>> \o After(ls[i])])

(* TabbedNavPre.run(lines).                                                *)
PreRun(ls) ==
    LET st == CollectBlocks(ls, [new_lines |-> <<>>, block |-> <<>>, inside |-> FALSE])
        nl == st.new_lines
    IN AddBlanks(FlattenSeq([i \in DOMAIN nl |->
                   IF StartsWith(Strip(nl[i]), "S") THEN Expand(nl[i]) ELSE <<nl[i]>>]))

(* TabbedNavBlockProcessor.test(parent, block) on a block given as its     *)
(* lines: it starts "{@\n{@[", "{@\n{@$[", "/@}}\n{{@[" or "/@}}\n{{@$["   *)
(* and ends with "]", or starts "/@}}\n@}}".                                *)
BlockTest(b) ==
    LET ends == b[Len(b)] # <<>> /\ b[Len(b)][Len(b[Len(b)])] = "]"
    IN /\ Len(b) >= 2
       /\ \/ b[1] = <<"KO">> /\ (StartsWith(b[2], "KD") \/ StartsWith(b[2], "AKD")) /\ ends
          \/ b[1] = <<"PE">> /\ (StartsWith(b[2], "PD") \/ StartsWith(b[2], "APD")) /\ ends
          \/ b[1] = <<"PE">> /\ StartsWith(b[2], "PC")

-----------------------------------------------------------------------------
(* Documents.  A document is a sequence of items: a line of text, or a tab *)
(* group of segments [key, val, eq] written as the wikitext export writes  *)
(* them, one KEY= line and one VALUE line per segment, "|-| " before every *)
(* key but the first.  Its <tabber> is on a line of its own ("own"), in    *)
(* front of the first key ("inline") or after a word of text               *)
(* ("after_text"); its </tabber> on a line of its own ("own"), after the   *)
(* last value ("inline") or on its own line after a space ("indented").    *)
LeadText == "lead"

Seg == [key : Keys, val : Values, eq : EqChoices]
SegSeqs ==
    {ss \in UNION {[1..n -> Seg] : n \in 1..MaxSegs} :
        RepeatKeys \/ \A i, j \in DOMAIN ss : i # j => ss[i].key # ss[j].key}
Items ==
    [kind : {"text"}, word : Texts]
    \cup [kind : {"group"}, segs : SegSeqs, start : StartLayouts, end : EndLayouts]
Docs == UNION {[1..n -> Items] : n \in 1..MaxItems}

GroupLines(g) ==
    LET n == Len(g.segs)
        KeyLine(i) ==
            (IF i = 1 /\ g.start = "inline" THEN <<"S">> ELSE <<>>)
            \o (IF i > 1 THEN <<"B", " ">> ELSE <<>>)
            \o g.segs[i].key \o (IF g.segs[i].eq THEN <<"Q">> ELSE <<>>)
        ValLine(i) ==
            <<g.segs[i].val>> \o (IF i = n /\ g.end = "inline" THEN <<"E">> ELSE <<>>)
    IN  (CASE g.start = "own"        -> <<<<"S">>>>
           [] g.start = "after_text" -> <<<<LeadText, " ", "S">>>>
           [] g.start = "inline"     -> <<>>)
        \o FlattenSeq([i \in 1..n |-> <<KeyLine(i), ValLine(i)>>])
        \o (CASE g.end = "own"      -> <<<<"E">>>>
              [] g.end = "indented" -> <<<<" ", "E">>>>
              [] g.end = "inline"   -> <<>>)

DocLines(d) ==
    FlattenSeq([i \in DOMAIN d |->
        IF d[i].kind = "text" THEN <<<<d[i].word>>>> ELSE GroupLines(d[i])])

(* What a document says: its texts in order, and for each group the links  *)
(* (the first one active) and the pane of each key with its content.       *)
Intended(d) ==
    LET Tab(g, i) == [key |-> g.segs[i].key, active |-> i = 1]
        View(it) ==
            IF it.kind = "text" THEN <<[kind |-> "text", words |-> <<it.word>>]>>
            ELSE (IF it.start = "after_text"
                  THEN <<[kind |-> "text", words |-> <<LeadText>>]>> ELSE <<>>)
                 \o <<[kind |-> "group",
                       links |-> [i \in DOMAIN it.segs |-> Tab(it, i)],
                       panes |-> [i \in DOMAIN it.segs |->
                                   Tab(it, i) @@ [words |-> <<it.segs[i].val>>]]]>>
    IN FlattenSeq([i \in DOMAIN d |-> View(d[i])])

(* The lines Markdown sees: each output element split at its newlines.     *)
Physical(ls) == FlattenSeq([i \in DOMAIN ls |-> SplitOn(ls[i], "NL")])
Words(l) == SelectSeq(l, LAMBDA c : c \notin Whitespace)
Blank(l) == Words(l) = <<>>
IsMarker(l) == l # <<>> /\ l[1] \in Markers

(* The same view read back from the markup run() wrote; a line out of      *)
(* place ends the reading with a "bad" item.                               *)
RECURSIVE Read(_, _, _)
Read(ls, mode, acc) ==
    LET Bad   == Append(acc, [kind |-> "bad"])
        cur   == acc[Len(acc)]
        SetCur(c) == [acc EXCEPT ![Len(acc)] = c]
        l     == Head(ls)
        Decl(a, p) == l[1] \in {a, p} /\ Len(l) >= 2 /\ l[Len(l)] = IF a = "AKD" THEN "]}" ELSE "]"
        Tab   == [key |-> SubSeq(l, 2, Len(l) - 1), active |-> l[1] \in {"AKD", "APD"}]
    IN IF ls = <<>> THEN (IF mode = "top" THEN acc ELSE Bad)
       ELSE IF Blank(l) /\ mode \in {"top", "panes", "content"} THEN Read(Tail(ls), mode, acc)
       ELSE CASE mode = "top" /\ l = <<"KO">> ->
                   Read(Tail(ls), "keys", Append(acc, [kind |-> "group", links |-> <<>>, panes |-> <<>>]))
              [] mode = "top" /\ ~IsMarker(l) ->
                   Read(Tail(ls), "top", Append(acc, [kind |-> "text", words |-> Words(l)]))
              [] mode = "keys" /\ Decl("AKD", "KD") ->
                   Read(Tail(ls), "keys", SetCur([cur EXCEPT !.links = Append(@, Tab)]))
              [] mode = "keys" /\ l = <<"KC">> -> Read(Tail(ls), "closed", acc)
              [] mode = "closed" /\ l = <<"PO">> -> Read(Tail(ls), "panes", acc)
              [] mode = "panes" /\ Decl("APD", "PD") ->
                   Read(Tail(ls), "content",
                        SetCur([cur EXCEPT !.panes = Append(@, Tab @@ [words |-> <<>>])]))
              [] mode = "panes" /\ l = <<"PC">> -> Read(Tail(ls), "top", acc)
              [] mode = "content" /\ l = <<"PE">> -> Read(Tail(ls), "panes", acc)
              [] mode = "content" /\ ~IsMarker(l) ->
                   Read(Tail(ls), "content",
                        SetCur([cur EXCEPT !.panes[Len(cur.panes)].words = @ \o Words(l)]))
              [] OTHER -> Bad

(* Markdown's blocks: the maximal runs of non-blank lines.                 *)
RECURSIVE BlocksOf(_, _)
BlocksOf(ls, cur) ==
    IF ls = <<>> THEN (IF cur = <<>> THEN <<>> ELSE <<cur>>)
    ELSE IF Blank(Head(ls))
         THEN (IF cur = <<>> THEN <<>> ELSE <<cur>>) \o BlocksOf(Tail(ls), <<>>)
         ELSE BlocksOf(Tail(ls), Append(cur, Head(ls)))

-----------------------------------------------------------------------------
Init ==
    /\ doc \in Docs
    /\ lines = DocLines(doc)
    /\ out = <<>>

(* Markdown runs the preprocessor on the document's lines.                 *)
Run ==
    /\ out = <<>>
    /\ out' = PreRun(lines)
    /\ UNCHANGED <<doc, lines>>

Spec == Init /\ [][Run]_vars

Done == out # <<>>

-----------------------------------------------------------------------------
TypeOK ==
    /\ doc \in Seq(Items)
    /\ lines \in Seq(Seq(STRING))
    /\ out \in Seq(Seq(STRING))

(* run() keeps every line of text in its place and turns every <tabber>    *)
(* group into a key section and panes that say what the wikitext said: one *)
(* link per KEY= (the first active) and under each key the VALUE written   *)
(* after it.  No text is lost, moved into a pane or given to another key.  *)
PreFaithful ==
    Done => Read(Physical(out), "top", <<>>) = Intended(doc)

(* Markdown leaves the tab markup alone: every block that holds a markup   *)
(* line is claimed by TabbedNavBlockProcessor.test and holds nothing but   *)
(* markup, so no tab content is kept out of Markdown's conversion and no   *)
(* marker is wrapped in a paragraph.  This is what the blank lines of      *)
(* run()'s last pass are for.                                              *)
MarkupIsolated ==
    Done =>
        \A b \in ToSet(BlocksOf(Physical(out), <<>>)) :
            (\E i \in DOMAIN b : IsMarker(b[i])) =>
                BlockTest(b) /\ \A i \in DOMAIN b : IsMarker(b[i])

=============================================================================
