------------------------------ MODULE MdBlocks ------------------------------
(***************************************************************************)
(* Markdown's block stage with the sequence-diagram extension              *)
(* (mdext/sequence_diagrams.py), and the code-block fixup postprocessor    *)
(* (mdext/fix_code_blocks.py) on the HTML it leads to.                     *)
(*                                                                         *)
(* The block parser hands each block (a run of non-blank lines) to the     *)
(* first block processor whose test() accepts it.  SequenceDiagBlock-      *)
(* Processor is added at "_begin", so it is asked before the core          *)
(* processors (indented code, paragraph).  Its test() is six regexes,      *)
(* searched with DOTALL and IGNORECASE anywhere in the block; its run()    *)
(* wraps the whole block, verbatim, in <div class="js_sequence_diagram">.  *)
(* Raw HTML blocks are stashed by Markdown's preprocessor before the block *)
(* stage and come back unchanged.  Code blocks are highlighted by          *)
(* codehilite; FixCodeBlocksPost then rewrites every "<pre>" and "</pre>"  *)
(* of the page's HTML.                                                     *)
(*                                                                         *)
(* Data abstraction.  A line is a sequence of chunks: the words the        *)
(* regexes spell ("title", "participant", "note", "left", "right", "of",   *)
(* "over", in any case), the characters ":", "-", ">", " ", and "x" for    *)
(* any other character.  No regex literal can be spelt across chunks, so   *)
(* searching the chunks finds what searching the characters finds.  HTML   *)
(* is the sequence of its tags, "TXT" standing for text.                   *)
(***************************************************************************)
EXTENDS Naturals, Sequences, SequencesExt

CONSTANTS
    DiagramLines,  \* lines of js-sequence-diagrams markup authors write
    ProseLines,    \* lines of paragraph text
    CodeLines,     \* lines of indented code (four leading spaces)
    RawBlocks,     \* raw HTML blocks, as their tags
    Extensions,    \* the Markdown extensions loaded, by module name
    Highlighters,  \* what codehilite highlights with
    MaxBlocks,     \* blocks per document
    MaxLines       \* lines per block

VARIABLES
    doc,   \* the document's blocks [kind, lines] or [kind |-> "raw", tags]
    tree,  \* the elements the block parser made, <<>> before it runs
    html   \* the page's HTML after the postprocessors, <<>> before

vars == <<doc, tree, html>>

(* MD_EXTENSIONS of pelicanconf.py: codehilite(css_class=highlight),      *)
(* extra and mdext.fix_code_blocks.                                        *)
MD_EXTENSIONS == {"codehilite", "extra", "fix_code_blocks"}

Lines(S) == UNION {[1..n -> S] : n \in 1..MaxLines}
Block ==
    [kind : {"diagram"}, lines : Lines(DiagramLines)]
    \cup [kind : {"prose"}, lines : Lines(ProseLines)]
    \cup [kind : {"code"}, lines : Lines(CodeLines)]
    \cup [kind : {"raw"}, tags : RawBlocks]

(* A block's text as the processors see it: its lines joined by "\n".      *)
RECURSIVE Joined(_)
Joined(ls) == IF Len(ls) <= 1 THEN Head(ls) ELSE Head(ls) \o <<"NL">> \o Joined(Tail(ls))
Text(b) == Joined(b.lines)

-----------------------------------------------------------------------------
(* One regex searched anywhere in the text: "*" is " *", "ANY" is ".*"     *)
(* (DOTALL), any other element a literal chunk.                            *)
RECURSIVE MatchAt(_, _, _)
MatchAt(t, i, pat) ==
    IF pat = <<>> THEN TRUE
    ELSE CASE Head(pat) = "*" ->
                MatchAt(t, i, Tail(pat)) \/ (i <= Len(t) /\ t[i] = " " /\ MatchAt(t, i + 1, pat))
           [] Head(pat) = "ANY" ->
                MatchAt(t, i, Tail(pat)) \/ (i <= Len(t) /\ MatchAt(t, i + 1, pat))
           [] OTHER -> i <= Len(t) /\ t[i] = Head(pat) /\ MatchAt(t, i + 1, Tail(pat))

Search(t, pat) == \E i \in 1..Len(t) + 1 : MatchAt(t, i, pat)

(* The regexes of SequenceDiagBlockProcessor.__init__, without the         *)
(* "^.* *" and " *.* *.*$" around them, which match any text.  In actre,   *)
(* "--?>>? *.* *: *" is found iff "->" is followed somewhere by ":".       *)
SeqPatterns ==
    [titre |-> <<"title", "*", ":">>,
     parre |-> <<"participant">>,
     lefre |-> <<"note", "*", "left", " ", "of", "*", ":">>,
     rigre |-> <<"note", "*", "right", " ", "of", "*", ":">>,
     overe |-> <<"note", "*", "over", "*", ":">>,
     actre |-> <<"-", ">", "ANY", ":">>]

(* Mutant: the signal regex actre is left out of the test.                 *)
SeqTestNoSignals(t) ==
    \E r \in DOMAIN SeqPatterns \ {"actre"} : Search(t, SeqPatterns[r])

(* SequenceDiagBlockProcessor.test: one of the six regexes is found.       *)
SeqTest(t) == \E r \in DOMAIN SeqPatterns : Search(t, SeqPatterns[r])

(* The core processors' tests: CodeBlockProcessor takes a block indented   *)
(* by four spaces, ParagraphProcessor any other.                           *)
Indented(t) == Len(t) >= 4 /\ SubSeq(t, 1, 4) = <<" ", " ", " ", " ">>

(* BlockParser.parseBlocks over the document, processors in the order      *)
(* extendMarkdown leaves them: sequence_diag ("_begin", when its extension *)
(* is loaded), code, paragraph.                                            *)
(* SequenceDiagBlockProcessor.run wraps the block's text verbatim.         *)
ParseBlock(b) ==
    IF b.kind = "raw" THEN [el |-> "raw", tags |-> b.tags]
    ELSE LET t == Text(b) IN
         CASE "sequence_diagrams" \in Extensions /\ SeqTest(t) ->
                             [el |-> "diagram", text |-> t]
           [] Indented(t) -> [el |-> "code", text |-> t]
           [] OTHER       -> [el |-> "p", text |-> t]

(* The HTML of one element: codehilite with Pygments writes               *)
(* <div class="highlight"><pre>, without it <pre class=..><code class=..>; *)
(* with no codehilite, CodeBlockProcessor writes <pre><code>.              *)
Serialize(e, hl) ==
    CASE e.el = "raw"     -> e.tags
      [] e.el = "diagram" -> <<"<div>", "TXT", "</div>">>
      [] e.el = "p"       -> <<"<p>", "TXT", "</p>">>
      [] e.el = "code" /\ "codehilite" \notin Extensions ->
                               <<"<pre>", "<code>", "TXT", "</code>", "</pre>">>
      [] e.el = "code" /\ hl = "pygments" -> <<"<div>", "<pre>", "TXT", "</pre>", "</div>">>
      [] e.el = "code"    -> <<"<pre class>", "<code class>", "TXT", "</code>", "</pre>">>

(* Mutant: only the opening "<pre>" is rewritten.                          *)
FixCodeBlocksOpenOnly(h) ==
    FlattenSeq([i \in DOMAIN h |-> IF h[i] = "<pre>" THEN <<"<pre>", "<code>">> ELSE <<h[i]>>])

(* FixCodeBlocksPost.run: "<pre>" -> "<pre><code>", "</pre>" ->            *)
(* "</code></pre>", everywhere in the text.                                *)
FixCodeBlocks(h) ==
    FlattenSeq([i \in DOMAIN h |->
        CASE h[i] = "<pre>"  -> <<"<pre>", "<code>">>
          [] h[i] = "</pre>" -> <<"</code>", "</pre>">>
          [] OTHER           -> <<h[i]>>])

(* Tags the page's HTML opens, with the element each closes.               *)
Opens == [t \in {"<div>", "<p>", "<pre>", "<pre class>", "<code>", "<code class>"} |->
            CASE t \in {"<pre>", "<pre class>"} -> "pre"
              [] t \in {"<code>", "<code class>"} -> "code"
              [] t = "<div>" -> "div"
              [] t = "<p>" -> "p"]
Closes == [t \in {"</div>", "</p>", "</pre>", "</code>"} |->
             CASE t = "</div>" -> "div" [] t = "</p>" -> "p" [] t = "</pre>" -> "pre"
               [] t = "</code>" -> "code"]

(* Each end tag closes the innermost open element and none is left open.   *)
RECURSIVE Nests(_, _)
Nests(h, stack) ==
    IF h = <<>> THEN stack = <<>>
    ELSE CASE Head(h) \in DOMAIN Opens -> Nests(Tail(h), <<Opens[Head(h)]>> \o stack)
           [] Head(h) \in DOMAIN Closes ->
                stack # <<>> /\ Head(stack) = Closes[Head(h)] /\ Nests(Tail(h), Tail(stack))
           [] OTHER -> Nests(Tail(h), stack)

-----------------------------------------------------------------------------
Init ==
    /\ doc \in UNION {[1..n -> Block] : n \in 1..MaxBlocks}
    /\ tree = <<>>
    /\ html = <<>>

(* The block stage: BlockParser.parseDocument hands every block to the     *)
(* processors.                                                             *)
ParseBlocks ==
    /\ tree = <<>>
    /\ tree' = [i \in DOMAIN doc |-> ParseBlock(doc[i])]
    /\ UNCHANGED <<doc, html>>

(* Serialisation and the postprocessors: the raw HTML is put back, then    *)
(* fix_code_blocks, registered at "_end" when loaded, rewrites the page.   *)
Postprocess ==
    /\ tree # <<>> /\ html = <<>>
    /\ \E hl \in Highlighters :
         LET page == FlattenSeq([i \in DOMAIN tree |-> Serialize(tree[i], hl)]) IN
         html' = IF "fix_code_blocks" \in Extensions THEN FixCodeBlocks(page) ELSE page
    /\ UNCHANGED <<doc, tree>>

Next == ParseBlocks \/ Postprocess

Spec == Init /\ [][Next]_vars

-----------------------------------------------------------------------------
(* Every block an author writes as a js-sequence-diagrams diagram is       *)
(* claimed by SequenceDiagBlockProcessor.test and handed whole, verbatim,  *)
(* to js-sequence-diagrams.js; none is turned into a paragraph or code.    *)
DiagramsClaimed ==
    tree # <<>> =>
        \A i \in DOMAIN doc :
            doc[i].kind = "diagram" => tree[i] = [el |-> "diagram", text |-> Text(doc[i])]

(* Blocks that are not diagrams are left to Markdown: indented code stays  *)
(* code and prose a paragraph, whatever words or arrows they contain.      *)
NonDiagramsUntouched ==
    tree # <<>> =>
        \A i \in DOMAIN doc :
            /\ doc[i].kind = "code" => tree[i].el = "code"
            /\ doc[i].kind = "prose" => tree[i].el = "p"

(* The page's HTML still nests after FixCodeBlocksPost rewrites its "<pre>" *)
(* and "</pre>" as text, so extract_toc_info can parse it as XML: for      *)
(* highlighted code and for raw <pre> blocks alike.                        *)
CodeMarkupNests ==
    html # <<>> => Nests(html, <<>>)

(* Each <pre> holds one <code> element directly, as the fixup intends.     *)
OneCodePerPre ==
    html # <<>> =>
        \A i \in DOMAIN html :
            html[i] \in {"<pre>", "<pre class>"} =>
                /\ i + 1 \in DOMAIN html /\ html[i + 1] \in {"<code>", "<code class>"}
                /\ i + 2 \in DOMAIN html /\ html[i + 2] \notin {"<code>", "<code class>"}

=============================================================================
