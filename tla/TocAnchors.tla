----------------------------- MODULE TocAnchors -----------------------------
(***************************************************************************)
(* What the TOC filters of jinjaext/table_of_contents.py promise a page,   *)
(* with the registry left out: extract_toc_info gives each visible         *)
(* heading the anchor a fresh allocator for this page would give it (the   *)
(* k-th heading of a slug gets base_ for k = 1, base_k after), and         *)
(* add_toc_hooks writes exactly those anchors into the headings.  The      *)
(* anchors are a function of the page alone: nothing one render does      *)
(* shows in another.  TocHooks, which allocates through the process-wide   *)
(* hooks_taken, implements this specification (TocAnchorsSpec there) when  *)
(* every heading starts with text.                                         *)
(***************************************************************************)
EXTENDS Naturals, Sequences, SequencesExt, FiniteSets

CONSTANTS Texts, NoText, None, HeadingTexts, SlugOf, MaxHeadings, MaxRenders

VARIABLES phase, page, toc_info, attached, renders

vars == <<phase, page, toc_info, attached, renders>>

RenderablePage ==
    [parses : BOOLEAN,
     heads : BoundedSeq([text : HeadingTexts, hidden : BOOLEAN], MaxHeadings)]

(* The headings both walks visit: h1..h3 not marked data-hidden-from-toc.  *)
Visible(p) == SelectSeq(p.heads, LAMBDA h : ~h.hidden)

(* produce_new_hook from an empty registry, for the i-th visible heading:  *)
(* its slug's suffix is the number of headings of that slug up to it.      *)
PageAnchor(hs, i) ==
    [base |-> SlugOf[hs[i].text],
     n |-> Cardinality({j \in 1..i : SlugOf[hs[j].text] = SlugOf[hs[i].text]})]

(* The TOC entries of a page that parses: text and anchor of each heading. *)
PageToc(p) ==
    LET hs == Visible(p) IN [i \in DOMAIN hs |-> [text |-> hs[i].text, hook |-> PageAnchor(hs, i)]]

Init ==
    /\ phase = "idle"
    /\ page = [parses |-> TRUE, heads |-> <<>>]
    /\ toc_info = <<>>
    /\ attached = <<>>
    /\ renders = 0

(* extract_toc_info on a new page: None when it does not parse.            *)
ExtractTocInfo(p) ==
    /\ phase # "extracted"
    /\ renders < MaxRenders
    /\ renders' = renders + 1
    /\ page' = p
    /\ toc_info' = IF p.parses THEN PageToc(p) ELSE None
    /\ phase' = "extracted"
    /\ UNCHANGED attached

(* add_toc_hooks: each heading's id is its TOC entry's anchor.             *)
AddTocHooks ==
    /\ phase = "extracted"
    /\ phase' = "added"
    /\ attached' = IF toc_info = None THEN None ELSE [i \in DOMAIN toc_info |-> toc_info[i].hook]
    /\ UNCHANGED <<page, toc_info, renders>>

Next == (\E p \in RenderablePage : ExtractTocInfo(p)) \/ AddTocHooks

Spec == Init /\ [][Next]_vars

=============================================================================
