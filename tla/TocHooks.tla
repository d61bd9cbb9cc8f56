------------------------------ MODULE TocHooks ------------------------------
(***************************************************************************)
(* The anchor ("hook") registry of jinjaext/table_of_contents.py and the  *)
(* two Jinja filters that share it:                                        *)
(*                                                                         *)
(*   extract_toc_info  walks a page's headings and issues a new hook for   *)
(*                     each visible one (produce_new_hook);                *)
(*   add_toc_hooks     walks the same headings again and takes the hook    *)
(*                     back for each (consume_existing_hook), writing it   *)
(*                     into the heading's id attribute.                    *)
(*                                                                         *)
(* TableOfContents.hooks_taken is a class attribute: one list for the      *)
(* whole Pelican process, never reset (the local hooks_taken = [] in       *)
(* extractTableOfContentsInfo binds an unused local).  The model renders   *)
(* pages one after another in one process, as pelican does in a build and *)
(* across the rebuilds of its autoreload mode.                             *)
(*                                                                         *)
(* Data abstraction.  A heading's text is a model value; the slug it       *)
(* derives (parse_hook_from_text) is given by the many-to-one table        *)
(* SlugOf, so that different texts may share a slug.  A hook string is     *)
(* base + "_" (n = 1) or base + "_" + str(n) (n >= 2); the last "_" of     *)
(* either string is right before the suffix, so the pair [base, n] stands  *)
(* for the string one-to-one and x[:x.rfind("_")] is the pair's base.      *)
(* A page is its well-formedness and the sequence of its h1..h3 headings   *)
(* in document order (both filters walk the tree in the same pre-order;    *)
(* other elements are skipped by both).                                    *)
(***************************************************************************)
EXTENDS Naturals, Sequences, SequencesExt

CONSTANTS
    Texts,        \* heading texts (model values)
    NoText,       \* element.text is None: the heading starts with a child element
    None,         \* Python's None, returned by extract_toc_info on a parse error
    HeadingTexts, \* the texts a rendered page's headings may carry
    SlugOf,       \* parse_hook_from_text, as a table Texts -> slugs
    MaxHeadings,  \* headings per page
    MaxRenders    \* page renders in one process

ASSUME /\ NoText \notin Texts
       /\ HeadingTexts \subseteq Texts \cup {NoText}
       /\ DOMAIN SlugOf = Texts
       /\ MaxHeadings \in Nat /\ MaxRenders \in Nat

VARIABLES
    hooks_taken,  \* TableOfContents.hooks_taken
    phase,        \* where the current page render is
    page,         \* the page being rendered
    toc_info,     \* result of extract_toc_info (None when the page does not parse)
    attached,     \* ids written by the last add_toc_hooks
    renders       \* pages rendered so far

vars == <<hooks_taken, phase, page, toc_info, attached, renders>>

Bases == {SlugOf[t] : t \in Texts}
Hook == [base : Bases, n : Nat \ {0}]
Heading == [text : Texts \cup {NoText}, hidden : BOOLEAN]
Page == [parses : BOOLEAN, heads : Seq(Heading)]
RenderablePage ==
    [parses : BOOLEAN,
     heads : BoundedSeq([text : HeadingTexts, hidden : BOOLEAN], MaxHeadings)]

-----------------------------------------------------------------------------
(* parse_hook_from_text: the slug of a heading's text.                     *)
ParseHookFromText(t) == SlugOf[t]

(* The h1/h2/h3 test with data-hidden-from-toc != "true", in both process  *)
(* functions; pages only list headings, so the tag test is always true.    *)
TocHeadings(p) == SelectSeq(p.heads, LAMBDA h : ~h.hidden)

(* Mutant: the suffix search starts at hook_id = 0.                        *)
ProduceNewHookFromZero(reg, t) ==
    LET b     == ParseHookFromText(t)
        taken == ToSet(reg)
        n     == IF [base |-> b, n |-> 1] \notin taken THEN 1
                 ELSE CHOOSE k \in 0..Len(reg) + 2 :
                        /\ [base |-> b, n |-> k] \notin taken
                        /\ \A j \in 0..k - 1 : [base |-> b, n |-> j] \in taken
    IN [hook |-> [base |-> b, n |-> n], reg |-> Append(reg, [base |-> b, n |-> n])]

(* produce_new_hook: base_ if free, else base_2, base_3, ... the first one *)
(* not in hooks_taken; the hook is appended to the registry.               *)
ProduceNewHook(reg, t) ==
    LET b     == ParseHookFromText(t)
        taken == ToSet(reg)
        n     == IF [base |-> b, n |-> 1] \notin taken THEN 1
                 ELSE CHOOSE k \in 2..Len(reg) + 2 :
                        /\ [base |-> b, n |-> k] \notin taken
                        /\ \A j \in 2..k - 1 : [base |-> b, n |-> j] \in taken
    IN [hook |-> [base |-> b, n |-> n], reg |-> Append(reg, [base |-> b, n |-> n])]

(* Mutant: the last hook with the slug as stub is taken.                   *)
ConsumeLastHook(reg, t) ==
    LET b == ParseHookFromText(t)
        i == SelectLastInSeq(reg, LAMBDA h : h.base = b)
    IN IF i = 0 THEN [ok |-> FALSE, hook |-> [base |-> b, n |-> 1], reg |-> reg]
       ELSE [ok |-> TRUE, hook |-> reg[i], reg |-> RemoveAt(reg, i)]

(* Mutant: the hook is returned but not removed from hooks_taken.          *)
ConsumeWithoutRemove(reg, t) ==
    LET b == ParseHookFromText(t)
        i == SelectInSeq(reg, LAMBDA h : h.base = b)
    IN IF i = 0 THEN [ok |-> FALSE, hook |-> [base |-> b, n |-> 1], reg |-> reg]
       ELSE [ok |-> TRUE, hook |-> reg[i], reg |-> reg]

(* consume_existing_hook: the first hook in the registry whose stub is the *)
(* text's slug is taken out of it; with none, hooks_taken.remove(base_)    *)
(* raises ValueError (ok = FALSE).                                         *)
ConsumeExistingHook(reg, t) ==
    LET b == ParseHookFromText(t)
        i == SelectInSeq(reg, LAMBDA h : h.base = b)
    IN IF i = 0 THEN [ok |-> FALSE, hook |-> [base |-> b, n |-> 1], reg |-> reg]
       ELSE [ok |-> TRUE, hook |-> reg[i], reg |-> RemoveAt(reg, i)]

(* One heading of extractTableOfContentsInfo's process(): the text None    *)
(* makes parse_hook_from_text raise AttributeError, which aborts the walk  *)
(* with the hooks issued so far left in the registry.                      *)
ExtractStep(acc, h) ==
    IF acc.raised THEN acc
    ELSE IF h.text = NoText THEN [acc EXCEPT !.raised = TRUE]
    ELSE LET r == ProduceNewHook(acc.reg, h.text)
         IN [acc EXCEPT !.reg = r.reg, !.out = Append(@, [text |-> h.text, hook |-> r.hook])]

(* One heading of addTableOfContentsHooks' process(): element.attrib["id"] *)
(* = consume_existing_hook(element.text); None or a missing hook raises.   *)
AddStep(acc, h) ==
    IF acc.raised THEN acc
    ELSE IF h.text = NoText THEN [acc EXCEPT !.raised = TRUE]
    ELSE LET r == ConsumeExistingHook(acc.reg, h.text)
         IN IF ~r.ok THEN [acc EXCEPT !.raised = TRUE, !.reg = r.reg]
            ELSE [acc EXCEPT !.reg = r.reg, !.out = Append(@, r.hook)]

(* process(root): the walk over the page's headings, from the registry.   *)
WalkStart == [reg |-> hooks_taken, out |-> <<>>, raised |-> FALSE]

-----------------------------------------------------------------------------
Init ==
    /\ hooks_taken = <<>>
    /\ phase = "idle"
    /\ page = [parses |-> TRUE, heads |-> <<>>]
    /\ toc_info = <<>>
    /\ attached = <<>>
    /\ renders = 0

(* A template renders page p and calls extract_toc_info(p.content, page).  *)
(* A page that does not parse is logged and yields None.  An exception in  *)
(* the walk escapes the filter and ends this page's render.                *)
ExtractTocInfo(p) ==
    /\ phase # "extracted"
    /\ renders < MaxRenders
    /\ renders' = renders + 1
    /\ page' = p
    /\ UNCHANGED attached
    /\ IF ~p.parses
       THEN /\ toc_info' = None
            /\ phase' = "extracted"
            /\ UNCHANGED hooks_taken
       ELSE LET r == FoldLeft(ExtractStep, WalkStart, TocHeadings(p))
            IN /\ hooks_taken' = r.reg
               /\ IF r.raised THEN phase' = "idle" /\ UNCHANGED toc_info
                  ELSE phase' = "extracted" /\ toc_info' = r.out

(* The same template then calls add_toc_hooks(p.content, toc_info, page).  *)
(* toc_info = None returns the content untouched; otherwise the page is    *)
(* parsed again (with the same outcome) and every heading gets its id.     *)
AddTocHooks ==
    /\ phase = "extracted"
    /\ UNCHANGED <<page, toc_info, renders>>
    /\ IF toc_info = None
       THEN phase' = "added" /\ attached' = None /\ UNCHANGED hooks_taken
       ELSE LET r == FoldLeft(AddStep, WalkStart, TocHeadings(page))
            IN /\ hooks_taken' = r.reg
               /\ IF r.raised THEN phase' = "idle" /\ UNCHANGED attached
                  ELSE phase' = "added" /\ attached' = r.out

Next ==
    \/ \E p \in RenderablePage : ExtractTocInfo(p)
    \/ AddTocHooks

Spec == Init /\ [][Next]_vars

-----------------------------------------------------------------------------
TypeOK ==
    /\ hooks_taken \in Seq(Hook)
    /\ phase \in {"idle", "extracted", "added"}
    /\ page \in Page
    /\ toc_info \in Seq([text : Texts, hook : Hook]) \cup {None}
    /\ attached \in Seq(Hook) \cup {None}
    /\ renders \in 0..MaxRenders

(* The table of contents links to #hook for each heading (create_toc), and *)
(* add_toc_hooks gives the headings their ids: after a page is rendered,   *)
(* the i-th heading's id is the hook the i-th TOC entry links to, so every *)
(* TOC link of the page resolves to its own heading.                       *)
HooksMatchToc ==
    (phase = "added" /\ toc_info # None) =>
        attached = [i \in DOMAIN toc_info |-> toc_info[i].hook]

(* Between page renders the process-wide registry holds no hook: whatever  *)
(* extract_toc_info issued for a page, add_toc_hooks took back.  A stale   *)
(* hook left here is matched by a later page's add_toc_hooks.              *)
RegistryDrained ==
    phase # "extracted" => hooks_taken = <<>>

(* The two filters, with the class-level registry they share, implement a *)
(* fresh anchor allocator per page (TocAnchors): every render's TOC and     *)
(* heading ids are the ones the page alone determines, whatever pages were *)
(* rendered before in the process.                                         *)
Anchors == INSTANCE TocAnchors
TocAnchorsSpec == Anchors!Spec

=============================================================================
