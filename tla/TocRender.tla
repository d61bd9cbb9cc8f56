------------------------------ MODULE TocRender ------------------------------
(***************************************************************************)
(* TableOfContents.createTableOfContents (jinjaext/table_of_contents.py): *)
(* the side navigation list rendered from toc_info.  The markup is a       *)
(* sequence of tokens; a heading's text and hook are abstracted to its     *)
(* index i in toc_info, and its tag h1/h2/h3 to its level 1..3:            *)
(*   <<"ul", 0>>   <ul class='nav ...'>        <<"/ul", 0>>   </ul>        *)
(*   <<"li", i>>   <li> (class='active' for i = 1)   <<"/li", 0>>  </li>   *)
(*   <<"a", i>>    <a href='#hook'>text</a> of heading i                   *)
(*                                                                         *)
(* The browser builds the list from those tags with the HTML tree-         *)
(* construction rules for ul and li; ListTree is that reference, and the   *)
(* properties compare the tree it builds with the heading outline.         *)
(***************************************************************************)
EXTENDS Naturals, Sequences, SequencesExt

CONSTANTS
    MaxHeadings   \* length of toc_info

VARIABLES
    toc_info,     \* the heading levels passed to the create_toc filter
    toc_html      \* its result: a token sequence, or <<>> before rendering
vars == <<toc_info, toc_html>>

Levels == 1..3
Token == {"ul", "/ul", "li", "/li", "a"} \X (0..MaxHeadings)

-----------------------------------------------------------------------------
(* Mutant: an h2 after an h3 does not close the h3 list.                  *)
TransitionNoCloseAfterH3(last, cur, i) ==
    CASE cur = 1 -> (IF last = 2 THEN <<<<"/ul", 0>>>> ELSE <<>>)
                    \o <<<<"/li", 0>>, <<"li", i>>, <<"a", i>>>>
      [] cur = 2 -> (IF last = 1 THEN <<<<"ul", 0>>>>
                     ELSE IF last = 2 THEN <<<<"/li", 0>>>>
                     ELSE <<>>)
                    \o <<<<"li", i>>, <<"a", i>>>>
      [] cur = 3 -> (IF last = 2 THEN <<<<"ul", 0>>>> ELSE <<>>)
                    \o <<<<"li", i>>, <<"a", i>>, <<"/li", 0>>>>

(* Mutant: the loop links toc_info[i + 1] instead of toc_info[i].          *)
TransitionNextIndex(last, cur, i) ==
    CASE cur = 1 -> (IF last = 2 THEN <<<<"/ul", 0>>>> ELSE <<>>)
                    \o <<<<"/li", 0>>, <<"li", i + 1>>, <<"a", i + 1>>>>
      [] cur = 2 -> (IF last = 1 THEN <<<<"ul", 0>>>>
                     ELSE IF last = 2 THEN <<<<"/li", 0>>>>
                     ELSE <<<<"/ul", 0>>>>)
                    \o <<<<"li", i + 1>>, <<"a", i + 1>>>>
      [] cur = 3 -> (IF last = 2 THEN <<<<"ul", 0>>>> ELSE <<>>)
                    \o <<<<"li", i + 1>>, <<"a", i + 1>>, <<"/li", 0>>>>

(* The tags emitted in the loop for heading i of level cur after a heading *)
(* of level last (the if/elif chain on toc_info[i]['tag'] and last_tag).   *)
Transition(last, cur, i) ==
    CASE cur = 1 -> (IF last = 2 THEN <<<<"/ul", 0>>>> ELSE <<>>)
                    \o <<<<"/li", 0>>, <<"li", i>>, <<"a", i>>>>
      [] cur = 2 -> (IF last = 1 THEN <<<<"ul", 0>>>>
                     ELSE IF last = 2 THEN <<<<"/li", 0>>>>
                     ELSE <<<<"/ul", 0>>>>)
                    \o <<<<"li", i>>, <<"a", i>>>>
      [] cur = 3 -> (IF last = 2 THEN <<<<"ul", 0>>>> ELSE <<>>)
                    \o <<<<"li", i>>, <<"a", i>>, <<"/li", 0>>>>

(* createTableOfContents: "" for no heading, a one-item list for one, and  *)
(* otherwise the first item, the loop over the others, and the closing     *)
(* </li> (only when the last tag is h1) and </ul>.                         *)
CreateTableOfContents(lv) ==
    IF Len(lv) = 0 THEN <<>>
    ELSE IF Len(lv) = 1
    THEN <<<<"ul", 0>>, <<"li", 1>>, <<"a", 1>>, <<"/li", 0>>, <<"/ul", 0>>>>
    ELSE LET Step(acc, i) == [html |-> acc.html \o Transition(acc.last, lv[i], i),
                              last |-> lv[i]]
             loop == FoldLeft(Step, [html |-> <<<<"ul", 0>>, <<"li", 1>>, <<"a", 1>>>>,
                                     last |-> lv[1]],
                              [k \in 1..Len(lv) - 1 |-> k + 1])
         IN loop.html \o (IF loop.last = 1 THEN <<<<"/li", 0>>>> ELSE <<>>)
                      \o <<<<"/ul", 0>>>>

-----------------------------------------------------------------------------
(* Reference: the HTML tree construction for these tags.  The stack of     *)
(* open elements holds <<"ul", 0>> and <<"li", i>>.  <li> first closes an  *)
(* open li on top of the stack; </li> closes the top li and is ignored     *)
(* when a ul is on top (no li in list-item scope); </ul> pops up to the    *)
(* innermost open ul and is ignored if there is none.  A link is placed in *)
(* the top element: its heading's parent is the item that holds the list   *)
(* that holds its item (0: the top-level list, -1: not in a list item).    *)
Top(st) == st[Len(st)]
PopTo(st, tag) ==
    LET k == SelectLastInSeq(st, LAMBDA e : e[1] = tag) IN SubSeq(st, 1, k - 1)
ParentOf(st) ==
    IF st = <<>> \/ Top(st)[1] # "li" THEN -1
    ELSE IF Len(st) < 3 THEN 0
    ELSE st[Len(st) - 2][2]

TreeStep(acc, t) ==
    LET st == acc.stack IN
    CASE t[1] = "ul" -> [acc EXCEPT !.stack = Append(st, t)]
      [] t[1] = "li" -> [acc EXCEPT !.stack =
                           Append(IF st # <<>> /\ Top(st)[1] = "li" THEN Front(st) ELSE st, t)]
      [] t[1] = "/li" -> [acc EXCEPT !.stack =
                           IF st # <<>> /\ Top(st)[1] = "li" THEN Front(st) ELSE st]
      [] t[1] = "/ul" -> [acc EXCEPT !.stack =
                           IF \E k \in DOMAIN st : st[k][1] = "ul" THEN PopTo(st, "ul") ELSE st]
      [] t[1] = "a" -> [acc EXCEPT !.parent = Append(@, ParentOf(st))]

ListTree(html) == FoldLeft(TreeStep, [stack |-> <<>>, parent |-> <<>>], html)

(* The outline the headings describe: heading i belongs under the nearest  *)
(* earlier heading of a lower level, or at the top level (0).              *)
OutlineParent(lv, i) ==
    LET E == {j \in 1..i - 1 : lv[j] < lv[i]}
    IN IF E = {} THEN 0 ELSE CHOOSE j \in E : \A k \in E : k <= j

(* A document outline: it starts at h1 and goes down one level at a time.  *)
WellFormed(lv) ==
    /\ lv # <<>> => lv[1] = 1
    /\ \A i \in 1..Len(lv) - 1 : lv[i + 1] <= lv[i] + 1

-----------------------------------------------------------------------------
Init ==
    /\ toc_info \in BoundedSeq(Levels, MaxHeadings)
    /\ toc_html = <<>>

(* The create_toc filter call.                                             *)
CreateToc ==
    /\ toc_html = <<>>
    /\ toc_info # <<>>
    /\ toc_html' = CreateTableOfContents(toc_info)
    /\ UNCHANGED toc_info

Spec == Init /\ [][CreateToc]_vars

Rendered == toc_html # <<>>
Tree == ListTree(toc_html)

TypeOK ==
    /\ toc_info \in Seq(Levels)
    /\ toc_html \in Seq(Token)

(* In the rendered side navigation every h2 and h3 of a document outline   *)
(* hangs under its section: the item of the nearest earlier heading of a   *)
(* lower level (the tags createTableOfContents opens and closes between    *)
(* consecutive headings of levels 1..3).                                   *)
SubheadingsNested ==
    (Rendered /\ WellFormed(toc_info)) =>
        \A i \in DOMAIN toc_info :
            toc_info[i] > 1 => Tree.parent[i] = OutlineParent(toc_info, i)

(* Every h1 of a document outline is an item of the top-level list.        *)
TopLevelAtTop ==
    (Rendered /\ WellFormed(toc_info)) =>
        \A i \in DOMAIN toc_info : toc_info[i] = 1 => Tree.parent[i] = 0

(* The rendered navigation closes every list and item it opens, so the     *)
(* markup the template puts after it is not pulled into the list.          *)
TocClosed ==
    Rendered => Tree.stack = <<>>

=============================================================================
