------------------------------ MODULE TabsPost ------------------------------
(***************************************************************************)
(* TabbedNavPost (mdext/togglable_tabs.py): the postprocessor that turns   *)
(* the tab markup left in the HTML by Markdown into Bootstrap tabs.  A tab *)
(* group is written                                                        *)
(*     {@  {@[K1]} {@$[K2]} ...  @}    the key section (links),            *)
(*     {{@  {{@[K1] ... /@}}  {{@$[K2] ... /@}} ...  @}}  the panes,       *)
(* '$' marking the active tab.  run(text) rewrites the whole document with *)
(* eight regex substitutions in a fixed order; each key declaration of the *)
(* document gets a fresh id from produce_new_id (all plain ones first,     *)
(* then all active ones), and each pane declaration then takes an id back  *)
(* from keys_taken with consume_existing_id (plain ones, then active).    *)
(* keys_taken belongs to the instance, one per Markdown object.            *)
(*                                                                         *)
(* Data abstraction.  The text is the sequence of its markup tokens        *)
(* [kind, key]; the HTML of the tab contents lies between them and is not  *)
(* touched by any of the substitutions.  A key is the sequence of its      *)
(* characters over a small alphabet, so that strip, lower, replace and the *)
(* "_" prefixes of the ids are computed as the code computes them.         *)
(***************************************************************************)
EXTENDS Naturals, Sequences, SequencesExt

CONSTANTS
    Keys,         \* key texts, as character sequences
    PaneLayouts,  \* how a group's panes follow its keys (see GroupsOf)
    MaxGroups,    \* tab groups in the document
    MaxTabs       \* keys per group

VARIABLES
    doc,          \* the tab groups of the document, as written
    keys_taken,   \* TabbedNavPost.keys_taken
    html          \* the token sequence run() returns, <<>> before it runs

vars == <<doc, keys_taken, html>>

Whitespace == {" "}
LowerChar(c) == CASE c = "A" -> "a" [] c = "B" -> "b" [] OTHER -> c

Token == [kind : {"KO", "KD", "AKD", "KC", "PO", "PD", "APD", "PE", "PC",
                  "ul", "li", "ali", "/ul", "div", "pane", "apane", "/div"},
          key : Seq(STRING)]
Tok(k, s) == [kind |-> k, key |-> s]

(* The tokens of the HTML run() returns: every markup token replaced.      *)
HtmlToken == [kind : {"ul", "li", "ali", "/ul", "div", "pane", "apane", "/div"},
              key : Seq(STRING)]

-----------------------------------------------------------------------------
(* str.strip() on a key.                                                   *)
Strip(s) ==
    LET in == {i \in DOMAIN s : s[i] \notin Whitespace}
    IN IF in = {} THEN <<>> ELSE SubSeq(s, Min(in), Max(in))

(* key.strip().replace(" ", "_").lower(), the id a key asks for.           *)
KeyId(key) ==
    LET s == ReplaceAll(Strip(key), " ", "_") IN [i \in DOMAIN s |-> LowerChar(s[i])]

(* x.replace("_", ""): the stub consume_existing_id compares.              *)
Stub(id) == SelectSeq(id, LAMBDA c : c # "_")

Underscores(n) == [i \in 1..n |-> "_"]

(* Mutant: the while loop that prefixes "_" is left out.                   *)
ProduceNewIdNoLoop(reg, key) ==
    [id |-> KeyId(key), reg |-> Append(reg, KeyId(key))]

(* produce_new_id: "_" is prefixed to the key's id until it is not in     *)
(* keys_taken; the id is appended to keys_taken.                          *)
ProduceNewId(reg, key) ==
    LET taken == ToSet(reg)
        n == CHOOSE j \in 0..Len(reg) :
                /\ Underscores(j) \o KeyId(key) \notin taken
                /\ \A m \in 0..j - 1 : Underscores(m) \o KeyId(key) \in taken
        id == Underscores(n) \o KeyId(key)
    IN [id |-> id, reg |-> Append(reg, id)]

(* Mutant: the last id with the key's stub is taken.                       *)
ConsumeExistingIdLast(reg, key) ==
    LET i == SelectLastInSeq(reg, LAMBDA x : Stub(x) = Stub(KeyId(key)))
    IN IF i = 0 THEN [id |-> KeyId(key), reg |-> reg]
       ELSE [id |-> reg[i], reg |-> RemoveAt(reg, i)]

(* consume_existing_id: the first id of keys_taken whose stub is the key's *)
(* is returned and removed; with none, the key's own id is returned.       *)
ConsumeExistingId(reg, key) ==
    LET i == SelectInSeq(reg, LAMBDA x : Stub(x) = Stub(KeyId(key)))
    IN IF i = 0 THEN [id |-> KeyId(key), reg |-> reg]
       ELSE [id |-> reg[i], reg |-> RemoveAt(reg, i)]

(* tabkeydeclrepl / activetabkeydeclrepl: the key is the match with every  *)
(* "{@[" ("{@$[") and "]}" removed, i.e. the text between the brackets.    *)
DeclKey(t) == t.key

(* tabcontentdeclrepl / activetabcontentdeclrepl: the match with "{{@["    *)
(* ("{{@$[") and every "]" removed: a "]" inside the key is dropped too.   *)
PaneKey(t) == SelectSeq(t.key, LAMBDA c : c # "]")

(* One re.sub over the document whose replacement calls produce_new_id:    *)
(* from token i on, the matches of kind k, in document order, become       *)
(* tokens of kind out carrying the id.                                     *)
RECURSIVE SubProduce(_, _, _, _)
SubProduce(st, k, out, i) ==
    IF i > Len(st.text) THEN st
    ELSE IF st.text[i].kind # k THEN SubProduce(st, k, out, i + 1)
    ELSE LET r == ProduceNewId(st.reg, DeclKey(st.text[i]))
         IN SubProduce([text |-> [st.text EXCEPT ![i] = Tok(out, r.id)], reg |-> r.reg],
                       k, out, i + 1)

(* The same for a replacement that calls consume_existing_id.              *)
RECURSIVE SubConsume(_, _, _, _)
SubConsume(st, k, out, i) ==
    IF i > Len(st.text) THEN st
    ELSE IF st.text[i].kind # k THEN SubConsume(st, k, out, i + 1)
    ELSE LET r == ConsumeExistingId(st.reg, PaneKey(st.text[i]))
         IN SubConsume([text |-> [st.text EXCEPT ![i] = Tok(out, r.id)], reg |-> r.reg],
                       k, out, i + 1)

(* A re.sub whose replacement is a constant string.                        *)
SubPlain(text, k, out) ==
    [i \in DOMAIN text |-> IF text[i].kind = k THEN Tok(out, <<>>) ELSE text[i]]

(* Mutant: only "/@}}" is substituted; the group's "@}}" stays.          *)
EndingContentsNoClose(text) == SubPlain(text, "PE", "/div")

(* endingcontentsrepl: "/@}}" and "@}}" both close a div.                   *)
EndingContents(text) ==
    SubPlain(SubPlain(text, "PE", "/div"), "PC", "/div")

(* TabbedNavPost.run: the substitutions in the order the code applies      *)
(* them, from the instance's keys_taken.                                   *)
PostRun(text, reg) ==
    LET s0 == [text |-> SubPlain(SubPlain(text, "KO", "ul"), "PO", "div"), reg |-> reg]
        s1 == SubProduce(SubProduce(s0, "KD", "li", 1), "AKD", "ali", 1)
        s2 == SubConsume(SubConsume(s1, "PD", "pane", 1), "APD", "apane", 1)
    IN [text |-> EndingContents(SubPlain(s2.text, "KC", "/ul")), reg |-> s2.reg]

-----------------------------------------------------------------------------
(* The tab groups a document may hold.  A group lists its keys (distinct    *)
(* or not), the index of the active one, and its panes in the order they   *)
(* are written: "same" as the keys, "reversed", or "missing" the last one  *)
(* (a key declared with no content).                                       *)
Groups ==
    LET Tabs == UNION {[1..n -> Keys] : n \in 1..MaxTabs}
        Pane(g, i) == [key |-> g.tabs[i], active |-> i = g.act]
        Layout(g, l) ==
            CASE l = "same"     -> [i \in DOMAIN g.tabs |-> Pane(g, i)]
              [] l = "reversed" -> Reverse([i \in DOMAIN g.tabs |-> Pane(g, i)])
              [] l = "missing"  -> [i \in 1..Len(g.tabs) - 1 |-> Pane(g, i)]
    IN {[tabs |-> g.tabs, act |-> g.act, panes |-> Layout(g, l)] :
          g \in UNION {{[tabs |-> t, act |-> a] : a \in DOMAIN t} : t \in Tabs},
          l \in PaneLayouts}

Docs == UNION {[1..n -> Groups] : n \in 1..MaxGroups}

(* The markup of a group, each token tagged with the group it belongs to.  *)
GroupMarkup(g, n) ==
    LET T(k, s) == [t |-> Tok(k, s), g |-> n]
    IN  <<T("KO", <<>>)>>
        \o [i \in DOMAIN g.tabs |-> T(IF i = g.act THEN "AKD" ELSE "KD", g.tabs[i])]
        \o <<T("KC", <<>>), T("PO", <<>>)>>
        \o FlattenSeq([j \in DOMAIN g.panes |->
                         <<T(IF g.panes[j].active THEN "APD" ELSE "PD", g.panes[j].key),
                           T("PE", <<>>)>>])
        \o <<T("PC", <<>>)>>

Tagged == FlattenSeq([n \in DOMAIN doc |-> GroupMarkup(doc[n], n)])

(* A group as the docstring asks: distinct keys, one pane per key, and the  *)
(* active pane is the active key's.                                        *)
WellFormedGroup(g) ==
    /\ Len(g.panes) = Len(g.tabs)
    /\ \A i, j \in DOMAIN g.tabs : i # j => g.tabs[i] # g.tabs[j]
    /\ {p.key : p \in ToSet(g.panes)} = ToSet(g.tabs)
    /\ \A p \in ToSet(g.panes) : p.active <=> p.key = g.tabs[g.act]

-----------------------------------------------------------------------------
Init ==
    /\ doc \in Docs
    /\ keys_taken = <<>>
    /\ html = <<>>

(* Markdown calls the postprocessor's run() on the document's HTML.  Every *)
(* substitution maps one token to one, so html[i] is what became of        *)
(* Tagged[i].t.                                                              *)
Run ==
    /\ html = <<>>
    /\ LET r == PostRun([i \in DOMAIN Tagged |-> Tagged[i].t], keys_taken)
       IN html' = r.text /\ keys_taken' = r.reg
    /\ UNCHANGED doc

Spec == Init /\ [][Run]_vars

-----------------------------------------------------------------------------
TypeOK ==
    /\ doc \in Seq(Groups)
    /\ keys_taken \in Seq(Seq(STRING))
    /\ html \in Seq(Token)
    /\ html # <<>> => html \in Seq(HtmlToken)

IsLink(i) == html[i].kind \in {"li", "ali"}
IsPane(i) == html[i].kind \in {"pane", "apane"}

(* Each tab link of a well-formed group opens that group's pane for the    *)
(* same key: the href the key declaration gets from produce_new_id is the  *)
(* id the pane declaration gets back from consume_existing_id, whatever    *)
(* keys and groups the rest of the document holds.                         *)
PanesMatchLinks ==
    html # <<>> =>
        LET tg == Tagged IN
        \A i, j \in DOMAIN html :
            (/\ IsLink(i) /\ IsPane(j)
             /\ tg[i].g = tg[j].g
             /\ WellFormedGroup(doc[tg[i].g])
             /\ tg[i].t.key = tg[j].t.key)
                => html[i].key = html[j].key

(* The ids of a document are unique: no two tab links name the same id and *)
(* no two panes carry the same id, also across groups whose keys collide   *)
(* after strip/lower/" "->"_".                                             *)
IdsDistinct ==
    html # <<>> =>
        \A i, j \in DOMAIN html :
            (i # j /\ ((IsLink(i) /\ IsLink(j)) \/ (IsPane(i) /\ IsPane(j))))
                => html[i].key # html[j].key

=============================================================================
