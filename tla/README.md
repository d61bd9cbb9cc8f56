# TLA+ models of the Peergos/Buddycloud site toolchain

This directory holds TLA+ models of the code under `src/`, the TLC configurations
that check them, and `PROJECT.json`. `PROJECT.json` lists the components, the runs,
the mutants, the map from definitions to source lines, the findings and the hazards.
Run a model from this directory with `tlc -workers 2 -config <cfg> <module>`.

## 1. Inventory

The repository is a static-site toolchain plus a small web service. Its parts:

| Component | Source | State it keeps | Operations |
|---|---|---|---|
| TOC anchor registry | `jinjaext/table_of_contents.py` | `TableOfContents.hooks_taken`, a class-level list for the whole process | `parse_hook_from_text`, `produce_new_hook`, `consume_existing_hook`, filters `extract_toc_info` and `add_toc_hooks` |
| TOC renderer | same file | none (pure) | filter `create_toc` (`createTableOfContents`) |
| Site configuration | `pelicanconf.py` | settings | registers the three filters for the theme templates; lists the Markdown extensions (`MD_EXTENSIONS`) |
| Tab preprocessor | `mdext/togglable_tabs.py` `TabbedNavPre` | the line list, `inside_block`, `tabbed_block` during one run | `run(lines)` |
| Tab block processor | `TabbedNavBlockProcessor` | none | `test`, `run` |
| Tab postprocessor | `TabbedNavPost` | `keys_taken`, a list that lives as long as the instance | `produce_new_id`, `consume_existing_id`, five ordered regex substitutions in `run` |
| Sequence-diagram block processor | `mdext/sequence_diagrams.py` | none | `test` (six regexes), `run` (wrap) |
| Code-block fixup | `mdext/fix_code_blocks.py` | none | two string replacements |
| Signup service | `signup/server.py`, `signup/signup.py` | the `user` table; the secret key; links in mailboxes | routes `signup`, `activate_user`; `UserRepository.put`, `contains` |
| Slate plugin | `slate/pelican_plugin.py` | the process working directory, Pelican's content cache, `slate/source/index.md`, `slate/build`, `output/theme/vendor/slate` | `add_reader`, `SlateReader.read`, `SlateGenerator.generate` |

How the parts interact:
- **TOC filters.** A theme template calls `extract_toc_info` on a page's HTML. It passes
  the result to `create_toc` (the side navigation) and to `add_toc_hooks` (the heading
  ids). Both walks go through the one process-wide `hooks_taken`. The first walk
  appends hooks; the second takes them back in the same order. This only matches
  ids to links when nothing stale is left in the list.
- **Markdown pipeline.** The tab preprocessor runs on lines, then the block processors
  isolate the custom markup, then the postprocessors (tabs, code fixup) run on the
  HTML text. The tab postprocessor pairs link ids and pane ids through `keys_taken`.
- **Signup service.** It runs on a threaded Flask server. `signup` reads the table and
  mails a signed link; `activate_user` inserts a row. The only link between the two
  routes is the signed payload.
- **Tab extension.** `pelicanconf.py` lists only `mdext.fix_code_blocks` in
  `MD_EXTENSIONS`, so this configuration does not load the tab and sequence-diagram
  extensions; the models describe them as `extendMarkdown` wires them, for any site that does.
- **Slate plugin.** It hooks `page_generator_finalized`, shells out to `middleman`
  after a `chdir`, and copies Slate's assets into the output.

Hard behaviours:
- process-wide registries that are never reset, across pages and across autoreload
  builds;
- an exception in the middle of a two-pass protocol;
- the order-dependent matching of hooks and tab ids;
- the `(last_tag, tag)` state machine of the TOC renderer;
- check-then-act across two request threads, and replayed or forged links;
- a working directory, which is process-global, changed and not restored on an
  error path.

What makes each part correct:
- **Anchors:** every TOC link resolves to its own heading, and the registry is
  empty between pages.
- **Renderer:** the rendered list nests like the outline and is closed.
- **Tabs:** each pane gets the id of its link, and no text is lost by the
  preprocessor.
- **Signup:** only mailed links register, and an address is registered once.
- **Slate:** a failed page does not affect other pages or builds, and no page is
  dropped silently.

## 2. Modules

### TocHooks (`TocHooks.tla`, instance `MC_TocHooks.tla`)

State:
- `hooks_taken`: the class attribute;
- `phase`, `page`, `toc_info`, `attached`: one page render;
- `renders`: the number of pages rendered.

Actions:
- `ExtractTocInfo(p)`: the whole `extractTableOfContentsInfo` call, including a
  parse error (returns None) and an exception in the walk;
- `AddTocHooks`: the whole `addTableOfContentsHooks` call.

Data abstractions:
- **Headings.** A heading is a text (a model value, or `NoText` for
  `element.text is None`) and a hidden flag. Pages list only h1..h3 headings in
  document order, because both walks skip other elements alike.
- **Slugs.** `parse_hook_from_text` is the many-to-one table `SlugOf`. In the
  instance, two of the three texts share the slug `intro`.
- **Hooks.** A hook string `base_` or `base_N` is the record `[base, n]`. The last
  `_` of such a string is always just before the suffix, so the record is
  one-to-one with the string, and the code's stub `x[:x.rfind("_")]` is the
  record's `base`.

The model renders pages one after the other in one process. That is what a build
does, and what `pelican -r` does across rebuilds. `pelican -r` catches an
exception from a render and carries on.

### TocRender (`TocRender.tla`)

`CreateTableOfContents(levels)` is a token sequence: `ul`, `/ul`, `li i`, `/li`,
`a i`. `Transition(last, cur, i)` is the if/elif chain of the loop.

The reference `ListTree` is the HTML tree-construction rules for `ul`/`li`:
- `<li>` closes an open `li` on top;
- `</li>` is ignored when a `ul` is on top;
- `</ul>` pops to the innermost `ul`.

`ListTree` gives each heading its parent item. `OutlineParent` is the parent the
outline asks for. The model has one action, `CreateToc` (the filter call), and the
initial states hold every level sequence up to `MaxHeadings`.

### Signup (`Signup.tla`, instance `MC_Signup.tla`)

State:
- `users`: the table, as a sequence of rows;
- `mailbox`: the signed links mailed so far;
- `pc[t]` and `req[t]`: the state of each server thread.

`signup` is split at the point where it has read the table and has not mailed yet:
- `SignupCheck`: the validity and `contains` checks;
- `SignupSend`: builds the link and mails it through `SendVerification`, whose
  `mail.send` either delivers it or raises.

`ActivateUser(t, p)` is the whole activation route. Its input `p` is a mailed link
or an unsigned payload. The signature check `Loads` accepts exactly the signed
payloads. The error paths of `signup` only produce a response, so they are stutter
steps.

### TocAnchors (`TocAnchors.tla`)

The abstract specification of the two TOC filters: the anchors of a page are a
function of the page alone, as a fresh allocator per page would issue them
(`PageAnchor`: the k-th visible heading of a slug gets `base_` for k = 1 and
`base_k` after). Its variables are TocHooks' variables without `hooks_taken`.
TocHooks instantiates it with the identity mapping on the shared variables and
checks `TocAnchorsSpec == Anchors!Spec`, with `hooks_taken` hidden.

### Slate (`Slate.tla`)

State:
- `cwd`: the process working directory;
- `cache`: Pelican's in-memory content cache; `saved`: the cache on disk;
- `cursor`: the position in the file loop;
- `pages`, `failed`, `slate_pages`, `vendor`: what the current build produced;
- `result`: running, done, or the exception `generate()` raised;
- `builds`: the number of builds started.

A file is its extension, whether its header parses, and its status. Each read
chooses whether middleman succeeds. The extensions are `sl8`, `slate`, `md` and
`translate`, the last ending in `slate` without being it. `ShouldHandle` is the
code's `endswith` loop over `SLATE_EXTENSIONS`. `ReaderClasses` is the set of
extensions Pelican has a reader for: the `file_extensions` of `SlateReader`, plus
the `slate` key that `add_reader` adds on `readers_init`. `SlateRead` fails first
when the extension has no reader, as `read_file` does.

Actions:
- `GenerateFile`: one iteration of the loop, with `SlateRead` as the whole
  `SlateReader.read` call;
- `GenerateFinish`: the vendor copy, the context update and `save_cache`;
- `Rebuild`: the next autoreload build. `cwd` and the saved cache carry over.

### TabsPost (`TabsPost.tla`, instance `MC_TabsPost.tla`)

`TabbedNavPost.run` on the HTML abstracted to its markup tokens `[kind, key]`. The
tab contents between them are untouched by every substitution. A key is a sequence
of characters, so `strip`, `replace(" ", "_")`, `lower` and the `_` stubs are
computed as the code computes them.
- `ProduceNewId`, `ConsumeExistingId`: the two registry methods on `keys_taken`.
- `DeclKey`, `PaneKey`: the key each replacement extracts; the pane's drops every `]`.
- `SubProduce`, `SubConsume`, `SubPlain`, `EndingContents`: one `re.sub` each.
- `PostRun`: the substitutions in the code's order. `Run` is the one action.

The initial states are all documents of up to `MaxGroups` groups. A group has its
keys, its active key, and its panes in the same order, reversed, or with the last
one missing. `tabs_post` uses the first layout; the others belong to the defect
cfgs. `Tagged` remembers each token's group, so properties can relate a link
and a pane of one group.

### TabsPre (`TabsPre.tla`, instance `MC_TabsPre.tla`)

`TabbedNavPre.run` and `TabbedNavBlockProcessor.test`. A line is a sequence of
symbols: `S` `<tabber>`, `E` `</tabber>`, `B` `|-|`, `Q` `=`, a space, `NL`, and
words. The markup lines are sequences that start with a marker (`KO` is `{@`,
`AKD` key `]}` is `{@$[key]}`, and so on).
- `CollectBlocks`: the first while loop, including the two line splits and the
  `inside_block` flag.
- `Segment`, `Expand`: the second loop, parsing `KEY=VALUE` segments and writing
  the two sections.
- `AddBlanks`: the third pass. `PreRun` composes the three passes.
- `BlockTest`: the block processor's test.

The initial states are documents of text lines and tab groups, written as the
wikitext export writes them, with the `<tabber>` and `</tabber>` layouts of each
cfg. Two references judge the output. `Read` reads the markup back into text
items and groups. `BlocksOf` splits the output into Markdown blocks at blank lines.

### TabsPipeline (`TabsPipeline.tla`, instance `MC_TabsPipeline.tla`)

The composition the extension wires up: `Preprocess` is TabsPre's `Run`, and
`Postprocess` feeds the markup lines of its output to TabsPost's `PostRun`. Both
modules are instantiated with `INSTANCE ... WITH` on the pipeline's variables.
`MarkupTokens` stands for the block processor's `run`, which keeps a claimed
block verbatim, and for the postprocessor's regexes, whose `.` stops at a newline.
Markdown's conversion of the tab contents is left out; `MarkupIsolated` in TabsPre
is what keeps the markup out of it. The pipeline instantiates TabsPre with
`EqChoices <- {TRUE}` and `RepeatKeys <- FALSE`, the wikitext the defects below
leave out. It re-exports TabsPre's `PreFaithful` and `MarkupIsolated`, so the one
run checks both stages.

### MdBlocks (`MdBlocks.tla`, instance `MC_MdBlocks.tla`)

Markdown's block stage with `SequenceDiagBlockProcessor`, followed by
`FixCodeBlocksPost` on the page's HTML. A document is a sequence of blocks. Each
block is diagram, prose or indented-code lines, or a raw HTML block given as its
tags. A line is a sequence of chunks: the words the regexes spell (`title`,
`participant`, `note`, `left`, `right`, `of`, `over`), the characters `:`, `-`,
`>` and space, and `x` for any other character. No regex literal spans two
chunks, so a search over chunks finds what a search over characters finds.
- `MatchAt`, `Search`: `re.search` for patterns of literals, ` *` and DOTALL `.*`.
- `SeqPatterns`, `SeqTest`: the six regexes of `__init__` and `test`.
- `ParseBlock`: raw blocks come back from the stash. The diagram processor is
  asked first (`_begin`), then the indented-code and paragraph processors.
- `Serialize`: the HTML of each element. Code is highlighted by codehilite, with
  Pygments (`<div><pre>`) or without it (`<pre class><code class>`).
- `FixCodeBlocks`: the two `replace` calls. `Postprocess` applies them to the
  whole page.
- `Nests`: a stack check on the resulting tags. `extract_toc_info` parses this
  HTML later.

The constant `Extensions` is the set of loaded extensions. The diagram processor,
codehilite and the fixup take part only when their extension is in it. Without
codehilite, Markdown's own code processor writes `<pre><code>`. `MD_EXTENSIONS` is
the site's list: codehilite, extra and `fix_code_blocks`, with no diagram
extension. The `md_blocks` cfgs load `MD_EXTENSIONS` plus `sequence_diagrams`,
the setup of a site that adds the diagram extension to this configuration.

## 3. Runs

| Run | Expect | Checks | Shows |
|---|---|---|---|
| `toc_hooks` | pass | `TypeOK`, `HooksMatchToc`, `RegistryDrained`, `TocAnchorsSpec` | When every heading starts with text, page after page, the id given to each heading is the hook its TOC link names, even with duplicate and slug-colliding texts and hidden headings. The registry drains, and the filters refine the per-page allocator TocAnchors. |
| `toc_hooks_stale` | violation | `HooksMatchToc` | A None-text heading aborts a render with `intro_` left behind. The next page's "Intro" is linked as `#intro_2` but gets id `intro_`. |
| `toc_render` | pass | `TypeOK`, `SubheadingsNested` | For all 363 level sequences of up to 5 headings, every h2/h3 of a well-formed outline is nested under its section. |
| `signup` | pass | `TypeOK`, `RowsFromMailedLinks` | With 2 threads, replays and forged payloads, every row comes from a mailed signed link. |
| `signup_duplicate` | violation | `UniqueAddress` | A link opened twice, or two signups racing past `contains`, registers an address twice. |
| `slate` | pass | `TypeOK`, `PagesAccounted` | Every published page of a completed build is listed or reported failed, over 2 builds. |
| `slate_cwd` | violation | `CwdRestored` | A failed middleman build leaves the process in `slate/`. |
| `tabs_post` | pass | `TypeOK`, `PanesMatchLinks`, `IdsDistinct` | Every markup token is replaced. Each link of a well-formed group whose panes follow its keys opens its own pane, and ids are unique. Groups of 3 keys collide after normalisation and in their stubs. |
| `tabs_post_dangling` | violation | `PanesMatchLinks` | A key with no pane leaves its id in `keys_taken`. A later group's link for that key gets `_a`, while its pane takes the stale `a`. |
| `tabs_pre_indented` | violation | `PreFaithful` | An indented `</tabber>` never closes its block, so the group and the rest of the document are dropped. |
| `tabs_pipeline` | pass | `TypeOK`, `PreFaithful`, `MarkupIsolated`, `TabsLinked` | The preprocessor loses or moves no text, writes each group's keys and values as the wikitext says, and leaves every markup block for the block processor to claim. From wikitext to HTML, every tab link then opens the pane of its key in its group. |
| `md_blocks` | pass | `DiagramsClaimed`, `CodeMarkupNests` | With the site's extensions plus the diagram extension, every block of signals, titles and participants becomes a diagram with its text verbatim. With Pygments, the code fixup leaves the page's tags nested. |

Each property of a passing run has a mutant in `PROJECT.json`. A mutant is a
plausible defect of a mapped definition, and TLC must find the property violated
under it. The mutants:
- the suffix search starting at 0;
- consuming the last match;
- not removing the consumed hook;
- a wrong loop index;
- a missing `</ul>`;
- swapped columns;
- an unchecked signature;
- a skipped file;
- an unrecorded failure;
- no `_` prefix loop in `produce_new_id`;
- `consume_existing_id` taking the last match;
- `@}}` left unsubstituted;
- the value taken from the `=` on;
- no blank line after `@}}`;
- the signal regex `actre` left out of `test` (`DiagramsClaimed`);
- only `<pre>` rewritten, not `</pre>` (`CodeMarkupNests`).

### Further defects

TLC finds these violated too. Their cfgs are kept in this directory, outside the
run list:
- `TocRenderH1AfterH3.cfg` (`TopLevelAtTop`): for h1,h2,h3,h1 the second h1 lands
  inside the h3 sublist;
- `TocRenderUnclosed.cfg` (`TocClosed`): for h1,h2 the outer list and item are left
  open;
- `SlateDraft.cfg` (`UnknownStatusSkipped`): a page that is not published raises
  TypeError out of `generate()` (a `%` with no `%s`);
- `TabsPostReordered.cfg` (`PanesMatchLinks`): in a group `[a, A, ab*]` whose
  panes are written ab, A, a, the plain links get `a` and `_a` in key order. The
  plain panes are then consumed in pane order, so pane `A` takes `a` and pane `a`
  takes `_a`, and each link opens the other's pane. The docstring does not ask for
  panes in key order;
- `TabsPostBracket.cfg` (`PanesMatchLinks`): a key containing `]` keeps it in the
  link id and loses it in the pane id;
- `TabsPreRepeatedKey.cfg` (`PreFaithful`): a key repeated in one `<tabber>` gets
  two panes with the last value, and the first value is lost;
- `TabsPreNoEq.cfg` (`MarkupIsolated`): a segment without `=` makes a key that spans
  lines (`find` returns -1), so the markup leaks into Markdown's paragraphs;
- `MdBlocksNotes.cfg` (`DiagramsClaimed`): `note over x: x` is not claimed, because
  the note regexes want `:` right after `over`, `left of` or `right of`;
- `MdBlocksSwallowed.cfg` (`NonDiagramsUntouched`): a paragraph with
  `participant`, or code with `->` and a later `:`, is claimed as a diagram;
- `MdBlocksRawPreCode.cfg` (`OneCodePerPre`): a raw `<pre><code>` block gets a
  second `<code>`;
- `MdBlocksNoPygments.cfg` (`CodeMarkupNests`): without Pygments, codehilite's
  `<pre class><code class>` gets an extra `</code>` and the tags no longer nest.

`TabsPre.cfg` checks TabsPre alone, with its own bounds. The `tabs_pipeline` run
now checks the same properties, so this cfg is no longer in the run list.

### Bounds

| Run | Bounds | Why they are enough |
|---|---|---|
| `toc_hooks` | 3 texts (2 sharing a slug), up to 3 headings per page, 3 renders | Enough for a duplicate on one page, a slug collision, a hidden heading, a page that does not parse, and a page after an aborted one. |
| `toc_render` | 5 headings | Every `(last, cur)` transition and the h1-after-h3 case appear within 4 headings. |
| `signup` | 2 threads, 2 usernames, 2 valid addresses and 1 invalid, 3 rows | Enough for a race on one address and for replays. |
| `slate` | 3 files of 4 extensions, 2 builds | Enough for a failure followed by a later file, a cached page in the second build, and a `.translate` or `.md` file among Slate files. |
| `tabs_post` | 4 keys (`a`, `A`, `a b`, `ab`), up to 2 groups of up to 3 keys, panes in key order | The keys collide after `lower` and in their underscore-free stubs (`a b` and `ab`), within a group and across groups. Three keys give a group two plain keys, so the plain passes meet a collision inside one group. A fifth key (`a_b`) takes the run past 5 minutes. Panes out of key order violate `PanesMatchLinks` (see Further defects). |
| `tabs_pipeline` | 3 keys (`a`, `A`, `a b`), 2 values, 1 text word, up to 2 items of up to 2 segments, 3 start and 2 end layouts | Covers a group after text, two groups in a row, a mid-line `<tabber>` and `</tabber>`, and a second `|-|` segment. Keys collide after `lower` and after `" "->"_"`, across groups, through both stages. A fourth key takes the run past 5 minutes. |
| `md_blocks` | up to 3 blocks of up to 2 lines, 4 diagram lines, 2 prose lines, 3 code lines, 2 raw blocks | Covers a signal with `-->>`, title and participant lines, code with `->` or `:`, and a raw `<pre>` between highlighted code and a diagram, since the fixup rewrites the whole page. Three lines per block need about 2.7 million initial states, which TLC cannot fingerprint in this setup. |

Symmetry is used for the Signup threads and usernames only. Addresses are not
interchangeable, because one of them is invalid.

### Fairness

No run checks liveness. Every loop of the code runs over a finite list, so
termination would hold by the shape of the model, whatever the code did. The
one real way not to terminate is a `middleman` that never exits. `communicate()`
has no timeout, so the build would hang. That hazard is listed with no property,
because middleman is an external process. Nothing else in the code retries or
progresses in the background: every step is driven by a template render, an
HTTP request or a build. Runs whose system really stops say `CHECK_DEADLOCK FALSE`:
- `toc_hooks`: the build ends after its renders;
- `toc_render`: one filter call;
- `slate`: the last build;
- the tab runs and `md_blocks`: one conversion each.

## 4. Not modelled, and why

- **Theme templates.** They are not in the repository. TocHooks assumes the
  template calls `add_toc_hooks` after `extract_toc_info` on the same content. For
  that reason the `ValueError` of `consume_existing_hook` cannot be reached. With
  that pairing, each slug is consumed as often as it was produced.
- **Text conversions.** Slug derivation, HTML serialisation and the Jinja/Markdown
  frameworks are reduced to what the properties distinguish.
- **`main()` and response bodies.** The Signup model leaves out `main()`
  configuration and the JSON/redirect response bodies. `abort` is not imported,
  so the 401/404 paths end in a 500 with no state change.
- **Markdown core and codehilite.** MdBlocks keeps only what reaches the diagram
  test and the code fixup. That is the block split, the processors' order, the
  raw-HTML stash and the tags codehilite emits. Inline Markdown, `extra` and
  Pygments' token markup are external.
- **Load order of the `_begin` processors.** Neither the tab nor the diagram
  extension is in `MD_EXTENSIONS`, so the order that decides which test runs first
  is not given. MdBlocks and TabsPipeline are not composed.
- **Settings.** `pelicanconf.py` is constants. The filter wiring (TocHooks) and
  `MD_EXTENSIONS` (MdBlocks) are modelled. `SLATE_PAGES_DIR`, `PAGE_EXCLUDES` and
  `PLUGINS` are assumptions of Slate: its files are those of the Slate directory,
  and no other generator reads them. The rest is names, paths and an analytics
  id, which no property can tell apart.
- **Imports, docstrings and `__main__` blocks.** They hold the unmapped lines of
  the Python files. `signup.py`'s `__main__` is a manual smoke test, and
  `server.py`'s only starts the app.
- **Tab contents.** Markdown's conversion of the text inside panes is external. The
  tag regexes' tolerance of spaces (`< /tabber >`) and `|-|` inside values are not
  enumerated.

## 5. Plan

Done:
1. TocHooks, TocRender, Signup, Slate (first sitting);
2. TabsPost, TabsPre and the block processor's test, and the TabsPipeline
   composition;
3. the abstract anchor allocator TocAnchors, with TocHooks checked to refine it;
4. (liveness of Slate's `generate()`, later dropped because it held by the
   model's shape);
5. MdBlocks (sequence diagrams and code fixup); TabsPre's properties checked in
   the larger pipeline; Slate's reader registration and suffix test;
6. the site's `MD_EXTENSIONS` in MdBlocks, and pages of three blocks in
   `md_blocks`.

Next:
7. **Refinement for tabs.** An abstract per-document id allocator for TabsPost,
   in the style of TocAnchors. It would hold only on groups whose panes follow their keys.
8. **Larger instances.** Three groups in `tabs_post` (more than 300,000 initial states; not done within 10 minutes), and
   `MaxSegs = 3` in the pipeline.
9. **Signup fault model.** A crash between `contains` and the mail, and links
   that expire (`itsdangerous` has no expiry here), if the service grows them.
