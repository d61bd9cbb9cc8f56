-------------------------------- MODULE Slate --------------------------------
(***************************************************************************)
(* The Slate plugin (slate/pelican_plugin.py).  After Pelican's pages     *)
(* generator is finalised, SlateGenerator.generate walks the files of      *)
(* SLATE_PAGES_DIR: a file found in the content cache is used as it is;    *)
(* an uncached .sl8/.slate file is read by SlateReader.read, which copies  *)
(* its body to slate/source/index.md, changes the process's working        *)
(* directory to slate/, runs `middleman build`, reads build/index.html and *)
(* changes back.  A read that raises marks the file failed.  Each page is  *)
(* then added to PAGES if published; when some page is, the Slate theme    *)
(* assets are copied from slate/build into output/; the cache is saved.    *)
(*                                                                         *)
(* The working directory is state of the whole process and every path the *)
(* plugin opens is relative to it.  pelican's autoreload mode runs build   *)
(* after build in the same process; the model runs up to MaxBuilds builds, *)
(* each starting after the last one ended or raised.  The content cache    *)
(* is kept in memory during a build and loaded from disk at its start.     *)
(*                                                                         *)
(* A file is its extension, whether its metadata header parses, and its    *)
(* status; whether middleman succeeds (and its output decodes) is chosen   *)
(* at each read.  An extension (the text after the last ".") is a sequence *)
(* of chunks; "slate" and "sl8" are single chunks, so a suffix test on the *)
(* chunks is the code's str.endswith.                                      *)
(***************************************************************************)
EXTENDS Naturals, Sequences, SequencesExt

CONSTANTS
    MaxFiles,    \* files in SLATE_PAGES_DIR
    MaxBuilds    \* builds in one process

VARIABLES
    files,       \* the files of SLATE_PAGES_DIR, in get_files order
    cwd,         \* the process's working directory: "site" or "slate"
    saved,       \* file indices whose page is in the cache file on disk
    cache,       \* file indices whose page is in the generator's cache
    cursor,      \* the next file of the loop
    pages,       \* indices of the pages appended to generator.pages
    failed,      \* indices passed to _add_failed_source_path
    slate_pages, \* the local slate_pages flag
    vendor,      \* whether output/theme/vendor/slate was copied in this build
    result,      \* "running", "done", or the exception generate() raised
    builds       \* builds started

vars == <<files, cwd, saved, cache, cursor, pages, failed, slate_pages, vendor,
          result, builds>>

(* SLATE_EXTENSIONS, the file_extensions of SlateReader.                   *)
SLATE_EXTENSIONS == <<<<"sl8">>, <<"slate">>>>

(* Extensions a file of SLATE_PAGES_DIR may have: Slate's two, Markdown,   *)
(* and one that ends in "slate" without being it (".translate").           *)
Extensions == {<<"sl8">>, <<"slate">>, <<"md">>, <<"tran", "slate">>}

(* The reader_classes keys Pelican dispatches on: every enabled BaseReader *)
(* subclass's file_extensions, then add_reader's 'slate' on readers_init.  *)
ReaderClasses == {SLATE_EXTENSIONS[k] : k \in DOMAIN SLATE_EXTENSIONS} \cup {<<"slate">>}

File == [ext : Extensions, header_ok : BOOLEAN, status : {"published", "draft"}]

(* The should_handle loop: str(f).endswith(suffix) for some suffix.        *)
ShouldHandle(f) ==
    \E k \in DOMAIN SLATE_EXTENSIONS : IsSuffix(SLATE_EXTENSIONS[k], f.ext)
Results == {"running", "done", "TypeError", "OSError"}

-----------------------------------------------------------------------------
(* readers.read_file, then SlateReader.read: the outcome (ok) and the      *)
(* working directory after it.  read_file raises first when no reader is   *)
(* registered for the file's extension.                                    *)
(* The header loop splits each line at ":" (IndexError without one); the   *)
(* body is written to the relative path slate/source/index.md, which only  *)
(* exists from the site directory; middleman runs in slate/, and a failed  *)
(* build, or output that is not UTF-8, raises before os.chdir("../").      *)
SlateRead(f, dir, buildOk) ==
    CASE f.ext \notin ReaderClasses -> [ok |-> FALSE, cwd |-> dir]
      [] ~f.header_ok  -> [ok |-> FALSE, cwd |-> dir]
      [] dir # "site"  -> [ok |-> FALSE, cwd |-> dir]
      [] ~buildOk      -> [ok |-> FALSE, cwd |-> "slate"]
      [] OTHER         -> [ok |-> TRUE,  cwd |-> "site"]

(* The vendor copy at the end of generate(): copytree from the relative    *)
(* path slate/build/theme/vendor/slate, which is missing unless the        *)
(* working directory is the site's.                                        *)
CopyVendor(dir) == dir = "site"

-----------------------------------------------------------------------------
Init ==
    /\ files \in UNION {[1..n -> File] : n \in 1..MaxFiles}
    /\ cwd = "site"
    /\ saved = {}
    /\ cache = {}
    /\ cursor = 1
    /\ pages = <<>>
    /\ failed = {}
    /\ slate_pages = FALSE
    /\ vendor = FALSE
    /\ result = "running"
    /\ builds = 1

(* The end of one iteration: the page of file i is added; a published page *)
(* is appended to pages, any other status reaches the warning whose        *)
(* "..." + " skipping it." % (...) formats a string with no %s and raises  *)
(* TypeError out of generate().                                            *)
ListPage(i) ==
    IF files[i].status = "published"
    THEN /\ pages' = Append(pages, i)
         /\ slate_pages' = TRUE
         /\ UNCHANGED result
    ELSE /\ result' = "TypeError"
         /\ UNCHANGED <<pages, slate_pages>>

(* Mutant: the loop steps over a file.                                    *)
NextFileSkip(i) == i + 2

(* The for loop over get_files(): the next file.                           *)
NextFile(i) == i + 1

(* Mutant: a read that raised is not recorded as failed.                   *)
RecordFailureDropped(i) == UNCHANGED failed

(* The except clause: _add_failed_source_path(f), then continue.           *)
RecordFailure(i) == failed' = failed \cup {i}

(* One iteration of the loop over get_files(SLATE_PAGES_DIR).              *)
GenerateFile ==
    /\ result = "running"
    /\ cursor <= Len(files)
    /\ cursor' = NextFile(cursor)
    /\ UNCHANGED <<files, saved, vendor, builds>>
    /\ LET i == cursor IN
       \/ /\ i \in cache
          /\ ListPage(i)
          /\ UNCHANGED <<cwd, cache, failed>>
       \/ /\ i \notin cache
          /\ ~ShouldHandle(files[i])
          /\ UNCHANGED <<cwd, cache, failed, pages, slate_pages, result>>
       \/ /\ i \notin cache
          /\ ShouldHandle(files[i])
          /\ \E buildOk \in BOOLEAN :
               LET r == SlateRead(files[i], cwd, buildOk) IN
               /\ cwd' = r.cwd
               /\ IF r.ok
                  THEN /\ cache' = cache \cup {i}
                       /\ ListPage(i)
                       /\ UNCHANGED failed
                  ELSE /\ RecordFailure(i)
                       /\ UNCHANGED <<cache, pages, slate_pages, result>>

(* After the loop: the vendor assets are copied when a page was published  *)
(* (copytree raising OSError from the wrong directory), then PAGES is set  *)
(* and the cache is saved.                                                 *)
GenerateFinish ==
    /\ result = "running"
    /\ cursor > Len(files)
    /\ UNCHANGED <<files, cwd, cache, cursor, pages, failed, slate_pages, builds>>
    /\ IF slate_pages /\ ~CopyVendor(cwd)
       THEN result' = "OSError" /\ UNCHANGED <<vendor, saved>>
       ELSE /\ vendor' = slate_pages
            /\ result' = "done"
            /\ saved' = cache

(* The next autoreload build, in the same process: same working directory, *)
(* cache loaded from disk.                                                 *)
Rebuild ==
    /\ result # "running"
    /\ builds < MaxBuilds
    /\ builds' = builds + 1
    /\ cache' = saved
    /\ cursor' = 1
    /\ pages' = <<>>
    /\ failed' = {}
    /\ slate_pages' = FALSE
    /\ vendor' = FALSE
    /\ result' = "running"
    /\ UNCHANGED <<files, cwd, saved>>

Next == GenerateFile \/ GenerateFinish \/ Rebuild

Spec == Init /\ [][Next]_vars

-----------------------------------------------------------------------------
TypeOK ==
    /\ files \in UNION {[1..n -> File] : n \in 1..MaxFiles}
    /\ cwd \in {"site", "slate"}
    /\ saved \subseteq DOMAIN files /\ cache \subseteq DOMAIN files
    /\ cursor \in 1..Len(files) + 1
    /\ pages \in Seq(DOMAIN files)
    /\ failed \subseteq DOMAIN files
    /\ slate_pages \in BOOLEAN /\ vendor \in BOOLEAN
    /\ result \in Results
    /\ builds \in 1..MaxBuilds

(* A build that completes drops no published page silently: each file that *)
(* is published and either cached or handled is listed in PAGES or        *)
(* recorded as failed, so Pelican reports it.                              *)
PagesAccounted ==
    result = "done" =>
        \A i \in DOMAIN files :
            (files[i].status = "published" /\ (ShouldHandle(files[i]) \/ i \in cache))
                => (\E k \in DOMAIN pages : pages[k] = i) \/ i \in failed

(* SlateReader.read leaves the working directory where it found it, also   *)
(* when middleman fails: every later relative path (the next page's        *)
(* slate/source/index.md, the vendor copy, the next build) depends on it.  *)
CwdRestored ==
    cwd = "site"

(* A page whose status is not "published" is skipped with a warning        *)
(* ("Unknown status ... skipping it."), never ending generate() early.     *)
UnknownStatusSkipped ==
    result # "TypeError"

=============================================================================
