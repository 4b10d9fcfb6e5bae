-------------------------------- MODULE Build --------------------------------
(***************************************************************************)
(* make in the root of the repository: it generates the website, then the  *)
(* books as pdf and as epub, one per language.  A step is a command, or    *)
(* the commands of one recipe.  A command may fail, and the build may be   *)
(* interrupted anywhere; the next build, or make clean, finds what was     *)
(* left.  The source changes from build to build.                          *)
(***************************************************************************)
EXTENDS Integers, Sequences

CONSTANTS
    Langs,      \* the sequence LANGS
    SiteLangs,  \* the languages that website/filter.py knows
    MaxBuilds   \* bound

VARIABLES
    build,     \* the number of the build, and the version of the source
    at,        \* what runs next
    target,    \* the target that is made: "pdf" or "epub"
    k,         \* which of Langs the loop has reached
    cwd,       \* where the shell of the loop is: "root" or a language
    status,    \* whether the last command of the loop was successful
    chapters,  \* website/src: the languages whose chapters are there
    site,      \* website/public: the version of the website, 0 if there is none
    public,    \* public[t][l]: the version of the book there, 0 if there is none
    made,      \* made[t][l]: the same in the directory of the book
    meta,      \* meta[l]: blocks of metadata in meta.markdown of the epub
    result,    \* of the last build: "none", "success" or "failure"
    skipped,   \* the books whose cd failed in the last build though it was in the root
    unmoved    \* those whose mv failed though there was a book

files == <<chapters, site, public, made, meta>>
loop == <<target, k, cwd, status>>
lost == <<skipped, unmoved>>
vars == <<build, at, loop, files, result, lost>>

Targets == {"pdf", "epub"}

LangSet == {Langs[i] : i \in DOMAIN Langs}

Lang == Langs[k]

Nothing == [t \in Targets |-> [l \in LangSet |-> 0]]

Init ==
    /\ build = 0 /\ at = "idle" /\ result = "none"
    /\ target = "pdf" /\ k = 1 /\ cwd = "root" /\ status = TRUE
    /\ chapters = {} /\ site = 0
    /\ public = Nothing /\ made = Nothing
    /\ meta = [l \in LangSet |-> 0]
    /\ skipped = {} /\ unmoved = {}

------------------------------------------------------------------------------
Idle == at = "idle"

\* make, after an edit of the source.
Make ==
    /\ Idle /\ build < MaxBuilds
    /\ build' = build + 1
    /\ at' = "site clean" /\ target' = "pdf" /\ result' = "none"
    /\ skipped' = {} /\ unmoved' = {}
    /\ UNCHANGED <<k, cwd, status, files>>

\* The build ends, with an error or not.
End(how) == at' = "idle" /\ result' = how

Interrupt ==
    /\ ~Idle
    /\ End("failure")
    /\ UNCHANGED <<build, loop, files, lost>>

\* make clean: it does not look into epub.
Clean ==
    /\ Idle
    /\ chapters' = {} /\ site' = 0 /\ public' = Nothing
    /\ result' = "none"
    /\ UNCHANGED <<build, at, loop, made, meta, lost>>

------------------------------------------------------------------------------
(* The website.  make stops at the first command that fails; filter.py may *)
(* have written some of the chapters by then.                              *)

SiteClean ==
    /\ at = "site clean"
    /\ chapters' = {} /\ site' = 0 /\ public' = Nothing
    /\ at' = "site install"
    /\ UNCHANGED <<build, loop, made, meta, result, lost>>

SiteCommand(here, next) ==
    /\ at = here
    /\ at' = next
    /\ UNCHANGED <<build, loop, chapters, public, made, meta, result, lost>>

\* install.js: the dependencies are there, or npm installs them.
SiteInstall == SiteCommand("site install", "site filter") /\ UNCHANGED site

\* filter.py: makedirs() fails where a directory is left.
SiteFilter ==
    /\ at = "site filter"
    /\ chapters = {}
    /\ chapters' = SiteLangs
    /\ at' = "site generate"
    /\ UNCHANGED <<build, loop, site, public, made, meta, result, lost>>

SiteGenerate == SiteCommand("site generate", "books") /\ site' = build

SiteFails ==
    /\ at \in {"site install", "site filter", "site generate"}
    /\ End("failure")
    /\ \/ UNCHANGED chapters
       \/ at = "site filter" /\ chapters' = SiteLangs
    /\ UNCHANGED <<build, loop, site, public, made, meta, lost>>

------------------------------------------------------------------------------
(* The books.  The commands of the loop are one shell line.                *)

\* The recipe of pdf, then that of epub: mkdir, and the loop begins.
Books ==
    /\ at = "books"
    /\ at' = "cd" /\ k' = 1 /\ cwd' = "root" /\ status' = TRUE
    /\ UNCHANGED <<build, target, files, result, lost>>

Book == <<target, Lang>>

\* The commands of the list "cd && make && make clean && cd": if one fails, the
\* rest of the list is skipped.
Enter ==
    /\ at = "cd" /\ cwd = "root"
    /\ at' = "revision" /\ cwd' = Lang
    /\ UNCHANGED <<build, target, k, status, files, result, lost>>

\* Outside of the root there is no such directory.
EnterFails ==
    /\ at = "cd"
    /\ at' = "mv"
    /\ skipped' = IF cwd = "root" THEN skipped \cup {Book} ELSE skipped
    /\ UNCHANGED <<build, loop, files, result, unmoved>>

Command(here, next) ==
    /\ at = here /\ at' = next
    /\ UNCHANGED <<build, target, k, status, chapters, site, public, result, lost>>

Metadata(n) == [meta EXCEPT ![Lang] = IF target = "epub" THEN n ELSE @]

\* revision: the pdf has its file written, the epub appended to.
Written == Metadata(meta[Lang] + 1)

Revision ==
    /\ Command("revision", "book")
    /\ meta' = Written
    /\ UNCHANGED <<cwd, made>>

Compiled == [made EXCEPT ![target][Lang] = build]

\* Copies the chapters, joins them and calls pandoc.  Then the sources are
\* removed; if something fails they stay.
Compile ==
    /\ Command("book", "book clean")
    /\ made' = Compiled /\ meta' = Metadata(0)
    /\ UNCHANGED cwd

CleanBook ==
    /\ Command("book clean", "cd back")
    /\ meta' = Metadata(0)
    /\ UNCHANGED <<cwd, made>>

Back ==
    /\ Command("cd back", "mv")
    /\ cwd' = "root"
    /\ UNCHANGED <<made, meta>>

\* Each of these may fail, having done what it does or not.
FailsIn(dir) ==
    /\ at \in {"revision", "book", "book clean", "cd back"}
    /\ Command(at, "mv")
    /\ made' \in IF at = "book" THEN {made, Compiled} ELSE {made}
    /\ meta' \in CASE at = "revision" -> {meta, Written}
                    [] at = "cd back"  -> {meta}
                    [] OTHER           -> {meta, Metadata(0)}
    /\ cwd' = dir

\* Fault: the loop goes back to the root after a failure too.
CommandFails_InSubshell == FailsIn("root")

CommandFails == FailsIn(cwd)

\* What mv finds.
Movable == cwd = "root" /\ made[target][Lang] # 0

MvThen(rest) ==
    /\ at = "mv" /\ at' = "next"
    /\ Movable
    /\ status' = TRUE
    /\ public' = [public EXCEPT ![target][Lang] = made[target][Lang]]
    /\ made' = [made EXCEPT ![target][Lang] = rest]
    /\ UNCHANGED <<build, target, k, cwd, chapters, site, meta, result, lost>>

\* Fault: cp in place of mv.
Mv_Copies == MvThen(made[target][Lang])

Mv == MvThen(0)

\* mv fails, for want of a book or otherwise; ";" and "do" go on.
MvFails ==
    /\ at = "mv" /\ at' = "next"
    /\ status' = FALSE
    /\ unmoved' = IF Movable THEN unmoved \cup {Book} ELSE unmoved
    /\ UNCHANGED <<build, target, k, cwd, files, result, skipped>>

NextLang ==
    /\ at = "next" /\ k < Len(Langs)
    /\ k' = k + 1 /\ at' = "cd"
    /\ UNCHANGED <<build, target, cwd, status, files, result, lost>>

\* The exit status of the loop is that of its last command.
LoopEnds ==
    /\ at = "next" /\ k = Len(Langs)
    /\ \/ ~status /\ End("failure") /\ UNCHANGED target
       \/ status /\ target = "epub" /\ End("success") /\ UNCHANGED target
       \/ status /\ target = "pdf" /\ at' = "books" /\ target' = "epub" /\ UNCHANGED result
    /\ UNCHANGED <<build, k, cwd, status, files, lost>>

Site == SiteClean \/ SiteInstall \/ SiteFilter \/ SiteGenerate \/ SiteFails

BookStep ==
    \/ Enter \/ EnterFails \/ Revision \/ Compile \/ CleanBook \/ Back \/ CommandFails
    \/ Mv \/ MvFails

Next ==
    \/ Make \/ Interrupt \/ Clean
    \/ Site
    \/ Books \/ BookStep \/ NextLang \/ LoopEnds

Spec == Init /\ [][Next]_vars

------------------------------------------------------------------------------
TypeOK ==
    /\ build \in 0..MaxBuilds
    /\ target \in Targets
    /\ k \in DOMAIN Langs
    /\ cwd \in {"root"} \cup LangSet
    /\ status \in BOOLEAN
    /\ chapters \in {{}, SiteLangs}
    /\ site \in 0..build
    /\ public \in [Targets -> [LangSet -> 0..build]]
    /\ made \in [Targets -> [LangSet -> 0..build]]
    /\ meta \in [LangSet -> Nat]
    /\ result \in {"none", "success", "failure"}
    /\ skipped \subseteq Targets \X LangSet /\ unmoved \subseteq Targets \X LangSet

\* A build that reports success has published the website, and from the present
\* source every book in every language, but for those whose own cd or mv has
\* failed: a failure of any other command is not hidden by the next language, and
\* no book is one that an earlier build left.  A mv that fails is hidden only if
\* another language follows.
FailureReported ==
    result = "success" =>
        /\ site = build
        /\ \A t \in Targets, l \in LangSet :
              public[t][l] = build \/ <<t, l>> \in skipped \cup unmoved
        /\ \A t \in Targets : <<t, Langs[Len(Langs)]>> \notin unmoved

\* A build that reports success leaves the directories of the books as it would
\* find them in a fresh checkout, no metadata and no book, but for those that its
\* cd has not entered, and for the books that were not moved.
LeavesNothing ==
    result = "success" =>
        /\ \A t \in Targets, l \in LangSet :
              made[t][l] = 0 \/ <<t, l>> \in skipped \cup unmoved
        /\ \A l \in LangSet : meta[l] = 0 \/ <<"epub", l>> \in skipped

==============================================================================
