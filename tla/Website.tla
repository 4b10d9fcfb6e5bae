------------------------------- MODULE Website -------------------------------
(***************************************************************************)
(* What publishes the book: the build of the website and of the books, and *)
(* the sidebar of the pages it makes.  The two share no state: a behaviour *)
(* is one of make, or one of a page in a browser.                          *)
(***************************************************************************)
EXTENDS Integers, Sequences

CONSTANTS
    Langs, SiteLangs, MaxBuilds,               \* of Build
    Pages, LinksBefore, SideHeight, MaxTimers  \* of Sidebar

\* The directory of a language is not the root.
ASSUME LangsAssumption ==
    /\ Langs \in Seq(STRING \ {"root"}) /\ Langs # <<>>
    /\ \A i, j \in DOMAIN Langs : Langs[i] = Langs[j] => i = j
    /\ MaxBuilds \in Nat

\* A link is not higher than the sidebar.
ASSUME PagesAssumption ==
    /\ \A p \in Pages : p # <<>> /\ p \in Seq({"h2", "h3", "p"})
    /\ LinksBefore \in Nat /\ SideHeight \in Nat \ {0} /\ MaxTimers \in Nat

VARIABLES
    running,  \* "make" or "page"
    build, at, target, k, cwd, status, chapters, site, public, made, meta, result,
    skipped, unmoved,
    page, zoom, top, due, open, start, active, animating, timers,
    hoveredOverSidebar, sideTop, clicked

B == INSTANCE Build

S == INSTANCE Sidebar

books == <<build, at, target, k, cwd, status, chapters, site, public, made, meta, result,
           skipped, unmoved>>
browser == <<page, zoom, top, due, open, start, active, animating, timers,
             hoveredOverSidebar, sideTop, clicked>>
vars == <<running, books, browser>>

Init ==
    /\ running \in {"make", "page"}
    /\ B!Init
    /\ S!Init

Next ==
    \/ running = "make" /\ B!Next /\ UNCHANGED <<running, browser>>
    \/ running = "page" /\ S!Next /\ UNCHANGED <<running, books>>

Spec == Init /\ [][Next]_vars

------------------------------------------------------------------------------
TypeOK == B!TypeOK /\ S!TypeOK

\* A build that reports success has published all of the present source, but for the
\* books whose own cd or mv failed.
FailureReported == B!FailureReported

\* A build that reports success leaves nothing that a later one could find, but for
\* the same books.
LeavesNothing == B!LeavesNothing

\* One link is highlighted: the section in view, or the last click.
HighlightRight == S!HighlightRight

\* A highlight that moves with the page is in view.
LinkInView == S!LinkInView

==============================================================================
