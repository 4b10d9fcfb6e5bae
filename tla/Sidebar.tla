------------------------------- MODULE Sidebar -------------------------------
(***************************************************************************)
(* The sidebar of the website, website/.../js/common.js: the menu of small *)
(* screens, the links to the sections of a page, and the highlighting of   *)
(* the section in view.  Each action is one event of the browser with all  *)
(* of its listeners.  Movements of the page, by the reader or by           *)
(* smoothScroll, only mark an event as due; several of them may be         *)
(* answered by one call of updateSidebar().                                *)
(*                                                                         *)
(* One unit of a page is a node of its content, one unit of the sidebar is *)
(* a link.                                                                 *)
(***************************************************************************)
EXTENDS Integers, Sequences, FiniteSetsExt

CONSTANTS
    Pages,       \* contents of pages: sequences of "h2", "h3" and "p"
    LinksBefore, \* links of the sidebar before those of the page
    SideHeight,  \* how many links are in view
    MaxTimers    \* bound: pending timers

VARIABLES
    page,      \* the content
    zoom,      \* how many units of the window a node takes
    top,       \* document.documentElement.scrollTop
    due,       \* a scroll or resize event is due
    open,      \* the sidebar has the class "open"
    start,     \* the touch began "none", at the "edge" or "inside"
    active,    \* the links that have the class "active"
    animating,
    timers,    \* pending timeouts of clicks
    hoveredOverSidebar,
    sideTop,   \* sidebar.scrollTop
    clicked    \* history: the link clicked last, or 0

menu == <<open, start>>
view == <<page, zoom, top, due>>
side == <<hoveredOverSidebar, sideTop>>
sidebar == <<view, menu, side, active, animating, timers, clicked>>

HasH2 == \E i \in DOMAIN page : page[i] = "h2"

Listed(i) ==
    \/ page[i] = "h2"
    \/ page[i] = "h3" /\ (HasH2 => \E j \in 1..i : page[j] = "h2")

\* The headings that get a link, by their place in the content, which is the
\* order of the links too: each h2 and the h3 between it and the next one, or
\* all h3 if there is no h2.
allHeaders == {i \in DOMAIN page : Listed(i)}

\* The links that are made for them.
Links == allHeaders

OffsetTop(h) == h * zoom

\* The last heading of a page is too close to its end to be scrolled to the top.
Bottom(z) == Len(page) * z - 1

Init ==
    /\ page \in Pages
    /\ zoom = 1 /\ top = 0 /\ due = FALSE
    /\ open = FALSE /\ start = "none"
    /\ active = {} /\ animating = FALSE /\ timers = 0
    /\ hoveredOverSidebar = FALSE /\ sideTop = 0
    /\ clicked = 0

------------------------------------------------------------------------------
(* The menu of small screens.                                              *)

\* What a click on target leaves of an open sidebar when it reaches the body.
BodyClick(isOpen, target) == isOpen /\ target \in {"menu button", "sidebar"}

ClickMenuButton ==
    /\ open' = BodyClick(~open, "menu button")
    /\ UNCHANGED <<view, start, side, active, animating, timers, clicked>>

\* Also a click on a heading, which smoothScroll turns into movements.
ClickContent ==
    /\ open' = BodyClick(open, "content")
    /\ UNCHANGED <<view, start, side, active, animating, timers, clicked>>

TouchStart ==
    /\ start' \in {"edge", "inside"}
    /\ UNCHANGED <<view, open, side, active, animating, timers, clicked>>

\* The touch may have begun with another finger.
TouchEnd ==
    /\ start # "none"
    /\ \E swipe \in {"left", "right", "vertical"} :
          open' = CASE swipe = "vertical" -> open
                    [] swipe = "right" /\ start = "edge" -> TRUE
                    [] OTHER -> FALSE
    /\ UNCHANGED <<view, start, side, active, animating, timers, clicked>>

------------------------------------------------------------------------------
(* The environment: what moves.                                            *)

Move ==
    /\ \E z \in {1, 2} : zoom' = z /\ top' \in 0..Bottom(z)
    /\ due' = TRUE
    /\ UNCHANGED <<page, menu, side, active, animating, timers, clicked>>

ScrollSidebar ==
    /\ sideTop' \in 0..(LinksBefore + Cardinality(allHeaders))
    /\ UNCHANGED <<view, menu, hoveredOverSidebar, active, animating, timers, clicked>>

Hover ==
    /\ hoveredOverSidebar' = ~hoveredOverSidebar
    /\ UNCHANGED <<view, menu, sideTop, active, animating, timers, clicked>>

------------------------------------------------------------------------------
(* The highlighted link.                                                   *)

LinkTop(h) == LinksBefore + Cardinality({g \in Links : g <= h})

LinkBottom(h) == LinkTop(h) + 1

InView(h, s) == LinkTop(h) >= s /\ LinkBottom(h) <= s + SideHeight

\* Fault: the height of the link is not counted.
newScrollTop_Top(h) ==
    IF InView(h, sideTop) THEN sideTop
    ELSE IF LinkTop(h) - LinksBefore < SideHeight THEN LinksBefore
    ELSE LinkTop(h) - SideHeight

\* currentPageAnchor is the link before those of the page.
newScrollTop(h) ==
    IF InView(h, sideTop) THEN sideTop
    ELSE IF LinkBottom(h) - LinksBefore < SideHeight THEN LinksBefore
    ELSE LinkBottom(h) - SideHeight

\* The link querySelector() finds first.
previousActive == IF active = {} THEN 0 ELSE Min(active)

activate(h, kept, shouldScrollIntoView) ==
    IF h = previousActive
    THEN UNCHANGED <<active, sideTop>>
    ELSE /\ active' = kept \cup {h}
         /\ sideTop' = IF shouldScrollIntoView THEN newScrollTop(h) ELSE sideTop

\* Fault: the earlier link keeps its class.
setActive_Adds(h, shouldScrollIntoView) == activate(h, active, shouldScrollIntoView)

setActive(h, shouldScrollIntoView) == activate(h, active \ {previousActive}, shouldScrollIntoView)

ClickLink(h) ==
    /\ timers < MaxTimers
    /\ open' = BodyClick(FALSE, "sidebar")
    /\ setActive(h, FALSE)
    /\ animating' = TRUE
    /\ timers' = timers + 1
    /\ clicked' = h
    /\ UNCHANGED <<view, start, hoveredOverSidebar>>

\* Any timer ends the animation, that of an earlier click too.
TimerFires ==
    /\ timers > 0
    /\ timers' = timers - 1
    /\ animating' = FALSE
    /\ UNCHANGED <<view, menu, side, active, clicked>>

Above == {h \in allHeaders : OffsetTop(h) <= top}

\* The loop of updateSidebar(): the last heading above the top of the window, or
\* the first one.
Current == IF Above = {} THEN Min(allHeaders) ELSE Max(Above)

updateSidebar ==
    /\ due
    /\ due' = FALSE
    /\ IF animating \/ allHeaders = {}
       THEN UNCHANGED <<active, sideTop>>
       ELSE setActive(Current, ~hoveredOverSidebar)
    /\ UNCHANGED <<page, zoom, top, menu, hoveredOverSidebar, animating, timers, clicked>>

Next ==
    \/ ClickMenuButton \/ ClickContent \/ TouchStart \/ TouchEnd
    \/ Move \/ ScrollSidebar \/ Hover
    \/ \E h \in Links : ClickLink(h)
    \/ TimerFires \/ updateSidebar

Spec == Init /\ [][Next]_sidebar

------------------------------------------------------------------------------
TypeOK ==
    /\ page \in Pages
    /\ zoom \in {1, 2}
    /\ top \in 0..Bottom(2)
    /\ due \in BOOLEAN /\ open \in BOOLEAN
    /\ start \in {"none", "edge", "inside"}
    /\ active \subseteq Links
    /\ animating \in BOOLEAN
    /\ timers \in 0..MaxTimers
    /\ hoveredOverSidebar \in BOOLEAN
    /\ sideTop \in Int
    /\ clicked \in Links \cup {0}

\* One link is highlighted.  While the animation of a click runs it is the link
\* that was clicked, and a timer is there to end it.  When no event is due it is
\* the section in view, or still the last click: nothing else, however the timers
\* of several clicks and the events overlap.
HighlightRight ==
    /\ animating => timers > 0 /\ active = {clicked}
    /\ ~due => \/ active = {} /\ clicked = 0 /\ (top = 0 \/ Links = {})
               \/ clicked # 0 /\ active = {clicked}
               \/ Links # {} /\ active = {Current}

\* "shouldScrollIntoView": a highlight that moves with the page is in view in the
\* sidebar, unless the reader points at the sidebar.
LinkInView ==
    [][updateSidebar /\ active' # active /\ ~hoveredOverSidebar
          => \A h \in active' : InView(h, sideTop')]_sidebar

==============================================================================
