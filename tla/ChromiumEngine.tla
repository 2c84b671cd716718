--------------------------- MODULE ChromiumEngine ---------------------------
(***************************************************************************)
(* The Chromium engine of engine/chromium: PDF renders, screenshots and    *)
(* shutdowns on clones of one handle, which share a browser behind a       *)
(* mutex.  A step is what a task does between two awaits; Chrome answers,  *)
(* fires events, fails commands or crashes in between.                     *)
(***************************************************************************)
EXTENDS Naturals, Sequences

CONSTANTS
  Renders,  \* calls of html_to_pdf, url_to_pdf; markdown_to_pdf ends in the first
  Shots,    \* calls of html_to_screenshot, url_to_screenshot and healthy
  Closers,  \* calls of shutdown, each on a clone
  Sources,  \* what is rendered: "html", "url"
  Waits,    \* the wait conditions that are asked for
  Policies, \* which of the RequestContext's checks are asked for
  Nobody,   \* the browser's mutex is free
  MaxUnread \* bound on the events a capture task is behind

Tasks == Renders \cup Shots \cup Closers

ASSUME TasksAssumption ==
  /\ Nobody \notin Tasks
  /\ Renders \cap Shots = {} /\ Renders \cap Closers = {} /\ Shots \cap Closers = {}
ASSUME RequestsAssumption ==
  /\ Sources \subseteq {"html", "url"}
  \* "selector" stands for window.status too: both poll.
  /\ Waits \subseteq {"load", "domContentLoaded", "networkIdle",
                      "selector", "expression", "delay"}
  \* "status": fail_on_status; "errors": fail_on_resource_status, _console_exceptions
  \* or _resource_loading_failed, whose capture tasks note failures only.
  /\ Policies \subseteq {"none", "status", "errors"}
  /\ MaxUnread \in Nat \ {0}

VARIABLES
  lock,     \* holder of the mutex around the browser
  browser,  \* "here" in the mutex, or "taken" out of it by a shutdown
  chrome,   \* the process: "running", "gone"
  shut,     \* is_shutdown
  alive,    \* some clone of the handle is left
  pc,       \* where each task stands
  want,     \* what each render was asked for
  page,     \* the page of each render, in Chrome
  doc,      \* how far its document is
  unread,   \* the events the capture task of each render has not come to
  recorded, \* the last status or failure it has recorded
  outcome   \* what each render returns

pageVars == <<page, doc, unread, recorded>>
vars == <<lock, browser, chrome, shut, alive, pc, want, pageVars, outcome>>

InFlight == {"opening", "creating", "context", "navigating", "preparing", "waiting",
             "printing", "closing"}
RenderPC == {"idle", "done"} \cup InFlight
ShotPC == {"idle", "opening", "capturing", "done"}
CloserPC == {"idle", "locking", "shutting", "done", "dropped"}
\* Nothing looks at the checks of an html render.
Requests ==
  {w \in [source : Sources, wait : Waits, policy : Policies] :
     w.source = "html" => w.policy = "none"}
\* "left": the closing of the page failed, which is ignored.
Pages == {"none", "open", "closed", "left"}
Statuses == {"good", "bad"}
\* "heard" is "idle" with a listener there to see the event.
Docs == {"blank", "answered", "loaded", "idle", "heard"}
Outcomes == {"none", "pdf", "shutdown", "cdp", "navigation", "invalid", "timeout", "dropped"}

-----------------------------------------------------------------------------
Running == chrome = "running"

Init ==
  /\ lock = Nobody
  /\ browser = "here"
  /\ chrome = "running"
  /\ shut = FALSE
  /\ alive = TRUE
  /\ pc = [t \in Tasks |-> "idle"]
  /\ want \in [Renders -> Requests]
  /\ page = [r \in Renders |-> "none"]
  /\ doc = [r \in Renders |-> "blank"]
  /\ unread = [r \in Renders |-> <<>>]
  /\ recorded = [r \in Renders |-> "none"]
  /\ outcome = [r \in Renders |-> "none"]

Moves(t, from, to) == pc[t] = from /\ pc' = [pc EXCEPT ![t] = to]
Locks(t) == lock = Nobody /\ lock' = t
Unlocks(t) == lock' = IF lock = t THEN Nobody ELSE lock

-----------------------------------------------------------------------------
(* PDF renders: open a page, prepare it, wait, print, close it.            *)

\* The timer runs from here.
Begin(r) ==
  /\ alive
  /\ Moves(r, "idle", "opening")
  /\ UNCHANGED <<lock, browser, chrome, shut, alive, want, pageVars, outcome>>

\* open_page: the guard is held over new_page.
OpensPage(r) ==
  /\ browser = "here"
  /\ Moves(r, "opening", "creating")
  /\ Locks(r)
  /\ UNCHANGED <<browser, chrome, shut, alive, want, pageVars, outcome>>

OpenRefused(r) ==
  /\ lock = Nobody
  /\ browser = "taken"
  /\ Moves(r, "opening", "done")
  /\ outcome' = [outcome EXCEPT ![r] = "shutdown"]
  /\ UNCHANGED <<lock, browser, chrome, shut, alive, want, pageVars>>

PageCreated(r) ==
  /\ Running
  /\ Moves(r, "creating", "context")
  /\ page' = [page EXCEPT ![r] = "open"]
  /\ Unlocks(r)
  /\ UNCHANGED <<browser, chrome, shut, alive, want, doc, unread, recorded, outcome>>

\* map_cdp_error
MapsToInternal == IF shut THEN "internal" ELSE "cdp"  \* mutant: an error of no caller
Mapped == IF shut THEN "shutdown" ELSE "cdp"

CreateFails(r) ==
  /\ Moves(r, "creating", "done")
  /\ outcome' = [outcome EXCEPT ![r] = Mapped]
  /\ Unlocks(r)
  /\ UNCHANGED <<browser, chrome, shut, alive, want, pageVars>>

Goes(r, from, to) ==
  /\ Moves(r, from, to)
  /\ UNCHANGED <<lock, browser, chrome, shut, alive, want, pageVars>>

\* User agent, headers and cookies, a command for each that is asked for; then the
\* listener of the capture task.
ContextApplied(r) == Goes(r, "context", "navigating") /\ UNCHANGED outcome

\* goto, or set_content, has seen the load event, and so have the listeners that
\* navigate_with_lifecycle registered before.  Then what the capture task has
\* recorded so far is read, and the task aborted.
BadStatus(r) ==
  want[r].policy # "none" /\ recorded[r] = "bad"
Loaded(r) == doc[r] \in {"loaded", "idle", "heard"}

EndsNavigation(r, to) ==
  /\ Loaded(r)
  /\ Moves(r, "navigating", to)
  /\ unread' = [unread EXCEPT ![r] = <<>>]
  /\ UNCHANGED <<lock, browser, chrome, shut, alive, want, page, doc, recorded>>

NavigatedUnchecked(r) ==  \* mutant: the recorded status is not looked at
  EndsNavigation(r, "preparing") /\ UNCHANGED outcome
Navigated(r) ==
  ~BadStatus(r) /\ EndsNavigation(r, "preparing") /\ UNCHANGED outcome

NavigatedBadly(r) ==
  /\ BadStatus(r)
  /\ EndsNavigation(r, "closing")
  /\ outcome' = [outcome EXCEPT ![r] = "navigation"]

\* Media, background and style, and the probe of an expression; the listener of an
\* event wait is registered with this step.
Prepared(r) == Running /\ Goes(r, "preparing", "waiting") /\ UNCHANGED outcome

AwaitsEvent(r) == want[r].wait \in {"domContentLoaded", "networkIdle"}

\* No later domContentEventFired comes from a document that has loaded.
WaitMet(r) ==
  CASE want[r].wait = "networkIdle" -> doc[r] = "heard"
    [] want[r].wait = "domContentLoaded" -> FALSE
    [] want[r].wait \in {"load", "delay"} -> TRUE
    [] want[r].wait \in {"selector", "expression"} -> Running
WaitOver(r) == WaitMet(r) /\ Goes(r, "waiting", "printing") /\ UNCHANGED outcome

Printed(r) ==
  /\ Running
  /\ Goes(r, "printing", "closing")
  /\ outcome' = [outcome EXCEPT ![r] = "pdf"]

\* What a failing command makes of a render, where it stands.  A poll that fails
\* is a poll that was false.
Errors(r) ==
  CASE pc[r] = "context" -> {Mapped, "cdp"}
    [] pc[r] = "navigating" -> {"navigation"} \cup {e \in {Mapped} : want[r].source = "html"}
    [] pc[r] = "preparing" -> {Mapped} \cup {e \in {"cdp"} : AwaitsEvent(r)}
                                \cup {e \in {"invalid"} : want[r].wait = "expression"}
    [] pc[r] = "waiting" -> {e \in {"cdp"} : AwaitsEvent(r)}
    [] pc[r] = "printing" -> {Mapped}
    [] OTHER -> {}

CommandFailsHard(r) ==  \* mutant: the error is returned before the page is closed
  \E e \in Errors(r) :
    /\ Goes(r, pc[r], "done")
    /\ outcome' = [outcome EXCEPT ![r] = e]
CommandFails(r) ==
  \E e \in Errors(r) :
    /\ Goes(r, pc[r], "closing")
    /\ outcome' = [outcome EXCEPT ![r] = e]

\* close_page_best_effort
PageCloses(r) ==
  /\ Moves(r, "closing", "done")
  /\ \E p \in {"closed", "left"} : page' = [page EXCEPT ![r] = p]
  /\ UNCHANGED <<lock, browser, chrome, shut, alive, want, doc, unread, recorded, outcome>>

\* The timer, or a caller that goes away, drops the future where it stands, and
\* the guard with it.  Chrome may have got as far as to create the page.
CutOff(r, why) ==
  /\ pc[r] \in InFlight
  /\ pc' = [pc EXCEPT ![r] = "done"]
  /\ outcome' = [outcome EXCEPT ![r] = why]
  /\ \E p \in {page[r]} \cup {q \in {"open"} : pc[r] = "creating" /\ Running} :
       page' = [page EXCEPT ![r] = p]
  /\ Unlocks(r)
  /\ UNCHANGED <<browser, chrome, shut, alive, want, doc, unread, recorded>>
TimesOutEarly(r) ==  \* mutant: the timer does not cover the wait condition
  pc[r] # "waiting" /\ CutOff(r, "timeout")
TimesOut(r) == CutOff(r, "timeout")
Dropped(r) == CutOff(r, "dropped")

-----------------------------------------------------------------------------
(* Screenshots hold the guard, without a timer, from the first to the last *)
(* command, and healthy over its one command.  Their pages are not tracked. *)

ShotMoves(s, from, to) ==
  /\ Moves(s, from, to)
  /\ UNCHANGED <<browser, chrome, shut, want, alive, pageVars, outcome>>

ShotBegins(s) == alive /\ ShotMoves(s, "idle", "opening") /\ UNCHANGED lock
ShotLocks(s) == browser = "here" /\ Locks(s) /\ ShotMoves(s, "opening", "capturing")
ShotRefused(s) ==
  lock = Nobody /\ browser = "taken" /\ ShotMoves(s, "opening", "done") /\ UNCHANGED lock
ShotEnds(s) == ShotMoves(s, "capturing", "done") /\ Unlocks(s)
ShotDropped(s) ==
  \E from \in {"opening", "capturing"} : ShotMoves(s, from, "done") /\ Unlocks(s)

-----------------------------------------------------------------------------
(* Shutdown, Chrome, and the drop of the last clone.                       *)

ShutdownBegins(c) ==
  /\ alive
  /\ Moves(c, "idle", "locking")
  /\ shut' = TRUE
  /\ UNCHANGED <<lock, browser, chrome, alive, want, pageVars, outcome>>

TakesAndUnlocks(c) ==  \* mutant: the guard is dropped before the browser is closed
  /\ lock = Nobody
  /\ browser = "here"
  /\ Moves(c, "locking", "shutting")
  /\ browser' = "taken"
  /\ UNCHANGED <<lock, chrome, shut, alive, want, pageVars, outcome>>
LeavesBrowser(c) ==  \* mutant: the browser is closed but not taken out
  /\ browser = "here"
  /\ Moves(c, "locking", "shutting")
  /\ Locks(c)
  /\ UNCHANGED <<browser, chrome, shut, alive, want, pageVars, outcome>>
TakesBrowser(c) ==
  /\ browser = "here"
  /\ Moves(c, "locking", "shutting")
  /\ Locks(c)
  /\ browser' = "taken"
  /\ UNCHANGED <<chrome, shut, alive, want, pageVars, outcome>>

WaitsForBrowser(c) ==  \* mutant: a shutdown that finds no browser looks again
  pc[c] = "locking" /\ lock = Nobody /\ browser = "taken" /\ UNCHANGED vars
FindsItTaken(c) ==
  /\ lock = Nobody
  /\ browser = "taken"
  /\ Moves(c, "locking", "done")
  /\ UNCHANGED <<lock, browser, chrome, shut, alive, want, pageVars, outcome>>

\* close() and, whatever it says, the drop of the browser end the process.
BrowserCloses(c) ==
  /\ Moves(c, "shutting", "done")
  /\ chrome' = "gone"
  /\ Unlocks(c)
  /\ UNCHANGED <<browser, shut, alive, want, pageVars, outcome>>

\* The caller gives up (the server's drain timer): what the future holds is dropped,
\* the guard and, once it is taken out, the browser.
ShutdownDropped(c) ==
  /\ pc[c] \in {"locking", "shutting"}
  /\ pc' = [pc EXCEPT ![c] = "dropped"]
  /\ chrome' = IF pc[c] = "shutting" THEN "gone" ELSE chrome
  /\ Unlocks(c)
  /\ UNCHANGED <<browser, shut, alive, want, pageVars, outcome>>

Crashes ==
  /\ Running
  /\ chrome' = "gone"
  /\ UNCHANGED <<lock, browser, shut, alive, pc, want, pageVars, outcome>>

\* Drop for Inner, or for the browser in it.
LastDrop ==
  /\ alive
  /\ \A t \in Tasks : pc[t] \in {"idle", "done", "dropped"}
  /\ alive' = FALSE
  /\ chrome' = "gone"
  /\ UNCHANGED <<lock, browser, shut, pc, want, pageVars, outcome>>

-----------------------------------------------------------------------------
(* The document of a page while its render is at work, and its events.     *)

DocMoves(r, from, to) ==
  /\ Running
  /\ page[r] = "open"
  /\ pc[r] \in InFlight
  /\ doc[r] = from
  /\ doc' = [doc EXCEPT ![r] = to]
  /\ UNCHANGED <<lock, browser, chrome, shut, alive, pc, want, page, recorded, outcome>>

\* An event for a capture task.
Notes(r, kinds) ==
  /\ Len(unread[r]) < MaxUnread
  /\ \E s \in kinds : unread' = [unread EXCEPT ![r] = Append(@, s)]

Answers(r) ==
  /\ pc[r] = "navigating"
  /\ want[r].source = "url"
  /\ DocMoves(r, "blank", "answered")
  /\ IF want[r].policy = "status" THEN Notes(r, Statuses) ELSE UNCHANGED unread

\* A frame's document answers: its type is Document too.  Or something fails.
PageReports(r) ==
  /\ pc[r] = "navigating"
  /\ doc[r] # "blank"
  /\ DocMoves(r, doc[r], doc[r])
  /\ CASE want[r].policy = "status" -> Notes(r, Statuses)
       [] want[r].policy = "errors" -> Notes(r, {"bad"})
       [] want[r].policy = "none" -> UNCHANGED unread

Loads(r) ==
  /\ pc[r] = "navigating"
  /\ DocMoves(r, IF want[r].source = "url" THEN "answered" ELSE "blank", "loaded")
  /\ UNCHANGED unread

\* Only a render that waits for it by then sees it.
NetworkIdles(r) ==
  /\ want[r].wait = "networkIdle"
  /\ DocMoves(r, "loaded", IF pc[r] = "waiting" THEN "heard" ELSE "idle")
  /\ UNCHANGED unread

\* The capture task, which lives from before the navigation to its end.
Captures(r) ==
  /\ pc[r] = "navigating"
  /\ unread[r] # <<>>
  /\ recorded' = [recorded EXCEPT ![r] = Head(unread[r])]
  /\ unread' = [unread EXCEPT ![r] = Tail(@)]
  /\ UNCHANGED <<lock, browser, chrome, shut, alive, pc, want, page, doc, outcome>>

-----------------------------------------------------------------------------
RenderStep(r) ==
  \/ OpensPage(r) \/ OpenRefused(r) \/ PageCreated(r) \/ CreateFails(r)
  \/ ContextApplied(r) \/ Navigated(r) \/ NavigatedBadly(r) \/ Prepared(r)
  \/ WaitOver(r) \/ Printed(r) \/ CommandFails(r) \/ PageCloses(r)
ShotStep(s) == ShotLocks(s) \/ ShotRefused(s) \/ ShotEnds(s)
CloserStep(c) == TakesBrowser(c) \/ FindsItTaken(c) \/ BrowserCloses(c)
ChromeStep(r) ==
  Answers(r) \/ PageReports(r) \/ Loads(r) \/ NetworkIdles(r) \/ Captures(r)

Next ==
  \/ \E r \in Renders : Begin(r) \/ RenderStep(r) \/ TimesOut(r) \/ Dropped(r) \/ ChromeStep(r)
  \/ \E s \in Shots : ShotBegins(s) \/ ShotStep(s) \/ ShotDropped(s)
  \/ \E c \in Closers : ShutdownBegins(c) \/ CloserStep(c) \/ ShutdownDropped(c)
  \/ Crashes
  \/ LastDrop

\* The timer of a render fires; the mutex is fair and its waiters finitely many;
\* every command of a screenshot, and of close(), ends with Chrome's answer or
\* the request timeout.  Chrome need not do anything.
Fairness ==
  /\ \A r \in Renders : WF_vars(TimesOut(r))
  /\ \A s \in Shots : WF_vars(ShotStep(s))
  /\ \A c \in Closers : WF_vars(CloserStep(c))

Spec == Init /\ [][Next]_vars /\ Fairness

-----------------------------------------------------------------------------
(* Properties.                                                             *)

TypeOK ==
  /\ lock \in Tasks \cup {Nobody}
  /\ browser \in {"here", "taken"}
  /\ chrome \in {"running", "gone"}
  /\ shut \in BOOLEAN /\ alive \in BOOLEAN
  /\ pc \in [Tasks -> RenderPC \cup ShotPC \cup CloserPC]
  /\ \A r \in Renders : pc[r] \in RenderPC
  /\ \A s \in Shots : pc[s] \in ShotPC
  /\ \A c \in Closers : pc[c] \in CloserPC
  /\ want \in [Renders -> Requests]
  /\ page \in [Renders -> Pages]
  /\ doc \in [Renders -> Docs]
  /\ unread \in [Renders -> Seq(Statuses)]
  /\ \A r \in Renders : Len(unread[r]) <= MaxUnread
  /\ recorded \in [Renders -> Statuses \cup {"none"}]
  /\ outcome \in [Renders -> Outcomes]

\* Whichever clone it is called on, and whoever else shuts down, renders or takes
\* screenshots: when shutdown returns, Chrome is gone.
ShutdownIsComplete == (\E c \in Closers : pc[c] = "done") => chrome = "gone"

\* After a shutdown has returned no render gets to a page.
LateRendersRefused ==
  [][\A r \in Renders :
       (\E c \in Closers : pc[c] = "done") /\ pc[r] \in {"idle", "opening"}
         => pc'[r] \in {"idle", "opening", "done"}]_vars

\* A page stays open in the shared browser only if its render was cut off: every
\* other way to end a render, by whatever error, goes through the closing of its page.
PagesAreClosed ==
  \A r \in Renders :
    pc[r] = "done" /\ page[r] = "open" => outcome[r] \in {"timeout", "dropped"}

\* A render that returns a PDF has printed a page that loaded, met its wait
\* condition, and had no bad status, nor a failure, recorded when the navigation ended.
PdfIsEarned ==
  \A r \in Renders :
    outcome[r] = "pdf" =>
      /\ Loaded(r)
      /\ ~BadStatus(r)
      /\ want[r].wait = "networkIdle" => doc[r] = "heard"

\* A render ends, whatever it waits for and whoever holds the browser.
EveryRenderReturns == \A r \in Renders : pc[r] = "opening" ~> pc[r] = "done"

\* A shutdown ends, behind renders, screenshots and other shutdowns.
ShutdownReturns == \A c \in Closers : pc[c] = "locking" ~> pc[c] \in {"done", "dropped"}
=============================================================================
