------------------------ MODULE ChromiumEngineProofs ------------------------
(***************************************************************************)
(* What ChromiumEngine promises for every number of renders, screenshots   *)
(* and shutdowns.                                                          *)
(***************************************************************************)
EXTENDS ChromiumEngine, TLAPS

-----------------------------------------------------------------------------
(* Types.                                                                  *)

\* Only the task that moves changes its program counter, to where it moves.
LEMMA MovesTyped ==
  ASSUME TypeOK, NEW t \in Tasks, NEW to,
         pc' = [pc EXCEPT ![t] = to],
         t \in Renders => to \in RenderPC,
         t \in Shots => to \in ShotPC,
         t \in Closers => to \in CloserPC
  PROVE  /\ pc' \in [Tasks -> RenderPC \cup ShotPC \cup CloserPC]
         /\ \A r \in Renders : pc'[r] \in RenderPC
         /\ \A s \in Shots : pc'[s] \in ShotPC
         /\ \A c \in Closers : pc'[c] \in CloserPC
BY DEF TypeOK, Tasks

\* A render's step keeps the types of everything.
LEMMA RenderTyped ==
  ASSUME TypeOK, NEW r \in Renders,
         Begin(r) \/ RenderStep(r) \/ TimesOut(r) \/ Dropped(r)
  PROVE  TypeOK'
<1> USE TasksAssumption, RequestsAssumption
<1>0. r \in Tasks /\ r \notin Shots /\ r \notin Closers BY DEF Tasks
<1>t. \A to \in RenderPC : pc' = [pc EXCEPT ![r] = to] =>
        /\ pc' \in [Tasks -> RenderPC \cup ShotPC \cup CloserPC]
        /\ \A q \in Renders : pc'[q] \in RenderPC
        /\ \A s \in Shots : pc'[s] \in ShotPC
        /\ \A c \in Closers : pc'[c] \in CloserPC
  BY <1>0, MovesTyped
<1>m. Mapped \in {"shutdown", "cdp"} BY DEF Mapped
<1>e. Errors(r) \subseteq Outcomes BY <1>m DEF Errors, Outcomes
<1>1. CASE Begin(r)
  BY <1>0, <1>t, <1>1 DEF Begin, Moves, TypeOK, pageVars, RenderPC, InFlight
<1>2. CASE OpensPage(r)
  BY <1>0, <1>t, <1>2 DEF OpensPage, Moves, Locks, TypeOK, pageVars, RenderPC, InFlight
<1>3. CASE OpenRefused(r)
  BY <1>0, <1>t, <1>3 DEF OpenRefused, Moves, TypeOK, pageVars, RenderPC, InFlight, Outcomes
<1>4. CASE PageCreated(r)
  BY <1>0, <1>t, <1>4 DEF PageCreated, Moves, Unlocks, TypeOK, RenderPC, InFlight, Pages
<1>5. CASE CreateFails(r)
  BY <1>0, <1>t, <1>m, <1>5 DEF CreateFails, Moves, Unlocks, TypeOK, pageVars, RenderPC, Outcomes
<1>6. CASE ContextApplied(r)
  BY <1>0, <1>t, <1>6 DEF ContextApplied, Goes, Moves, TypeOK, pageVars, RenderPC, InFlight
<1>7. CASE Navigated(r) \/ NavigatedBadly(r)
  <2>1. /\ pc' \in {[pc EXCEPT ![r] = "preparing"], [pc EXCEPT ![r] = "closing"]}
        /\ unread' = [unread EXCEPT ![r] = <<>>]
        /\ UNCHANGED <<lock, browser, chrome, shut, alive, want, page, doc, recorded>>
        /\ outcome' \in {outcome, [outcome EXCEPT ![r] = "navigation"]}
    BY <1>7 DEF Navigated, NavigatedBadly, EndsNavigation, Moves
  <2>2. unread' \in [Renders -> Seq(Statuses)] BY <2>1 DEF TypeOK
  <2>3. \A q \in Renders : Len(unread'[q]) <= MaxUnread BY <2>1 DEF TypeOK
  <2>4. outcome' \in [Renders -> Outcomes] BY <2>1 DEF TypeOK, Outcomes
  <2> QED BY <1>0, <1>t, <2>1, <2>2, <2>3, <2>4 DEF TypeOK, RenderPC, InFlight
<1>8. CASE Prepared(r)
  BY <1>0, <1>t, <1>8 DEF Prepared, Goes, Moves, TypeOK, pageVars, RenderPC, InFlight
<1>9. CASE WaitOver(r)
  BY <1>0, <1>t, <1>9 DEF WaitOver, Goes, Moves, TypeOK, pageVars, RenderPC, InFlight
<1>10. CASE Printed(r)
  BY <1>0, <1>t, <1>10 DEF Printed, Goes, Moves, TypeOK, pageVars, RenderPC, InFlight, Outcomes
<1>11. CASE CommandFails(r)
  BY <1>0, <1>t, <1>e, <1>11 DEF CommandFails, Goes, Moves, TypeOK, pageVars, RenderPC, InFlight
<1>12. CASE PageCloses(r)
  BY <1>0, <1>t, <1>12 DEF PageCloses, Moves, TypeOK, RenderPC, Pages
<1>13. CASE TimesOut(r) \/ Dropped(r)
  <2>1. PICK why \in {"timeout", "dropped"} : CutOff(r, why) BY <1>13 DEF TimesOut, Dropped
  <2>2. page[r] \in Pages /\ "open" \in Pages BY DEF TypeOK, Pages
  <2>3. page' \in [Renders -> Pages] BY <2>1, <2>2 DEF CutOff, TypeOK
  <2>4. outcome' \in [Renders -> Outcomes] BY <2>1 DEF CutOff, TypeOK, Outcomes
  <2>5. lock' \in Tasks \cup {Nobody} BY <2>1 DEF CutOff, Unlocks, TypeOK
  <2>6. pc' = [pc EXCEPT ![r] = "done"] BY <2>1 DEF CutOff
  <2>7. UNCHANGED <<browser, chrome, shut, alive, want, doc, unread, recorded>> BY <2>1 DEF CutOff
  <2>8. "done" \in RenderPC BY DEF RenderPC
  <2> QED BY <1>t, <2>3, <2>4, <2>5, <2>6, <2>7, <2>8 DEF TypeOK
<1> QED
  BY <1>1, <1>2, <1>3, <1>4, <1>5, <1>6, <1>7, <1>8, <1>9, <1>10, <1>11, <1>12, <1>13
  DEF RenderStep

\* A screenshot's step keeps them.
LEMMA ShotTyped ==
  ASSUME TypeOK, NEW s \in Shots, ShotBegins(s) \/ ShotStep(s) \/ ShotDropped(s)
  PROVE  TypeOK'
<1> USE TasksAssumption
<1>0. s \in Tasks /\ s \notin Renders /\ s \notin Closers BY DEF Tasks
<1>t. \A to \in ShotPC : pc' = [pc EXCEPT ![s] = to] =>
        /\ pc' \in [Tasks -> RenderPC \cup ShotPC \cup CloserPC]
        /\ \A q \in Renders : pc'[q] \in RenderPC
        /\ \A u \in Shots : pc'[u] \in ShotPC
        /\ \A c \in Closers : pc'[c] \in CloserPC
  BY <1>0, MovesTyped
<1>1. \E to \in ShotPC : pc' = [pc EXCEPT ![s] = to]
  BY DEF ShotBegins, ShotStep, ShotLocks, ShotRefused, ShotEnds, ShotDropped, ShotMoves, Moves, ShotPC
<1>2. lock' \in Tasks \cup {Nobody}
  BY <1>0 DEF ShotBegins, ShotStep, ShotLocks, ShotRefused, ShotEnds, ShotDropped, Locks, Unlocks, TypeOK
<1>3. UNCHANGED <<browser, chrome, shut, alive, want, page, doc, unread, recorded, outcome>>
  BY DEF ShotBegins, ShotStep, ShotLocks, ShotRefused, ShotEnds, ShotDropped, ShotMoves, pageVars
<1> QED BY <1>t, <1>1, <1>2, <1>3 DEF TypeOK

\* A shutdown's step keeps them.
LEMMA CloserTyped ==
  ASSUME TypeOK, NEW c \in Closers, ShutdownBegins(c) \/ CloserStep(c) \/ ShutdownDropped(c)
  PROVE  TypeOK'
<1> USE TasksAssumption
<1>0. c \in Tasks /\ c \notin Renders /\ c \notin Shots BY DEF Tasks
<1>t. \A to \in CloserPC : pc' = [pc EXCEPT ![c] = to] =>
        /\ pc' \in [Tasks -> RenderPC \cup ShotPC \cup CloserPC]
        /\ \A q \in Renders : pc'[q] \in RenderPC
        /\ \A s \in Shots : pc'[s] \in ShotPC
        /\ \A d \in Closers : pc'[d] \in CloserPC
  BY <1>0, MovesTyped
<1>1. \E to \in CloserPC : pc' = [pc EXCEPT ![c] = to]
  BY DEF ShutdownBegins, CloserStep, TakesBrowser, FindsItTaken, BrowserCloses, ShutdownDropped,
         Moves, CloserPC
<1>2. /\ lock' \in Tasks \cup {Nobody}
      /\ browser' \in {"here", "taken"}
      /\ chrome' \in {"running", "gone"}
      /\ shut' \in BOOLEAN
  BY <1>0 DEF ShutdownBegins, CloserStep, TakesBrowser, FindsItTaken, BrowserCloses,
              ShutdownDropped, Locks, Unlocks, TypeOK
<1>3. UNCHANGED <<alive, want, page, doc, unread, recorded, outcome>>
  BY DEF ShutdownBegins, CloserStep, TakesBrowser, FindsItTaken, BrowserCloses, ShutdownDropped,
         pageVars
<1> QED BY <1>t, <1>1, <1>2, <1>3 DEF TypeOK

\* What Chrome and the capture task do to a page keeps them.
LEMMA ChromeTyped ==
  ASSUME TypeOK, NEW r \in Renders, ChromeStep(r)
  PROVE  TypeOK'
<1> USE RequestsAssumption
<1>1. ASSUME NEW kinds \in SUBSET Statuses, Notes(r, kinds)
      PROVE  /\ unread' \in [Renders -> Seq(Statuses)]
             /\ \A q \in Renders : Len(unread'[q]) <= MaxUnread
  <2>1. unread[r] \in Seq(Statuses) BY DEF TypeOK
  <2>2. PICK s \in Statuses : /\ Len(unread[r]) < MaxUnread
                             /\ unread' = [unread EXCEPT ![r] = Append(unread[r], s)]
    BY <1>1 DEF Notes
  <2>3. /\ Append(unread[r], s) \in Seq(Statuses)
        /\ Len(Append(unread[r], s)) = Len(unread[r]) + 1
        /\ Len(unread[r]) \in Nat
    BY <2>1
  <2>4. Len(Append(unread[r], s)) <= MaxUnread BY <2>2, <2>3
  <2> QED BY <2>2, <2>3, <2>4 DEF TypeOK
<1>u. unread \in [Renders -> Seq(Statuses)] /\ \A q \in Renders : Len(unread[q]) <= MaxUnread
  BY DEF TypeOK
<1>n. Statuses \in SUBSET Statuses /\ {"bad"} \in SUBSET Statuses BY DEF Statuses
<1>d. doc[r] \in Docs /\ "answered" \in Docs BY DEF TypeOK, Docs
<1>2. CASE Answers(r)
  <2>1. /\ unread' \in [Renders -> Seq(Statuses)]
        /\ \A q \in Renders : Len(unread'[q]) <= MaxUnread
    BY <1>1, <1>u, <1>n, <1>2 DEF Answers
  <2> QED BY <1>2, <1>d, <2>1 DEF Answers, DocMoves, TypeOK
<1>3. CASE PageReports(r)
  <2>0. want[r].policy \in {"none", "status", "errors"} BY DEF TypeOK, Requests
  <2>1. Notes(r, Statuses) \/ Notes(r, {"bad"}) \/ UNCHANGED unread
    BY <1>3, <2>0 DEF PageReports
  <2>2. /\ unread' \in [Renders -> Seq(Statuses)]
        /\ \A q \in Renders : Len(unread'[q]) <= MaxUnread
    BY <1>1, <1>u, <1>n, <2>1
  <2> QED BY <1>3, <1>d, <2>2 DEF PageReports, DocMoves, TypeOK
<1>4. CASE Loads(r) BY <1>4 DEF Loads, DocMoves, TypeOK, Docs
<1>5. CASE NetworkIdles(r) BY <1>5 DEF NetworkIdles, DocMoves, TypeOK, Docs
<1>6. CASE Captures(r)
  <2>1. unread[r] \in Seq(Statuses) /\ unread[r] # <<>> BY <1>6 DEF Captures, TypeOK
  <2>2. /\ Head(unread[r]) \in Statuses
        /\ Tail(unread[r]) \in Seq(Statuses)
        /\ Len(Tail(unread[r])) = Len(unread[r]) - 1
        /\ Len(unread[r]) \in Nat
    BY <2>1
  <2>3. Len(unread[r]) <= MaxUnread BY DEF TypeOK
  <2>4. Len(Tail(unread[r])) <= MaxUnread BY <2>2, <2>3
  <2>5. /\ unread' = [unread EXCEPT ![r] = Tail(unread[r])]
        /\ recorded' = [recorded EXCEPT ![r] = Head(unread[r])]
        /\ UNCHANGED <<lock, browser, chrome, shut, alive, pc, want, page, doc, outcome>>
    BY <1>6 DEF Captures
  <2>6. unread' \in [Renders -> Seq(Statuses)] /\ recorded' \in [Renders -> Statuses \cup {"none"}]
    BY <2>2, <2>5 DEF TypeOK
  <2>7. \A q \in Renders : Len(unread'[q]) <= MaxUnread BY <2>4, <2>5 DEF TypeOK
  <2> QED BY <2>5, <2>6, <2>7 DEF TypeOK
<1> QED BY <1>2, <1>3, <1>4, <1>5, <1>6 DEF ChromeStep

\* TypeOK: every variable stays in its type, whatever the tasks and Chrome do.
THEOREM TypeCorrect == Spec => []TypeOK
<1>1. ASSUME Init PROVE TypeOK
  <2>1. <<>> \in Seq(Statuses) /\ Len(<<>>) <= MaxUnread BY RequestsAssumption
  <2>2. "idle" \in RenderPC /\ "idle" \in ShotPC /\ "idle" \in CloserPC
    BY DEF RenderPC, ShotPC, CloserPC
  <2>3. unread \in [Renders -> Seq(Statuses)] /\ \A r \in Renders : Len(unread[r]) <= MaxUnread
    BY <1>1, <2>1 DEF Init
  <2>4. /\ pc \in [Tasks -> RenderPC \cup ShotPC \cup CloserPC]
        /\ \A t \in Tasks : pc[t] = "idle"
    BY <1>1, <2>2 DEF Init
  <2>5. /\ page \in [Renders -> Pages]
        /\ doc \in [Renders -> Docs]
        /\ recorded \in [Renders -> Statuses \cup {"none"}]
        /\ outcome \in [Renders -> Outcomes]
    BY <1>1 DEF Init, Pages, Docs, Outcomes
  <2> QED BY <1>1, <2>2, <2>3, <2>4, <2>5 DEF Init, TypeOK, Tasks
<1>2. TypeOK /\ [Next]_vars => TypeOK'
  <2> SUFFICES ASSUME TypeOK, [Next]_vars PROVE TypeOK' OBVIOUS
  <2>1. CASE UNCHANGED vars BY <2>1 DEF vars, pageVars, TypeOK
  <2>2. CASE Crashes BY <2>2 DEF Crashes, TypeOK, pageVars
  <2>3. CASE LastDrop BY <2>3 DEF LastDrop, TypeOK, pageVars
  <2> QED BY <2>1, <2>2, <2>3, RenderTyped, ShotTyped, CloserTyped, ChromeTyped DEF Next
<1> QED BY <1>1, <1>2, PTL DEF Spec

-----------------------------------------------------------------------------
(* Shutdown: who holds the guard, and what a shutdown that is over has seen. *)

\* What a future that is past the lock holds.
GuardHeld ==
  \A t \in Tasks : pc[t] \in {"creating", "capturing", "shutting"} => lock = t

\* Chrome outlives the taking of the browser only in the hands of its closer.
TakenIsClosing ==
  browser = "taken" => chrome = "gone" \/ \E c \in Closers : pc[c] = "shutting"

\* A shutdown that has returned leaves no browser and no Chrome.
DoneIsOver ==
  \A c \in Closers :
    /\ pc[c] = "shutting" => browser = "taken"
    /\ pc[c] = "done" => browser = "taken" /\ chrome = "gone"

ShutInv == GuardHeld /\ TakenIsClosing /\ DoneIsOver

\* A step of a render, a screenshot, Chrome or the drop of the last clone: at most
\* one program counter, of no closer, and the guard move, and Chrome only ends.
Elsewhere ==
  /\ browser' = browser
  /\ chrome' \in {chrome, "gone"}
  /\ \A c \in Closers : pc'[c] = pc[c]

LEMMA StepsElsewhere ==
  ASSUME TypeOK,
         \/ \E r \in Renders : Begin(r) \/ RenderStep(r) \/ TimesOut(r) \/ Dropped(r) \/ ChromeStep(r)
         \/ \E s \in Shots : ShotBegins(s) \/ ShotStep(s) \/ ShotDropped(s)
         \/ Crashes \/ LastDrop
  PROVE  Elsewhere
<1> USE TasksAssumption DEF Elsewhere, TypeOK, Tasks
<1>1. ASSUME NEW r \in Renders, Begin(r) \/ RenderStep(r) \/ TimesOut(r) \/ Dropped(r)
      PROVE  browser' = browser /\ chrome' = chrome /\ \E to : pc' = [pc EXCEPT ![r] = to]
  BY <1>1 DEF Begin, RenderStep, OpensPage, OpenRefused, PageCreated, CreateFails, ContextApplied,
              Navigated, NavigatedBadly, EndsNavigation, Prepared, WaitOver, Printed, CommandFails,
              PageCloses, TimesOut, Dropped, CutOff, Goes, Moves
<1>2. ASSUME NEW r \in Renders, ChromeStep(r)
      PROVE  UNCHANGED <<browser, chrome, pc>>
  BY <1>2 DEF ChromeStep, Answers, PageReports, Loads, NetworkIdles, Captures, DocMoves
<1>3. ASSUME NEW s \in Shots, ShotBegins(s) \/ ShotStep(s) \/ ShotDropped(s)
      PROVE  browser' = browser /\ chrome' = chrome /\ \E to : pc' = [pc EXCEPT ![s] = to]
  BY <1>3 DEF ShotBegins, ShotStep, ShotLocks, ShotRefused, ShotEnds, ShotDropped, ShotMoves, Moves
<1>4. ASSUME Crashes \/ LastDrop PROVE Elsewhere
  BY <1>4 DEF Crashes, LastDrop
<1> QED BY <1>1, <1>2, <1>3, <1>4

\* The guard has one holder, whichever task moves.
LEMMA GuardStep ==
  ASSUME TypeOK, GuardHeld, [Next]_vars
  PROVE  GuardHeld'
<1> USE TasksAssumption DEF GuardHeld
<1>1. CASE UNCHANGED vars BY <1>1 DEF vars
<1>2. ASSUME NEW r \in Renders, Begin(r) \/ RenderStep(r) \/ TimesOut(r) \/ Dropped(r)
      PROVE  GuardHeld'
  <2>0. r \in Tasks /\ pc \in [Tasks -> RenderPC \cup ShotPC \cup CloserPC] BY DEF Tasks, TypeOK
  <2>1. CASE OpensPage(r) BY <2>0, <2>1 DEF OpensPage, Moves, Locks
  <2>2. ASSUME NEW to, pc' = [pc EXCEPT ![r] = to],
               to \notin {"creating", "capturing", "shutting"},
               lock' = lock \/ Unlocks(r)
        PROVE  GuardHeld'
    BY <2>0, <2>2 DEF Unlocks
  <2>3. CASE Begin(r) \/ OpenRefused(r) BY <2>2, <2>3 DEF Begin, OpenRefused, Moves
  <2>4. CASE PageCreated(r) \/ CreateFails(r) BY <2>2, <2>4 DEF PageCreated, CreateFails, Moves
  <2>5. CASE ContextApplied(r) \/ Prepared(r) \/ WaitOver(r) \/ Printed(r) \/ CommandFails(r)
    BY <2>2, <2>5 DEF ContextApplied, Prepared, WaitOver, Printed, CommandFails, Goes, Moves
  <2>6. CASE Navigated(r) \/ NavigatedBadly(r)
    BY <2>2, <2>6 DEF Navigated, NavigatedBadly, EndsNavigation, Moves
  <2>7. CASE PageCloses(r) BY <2>2, <2>7 DEF PageCloses, Moves
  <2>8. CASE TimesOut(r) \/ Dropped(r) BY <2>2, <2>8 DEF TimesOut, Dropped, CutOff
  <2> QED BY <1>2, <2>1, <2>3, <2>4, <2>5, <2>6, <2>7, <2>8 DEF RenderStep
<1>3. ASSUME NEW r \in Renders, ChromeStep(r) PROVE GuardHeld'
  BY <1>3 DEF ChromeStep, Answers, PageReports, Loads, NetworkIdles, Captures, DocMoves
<1>4. ASSUME NEW s \in Shots, ShotBegins(s) \/ ShotStep(s) \/ ShotDropped(s) PROVE GuardHeld'
  <2>0. s \in Tasks /\ pc \in [Tasks -> RenderPC \cup ShotPC \cup CloserPC] BY DEF Tasks, TypeOK
  <2>1. CASE ShotLocks(s) BY <2>0, <2>1 DEF ShotLocks, ShotMoves, Moves, Locks
  <2> QED BY <1>4, <2>0, <2>1
          DEF ShotBegins, ShotStep, ShotRefused, ShotEnds, ShotDropped, ShotMoves, Moves, Unlocks
<1>5. ASSUME NEW c \in Closers, ShutdownBegins(c) \/ CloserStep(c) \/ ShutdownDropped(c)
      PROVE  GuardHeld'
  <2>0. c \in Tasks /\ pc \in [Tasks -> RenderPC \cup ShotPC \cup CloserPC] BY DEF Tasks, TypeOK
  <2>1. CASE TakesBrowser(c) BY <2>0, <2>1 DEF TakesBrowser, Moves, Locks
  <2> QED BY <1>5, <2>0, <2>1
          DEF ShutdownBegins, CloserStep, FindsItTaken, BrowserCloses, ShutdownDropped, Moves, Unlocks
<1>6. CASE Crashes \/ LastDrop BY <1>6 DEF Crashes, LastDrop
<1> QED BY <1>1, <1>2, <1>3, <1>4, <1>5, <1>6 DEF Next

\* What is taken is closed, and a shutdown that returns has seen it closed: the one
\* that closed it, or one that had to wait for the guard of the one that did.
LEMMA ShutStep ==
  ASSUME TypeOK, ShutInv, [Next]_vars
  PROVE  ShutInv'
<1> USE TasksAssumption DEF ShutInv
<1>g. GuardHeld' BY GuardStep
<1>0. pc \in [Tasks -> RenderPC \cup ShotPC \cup CloserPC] /\ Closers \subseteq Tasks
  BY DEF TypeOK, Tasks
<1>1. CASE UNCHANGED vars BY <1>1, <1>g DEF vars, TakenIsClosing, DoneIsOver
<1>2. CASE Elsewhere BY <1>2, <1>g DEF Elsewhere, TakenIsClosing, DoneIsOver
<1>3. ASSUME NEW c \in Closers, ShutdownBegins(c) \/ CloserStep(c) \/ ShutdownDropped(c)
      PROVE  TakenIsClosing' /\ DoneIsOver'
  <2>1. CASE ShutdownBegins(c)
    BY <1>0, <2>1 DEF ShutdownBegins, Moves, TakenIsClosing, DoneIsOver
  <2>2. CASE TakesBrowser(c)
    BY <1>0, <2>2 DEF TakesBrowser, Moves, TakenIsClosing, DoneIsOver
  <2>3. CASE FindsItTaken(c)
    <3>1. \A d \in Closers : pc[d] # "shutting"
      BY <1>0, <2>3 DEF FindsItTaken, GuardHeld, Tasks
    <3> QED BY <1>0, <2>3, <3>1 DEF FindsItTaken, Moves, TakenIsClosing, DoneIsOver
  <2>4. CASE BrowserCloses(c)
    <3>1. browser = "taken" BY <2>4 DEF BrowserCloses, Moves, DoneIsOver
    <3> QED BY <1>0, <2>4, <3>1 DEF BrowserCloses, Moves, TakenIsClosing, DoneIsOver
  <2>5. CASE ShutdownDropped(c)
    BY <1>0, <2>5 DEF ShutdownDropped, TakenIsClosing, DoneIsOver
  <2> QED BY <1>3, <2>1, <2>2, <2>3, <2>4, <2>5 DEF CloserStep
<1>4. Elsewhere \/ UNCHANGED vars
        \/ \E c \in Closers : ShutdownBegins(c) \/ CloserStep(c) \/ ShutdownDropped(c)
  BY StepsElsewhere DEF Next
<1> QED BY <1>1, <1>2, <1>3, <1>4, <1>g

THEOREM ShutInvariant == Spec => []ShutInv
<1>1. Init => ShutInv
  BY DEF Init, ShutInv, GuardHeld, TakenIsClosing, DoneIsOver, Tasks
<1>2. TypeOK /\ ShutInv /\ [Next]_vars => ShutInv' BY ShutStep
<1> QED BY <1>1, <1>2, TypeCorrect, PTL DEF Spec

\* ShutdownIsComplete: however many clones shut down, render and take screenshots at
\* once, when one call of shutdown has returned, Chrome is gone.
THEOREM ShutdownCompletes == Spec => []ShutdownIsComplete
<1>1. ShutInv => ShutdownIsComplete BY DEF ShutInv, DoneIsOver, ShutdownIsComplete
<1> QED BY <1>1, ShutInvariant, PTL

\* LateRendersRefused: no render that is at the lock when a shutdown has returned, or
\* comes to it later, gets a page.
THEOREM LateRendersAreRefused == Spec => LateRendersRefused
<1>1. ASSUME TypeOK, ShutInv, [Next]_vars,
             NEW r \in Renders, NEW c \in Closers, pc[c] = "done", pc[r] \in {"idle", "opening"}
      PROVE  pc'[r] \in {"idle", "opening", "done"}
  <2> USE TasksAssumption
  <2>0. r \in Tasks /\ pc \in [Tasks -> RenderPC \cup ShotPC \cup CloserPC]
    BY <1>1 DEF Tasks, TypeOK
  <2>b. browser = "taken" BY <1>1 DEF ShutInv, DoneIsOver
  <2>1. ASSUME NEW t \in Tasks, t # r, NEW to, pc' = [pc EXCEPT ![t] = to]
        PROVE  pc'[r] \in {"idle", "opening", "done"}
    BY <1>1, <2>0, <2>1
  <2>2. CASE UNCHANGED pc BY <1>1, <2>2
  <2>3. CASE Crashes \/ LastDrop \/ UNCHANGED vars BY <2>2, <2>3 DEF Crashes, LastDrop, vars
  <2>4. ASSUME NEW s \in Shots, ShotBegins(s) \/ ShotStep(s) \/ ShotDropped(s)
        PROVE  pc'[r] \in {"idle", "opening", "done"}
    <3>1. s \in Tasks /\ s # r BY DEF Tasks
    <3>2. \E to : pc' = [pc EXCEPT ![s] = to]
      BY <2>4 DEF ShotBegins, ShotStep, ShotLocks, ShotRefused, ShotEnds, ShotDropped,
                  ShotMoves, Moves
    <3> QED BY <3>1, <3>2, <2>1
  <2>5. ASSUME NEW d \in Closers, ShutdownBegins(d) \/ CloserStep(d) \/ ShutdownDropped(d)
        PROVE  pc'[r] \in {"idle", "opening", "done"}
    <3>1. d \in Tasks /\ d # r BY DEF Tasks
    <3>2. \E to : pc' = [pc EXCEPT ![d] = to]
      BY <2>5 DEF ShutdownBegins, CloserStep, TakesBrowser, FindsItTaken, BrowserCloses,
                  ShutdownDropped, Moves
    <3> QED BY <3>1, <3>2, <2>1
  <2>6. ASSUME NEW q \in Renders, ChromeStep(q) PROVE UNCHANGED pc
    BY <2>6 DEF ChromeStep, Answers, PageReports, Loads, NetworkIdles, Captures, DocMoves
  <2>7. ASSUME NEW q \in Renders, Begin(q) \/ RenderStep(q) \/ TimesOut(q) \/ Dropped(q)
        PROVE  pc'[r] \in {"idle", "opening", "done"}
    <3>1. q \in Tasks /\ \E to : pc' = [pc EXCEPT ![q] = to]
      BY <2>7 DEF Tasks, Begin, RenderStep, OpensPage, OpenRefused, PageCreated, CreateFails,
              ContextApplied, Navigated, NavigatedBadly, EndsNavigation, Prepared, WaitOver,
              Printed, CommandFails, PageCloses, TimesOut, Dropped, CutOff, Goes, Moves
    <3>2. CASE q # r BY <3>1, <3>2, <2>1
    <3>3. CASE q = r
      <4>1. Errors(r) = {} BY <1>1 DEF Errors
      <4>2. Begin(r) \/ OpenRefused(r) \/ TimesOut(r) \/ Dropped(r)
        BY <1>1, <2>b, <2>7, <3>3, <4>1
        DEF RenderStep, OpensPage, PageCreated, CreateFails, ContextApplied, Navigated,
            NavigatedBadly, EndsNavigation, Prepared, WaitOver, Printed, CommandFails, PageCloses,
            Goes, Moves
      <4> QED BY <2>0, <4>2 DEF Begin, OpenRefused, TimesOut, Dropped, CutOff, Moves
    <3> QED BY <3>2, <3>3
  <2> QED BY <1>1, <2>2, <2>3, <2>4, <2>5, <2>6, <2>7 DEF Next
<1>2. TypeOK /\ ShutInv /\ [Next]_vars =>
        [\A r \in Renders :
          (\E c \in Closers : pc[c] = "done") /\ pc[r] \in {"idle", "opening"}
            => pc'[r] \in {"idle", "opening", "done"}]_vars
  BY <1>1
<1> QED BY <1>2, TypeCorrect, ShutInvariant, PTL DEF Spec, LateRendersRefused

-----------------------------------------------------------------------------
(* Renders: what a render has behind it, where it stands.                  *)

RenderSound(r) ==
  /\ pc[r] \in {"idle", "opening", "creating"} => page[r] = "none"
  /\ pc[r] \notin {"closing", "done"} => outcome[r] = "none"
  /\ pc[r] \in {"preparing", "waiting", "printing"} \/ outcome[r] = "pdf"
       => Loaded(r) /\ ~BadStatus(r)
  /\ pc[r] = "printing" \/ outcome[r] = "pdf"
       => (want[r].wait = "networkIdle" => doc[r] = "heard")
  /\ pc[r] = "done" /\ page[r] = "open" => outcome[r] \in {"timeout", "dropped"}

RenderInv == \A r \in Renders : RenderSound(r)

\* What a step that is not about a render leaves alone of it.
LEMMA SoundFrame ==
  ASSUME NEW r \in Renders, RenderSound(r), pc'[r] = pc[r], page'[r] = page[r],
         outcome'[r] = outcome[r], doc'[r] = doc[r], recorded'[r] = recorded[r], want' = want
  PROVE  RenderSound(r)'
BY DEF RenderSound, Loaded, BadStatus

\* A step of the render itself, action by action.
LEMMA SoundStep ==
  ASSUME TypeOK, NEW r \in Renders, RenderSound(r),
         Begin(r) \/ RenderStep(r) \/ TimesOut(r) \/ Dropped(r)
  PROVE  RenderSound(r)'
<1> USE DEF RenderSound, Loaded, BadStatus, Moves, pageVars
<1>0. /\ r \in Tasks /\ pc \in [Tasks -> RenderPC \cup ShotPC \cup CloserPC]
      /\ page \in [Renders -> Pages] /\ outcome \in [Renders -> Outcomes]
  BY DEF Tasks, TypeOK
<1>m. Mapped \in {"shutdown", "cdp"} BY DEF Mapped
<1>e. Errors(r) \subseteq Outcomes \ {"none", "pdf"} BY <1>m DEF Errors, Outcomes
<1>1. CASE Begin(r) BY <1>0, <1>1 DEF Begin
<1>2. CASE OpensPage(r) BY <1>0, <1>2 DEF OpensPage
<1>3. CASE OpenRefused(r) BY <1>0, <1>3 DEF OpenRefused
<1>4. CASE PageCreated(r) BY <1>0, <1>4 DEF PageCreated
<1>5. CASE CreateFails(r) BY <1>0, <1>m, <1>5 DEF CreateFails
<1>6. CASE ContextApplied(r) BY <1>0, <1>6 DEF ContextApplied, Goes
<1>7. CASE Navigated(r) BY <1>0, <1>7 DEF Navigated, EndsNavigation
<1>8. CASE NavigatedBadly(r) BY <1>0, <1>8 DEF NavigatedBadly, EndsNavigation
<1>9. CASE Prepared(r) BY <1>0, <1>9 DEF Prepared, Goes
<1>10. CASE WaitOver(r) BY <1>0, <1>10 DEF WaitOver, WaitMet, Goes
<1>11. CASE Printed(r) BY <1>0, <1>11 DEF Printed, Goes
<1>12. CASE CommandFails(r)
  <2>1. PICK e \in Errors(r) : Goes(r, pc[r], "closing") /\ outcome' = [outcome EXCEPT ![r] = e]
    BY <1>12 DEF CommandFails
  <2>2. pc'[r] = "closing" /\ page' = page BY <1>0, <2>1 DEF Goes
  <2>3. outcome'[r] # "pdf" BY <1>0, <1>e, <2>1
  <2> QED BY <2>2, <2>3
<1>13. CASE PageCloses(r) BY <1>0, <1>13 DEF PageCloses
<1>14. CASE TimesOut(r) \/ Dropped(r) BY <1>0, <1>14 DEF TimesOut, Dropped, CutOff
<1> QED BY <1>1, <1>2, <1>3, <1>4, <1>5, <1>6, <1>7, <1>8, <1>9, <1>10, <1>11, <1>12, <1>13, <1>14
        DEF RenderStep

\* What happens in its page: a document goes forward only, and what the capture task
\* records counts until the navigation is over.
LEMMA SoundChrome ==
  ASSUME TypeOK, NEW r \in Renders, RenderSound(r), ChromeStep(r)
  PROVE  RenderSound(r)'
<1> USE DEF RenderSound, Loaded, BadStatus, DocMoves
<1>0. doc \in [Renders -> Docs] /\ recorded \in [Renders -> Statuses \cup {"none"}] BY DEF TypeOK
<1>1. CASE Answers(r) BY <1>0, <1>1 DEF Answers
<1>2. CASE PageReports(r) BY <1>0, <1>2 DEF PageReports
<1>3. CASE Loads(r) BY <1>0, <1>3 DEF Loads
<1>4. CASE NetworkIdles(r)
  <2>1. doc[r] = "loaded" /\ doc'[r] \in {"heard", "idle"} BY <1>0, <1>4 DEF NetworkIdles
  <2>2. UNCHANGED <<pc, want, page, recorded, outcome>> BY <1>4 DEF NetworkIdles
  <2>3. want[r].wait = "networkIdle" BY <1>4 DEF NetworkIdles
  <2> QED BY <2>1, <2>2, <2>3
<1>5. CASE Captures(r) BY <1>0, <1>5 DEF Captures
<1> QED BY <1>1, <1>2, <1>3, <1>4, <1>5 DEF ChromeStep

LEMMA RenderInvStep ==
  ASSUME TypeOK, RenderInv, [Next]_vars
  PROVE  RenderInv'
<1> USE TasksAssumption
<1> SUFFICES ASSUME NEW r \in Renders PROVE RenderSound(r)' BY DEF RenderInv
<1>0. /\ RenderSound(r)
      /\ r \in Tasks /\ pc \in [Tasks -> RenderPC \cup ShotPC \cup CloserPC]
      /\ page \in [Renders -> Pages] /\ outcome \in [Renders -> Outcomes]
      /\ doc \in [Renders -> Docs] /\ recorded \in [Renders -> Statuses \cup {"none"}]
  BY DEF RenderInv, Tasks, TypeOK
<1>1. CASE Crashes \/ LastDrop \/ UNCHANGED vars
  BY <1>0, <1>1, SoundFrame DEF Crashes, LastDrop, vars, pageVars
<1>2. ASSUME NEW s \in Shots, ShotBegins(s) \/ ShotStep(s) \/ ShotDropped(s)
      PROVE  RenderSound(r)'
  <2>1. s \in Tasks /\ s # r BY DEF Tasks
  <2>2. /\ \E to : pc' = [pc EXCEPT ![s] = to]
        /\ UNCHANGED <<page, doc, recorded, outcome, want>>
    BY <1>2 DEF ShotBegins, ShotStep, ShotLocks, ShotRefused, ShotEnds, ShotDropped,
                ShotMoves, Moves, pageVars
  <2>3. pc'[r] = pc[r] BY <1>0, <2>1, <2>2
  <2> QED BY <1>0, <2>2, <2>3, SoundFrame
<1>3. ASSUME NEW c \in Closers, ShutdownBegins(c) \/ CloserStep(c) \/ ShutdownDropped(c)
      PROVE  RenderSound(r)'
  <2>1. c \in Tasks /\ c # r BY DEF Tasks
  <2>2. /\ \E to : pc' = [pc EXCEPT ![c] = to]
        /\ UNCHANGED <<page, doc, recorded, outcome, want>>
    BY <1>3 DEF ShutdownBegins, CloserStep, TakesBrowser, FindsItTaken, BrowserCloses,
                ShutdownDropped, Moves, pageVars
  <2>3. pc'[r] = pc[r] BY <1>0, <2>1, <2>2
  <2> QED BY <1>0, <2>2, <2>3, SoundFrame
<1>4. ASSUME NEW q \in Renders, Begin(q) \/ RenderStep(q) \/ TimesOut(q) \/ Dropped(q)
      PROVE  RenderSound(r)'
  <2>1. CASE q = r BY <1>0, <1>4, <2>1, SoundStep
  <2>2. CASE q # r
    <3>1. /\ \E to : pc' = [pc EXCEPT ![q] = to]
          /\ page' = page \/ \E p : page' = [page EXCEPT ![q] = p]
          /\ outcome' = outcome \/ \E o : outcome' = [outcome EXCEPT ![q] = o]
          /\ UNCHANGED <<doc, recorded, want>>
      BY <1>4 DEF Begin, RenderStep, OpensPage, OpenRefused, PageCreated, CreateFails,
                  ContextApplied, Navigated, NavigatedBadly, EndsNavigation, Prepared, WaitOver,
                  Printed, CommandFails, PageCloses, TimesOut, Dropped, CutOff, Goes, Moves, pageVars
    <3>2. pc'[r] = pc[r] /\ page'[r] = page[r] /\ outcome'[r] = outcome[r]
      BY <1>0, <2>2, <3>1
    <3> QED BY <1>0, <3>1, <3>2, SoundFrame
  <2> QED BY <2>1, <2>2
<1>5. ASSUME NEW q \in Renders, ChromeStep(q) PROVE RenderSound(r)'
  <2>1. CASE q = r BY <1>0, <1>5, <2>1, SoundChrome
  <2>2. CASE q # r
    <3>1. /\ UNCHANGED <<pc, page, want, outcome>>
          /\ doc' = doc \/ \E d : doc' = [doc EXCEPT ![q] = d]
          /\ recorded' = recorded \/ \E h : recorded' = [recorded EXCEPT ![q] = h]
      BY <1>5 DEF ChromeStep, Answers, PageReports, Loads, NetworkIdles, Captures, DocMoves
    <3>2. doc'[r] = doc[r] /\ recorded'[r] = recorded[r] BY <1>0, <2>2, <3>1
    <3> QED BY <1>0, <3>1, <3>2, SoundFrame
  <2> QED BY <2>1, <2>2
<1> QED BY <1>1, <1>2, <1>3, <1>4, <1>5 DEF Next

THEOREM RenderInvariant == Spec => []RenderInv
<1>1. Init => RenderInv
  BY DEF Init, RenderInv, RenderSound, Tasks
<1>2. TypeOK /\ RenderInv /\ [Next]_vars => RenderInv' BY RenderInvStep
<1> QED BY <1>1, <1>2, TypeCorrect, PTL DEF Spec

\* PagesAreClosed: a render that ends by itself, well or by any error, leaves no page
\* it did not try to close.
THEOREM PagesGetClosed == Spec => []PagesAreClosed
<1>1. RenderInv => PagesAreClosed BY DEF RenderInv, RenderSound, PagesAreClosed
<1> QED BY <1>1, RenderInvariant, PTL

\* PdfIsEarned: a PDF is of a page that loaded with no bad status recorded and, where
\* it was asked for, fell idle while the render listened.
THEOREM PdfsAreEarned == Spec => []PdfIsEarned
<1>1. RenderInv => PdfIsEarned BY DEF RenderInv, RenderSound, PdfIsEarned
<1> QED BY <1>1, RenderInvariant, PTL
=============================================================================
