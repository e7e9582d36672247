------------------------------- MODULE AppSync -------------------------------
(***************************************************************************)
(* The mobile app keeps the plan-management screen up to date while a      *)
(* request executes on the server: AppSyncProvider polls the execution     *)
(* (features/app-sync/app-sync-context.tsx), usePlanManagement loads and   *)
(* shows the state (features/plan-management/hooks), BootstrapProvider     *)
(* reads the state again when the app comes to the front (app/_layout.tsx).*)
(*                                                                         *)
(* JavaScript runs one callback at a time, so an action is the run of one  *)
(* callback up to its next await.  What interleaves is the order of the    *)
(* answers, of the timer, of the user, and of React, which renders queued  *)
(* state later and then runs the effects (Render).  A call is sent, read   *)
(* by the server (Read), and answered or failed, in that order; an answer  *)
(* whose generation or number is no longer current changes nothing, so     *)
(* such a call is dropped when the number moves on.                        *)
(*                                                                         *)
(* The model has one request, of which this app is the only user: the      *)
(* answer REQUEST_ALREADY_EXECUTING, which the app handles, is never sent  *)
(* by this server.  An action in flight at a sign-out ends before another  *)
(* one begins.  The sequence numbers of events and epochs are abstracted   *)
(* to "not yet seen by an effect".                                         *)
(***************************************************************************)
EXTENDS Integers

CONSTANTS
  FirstModes,   \* what the request may be when the app starts
  MaxAttempts,  \* bound: executions that the app starts
  None,
  Unread,       \* a call the server has not read yet
  Failed        \* the event of a failed poll

ASSUME BoundsAssumption == MaxAttempts \in Nat \ {0}
ASSUME FirstAssumption == FirstModes \subseteq {"FINAL_REVIEW", "EXECUTION_FAILED"}

VARIABLES
  server,    \* the request in the database: its screen mode and attempt
  signedIn,  \* a session is stored
  active,    \* isAppActiveRef
  boundary,  \* boundaryTimerRef: the timer of the next period boundary
  watch,     \* watchedRequestIdRef, executionTimerRef, executionInFlightRef
  event,     \* executionEvent, until the effect of the screen has seen it
  stale,     \* epochs.planManagement has moved, unseen by the screen
  boot,      \* bootstrap data not yet seen by the effect of AppSyncProvider
  sync,      \* the call of BootstrapProvider in flight
  lateSync,  \* one sent before the last reset, with its foreground handler
  focused,   \* isActiveRef of the screen: its tab is in front
  shown,     \* the rendered state of the screen
  next,      \* the state queued for the next render
  dirty,     \* setState was called since the last render
  load,      \* stateInFlightRef: GET /plan-management/state in flight
  action,    \* pendingActionRef: execute, retry or acknowledge in flight
  ready,     \* app/index.tsx has its answer: the tabs are there
  missed     \* ghost: a load or a sync failed, and none was answered since

session  == <<signedIn, active>>
provider == <<boundary, watch>>
queue    == <<event, stale, boot>>
boots    == <<sync, lateSync, ready>>
screen   == <<focused, shown, next, dirty, load>>
vars == <<server, session, provider, queue, boots, screen, action, missed>>

Modes == {"FINAL_REVIEW", "EXECUTING", "EXECUTION_SUCCESS", "EXECUTION_FAILED", "ENTRY"}
States == [mode : Modes, attempt : 0 .. MaxAttempts]

\* The markers are no states, no values of the bootstrap data, no replies and no calls.
ASSUME MarkersAssumption ==
  /\ None # Unread /\ None # Failed /\ Unread # Failed
  /\ {None, Unread, Failed} \cap (States \cup BOOLEAN \cup {"ok", "INVALID_REQUEST_STATE"}) = {}
  /\ None \notin [seen : {Unread} \cup BOOLEAN, then : BOOLEAN]

Off == [on |-> FALSE, timer |-> FALSE, poll |-> None]

Init ==
  /\ server \in [mode : FirstModes, attempt : {0}]
  /\ signedIn = TRUE /\ active = TRUE /\ boundary = TRUE
  /\ watch = Off
  /\ event = None /\ stale = FALSE /\ boot = None
  /\ sync = [seen |-> Unread, then |-> FALSE]  \* BootstrapProvider, on mount
  /\ lateSync = None
  /\ focused = FALSE /\ shown = None /\ next = None /\ dirty = FALSE
  /\ load = None /\ action = None
  /\ ready = FALSE /\ missed = FALSE

\* Queued state, waiting for React.  The user acts on what is rendered: between
\* a queued state and its render come answers and timers, but no touch.
Queued == dirty \/ stale \/ event # None \/ boot # None

-----------------------------------------------------------------------------
(* AppSyncProvider                                                         *)

\* pollExecution: one call at a time, joined by whoever polls again.
Polled(w) ==
  IF w.on /\ active /\ w.poll = None THEN [w EXCEPT !.poll = Unread] ELSE w

\* Mutant of Scheduled: an answer does not start the timer again.
NotScheduled(w) == [w EXCEPT !.timer = FALSE]

\* scheduleExecutionPoll.
Scheduled(w) == [w EXCEPT !.timer = active /\ w.on]

\* Mutant of Watching: a request that is watched already is left alone.
WatchingOnce(w, on) ==
  IF w.on = on THEN w ELSE Polled([Off EXCEPT !.on = on])

\* watchExecution: a change of the watched request starts a generation.
Watching(w, on) ==
  IF w.on = on
    THEN IF on /\ ~w.timer THEN Polled(w) ELSE w
    ELSE Polled([Off EXCEPT !.on = on])

\* refreshExecutionNow.
Refreshed(w) == Polled(Watching(w, TRUE))

\* The timer of five seconds.
Timer ==
  /\ watch.timer
  /\ watch' = Polled([watch EXCEPT !.timer = FALSE])
  /\ UNCHANGED <<server, session, boundary, queue, boots, screen, action, missed>>

\* Mutant of ExecutionView: the status of the request is not translated.
ExecutionStatus(s) ==
  IF s.mode = "ENTRY" THEN [s EXCEPT !.mode = "COMPLETED"] ELSE s

\* What GET .../execution says of a request whose result was acknowledged.
ExecutionView(s) ==
  IF s.mode = "ENTRY" THEN [s EXCEPT !.mode = "EXECUTION_SUCCESS"] ELSE s

ReadPoll ==
  /\ watch.poll = Unread
  /\ watch' = [watch EXCEPT !.poll = ExecutionView(server)]
  /\ UNCHANGED <<server, session, boundary, queue, boots, screen, action, missed>>

\* The answer of a poll: the next one is scheduled, or the watch ends and the
\* screens are told to load again.
PollAnswered ==
  LET seen == watch.poll  free == [watch EXCEPT !.poll = None] IN
  /\ signedIn
  /\ seen \in States
  /\ event' = seen
  /\ IF seen.mode = "EXECUTING"
       THEN watch' = Scheduled(free) /\ UNCHANGED stale
       ELSE watch' = Off /\ stale' = TRUE
  /\ UNCHANGED <<server, session, boundary, boot, boots, screen, action, missed>>

\* A poll that fails is reported and another one is scheduled.
PollFailed ==
  /\ watch.poll # None
  /\ event' = Failed
  /\ watch' = Scheduled([watch EXCEPT !.poll = None])
  /\ UNCHANGED <<server, session, boundary, stale, boot, boots, screen, action, missed>>

\* The timer of the period boundaries 04:00, 12:00 and 18:00; it starts again.
Boundary ==
  /\ boundary
  /\ stale' = TRUE
  /\ UNCHANGED <<server, session, provider, event, boot, boots, screen, action, missed>>

-----------------------------------------------------------------------------
(* Foreground and background, sign-out and sign-in                         *)

\* setAppActive(false): the timers are cleared, the watch and the calls stay.
Background ==
  /\ active
  /\ active' = FALSE /\ boundary' = FALSE
  /\ watch' = [watch EXCEPT !.timer = FALSE]
  /\ UNCHANGED <<server, signedIn, queue, boots, screen, action, missed>>

\* The app comes back: sync() joins the call in flight or sends one, and the
\* handler of the foreground is attached to it.
Foreground ==
  /\ ~active
  /\ active' = TRUE /\ boundary' = TRUE
  /\ sync' = IF ~signedIn THEN sync
             ELSE [seen |-> IF sync = None THEN Unread ELSE sync.seen, then |-> TRUE]
  /\ UNCHANGED <<server, signedIn, watch, queue, lateSync, ready, screen, action, missed>>

\* getBootstrapExecutingRequestId: all that is used of the answer is whether it
\* names an executing request.
Executing == server.mode = "EXECUTING"

ReadSync ==
  /\ sync # None /\ sync.seen = Unread
  /\ sync' = [sync EXCEPT !.seen = Executing]
  /\ UNCHANGED <<server, session, provider, queue, lateSync, ready, screen, action, missed>>

\* handleForegroundBootstrapSuccess.
ForegroundHandled(executing) ==
  /\ stale' = TRUE
  /\ watch' = Watching(watch, executing)
  /\ boundary' = active  \* scheduleBoundary

\* The answer of sync(): the bootstrap data changes, and the foreground handler,
\* if one waits, marks every domain stale and watches what the answer names.
SyncAnswered ==
  /\ sync # None /\ sync.seen # Unread
  /\ boot' = sync.seen
  /\ IF sync.then THEN ForegroundHandled(sync.seen) ELSE UNCHANGED <<stale, watch, boundary>>
  /\ missed' = (missed /\ ~sync.then)
  /\ sync' = None /\ ready' = TRUE
  /\ UNCHANGED <<server, session, event, lateSync, screen, action>>

SyncFailed ==
  /\ sync # None
  /\ sync' = None
  /\ missed' = (missed \/ sync.then)
  /\ UNCHANGED <<server, session, provider, queue, lateSync, ready, screen, action>>

\* reset() of AppSync and of Bootstrap, then the screens of the tabs unmount.
Reset ==
  /\ signedIn' = FALSE
  /\ boundary' = FALSE /\ watch' = Off
  /\ event' = None /\ stale' = FALSE /\ boot' = None
  /\ sync' = None /\ ready' = FALSE
  /\ focused' = FALSE /\ shown' = None /\ next' = None /\ dirty' = FALSE
  /\ load' = None
  /\ action' = IF action = None THEN None ELSE [action EXCEPT !.mounted = FALSE]
  /\ missed' = FALSE
  /\ UNCHANGED <<server, active>>

\* The settings tab.  The answer of a sync in flight is no longer stored, but the
\* handler of the foreground still waits for it.
SignOut ==
  /\ signedIn /\ ready /\ active /\ ~focused /\ ~Queued
  /\ lateSync' = IF sync # None /\ sync.then THEN sync.seen ELSE lateSync
  /\ Reset

\* AUTH_REQUIRED in the foreground: the handler leads to the login screen.
SessionExpired ==
  /\ sync # None /\ sync.then
  /\ UNCHANGED lateSync
  /\ Reset

LateSyncAnswered ==
  /\ lateSync # None
  /\ ForegroundHandled(IF lateSync = Unread THEN Executing ELSE lateSync)
  /\ lateSync' = None
  /\ UNCHANGED <<server, session, event, boot, sync, ready, screen, action, missed>>

\* The login screen, or the retry of the start screen, runs app/index.tsx: the
\* tabs are mounted when sync() has its answer.  (Bound: an answer that was late
\* at the sign-out comes before the next sign-in.)
SignIn ==
  /\ active
  /\ ~signedIn \/ (~ready /\ sync = None)
  /\ lateSync = None
  /\ signedIn' = TRUE
  /\ sync' = [seen |-> Unread, then |-> FALSE]
  /\ UNCHANGED <<server, active, provider, queue, lateSync, ready, screen, action, missed>>

-----------------------------------------------------------------------------
(* usePlanManagement                                                       *)

\* load(): a call in flight is joined.
Loading == IF load = None THEN Unread ELSE load

\* The tab comes to the front.
Focus ==
  /\ signedIn /\ ready /\ active /\ ~focused /\ ~Queued
  /\ focused' = TRUE
  /\ load' = Loading
  /\ UNCHANGED <<server, session, provider, queue, boots, shown, next, dirty, action, missed>>

\* Another tab comes to the front; a draft and a result keep the user here.
Blur ==
  /\ active /\ focused /\ ~Queued
  /\ shown # None => shown.mode \in {"EXECUTING", "ENTRY"}
  /\ focused' = FALSE
  /\ UNCHANGED <<server, session, provider, queue, boots, shown, next, dirty, load, action, missed>>

ReadLoad ==
  /\ load = Unread
  /\ load' = server
  /\ UNCHANGED <<server, session, provider, queue, boots, focused, shown, next, dirty, action, missed>>

LoadAnswered ==
  /\ load \in States
  /\ next' = load /\ dirty' = TRUE
  /\ watch' = IF load.mode = "EXECUTING" THEN Watching(watch, TRUE) ELSE watch
  /\ load' = None
  /\ missed' = FALSE
  /\ UNCHANGED <<server, session, boundary, queue, boots, focused, shown, action>>

\* A load that fails keeps the screen.
LoadFailed ==
  /\ load # None
  /\ load' = None
  /\ missed' = TRUE
  /\ UNCHANGED <<server, session, provider, queue, boots, focused, shown, next, dirty, action>>

HasRequest(s) == s # None /\ s.mode # "ENTRY"

\* React renders what is queued and runs the effects, those of the screen first:
\* it watches what it shows, loads again if it is stale, takes the event over
\* what it shows; then AppSyncProvider watches what the bootstrap data names.
Render ==
  LET takes   == event \in States /\ HasRequest(next)
      watched == IF dirty /\ next # None
                   THEN Watching(watch, next.mode = "EXECUTING") ELSE watch
  IN
  /\ Queued
  /\ shown' = next
  /\ watch' = IF boot = None THEN watched ELSE Watching(watched, boot)
  /\ load' = IF takes THEN None ELSE IF stale /\ focused THEN Loading ELSE load
  /\ next' = IF takes THEN event ELSE next
  /\ dirty' = takes
  /\ event' = None /\ stale' = FALSE /\ boot' = None
  /\ UNCHANGED <<server, session, boundary, boots, focused, action, missed>>

-----------------------------------------------------------------------------
(* The user's actions on the screen                                        *)

\* The screen mode each of them needs: executeRequest, retryExecution and
\* acknowledgeExecutionResult.
Offered == [execute |-> "FINAL_REVIEW", retry |-> "EXECUTION_FAILED",
            acknowledge |-> "EXECUTION_SUCCESS"]

\* The call finds the request where the user saw it and starts an execution.
Starts(kind) == kind # "acknowledge" /\ server.mode = Offered[kind]

\* beginAction: one at a time.
Begin(kind) ==
  /\ signedIn /\ active /\ focused /\ ~Queued /\ action = None
  /\ shown # None /\ shown.mode = Offered[kind]
  /\ Starts(kind) => server.attempt < MaxAttempts
  /\ action' = [kind |-> kind, answer |-> Unread, mounted |-> TRUE]
  /\ UNCHANGED <<server, session, provider, queue, boots, screen, missed>>

\* What the server answers.  A request that executes or has completed already is
\* answered as if this call had started it.
Reply(kind) ==
  LET done == {"EXECUTION_SUCCESS", "ENTRY"} IN
  IF \/ Starts(kind)
     \/ server.mode \in IF kind = "acknowledge" THEN done ELSE done \cup {"EXECUTING"}
    THEN "ok" ELSE "INVALID_REQUEST_STATE"

ServeAction ==
  /\ action # None /\ action.answer = Unread
  /\ Starts(action.kind) => server.attempt < MaxAttempts
  /\ action' = [action EXCEPT !.answer = Reply(action.kind)]
  /\ server' = CASE Starts(action.kind) -> [mode |-> "EXECUTING", attempt |-> server.attempt + 1]
                 [] action.kind = "acknowledge" /\ Reply(action.kind) = "ok" -> [server EXCEPT !.mode = "ENTRY"]
                 [] OTHER -> server
  /\ UNCHANGED <<session, provider, queue, boots, screen, missed>>

\* Mutant of Mutated: the load in flight stays.
MutatedKeepingLoad(mode, attempt) ==
  /\ next' = IF HasRequest(next) THEN [mode |-> mode, attempt |-> attempt] ELSE next
  /\ dirty' = TRUE
  /\ UNCHANGED load

\* setExecutingState, and the local state after an acknowledgement: a load in
\* flight is dropped, and the queued state changes if it has the request.
Mutated(mode, attempt) ==
  /\ next' = IF HasRequest(next) THEN [mode |-> mode, attempt |-> attempt] ELSE next
  /\ dirty' = TRUE
  /\ load' = None

\* execute and retry: the screen shows EXECUTING, and the watch starts even if
\* the screen is gone.
StartAnswered ==
  /\ action # None /\ action.kind # "acknowledge" /\ action.answer = "ok"
  /\ IF action.mounted THEN Mutated("EXECUTING", server.attempt)
                       ELSE UNCHANGED <<next, dirty, load>>
  /\ watch' = Refreshed(watch)
  /\ action' = None
  /\ UNCHANGED <<server, session, boundary, queue, boots, focused, shown, missed>>

\* acknowledge-result: the screen leaves the result for home.
AcknowledgeAnswered ==
  /\ action # None /\ action.kind = "acknowledge" /\ action.answer = "ok"
  /\ IF action.mounted THEN Mutated("ENTRY", server.attempt) /\ focused' = FALSE
                       ELSE UNCHANGED <<next, dirty, load, focused>>
  /\ action' = None
  /\ UNCHANGED <<server, session, provider, queue, boots, shown, missed>>

\* A refusal: the state is loaded again.
ActionRefused ==
  /\ action # None /\ action.answer = "INVALID_REQUEST_STATE"
  /\ load' = IF action.mounted THEN Loading ELSE load
  /\ action' = [action EXCEPT !.answer = "loading"]
  /\ UNCHANGED <<server, session, provider, queue, boots, focused, shown, next, dirty, missed>>

\* finishAction, after a refusal when the load it awaits has settled; or after a
\* call that failed before or after it reached the server: the screen stays.
ActionOver ==
  /\ action # None
  /\ action.answer = "loading" => load = None
  /\ action' = None
  /\ UNCHANGED <<server, session, provider, queue, boots, screen, missed>>

\* The worker of the server ends the execution (SolarExecution).
ServerFinishes ==
  /\ server.mode = "EXECUTING"
  /\ \E m \in {"EXECUTION_SUCCESS", "EXECUTION_FAILED"} : server' = [server EXCEPT !.mode = m]
  /\ UNCHANGED <<session, provider, queue, boots, screen, action, missed>>

-----------------------------------------------------------------------------

Next ==
  \/ Timer \/ ReadPoll \/ PollAnswered \/ PollFailed \/ Boundary
  \/ Background \/ Foreground \/ ReadSync \/ SyncAnswered \/ SyncFailed
  \/ SignOut \/ SessionExpired \/ LateSyncAnswered \/ SignIn
  \/ Focus \/ Blur \/ ReadLoad \/ LoadAnswered \/ LoadFailed \/ Render
  \/ \E kind \in DOMAIN Offered : Begin(kind)
  \/ ServeAction \/ StartAnswered \/ AcknowledgeAnswered \/ ActionRefused \/ ActionOver
  \/ ServerFinishes

Spec == Init /\ [][Next]_vars

\* The calls that read are answered or fail, timers fire, React renders and
\* executions end; a poll may fail, but not for ever.  The user owes nothing.
FairSpec ==
  /\ Spec
  /\ WF_vars(Timer) /\ SF_vars(ReadPoll) /\ SF_vars(PollAnswered)
  /\ WF_vars(ReadLoad \/ LoadAnswered \/ LoadFailed) /\ WF_vars(Render)
  /\ WF_vars(ReadSync \/ SyncAnswered \/ SyncFailed)
  /\ WF_vars(ServerFinishes)

-----------------------------------------------------------------------------
(* Properties                                                              *)

Readings == {Unread} \cup States

\* The variables hold what the refs and the states of the app may hold.
TypeOK ==
  /\ server \in States
  /\ {signedIn, active, boundary, stale, ready, focused, dirty, missed} \subseteq BOOLEAN
  /\ watch \in [on : BOOLEAN, timer : BOOLEAN, poll : {None} \cup Readings]
  /\ event \in {None, Failed} \cup States
  /\ boot \in {None} \cup BOOLEAN
  /\ sync \in {None} \cup [seen : {Unread} \cup BOOLEAN, then : BOOLEAN]
  /\ lateSync \in {None, Unread} \cup BOOLEAN
  /\ {shown, next} \subseteq {None} \cup States
  /\ load \in {None} \cup Readings
  /\ action \in {None} \cup [kind : DOMAIN Offered, mounted : BOOLEAN,
       answer : {Unread, "ok", "INVALID_REQUEST_STATE", "loading"}]

\* The user looks at the plan-management screen.
Visible == signedIn /\ active /\ focused

\* While the screen shows an execution, something will bring the next news: the
\* timer, or a call in flight, or an effect that has not run.  A failed poll, a
\* change of tabs, a sign-in and an answer older than the database keep this.
PollingGoesOn ==
  (Visible /\ shown # None /\ shown.mode = "EXECUTING" /\ ~missed) =>
    \/ watch.timer \/ watch.poll # None
    \/ load # None \/ sync # None
    \/ Queued

\* A screen in front does not show EXECUTING for ever.
ScreenCatchesUp ==
  (Visible /\ shown # None /\ shown.mode = "EXECUTING")
    ~> (~Visible \/ shown = None \/ shown.mode # "EXECUTING" \/ missed)

\* How far the request has come.
Progress(s) ==
  3 * s.attempt + CASE s.mode \in {"FINAL_REVIEW", "EXECUTING"} -> 0
                    [] s.mode = "ENTRY"                         -> 2
                    [] OTHER                                    -> 1

\* A load in flight never brings back what the screen has left: an execution, a
\* retry, an acknowledgement or a polled result drops the loads sent before it.
LoadsBringNews ==
  (load \notin {None, Unread} /\ next # None) => Progress(load) >= Progress(next)

\* After a retry the screen does not go back to the result of the attempt before.
\* (The code compares request ids, not attempts: a poll that was read before the
\* retry and is answered after it does bring it back.)
NoOldAttempt ==
  [][(shown # None /\ shown' # None) => shown'.attempt >= shown.attempt]_vars

\* IMPLEMENTATION_CONTEXT.md, tab focus: at the boundaries 12:00, 18:00 and 04:00
\* the data of the tab is read again, so a signed-in app in front has its timer.
BoundaryTimerKept == (signedIn /\ active) => boundary

\* AI_USAGE_LOG.md, FE-09: a reset drops the ownership of stale responses, so a
\* signed-out app watches no execution.
SignedOutWatchesNothing == ~signedIn => ~watch.on

===============================================================================
