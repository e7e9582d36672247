---------------------------- MODULE AppSyncProofs ----------------------------
(***************************************************************************)
(* What the app keeps whatever the order of answers, timers, renders and   *)
(* touches, for any number of executions.  The argument for the polling:   *)
(* a watch that has a timer or a call in flight is on, and watching what   *)
(* is watched already starts what is missing; a screen that shows an       *)
(* execution was rendered from a state that started the watch, and         *)
(* whatever stops the watch leaves the screen stale.  The argument for the *)
(* loads: the server only goes forward, a load in flight was read after    *)
(* what the screen shows, and every newer state drops it.                  *)
(***************************************************************************)
EXTENDS AppSync, TLAPS

Watches == [on : BOOLEAN, timer : BOOLEAN, poll : {None} \cup Readings]

\* A timer runs and a call is in flight only for a request that is watched.
WatchFits(w) == w.timer \/ w.poll # None => w.on

\* The tabs are there while a session is stored and the start screen has its
\* answer; the call that the start screen waits for has no foreground handler.
TabsFit ==
  /\ focused => ready
  /\ ready => signedIn
  /\ sync # None => signedIn
  /\ sync # None /\ ~sync.then => ~ready

\* What was not set since the last render is what is rendered.
RenderFits == ~dirty => shown = next

\* Bootstrap data that a screen in front has not seen came with new epochs.
BootLoads == boot # None /\ focused => stale

\* While the queued state is an execution, something brings the next news.
NewsComes ==
  (Visible /\ next # None /\ next.mode = "EXECUTING" /\ ~missed) =>
    \/ watch.timer \/ watch.poll # None \/ load # None \/ sync # None
    \/ dirty \/ stale \/ boot # None \/ event \in States

\* The app knows of nothing that the server has not reached.
NothingAhead ==
  /\ next # None => Progress(next) <= Progress(server)
  /\ load \notin {None, Unread} => Progress(load) <= Progress(server)
  /\ event \notin {None, Failed} => Progress(event) <= Progress(server)
  /\ watch.poll \notin {None, Unread} => Progress(watch.poll) <= Progress(server)

\* An acknowledgement that was answered has ended the request.
AcknowledgedIsOver ==
  action # None /\ action.kind = "acknowledge" /\ action.answer = "ok" => server.mode = "ENTRY"

PollInv == TypeOK /\ WatchFits(watch) /\ TabsFit /\ RenderFits /\ BootLoads /\ NewsComes
LoadInv == TypeOK /\ NothingAhead /\ AcknowledgedIsOver /\ LoadsBringNews

-----------------------------------------------------------------------------
(* The watch and the states                                                *)

\* The markers are told apart from each other and from what they stand beside.
LEMMA MarkersApart ==
  /\ None # Unread /\ None # Failed /\ Unread # Failed
  /\ None \notin States /\ Unread \notin States /\ Failed \notin States
  /\ None \notin BOOLEAN /\ Unread \notin BOOLEAN
  BY MarkersAssumption

\* Watching keeps the watch in shape; in the foreground a watched request has
\* its timer or its call afterwards; what it knows is what it knew before.
LEMMA WatchingWorks ==
  ASSUME NEW w \in Watches, WatchFits(w), NEW on \in BOOLEAN, active \in BOOLEAN
  PROVE  LET v == Watching(w, on) IN
         /\ v \in Watches /\ WatchFits(v)
         /\ on /\ active => v.timer \/ v.poll # None
         /\ v.poll \in {w.poll, None, Unread}
  BY MarkersAssumption DEF Watches, WatchFits, Watching, Polled, Off, Readings

\* So does polling at once.
LEMMA PollingWorks ==
  ASSUME NEW w \in Watches, WatchFits(w), active \in BOOLEAN
  PROVE  LET v == Polled(w) IN
         /\ v \in Watches /\ WatchFits(v)
         /\ w.on /\ active => v.poll # None
         /\ w.timer => v.timer
         /\ w.poll # None => v.poll # None
         /\ v.poll \in {w.poll, None, Unread}
  BY MarkersAssumption DEF Watches, WatchFits, Polled, Readings

\* The two together: refreshExecutionNow.
LEMMA RefreshingWorks ==
  ASSUME NEW w \in Watches, WatchFits(w), active \in BOOLEAN
  PROVE  LET v == Refreshed(w) IN
         /\ v \in Watches /\ WatchFits(v)
         /\ active => v.timer \/ v.poll # None
         /\ v.poll \in {w.poll, None, Unread}
<1>1. Watching(w, TRUE) \in Watches /\ WatchFits(Watching(w, TRUE))
  BY WatchingWorks
<1> QED
  BY <1>1, WatchingWorks, PollingWorks DEF Refreshed

\* An execution starts its timer again after a call, in the foreground.
LEMMA SchedulingWorks ==
  ASSUME NEW w \in Watches, WatchFits(w), w.poll # None, active \in BOOLEAN
  PROVE  LET v == Scheduled([w EXCEPT !.poll = None]) IN
         /\ v \in Watches /\ WatchFits(v) /\ v.poll = None
         /\ active => v.timer
  BY DEF Watches, WatchFits, Scheduled

\* The progress of a state is an integer; acknowledged or not, the poll is told
\* no more than the server knows.
LEMMA ProgressType ==
  ASSUME NEW s \in States
  PROVE  /\ Progress(s) \in Int
         /\ ExecutionView(s) \in States
         /\ Progress(ExecutionView(s)) <= Progress(s)
  BY BoundsAssumption DEF States, Modes, Progress, ExecutionView


-----------------------------------------------------------------------------
(* Types                                                                   *)

\* Every callback leaves the variables in their types and the watch in shape.
LEMMA TypeStep ==
  ASSUME TypeOK, WatchFits(watch), [Next]_vars
  PROVE  TypeOK' /\ WatchFits(watch')
<1> USE DEF TypeOK, Readings, session, provider, queue, boots, screen
<1>0. watch \in Watches /\ WatchFits(watch) /\ active \in BOOLEAN
  BY DEF Watches
<1>watching. ASSUME NEW w \in Watches, WatchFits(w)
       PROVE  /\ Watching(w, TRUE) \in Watches /\ WatchFits(Watching(w, TRUE))
              /\ Watching(w, FALSE) \in Watches /\ WatchFits(Watching(w, FALSE))
  BY <1>0, <1>watching, WatchingWorks
<1>off. Off \in Watches /\ WatchFits(Off)
  BY DEF Off, Watches, WatchFits
<1>1. CASE UNCHANGED vars
  BY <1>1 DEF vars
<1>2. CASE Timer
  <2>1. LET w == [watch EXCEPT !.timer = FALSE] IN w \in Watches /\ WatchFits(w)
    BY <1>0 DEF Watches, WatchFits
  <2> QED
    BY <1>0, <1>2, <2>1, PollingWorks DEF Timer, Watches
<1>3. CASE ReadPoll
  BY <1>0, <1>3, ProgressType, MarkersApart DEF ReadPoll, Watches, WatchFits
<1>4. CASE PollAnswered
  <2>1. watch.poll # None /\ watch.poll \in States
    BY <1>4, MarkersApart DEF PollAnswered
  <2>2. watch' = Scheduled([watch EXCEPT !.poll = None]) \/ watch' = Off
    BY <1>4 DEF PollAnswered
  <2>3. watch' \in Watches /\ WatchFits(watch')
    BY <1>0, <1>off, <2>1, <2>2, SchedulingWorks
  <2> QED
    BY <1>4, <2>1, <2>3, ZenonT(30) DEF PollAnswered, Watches
<1>5. CASE PollFailed
  BY <1>0, <1>5, SchedulingWorks DEF PollFailed, Watches
<1>6. CASE Boundary
  BY <1>6 DEF Boundary
<1>7. CASE Background
  <2>1. watch' \in Watches /\ WatchFits(watch')
    BY <1>0, <1>7 DEF Background, Watches, WatchFits
  <2>2. {signedIn, active, boundary, stale, ready, focused, dirty, missed}' \subseteq BOOLEAN
    BY <1>7 DEF Background
  <2>3. UNCHANGED <<server, event, boot, sync, lateSync, shown, next, load, action>>
    BY <1>7 DEF Background
  <2> QED
    BY <2>1, <2>2, <2>3 DEF Watches
<1>8. CASE Foreground
  BY <1>8 DEF Foreground
<1>9. CASE ReadSync
  <2>1. sync' \in [seen : {Unread} \cup BOOLEAN, then : BOOLEAN]
    BY <1>9 DEF ReadSync, Executing
  <2> QED
    BY <1>9, <2>1 DEF ReadSync
<1>10. CASE SyncAnswered
  <2>1. watch' \in {watch, Watching(watch, TRUE), Watching(watch, FALSE)}
    BY <1>10 DEF SyncAnswered, ForegroundHandled, Executing
  <2>2. watch' \in Watches /\ WatchFits(watch')
    BY <1>0, <1>watching, <2>1
  <2> QED
    BY <1>10, <2>2, ZenonT(30) DEF SyncAnswered, ForegroundHandled, Executing, Watches
<1>11. CASE SyncFailed
  BY <1>11 DEF SyncFailed
<1>12. CASE SignOut
  <2>1. watch' \in Watches /\ WatchFits(watch')
    BY <1>off, <1>12 DEF SignOut, Reset
  <2>2. action' \in {None} \cup [kind : DOMAIN Offered, mounted : BOOLEAN,
          answer : {Unread, "ok", "INVALID_REQUEST_STATE", "loading"}]
    BY <1>12 DEF SignOut, Reset
  <2>3. lateSync' \in {None, Unread} \cup BOOLEAN
    BY <1>12 DEF SignOut, Reset
  <2> QED
    BY <1>12, <2>1, <2>2, <2>3 DEF SignOut, Reset, Watches
<1>13. CASE SessionExpired
  <2>1. watch' \in Watches /\ WatchFits(watch')
    BY <1>off, <1>13 DEF SessionExpired, Reset
  <2>2. action' \in {None} \cup [kind : DOMAIN Offered, mounted : BOOLEAN,
          answer : {Unread, "ok", "INVALID_REQUEST_STATE", "loading"}]
    BY <1>13 DEF SessionExpired, Reset
  <2>3. lateSync' \in {None, Unread} \cup BOOLEAN
    BY <1>13 DEF SessionExpired, Reset
  <2> QED
    BY <1>13, <2>1, <2>2, <2>3 DEF SessionExpired, Reset, Watches
<1>14. CASE LateSyncAnswered
  <2>1. watch' \in {watch, Watching(watch, TRUE), Watching(watch, FALSE)}
    BY <1>14 DEF LateSyncAnswered, ForegroundHandled, Executing
  <2>2. watch' \in Watches /\ WatchFits(watch')
    BY <1>0, <1>watching, <2>1
  <2> QED
    BY <1>14, <2>2 DEF LateSyncAnswered, ForegroundHandled, Executing, Watches
<1>15. CASE SignIn
  BY <1>15 DEF SignIn
<1>16. CASE Focus
  BY <1>16 DEF Focus, Loading
<1>17. CASE Blur
  <2>1. focused' = FALSE /\ UNCHANGED <<server, session, provider, queue, boots, shown, next, dirty, load, action, missed>>
    BY <1>17 DEF Blur
  <2>2. {signedIn, active, boundary, stale, ready, focused, dirty, missed}' \subseteq BOOLEAN
    BY <2>1
  <2>3. watch' \in Watches /\ WatchFits(watch')
    BY <1>0, <2>1
  <2>4. server' \in States /\ event' \in {None, Failed} \cup States /\ boot' \in {None} \cup BOOLEAN
    BY <2>1
  <2> QED
    BY <2>1, <2>2, <2>3, <2>4 DEF Watches
<1>18. CASE ReadLoad
  BY <1>18 DEF ReadLoad
<1>19. CASE LoadAnswered
  <2>1. watch' \in Watches /\ WatchFits(watch')
    BY <1>0, <1>19, WatchingWorks DEF LoadAnswered
  <2> QED
    BY <1>19, <2>1, ZenonT(30) DEF LoadAnswered, Watches
<1>20. CASE LoadFailed
  BY <1>20 DEF LoadFailed
<1>21. CASE Render
  <2> DEFINE watched == IF dirty /\ next # None
                         THEN Watching(watch, next.mode = "EXECUTING") ELSE watch
  <2>1. watched \in Watches /\ WatchFits(watched)
    BY <1>0, WatchingWorks
  <2>2. watch' \in {watched, Watching(watched, TRUE), Watching(watched, FALSE)}
    BY <1>21 DEF Render
  <2>3. watch' \in Watches /\ WatchFits(watch')
    <3>1. CASE watch' = watched
      BY <2>1, <3>1
    <3>2. CASE watch' = Watching(watched, TRUE)
      BY <1>watching, <2>1, <3>2
    <3>3. CASE watch' = Watching(watched, FALSE)
      BY <1>watching, <2>1, <3>3
    <3> QED
      BY <2>2, <3>1, <3>2, <3>3
  <2>4. next' \in {None} \cup States /\ shown' \in {None} \cup States
    BY <1>21 DEF Render
  <2>5. load' \in {None} \cup Readings
    BY <1>21 DEF Render, Loading
  <2> QED
    BY <1>21, <2>3, <2>4, <2>5 DEF Render, Watches
<1>22. ASSUME NEW kind \in DOMAIN Offered, Begin(kind)
      PROVE  TypeOK' /\ WatchFits(watch')
  BY <1>22 DEF Begin, Offered
<1>23. CASE ServeAction
  BY <1>23, BoundsAssumption DEF ServeAction, Starts, Reply, Offered, States, Modes
<1>24. CASE StartAnswered
  <2>1. watch' \in Watches /\ WatchFits(watch')
    BY <1>0, <1>24, RefreshingWorks DEF StartAnswered
  <2>2. [mode |-> "EXECUTING", attempt |-> server.attempt] \in States
    BY DEF States, Modes
  <2>3. next' \in {None} \cup States /\ dirty' \in BOOLEAN /\ load' \in {None} \cup Readings
    BY <1>24, <2>2 DEF StartAnswered, Mutated
  <2> QED
    BY <1>24, <2>1, <2>3 DEF StartAnswered, Watches
<1>25. CASE AcknowledgeAnswered
  <2>1. [mode |-> "ENTRY", attempt |-> server.attempt] \in States
    BY DEF States, Modes
  <2>2. /\ next' \in {None} \cup States /\ dirty' \in BOOLEAN /\ load' \in {None} \cup Readings
        /\ focused' \in BOOLEAN
    BY <1>25, <2>1 DEF AcknowledgeAnswered, Mutated
  <2> QED
    BY <1>25, <2>2 DEF AcknowledgeAnswered
<1>26. CASE ActionRefused
  BY <1>26 DEF ActionRefused, Loading
<1>27. CASE ActionOver
  BY <1>27 DEF ActionOver
<1>28. CASE ServerFinishes
  BY <1>28 DEF ServerFinishes, States, Modes
<1> QED
  BY <1>1, <1>2, <1>3, <1>4, <1>5, <1>6, <1>7, <1>8, <1>9, <1>10, <1>11, <1>12, <1>13, <1>14, <1>15, <1>16, <1>17, <1>18, <1>19, <1>20, <1>21, <1>22, <1>23, <1>24, <1>25, <1>26, <1>27, <1>28 DEF Next

-----------------------------------------------------------------------------
(* The screen and the polling                                              *)

\* Tabs, renders and bootstrap data keep what they rest on.
LEMMA ScreenStep ==
  ASSUME TypeOK, TabsFit, RenderFits, BootLoads, [Next]_vars
  PROVE  TabsFit' /\ RenderFits' /\ BootLoads'
<1> USE MarkersAssumption DEF TabsFit, RenderFits, BootLoads, Queued,
        session, provider, queue, boots, screen
<1>1. CASE UNCHANGED vars
  BY <1>1 DEF vars
<1>2. CASE Timer
  BY <1>2 DEF Timer
<1>3. CASE ReadPoll
  BY <1>3 DEF ReadPoll
<1>4. CASE PollAnswered
  BY <1>4 DEF PollAnswered
<1>5. CASE PollFailed
  BY <1>5 DEF PollFailed
<1>6. CASE Boundary
  BY <1>6 DEF Boundary
<1>7. CASE Background
  BY <1>7 DEF Background
<1>8. CASE Foreground
  BY <1>8 DEF Foreground, TypeOK
<1>9. CASE ReadSync
  BY <1>9 DEF ReadSync, TypeOK
<1>10. CASE SyncAnswered
  BY <1>10 DEF SyncAnswered, TypeOK, ForegroundHandled
<1>11. CASE SyncFailed
  BY <1>11 DEF SyncFailed, TypeOK
<1>12. CASE SignOut
  BY <1>12 DEF SignOut, Reset
<1>13. CASE SessionExpired
  BY <1>13 DEF SessionExpired, Reset
<1>14. CASE LateSyncAnswered
  BY <1>14 DEF LateSyncAnswered, ForegroundHandled
<1>15. CASE SignIn
  BY <1>15 DEF SignIn
<1>16. CASE Focus
  BY <1>16 DEF Focus
<1>17. CASE Blur
  BY <1>17 DEF Blur
<1>18. CASE ReadLoad
  BY <1>18 DEF ReadLoad
<1>19. CASE LoadAnswered
  BY <1>19 DEF LoadAnswered
<1>20. CASE LoadFailed
  BY <1>20 DEF LoadFailed
<1>21. CASE Render
  BY <1>21 DEF Render, TypeOK
<1>22. ASSUME NEW kind \in DOMAIN Offered, Begin(kind)
       PROVE  TabsFit' /\ RenderFits' /\ BootLoads'
  BY <1>22 DEF Begin
<1>23. CASE ServeAction
  BY <1>23 DEF ServeAction
<1>24. CASE StartAnswered
  BY <1>24 DEF StartAnswered, Mutated
<1>25. CASE AcknowledgeAnswered
  BY <1>25 DEF AcknowledgeAnswered, Mutated
<1>26. CASE ActionRefused
  BY <1>26 DEF ActionRefused
<1>27. CASE ActionOver
  BY <1>27 DEF ActionOver
<1>28. CASE ServerFinishes
  BY <1>28 DEF ServerFinishes
<1> QED
  BY <1>1, <1>2, <1>3, <1>4, <1>5, <1>6, <1>7, <1>8, <1>9, <1>10, <1>11, <1>12, <1>13, <1>14, <1>15, <1>16, <1>17, <1>18, <1>19, <1>20, <1>21, <1>22, <1>23, <1>24, <1>25, <1>26, <1>27, <1>28 DEF Next
\* Whatever ends a source of news while the queued state is an execution leaves
\* another one.
LEMMA NewsStep ==
  ASSUME TypeOK, WatchFits(watch), TabsFit, RenderFits, BootLoads, NewsComes, [Next]_vars
  PROVE  NewsComes'
<1> USE MarkersAssumption DEF NewsComes, Visible, session, provider, queue, boots, screen
<1>0. watch \in Watches /\ active \in BOOLEAN
  BY DEF Watches, TypeOK
<1>1. CASE UNCHANGED vars
  BY <1>1 DEF vars
<1>2. CASE Timer
  <2>1. LET w == [watch EXCEPT !.timer = FALSE] IN
        w \in Watches /\ WatchFits(w) /\ w.on
    BY <1>0, <1>2 DEF Timer, Watches, WatchFits
  <2>2. active => watch'.poll # None
    BY <1>0, <1>2, <2>1, PollingWorks DEF Timer
  <2> QED
    BY <1>2, <2>2 DEF Timer
<1>3. CASE ReadPoll
  <2>1. watch'.poll \in States
    BY <1>0, <1>3, ProgressType DEF ReadPoll, Watches, TypeOK
  <2> QED
    BY <2>1
<1>4. CASE PollAnswered
  BY <1>4 DEF PollAnswered
<1>5. CASE PollFailed
  <2>1. active => watch'.timer
    BY <1>0, <1>5, SchedulingWorks DEF PollFailed
  <2> QED
    BY <1>5, <2>1 DEF PollFailed
<1>6. CASE Boundary
  BY <1>6 DEF Boundary
<1>7. CASE Background
  BY <1>7 DEF Background
<1>8. CASE Foreground
  <2>1. signedIn => sync' \in [seen : {Unread} \cup BOOLEAN, then : BOOLEAN]
    BY <1>8 DEF Foreground, TypeOK
  <2> QED
    BY <1>8, <2>1 DEF Foreground
<1>9. CASE ReadSync
  <2>1. sync' \in [seen : {Unread} \cup BOOLEAN, then : BOOLEAN]
    BY <1>9 DEF ReadSync, TypeOK, Executing
  <2> QED
    BY <1>9, <2>1 DEF ReadSync
<1>10. CASE SyncAnswered
  <2>1. boot' \in BOOLEAN
    BY <1>10 DEF SyncAnswered, TypeOK
  <2> QED
    BY <1>10, <2>1 DEF SyncAnswered
<1>11. CASE SyncFailed
  BY <1>11 DEF SyncFailed, TabsFit, TypeOK
<1>12. CASE SignOut
  BY <1>12 DEF SignOut, Reset
<1>13. CASE SessionExpired
  BY <1>13 DEF SessionExpired, Reset
<1>14. CASE LateSyncAnswered
  BY <1>14 DEF LateSyncAnswered, ForegroundHandled
<1>15. CASE SignIn
  BY <1>15 DEF SignIn, TabsFit
<1>16. CASE Focus
  BY <1>16 DEF Focus, Loading, Readings
<1>17. CASE Blur
  BY <1>17 DEF Blur
<1>18. CASE ReadLoad
  BY <1>18 DEF ReadLoad, TypeOK
<1>19. CASE LoadAnswered
  BY <1>19 DEF LoadAnswered
<1>20. CASE LoadFailed
  BY <1>20 DEF LoadFailed
<1>21. CASE Render
  <2> DEFINE watched == IF dirty /\ next # None
                         THEN Watching(watch, next.mode = "EXECUTING") ELSE watch
             takes == event \in States /\ HasRequest(next)
  <2>1. SUFFICES ASSUME signedIn, active, focused, ~missed, ~takes,
                        next # None, next.mode = "EXECUTING"
                 PROVE  watch'.timer \/ watch'.poll # None \/ load' # None \/ sync # None
    BY <1>21 DEF Render
  <2>2. event \notin States
    BY <2>1 DEF HasRequest
  <2>3. CASE stale
    BY <1>21, <2>1, <2>3 DEF Render, Loading, Readings
  <2>4. CASE ~stale /\ ~dirty /\ boot = None
    BY <1>21, <2>1, <2>2, <2>4 DEF Render
  <2>5. CASE ~stale /\ dirty /\ boot = None
    BY <1>0, <1>21, <2>1, <2>5, WatchingWorks DEF Render
  <2>6. CASE ~stale /\ boot # None
    BY <2>1, <2>6 DEF BootLoads
  <2> QED
    BY <2>3, <2>4, <2>5, <2>6, <1>0 DEF TypeOK
<1>22. ASSUME NEW kind \in DOMAIN Offered, Begin(kind)
       PROVE  NewsComes'
  BY <1>22 DEF Begin
<1>23. CASE ServeAction
  BY <1>23 DEF ServeAction
<1>24. CASE StartAnswered
  <2>1. active => watch'.timer \/ watch'.poll # None
    BY <1>0, <1>24, RefreshingWorks DEF StartAnswered
  <2> QED
    BY <1>24, <2>1 DEF StartAnswered
<1>25. CASE AcknowledgeAnswered
  BY <1>25 DEF AcknowledgeAnswered, Mutated
<1>26. CASE ActionRefused
  BY <1>26 DEF ActionRefused, Loading, Readings
<1>27. CASE ActionOver
  BY <1>27 DEF ActionOver
<1>28. CASE ServerFinishes
  BY <1>28 DEF ServerFinishes
<1> QED
  BY <1>1, <1>2, <1>3, <1>4, <1>5, <1>6, <1>7, <1>8, <1>9, <1>10, <1>11, <1>12, <1>13, <1>14, <1>15, <1>16, <1>17, <1>18, <1>19, <1>20, <1>21, <1>22, <1>23, <1>24, <1>25, <1>26, <1>27, <1>28 DEF Next

-----------------------------------------------------------------------------
(* What the app knows and the server                                       *)

\* The server only goes forward, and an acknowledged request has ended.
LEMMA ServerAdvances ==
  ASSUME TypeOK, [Next]_vars
  PROVE  /\ Progress(server) <= Progress(server')
         /\ server.mode = "ENTRY" => server'.mode = "ENTRY"
<1>1. CASE server' = server
  BY <1>1, ProgressType DEF TypeOK
<1>2. CASE ServeAction
  BY <1>2 DEF ServeAction, Starts, Reply, Offered, TypeOK, States, Modes, Progress
<1>3. CASE ServerFinishes
  BY <1>3 DEF ServerFinishes, TypeOK, States, Modes, Progress
<1> QED
  BY <1>1, <1>2, <1>3 DEF Next, vars, Timer, ReadPoll, PollAnswered, PollFailed, Boundary,
    Background, Foreground, ReadSync, SyncAnswered, SyncFailed, SignOut, SessionExpired, Reset,
    LateSyncAnswered, SignIn, Focus, Blur, ReadLoad, LoadAnswered, LoadFailed, Render, Begin,
    StartAnswered, AcknowledgeAnswered, ActionRefused, ActionOver

\* An acknowledgement is answered "ok" only where the request ends.
LEMMA AcknowledgedStep ==
  ASSUME TypeOK, AcknowledgedIsOver, [Next]_vars
  PROVE  AcknowledgedIsOver'
<1>1. CASE action' = action
  BY <1>1, ServerAdvances DEF AcknowledgedIsOver
<1>2. CASE ServeAction
  BY <1>2 DEF ServeAction, AcknowledgedIsOver, Starts, Reply, Offered, TypeOK, States, Modes
<1>3. CASE action' = None
  BY <1>3 DEF AcknowledgedIsOver
<1>4. ASSUME NEW kind \in DOMAIN Offered, Begin(kind)
      PROVE  AcknowledgedIsOver'
  BY <1>4, MarkersAssumption DEF Begin, AcknowledgedIsOver
<1>5. CASE SignOut \/ SessionExpired
  BY <1>5, ServerAdvances DEF SignOut, SessionExpired, Reset, AcknowledgedIsOver, TypeOK
<1>6. CASE ActionRefused
  BY <1>6 DEF ActionRefused, AcknowledgedIsOver, TypeOK
<1> QED
  BY <1>1, <1>2, <1>3, <1>4, <1>5, <1>6 DEF Next, vars, Timer, ReadPoll, PollAnswered,
    PollFailed, Boundary, Background, Foreground, ReadSync, SyncAnswered, SyncFailed,
    LateSyncAnswered, SignIn, Focus, Blur, ReadLoad, LoadAnswered, LoadFailed, Render,
    StartAnswered, AcknowledgeAnswered, ActionOver, ServerFinishes,
    session, provider, queue, boots, screen

\* The app knows what a call has read, less what came since: a load in flight
\* was read after the queued state, and a newer state drops it.
LEMMA KnownStep ==
  ASSUME TypeOK, WatchFits(watch), NothingAhead, AcknowledgedIsOver, LoadsBringNews, [Next]_vars
  PROVE  NothingAhead' /\ LoadsBringNews'
<1> USE MarkersAssumption DEF NothingAhead, LoadsBringNews,
        session, provider, queue, boots, screen
<1>1. /\ Progress(server) \in Int /\ Progress(server') \in Int
      /\ Progress(server) <= Progress(server')
      /\ \A s \in States : Progress(s) \in Int
  BY TypeStep, ServerAdvances, ProgressType DEF TypeOK
<1>2. watch \in Watches /\ active \in BOOLEAN
  BY DEF Watches, TypeOK
<1>3. CASE UNCHANGED vars
  BY <1>3 DEF vars
<1>4. CASE Timer
  <2>1. LET w == [watch EXCEPT !.timer = FALSE] IN
        w \in Watches /\ WatchFits(w) /\ w.poll = watch.poll
    BY <1>2 DEF Watches, WatchFits
  <2>2. watch'.poll \in {watch.poll, None, Unread}
    BY <1>2, <1>4, <2>1, PollingWorks DEF Timer
  <2> QED
    BY <1>4, <2>2 DEF Timer
<1>5. CASE ReadPoll
  <2>1. watch'.poll = ExecutionView(server)
    BY <1>2, <1>5 DEF ReadPoll, Watches
  <2>2. Progress(watch'.poll) <= Progress(server')
    BY <1>5, <1>1, <2>1, ProgressType DEF ReadPoll, TypeOK
  <2> QED
    BY <1>5, <2>2 DEF ReadPoll
<1>6. CASE PollAnswered
  <2>1. watch'.poll = None
    BY <1>2, <1>6, SchedulingWorks DEF PollAnswered, Off
  <2>2. event' = watch.poll /\ event' \in States
    BY <1>6 DEF PollAnswered
  <2> QED
    BY <1>6, <2>1, <2>2 DEF PollAnswered
<1>7. CASE PollFailed
  <2>1. watch'.poll = None
    BY <1>2, <1>7, SchedulingWorks DEF PollFailed
  <2> QED
    BY <1>7, <2>1 DEF PollFailed
<1>8. CASE Boundary
  BY <1>8 DEF Boundary
<1>9. CASE Background
  BY <1>9, <1>2 DEF Background, Watches
<1>10. CASE Foreground
  BY <1>10 DEF Foreground
<1>11. CASE ReadSync
  BY <1>11 DEF ReadSync
<1>12. CASE SyncAnswered
  <2>1. watch' \in {watch, Watching(watch, TRUE), Watching(watch, FALSE)}
    BY <1>12 DEF SyncAnswered, ForegroundHandled, TypeOK
  <2>2. watch'.poll \in {watch.poll, None, Unread}
    BY <1>2, <2>1, WatchingWorks
  <2> QED
    BY <1>12, <2>2 DEF SyncAnswered
<1>13. CASE SyncFailed
  BY <1>13 DEF SyncFailed
<1>14. CASE SignOut
  BY <1>14 DEF SignOut, Reset, Off
<1>15. CASE SessionExpired
  BY <1>15 DEF SessionExpired, Reset, Off
<1>16. CASE LateSyncAnswered
  <2>1. watch' \in {watch, Watching(watch, TRUE), Watching(watch, FALSE)}
    BY <1>16 DEF LateSyncAnswered, ForegroundHandled, Executing, TypeOK
  <2>2. watch'.poll \in {watch.poll, None, Unread}
    BY <1>2, <2>1, WatchingWorks
  <2> QED
    BY <1>16, <2>2 DEF LateSyncAnswered
<1>17. CASE SignIn
  BY <1>17 DEF SignIn
<1>18. CASE Focus
  BY <1>18 DEF Focus, Loading
<1>19. CASE Blur
  BY <1>19 DEF Blur
<1>20. CASE ReadLoad
  <2>1. load' = server /\ UNCHANGED <<server, next, event, watch>>
    BY <1>20 DEF ReadLoad
  <2>2. NothingAhead'
    BY <1>1, <2>1
  <2>3. next # None => Progress(server) >= Progress(next)
    BY <1>1 DEF TypeOK
  <2> QED
    BY <2>1, <2>2, <2>3
<1>21. CASE LoadAnswered
  <2>1. watch'.poll \in {watch.poll, None, Unread}
    BY <1>2, <1>21, WatchingWorks DEF LoadAnswered
  <2>2. load' = None /\ next' = load /\ load \in States /\ UNCHANGED <<server, event>>
    BY <1>21 DEF LoadAnswered
  <2> QED
    BY <1>1, <2>1, <2>2
<1>22. CASE LoadFailed
  BY <1>22 DEF LoadFailed
<1>23. CASE Render
  <2> DEFINE watched == IF dirty /\ next # None
                         THEN Watching(watch, next.mode = "EXECUTING") ELSE watch
  <2>1. watched \in Watches /\ WatchFits(watched) /\ watched.poll \in {watch.poll, None, Unread}
    BY <1>2, WatchingWorks
  <2>2. watch' \in {watched, Watching(watched, TRUE), Watching(watched, FALSE)}
    BY <1>23 DEF Render, TypeOK
  <2>3. watch'.poll \in {watch.poll, None, Unread}
    <3>1. CASE watch' = watched
      BY <2>1, <3>1
    <3>2. CASE watch' = Watching(watched, TRUE)
      BY <1>2, <2>1, <3>2, WatchingWorks
    <3>3. CASE watch' = Watching(watched, FALSE)
      BY <1>2, <2>1, <3>3, WatchingWorks
    <3> QED
      BY <2>2, <3>1, <3>2, <3>3
  <2>4. \/ next' = next /\ load' \in {load, Unread}
        \/ next' = event /\ event \in States /\ load' = None
    BY <1>23 DEF Render, Loading
  <2>5. event' = None /\ server' = server
    BY <1>23 DEF Render
  <2> QED
    BY <1>1, <2>3, <2>4, <2>5
<1>24. ASSUME NEW kind \in DOMAIN Offered, Begin(kind)
       PROVE  NothingAhead' /\ LoadsBringNews'
  BY <1>24 DEF Begin
<1>25. CASE ServeAction
  <2>1. UNCHANGED <<next, load, event, watch>>
    BY <1>25 DEF ServeAction
  <2> QED
    BY <1>1, <2>1 DEF TypeOK, Readings, Watches
<1>26. CASE StartAnswered
  <2>1. watch'.poll \in {watch.poll, None, Unread}
    BY <1>2, <1>26, RefreshingWorks DEF StartAnswered
  <2>2. Progress([mode |-> "EXECUTING", attempt |-> server.attempt]) <= Progress(server)
    BY BoundsAssumption DEF TypeOK, States, Modes, Progress
  <2>3. \/ next' = next /\ load' \in {load, None}
        \/ next' = [mode |-> "EXECUTING", attempt |-> server.attempt] /\ load' = None
    BY <1>26 DEF StartAnswered, Mutated
  <2>4. UNCHANGED <<server, event>>
    BY <1>26 DEF StartAnswered
  <2> QED
    BY <1>1, <2>1, <2>2, <2>3, <2>4
<1>27. CASE AcknowledgeAnswered
  <2>1. [mode |-> "ENTRY", attempt |-> server.attempt] = server
    BY <1>27 DEF AcknowledgeAnswered, AcknowledgedIsOver, TypeOK, States
  <2>2. \/ next' = next /\ load' \in {load, None}
        \/ next' = server /\ load' = None
    BY <1>27, <2>1 DEF AcknowledgeAnswered, Mutated
  <2>3. UNCHANGED <<server, event, watch>>
    BY <1>27 DEF AcknowledgeAnswered
  <2> QED
    BY <1>1, <2>2, <2>3
<1>28. CASE ActionRefused
  BY <1>28 DEF ActionRefused, Loading
<1>29. CASE ActionOver
  BY <1>29 DEF ActionOver
<1>30. CASE ServerFinishes
  <2>1. UNCHANGED <<next, load, event, watch>>
    BY <1>30 DEF ServerFinishes
  <2> QED
    BY <1>1, <2>1 DEF TypeOK, Readings, Watches
<1> QED
  BY <1>1, <1>2, <1>3, <1>4, <1>5, <1>6, <1>7, <1>8, <1>9, <1>10, <1>11, <1>12, <1>13, <1>14, <1>15, <1>16, <1>17, <1>18, <1>19, <1>20, <1>21, <1>22, <1>23, <1>24, <1>25, <1>26, <1>27, <1>28, <1>29, <1>30 DEF Next

-----------------------------------------------------------------------------
\* A start of the app: nothing shown, nothing known, one call for the tabs.
LEMMA InitialApp ==
  ASSUME Init
  PROVE  PollInv /\ LoadInv
<1>1. server \in States
  <2>1. server.mode \in FirstModes /\ server.attempt = 0
        /\ server = [mode |-> server.mode, attempt |-> server.attempt]
    BY DEF Init
  <2>2. server.mode \in Modes /\ 0 \in 0 .. MaxAttempts
    BY <2>1, FirstAssumption, BoundsAssumption DEF Modes
  <2> QED
    BY <2>1, <2>2 DEF States
<1>2. watch \in Watches /\ WatchFits(watch)
  BY DEF Init, Off, Watches, WatchFits
<1>3. TypeOK
  BY <1>1, <1>2 DEF Init, TypeOK, Watches
<1> QED
  BY <1>2, <1>3, MarkersApart DEF Init, PollInv, LoadInv, TabsFit, RenderFits, BootLoads, NewsComes,
     NothingAhead, AcknowledgedIsOver, LoadsBringNews, Off

\* Every callback keeps both invariants.
LEMMA AppInvariant == Spec => [](PollInv /\ LoadInv)
<1>1. PollInv /\ LoadInv /\ [Next]_vars => (PollInv /\ LoadInv)'
  BY TypeStep, ScreenStep, NewsStep, AcknowledgedStep, KnownStep DEF PollInv, LoadInv
<1> QED
  BY <1>1, InitialApp, PTL DEF Spec

\* The variables keep their types.
THEOREM TypeCorrect == Spec => []TypeOK
<1>1. PollInv => TypeOK
  BY DEF PollInv
<1> QED
  BY <1>1, AppInvariant, PTL

\* A screen in front that shows an execution has something that brings news.
THEOREM NewsOnTheWay == Spec => []PollingGoesOn
<1>1. PollInv => PollingGoesOn
  BY MarkersAssumption DEF PollInv, RenderFits, NewsComes, PollingGoesOn, Queued
<1> QED
  BY <1>1, AppInvariant, PTL

\* No load in flight brings back what the screen has left.
THEOREM LoadsAreNews == Spec => []LoadsBringNews
<1>1. LoadInv => LoadsBringNews
  BY DEF LoadInv
<1> QED
  BY <1>1, AppInvariant, PTL

==============================================================================
