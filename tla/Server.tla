------------------------------- MODULE Server ------------------------------
(***************************************************************************)
(* The life of the server: CFMain() and its shutdown in nine steps, the    *)
(* flags of CFState by which it talks to the EventThread, the loop of the  *)
(* EventThread, a TCPListenerSocket that accepts connections on it, and    *)
(* the sessions behind them.  How events are found and delivered is in     *)
(* module EventLoop; here a context is watched or not.                     *)
(*                                                                         *)
(* There is one listener.  RequestEvent() is two steps on a task thread,   *)
(* its test of kDisableEvent and the rest.  On the EventThread it is one:  *)
(* the clean-up that could come in between runs on the same thread.        *)
(***************************************************************************)
EXTENDS Naturals, FiniteSets

CONSTANTS
    Sessions,        \* HTTPSession objects
    MaxBacklog       \* bound: connections waiting to be accepted

ASSUME ServerAssumption == IsFiniteSet(Sessions) /\ MaxBacklog \in Nat \ {0}

Listener == "listener"
NoEvent == "none"

VARIABLES
    mainStep,         \* where CFMain() is
    sExitCode,        \* CFEnv::WillExit()
    sState,           \* flags of CFState
    sListenerSocket,  \* listeners CFState knows of
    loop,             \* where the EventThread is
    fStopRequested,   \* of the EventThread
    theReturnValue,   \* of the last select_waitevent()
    theErr,           \* of Entry(), which `continue` does not set
    theCurrentEvent,  \* context of the last event, kept until the next one
    watch,            \* of the listener and the sessions: "never" (RequestEvent() not
                      \*   called), "armed", "fired" (one shot), "removed", "closed" (no fd, or free)
    listener,         \* "none", "open", "killed" (signalled) or "deleted"
    backlog,          \* connections waiting at the listener
    fIdleTimer,       \* of the listener: "off", "set" or "fired"
    session,          \* [Sessions -> "free", "new", "open", "signalled", "asking" (in
                      \*   RequestEvent(), its test of kDisableEvent passed)]
    accepted,         \* the session that Run() of the listener has just made, or NoEvent
    listed,           \* the table when the clean-up began to go through it
    late              \* history: first requests past their test when kDisableEvent was set

mainVars == <<mainStep, sExitCode, sListenerSocket, fStopRequested, late>>
loopVars == <<loop, theReturnValue, theErr, theCurrentEvent, listed>>
svVars == <<mainVars, sState, loopVars, watch, listener, backlog, fIdleTimer, session, accepted>>

ServerState(step) ==
    /\ mainStep = step /\ sExitCode = 0 /\ sState = {} /\ sListenerSocket = {}
    /\ loop = "off" /\ fStopRequested = FALSE
    /\ theReturnValue = "0" /\ theErr = "0" /\ theCurrentEvent = NoEvent
    /\ watch = [c \in Sessions \cup {Listener} |-> IF c = Listener THEN "never" ELSE "closed"]
    /\ listener = "none" /\ backlog = 0 /\ fIdleTimer = "off"
    /\ session = [s \in Sessions |-> "free"] /\ accepted = NoEvent
    /\ listed = {} /\ late = {}

ServerInit == ServerState("base")

Running == mainStep \notin {"failed", "exited", "done"}

\* The task threads are there.
TasksRun == Running /\ mainStep \notin {"removed", "timeoutReleased"}

----------------------------------------------------------------------------
(* EventContext *)

\* Mutant: the flag is not looked at.
AllowedAlways == TRUE

Allowed == "kDisableEvent" \notin sState

\* The watches after RequestEvent() beyond its test: the first call registers and
\* watches the context, a later one modifies the watch, which fails if it was
\* removed.  Without a descriptor nothing happens.
Watched(w, c) == IF w[c] \in {"removed", "closed"} THEN w ELSE [w EXCEPT ![c] = "armed"]

Requested(w, c) == IF Allowed THEN Watched(w, c) ELSE w

\* RequestEvent(EV_RM).
Removed(w, c) == IF ~Allowed \/ w[c] \in {"never", "closed"} THEN w ELSE [w EXCEPT ![c] = "removed"]

CleanedUp(w, c) == [w EXCEPT ![c] = "closed"]

\* Contexts in the RefTable.
Registered == {c \in DOMAIN watch : watch[c] \in {"armed", "fired", "removed"}}

----------------------------------------------------------------------------
(* CFMain() *)

\* A part of the start, and the configuration's callback, whose error ends CFMain().
Startup(from, to, err) ==
    /\ mainStep = from /\ mainStep' = IF err THEN "failed" ELSE to
    /\ UNCHANGED <<sExitCode, sState, sListenerSocket, fStopRequested, late, theReturnValue, theErr,
                   theCurrentEvent, listed, watch, listener, backlog, fIdleTimer, session, accepted>>

AfterInitBase(err) == Startup("base", "threads", err) /\ UNCHANGED loop
AfterConfigThreads(err) == Startup("threads", "framework", err) /\ UNCHANGED loop
AfterConfigFramework(err) == Startup("framework", "services", err) /\ loop' = "wait"

\* StartupHTTPService(): a listener that cannot be bound is deleted, and no error
\* is returned; any other is made known to CFState and watched.
StartupCustomServices(bound) ==
    /\ mainStep = "services" /\ mainStep' = "running"
    /\ IF bound
       THEN /\ listener' = "open" /\ sListenerSocket' = {Listener}
            /\ watch' = Requested(watch, Listener)
       ELSE UNCHANGED <<listener, sListenerSocket, watch>>
    /\ UNCHANGED <<sExitCode, sState, fStopRequested, late, loopVars, backlog, fIdleTimer, session, accepted>>

\* The configuration's DoIdle(), which may call CFEnv::Exit().
DoIdle ==
    /\ mainStep = "running" /\ sExitCode = 0 /\ sExitCode' = 1
    /\ UNCHANGED <<mainStep, sState, sListenerSocket, fStopRequested, late, loopVars, watch, listener, backlog,
                   fIdleTimer, session, accepted>>

MainTo(from, to, flags) ==
    /\ mainStep = from /\ mainStep' = to
    /\ sState' = sState \cup flags
    /\ fStopRequested' = (fStopRequested \/ to = "joining")
    /\ late' = IF to = "disabled" THEN {s \in Sessions : session[s] = "asking" /\ watch[s] = "never"} ELSE late
    /\ UNCHANGED <<sExitCode, sListenerSocket, loopVars, watch, listener, backlog, fIdleTimer, session, accepted>>

\* Steps 1 to 3.  WaitProcessState() sets a flag and waits until the EventThread
\* has cleared it.
KillListener == sExitCode # 0 /\ MainTo("running", "killing", {"kKillListener"})
DisableEvent == "kKillListener" \notin sState /\ MainTo("killing", "disabled", {"kDisableEvent"})
CleanEvent == MainTo("disabled", "cleaning", {"kCleanEvent"})

\* Steps 4 and 5: the EventThread is joined, epoll closed.
SocketRelease == "kCleanEvent" \notin sState /\ MainTo("cleaning", "joining", {})
select_stopevents == loop = "ended" /\ MainTo("joining", "stopped", {})

\* Step 6: the timeout thread's task is told to end, and signals no more timeouts.
StopTask == MainTo("stopped", "timeoutKilled", {})

\* Step 7.  A thread ends when it finds its queue empty: what was signalled before
\* runs first.
SendStopRequests == MainTo("timeoutKilled", "removing", {})

NothingToRun ==
    /\ listener # "killed" /\ accepted = NoEvent /\ fIdleTimer # "fired"
    /\ \A s \in Sessions : session[s] \notin {"signalled", "asking"}

RemoveThreads == NothingToRun /\ MainTo("removing", "removed", {})

\* Steps 8 and 9: the task is deleted, and the idle thread is joined, which ends when
\* its heap is empty.
TimeoutRelease == MainTo("removed", "timeoutReleased", {})
IdleTaskRelease == fIdleTimer # "set" /\ MainTo("timeoutReleased", "done", {})

Main ==
    \/ \E err \in BOOLEAN : AfterInitBase(err) \/ AfterConfigThreads(err) \/ AfterConfigFramework(err)
    \/ \E bound \in BOOLEAN : StartupCustomServices(bound)
    \/ KillListener \/ DisableEvent \/ CleanEvent \/ SocketRelease \/ select_stopevents
    \/ StopTask \/ SendStopRequests \/ RemoveThreads \/ TimeoutRelease \/ IdleTaskRelease

----------------------------------------------------------------------------
(* TCPListenerSocket *)

AcceptOutcomes == {"connection", "EAGAIN", "EMFILE", "error"}

\* A new session, unless GetSessionTask() returns null.
NewSession == IF \E s \in Sessions : session[s] = "free"
              THEN CHOOSE s \in Sessions : session[s] = "free" ELSE NoEvent

\* accept() and GetSessionTask().  The process ends if there are no descriptors left.
\* On an error that ProcessEvent() does not look for it goes on without one: that
\* session gets no event.
Accept(outcome) ==
    /\ IF watch[Listener] = "closed" THEN outcome = "error" ELSE outcome = "EAGAIN" <=> backlog = 0
    /\ backlog' = IF outcome \in {"EAGAIN", "EMFILE"} \/ backlog = 0 THEN backlog ELSE backlog - 1
    /\ mainStep' = IF outcome = "EMFILE" THEN "exited" ELSE mainStep

NoSession(outcome) == outcome \in {"EAGAIN", "EMFILE"} \/ NewSession = NoEvent

\* The watches with that of a new session, before its first request.
Fresh(w, outcome) ==
    IF NoSession(outcome) THEN w
    ELSE [w EXCEPT ![NewSession] = IF outcome = "connection" THEN "never" ELSE "closed"]

\* The end of ProcessEvent().  "slow" says whether GetSessionTask() has called
\* SlowDown(); that of HTTPListenerSocket does if OverMaxConnections() says so, which
\* is always false in this version.  The watch is removed and a timer set instead.
Slowed(w, slow) == IF slow THEN Removed(w, Listener) ELSE w

\* ProcessEvent() on the EventThread.
ListenerProcessEvent(outcome, slow) ==
    LET opened == IF NoSession(outcome) THEN watch ELSE Requested(Fresh(watch, outcome), NewSession)
        returns == outcome \in {"EAGAIN", "EMFILE"}
    IN
    /\ Accept(outcome)
    /\ session' = IF NoSession(outcome) THEN session ELSE [session EXCEPT ![NewSession] = "open"]
    /\ watch' = IF returns THEN watch ELSE Slowed(opened, slow)
    /\ fIdleTimer' = IF slow /\ ~returns THEN "set" ELSE fIdleTimer

\* Run() on kKillEvent: the listener is deleted, and with it its timer.
ListenerKilled ==
    /\ TasksRun /\ listener = "killed" /\ accepted = NoEvent
    /\ listener' = "deleted" /\ watch' = CleanedUp(watch, Listener)
    /\ backlog' = 0 /\ fIdleTimer' = "off"
    /\ UNCHANGED <<mainVars, sState, loopVars, session, accepted>>

\* Run() on kIdleEvent, on a task thread: RequestEvent(EV_RE), then ProcessEvent() up
\* to RequestEvent() of the new session.  The request of the listener itself has been
\* made before, and modifies a watch that is as it was or gone.
ListenerRun(outcome) ==
    /\ TasksRun /\ listener = "open" /\ fIdleTimer = "fired" /\ fIdleTimer' = "off"
    /\ Accept(outcome)
    /\ watch' = Fresh(Requested(watch, Listener), outcome)
    /\ IF NoSession(outcome) THEN UNCHANGED <<session, accepted>>
       ELSE session' = [session EXCEPT ![NewSession] = "new"] /\ accepted' = NewSession
    /\ UNCHANGED <<sExitCode, sState, sListenerSocket, fStopRequested, late, loopVars, listener>>

\* RequestEvent() tests kDisableEvent.
ListenerAsks ==
    /\ TasksRun /\ accepted # NoEvent /\ session[accepted] = "new"
    /\ session' = [session EXCEPT ![accepted] = IF Allowed THEN "asking" ELSE "open"]
    /\ UNCHANGED <<mainVars, sState, loopVars, watch, listener, backlog, fIdleTimer, accepted>>

\* The rest of it.
ListenerRunEnds(slow) ==
    /\ TasksRun /\ accepted # NoEvent /\ session[accepted] # "new" /\ accepted' = NoEvent
    /\ watch' = Slowed(IF session[accepted] = "asking" THEN Watched(watch, accepted) ELSE watch, slow)
    /\ session' = [session EXCEPT ![accepted] = IF @ = "asking" THEN "open" ELSE @]
    /\ fIdleTimer' = IF slow THEN "set" ELSE fIdleTimer
    /\ UNCHANGED <<mainVars, sState, loopVars, listener, backlog>>

\* kIdleEvent: while the task threads end, its thread may have gone; later Signal()
\* finds no thread.
TimerExpires ==
    /\ Running /\ fIdleTimer = "set"
    /\ fIdleTimer' \in (IF TasksRun THEN {"fired"} ELSE {}) \cup (IF TasksRun /\ mainStep # "removing" THEN {} ELSE {"off"})
    /\ UNCHANGED <<mainVars, sState, loopVars, watch, listener, backlog, session, accepted>>

----------------------------------------------------------------------------
(* EventThread::Entry() *)

LoopTo(from, to) ==
    /\ Running /\ loop = from /\ loop' = to
    /\ UNCHANGED <<sExitCode, fStopRequested, late, accepted>>

StopRequested ==
    /\ fStopRequested /\ LoopTo("wait", "ended")
    /\ UNCHANGED <<mainStep, sState, sListenerSocket, theReturnValue, theErr, theCurrentEvent, listed, watch,
                   listener, backlog, fIdleTimer, session>>

\* The watch of a session is one shot, that of the listener is not.
Fired(w, c) == IF c = Listener THEN w ELSE [w EXCEPT ![c] = "fired"]

\* select_waitevent() returns an event, or EINTR after 15 seconds without one,
\* which leaves theCurrentEvent as it was.
WaitEvent(c) ==
    /\ ~fStopRequested /\ LoopTo("wait", "check")
    /\ IF c = NoEvent
       THEN /\ backlog = 0 \/ watch[Listener] # "armed"
            /\ theReturnValue' = "EINTR" /\ UNCHANGED <<theCurrentEvent, watch>>
       ELSE /\ watch[c] = "armed" /\ (c = Listener => backlog > 0)
            /\ theReturnValue' = "0" /\ theCurrentEvent' = c
            /\ watch' = Fired(watch, c)
    /\ UNCHANGED <<mainStep, sState, sListenerSocket, theErr, listed, listener, backlog, fIdleTimer, session>>

\* Mutant: the flag is cleared only if there was a listener to stop.
ClearedIfAny(flag) == IF sListenerSocket = {} THEN sState ELSE sState \ {flag}

Cleared(flag) == sState \ {flag}

\* Where the loop goes on: its condition looks at theErr, which `continue` leaves.
Onwards == IF theErr' = "EINTR" THEN "wait" ELSE "process"

\* The flags of CFState are looked at when select_waitevent() has returned.
CheckState ==
    /\ CASE "kKillListener" \in sState ->
              /\ sState' = Cleared("kKillListener") /\ sListenerSocket' = {}
              /\ IF sListenerSocket = {} \/ listener # "open" THEN UNCHANGED <<watch, listener>>
                 ELSE watch' = Removed(watch, Listener) /\ listener' = "killed"
              /\ UNCHANGED <<theErr, listed>> /\ LoopTo("check", Onwards)
         [] "kCleanEvent" \in sState /\ "kKillListener" \notin sState ->
              /\ listed' = Registered /\ LoopTo("check", "clean")
              /\ UNCHANGED <<sState, sListenerSocket, watch, listener, theErr>>
         [] OTHER ->
              /\ theErr' = theReturnValue /\ LoopTo("check", Onwards)
              /\ UNCHANGED <<sState, sListenerSocket, watch, listener, listed>>
    /\ UNCHANGED <<mainStep, theReturnValue, theCurrentEvent, backlog, fIdleTimer, session>>

\* The iterator goes through the table without its mutex: it comes to every context
\* that was there and still is, and may come to one that is added meanwhile.
CleanContext(c) ==
    /\ c \in Registered /\ LoopTo("clean", "clean")
    /\ watch' = CleanedUp(watch, c) /\ backlog' = IF c = Listener THEN 0 ELSE backlog
    /\ UNCHANGED <<mainStep, sState, sListenerSocket, theReturnValue, theErr, theCurrentEvent, listed, listener,
                   fIdleTimer, session>>

\* The iteration is over.
CleanEnds ==
    /\ Registered \cap listed = {} /\ UNCHANGED theErr /\ LoopTo("clean", Onwards)
    /\ sState' = sState \ {"kCleanEvent"}
    /\ UNCHANGED <<mainStep, sListenerSocket, theReturnValue, theCurrentEvent, listed, watch, listener, backlog,
                   fIdleTimer, session>>

\* Resolve(), ProcessEvent() and Release() of the current event.
ServerProcessEvent(outcome, slow) ==
    /\ LoopTo("process", "wait")
    /\ CASE theCurrentEvent \notin Registered -> UNCHANGED <<mainStep, watch, backlog, fIdleTimer, session>>
         [] theCurrentEvent = Listener /\ Listener \in Registered ->
              ListenerProcessEvent(outcome, slow)
         [] OTHER -> /\ session' = [session EXCEPT ![theCurrentEvent] = IF @ = "open" THEN "signalled" ELSE @]
                     /\ UNCHANGED <<mainStep, watch, backlog, fIdleTimer>>
    /\ UNCHANGED <<sState, sListenerSocket, theReturnValue, theErr, theCurrentEvent, listed, listener>>

----------------------------------------------------------------------------
(* Sessions and clients *)

\* A session runs on its event: it ends, or asks for the next one; the handler of
\* /exit asks the server to stop.
SessionRun(s, ends, exit) ==
    /\ TasksRun /\ session[s] = "signalled"
    /\ session' = [session EXCEPT ![s] = IF ends THEN "free" ELSE IF Allowed THEN "asking" ELSE "open"]
    /\ watch' = IF ends THEN CleanedUp(watch, s) ELSE watch
    /\ sExitCode' = IF exit THEN 1 ELSE sExitCode
    /\ UNCHANGED <<mainStep, sListenerSocket, fStopRequested, late, sState, loopVars, listener, backlog, fIdleTimer,
                   accepted>>

\* RequestEvent() of a session beyond its test.
SessionRequests(s) ==
    /\ TasksRun /\ session[s] = "asking" /\ s # accepted
    /\ session' = [session EXCEPT ![s] = "open"] /\ watch' = Watched(watch, s)
    /\ UNCHANGED <<mainVars, sState, loopVars, listener, backlog, fIdleTimer, accepted>>

\* The timeout of a session ends it, the last one in a scan that step 6 comes upon.
SessionTimesOut(s) ==
    /\ TasksRun /\ session[s] = "open" /\ s # accepted
    /\ session' = [session EXCEPT ![s] = "free"]
    /\ watch' = CleanedUp(watch, s)
    /\ UNCHANGED <<mainVars, sState, loopVars, listener, backlog, fIdleTimer, accepted>>

\* A client connects; a session object is left for it.
ClientConnects ==
    /\ Running /\ listener \in {"open", "killed"} /\ watch[Listener] # "closed"
    /\ backlog < MaxBacklog /\ Cardinality({s \in Sessions : session[s] = "free"}) > backlog
    /\ backlog' = backlog + 1
    /\ UNCHANGED <<mainVars, sState, loopVars, watch, listener, fIdleTimer, session, accepted>>

Clean == CleanEnds \/ \E c \in Sessions \cup {Listener} : CleanContext(c)

EventThreadStep ==
    \/ StopRequested \/ CheckState \/ Clean
    \/ \E c \in Sessions \cup {Listener, NoEvent} : WaitEvent(c)
    \/ \E o \in AcceptOutcomes, slow \in BOOLEAN : ServerProcessEvent(o, slow)

ListenerTask ==
    \/ ListenerKilled \/ ListenerAsks \/ \E o \in AcceptOutcomes : ListenerRun(o)
    \/ \E slow \in BOOLEAN : ListenerRunEnds(slow)

SessionTask(s) == SessionRequests(s) \/ \E ends, exit \in BOOLEAN : SessionRun(s, ends, exit)

ServerNext ==
    \/ Main \/ EventThreadStep \/ ListenerTask
    \/ \E s \in Sessions : SessionTask(s) \/ SessionTimesOut(s)
    \/ DoIdle \/ TimerExpires \/ ClientConnects

\* Main, the EventThread, the idle thread and the tasks run; a session's timeout
\* comes as long as timeouts are served.
ServerFairness ==
    /\ WF_svVars(Main) /\ WF_svVars(EventThreadStep)
    /\ WF_svVars(ListenerTask) /\ WF_svVars(TimerExpires)
    /\ \A s \in Sessions : /\ WF_svVars(SessionTask(s))
                            /\ WF_svVars(SessionTimesOut(s) /\ mainStep \notin {"timeoutKilled", "removing"})

ServerSpec == ServerInit /\ [][ServerNext]_svVars /\ ServerFairness

----------------------------------------------------------------------------
(* Properties *)

\* Step 3 of the shutdown is done.
CleanDone ==
    \/ mainStep = "cleaning" /\ "kCleanEvent" \notin sState
    \/ mainStep \in {"joining", "stopped", "timeoutKilled", "removing", "removed", "timeoutReleased", "done"}

\* From the end of step 3 on, when the EventThread and epoll are released, the only
\* contexts in the table or watched are those whose first RequestEvent(), on another
\* thread, was between its test of kDisableEvent and its registration when the flag was
\* set.  Whatever else was registered is cleaned up, and none comes back: not a session
\* that asks again, that is cleaned up in the middle of a request, or that is accepted
\* during the shutdown.
OnlyLateRegistered == CleanDone => Registered \subseteq late

\* A server that is told to exit gets through all nine steps of the shutdown, each with
\* what it waits for: the EventThread's answers to the flags and its end, the end of the
\* task threads, which first run what was signalled, and that of the idle thread, which
\* first lets its timers expire.  Connections come in and sessions run meanwhile; only
\* running out of descriptors ends the process before.
ShutdownCompletes == sExitCode # 0 ~> mainStep \in {"done", "exited"}
============================================================================
