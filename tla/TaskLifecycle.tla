--------------------------- MODULE TaskLifecycle ---------------------------
(***************************************************************************)
(* What the scheduler promises about its tasks, without queues, heaps,     *)
(* event masks or the atomic steps of Signal(): a task is idle, ready,     *)
(* running on one thread or gone; a thread runs one task at a time; and a  *)
(* ready task that is bound to a thread runs on that thread.               *)
(***************************************************************************)
CONSTANTS Tasks, Threads, NoThread

VARIABLES
    status,   \* "idle", "ready", "running" or "gone", for each task
    runner,   \* the thread that runs the task, or NoThread
    bound     \* the thread that must run the task next, or NoThread

lifecycleVars == <<status, runner, bound>>

Init ==
    /\ status = [t \in Tasks |-> "idle"]
    /\ runner = [t \in Tasks |-> NoThread]
    /\ bound = [t \in Tasks |-> NoThread]

\* An event arrives for a task nobody has scheduled.
Wake(t) ==
    /\ status[t] = "idle"
    /\ status' = [status EXCEPT ![t] = "ready"]
    /\ UNCHANGED <<runner, bound>>

\* A thread is chosen for a ready task that is not bound to one.
Choose(t, th) ==
    /\ status[t] = "ready" /\ bound[t] = NoThread
    /\ bound' = [bound EXCEPT ![t] = th]
    /\ UNCHANGED <<status, runner>>

\* The thread starts the task; the request it was bound by may be kept until
\* Run() is entered.
Start(t, th) ==
    /\ status[t] = "ready" /\ bound[t] = th
    /\ \A u \in Tasks : runner[u] # th
    /\ status' = [status EXCEPT ![t] = "running"]
    /\ runner' = [runner EXCEPT ![t] = th]
    /\ \E b \in {th, NoThread} : bound' = [bound EXCEPT ![t] = b]

\* While it runs, a task may ask for its thread; a new Run() forgets it.
Bind(t) ==
    /\ status[t] = "running"
    /\ \E b \in {runner[t], NoThread} : bound' = [bound EXCEPT ![t] = b]
    /\ UNCHANGED <<status, runner>>

\* Run() returned 0 and left no event behind.
Rest(t) ==
    /\ status[t] = "running"
    /\ status' = [status EXCEPT ![t] = "idle"]
    /\ runner' = [runner EXCEPT ![t] = NoThread]
    /\ UNCHANGED bound

\* Run() asked to be called again later: by the same thread.
Rearm(t) ==
    /\ status[t] = "running"
    /\ status' = [status EXCEPT ![t] = "ready"]
    /\ runner' = [runner EXCEPT ![t] = NoThread]
    /\ bound' = [bound EXCEPT ![t] = runner[t]]

\* Run() asked for the task's deletion: it never comes back.
Die(t) ==
    /\ status[t] = "running"
    /\ status' = [status EXCEPT ![t] = "gone"]
    /\ UNCHANGED <<runner, bound>>

\* The thread is done with a task that is gone.
Bury(t) ==
    /\ status[t] = "gone"
    /\ runner' = [runner EXCEPT ![t] = NoThread]
    /\ UNCHANGED <<status, bound>>

Next ==
    \E t \in Tasks :
        \/ Wake(t) \/ Bind(t) \/ Rest(t) \/ Rearm(t) \/ Die(t) \/ Bury(t)
        \/ \E th \in Threads : Choose(t, th) \/ Start(t, th)

Spec == Init /\ [][Next]_lifecycleVars
============================================================================
