---------------------------- MODULE VVThreadLoop -----------------------------
(***************************************************************************)
(* VVThreadLoop, the loop on a thread of its own that OSCInPort listens    *)
(* with.  The thread that owns the loop and the threads start detaches     *)
(* share two flags and no lock; both flags are set by the new thread, in   *)
(* its first lines.                                                        *)
(*                                                                         *)
(* Left out: the sleep between two rounds and what a round does.           *)
(***************************************************************************)
EXTENDS Naturals

CONSTANT MaxThreads     \* bound: how many threads are detached

VARIABLES
    running, bail,
    owner,      \* where the thread that owns the loop stands
    detached,   \* how many threads start has detached
    at,         \* where a detached thread stands
    stopped     \* history: stopAndWaitUntilDone has returned, and start was
                \* not called since

vars == <<running, bail, owner, detached, at, stopped>>

Threads == 1 .. MaxThreads

Init ==
    /\ running = FALSE /\ bail = FALSE
    /\ owner = "free"
    /\ detached = 0 /\ at = [t \in Threads |-> "none"]
    /\ stopped = FALSE

-----------------------------------------------------------------------------
\* The owner's calls.  start detaches a thread unless one is running.
Start ==
    /\ owner = "free"
    /\ detached < MaxThreads
    /\ IF running
         THEN UNCHANGED <<detached, at>>
         ELSE /\ detached' = detached + 1
              /\ at' = [at EXCEPT ![detached + 1] = "detached"]
    /\ stopped' = FALSE
    /\ UNCHANGED <<running, bail, owner>>

\* stop reads one flag; if it is set, it sets the other later.
Stop ==
    /\ owner = "free"
    /\ owner' = IF running THEN "stopping" ELSE "free"
    /\ UNCHANGED <<running, bail, detached, at, stopped>>

\* The call of stop with which stopAndWaitUntilDone begins.
StopAndWaitUntilDone ==
    /\ owner = "free"
    /\ owner' = IF running THEN "stoppingToWait" ELSE "waiting"
    /\ UNCHANGED <<running, bail, detached, at, stopped>>

StopSets ==
    /\ owner \in {"stopping", "stoppingToWait"}
    /\ bail' = TRUE
    /\ owner' = IF owner = "stopping" THEN "free" ELSE "waiting"
    /\ UNCHANGED <<running, detached, at, stopped>>

\* stopAndWaitUntilDone spins while the flag is set, then returns.
WaitEnds ==
    /\ owner = "waiting"
    /\ ~running
    /\ owner' = "free"
    /\ stopped' = TRUE
    /\ UNCHANGED <<running, bail, detached, at>>

-----------------------------------------------------------------------------
\* threadCallback, line by line as far as it touches the flags.
SetsRunning(t) ==
    /\ at[t] = "detached"
    /\ at' = [at EXCEPT ![t] = "begun"]
    /\ running' = TRUE
    /\ UNCHANGED <<bail, owner, detached, stopped>>

ClearsBail(t) ==
    /\ at[t] = "begun"
    /\ at' = [at EXCEPT ![t] = "looping"]
    /\ bail' = FALSE
    /\ UNCHANGED <<running, owner, detached, stopped>>

\* The condition of the loop, and then threadProc or the end of the loop.
TestsFlags(t) ==
    /\ at[t] = "looping"
    /\ at' = [at EXCEPT ![t] = IF running /\ ~bail THEN "threadProc" ELSE "leaving"]
    /\ UNCHANGED <<running, bail, owner, detached, stopped>>

ThreadProc(t) ==
    /\ at[t] = "threadProc"
    /\ at' = [at EXCEPT ![t] = "looping"]
    /\ UNCHANGED <<running, bail, owner, detached, stopped>>

ClearsRunning(t) ==
    /\ at[t] = "leaving"
    /\ at' = [at EXCEPT ![t] = "done"]
    /\ running' = FALSE
    /\ UNCHANGED <<bail, owner, detached, stopped>>

Next ==
    \/ Start \/ Stop \/ StopAndWaitUntilDone \/ StopSets \/ WaitEnds
    \/ \E t \in Threads : \/ SetsRunning(t) \/ ClearsBail(t) \/ TestsFlags(t)
                          \/ ThreadProc(t) \/ ClearsRunning(t)

Spec == Init /\ [][Next]_vars

-----------------------------------------------------------------------------
TypeOK ==
    /\ running \in BOOLEAN /\ bail \in BOOLEAN /\ stopped \in BOOLEAN
    /\ owner \in {"free", "stopping", "stoppingToWait", "waiting"}
    /\ detached \in 0 .. MaxThreads
    /\ at \in [Threads -> {"none", "detached", "begun", "looping",
                           "threadProc", "leaving", "done"}]

\* "Stops execution and doesn't return until the thread's done executing and
\* has been closed" (VVThreadLoop.h:42): once stopAndWaitUntilDone has
\* returned, and until the next start, no thread is executing threadProc.
StoppedIsDone ==
    stopped => \A t \in Threads : at[t] # "threadProc"

=============================================================================
