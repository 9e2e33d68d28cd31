----------------------------- MODULE ResourceQueue -----------------------------
(***************************************************************************)
(* One resource of the local engine (recognition, speakers or language      *)
(* model): one task at a time, in turn, and what the queue monitor shows.   *)
(*                                                                         *)
(*   pipeline/resource_queue.rs      acquire, WaitGuard, QueuePermit        *)
(*   local_engine/stt.rs,                                                  *)
(*   local_engine/sidecar.rs         the process run under the permit       *)
(*   local_engine/diarization.rs     the blocking run, which no abort ends  *)
(*                                                                         *)
(* The list the monitor shows and the semaphore are two things: a task is   *)
(* entered in the list, then asks the semaphore, and is taken off the list  *)
(* after the semaphore let it in.  It can be aborted wherever it awaits.    *)
(***************************************************************************)
EXTENDS Naturals, Sequences

CONSTANTS
    Tasks,      \* the runs that need the resource
    Blocking,   \* those that run in spawn_blocking (speakers)
    Free

ASSUME QueueAssumption == Free \notin Tasks /\ Blocking \subseteq Tasks

VARIABLES
    step,       \* where each task is
    permit,     \* who has the semaphore's permit
    semQueue,   \* who waits for it, in turn
    waitingList, busy,  \* ResState
    processes   \* the processes and blocking computations that run

queueVars == <<step, permit, semQueue, waitingList, busy, processes>>

Steps == {"out", "listed", "queued", "granted", "holding", "running", "ended", "cleared",
          "leaving", "done"}

QueueTypeOK ==
    /\ step \in [Tasks -> Steps]
    /\ permit \in Tasks \cup {Free}
    /\ semQueue \in Seq(Tasks)
    /\ waitingList \subseteq Tasks
    /\ busy \in Tasks \cup {Free}
    /\ processes \subseteq Tasks

QueueInit ==
    /\ step = [t \in Tasks |-> "out"]
    /\ permit = Free /\ semQueue = <<>>
    /\ waitingList = {} /\ busy = Free
    /\ processes = {}

Move(t, from, to) == step[t] = from /\ step' = [step EXCEPT ![t] = to]

\* waiting.push
ListTicket(t) ==
    /\ Move(t, "out", "listed")
    /\ waitingList' = waitingList \cup {t}
    /\ UNCHANGED <<permit, semQueue, busy, processes>>

\* acquire_owned: the permit at once if it is there, else a place in the queue.
AskSemaphore(t) ==
    \/ /\ permit = Free
       /\ Move(t, "listed", "granted")
       /\ permit' = t
       /\ UNCHANGED <<semQueue, waitingList, busy, processes>>
    \/ /\ permit # Free
       /\ Move(t, "listed", "queued")
       /\ semQueue' = Append(semQueue, t)
       /\ UNCHANGED <<permit, waitingList, busy, processes>>

\* The permit goes to the first in the queue, who finds it when it is polled.
HandOn(s) ==
    IF semQueue = <<>>
    THEN step' = s /\ permit' = Free /\ UNCHANGED semQueue
    ELSE /\ step' = [s EXCEPT ![Head(semQueue)] = "granted"]
         /\ permit' = Head(semQueue)
         /\ semQueue' = Tail(semQueue)

\* waiting.retain, busy = Some, the guard disarmed.
ShowBusy(t) ==
    /\ Move(t, "granted", "holding")
    /\ waitingList' = waitingList \ {t}
    /\ busy' = t
    /\ UNCHANGED <<permit, semQueue, processes>>

StartProcess(t) ==
    /\ Move(t, "holding", "running")
    /\ processes' = processes \cup {t}
    /\ UNCHANGED <<permit, semQueue, waitingList, busy>>

\* Mutant: an abort releases the permit and leaves the process.
EndProcessDetached(t) ==
    /\ Move(t, "running", "ended")
    /\ UNCHANGED <<permit, semQueue, waitingList, busy, processes>>

\* The process exits, times out or errs and is killed by its guard; an abort
\* drops the guard, which kills it, before the permit is dropped.  A blocking
\* run has the permit with it: it ends only by itself.
EndProcess(t) ==
    /\ Move(t, "running", "ended")
    /\ processes' = processes \ {t}
    /\ UNCHANGED <<permit, semQueue, waitingList, busy>>

\* Drop of QueuePermit, its own part; also of one whose process never started.
ClearBusy(t) ==
    /\ \/ step[t] = "ended"
       \/ step[t] = "holding" /\ t \notin Blocking
    /\ step' = [step EXCEPT ![t] = "cleared"]
    /\ busy' = IF busy = t THEN Free ELSE busy
    /\ UNCHANGED <<permit, semQueue, waitingList, processes>>

\* Mutant: nobody is told that the permit is free.
ReturnPermitSilently(t) ==
    /\ Move(t, "cleared", "done")
    /\ permit' = Free
    /\ UNCHANGED <<semQueue, waitingList, busy, processes>>

\* ... and of the semaphore's permit in it.
ReturnPermit(t) ==
    /\ step[t] = "cleared"
    /\ HandOn([step EXCEPT ![t] = "done"])
    /\ UNCHANGED <<waitingList, busy, processes>>

\* The queue without its i-th place.
Without(i) ==
    [j \in 1..(Len(semQueue) - 1) |-> IF j < i THEN semQueue[j] ELSE semQueue[j + 1]]

\* An abort while the task waits: its place in the queue goes, and a permit it
\* was given and did not find yet goes to the next.
CancelWait(t) ==
    \/ /\ Move(t, "queued", "leaving")
       /\ \E i \in 1..Len(semQueue) : semQueue[i] = t /\ semQueue' = Without(i)
       /\ UNCHANGED <<permit, waitingList, busy, processes>>
    \/ /\ step[t] = "granted"
       /\ HandOn([step EXCEPT ![t] = "leaving"])
       /\ UNCHANGED <<waitingList, busy, processes>>

\* Drop of WaitGuard.
DropWaitGuard(t) ==
    /\ Move(t, "leaving", "done")
    /\ waitingList' = waitingList \ {t}
    /\ UNCHANGED <<permit, semQueue, busy, processes>>

Advance(t) ==
    \/ AskSemaphore(t) \/ ShowBusy(t) \/ StartProcess(t) \/ EndProcess(t) \/ ClearBusy(t)
    \/ ReturnPermit(t) \/ DropWaitGuard(t)

QueueNext == \E t \in Tasks : ListTicket(t) \/ Advance(t) \/ CancelWait(t)

\* Whoever was let in goes on: processes have timeouts.
QueueFairness == \A t \in Tasks : WF_queueVars(Advance(t))

QueueSpec == QueueInit /\ [][QueueNext]_queueVars /\ QueueFairness
-----------------------------------------------------------------------------
(* Properties *)

\* Never two processes of one resource, whatever is aborted where.
OneProcess == \A t, u \in processes : t = u

\* What the monitor shows as busy has the permit, and an idle resource is not
\* shown as busy.
BusyHasPermit == busy # Free => permit = busy

\* The list of the waiting shows nobody who is gone.
NoGhostTicket == \A t \in waitingList : step[t] \notin {"out", "done"}

\* Everyone in the queue is let in or leaves: no permit is lost by an abort.
QueueMoves == \A t \in Tasks : step[t] = "queued" ~> step[t] # "queued"

\* The resource has one user, and the monitor shows who it is.
QueueSafe == QueueTypeOK /\ OneProcess /\ BusyHasPermit /\ NoGhostTicket
=============================================================================
