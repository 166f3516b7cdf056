---------------------------- MODULE ThreadPool ----------------------------
(***************************************************************************)
(* The thread pool of src/include/threading: ThreadPool in thread_pool.hpp *)
(* over one WorkStealingQueue (work_stealing_queue.hpp) per worker, a      *)
(* std::deque under a mutex with a condition variable.                     *)
(*                                                                         *)
(* A blocking operation on a queue takes two steps, locking and the body   *)
(* that unlocks; tryPop and steal only try the lock and go on when another *)
(* thread holds it.  Only worker w ever sleeps on the condition variable   *)
(* of queue w.  A spurious wake-up is left out: the wait has a predicate,  *)
(* so it has the effect of a wake-up whose task was stolen meanwhile.      *)
(*                                                                         *)
(* Clients submit tasks, wait for all of them and shut the pool down, in   *)
(* any order and concurrently.  The destructor is a shutdown that joins    *)
(* the workers and then drops what is still queued.                        *)
(***************************************************************************)
EXTENDS Integers, Sequences, FiniteSets

CONSTANTS
  NumThreads,   \* num_threads_
  Clients,      \* threads that use the pool
  Tasks,        \* bound: tasks that may be submitted, each once
  Failing,      \* the tasks that throw
  NoTask,       \* an empty std::function
  Free          \* no holder of a mutex

Workers == 0 .. NumThreads - 1
Threads == Workers \cup Clients

ASSUME ThreadPoolAssumption ==
  /\ NumThreads \in Nat \ {0}
  /\ IsFiniteSet(Clients) /\ IsFiniteSet(Tasks) /\ Failing \subseteq Tasks
  /\ Workers \cap Clients = {} /\ NoTask \notin Tasks /\ Free \notin Threads

VARIABLES
  queue,        \* task_queues_[q]->queue_
  lock,         \* the holder of task_queues_[q]->mutex_
  closed,       \* task_queues_[q]->shutdown_
  stop_flag, active_tasks, total_tasks, completed_tasks, failed_tasks,
  next_queue,   \* next_queue_ modulo NumThreads
  pc,           \* where each thread is
  at,           \* the queue a thread works on
  task,         \* the task a thread holds
  seen,         \* total, as a waiting client read it
  counted,      \* completed, then completed + failed, as it read them
  accepted,     \* history: tasks whose push succeeded
  early,        \* history: those accepted before shutdown was called
  finished,     \* history: tasks that ran
  rejected,     \* history: tasks whose submission threw
  late          \* history: a task was counted after this client read total

counters == <<active_tasks, total_tasks, completed_tasks, failed_tasks>>
waits == <<seen, counted, late>>
history == <<accepted, early, finished, rejected>>
vars == <<queue, lock, closed, stop_flag, counters, next_queue, pc, at, task,
          waits, history>>

----------------------------------------------------------------------------
(* The constructor: the queues are there before the workers start.         *)
Init ==
  /\ queue = [q \in Workers |-> << >>]
  /\ lock = [q \in Workers |-> Free]
  /\ closed = [q \in Workers |-> FALSE]
  /\ stop_flag = FALSE
  /\ active_tasks = 0 /\ total_tasks = 0
  /\ completed_tasks = 0 /\ failed_tasks = 0
  /\ next_queue = 0
  /\ pc = [t \in Threads |-> IF t \in Workers THEN "tryPop" ELSE "idle"]
  /\ at = [t \in Threads |-> 0]
  /\ task = [t \in Threads |-> NoTask]
  /\ seen = [c \in Clients |-> 0]
  /\ counted = [c \in Clients |-> 0]
  /\ late = [c \in Clients |-> FALSE]
  /\ accepted = {} /\ early = {} /\ finished = {} /\ rejected = {}

(* Steps of a thread.  Locals that are dead are reset.                     *)
Goto(t, place) == pc' = [pc EXCEPT ![t] = place]
TurnTo(t, q) == at' = [at EXCEPT ![t] = q]
ForgetReadings(c) ==
  /\ seen' = [seen EXCEPT ![c] = 0]
  /\ counted' = [counted EXCEPT ![c] = 0]
  /\ late' = [late EXCEPT ![c] = FALSE]

(* The mutex of queue q: taken when free, given back by its holder.        *)
Lock(q, t) == lock[q] = Free /\ lock' = [lock EXCEPT ![q] = t]
Unlock(q) == lock' = [lock EXCEPT ![q] = Free]

(* notify_one and notify_all: at most worker q sleeps on queue q.          *)
Notify(q, t, place) ==
  pc' = [pc EXCEPT ![t] = place, ![q] = IF @ = "asleep" THEN "lockPop" ELSE @]

(* The owner takes the newest task, a thief the oldest one.                *)
PopBack(q, t) ==
  /\ task' = [task EXCEPT ![t] = queue[q][Len(queue[q])]]
  /\ queue' = [queue EXCEPT ![q] = SubSeq(@, 1, Len(@) - 1)]
PopFront(q, t) ==
  /\ task' = [task EXCEPT ![t] = Head(queue[q])]
  /\ queue' = [queue EXCEPT ![q] = Tail(@)]

----------------------------------------------------------------------------
(* workerThread                                                            *)

(* tryPop on the own queue: a lock somebody else holds is an error, which  *)
(* the worker treats like an empty queue.                                  *)
TryPop(w) ==
  /\ pc[w] = "tryPop"
  /\ \/ Lock(w, w) /\ Goto(w, "popOwn")
     \/ lock[w] # Free /\ Goto(w, "trySteal") /\ UNCHANGED lock
  /\ UNCHANGED <<queue, closed, stop_flag, counters, next_queue, at, task, waits, history>>

PopOwn(w) ==
  /\ pc[w] = "popOwn"
  /\ Unlock(w)
  /\ \/ queue[w] # << >> /\ PopBack(w, w) /\ Goto(w, "begin")
     \/ queue[w] = << >> /\ Goto(w, "trySteal") /\ UNCHANGED <<queue, task>>
  /\ UNCHANGED <<closed, stop_flag, counters, next_queue, at, waits, history>>

(* steal from the queues 0, 1, ... but the own one.                        *)
TrySteal(w) ==
  /\ pc[w] = "trySteal" /\ at[w] < NumThreads
  /\ \/ at[w] # w /\ Lock(at[w], w) /\ Goto(w, "steal") /\ UNCHANGED at
     \/ /\ at[w] = w \/ lock[at[w]] # Free
        /\ TurnTo(w, at[w] + 1)
        /\ UNCHANGED <<lock, pc>>
  /\ UNCHANGED <<queue, closed, stop_flag, counters, next_queue, task, waits, history>>

(* Mutant of Steal: the task is read but not removed.                      *)
StealByCopy(w) ==
  /\ pc[w] = "steal"
  /\ Unlock(at[w])
  /\ \/ /\ queue[at[w]] # << >>
        /\ task' = [task EXCEPT ![w] = Head(queue[at[w]])]
        /\ Goto(w, "begin")
        /\ TurnTo(w, 0)
     \/ /\ queue[at[w]] = << >>
        /\ Goto(w, "trySteal")
        /\ TurnTo(w, at[w] + 1)
        /\ UNCHANGED task
  /\ UNCHANGED <<queue, closed, stop_flag, counters, next_queue, waits, history>>

Steal(w) ==
  /\ pc[w] = "steal"
  /\ Unlock(at[w])
  /\ \/ queue[at[w]] # << >> /\ PopFront(at[w], w) /\ Goto(w, "begin") /\ TurnTo(w, 0)
     \/ /\ queue[at[w]] = << >>
        /\ Goto(w, "trySteal")
        /\ TurnTo(w, at[w] + 1)
        /\ UNCHANGED <<queue, task>>
  /\ UNCHANGED <<closed, stop_flag, counters, next_queue, waits, history>>

(* Nothing found: leave if the pool is shut down, block in pop otherwise.  *)
CheckStop(w) ==
  /\ pc[w] = "trySteal" /\ at[w] = NumThreads
  /\ Goto(w, IF stop_flag THEN "exited" ELSE "lockPop")
  /\ TurnTo(w, 0)
  /\ UNCHANGED <<queue, lock, closed, stop_flag, counters, next_queue, task,
                 waits, history>>

LockPop(w) ==
  /\ pc[w] = "lockPop"
  /\ Lock(w, w) /\ Goto(w, "pop")
  /\ UNCHANGED <<queue, closed, stop_flag, counters, next_queue, at, task, waits, history>>

(* The predicate of cv_.wait, and the rest of pop when it holds.           *)
Pop(w) ==
  /\ pc[w] = "pop"
  /\ Unlock(w)
  /\ \/ queue[w] # << >> /\ PopBack(w, w) /\ Goto(w, "begin")
     \/ /\ queue[w] = << >>
        /\ Goto(w, IF closed[w] THEN "tryPop" ELSE "asleep")
        /\ UNCHANGED <<queue, task>>
  /\ UNCHANGED <<closed, stop_flag, counters, next_queue, at, waits, history>>

(* The wrapper built in submit: count as active, run and count as          *)
(* completed or failed, count as inactive.  The packaged_task keeps the    *)
(* exception, so the wrapper's own catch is never entered.                 *)
BeginTask(w) ==
  /\ pc[w] = "begin"
  /\ active_tasks' = active_tasks + 1
  /\ Goto(w, "run")
  /\ UNCHANGED <<queue, lock, closed, stop_flag, total_tasks, completed_tasks,
                 failed_tasks, next_queue, at, task, waits, history>>

(* Mutant of RunTask: an exception is not counted.                         *)
RunTaskSwallow(w) ==
  /\ pc[w] = "run"
  /\ completed_tasks' = completed_tasks + (IF task[w] \in Failing THEN 0 ELSE 1)
  /\ finished' = finished \cup {task[w]}
  /\ Goto(w, "end")
  /\ UNCHANGED <<queue, lock, closed, stop_flag, active_tasks, total_tasks,
                 failed_tasks, next_queue, at, task, waits, accepted, early, rejected>>

RunTask(w) ==
  /\ pc[w] = "run"
  /\ IF task[w] \in Failing
     THEN failed_tasks' = failed_tasks + 1 /\ UNCHANGED completed_tasks
     ELSE completed_tasks' = completed_tasks + 1 /\ UNCHANGED failed_tasks
  /\ finished' = finished \cup {task[w]}
  /\ Goto(w, "end")
  /\ UNCHANGED <<queue, lock, closed, stop_flag, active_tasks, total_tasks,
                 next_queue, at, task, waits, accepted, early, rejected>>

EndTask(w) ==
  /\ pc[w] = "end"
  /\ active_tasks' = active_tasks - 1
  /\ task' = [task EXCEPT ![w] = NoTask]
  /\ Goto(w, "tryPop")
  /\ UNCHANGED <<queue, lock, closed, stop_flag, total_tasks, completed_tasks,
                 failed_tasks, next_queue, at, waits, history>>

Worker(w) ==
  \/ TryPop(w) \/ PopOwn(w) \/ TrySteal(w) \/ Steal(w) \/ CheckStop(w)
  \/ LockPop(w) \/ Pop(w)
  \/ BeginTask(w) \/ RunTask(w) \/ EndTask(w)

----------------------------------------------------------------------------
(* submit and submitToQueue.  The task is counted before it is queued.     *)

Unsubmitted == Tasks \ (accepted \cup rejected \cup {task[c] : c \in Clients})

(* Mutant of CountTask: the task is not counted.                           *)
CountNothing(c, t, q) ==
  /\ pc[c] = "idle" /\ t \in Unsubmitted
  /\ task' = [task EXCEPT ![c] = t]
  /\ TurnTo(c, q)
  /\ Goto(c, "lockPush")
  /\ UNCHANGED <<queue, lock, closed, stop_flag, counters, waits, history>>

CountTask(c, t, q) ==
  /\ pc[c] = "idle" /\ t \in Unsubmitted
  /\ task' = [task EXCEPT ![c] = t]
  /\ TurnTo(c, q)
  /\ total_tasks' = total_tasks + 1
  /\ late' = [d \in Clients |->
                late[d] \/ pc[d] \in {"readCompleted", "readFailed", "readActive", "returned"}]
  /\ Goto(c, "lockPush")
  /\ UNCHANGED <<queue, lock, closed, stop_flag, active_tasks, completed_tasks,
                 failed_tasks, seen, counted, history>>

Submit(c, t) ==
  /\ CountTask(c, t, next_queue)
  /\ next_queue' = (next_queue + 1) % NumThreads

SubmitToQueue(c, t, q) ==
  /\ CountTask(c, t, q)
  /\ UNCHANGED next_queue

LockPush(c) ==
  /\ pc[c] = "lockPush"
  /\ Lock(at[c], c) /\ Goto(c, "push")
  /\ UNCHANGED <<queue, closed, stop_flag, counters, next_queue, at, task, waits, history>>

Push(c) ==
  /\ pc[c] = "push" /\ ~closed[at[c]]
  /\ queue' = [queue EXCEPT ![at[c]] = Append(@, task[c])]
  /\ Unlock(at[c])
  /\ accepted' = accepted \cup {task[c]}
  /\ early' = IF stop_flag THEN early ELSE early \cup {task[c]}
  /\ task' = [task EXCEPT ![c] = NoTask]
  /\ Goto(c, "notify")
  /\ UNCHANGED <<closed, stop_flag, counters, next_queue, at, waits, finished, rejected>>

PushRejected(c) ==
  /\ pc[c] = "push" /\ closed[at[c]]
  /\ Unlock(at[c])
  /\ Goto(c, "uncount")
  /\ UNCHANGED <<queue, closed, stop_flag, counters, next_queue, at, task, waits, history>>

(* Mutant of NotifyPush: nobody is woken.                                  *)
NotifyNobody(c) ==
  /\ pc[c] = "notify"
  /\ Goto(c, "idle")
  /\ TurnTo(c, 0)
  /\ UNCHANGED <<queue, lock, closed, stop_flag, counters, next_queue, task,
                 waits, history>>

NotifyPush(c) ==
  /\ pc[c] = "notify"
  /\ Notify(at[c], c, "idle")
  /\ TurnTo(c, 0)
  /\ UNCHANGED <<queue, lock, closed, stop_flag, counters, next_queue, task,
                 waits, history>>

(* Mutant of UncountTask: the task stays counted.                          *)
UncountNothing(c) ==
  /\ pc[c] = "uncount"
  /\ rejected' = rejected \cup {task[c]}
  /\ task' = [task EXCEPT ![c] = NoTask]
  /\ Goto(c, "idle")
  /\ TurnTo(c, 0)
  /\ UNCHANGED <<queue, lock, closed, stop_flag, counters, next_queue, waits,
                 accepted, early, finished>>

UncountTask(c) ==
  /\ pc[c] = "uncount"
  /\ total_tasks' = total_tasks - 1
  /\ rejected' = rejected \cup {task[c]}
  /\ task' = [task EXCEPT ![c] = NoTask]
  /\ Goto(c, "idle")
  /\ TurnTo(c, 0)
  /\ UNCHANGED <<queue, lock, closed, stop_flag, active_tasks, completed_tasks,
                 failed_tasks, next_queue, waits, accepted, early, finished>>

----------------------------------------------------------------------------
(* waitForAll, and waitForAllFor, which may give up.  allTasksCompleted    *)
(* reads its four counters one after the other.                            *)

WaitForAll(c) ==
  /\ pc[c] = "idle"
  /\ Goto(c, "readTotal")
  /\ UNCHANGED <<queue, lock, closed, stop_flag, counters, next_queue, at, task,
                 waits, history>>

ReadTotal(c) ==
  /\ pc[c] = "readTotal"
  /\ seen' = [seen EXCEPT ![c] = total_tasks]
  /\ late' = [late EXCEPT ![c] = FALSE]
  /\ Goto(c, "readCompleted")
  /\ UNCHANGED <<queue, lock, closed, stop_flag, counters, next_queue, at, task,
                 counted, history>>

ReadCompleted(c) ==
  /\ pc[c] = "readCompleted"
  /\ counted' = [counted EXCEPT ![c] = completed_tasks]
  /\ Goto(c, "readFailed")
  /\ UNCHANGED <<queue, lock, closed, stop_flag, counters, next_queue, at, task,
                 seen, late, history>>

ReadFailed(c) ==
  /\ pc[c] = "readFailed"
  /\ IF counted[c] + failed_tasks >= seen[c]
     THEN /\ Goto(c, "readActive")
          /\ counted' = [counted EXCEPT ![c] = @ + failed_tasks]
          /\ UNCHANGED <<seen, late>>
     ELSE Goto(c, "readTotal") /\ ForgetReadings(c)
  /\ UNCHANGED <<queue, lock, closed, stop_flag, counters, next_queue, at, task, history>>

ReadActive(c) ==
  /\ pc[c] = "readActive"
  /\ IF active_tasks = 0
     THEN Goto(c, "returned") /\ UNCHANGED waits
     ELSE Goto(c, "readTotal") /\ ForgetReadings(c)
  /\ UNCHANGED <<queue, lock, closed, stop_flag, counters, next_queue, at, task, history>>

GoOn(c) ==
  /\ pc[c] = "returned"
  /\ Goto(c, "idle") /\ ForgetReadings(c)
  /\ UNCHANGED <<queue, lock, closed, stop_flag, counters, next_queue, at, task, history>>

GiveUp(c) ==
  /\ pc[c] = "readTotal"
  /\ Goto(c, "idle")
  /\ UNCHANGED <<queue, lock, closed, stop_flag, counters, next_queue, at, task,
                 waits, history>>

----------------------------------------------------------------------------
(* shutdown: the flag first, then the queues one after the other.          *)

Shutdown(c) ==
  /\ pc[c] = "idle"
  /\ ~stop_flag
  /\ stop_flag' = TRUE
  /\ TurnTo(c, 0)
  /\ Goto(c, "lockClose")
  /\ UNCHANGED <<queue, lock, closed, counters, next_queue, task, waits, history>>

LockClose(c) ==
  /\ pc[c] = "lockClose"
  /\ Lock(at[c], c) /\ Goto(c, "close")
  /\ UNCHANGED <<queue, closed, stop_flag, counters, next_queue, at, task, waits, history>>

Close(c) ==
  /\ pc[c] = "close"
  /\ closed' = [closed EXCEPT ![at[c]] = TRUE]
  /\ Unlock(at[c])
  /\ Goto(c, "notifyClosed")
  /\ UNCHANGED <<queue, stop_flag, counters, next_queue, at, task, waits, history>>

(* The next queue, or the end of the loop over the queues.                 *)
CloseNext(c, bound) ==
  LET more == at[c] + 1 < bound IN
  /\ Notify(at[c], c, IF more THEN "lockClose" ELSE "idle")
  /\ TurnTo(c, IF more THEN at[c] + 1 ELSE 0)
  /\ UNCHANGED <<queue, lock, closed, stop_flag, counters, next_queue, task, waits, history>>

(* Mutant of NotifyClosed: the last queue is forgotten.                    *)
NotifyAllButLast(c) == pc[c] = "notifyClosed" /\ CloseNext(c, NumThreads - 1)

NotifyClosed(c) == pc[c] = "notifyClosed" /\ CloseNext(c, NumThreads)

(* What a client does on its own account, and what it then goes through.   *)
Call(c) ==
  \/ \E t \in Tasks : Submit(c, t)
  \/ \E t \in Tasks, q \in Workers : SubmitToQueue(c, t, q)
  \/ WaitForAll(c) \/ GiveUp(c) \/ GoOn(c)
  \/ Shutdown(c)

Proceed(c) ==
  \/ LockPush(c) \/ Push(c) \/ PushRejected(c) \/ NotifyPush(c) \/ UncountTask(c)
  \/ ReadTotal(c) \/ ReadCompleted(c) \/ ReadFailed(c) \/ ReadActive(c)
  \/ LockClose(c) \/ Close(c) \/ NotifyClosed(c)

Next ==
  \/ \E w \in Workers : Worker(w)
  \/ \E c \in Clients : Call(c) \/ Proceed(c)

(* Threads are scheduled, tasks end, and a call that has begun goes on;    *)
(* nobody is obliged to call.                                              *)
Fairness ==
  /\ \A w \in Workers : WF_vars(Worker(w))
  /\ \A c \in Clients : WF_vars(Proceed(c))

Spec == Init /\ [][Next]_vars /\ Fairness

----------------------------------------------------------------------------
(* Properties.                                                             *)

WorkerPlaces == {"tryPop", "popOwn", "trySteal", "steal", "lockPop", "pop",
                 "asleep", "begin", "run", "end", "exited"}
ClientPlaces == {"idle", "lockPush", "push", "notify", "uncount", "readTotal",
                 "readCompleted", "readFailed", "readActive", "returned",
                 "lockClose", "close", "notifyClosed"}

(* When waitForAll returns, every accepted task has run, unless a task was *)
(* counted after the last reading of total_tasks_; and at least as many    *)
(* tasks have run as had been counted then.                                *)
WaitIsExact ==
  \A c \in Clients : pc[c] = "returned" =>
    /\ Cardinality(finished) >= seen[c]
    /\ ~late[c] => accepted = finished

(* The pool implements a pool: every accepted task is taken and run once.  *)
Queued == UNION {{queue[q][i] : i \in 1 .. Len(queue[q])} : q \in Workers}
Taken == {task[w] : w \in {v \in Workers : pc[v] \in {"begin", "run"}}}
Pool == INSTANCE AbstractPool WITH waiting <- Queued, running <- Taken, done <- finished
ImplementsPool == Pool!Spec

(* A task that was accepted runs, unless the pool is shut down first.      *)
AcceptedRuns == \A t \in Tasks : t \in accepted ~> t \in finished \/ stop_flag

(* waitForAll returns or gives up, also when submissions are refused,      *)
(* unless the workers have left accepted tasks behind.                     *)
WaitEnds ==
  \A c \in Clients : pc[c] = "readTotal" ~>
    \/ pc[c] \in {"returned", "idle"}
    \/ (\A w \in Workers : pc[w] = "exited") /\ accepted # finished

(* After shutdown every worker leaves, so that the destructor's join ends. *)
WorkersLeave == stop_flag ~> \A w \in Workers : pc[w] = "exited"

(* tests/cpp/thread_pool_regressions.cpp: a task that was accepted before  *)
(* shutdown still runs: waitForAllFor succeeds and its future is set.      *)
ShutdownDrains ==
  (\A w \in Workers : pc[w] = "exited") => early \subseteq finished
============================================================================
