---------------------------- MODULE MCReducerPool ---------------------------
(***************************************************************************)
(* Instances for TLC of two components that must come to an end: the       *)
(* sequential reducer, with all its properties, and the thread pool, which *)
(* MCThreadPool checks for safety, for its progress.  Nothing in the code  *)
(* connects the two; they are checked side by side: a behaviour picks one, *)
(* and the other stays as it was built.                                    *)
(***************************************************************************)
EXTENDS MCReducer

CONSTANTS
  NumThreads, Clients, Tasks, Failing, NoTask, Free   \* of the pool

VARIABLES
  subject,                                            \* what the behaviour is of
  queue, lock, closed, stop_flag, active_tasks, total_tasks, completed_tasks,
  failed_tasks, next_queue, pc, at, task, seen, counted, accepted, early,
  finished, rejected, late

poolVars ==
  <<queue, lock, closed, stop_flag, active_tasks, total_tasks, completed_tasks,
    failed_tasks, next_queue, pc, at, task, seen, counted, accepted, early,
    finished, rejected, late>>

Pool == INSTANCE ThreadPool

AllInit ==
  /\ Init /\ Pool!Init
  /\ \/ subject = "reducer"
     \/ subject = "pool" /\ matrix = (CHOOSE m \in Inputs : TRUE)

AllNext ==
  /\ UNCHANGED subject
  /\ \/ subject = "reducer" /\ Next /\ UNCHANGED poolVars
     \/ subject = "pool" /\ Pool!Next /\ UNCHANGED vars

AllVars == <<subject, vars, poolVars>>

(* The fairness of each, in its own behaviours.                            *)
AllFairness ==
  /\ WF_vars(subject = "reducer" /\ Reduce)
  /\ \A w \in Pool!Workers : WF_poolVars(subject = "pool" /\ Pool!Worker(w))
  /\ \A c \in Clients : WF_poolVars(subject = "pool" /\ Pool!Proceed(c))

AllSpec == AllInit /\ [][AllNext]_AllVars /\ AllFairness

(* Pool: an accepted task runs, unless the pool is shut down first.        *)
AcceptedRuns == Pool!AcceptedRuns

(* Pool: waitForAll returns or gives up, unless tasks were left behind.    *)
WaitEnds == Pool!WaitEnds

(* Pool: after shutdown every worker leaves.                               *)
WorkersLeave == Pool!WorkersLeave
=============================================================================
