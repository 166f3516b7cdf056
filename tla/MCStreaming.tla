---------------------------- MODULE MCStreaming -----------------------------
(***************************************************************************)
(* Instances for TLC of the components whose threads must get on: the      *)
(* deque of the lock-free reducer, the streaming window, the window        *)
(* manager and the micro-batching engine.  Nothing in the code connects    *)
(* them; they are checked side by side: a behaviour picks one of them, and *)
(* the others stay as they were built.                                     *)
(***************************************************************************)
EXTENDS WorkStealingQueue

CONSTANTS
  WindowSize, StorageCapacity, MaxPoints,           \* of the window
  Words,                                            \* of the window and the manager
  QueueCapacity, BufferCapacity, SpanSize, MaxItems, \* of the manager
  MaxStarts,
  Workers, NumBatchThreads, MaxBatchSize, MinBatchSize, MaxQueueSize, \* of the engine
  MaxOffers, MaxEngineStarts

VARIABLES
  subject,                                          \* what the behaviour is of
  head, tail, points, windowPc, seenTail, popped, snapTail, start, count, items,
  running, managerPc, queue, queueHead, queueTail, ingested, moved, stored, slot, unseen,
  ring, read_idx, write_idx, size, wanted, first, window, starts,
  engineRunning, backlog, holder, enginePc, batch, accepted, offered, notifies, processed, engineStarts

windowVars  == <<head, tail, points, windowPc, seenTail, popped, snapTail, start, count, items>>
managerVars == <<running, managerPc, queue, queueHead, queueTail, ingested, moved, stored,
                 slot, unseen, ring, read_idx, write_idx, size, wanted, first, window, starts>>
engineVars  == <<engineRunning, backlog, holder, enginePc, batch, accepted, offered,
                 notifies, processed, engineStarts>>

Window  == INSTANCE StreamingWindow WITH pc <- windowPc, buffer <- points
Manager == INSTANCE WindowManager WITH
             WindowSize <- SpanSize, pc <- managerPc, head <- queueHead,
             tail <- queueTail, buffer <- ring
Engine  == INSTANCE MicroBatching WITH
             MaxItems <- MaxOffers, MaxStarts <- MaxEngineStarts, running <- engineRunning,
             queue <- backlog, pc <- enginePc, starts <- engineStarts

AllInit ==
  /\ subject \in {"deque", "window", "manager", "engine"}
  /\ Init /\ Window!Init /\ Manager!Init /\ Engine!Init

AllNext ==
  /\ UNCHANGED subject
  /\ \/ /\ subject = "deque" /\ Next
        /\ UNCHANGED <<windowVars, managerVars, engineVars>>
     \/ /\ subject = "window" /\ Window!Next
        /\ UNCHANGED <<vars, managerVars, engineVars>>
     \/ /\ subject = "manager" /\ Manager!Next
        /\ UNCHANGED <<vars, windowVars, engineVars>>
     \/ /\ subject = "engine" /\ Engine!Next
        /\ UNCHANGED <<vars, windowVars, managerVars>>

AllVars == <<subject, vars, windowVars, managerVars, engineVars>>

(* The fairness of each; only the deque has work to do in its first state. *)
AllFairness ==
  /\ WF_vars(subject = "deque" /\ Setup) /\ WF_vars(OwnerStep) /\ WF_vars(StoreLands)
  /\ Window!Fairness /\ Manager!Fairness /\ Engine!Fairness

AllSpec == AllInit /\ [][AllNext]_AllVars /\ AllFairness

(* Deque: its owner sees it drained, whatever the thieves do.              *)
DequeDrained == subject = "deque" => Drained

(* Window: a snapshot is exact unless the producer has come round to it.   *)
SnapshotExactUnlessOverrun == Window!SnapshotExactUnlessOverrun

(* Window: addPoint returns, whatever the rotator does to the tail.        *)
AddPointReturns == Window!AddPointReturns

(* Manager: a processed window lacks at most its newest item.              *)
OnlyNewestMayBeMissing == Manager!OnlyNewestMayBeMissing

(* Manager: what is ingested while it runs gets stored.                    *)
IngestedIsStored == Manager!IngestedIsStored

(* Engine: the batches are the accepted items, cut up in order.            *)
CutIntoBatches == Engine!CutIntoBatches

(* Engine: an accepted item is processed, be there less than a batch.      *)
AcceptedIsProcessed == Engine!AcceptedIsProcessed

(* Manager and engine: stop returns, whatever the threads are doing.       *)
StopReturns == Manager!StopReturns /\ Engine!StopReturns
=============================================================================
