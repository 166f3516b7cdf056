---------------------------- MODULE MicroBatching ---------------------------
(***************************************************************************)
(* MicroBatchingEngine of include/nerve/batching/micro_batching.hpp:       *)
(* clients enqueue items, worker threads collect them into batches and     *)
(* process these, flush processes one batch in the caller's thread, and    *)
(* start and stop begin and end the workers.                               *)
(*                                                                         *)
(* A section under queue_mutex_ is one step, but for the wait of           *)
(* collectBatch, which holds the mutex between the predicate and the       *)
(* moment it sleeps; stop takes no mutex at all.  The statistics, which    *)
(* decide nothing, are left out.                                           *)
(***************************************************************************)
EXTENDS Integers, Sequences, FiniteSets, SequencesExt

CONSTANTS
  Workers,          \* bound: the threads there can be in batch_threads_
  NumBatchThreads,  \* num_batch_threads
  MaxBatchSize,     \* max_batch_size
  MinBatchSize,     \* min_batch_size
  MaxQueueSize,     \* max_queue_size
  MaxItems,         \* bound: calls of enqueueItem
  MaxStarts         \* bound: calls of start

VARIABLES
  running,        \* running_
  queue,          \* item_queue_
  holder,         \* the worker that holds queue_mutex_ from step to step
  pc,             \* where each worker and the controller are
  batch,          \* their batches
  accepted,       \* history: items that were accepted; item k is the k-th
  offered,        \* calls of enqueueItem so far
  notifies,       \* clients that have pushed and not called notify_one yet
  processed,      \* history: the batches handed to batch_processor_
  starts

vars == <<running, queue, holder, pc, batch, accepted, offered, notifies, processed, starts>>

Callers == Workers \cup {"controller"}
Nobody  == "nobody"

Init ==
  /\ running = FALSE
  /\ queue = <<>> /\ holder = Nobody
  /\ pc = [w \in Callers |-> IF w \in Workers THEN "off" ELSE "idle"]
  /\ batch = [w \in Callers |-> <<>>]
  /\ accepted = 0 /\ offered = 0 /\ notifies = 0 /\ processed = <<>>
  /\ starts = 0

GoTo(w, label) == pc' = [pc EXCEPT ![w] = label]

----------------------------------------------------------------------------
(* enqueueItem, by any client.  A full queue refuses the item.             *)

Enqueue ==
  /\ holder = Nobody /\ offered < MaxItems
  /\ offered' = offered + 1
  /\ \/ /\ Len(queue) >= MaxQueueSize
        /\ UNCHANGED <<queue, accepted, notifies>>
     \/ /\ Len(queue) < MaxQueueSize
        /\ queue' = Append(queue, accepted + 1)
        /\ accepted' = accepted + 1
        /\ notifies' = notifies + 1
  /\ UNCHANGED <<running, holder, pc, batch, processed, starts>>

(* notify_one, the mutex released: one sleeping worker, if there is one,   *)
(* goes for the mutex.                                                     *)
NotifyOne ==
  /\ notifies > 0
  /\ notifies' = notifies - 1
  /\ \/ \E w \in Workers : pc[w] = "asleep" /\ GoTo(w, "woken")
     \/ (\A w \in Workers : pc[w] # "asleep") /\ UNCHANGED pc
  /\ UNCHANGED <<running, queue, holder, batch, accepted, offered, processed, starts>>

----------------------------------------------------------------------------
(* Collecting and processing, by a worker or by flush.                     *)

BatchLength == IF Len(queue) < MaxBatchSize THEN Len(queue) ELSE MaxBatchSize

(* Mutant of TakeBatch: the items stay in the queue.                       *)
CopyBatch(w) ==
  /\ batch' = [batch EXCEPT ![w] = SubSeq(queue, 1, BatchLength)]
  /\ UNCHANGED queue

(* collectBatchLocked.                                                     *)
TakeBatch(w) ==
  /\ batch' = [batch EXCEPT ![w] = SubSeq(queue, 1, BatchLength)]
  /\ queue' = SubSeq(queue, BatchLength + 1, Len(queue))

ProcessBatch(w) ==
  /\ pc[w] = "process"
  /\ processed' = Append(processed, batch[w])
  /\ batch' = [batch EXCEPT ![w] = <<>>]
  /\ GoTo(w, IF w \in Workers THEN "loop" ELSE "idle")
  /\ UNCHANGED <<running, queue, holder, accepted, offered, notifies, starts>>

----------------------------------------------------------------------------
(* batchWorkerThread.                                                      *)

Loop(w) ==
  /\ pc[w] = "loop"
  /\ GoTo(w, IF running THEN "lock" ELSE "ended")
  /\ UNCHANGED <<running, queue, holder, batch, accepted, offered, notifies, processed, starts>>

(* The predicate of wait_for, the mutex held: at first and after a wake-up.*)
CheckPredicate(w) ==
  /\ pc[w] \in {"lock", "woken"} /\ holder = Nobody
  /\ holder' = w
  /\ GoTo(w, IF ~running \/ Len(queue) >= MinBatchSize THEN "collect" ELSE "sleep")
  /\ UNCHANGED <<running, queue, batch, accepted, offered, notifies, processed, starts>>

Sleep(w) ==
  /\ pc[w] = "sleep"
  /\ holder' = Nobody
  /\ GoTo(w, "asleep")
  /\ UNCHANGED <<running, queue, batch, accepted, offered, notifies, processed, starts>>

(* Mutant of Timeout: there is none while fewer than MinBatchSize items    *)
(* are there.                                                              *)
TimeoutOnEnough(w) ==
  /\ pc[w] = "asleep" /\ holder = Nobody
  /\ Len(queue) >= MinBatchSize
  /\ holder' = w
  /\ GoTo(w, "collect")
  /\ UNCHANGED <<running, queue, batch, accepted, offered, notifies, processed, starts>>

(* max_wait_time_ms, which is not 0, have passed: the wait ends, whether   *)
(* the predicate is true or not.                                           *)
Timeout(w) ==
  /\ pc[w] = "asleep" /\ holder = Nobody
  /\ holder' = w
  /\ GoTo(w, "collect")
  /\ UNCHANGED <<running, queue, batch, accepted, offered, notifies, processed, starts>>

(* The rest of collectBatch: whatever there is, be it less than            *)
(* MinBatchSize.  An empty batch sends the worker back to the loop.        *)
Collect(w) ==
  /\ pc[w] = "collect"
  /\ holder' = Nobody
  /\ TakeBatch(w)
  /\ GoTo(w, IF queue = <<>> THEN "loop" ELSE "process")
  /\ UNCHANGED <<running, accepted, offered, notifies, processed, starts>>

----------------------------------------------------------------------------
(* start, stop and flush, by the controller.                               *)

(* A start of a running engine adds as many threads again.                 *)
Start ==
  /\ pc["controller"] = "idle" /\ starts < MaxStarts
  /\ running' = TRUE
  /\ starts' = starts + 1
  /\ \E new \in SUBSET {w \in Workers : pc[w] = "off"} :
       /\ Cardinality(new) = NumBatchThreads
       /\ pc' = [w \in Callers |-> IF w \in new THEN "loop" ELSE pc[w]]
  /\ UNCHANGED <<queue, holder, batch, accepted, offered, notifies, processed>>

StopFlag ==
  /\ pc["controller"] = "idle"
  /\ running' = FALSE
  /\ GoTo("controller", "notify")
  /\ UNCHANGED <<queue, holder, batch, accepted, offered, notifies, processed, starts>>

(* A worker between its predicate and its sleep misses this.               *)
NotifyAll ==
  /\ pc["controller"] = "notify"
  /\ pc' = [w \in Callers |->
       IF w = "controller" THEN "join" ELSE IF pc[w] = "asleep" THEN "woken" ELSE pc[w]]
  /\ UNCHANGED <<running, queue, holder, batch, accepted, offered, notifies, processed, starts>>

Join ==
  /\ pc["controller"] = "join"
  /\ \A w \in Workers : pc[w] \in {"ended", "off"}
  /\ pc' = [w \in Callers |-> IF w = "controller" THEN "idle" ELSE "off"]
  /\ UNCHANGED <<running, queue, holder, batch, accepted, offered, notifies, processed, starts>>

Flush ==
  /\ pc["controller"] = "idle" /\ holder = Nobody /\ queue # <<>>
  /\ TakeBatch("controller")
  /\ GoTo("controller", "process")
  /\ UNCHANGED <<running, holder, accepted, offered, notifies, processed, starts>>

----------------------------------------------------------------------------
Worker(w) == Loop(w) \/ CheckPredicate(w) \/ Sleep(w) \/ Timeout(w) \/ Collect(w) \/ ProcessBatch(w)
Controller == Start \/ StopFlag \/ NotifyAll \/ Join \/ Flush \/ ProcessBatch("controller")

Next == Enqueue \/ NotifyOne \/ Controller \/ \E w \in Workers : Worker(w)

(* Workers are scheduled and get the mutex in the end; clocks advance, so  *)
(* a timed wait ends; a call of a client, of stop or of flush goes on.     *)
Fairness ==
  /\ \A w \in Workers :
       /\ WF_vars(Loop(w) \/ Sleep(w) \/ Collect(w) \/ ProcessBatch(w))
       /\ SF_vars(CheckPredicate(w) \/ Timeout(w))
  /\ WF_vars(NotifyOne) /\ WF_vars(NotifyAll \/ Join \/ ProcessBatch("controller"))

Spec == Init /\ [][Next]_vars /\ Fairness

----------------------------------------------------------------------------
(* Properties.                                                             *)

(* The accepted items, in their order, are cut into batches: each item is  *)
(* in exactly one batch or still in the queue, and a batch is a stretch of *)
(* at most MaxBatchSize items, whoever collects while others do.           *)
CutIntoBatches ==
  LET Batches == {b \in ToSet(processed) \cup {batch[w] : w \in Callers} \cup {queue} : b # <<>>}
  IN  /\ UNION {ToSet(b) : b \in Batches} = 1 .. accepted
      /\ \A b \in Batches : \A i \in 1 .. Len(b) : b[i] = b[1] + i - 1
      /\ \A b, c \in Batches : b # c => ToSet(b) \cap ToSet(c) = {}
      /\ \A i, j \in 1 .. Len(processed) : i # j => processed[i] # processed[j]
      /\ \A i \in 1 .. Len(processed) : Len(processed[i]) <= MaxBatchSize

(* Every accepted item is processed, also when no further item comes and   *)
(* fewer than MinBatchSize are waiting, unless the engine is stopped first *)
(* (clients enqueue finitely many items).                                  *)
AcceptedIsProcessed ==
  []<>(~running \/ UNION {ToSet(processed[i]) : i \in 1 .. Len(processed)} = 1 .. accepted)

(* stop returns, although it sets running_ and notifies without the mutex: *)
(* a worker that misses the notification wakes up by its timeout.          *)
StopReturns ==
  (pc["controller"] \in {"notify", "join"}) ~> (pc["controller"] = "idle")
=============================================================================
