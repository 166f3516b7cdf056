---------------------------- MODULE WindowManager ---------------------------
(***************************************************************************)
(* StreamingWindowManager of                                               *)
(* src/streaming/lockfree/detail/streaming_lockfree_windows.inl, composed  *)
(* of the LockFreeSPSCQueue and the CircularBuffer of                      *)
(* streaming_lockfree_ops.cpp.  A feeder ingests into the queue, the       *)
(* ingestion thread moves items to the circular buffer, the computation    *)
(* thread processes windows of it, a controller starts and stops them.     *)
(* Item k is the k-th item ingested.                                       *)
(*                                                                         *)
(* The circular buffer publishes nothing: its counters are written with    *)
(* memory_order_relaxed, so the plain store of an item, made of several    *)
(* machine words, may become visible word by word after the counters that  *)
(* count it.  It is ordered before the next release store of the thread,   *)
(* that of the queue's tail_, and before the end of the thread.  The       *)
(* counters are seen in the order of the program.                          *)
(***************************************************************************)
EXTENDS Integers

CONSTANTS
  QueueCapacity,    \* capacity_ of the queue, a power of two
  BufferCapacity,   \* capacity_ of the circular buffer
  WindowSize,       \* window_size_
  Words,            \* the machine words of an item
  MaxItems,         \* bound: calls of ingest
  MaxStarts         \* bound: calls of start

VARIABLES
  running,
  pc,                          \* of the four threads
  queue, head, tail,           \* of the queue: buffer_, head_, tail_
  ingested,                    \* items the feeder has begun to ingest
  moved,                       \* the ingestion thread's item
  stored, slot, unseen,        \* of write: item, idx, words not visible yet
  buffer,                      \* for each slot and word: the item the word is of
  read_idx, write_idx, size,
  wanted, first,               \* of getWindow: window_size, start
  window,                      \* its copy: for <<i, w>>, word w of the i-th item
  starts

queueVars == <<queue, head, tail>>
storeVars == <<stored, slot, unseen>>
ringVars  == <<buffer, read_idx, write_idx, size>>
winVars   == <<wanted, first, window>>
vars == <<running, pc, queueVars, ingested, moved, storeVars, ringVars, winVars, starts>>

Init ==
  /\ running = FALSE
  /\ pc = [feeder |-> "idle", controller |-> "idle", ingestion |-> "off", computation |-> "off"]
  /\ queue = [k \in 0 .. QueueCapacity - 1 |-> -1] /\ head = 0 /\ tail = 0
  /\ ingested = 0 /\ moved = -1
  /\ stored = -1 /\ slot = 0 /\ unseen = {}
  /\ buffer = [k \in 0 .. BufferCapacity - 1 |-> [w \in Words |-> -1]]
  /\ read_idx = 0 /\ write_idx = 0 /\ size = 0
  /\ wanted = 0 /\ first = 0 /\ window = <<>>
  /\ starts = 0

GoTo(p, label) == pc' = [pc EXCEPT ![p] = label]

----------------------------------------------------------------------------
(* ingest: push, until it succeeds.                                        *)

Ingest ==
  /\ pc.feeder = "idle" /\ ingested < MaxItems
  /\ ingested' = ingested + 1
  /\ GoTo("feeder", "check")
  /\ UNCHANGED <<running, queueVars, moved, storeVars, ringVars, winVars, starts>>

(* Mutant of PushCheck: fills the slot that tells full from empty.         *)
PushUnchecked ==
  /\ pc.feeder = "check"
  /\ GoTo("feeder", "write")
  /\ UNCHANGED <<running, queueVars, ingested, moved, storeVars, ringVars, winVars, starts>>

PushCheck ==
  /\ pc.feeder = "check"
  /\ (head + 1) % QueueCapacity # tail
  /\ GoTo("feeder", "write")
  /\ UNCHANGED <<running, queueVars, ingested, moved, storeVars, ringVars, winVars, starts>>

PushWrite ==
  /\ pc.feeder = "write"
  /\ queue' = [queue EXCEPT ![head] = ingested - 1]
  /\ GoTo("feeder", "publish")
  /\ UNCHANGED <<running, head, tail, ingested, moved, storeVars, ringVars, winVars, starts>>

PushPublish ==
  /\ pc.feeder = "publish"
  /\ head' = (head + 1) % QueueCapacity
  /\ GoTo("feeder", "idle")
  /\ UNCHANGED <<running, queue, tail, ingested, moved, storeVars, ringVars, winVars, starts>>

----------------------------------------------------------------------------
(* The ingestion thread.                                                   *)

(* The loop condition; with running_ false the thread ends.                *)
IngestionLoop ==
  /\ pc.ingestion = "loop"
  /\ GoTo("ingestion", IF running THEN "pop" ELSE "ended")
  /\ UNCHANGED <<running, queueVars, ingested, moved, storeVars, ringVars, winVars, starts>>

(* Mutant of PopRead: waits for an item.                                   *)
PopBlocking ==
  /\ pc.ingestion = "pop" /\ tail # head
  /\ moved' = queue[tail]
  /\ GoTo("ingestion", "popStore")
  /\ UNCHANGED <<running, queueVars, ingested, storeVars, ringVars, winVars, starts>>

PopRead ==
  /\ pc.ingestion = "pop"
  /\ IF tail = head
     THEN GoTo("ingestion", "loop") /\ UNCHANGED moved
     ELSE GoTo("ingestion", "popStore") /\ moved' = queue[tail]
  /\ UNCHANGED <<running, queueVars, ingested, storeVars, ringVars, winVars, starts>>

(* A release store: what was stored before is visible with it.             *)
PopStore ==
  /\ pc.ingestion = "popStore" /\ unseen = {}
  /\ tail' = (tail + 1) % QueueCapacity
  /\ GoTo("ingestion", "claim")
  /\ UNCHANGED <<running, queue, head, ingested, moved, storeVars, ringVars, winVars, starts>>

(* CircularBuffer::write: the slot is claimed and the item on its way.     *)
ClaimSlot ==
  /\ pc.ingestion = "claim"
  /\ slot' = write_idx /\ stored' = moved /\ unseen' = Words
  /\ write_idx' = write_idx + 1
  /\ GoTo("ingestion", "grow")
  /\ UNCHANGED <<running, queueVars, ingested, moved, buffer, read_idx, size, winVars, starts>>

(* A word of buffer_[idx] = item becomes visible.                          *)
WordLands ==
  /\ \E w \in unseen :
       /\ buffer' = [buffer EXCEPT ![slot % BufferCapacity][w] = stored]
       /\ unseen' = unseen \ {w}
  /\ UNCHANGED <<running, pc, queueVars, ingested, moved, stored, slot, read_idx, write_idx, size,
                 winVars, starts>>

(* size_ counts past the capacity for a moment.                            *)
GrowSize ==
  /\ pc.ingestion = "grow"
  /\ size' = size + 1
  /\ GoTo("ingestion", IF size >= BufferCapacity THEN "drop" ELSE "loop")
  /\ UNCHANGED <<running, queueVars, ingested, moved, storeVars, buffer, read_idx, write_idx, winVars, starts>>

DropOldest ==
  /\ pc.ingestion = "drop"
  /\ read_idx' = read_idx + 1
  /\ GoTo("ingestion", "shrink")
  /\ UNCHANGED <<running, queueVars, ingested, moved, storeVars, buffer, write_idx, size, winVars, starts>>

ShrinkSize ==
  /\ pc.ingestion = "shrink"
  /\ size' = BufferCapacity
  /\ GoTo("ingestion", "loop")
  /\ UNCHANGED <<running, queueVars, ingested, moved, storeVars, buffer, read_idx, write_idx, winVars, starts>>

----------------------------------------------------------------------------
(* The computation thread.                                                 *)

ComputationLoop ==
  /\ pc.computation = "loop"
  /\ GoTo("computation", IF running THEN "size" ELSE "ended")
  /\ UNCHANGED <<running, queueVars, ingested, moved, storeVars, ringVars, winVars, starts>>

(* Mutant of ReadSize: takes a window as soon as there is anything.        *)
ReadAnySize ==
  /\ pc.computation = "size"
  /\ wanted' = IF size > 0 THEN WindowSize ELSE 0
  /\ GoTo("computation", "start")
  /\ UNCHANGED <<running, queueVars, ingested, moved, storeVars, ringVars, first, window, starts>>

ReadSize ==
  /\ pc.computation = "size"
  /\ wanted' = IF size < WindowSize THEN size ELSE WindowSize
  /\ GoTo("computation", "start")
  /\ UNCHANGED <<running, queueVars, ingested, moved, storeVars, ringVars, first, window, starts>>

ReadStart ==
  /\ pc.computation = "start"
  /\ first' = read_idx
  /\ GoTo("computation", "copy")
  /\ UNCHANGED <<running, queueVars, ingested, moved, storeVars, ringVars, wanted, window, starts>>

(* window and one more word.                                               *)
Copied(i, w, item) ==
  [c \in DOMAIN window \cup {<<i, w>>} |-> IF c = <<i, w>> THEN item ELSE window[c]]

(* Item after item, the words of each in any order.                        *)
IsNext(i, w) ==
  <<i, w>> \notin DOMAIN window /\ (1 .. i - 1) \X Words \subseteq DOMAIN window

(* window.push_back(buffer_[(start + i) % capacity_]), one word of an item.*)
CopyItem ==
  /\ pc.computation = "copy"
  /\ \E i \in 1 .. wanted, w \in Words :
       /\ IsNext(i, w)
       /\ window' = Copied(i, w, buffer[(first + i - 1) % BufferCapacity][w])
  /\ UNCHANGED <<running, pc, queueVars, ingested, moved, storeVars, ringVars, wanted, first, starts>>

WindowCopied == pc.computation = "copy" /\ DOMAIN window = (1 .. wanted) \X Words

(* The locals die with the window.                                         *)
WindowGone == wanted' = 0 /\ first' = 0 /\ window' = <<>>

ProcessWindow ==
  /\ WindowCopied /\ wanted >= WindowSize
  /\ GoTo("computation", "process")
  /\ UNCHANGED <<running, queueVars, ingested, moved, storeVars, ringVars, winVars, starts>>

(* A window that is too short is not processed.                            *)
SkipWindow ==
  /\ WindowCopied /\ wanted < WindowSize
  /\ WindowGone
  /\ GoTo("computation", "loop")
  /\ UNCHANGED <<running, queueVars, ingested, moved, storeVars, ringVars, starts>>

Processed ==
  /\ pc.computation = "process"
  /\ WindowGone
  /\ GoTo("computation", "loop")
  /\ UNCHANGED <<running, queueVars, ingested, moved, storeVars, ringVars, starts>>

----------------------------------------------------------------------------
(* The controller: start of a stopped manager, stop of a running one.      *)

Start ==
  /\ pc.controller = "idle" /\ ~running /\ starts < MaxStarts
  /\ running' = TRUE
  /\ starts' = starts + 1
  /\ pc' = [pc EXCEPT !.ingestion = "loop", !.computation = "loop"]
  /\ UNCHANGED <<queueVars, ingested, moved, storeVars, ringVars, winVars>>

Stop ==
  /\ pc.controller = "idle" /\ running
  /\ running' = FALSE
  /\ GoTo("controller", "join")
  /\ UNCHANGED <<queueVars, ingested, moved, storeVars, ringVars, winVars, starts>>

(* Both joins: what the threads stored is visible.                         *)
Join ==
  /\ pc.controller = "join"
  /\ pc.ingestion = "ended" /\ pc.computation = "ended" /\ unseen = {}
  /\ pc' = [pc EXCEPT !.controller = "idle", !.ingestion = "off", !.computation = "off"]
  /\ UNCHANGED <<running, queueVars, ingested, moved, storeVars, ringVars, winVars, starts>>

----------------------------------------------------------------------------
Push      == PushCheck \/ PushWrite \/ PushPublish
Ingestion == IngestionLoop \/ PopRead \/ PopStore \/ ClaimSlot \/ GrowSize
             \/ DropOldest \/ ShrinkSize
Computation == ComputationLoop \/ ReadSize \/ ReadStart \/ CopyItem \/ ProcessWindow
               \/ SkipWindow \/ Processed

Next == Ingest \/ Push \/ Ingestion \/ WordLands \/ Computation
        \/ Start \/ Stop \/ Join

(* Threads that run are scheduled, what is stored becomes visible, and a   *)
(* call once made goes on; nobody has to make one.                         *)
Fairness ==
  WF_vars(Push) /\ WF_vars(Ingestion) /\ WF_vars(WordLands) /\ WF_vars(Computation) /\ WF_vars(Join)

Spec == Init /\ [][Next]_vars /\ Fairness

----------------------------------------------------------------------------
(* Properties.                                                             *)

(* What the slot of position p held a lap before.                          *)
Lapsed(p) == IF p < BufferCapacity THEN -1 ELSE p - BufferCapacity

(* A processed window lacks nothing but its newest item.  Every word is of *)
(* the position it stands for or of a later lap, and of the position as    *)
(* long as the writer has not come round to the first one; of different    *)
(* positions no two words are of one item.  Only words of the last         *)
(* position, whose store size_ does not wait for, may be those of the lap  *)
(* before, or of no item.                                                  *)
OnlyNewestMayBeMissing ==
  pc.computation = "process" =>
    /\ \A i \in 1 .. WindowSize, w \in Words :
         LET p == first + i - 1
         IN  \/ /\ window[<<i, w>>] >= p
                /\ write_idx <= first + BufferCapacity => window[<<i, w>>] = p
             \/ i = WindowSize /\ window[<<i, w>>] = Lapsed(p)
    /\ \A i, j \in 1 .. WindowSize, w \in Words :
         i # j => window[<<i, w>>] # window[<<j, w>>]

(* While the manager runs, the circular buffer catches up with the feeder, *)
(* which ingests finitely many items; only a stop leaves items behind, or  *)
(* an ingest that spins on a full queue.                                   *)
IngestedIsStored == []<>((write_idx = ingested /\ unseen = {}) \/ ~running)

(* stop returns, whatever the two threads are doing.                       *)
StopReturns == (pc.controller = "join") ~> (pc.controller = "idle")
=============================================================================
