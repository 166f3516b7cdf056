--------------------------- MODULE StreamingWindow --------------------------
(***************************************************************************)
(* LockFreeStreamingWindow and the WaitFreeRingBuffer it is built on, of   *)
(* include/nerve/streaming/lock_free_streaming.hpp.  A producer adds       *)
(* points and drops the oldest when the ring is full, a rotator empties    *)
(* the window, a reader takes snapshots: no lock, and two consumers on the *)
(* tail of a ring that is written for one.  Point k is the k-th point.     *)
(*                                                                         *)
(* A point is a plain object of up to 64 bytes, copied word by word into   *)
(* the ring and out of it, in whatever order the compiler chooses; nothing *)
(* keeps the two copies apart.                                             *)
(*                                                                         *)
(* window_start_, which is written and never read, is left out, and so are *)
(* the items that tryPop copies and its callers drop.                      *)
(***************************************************************************)
EXTENDS Integers

CONSTANTS
  WindowSize,        \* window_size_, the capacity_ of the ring
  StorageCapacity,   \* storage_capacity_, a power of two above WindowSize
  Words,             \* the machine words of a point
  MaxPoints          \* bound: points added

Poppers == {"producer", "rotator"}
Slots   == 0 .. StorageCapacity - 1
Slot(k) == k % StorageCapacity

VARIABLES
  head, tail,           \* of the ring
  buffer,               \* for each slot and word: the point the word is of
  pc,                   \* where the producer, the rotator and the reader are
  seenTail, popped,     \* of the poppers: local tail, items popped so far
  snapTail, start, count,         \* of the reader
  items                 \* its copy: for <<i, w>>, word w of its i-th point

ringVars == <<head, tail, buffer>>
popVars  == <<seenTail, popped>>
snapVars == <<snapTail, start, count, items>>
vars == <<ringVars, pc, popVars, snapVars>>

Init ==
  /\ head = 0 /\ tail = 0
  /\ buffer = [s \in Slots |-> [w \in Words |-> -1]]
  /\ pc = [producer |-> "idle", rotator |-> "idle", reader |-> "idle"]
  /\ seenTail = [p \in Poppers |-> 0]
  /\ popped = [p \in Poppers |-> 0]
  /\ snapTail = 0 /\ start = 0 /\ count = 0 /\ items = <<>>

GoTo(p, label) == pc' = [pc EXCEPT ![p] = label]

----------------------------------------------------------------------------
(* addPoint, by the producer: tryPush, and tryPop as long as it fails.     *)

AddPoint ==
  /\ pc.producer = "idle" /\ head < MaxPoints
  /\ GoTo("producer", "push")
  /\ UNCHANGED <<ringVars, popVars, snapVars>>

PushCheck ==
  /\ pc.producer = "push"
  /\ GoTo("producer", IF head - tail >= WindowSize THEN "popTail" ELSE "write")
  /\ UNCHANGED <<ringVars, popVars, snapVars>>

(* buffer_[head & mask_] = item, one word of it.                           *)
PushWord ==
  /\ pc.producer = "write"
  /\ \E w \in Words :
       /\ buffer[Slot(head)][w] # head
       /\ buffer' = [buffer EXCEPT ![Slot(head)][w] = head]
  /\ UNCHANGED <<head, tail, pc, popVars, snapVars>>

(* head_.store, with all words written.                                    *)
PushPublish ==
  /\ pc.producer = "write"
  /\ \A w \in Words : buffer[Slot(head)][w] = head
  /\ head' = head + 1
  /\ GoTo("producer", "idle")
  /\ UNCHANGED <<tail, buffer, popVars, snapVars>>

----------------------------------------------------------------------------
(* rotateWindow: tryPopBulk(window_size_).                                 *)

RotateWindow ==
  /\ pc.rotator = "idle"
  /\ popped' = [popped EXCEPT !.rotator = 0]
  /\ GoTo("rotator", "popTail")
  /\ UNCHANGED <<ringVars, seenTail, snapVars>>

(* tryPop, of either.                                                      *)
PopTail(p) ==
  /\ pc[p] = "popTail"
  /\ seenTail' = [seenTail EXCEPT ![p] = tail]
  /\ GoTo(p, "popHead")
  /\ UNCHANGED <<ringVars, popped, snapVars>>

(* The local tail dies with the call.                                      *)
ForgetTail(p) == seenTail' = [seenTail EXCEPT ![p] = 0]

(* After a pop, also a failed one, the producer tries to push again; the   *)
(* rotator goes on until the ring is empty or a window has been popped.    *)
PopHead(p) ==
  /\ pc[p] = "popHead"
  /\ \/ /\ seenTail[p] # head
        /\ GoTo(p, "popStore")
        /\ UNCHANGED seenTail
     \/ /\ seenTail[p] = head
        /\ GoTo(p, IF p = "producer" THEN "push" ELSE "idle")
        /\ ForgetTail(p)
  /\ UNCHANGED <<ringVars, popped, snapVars>>

(* Mutant of PopStore: a pop that removes nothing.                         *)
PopNothing(p) ==
  /\ pc[p] = "popStore"
  /\ popped' = [popped EXCEPT ![p] = IF p = "rotator" THEN @ + 1 ELSE 0]
  /\ GoTo(p, IF p = "producer" THEN "push"
             ELSE IF popped[p] + 1 < WindowSize THEN "popTail" ELSE "idle")
  /\ ForgetTail(p)
  /\ UNCHANGED <<ringVars, snapVars>>

PopStore(p) ==
  /\ pc[p] = "popStore"
  /\ tail' = seenTail[p] + 1
  /\ popped' = [popped EXCEPT ![p] = IF p = "rotator" THEN @ + 1 ELSE 0]
  /\ GoTo(p, IF p = "producer" THEN "push"
             ELSE IF popped[p] + 1 < WindowSize THEN "popTail" ELSE "idle")
  /\ ForgetTail(p)
  /\ UNCHANGED <<head, buffer, snapVars>>

----------------------------------------------------------------------------
(* getSnapshot: snapshotNewest(window_size_).                              *)

SnapTail ==
  /\ pc.reader = "idle"
  /\ snapTail' = tail
  /\ GoTo("reader", "head")
  /\ UNCHANGED <<ringVars, popVars, start, count, items>>

SnapHead ==
  /\ pc.reader = "head"
  /\ count' = IF head - snapTail < WindowSize THEN head - snapTail ELSE WindowSize
  /\ start' = head - count'
  /\ GoTo("reader", "copy")
  /\ UNCHANGED <<ringVars, popVars, snapTail, items>>

(* items and one more word.                                                *)
Copied(i, w, point) ==
  [c \in DOMAIN items \cup {<<i, w>>} |-> IF c = <<i, w>> THEN point ELSE items[c]]

(* Point after point, the words of each in any order.                      *)
IsNext(i, w) ==
  <<i, w>> \notin DOMAIN items /\ (1 .. i - 1) \X Words \subseteq DOMAIN items

(* Mutant of SnapCopy: copies from the tail on, not the newest points.     *)
SnapCopyFromTail ==
  /\ pc.reader = "copy"
  /\ \E i \in 1 .. count, w \in Words :
       /\ IsNext(i, w)
       /\ items' = Copied(i, w, buffer[Slot(snapTail + i - 1)][w])
  /\ UNCHANGED <<ringVars, pc, popVars, snapTail, start, count>>

(* items.push_back(buffer_[(start + i) & mask_]), one word of one point.   *)
SnapCopy ==
  /\ pc.reader = "copy"
  /\ \E i \in 1 .. count, w \in Words :
       /\ IsNext(i, w)
       /\ items' = Copied(i, w, buffer[Slot(start + i - 1)][w])
  /\ UNCHANGED <<ringVars, pc, popVars, snapTail, start, count>>

SnapshotTaken == pc.reader = "copy" /\ DOMAIN items = (1 .. count) \X Words

(* The locals die with the call.                                           *)
SnapReturn ==
  /\ SnapshotTaken
  /\ snapTail' = 0 /\ start' = 0 /\ count' = 0 /\ items' = <<>>
  /\ GoTo("reader", "idle")
  /\ UNCHANGED <<ringVars, popVars>>

----------------------------------------------------------------------------
Producer == AddPoint \/ PushCheck \/ PushWord \/ PushPublish
Pop(p)   == PopTail(p) \/ PopHead(p) \/ PopStore(p)
Reader   == SnapTail \/ SnapHead \/ SnapCopy \/ SnapReturn

Next == Producer \/ RotateWindow \/ (\E p \in Poppers : Pop(p)) \/ Reader

(* Every thread runs on; nobody has to call an operation.                  *)
Fairness ==
  /\ WF_vars(PushCheck \/ PushWord \/ PushPublish \/ Pop("producer"))
  /\ WF_vars(Pop("rotator"))

Spec == Init /\ [][Next]_vars /\ Fairness

----------------------------------------------------------------------------
(* Properties.                                                             *)

(* A snapshot is a window of the stream, the points of the positions it    *)
(* claims in their order, unless the producer has come round to it.  Then  *)
(* points may be torn, but every word is of the point it claims or of a    *)
(* newer one that took its slot: never of an older point, of another slot, *)
(* or of none.                                                             *)
SnapshotExactUnlessOverrun ==
  \A c \in DOMAIN items :
    LET k == start + c[1] - 1
    IN  /\ items[c] >= k /\ Slot(items[c]) = Slot(k)
        /\ head < start + StorageCapacity => items[c] = k

(* lock_free_streaming.hpp:280: "Atomic snapshots for PH computation on    *)
(* streaming data".  What getSnapshot returns are consecutive points, each *)
(* of them whole.                                                          *)
SnapshotsAreAtomic ==
  SnapshotTaken => \A c \in DOMAIN items : items[c] = start + c[1] - 1

(* addPoint returns, although the rotator may move the tail back with a    *)
(* store it delayed.                                                       *)
AddPointReturns == (pc.producer # "idle") ~> (pc.producer = "idle")
=============================================================================
