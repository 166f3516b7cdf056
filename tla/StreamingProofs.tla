--------------------------- MODULE StreamingProofs --------------------------
(***************************************************************************)
(* Proofs about the components whose threads must get on, as MCStreaming   *)
(* sets them side by side, for every size and any number of items: what a  *)
(* snapshot of the streaming window holds although two consumers store to  *)
(* its tail, what a window of the window manager holds although the writer *)
(* goes on and its counters publish nothing, how the micro-batching engine *)
(* cuts up what it accepts, and that the deque of the lock-free reducer is *)
(* a queue of indivisible steps although its owner's stores reach the      *)
(* thieves late.                                                           *)
(***************************************************************************)
EXTENDS MCStreaming, SequenceTheorems, FiniteSetTheorems, TLAPS

(***************************************************************************)
(* Remainders: the slots of the rings.                                     *)
(***************************************************************************)

LEMMA RemainderOf ==
  ASSUME NEW n \in Nat \ {0}, NEW k \in Nat
  PROVE  /\ k % n \in 0 .. n - 1 /\ k \div n \in Int
         /\ k = n * (k \div n) + (k % n)
OBVIOUS

(* In the first round a position is its own slot.                          *)
LEMMA RemaindersFirst ==
  ASSUME NEW n \in Nat \ {0}, NEW k \in Nat, k < n
  PROVE  k % n = k
OBVIOUS

(* Positions less than a round apart have different slots.                 *)
LEMMA RemaindersApart ==
  ASSUME NEW n \in Nat \ {0}, NEW k \in Nat, NEW l \in Nat, k < l, l - k < n
  PROVE  k % n # l % n
<1> SUFFICES ASSUME k % n = l % n
             PROVE  FALSE
  OBVIOUS
<1> DEFINE p == k \div n
           q == l \div n
           r == k % n
<1>1. /\ p \in Int /\ q \in Int /\ r \in Int
      /\ k = n * p + r /\ l = n * q + r
  BY RemainderOf
<1> HIDE DEF p, q, r
<1>2. n * (q - p) = n * q - n * p /\ q - p \in Int
  BY <1>1
<1>3. n * p \in Int /\ n * q \in Int
  BY <1>1
<1>4. n * (q - p) = l - k
  BY <1>1, <1>2, <1>3
<1>5. CASE q - p >= 1
  <2>1. n * (q - p) = n + n * (q - p - 1)
    BY <1>1, <1>2
  <2>2. n * (q - p - 1) \in Int /\ n * (q - p - 1) >= 0
    BY <1>1, <1>2, <1>5
  <2> QED
    BY <1>1, <1>4, <2>1, <2>2
<1>6. CASE q - p <= 0
  <2>1. n * (p - q) >= 0 /\ n * (p - q) = -(n * (q - p))
    BY <1>1, <1>2, <1>6
  <2> QED
    BY <1>1, <1>4, <2>1
<1> QED
  BY <1>2, <1>5, <1>6

(* Positions a round apart have the same slot.                             *)
LEMMA RemaindersRecur ==
  ASSUME NEW n \in Nat \ {0}, NEW k \in Nat
  PROVE  (k + n) % n = k % n
<1> DEFINE p == k \div n
           q == (k + n) \div n
           r == k % n
           s == (k + n) % n
<1>1. /\ p \in Int /\ q \in Int /\ r \in 0 .. n - 1 /\ s \in 0 .. n - 1
      /\ k = n * p + r /\ k + n = n * q + s
  <2>1. k + n \in Nat
    OBVIOUS
  <2> QED
    BY <2>1, RemainderOf
<1> HIDE DEF p, q, r, s
<1>2. /\ n * (q - p - 1) = n * q - n * p - n /\ n * (p + 1 - q) = n * p + n - n * q
      /\ q - p - 1 \in Int /\ n * p \in Int /\ n * q \in Int
  BY <1>1
<1>3. n * (q - p - 1) = r - s
  BY <1>1, <1>2
<1>4. CASE q - p - 1 >= 1
  <2>1. n * (q - p - 1) >= n
    BY <1>1, <1>4
  <2> QED
    BY <1>1, <1>3, <2>1
<1>5. CASE q - p - 1 <= -1
  <2>1. n * (p + 1 - q) >= n
    BY <1>1, <1>5
  <2> QED
    BY <1>1, <1>2, <2>1
<1>6. CASE q - p - 1 = 0
  <2>1. n * (q - p - 1) = 0
    BY <1>6
  <2> QED
    BY <1>1, <1>3, <2>1 DEF r, s
<1> QED
  BY <1>1, <1>4, <1>5, <1>6

(* The next slot is the slot of the next position.                         *)
LEMMA RemainderSteps ==
  ASSUME NEW n \in Nat \ {0}, NEW k \in Nat
  PROVE  ((k % n) + 1) % n = (k + 1) % n
<1> DEFINE p == k \div n
           q == (k + 1) \div n
           r == k % n
           s == (k + 1) % n
<1>1. /\ p \in Int /\ q \in Int /\ r \in 0 .. n - 1 /\ s \in 0 .. n - 1
      /\ k = n * p + r /\ k + 1 = n * q + s
  <2>1. k + 1 \in Nat
    OBVIOUS
  <2> QED
    BY <2>1, RemainderOf
<1>2. r + 1 < n => (r + 1) % n = r + 1
  BY <1>1
<1>3. r + 1 = n => (r + 1) % n = 0
  BY <1>1
<1> HIDE DEF p, q, r, s
<1>4. /\ n * (q - p) = n * q - n * p /\ n * (p - q) = n * p - n * q
      /\ n * (q - p - 1) = n * q - n * p - n
      /\ q - p \in Int /\ n * p \in Int /\ n * q \in Int
  BY <1>1
<1>5. n * (q - p) = r + 1 - s
  BY <1>1, <1>4
<1>6. CASE q - p >= 2
  <2>1. n * (q - p - 1) >= n
    BY <1>1, <1>4, <1>6
  <2> QED
    BY <1>1, <1>4, <1>5, <2>1
<1>7. CASE q - p <= -1
  <2>1. n * (p - q) >= n
    BY <1>1, <1>4, <1>7
  <2> QED
    BY <1>1, <1>4, <1>5, <2>1
<1>8. CASE q - p = 0
  <2>1. n * (q - p) = 0
    BY <1>8
  <2>2. s = r + 1
    BY <1>1, <1>5, <2>1
  <2> QED
    BY <1>1, <1>2, <2>2 DEF r, s
<1>9. CASE q - p = 1
  <2>1. n * (q - p) = n
    BY <1>9
  <2>2. s = 0 /\ r + 1 = n
    BY <1>1, <1>5, <2>1
  <2> QED
    BY <1>3, <2>2 DEF r, s
<1>10. q - p \in Int
  BY <1>1
<1>11. q - p >= 2 \/ q - p <= -1 \/ q - p = 0 \/ q - p = 1
  BY <1>10
<1> QED
  BY <1>6, <1>7, <1>8, <1>9, <1>11

(***************************************************************************)
(* The streaming window.                                                   *)
(***************************************************************************)

(* What the proofs assume of the constants.  That the ring is larger than  *)
(* the window, and a power of two, is not needed.                          *)
WindowSizes == StorageCapacity \in Nat \ {0} /\ WindowSize \in Nat

(***************************************************************************)
(* The inductive invariant, one named part per concern.                    *)
(***************************************************************************)

WindowThreads == {"producer", "rotator", "reader"}

WindowTypeOK ==
  /\ head \in Nat /\ tail \in Nat
  /\ points \in [Window!Slots -> [Words -> Int]]
  /\ DOMAIN windowPc = WindowThreads /\ windowPc = [n \in WindowThreads |-> windowPc[n]]
  /\ seenTail \in [Window!Poppers -> Nat]
  /\ snapTail \in Nat /\ start \in Nat /\ count \in Nat
  /\ DOMAIN items \subseteq (1 .. count) \X Words
  /\ \A c \in DOMAIN items : items[c] \in Int

(* The tail never overtakes the head, although a popper stores what it     *)
(* has computed from an older tail.                                        *)
TailInv ==
  /\ tail <= head /\ snapTail <= head
  /\ \A p \in Window!Poppers :
       /\ seenTail[p] <= head
       /\ windowPc[p] = "popStore" => seenTail[p] < head

(* The words of a slot are those of its point, or of newer points of the   *)
(* slot; of no point before the first round.                               *)
BufferInv ==
  /\ \A k \in Nat, w \in Words : k < head =>
       /\ points[Window!Slot(k)][w] >= k
       /\ head < k + StorageCapacity => points[Window!Slot(k)][w] = k
  /\ \A s \in Window!Slots, w \in Words :
       points[s][w] \in Nat => Window!Slot(points[s][w]) = s

(* What the reader copies has been published.                              *)
SnapInv ==
  /\ windowPc["reader"] \in {"idle", "head"} => items = <<>>
  /\ windowPc["reader"] = "copy" => start + count <= head

WindowInv == WindowTypeOK /\ TailInv /\ BufferInv /\ SnapInv
  /\ Window!SnapshotExactUnlessOverrun

----------------------------------------------------------------------------
(* Slots.                                                                  *)

LEMMA SlotIsSlot == ASSUME WindowSizes PROVE \A k \in Nat : Window!Slot(k) \in Window!Slots
BY DEF WindowSizes, Window!Slot, Window!Slots

(* Points less than a round apart have different slots.                    *)
LEMMA SlotsApart ==
  ASSUME WindowSizes, NEW k \in Nat, NEW l \in Nat, k < l, l - k < StorageCapacity
  PROVE  Window!Slot(k) # Window!Slot(l)
BY RemaindersApart DEF WindowSizes, Window!Slot

----------------------------------------------------------------------------
(* The steps.                                                              *)

LEMMA WindowThreadGoes ==
  ASSUME WindowTypeOK, NEW n \in WindowThreads, NEW label, Window!GoTo(n, label)
  PROVE  /\ DOMAIN windowPc' = WindowThreads
         /\ windowPc' = [m \in WindowThreads |-> windowPc'[m]]
         /\ windowPc'[n] = label
         /\ \A m \in WindowThreads : m # n => windowPc'[m] = windowPc[m]
<1>1. windowPc' = [[m \in WindowThreads |-> windowPc[m]] EXCEPT ![n] = label]
  BY DEF WindowTypeOK, Window!GoTo
<1> QED
  BY <1>1

LEMMA TheWindowThreads ==
  /\ "producer" \in WindowThreads /\ "rotator" \in WindowThreads
  /\ "reader" \in WindowThreads
  /\ Window!Poppers \subseteq WindowThreads
  /\ \A p \in Window!Poppers : p \in {"producer", "rotator"} /\ p # "reader"
BY DEF WindowThreads, Window!Poppers

(* A step that leaves the head and the slots alone.                        *)
LEMMA SlotsStay ==
  ASSUME WindowInv, UNCHANGED <<head, points>>
  PROVE  BufferInv'
BY DEF WindowInv, BufferInv

(* A step that leaves the reader alone, while the head does not recede.    *)
LEMMA ReaderStays ==
  ASSUME WindowSizes, WindowInv, UNCHANGED Window!snapVars,
         windowPc'["reader"] = windowPc["reader"],
         head' \in Nat, head' >= head
  PROVE  SnapInv' /\ Window!SnapshotExactUnlessOverrun'
<1> USE DEF Window!snapVars
<1>1. /\ start \in Nat /\ count \in Nat /\ head \in Nat
      /\ UNCHANGED <<snapTail, start, count, items>>
  BY DEF WindowInv, WindowTypeOK
<1>2. SnapInv'
  BY <1>1 DEF WindowInv, SnapInv
<1>3. Window!SnapshotExactUnlessOverrun'
  <2> SUFFICES ASSUME NEW c \in DOMAIN items
               PROVE  /\ items[c] >= start + c[1] - 1
                      /\ Window!Slot(items[c]) = Window!Slot(start + c[1] - 1)
                      /\ head' < start + StorageCapacity => items[c] = start + c[1] - 1
    BY <1>1 DEF Window!SnapshotExactUnlessOverrun
  <2>1. /\ items[c] >= start + c[1] - 1
        /\ Window!Slot(items[c]) = Window!Slot(start + c[1] - 1)
        /\ head < start + StorageCapacity => items[c] = start + c[1] - 1
    BY DEF WindowInv, Window!SnapshotExactUnlessOverrun
  <2> QED
    BY <1>1, <2>1 DEF WindowSizes
<1> QED
  BY <1>2, <1>3

(* The steps of the producer that are not a pop, and the call of the       *)
(* rotator.                                                                *)
LEMMA WindowCallStep ==
  ASSUME WindowSizes, WindowInv, Window!AddPoint \/ Window!PushCheck \/ Window!RotateWindow
  PROVE  WindowInv'
<1>1. /\ \E n \in {"producer", "rotator"}, label \in {"push", "popTail", "write"} :
           Window!GoTo(n, label)
      /\ UNCHANGED <<head, tail, points, seenTail, snapTail, start, count, items>>
  BY DEF Window!AddPoint, Window!PushCheck, Window!RotateWindow, Window!ringVars,
       Window!popVars, Window!snapVars
<1>2. PICK n \in {"producer", "rotator"}, label \in {"push", "popTail", "write"} :
        Window!GoTo(n, label)
  BY <1>1
<1>3. /\ DOMAIN windowPc' = WindowThreads
      /\ windowPc' = [m \in WindowThreads |-> windowPc'[m]]
      /\ windowPc'[n] = label
      /\ \A m \in WindowThreads : m # n => windowPc'[m] = windowPc[m]
  BY <1>2, WindowThreadGoes, TheWindowThreads DEF WindowInv
<1>4. WindowTypeOK'
  BY <1>1, <1>3 DEF WindowInv, WindowTypeOK
<1>5. TailInv'
  BY <1>1, <1>3, TheWindowThreads DEF WindowInv, TailInv
<1>6. BufferInv'
  BY <1>1, SlotsStay
<1>7. SnapInv' /\ Window!SnapshotExactUnlessOverrun'
  <2>1. windowPc'["reader"] = windowPc["reader"] /\ head' \in Nat /\ head' >= head
    BY <1>1, <1>3, TheWindowThreads DEF WindowInv, WindowTypeOK
  <2> QED
    BY <1>1, <2>1, ReaderStays DEF Window!snapVars
<1> QED
  BY <1>4, <1>5, <1>6, <1>7 DEF WindowInv

LEMMA WindowWriteStep ==
  ASSUME WindowSizes, WindowInv, Window!PushWord
  PROVE  WindowInv'
<1>1. /\ \E w \in Words : points' = [points EXCEPT ![Window!Slot(head)][w] = head]
      /\ UNCHANGED <<head, tail, windowPc, seenTail, Window!snapVars>>
  BY DEF Window!PushWord, Window!popVars
<1>2. PICK v \in Words : points' = [points EXCEPT ![Window!Slot(head)][v] = head]
  BY <1>1
<1>3. /\ head \in Nat /\ Window!Slot(head) \in Window!Slots
      /\ points \in [Window!Slots -> [Words -> Int]]
      /\ StorageCapacity \in Nat
  BY SlotIsSlot DEF WindowInv, WindowTypeOK, WindowSizes
<1>4. WindowTypeOK'
  BY <1>1, <1>2, <1>3 DEF WindowInv, WindowTypeOK, Window!snapVars
<1>5. TailInv'
  BY <1>1 DEF WindowInv, TailInv, Window!snapVars
<1>6. \A s \in Window!Slots, w \in Words :
        points'[s][w] = IF s = Window!Slot(head) /\ w = v THEN head ELSE points[s][w]
  BY <1>2, <1>3
<1>7. BufferInv'
  <2>1. ASSUME NEW k \in Nat, NEW w \in Words, k < head
        PROVE  /\ points'[Window!Slot(k)][w] >= k
               /\ head < k + StorageCapacity => points'[Window!Slot(k)][w] = k
    <3>1. /\ points[Window!Slot(k)][w] >= k
          /\ head < k + StorageCapacity => points[Window!Slot(k)][w] = k
      BY <2>1 DEF WindowInv, BufferInv
    <3>2. CASE Window!Slot(k) = Window!Slot(head) /\ w = v
      <4>1. points'[Window!Slot(k)][w] = head
        BY <1>3, <1>6, <3>2
      <4>2. ~ (head - k < StorageCapacity)
        BY <1>3, <2>1, <3>2, SlotsApart
      <4> QED
        BY <1>3, <2>1, <4>1, <4>2
    <3>3. CASE ~ (Window!Slot(k) = Window!Slot(head) /\ w = v)
      <4>1. points'[Window!Slot(k)][w] = points[Window!Slot(k)][w]
        BY <1>6, <3>3, SlotIsSlot
      <4> QED
        BY <3>1, <4>1
    <3> QED
      BY <3>2, <3>3
  <2>2. ASSUME NEW s \in Window!Slots, NEW w \in Words, points'[s][w] \in Nat
        PROVE  Window!Slot(points'[s][w]) = s
    <3>1. CASE s = Window!Slot(head) /\ w = v
      BY <1>6, <3>1
    <3>2. CASE ~ (s = Window!Slot(head) /\ w = v)
      <4>1. points'[s][w] = points[s][w]
        BY <1>6, <3>2
      <4> QED
        BY <2>2, <4>1 DEF WindowInv, BufferInv
    <3> QED
      BY <3>1, <3>2
  <2>3. Window!Slots' = Window!Slots /\ head' = head
    BY <1>1 DEF Window!Slots
  <2>4. \A k \in Int : Window!Slot(k)' = Window!Slot(k)
    BY DEF Window!Slot
  <2> QED
    BY <2>1, <2>2, <2>3 DEF BufferInv
<1>8. SnapInv' /\ Window!SnapshotExactUnlessOverrun'
  <2>1. windowPc'["reader"] = windowPc["reader"] /\ head' \in Nat /\ head' >= head
    BY <1>1, <1>3
  <2> QED
    BY <1>1, <2>1, ReaderStays
<1> QED
  BY <1>4, <1>5, <1>7, <1>8 DEF WindowInv

LEMMA WindowPublishStep ==
  ASSUME WindowSizes, WindowInv, Window!PushPublish
  PROVE  WindowInv'
<1>1. /\ Window!GoTo("producer", "idle")
      /\ \A w \in Words : points[Window!Slot(head)][w] = head
      /\ head' = head + 1
      /\ UNCHANGED <<tail, points, seenTail, Window!snapVars>>
  BY DEF Window!PushPublish, Window!popVars
<1>2. /\ DOMAIN windowPc' = WindowThreads
      /\ windowPc' = [m \in WindowThreads |-> windowPc'[m]]
      /\ windowPc'["producer"] = "idle"
      /\ \A m \in WindowThreads : m # "producer" => windowPc'[m] = windowPc[m]
  BY <1>1, WindowThreadGoes, TheWindowThreads DEF WindowInv
<1>3. head \in Nat /\ tail \in Nat /\ snapTail \in Nat /\ StorageCapacity \in Nat \ {0}
  BY DEF WindowInv, WindowTypeOK, WindowSizes
<1>4. WindowTypeOK'
  BY <1>1, <1>2, <1>3 DEF WindowInv, WindowTypeOK, Window!snapVars
<1>5. TailInv'
  <2>1. \A p \in Window!Poppers : seenTail[p] \in Nat
    BY DEF WindowInv, WindowTypeOK
  <2> QED
    BY <1>1, <1>2, <1>3, <2>1, TheWindowThreads DEF WindowInv, TailInv, Window!snapVars
<1>6. BufferInv'
  <2>1. ASSUME NEW k \in Nat, NEW w \in Words, k < head + 1
        PROVE  /\ points[Window!Slot(k)][w] >= k
               /\ head + 1 < k + StorageCapacity => points[Window!Slot(k)][w] = k
    <3>1. CASE k = head
      BY <1>1, <1>3, <3>1
    <3>2. CASE k < head
      <4>1. /\ points[Window!Slot(k)][w] >= k
            /\ head < k + StorageCapacity => points[Window!Slot(k)][w] = k
        BY <3>2 DEF WindowInv, BufferInv
      <4> QED
        BY <1>3, <4>1
    <3> QED
      BY <1>3, <2>1, <3>1, <3>2
  <2>2. \A s \in Window!Slots, w \in Words :
          points[s][w] \in Nat => Window!Slot(points[s][w]) = s
    BY DEF WindowInv, BufferInv
  <2> QED
    BY <1>1, <2>1, <2>2 DEF BufferInv
<1>7. SnapInv' /\ Window!SnapshotExactUnlessOverrun'
  <2>1. windowPc'["reader"] = windowPc["reader"] /\ head' \in Nat /\ head' >= head
    BY <1>1, <1>2, <1>3, TheWindowThreads
  <2> QED
    BY <1>1, <2>1, ReaderStays
<1> QED
  BY <1>4, <1>5, <1>6, <1>7 DEF WindowInv

LEMMA WindowPopStep ==
  ASSUME WindowSizes, WindowInv, NEW p \in Window!Poppers, Window!Pop(p)
  PROVE  WindowInv'
<1>1. /\ head \in Nat /\ tail \in Nat /\ seenTail \in [Window!Poppers -> Nat]
      /\ p \in WindowThreads /\ p # "reader" /\ UNCHANGED <<head, points, Window!snapVars>>
      /\ TailInv /\ WindowTypeOK
  BY TheWindowThreads DEF WindowInv, WindowTypeOK, Window!Pop, Window!PopTail,
       Window!PopHead, Window!PopStore, Window!ringVars
<1>2. PICK label \in {"popHead", "popStore", "push", "popTail", "idle"} :
        /\ Window!GoTo(p, label)
        /\ label = "popStore" => windowPc[p] = "popHead" /\ seenTail[p] # head
                                                                  /\ UNCHANGED seenTail
  BY DEF Window!Pop, Window!PopTail, Window!PopHead, Window!PopStore, Window!popVars
<1>3. /\ DOMAIN windowPc' = WindowThreads
      /\ windowPc' = [m \in WindowThreads |-> windowPc'[m]]
      /\ windowPc'[p] = label
      /\ \A m \in WindowThreads : m # p => windowPc'[m] = windowPc[m]
  BY <1>1, <1>2, WindowThreadGoes
<1>4. /\ seenTail' \in [Window!Poppers -> Nat] /\ tail' \in Nat /\ tail' <= head
      /\ \A q \in Window!Poppers : seenTail'[q] <= head
      /\ \A q \in Window!Poppers : q # p => seenTail'[q] = seenTail[q]
  <2>1. CASE Window!PopTail(p)
    BY <1>1, <2>1 DEF Window!PopTail, TailInv, Window!ringVars
  <2>2. CASE Window!PopHead(p)
    BY <1>1, <2>2 DEF Window!PopHead, Window!ForgetTail, TailInv, Window!ringVars
  <2>3. CASE Window!PopStore(p)
    <3>1. /\ seenTail[p] < head /\ tail' = seenTail[p] + 1
          /\ seenTail' = [seenTail EXCEPT ![p] = 0]
      BY <1>1, <2>3 DEF Window!PopStore, Window!ForgetTail, TailInv
    <3> QED
      BY <1>1, <3>1 DEF TailInv
  <2> QED
    BY <2>1, <2>2, <2>3 DEF Window!Pop
<1>5. WindowTypeOK'
  BY <1>1, <1>3, <1>4 DEF WindowTypeOK, Window!snapVars
<1>6. TailInv'
  <2>1. ASSUME NEW q \in Window!Poppers, windowPc'[q] = "popStore"
        PROVE  seenTail'[q] < head
    <3>1. CASE q = p
      <4>1. seenTail[p] # head /\ seenTail[p] <= head /\ seenTail[p] \in Nat
            /\ seenTail'[p] = seenTail[p]
        BY <1>1, <1>2, <1>3, <2>1, <3>1 DEF TailInv
      <4> QED
        BY <1>1, <3>1, <4>1
    <3>2. CASE q # p
      <4>1. windowPc[q] = "popStore" /\ seenTail'[q] = seenTail[q]
        BY <1>3, <1>4, <2>1, <3>2, TheWindowThreads
      <4> QED
        BY <1>1, <4>1 DEF TailInv
    <3> QED
      BY <3>1, <3>2
  <2> QED
    BY <1>1, <1>4, <2>1 DEF TailInv, Window!snapVars
<1>7. BufferInv'
  BY <1>1, SlotsStay
<1>8. SnapInv' /\ Window!SnapshotExactUnlessOverrun'
  <2>1. windowPc'["reader"] = windowPc["reader"] /\ head' \in Nat /\ head' >= head
    BY <1>1, <1>3, TheWindowThreads
  <2> QED
    BY <1>1, <2>1, ReaderStays
<1> QED
  BY <1>5, <1>6, <1>7, <1>8 DEF WindowInv

LEMMA WindowReaderStep ==
  ASSUME WindowSizes, WindowInv, Window!Reader
  PROVE  WindowInv'
<1>1. /\ UNCHANGED <<head, tail, points, seenTail>>
      /\ head \in Nat /\ tail \in Nat /\ tail <= head /\ snapTail \in Nat
      /\ snapTail <= head
      /\ start \in Nat /\ count \in Nat
      /\ StorageCapacity \in Nat /\ WindowSize \in Nat
  BY DEF Window!Reader, Window!SnapTail, Window!SnapHead, Window!SnapCopy,
       Window!SnapReturn, Window!ringVars, Window!popVars,
                       WindowInv, WindowTypeOK, TailInv, WindowSizes
<1>2. /\ DOMAIN windowPc' = WindowThreads
      /\ windowPc' = [m \in WindowThreads |-> windowPc'[m]]
      /\ \A m \in WindowThreads : m # "reader" => windowPc'[m] = windowPc[m]
      /\ \/ windowPc' = windowPc /\ Window!SnapCopy
         \/ windowPc'["reader"] = "head" /\ Window!SnapTail
         \/ windowPc'["reader"] = "copy" /\ Window!SnapHead
         \/ windowPc'["reader"] = "idle" /\ Window!SnapReturn
      /\ Window!SnapTail => windowPc["reader"] = "idle" /\ windowPc'["reader"] = "head"
      /\ Window!SnapHead => windowPc["reader"] = "head" /\ windowPc'["reader"] = "copy"
      /\ Window!SnapReturn => windowPc'["reader"] = "idle"
  <2>0. /\ Window!SnapTail => windowPc["reader"] = "idle"
        /\ Window!SnapHead => windowPc["reader"] = "head"
        /\ Window!SnapCopy => windowPc["reader"] = "copy"
        /\ Window!SnapReturn => windowPc["reader"] = "copy" /\ Window!GoTo("reader", "idle")
    BY DEF Window!SnapTail, Window!SnapHead, Window!SnapCopy, Window!SnapReturn,
         Window!SnapshotTaken
  <2>1. ASSUME NEW label, Window!GoTo("reader", label)
        PROVE  /\ DOMAIN windowPc' = WindowThreads
               /\ windowPc' = [m \in WindowThreads |-> windowPc'[m]]
               /\ \A m \in WindowThreads : m # "reader" => windowPc'[m] = windowPc[m]
               /\ windowPc'["reader"] = label
    BY <2>1, WindowThreadGoes, TheWindowThreads DEF WindowInv
  <2>2. CASE Window!SnapCopy
    <3>1. UNCHANGED windowPc
      BY <2>2 DEF Window!SnapCopy
    <3>2. /\ DOMAIN windowPc' = WindowThreads
          /\ windowPc' = [m \in WindowThreads |-> windowPc'[m]]
      BY <3>1 DEF WindowInv, WindowTypeOK
    <3>3. Window!SnapReturn => windowPc'["reader"] = "idle"
      BY <2>0, <2>1
    <3> QED
      BY <2>0, <2>2, <3>1, <3>2, <3>3
  <2>3. CASE Window!SnapTail
    <3>1. Window!GoTo("reader", "head")
      BY <2>3 DEF Window!SnapTail
    <3> QED
      BY <2>0, <2>1, <2>3, <3>1
  <2>4. CASE Window!SnapHead
    <3>1. Window!GoTo("reader", "copy")
      BY <2>4 DEF Window!SnapHead
    <3> QED
      BY <2>0, <2>1, <2>4, <3>1
  <2>5. CASE Window!SnapReturn
    BY <2>0, <2>1, <2>5
  <2> QED
    BY <2>2, <2>3, <2>4, <2>5 DEF Window!Reader
<1>3. BufferInv'
  BY <1>1, SlotsStay
<1>4. /\ snapTail' \in Nat /\ snapTail' <= head
      /\ start' \in Nat /\ count' \in Nat
      /\ DOMAIN items' \subseteq (1 .. count') \X Words
      /\ \A c \in DOMAIN items' : items'[c] \in Int
      /\ SnapInv' /\ Window!SnapshotExactUnlessOverrun'
  <2>0. DOMAIN <<>> = {}
    OBVIOUS
  <2>1. CASE Window!SnapTail
    <3>1. /\ snapTail' = tail /\ items' = <<>> /\ UNCHANGED <<start, count>>
          /\ windowPc'["reader"] = "head"
      BY <1>2, <2>1 DEF Window!SnapTail, WindowInv, SnapInv
    <3> QED
      BY <1>1, <2>0, <3>1 DEF SnapInv, Window!SnapshotExactUnlessOverrun
  <2>2. CASE Window!SnapHead
    <3>1. /\ count' = IF head - snapTail < WindowSize THEN head - snapTail ELSE WindowSize
          /\ start' = head - count' /\ items = <<>> /\ UNCHANGED <<snapTail, items>>
          /\ windowPc'["reader"] = "copy"
      BY <1>2, <2>2 DEF Window!SnapHead, WindowInv, SnapInv
    <3>2. count' \in Nat /\ count' <= head
      BY <1>1, <3>1
    <3>3. start' \in Nat /\ start' + count' = head
      BY <1>1, <3>1, <3>2
    <3> QED
      BY <1>1, <2>0, <3>1, <3>2, <3>3 DEF SnapInv, Window!SnapshotExactUnlessOverrun
  <2>3. CASE Window!SnapCopy
    <3>1. /\ windowPc["reader"] = "copy" /\ windowPc' = windowPc
          /\ UNCHANGED <<snapTail, start, count>>
          /\ \E i \in 1 .. count, w \in Words :
               items' = Window!Copied(i, w, points[Window!Slot(start + i - 1)][w])
      BY <2>3 DEF Window!SnapCopy
    <3>2. PICK i \in 1 .. count, w \in Words :
            items' = Window!Copied(i, w, points[Window!Slot(start + i - 1)][w])
      BY <3>1
    <3> DEFINE k == start + i - 1
               x == points[Window!Slot(k)][w]
    <3>3. start + count <= head /\ k \in Nat /\ k < head
      BY <1>1, <3>1 DEF WindowInv, SnapInv
    <3>4. Window!Slot(k) \in Window!Slots /\ x \in Int
      BY <3>3, SlotIsSlot DEF WindowInv, WindowTypeOK
    <3>5. x >= k /\ (head < k + StorageCapacity => x = k)
      BY <3>3 DEF WindowInv, BufferInv
    <3>6. Window!Slot(x) = Window!Slot(k)
      <4>1. x \in Nat
        BY <3>3, <3>4, <3>5
      <4> QED
        BY <3>4, <4>1 DEF WindowInv, BufferInv
    <3>7. /\ DOMAIN items' = DOMAIN items \cup {<<i, w>>}
          /\ items'[<<i, w>>] = x
          /\ \A c \in DOMAIN items : c # <<i, w>> => items'[c] = items[c]
      BY <3>2 DEF Window!Copied
    <3> HIDE DEF x
    <3>8. /\ DOMAIN items' \subseteq (1 .. count) \X Words
          /\ \A c \in DOMAIN items' : items'[c] \in Int
      BY <3>4, <3>7 DEF WindowInv, WindowTypeOK
    <3>9. SnapInv'
      BY <1>1, <3>1 DEF WindowInv, SnapInv
    <3>10. Window!SnapshotExactUnlessOverrun'
      <4> SUFFICES ASSUME NEW c \in DOMAIN items'
                   PROVE  /\ items'[c] >= start + c[1] - 1
                          /\ Window!Slot(items'[c]) = Window!Slot(start + c[1] - 1)
                          /\ head < start + StorageCapacity => items'[c] = start + c[1] - 1
        BY <1>1, <3>1 DEF Window!SnapshotExactUnlessOverrun
      <4>1. CASE c = <<i, w>>
        <5>1. items'[c] = x /\ c[1] = i
          BY <3>7, <4>1
        <5>2. head < start + StorageCapacity => head < k + StorageCapacity
          BY <1>1
        <5> QED
          BY <3>5, <3>6, <5>1, <5>2
      <4>2. CASE c # <<i, w>>
        <5>1. c \in DOMAIN items /\ items'[c] = items[c]
          BY <3>7, <4>2
        <5> QED
          BY <5>1 DEF WindowInv, Window!SnapshotExactUnlessOverrun
      <4> QED
        BY <4>1, <4>2
    <3> QED
      BY <1>1, <3>1, <3>8, <3>9, <3>10
  <2>4. CASE Window!SnapReturn
    <3>1. /\ snapTail' = 0 /\ start' = 0 /\ count' = 0 /\ items' = <<>>
          /\ windowPc'["reader"] = "idle"
      BY <1>2, <2>4 DEF Window!SnapReturn
    <3> QED
      BY <1>1, <2>0, <3>1 DEF SnapInv, Window!SnapshotExactUnlessOverrun
  <2> QED
    BY <2>1, <2>2, <2>3, <2>4 DEF Window!Reader
<1>5. WindowTypeOK'
  BY <1>1, <1>2, <1>4 DEF WindowInv, WindowTypeOK
<1>6. TailInv'
  BY <1>1, <1>2, <1>4, TheWindowThreads DEF WindowInv, TailInv
<1> QED
  BY <1>3, <1>4, <1>5, <1>6 DEF WindowInv

----------------------------------------------------------------------------
(* The steps together.                                                     *)

LEMMA WindowStarts == ASSUME WindowSizes, Window!Init PROVE WindowInv
<1> USE DEF Window!Init
<1>1. DOMAIN windowPc = WindowThreads
  /\ windowPc = [n \in WindowThreads |-> windowPc[n]]
  /\ \A n \in WindowThreads : windowPc[n] = "idle"
  BY DEF WindowThreads
<1>0. DOMAIN items = {}
  OBVIOUS
<1>2. WindowTypeOK
  BY <1>0, <1>1 DEF WindowTypeOK
<1>3. TailInv /\ BufferInv
  BY <1>1, TheWindowThreads DEF TailInv, BufferInv
<1>4. SnapInv /\ Window!SnapshotExactUnlessOverrun
  BY <1>0 DEF SnapInv, Window!SnapshotExactUnlessOverrun
<1> QED
  BY <1>2, <1>3, <1>4 DEF WindowInv

LEMMA WindowStutters == ASSUME WindowInv, UNCHANGED Window!vars PROVE WindowInv'
BY DEF Window!vars, Window!ringVars, Window!popVars, Window!snapVars, WindowInv,
     WindowTypeOK, TailInv, BufferInv, SnapInv,
       Window!SnapshotExactUnlessOverrun

(***************************************************************************)
(* The window manager.                                                     *)
(***************************************************************************)

(* What the proofs assume of its constants.  That windows fit the circular *)
(* buffer is the caller's part: the constructor takes any two numbers.     *)
ManagerSizes ==
  /\ QueueCapacity \in Nat \ {0} /\ BufferCapacity \in Nat \ {0}
  /\ SpanSize \in Nat /\ SpanSize <= BufferCapacity

ManagerThreads == {"feeder", "controller", "ingestion", "computation"}

(* Items that were put in the queue, and taken out of it.                  *)
Published == IF managerPc["feeder"] \in {"check", "write", "publish"}
             THEN ingested - 1 ELSE ingested
Taken == IF managerPc["ingestion"] = "claim" THEN write_idx + 1 ELSE write_idx

ManagerTypeOK ==
  /\ running \in BOOLEAN
  /\ DOMAIN managerPc = ManagerThreads
  /\ managerPc = [n \in ManagerThreads |-> managerPc[n]]
  /\ queue \in [0 .. QueueCapacity - 1 -> Int]
  /\ ring \in [0 .. BufferCapacity - 1 -> [Words -> Int]]
  /\ queueHead \in Nat /\ queueTail \in Nat /\ ingested \in Nat
  /\ moved \in Int /\ stored \in Int /\ slot \in Nat /\ unseen \subseteq Words
  /\ read_idx \in Nat /\ write_idx \in Nat /\ size \in Nat
  /\ wanted \in Nat /\ first \in Nat
  /\ DOMAIN window \subseteq (1 .. wanted) \X Words
  /\ \A c \in DOMAIN window : window[c] \in Int

(* Where the threads can be: while the manager is stopped they are off.    *)
ControlInv ==
  /\ managerPc["feeder"] \in {"idle", "check", "write", "publish"}
  /\ managerPc["ingestion"] \in {"off", "loop", "pop", "popStore", "claim", "grow", "drop",
                                 "shrink", "ended"}
  /\ managerPc["computation"] \in {"off", "loop", "size", "start", "copy", "process", "ended"}
  /\ managerPc["controller"] \in {"idle", "join"}
  /\ managerPc["controller"] = "idle" /\ ~running =>
       managerPc["ingestion"] = "off" /\ managerPc["computation"] = "off"

(* The queue: item k is in the slot of k from its write to its pop, and    *)
(* one slot stays free, so that equal indices mean an empty queue.         *)
QueueInv ==
  /\ managerPc["feeder"] # "idle" => ingested > 0
  /\ queueHead = Published % QueueCapacity /\ queueTail = Taken % QueueCapacity
  /\ Taken <= Published /\ Published < Taken + QueueCapacity
  /\ managerPc["feeder"] \in {"write", "publish"} => Published + 1 < Taken + QueueCapacity
  /\ \A k \in Nat : Taken <= k /\ k < Published => queue[k % QueueCapacity] = k
  /\ managerPc["feeder"] = "publish" => queue[Published % QueueCapacity] = Published
  /\ managerPc["ingestion"] = "popStore" => Taken < Published /\ moved = Taken
  /\ managerPc["ingestion"] = "claim" => moved = write_idx

(* Only the newest item may not have become visible.                       *)
StoreInv ==
  /\ unseen # {} => write_idx = slot + 1 /\ stored = slot
  /\ managerPc["ingestion"] = "claim" => unseen = {}

(* The circular buffer: a word of a slot is that of its item, or of one a  *)
(* number of rounds newer; a word that is still to come is the one of the  *)
(* round before.                                                           *)
RingInv ==
  /\ \A k \in Nat, w \in Words : k < write_idx /\ (w \in unseen => k < slot) =>
       /\ ring[k % BufferCapacity][w] >= k
       /\ write_idx <= k + BufferCapacity => ring[k % BufferCapacity][w] = k
  /\ \A w \in unseen : ring[slot % BufferCapacity][w] = Manager!Lapsed(slot)
  /\ \A c \in 0 .. BufferCapacity - 1, w \in Words :
       /\ ring[c][w] # -1 => ring[c][w] \in Nat /\ ring[c][w] % BufferCapacity = c
       /\ c >= write_idx => ring[c][w] = -1

(* size_ and the two indices, which are not changed in one step.           *)
SizeInv ==
  /\ IF managerPc["ingestion"] \in {"drop", "shrink"}
     THEN size = BufferCapacity + 1 ELSE size <= BufferCapacity
  /\ read_idx + size = (IF managerPc["ingestion"] = "grow" THEN write_idx - 1
                        ELSE IF managerPc["ingestion"] = "shrink" THEN write_idx + 1
                        ELSE write_idx)

(* What getWindow is going to copy was claimed, although it reads size_    *)
(* and read_idx_ one after the other, and the writer is between them.      *)
CopyInv ==
  /\ wanted <= SpanSize
  /\ managerPc["computation"] \notin {"copy", "process"} => window = << >>
  /\ managerPc["computation"] = "start" => read_idx + wanted <= write_idx
  /\ managerPc["computation"] = "copy" => first + wanted <= write_idx
  /\ managerPc["computation"] = "process" =>
       wanted = SpanSize /\ DOMAIN window = (1 .. wanted) \X Words

(* What it has copied: words of the items of the positions from first on,  *)
(* or of items a number of rounds newer; for the last one perhaps words of *)
(* the round before.                                                       *)
Settled(x, p) ==
  /\ x >= p /\ x % BufferCapacity = p % BufferCapacity
  /\ write_idx <= first + BufferCapacity => x = p

CopiedInv ==
  \A c \in DOMAIN window :
    \/ Settled(window[c], first + c[1] - 1)
    \/ c[1] = wanted /\ window[c] = Manager!Lapsed(first + c[1] - 1)

ManagerInv == /\ ManagerTypeOK /\ ControlInv /\ QueueInv /\ StoreInv /\ RingInv
              /\ SizeInv /\ CopyInv /\ CopiedInv

----------------------------------------------------------------------------
(* What a step leaves alone.                                               *)

LEMMA TheManagerThreads ==
  /\ "feeder" \in ManagerThreads /\ "controller" \in ManagerThreads
  /\ "ingestion" \in ManagerThreads /\ "computation" \in ManagerThreads
BY DEF ManagerThreads

LEMMA ManagerThreadGoes ==
  ASSUME ManagerTypeOK, NEW n \in ManagerThreads, NEW label, Manager!GoTo(n, label)
  PROVE  /\ DOMAIN managerPc' = ManagerThreads
         /\ managerPc' = [m \in ManagerThreads |-> managerPc'[m]]
         /\ managerPc'[n] = label
         /\ \A m \in ManagerThreads : m # n => managerPc'[m] = managerPc[m]
<1>1. managerPc' = [[m \in ManagerThreads |-> managerPc[m]] EXCEPT ![n] = label]
  BY DEF ManagerTypeOK, Manager!GoTo
<1> QED
  BY <1>1

LEMMA Counts ==
  ASSUME ManagerInv
  PROVE  Published \in Nat /\ Taken \in Nat /\ write_idx <= Taken
<1>1. ingested \in Nat /\ write_idx \in Nat
  BY DEF ManagerInv, ManagerTypeOK
<1>2. managerPc["feeder"] # "idle" => ingested > 0
  BY DEF ManagerInv, QueueInv
<1>3. Published \in Nat
  BY <1>1, <1>2 DEF Published
<1>4. Taken \in Nat /\ write_idx <= Taken
  BY <1>1 DEF Taken
<1> QED
  BY <1>3, <1>4

LEMMA QueueStays ==
  ASSUME ManagerInv,
         UNCHANGED <<queue, queueHead, queueTail, ingested, moved, write_idx>>,
         managerPc'["feeder"] = managerPc["feeder"],
         \/ managerPc'["ingestion"] = managerPc["ingestion"]
         \/ /\ managerPc["ingestion"] \notin {"popStore", "claim"}
            /\ managerPc'["ingestion"] \notin {"popStore", "claim"}
  PROVE  QueueInv'
<1>1. Published' = Published /\ Taken' = Taken
  BY DEF Published, Taken
<1>2. QueueInv
  BY DEF ManagerInv
<1> QED
  BY <1>1, <1>2 DEF QueueInv

LEMMA RingStays ==
  ASSUME ManagerInv, UNCHANGED <<ring, write_idx, stored, slot, unseen>>,
         \/ managerPc'["ingestion"] = managerPc["ingestion"]
         \/ managerPc'["ingestion"] # "claim"
         \/ unseen = {}
  PROVE  StoreInv' /\ RingInv'
<1>1. StoreInv'
  BY DEF ManagerInv, StoreInv
<1>2. RingInv'
  BY DEF ManagerInv, RingInv, Manager!Lapsed
<1> QED
  BY <1>1, <1>2

LEMMA SizesStay ==
  ASSUME ManagerInv, UNCHANGED <<read_idx, write_idx, size>>,
         \/ managerPc'["ingestion"] = managerPc["ingestion"]
         \/ /\ managerPc["ingestion"] \notin {"grow", "drop", "shrink"}
            /\ managerPc'["ingestion"] \notin {"grow", "drop", "shrink"}
  PROVE  SizeInv'
BY DEF ManagerInv, SizeInv

LEMMA CopiesStay ==
  ASSUME ManagerSizes, ManagerInv, UNCHANGED <<wanted, first, window>>,
         write_idx' \in Nat, write_idx' >= write_idx
  PROVE  CopiedInv'
<1>1. /\ write_idx \in Nat /\ first \in Nat /\ BufferCapacity \in Nat
  BY DEF ManagerInv, ManagerTypeOK, ManagerSizes
<1>2. ASSUME NEW x, NEW q, Settled(x, q)
      PROVE  Settled(x, q)'
  BY <1>1, <1>2 DEF Settled
<1> SUFFICES ASSUME NEW c \in DOMAIN window
             PROVE  \/ Settled(window[c], first + c[1] - 1)'
                    \/ c[1] = wanted /\ window[c] = Manager!Lapsed(first + c[1] - 1)
  BY DEF CopiedInv, Manager!Lapsed
<1> QED
  BY <1>2 DEF ManagerInv, CopiedInv, Settled

----------------------------------------------------------------------------
(* The feeder.                                                             *)

(* A push that finds room finds it below the free slot.                    *)
LEMMA RoomInQueue ==
  ASSUME ManagerSizes, ManagerInv, (queueHead + 1) % QueueCapacity # queueTail
  PROVE  Published + 1 < Taken + QueueCapacity
<1>1. /\ Published \in Nat /\ Taken \in Nat /\ QueueCapacity \in Nat \ {0}
      /\ queueHead = Published % QueueCapacity /\ queueTail = Taken % QueueCapacity
      /\ Published < Taken + QueueCapacity
  BY Counts DEF ManagerSizes, ManagerInv, QueueInv
<1> SUFFICES ASSUME Published + 1 = Taken + QueueCapacity
             PROVE  FALSE
  BY <1>1
<1>2. (queueHead + 1) % QueueCapacity = (Published + 1) % QueueCapacity
  BY <1>1, RemainderSteps
<1>3. (Taken + QueueCapacity) % QueueCapacity = queueTail
  BY <1>1, RemaindersRecur
<1> QED
  BY <1>2, <1>3

LEMMA FeederStep ==
  ASSUME ManagerSizes, ManagerInv, Manager!Ingest \/ Manager!Push
  PROVE  ManagerInv'
<1> USE DEF Manager!queueVars, Manager!storeVars, Manager!ringVars, Manager!winVars
<1>1. PICK label \in {"check", "write", "publish", "idle"} : Manager!GoTo("feeder", label)
  BY DEF Manager!Ingest, Manager!Push, Manager!PushCheck, Manager!PushWrite, Manager!PushPublish
<1>2. /\ DOMAIN managerPc' = ManagerThreads
      /\ managerPc' = [m \in ManagerThreads |-> managerPc'[m]]
      /\ managerPc'["feeder"] = label
      /\ \A m \in ManagerThreads : m # "feeder" => managerPc'[m] = managerPc[m]
  BY <1>1, ManagerThreadGoes, TheManagerThreads DEF ManagerInv
<1>3. /\ managerPc'["ingestion"] = managerPc["ingestion"]
      /\ managerPc'["computation"] = managerPc["computation"]
      /\ managerPc'["controller"] = managerPc["controller"]
  BY <1>2, TheManagerThreads
<1>4. UNCHANGED <<running, queueTail, moved, stored, slot, unseen, ring, read_idx, write_idx,
                  size, wanted, first, window>>
  BY DEF Manager!Ingest, Manager!Push, Manager!PushCheck, Manager!PushWrite, Manager!PushPublish
<1>5. ControlInv'
  BY <1>2, <1>3, <1>4 DEF ManagerInv, ControlInv
<1>6. Taken' = Taken
  BY <1>3, <1>4 DEF Taken
<1>7. StoreInv' /\ RingInv' /\ SizeInv' /\ CopiedInv'
  <2>1. write_idx \in Nat
    BY DEF ManagerInv, ManagerTypeOK
  <2> QED
    BY <1>3, <1>4, <2>1, RingStays, SizesStay, CopiesStay
<1>8. CopyInv'
  BY <1>3, <1>4, <1>6 DEF ManagerInv, CopyInv
<1>9. /\ Published \in Nat /\ Taken \in Nat /\ ingested \in Nat /\ QueueCapacity \in Nat \ {0}
      /\ queueHead \in Nat /\ queue \in [0 .. QueueCapacity - 1 -> Int]
      /\ QueueInv
  BY Counts DEF ManagerSizes, ManagerInv, ManagerTypeOK
<1>10. /\ QueueInv' /\ ingested' \in Nat /\ queueHead' \in Nat
       /\ queue' \in [0 .. QueueCapacity - 1 -> Int]
  <2>1. CASE Manager!Ingest
    <3>1. /\ managerPc["feeder"] = "idle" /\ ingested' = ingested + 1
          /\ Manager!GoTo("feeder", "check") /\ UNCHANGED <<queue, queueHead>>
      BY <2>1 DEF Manager!Ingest
    <3>2. managerPc'["feeder"] = "check"
      BY <3>1, ManagerThreadGoes, TheManagerThreads DEF ManagerInv
    <3>3. Published' = Published
      BY <1>9, <3>1, <3>2 DEF Published
    <3> QED
      BY <1>3, <1>4, <1>6, <1>9, <3>1, <3>2, <3>3 DEF QueueInv
  <2>2. CASE Manager!PushCheck
    <3>1. /\ managerPc["feeder"] = "check" /\ (queueHead + 1) % QueueCapacity # queueTail
          /\ Manager!GoTo("feeder", "write") /\ UNCHANGED <<ingested, queue, queueHead>>
      BY <2>2 DEF Manager!PushCheck
    <3>2. managerPc'["feeder"] = "write"
      BY <3>1, ManagerThreadGoes, TheManagerThreads DEF ManagerInv
    <3>3. Published' = Published /\ Published + 1 < Taken + QueueCapacity
      BY <1>9, <3>1, <3>2, RoomInQueue DEF Published
    <3> QED
      BY <1>3, <1>4, <1>6, <1>9, <3>1, <3>2, <3>3 DEF QueueInv
  <2>3. CASE Manager!PushWrite
    <3>1. /\ managerPc["feeder"] = "write"
          /\ queue' = [queue EXCEPT ![queueHead] = ingested - 1]
          /\ Manager!GoTo("feeder", "publish") /\ UNCHANGED <<ingested, queueHead>>
      BY <2>3 DEF Manager!PushWrite
    <3>2. managerPc'["feeder"] = "publish"
      BY <3>1, ManagerThreadGoes, TheManagerThreads DEF ManagerInv
    <3>3. Published' = Published /\ Published = ingested - 1
      BY <1>9, <3>1, <3>2 DEF Published
    <3>4. queueHead = Published % QueueCapacity /\ queueHead \in 0 .. QueueCapacity - 1
      BY <1>9, RemainderOf DEF QueueInv
    <3>5. queue'[queueHead] = Published /\ queue' \in [0 .. QueueCapacity - 1 -> Int]
      BY <1>9, <3>1, <3>3, <3>4
    <3>6. ASSUME NEW k \in Nat, Taken <= k, k < Published
          PROVE  queue'[k % QueueCapacity] = k
      <4>1. queue[k % QueueCapacity] = k /\ Published < Taken + QueueCapacity
        BY <1>9, <3>6 DEF QueueInv
      <4>2. k % QueueCapacity # queueHead
        <5>1. Published - k < QueueCapacity
          BY <1>9, <3>6, <4>1
        <5> QED
          BY <1>9, <3>4, <3>6, <5>1, RemaindersApart
      <4>3. k % QueueCapacity \in 0 .. QueueCapacity - 1
        BY <1>9, RemainderOf
      <4> QED
        BY <1>9, <3>1, <4>1, <4>2, <4>3
    <3> QED
      BY <1>3, <1>4, <1>6, <1>9, <3>1, <3>2, <3>3, <3>4, <3>5, <3>6 DEF QueueInv
  <2>4. CASE Manager!PushPublish
    <3>1. /\ managerPc["feeder"] = "publish"
          /\ queueHead' = (queueHead + 1) % QueueCapacity
          /\ Manager!GoTo("feeder", "idle") /\ UNCHANGED <<ingested, queue>>
      BY <2>4 DEF Manager!PushPublish
    <3>2. managerPc'["feeder"] = "idle"
      BY <3>1, ManagerThreadGoes, TheManagerThreads DEF ManagerInv
    <3>3. Published' = Published + 1
      BY <1>9, <3>1, <3>2 DEF Published
    <3>4. queueHead' = Published' % QueueCapacity /\ queueHead' \in Nat
      <4>1. queueHead' = (Published + 1) % QueueCapacity
        BY <1>9, <3>1, RemainderSteps DEF QueueInv
      <4>2. Published + 1 \in Nat
        BY <1>9
      <4>3. (Published + 1) % QueueCapacity \in 0 .. QueueCapacity - 1
        BY <1>9, <4>2, RemainderOf
      <4> QED
        BY <1>9, <3>3, <4>1, <4>3
    <3>5. ASSUME NEW k \in Nat, Taken <= k, k < Published + 1
          PROVE  queue[k % QueueCapacity] = k
      <4>1. CASE k = Published
        BY <1>9, <3>1, <4>1 DEF QueueInv
      <4>2. CASE k < Published
        BY <1>9, <3>5, <4>2 DEF QueueInv
      <4> QED
        BY <1>9, <3>5, <4>1, <4>2
    <3>6. Published + 1 < Taken + QueueCapacity /\ Taken <= Published
      BY <1>9, <3>1 DEF QueueInv
    <3>7. managerPc["ingestion"] = "popStore" => Taken < Published + 1 /\ moved = Taken
      BY <1>9 DEF QueueInv
    <3>8. \A k \in Nat : Taken' <= k /\ k < Published' => queue'[k % QueueCapacity] = k
      BY <1>6, <3>1, <3>3, <3>5
    <3>9. /\ managerPc'["ingestion"] = "popStore" => Taken' < Published' /\ moved' = Taken'
          /\ managerPc'["ingestion"] = "claim" => moved' = write_idx'
      BY <1>3, <1>4, <1>6, <1>9, <3>3, <3>7 DEF QueueInv
    <3>10. queueTail' = Taken' % QueueCapacity
      BY <1>3, <1>4, <1>6, <1>9 DEF QueueInv
    <3>11. Taken' <= Published' /\ Published' < Taken' + QueueCapacity
      BY <1>6, <1>9, <3>3, <3>6
    <3>12. QueueInv'
      BY <3>2, <3>4, <3>8, <3>9, <3>10, <3>11 DEF QueueInv
    <3> QED
      BY <1>9, <3>1, <3>4, <3>12
  <2> QED
    BY <2>1, <2>2, <2>3, <2>4 DEF Manager!Push
<1>11. ManagerTypeOK'
  BY <1>2, <1>4, <1>10 DEF ManagerInv, ManagerTypeOK
<1> QED
  BY <1>5, <1>7, <1>8, <1>10, <1>11 DEF ManagerInv

----------------------------------------------------------------------------
(* The ingestion thread.                                                   *)

(* What all its steps have in common.                                      *)
LEMMA IngestionFrame ==
  ASSUME ManagerSizes, ManagerInv, Manager!Ingestion
  PROVE  /\ UNCHANGED <<running, queue, queueHead, ingested, wanted, first, window>>
         /\ \E label \in {"loop", "pop", "popStore", "claim", "grow", "drop",
                          "shrink", "ended"} : Manager!GoTo("ingestion", label)
         /\ DOMAIN managerPc' = ManagerThreads
         /\ managerPc' = [m \in ManagerThreads |-> managerPc'[m]]
         /\ managerPc'["feeder"] = managerPc["feeder"]
         /\ managerPc'["computation"] = managerPc["computation"]
         /\ managerPc'["controller"] = managerPc["controller"]
         /\ ControlInv'
<1> USE DEF Manager!queueVars, Manager!storeVars, Manager!ringVars, Manager!winVars
<1>1. /\ \E label \in {"loop", "pop", "popStore", "claim", "grow", "drop",
                       "shrink", "ended"} : Manager!GoTo("ingestion", label)
      /\ UNCHANGED <<running, queue, queueHead, ingested, wanted, first, window>>
      /\ managerPc["ingestion"] # "off"
  BY DEF Manager!Ingestion, Manager!IngestionLoop, Manager!PopRead, Manager!PopStore,
         Manager!ClaimSlot, Manager!GrowSize, Manager!DropOldest, Manager!ShrinkSize
<1>2. PICK label \in {"loop", "pop", "popStore", "claim", "grow", "drop",
                      "shrink", "ended"} : Manager!GoTo("ingestion", label)
  BY <1>1
<1>3. /\ DOMAIN managerPc' = ManagerThreads
      /\ managerPc' = [m \in ManagerThreads |-> managerPc'[m]]
      /\ managerPc'["ingestion"] = label
      /\ \A m \in ManagerThreads : m # "ingestion" => managerPc'[m] = managerPc[m]
  BY <1>2, ManagerThreadGoes, TheManagerThreads DEF ManagerInv
<1>4. /\ managerPc'["feeder"] = managerPc["feeder"]
      /\ managerPc'["computation"] = managerPc["computation"]
      /\ managerPc'["controller"] = managerPc["controller"]
  BY <1>3, TheManagerThreads
<1>5. ControlInv'
  BY <1>1, <1>3, <1>4 DEF ManagerInv, ControlInv
<1> QED
  BY <1>1, <1>3, <1>4, <1>5

(* The steps that move no item: the loop, an empty queue.                  *)
LEMMA IngestionPasses ==
  ASSUME ManagerSizes, ManagerInv, Manager!Ingestion,
         UNCHANGED <<queueTail, moved, stored, slot, unseen, ring, read_idx, write_idx, size>>,
         managerPc["ingestion"] \in {"loop", "pop"},
         managerPc'["ingestion"] \in {"loop", "pop", "ended"}
  PROVE  ManagerInv'
<1>1. QueueInv' /\ SizeInv' /\ StoreInv' /\ RingInv'
  BY IngestionFrame, QueueStays, RingStays, SizesStay
<1>2. CopiedInv'
  <2>1. write_idx \in Nat
    BY DEF ManagerInv, ManagerTypeOK
  <2> QED
    BY <2>1, IngestionFrame, CopiesStay
<1>3. CopyInv'
  BY <1>1, IngestionFrame DEF ManagerInv, CopyInv
<1>4. ManagerTypeOK'
  BY IngestionFrame DEF ManagerInv, ManagerTypeOK
<1> QED
  BY <1>1, <1>2, <1>3, <1>4, IngestionFrame DEF ManagerInv

LEMMA PopSteps ==
  ASSUME ManagerSizes, ManagerInv, Manager!PopRead \/ Manager!PopStore
  PROVE  ManagerInv'
<1> USE DEF Manager!queueVars, Manager!storeVars, Manager!ringVars, Manager!winVars
<1>1. Manager!Ingestion
  BY DEF Manager!Ingestion
<1>2. /\ Published \in Nat /\ Taken \in Nat /\ QueueCapacity \in Nat \ {0}
      /\ write_idx \in Nat /\ queueTail \in Nat /\ moved \in Int
      /\ queue \in [0 .. QueueCapacity - 1 -> Int]
      /\ QueueInv
  BY Counts DEF ManagerSizes, ManagerInv, ManagerTypeOK
<1>3. UNCHANGED <<stored, slot, unseen, ring, read_idx, write_idx, size>>
  BY DEF Manager!PopRead, Manager!PopStore
<1>4. CASE Manager!PopRead /\ queueTail = queueHead
  <2>1. /\ managerPc["ingestion"] = "pop" /\ Manager!GoTo("ingestion", "loop")
        /\ UNCHANGED <<moved, queueTail>>
    BY <1>4 DEF Manager!PopRead
  <2>2. managerPc'["ingestion"] = "loop"
    BY <2>1, ManagerThreadGoes, TheManagerThreads DEF ManagerInv
  <2> QED
    BY <1>1, <1>3, <2>1, <2>2, IngestionPasses
<1>5. CASE ~ (Manager!PopRead /\ queueTail = queueHead)
  <2>1. /\ Published' = Published /\ UNCHANGED <<queue, queueHead, ingested>>
        /\ managerPc'["feeder"] = managerPc["feeder"]
    BY <1>1, IngestionFrame DEF Published
  <2>2. /\ QueueInv' /\ moved' \in Int /\ queueTail' \in Nat
        /\ managerPc["ingestion"] \in {"pop", "popStore"}
        /\ managerPc'["ingestion"] \in {"popStore", "claim"}
        /\ managerPc'["ingestion"] = "claim" => unseen = {}
    <3>1. CASE Manager!PopRead
      <4>1. /\ managerPc["ingestion"] = "pop" /\ Manager!GoTo("ingestion", "popStore")
            /\ queueTail # queueHead /\ moved' = queue[queueTail] /\ UNCHANGED queueTail
        BY <1>5, <3>1 DEF Manager!PopRead
      <4>2. managerPc'["ingestion"] = "popStore"
        BY <4>1, ManagerThreadGoes, TheManagerThreads DEF ManagerInv
      <4>3. Taken' = Taken
        BY <1>3, <4>1, <4>2 DEF Taken
      <4>4. Taken < Published
        BY <1>2, <4>1 DEF QueueInv
      <4>5. moved' = Taken
        BY <1>2, <4>1, <4>4 DEF QueueInv
      <4> QED
        BY <1>2, <1>3, <2>1, <4>1, <4>2, <4>3, <4>4, <4>5 DEF QueueInv
    <3>2. CASE Manager!PopStore
      <4>1. /\ managerPc["ingestion"] = "popStore" /\ Manager!GoTo("ingestion", "claim")
            /\ queueTail' = (queueTail + 1) % QueueCapacity /\ UNCHANGED moved
            /\ unseen = {}
        BY <3>2 DEF Manager!PopStore
      <4>2. managerPc'["ingestion"] = "claim"
        BY <4>1, ManagerThreadGoes, TheManagerThreads DEF ManagerInv
      <4>3. Taken' = Taken + 1 /\ Taken = write_idx
        BY <1>2, <1>3, <4>1, <4>2 DEF Taken
      <4>4. Taken < Published /\ moved = Taken /\ Published < Taken + QueueCapacity
        BY <1>2, <4>1 DEF QueueInv
      <4>5. queueTail' = Taken' % QueueCapacity /\ queueTail' \in Nat
        <5>1. queueTail = Taken % QueueCapacity
          BY <1>2 DEF QueueInv
        <5>2. ((Taken % QueueCapacity) + 1) % QueueCapacity = (Taken + 1) % QueueCapacity
          BY <1>2, RemainderSteps
        <5>3. queueTail' = (Taken + 1) % QueueCapacity /\ Taken + 1 \in Nat
          BY <1>2, <4>1, <5>1, <5>2
        <5>4. (Taken + 1) % QueueCapacity \in 0 .. QueueCapacity - 1
          BY <1>2, <5>3, RemainderOf
        <5> QED
          BY <1>2, <4>3, <5>3, <5>4
      <4>6. ASSUME NEW k \in Nat, Taken + 1 <= k, k < Published
            PROVE  queue[k % QueueCapacity] = k
        <5>1. Taken <= k
          BY <1>2, <4>6
        <5> QED
          BY <1>2, <4>6, <5>1 DEF QueueInv
      <4>7. /\ Taken + 1 <= Published /\ Published < Taken + 1 + QueueCapacity
            /\ managerPc["feeder"] \in {"write", "publish"} =>
                 Published + 1 < Taken + 1 + QueueCapacity
        BY <1>2, <4>4
      <4> QED
        BY <1>2, <1>3, <2>1, <4>1, <4>2, <4>3, <4>4, <4>5, <4>6, <4>7 DEF QueueInv
    <3> QED
      BY <3>1, <3>2
  <2>3. StoreInv' /\ RingInv' /\ SizeInv' /\ CopiedInv'
    BY <1>1, <1>2, <1>3, <2>2, IngestionFrame, RingStays, SizesStay, CopiesStay
  <2>4. CopyInv'
    BY <1>1, <1>3, <2>3, IngestionFrame DEF ManagerInv, CopyInv
  <2>5. ManagerTypeOK'
    BY <1>1, <1>3, <2>2, IngestionFrame DEF ManagerInv, ManagerTypeOK
  <2> QED
    BY <1>1, <2>2, <2>3, <2>4, <2>5, IngestionFrame DEF ManagerInv
<1> QED
  BY <1>4, <1>5

LEMMA ClaimStep ==
  ASSUME ManagerSizes, ManagerInv, Manager!ClaimSlot
  PROVE  ManagerInv'
<1> USE DEF Manager!queueVars, Manager!ringVars, Manager!winVars
<1>1. Manager!Ingestion
  BY DEF Manager!Ingestion
<1>2. /\ managerPc["ingestion"] = "claim" /\ Manager!GoTo("ingestion", "grow")
      /\ slot' = write_idx /\ stored' = moved /\ unseen' = Words
      /\ write_idx' = write_idx + 1
      /\ UNCHANGED <<queueTail, moved, ring, read_idx, size>>
  BY DEF Manager!ClaimSlot
<1>3. managerPc'["ingestion"] = "grow"
  BY <1>2, ManagerThreadGoes, TheManagerThreads DEF ManagerInv
<1>4. /\ write_idx \in Nat /\ read_idx \in Nat /\ size \in Nat
      /\ Published' = Published /\ Taken' = Taken
      /\ BufferCapacity \in Nat \ {0} /\ unseen = {} /\ moved = write_idx
  <2>1. write_idx \in Nat /\ read_idx \in Nat /\ size \in Nat /\ BufferCapacity \in Nat \ {0}
    BY DEF ManagerInv, ManagerTypeOK, ManagerSizes
  <2>2. unseen = {} /\ moved = write_idx
    BY <1>2 DEF ManagerInv, StoreInv, QueueInv
  <2> QED
    BY <1>1, <1>2, <1>3, <2>1, <2>2, IngestionFrame DEF Published, Taken
<1>5. QueueInv'
  BY <1>1, <1>2, <1>3, <1>4, IngestionFrame DEF ManagerInv, QueueInv
<1>6. StoreInv'
  BY <1>2, <1>3, <1>4 DEF StoreInv
<1>7. RingInv'
  <2>1. ASSUME NEW k \in Nat, NEW w \in Words, k < write_idx
        PROVE  /\ ring[k % BufferCapacity][w] >= k
               /\ write_idx <= k + BufferCapacity => ring[k % BufferCapacity][w] = k
    BY <1>4, <2>1 DEF ManagerInv, RingInv
  <2>2. ASSUME NEW k \in Nat, NEW w \in Words, k < write_idx
        PROVE  /\ ring[k % BufferCapacity][w] >= k
               /\ write_idx + 1 <= k + BufferCapacity => ring[k % BufferCapacity][w] = k
    BY <1>4, <2>1, <2>2
  <2>3. ASSUME NEW w \in Words
        PROVE  ring[write_idx % BufferCapacity][w] = Manager!Lapsed(write_idx)
    <3>1. CASE write_idx < BufferCapacity
      <4>1. write_idx % BufferCapacity = write_idx
        BY <1>4, <3>1
      <4>2. write_idx \in 0 .. BufferCapacity - 1
        BY <1>4, <3>1
      <4> QED
        BY <1>4, <3>1, <4>1, <4>2 DEF ManagerInv, RingInv, Manager!Lapsed
    <3>2. CASE ~ (write_idx < BufferCapacity)
      <4> DEFINE k == write_idx - BufferCapacity
      <4>1. k \in Nat /\ k < write_idx /\ write_idx <= k + BufferCapacity
            /\ k + BufferCapacity = write_idx
        BY <1>4, <3>2
      <4>2. ring[k % BufferCapacity][w] = k
        BY <2>1, <4>1
      <4>3. (k + BufferCapacity) % BufferCapacity = k % BufferCapacity
        BY <1>4, <4>1, RemaindersRecur
      <4> QED
        BY <3>2, <4>1, <4>2, <4>3 DEF Manager!Lapsed
    <3> QED
      BY <3>1, <3>2
  <2>4. ASSUME NEW c \in 0 .. BufferCapacity - 1, NEW w \in Words
        PROVE  /\ ring[c][w] # -1 => ring[c][w] \in Nat /\ ring[c][w] % BufferCapacity = c
               /\ c >= write_idx + 1 => ring[c][w] = -1
    <3>1. /\ ring[c][w] # -1 => ring[c][w] \in Nat /\ ring[c][w] % BufferCapacity = c
          /\ c >= write_idx => ring[c][w] = -1
      BY DEF ManagerInv, RingInv
    <3> QED
      BY <1>4, <3>1
  <2>5. Manager!Lapsed(slot)' = Manager!Lapsed(write_idx)
    BY <1>2 DEF Manager!Lapsed
  <2> QED
    BY <1>2, <1>4, <2>2, <2>3, <2>4, <2>5 DEF RingInv
<1>8. SizeInv'
  BY <1>2, <1>3, <1>4 DEF ManagerInv, SizeInv
<1>9. CopyInv'
  <2>1. /\ UNCHANGED <<wanted, first, window>>
        /\ managerPc'["computation"] = managerPc["computation"]
    BY <1>1, IngestionFrame
  <2>2. wanted \in Nat /\ first \in Nat
    BY DEF ManagerInv, ManagerTypeOK
  <2>3. /\ managerPc["computation"] = "start" => read_idx + wanted <= write_idx + 1
        /\ managerPc["computation"] = "copy" => first + wanted <= write_idx + 1
    BY <1>4, <2>2 DEF ManagerInv, CopyInv
  <2> QED
    BY <1>2, <2>1, <2>3 DEF ManagerInv, CopyInv
<1>10. CopiedInv'
  BY <1>1, <1>2, <1>4, IngestionFrame, CopiesStay
<1>11. ManagerTypeOK'
  <2>1. write_idx' \in Nat /\ slot' \in Nat /\ stored' \in Int /\ unseen' \subseteq Words
    BY <1>2, <1>4 DEF ManagerInv, ManagerTypeOK
  <2>2. /\ UNCHANGED <<running, queue, queueHead, ingested, wanted, first, window>>
        /\ DOMAIN managerPc' = ManagerThreads
        /\ managerPc' = [m \in ManagerThreads |-> managerPc'[m]]
    BY <1>1, IngestionFrame
  <2> QED
    BY <1>2, <2>1, <2>2 DEF ManagerInv, ManagerTypeOK
<1> QED
  BY <1>1, <1>5, <1>6, <1>7, <1>8, <1>9, <1>10, <1>11, IngestionFrame DEF ManagerInv

LEMMA WordLandsStep ==
  ASSUME ManagerSizes, ManagerInv, Manager!WordLands
  PROVE  ManagerInv'
<1> USE DEF Manager!queueVars, Manager!winVars
<1>1. /\ UNCHANGED <<running, managerPc, queue, queueHead, queueTail, ingested, moved, stored,
                     slot, read_idx, write_idx, size, wanted, first, window>>
      /\ \E v \in unseen : /\ ring' = [ring EXCEPT ![slot % BufferCapacity][v] = stored]
                            /\ unseen' = unseen \ {v}
  BY DEF Manager!WordLands
<1>2. PICK v \in unseen : /\ ring' = [ring EXCEPT ![slot % BufferCapacity][v] = stored]
                          /\ unseen' = unseen \ {v}
  BY <1>1
<1>3. /\ write_idx \in Nat /\ slot \in Nat /\ unseen \subseteq Words
      /\ BufferCapacity \in Nat \ {0} /\ ring \in [0 .. BufferCapacity - 1 -> [Words -> Int]]
      /\ stored = slot /\ write_idx = slot + 1
  BY <1>2 DEF ManagerInv, ManagerTypeOK, ManagerSizes, StoreInv
<1>4. slot % BufferCapacity \in 0 .. BufferCapacity - 1 /\ slot % BufferCapacity <= slot
  <2>1. slot % BufferCapacity \in 0 .. BufferCapacity - 1
    BY <1>3, RemainderOf
  <2>2. slot < BufferCapacity => slot % BufferCapacity = slot
    BY <1>3, RemaindersFirst
  <2> QED
    BY <1>3, <2>1, <2>2
<1>5. /\ \A c \in 0 .. BufferCapacity - 1, w \in Words :
           ring'[c][w] = IF c = slot % BufferCapacity /\ w = v THEN slot ELSE ring[c][w]
      /\ ring' \in [0 .. BufferCapacity - 1 -> [Words -> Int]]
  BY <1>2, <1>3, <1>4
<1>6. RingInv'
  <2>1. ASSUME NEW k \in Nat, NEW w \in Words, k < write_idx, w \in unseen' => k < slot
        PROVE  /\ ring'[k % BufferCapacity][w] >= k
               /\ write_idx <= k + BufferCapacity => ring'[k % BufferCapacity][w] = k
    <3>1. k % BufferCapacity \in 0 .. BufferCapacity - 1
      BY <1>3, RemainderOf
    <3>2. CASE k % BufferCapacity = slot % BufferCapacity /\ w = v
      <4>1. ASSUME k # slot
            PROVE  ~ (slot - k < BufferCapacity)
        <5>1. k < slot
          BY <1>3, <2>1, <4>1
        <5> QED
          BY <1>3, <3>2, <5>1, RemaindersApart
      <4>2. k # slot => ~ (write_idx <= k + BufferCapacity)
        BY <1>3, <4>1
      <4>3. ring'[k % BufferCapacity][w] = slot
        BY <1>5, <3>1, <3>2
      <4> QED
        BY <1>3, <2>1, <4>2, <4>3
    <3>3. CASE ~ (k % BufferCapacity = slot % BufferCapacity /\ w = v)
      <4>1. w \in unseen => k < slot
        <5>1. CASE w = v
          <6>1. k # slot
            BY <3>3, <5>1
          <6> QED
            BY <1>3, <2>1, <6>1
        <5>2. CASE w # v
          BY <1>2, <2>1, <5>2
        <5> QED
          BY <5>1, <5>2
      <4>2. /\ ring[k % BufferCapacity][w] >= k
            /\ write_idx <= k + BufferCapacity => ring[k % BufferCapacity][w] = k
        BY <2>1, <4>1 DEF ManagerInv, RingInv
      <4>3. ring'[k % BufferCapacity][w] = ring[k % BufferCapacity][w]
        BY <1>5, <3>1, <3>3
      <4> QED
        BY <4>2, <4>3
    <3> QED
      BY <3>2, <3>3
  <2>2. ASSUME NEW w \in unseen'
        PROVE  ring'[slot % BufferCapacity][w] = Manager!Lapsed(slot)
    <3>1. w \in unseen /\ w # v /\ w \in Words
      BY <1>2, <1>3
    <3> QED
      BY <1>4, <1>5, <3>1 DEF ManagerInv, RingInv
  <2>3. ASSUME NEW c \in 0 .. BufferCapacity - 1, NEW w \in Words
        PROVE  /\ ring'[c][w] # -1 => ring'[c][w] \in Nat /\ ring'[c][w] % BufferCapacity = c
               /\ c >= write_idx => ring'[c][w] = -1
    <3>1. CASE c = slot % BufferCapacity /\ w = v
      <4>1. ring'[c][w] = slot
        BY <1>5, <3>1
      <4>2. c < write_idx
        BY <1>3, <1>4, <3>1
      <4> QED
        BY <1>3, <3>1, <4>1, <4>2
    <3>2. CASE ~ (c = slot % BufferCapacity /\ w = v)
      BY <1>5, <3>2 DEF ManagerInv, RingInv
    <3> QED
      BY <3>1, <3>2
  <2>4. Manager!Lapsed(slot)' = Manager!Lapsed(slot)
    BY <1>1 DEF Manager!Lapsed
  <2> QED
    BY <1>1, <2>1, <2>2, <2>3, <2>4 DEF RingInv
<1>7. StoreInv' /\ ManagerTypeOK'
  <2>1. unseen' \subseteq Words
    BY <1>2, <1>3
  <2>2. managerPc["ingestion"] # "claim"
    BY <1>2 DEF ManagerInv, StoreInv
  <2>3. StoreInv'
    BY <1>1, <1>3, <2>2 DEF StoreInv
  <2>4. ManagerTypeOK'
    BY <1>1, <1>5, <2>1 DEF ManagerInv, ManagerTypeOK
  <2> QED
    BY <2>3, <2>4
<1>8. QueueInv' /\ SizeInv' /\ ControlInv'
  BY <1>1, QueueStays, SizesStay DEF ManagerInv, ControlInv
<1>9. CopyInv' /\ CopiedInv'
  BY <1>1, <1>3, CopiesStay DEF ManagerInv, CopyInv
<1> QED
  BY <1>6, <1>7, <1>8, <1>9 DEF ManagerInv

(* The steps that keep the size.                                           *)
LEMMA SizeSteps ==
  ASSUME ManagerSizes, ManagerInv,
         Manager!GrowSize \/ Manager!DropOldest \/ Manager!ShrinkSize
  PROVE  ManagerInv'
<1> USE DEF Manager!queueVars, Manager!storeVars, Manager!ringVars, Manager!winVars
<1>1. Manager!Ingestion
  BY DEF Manager!Ingestion
<1>2. UNCHANGED <<queueTail, moved, stored, slot, unseen, ring, write_idx>>
  BY DEF Manager!GrowSize, Manager!DropOldest, Manager!ShrinkSize
<1>3. /\ write_idx \in Nat /\ read_idx \in Nat /\ size \in Nat /\ BufferCapacity \in Nat \ {0}
      /\ wanted \in Nat /\ SpanSize \in Nat /\ SpanSize <= BufferCapacity
      /\ SizeInv /\ CopyInv
  BY DEF ManagerInv, ManagerTypeOK, ManagerSizes
<1>4. /\ managerPc["ingestion"] \in {"grow", "drop", "shrink"}
      /\ managerPc'["ingestion"] \in {"drop", "shrink", "loop"}
      /\ read_idx' \in Nat /\ size' \in Nat /\ SizeInv'
      /\ managerPc["computation"] = "start" => read_idx' + wanted <= write_idx
  <2>1. CASE Manager!GrowSize
    <3>1. /\ managerPc["ingestion"] = "grow" /\ size' = size + 1 /\ UNCHANGED read_idx
          /\ Manager!GoTo("ingestion", IF size >= BufferCapacity THEN "drop" ELSE "loop")
      BY <2>1 DEF Manager!GrowSize
    <3>2. managerPc'["ingestion"] = IF size >= BufferCapacity THEN "drop" ELSE "loop"
      BY <3>1, ManagerThreadGoes, TheManagerThreads DEF ManagerInv
    <3>3. /\ size <= BufferCapacity /\ read_idx + size = write_idx - 1
      BY <1>3, <3>1 DEF SizeInv
    <3>4. SizeInv'
      <4>1. CASE size >= BufferCapacity
        BY <1>2, <1>3, <3>1, <3>2, <3>3, <4>1 DEF SizeInv
      <4>2. CASE ~ (size >= BufferCapacity)
        BY <1>2, <1>3, <3>1, <3>2, <3>3, <4>2 DEF SizeInv
      <4> QED
        BY <4>1, <4>2
    <3> QED
      BY <1>3, <3>1, <3>2, <3>4 DEF CopyInv
  <2>2. CASE Manager!DropOldest
    <3>1. /\ managerPc["ingestion"] = "drop" /\ read_idx' = read_idx + 1 /\ UNCHANGED size
          /\ Manager!GoTo("ingestion", "shrink")
      BY <2>2 DEF Manager!DropOldest
    <3>2. managerPc'["ingestion"] = "shrink"
      BY <3>1, ManagerThreadGoes, TheManagerThreads DEF ManagerInv
    <3>3. size = BufferCapacity + 1 /\ read_idx + size = write_idx
      BY <1>3, <3>1 DEF SizeInv
    <3>4. SizeInv'
      BY <1>2, <1>3, <3>1, <3>2, <3>3 DEF SizeInv
    <3>5. managerPc["computation"] = "start" => read_idx' + wanted <= write_idx
      BY <1>3, <3>1, <3>3 DEF CopyInv
    <3> QED
      BY <1>3, <3>1, <3>2, <3>4, <3>5
  <2>3. CASE Manager!ShrinkSize
    <3>1. /\ managerPc["ingestion"] = "shrink" /\ size' = BufferCapacity /\ UNCHANGED read_idx
          /\ Manager!GoTo("ingestion", "loop")
      BY <2>3 DEF Manager!ShrinkSize
    <3>2. managerPc'["ingestion"] = "loop"
      BY <3>1, ManagerThreadGoes, TheManagerThreads DEF ManagerInv
    <3>3. size = BufferCapacity + 1 /\ read_idx + size = write_idx + 1
      BY <1>3, <3>1 DEF SizeInv
    <3>4. SizeInv'
      BY <1>2, <1>3, <3>1, <3>2, <3>3 DEF SizeInv
    <3> QED
      BY <1>3, <3>1, <3>2, <3>4 DEF CopyInv
  <2> QED
    BY <2>1, <2>2, <2>3
<1>5. QueueInv' /\ StoreInv' /\ RingInv'
  BY <1>1, <1>2, <1>4, IngestionFrame, QueueStays, RingStays
<1>6. CopiedInv'
  BY <1>1, <1>2, <1>3, IngestionFrame, CopiesStay
<1>7. CopyInv'
  BY <1>1, <1>2, <1>3, <1>4, IngestionFrame DEF CopyInv
<1>8. ManagerTypeOK'
  BY <1>1, <1>2, <1>4, IngestionFrame DEF ManagerInv, ManagerTypeOK
<1> QED
  BY <1>1, <1>4, <1>5, <1>6, <1>7, <1>8, IngestionFrame DEF ManagerInv

LEMMA IngestionStep ==
  ASSUME ManagerSizes, ManagerInv, Manager!Ingestion
  PROVE  ManagerInv'
<1>1. CASE Manager!IngestionLoop
  <2>1. /\ managerPc["ingestion"] = "loop"
        /\ Manager!GoTo("ingestion", IF running THEN "pop" ELSE "ended")
        /\ UNCHANGED <<queueTail, moved, stored, slot, unseen, ring, read_idx, write_idx, size>>
    BY <1>1 DEF Manager!IngestionLoop, Manager!queueVars, Manager!storeVars, Manager!ringVars
  <2>2. managerPc'["ingestion"] = IF running THEN "pop" ELSE "ended"
    BY <2>1, ManagerThreadGoes, TheManagerThreads DEF ManagerInv
  <2> QED
    BY <2>1, <2>2, IngestionPasses
<1> QED
  BY <1>1, PopSteps, ClaimStep, SizeSteps DEF Manager!Ingestion

----------------------------------------------------------------------------
(* The computation thread.                                                 *)

LEMMA CopyOneWord ==
  ASSUME ManagerSizes, ManagerInv, Manager!CopyItem
  PROVE  /\ DOMAIN window' \subseteq (1 .. wanted) \X Words
         /\ \A d \in DOMAIN window' : window'[d] \in Int
         /\ CopiedInv'
<1>1. /\ write_idx \in Nat /\ first \in Nat /\ wanted \in Nat /\ slot \in Nat
      /\ BufferCapacity \in Nat \ {0} /\ ring \in [0 .. BufferCapacity - 1 -> [Words -> Int]]
      /\ DOMAIN window \subseteq (1 .. wanted) \X Words
      /\ \A d \in DOMAIN window : window[d] \in Int
  BY DEF ManagerInv, ManagerTypeOK, ManagerSizes
<1>2. /\ managerPc["computation"] = "copy" /\ UNCHANGED <<wanted, first, write_idx>>
      /\ \E i \in 1 .. wanted, w \in Words :
           window' = Manager!Copied(i, w, ring[(first + i - 1) % BufferCapacity][w])
  BY DEF Manager!CopyItem, Manager!ringVars
<1>3. PICK i \in 1 .. wanted, w \in Words :
        window' = Manager!Copied(i, w, ring[(first + i - 1) % BufferCapacity][w])
  BY <1>2
<1> DEFINE p == first + i - 1
           c == p % BufferCapacity
           x == ring[c][w]
<1>4. p \in Nat /\ p < write_idx /\ first <= p
  <2>1. first + wanted <= write_idx
    BY <1>2 DEF ManagerInv, CopyInv
  <2> QED
    BY <1>1, <2>1
<1>5. c \in 0 .. BufferCapacity - 1 /\ x \in Int
  <2>1. c \in 0 .. BufferCapacity - 1
    BY <1>1, <1>4, RemainderOf
  <2> QED
    BY <1>1, <2>1
<1>6. Settled(x, p) \/ (i = wanted /\ x = Manager!Lapsed(p))
  <2>1. CASE w \in unseen /\ ~ (p < slot)
    <3>1. write_idx = slot + 1 /\ ring[slot % BufferCapacity][w] = Manager!Lapsed(slot)
      BY <2>1 DEF ManagerInv, StoreInv, RingInv
    <3>2. p = slot
      BY <1>1, <1>4, <2>1, <3>1
    <3>3. first + wanted <= write_idx
      BY <1>2 DEF ManagerInv, CopyInv
    <3>4. i = wanted
      BY <1>1, <3>1, <3>2, <3>3
    <3> QED
      BY <3>1, <3>2, <3>4
  <2>2. CASE ~ (w \in unseen /\ ~ (p < slot))
    <3>1. /\ x >= p
          /\ write_idx <= p + BufferCapacity => x = p
      BY <1>4, <2>2 DEF ManagerInv, RingInv
    <3>2. x # -1 => x % BufferCapacity = c
      BY <1>5 DEF ManagerInv, RingInv
    <3> HIDE DEF x, c
    <3>3. x # -1
      BY <1>4, <1>5, <3>1
    <3>4. write_idx <= first + BufferCapacity => write_idx <= p + BufferCapacity
      BY <1>1, <1>4
    <3>5. c = p % BufferCapacity
      BY DEF c
    <3>6. x % BufferCapacity = p % BufferCapacity
      BY <3>2, <3>3, <3>5
    <3> HIDE DEF p
    <3> QED
      BY <3>1, <3>4, <3>6 DEF Settled
  <2> QED
    BY <2>1, <2>2
<1>7. /\ DOMAIN window' = DOMAIN window \cup {<<i, w>>}
      /\ window'[<<i, w>>] = x
      /\ \A d \in DOMAIN window : d # <<i, w>> => window'[d] = window[d]
  BY <1>3 DEF Manager!Copied
<1> HIDE DEF x
<1>8. /\ DOMAIN window' \subseteq (1 .. wanted) \X Words
      /\ \A d \in DOMAIN window' : window'[d] \in Int
  <2>1. <<i, w>> \in (1 .. wanted) \X Words
    OBVIOUS
  <2>2. DOMAIN window' \subseteq (1 .. wanted) \X Words
    BY <1>1, <1>7, <2>1
  <2>3. ASSUME NEW d \in DOMAIN window'
        PROVE  window'[d] \in Int
    BY <1>1, <1>5, <1>7, <2>3
  <2> QED
    BY <2>2, <2>3
<1>9. ASSUME NEW y, NEW q, Settled(y, q)
      PROVE  Settled(y, q)'
  BY <1>2, <1>9 DEF Settled
<1>10. ASSUME NEW d \in DOMAIN window'
       PROVE  \/ Settled(window'[d], first + d[1] - 1)
              \/ d[1] = wanted /\ window'[d] = Manager!Lapsed(first + d[1] - 1)
  <2>1. CASE d = <<i, w>>
    <3>1. d[1] = i /\ window'[d] = x
      BY <1>7, <2>1
    <3> QED
      BY <1>6, <3>1
  <2>2. CASE d # <<i, w>>
    <3>1. d \in DOMAIN window /\ window'[d] = window[d]
      BY <1>7, <2>2
    <3> QED
      BY <3>1 DEF ManagerInv, CopiedInv
  <2> QED
    BY <2>1, <2>2
<1> QED
  BY <1>2, <1>8, <1>9, <1>10 DEF CopiedInv, Settled, Manager!Lapsed

LEMMA ComputationStep ==
  ASSUME ManagerSizes, ManagerInv, Manager!Computation
  PROVE  ManagerInv'
<1> USE DEF Manager!queueVars, Manager!storeVars, Manager!ringVars, Manager!winVars
<1>1. /\ UNCHANGED <<running, queue, queueHead, queueTail, ingested, moved, stored, slot,
                     unseen, ring, read_idx, write_idx, size>>
      /\ managerPc["computation"] # "off"
  BY DEF Manager!Computation, Manager!ComputationLoop, Manager!ReadSize, Manager!ReadStart,
         Manager!CopyItem, Manager!ProcessWindow, Manager!SkipWindow, Manager!Processed,
         Manager!WindowCopied
<1>2. /\ DOMAIN managerPc' = ManagerThreads
      /\ managerPc' = [m \in ManagerThreads |-> managerPc'[m]]
      /\ managerPc'["computation"] \in
           {"off", "loop", "size", "start", "copy", "process", "ended"}
      /\ \A m \in ManagerThreads : m # "computation" => managerPc'[m] = managerPc[m]
  <2>1. CASE \E label \in {"loop", "size", "start", "copy", "process", "ended"} :
               Manager!GoTo("computation", label)
    <3>1. PICK label \in {"loop", "size", "start", "copy", "process", "ended"} :
            Manager!GoTo("computation", label)
      BY <2>1
    <3> QED
      BY <3>1, ManagerThreadGoes, TheManagerThreads DEF ManagerInv
  <2>2. CASE managerPc' = managerPc
    BY <2>2 DEF ManagerInv, ManagerTypeOK, ControlInv
  <2> QED
    BY <2>1, <2>2
       DEF Manager!Computation, Manager!ComputationLoop, Manager!ReadSize, Manager!ReadStart,
           Manager!CopyItem, Manager!ProcessWindow, Manager!SkipWindow, Manager!Processed,
         Manager!WindowCopied
<1>3. /\ managerPc'["feeder"] = managerPc["feeder"]
      /\ managerPc'["ingestion"] = managerPc["ingestion"]
      /\ managerPc'["controller"] = managerPc["controller"]
  BY <1>2, TheManagerThreads
<1>4. QueueInv' /\ StoreInv' /\ RingInv' /\ SizeInv'
  BY <1>1, <1>3, QueueStays, RingStays, SizesStay
<1>5. ControlInv'
  BY <1>1, <1>2, <1>3 DEF ManagerInv, ControlInv
<1>6. /\ write_idx \in Nat /\ read_idx \in Nat /\ size \in Nat /\ wanted \in Nat
      /\ first \in Nat /\ SpanSize \in Nat
      /\ DOMAIN window \subseteq (1 .. wanted) \X Words
      /\ \A c \in DOMAIN window : window[c] \in Int
      /\ BufferCapacity \in Nat /\ SpanSize <= BufferCapacity
      /\ CopyInv /\ SizeInv /\ CopiedInv
  BY DEF ManagerInv, ManagerTypeOK, ManagerSizes
<1>7. /\ CopyInv' /\ CopiedInv'
      /\ wanted' \in Nat /\ first' \in Nat
      /\ DOMAIN window' \subseteq (1 .. wanted') \X Words
      /\ \A c \in DOMAIN window' : window'[c] \in Int
  <2>1. ASSUME NEW label, Manager!GoTo("computation", label)
        PROVE  managerPc'["computation"] = label
    BY <2>1, ManagerThreadGoes, TheManagerThreads DEF ManagerInv
  <2>2. UNCHANGED <<wanted, first, window>> => CopiedInv'
    BY <1>1, <1>6, CopiesStay
  <2>3. DOMAIN << >> = {}
    OBVIOUS
  <2>4. CASE Manager!ComputationLoop
    <3>1. /\ UNCHANGED <<wanted, first, window>> /\ managerPc["computation"] = "loop"
          /\ managerPc'["computation"] \in {"size", "ended"}
      BY <2>1, <2>4 DEF Manager!ComputationLoop
    <3> QED
      BY <1>1, <1>6, <2>2, <3>1 DEF CopyInv
  <2>5. CASE Manager!ReadSize
    <3>1. /\ managerPc["computation"] = "size" /\ UNCHANGED <<first, window>>
          /\ managerPc'["computation"] = "start"
          /\ wanted' = IF size < SpanSize THEN size ELSE SpanSize
      BY <2>1, <2>5 DEF Manager!ReadSize
    <3>2. /\ wanted' \in Nat /\ wanted' <= SpanSize /\ wanted' <= size
      BY <1>6, <3>1
    <3>3. read_idx + wanted' <= write_idx
      <4>1. \/ read_idx + size <= write_idx
            \/ size = BufferCapacity + 1 /\ read_idx + size = write_idx + 1
        BY <1>6 DEF SizeInv
      <4> DEFINE n == wanted'
      <4>2. n \in Nat /\ n <= SpanSize /\ n <= size
        BY <3>2
      <4> HIDE DEF n
      <4>3. read_idx + n <= write_idx
        BY <1>6, <4>1, <4>2
      <4> QED
        BY <4>3 DEF n
    <3>4. window = << >>
      BY <1>6, <3>1 DEF CopyInv
    <3> QED
      BY <1>1, <1>6, <2>3, <3>1, <3>2, <3>3, <3>4 DEF CopyInv, CopiedInv
  <2>6. CASE Manager!ReadStart
    <3>1. /\ UNCHANGED <<wanted, window>> /\ first' = read_idx
          /\ managerPc["computation"] = "start" /\ managerPc'["computation"] = "copy"
      BY <2>1, <2>6 DEF Manager!ReadStart
    <3>2. window = << >>
      BY <1>6, <3>1 DEF CopyInv
    <3> QED
      BY <1>1, <1>6, <2>3, <3>1, <3>2 DEF CopyInv, CopiedInv
  <2>7. CASE Manager!CopyItem
    <3>1. UNCHANGED <<wanted, first, managerPc>> /\ managerPc["computation"] = "copy"
      BY <2>7 DEF Manager!CopyItem
    <3> QED
      BY <1>1, <1>6, <2>7, <3>1, CopyOneWord DEF CopyInv
  <2>8. CASE Manager!ProcessWindow
    <3>1. /\ UNCHANGED <<wanted, first, window>> /\ DOMAIN window = (1 .. wanted) \X Words
          /\ wanted >= SpanSize /\ managerPc'["computation"] = "process"
      BY <2>1, <2>8 DEF Manager!ProcessWindow, Manager!WindowCopied
    <3>2. wanted = SpanSize
      BY <1>6, <3>1 DEF CopyInv
    <3> QED
      BY <1>1, <1>6, <2>2, <3>1, <3>2 DEF CopyInv
  <2>9. CASE Manager!SkipWindow \/ Manager!Processed
    <3>1. /\ wanted' = 0 /\ first' = 0 /\ window' = << >>
          /\ managerPc'["computation"] = "loop"
      BY <2>1, <2>9 DEF Manager!SkipWindow, Manager!Processed, Manager!WindowGone
    <3> QED
      BY <1>6, <2>3, <3>1 DEF CopyInv, CopiedInv
  <2> QED
    BY <2>4, <2>5, <2>6, <2>7, <2>8, <2>9 DEF Manager!Computation
<1>8. ManagerTypeOK'
  BY <1>1, <1>2, <1>7 DEF ManagerInv, ManagerTypeOK
<1> QED
  BY <1>4, <1>5, <1>7, <1>8 DEF ManagerInv

----------------------------------------------------------------------------
(* The controller.                                                         *)

LEMMA ControllerStep ==
  ASSUME ManagerSizes, ManagerInv, Manager!Start \/ Manager!Stop \/ Manager!Join
  PROVE  ManagerInv'
<1> USE DEF Manager!queueVars, Manager!storeVars, Manager!ringVars, Manager!winVars
<1>1. UNCHANGED <<queue, queueHead, queueTail, ingested, moved, stored, slot, unseen, ring,
                  read_idx, write_idx, size, wanted, first, window>>
  BY DEF Manager!Start, Manager!Stop, Manager!Join
<1>2. /\ managerPc = [m \in ManagerThreads |-> managerPc[m]]
      /\ ControlInv /\ CopyInv /\ running \in BOOLEAN /\ write_idx \in Nat
  BY DEF ManagerInv, ManagerTypeOK
<1>3. /\ DOMAIN managerPc' = ManagerThreads
      /\ managerPc' = [m \in ManagerThreads |-> managerPc'[m]]
      /\ managerPc'["feeder"] = managerPc["feeder"]
      /\ \/ managerPc'["ingestion"] = managerPc["ingestion"]
         \/ /\ managerPc["ingestion"] \in {"off", "ended"}
            /\ managerPc'["ingestion"] \in {"off", "loop"}
      /\ \/ managerPc'["computation"] = managerPc["computation"]
         \/ /\ managerPc["computation"] \in {"off", "ended"}
            /\ managerPc'["computation"] \in {"off", "loop"}
      /\ ControlInv' /\ running' \in BOOLEAN
  <2>1. CASE Manager!Start
    <3>1. /\ managerPc["controller"] = "idle" /\ ~running /\ running' = TRUE
          /\ managerPc' = [[m \in ManagerThreads |-> managerPc[m]] EXCEPT
                             !["ingestion"] = "loop", !["computation"] = "loop"]
      BY <1>2, <2>1 DEF Manager!Start
    <3>2. /\ DOMAIN managerPc' = ManagerThreads
          /\ managerPc'["feeder"] = managerPc["feeder"]
          /\ managerPc'["controller"] = managerPc["controller"]
          /\ managerPc'["ingestion"] = "loop" /\ managerPc'["computation"] = "loop"
          /\ managerPc' = [m \in ManagerThreads |-> managerPc'[m]]
      BY <3>1 DEF ManagerThreads
    <3>3. managerPc["ingestion"] = "off" /\ managerPc["computation"] = "off"
      BY <1>2, <3>1 DEF ControlInv
    <3> QED
      BY <1>2, <3>1, <3>2, <3>3 DEF ControlInv
  <2>2. CASE Manager!Stop
    <3>1. running' = FALSE /\ Manager!GoTo("controller", "join")
      BY <2>2 DEF Manager!Stop
    <3>2. /\ DOMAIN managerPc' = ManagerThreads
          /\ managerPc' = [m \in ManagerThreads |-> managerPc'[m]]
          /\ managerPc'["controller"] = "join"
          /\ \A m \in ManagerThreads : m # "controller" => managerPc'[m] = managerPc[m]
      BY <3>1, ManagerThreadGoes, TheManagerThreads DEF ManagerInv
    <3>3. /\ managerPc'["feeder"] = managerPc["feeder"]
          /\ managerPc'["ingestion"] = managerPc["ingestion"]
          /\ managerPc'["computation"] = managerPc["computation"]
      BY <3>2, TheManagerThreads
    <3> QED
      BY <1>2, <3>1, <3>2, <3>3 DEF ControlInv
  <2>3. CASE Manager!Join
    <3>1. /\ managerPc["ingestion"] = "ended" /\ managerPc["computation"] = "ended"
          /\ UNCHANGED running
          /\ managerPc' = [[m \in ManagerThreads |-> managerPc[m]] EXCEPT
               !["controller"] = "idle", !["ingestion"] = "off", !["computation"] = "off"]
      BY <1>2, <2>3 DEF Manager!Join
    <3>2. /\ DOMAIN managerPc' = ManagerThreads
          /\ managerPc'["feeder"] = managerPc["feeder"]
          /\ managerPc'["controller"] = "idle"
          /\ managerPc'["ingestion"] = "off" /\ managerPc'["computation"] = "off"
          /\ managerPc' = [m \in ManagerThreads |-> managerPc'[m]]
      BY <3>1 DEF ManagerThreads
    <3> QED
      BY <1>2, <3>1, <3>2 DEF ControlInv
  <2> QED
    BY <2>1, <2>2, <2>3
<1>4. QueueInv'
  BY <1>1, <1>3, QueueStays
<1>5. StoreInv' /\ RingInv'
  BY <1>1, <1>3, RingStays
<1>6. SizeInv' /\ CopiedInv'
  BY <1>1, <1>2, <1>3, SizesStay, CopiesStay
<1>7. CopyInv'
  BY <1>1, <1>2, <1>3 DEF CopyInv
<1>8. ManagerTypeOK'
  BY <1>1, <1>3 DEF ManagerInv, ManagerTypeOK
<1> QED
  BY <1>3, <1>4, <1>5, <1>6, <1>7, <1>8 DEF ManagerInv

----------------------------------------------------------------------------
(* The steps together.                                                     *)

LEMMA ManagerStarts == ASSUME ManagerSizes, Manager!Init PROVE ManagerInv
<1> USE DEF Manager!Init, ManagerSizes
<1>1. /\ DOMAIN managerPc = ManagerThreads
      /\ managerPc = [n \in ManagerThreads |-> managerPc[n]]
      /\ managerPc["feeder"] = "idle" /\ managerPc["controller"] = "idle"
      /\ managerPc["ingestion"] = "off" /\ managerPc["computation"] = "off"
  BY DEF ManagerThreads
<1>0. DOMAIN << >> = {}
  OBVIOUS
<1>2. ManagerTypeOK
  BY <1>0, <1>1 DEF ManagerTypeOK
<1>3. ControlInv
  BY <1>1 DEF ControlInv
<1>4. Published = 0 /\ Taken = 0
  BY <1>1 DEF Published, Taken
<1>5. QueueInv
  <2>1. 0 % QueueCapacity = 0
    OBVIOUS
  <2> QED
    BY <1>1, <1>4, <2>1 DEF QueueInv
<1>6. StoreInv /\ RingInv
  BY <1>1 DEF StoreInv, RingInv
<1>7. SizeInv /\ CopyInv /\ CopiedInv
  BY <1>0, <1>1 DEF SizeInv, CopyInv, CopiedInv
<1> QED
  BY <1>2, <1>3, <1>5, <1>6, <1>7 DEF ManagerInv

LEMMA ManagerStutters == ASSUME ManagerInv, UNCHANGED managerVars PROVE ManagerInv'
<1>1. Published' = Published /\ Taken' = Taken
  BY DEF managerVars, Published, Taken
<1>2. ManagerTypeOK' /\ ControlInv'
  BY DEF managerVars, ManagerInv, ManagerTypeOK, ControlInv
<1>3. QueueInv' /\ StoreInv' /\ RingInv'
  BY <1>1 DEF managerVars, ManagerInv, QueueInv, StoreInv, RingInv, Manager!Lapsed
<1>4. SizeInv' /\ CopyInv' /\ CopiedInv'
  BY <1>1 DEF managerVars, ManagerInv, SizeInv, CopyInv, CopiedInv, Settled, Manager!Lapsed
<1> QED
  BY <1>2, <1>3, <1>4 DEF ManagerInv

LEMMA ManagerStep == ASSUME ManagerSizes, ManagerInv, Manager!Next PROVE ManagerInv'
BY FeederStep, IngestionStep, WordLandsStep, ComputationStep, ControllerStep DEF Manager!Next

(* Items a window apart at most come from different slots, the one of the  *)
(* lap before included.                                                    *)
LEMMA InvariantCompletesWindows ==
  ASSUME ManagerSizes, ManagerInv
  PROVE  OnlyNewestMayBeMissing
<1> SUFFICES ASSUME managerPc["computation"] = "process"
             PROVE  /\ \A i \in 1 .. SpanSize, w \in Words :
                         \/ /\ window[<<i, w>>] >= first + i - 1
                            /\ write_idx <= first + BufferCapacity =>
                                 window[<<i, w>>] = first + i - 1
                         \/ i = SpanSize /\ window[<<i, w>>] = Manager!Lapsed(first + i - 1)
                    /\ \A i, j \in 1 .. SpanSize, w \in Words :
                         i # j => window[<<i, w>>] # window[<<j, w>>]
  BY DEF OnlyNewestMayBeMissing, Manager!OnlyNewestMayBeMissing
<1>1. /\ first \in Nat /\ SpanSize \in Nat /\ wanted = SpanSize
      /\ DOMAIN window = (1 .. SpanSize) \X Words
      /\ \A c \in DOMAIN window : window[c] \in Int
      /\ BufferCapacity \in Nat \ {0} /\ SpanSize <= BufferCapacity
  BY DEF ManagerInv, CopyInv, ManagerTypeOK, ManagerSizes
<1>2. ASSUME NEW i \in 1 .. SpanSize, NEW w \in Words
      PROVE  \/ Settled(window[<<i, w>>], first + i - 1)
             \/ i = SpanSize /\ window[<<i, w>>] = Manager!Lapsed(first + i - 1)
  <2>1. <<i, w>> \in DOMAIN window /\ <<i, w>>[1] = i
    BY <1>1
  <2> QED
    BY <1>1, <2>1 DEF ManagerInv, CopiedInv
<1>3. ASSUME NEW i \in 1 .. SpanSize, NEW w \in Words
      PROVE  \/ window[<<i, w>>] = -1 /\ i = SpanSize
             \/ /\ window[<<i, w>>] \in Nat
                /\ window[<<i, w>>] % BufferCapacity = (first + i - 1) % BufferCapacity
  <2> DEFINE p == first + i - 1
             x == window[<<i, w>>]
  <2>1. p \in Nat /\ x \in Int
    BY <1>1
  <2>2. CASE Settled(x, p)
    <3>1. x >= p /\ x % BufferCapacity = p % BufferCapacity
      BY <2>2 DEF Settled
    <3> HIDE DEF x, p
    <3>2. x \in Nat
      BY <2>1, <3>1
    <3> QED
      BY <3>1, <3>2 DEF x, p
  <2>3. CASE i = SpanSize /\ x = Manager!Lapsed(p)
    <3>1. CASE p < BufferCapacity
      BY <2>3, <3>1 DEF Manager!Lapsed
    <3>2. CASE ~ (p < BufferCapacity)
      <4>1. x = p - BufferCapacity
        BY <2>3, <3>2 DEF Manager!Lapsed
      <4> HIDE DEF x, p
      <4>2. x \in Nat /\ x + BufferCapacity = p
        BY <1>1, <2>1, <3>2, <4>1
      <4>3. (x + BufferCapacity) % BufferCapacity = x % BufferCapacity
        BY <1>1, <4>2, RemaindersRecur
      <4>4. x % BufferCapacity = p % BufferCapacity
        BY <4>2, <4>3
      <4> QED
        BY <4>2, <4>4 DEF x, p
    <3> QED
      BY <3>1, <3>2
  <2> QED
    BY <1>2, <2>2, <2>3
<1>4. ASSUME NEW i \in 1 .. SpanSize, NEW j \in 1 .. SpanSize, NEW w \in Words, i < j
      PROVE  window[<<i, w>>] # window[<<j, w>>]
  <2>1. /\ first + i - 1 \in Nat /\ first + j - 1 \in Nat /\ first + i - 1 < first + j - 1
        /\ (first + j - 1) - (first + i - 1) < BufferCapacity
    BY <1>1, <1>4
  <2>2. (first + i - 1) % BufferCapacity # (first + j - 1) % BufferCapacity
    BY <1>1, <2>1, RemaindersApart
  <2>3. /\ window[<<i, w>>] \in Nat
        /\ window[<<i, w>>] % BufferCapacity = (first + i - 1) % BufferCapacity
    BY <1>1, <1>3, <1>4
  <2>4. \/ window[<<j, w>>] = -1
        \/ window[<<j, w>>] % BufferCapacity = (first + j - 1) % BufferCapacity
    BY <1>3
  <2> QED
    BY <2>2, <2>3, <2>4
<1>5. \A i, j \in 1 .. SpanSize, w \in Words : i # j => window[<<i, w>>] # window[<<j, w>>]
  <2> SUFFICES ASSUME NEW i \in 1 .. SpanSize, NEW j \in 1 .. SpanSize, NEW w \in Words, i # j
               PROVE  window[<<i, w>>] # window[<<j, w>>]
    OBVIOUS
  <2>1. i < j \/ j < i
    BY <1>1
  <2> QED
    BY <1>4, <2>1
<1> QED
  BY <1>2, <1>5 DEF Settled

(***************************************************************************)
(* The micro-batching engine.                                              *)
(***************************************************************************)

(* What the proofs assume of its constants: a batch has room for an item.  *)
EngineSizes == MaxBatchSize \in Nat \ {0} /\ "controller" \notin Workers

EngineTypeOK ==
  /\ engineRunning \in BOOLEAN
  /\ DOMAIN enginePc = Engine!Callers
  /\ enginePc = [w \in Engine!Callers |-> enginePc[w]]
  /\ backlog \in Seq(Nat) /\ batch \in [Engine!Callers -> Seq(Nat)]
  /\ processed \in Seq(Seq(Nat)) /\ accepted \in Nat

(* While the engine is stopped its workers are off, and only a caller that *)
(* processes a batch has one.                                              *)
CallersInv ==
  /\ \/ engineRunning
     \/ enginePc["controller"] \in {"notify", "join"}
     \/ \A w \in Workers : enginePc[w] = "off"
  /\ \A w \in Engine!Callers : batch[w] = << >> <=> enginePc[w] # "process"

Stretch(s) == \A i \in 1 .. Len(s) : s[i] = s[1] + i - 1

(* The queue, the batches in hand and those that were processed are        *)
(* stretches of what was accepted, and the queue is the latest one.        *)
StretchInv ==
  /\ Stretch(backlog) /\ Engine!ToSet(backlog) \subseteq 1 .. accepted
  /\ backlog # << >> => backlog[Len(backlog)] = accepted
  /\ \A w \in Engine!Callers : /\ Stretch(batch[w]) /\ Len(batch[w]) <= MaxBatchSize
                               /\ Engine!ToSet(batch[w]) \subseteq 1 .. accepted
  /\ \A i \in 1 .. Len(processed) :
       /\ Stretch(processed[i]) /\ processed[i] # << >>
       /\ Len(processed[i]) <= MaxBatchSize
       /\ Engine!ToSet(processed[i]) \subseteq 1 .. accepted

(* No item is lost ...                                                     *)
CoverInv ==
  \A k \in 1 .. accepted :
    \/ k \in Engine!ToSet(backlog)
    \/ \E w \in Engine!Callers : k \in Engine!ToSet(batch[w])
    \/ \E i \in 1 .. Len(processed) : k \in Engine!ToSet(processed[i])

Apart(r, s) == Engine!ToSet(r) \cap Engine!ToSet(s) = {}

(* ... and none is in two places, be they alike.                           *)
ApartInv ==
  /\ \A w \in Engine!Callers : Apart(backlog, batch[w])
  /\ \A i \in 1 .. Len(processed) : Apart(backlog, processed[i])
  /\ \A v, w \in Engine!Callers : v # w => Apart(batch[v], batch[w])
  /\ \A w \in Engine!Callers, i \in 1 .. Len(processed) : Apart(batch[w], processed[i])
  /\ \A i, j \in 1 .. Len(processed) : i # j => Apart(processed[i], processed[j])

EngineInv == EngineTypeOK /\ CallersInv /\ StretchInv /\ CoverInv /\ ApartInv

----------------------------------------------------------------------------
(* Stretches.                                                              *)

LEMMA NothingHeld == Engine!ToSet(<< >>) = {} /\ Stretch(<< >>) /\ Len(<< >>) = 0
BY DEF Engine!ToSet, Stretch

LEMMA HeldSomewhere ==
  ASSUME NEW s \in Seq(Nat)
  PROVE  /\ Engine!ToSet(s) = {s[i] : i \in 1 .. Len(s)}
         /\ s # << >> => Engine!ToSet(s) # {}
<1>1. DOMAIN s = 1 .. Len(s) /\ Len(s) \in Nat /\ (s # << >> => Len(s) # 0)
  BY EmptySeq, LenProperties
<1>2. Engine!ToSet(s) = {s[i] : i \in 1 .. Len(s)}
  BY <1>1 DEF Engine!ToSet
<1>3. ASSUME s # << >>
      PROVE  Engine!ToSet(s) # {}
  <2>1. 1 \in 1 .. Len(s)
    BY <1>1, <1>3
  <2> QED
    BY <1>2, <2>1
<1> QED
  BY <1>2, <1>3

LEMMA StretchGrows ==
  ASSUME NEW s \in Seq(Nat), NEW n \in Nat, Stretch(s), s # << >> => s[Len(s)] = n
  PROVE  /\ Append(s, n + 1) \in Seq(Nat) /\ Append(s, n + 1) # << >>
         /\ Engine!ToSet(Append(s, n + 1)) = Engine!ToSet(s) \cup {n + 1}
         /\ Stretch(Append(s, n + 1))
         /\ Append(s, n + 1)[Len(Append(s, n + 1))] = n + 1
<1> DEFINE t1 == Append(s, n + 1)
<1>1. /\ t1 \in Seq(Nat) /\ Len(t1) = Len(s) + 1 /\ t1[Len(s) + 1] = n + 1
      /\ \A i \in 1 .. Len(s) : t1[i] = s[i]
      /\ Len(s) \in Nat /\ t1 # << >>
  BY AppendProperties, LenProperties
<1>2. Engine!ToSet(t1) = {t1[i] : i \in 1 .. Len(s) + 1}
      /\ Engine!ToSet(s) = {s[i] : i \in 1 .. Len(s)}
  BY <1>1, HeldSomewhere
<1>3. s # << >> => n = s[1] + Len(s) - 1 /\ s[1] \in Nat
  <2>1. s # << >> => 1 \in 1 .. Len(s) /\ Len(s) \in 1 .. Len(s)
    BY <1>1, EmptySeq, LenProperties
  <2>2. s # << >> => s[1] \in Nat /\ s[Len(s)] = s[1] + Len(s) - 1
    BY <2>1, ElementOfSeq DEF Stretch
  <2> QED
    BY <2>2
<1>4. s = << >> => Len(s) = 0
  OBVIOUS
<1> HIDE DEF t1
<1>5. Engine!ToSet(t1) = Engine!ToSet(s) \cup {n + 1}
  <2>1. ASSUME NEW x \in Engine!ToSet(t1)
        PROVE  x \in Engine!ToSet(s) \cup {n + 1}
    <3>1. PICK i \in 1 .. Len(s) + 1 : x = t1[i]
      BY <1>2
    <3>2. i \in 1 .. Len(s) \/ i = Len(s) + 1
      BY <1>1
    <3> QED
      BY <1>1, <1>2, <3>1, <3>2
  <2>2. ASSUME NEW x \in Engine!ToSet(s)
        PROVE  x \in Engine!ToSet(t1)
    <3>1. PICK i \in 1 .. Len(s) : x = s[i]
      BY <1>2
    <3>2. i \in 1 .. Len(s) + 1 /\ t1[i] = x
      BY <1>1, <3>1
    <3> QED
      BY <1>2, <3>2
  <2>3. n + 1 \in Engine!ToSet(t1)
    <3>1. Len(s) + 1 \in 1 .. Len(s) + 1
      BY <1>1
    <3> QED
      BY <1>1, <1>2, <3>1
  <2> QED
    BY <2>1, <2>2, <2>3
<1>6. Stretch(t1)
  <2> SUFFICES ASSUME NEW i \in 1 .. Len(s) + 1
               PROVE  t1[i] = t1[1] + i - 1
    BY <1>1 DEF Stretch
  <2>1. CASE s = << >>
    BY <1>1, <1>4, <2>1
  <2>2. CASE s # << >>
    <3>1. t1[1] = s[1] /\ s[1] \in Nat /\ n = s[1] + Len(s) - 1
      <4>1. 1 \in 1 .. Len(s)
        BY <1>1, <2>2, EmptySeq, LenProperties
      <4> QED
        BY <1>1, <1>3, <2>2, <4>1
    <3>2. CASE i \in 1 .. Len(s)
      BY <1>1, <3>1, <3>2 DEF Stretch
    <3>3. CASE i = Len(s) + 1
      BY <1>1, <3>1, <3>3
    <3> QED
      BY <1>1, <3>2, <3>3
  <2> QED
    BY <2>1, <2>2
<1> QED
  BY <1>1, <1>5, <1>6 DEF t1

(* Cut in two, a stretch gives two that have nothing in common.            *)
LEMMA StretchCut ==
  ASSUME NEW s \in Seq(Nat), Stretch(s), NEW n \in 0 .. Len(s)
  PROVE  /\ SubSeq(s, 1, n) \in Seq(Nat) /\ SubSeq(s, n + 1, Len(s)) \in Seq(Nat)
         /\ Len(SubSeq(s, 1, n)) = n
         /\ Stretch(SubSeq(s, 1, n)) /\ Stretch(SubSeq(s, n + 1, Len(s)))
         /\ Engine!ToSet(s) = Engine!ToSet(SubSeq(s, 1, n))
                              \cup Engine!ToSet(SubSeq(s, n + 1, Len(s)))
         /\ Apart(SubSeq(s, n + 1, Len(s)), SubSeq(s, 1, n))
         /\ SubSeq(s, n + 1, Len(s)) # << >> =>
              SubSeq(s, n + 1, Len(s))[Len(SubSeq(s, n + 1, Len(s)))] = s[Len(s)]
<1> DEFINE u == SubSeq(s, 1, n)
           v == SubSeq(s, n + 1, Len(s))
           m == Len(s)
<1>1. m \in Nat /\ \A i \in 1 .. m : s[i] \in Nat
  BY LenProperties, ElementOfSeq
<1>2. /\ u \in Seq(Nat) /\ Len(u) = n
      /\ \A i \in 1 .. n : u[i] = s[i]
  <2>1. n \in Nat /\ n <= m /\ \A i \in 1 .. n : s[i] \in Nat
    BY <1>1
  <2> QED
    BY <1>1, <2>1, SubSeqProperties
<1>3. /\ v \in Seq(Nat) /\ Len(v) = m - n
      /\ \A i \in 1 .. m - n : v[i] = s[n + i]
  <2>1. n + 1 \in 1 .. m + 1
    BY <1>1
  <2>2. \A i \in n + 1 .. m : s[i] \in Nat
    BY <1>1
  <2>3. /\ v \in Seq(Nat)
        /\ Len(v) = (IF n + 1 <= m THEN m - (n + 1) + 1 ELSE 0)
        /\ \A i \in 1 .. m - (n + 1) + 1 : v[i] = s[n + 1 + i - 1]
    BY <1>1, <2>1, <2>2, SubSeqProperties, SMTT(30)
  <2> QED
    BY <1>1, <2>3
<1>4. /\ Engine!ToSet(s) = {s[i] : i \in 1 .. m}
      /\ Engine!ToSet(u) = {u[i] : i \in 1 .. n}
      /\ Engine!ToSet(v) = {v[i] : i \in 1 .. m - n}
  BY <1>2, <1>3, HeldSomewhere
<1>5. \A i \in 1 .. m : s[i] = s[1] + i - 1
  BY DEF Stretch
<1>6. m # 0 => s[1] \in Nat
  BY <1>1
<1>7. v # << >> => m - n # 0
  BY <1>3, EmptySeq
<1>8. m - n \in Nat /\ n \in Nat /\ m \in Nat
  BY <1>1
<1> HIDE DEF u, v, m
<1>9. Stretch(u)
  <2> SUFFICES ASSUME NEW i \in 1 .. n
               PROVE  u[i] = u[1] + i - 1
    BY <1>2 DEF Stretch
  <2>1. 1 \in 1 .. n /\ i \in 1 .. m
    BY <1>8
  <2> QED
    BY <1>2, <1>5, <2>1
<1>10. Stretch(v)
  <2> SUFFICES ASSUME NEW i \in 1 .. m - n
               PROVE  v[i] = v[1] + i - 1
    BY <1>3 DEF Stretch
  <2>1. 1 \in 1 .. m - n /\ n + i \in 1 .. m /\ n + 1 \in 1 .. m /\ m # 0
    BY <1>1, <1>8
  <2>2. v[i] = s[1] + (n + i) - 1 /\ v[1] = s[1] + (n + 1) - 1
    BY <1>3, <1>5, <2>1
  <2> QED
    BY <1>6, <1>8, <2>1, <2>2
<1>11. Engine!ToSet(s) = Engine!ToSet(u) \cup Engine!ToSet(v)
  <2>1. ASSUME NEW x \in Engine!ToSet(s)
        PROVE  x \in Engine!ToSet(u) \cup Engine!ToSet(v)
    <3>1. PICK i \in 1 .. m : x = s[i]
      BY <1>4
    <3>2. CASE i <= n
      <4>1. i \in 1 .. n /\ u[i] = x
        BY <1>2, <1>8, <3>1, <3>2
      <4> QED
        BY <1>4, <4>1
    <3>3. CASE ~ (i <= n)
      <4>1. i - n \in 1 .. m - n /\ n + (i - n) = i
        BY <1>8, <3>3
      <4>2. v[i - n] = x
        BY <1>3, <3>1, <4>1
      <4> QED
        BY <1>4, <4>1, <4>2
    <3> QED
      BY <3>2, <3>3
  <2>2. ASSUME NEW x \in Engine!ToSet(u)
        PROVE  x \in Engine!ToSet(s)
    <3>1. PICK i \in 1 .. n : x = u[i]
      BY <1>4
    <3>2. i \in 1 .. m /\ s[i] = x
      BY <1>2, <1>8, <3>1
    <3> QED
      BY <1>4, <3>2
  <2>3. ASSUME NEW x \in Engine!ToSet(v)
        PROVE  x \in Engine!ToSet(s)
    <3>1. PICK i \in 1 .. m - n : x = v[i]
      BY <1>4
    <3>2. n + i \in 1 .. m /\ s[n + i] = x
      BY <1>3, <1>8, <3>1
    <3> QED
      BY <1>4, <3>2
  <2> QED
    BY <2>1, <2>2, <2>3
<1>12. Apart(v, u)
  <2> SUFFICES ASSUME NEW x, x \in Engine!ToSet(u), x \in Engine!ToSet(v)
               PROVE  FALSE
    BY DEF Apart
  <2>1. PICK i \in 1 .. n : x = u[i]
    BY <1>4
  <2>2. PICK j \in 1 .. m - n : x = v[j]
    BY <1>4
  <2>3. /\ i \in 1 .. m /\ n + j \in 1 .. m /\ m # 0 /\ i # n + j
    BY <1>1, <1>8
  <2>4. s[1] + i - 1 = s[1] + (n + j) - 1
    BY <1>2, <1>3, <1>5, <2>1, <2>2, <2>3
  <2> QED
    BY <1>6, <1>8, <2>3, <2>4
<1>13. ASSUME v # << >>
       PROVE  v[Len(v)] = s[m]
  <2>1. m - n \in 1 .. m - n /\ n + (m - n) = m
    BY <1>1, <1>7, <1>8, <1>13
  <2> QED
    BY <1>3, <2>1
<1> QED
  BY <1>2, <1>3, <1>9, <1>10, <1>11, <1>12, <1>13 DEF u, v, m

----------------------------------------------------------------------------
(* The steps.                                                              *)

LEMMA CallerGoes ==
  ASSUME EngineTypeOK, NEW n \in Engine!Callers, NEW label, Engine!GoTo(n, label)
  PROVE  /\ DOMAIN enginePc' = Engine!Callers
         /\ enginePc' = [w \in Engine!Callers |-> enginePc'[w]]
         /\ enginePc'[n] = label
         /\ \A w \in Engine!Callers : w # n => enginePc'[w] = enginePc[w]
<1>1. enginePc' = [[w \in Engine!Callers |-> enginePc[w]] EXCEPT ![n] = label]
  BY DEF EngineTypeOK, Engine!GoTo
<1> QED
  BY <1>1

LEMMA TheCallers ==
  /\ "controller" \in Engine!Callers /\ Workers \subseteq Engine!Callers
  /\ \A w \in Engine!Callers : w \in Workers \/ w = "controller"
BY DEF Engine!Callers

(* A step that moves no item.                                              *)
LEMMA ItemsStay ==
  ASSUME EngineInv, UNCHANGED <<backlog, batch, accepted, processed>>,
         engineRunning' \in BOOLEAN,
         DOMAIN enginePc' = Engine!Callers,
         enginePc' = [w \in Engine!Callers |-> enginePc'[w]],
         \/ engineRunning'
         \/ enginePc'["controller"] \in {"notify", "join"}
         \/ \A w \in Workers : enginePc'[w] = "off",
         \A w \in Engine!Callers : enginePc[w] # "process" <=> enginePc'[w] # "process"
  PROVE  EngineInv'
<1>1. EngineTypeOK'
  BY DEF EngineInv, EngineTypeOK
<1>2. CallersInv'
  BY DEF EngineInv, CallersInv
<1>3. StretchInv' /\ CoverInv' /\ ApartInv'
  BY DEF EngineInv, StretchInv, CoverInv, ApartInv, Apart
<1> QED
  BY <1>1, <1>2, <1>3 DEF EngineInv

(* The steps of a worker, before it has a batch.                           *)
LEMMA WorkerMoves ==
  ASSUME EngineSizes, EngineInv, NEW w \in Workers,
         Engine!Loop(w) \/ Engine!CheckPredicate(w) \/ Engine!Sleep(w) \/ Engine!Timeout(w)
  PROVE  EngineInv'
<1>1. /\ \E label \in {"lock", "ended", "collect", "sleep", "asleep"} : Engine!GoTo(w, label)
      /\ enginePc[w] \in {"loop", "lock", "woken", "sleep", "asleep"}
      /\ UNCHANGED <<engineRunning, backlog, batch, accepted, processed>>
  BY DEF Engine!Loop, Engine!CheckPredicate, Engine!Sleep, Engine!Timeout
<1>2. PICK label \in {"lock", "ended", "collect", "sleep", "asleep"} : Engine!GoTo(w, label)
  BY <1>1
<1>3. /\ DOMAIN enginePc' = Engine!Callers
      /\ enginePc' = [v \in Engine!Callers |-> enginePc'[v]]
      /\ enginePc'[w] = label
      /\ \A v \in Engine!Callers : v # w => enginePc'[v] = enginePc[v]
  BY <1>2, CallerGoes, TheCallers DEF EngineInv
<1>4. enginePc'["controller"] = enginePc["controller"]
  BY <1>3, TheCallers DEF EngineSizes
<1>5. engineRunning \/ enginePc["controller"] \in {"notify", "join"}
  BY <1>1 DEF EngineInv, CallersInv
<1>6. engineRunning \in BOOLEAN
  BY DEF EngineInv, EngineTypeOK
<1> QED
  BY <1>1, <1>3, <1>4, <1>5, <1>6, ItemsStay

LEMMA NotifyOneStep ==
  ASSUME EngineSizes, EngineInv, Engine!NotifyOne
  PROVE  EngineInv'
<1>1. /\ UNCHANGED <<engineRunning, backlog, batch, accepted, processed>>
      /\ engineRunning \in BOOLEAN
  BY DEF Engine!NotifyOne, EngineInv, EngineTypeOK
<1>2. CASE UNCHANGED enginePc
  BY <1>1, <1>2, ItemsStay DEF EngineInv, EngineTypeOK, CallersInv
<1>3. CASE \E w \in Workers : enginePc[w] = "asleep" /\ Engine!GoTo(w, "woken")
  <2>1. PICK w \in Workers : enginePc[w] = "asleep" /\ Engine!GoTo(w, "woken")
    BY <1>3
  <2>2. /\ DOMAIN enginePc' = Engine!Callers
        /\ enginePc' = [v \in Engine!Callers |-> enginePc'[v]]
        /\ enginePc'[w] = "woken"
        /\ \A v \in Engine!Callers : v # w => enginePc'[v] = enginePc[v]
    BY <2>1, CallerGoes, TheCallers DEF EngineInv
  <2>3. enginePc'["controller"] = enginePc["controller"]
    BY <2>2, TheCallers DEF EngineSizes
  <2>4. engineRunning \/ enginePc["controller"] \in {"notify", "join"}
    BY <2>1 DEF EngineInv, CallersInv
  <2> QED
    BY <1>1, <2>1, <2>2, <2>3, <2>4, ItemsStay
<1> QED
  BY <1>2, <1>3 DEF Engine!NotifyOne

LEMMA ControlSteps ==
  ASSUME EngineSizes, EngineInv,
         Engine!Start \/ Engine!StopFlag \/ Engine!NotifyAll \/ Engine!Join
  PROVE  EngineInv'
<1>1. /\ UNCHANGED <<backlog, batch, accepted, processed>>
  BY DEF Engine!Start, Engine!StopFlag, Engine!NotifyAll, Engine!Join
<1>2. /\ EngineTypeOK /\ CallersInv /\ engineRunning \in BOOLEAN
  BY DEF EngineInv, EngineTypeOK
<1>3. CASE Engine!Start
  <2>1. /\ engineRunning' = TRUE
        /\ \E new \in SUBSET {w \in Workers : enginePc[w] = "off"} :
             enginePc' = [w \in Engine!Callers |-> IF w \in new THEN "loop" ELSE enginePc[w]]
    BY <1>3 DEF Engine!Start
  <2>2. /\ DOMAIN enginePc' = Engine!Callers
        /\ enginePc' = [w \in Engine!Callers |-> enginePc'[w]]
        /\ \A w \in Engine!Callers : enginePc[w] # "process" <=> enginePc'[w] # "process"
    BY <2>1
  <2> QED
    BY <1>1, <2>1, <2>2, ItemsStay
<1>4. CASE Engine!StopFlag
  <2>1. /\ engineRunning' = FALSE /\ enginePc["controller"] = "idle"
        /\ Engine!GoTo("controller", "notify")
    BY <1>4 DEF Engine!StopFlag
  <2>2. /\ DOMAIN enginePc' = Engine!Callers
        /\ enginePc' = [v \in Engine!Callers |-> enginePc'[v]]
        /\ enginePc'["controller"] = "notify"
        /\ \A v \in Engine!Callers : v # "controller" => enginePc'[v] = enginePc[v]
    BY <1>2, <2>1, CallerGoes, TheCallers
  <2> QED
    BY <1>1, <2>1, <2>2, ItemsStay
<1>5. CASE Engine!NotifyAll
  <2>1. /\ UNCHANGED engineRunning /\ enginePc["controller"] = "notify"
        /\ enginePc' = [w \in Engine!Callers |->
             IF w = "controller" THEN "join"
             ELSE IF enginePc[w] = "asleep" THEN "woken" ELSE enginePc[w]]
    BY <1>5 DEF Engine!NotifyAll
  <2>2. /\ DOMAIN enginePc' = Engine!Callers
        /\ enginePc' = [w \in Engine!Callers |-> enginePc'[w]]
        /\ \A w \in Engine!Callers : enginePc[w] # "process" <=> enginePc'[w] # "process"
        /\ enginePc'["controller"] = "join"
    BY <2>1, TheCallers
  <2> QED
    BY <1>1, <1>2, <2>1, <2>2, ItemsStay
<1>6. CASE Engine!Join
  <2>1. /\ UNCHANGED engineRunning /\ enginePc["controller"] = "join"
        /\ \A w \in Workers : enginePc[w] \in {"ended", "off"}
        /\ enginePc' = [w \in Engine!Callers |-> IF w = "controller" THEN "idle" ELSE "off"]
    BY <1>6 DEF Engine!Join
  <2>2. /\ DOMAIN enginePc' = Engine!Callers
        /\ enginePc' = [w \in Engine!Callers |-> enginePc'[w]]
        /\ \A w \in Engine!Callers : enginePc[w] # "process" <=> enginePc'[w] # "process"
        /\ \A w \in Workers : enginePc'[w] = "off"
    BY <2>1, TheCallers DEF EngineSizes
  <2> QED
    BY <1>1, <1>2, <2>1, <2>2, ItemsStay
<1> QED
  BY <1>3, <1>4, <1>5, <1>6

LEMMA EnqueueStep ==
  ASSUME EngineSizes, EngineInv, Engine!Enqueue
  PROVE  EngineInv'
<1>1. UNCHANGED <<engineRunning, enginePc, batch, processed>>
  BY DEF Engine!Enqueue
<1>2. CASE UNCHANGED <<backlog, accepted>>
  BY <1>1, <1>2, ItemsStay DEF EngineInv, EngineTypeOK, CallersInv
<1>3. CASE backlog' = Append(backlog, accepted + 1) /\ accepted' = accepted + 1
  <2>1. /\ accepted \in Nat /\ backlog \in Seq(Nat) /\ StretchInv /\ CoverInv /\ ApartInv
        /\ batch \in [Engine!Callers -> Seq(Nat)] /\ processed \in Seq(Seq(Nat))
    BY DEF EngineInv, EngineTypeOK
  <2>2. /\ backlog' \in Seq(Nat) /\ backlog' # << >> /\ Stretch(backlog')
        /\ Engine!ToSet(backlog') = Engine!ToSet(backlog) \cup {accepted + 1}
        /\ backlog'[Len(backlog')] = accepted + 1
    BY <1>3, <2>1, StretchGrows DEF StretchInv
  <2>3. /\ \A S : S \subseteq 1 .. accepted => S \subseteq 1 .. accepted + 1
        /\ \A S : S \subseteq 1 .. accepted => accepted + 1 \notin S
        /\ \A k \in 1 .. accepted + 1 : k \in 1 .. accepted \/ k = accepted + 1
        /\ accepted + 1 \in 1 .. accepted + 1
    BY <2>1
  <2>4. StretchInv'
    <3>1. /\ Stretch(backlog') /\ Engine!ToSet(backlog') \subseteq 1 .. accepted + 1
          /\ backlog' # << >> => backlog'[Len(backlog')] = accepted + 1
      BY <2>1, <2>2, <2>3 DEF StretchInv
    <3>2. \A w \in Engine!Callers : /\ Stretch(batch[w]) /\ Len(batch[w]) <= MaxBatchSize
                                    /\ Engine!ToSet(batch[w]) \subseteq 1 .. accepted + 1
      BY <2>1, <2>3 DEF StretchInv
    <3>3. \A i \in 1 .. Len(processed) :
            /\ Stretch(processed[i]) /\ processed[i] # << >>
            /\ Len(processed[i]) <= MaxBatchSize
            /\ Engine!ToSet(processed[i]) \subseteq 1 .. accepted + 1
      BY <2>1, <2>3 DEF StretchInv
    <3> QED
      BY <1>1, <1>3, <3>1, <3>2, <3>3 DEF StretchInv
  <2>5. CoverInv'
    <3> SUFFICES ASSUME NEW k \in 1 .. accepted + 1
                 PROVE  \/ k \in Engine!ToSet(backlog')
                        \/ \E w \in Engine!Callers : k \in Engine!ToSet(batch[w])
                        \/ \E i \in 1 .. Len(processed) : k \in Engine!ToSet(processed[i])
      BY <1>1, <1>3 DEF CoverInv
    <3> QED
      BY <2>1, <2>2, <2>3 DEF CoverInv
  <2>6. ApartInv'
    <3>1. \A w \in Engine!Callers : Apart(backlog', batch[w])
      <4> SUFFICES ASSUME NEW w \in Engine!Callers
                   PROVE  Apart(backlog', batch[w])
        OBVIOUS
      <4>1. Apart(backlog, batch[w]) /\ accepted + 1 \notin Engine!ToSet(batch[w])
        BY <2>1, <2>3 DEF ApartInv, StretchInv
      <4> QED
        BY <2>2, <4>1 DEF Apart
    <3>2. \A i \in 1 .. Len(processed) : Apart(backlog', processed[i])
      <4> SUFFICES ASSUME NEW i \in 1 .. Len(processed)
                   PROVE  Apart(backlog', processed[i])
        OBVIOUS
      <4>1. Apart(backlog, processed[i]) /\ accepted + 1 \notin Engine!ToSet(processed[i])
        BY <2>1, <2>3 DEF ApartInv, StretchInv
      <4> QED
        BY <2>2, <4>1 DEF Apart
    <3> QED
      BY <1>1, <2>1, <3>1, <3>2 DEF ApartInv, Apart
  <2>7. EngineTypeOK' /\ CallersInv'
    BY <1>1, <1>3, <2>1, <2>2 DEF EngineInv, EngineTypeOK, CallersInv
  <2> QED
    BY <2>4, <2>5, <2>6, <2>7 DEF EngineInv
<1> QED
  BY <1>2, <1>3 DEF Engine!Enqueue

(* collectBatchLocked, by a worker or by flush.                            *)
LEMMA TakeStep ==
  ASSUME EngineSizes, EngineInv, NEW w \in Engine!Callers,
         Engine!TakeBatch(w), UNCHANGED <<engineRunning, accepted, processed>>,
         enginePc[w] # "process",
         Engine!GoTo(w, IF backlog # << >> THEN "process" ELSE "loop"),
         w = "controller" => backlog # << >> /\ enginePc[w] = "idle",
         w \in Workers => enginePc[w] # "off"
  PROVE  EngineInv'
<1> DEFINE n == Engine!BatchLength
           u == SubSeq(backlog, 1, n)
           v == SubSeq(backlog, n + 1, Len(backlog))
<1>1. /\ accepted \in Nat /\ backlog \in Seq(Nat) /\ processed \in Seq(Seq(Nat))
      /\ batch \in [Engine!Callers -> Seq(Nat)] /\ Len(backlog) \in Nat
      /\ MaxBatchSize \in Nat \ {0}
      /\ EngineTypeOK /\ CallersInv /\ StretchInv /\ CoverInv /\ ApartInv
  BY LenProperties DEF EngineInv, EngineTypeOK, EngineSizes
<1>2. batch' = [batch EXCEPT ![w] = u] /\ backlog' = v
  BY DEF Engine!TakeBatch
<1>3. /\ n \in 0 .. Len(backlog) /\ n <= MaxBatchSize
      /\ backlog # << >> => n # 0
  BY <1>1, EmptySeq DEF Engine!BatchLength
<1>4. /\ u \in Seq(Nat) /\ v \in Seq(Nat) /\ Len(u) = n
      /\ Stretch(u) /\ Stretch(v) /\ Apart(v, u)
      /\ Engine!ToSet(backlog) = Engine!ToSet(u) \cup Engine!ToSet(v)
      /\ v # << >> => v[Len(v)] = backlog[Len(backlog)]
  <2>1. Stretch(backlog)
    BY <1>1 DEF StretchInv
  <2> HIDE DEF n
  <2> QED
    BY <1>1, <1>3, <2>1, StretchCut
<1>5. u = << >> <=> backlog = << >>
  <2>1. u = << >> <=> n = 0
    BY <1>4, EmptySeq
  <2>2. backlog = << >> => Len(backlog) = 0
    BY EmptySeq
  <2> HIDE DEF n, u
  <2> QED
    BY <1>1, <1>3, <2>1, <2>2
<1>6. v # << >> => backlog # << >>
  <2>1. backlog = << >> => Len(v) = 0
    <3>1. backlog = << >> => Len(backlog) = 0 /\ n = 0
      BY <1>1, <1>3, EmptySeq
    <3> QED
      BY <3>1
  <2> QED
    BY <1>4, <2>1, EmptySeq
<1>7. /\ DOMAIN enginePc' = Engine!Callers
      /\ enginePc' = [x \in Engine!Callers |-> enginePc'[x]]
      /\ enginePc'[w] = IF backlog # << >> THEN "process" ELSE "loop"
      /\ \A x \in Engine!Callers : x # w => enginePc'[x] = enginePc[x]
  BY <1>1, CallerGoes
<1>8. batch[w] = << >>
  BY <1>1 DEF CallersInv
<1> HIDE DEF n, u, v
<1>9. /\ batch' \in [Engine!Callers -> Seq(Nat)] /\ batch'[w] = u
      /\ \A x \in Engine!Callers : x # w => batch'[x] = batch[x]
  BY <1>1, <1>2, <1>4
<1>10. EngineTypeOK'
  BY <1>1, <1>2, <1>4, <1>7, <1>9 DEF EngineTypeOK
<1>11. CallersInv'
  <2>1. \A x \in Engine!Callers : batch'[x] = << >> <=> enginePc'[x] # "process"
    BY <1>1, <1>5, <1>7, <1>9 DEF CallersInv
  <2>2. \/ engineRunning
        \/ enginePc'["controller"] \in {"notify", "join"}
        \/ \A x \in Workers : enginePc'[x] = "off"
    <3>1. CASE w = "controller"
      <4>1. /\ enginePc'["controller"] = "process"
            /\ \A x \in Workers : enginePc'[x] = enginePc[x]
        BY <1>7, <3>1, TheCallers DEF EngineSizes
      <4> QED
        BY <1>1, <3>1, <4>1 DEF CallersInv
    <3>2. CASE w \in Workers
      <4>1. enginePc'["controller"] = enginePc["controller"]
        BY <1>7, <3>2, TheCallers DEF EngineSizes
      <4> QED
        BY <1>1, <3>2, <4>1 DEF CallersInv
    <3> QED
      BY <3>1, <3>2, TheCallers
  <2> QED
    BY <2>1, <2>2 DEF CallersInv
<1>12. StretchInv'
  <2>1. /\ Stretch(v) /\ Engine!ToSet(v) \subseteq 1 .. accepted
        /\ v # << >> => v[Len(v)] = accepted
    BY <1>1, <1>4, <1>6 DEF StretchInv
  <2>2. \A x \in Engine!Callers : /\ Stretch(batch'[x]) /\ Len(batch'[x]) <= MaxBatchSize
                                  /\ Engine!ToSet(batch'[x]) \subseteq 1 .. accepted
    BY <1>1, <1>3, <1>4, <1>9 DEF StretchInv
  <2> QED
    BY <1>1, <1>2, <2>1, <2>2 DEF StretchInv
<1>13. CoverInv'
  <2> SUFFICES ASSUME NEW k \in 1 .. accepted
               PROVE  \/ k \in Engine!ToSet(v)
                      \/ \E x \in Engine!Callers : k \in Engine!ToSet(batch'[x])
                      \/ \E i \in 1 .. Len(processed) : k \in Engine!ToSet(processed[i])
    BY <1>2 DEF CoverInv
  <2>1. ASSUME NEW x \in Engine!Callers, k \in Engine!ToSet(batch[x])
        PROVE  k \in Engine!ToSet(batch'[x])
    BY <1>8, <1>9, <2>1, NothingHeld
  <2> QED
    BY <1>1, <1>4, <1>9, <2>1 DEF CoverInv
<1>14. ApartInv'
  <2>1. /\ Engine!ToSet(u) \subseteq Engine!ToSet(backlog)
        /\ Engine!ToSet(v) \subseteq Engine!ToSet(backlog)
    BY <1>4
  <2>2. \A x \in Engine!Callers : Apart(v, batch'[x])
    <3> SUFFICES ASSUME NEW x \in Engine!Callers
                 PROVE  Apart(v, batch'[x])
      OBVIOUS
    <3>1. x # w => Apart(backlog, batch[x])
      BY <1>1 DEF ApartInv
    <3> QED
      BY <1>4, <1>9, <2>1, <3>1 DEF Apart
  <2>3. \A i \in 1 .. Len(processed) : Apart(v, processed[i]) /\ Apart(u, processed[i])
    <3> SUFFICES ASSUME NEW i \in 1 .. Len(processed)
                 PROVE  Apart(v, processed[i]) /\ Apart(u, processed[i])
      OBVIOUS
    <3>1. Apart(backlog, processed[i])
      BY <1>1 DEF ApartInv
    <3> QED
      BY <2>1, <3>1 DEF Apart
  <2>4. ASSUME NEW x \in Engine!Callers, NEW y \in Engine!Callers, x # y
        PROVE  Apart(batch'[x], batch'[y])
    <3>1. Apart(batch[x], batch[y]) /\ Apart(backlog, batch[x]) /\ Apart(backlog, batch[y])
      BY <1>1, <2>4 DEF ApartInv
    <3>2. CASE x # w /\ y # w
      BY <1>9, <3>1, <3>2
    <3>3. CASE x = w
      BY <1>9, <2>1, <2>4, <3>1, <3>3 DEF Apart
    <3>4. CASE y = w
      BY <1>9, <2>1, <2>4, <3>1, <3>4 DEF Apart
    <3> QED
      BY <3>2, <3>3, <3>4
  <2>5. ASSUME NEW x \in Engine!Callers, NEW i \in 1 .. Len(processed)
        PROVE  Apart(batch'[x], processed[i])
    <3>1. Apart(batch[x], processed[i])
      BY <1>1 DEF ApartInv
    <3> QED
      BY <1>9, <2>3, <3>1
  <2>6. \A i, j \in 1 .. Len(processed) : i # j => Apart(processed[i], processed[j])
    BY <1>1 DEF ApartInv
  <2> QED
    BY <1>2, <2>2, <2>3, <2>4, <2>5, <2>6 DEF ApartInv, Apart
<1> QED
  BY <1>10, <1>11, <1>12, <1>13, <1>14 DEF EngineInv

LEMMA ProcessStep ==
  ASSUME EngineSizes, EngineInv, NEW w \in Engine!Callers, Engine!ProcessBatch(w)
  PROVE  EngineInv'
<1> DEFINE n == Len(processed)
<1>1. /\ accepted \in Nat /\ processed \in Seq(Seq(Nat)) /\ n \in Nat
      /\ batch \in [Engine!Callers -> Seq(Nat)] /\ backlog \in Seq(Nat)
      /\ EngineTypeOK /\ CallersInv /\ StretchInv /\ CoverInv /\ ApartInv
  BY LenProperties DEF EngineInv, EngineTypeOK
<1>2. /\ enginePc[w] = "process" /\ processed' = Append(processed, batch[w])
      /\ batch' = [batch EXCEPT ![w] = << >>]
      /\ Engine!GoTo(w, IF w \in Workers THEN "loop" ELSE "idle")
      /\ UNCHANGED <<engineRunning, backlog, accepted>>
  BY DEF Engine!ProcessBatch
<1>3. /\ processed' \in Seq(Seq(Nat)) /\ Len(processed') = n + 1
      /\ processed'[n + 1] = batch[w]
      /\ \A i \in 1 .. n : processed'[i] = processed[i]
  BY <1>1, <1>2, AppendProperties
<1>4. /\ batch' \in [Engine!Callers -> Seq(Nat)] /\ batch'[w] = << >>
      /\ \A x \in Engine!Callers : x # w => batch'[x] = batch[x]
  BY <1>1, <1>2
<1>5. /\ DOMAIN enginePc' = Engine!Callers
      /\ enginePc' = [x \in Engine!Callers |-> enginePc'[x]]
      /\ enginePc'[w] \in {"loop", "idle"}
      /\ \A x \in Engine!Callers : x # w => enginePc'[x] = enginePc[x]
  BY <1>1, <1>2, CallerGoes
<1>6. batch[w] # << >>
  BY <1>1, <1>2 DEF CallersInv
<1>7. \A i \in 1 .. n + 1 : i \in 1 .. n \/ i = n + 1
  BY <1>1
<1>8. n + 1 \in 1 .. n + 1 /\ \A i \in 1 .. n : i \in 1 .. n + 1 /\ i # n + 1
  BY <1>1
<1>9. n = Len(processed)
  OBVIOUS
<1> HIDE DEF n
<1>10. EngineTypeOK'
  BY <1>1, <1>2, <1>3, <1>4, <1>5 DEF EngineTypeOK
<1>11. CallersInv'
  <2>1. \A x \in Engine!Callers : batch'[x] = << >> <=> enginePc'[x] # "process"
    BY <1>1, <1>4, <1>5 DEF CallersInv
  <2>2. \/ engineRunning
        \/ enginePc'["controller"] \in {"notify", "join"}
        \/ \A x \in Workers : enginePc'[x] = "off"
    <3>1. CASE w = "controller"
      <4>1. \A x \in Workers : enginePc'[x] = enginePc[x]
        BY <1>5, <3>1, TheCallers DEF EngineSizes
      <4> QED
        BY <1>1, <1>2, <3>1, <4>1 DEF CallersInv
    <3>2. CASE w \in Workers
      <4>1. enginePc'["controller"] = enginePc["controller"]
        BY <1>5, <3>2, TheCallers DEF EngineSizes
      <4> QED
        BY <1>1, <1>2, <3>2, <4>1 DEF CallersInv
    <3> QED
      BY <3>1, <3>2, TheCallers
  <2> QED
    BY <1>2, <2>1, <2>2 DEF CallersInv
<1>12. StretchInv'
  <2>1. ASSUME NEW x \in Engine!Callers
        PROVE  /\ Stretch(batch'[x]) /\ Len(batch'[x]) <= MaxBatchSize
               /\ Engine!ToSet(batch'[x]) \subseteq 1 .. accepted
    <3>1. x # w => /\ Stretch(batch[x]) /\ Len(batch[x]) <= MaxBatchSize
                   /\ Engine!ToSet(batch[x]) \subseteq 1 .. accepted
      BY <1>1 DEF StretchInv
    <3>2. 0 <= MaxBatchSize
      BY DEF EngineSizes
    <3> QED
      BY <1>4, <3>1, <3>2, NothingHeld
  <2>2. ASSUME NEW i \in 1 .. n + 1
        PROVE  /\ Stretch(processed'[i]) /\ processed'[i] # << >>
               /\ Len(processed'[i]) <= MaxBatchSize
               /\ Engine!ToSet(processed'[i]) \subseteq 1 .. accepted
    <3>1. CASE i \in 1 .. n
      BY <1>1, <1>3, <1>9, <3>1 DEF StretchInv
    <3>2. CASE i = n + 1
      BY <1>1, <1>3, <1>6, <3>2 DEF StretchInv
    <3> QED
      BY <1>7, <3>1, <3>2
  <2> QED
    BY <1>1, <1>2, <1>3, <2>1, <2>2 DEF StretchInv
<1>13. CoverInv'
  <2> SUFFICES ASSUME NEW k \in 1 .. accepted
               PROVE  \/ k \in Engine!ToSet(backlog)
                      \/ \E x \in Engine!Callers : k \in Engine!ToSet(batch'[x])
                      \/ \E i \in 1 .. n + 1 : k \in Engine!ToSet(processed'[i])
    BY <1>2, <1>3 DEF CoverInv
  <2>1. ASSUME NEW x \in Engine!Callers, k \in Engine!ToSet(batch[x])
        PROVE  \/ k \in Engine!ToSet(batch'[x])
               \/ k \in Engine!ToSet(processed'[n + 1])
    BY <1>3, <1>4, <2>1
  <2>2. ASSUME NEW i \in 1 .. n, k \in Engine!ToSet(processed[i])
        PROVE  i \in 1 .. n + 1 /\ k \in Engine!ToSet(processed'[i])
    BY <1>3, <1>8, <2>2
  <2> QED
    BY <1>1, <1>8, <1>9, <2>1, <2>2 DEF CoverInv
<1>14. ApartInv'
  <2>1. \A x \in Engine!Callers : Apart(backlog, batch'[x])
    BY <1>1, <1>4, NothingHeld DEF ApartInv, Apart
  <2>2. \A i \in 1 .. n + 1 : Apart(backlog, processed'[i])
    BY <1>1, <1>3, <1>7, <1>9 DEF ApartInv
  <2>3. ASSUME NEW x \in Engine!Callers, NEW y \in Engine!Callers, x # y
        PROVE  Apart(batch'[x], batch'[y])
    <3>1. Apart(batch[x], batch[y])
      BY <1>1, <2>3 DEF ApartInv
    <3> QED
      BY <1>4, <3>1, NothingHeld DEF Apart
  <2>4. ASSUME NEW x \in Engine!Callers, NEW i \in 1 .. n + 1
        PROVE  Apart(batch'[x], processed'[i])
    <3>1. CASE x = w
      BY <1>4, <3>1, NothingHeld DEF Apart
    <3>2. CASE x # w /\ i \in 1 .. n
      BY <1>1, <1>3, <1>4, <1>9, <3>2 DEF ApartInv
    <3>3. CASE x # w /\ i = n + 1
      BY <1>1, <1>3, <1>4, <3>3 DEF ApartInv
    <3> QED
      BY <1>7, <3>1, <3>2, <3>3
  <2>5. ASSUME NEW i \in 1 .. n + 1, NEW j \in 1 .. n + 1, i # j
        PROVE  Apart(processed'[i], processed'[j])
    <3>1. CASE i \in 1 .. n /\ j \in 1 .. n
      BY <1>1, <1>3, <1>9, <2>5, <3>1 DEF ApartInv
    <3>2. CASE i \in 1 .. n /\ j = n + 1
      <4>1. Apart(batch[w], processed[i])
        BY <1>1, <1>9, <3>2 DEF ApartInv
      <4> QED
        BY <1>3, <3>2, <4>1 DEF Apart
    <3>3. CASE i = n + 1 /\ j \in 1 .. n
      <4>1. Apart(batch[w], processed[j])
        BY <1>1, <1>9, <3>3 DEF ApartInv
      <4> QED
        BY <1>3, <3>3, <4>1
    <3> QED
      BY <1>7, <2>5, <3>1, <3>2, <3>3
  <2> QED
    BY <1>2, <1>3, <2>1, <2>2, <2>3, <2>4, <2>5 DEF ApartInv, Apart
<1> QED
  BY <1>10, <1>11, <1>12, <1>13, <1>14 DEF EngineInv

----------------------------------------------------------------------------
(* The steps together.                                                     *)

LEMMA EngineStarts == ASSUME EngineSizes, Engine!Init PROVE EngineInv
<1> USE DEF Engine!Init
<1>1. \A w \in Engine!Callers : batch[w] = << >> /\ enginePc[w] # "process"
  OBVIOUS
<1>2. \A w \in Workers : enginePc[w] = "off"
  BY TheCallers
<1>3. EngineTypeOK
  <2>1. << >> \in Seq(Nat) /\ << >> \in Seq(Seq(Nat))
    BY EmptySeq
  <2>2. batch = [w \in Engine!Callers |-> << >>]
    OBVIOUS
  <2>3. batch \in [Engine!Callers -> Seq(Nat)]
    BY <2>1, <2>2
  <2>4. /\ DOMAIN enginePc = Engine!Callers
        /\ enginePc = [w \in Engine!Callers |-> enginePc[w]]
    OBVIOUS
  <2> QED
    BY <2>1, <2>3, <2>4 DEF EngineTypeOK
<1>4. CallersInv
  BY <1>1, <1>2 DEF CallersInv
<1>5. StretchInv
  <2>1. 0 <= MaxBatchSize
    BY DEF EngineSizes
  <2> QED
    BY <1>1, <2>1, NothingHeld DEF StretchInv
<1>6. CoverInv
  BY DEF CoverInv
<1>7. ApartInv
  BY <1>1, NothingHeld DEF ApartInv, Apart
<1> QED
  BY <1>3, <1>4, <1>5, <1>6, <1>7 DEF EngineInv

LEMMA EngineStutters == ASSUME EngineInv, UNCHANGED engineVars PROVE EngineInv'
<1>1. EngineTypeOK' /\ CallersInv'
  BY DEF engineVars, EngineInv, EngineTypeOK, CallersInv
<1>2. StretchInv' /\ CoverInv' /\ ApartInv'
  BY DEF engineVars, EngineInv, StretchInv, CoverInv, ApartInv, Apart
<1> QED
  BY <1>1, <1>2 DEF EngineInv

LEMMA EngineStep == ASSUME EngineSizes, EngineInv, Engine!Next PROVE EngineInv'
<1>1. CASE Engine!Flush
  <2>1. /\ Engine!TakeBatch("controller") /\ UNCHANGED <<engineRunning, accepted, processed>>
        /\ enginePc["controller"] = "idle" /\ backlog # << >>
        /\ Engine!GoTo("controller", "process")
    BY <1>1 DEF Engine!Flush
  <2> QED
    BY <2>1, TheCallers, TakeStep DEF EngineSizes
<1>2. ASSUME NEW w \in Workers, Engine!Collect(w)
      PROVE  EngineInv'
  <2>1. /\ Engine!TakeBatch(w) /\ UNCHANGED <<engineRunning, accepted, processed>>
        /\ enginePc[w] = "collect"
        /\ Engine!GoTo(w, IF backlog # << >> THEN "process" ELSE "loop")
    BY <1>2 DEF Engine!Collect
  <2>2. w # "controller" /\ w \in Engine!Callers
    BY TheCallers DEF EngineSizes
  <2> QED
    BY <2>1, <2>2, TakeStep
<1>3. ASSUME NEW w \in Workers, Engine!Worker(w)
      PROVE  EngineInv'
  BY <1>2, <1>3, WorkerMoves, ProcessStep, TheCallers DEF Engine!Worker
<1>4. CASE Engine!Controller
  BY <1>1, <1>4, ControlSteps, ProcessStep, TheCallers DEF Engine!Controller
<1> QED
  BY <1>3, <1>4, EnqueueStep, NotifyOneStep DEF Engine!Next

(* What the property says of the batches as they come to be together.      *)
LEMMA InvariantCuts ==
  ASSUME EngineSizes, EngineInv
  PROVE  CutIntoBatches
<1> DEFINE All == Engine!ToSet(processed) \cup {batch[w] : w \in Engine!Callers} \cup {backlog}
           Batches == {s \in All : s # << >>}
<1>1. /\ backlog \in Seq(Nat) /\ batch \in [Engine!Callers -> Seq(Nat)]
      /\ processed \in Seq(Seq(Nat)) /\ DOMAIN processed = 1 .. Len(processed)
      /\ StretchInv /\ CoverInv /\ ApartInv
  BY LenProperties DEF EngineInv, EngineTypeOK
<1>2. Engine!ToSet(processed) = {processed[i] : i \in 1 .. Len(processed)}
  BY <1>1 DEF Engine!ToSet
<1>3. \A s \in All : \/ s = backlog
                     \/ \E w \in Engine!Callers : s = batch[w]
                     \/ \E i \in 1 .. Len(processed) : s = processed[i]
  BY <1>2
<1>4. \A s \in All : Stretch(s) /\ Engine!ToSet(s) \subseteq 1 .. accepted
  BY <1>1, <1>3 DEF StretchInv
<1>5. UNION {Engine!ToSet(s) : s \in Batches} = 1 .. accepted
  <2>1. ASSUME NEW k \in 1 .. accepted
        PROVE  \E s \in Batches : k \in Engine!ToSet(s)
    <3>1. \E s \in All : k \in Engine!ToSet(s)
      BY <1>1, <1>2 DEF CoverInv
    <3> QED
      BY <3>1, NothingHeld
  <2> QED
    BY <1>4, <2>1
<1>6. \A s \in Batches : \A i \in 1 .. Len(s) : s[i] = s[1] + i - 1
  BY <1>4 DEF Stretch
<1>7. \A s, r \in Batches : s # r => Engine!ToSet(s) \cap Engine!ToSet(r) = {}
  <2> SUFFICES ASSUME NEW s \in All, NEW r \in All, s # r
               PROVE  Apart(s, r)
    BY DEF Apart
  <2>1. ASSUME NEW x, NEW y, Apart(x, y)
        PROVE  Apart(y, x)
    BY <2>1 DEF Apart
  <2>2. CASE s = backlog
    BY <1>1, <1>3, <2>2 DEF ApartInv
  <2>3. CASE \E w \in Engine!Callers : s = batch[w]
    BY <1>1, <1>3, <2>1, <2>3 DEF ApartInv
  <2>4. CASE \E i \in 1 .. Len(processed) : s = processed[i]
    BY <1>1, <1>3, <2>1, <2>4 DEF ApartInv
  <2> QED
    BY <1>3, <2>2, <2>3, <2>4
<1>8. \A i, j \in 1 .. Len(processed) : i # j => processed[i] # processed[j]
  <2> SUFFICES ASSUME NEW i \in 1 .. Len(processed), NEW j \in 1 .. Len(processed), i # j
               PROVE  processed[i] # processed[j]
    OBVIOUS
  <2>1. Apart(processed[i], processed[j]) /\ processed[i] # << >>
    BY <1>1 DEF ApartInv, StretchInv
  <2>2. Engine!ToSet(processed[i]) # {}
    <3>1. processed[i] \in Seq(Nat)
      BY <1>1, ElementOfSeq
    <3> QED
      BY <2>1, <3>1, HeldSomewhere
  <2> QED
    BY <2>1, <2>2 DEF Apart
<1>9. \A i \in 1 .. Len(processed) : Len(processed[i]) <= MaxBatchSize
  BY <1>1 DEF StretchInv
<1> QED
  BY <1>5, <1>6, <1>7, <1>8, <1>9 DEF CutIntoBatches, Engine!CutIntoBatches

(***************************************************************************)
(* The deque of the lock-free reducer.                                     *)
(***************************************************************************)

(* What the proofs assume of its constants.  Capacity is a power of two of *)
(* at least two; that there is a slot at all is enough.                    *)
DequeSizes == Capacity \in Nat \ {0}

OwnerPlaces == {"idle", "pop", "pop_fence", "pop_read", "pop_cas"}
ThiefPlaces == {"idle", "steal", "steal_bottom", "steal_cas"}

DequeTypeOK ==
  /\ top \in Nat /\ bottom \in Nat /\ b \in Nat
  /\ pushing \in BOOLEAN
  /\ buffer \in [0 .. Capacity - 1 -> Nat \cup {NoItem}]
  /\ pc \in [Threads -> OwnerPlaces \cup ThiefPlaces]
  /\ pc[Owner] \in OwnerPlaces
  /\ \A p \in Thieves : pc[p] \in ThiefPlaces
  /\ t \in [Threads -> Nat]
  /\ item \in [Threads -> Nat \cup {NoItem}]
  /\ outcome \in [Threads -> {"none", "pending", "empty", "item"}]
  /\ taken \in [Threads -> SUBSET (Nat \cup {NoItem})]
  /\ \A p \in Threads : outcome[p] = "pending" <=> pc[p] # "idle"

(* The items lie in slots of their own, and are never overwritten.         *)
SlotsInv ==
  /\ pushing => top = 0 /\ storeBuffer = <<>> /\ bottom <= NumItems
                /\ \A p \in Threads : pc[p] = "idle"
  /\ IF pushing THEN bottom <= Capacity ELSE NumItems <= Capacity
  /\ \A k \in 0 .. (IF pushing THEN bottom ELSE NumItems) - 1 : buffer[Slot(k)] = k

(* What waits in the store buffer: nothing, the reservation of item b, the *)
(* store that puts bottom_ back, or the latter before the former.          *)
StoresInv ==
  ~pushing =>
    /\ pc[Owner] \in {"idle", "pop"} =>
         storeBuffer = <<>> \/ storeBuffer = <<bottom + 1>>
    /\ pc[Owner] = "pop_fence" =>
         \/ storeBuffer = <<>> /\ bottom = b
         \/ storeBuffer = <<b>> /\ bottom = b + 1
         \/ storeBuffer = <<b + 1, b>> /\ bottom = b
    /\ pc[Owner] \in {"pop_read", "pop_cas"} => storeBuffer = <<>> /\ bottom = b
    /\ End <= NumItems

(* A thief that may still win its compare-and-swap has read the item that  *)
(* is the oldest of the queue.                                             *)
RaceInv ==
  /\ pc[Owner] = "pop_cas" => t[Owner] = b /\ b <= top
  /\ \A p \in Thieves :
       /\ pc[p] \in {"steal_bottom", "steal_cas"} => t[p] <= top
       /\ pc[p] = "steal_cas" => item[p] = t[p] /\ (t[p] = top => top < End)

DequeInv == DequeTypeOK /\ SlotsInv /\ StoresInv /\ RaceInv

(* The contents of the queue that the deque implements.                    *)
Contents == IF pushing THEN Items ELSE top .. End - 1

DequeStutters == UNCHANGED <<Contents, outcome, taken>>

----------------------------------------------------------------------------
(* Store buffers and the end of the queue.                                 *)

LEMMA StoreBuffers ==
  ASSUME NEW x \in Nat, NEW y \in Nat
  PROVE  /\ Append(<<>>, x) = <<x>> /\ Append(<<x>>, y) = <<x, y>>
         /\ <<x>> # <<>> /\ Head(<<x>>) = x /\ Tail(<<x>>) = <<>> /\ Last(<<x>>) = x
         /\ <<x, y>> # <<>> /\ Head(<<x, y>>) = x /\ Tail(<<x, y>>) = <<y>>
         /\ Last(<<x, y>>) = y
<1>1. Append(<<>>, x) = <<x>> /\ Append(<<x>>, y) = <<x, y>>
  <2>1. /\ Append(<<x>>, y) \in Seq(Nat) /\ Len(Append(<<x>>, y)) = 2
        /\ Append(<<x>>, y)[1] = x /\ Append(<<x>>, y)[2] = y
    OBVIOUS
  <2>2. <<x, y>> \in Seq(Nat) /\ Len(<<x, y>>) = 2 /\ <<x, y>>[1] = x /\ <<x, y>>[2] = y
    OBVIOUS
  <2>3. \A i \in 1 .. 2 : Append(<<x>>, y)[i] = <<x, y>>[i]
    BY <2>1, <2>2
  <2>4. Append(<<x>>, y) = <<x, y>>
    BY <2>1, <2>2, <2>3, SeqEqual
  <2>5. QED
    BY <2>4
<1>2. <<x>> # <<>> /\ Head(<<x>>) = x /\ Tail(<<x>>) = <<>>
  OBVIOUS
<1>3. <<x, y>> # <<>> /\ Head(<<x, y>>) = x
  OBVIOUS
<1>4. Tail(<<x, y>>) = <<y>>
  <2>1. Len(Tail(<<x, y>>)) = 1 /\ Tail(<<x, y>>)[1] = y
    OBVIOUS
  <2>2. QED
    BY <2>1
<1>5. Last(<<x>>) = x /\ Last(<<x, y>>) = y
  BY DEF Last
<1>6. QED
  BY <1>1, <1>2, <1>3, <1>4, <1>5

(* What the owner reads of bottom_, and where the queue ends.  The thieves *)
(* never see a bottom_ beyond that end.                                    *)
LEMMA OwnerView ==
  ASSUME DequeTypeOK, StoresInv, ~pushing
  PROVE  /\ End \in Nat /\ OwnBottom \in Nat /\ bottom <= End
         /\ pc[Owner] \in {"idle", "pop"} =>
              /\ End = OwnBottom
              /\ \/ storeBuffer = <<>> /\ OwnBottom = bottom
                 \/ storeBuffer = <<bottom + 1>> /\ OwnBottom = bottom + 1
         /\ pc[Owner] \in {"pop_fence", "pop_read", "pop_cas"} =>
              OwnBottom = b /\ End = b + 1
<1>1. bottom \in Nat /\ b \in Nat /\ pc[Owner] \in OwnerPlaces
  BY DEF DequeTypeOK
<1>2. CASE pc[Owner] \in {"idle", "pop"}
  <2>1. End = OwnBottom
    BY <1>2 DEF End
  <2>2. CASE storeBuffer = <<>>
    BY <1>1, <1>2, <2>1, <2>2 DEF OwnBottom
  <2>3. CASE storeBuffer = <<bottom + 1>>
    <3>1. bottom + 1 \in Nat
      BY <1>1
    <3>2. OwnBottom = bottom + 1
      BY <2>3, <3>1, StoreBuffers DEF OwnBottom
    <3>3. QED
      BY <1>1, <1>2, <2>1, <2>3, <3>2
  <2>4. QED
    BY <1>2, <2>2, <2>3 DEF StoresInv
<1>3. CASE pc[Owner] \in {"pop_fence", "pop_read", "pop_cas"}
  <2>1. End = b + 1
    BY <1>3 DEF End
  <2>2. b + 1 \in Nat
    BY <1>1
  <2>3. CASE storeBuffer = <<>> /\ bottom = b
    BY <1>1, <1>3, <2>1, <2>3 DEF OwnBottom
  <2>4. CASE storeBuffer = <<b>> /\ bottom = b + 1
    <3>1. OwnBottom = b
      BY <1>1, <2>4, StoreBuffers DEF OwnBottom
    <3>2. QED
      BY <1>1, <1>3, <2>1, <2>4, <3>1
  <2>5. CASE storeBuffer = <<b + 1, b>> /\ bottom = b
    <3>1. OwnBottom = b
      BY <1>1, <2>2, <2>5, StoreBuffers DEF OwnBottom
    <3>2. QED
      BY <1>1, <1>3, <2>1, <2>5, <3>1
  <2>6. QED
    BY <1>3, <2>3, <2>4, <2>5 DEF StoresInv
<1>4. QED
  BY <1>1, <1>2, <1>3 DEF OwnerPlaces

(* The ends of a stretch of items.                                         *)
LEMMA EndsOf ==
  ASSUME NEW m \in Nat, NEW n \in Nat, m < n
  PROVE  /\ m .. n - 1 # {}
         /\ Deque!Min(m .. n - 1) = m /\ (m .. n - 1) \ {m} = m + 1 .. n - 1
         /\ Deque!Max(m .. n - 1) = n - 1 /\ (m .. n - 1) \ {n - 1} = m .. n - 2
<1>1. m \in m .. n - 1 /\ n - 1 \in m .. n - 1
  OBVIOUS
<1>2. Deque!Min(m .. n - 1) = m
  BY <1>1 DEF Deque!Min
<1>3. Deque!Max(m .. n - 1) = n - 1
  BY <1>1 DEF Deque!Max
<1>4. QED
  BY <1>1, <1>2, <1>3

----------------------------------------------------------------------------
(* One lemma per action: it keeps the invariant, and is a step of the      *)
(* abstract queue or none.                                                 *)

LEMMA DequeStarts == ASSUME DequeSizes, Init PROVE DequeInv /\ Deque!Init
<1>1. DequeTypeOK
  BY QueueAssumption DEF Init, DequeTypeOK, DequeSizes, OwnerPlaces, ThiefPlaces, Threads, NoItem
<1>2. SlotsInv
  <2>1. NumItems \in Nat
    BY QueueAssumption
  <2>2. QED
    BY <2>1 DEF Init, SlotsInv, DequeSizes
<1>3. StoresInv /\ RaceInv
  BY DEF Init, StoresInv, RaceInv, Threads
<1>4. Deque!Init
  BY DEF Init, Deque!Init, Items, Deque!Threads, Threads
<1>5. QED
  BY <1>1, <1>2, <1>3, <1>4 DEF DequeInv

LEMMA PushStep ==
  ASSUME DequeSizes, DequeInv, Push
  PROVE  DequeInv' /\ DequeStutters
<1>1. /\ pushing /\ pushing' /\ bottom < NumItems /\ bottom - top < Capacity
      /\ buffer' = [buffer EXCEPT ![Slot(bottom)] = bottom] /\ bottom' = bottom + 1
      /\ UNCHANGED <<top, storeBuffer, pc, b, t, item, outcome, taken>>
  BY DEF Push
<1>2. /\ bottom \in Nat /\ top = 0 /\ NumItems \in Nat /\ Capacity \in Nat \ {0}
      /\ buffer \in [0 .. Capacity - 1 -> Nat \cup {NoItem}]
  BY <1>1, QueueAssumption DEF DequeInv, DequeTypeOK, SlotsInv, DequeSizes
<1>3. Slot(bottom) \in 0 .. Capacity - 1
  BY <1>2, RemainderOf DEF Slot
<1>4. DequeTypeOK'
  <2>1. buffer' \in [0 .. Capacity - 1 -> Nat \cup {NoItem}] /\ bottom' \in Nat
    BY <1>1, <1>2, <1>3
  <2>2. QED
    BY <1>1, <2>1 DEF DequeInv, DequeTypeOK
<1>5. \A k \in 0 .. bottom' - 1 : buffer'[Slot(k)] = k
  <2>1. SUFFICES ASSUME NEW k \in 0 .. bottom' - 1 PROVE buffer'[Slot(k)] = k
    OBVIOUS
  <2>2. CASE k = bottom
    BY <1>1, <1>2, <1>3, <2>2
  <2>3. CASE k # bottom
    <3>1. k \in Nat /\ k < bottom /\ bottom - k < Capacity
      BY <1>1, <1>2, <2>1, <2>3
    <3>2. Slot(k) # Slot(bottom)
      BY <1>2, <3>1, RemaindersApart DEF Slot
    <3>3. Slot(k) \in 0 .. Capacity - 1
      BY <1>2, <3>1, RemainderOf DEF Slot
    <3>4. buffer[Slot(k)] = k
      BY <1>1, <1>2, <3>1 DEF DequeInv, SlotsInv
    <3>5. QED
      BY <1>1, <1>2, <3>2, <3>3, <3>4
  <2>4. QED
    BY <2>2, <2>3
<1>6. SlotsInv'
  <2>1. bottom' <= NumItems /\ bottom' <= Capacity
    BY <1>1, <1>2
  <2>2. QED
    BY <1>1, <1>5, <2>1 DEF DequeInv, SlotsInv, Slot
<1>7. StoresInv' /\ RaceInv'
  <2>1. \A p \in Threads : pc'[p] = "idle"
    BY <1>1 DEF DequeInv, SlotsInv
  <2>2. QED
    BY <1>1, <2>1 DEF StoresInv, RaceInv, Threads
<1>8. DequeStutters
  BY <1>1 DEF DequeStutters, Contents
<1>9. QED
  BY <1>4, <1>6, <1>7, <1>8 DEF DequeInv

LEMMA ThreadsStart ==
  ASSUME DequeSizes, DequeInv, StartThreads
  PROVE  DequeInv' /\ DequeStutters
<1>1. /\ pushing /\ ~pushing' /\ bottom = NumItems
      /\ UNCHANGED <<buffer, top, bottom, storeBuffer, pc, b, t, item, outcome, taken>>
  BY DEF StartThreads
<1>2. /\ top = 0 /\ storeBuffer = <<>> /\ bottom \in Nat
      /\ \A p \in Threads : pc[p] = "idle"
  BY <1>1 DEF DequeInv, SlotsInv, DequeTypeOK
<1>3. pc[Owner] = "idle" /\ \A p \in Thieves : pc[p] = "idle"
  BY <1>2 DEF Threads
<1>4. DequeTypeOK'
  <2>1. pushing' \in BOOLEAN
    BY DEF StartThreads
  <2>2. QED
    BY <1>1, <2>1 DEF DequeInv, DequeTypeOK
<1>5. SlotsInv'
  BY <1>1 DEF DequeInv, SlotsInv, Slot
<1>6. End' = bottom
  BY <1>1, <1>2, <1>3 DEF End, OwnBottom
<1>7. StoresInv'
  BY <1>1, <1>2, <1>3, <1>6 DEF StoresInv
<1>8. RaceInv'
  BY <1>1, <1>3 DEF RaceInv
<1>9. DequeStutters
  BY <1>1, <1>2, <1>6 DEF DequeStutters, Contents, Items
<1>10. QED
  BY <1>4, <1>5, <1>7, <1>8, <1>9 DEF DequeInv

(* What the steps after the start have in common.                          *)
LEMMA DequeSlotsStay ==
  ASSUME SlotsInv, ~pushing, UNCHANGED <<pushing, buffer>>
  PROVE  SlotsInv'
BY DEF SlotsInv, Slot

LEMMA PopCallStep ==
  ASSUME DequeInv, CallPop
  PROVE  DequeInv' /\ Deque!Next
<1>1. /\ ~pushing /\ pc[Owner] = "idle"
      /\ outcome' = [outcome EXCEPT ![Owner] = "pending"]
      /\ pc' = [pc EXCEPT ![Owner] = "pop"]
      /\ UNCHANGED <<buffer, top, bottom, storeBuffer, pushing, b, t, item, taken>>
  BY DEF CallPop, GoTo
<1>2. Owner \in Threads /\ \A p \in Thieves : p \in Threads /\ p # Owner
  BY QueueAssumption DEF Threads
<1>3. pc'[Owner] = "pop" /\ \A p \in Thieves : pc'[p] = pc[p]
  BY <1>1, <1>2 DEF DequeInv, DequeTypeOK
<1>4. DequeTypeOK'
  BY <1>1, <1>2 DEF DequeInv, DequeTypeOK, OwnerPlaces
<1>5. End' = End
  BY <1>1, <1>3 DEF End, OwnBottom
<1>6. StoresInv' /\ RaceInv'
  BY <1>1, <1>3, <1>5 DEF DequeInv, StoresInv, RaceInv
<1>7. Deque!Call(Owner)
  <2>1. outcome[Owner] # "pending" /\ Contents' = Contents
    BY <1>1, <1>2, <1>5 DEF DequeInv, DequeTypeOK, Contents
  <2>2. QED
    BY <1>1, <2>1 DEF Deque!Call, Deque!Return, Contents
<1>8. Deque!Next
  BY <1>2, <1>7 DEF Deque!Next, Deque!Threads, Threads
<1>9. QED
  BY <1>1, <1>4, <1>6, <1>8, DequeSlotsStay DEF DequeInv

LEMMA ReserveStep ==
  ASSUME DequeInv, PopReserve
  PROVE  DequeInv' /\ (Deque!Next \/ DequeStutters)
<1>1. /\ pc[Owner] = "pop" /\ UNCHANGED <<buffer, top, bottom, pushing, t, item, taken>>
  BY DEF PopReserve
<1>2. Owner \in Threads /\ \A p \in Thieves : p \in Threads /\ p # Owner
  BY QueueAssumption DEF Threads
<1>3. ~pushing
  BY <1>1, <1>2 DEF DequeInv, SlotsInv
<1>4. /\ End = OwnBottom /\ OwnBottom \in Nat /\ top \in Nat /\ bottom \in Nat
      /\ \/ storeBuffer = <<>> /\ OwnBottom = bottom
         \/ storeBuffer = <<bottom + 1>> /\ OwnBottom = bottom + 1
  BY <1>1, <1>3, OwnerView DEF DequeInv, DequeTypeOK
<1>5. outcome[Owner] = "pending" /\ NumItems \in Nat /\ End <= NumItems
  BY <1>1, <1>2, <1>3, QueueAssumption DEF DequeInv, DequeTypeOK, StoresInv
<1>6. CASE top >= OwnBottom
  <2>1. /\ outcome' = [outcome EXCEPT ![Owner] = "empty"] /\ pc' = [pc EXCEPT ![Owner] = "idle"]
        /\ UNCHANGED <<b, storeBuffer>>
    BY <1>4, <1>6 DEF PopReserve, Return, GoTo
  <2>2. pc'[Owner] = "idle" /\ \A p \in Thieves : pc'[p] = pc[p]
    BY <1>2, <2>1 DEF DequeInv, DequeTypeOK
  <2>3. DequeTypeOK'
    BY <1>1, <1>2, <2>1 DEF DequeInv, DequeTypeOK, OwnerPlaces
  <2>4. End' = End
    BY <1>1, <2>1, <2>2 DEF End, OwnBottom
  <2>5. StoresInv' /\ RaceInv'
    BY <1>1, <2>1, <2>2, <2>4 DEF DequeInv, StoresInv, RaceInv
  <2>6. Contents = {} /\ Contents' = Contents
    BY <1>1, <1>3, <1>4, <1>6, <2>4 DEF Contents
  <2>7. Deque!FindEmpty
    BY <1>1, <1>5, <2>1, <2>6 DEF Deque!FindEmpty, Deque!Return, Contents
  <2>8. QED
    BY <1>1, <1>3, <2>3, <2>5, <2>7, DequeSlotsStay DEF DequeInv, Deque!Next
<1>7. CASE top < OwnBottom
  <2>1. /\ b' = OwnBottom - 1 /\ storeBuffer' = Append(storeBuffer, OwnBottom - 1)
        /\ pc' = [pc EXCEPT ![Owner] = "pop_fence"] /\ outcome' = outcome
    BY <1>4, <1>7 DEF PopReserve, Return, GoTo
  <2>2. pc'[Owner] = "pop_fence" /\ \A p \in Thieves : pc'[p] = pc[p]
    BY <1>2, <2>1 DEF DequeInv, DequeTypeOK
  <2>3. b' \in Nat /\ b' + 1 = OwnBottom
    BY <1>4, <1>7, <2>1
  <2>4. DequeTypeOK'
    BY <1>1, <1>2, <2>1, <2>3 DEF DequeInv, DequeTypeOK, OwnerPlaces
  <2>5. End' = End
    BY <1>4, <2>2, <2>3 DEF End
  <2>6. \/ storeBuffer' = <<b'>> /\ bottom' = b' + 1
        \/ storeBuffer' = <<b' + 1, b'>> /\ bottom' = b'
    <3> DEFINE c == b'
    <3>1. c \in Nat /\ c + 1 = OwnBottom /\ storeBuffer' = Append(storeBuffer, c) /\ bottom' = bottom
      BY <1>1, <2>1, <2>3
    <3> HIDE DEF c
    <3>2. CASE storeBuffer = <<>> /\ OwnBottom = bottom
      BY <3>1, <3>2, StoreBuffers DEF c
    <3>3. CASE storeBuffer = <<bottom + 1>> /\ OwnBottom = bottom + 1
      <4>1. storeBuffer = <<c + 1>> /\ c + 1 \in Nat /\ bottom = c
        BY <1>4, <3>1, <3>3
      <4>2. storeBuffer' = <<c + 1, c>>
        BY <3>1, <4>1, StoreBuffers
      <4>3. QED
        BY <3>1, <4>1, <4>2 DEF c
    <3>4. QED
      BY <1>4, <3>2, <3>3
  <2>7. StoresInv' /\ RaceInv'
    BY <1>1, <1>5, <2>2, <2>5, <2>6 DEF DequeInv, StoresInv, RaceInv
  <2>8. DequeStutters
    BY <1>1, <2>1, <2>5 DEF DequeStutters, Contents
  <2>9. QED
    BY <1>1, <1>3, <2>4, <2>7, <2>8, DequeSlotsStay DEF DequeInv
<1>8. QED
  BY <1>4, <1>6, <1>7

LEMMA FenceStep ==
  ASSUME DequeInv, PopFence
  PROVE  DequeInv' /\ DequeStutters
<1>1. /\ pc[Owner] = "pop_fence" /\ storeBuffer = <<>>
      /\ pc' = [pc EXCEPT ![Owner] = "pop_read"]
      /\ UNCHANGED <<buffer, top, bottom, storeBuffer, pushing, b, t, item, outcome, taken>>
  BY DEF PopFence, GoTo
<1>2. Owner \in Threads /\ \A p \in Thieves : p \in Threads /\ p # Owner
  BY QueueAssumption DEF Threads
<1>3. ~pushing /\ b \in Nat
  BY <1>1, <1>2 DEF DequeInv, SlotsInv, DequeTypeOK
<1>4. pc'[Owner] = "pop_read" /\ \A p \in Thieves : pc'[p] = pc[p]
  BY <1>1, <1>2 DEF DequeInv, DequeTypeOK
<1>5. DequeTypeOK'
  BY <1>1, <1>2 DEF DequeInv, DequeTypeOK, OwnerPlaces
<1>6. End' = End
  BY <1>1, <1>4 DEF End
<1>7. bottom = b
  <2>1. b + 1 \in Nat
    BY <1>3
  <2>2. <<b>> # <<>> /\ <<b + 1, b>> # <<>>
    BY <1>3, <2>1, StoreBuffers
  <2>3. QED
    BY <1>1, <1>3, <2>2 DEF DequeInv, StoresInv
<1>8. StoresInv' /\ RaceInv'
  BY <1>1, <1>3, <1>4, <1>6, <1>7 DEF DequeInv, StoresInv, RaceInv
<1>9. DequeStutters
  BY <1>1, <1>6 DEF DequeStutters, Contents
<1>10. QED
  BY <1>1, <1>3, <1>5, <1>8, <1>9, DequeSlotsStay DEF DequeInv

LEMMA ReadTopStep ==
  ASSUME DequeSizes, DequeInv, PopReadTop
  PROVE  DequeInv' /\ (Deque!Next \/ DequeStutters)
<1>1. /\ pc[Owner] = "pop_read" /\ t' = [t EXCEPT ![Owner] = top]
      /\ UNCHANGED <<buffer, top, bottom, pushing, b, item>>
  BY DEF PopReadTop
<1>2. Owner \in Threads /\ \A p \in Thieves : p \in Threads /\ p # Owner
  BY QueueAssumption DEF Threads
<1>3. ~pushing /\ b \in Nat /\ top \in Nat /\ outcome[Owner] = "pending" /\ NumItems \in Nat
  BY <1>1, <1>2, QueueAssumption DEF DequeInv, SlotsInv, DequeTypeOK
<1>4. End = b + 1 /\ OwnBottom = b /\ storeBuffer = <<>> /\ bottom = b /\ End <= NumItems
  BY <1>1, <1>3, OwnerView DEF DequeInv, StoresInv
<1>5. t' \in [Threads -> Nat] /\ t'[Owner] = top /\ \A p \in Thieves : t'[p] = t[p]
  BY <1>1, <1>2, <1>3 DEF DequeInv, DequeTypeOK
<1>6. CASE top < b
  <2>1. /\ taken' = [taken EXCEPT ![Owner] = @ \cup {buffer[Slot(b)]}]
        /\ outcome' = [outcome EXCEPT ![Owner] = "item"] /\ pc' = [pc EXCEPT ![Owner] = "idle"]
        /\ UNCHANGED storeBuffer
    BY <1>3, <1>6 DEF PopReadTop, Receive, Return, GoTo
  <2>2. buffer[Slot(b)] = b
    <3>1. b \in 0 .. NumItems - 1
      BY <1>3, <1>4
    <3>2. QED
      BY <1>3, <3>1 DEF DequeInv, SlotsInv
  <2>3. pc'[Owner] = "idle" /\ \A p \in Thieves : pc'[p] = pc[p]
    BY <1>2, <2>1 DEF DequeInv, DequeTypeOK
  <2>4. DequeTypeOK'
    <3>1. taken' \in [Threads -> SUBSET (Nat \cup {NoItem})]
      BY <1>2, <1>3, <2>1, <2>2 DEF DequeInv, DequeTypeOK
    <3>2. QED
      BY <1>1, <1>2, <1>5, <2>1, <3>1 DEF DequeInv, DequeTypeOK, OwnerPlaces
  <2>5. End' = b
    BY <1>1, <1>4, <2>1, <2>3 DEF End, OwnBottom
  <2>6. StoresInv'
    BY <1>1, <1>3, <1>4, <2>1, <2>3, <2>5 DEF StoresInv
  <2>7. RaceInv'
    BY <1>1, <1>5, <1>6, <2>3, <2>5 DEF DequeInv, RaceInv
  <2>8. Contents = top .. (b + 1) - 1 /\ Contents' = top .. (b + 1) - 2
    BY <1>1, <1>3, <1>4, <2>5 DEF Contents
  <2>9. Deque!TakeNewest
    <3> DEFINE n == b + 1
    <3>1. n \in Nat /\ top < n /\ n - 1 = b
      BY <1>3, <1>6
    <3>2. Contents = top .. n - 1 /\ Contents' = top .. n - 2
      BY <2>8
    <3> HIDE DEF n
    <3>3. Contents # {} /\ Deque!Max(Contents) = b /\ Contents' = Contents \ {b}
      BY <1>3, <3>1, <3>2, EndsOf
    <3>4. Deque!Take(Owner, b)
      BY <1>3, <2>1, <2>2, <3>3 DEF Deque!Take, Deque!Return, Contents
    <3>5. QED
      BY <3>3, <3>4 DEF Deque!TakeNewest, Contents
  <2>10. QED
    BY <1>1, <1>3, <2>4, <2>6, <2>7, <2>9, DequeSlotsStay DEF DequeInv, Deque!Next
<1>7. CASE top = b
  <2>1. pc' = [pc EXCEPT ![Owner] = "pop_cas"] /\ UNCHANGED <<storeBuffer, outcome, taken>>
    BY <1>3, <1>7 DEF PopReadTop, GoTo
  <2>2. pc'[Owner] = "pop_cas" /\ \A p \in Thieves : pc'[p] = pc[p]
    BY <1>2, <2>1 DEF DequeInv, DequeTypeOK
  <2>3. DequeTypeOK'
    BY <1>1, <1>2, <1>5, <2>1 DEF DequeInv, DequeTypeOK, OwnerPlaces
  <2>4. End' = End
    BY <1>1, <2>2 DEF End
  <2>5. StoresInv'
    BY <1>1, <1>3, <1>4, <2>1, <2>2, <2>4 DEF StoresInv
  <2>6. RaceInv'
    BY <1>1, <1>3, <1>5, <1>7, <2>2, <2>4 DEF DequeInv, RaceInv
  <2>7. DequeStutters
    BY <1>1, <2>1, <2>4 DEF DequeStutters, Contents
  <2>8. QED
    BY <1>1, <1>3, <2>3, <2>5, <2>6, <2>7, DequeSlotsStay DEF DequeInv
<1>8. CASE top > b
  <2>1. /\ storeBuffer' = Append(storeBuffer, b + 1) /\ UNCHANGED taken
        /\ outcome' = [outcome EXCEPT ![Owner] = "empty"] /\ pc' = [pc EXCEPT ![Owner] = "idle"]
    BY <1>3, <1>8 DEF PopReadTop, Return, GoTo
  <2>2. pc'[Owner] = "idle" /\ \A p \in Thieves : pc'[p] = pc[p]
    BY <1>2, <2>1 DEF DequeInv, DequeTypeOK
  <2>3. DequeTypeOK'
    BY <1>1, <1>2, <1>5, <2>1 DEF DequeInv, DequeTypeOK, OwnerPlaces
  <2>4. storeBuffer' = <<bottom' + 1>> /\ End' = End
    <3>1. b + 1 \in Nat /\ storeBuffer' = <<b + 1>>
      BY <1>3, <1>4, <2>1, StoreBuffers
    <3>2. OwnBottom' = b + 1
      BY <3>1, StoreBuffers DEF OwnBottom
    <3>3. QED
      BY <1>1, <1>4, <2>2, <3>1, <3>2 DEF End
  <2>5. StoresInv' /\ RaceInv'
    BY <1>1, <1>4, <1>5, <2>2, <2>4 DEF DequeInv, StoresInv, RaceInv
  <2>6. Contents = {} /\ Contents' = Contents
    BY <1>1, <1>3, <1>4, <1>8, <2>4 DEF Contents
  <2>7. Deque!FindEmpty
    BY <1>3, <2>1, <2>6 DEF Deque!FindEmpty, Deque!Return, Contents
  <2>8. QED
    BY <1>1, <1>3, <2>3, <2>5, <2>7, DequeSlotsStay DEF DequeInv, Deque!Next
<1>9. QED
  BY <1>3, <1>6, <1>7, <1>8

LEMMA LastItemStep ==
  ASSUME DequeSizes, DequeInv, PopCas
  PROVE  DequeInv' /\ Deque!Next
<1>1. /\ pc[Owner] = "pop_cas" /\ storeBuffer = <<>> /\ storeBuffer' = Append(storeBuffer, b + 1)
      /\ UNCHANGED <<buffer, bottom, pushing, b, t, item>>
  BY DEF PopCas
<1>2. Owner \in Threads /\ \A p \in Thieves : p \in Threads /\ p # Owner
  BY QueueAssumption DEF Threads
<1>3. ~pushing /\ b \in Nat /\ top \in Nat /\ outcome[Owner] = "pending" /\ NumItems \in Nat
  BY <1>1, <1>2, QueueAssumption DEF DequeInv, SlotsInv, DequeTypeOK
<1>4. End = b + 1 /\ bottom = b /\ End <= NumItems /\ t[Owner] = b /\ b <= top
  BY <1>1, <1>3, OwnerView DEF DequeInv, StoresInv, RaceInv
<1>5. storeBuffer' = <<bottom' + 1>> /\ OwnBottom' = b + 1
  <2>1. b + 1 \in Nat /\ storeBuffer' = <<b + 1>>
    BY <1>1, <1>3, StoreBuffers
  <2>2. QED
    BY <1>1, <1>4, <2>1, StoreBuffers DEF OwnBottom
<1>6. PICK result \in {"item", "empty"} :
        outcome' = [outcome EXCEPT ![Owner] = result] /\ pc' = [pc EXCEPT ![Owner] = "idle"]
  BY DEF PopCas, Return, GoTo
<1>7. pc'[Owner] = "idle" /\ \A p \in Thieves : pc'[p] = pc[p]
  BY <1>2, <1>6 DEF DequeInv, DequeTypeOK
<1>8. End' = End
  BY <1>4, <1>5, <1>7 DEF End
<1>9. StoresInv'
  BY <1>1, <1>4, <1>5, <1>7, <1>8 DEF StoresInv
<1>10. CASE top = t[Owner]
  <2>1. /\ top' = top + 1 /\ taken' = [taken EXCEPT ![Owner] = @ \cup {buffer[Slot(b)]}]
        /\ outcome' = [outcome EXCEPT ![Owner] = "item"]
    BY <1>10 DEF PopCas, Receive, Return
  <2>2. buffer[Slot(b)] = b
    <3>1. b \in 0 .. NumItems - 1
      BY <1>3, <1>4
    <3>2. QED
      BY <1>3, <3>1 DEF DequeInv, SlotsInv
  <2>3. DequeTypeOK'
    <3>1. taken' \in [Threads -> SUBSET (Nat \cup {NoItem})] /\ top' \in Nat
      BY <1>2, <1>3, <2>1, <2>2 DEF DequeInv, DequeTypeOK
    <3>2. QED
      BY <1>1, <1>2, <1>6, <2>1, <3>1 DEF DequeInv, DequeTypeOK, OwnerPlaces
  <2>4. RaceInv'
    <3>1. ASSUME NEW p \in Thieves, pc[p] \in {"steal_bottom", "steal_cas"}
          PROVE  t[p] <= top' /\ t[p] # top'
      <4>1. t[p] \in Nat /\ t[p] <= top
        BY <1>2, <3>1 DEF DequeInv, DequeTypeOK, RaceInv
      <4>2. QED
        BY <1>3, <2>1, <4>1
    <3>2. QED
      BY <1>1, <1>7, <3>1 DEF DequeInv, RaceInv
  <2>5. Contents = top .. (b + 1) - 1 /\ Contents' = top + 1 .. (b + 1) - 1
    BY <1>1, <1>3, <1>4, <1>8, <2>1 DEF Contents
  <2>6. Contents # {} /\ Deque!Max(Contents) = b /\ Contents' = Contents \ {b}
    <3> DEFINE n == b + 1
    <3>1. n \in Nat /\ top < n /\ n - 1 = b /\ top = b
      BY <1>3, <1>4, <1>10
    <3>2. Contents = top .. n - 1 /\ Contents' = top + 1 .. n - 1
      BY <2>5
    <3> HIDE DEF n
    <3>3. QED
      BY <1>3, <3>1, <3>2, EndsOf
  <2>7. Deque!TakeNewest
    BY <1>3, <2>1, <2>2, <2>6 DEF Deque!TakeNewest, Deque!Take, Deque!Return, Contents
  <2>8. QED
    BY <1>1, <1>3, <1>9, <2>3, <2>4, <2>7, DequeSlotsStay DEF DequeInv, Deque!Next
<1>11. CASE top # t[Owner]
  <2>1. UNCHANGED <<top, taken>> /\ outcome' = [outcome EXCEPT ![Owner] = "empty"]
    BY <1>11 DEF PopCas, Return
  <2>2. DequeTypeOK'
    BY <1>1, <1>2, <1>6, <2>1 DEF DequeInv, DequeTypeOK, OwnerPlaces
  <2>3. RaceInv'
    BY <1>1, <1>7, <1>8, <2>1 DEF DequeInv, RaceInv
  <2>4. Contents = {} /\ Contents' = Contents
    BY <1>1, <1>3, <1>4, <1>8, <1>11, <2>1 DEF Contents
  <2>5. Deque!FindEmpty
    BY <1>3, <2>1, <2>4 DEF Deque!FindEmpty, Deque!Return, Contents
  <2>6. QED
    BY <1>1, <1>3, <1>9, <2>2, <2>3, <2>5, DequeSlotsStay DEF DequeInv, Deque!Next
<1>12. QED
  BY <1>10, <1>11

(* A store that lands changes what the thieves see, and nothing else.      *)
LEMMA LandStep ==
  ASSUME DequeInv, StoreLands
  PROVE  DequeInv' /\ DequeStutters
<1>1. /\ storeBuffer # <<>> /\ bottom' = Head(storeBuffer) /\ storeBuffer' = Tail(storeBuffer)
      /\ UNCHANGED <<buffer, top, pushing, pc, b, t, item, outcome, taken>>
  BY DEF StoreLands
<1>2. ~pushing /\ bottom \in Nat /\ b \in Nat /\ pc[Owner] \in OwnerPlaces
  BY <1>1 DEF DequeInv, SlotsInv, DequeTypeOK
<1>3. /\ bottom' \in Nat /\ OwnBottom' = OwnBottom
      /\ pc[Owner] \in {"idle", "pop"} => storeBuffer' = <<>>
      /\ pc[Owner] = "pop_fence" => \/ storeBuffer' = <<>> /\ bottom' = b
                                    \/ storeBuffer' = <<b>> /\ bottom' = b + 1
      /\ pc[Owner] \notin {"pop_read", "pop_cas"}
  <2>1. CASE pc[Owner] \in {"idle", "pop"}
    <3>1. storeBuffer = <<bottom + 1>> /\ bottom + 1 \in Nat
      BY <1>1, <1>2, <2>1 DEF DequeInv, StoresInv
    <3>2. bottom' = bottom + 1 /\ storeBuffer' = <<>>
      BY <1>1, <3>1, StoreBuffers
    <3>3. OwnBottom' = bottom' /\ OwnBottom = bottom + 1
      BY <1>1, <3>1, <3>2, StoreBuffers DEF OwnBottom
    <3>4. QED
      BY <2>1, <3>1, <3>2, <3>3
  <2>2. CASE pc[Owner] = "pop_fence"
    <3>1. b + 1 \in Nat /\ storeBuffer # <<>>
      BY <1>1, <1>2
    <3>2. CASE storeBuffer = <<b>>
      <4>1. bottom' = b /\ storeBuffer' = <<>>
        BY <1>1, <1>2, <3>2, StoreBuffers
      <4>2. OwnBottom' = bottom' /\ OwnBottom = b
        BY <1>1, <1>2, <3>2, <4>1, StoreBuffers DEF OwnBottom
      <4>3. QED
        BY <1>2, <2>2, <4>1, <4>2
    <3>3. CASE storeBuffer = <<b + 1, b>>
      <4>1. bottom' = b + 1 /\ storeBuffer' = <<b>>
        BY <1>1, <1>2, <3>1, <3>3, StoreBuffers
      <4>2. OwnBottom' = b /\ OwnBottom = b
        BY <1>1, <1>2, <3>1, <3>3, <4>1, StoreBuffers DEF OwnBottom
      <4>3. QED
        BY <2>2, <3>1, <4>1, <4>2
    <3>4. QED
      BY <1>2, <2>2, <3>1, <3>2, <3>3 DEF DequeInv, StoresInv
  <2>3. CASE pc[Owner] \in {"pop_read", "pop_cas"}
    BY <1>1, <1>2, <2>3 DEF DequeInv, StoresInv
  <2>4. QED
    BY <1>2, <2>1, <2>2, <2>3 DEF OwnerPlaces
<1>4. End' = End
  BY <1>1, <1>3 DEF End
<1>5. DequeTypeOK' /\ StoresInv' /\ RaceInv'
  BY <1>1, <1>2, <1>3, <1>4 DEF DequeInv, DequeTypeOK, StoresInv, RaceInv
<1>6. DequeStutters
  BY <1>1, <1>4 DEF DequeStutters, Contents
<1>7. QED
  BY <1>1, <1>2, <1>5, <1>6, DequeSlotsStay DEF DequeInv

----------------------------------------------------------------------------
(* The thieves.                                                            *)

(* What the steps of a thief have in common.                               *)
LEMMA ThiefFacts ==
  ASSUME DequeInv, NEW p \in Thieves, ThiefStep(p)
  PROVE  /\ ~pushing /\ p \in Threads /\ p # Owner /\ Owner \in Threads
         /\ UNCHANGED <<buffer, bottom, storeBuffer, pushing, b>>
         /\ pc'[Owner] = pc[Owner] /\ t'[Owner] = t[Owner]
         /\ \A q \in Thieves \ {p} :
              /\ q \in Threads /\ pc'[q] = pc[q] /\ t'[q] = t[q] /\ item'[q] = item[q]
         /\ End' = End /\ StoresInv' /\ SlotsInv'
         /\ End \in Nat /\ bottom <= End /\ End <= NumItems /\ NumItems \in Nat
<1>1. p \in Threads /\ p # Owner /\ Owner \in Threads /\ NumItems \in Nat
  BY QueueAssumption DEF Threads
<1>2. /\ ~pushing
      /\ UNCHANGED <<buffer, bottom, storeBuffer, pushing, b>>
      /\ \A q \in Threads \ {p} : pc'[q] = pc[q] /\ t'[q] = t[q] /\ item'[q] = item[q]
  <2>1. ~pushing
    BY <1>1 DEF ThiefStep, CallSteal, StealReadTop, StealReadBottom, StealCas,
                DequeInv, SlotsInv
  <2>2. UNCHANGED <<buffer, bottom, storeBuffer, pushing, b>>
    BY DEF ThiefStep, CallSteal, StealReadTop, StealReadBottom, StealCas
  <2>3. ASSUME NEW q \in Threads \ {p}
        PROVE  pc'[q] = pc[q] /\ t'[q] = t[q] /\ item'[q] = item[q]
    BY <2>3 DEF ThiefStep, CallSteal, StealReadTop, StealReadBottom, StealCas, Return, GoTo,
           DequeInv, DequeTypeOK
  <2>4. QED
    BY <2>1, <2>2, <2>3
<1>3. pc'[Owner] = pc[Owner] /\ t'[Owner] = t[Owner]
  BY <1>1, <1>2
<1>4. End' = End
  BY <1>2, <1>3 DEF End, OwnBottom
<1>5. StoresInv'
  BY <1>2, <1>3, <1>4 DEF DequeInv, StoresInv
<1>6. SlotsInv'
  BY <1>2, DequeSlotsStay DEF DequeInv
<1>7. End \in Nat /\ bottom <= End /\ End <= NumItems
  BY <1>2, OwnerView DEF DequeInv, StoresInv
<1>8. \A q \in Thieves \ {p} : q \in Threads
  BY DEF Threads
<1>9. QED
  BY <1>1, <1>2, <1>3, <1>4, <1>5, <1>6, <1>7, <1>8

LEMMA StealCallStep ==
  ASSUME DequeInv, NEW p \in Thieves, CallSteal(p)
  PROVE  DequeInv' /\ Deque!Next
<1>1. /\ pc[p] = "idle" /\ outcome' = [outcome EXCEPT ![p] = "pending"]
      /\ pc' = [pc EXCEPT ![p] = "steal"]
      /\ UNCHANGED <<buffer, top, bottom, storeBuffer, pushing, b, t, item, taken>>
  BY DEF CallSteal, GoTo
<1>2. ThiefStep(p)
  BY DEF ThiefStep
<1>3. p \in Threads /\ pc'[p] = "steal"
  BY <1>1, <1>2, ThiefFacts DEF DequeInv, DequeTypeOK
<1>4. DequeTypeOK'
  BY <1>1, <1>2, <1>3, ThiefFacts DEF DequeInv, DequeTypeOK, ThiefPlaces
<1>5. RaceInv'
  BY <1>1, <1>2, <1>3, ThiefFacts DEF DequeInv, RaceInv
<1>6. Deque!Call(p)
  <2>1. outcome[p] # "pending"
    BY <1>1, <1>3 DEF DequeInv, DequeTypeOK
  <2>2. Contents' = Contents
    BY <1>1, <1>2, ThiefFacts DEF Contents
  <2>3. QED
    BY <1>1, <2>1, <2>2 DEF Deque!Call, Deque!Return, Contents
<1>7. Deque!Next
  BY <1>3, <1>6 DEF Deque!Next, Deque!Threads, Threads
<1>8. QED
  BY <1>2, <1>4, <1>5, <1>7, ThiefFacts DEF DequeInv

LEMMA StealTopStep ==
  ASSUME DequeInv, NEW p \in Thieves, StealReadTop(p)
  PROVE  DequeInv' /\ DequeStutters
<1>1. /\ pc[p] = "steal" /\ t' = [t EXCEPT ![p] = top] /\ pc' = [pc EXCEPT ![p] = "steal_bottom"]
      /\ UNCHANGED <<buffer, top, bottom, storeBuffer, pushing, b, item, outcome, taken>>
  BY DEF StealReadTop, GoTo
<1>2. ThiefStep(p)
  BY DEF ThiefStep
<1>3. p \in Threads /\ pc'[p] = "steal_bottom" /\ t'[p] = top /\ top \in Nat
  BY <1>1, <1>2, ThiefFacts DEF DequeInv, DequeTypeOK
<1>4. DequeTypeOK'
  BY <1>1, <1>2, <1>3, ThiefFacts DEF DequeInv, DequeTypeOK, ThiefPlaces
<1>5. RaceInv'
  BY <1>1, <1>2, <1>3, ThiefFacts DEF DequeInv, RaceInv
<1>6. DequeStutters
  BY <1>1, <1>2, ThiefFacts DEF DequeStutters, Contents
<1>7. QED
  BY <1>2, <1>4, <1>5, <1>6, ThiefFacts DEF DequeInv

LEMMA StealBottomStep ==
  ASSUME DequeInv, NEW p \in Thieves, StealReadBottom(p)
  PROVE  DequeInv' /\ (Deque!Next \/ DequeStutters)
<1>1. /\ pc[p] = "steal_bottom"
      /\ UNCHANGED <<buffer, top, bottom, storeBuffer, pushing, b, t, taken>>
  BY DEF StealReadBottom
<1>2. ThiefStep(p)
  BY DEF ThiefStep
<1>3. p \in Threads /\ t[p] \in Nat /\ bottom \in Nat /\ top \in Nat
  BY <1>2, ThiefFacts DEF DequeInv, DequeTypeOK
<1>4. Contents' = Contents
  BY <1>1, <1>2, ThiefFacts DEF Contents
<1>5. CASE t[p] < bottom
  <2>1. /\ item' = [item EXCEPT ![p] = buffer[Slot(t[p])]] /\ pc' = [pc EXCEPT ![p] = "steal_cas"]
        /\ UNCHANGED outcome
    BY <1>3, <1>5 DEF StealReadBottom, GoTo
  <2>2. t[p] < End /\ t[p] \in 0 .. NumItems - 1
    BY <1>2, <1>3, <1>5, ThiefFacts
  <2>3. buffer[Slot(t[p])] = t[p]
    BY <1>2, <2>2, ThiefFacts DEF DequeInv, SlotsInv
  <2>4. pc'[p] = "steal_cas" /\ item'[p] = t[p]
    BY <1>3, <2>1, <2>3 DEF DequeInv, DequeTypeOK
  <2>5. DequeTypeOK'
    <3>1. item' \in [Threads -> Nat \cup {NoItem}]
      BY <1>3, <2>1, <2>3 DEF DequeInv, DequeTypeOK
    <3>2. QED
      BY <1>1, <1>2, <1>3, <2>1, <3>1, ThiefFacts DEF DequeInv, DequeTypeOK, ThiefPlaces
  <2>6. RaceInv'
    BY <1>1, <1>2, <2>2, <2>4, ThiefFacts DEF DequeInv, RaceInv
  <2>7. DequeStutters
    BY <1>1, <1>4, <2>1 DEF DequeStutters
  <2>8. QED
    BY <1>2, <2>5, <2>6, <2>7, ThiefFacts DEF DequeInv
<1>6. CASE t[p] >= bottom
  <2>1. /\ outcome' = [outcome EXCEPT ![p] = "empty"] /\ pc' = [pc EXCEPT ![p] = "idle"]
        /\ UNCHANGED item
    BY <1>3, <1>6 DEF StealReadBottom, Return, GoTo
  <2>2. pc'[p] = "idle" /\ outcome[p] = "pending"
    BY <1>1, <1>3, <2>1 DEF DequeInv, DequeTypeOK
  <2>3. DequeTypeOK'
    BY <1>1, <1>2, <1>3, <2>1, ThiefFacts DEF DequeInv, DequeTypeOK, ThiefPlaces
  <2>4. RaceInv'
    BY <1>1, <1>2, <2>2, ThiefFacts DEF DequeInv, RaceInv
  <2>5. Deque!GiveUp(p)
    BY <1>1, <1>4, <2>1, <2>2 DEF Deque!GiveUp, Deque!Return, Contents
  <2>6. QED
    BY <1>2, <2>3, <2>4, <2>5, ThiefFacts DEF DequeInv, Deque!Next
<1>7. QED
  BY <1>3, <1>5, <1>6

LEMMA StealCasStep ==
  ASSUME DequeInv, NEW p \in Thieves, StealCas(p)
  PROVE  DequeInv' /\ Deque!Next
<1>1. /\ pc[p] = "steal_cas"
      /\ UNCHANGED <<buffer, bottom, storeBuffer, pushing, b, t, item>>
  BY DEF StealCas
<1>2. ThiefStep(p)
  BY DEF ThiefStep
<1>3. /\ p \in Threads /\ t[p] \in Nat /\ top \in Nat /\ outcome[p] = "pending"
      /\ item[p] = t[p] /\ (t[p] = top => top < End)
  BY <1>1, <1>2, ThiefFacts DEF DequeInv, DequeTypeOK, RaceInv
<1>4. CASE top = t[p]
  <2>1. /\ top' = top + 1 /\ taken' = [taken EXCEPT ![p] = @ \cup {item[p]}]
        /\ outcome' = [outcome EXCEPT ![p] = "item"] /\ pc' = [pc EXCEPT ![p] = "idle"]
    BY <1>4 DEF StealCas, Receive, Return, GoTo
  <2>2. pc'[p] = "idle" /\ item[p] = top /\ top < End
    BY <1>3, <1>4, <2>1 DEF DequeInv, DequeTypeOK
  <2>3. DequeTypeOK'
    <3>1. taken' \in [Threads -> SUBSET (Nat \cup {NoItem})] /\ top' \in Nat
      BY <1>3, <2>1 DEF DequeInv, DequeTypeOK
    <3>2. QED
      BY <1>1, <1>2, <1>3, <2>1, <3>1, ThiefFacts DEF DequeInv, DequeTypeOK, ThiefPlaces
  <2>4. RaceInv'
    <3>1. ASSUME NEW q \in Thieves, pc'[q] \in {"steal_bottom", "steal_cas"}
          PROVE  /\ t'[q] <= top' /\ t'[q] # top'
                 /\ pc'[q] = "steal_cas" => item'[q] = t'[q]
      <4>1. q # p
        BY <2>2, <3>1
      <4>2. pc[q] = pc'[q] /\ t'[q] = t[q] /\ item'[q] = item[q] /\ q \in Threads
        BY <1>2, <4>1, ThiefFacts
      <4>3. t[q] \in Nat /\ t[q] <= top
        BY <3>1, <4>2 DEF DequeInv, DequeTypeOK, RaceInv
      <4>4. t'[q] <= top' /\ t'[q] # top'
        BY <1>3, <2>1, <4>2, <4>3
      <4>5. QED
        BY <3>1, <4>2, <4>4 DEF DequeInv, RaceInv
    <3>2. pc'[Owner] = "pop_cas" => t'[Owner] = b' /\ b' <= top'
      <4>1. SUFFICES ASSUME pc[Owner] = "pop_cas" PROVE b <= top + 1 /\ t[Owner] = b
        BY <1>1, <1>2, <2>1, ThiefFacts
      <4>2. b \in Nat /\ b <= top /\ t[Owner] = b
        BY <4>1 DEF DequeInv, DequeTypeOK, RaceInv
      <4>3. QED
        BY <1>3, <4>2
    <3>3. QED
      BY <3>1, <3>2 DEF RaceInv
  <2>5. Contents = top .. End - 1 /\ Contents' = top + 1 .. End - 1
    BY <1>1, <1>2, <2>1, ThiefFacts DEF Contents
  <2>6. Contents # {} /\ Deque!Min(Contents) = top /\ Contents' = Contents \ {top}
    <3>1. End \in Nat
      BY <1>2, ThiefFacts
    <3> HIDE DEF Contents
    <3>2. QED
      BY <1>3, <2>2, <2>5, <3>1, EndsOf
  <2>7. Deque!TakeOldest(p)
    BY <1>3, <2>1, <2>2, <2>6 DEF Deque!TakeOldest, Deque!Take, Deque!Return, Contents
  <2>8. QED
    BY <1>2, <2>3, <2>4, <2>7, ThiefFacts DEF DequeInv, Deque!Next
<1>5. CASE top # t[p]
  <2>1. /\ outcome' = [outcome EXCEPT ![p] = "empty"] /\ pc' = [pc EXCEPT ![p] = "idle"]
        /\ UNCHANGED <<top, taken>>
    BY <1>5 DEF StealCas, Return, GoTo
  <2>2. pc'[p] = "idle"
    BY <1>3, <2>1 DEF DequeInv, DequeTypeOK
  <2>3. DequeTypeOK'
    BY <1>1, <1>2, <1>3, <2>1, ThiefFacts DEF DequeInv, DequeTypeOK, ThiefPlaces
  <2>4. RaceInv'
    BY <1>1, <1>2, <2>1, <2>2, ThiefFacts DEF DequeInv, RaceInv
  <2>5. Contents' = Contents
    BY <1>1, <1>2, <2>1, ThiefFacts DEF Contents
  <2>6. Deque!GiveUp(p)
    BY <1>3, <2>1, <2>5 DEF Deque!GiveUp, Deque!Return, Contents
  <2>7. QED
    BY <1>2, <2>3, <2>4, <2>6, ThiefFacts DEF DequeInv, Deque!Next
<1>6. QED
  BY <1>4, <1>5

LEMMA DequeStutterStep ==
  ASSUME DequeInv, UNCHANGED vars
  PROVE  DequeInv' /\ DequeStutters
<1>1. UNCHANGED <<buffer, top, bottom, storeBuffer, pushing, pc, b, t, item, outcome, taken>>
  BY DEF vars
<1>2. End' = End
  BY <1>1 DEF End, OwnBottom
<1>3. QED
  BY <1>1, <1>2
     DEF DequeInv, DequeTypeOK, SlotsInv, StoresInv, RaceInv, Slot, DequeStutters, Contents

LEMMA DequeStep ==
  ASSUME DequeSizes, DequeInv, Next
  PROVE  DequeInv' /\ (Deque!Next \/ DequeStutters)
BY PushStep, ThreadsStart, PopCallStep, ReserveStep, FenceStep, ReadTopStep, LastItemStep,
   LandStep, StealCallStep, StealTopStep, StealBottomStep, StealCasStep
   DEF Next, Setup, OwnerStep, ThiefStep

(***************************************************************************)
(* The theorems: a run of all components is a run of each.                 *)
(***************************************************************************)

LEMMA AllStart == AllInit => Window!Init /\ Manager!Init /\ Engine!Init
BY DEF AllInit

LEMMA EachSteps ==
  [AllNext]_AllVars =>
    /\ Window!Next \/ UNCHANGED windowVars
    /\ Manager!Next \/ UNCHANGED managerVars
    /\ Engine!Next \/ UNCHANGED engineVars
BY DEF AllNext, AllVars

(* The invariant of the window; with it, the tail never overtakes the      *)
(* head, although two consumers store to it.                               *)
THEOREM WindowInvariant == ASSUME WindowSizes PROVE AllSpec => []WindowInv
<1>1. AllInit => WindowInv
  BY AllStart, WindowStarts
<1>2. WindowInv /\ [AllNext]_AllVars => WindowInv'
  <2>1. UNCHANGED windowVars => UNCHANGED Window!vars
    BY DEF windowVars, Window!vars, Window!ringVars, Window!popVars, Window!snapVars
  <2> QED
    BY <2>1, EachSteps, WindowCallStep, WindowWriteStep, WindowPublishStep, WindowPopStep,
       WindowReaderStep, WindowStutters DEF Window!Next, Window!Producer
<1> QED
  BY <1>1, <1>2, PTL DEF AllSpec

(* A snapshot holds the points of the positions it claims, in their order; *)
(* once the producer has come round to its first position, words of newer  *)
(* points may be among those of a point, but never words of older ones.    *)
THEOREM SnapshotIsExact == ASSUME WindowSizes PROVE AllSpec => []SnapshotExactUnlessOverrun
<1>1. WindowInv => SnapshotExactUnlessOverrun
  BY DEF WindowInv, SnapshotExactUnlessOverrun
<1> QED
  BY <1>1, WindowInvariant, PTL

(* The invariant of the manager; with it, item k is in the queue's slot of *)
(* k until it is popped, and the circular buffer loses the oldest only,    *)
(* although the words of an item land after the counters that count it.    *)
THEOREM ManagerInvariant == ASSUME ManagerSizes PROVE AllSpec => []ManagerInv
<1>1. AllInit => ManagerInv
  BY AllStart, ManagerStarts
<1>2. ManagerInv /\ [AllNext]_AllVars => ManagerInv'
  BY EachSteps, ManagerStep, ManagerStutters
<1> QED
  BY <1>1, <1>2, PTL DEF AllSpec

(* A window the computation thread processes holds, word for word, the     *)
(* items of the positions it stands for, or of later rounds once the       *)
(* writer came round; but its newest item may be one of the round before,  *)
(* in part or as a whole, because nothing orders its store before size_.   *)
THEOREM ProcessedWindowsLackNewestOnly ==
  ASSUME ManagerSizes PROVE AllSpec => []OnlyNewestMayBeMissing
<1>1. ManagerInv => OnlyNewestMayBeMissing
  BY InvariantCompletesWindows
<1> QED
  BY <1>1, ManagerInvariant, PTL

(* The invariant of the engine: no item is lost and none is in two places. *)
THEOREM EngineInvariant == ASSUME EngineSizes PROVE AllSpec => []EngineInv
<1>1. AllInit => EngineInv
  BY AllStart, EngineStarts
<1>2. EngineInv /\ [AllNext]_AllVars => EngineInv'
  BY EachSteps, EngineStep, EngineStutters
<1> QED
  BY <1>1, <1>2, PTL DEF AllSpec

(* The accepted items are cut into batches, each in exactly one of them,   *)
(* whoever collects while others collect, flush or stop.                   *)
THEOREM ItemsAreCutIntoBatches == ASSUME EngineSizes PROVE AllSpec => []CutIntoBatches
<1>1. EngineInv => CutIntoBatches
  BY InvariantCuts
<1> QED
  BY <1>1, EngineInvariant, PTL

LEMMA DequeRuns ==
  /\ AllInit => Init
  /\ [AllNext]_AllVars => Next \/ UNCHANGED vars
BY DEF AllInit, AllNext, AllVars

(* A step of the deque is a step of the queue, or leaves the queue alone.  *)
LEMMA DequeSteps ==
  ASSUME DequeSizes, DequeInv, [AllNext]_AllVars
  PROVE  DequeInv' /\ [Deque!Next]_(Deque!vars)
<1>1. DequeInv' /\ (Deque!Next \/ DequeStutters)
  BY DequeRuns, DequeStep, DequeStutterStep
<1>2. DequeStutters => UNCHANGED Deque!vars
  BY DEF DequeStutters, Contents, Deque!vars
<1> QED
  BY <1>1, <1>2

(* The invariant of the deque; with it, a thief sees no bottom_ beyond the *)
(* end of the queue, and one that may still win its compare-and-swap has   *)
(* read the oldest item, although the owner's stores arrive late.          *)
THEOREM DequeInvariant == ASSUME DequeSizes PROVE AllSpec => []DequeInv
<1>1. AllInit => DequeInv
  BY DequeRuns, DequeStarts
<1>2. DequeInv /\ [AllNext]_AllVars => DequeInv'
  BY DequeSteps
<1> QED
  BY <1>1, <1>2, PTL DEF AllSpec

(* However pops and steals interleave, and however late the owner's stores *)
(* to bottom_ arrive, each takes effect in one indivisible step between    *)
(* its call and its return: no item is taken twice, none is lost, and the  *)
(* owner is told "empty" only when the queue is.                           *)
THEOREM DequeIsAQueue == ASSUME DequeSizes PROVE AllSpec => ImplementsDeque
<1>1. AllInit => Deque!Init
  BY DequeRuns, DequeStarts
<1>2. DequeInv /\ [AllNext]_AllVars => [Deque!Next]_(Deque!vars)
  BY DequeSteps
<1> QED
  BY <1>1, <1>2, DequeInvariant, PTL DEF AllSpec, ImplementsDeque, Deque!Spec
=============================================================================
