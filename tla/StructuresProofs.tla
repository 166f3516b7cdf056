--------------------------- MODULE StructuresProofs ---------------------------
(***************************************************************************)
(* Proofs about the structures that threads share, as MCStructures sets    *)
(* them side by side, for every size: the queue of cells is a queue (first *)
(* in, first out, each item once) and refuses a call only for a reason;    *)
(* the coordinator's count is exact and its denials are true; what the     *)
(* feature cache has evicted stays away; the pivot table gives a pivot one *)
(* slot and finds what was inserted; and no race on the work queue runs a  *)
(* task twice or leaks it.                                                 *)
(***************************************************************************)
EXTENDS MCStructures, FiniteSetTheorems, TLAPS

(***************************************************************************)
(* The queue of cells: its inductive invariant, one named part per concern.*)
(***************************************************************************)

Enqueuing == {"readFree", "reloadEnqueue", "casEnqueue", "write", "publish"}
Dequeuing == {"readFilled", "reloadDequeue", "casDequeue", "take", "release"}

(* The thread owns the cell of its position, to fill it or to empty it.    *)
Writer(t) == pc[t] \in {"write", "publish"}
Reader(t) == pc[t] \in {"take", "release"}

CountersInv == dequeue_pos <= enqueue_pos /\ Len(log) = enqueue_pos

(* A thread never holds a position that the counter has not reached.       *)
LocalInv ==
  \A t \in Threads :
    /\ pc[t] \in Enqueuing => item[t] \in Items /\ pos[t] <= enqueue_pos
    /\ pc[t] \in Dequeuing => pos[t] <= dequeue_pos

(* The sequence number read before a compare-and-swap is still there if    *)
(* the compare-and-swap can succeed.                                       *)
PendingInv ==
  \A t \in Threads :
    /\ pc[t] = "casEnqueue" /\ pos[t] = enqueue_pos =>
         sequence[Cell(pos[t])] = pos[t]
    /\ pc[t] = "casDequeue" /\ pos[t] = dequeue_pos =>
         sequence[Cell(pos[t])] = pos[t] + 1

WriterInv ==
  \A t \in Threads : Writer(t) =>
    /\ pos[t] < enqueue_pos
    /\ sequence[Cell(pos[t])] = pos[t]
    /\ log[pos[t] + 1] = item[t]
    /\ pc[t] = "publish" => data[Cell(pos[t])] = item[t]

ReaderInv ==
  \A t \in Threads : Reader(t) =>
    /\ pos[t] < dequeue_pos
    /\ sequence[Cell(pos[t])] = pos[t] + 1
    /\ pc[t] = "release" => item[t] = log[pos[t] + 1]

(* No two threads fill, or empty, the cell of one position.                *)
DistinctInv ==
  \A t, u \in Threads :
    t # u /\ ((Writer(t) /\ Writer(u)) \/ (Reader(t) /\ Reader(u))) => pos[t] # pos[u]

(* A cell marked as filled for a position holds the item of that position. *)
FilledInv ==
  \A p \in Nat : sequence[Cell(p)] = p + 1 =>
    /\ p < enqueue_pos
    /\ data[Cell(p)] = log[p + 1]

(* A cell is behind a position only because somebody is still at work.     *)
LapInv ==
  /\ \A c \in Cells : c <= sequence[c]
  /\ \A p \in Nat : p < enqueue_pos =>
       \/ p + 1 <= sequence[Cell(p)]
       \/ \E t \in Threads : Writer(t) /\ pos[t] = p
  /\ \A p \in Nat : p < dequeue_pos =>
       \/ p + Capacity <= sequence[Cell(p)]
       \/ \E t \in Threads : Reader(t) /\ pos[t] = p

CellsInv ==
  /\ TypeOK
  /\ CountersInv
  /\ LocalInv
  /\ PendingInv
  /\ WriterInv
  /\ ReaderInv
  /\ DistinctInv
  /\ FilledInv
  /\ LapInv

----------------------------------------------------------------------------
(* Cells of a position.                                                    *)

LEMMA CellIsCell == \A p \in Nat : Cell(p) \in Cells
BY CapacityAssumption DEF Cell, Cells

LEMMA Division ==
  \A p \in Nat : /\ p \div Capacity \in Int
                 /\ p = Capacity * (p \div Capacity) + Cell(p)
BY CapacityAssumption DEF Cell

(* Only one multiple of the capacity lies within one lap around zero.      *)
LEMMA OneMultiple ==
  ASSUME NEW k \in Int, -Capacity < Capacity * k, Capacity * k < Capacity
  PROVE  k = 0
<1>1. CASE k >= 1
  <2>1. Capacity * k = Capacity + Capacity * (k - 1)
    BY CapacityAssumption
  <2>2. Capacity * (k - 1) >= 0
    BY <1>1, CapacityAssumption
  <2> QED
    BY <2>1, <2>2, CapacityAssumption
<1>2. CASE k <= -1
  <2>1. Capacity * k = Capacity * (k + 1) - Capacity
    BY CapacityAssumption
  <2>2. Capacity * (-(k + 1)) >= 0
    BY <1>2, CapacityAssumption
  <2>3. Capacity * (-(k + 1)) = -(Capacity * (k + 1))
    BY CapacityAssumption
  <2> QED
    BY <2>1, <2>2, <2>3, CapacityAssumption
<1> QED
  BY <1>1, <1>2

(* Neighbouring positions have different cells.                            *)
LEMMA NeighboursApart ==
  ASSUME NEW p \in Nat
  PROVE  Cell(p) # Cell(p + 1)
<1> SUFFICES ASSUME Cell(p) = Cell(p + 1)
             PROVE  FALSE
  OBVIOUS
<1> DEFINE a == p \div Capacity
           b == (p + 1) \div Capacity
<1>1. /\ a \in Int /\ b \in Int /\ Cell(p) \in Int
      /\ p = Capacity * a + Cell(p)
      /\ p + 1 = Capacity * b + Cell(p)
  BY Division, CellIsCell DEF Cells
<1> HIDE DEF a, b
<1>2. Capacity * (b - a) = Capacity * b - Capacity * a
  BY <1>1, CapacityAssumption
<1>3. Capacity * a \in Int /\ Capacity * b \in Int /\ b - a \in Int
  BY <1>1, CapacityAssumption
<1>4. Capacity * (b - a) = 1
  BY <1>1, <1>2, <1>3
<1>5. b - a = 0
  BY <1>3, <1>4, OneMultiple, CapacityAssumption
<1> QED
  BY <1>4, <1>5, CapacityAssumption

(* One lap later the cell is the same.                                     *)
LEMMA SameCellNextLap ==
  ASSUME NEW p \in Nat
  PROVE  p + Capacity \in Nat /\ Cell(p + Capacity) = Cell(p)
<1> DEFINE a == p \div Capacity
           b == (p + Capacity) \div Capacity
           x == Cell(p)
           y == Cell(p + Capacity)
<1>1. p + Capacity \in Nat
  BY CapacityAssumption
<1>2. a \in Int /\ x \in 0 .. Capacity - 1 /\ p = Capacity * a + x
  BY Division, CellIsCell DEF Cells
<1>3. b \in Int /\ y \in 0 .. Capacity - 1 /\ p + Capacity = Capacity * b + y
  BY <1>1, Division, CellIsCell DEF Cells
<1> HIDE DEF a, b, x, y
<1>4. Capacity * (b - a - 1) = Capacity * b - Capacity * a - Capacity
  BY <1>2, <1>3, CapacityAssumption
<1>5. /\ Capacity * a \in Int /\ Capacity * b \in Int
      /\ b - a - 1 \in Int
  BY <1>2, <1>3, CapacityAssumption
<1>6. Capacity * (b - a - 1) = x - y
  BY <1>2, <1>3, <1>4, <1>5, CapacityAssumption
<1>7. b - a - 1 = 0
  BY <1>2, <1>3, <1>5, <1>6, OneMultiple, CapacityAssumption
<1>8. x = y
  BY <1>2, <1>3, <1>6, <1>7, CapacityAssumption
<1> QED
  BY <1>1, <1>8 DEF x, y

(* The cell left for the next lap is not the one of the position before.   *)
LEMMA LastOfLapApart ==
  ASSUME NEW p \in Nat, NEW q \in Nat, q + 1 = p + Capacity
  PROVE  Cell(q) # Cell(p)
BY SameCellNextLap, NeighboursApart

(* In the first lap a position is its own cell.                            *)
LEMMA FirstLap ==
  ASSUME NEW p \in Nat, p < Capacity
  PROVE  Cell(p) = p
BY CapacityAssumption DEF Cell

----------------------------------------------------------------------------
(* Types.                                                                  *)

LEMMA InitTypeOK == Init => TypeOK
BY CapacityAssumption DEF Init, TypeOK, Cells, Labels

LEMMA EnqueueTypeOK ==
  ASSUME TypeOK, LocalInv, NEW t \in Threads, Enqueue(t)
  PROVE  TypeOK'
<1> USE DEF TypeOK, Labels, GoTo, queueVars
<1>1. CASE \E x \in Items : CallEnqueue(t, x)
  BY <1>1 DEF CallEnqueue
<1>2. CASE ReadFree(t)
  BY <1>2 DEF ReadFree, ReadSequence
<1>3. CASE ReloadEnqueue(t)
  BY <1>3 DEF ReloadEnqueue, Reload
<1>4. CASE WinEnqueue(t)
  <2>1. item[t] \in Items
    BY <1>4 DEF WinEnqueue, LocalInv, Enqueuing
  <2> QED
    BY <1>4, <2>1 DEF WinEnqueue
<1>5. CASE LoseEnqueue(t)
  BY <1>5 DEF LoseEnqueue, LoseCas
<1>6. CASE WriteData(t)
  BY <1>6, CellIsCell DEF WriteData
<1>7. CASE Publish(t)
  <2>1. pos[t] + 1 \in Nat /\ Cell(pos[t]) \in Cells
    BY CellIsCell
  <2> QED
    BY <1>7, <2>1 DEF Publish
<1> QED
  BY <1>1, <1>2, <1>3, <1>4, <1>5, <1>6, <1>7 DEF Enqueue

LEMMA DequeueTypeOK ==
  ASSUME TypeOK, NEW t \in Threads, Dequeue(t)
  PROVE  TypeOK'
<1> USE DEF TypeOK, Labels, GoTo, queueVars
<1>1. CASE CallDequeue(t)
  BY <1>1 DEF CallDequeue
<1>2. CASE ReadFilled(t)
  BY <1>2 DEF ReadFilled, ReadSequence
<1>3. CASE ReloadDequeue(t)
  BY <1>3 DEF ReloadDequeue, Reload
<1>4. CASE WinDequeue(t)
  BY <1>4 DEF WinDequeue
<1>5. CASE LoseDequeue(t)
  BY <1>5 DEF LoseDequeue, LoseCas
<1>6. CASE TakeData(t)
  BY <1>6, CellIsCell DEF TakeData
<1>7. CASE Release(t)
  <2>1. pos[t] + Capacity \in Nat /\ Cell(pos[t]) \in Cells
    BY CellIsCell, CapacityAssumption
  <2> QED
    BY <1>7, <2>1 DEF Release
<1> QED
  BY <1>1, <1>2, <1>3, <1>4, <1>5, <1>6, <1>7 DEF Dequeue

----------------------------------------------------------------------------
(* The initial states.                                                     *)

LEMMA InitCells == Init => CellsInv
<1> SUFFICES ASSUME Init
             PROVE  CellsInv
  OBVIOUS
<1> USE DEF Init
<1>1. TypeOK
  BY InitTypeOK
<1>2. CountersInv /\ LocalInv /\ PendingInv /\ WriterInv /\ ReaderInv /\ DistinctInv
  BY DEF CountersInv, LocalInv, PendingInv, WriterInv, ReaderInv, DistinctInv,
         Writer, Reader, Enqueuing, Dequeuing
<1>3. FilledInv
  <2> SUFFICES ASSUME NEW p \in Nat, sequence[Cell(p)] = p + 1
               PROVE  FALSE
    BY DEF FilledInv
  <2>1. Cell(p) = p + 1 /\ p + 1 \in Nat /\ p + 1 < Capacity
    <3>1. Cell(p) \in 0 .. Capacity - 1
      BY CellIsCell DEF Cells
    <3>2. Cell(p) = p + 1
      BY <3>1 DEF Cells
    <3> HIDE DEF Init
    <3> QED
      BY <3>1, <3>2, CapacityAssumption
  <2>2. Cell(p + 1) = p + 1
    BY <2>1, FirstLap
  <2> QED
    BY <2>1, <2>2, NeighboursApart
<1>4. LapInv
  BY DEF LapInv, Cells
<1> QED
  BY <1>1, <1>2, <1>3, <1>4 DEF CellsInv

----------------------------------------------------------------------------
(* Steps that touch neither the counters nor a cell.                       *)

QuietStep(t) ==
  \/ \E x \in Items : CallEnqueue(t, x)
  \/ ReadFree(t) \/ ReloadEnqueue(t) \/ LoseEnqueue(t)
  \/ CallDequeue(t)
  \/ ReadFilled(t) \/ ReloadDequeue(t) \/ LoseDequeue(t) \/ TakeData(t)

(* What all of them have in common.                                        *)
LEMMA QuietFacts ==
  ASSUME TypeOK, NEW t \in Threads, QuietStep(t)
  PROVE  /\ UNCHANGED <<enqueue_pos, dequeue_pos, sequence, data, result, log>>
         /\ \A u \in Threads \ {t} : pc'[u] = pc[u] /\ pos'[u] = pos[u] /\ item'[u] = item[u]
         /\ Writer(t)' <=> Writer(t)
         /\ Reader(t)' <=> Reader(t)
         /\ Writer(t) \/ Reader(t) => pos'[t] = pos[t]
         /\ ~Writer(t)
<1> USE DEF TypeOK, GoTo, queueVars, Writer, Reader
<1>1. CASE \E x \in Items : CallEnqueue(t, x)
  BY <1>1 DEF CallEnqueue
<1>2. CASE ReadFree(t)
  BY <1>2 DEF ReadFree, ReadSequence
<1>3. CASE ReloadEnqueue(t)
  BY <1>3 DEF ReloadEnqueue, Reload
<1>4. CASE LoseEnqueue(t)
  BY <1>4 DEF LoseEnqueue, LoseCas
<1>5. CASE CallDequeue(t)
  BY <1>5 DEF CallDequeue
<1>6. CASE ReadFilled(t)
  BY <1>6 DEF ReadFilled, ReadSequence
<1>7. CASE ReloadDequeue(t)
  BY <1>7 DEF ReloadDequeue, Reload
<1>8. CASE LoseDequeue(t)
  BY <1>8 DEF LoseDequeue, LoseCas
<1>9. CASE TakeData(t)
  BY <1>9 DEF TakeData
<1> QED
  BY <1>1, <1>2, <1>3, <1>4, <1>5, <1>6, <1>7, <1>8, <1>9 DEF QuietStep

(* What the thread itself knows afterwards.                                *)
LEMMA QuietLocal ==
  ASSUME CellsInv, NEW t \in Threads, QuietStep(t)
  PROVE  /\ pc'[t] \in Enqueuing => item'[t] \in Items /\ pos'[t] <= enqueue_pos
         /\ pc'[t] \in Dequeuing => pos'[t] <= dequeue_pos
         /\ pc'[t] = "casEnqueue" => sequence[Cell(pos'[t])] = pos'[t]
         /\ pc'[t] = "casDequeue" => sequence[Cell(pos'[t])] = pos'[t] + 1
         /\ pc'[t] = "release" => item'[t] = log[pos'[t] + 1]
<1> USE DEF CellsInv, TypeOK, GoTo, queueVars, Enqueuing, Dequeuing
<1>1. CASE \E x \in Items : CallEnqueue(t, x)
  BY <1>1 DEF CallEnqueue
<1>2. CASE ReadFree(t)
  BY <1>2 DEF ReadFree, ReadSequence, LocalInv
<1>3. CASE ReloadEnqueue(t)
  BY <1>3 DEF ReloadEnqueue, Reload, LocalInv
<1>4. CASE LoseEnqueue(t)
  BY <1>4 DEF LoseEnqueue, LoseCas, LocalInv
<1>5. CASE CallDequeue(t)
  BY <1>5 DEF CallDequeue
<1>6. CASE ReadFilled(t)
  BY <1>6 DEF ReadFilled, ReadSequence, LocalInv
<1>7. CASE ReloadDequeue(t)
  BY <1>7 DEF ReloadDequeue, Reload, LocalInv
<1>8. CASE LoseDequeue(t)
  BY <1>8 DEF LoseDequeue, LoseCas, LocalInv
<1>9. CASE TakeData(t)
  <2>1. pos[t] \in Nat /\ pos[t] <= dequeue_pos /\ sequence[Cell(pos[t])] = pos[t] + 1
    BY <1>9 DEF TakeData, LocalInv, ReaderInv, Reader
  <2>2. data[Cell(pos[t])] = log[pos[t] + 1]
    BY <2>1 DEF FilledInv
  <2> QED
    BY <1>9, <2>1, <2>2 DEF TakeData
<1> QED
  BY <1>1, <1>2, <1>3, <1>4, <1>5, <1>6, <1>7, <1>8, <1>9 DEF QuietStep

LEMMA QuietKeepsCells ==
  ASSUME CellsInv, TypeOK', NEW t \in Threads, QuietStep(t)
  PROVE  CellsInv'
<1>1. /\ UNCHANGED <<enqueue_pos, dequeue_pos, sequence, data, log>>
      /\ \A u \in Threads \ {t} : pc'[u] = pc[u] /\ pos'[u] = pos[u] /\ item'[u] = item[u]
      /\ Writer(t)' <=> Writer(t)
      /\ Reader(t)' <=> Reader(t)
      /\ Writer(t) \/ Reader(t) => pos'[t] = pos[t]
      /\ ~Writer(t)
  BY QuietFacts DEF CellsInv
<1>2. /\ pc'[t] \in Enqueuing => item'[t] \in Items /\ pos'[t] <= enqueue_pos
      /\ pc'[t] \in Dequeuing => pos'[t] <= dequeue_pos
      /\ pc'[t] = "casEnqueue" => sequence[Cell(pos'[t])] = pos'[t]
      /\ pc'[t] = "casDequeue" => sequence[Cell(pos'[t])] = pos'[t] + 1
      /\ pc'[t] = "release" => item'[t] = log[pos'[t] + 1]
  BY QuietLocal
<1>3. CountersInv' /\ FilledInv'
  BY <1>1 DEF CellsInv, CountersInv, FilledInv
<1>4. LocalInv'
  BY <1>1, <1>2 DEF CellsInv, LocalInv
<1>5. PendingInv'
  BY <1>1, <1>2 DEF CellsInv, PendingInv
<1>6. WriterInv'
  BY <1>1 DEF CellsInv, WriterInv, Writer
<1>7. ReaderInv'
  BY <1>1, <1>2 DEF CellsInv, ReaderInv, Reader
<1>8. DistinctInv'
  BY <1>1 DEF CellsInv, DistinctInv, Writer, Reader
<1>9. LapInv'
  BY <1>1 DEF CellsInv, LapInv, Writer, Reader
<1> QED
  BY <1>3, <1>4, <1>5, <1>6, <1>7, <1>8, <1>9 DEF CellsInv

----------------------------------------------------------------------------
(* A producer wins a position.                                             *)
LEMMA WinEnqueueKeepsCells ==
  ASSUME CellsInv, TypeOK', NEW t \in Threads, WinEnqueue(t)
  PROVE  CellsInv'
<1> USE DEF CellsInv, TypeOK
<1>1. /\ UNCHANGED <<dequeue_pos, sequence, data, pos, item>>
      /\ enqueue_pos = pos[t] /\ enqueue_pos' = enqueue_pos + 1
      /\ log' = Append(log, item[t])
      /\ pc[t] = "casEnqueue" /\ pc'[t] = "write"
      /\ \A u \in Threads \ {t} : pc'[u] = pc[u]
  BY DEF WinEnqueue, GoTo
<1>2. item[t] \in Items /\ sequence[Cell(pos[t])] = pos[t]
  BY <1>1 DEF LocalInv, PendingInv, Enqueuing
<1>3. /\ Len(log') = enqueue_pos'
      /\ log'[enqueue_pos + 1] = item[t]
      /\ \A p \in Nat : p < enqueue_pos => log'[p + 1] = log[p + 1]
  BY <1>1, <1>2 DEF CountersInv
<1>4. CountersInv' /\ LocalInv'
  BY <1>1, <1>2, <1>3 DEF CountersInv, LocalInv, Enqueuing, Dequeuing
<1>5. PendingInv'
  BY <1>1 DEF PendingInv, LocalInv, Enqueuing
<1>6. WriterInv'
  BY <1>1, <1>2, <1>3 DEF WriterInv, Writer
<1>7. ReaderInv'
  BY <1>1, <1>3 DEF ReaderInv, Reader, CountersInv
<1>8. DistinctInv'
  BY <1>1 DEF DistinctInv, WriterInv, Writer, Reader
<1>9. FilledInv'
  BY <1>1, <1>3 DEF FilledInv
<1>10. LapInv'
  <2>1. \A p \in Nat : p < enqueue_pos' =>
          p + 1 <= sequence'[Cell(p)] \/ \E u \in Threads : Writer(u)' /\ pos'[u] = p
    <3>1. SUFFICES ASSUME NEW p \in Nat, p < enqueue_pos + 1, ~(p + 1 <= sequence[Cell(p)])
                   PROVE  \E u \in Threads : Writer(u)' /\ pos[u] = p
      BY <1>1
    <3>2. CASE p = pos[t]
      BY <1>1, <3>2 DEF Writer
    <3>3. CASE p # pos[t]
      <4>1. PICK u \in Threads : Writer(u) /\ pos[u] = p
        <5>1. p < enqueue_pos
          BY <1>1, <3>1, <3>3
        <5> QED
          BY <3>1, <5>1 DEF LapInv
      <4>2. Writer(u)'
        BY <1>1, <3>3, <4>1 DEF Writer
      <4> QED
        BY <4>1, <4>2
    <3> QED
      BY <3>2, <3>3
  <2>2. \A p \in Nat : p < dequeue_pos' =>
          p + Capacity <= sequence'[Cell(p)] \/ \E u \in Threads : Reader(u)' /\ pos'[u] = p
    BY <1>1 DEF LapInv, Reader
  <2> QED
    BY <1>1, <2>1, <2>2 DEF LapInv
<1> QED
  BY <1>4, <1>5, <1>6, <1>7, <1>8, <1>9, <1>10

(* A producer stores its item: no filled cell is written.                  *)
LEMMA WriteDataKeepsCells ==
  ASSUME CellsInv, TypeOK', NEW t \in Threads, WriteData(t)
  PROVE  CellsInv'
<1> USE DEF CellsInv, TypeOK
<1>1. /\ UNCHANGED <<enqueue_pos, dequeue_pos, sequence, pos, item, log>>
      /\ pc[t] = "write" /\ pc'[t] = "publish"
      /\ \A u \in Threads \ {t} : pc'[u] = pc[u]
      /\ data'[Cell(pos[t])] = item[t]
      /\ \A c \in Cells : c # Cell(pos[t]) => data'[c] = data[c]
  BY CellIsCell DEF WriteData, GoTo
<1>2. sequence[Cell(pos[t])] = pos[t]
  BY <1>1 DEF WriterInv, Writer
<1>3. CountersInv' /\ LocalInv' /\ PendingInv' /\ ReaderInv' /\ DistinctInv'
  BY <1>1 DEF CountersInv, LocalInv, PendingInv, ReaderInv, DistinctInv,
              Writer, Reader, Enqueuing, Dequeuing
<1>4. WriterInv'
  <2> SUFFICES ASSUME NEW u \in Threads, Writer(u)'
               PROVE  /\ pos[u] < enqueue_pos
                      /\ sequence[Cell(pos[u])] = pos[u]
                      /\ log[pos[u] + 1] = item[u]
                      /\ pc'[u] = "publish" => data'[Cell(pos[u])] = item[u]
    BY <1>1 DEF WriterInv, Writer
  <2>1. Writer(u)
    BY <1>1 DEF Writer
  <2>2. CASE u = t
    BY <1>1, <2>1, <2>2 DEF WriterInv
  <2>3. CASE u # t
    <3>1. pos[u] # pos[t] /\ sequence[Cell(pos[u])] = pos[u]
      BY <1>1, <2>1, <2>3 DEF DistinctInv, WriterInv, Writer
    <3>2. data'[Cell(pos[u])] = data[Cell(pos[u])]
      BY <1>1, <1>2, <3>1, CellIsCell
    <3> QED
      BY <1>1, <2>1, <2>3, <3>2 DEF WriterInv
  <2> QED
    BY <2>2, <2>3
<1>5. FilledInv'
  <2> SUFFICES ASSUME NEW p \in Nat, sequence[Cell(p)] = p + 1
               PROVE  p < enqueue_pos /\ data'[Cell(p)] = log[p + 1]
    BY <1>1 DEF FilledInv
  <2>1. Cell(p) # Cell(pos[t])
    <3>1. CASE pos[t] = p + 1
      BY <3>1, NeighboursApart
    <3>2. CASE pos[t] # p + 1
      BY <1>2, <3>2
    <3> QED
      BY <3>1, <3>2
  <2> QED
    BY <1>1, <2>1, CellIsCell DEF FilledInv
<1>6. LapInv'
  <2>1. \A u \in Threads : (Writer(u)' <=> Writer(u)) /\ (Reader(u)' <=> Reader(u))
    BY <1>1 DEF Writer, Reader
  <2> QED
    BY <1>1, <2>1 DEF LapInv
<1> QED
  BY <1>3, <1>4, <1>5, <1>6

(* The cell is handed to the consumers: it held the position before.       *)
LEMMA PublishKeepsCells ==
  ASSUME CellsInv, TypeOK', NEW t \in Threads, Publish(t)
  PROVE  CellsInv'
<1> USE DEF CellsInv, TypeOK
<1> DEFINE cell == Cell(pos[t])
<1>1. /\ UNCHANGED <<enqueue_pos, dequeue_pos, data, pos, item, log>>
      /\ pc[t] = "publish" /\ pc'[t] = "idle"
      /\ \A u \in Threads \ {t} : pc'[u] = pc[u]
      /\ cell \in Cells /\ sequence'[cell] = pos[t] + 1
      /\ \A c \in Cells : c # cell => sequence'[c] = sequence[c]
  BY CellIsCell DEF Publish, GoTo
<1>2. /\ sequence[cell] = pos[t] /\ data[cell] = item[t]
      /\ pos[t] < enqueue_pos /\ log[pos[t] + 1] = item[t]
  BY <1>1 DEF WriterInv, Writer
<1>3. \A u \in Threads : /\ Reader(u)' <=> Reader(u)
                         /\ Writer(u)' <=> Writer(u) /\ u # t
  BY <1>1 DEF Writer, Reader
<1> HIDE DEF cell
<1>4. CountersInv' /\ LocalInv' /\ DistinctInv'
  BY <1>1, <1>3 DEF CountersInv, LocalInv, DistinctInv, Enqueuing, Dequeuing
<1>5. \A p \in Nat : Cell(p) = cell => p + 1 # pos[t]
  BY NeighboursApart DEF cell
<1>6. \A p \in Nat : sequence[Cell(p)] = p + 1 => sequence'[Cell(p)] = p + 1
  BY <1>1, <1>2, <1>5, CellIsCell
<1>7. PendingInv'
  <2>1. \A u \in Threads : pc[u] = "casEnqueue" /\ pos[u] = enqueue_pos =>
          sequence'[Cell(pos[u])] = pos[u]
    BY <1>1, <1>2, CellIsCell DEF PendingInv
  <2> QED
    BY <1>1, <1>6, <2>1 DEF PendingInv
<1>8. WriterInv'
  <2> SUFFICES ASSUME NEW u \in Threads, Writer(u), u # t
               PROVE  sequence'[Cell(pos[u])] = pos[u]
    BY <1>1, <1>3 DEF WriterInv
  <2>1. pos[u] # pos[t]
    BY <1>1 DEF DistinctInv, Writer
  <2> QED
    BY <1>1, <1>2, <2>1, CellIsCell DEF WriterInv
<1>9. ReaderInv'
  BY <1>1, <1>3, <1>6 DEF ReaderInv
<1>10. FilledInv'
  <2> SUFFICES ASSUME NEW p \in Nat, sequence'[Cell(p)] = p + 1
               PROVE  p < enqueue_pos /\ data[Cell(p)] = log[p + 1]
    BY <1>1 DEF FilledInv
  <2>1. CASE Cell(p) = cell
    BY <1>1, <1>2, <2>1
  <2>2. CASE Cell(p) # cell
    BY <1>1, <2>2, CellIsCell DEF FilledInv
  <2> QED
    BY <2>1, <2>2
<1>11. LapInv'
  <2>1. \A c \in Cells : sequence[c] <= sequence'[c]
    <3>1. SUFFICES ASSUME NEW c \in Cells
                   PROVE  sequence[c] <= sequence'[c]
      OBVIOUS
    <3>2. sequence[c] \in Nat /\ pos[t] \in Nat
      OBVIOUS
    <3>3. CASE c = cell
      BY <1>1, <1>2, <3>2, <3>3
    <3>4. CASE c # cell
      BY <1>1, <3>2, <3>4
    <3> QED
      BY <3>3, <3>4
  <2>2. \A c \in Cells : c <= sequence'[c]
    <3>1. SUFFICES ASSUME NEW c \in Cells
                   PROVE  c <= sequence'[c]
      OBVIOUS
    <3>2. c \in Int /\ sequence[c] \in Nat /\ sequence'[c] \in Nat
      BY CapacityAssumption DEF Cells
    <3> QED
      BY <2>1, <3>2 DEF LapInv
  <2>3. \A p \in Nat : p < enqueue_pos' =>
          p + 1 <= sequence'[Cell(p)] \/ \E u \in Threads : Writer(u)' /\ pos'[u] = p
    <3>1. SUFFICES ASSUME NEW p \in Nat, p < enqueue_pos, ~(p + 1 <= sequence'[Cell(p)])
                   PROVE  \E u \in Threads : Writer(u)' /\ pos[u] = p
      BY <1>1
    <3>2. ~(p + 1 <= sequence[Cell(p)])
      BY <2>1, <3>1, CellIsCell
    <3>3. PICK u \in Threads : Writer(u) /\ pos[u] = p
      BY <3>1, <3>2 DEF LapInv
    <3>4. u # t
      BY <1>1, <3>1, <3>3 DEF cell
    <3> QED
      BY <1>3, <3>3, <3>4
  <2>4. \A p \in Nat : p < dequeue_pos' =>
          p + Capacity <= sequence'[Cell(p)] \/ \E u \in Threads : Reader(u)' /\ pos'[u] = p
    <3>1. SUFFICES ASSUME NEW p \in Nat, p < dequeue_pos,
                          ~(p + Capacity <= sequence'[Cell(p)])
                   PROVE  \E u \in Threads : Reader(u)' /\ pos[u] = p
      BY <1>1
    <3>2. ~(p + Capacity <= sequence[Cell(p)])
      BY <2>1, <3>1, CellIsCell, CapacityAssumption
    <3>3. PICK u \in Threads : Reader(u) /\ pos[u] = p
      BY <3>1, <3>2 DEF LapInv
    <3> QED
      BY <1>3, <3>3
  <2> QED
    BY <2>2, <2>3, <2>4 DEF LapInv
<1> QED
  BY <1>4, <1>7, <1>8, <1>9, <1>10, <1>11

(* A consumer wins a position: the cell holds the item of that position.   *)
LEMMA WinDequeueKeepsCells ==
  ASSUME CellsInv, TypeOK', NEW t \in Threads, WinDequeue(t)
  PROVE  CellsInv'
<1> USE DEF CellsInv, TypeOK
<1>1. /\ UNCHANGED <<enqueue_pos, sequence, data, pos, item, log>>
      /\ dequeue_pos = pos[t] /\ dequeue_pos' = dequeue_pos + 1
      /\ pc[t] = "casDequeue" /\ pc'[t] = "take"
      /\ \A u \in Threads \ {t} : pc'[u] = pc[u]
  BY DEF WinDequeue, GoTo
<1>2. sequence[Cell(pos[t])] = pos[t] + 1 /\ pos[t] < enqueue_pos
  BY <1>1 DEF PendingInv, FilledInv
<1>3. \A u \in Threads : /\ Reader(u)' <=> Reader(u) \/ u = t
                         /\ Writer(u)' <=> Writer(u)
  BY <1>1 DEF Writer, Reader
<1>4. CountersInv' /\ LocalInv'
  BY <1>1, <1>2 DEF CountersInv, LocalInv, Enqueuing, Dequeuing
<1>5. PendingInv'
  BY <1>1 DEF PendingInv, LocalInv, Dequeuing
<1>6. WriterInv' /\ FilledInv'
  BY <1>1, <1>3 DEF WriterInv, FilledInv, Writer
<1>7. ReaderInv'
  BY <1>1, <1>2, <1>3 DEF ReaderInv
<1>8. DistinctInv'
  BY <1>1, <1>3 DEF DistinctInv, ReaderInv
<1>9. LapInv'
  <2>1. \A p \in Nat : p < enqueue_pos' =>
          p + 1 <= sequence'[Cell(p)] \/ \E u \in Threads : Writer(u)' /\ pos'[u] = p
    BY <1>1, <1>3 DEF LapInv
  <2>2. \A p \in Nat : p < dequeue_pos' =>
          p + Capacity <= sequence'[Cell(p)] \/ \E u \in Threads : Reader(u)' /\ pos'[u] = p
    <3>1. SUFFICES ASSUME NEW p \in Nat, p < dequeue_pos + 1,
                          ~(p + Capacity <= sequence[Cell(p)])
                   PROVE  \E u \in Threads : Reader(u)' /\ pos[u] = p
      BY <1>1
    <3>2. CASE p = pos[t]
      BY <1>3, <3>2
    <3>3. CASE p # pos[t]
      <4>1. p < dequeue_pos
        BY <1>1, <3>1, <3>3
      <4> QED
        BY <1>3, <3>1, <4>1 DEF LapInv
    <3> QED
      BY <3>2, <3>3
  <2> QED
    BY <1>1, <2>1, <2>2 DEF LapInv
<1> QED
  BY <1>4, <1>5, <1>6, <1>7, <1>8, <1>9

(* The cell is handed to the producers of the next lap.                    *)
LEMMA ReleaseKeepsCells ==
  ASSUME CellsInv, TypeOK', NEW t \in Threads, Release(t)
  PROVE  CellsInv'
<1> USE DEF CellsInv, TypeOK
<1> DEFINE cell == Cell(pos[t])
<1>1. /\ UNCHANGED <<enqueue_pos, dequeue_pos, data, pos, item, log>>
      /\ pc[t] = "release" /\ pc'[t] = "idle"
      /\ \A u \in Threads \ {t} : pc'[u] = pc[u]
      /\ cell \in Cells /\ sequence'[cell] = pos[t] + Capacity
      /\ \A c \in Cells : c # cell => sequence'[c] = sequence[c]
  BY CellIsCell DEF Release, GoTo
<1>2. sequence[cell] = pos[t] + 1 /\ pos[t] < dequeue_pos
  BY <1>1 DEF ReaderInv, Reader
<1>3. \A u \in Threads : /\ Reader(u)' <=> Reader(u) /\ u # t
                         /\ Writer(u)' <=> Writer(u)
  BY <1>1 DEF Writer, Reader
<1>4. \A p \in Nat : Cell(p) = cell => p # pos[t] + 1 /\ p + 1 # pos[t] + Capacity
  BY NeighboursApart, LastOfLapApart
<1> HIDE DEF cell
<1>5. CountersInv' /\ LocalInv' /\ DistinctInv'
  BY <1>1, <1>3 DEF CountersInv, LocalInv, DistinctInv, Enqueuing, Dequeuing
<1>6. \A p \in Nat : sequence[Cell(p)] = p => sequence'[Cell(p)] = p
  BY <1>1, <1>2, <1>4, CellIsCell
<1>7. PendingInv'
  <2>1. \A u \in Threads : pc[u] = "casDequeue" /\ pos[u] = dequeue_pos =>
          sequence'[Cell(pos[u])] = pos[u] + 1
    BY <1>1, <1>2, CellIsCell DEF PendingInv
  <2> QED
    BY <1>1, <1>6, <2>1 DEF PendingInv
<1>8. WriterInv'
  BY <1>1, <1>3, <1>6 DEF WriterInv
<1>9. ReaderInv'
  <2> SUFFICES ASSUME NEW u \in Threads, Reader(u), u # t
               PROVE  sequence'[Cell(pos[u])] = pos[u] + 1
    BY <1>1, <1>3 DEF ReaderInv
  <2>1. pos[u] # pos[t] /\ pos[u] \in Nat /\ pos[t] \in Nat
    BY <1>1 DEF DistinctInv, Reader
  <2>2. sequence[Cell(pos[u])] = pos[u] + 1 /\ Cell(pos[u]) \in Cells
    BY <2>1, CellIsCell DEF ReaderInv
  <2>3. Cell(pos[u]) # cell
    BY <1>2, <2>1, <2>2
  <2> QED
    BY <1>1, <2>2, <2>3
<1>10. FilledInv'
  <2> SUFFICES ASSUME NEW p \in Nat, sequence'[Cell(p)] = p + 1
               PROVE  p < enqueue_pos /\ data[Cell(p)] = log[p + 1]
    BY <1>1 DEF FilledInv
  <2>1. Cell(p) # cell
    BY <1>1, <1>4
  <2> QED
    BY <1>1, <2>1, CellIsCell DEF FilledInv
<1>11. LapInv'
  <2>1. \A c \in Cells : sequence[c] <= sequence'[c]
    <3>1. SUFFICES ASSUME NEW c \in Cells
                   PROVE  sequence[c] <= sequence'[c]
      OBVIOUS
    <3>2. sequence[c] \in Nat /\ pos[t] \in Nat
      OBVIOUS
    <3>3. CASE c = cell
      BY <1>1, <1>2, <3>2, <3>3, CapacityAssumption
    <3>4. CASE c # cell
      BY <1>1, <3>2, <3>4
    <3> QED
      BY <3>3, <3>4
  <2>2. \A c \in Cells : c <= sequence'[c]
    <3>1. SUFFICES ASSUME NEW c \in Cells
                   PROVE  c <= sequence'[c]
      OBVIOUS
    <3>2. c \in Int /\ sequence[c] \in Nat /\ sequence'[c] \in Nat
      BY CapacityAssumption DEF Cells
    <3> QED
      BY <2>1, <3>2 DEF LapInv
  <2>3. \A p \in Nat : p < enqueue_pos' =>
          p + 1 <= sequence'[Cell(p)] \/ \E u \in Threads : Writer(u)' /\ pos'[u] = p
    <3>1. SUFFICES ASSUME NEW p \in Nat, p < enqueue_pos, ~(p + 1 <= sequence'[Cell(p)])
                   PROVE  \E u \in Threads : Writer(u)' /\ pos[u] = p
      BY <1>1
    <3>2. ~(p + 1 <= sequence[Cell(p)])
      BY <2>1, <3>1, CellIsCell
    <3>3. PICK u \in Threads : Writer(u) /\ pos[u] = p
      BY <3>1, <3>2 DEF LapInv
    <3> QED
      BY <1>3, <3>3
  <2>4. \A p \in Nat : p < dequeue_pos' =>
          p + Capacity <= sequence'[Cell(p)] \/ \E u \in Threads : Reader(u)' /\ pos'[u] = p
    <3>1. SUFFICES ASSUME NEW p \in Nat, p < dequeue_pos,
                          ~(p + Capacity <= sequence'[Cell(p)])
                   PROVE  \E u \in Threads : Reader(u)' /\ pos[u] = p
      BY <1>1
    <3>2. ~(p + Capacity <= sequence[Cell(p)])
      BY <2>1, <3>1, CellIsCell, CapacityAssumption
    <3>3. PICK u \in Threads : Reader(u) /\ pos[u] = p
      BY <3>1, <3>2 DEF LapInv
    <3>4. u # t
      BY <1>1, <3>1, <3>3, CapacityAssumption DEF cell
    <3> QED
      BY <1>3, <3>3, <3>4
  <2> QED
    BY <2>2, <2>3, <2>4 DEF LapInv
<1> QED
  BY <1>5, <1>7, <1>8, <1>9, <1>10, <1>11

----------------------------------------------------------------------------
(* The theorems.                                                           *)

LEMMA StepKeepsCells == CellsInv /\ [Next]_vars => CellsInv'
<1> SUFFICES ASSUME CellsInv, [Next]_vars
             PROVE  CellsInv'
  OBVIOUS
<1>1. CASE UNCHANGED vars
  BY <1>1 DEF vars, queueVars, CellsInv, TypeOK, CountersInv, LocalInv, PendingInv, WriterInv,
              ReaderInv, DistinctInv, FilledInv, LapInv, Writer, Reader
<1>2. ASSUME NEW t \in Threads, Enqueue(t)
      PROVE  CellsInv'
  <2>1. TypeOK'
    BY <1>2, EnqueueTypeOK DEF CellsInv
  <2> QED
    BY <1>2, <2>1, QuietKeepsCells, WinEnqueueKeepsCells, WriteDataKeepsCells, PublishKeepsCells
       DEF Enqueue, QuietStep
<1>3. ASSUME NEW t \in Threads, Dequeue(t)
      PROVE  CellsInv'
  <2>1. TypeOK'
    BY <1>3, DequeueTypeOK DEF CellsInv
  <2> QED
    BY <1>3, <2>1, QuietKeepsCells, WinDequeueKeepsCells, ReleaseKeepsCells DEF Dequeue, QuietStep
<1> QED
  BY <1>1, <1>2, <1>3 DEF Next

(* The run of all structures runs the queue of cells.                      *)
LEMMA RunsCells == AllSpec => Spec
<1>1. [AllNext]_AllVars => [Next]_vars
  BY DEF AllNext, AllVars
<1> QED
  BY <1>1, PTL DEF AllSpec, AllInit, Spec

(* The inductive invariant holds in every reachable state.                 *)
THEOREM CellsInvariant == AllSpec => []CellsInv
<1>1. Init => CellsInv
  BY InitCells
<1>2. CellsInv /\ [Next]_vars => CellsInv'
  BY StepKeepsCells
<1> QED
  BY <1>1, <1>2, RunsCells, PTL DEF Spec

(* Every variable of the queue keeps its type.                             *)
THEOREM CellsTypeCorrect == AllSpec => []TypeOK
<1>1. CellsInv => TypeOK
  BY DEF CellsInv
<1> QED
  BY <1>1, CellsInvariant, PTL

----------------------------------------------------------------------------
(* Refused calls.                                                          *)

(* tryEnqueue finds its cell behind its position.                          *)
LEMMA FullForAReason ==
  ASSUME CellsInv, NEW t \in Threads, pc[t] = "readFree", sequence[Cell(pos[t])] < pos[t]
  PROVE  /\ pos[t] = enqueue_pos
         /\ \/ dequeue_pos + Capacity <= pos[t]
            \/ \E u \in Threads : Reader(u) /\ pos[u] + Capacity = pos[t]
<1> DEFINE p == pos[t]
<1>1. /\ p \in Nat /\ p <= enqueue_pos /\ Cell(p) \in Cells /\ sequence[Cell(p)] \in Nat
      /\ enqueue_pos \in Nat /\ dequeue_pos \in Nat
  BY CellIsCell DEF CellsInv, TypeOK, LocalInv, Enqueuing
<1>2. p = enqueue_pos
  <2>1. SUFFICES ASSUME p < enqueue_pos
                 PROVE  FALSE
    BY <1>1
  <2>2. ~(p + 1 <= sequence[Cell(p)])
    BY <1>1
  <2>3. PICK u \in Threads : Writer(u) /\ pos[u] = p
    BY <1>1, <2>1, <2>2 DEF CellsInv, LapInv
  <2>4. sequence[Cell(p)] = p
    BY <2>3 DEF CellsInv, WriterInv
  <2> QED
    BY <1>1, <2>4
<1>3. p >= Capacity
  <2>1. SUFFICES ASSUME p < Capacity
                 PROVE  FALSE
    BY <1>1, CapacityAssumption
  <2>2. Cell(p) = p
    BY <1>1, <2>1, FirstLap
  <2> QED
    BY <1>1, <2>2 DEF CellsInv, LapInv
<1> DEFINE q == p - Capacity
<1>4. q \in Nat /\ q + Capacity = p
  BY <1>1, <1>3, CapacityAssumption
<1>5. Cell(q) = Cell(p)
  BY <1>4, SameCellNextLap
<1>6. CASE q < dequeue_pos
  <2>1. ~(q + Capacity <= sequence[Cell(q)])
    BY <1>1, <1>4, <1>5
  <2>2. PICK u \in Threads : Reader(u) /\ pos[u] = q
    BY <1>4, <1>6, <2>1 DEF CellsInv, LapInv
  <2> QED
    BY <1>2, <1>4, <2>2
<1>7. CASE ~(q < dequeue_pos)
  BY <1>1, <1>2, <1>4, <1>7, CapacityAssumption
<1> QED
  BY <1>6, <1>7

(* tryDequeue finds its cell behind the next position.                     *)
LEMMA EmptyForAReason ==
  ASSUME CellsInv, NEW t \in Threads, pc[t] = "readFilled",
         sequence[Cell(pos[t])] < pos[t] + 1
  PROVE  /\ pos[t] = dequeue_pos
         /\ \/ dequeue_pos = enqueue_pos
            \/ \E u \in Threads : Writer(u) /\ pos[u] = pos[t]
<1> DEFINE p == pos[t]
<1>1. /\ p \in Nat /\ p <= dequeue_pos /\ Cell(p) \in Cells /\ sequence[Cell(p)] \in Nat
      /\ enqueue_pos \in Nat /\ dequeue_pos \in Nat /\ dequeue_pos <= enqueue_pos
  BY CellIsCell DEF CellsInv, TypeOK, LocalInv, Dequeuing, CountersInv
<1>2. p = dequeue_pos
  <2>1. SUFFICES ASSUME p < dequeue_pos
                 PROVE  FALSE
    BY <1>1
  <2>2. ~(p + Capacity <= sequence[Cell(p)])
    BY <1>1, CapacityAssumption
  <2>3. PICK u \in Threads : Reader(u) /\ pos[u] = p
    BY <1>1, <2>1, <2>2 DEF CellsInv, LapInv
  <2>4. sequence[Cell(p)] = p + 1
    BY <2>3 DEF CellsInv, ReaderInv
  <2> QED
    BY <1>1, <2>4
<1>3. CASE p < enqueue_pos
  <2>1. ~(p + 1 <= sequence[Cell(p)])
    BY <1>1
  <2>2. PICK u \in Threads : Writer(u) /\ pos[u] = p
    BY <1>1, <1>3, <2>1 DEF CellsInv, LapInv
  <2> QED
    BY <1>2, <2>2
<1>4. CASE ~(p < enqueue_pos)
  BY <1>1, <1>2, <1>4
<1> QED
  BY <1>3, <1>4

(* Only a cell that is behind makes a call return after its first read.    *)
LEMMA RefusingStep ==
  ASSUME TypeOK, [Next]_vars, NEW t \in Threads, pc'[t] = "idle"
  PROVE  /\ pc[t] = "readFree" => sequence[Cell(pos[t])] < pos[t]
         /\ pc[t] = "readFilled" => sequence[Cell(pos[t])] < pos[t] + 1
<1> USE DEF TypeOK, GoTo
<1>1. CASE UNCHANGED vars
  BY <1>1 DEF vars
<1>2. ASSUME NEW u \in Threads, Enqueue(u)
      PROVE  /\ pc[t] = "readFree" => sequence[Cell(pos[t])] < pos[t]
             /\ pc[t] = "readFilled" => sequence[Cell(pos[t])] < pos[t] + 1
  BY <1>2 DEF Enqueue, CallEnqueue, ReadFree, ReadSequence, ReloadEnqueue, Reload,
              WinEnqueue, LoseEnqueue, LoseCas, WriteData, Publish
<1>3. ASSUME NEW u \in Threads, Dequeue(u)
      PROVE  /\ pc[t] = "readFree" => sequence[Cell(pos[t])] < pos[t]
             /\ pc[t] = "readFilled" => sequence[Cell(pos[t])] < pos[t] + 1
  BY <1>3 DEF Dequeue, CallDequeue, ReadFilled, ReadSequence, ReloadDequeue, Reload,
              WinDequeue, LoseDequeue, LoseCas, TakeData, Release
<1> QED
  BY <1>1, <1>2, <1>3 DEF Next

(* A call is refused only for a reason: tryEnqueue while the item one lap  *)
(* behind is still in its cell, tryDequeue while the oldest item has not   *)
(* arrived in its cell.                                                    *)
THEOREM RefusedForAReason == AllSpec => RefusalsJustified
<1> DEFINE Justified(t) ==
      /\ (pc[t] = "readFree" /\ pc'[t] = "idle") =>
           /\ pos[t] = enqueue_pos
           /\ \/ dequeue_pos + Capacity <= pos[t]
              \/ \E u \in Threads : pc[u] \in {"take", "release"} /\ pos[u] + Capacity = pos[t]
      /\ (pc[t] = "readFilled" /\ pc'[t] = "idle") =>
           /\ pos[t] = dequeue_pos
           /\ \/ dequeue_pos = enqueue_pos
              \/ \E u \in Threads : pc[u] \in {"write", "publish"} /\ pos[u] = pos[t]
<1>1. CellsInv /\ [Next]_vars => [\A t \in Threads : Justified(t)]_vars
  <2> SUFFICES ASSUME CellsInv, [Next]_vars, NEW t \in Threads
               PROVE  Justified(t)
    OBVIOUS
  <2>1. ASSUME pc[t] = "readFree", pc'[t] = "idle"
        PROVE  Justified(t)
    BY <2>1, RefusingStep, FullForAReason DEF CellsInv, Reader
  <2>2. ASSUME pc[t] = "readFilled", pc'[t] = "idle"
        PROVE  Justified(t)
    BY <2>2, RefusingStep, EmptyForAReason DEF CellsInv, Writer
  <2> QED
    BY <2>1, <2>2
<1> QED
  BY <1>1, CellsInvariant, RunsCells, PTL DEF Spec, RefusalsJustified

----------------------------------------------------------------------------
(* The refinement: what consumers hold, and what each step does to it.     *)

LEMMA HandIsItem ==
  ASSUME CellsInv, NEW t \in Threads, Reader(t)
  PROVE  Hand[t] = log[pos[t] + 1] /\ Hand[t] \in Items
<1>1. pos[t] < enqueue_pos /\ pos[t] \in Nat
  BY DEF CellsInv, TypeOK, ReaderInv, CountersInv
<1>2. log[pos[t] + 1] \in Items
  BY <1>1 DEF CellsInv, TypeOK, CountersInv
<1> QED
  BY <1>2 DEF Hand, Reader

(* Nobody's hand changes when nobody becomes or stops being a reader.      *)
LEMMA HandsStay ==
  ASSUME CellsInv,
         \A u \in Threads : /\ Reader(u)' <=> Reader(u)
                            /\ Reader(u) => pos'[u] = pos[u] /\ log'[pos[u] + 1] = log[pos[u] + 1]
  PROVE  Hand' = Hand
BY DEF Hand, Reader

LEMMA QuietStutters ==
  ASSUME CellsInv, NEW t \in Threads, QuietStep(t)
  PROVE  UNCHANGED <<log, dequeue_pos, Hand, result>>
<1>1. \A u \in Threads : /\ Reader(u)' <=> Reader(u)
                         /\ Reader(u) => pos'[u] = pos[u]
  BY QuietFacts DEF CellsInv, Reader
<1> QED
  BY <1>1, QuietFacts, HandsStay DEF CellsInv

LEMMA WinEnqueueEnqueues ==
  ASSUME CellsInv, NEW t \in Threads, WinEnqueue(t)
  PROVE  Fifo!Enqueue
<1>1. item[t] \in Items /\ log' = Append(log, item[t])
  BY DEF WinEnqueue, CellsInv, LocalInv, Enqueuing
<1>2. \A u \in Threads :
        /\ Reader(u)' <=> Reader(u)
        /\ Reader(u) => pos'[u] = pos[u] /\ log'[pos[u] + 1] = log[pos[u] + 1]
  <2> SUFFICES ASSUME NEW u \in Threads
               PROVE  /\ Reader(u)' <=> Reader(u)
                      /\ Reader(u) => pos'[u] = pos[u] /\ log'[pos[u] + 1] = log[pos[u] + 1]
    OBVIOUS
  <2>1. Reader(u)' <=> Reader(u)
    BY DEF WinEnqueue, GoTo, Reader, CellsInv, TypeOK
  <2>2. Reader(u) => pos[u] \in Nat /\ pos[u] < Len(log)
    BY DEF CellsInv, TypeOK, ReaderInv, CountersInv
  <2>3. Reader(u) => log'[pos[u] + 1] = log[pos[u] + 1]
    BY <1>1, <2>2 DEF CellsInv, TypeOK
  <2> QED
    BY <2>1, <2>3 DEF WinEnqueue
<1>3. Hand' = Hand
  BY <1>2, HandsStay
<1> QED
  BY <1>1, <1>3 DEF WinEnqueue, Fifo!Enqueue

LEMMA WinDequeueTakes ==
  ASSUME CellsInv, NEW t \in Threads, WinDequeue(t)
  PROVE  Fifo!Take(t)
<1>1. /\ pc[t] = "casDequeue" /\ pc' = [pc EXCEPT ![t] = "take"]
      /\ dequeue_pos = pos[t] /\ dequeue_pos' = dequeue_pos + 1
      /\ UNCHANGED <<pos, log, result>>
  BY DEF WinDequeue, GoTo
<1>2. dequeue_pos < Len(log)
  BY <1>1 DEF CellsInv, TypeOK, PendingInv, FilledInv, CountersInv
<1>3. Hand[t] = None
  BY <1>1 DEF Hand
<1>4. Hand' = [Hand EXCEPT ![t] = log[dequeue_pos + 1]]
  BY <1>1 DEF Hand, CellsInv, TypeOK
<1> QED
  BY <1>1, <1>2, <1>3, <1>4 DEF Fifo!Take

LEMMA ReleaseReturns ==
  ASSUME CellsInv, NEW t \in Threads, Release(t)
  PROVE  Fifo!Return(t)
<1>1. /\ pc[t] = "release" /\ pc' = [pc EXCEPT ![t] = "idle"]
      /\ result' = [result EXCEPT ![t] = item[t]]
      /\ UNCHANGED <<dequeue_pos, pos, log>>
  BY DEF Release, GoTo
<1>2. item[t] = log[pos[t] + 1] /\ Hand[t] = item[t] /\ Hand[t] \in Items
  BY <1>1, HandIsItem DEF CellsInv, ReaderInv, Reader
<1>3. Hand' = [Hand EXCEPT ![t] = None]
  BY <1>1 DEF Hand, CellsInv, TypeOK
<1> QED
  BY <1>1, <1>2, <1>3, NoneAssumption DEF Fifo!Return

LEMMA StoresStutter ==
  ASSUME CellsInv, NEW t \in Threads, WriteData(t) \/ Publish(t)
  PROVE  UNCHANGED <<log, dequeue_pos, Hand, result>>
<1>1. \A u \in Threads : /\ Reader(u)' <=> Reader(u)
                         /\ pos'[u] = pos[u]
  BY DEF WriteData, Publish, GoTo, Reader, CellsInv, TypeOK
<1>2. UNCHANGED <<log, dequeue_pos, result>>
  BY DEF WriteData, Publish
<1> QED
  BY <1>1, <1>2, HandsStay

(* The queue of cells is a first-in first-out queue: an item enters with   *)
(* the compare-and-swap on enqueue_pos_ and leaves, to one consumer, with  *)
(* the compare-and-swap on dequeue_pos_.                                   *)
THEOREM CellsAreAQueue == AllSpec => ImplementsQueue
<1>1. Init => Fifo!Init
  BY DEF Init, Fifo!Init, Hand
<1>2. CellsInv /\ [Next]_vars => [Fifo!Next]_(Fifo!vars)
  <2> SUFFICES ASSUME CellsInv, [Next]_vars
               PROVE  [Fifo!Next]_(Fifo!vars)
    OBVIOUS
  <2>1. CASE UNCHANGED vars
    BY <2>1 DEF vars, queueVars, Fifo!vars, Hand
  <2>2. ASSUME NEW t \in Threads, Enqueue(t)
        PROVE  [Fifo!Next]_(Fifo!vars)
    BY <2>2, QuietStutters, WinEnqueueEnqueues, StoresStutter
       DEF Enqueue, QuietStep, Fifo!Next, Fifo!vars
  <2>3. ASSUME NEW t \in Threads, Dequeue(t)
        PROVE  [Fifo!Next]_(Fifo!vars)
    BY <2>3, QuietStutters, WinDequeueTakes, ReleaseReturns
       DEF Dequeue, QuietStep, Fifo!Next, Fifo!vars
  <2> QED
    BY <2>1, <2>2, <2>3 DEF Next
<1> QED
  BY <1>1, <1>2, CellsInvariant, RunsCells, PTL DEF Spec, ImplementsQueue, Fifo!Spec

(***************************************************************************)
(* The coordinator.                                                        *)
(***************************************************************************)

(* What the proofs assume of its constants.                                *)
CoordinatorSizes == NumThreads \in Nat /\ NumColumns \in Nat

(* Each module has the cardinality of the standard module.                 *)
LEMMA SameCardinality ==
  ASSUME NEW S
  PROVE  /\ Coordinator!Cardinality(S) = Cardinality(S)
         /\ Cache!Cardinality(S) = Cardinality(S)
BY DEF Coordinator!Cardinality, Cardinality, Cache!Cardinality

Counting == {t \in Coordinator!ThreadIds : call[t].op = "count"}
Flagged  == {c \in Coordinator!ColumnIds : reduced_flags[c]}

Calls ==
  {Coordinator!Idle, [op |-> "count"], [op |-> "nobody"]}
    \cup [op : {"scan"}, pivot : Pivots, slot : Coordinator!ThreadIds]

CoordinatorTypeOK ==
  /\ num_reduced \in Int
  /\ reduced_flags \in [Coordinator!ColumnIds -> BOOLEAN]
  /\ announcements \in [Coordinator!ThreadIds -> Pivots \cup {None}]
  /\ call \in [Coordinator!ThreadIds -> Calls]
  /\ standing \in [Coordinator!ThreadIds -> SUBSET Coordinator!ThreadIds]

(* Who has announced the pivot since the scan began is still ahead of it.  *)
ScanInv ==
  \A t \in Coordinator!ThreadIds : call[t].op = "scan" =>
    \A u \in standing[t] : announcements[u] = call[t].pivot /\ call[t].slot <= u

CoordinatorInv == CoordinatorTypeOK /\ Coordinator!ReducedCountExact /\ ScanInv
  /\ Coordinator!NobodyIsTrue

----------------------------------------------------------------------------
CoordinatorStep(t) ==
  \/ Coordinator!ClaimColumn(t)
  \/ \E c \in Coordinator!ColumnIds : Coordinator!TestAndSet(t, c)
  \/ Coordinator!CountReduced(t)
  \/ \E p \in Pivots \cup {None} : Coordinator!Announce(t, p)
  \/ \E p \in Pivots : Coordinator!StartScan(t, p)
  \/ Coordinator!ScanSlot(t)
  \/ Coordinator!ReturnNobody(t)

(* What the kind of a call says of it.                                     *)
LEMMA CallKinds ==
  ASSUME CoordinatorTypeOK, NEW t \in Coordinator!ThreadIds
  PROVE  /\ call[t].op = "count" => call[t] = [op |-> "count"]
         /\ call[t].op = "nobody" => call[t] = [op |-> "nobody"]
         /\ call[t].op = "scan" => call[t].pivot \in Pivots
           /\ call[t].slot \in Coordinator!ThreadIds
         /\ call[t] = Coordinator!Idle => call[t].op = "idle"
BY DEF CoordinatorTypeOK, Calls, Coordinator!Idle

LEMMA FiniteCounts ==
  ASSUME CoordinatorSizes
  PROVE  /\ IsFiniteSet(Counting) /\ IsFiniteSet(Flagged)
         /\ Cardinality(Counting) \in Nat /\ Cardinality(Flagged) \in Nat
<1>1. IsFiniteSet(Coordinator!ThreadIds) /\ IsFiniteSet(Coordinator!ColumnIds)
  BY FS_Interval DEF Coordinator!ThreadIds, Coordinator!ColumnIds, CoordinatorSizes
<1>2. Counting \in SUBSET Coordinator!ThreadIds /\ Flagged \in SUBSET Coordinator!ColumnIds
  BY DEF Counting, Flagged
<1>3. IsFiniteSet(Counting) /\ IsFiniteSet(Flagged)
  BY <1>1, <1>2, FS_Subset
<1> QED
  BY <1>3, FS_CardinalityType

----------------------------------------------------------------------------
(* A step of one thread preserves each part.                               *)

LEMMA CoordinatorKeepsTypes ==
  ASSUME CoordinatorSizes, CoordinatorTypeOK, NEW t \in Coordinator!ThreadIds,
         CoordinatorStep(t)
  PROVE  CoordinatorTypeOK'
<1> USE DEF CoordinatorTypeOK, Coordinator!Return
<1>0. /\ Coordinator!Idle \in Calls /\ [op |-> "count"] \in Calls
  /\ [op |-> "nobody"] \in Calls
      /\ \A p \in Pivots, k \in Coordinator!ThreadIds : [op |-> "scan", pivot |-> p,
        slot |-> k] \in Calls
  BY DEF Calls
<1>1. CASE Coordinator!ClaimColumn(t)
  BY <1>1 DEF Coordinator!ClaimColumn
<1>2. ASSUME NEW c \in Coordinator!ColumnIds, Coordinator!TestAndSet(t, c)
      PROVE  CoordinatorTypeOK'
  BY <1>0, <1>2 DEF Coordinator!TestAndSet
<1>3. CASE Coordinator!CountReduced(t)
  BY <1>0, <1>3 DEF Coordinator!CountReduced
<1>4. ASSUME NEW p \in Pivots \cup {None}, Coordinator!Announce(t, p)
      PROVE  CoordinatorTypeOK'
  BY <1>4 DEF Coordinator!Announce
<1>5. ASSUME NEW p \in Pivots, Coordinator!StartScan(t, p)
      PROVE  CoordinatorTypeOK'
  <2>1. 0 \in Coordinator!ThreadIds
    BY DEF Coordinator!ThreadIds, CoordinatorSizes
  <2> QED
    BY <1>0, <1>5, <2>1 DEF Coordinator!StartScan
<1>6. CASE Coordinator!ScanSlot(t)
  <2>1. ASSUME call[t].slot + 1 < NumThreads
        PROVE  [call[t] EXCEPT !.slot = @ + 1] \in Calls
    <3>1. call[t] \in [op : {"scan"}, pivot : Pivots, slot : Coordinator!ThreadIds]
      BY <1>6 DEF Coordinator!ScanSlot, Calls, Coordinator!Idle
    <3>2. call[t].slot + 1 \in Coordinator!ThreadIds
      BY <2>1, <3>1 DEF Coordinator!ThreadIds, CoordinatorSizes
    <3> QED
      BY <3>1, <3>2 DEF Calls
  <2> QED
    BY <1>0, <1>6, <2>1 DEF Coordinator!ScanSlot
<1>7. CASE Coordinator!ReturnNobody(t)
  BY <1>0, <1>7 DEF Coordinator!ReturnNobody
<1> QED
  BY <1>1, <1>2, <1>3, <1>4, <1>5, <1>6, <1>7 DEF CoordinatorStep

LEMMA CoordinatorKeepsCount ==
  ASSUME CoordinatorSizes, CoordinatorTypeOK, Coordinator!ReducedCountExact,
         NEW t \in Coordinator!ThreadIds, CoordinatorStep(t)
  PROVE  Coordinator!ReducedCountExact'
<1>0. /\ num_reduced + Cardinality(Counting) = Cardinality(Flagged)
      /\ IsFiniteSet(Counting) /\ IsFiniteSet(Flagged)
      /\ Cardinality(Counting) \in Int /\ Cardinality(Flagged) \in Int
        /\ num_reduced \in Int
  BY FiniteCounts, SameCardinality DEF Coordinator!ReducedCountExact, Counting, Flagged,
       CoordinatorTypeOK
<1> SUFFICES num_reduced' + Cardinality(Counting') = Cardinality(Flagged')
  BY SameCardinality DEF Coordinator!ReducedCountExact, Counting, Flagged
<1>1. CASE /\ UNCHANGED <<num_reduced, reduced_flags>>
           /\ \A u \in Coordinator!ThreadIds : call'[u].op = "count" <=> call[u].op = "count"
  <2>1. Counting' = Counting /\ Flagged' = Flagged
    BY <1>1 DEF Counting, Flagged
  <2> QED
    BY <1>0, <1>1, <2>1
<1>2. ASSUME NEW c \in Coordinator!ColumnIds, Coordinator!TestAndSet(t, c)
      PROVE  num_reduced' + Cardinality(Counting') = Cardinality(Flagged')
  <2>1. CASE reduced_flags[c]
    <3>1. reduced_flags' = reduced_flags /\ call' = call /\ num_reduced' = num_reduced
      BY <1>2, <2>1 DEF Coordinator!TestAndSet, CoordinatorTypeOK
    <3> QED
      BY <1>1, <3>1
  <2>2. CASE ~reduced_flags[c]
    <3>1. Flagged' = Flagged \cup {c} /\ c \notin Flagged
      BY <1>2, <2>2 DEF Coordinator!TestAndSet, CoordinatorTypeOK, Flagged
    <3>2. Counting' = Counting \cup {t} /\ t \notin Counting
      BY <1>2, <2>2, CallKinds DEF Coordinator!TestAndSet, CoordinatorTypeOK, Counting,
           Coordinator!Idle
    <3>3. num_reduced' = num_reduced
      BY <1>2 DEF Coordinator!TestAndSet
    <3>4. /\ Cardinality(Flagged') = Cardinality(Flagged) + 1
          /\ Cardinality(Counting') = Cardinality(Counting) + 1
      <4> HIDE DEF Counting, Flagged
      <4> QED
        BY <1>0, <3>1, <3>2, FS_AddElement
    <3> QED
      BY <1>0, <3>3, <3>4
  <2> QED
    BY <2>1, <2>2
<1>3. CASE Coordinator!CountReduced(t)
  <2>1. Counting' = Counting \ {t} /\ t \in Counting
    BY <1>3 DEF Coordinator!CountReduced, Coordinator!Return, CoordinatorTypeOK, Counting,
         Coordinator!Idle
  <2>2. Flagged' = Flagged /\ num_reduced' = num_reduced + 1
    BY <1>3 DEF Coordinator!CountReduced, Flagged
  <2>3. Cardinality(Counting') = Cardinality(Counting) - 1
    BY <1>0, <2>1, FS_RemoveElement
  <2>4. Cardinality(Flagged') = Cardinality(Flagged)
    BY <2>2
  <2> QED
    BY <1>0, <2>2, <2>3, <2>4
<1>4. CASE Coordinator!ClaimColumn(t)
  BY <1>1, <1>4 DEF Coordinator!ClaimColumn
<1>5. ASSUME NEW p \in Pivots \cup {None}, Coordinator!Announce(t, p)
      PROVE  num_reduced' + Cardinality(Counting') = Cardinality(Flagged')
  BY <1>1, <1>5 DEF Coordinator!Announce
<1>6. ASSUME NEW p \in Pivots, Coordinator!StartScan(t, p)
      PROVE  num_reduced' + Cardinality(Counting') = Cardinality(Flagged')
  BY <1>1, <1>6, CallKinds DEF Coordinator!StartScan, CoordinatorTypeOK
<1>7. CASE Coordinator!ScanSlot(t)
  <2>1. call'[t].op # "count" /\ call[t].op # "count"
    <3>1. call[t] \in [op : {"scan"}, pivot : Pivots, slot : Coordinator!ThreadIds]
      BY <1>7 DEF Coordinator!ScanSlot, CoordinatorTypeOK, Calls, Coordinator!Idle
    <3> QED
      BY <1>7, <3>1 DEF Coordinator!ScanSlot, Coordinator!Return, CoordinatorTypeOK,
           Coordinator!Idle
  <2>2. \A u \in Coordinator!ThreadIds : u # t => call'[u] = call[u]
    BY <1>7 DEF Coordinator!ScanSlot, Coordinator!Return, CoordinatorTypeOK
  <2>3. UNCHANGED <<num_reduced, reduced_flags>>
    BY <1>7 DEF Coordinator!ScanSlot
  <2>4. \A u \in Coordinator!ThreadIds : call'[u].op = "count" <=> call[u].op = "count"
    BY <2>1, <2>2
  <2> QED
    BY <1>1, <2>3, <2>4
<1>8. CASE Coordinator!ReturnNobody(t)
  BY <1>1, <1>8 DEF Coordinator!ReturnNobody, Coordinator!Return, CoordinatorTypeOK,
       Coordinator!Idle
<1> QED
  BY <1>2, <1>3, <1>4, <1>5, <1>6, <1>7, <1>8 DEF CoordinatorStep

LEMMA CoordinatorKeepsScans ==
  ASSUME CoordinatorSizes, CoordinatorTypeOK, ScanInv, Coordinator!NobodyIsTrue,
         NEW t \in Coordinator!ThreadIds, CoordinatorStep(t)
  PROVE  ScanInv' /\ Coordinator!NobodyIsTrue'
<1> SUFFICES ASSUME NEW s \in Coordinator!ThreadIds
             PROVE  /\ call'[s].op = "scan" =>
                         \A u \in standing'[s] :
                           announcements'[u] = call'[s].pivot /\ call'[s].slot <= u
                    /\ call'[s].op = "nobody" => standing'[s] = {}
  BY DEF ScanInv, Coordinator!NobodyIsTrue
<1>1. CASE call'[s] = call[s] /\ standing'[s] = standing[s]
  /\ announcements' = announcements
  BY <1>1 DEF ScanInv, Coordinator!NobodyIsTrue
<1>2. CASE call'[s].op \in {"idle", "count"}
  BY <1>2
<1>3. CASE Coordinator!ClaimColumn(t)
  BY <1>1, <1>3 DEF Coordinator!ClaimColumn
<1>4. ASSUME NEW c \in Coordinator!ColumnIds, Coordinator!TestAndSet(t, c)
      PROVE  \/ call'[s].op = "count"
             \/ call'[s] = call[s] /\ standing' = standing /\ announcements' = announcements
  BY <1>4 DEF Coordinator!TestAndSet, CoordinatorTypeOK
<1>5. CASE Coordinator!CountReduced(t) \/ Coordinator!ReturnNobody(t)
  BY <1>1, <1>2, <1>5 DEF Coordinator!CountReduced, Coordinator!ReturnNobody,
       Coordinator!Return, CoordinatorTypeOK, Coordinator!Idle
<1>6. ASSUME NEW p \in Pivots \cup {None}, Coordinator!Announce(t, p)
      PROVE  /\ call'[s].op = "scan" =>
                  \A u \in standing'[s] :
                    announcements'[u] = call'[s].pivot /\ call'[s].slot <= u
             /\ call'[s].op = "nobody" => standing'[s] = {}
  <2>1. call' = call /\ standing'[s] \subseteq standing[s]
    BY <1>6 DEF Coordinator!Announce, CoordinatorTypeOK
  <2>2. ASSUME call[s].op = "scan", NEW u \in standing'[s]
        PROVE  announcements'[u] = call[s].pivot
    <3>1. CASE u = t
      BY <1>6, <2>1, <2>2, <3>1 DEF Coordinator!Announce, CoordinatorTypeOK
    <3>2. CASE u # t
      BY <1>6, <2>1, <2>2, <3>2 DEF Coordinator!Announce, CoordinatorTypeOK, ScanInv
    <3> QED
      BY <3>1, <3>2
  <2> QED
    BY <2>1, <2>2 DEF ScanInv, Coordinator!NobodyIsTrue
<1>7. ASSUME NEW p \in Pivots, Coordinator!StartScan(t, p)
      PROVE  /\ call'[s].op = "scan" =>
                  \A u \in standing'[s] :
                    announcements'[u] = call'[s].pivot /\ call'[s].slot <= u
             /\ call'[s].op = "nobody" => standing'[s] = {}
  <2>1. CASE s = t
    <3>1. /\ call'[s] = [op |-> "scan", pivot |-> p, slot |-> 0]
          /\ standing'[s] = {u \in Coordinator!ThreadIds : announcements[u] = p}
          /\ announcements' = announcements
      BY <1>7, <2>1 DEF Coordinator!StartScan, CoordinatorTypeOK
    <3> QED
      BY <3>1 DEF Coordinator!ThreadIds
  <2>2. CASE s # t
    BY <1>1, <1>7, <2>2 DEF Coordinator!StartScan, CoordinatorTypeOK
  <2> QED
    BY <2>1, <2>2
<1>8. CASE Coordinator!ScanSlot(t)
  <2>1. CASE s # t
    BY <1>1, <1>8, <2>1 DEF Coordinator!ScanSlot, Coordinator!Return, CoordinatorTypeOK
  <2>2. CASE s = t /\ announcements[call[t].slot] = call[t].pivot
    BY <1>2, <1>8, <2>2 DEF Coordinator!ScanSlot, Coordinator!Return, CoordinatorTypeOK,
         Coordinator!Idle
  <2>3. CASE s = t /\ announcements[call[t].slot] # call[t].pivot
    <3>1. call[t].op = "scan" /\ call[t].slot \in Coordinator!ThreadIds
      BY <1>8, CallKinds DEF Coordinator!ScanSlot
    <3>2. \A u \in standing[t] : u \in Coordinator!ThreadIds /\ call[t].slot + 1 <= u
      BY <2>3, <3>1 DEF ScanInv, CoordinatorTypeOK, Coordinator!ThreadIds
    <3>3. UNCHANGED <<standing, announcements>>
      BY <1>8 DEF Coordinator!ScanSlot
    <3>4. CASE call[t].slot + 1 < NumThreads
      <4>1. /\ call'[t].op = "scan" /\ call'[t].pivot = call[t].pivot
            /\ call'[t].slot = call[t].slot + 1
        <5>1. call[t] \in [op : {"scan"}, pivot : Pivots, slot : Coordinator!ThreadIds]
          BY <3>1 DEF CoordinatorTypeOK, Calls, Coordinator!Idle
        <5> QED
          BY <1>8, <2>3, <3>4, <5>1 DEF Coordinator!ScanSlot, CoordinatorTypeOK
      <4> QED
        BY <2>3, <3>1, <3>2, <3>3, <4>1 DEF ScanInv
    <3>5. CASE ~(call[t].slot + 1 < NumThreads)
      <4>1. call'[t] = [op |-> "nobody"]
        BY <1>8, <2>3, <3>5 DEF Coordinator!ScanSlot, CoordinatorTypeOK
      <4>2. standing[t] = {}
        BY <3>1, <3>2, <3>5 DEF Coordinator!ThreadIds, CoordinatorSizes
      <4> QED
        BY <2>3, <3>3, <4>1, <4>2
    <3> QED
      BY <3>4, <3>5
  <2> QED
    BY <2>1, <2>2, <2>3
<1> QED
  BY <1>1, <1>2, <1>3, <1>4, <1>5, <1>6, <1>7, <1>8 DEF CoordinatorStep

----------------------------------------------------------------------------
(* The steps of the others leave the coordinator alone.                    *)

LEMMA CoordinatorInit == AllInit => CoordinatorInv
<1> SUFFICES ASSUME AllInit
             PROVE  CoordinatorInv
  OBVIOUS
<1>0. Coordinator!Init
  BY DEF AllInit
<1>1. CoordinatorTypeOK /\ ScanInv /\ Coordinator!NobodyIsTrue
  BY <1>0 DEF Coordinator!Init, CoordinatorTypeOK, Calls, ScanInv, Coordinator!NobodyIsTrue,
       Coordinator!Idle
<1>2. Counting = {} /\ Flagged = {}
  BY <1>0 DEF Coordinator!Init, Counting, Flagged, Coordinator!Idle
<1>3. Coordinator!ReducedCountExact
  <2>1. num_reduced + Cardinality(Counting) = Cardinality(Flagged)
    BY <1>0, <1>2, FS_EmptySet DEF Coordinator!Init
  <2> QED
    BY <2>1, SameCardinality DEF Coordinator!ReducedCountExact, Counting, Flagged
<1> QED
  BY <1>1, <1>3 DEF CoordinatorInv

LEMMA CoordinatorNext ==
  ASSUME CoordinatorSizes, CoordinatorInv, [AllNext]_AllVars
  PROVE  CoordinatorInv'
<1>1. CASE Coordinator!Next
  <2>1. PICK t \in Coordinator!ThreadIds : CoordinatorStep(t)
    BY <1>1 DEF Coordinator!Next, CoordinatorStep
  <2> QED
    BY <2>1, CoordinatorKeepsTypes, CoordinatorKeepsCount, CoordinatorKeepsScans
    DEF CoordinatorInv
<1>2. CASE UNCHANGED coordinatorVars
  BY <1>2 DEF coordinatorVars, CoordinatorInv, CoordinatorTypeOK, Coordinator!ReducedCountExact,
       ScanInv, Coordinator!NobodyIsTrue
<1> QED
  BY <1>1, <1>2 DEF AllNext, AllVars

(* The invariant holds in every reachable state.                           *)
THEOREM CoordinatorInvariant == ASSUME CoordinatorSizes PROVE AllSpec => []CoordinatorInv
BY CoordinatorInit, CoordinatorNext, PTL DEF AllSpec

(* num_reduced_ counts the flags, but for the calls that are to count yet. *)
THEOREM CountIsExact == ASSUME CoordinatorSizes PROVE AllSpec => []ReducedCountExact
BY CoordinatorInvariant, PTL DEF CoordinatorInv, ReducedCountExact

(* A denial of isBeingWorkedOn is true of some moment of the scan.         *)
THEOREM DenialIsTrue == ASSUME CoordinatorSizes PROVE AllSpec => []NobodyIsTrue
BY CoordinatorInvariant, PTL DEF CoordinatorInv, NobodyIsTrue

(***************************************************************************)
(* The feature cache.                                                      *)
(***************************************************************************)

(* What the proofs assume of its constants: the code divides by it.        *)
CacheSizes == MaxEntries \in Nat \ {0}

Showing(s) == 1 .. size[s]     \* the positions of the visible entries

Sweeps == [kind : {"none", "expired", "lru"}, target : Nat, left : SUBSET Symbols]

CacheTypeOK ==
  /\ puts \in Nat
  /\ size \in [Symbols -> 0 .. MaxEntries]
  /\ head \in [Symbols -> 0 .. MaxEntries - 1]
  /\ entries \in [Symbols -> Seq(Nat)]
  /\ \A s \in Symbols : Len(entries[s]) = MaxEntries
  /\ stored \in [Symbols -> Seq(Nat)]
  /\ gone \in [Symbols -> SUBSET Nat]
  /\ sweep \in Sweeps

(* No entry shows twice.                                                   *)
OnceInv ==
  \A s \in Symbols : \A i, j \in Showing(s) : entries[s][i] = entries[s][j] => i = j

(* What shows was stored since the symbol was cleared, and is not gone.    *)
ShownInv ==
  \A s \in Symbols : \A i \in Showing(s) :
    /\ \E k \in 1 .. Len(stored[s]) : stored[s][k] = entries[s][i]
    /\ entries[s][i] \notin gone[s]

(* Puts are numbered upwards.                                              *)
NumberInv ==
  \A s \in Symbols :
    /\ \A k \in 1 .. Len(stored[s]) : stored[s][k] <= puts
    /\ \A e \in gone[s] : e <= puts

(* The latest put shows or is gone.                                        *)
LatestInv ==
  \A s \in Symbols : Len(stored[s]) # 0 =>
    \/ stored[s][Len(stored[s])] \in gone[s]
    \/ \E i \in Showing(s) : entries[s][i] = stored[s][Len(stored[s])]

CacheInv == CacheTypeOK /\ OnceInv /\ ShownInv /\ NumberInv /\ LatestInv

LEMMA CacheInit == ASSUME CacheSizes PROVE AllInit => CacheInv
<1> SUFFICES ASSUME AllInit
             PROVE  CacheInv
  OBVIOUS
<1>0. Cache!Init
  BY DEF AllInit
<1>1. CacheTypeOK
  <2> DEFINE ring == [i \in 1 .. MaxEntries |-> 0]
  <2>1. ring \in Seq(Nat) /\ Len(ring) = MaxEntries
    BY DEF CacheSizes
  <2>2. entries = [s \in Symbols |-> ring]
    BY <1>0 DEF Cache!Init
  <2>3. sweep \in Sweeps
    BY <1>0 DEF Cache!Init, Cache!NoSweep, Sweeps
  <2> HIDE DEF ring
  <2> QED
    BY <1>0, <2>1, <2>2, <2>3 DEF Cache!Init, CacheTypeOK, CacheSizes
<1>2. OnceInv /\ ShownInv /\ NumberInv /\ LatestInv
  BY <1>0 DEF Cache!Init, OnceInv, ShownInv, NumberInv, LatestInv, Showing
<1> QED
  BY <1>1, <1>2 DEF CacheInv

(* What a visible entry is.                                                *)
LEMMA ShownFacts ==
  ASSUME CacheInv, NEW r \in Symbols, NEW j \in Showing(r)
  PROVE  /\ entries[r][j] <= puts /\ entries[r][j] \in Nat
         /\ entries[r][j] \notin gone[r]
         /\ \E k \in 1 .. Len(stored[r]) : stored[r][k] = entries[r][j]
<1>1. entries[r][j] \notin gone[r]
  BY DEF CacheInv, ShownInv
<1>2. PICK k \in 1 .. Len(stored[r]) : stored[r][k] = entries[r][j]
  BY DEF CacheInv, ShownInv
<1>3. stored[r][k] <= puts /\ stored[r][k] \in Nat
  <2>1. stored[r] \in Seq(Nat) /\ NumberInv
    BY DEF CacheInv, CacheTypeOK
  <2> QED
    BY <2>1 DEF NumberInv
<1> QED
  BY <1>1, <1>2, <1>3

(* A put writes one position, whose entry, if it showed, is gone.          *)
WritesAt(s, i) ==
  /\ entries' = [entries EXCEPT ![s] = [@ EXCEPT ![i] = puts + 1]]
  /\ \A j \in 1 .. MaxEntries : j \in Showing(s)' <=> j \in Showing(s) \/ j = i
  /\ gone' = [gone EXCEPT ![s] = @ \cup (IF i \in Showing(s) THEN {entries[s][i]} ELSE {})]
  /\ size' \in [Symbols -> 0 .. MaxEntries]
  /\ \A r \in Symbols \ {s} : size'[r] = size[r]
  /\ head' \in [Symbols -> 0 .. MaxEntries - 1]

LEMMA PutWrites ==
  ASSUME CacheSizes, CacheInv, NEW s \in Symbols, Cache!PutFeature(s)
  PROVE  \E i \in 1 .. MaxEntries : WritesAt(s, i)
<1>0. /\ MaxEntries \in Nat \ {0} /\ size \in [Symbols -> 0 .. MaxEntries]
      /\ head \in [Symbols -> 0 .. MaxEntries - 1]
      /\ entries \in [Symbols -> Seq(Nat)] /\ Len(entries[s]) = MaxEntries
      /\ gone \in [Symbols -> SUBSET Nat]
  BY DEF CacheInv, CacheTypeOK, CacheSizes
<1> USE DEF Showing
<1>1. CASE size[s] < MaxEntries
  <2>1. Cache!AppendEntry(s, puts + 1)
    BY <1>0, <1>1 DEF Cache!PutFeature
  <2>2. entries' = [entries EXCEPT ![s] = [@ EXCEPT ![size[s] + 1] = puts + 1]]
    <3>1. ~(Len(entries[s]) <= size[s])
      BY <1>0, <1>1
    <3> QED
      BY <2>1, <3>1 DEF Cache!AppendEntry
  <2>3. size' = [size EXCEPT ![s] = @ + 1] /\ head' = head /\ gone' = gone
    BY <2>1 DEF Cache!AppendEntry
  <2>4. size[s] + 1 \in 1 .. MaxEntries /\ size[s] + 1 \notin Showing(s)
    BY <1>0, <1>1
  <2>5. gone' = [gone EXCEPT ![s] =
          @ \cup (IF size[s] + 1 \in Showing(s) THEN {entries[s][size[s] + 1]} ELSE {})]
    <3>1. gone[s] \cup (IF size[s] + 1 \in Showing(s) THEN {entries[s][size[s] + 1]} ELSE {})
            = gone[s]
      BY <2>4
    <3> QED
      BY <1>0, <2>3, <3>1
  <2>6. \A j \in 1 .. MaxEntries : j \in Showing(s)' <=> j \in Showing(s) \/ j = size[s] + 1
    <3>1. size'[s] = size[s] + 1 /\ size[s] \in Nat
      BY <1>0, <2>3
    <3> QED
      BY <3>1
  <2>7. /\ size' \in [Symbols -> 0 .. MaxEntries]
        /\ \A r \in Symbols \ {s} : size'[r] = size[r]
        /\ head' \in [Symbols -> 0 .. MaxEntries - 1]
    BY <1>0, <1>1, <2>3
  <2> QED
    BY <2>2, <2>4, <2>5, <2>6, <2>7 DEF WritesAt
<1>2. CASE size[s] >= MaxEntries
  <2>1. Cache!Overwrite(s, puts + 1) /\ size[s] = MaxEntries
    BY <1>0, <1>2 DEF Cache!PutFeature
  <2>2. entries' = [entries EXCEPT ![s] = [@ EXCEPT ![head[s] + 1] = puts + 1]]
    BY <2>1 DEF Cache!Overwrite
  <2>3. /\ size' = size /\ head' = [head EXCEPT ![s] = (@ + 1) % MaxEntries]
        /\ gone' = [gone EXCEPT ![s] = @ \cup {entries[s][head[s] + 1]}]
    BY <2>1 DEF Cache!Overwrite
  <2>4. head[s] + 1 \in 1 .. MaxEntries /\ head[s] + 1 \in Showing(s)
    BY <1>0, <2>1
  <2>5. gone' = [gone EXCEPT ![s] =
          @ \cup (IF head[s] + 1 \in Showing(s) THEN {entries[s][head[s] + 1]} ELSE {})]
    BY <2>3, <2>4
  <2>6. \A j \in 1 .. MaxEntries : j \in Showing(s)' <=> j \in Showing(s) \/ j = head[s] + 1
    BY <1>0, <2>1, <2>3, <2>4
  <2>7. /\ size' \in [Symbols -> 0 .. MaxEntries]
        /\ \A r \in Symbols \ {s} : size'[r] = size[r]
        /\ head' \in [Symbols -> 0 .. MaxEntries - 1]
    <3>1. (head[s] + 1) % MaxEntries \in 0 .. MaxEntries - 1
      BY <1>0
    <3> QED
      BY <1>0, <2>3, <3>1
  <2> QED
    BY <2>2, <2>4, <2>5, <2>6, <2>7 DEF WritesAt
<1> QED
  BY <1>0, <1>1, <1>2

LEMMA PutKeepsCacheInv ==
  ASSUME CacheSizes, CacheInv, NEW s \in Symbols, Cache!PutFeature(s)
  PROVE  CacheInv'
<1>1. PICK i \in 1 .. MaxEntries : WritesAt(s, i)
  BY PutWrites
<1>2. /\ puts' = puts + 1
      /\ stored' = [stored EXCEPT ![s] = Append(@, puts + 1)]
  BY DEF Cache!PutFeature
<1>3. /\ CacheTypeOK
      /\ \A r \in Symbols : Showing(r) \subseteq 1 .. MaxEntries
      /\ \A r \in Symbols : Showing(r)' \subseteq 1 .. MaxEntries
  <2>1. /\ CacheTypeOK /\ MaxEntries \in Nat
        /\ \A r \in Symbols : size[r] \in 0 .. MaxEntries /\ size'[r] \in 0 .. MaxEntries
    BY <1>1 DEF CacheInv, CacheTypeOK, CacheSizes, WritesAt
  <2> QED
    BY <2>1 DEF Showing
<1>4. /\ entries'[s][i] = puts + 1
      /\ \A j \in 1 .. MaxEntries : j # i => entries'[s][j] = entries[s][j]
      /\ \A r \in Symbols \ {s} : entries'[r] = entries[r]
  BY <1>1, <1>3 DEF WritesAt, CacheTypeOK
<1>5. /\ Len(stored'[s]) = Len(stored[s]) + 1
      /\ stored'[s][Len(stored[s]) + 1] = puts + 1
      /\ \A k \in 1 .. Len(stored[s]) : stored'[s][k] = stored[s][k]
      /\ \A r \in Symbols \ {s} : stored'[r] = stored[r]
  BY <1>2, <1>3 DEF CacheTypeOK
<1>6. \A r \in Symbols \ {s} : Showing(r)' = Showing(r) /\ gone'[r] = gone[r]
  BY <1>1, <1>3 DEF WritesAt, Showing, CacheTypeOK
<1>7. /\ gone[s] \subseteq gone'[s]
      /\ gone'[s] \subseteq gone[s] \cup {entries[s][j] : j \in {k \in Showing(s) : k = i}}
  BY <1>1, <1>3 DEF WritesAt, CacheTypeOK
<1>8. ASSUME NEW r \in Symbols, NEW j \in Showing(r)
      PROVE  /\ entries[r][j] <= puts /\ entries[r][j] \in Nat
             /\ entries[r][j] \notin gone[r]
             /\ \E k \in 1 .. Len(stored[r]) : stored[r][k] = entries[r][j]
  BY ShownFacts
<1>9. CacheTypeOK'
  <2>1. entries' \in [Symbols -> Seq(Nat)] /\ \A r \in Symbols : Len(entries'[r]) = MaxEntries
    <3>1. ASSUME NEW r \in Symbols
          PROVE  entries'[r] \in Seq(Nat) /\ Len(entries'[r]) = MaxEntries
      <4>1. entries[r] \in Seq(Nat) /\ Len(entries[r]) = MaxEntries /\ puts + 1 \in Nat
        BY <1>3 DEF CacheTypeOK
      <4>2. entries'[r] = IF r = s THEN [entries[r] EXCEPT ![i] = puts + 1] ELSE entries[r]
        BY <1>1, <1>3 DEF WritesAt, CacheTypeOK
      <4> QED
        BY <4>1, <4>2
    <3>2. entries' = [r \in Symbols |-> entries'[r]]
      <4>1. entries \in [Symbols -> Seq(Nat)]
        BY <1>3 DEF CacheTypeOK
      <4>2. entries' = [entries EXCEPT ![s] = [@ EXCEPT ![i] = puts + 1]]
        BY <1>1 DEF WritesAt
      <4> QED
        BY <4>1, <4>2
    <3> QED
      BY <3>1, <3>2
  <2>2. gone' \in [Symbols -> SUBSET Nat]
    <3>1. gone \in [Symbols -> SUBSET Nat]
      BY <1>3 DEF CacheTypeOK
    <3>2. i \in Showing(s) => entries[s][i] \in Nat
      BY <1>8
    <3> QED
      BY <1>1, <3>1, <3>2 DEF WritesAt
  <2> QED
    <3>1. /\ puts' \in Nat /\ stored' \in [Symbols -> Seq(Nat)]
          /\ sweep' \in Sweeps
      BY <1>2, <1>3 DEF CacheTypeOK, Cache!PutFeature
    <3>2. size' \in [Symbols -> 0 .. MaxEntries] /\ head' \in [Symbols -> 0 .. MaxEntries - 1]
      BY <1>1 DEF WritesAt
    <3> QED
      BY <2>1, <2>2, <3>1, <3>2 DEF CacheTypeOK
<1>10. OnceInv'
  <2> SUFFICES ASSUME NEW r \in Symbols, NEW j \in Showing(r)', NEW k \in Showing(r)',
                      entries'[r][j] = entries'[r][k]
               PROVE  j = k
    BY DEF OnceInv
  <2>1. CASE r # s
    BY <1>4, <1>6, <2>1 DEF CacheInv, OnceInv
  <2>2. CASE r = s
    <3>1. \A l \in Showing(s)' :
            /\ l = i => entries'[s][l] = puts + 1
            /\ l # i => l \in Showing(s) /\ entries'[s][l] = entries[s][l] /\ entries[s][l] <= puts
      BY <1>1, <1>3, <1>4, <1>8 DEF WritesAt
    <3>2. puts \in Nat /\ \A l \in Showing(s) : entries[s][l] \in Nat
      BY <1>3, <1>8 DEF CacheTypeOK
    <3>3. \A l, m \in Showing(s) : entries[s][l] = entries[s][m] => l = m
      BY DEF CacheInv, OnceInv
    <3> QED
      BY <2>2, <3>1, <3>2, <3>3
  <2> QED
    BY <2>1, <2>2
<1>11. NumberInv'
  <2> SUFFICES ASSUME NEW r \in Symbols
               PROVE  /\ \A k \in 1 .. Len(stored'[r]) : stored'[r][k] <= puts'
                      /\ \A e \in gone'[r] : e <= puts'
    BY DEF NumberInv
  <2>1. /\ puts' = puts + 1 /\ puts \in Nat
        /\ \A k \in 1 .. Len(stored[r]) : stored[r][k] <= puts /\ stored[r][k] \in Nat
        /\ \A e \in gone[r] : e <= puts /\ e \in Nat
        /\ Len(stored[r]) \in Nat
    <3>1. NumberInv
      BY DEF CacheInv
    <3>2. stored[r] \in Seq(Nat) /\ gone[r] \subseteq Nat /\ puts \in Nat
      BY <1>3 DEF CacheTypeOK
    <3> QED
      BY <1>2, <3>1, <3>2 DEF NumberInv
  <2>2. CASE r # s
    BY <1>5, <1>6, <2>1, <2>2
  <2>3. CASE r = s
    <3>1. \A k \in 1 .. Len(stored'[s]) : stored'[s][k] <= puts'
      <4>1. stored[s] \in Seq(Nat)
        BY <1>3 DEF CacheTypeOK
      <4>2. \A k \in 1 .. Len(stored'[s]) :
              \/ k \in 1 .. Len(stored[s]) /\ stored'[s][k] = stored[s][k]
              \/ stored'[s][k] = puts + 1
        BY <1>5, <4>1
      <4> QED
        BY <2>1, <2>3, <4>2
    <3>2. \A e \in gone'[s] : e <= puts'
      <4>1. \A e \in gone'[s] : e \in Nat /\ e <= puts
        BY <1>7, <1>8, <2>1, <2>3
      <4> QED
        BY <2>1, <4>1
    <3> QED
      BY <2>3, <3>1, <3>2
  <2> QED
    BY <2>2, <2>3
<1>12. ShownInv'
  <2> SUFFICES ASSUME NEW r \in Symbols, NEW j \in Showing(r)'
               PROVE  /\ \E k \in 1 .. Len(stored'[r]) : stored'[r][k] = entries'[r][j]
                      /\ entries'[r][j] \notin gone'[r]
    BY DEF ShownInv
  <2>1. CASE r # s
    BY <1>4, <1>5, <1>6, <1>8, <2>1
  <2>2. CASE r = s /\ j = i
    <3>1. puts + 1 \notin gone'[s]
      <4>1. \A e \in gone'[s] : e \in Nat /\ e <= puts
        <5>1. \A e \in gone[s] : e \in Nat /\ e <= puts
          BY <1>3 DEF CacheInv, NumberInv, CacheTypeOK
        <5> QED
          BY <1>7, <1>8, <5>1
      <4> QED
        <5>1. puts \in Nat /\ ~(puts + 1 <= puts)
          BY <1>3 DEF CacheTypeOK
        <5> QED
          BY <4>1, <5>1
    <3>2. Len(stored[s]) + 1 \in 1 .. Len(stored'[s])
      BY <1>3, <1>5 DEF CacheTypeOK
    <3> QED
      BY <1>4, <1>5, <2>2, <3>1, <3>2
  <2>3. CASE r = s /\ j # i
    <3>1. j \in Showing(s) /\ entries'[s][j] = entries[s][j]
      BY <1>1, <1>3, <1>4, <2>3 DEF WritesAt
    <3>2. entries[s][j] \notin gone'[s]
      BY <1>7, <1>8, <2>3, <3>1 DEF CacheInv, OnceInv
    <3>3. PICK k \in 1 .. Len(stored[s]) : stored[s][k] = entries[s][j]
      BY <1>8, <3>1
    <3>4. k \in 1 .. Len(stored'[s]) /\ stored'[s][k] = entries'[s][j]
      BY <1>3, <1>5, <3>1, <3>3 DEF CacheTypeOK
    <3> QED
      BY <2>3, <3>1, <3>2, <3>4
  <2> QED
    BY <2>1, <2>2, <2>3
<1>13. LatestInv'
  <2> SUFFICES ASSUME NEW r \in Symbols, Len(stored'[r]) # 0
               PROVE  \/ stored'[r][Len(stored'[r])] \in gone'[r]
                      \/ \E j \in Showing(r)' : entries'[r][j] = stored'[r][Len(stored'[r])]
    BY DEF LatestInv
  <2>1. CASE r # s
    BY <1>4, <1>5, <1>6, <2>1 DEF CacheInv, LatestInv
  <2>2. CASE r = s
    <3>1. i \in Showing(s)'
      BY <1>1 DEF WritesAt
    <3> QED
      BY <1>4, <1>5, <2>2, <3>1
  <2> QED
    BY <2>1, <2>2
<1> QED
  BY <1>9, <1>10, <1>11, <1>12, <1>13 DEF CacheInv

(* A sweep that moves the entries at some positions, each once, to the     *)
(* front, and shows no others.                                             *)
LEMMA KeepKeepsCacheInv ==
  ASSUME CacheSizes, CacheInv, NEW s \in Symbols, NEW n \in 0 .. size[s],
         NEW kept \in Seq(Nat), Len(kept) = n,
         \A i \in 1 .. n : \E j \in Showing(s) : kept[i] = entries[s][j],
         \A i, j \in 1 .. n : kept[i] = kept[j] => i = j,
         Cache!Keep(s, kept)
  PROVE  CacheInv'
<1>0. CacheTypeOK /\ MaxEntries \in Nat \ {0}
  BY DEF CacheInv, CacheSizes
<1>1. /\ n \in Nat /\ size[s] \in 0 .. MaxEntries /\ n <= MaxEntries
      /\ Showing(s) \subseteq 1 .. MaxEntries
  BY <1>0 DEF CacheTypeOK, Showing
<1>2. /\ \A r \in Symbols \ {s} :
           entries'[r] = entries[r] /\ size'[r] = size[r] /\ gone'[r] = gone[r]
      /\ size'[s] = n
      /\ gone'[s] = gone[s] \cup (Cache!Visible(s) \ Cache!ToSet(kept))
      /\ UNCHANGED <<head, puts, stored>>
      /\ size' = [r \in Symbols |-> size'[r]]
      /\ gone' = [r \in Symbols |-> gone'[r]]
  BY <1>0 DEF Cache!Keep, CacheTypeOK
<1>3. /\ entries' = [r \in Symbols |-> entries'[r]]
      /\ entries'[s] = [i \in 1 .. MaxEntries |-> IF i <= n THEN kept[i] ELSE entries[s][i]]
  <2>1. entries \in [Symbols -> Seq(Nat)] /\ Len(entries[s]) = MaxEntries
    BY <1>0 DEF CacheTypeOK
  <2>2. entries' = [entries EXCEPT ![s] =
          [i \in 1 .. MaxEntries |-> IF i <= n THEN kept[i] ELSE @[i]]]
    BY <2>1 DEF Cache!Keep
  <2> QED
    BY <2>1, <2>2
<1>4. /\ Showing(s)' = 1 .. n /\ 1 .. n \subseteq 1 .. MaxEntries
      /\ \A r \in Symbols \ {s} : Showing(r)' = Showing(r)
  BY <1>1, <1>2 DEF Showing
<1>5. \A i \in Showing(s)' : entries'[s][i] = kept[i]
  BY <1>1, <1>3, <1>4
<1>6. /\ gone[s] \subseteq gone'[s]
      /\ \A e \in gone'[s] : e \in gone[s] \/
            ((\E j \in Showing(s) : e = entries[s][j]) /\ ~ (\E i \in 1 .. n : e = kept[i]))
      /\ \A j \in Showing(s) :
            entries[s][j] \in gone'[s] \/ \E i \in 1 .. n : entries[s][j] = kept[i]
  BY <1>2 DEF Cache!Visible, Cache!ToSet, Showing
<1>7. ASSUME NEW j \in Showing(s)
      PROVE  /\ entries[s][j] <= puts /\ entries[s][j] \in Nat
             /\ entries[s][j] \notin gone[s]
             /\ \E k \in 1 .. Len(stored[s]) : stored[s][k] = entries[s][j]
  BY <1>7, ShownFacts
<1>8. CacheTypeOK'
  <2>1. ASSUME NEW r \in Symbols
        PROVE  entries'[r] \in Seq(Nat) /\ Len(entries'[r]) = MaxEntries
    <3>1. CASE r # s
      BY <1>0, <1>2, <3>1 DEF CacheTypeOK
    <3>2. CASE r = s
      <4>1. \A i \in 1 .. MaxEntries : entries[s][i] \in Nat
        <5>1. entries[s] \in Seq(Nat) /\ Len(entries[s]) = MaxEntries
          BY <1>0 DEF CacheTypeOK
        <5> QED
          BY <5>1
      <4>2. \A i \in 1 .. MaxEntries : entries'[s][i] \in Nat
        BY <1>0, <1>1, <1>3, <4>1
      <4> QED
        BY <1>0, <1>3, <3>2, <4>2
    <3> QED
      BY <3>1, <3>2
  <2>2. ASSUME NEW r \in Symbols
        PROVE  size'[r] \in 0 .. MaxEntries /\ gone'[r] \subseteq Nat
    <3>1. size[r] \in 0 .. MaxEntries /\ gone[r] \subseteq Nat
      BY <1>0 DEF CacheTypeOK
    <3> QED
      <4>1. CASE r # s
        BY <1>2, <3>1, <4>1
      <4>2. CASE r = s
        <5>1. gone'[s] \subseteq Nat
          BY <1>6, <1>7, <3>1, <4>2
        <5> QED
          BY <1>1, <1>2, <4>2, <5>1
      <4> QED
        BY <4>1, <4>2
  <2>3. entries' \in [Symbols -> Seq(Nat)]
    BY <1>3, <2>1
  <2>4. size' \in [Symbols -> 0 .. MaxEntries] /\ gone' \in [Symbols -> SUBSET Nat]
    BY <1>2, <2>2
  <2>5. /\ puts' \in Nat /\ head' \in [Symbols -> 0 .. MaxEntries - 1]
        /\ stored' \in [Symbols -> Seq(Nat)]
        /\ sweep' \in Sweeps
    <3>1. sweep' \in Sweeps
      <4>1. sweep \in Sweeps
        BY <1>0 DEF CacheTypeOK
      <4>2. \/ sweep' = Cache!NoSweep
            \/ sweep' = [sweep EXCEPT !.left = sweep.left \ {s}]
        BY DEF Cache!Keep
      <4>3. sweep.left \ {s} \in SUBSET Symbols
        BY <4>1 DEF Sweeps
      <4> QED
        BY <4>1, <4>2, <4>3 DEF Cache!NoSweep, Sweeps
    <3> QED
      BY <1>0, <1>2, <3>1 DEF CacheTypeOK
  <2> QED
    BY <2>1, <2>3, <2>4, <2>5 DEF CacheTypeOK
<1>9. OnceInv'
  <2> SUFFICES ASSUME NEW r \in Symbols, NEW i \in Showing(r)', NEW j \in Showing(r)',
                      entries'[r][i] = entries'[r][j]
               PROVE  i = j
    BY DEF OnceInv
  <2>1. CASE r # s
    BY <1>2, <1>4, <2>1 DEF CacheInv, OnceInv
  <2>2. CASE r = s
    BY <1>4, <1>5, <2>2
  <2> QED
    BY <2>1, <2>2
<1>10. ShownInv'
  <2> SUFFICES ASSUME NEW r \in Symbols, NEW i \in Showing(r)'
               PROVE  /\ \E k \in 1 .. Len(stored'[r]) : stored'[r][k] = entries'[r][i]
                      /\ entries'[r][i] \notin gone'[r]
    BY DEF ShownInv
  <2>1. CASE r # s
    BY <1>2, <1>4, <2>1 DEF CacheInv, ShownInv
  <2>2. CASE r = s
    <3>1. i \in 1 .. n /\ entries'[s][i] = kept[i]
      BY <1>4, <1>5, <2>2
    <3>2. PICK j \in Showing(s) : kept[i] = entries[s][j]
      BY <3>1
    <3>3. /\ entries[s][j] \notin gone[s]
          /\ \E k \in 1 .. Len(stored[s]) : stored[s][k] = entries[s][j]
      BY <1>7
    <3>4. entries[s][j] \notin gone'[s]
      BY <1>6, <3>1, <3>2, <3>3
    <3> QED
      BY <1>2, <2>2, <3>1, <3>2, <3>3, <3>4
  <2> QED
    BY <2>1, <2>2
<1>11. NumberInv'
  <2> SUFFICES ASSUME NEW r \in Symbols
               PROVE  \A e \in gone'[r] : e <= puts
    BY <1>2 DEF CacheInv, NumberInv
  <2>1. CASE r # s
    BY <1>2, <2>1 DEF CacheInv, NumberInv
  <2>2. CASE r = s
    BY <1>6, <1>7, <2>2 DEF CacheInv, NumberInv
  <2> QED
    BY <2>1, <2>2
<1>12. LatestInv'
  <2> SUFFICES ASSUME NEW r \in Symbols, Len(stored[r]) # 0
               PROVE  \/ stored[r][Len(stored[r])] \in gone'[r]
                      \/ \E i \in Showing(r)' : entries'[r][i] = stored[r][Len(stored[r])]
    BY <1>2 DEF LatestInv
  <2>1. \/ stored[r][Len(stored[r])] \in gone[r]
        \/ \E j \in Showing(r) : entries[r][j] = stored[r][Len(stored[r])]
    BY DEF CacheInv, LatestInv
  <2>2. CASE r # s
    BY <1>2, <1>4, <2>1, <2>2
  <2>3. CASE r = s
    BY <1>4, <1>5, <1>6, <2>1, <2>3
  <2> QED
    BY <2>2, <2>3
<1> QED
  BY <1>8, <1>9, <1>10, <1>11, <1>12 DEF CacheInv

LEMMA SweepKeepsCacheInv ==
  ASSUME CacheSizes, CacheInv, NEW s \in Symbols, Cache!EvictExpired(s) \/ Cache!EvictLru(s)
  PROVE  CacheInv'
<1>0. /\ entries[s] \in Seq(Nat) /\ Len(entries[s]) = MaxEntries /\ MaxEntries \in Nat
      /\ size[s] \in 0 .. MaxEntries
      /\ \A i, j \in Showing(s) : entries[s][i] = entries[s][j] => i = j
  BY DEF CacheInv, CacheTypeOK, CacheSizes, OnceInv
<1>1. ASSUME NEW n \in 0 .. size[s], NEW where \in [1 .. n -> Showing(s)],
             \A i, j \in 1 .. n : i < j => where[i] < where[j],
             Cache!Keep(s, [i \in 1 .. n |-> entries[s][where[i]]])
      PROVE  CacheInv'
  <2> DEFINE kept == [i \in 1 .. n |-> entries[s][where[i]]]
  <2>1. \A i \in 1 .. n : kept[i] = entries[s][where[i]] /\ where[i] \in Showing(s)
    OBVIOUS
  <2>2. kept \in Seq(Nat) /\ Len(kept) = n /\ n \in Nat
    <3>1. \A i \in Showing(s) : entries[s][i] \in Nat
      BY <1>0 DEF Showing
    <3> QED
      BY <1>0, <2>1, <3>1
  <2>3. \A i, j \in 1 .. n : kept[i] = kept[j] => i = j
    <3> SUFFICES ASSUME NEW i \in 1 .. n, NEW j \in 1 .. n, kept[i] = kept[j]
                 PROVE  i = j
      OBVIOUS
    <3>1. where[i] = where[j] /\ where[i] \in Int
      BY <1>0, <2>1 DEF Showing
    <3> QED
      BY <1>1, <2>2, <3>1
  <2>4. \A i \in 1 .. n : \E j \in Showing(s) : kept[i] = entries[s][j]
    BY <2>1
  <2>5. Cache!Keep(s, kept)
    BY <1>1
  <2> HIDE DEF kept
  <2> QED
    BY <2>2, <2>3, <2>4, <2>5, KeepKeepsCacheInv
<1>2. CASE Cache!EvictExpired(s)
  <2>1. PICK where \in Cache!Selections(size[s]) :
          Cache!Keep(s, [i \in DOMAIN where |-> entries[s][where[i]]])
    BY <1>2 DEF Cache!EvictExpired
  <2>2. PICK n \in 0 .. size[s] : where \in [1 .. n -> 1 .. size[s]]
    BY DEF Cache!Selections
  <2>3. \A i, j \in 1 .. n : i < j => where[i] < where[j]
    BY <2>2 DEF Cache!Selections
  <2> QED
    BY <1>1, <2>1, <2>2, <2>3 DEF Showing
<1>3. CASE Cache!EvictLru(s)
  <2> DEFINE n == IF size[s] > sweep.target THEN sweep.target ELSE size[s]
             where == [i \in 1 .. n |-> i]
  <2>1. sweep.target \in Nat
    BY DEF CacheInv, CacheTypeOK, Sweeps
  <2>2. n \in 0 .. size[s] /\ n <= MaxEntries
    BY <1>0, <2>1
  <2>3. Cache!Keep(s, SubSeq(entries[s], 1, n))
    BY <1>3 DEF Cache!EvictLru
  <2> HIDE DEF n
  <2>4. /\ where \in [1 .. n -> Showing(s)]
        /\ \A i, j \in 1 .. n : i < j => where[i] < where[j]
    BY <1>0, <2>2 DEF Showing
  <2>5. SubSeq(entries[s], 1, n) = [i \in 1 .. n |-> entries[s][where[i]]]
    BY <1>0, <2>2
  <2> HIDE DEF where
  <2> QED
    BY <1>1, <2>2, <2>3, <2>4, <2>5
<1> QED
  BY <1>2, <1>3

LEMMA ClearKeepsCacheInv ==
  ASSUME CacheSizes, CacheInv, (\E s \in Symbols : Cache!ClearSymbol(s)) \/ Cache!ClearAll
  PROVE  CacheInv'
<1>1. ASSUME NEW s \in Symbols, Cache!ClearSymbol(s)
      PROVE  CacheInv'
  <2>1. CacheTypeOK'
    BY <1>1 DEF Cache!ClearSymbol, CacheInv, CacheTypeOK, CacheSizes
  <2>2. /\ entries' = entries /\ puts' = puts
        /\ \A r \in Symbols :
             \/ size'[r] = size[r] /\ stored'[r] = stored[r] /\ gone'[r] = gone[r]
             \/ size'[r] = 0 /\ stored'[r] = <<>> /\ gone'[r] = {}
    BY <1>1 DEF Cache!ClearSymbol, CacheInv, CacheTypeOK
  <2>3. OnceInv' /\ ShownInv'
    BY <2>2 DEF CacheInv, OnceInv, ShownInv, Showing
  <2>4. NumberInv' /\ LatestInv'
    BY <2>2 DEF CacheInv, NumberInv, LatestInv, Showing
  <2> QED
    BY <2>1, <2>3, <2>4 DEF CacheInv
<1>2. CASE Cache!ClearAll
  <2>1. CacheTypeOK'
    BY <1>2 DEF Cache!ClearAll, CacheInv, CacheTypeOK, CacheSizes
  <2>2. \A r \in Symbols : size'[r] = 0 /\ stored'[r] = <<>> /\ gone'[r] = {}
    BY <1>2 DEF Cache!ClearAll
  <2> QED
    BY <2>1, <2>2 DEF CacheInv, OnceInv, ShownInv, NumberInv, LatestInv, Showing
<1> QED
  BY <1>1, <1>2

LEMMA CacheNext ==
  ASSUME CacheSizes, CacheInv, [AllNext]_AllVars
  PROVE  CacheInv'
<1>1. CASE Cache!Next
  <2>1. ASSUME NEW kind \in {"expired", "lru"}, NEW target \in Nat, Cache!StartSweep(kind, target)
        PROVE  CacheInv'
    BY <2>1 DEF Cache!StartSweep, Cache!rings, CacheInv, CacheTypeOK, Sweeps, OnceInv, ShownInv,
         NumberInv, LatestInv, Showing
  <2>2. CASE \E s \in Symbols : Cache!PutFeature(s)
    BY <2>2, PutKeepsCacheInv
  <2>3. CASE \E s \in Symbols : Cache!EvictExpired(s) \/ Cache!EvictLru(s)
    BY <2>3, SweepKeepsCacheInv
  <2>4. CASE (\E s \in Symbols : Cache!ClearSymbol(s)) \/ Cache!ClearAll
    BY <2>4, ClearKeepsCacheInv
  <2>5. CASE \/ Cache!StartSweep("expired", 0)
             \/ \E target \in 0 .. MaxEntries : Cache!StartSweep("lru", target)
    BY <2>1, <2>5 DEF CacheSizes
  <2> QED
    BY <1>1, <2>2, <2>3, <2>4, <2>5 DEF Cache!Next
<1>2. CASE UNCHANGED cacheVars
  BY <1>2 DEF cacheVars, CacheInv, CacheTypeOK, OnceInv, ShownInv, NumberInv, LatestInv, Showing
<1> QED
  BY <1>1, <1>2 DEF AllNext, AllVars

(* The invariant holds in every reachable state.                           *)
THEOREM CacheInvariant == ASSUME CacheSizes PROVE AllSpec => []CacheInv
BY CacheInit, CacheNext, PTL DEF AllSpec

(* What an eviction, an overwriting put or a clearing has taken out never  *)
(* comes back, and no entry shows twice.                                   *)
THEOREM EvictedStaysOut == ASSUME CacheSizes PROVE AllSpec => []EvictedStaysAway
<1>1. ASSUME CacheInv
      PROVE  EvictedStaysAway
  <2> SUFFICES ASSUME NEW s \in Symbols
               PROVE  /\ Cache!Visible(s) \subseteq Cache!ToSet(stored[s]) \ gone[s]
                      /\ Cache!Cardinality(Cache!Visible(s)) = size[s]
                      /\ stored[s] # <<>> =>
                           Cache!Last(stored[s]) \in Cache!Visible(s) \cup gone[s]
    BY DEF EvictedStaysAway, Cache!EvictedStaysAway
  <2>1. stored[s] \in Seq(Nat) /\ size[s] \in Nat
    BY <1>1 DEF CacheInv, CacheTypeOK
  <2>2. Cache!Visible(s) = {entries[s][i] : i \in Showing(s)}
    BY DEF Cache!Visible, Showing
  <2>3. Cache!Visible(s) \subseteq Cache!ToSet(stored[s]) \ gone[s]
    BY <1>1, <2>2 DEF CacheInv, ShownInv, Cache!ToSet
  <2>4. Cardinality(Cache!Visible(s)) = size[s]
    <3> DEFINE shown == [i \in Showing(s) |-> entries[s][i]]
    <3>1. shown \in Bijection(Showing(s), Cache!Visible(s))
      BY <1>1, <2>2 DEF CacheInv, OnceInv, Bijection, Injection, Surjection, IsInjective
    <3>2. IsFiniteSet(Showing(s)) /\ Cardinality(Showing(s)) = size[s]
      <4>1. 1 \in Int /\ size[s] \in Int /\ size[s] - 1 + 1 = size[s] /\ (1 <= size[s] \/ size[s] = 0)
        BY <2>1
      <4> QED
        BY <4>1, FS_Interval DEF Showing
    <3> HIDE DEF shown
    <3> QED
      BY <3>1, <3>2, FS_Bijection DEF ExistsBijection
  <2>5. ASSUME stored[s] # <<>>
        PROVE  Cache!Last(stored[s]) \in Cache!Visible(s) \cup gone[s]
    BY <1>1, <2>1, <2>2, <2>5 DEF CacheInv, LatestInv, Cache!Last
  <2> QED
    BY <2>3, <2>4, <2>5, SameCardinality
<1> QED
  BY <1>1, CacheInvariant, PTL

(***************************************************************************)
(* The pivot table.                                                        *)
(***************************************************************************)

(* What the proofs assume of the constants.  That the probes of a pivot    *)
(* visit every slot, or each slot once, is not needed.                     *)
Probing ==
  /\ Capacity \in Nat \ {0}
  /\ None \notin Pivots /\ None \notin Columns
  /\ Probe \in [Pivots -> [Table!Probes -> Table!Slots]]

(***************************************************************************)
(* The inductive invariant, one named part per concern.                    *)
(***************************************************************************)

Writing   == {"column", "occupied", "inserted"}
Inserting == {"load", "cas"} \cup Writing
Finding   == {"findPivot", "findOccupied", "findColumn"}

(* The first n probes for p look at slots of other pivots.                 *)
Passed(p, n) ==
  \A j \in Table!Probes : j < n => slotPivot[Probe[p][j]] \notin {None, p}

InsertInv ==
  \A t \in Threads : tablePc[t] \in Inserting =>
    column[t] \in Columns /\ Passed(pivot[t], probe[t])

(* A pivot stands in the first slot of its probes that it could have.      *)
ChainInv ==
  \A s \in Table!Slots : slotPivot[s] # None =>
    \E k \in Table!Probes : Probe[slotPivot[s]][k] = s /\ Passed(slotPivot[s], k)

SlotWriterInv ==
  \A t \in Threads : tablePc[t] \in Writing =>
    /\ slotPivot[Table!Slot(t)] = pivot[t]
    /\ tablePc[t] # "column" => slotColumn[Table!Slot(t)] = column[t]
    /\ slotOccupied[Table!Slot(t)] <=> tablePc[t] = "inserted"

OneWriter ==
  \A t, u \in Threads :
    (tablePc[t] \in Writing /\ tablePc[u] \in Writing /\ pivot[t] = pivot[u]) => t = u

OccupiedInv ==
  \A s \in Table!Slots : slotOccupied[s] => slotPivot[s] # None /\ slotColumn[s] # None

(* Some slot holds the pivot with this column, for good.                   *)
Held(p, c) == \E s \in Table!Slots : slotPivot[s] = p /\ slotOccupied[s] /\ slotColumn[s] = c

InsertedInv ==
  \A p \in Pivots : inserted[p] # None =>
    /\ Held(p, inserted[p])
    /\ \A t \in Threads : tablePc[t] \in Writing => pivot[t] # p

(* A find, under way or just ended: what it was promised is still there.   *)
PromiseInv ==
  \A t \in Threads :
    (tablePc[t] \in Finding \/ (tablePc[t] = "idle" /\ answer[t] \in {"found", "absent"})) =>
      /\ pivot[t] \in Pivots
      /\ promised[t] # None => inserted[pivot[t]] = promised[t]

FindInv ==
  \A t \in Threads :
    /\ tablePc[t] \in Finding /\ promised[t] # None => Passed(pivot[t], probe[t])
    /\ tablePc[t] \in {"findOccupied", "findColumn"} => slotPivot[Table!Slot(t)] = pivot[t]
    /\ tablePc[t] = "findColumn" => slotOccupied[Table!Slot(t)]

ResultInv ==
  \A t \in Threads : tablePc[t] = "idle" =>
    /\ answer[t] = "absent" => promised[t] = None
    /\ answer[t] = "found" => column[t] # None /\ Held(pivot[t], column[t])

TableInv ==
  /\ Table!TypeOK
  /\ InsertInv
  /\ ChainInv
  /\ SlotWriterInv
  /\ OneWriter
  /\ OccupiedInv
  /\ InsertedInv
  /\ PromiseInv
  /\ FindInv
  /\ ResultInv

----------------------------------------------------------------------------
(* Types.                                                                  *)

LEMMA SlotIsSlot ==
  ASSUME Probing, Table!TypeOK, NEW t \in Threads, pivot[t] \in Pivots
  PROVE  Table!Slot(t) \in Table!Slots
BY DEF Probing, Table!TypeOK, Table!Slot

LEMMA TableStartsTyped == Probing /\ Table!Init => Table!TypeOK
BY DEF Probing, Table!Init, Table!TypeOK, Table!Probes, Table!Slots, Table!Labels

TableStep(t) == Table!Call(t) \/ Table!Insert(t) \/ Table!Find(t)

Results == {"none", "exists", "full", "inserted", "absent", "found"}

LEMMA ProbeOnType ==
  ASSUME Probing, Table!TypeOK, NEW t \in Threads, tablePc[t] # "idle",
         NEW label \in Table!Labels, NEW failure \in Results, Table!ProbeOn(t, label, failure)
  PROVE  /\ probe' \in [Threads -> Table!Probes]
         /\ tablePc' \in [Threads -> Table!Labels]
         /\ answer' \in [Threads -> Results]
         /\ \A u \in Threads : tablePc'[u] # "idle" => tablePc[u] # "idle"
<1> USE DEF Table!TypeOK, Table!GoTo, Table!Return, Table!ProbeOn
<1>1. probe[t] \in Int /\ 0 <= probe[t] /\ Capacity \in Int
  BY DEF Table!Probes, Probing
<1>2. probe' \in [Threads -> Table!Probes]
  BY <1>1 DEF Table!Probes
<1>3. "idle" \in Table!Labels
  BY DEF Table!Labels
<1>4. tablePc' \in [Threads -> Table!Labels] /\ answer' \in [Threads -> Results]
  BY <1>3 DEF Results
<1>5. \A u \in Threads : tablePc'[u] # "idle" => tablePc[u] # "idle"
  OBVIOUS
<1> QED
  BY <1>2, <1>4, <1>5

LEMMA TableKeepsTypes ==
  ASSUME Probing, Table!TypeOK, NEW t \in Threads, TableStep(t)
  PROVE  Table!TypeOK'
<1> USE DEF Table!TypeOK, Table!Labels, Table!GoTo, Table!Return, Table!ProbeOn,
            Table!tableVars, Table!Probes
<1>0. tablePc[t] # "idle" => pivot[t] \in Pivots /\ Table!Slot(t) \in Table!Slots
  BY SlotIsSlot
<1>1. ASSUME NEW p \in Pivots, NEW c \in Columns, Table!CallInsert(t, p, c)
      PROVE  Table!TypeOK'
  BY <1>1 DEF Table!CallInsert, Probing
<1>2. ASSUME NEW p \in Pivots, Table!CallFind(t, p)
      PROVE  Table!TypeOK'
  BY <1>2 DEF Table!CallFind, Probing
<1>3. CASE Table!LoadPivot(t)
  <2>1. CASE Table!ProbeOn(t, "load", "full")
    <3> HIDE DEF Table!ProbeOn
    <3> QED
      BY <1>3, <2>1, ProbeOnType DEF Table!LoadPivot, Results
  <2> QED
    BY <1>3, <2>1 DEF Table!LoadPivot
<1>4. CASE Table!CasPivot(t)
  <2> USE DEF Table!CasPivot
  <2>1. slotPivot' \in [Table!Slots -> Pivots \cup {None}]
    BY <1>0, <1>4
  <2>2. CASE Table!ProbeOn(t, "load", "full")
    <3> HIDE DEF Table!ProbeOn
    <3> QED
      BY <1>4, <2>1, <2>2, ProbeOnType DEF Results
  <2> QED
    BY <1>4, <2>1, <2>2
<1>5. CASE Table!StoreColumn(t)
  BY <1>0, <1>5 DEF Table!StoreColumn
<1>6. CASE Table!StoreOccupied(t)
  BY <1>0, <1>6 DEF Table!StoreOccupied
<1>7. CASE Table!ReturnInserted(t)
  BY <1>0, <1>7 DEF Table!ReturnInserted
<1>8. CASE Table!FindPivot(t)
  <2>1. CASE Table!ProbeOn(t, "findPivot", "absent")
    <3> HIDE DEF Table!ProbeOn
    <3> QED
      BY <1>8, <2>1, ProbeOnType DEF Table!FindPivot, Results
  <2> QED
    BY <1>8, <2>1 DEF Table!FindPivot
<1>9. CASE Table!FindOccupied(t)
  <2>1. CASE Table!ProbeOn(t, "findPivot", "absent")
    <3> HIDE DEF Table!ProbeOn
    <3> QED
      BY <1>9, <2>1, ProbeOnType DEF Table!FindOccupied, Results
  <2> QED
    BY <1>9, <2>1 DEF Table!FindOccupied
<1>10. CASE Table!FindColumn(t)
  BY <1>0, <1>10 DEF Table!FindColumn
<1> QED
  BY <1>1, <1>2, <1>3, <1>4, <1>5, <1>6, <1>7, <1>8, <1>9, <1>10
     DEF TableStep, Table!Call, Table!Insert, Table!Find

----------------------------------------------------------------------------
(* Where a pivot can be.                                                   *)

(* A pivot of the table is never behind a probe that found nothing.        *)
LEMMA NotBehindAGap ==
  ASSUME Probing, TableInv, NEW s \in Table!Slots, slotPivot[s] # None,
         NEW n \in Table!Probes, Passed(slotPivot[s], n)
  PROVE  /\ slotPivot[Probe[slotPivot[s]][n]] # None
         /\ slotPivot[Probe[slotPivot[s]][n]] = slotPivot[s] => Probe[slotPivot[s]][n] = s
<1> DEFINE p == slotPivot[s]
<1>1. PICK k \in Table!Probes : Probe[p][k] = s /\ Passed(p, k)
  BY DEF TableInv, ChainInv
<1>2. n \in Int /\ k \in Int
  BY DEF Table!Probes, Probing
<1>3. CASE n < k
  BY <1>1, <1>3 DEF Passed
<1>4. CASE n = k
  BY <1>1, <1>4
<1>5. CASE k < n
  BY <1>1, <1>5 DEF Passed
<1> QED
  BY <1>2, <1>3, <1>4, <1>5

(* Nor is it beyond the last probe.                                        *)
LEMMA NotBeyondTheLast ==
  ASSUME Probing, TableInv, NEW s \in Table!Slots, slotPivot[s] # None
  PROVE  ~Passed(slotPivot[s], Capacity)
<1> DEFINE p == slotPivot[s]
<1>1. PICK k \in Table!Probes : Probe[p][k] = s
  BY DEF TableInv, ChainInv
<1>2. k < Capacity
  BY DEF Table!Probes, Probing
<1> QED
  BY <1>1, <1>2 DEF Passed

LEMMA OneSlot ==
  ASSUME Probing, TableInv, NEW s \in Table!Slots, NEW r \in Table!Slots,
         slotPivot[s] = slotPivot[r], slotPivot[s] # None
  PROVE  s = r
<1>1. PICK k \in Table!Probes : Probe[slotPivot[s]][k] = s /\ Passed(slotPivot[s], k)
  BY DEF TableInv, ChainInv
<1> QED
  BY <1>1, NotBehindAGap

----------------------------------------------------------------------------
(* What a step leaves alone.                                               *)

(* A step of one thread leaves the locals of the others alone.             *)
LEMMA OthersKept ==
  ASSUME Probing, Table!TypeOK, NEW t \in Threads, TableStep(t), NEW u \in Threads, u # t
  PROVE  /\ tablePc'[u] = tablePc[u]
         /\ pivot'[u] = pivot[u] /\ column'[u] = column[u] /\ probe'[u] = probe[u]
         /\ answer'[u] = answer[u] /\ promised'[u] = promised[u]
         /\ Table!Slot(u)' = Table!Slot(u)
<1>1. /\ tablePc'[u] = tablePc[u]
      /\ pivot'[u] = pivot[u] /\ column'[u] = column[u] /\ probe'[u] = probe[u]
      /\ answer'[u] = answer[u] /\ promised'[u] = promised[u]
  <2> USE DEF Table!TypeOK, Table!GoTo, Table!Return, Table!ProbeOn
  <2>1. CASE Table!Call(t)
    BY <2>1 DEF Table!Call, Table!CallInsert, Table!CallFind
  <2>2. CASE Table!Insert(t)
    BY <2>2 DEF Table!Insert, Table!LoadPivot, Table!CasPivot, Table!StoreColumn,
         Table!StoreOccupied, Table!ReturnInserted
  <2>3. CASE Table!Find(t)
    BY <2>3 DEF Table!Find, Table!FindPivot, Table!FindOccupied, Table!FindColumn
  <2> QED
    BY <2>1, <2>2, <2>3 DEF TableStep
<1> QED
  BY <1>1 DEF Table!Slot

(* The table only grows: a pivot stays where it is, and an occupied slot   *)
(* keeps its column.                                                       *)
TableGrows ==
  /\ \A s \in Table!Slots : slotPivot[s] # None => slotPivot'[s] = slotPivot[s]
  /\ \A s \in Table!Slots : slotOccupied[s] => slotOccupied'[s] /\ slotColumn'[s] = slotColumn[s]
  /\ \A p \in Pivots : inserted[p] # None => inserted'[p] = inserted[p]

LEMMA StepGrows ==
  ASSUME Probing, TableInv, NEW t \in Threads, TableStep(t)
  PROVE  TableGrows
<1> USE DEF TableGrows, Table!tableVars
<1>0. Table!TypeOK /\ SlotWriterInv /\ InsertedInv
  BY DEF TableInv
<1>1. tablePc[t] # "idle" => pivot[t] \in Pivots /\ Table!Slot(t) \in Table!Slots
  BY <1>0, SlotIsSlot DEF Table!TypeOK
<1>2. CASE UNCHANGED <<Table!tableVars, inserted>>
  BY <1>2
<1>3. CASE Table!CasPivot(t)
  BY <1>0, <1>1, <1>3 DEF Table!CasPivot, Table!TypeOK
<1>4. CASE Table!StoreColumn(t)
  <2>1. ~slotOccupied[Table!Slot(t)]
    BY <1>0, <1>4 DEF SlotWriterInv, Table!StoreColumn, Writing
  <2> QED
    BY <1>0, <1>4, <2>1 DEF Table!StoreColumn, Table!TypeOK
<1>5. CASE Table!StoreOccupied(t)
  BY <1>0, <1>1, <1>5 DEF Table!StoreOccupied, Table!TypeOK
<1>6. CASE Table!ReturnInserted(t)
  <2>1. inserted[pivot[t]] = None
    BY <1>0, <1>1, <1>6 DEF InsertedInv, Table!ReturnInserted, Writing
  <2> QED
    BY <1>0, <1>6, <2>1 DEF Table!ReturnInserted, Table!TypeOK
<1> QED
  BY <1>2, <1>3, <1>4, <1>5, <1>6
     DEF TableStep, Table!Call, Table!CallInsert, Table!CallFind, Table!Insert,
       Table!LoadPivot, Table!Find, Table!FindPivot, Table!FindOccupied,
         Table!FindColumn

LEMMA PassedKept ==
  ASSUME Probing, TableGrows, NEW p \in Pivots, NEW n, Passed(p, n)
  PROVE  Passed(p, n)'
<1>1. \A j \in Table!Probes : Probe[p][j] \in Table!Slots
  BY DEF Probing
<1> QED
  BY <1>1 DEF TableGrows, Passed

LEMMA PassedOn ==
  ASSUME Probing, NEW p, NEW n \in Table!Probes, Passed(p, n),
         slotPivot[Probe[p][n]] \notin {None, p}
  PROVE  Passed(p, n + 1)
<1>1. \A j \in Table!Probes : j < n + 1 => j < n \/ j = n
  BY DEF Table!Probes, Probing
<1> QED
  BY <1>1 DEF Passed

LEMMA PassedNone == ASSUME Probing, NEW p PROVE Passed(p, 0)
BY DEF Passed, Table!Probes, Probing

LEMMA HeldKept ==
  ASSUME Probing, TableGrows, NEW p \in Pivots, NEW c, Held(p, c)
  PROVE  Held(p, c)'
BY DEF Held, TableGrows, Probing

(* A pivot that the table holds cannot be missed by who looks for it.      *)
LEMMA HeldIsReached ==
  ASSUME Probing, TableInv, NEW p \in Pivots, NEW c, Held(p, c),
         NEW n \in Table!Probes, Passed(p, n)
  PROVE  /\ slotPivot[Probe[p][n]] # None
         /\ slotPivot[Probe[p][n]] = p => slotOccupied[Probe[p][n]]
         /\ n + 1 = Capacity => slotPivot[Probe[p][n]] = p
<1>1. PICK s \in Table!Slots : slotPivot[s] = p /\ slotOccupied[s]
  BY DEF Held
<1>2. slotPivot[s] # None
  BY <1>1 DEF Probing
<1>3. /\ slotPivot[Probe[p][n]] # None
      /\ slotPivot[Probe[p][n]] = p => Probe[p][n] = s
  BY <1>1, <1>2, NotBehindAGap
<1>4. ~Passed(p, Capacity)
  BY <1>1, <1>2, NotBeyondTheLast
<1>5. n + 1 = Capacity => slotPivot[Probe[p][n]] = p
  BY <1>3, <1>4, PassedOn
<1> QED
  BY <1>1, <1>3, <1>5

----------------------------------------------------------------------------
(* Each part of the invariant is preserved.  The other threads lose        *)
(* nothing, for the table only grows; what is left are the steps of the    *)
(* thread itself, and the writes that others could see.                    *)

(* The slot of a thread that has called something.                         *)
LEMMA Here ==
  ASSUME Probing, Table!TypeOK, NEW t \in Threads, tablePc[t] # "idle"
  PROVE  /\ pivot[t] \in Pivots /\ pivot[t] # None
         /\ Table!Slot(t) \in Table!Slots /\ Table!Slot(t) = Probe[pivot[t]][probe[t]]
         /\ probe[t] \in Table!Probes /\ probe[t] \in Int /\ Capacity \in Int
BY SlotIsSlot DEF Table!TypeOK, Probing, Table!Slot, Table!Probes

LEMMA StepInsertInv ==
  ASSUME Probing, TableInv, NEW t \in Threads, TableStep(t)
  PROVE  InsertInv'
<1> SUFFICES ASSUME NEW u \in Threads, tablePc'[u] \in Inserting
             PROVE  column'[u] \in Columns /\ Passed(pivot[u], probe[u])'
  BY DEF InsertInv
<1>0. Table!TypeOK /\ InsertInv /\ TableGrows
  BY StepGrows DEF TableInv
<1>1. CASE tablePc[u] \in Inserting /\ UNCHANGED <<pivot[u], probe[u], column[u]>>
  <2>1. pivot[u] \in Pivots
    BY <1>0, <1>1, Here DEF Inserting, Writing
  <2>2. column[u] \in Columns /\ Passed(pivot[u], probe[u])
    BY <1>0, <1>1 DEF InsertInv
  <2>3. Passed(pivot[u], probe[u])'
    BY <1>0, <1>1, <2>1, <2>2, PassedKept DEF Passed
  <2> QED
    BY <1>1, <2>2, <2>3
<1>2. CASE u # t
  BY <1>0, <1>1, <1>2, OthersKept
<1>3. CASE u = t /\ Table!Call(t)
  <2>1. ASSUME NEW p \in Pivots, NEW c \in Columns, Table!CallInsert(t, p, c)
        PROVE  column'[u] \in Columns /\ Passed(pivot[u], probe[u])'
    <3>1. column'[t] = c /\ pivot'[t] = p /\ probe'[t] = 0
      BY <1>0, <2>1 DEF Table!CallInsert, Table!TypeOK
    <3> QED
      BY <1>3, <3>1 DEF Passed, Table!Probes, Probing
  <2>2. ASSUME NEW p \in Pivots, Table!CallFind(t, p)
        PROVE  FALSE
    BY <1>0, <1>3, <2>2 DEF Table!CallFind, Table!TypeOK, Table!GoTo, Inserting, Writing
  <2> QED
    BY <1>3, <2>1, <2>2 DEF Table!Call
<1>4. ASSUME u = t, tablePc[t] \in {"load", "cas"}, Table!ProbeOn(t, "load", "full"),
             slotPivot[Table!Slot(t)] \notin {pivot[t], None},
             UNCHANGED <<pivot, column>>
      PROVE  column'[u] \in Columns /\ Passed(pivot[u], probe[u])'
  <2>1. pivot[t] \in Pivots /\ Table!Slot(t) = Probe[pivot[t]][probe[t]] /\ probe[t] \in Table!Probes
    BY <1>0, <1>4, Here
  <2>2. column[t] \in Columns /\ Passed(pivot[t], probe[t])
    BY <1>0, <1>4 DEF InsertInv, Inserting
  <2>3. Passed(pivot[t], probe[t] + 1)
    BY <1>4, <2>1, <2>2, PassedOn
  <2>4. probe'[t] = probe[t] + 1
    BY <1>0, <1>4 DEF Table!ProbeOn, Table!Return, Table!GoTo, Table!TypeOK, Inserting,
         Writing
  <2>5. \A j \in Table!Probes : j < probe[t] + 1 =>
          slotPivot'[Probe[pivot[t]][j]] \notin {None, pivot[t]}
    BY <1>0, <2>1, <2>3 DEF TableGrows, Passed, Probing
  <2> QED
    BY <1>4, <2>2, <2>4, <2>5 DEF Passed
<1>5. CASE u = t /\ Table!Insert(t)
  <2>1. CASE Table!LoadPivot(t)
    BY <1>0, <1>1, <1>4, <1>5, <2>1 DEF Table!LoadPivot, Table!GoTo, Table!Return,
         Table!TypeOK, Inserting, Writing
  <2>2. CASE Table!CasPivot(t)
    BY <1>0, <1>1, <1>4, <1>5, <2>2 DEF Table!CasPivot, Table!GoTo, Table!Return,
         Table!TypeOK, Inserting, Writing
  <2>3. CASE Table!StoreColumn(t) \/ Table!StoreOccupied(t)
    BY <1>1, <1>5, <2>3 DEF Table!StoreColumn, Table!StoreOccupied, Inserting, Writing
  <2>4. CASE Table!ReturnInserted(t)
    BY <1>0, <1>5, <2>4 DEF Table!ReturnInserted, Table!GoTo, Table!Return, Table!TypeOK,
         Inserting, Writing
  <2> QED
    BY <1>5, <2>1, <2>2, <2>3, <2>4 DEF Table!Insert
<1>6. CASE u = t /\ Table!Find(t)
  BY <1>0, <1>6 DEF Table!Find, Table!FindPivot, Table!FindOccupied, Table!FindColumn,
       Table!ProbeOn, Table!GoTo, Table!Return, Table!TypeOK,
                    Inserting, Writing
<1> QED
  BY <1>2, <1>3, <1>5, <1>6 DEF TableStep

(* A step that changes the pivots of the table is a compare-and-swap won.  *)
LEMMA Wins ==
  ASSUME Probing, TableInv, NEW t \in Threads, TableStep(t), slotPivot' # slotPivot
  PROVE  /\ tablePc[t] = "cas" /\ tablePc'[t] = "column"
         /\ slotPivot[Table!Slot(t)] = None
         /\ slotPivot' = [slotPivot EXCEPT ![Table!Slot(t)] = pivot[t]]
         /\ UNCHANGED <<slotColumn, slotOccupied, pivot, column, probe, answer, inserted,
                        promised>>
BY DEF TableStep, Table!Call, Table!CallInsert, Table!CallFind, Table!Insert,
     Table!LoadPivot, Table!CasPivot, Table!StoreColumn,
       Table!StoreOccupied, Table!ReturnInserted, Table!Find, Table!FindPivot,
       Table!FindOccupied, Table!FindColumn, Table!tableVars,
       TableInv, Table!TypeOK, Table!GoTo

LEMMA StepChainInv ==
  ASSUME Probing, TableInv, NEW t \in Threads, TableStep(t)
  PROVE  ChainInv'
<1> SUFFICES ASSUME NEW s \in Table!Slots, slotPivot'[s] # None
             PROVE  \E k \in Table!Probes : Probe[slotPivot'[s]][k] = s /\ Passed(slotPivot[s], k)'
  BY DEF ChainInv
<1>0. Table!TypeOK /\ TableGrows
  BY StepGrows DEF TableInv
<1>1. CASE slotPivot[s] # None
  <2>1. PICK k \in Table!Probes : Probe[slotPivot[s]][k] = s /\ Passed(slotPivot[s], k)
    BY <1>1 DEF TableInv, ChainInv
  <2>2. slotPivot'[s] = slotPivot[s] /\ slotPivot[s] \in Pivots
    BY <1>0, <1>1 DEF TableGrows, Table!TypeOK
  <2>3. \A j \in Table!Probes : j < k => slotPivot'[Probe[slotPivot[s]][j]] \notin {None, slotPivot[s]}
    BY <1>0, <2>1, <2>2 DEF TableGrows, Passed, Probing
  <2> QED
    BY <2>1, <2>2, <2>3 DEF Passed
<1>2. CASE slotPivot[s] = None
  <2>1. /\ tablePc[t] = "cas" /\ s = Table!Slot(t)
        /\ slotPivot'[s] = pivot[t]
    BY <1>0, <1>2, Wins DEF Table!TypeOK
  <2>2. /\ pivot[t] \in Pivots /\ Table!Slot(t) = Probe[pivot[t]][probe[t]] /\ probe[t] \in Table!Probes
    BY <1>0, <2>1, Here
  <2>3. Passed(pivot[t], probe[t])
    BY <2>1 DEF TableInv, InsertInv, Inserting
  <2>4. \A j \in Table!Probes : j < probe[t] => slotPivot'[Probe[pivot[t]][j]] \notin {None, pivot[t]}
    BY <1>0, <2>2, <2>3 DEF TableGrows, Passed, Probing
  <2> QED
    BY <2>1, <2>2, <2>4 DEF Passed
<1> QED
  BY <1>1, <1>2

(* The columns and the flags are written by the one writer of the slot.    *)
LEMMA StepWriterInv ==
  ASSUME Probing, TableInv, NEW t \in Threads, TableStep(t)
  PROVE  SlotWriterInv'
<1> SUFFICES ASSUME NEW u \in Threads, tablePc'[u] \in Writing
             PROVE  /\ slotPivot'[Table!Slot(u)'] = pivot'[u]
                    /\ tablePc'[u] # "column" => slotColumn'[Table!Slot(u)'] = column'[u]
                    /\ slotOccupied'[Table!Slot(u)'] <=> tablePc'[u] = "inserted"
  BY DEF SlotWriterInv
<1>0. Table!TypeOK /\ TableGrows /\ SlotWriterInv /\ OneWriter /\ OccupiedInv
  BY StepGrows DEF TableInv
<1>1. CASE u # t
  <2>1. /\ tablePc'[u] = tablePc[u] /\ pivot'[u] = pivot[u] /\ column'[u] = column[u]
        /\ Table!Slot(u)' = Table!Slot(u) /\ Table!Slot(u) \in Table!Slots /\ pivot[u] # None
    BY <1>0, <1>1, OthersKept, Here DEF Writing
  <2>2. /\ slotPivot[Table!Slot(u)] = pivot[u]
        /\ tablePc[u] # "column" => slotColumn[Table!Slot(u)] = column[u]
        /\ slotOccupied[Table!Slot(u)] <=> tablePc[u] = "inserted"
    BY <1>0, <2>1 DEF SlotWriterInv
  <2>3. slotPivot'[Table!Slot(u)] = pivot[u]
    BY <1>0, <2>1, <2>2 DEF TableGrows
  <2>4. ASSUME tablePc[t] \in Writing
        PROVE  Table!Slot(t) # Table!Slot(u)
    BY <1>0, <1>1, <2>1, <2>2, <2>4 DEF SlotWriterInv, OneWriter
  <2>5. slotColumn'[Table!Slot(u)] = slotColumn[Table!Slot(u)] /\ slotOccupied'[Table!Slot(u)] = slotOccupied[Table!Slot(u)]
    <3>1. CASE Table!StoreColumn(t)
      BY <1>0, <2>1, <2>4, <3>1 DEF Table!StoreColumn, Writing, Table!TypeOK
    <3>2. CASE Table!StoreOccupied(t)
      BY <1>0, <2>1, <2>4, <3>2 DEF Table!StoreOccupied, Writing, Table!TypeOK
    <3>3. CASE UNCHANGED <<slotColumn, slotOccupied>>
      BY <3>3
    <3> QED
      BY <3>1, <3>2, <3>3
         DEF TableStep, Table!Call, Table!CallInsert, Table!CallFind, Table!Insert,
           Table!LoadPivot, Table!CasPivot, Table!ReturnInserted,
             Table!Find, Table!FindPivot, Table!FindOccupied, Table!FindColumn,
             Table!tableVars
  <2> QED
    BY <2>1, <2>2, <2>3, <2>5
<1>2. CASE u = t
  <2>1. /\ tablePc[t] \in {"cas", "column", "occupied"}
        /\ Table!CasPivot(t) \/ Table!StoreColumn(t) \/ Table!StoreOccupied(t)
    BY <1>0, <1>2
       DEF TableStep, Table!Call, Table!CallInsert, Table!CallFind, Table!Insert,
         Table!LoadPivot, Table!CasPivot, Table!StoreColumn,
           Table!StoreOccupied, Table!ReturnInserted, Table!Find, Table!FindPivot,
           Table!FindOccupied, Table!FindColumn, Table!ProbeOn,
           Table!GoTo, Table!Return, Table!TypeOK, Writing
  <2>2. Table!Slot(t) \in Table!Slots /\ pivot[t] # None
    BY <1>0, <2>1, Here
  <2>3. CASE Table!CasPivot(t)
    <3>1. /\ slotPivot[Table!Slot(t)] = None /\ slotPivot' = [slotPivot EXCEPT ![Table!Slot(t)] = pivot[t]]
          /\ tablePc'[t] = "column" /\ Table!Slot(t)' = Table!Slot(t)
          /\ UNCHANGED <<slotOccupied, pivot>>
      BY <1>0, <1>2, <2>3 DEF Table!CasPivot, Table!ProbeOn, Table!GoTo, Table!Return,
           Table!TypeOK, Writing, Table!Slot
    <3>2. ~slotOccupied[Table!Slot(t)]
      BY <1>0, <2>2, <3>1 DEF OccupiedInv
    <3> QED
      BY <1>0, <1>2, <2>2, <3>1, <3>2 DEF Table!TypeOK
  <2>4. CASE Table!StoreColumn(t)
    <3>1. Table!Slot(t)' = Table!Slot(t) /\ tablePc[t] = "column" /\ tablePc'[t] = "occupied"
      BY <1>0, <2>4 DEF Table!StoreColumn, Table!Slot, Table!GoTo, Table!TypeOK
    <3>2. slotPivot[Table!Slot(t)] = pivot[t] /\ ~slotOccupied[Table!Slot(t)]
      BY <1>0, <3>1 DEF SlotWriterInv, Writing
    <3> QED
      BY <1>0, <1>2, <2>2, <2>4, <3>1, <3>2 DEF Table!StoreColumn, Table!TypeOK
  <2>5. CASE Table!StoreOccupied(t)
    <3>1. Table!Slot(t)' = Table!Slot(t) /\ tablePc[t] = "occupied" /\ tablePc'[t] = "inserted"
      BY <1>0, <2>5 DEF Table!StoreOccupied, Table!Slot, Table!GoTo, Table!TypeOK
    <3>2. slotPivot[Table!Slot(t)] = pivot[t] /\ slotColumn[Table!Slot(t)] = column[t]
      BY <1>0, <3>1 DEF SlotWriterInv, Writing
    <3> QED
      BY <1>0, <1>2, <2>2, <2>5, <3>1, <3>2 DEF Table!StoreOccupied, Table!TypeOK
  <2> QED
    BY <2>1, <2>3, <2>4, <2>5
<1> QED
  BY <1>1, <1>2

(* A thread begins to write only by a compare-and-swap that it wins.       *)
LEMMA NewWriter ==
  ASSUME Probing, TableInv, NEW t \in Threads, TableStep(t), tablePc'[t] \in Writing
  PROVE  /\ pivot'[t] = pivot[t]
         /\ tablePc[t] \in Writing \/ slotPivot' # slotPivot
<1>1. Table!TypeOK
  BY DEF TableInv
<1>2. CASE Table!CasPivot(t)
  <2>1. /\ slotPivot[Table!Slot(t)] = None /\ slotPivot'[Table!Slot(t)] = pivot[t]
        /\ UNCHANGED pivot
    BY <1>1, <1>2, Here DEF Table!CasPivot, Table!ProbeOn, Table!GoTo, Table!Return,
         Table!TypeOK, Writing
  <2>2. pivot[t] # None
    BY <1>1, <1>2, Here DEF Table!CasPivot
  <2> QED
    BY <2>1, <2>2
<1>3. CASE tablePc[t] \in Writing /\ UNCHANGED pivot
  BY <1>3
<1> QED
  BY <1>1, <1>2, <1>3
     DEF TableStep, Table!Call, Table!CallInsert, Table!CallFind, Table!Insert,
       Table!LoadPivot, Table!StoreColumn,
         Table!StoreOccupied, Table!ReturnInserted, Table!Find, Table!FindPivot,
         Table!FindOccupied, Table!FindColumn, Table!ProbeOn,
         Table!GoTo, Table!Return, Table!TypeOK, Writing

LEMMA StepOneWriter ==
  ASSUME Probing, TableInv, NEW t \in Threads, TableStep(t)
  PROVE  OneWriter'
<1>0. Table!TypeOK /\ OneWriter /\ SlotWriterInv /\ InsertInv
  BY DEF TableInv
<1>1. ASSUME NEW u \in Threads, u # t, tablePc'[t] \in Writing, tablePc'[u] \in Writing,
             pivot'[t] = pivot'[u]
      PROVE  FALSE
  <2>1. /\ tablePc[u] \in Writing /\ pivot'[u] = pivot[u] /\ pivot[u] # None
        /\ Table!Slot(u) \in Table!Slots /\ slotPivot[Table!Slot(u)] = pivot[u]
    BY <1>0, <1>1, OthersKept, Here DEF Writing, SlotWriterInv
  <2>2. pivot'[t] = pivot[t] /\ (tablePc[t] \in Writing \/ slotPivot' # slotPivot)
    BY <1>1, NewWriter
  <2>3. CASE tablePc[t] \in Writing
    BY <1>0, <1>1, <2>1, <2>2, <2>3 DEF OneWriter
  <2>4. CASE slotPivot' # slotPivot
    <3>1. tablePc[t] = "cas" /\ slotPivot[Table!Slot(t)] = None
      BY <2>4, Wins
    <3>2. probe[t] \in Table!Probes /\ Table!Slot(t) = Probe[pivot[t]][probe[t]]
      BY <1>0, <3>1, Here
    <3>3. Passed(pivot[t], probe[t])
      BY <1>0, <3>1 DEF InsertInv, Inserting
    <3>4. slotPivot[Table!Slot(u)] = pivot[t]
      BY <1>1, <2>1, <2>2
    <3> QED
      BY <2>1, <3>1, <3>2, <3>3, <3>4, NotBehindAGap
  <2> QED
    BY <2>2, <2>3, <2>4
<1>2. ASSUME NEW u \in Threads, NEW v \in Threads, u # t, v # t,
             tablePc'[u] \in Writing, tablePc'[v] \in Writing, pivot'[u] = pivot'[v]
      PROVE  u = v
  BY <1>0, <1>2, OthersKept DEF OneWriter
<1> QED
  BY <1>1, <1>2 DEF OneWriter

LEMMA StepOccupiedInv ==
  ASSUME Probing, TableInv, NEW t \in Threads, TableStep(t)
  PROVE  OccupiedInv'
<1>0. Table!TypeOK /\ TableGrows /\ OccupiedInv /\ SlotWriterInv /\ InsertInv
  BY StepGrows DEF TableInv
<1>1. ASSUME NEW s \in Table!Slots, slotOccupied[s]
      PROVE  slotPivot'[s] # None /\ slotColumn'[s] # None
  BY <1>0, <1>1 DEF TableGrows, OccupiedInv
<1>2. ASSUME NEW s \in Table!Slots, ~slotOccupied[s], slotOccupied'[s]
      PROVE  slotPivot'[s] # None /\ slotColumn'[s] # None
  <2>1. Table!StoreOccupied(t)
    BY <1>2 DEF TableStep, Table!Call, Table!CallInsert, Table!CallFind, Table!Insert,
         Table!LoadPivot, Table!CasPivot, Table!StoreColumn,
         Table!ReturnInserted, Table!Find, Table!FindPivot, Table!FindOccupied,
         Table!FindColumn, Table!tableVars
  <2>2. s = Table!Slot(t) /\ tablePc[t] = "occupied" /\ UNCHANGED <<slotPivot, slotColumn>>
    BY <1>0, <1>2, <2>1 DEF Table!StoreOccupied, Table!TypeOK
  <2>3. slotPivot[s] = pivot[t] /\ slotColumn[s] = column[t] /\ column[t] \in Columns
    BY <1>0, <2>2 DEF SlotWriterInv, InsertInv, Inserting, Writing
  <2> QED
    BY <1>0, <2>2, <2>3, Here DEF Probing
<1> QED
  BY <1>1, <1>2 DEF OccupiedInv

LEMMA StepInsertedInv ==
  ASSUME Probing, TableInv, NEW t \in Threads, TableStep(t)
  PROVE  InsertedInv'
<1> SUFFICES ASSUME NEW p \in Pivots, inserted'[p] # None
             PROVE  /\ Held(p, inserted[p])'
                    /\ \A u \in Threads : tablePc'[u] \in Writing => pivot'[u] # p
  BY DEF InsertedInv, Held
<1>0. Table!TypeOK /\ TableGrows /\ InsertedInv /\ SlotWriterInv /\ OneWriter /\ InsertInv
  BY StepGrows DEF TableInv
<1>1. CASE inserted[p] # None
  <2>1. Held(p, inserted[p]) /\ inserted'[p] = inserted[p]
    BY <1>0, <1>1 DEF InsertedInv, TableGrows
  <2>2. Held(p, inserted[p])'
    BY <1>0, <2>1, HeldKept DEF Held
  <2>3. ASSUME NEW u \in Threads, u # t, tablePc'[u] \in Writing
        PROVE  pivot'[u] # p
    BY <1>0, <1>1, <2>3, OthersKept DEF InsertedInv
  <2>4. ASSUME tablePc'[t] \in Writing, pivot'[t] = p
        PROVE  FALSE
    <3>1. pivot[t] = p /\ (tablePc[t] \in Writing \/ slotPivot' # slotPivot)
      BY <2>4, NewWriter
    <3>2. CASE tablePc[t] \in Writing
      BY <1>0, <1>1, <3>1, <3>2 DEF InsertedInv
    <3>3. CASE slotPivot' # slotPivot
      <4>1. tablePc[t] = "cas" /\ slotPivot[Table!Slot(t)] = None
        BY <3>3, Wins
      <4>2. probe[t] \in Table!Probes /\ Table!Slot(t) = Probe[p][probe[t]]
        BY <1>0, <3>1, <4>1, Here
      <4>3. Passed(p, probe[t])
        BY <1>0, <3>1, <4>1 DEF InsertInv, Inserting
      <4> QED
        BY <2>1, <4>1, <4>2, <4>3, HeldIsReached
    <3> QED
      BY <3>1, <3>2, <3>3
  <2> QED
    BY <2>1, <2>2, <2>3, <2>4 DEF Held
<1>2. CASE inserted[p] = None
  <2>1. Table!ReturnInserted(t) /\ tablePc[t] = "inserted" /\ p = pivot[t] /\ inserted'[p] = column[t]
    BY <1>0, <1>2 DEF TableStep, Table!Call, Table!CallInsert, Table!CallFind,
         Table!Insert, Table!LoadPivot, Table!CasPivot,
         Table!StoreColumn, Table!StoreOccupied, Table!ReturnInserted, Table!Find,
         Table!FindPivot, Table!FindOccupied,
         Table!FindColumn, Table!TypeOK
  <2>2. /\ slotPivot[Table!Slot(t)] = p /\ slotOccupied[Table!Slot(t)] /\ slotColumn[Table!Slot(t)] = column[t]
        /\ Table!Slot(t) \in Table!Slots
    BY <1>0, <2>1, Here DEF SlotWriterInv, Writing
  <2>3. Held(p, inserted[p])'
    BY <2>1, <2>2 DEF Held, Table!ReturnInserted, Table!tableVars
  <2>4. tablePc'[t] = "idle"
    BY <1>0, <2>1 DEF Table!ReturnInserted, Table!Return, Table!GoTo, Table!TypeOK
  <2>5. ASSUME NEW u \in Threads, u # t, tablePc'[u] \in Writing
        PROVE  pivot'[u] # p
    BY <1>0, <2>1, <2>5, OthersKept DEF OneWriter, Writing
  <2> QED
    BY <2>3, <2>4, <2>5 DEF Writing
<1> QED
  BY <1>1, <1>2

LEMMA StepPromiseInv ==
  ASSUME Probing, TableInv, NEW t \in Threads, TableStep(t)
  PROVE  PromiseInv'
<1> SUFFICES ASSUME NEW u \in Threads,
                    tablePc'[u] \in Finding \/ (tablePc'[u] = "idle" /\ answer'[u] \in {"found", "absent"})
             PROVE  /\ pivot'[u] \in Pivots
                    /\ promised'[u] # None => inserted'[pivot'[u]] = promised'[u]
  BY DEF PromiseInv
<1>0. Table!TypeOK /\ TableGrows /\ PromiseInv
  BY StepGrows DEF TableInv
<1>1. CASE /\ tablePc[u] \in Finding \/ (tablePc[u] = "idle" /\ answer[u] \in {"found", "absent"})
           /\ UNCHANGED <<pivot[u], promised[u]>>
  <2>1. /\ pivot[u] \in Pivots
        /\ promised[u] # None => inserted[pivot[u]] = promised[u]
    BY <1>1 DEF TableInv, PromiseInv
  <2> QED
    BY <1>0, <1>1, <2>1 DEF TableGrows
<1>2. CASE u # t
  BY <1>0, <1>1, <1>2, OthersKept
<1>3. CASE u = t /\ Table!Call(t)
  <2>1. ASSUME NEW p \in Pivots, Table!CallFind(t, p)
        PROVE  pivot'[t] = p /\ promised'[t] = inserted[p] /\ inserted' = inserted
    BY <1>0, <2>1 DEF Table!CallFind, Table!TypeOK
  <2>2. ASSUME NEW p \in Pivots, NEW c \in Columns, Table!CallInsert(t, p, c)
        PROVE  FALSE
    BY <1>0, <1>3, <2>2 DEF Table!CallInsert, Table!TypeOK, Table!GoTo, Finding
  <2> QED
    BY <1>3, <2>1, <2>2 DEF Table!Call
<1>4. CASE u = t /\ Table!Insert(t)
  BY <1>0, <1>4 DEF Table!Insert, Table!LoadPivot, Table!CasPivot, Table!StoreColumn,
       Table!StoreOccupied, Table!ReturnInserted,
                    Table!ProbeOn, Table!GoTo, Table!Return, Table!TypeOK, Finding
<1>5. CASE u = t /\ Table!Find(t)
  BY <1>1, <1>5 DEF Table!Find, Table!FindPivot, Table!FindOccupied, Table!FindColumn,
       Finding
<1> QED
  BY <1>2, <1>3, <1>4, <1>5 DEF TableStep

(* What a find does at the slot it looks at.                               *)
LEMMA FindStep ==
  ASSUME Probing, TableInv, NEW t \in Threads, Table!Find(t), promised[t] # None,
         tablePc[t] \in {"findPivot", "findOccupied"}
  PROVE  /\ tablePc'[t] \in Finding
         /\ \/ probe'[t] = probe[t]
            \/ probe'[t] = probe[t] + 1 /\ Passed(pivot[t], probe[t] + 1)
<1>0. Table!TypeOK /\ InsertedInv /\ FindInv /\ PromiseInv
  BY DEF TableInv
<1>1. /\ pivot[t] \in Pivots /\ pivot[t] # None /\ probe[t] \in Table!Probes
      /\ Table!Slot(t) = Probe[pivot[t]][probe[t]]
  BY <1>0, Here
<1>2. Held(pivot[t], inserted[pivot[t]]) /\ Passed(pivot[t], probe[t])
  BY <1>0, <1>1 DEF PromiseInv, InsertedInv, FindInv, Finding
<1>3. /\ slotPivot[Table!Slot(t)] # None
      /\ slotPivot[Table!Slot(t)] = pivot[t] => slotOccupied[Table!Slot(t)]
      /\ probe[t] + 1 = Capacity => slotPivot[Table!Slot(t)] = pivot[t]
  BY <1>1, <1>2, HeldIsReached
<1>4. CASE slotPivot[Table!Slot(t)] # pivot[t]
  <2>1. Passed(pivot[t], probe[t] + 1)
    BY <1>1, <1>2, <1>3, <1>4, PassedOn
  <2>2. tablePc[t] = "findPivot"
    BY <1>0, <1>4 DEF FindInv
  <2>3. Table!ProbeOn(t, "findPivot", "absent") /\ probe[t] + 1 # Capacity
    BY <1>3, <1>4, <2>2 DEF Table!Find, Table!FindPivot, Table!FindOccupied,
         Table!FindColumn
  <2> QED
    BY <1>0, <2>1, <2>3 DEF Table!ProbeOn, Table!GoTo, Table!TypeOK, Finding
<1>5. CASE slotPivot[Table!Slot(t)] = pivot[t]
  BY <1>0, <1>1, <1>3, <1>5 DEF Table!Find, Table!FindPivot, Table!FindOccupied,
       Table!FindColumn, Table!GoTo, Table!TypeOK, Finding
<1> QED
  BY <1>4, <1>5

LEMMA StepFindInv ==
  ASSUME Probing, TableInv, NEW t \in Threads, TableStep(t)
  PROVE  FindInv'
<1> SUFFICES ASSUME NEW u \in Threads, tablePc'[u] \in Finding
             PROVE  /\ promised'[u] # None => Passed(pivot[u], probe[u])'
                    /\ tablePc'[u] \in {"findOccupied", "findColumn"} =>
                         slotPivot'[Table!Slot(u)'] = pivot'[u]
                    /\ tablePc'[u] = "findColumn" => slotOccupied'[Table!Slot(u)']
  BY DEF FindInv, Finding
<1>0. Table!TypeOK /\ TableGrows /\ FindInv
  BY StepGrows DEF TableInv
<1>1. CASE u # t
  <2>1. /\ tablePc'[u] = tablePc[u] /\ pivot'[u] = pivot[u] /\ probe'[u] = probe[u]
        /\ promised'[u] = promised[u] /\ Table!Slot(u)' = Table!Slot(u)
        /\ Table!Slot(u) \in Table!Slots /\ pivot[u] \in Pivots /\ pivot[u] # None
    BY <1>0, <1>1, OthersKept, Here DEF Finding
  <2>2. promised[u] # None => Passed(pivot[u], probe[u])'
    BY <1>0, <2>1, PassedKept DEF Passed, FindInv
  <2> QED
    BY <1>0, <2>1, <2>2 DEF FindInv, TableGrows
<1>2. CASE u = t /\ Table!Call(t)
  <2>1. ASSUME NEW p \in Pivots, Table!CallFind(t, p)
        PROVE  probe'[t] = 0 /\ tablePc'[t] = "findPivot"
    BY <1>0, <2>1 DEF Table!CallFind, Table!TypeOK, Table!GoTo
  <2>2. ASSUME NEW p \in Pivots, NEW c \in Columns, Table!CallInsert(t, p, c)
        PROVE  FALSE
    BY <1>0, <1>2, <2>2 DEF Table!CallInsert, Table!TypeOK, Table!GoTo, Finding
  <2>3. probe'[t] = 0 /\ tablePc'[t] = "findPivot"
    BY <1>2, <2>1, <2>2 DEF Table!Call
  <2> QED
    BY <1>2, <2>3 DEF Passed, Table!Probes, Probing
<1>3. CASE u = t /\ Table!Insert(t)
  BY <1>0, <1>3 DEF Table!Insert, Table!LoadPivot, Table!CasPivot, Table!StoreColumn,
       Table!StoreOccupied, Table!ReturnInserted,
                    Table!ProbeOn, Table!GoTo, Table!Return, Table!TypeOK, Finding
<1>4. CASE u = t /\ Table!Find(t)
  <2>1. /\ tablePc[t] \in {"findPivot", "findOccupied"} /\ pivot[t] \in Pivots
        /\ Table!Slot(t) \in Table!Slots /\ pivot[t] # None
        /\ UNCHANGED <<Table!tableVars, pivot, promised>>
    <3>1. tablePc[t] \in {"findPivot", "findOccupied"} /\ UNCHANGED <<Table!tableVars, pivot, promised>>
      BY <1>0, <1>4 DEF Table!Find, Table!FindPivot, Table!FindOccupied, Table!FindColumn,
           Table!Return, Table!GoTo, Table!TypeOK, Finding
    <3> QED
      BY <1>0, <3>1, Here
  <2>2. ASSUME promised[t] # None
        PROVE  Passed(pivot[t], probe[t])'
    <3>1. /\ Passed(pivot[t], probe[t])
          /\ \/ probe'[t] = probe[t]
             \/ probe'[t] = probe[t] + 1 /\ Passed(pivot[t], probe[t] + 1)
      BY <1>0, <1>4, <2>1, <2>2, FindStep DEF FindInv, Finding
    <3> QED
      BY <2>1, <3>1 DEF Passed, Table!tableVars
  <2>3. ASSUME tablePc'[t] \in {"findOccupied", "findColumn"}
        PROVE  /\ slotPivot[Table!Slot(t)] = pivot[t] /\ Table!Slot(t)' = Table!Slot(t)
               /\ tablePc'[t] = "findColumn" => slotOccupied[Table!Slot(t)]
    BY <1>0, <1>4, <2>1, <2>3 DEF Table!Find, Table!FindPivot, Table!FindOccupied,
         Table!FindColumn, Table!ProbeOn, Table!GoTo,
         Table!Return, Table!TypeOK, FindInv, Table!Slot
  <2> QED
    BY <1>4, <2>1, <2>2, <2>3 DEF Table!tableVars
<1> QED
  BY <1>1, <1>2, <1>3, <1>4 DEF TableStep

LEMMA StepResultInv ==
  ASSUME Probing, TableInv, NEW t \in Threads, TableStep(t)
  PROVE  ResultInv'
<1> SUFFICES ASSUME NEW u \in Threads, tablePc'[u] = "idle"
             PROVE  /\ answer'[u] = "absent" => promised'[u] = None
                    /\ answer'[u] = "found" =>
                         column'[u] # None /\ Held(pivot[u], column[u])'
  BY DEF ResultInv
<1>0. Table!TypeOK /\ TableGrows /\ ResultInv /\ FindInv /\ PromiseInv /\ OccupiedInv
  BY StepGrows DEF TableInv
<1>1. CASE u # t
  <2>1. /\ tablePc[u] = "idle" /\ pivot'[u] = pivot[u] /\ column'[u] = column[u]
        /\ answer'[u] = answer[u] /\ promised'[u] = promised[u]
    BY <1>0, <1>1, OthersKept
  <2>2. ASSUME answer[u] = "found"
        PROVE  column[u] # None /\ Held(pivot[u], column[u])'
    <3>1. pivot[u] \in Pivots /\ column[u] # None /\ Held(pivot[u], column[u])
      BY <1>0, <2>1, <2>2 DEF ResultInv, PromiseInv
    <3> QED
      BY <1>0, <2>1, <3>1, HeldKept DEF Held
  <2> QED
    BY <1>0, <2>1, <2>2 DEF ResultInv
<1>2. CASE u = t /\ Table!Call(t)
  BY <1>0, <1>2 DEF Table!Call, Table!CallInsert, Table!CallFind, Table!GoTo, Table!TypeOK
<1>3. CASE u = t /\ Table!Insert(t)
  BY <1>0, <1>3 DEF Table!Insert, Table!LoadPivot, Table!CasPivot, Table!StoreColumn,
       Table!StoreOccupied, Table!ReturnInserted,
                    Table!ProbeOn, Table!GoTo, Table!Return, Table!TypeOK
<1>4. CASE u = t /\ Table!Find(t)
  <2>1. /\ tablePc[t] \in Finding /\ pivot[t] \in Pivots /\ Table!Slot(t) \in Table!Slots /\ pivot[t] # None
        /\ UNCHANGED <<Table!tableVars, pivot, promised>>
    <3>1. tablePc[t] \in Finding /\ UNCHANGED <<Table!tableVars, pivot, promised>>
      BY <1>4 DEF Table!Find, Table!FindPivot, Table!FindOccupied, Table!FindColumn, Finding
    <3> QED
      BY <1>0, <3>1, Here DEF Finding
  <2>2. CASE tablePc[t] \in {"findPivot", "findOccupied"}
    <3>1. promised[t] = None
      BY <1>4, <2>2, FindStep DEF Finding
    <3>2. answer'[t] = "absent"
      BY <1>0, <1>4, <2>2 DEF Table!Find, Table!FindPivot, Table!FindOccupied,
           Table!FindColumn, Table!ProbeOn, Table!GoTo,
           Table!Return, Table!TypeOK
    <3> QED
      BY <1>4, <2>1, <3>1, <3>2
  <2>3. CASE tablePc[t] = "findColumn"
    <3>1. answer'[t] = "found" /\ column'[t] = slotColumn[Table!Slot(t)]
      BY <1>0, <1>4, <2>3 DEF Table!Find, Table!FindPivot, Table!FindOccupied,
           Table!FindColumn, Table!Return, Table!TypeOK
    <3>2. slotPivot[Table!Slot(t)] = pivot[t] /\ slotOccupied[Table!Slot(t)] /\ slotColumn[Table!Slot(t)] # None
      BY <1>0, <2>1, <2>3 DEF FindInv, OccupiedInv
    <3> QED
      BY <1>4, <2>1, <3>1, <3>2 DEF Held, Table!tableVars
  <2> QED
    BY <2>1, <2>2, <2>3 DEF Finding
<1> QED
  BY <1>1, <1>2, <1>3, <1>4 DEF TableStep

----------------------------------------------------------------------------
(* The theorems.                                                           *)

LEMMA TableStarts == Probing /\ Table!Init => TableInv
<1> SUFFICES ASSUME Probing, Table!Init
             PROVE  TableInv
  OBVIOUS
<1> USE DEF Table!Init, Inserting, Finding, Writing
<1>1. Table!TypeOK
  BY TableStartsTyped
<1>2. InsertInv /\ ChainInv /\ SlotWriterInv /\ OneWriter /\ OccupiedInv /\ InsertedInv
  BY DEF InsertInv, ChainInv, SlotWriterInv, OneWriter, OccupiedInv, InsertedInv
<1>3. PromiseInv /\ FindInv /\ ResultInv
  BY DEF PromiseInv, FindInv, ResultInv
<1> QED
  BY <1>1, <1>2, <1>3 DEF TableInv

LEMMA TableSteps ==
  ASSUME Probing, TableInv, NEW t \in Threads, TableStep(t)
  PROVE  TableInv'
<1>1. Table!TypeOK'
  BY TableKeepsTypes DEF TableInv
<1> QED
  BY <1>1, StepInsertInv, StepChainInv, StepWriterInv, StepOneWriter, StepOccupiedInv,
     StepInsertedInv, StepPromiseInv, StepFindInv, StepResultInv DEF TableInv

LEMMA TableStutters == TableInv /\ UNCHANGED Table!vars => TableInv'
BY DEF TableInv, Table!vars, Table!tableVars, Table!TypeOK, InsertInv, ChainInv,
       SlotWriterInv, OneWriter, OccupiedInv, InsertedInv, PromiseInv, FindInv, ResultInv,
       Passed, Held, Table!Slot

(* The specification of all structures runs the table.                     *)
LEMMA TableRuns ==
  /\ AllInit => Table!Init
  /\ [AllNext]_AllVars => Table!Next \/ UNCHANGED Table!vars
BY DEF AllInit, AllNext, AllVars, tableVars, Table!vars, Table!tableVars

(* The invariant of the table holds in every reachable state.              *)
THEOREM TableInvariant == ASSUME Probing PROVE AllSpec => []TableInv
<1>1. AllInit => TableInv
  BY TableRuns, TableStarts
<1>2. TableInv /\ [AllNext]_AllVars => TableInv'
  BY TableRuns, TableSteps, TableStutters DEF Table!Next, TableStep
<1> QED
  BY <1>1, <1>2, PTL DEF AllSpec

(* However inserts race, a pivot gets one slot, and one thread writes it.  *)
THEOREM OneSlotForEachPivot == ASSUME Probing PROVE AllSpec => []OneSlotPerPivot
<1>1. TableInv => OneSlotPerPivot
  <2> SUFFICES ASSUME TableInv
               PROVE  OneSlotPerPivot
    OBVIOUS
  <2>1. \A s, r \in Table!Slots : (slotPivot[s] = slotPivot[r] /\ slotPivot[s] # None) => s = r
    BY OneSlot
  <2> QED
    BY <2>1 DEF TableInv, OneWriter, Writing, OneSlotPerPivot, Table!OneSlotPerPivot
<1> QED
  BY <1>1, TableInvariant, PTL

(* A find that began after an insert had returned true finds its column,   *)
(* and no find returns another.                                            *)
THEOREM WhatIsInsertedIsFound == ASSUME Probing PROVE AllSpec => []InsertedIsFound
<1>1. ASSUME TableInv, NEW t \in Threads, tablePc[t] = "idle", answer[t] = "found"
      PROVE  /\ column[t] # None
             /\ promised[t] # None => column[t] = promised[t]
             /\ inserted[pivot[t]] # None => column[t] = inserted[pivot[t]]
  <2>1. pivot[t] \in Pivots /\ (promised[t] # None => inserted[pivot[t]] = promised[t])
    BY <1>1 DEF TableInv, PromiseInv
  <2>2. column[t] # None /\ Held(pivot[t], column[t])
    BY <1>1 DEF TableInv, ResultInv
  <2>3. ASSUME inserted[pivot[t]] # None
        PROVE  column[t] = inserted[pivot[t]]
    <3>1. Held(pivot[t], inserted[pivot[t]])
      BY <1>1, <2>1, <2>3 DEF TableInv, InsertedInv
    <3>2. PICK s \in Table!Slots : slotPivot[s] = pivot[t] /\ slotColumn[s] = column[t]
      BY <2>2 DEF Held
    <3>3. PICK r \in Table!Slots : slotPivot[r] = pivot[t] /\ slotColumn[r] = inserted[pivot[t]]
      BY <3>1 DEF Held
    <3>4. pivot[t] # None
      BY <2>1 DEF Probing
    <3>5. s = r
      BY <1>1, <3>2, <3>3, <3>4, OneSlot
    <3> QED
      BY <3>2, <3>3, <3>5
  <2> QED
    BY <2>1, <2>2, <2>3
<1>2. TableInv => InsertedIsFound
  BY <1>1 DEF TableInv, ResultInv, InsertedIsFound, Table!InsertedIsFound
<1> QED
  BY <1>2, TableInvariant, PTL

(***************************************************************************)
(* The work queue.                                                         *)
(***************************************************************************)

(* What the proofs assume of the constants.  That the capacity is a power  *)
(* of two is not needed.                                                   *)
WorkQueueSizes == Capacity \in Nat \ {0} /\ NumTasks \in Nat /\ Owner \notin Thieves

(***************************************************************************)
(* The inductive invariant, one named part per concern.                    *)
(***************************************************************************)

Popping == {"popTop", "popReady", "popCas", "popRestore"}
Won     == {"popTask", "stealTask"}

QueueLabels ==
  {"idle", "pushTask", "pushReady", "pushBottom", "popTop", "popReady", "popCas",
   "popRestore", "popTask", "stealBottom", "stealReady", "stealCas", "stealTask",
   "clearReady"}

WorkQueueTypeOK ==
  /\ top \in Nat /\ bottom \in Nat
  /\ task \in [WorkQueue!Slots -> WorkQueue!Tasks \cup {WorkQueue!NoTask}]
  /\ pushed \in Nat /\ pushed <= NumTasks
  /\ queuePc \in [WorkQueue!Participants -> QueueLabels]
  /\ at \in [WorkQueue!Participants -> Nat]
  /\ ran \in [WorkQueue!Tasks -> Nat]
  /\ destroyed \in SUBSET WorkQueue!Tasks

(* While it pops, the owner has lowered bottom_ to the index it works on;  *)
(* when it writes a slot, there was room for it.                           *)
OwnerInv ==
  /\ queuePc[Owner] \in Popping => at[Owner] = bottom
  /\ queuePc[Owner] = "popReady" => seen \in Nat /\ seen <= at[Owner]
  /\ queuePc[Owner] = "popCas" => seen = at[Owner]
  /\ queuePc[Owner] = "pushTask" => bottom - top < Capacity /\ pushed < NumTasks

(* A task in a slot is in no other, and was neither handed out nor         *)
(* destroyed; a task in no slot was one of the two, once.                  *)
PlaceInv ==
  /\ \A s \in WorkQueue!Slots : task[s] # WorkQueue!NoTask =>
       /\ task[s] < pushed /\ ran[task[s]] = 0 /\ task[s] \notin destroyed
       /\ \A r \in WorkQueue!Slots : task[r] = task[s] => r = s
  /\ \A x \in WorkQueue!Tasks : x < pushed =>
       \/ \E s \in WorkQueue!Slots : task[s] = x
       \/ ran[x] = 1 /\ x \notin destroyed
       \/ ran[x] = 0 /\ x \in destroyed
  /\ \A x \in WorkQueue!Tasks : x >= pushed => ran[x] = 0 /\ x \notin destroyed

(* A task in a slot is between top_ and bottom_, or it is being pushed, or *)
(* somebody has won its index and has not emptied the slot yet.            *)
Limit == IF queuePc[Owner] \in Popping THEN bottom + 1 ELSE bottom

Listed(s)  == \E k \in Nat : top <= k /\ k < Limit /\ WorkQueue!Slot(k) = s
Pushing(s) == queuePc[Owner] \in {"pushReady", "pushBottom"} /\ WorkQueue!Slot(bottom) = s
Pending(s) == \E p \in WorkQueue!Participants : queuePc[p] \in Won /\ WorkQueue!Slot(at[p]) = s

CoverInv ==
  \A s \in WorkQueue!Slots : task[s] # WorkQueue!NoTask => Listed(s) \/ Pushing(s) \/ Pending(s)

(* A thief works on an index at or before top_, and can still win it only  *)
(* while it is in use.  An owner that pops without a compare-and-swap       *)
(* works on an index that no thief has seen in use.                        *)
RaceInv ==
  /\ top <= Limit
  /\ \A p \in Thieves :
       /\ queuePc[p] \in {"stealBottom", "stealReady", "stealCas"} => at[p] <= top
       /\ (queuePc[p] \in {"stealReady", "stealCas"} /\ at[p] = top) => at[p] < Limit
  /\ (queuePc[Owner] = "popReady" /\ seen < at[Owner]) =>
       /\ top <= at[Owner]
       /\ \A p \in Thieves : queuePc[p] \in {"stealReady", "stealCas"} => at[p] < at[Owner]

WorkQueueInv == WorkQueueTypeOK /\ OwnerInv /\ PlaceInv /\ CoverInv /\ RaceInv

----------------------------------------------------------------------------
(* Slots.                                                                  *)

LEMMA QueueSlotIsSlot ==
  ASSUME WorkQueueSizes PROVE \A k \in Nat : WorkQueue!Slot(k) \in WorkQueue!Slots
BY DEF WorkQueueSizes, WorkQueue!Slot, WorkQueue!Slots

LEMMA NoSuchTask ==
  WorkQueueSizes => WorkQueue!NoTask \notin WorkQueue!Tasks /\ WorkQueue!Tasks \subseteq Nat
BY DEF WorkQueueSizes, WorkQueue!Tasks, WorkQueue!NoTask

(* Indices less than a capacity apart have different slots.                *)
LEMMA SlotsApart ==
  ASSUME WorkQueueSizes, NEW k \in Nat, NEW l \in Nat, k < l, l - k < Capacity
  PROVE  WorkQueue!Slot(k) # WorkQueue!Slot(l)
<1> SUFFICES ASSUME WorkQueue!Slot(k) = WorkQueue!Slot(l)
             PROVE  FALSE
  OBVIOUS
<1> DEFINE a == k \div Capacity
           b == l \div Capacity
           r == WorkQueue!Slot(k)
<1>1. /\ Capacity \in Nat \ {0} /\ a \in Int /\ b \in Int /\ r \in Int
      /\ k = Capacity * a + r /\ l = Capacity * b + r
  BY DEF WorkQueueSizes, WorkQueue!Slot
<1> HIDE DEF a, b, r
<1>2. Capacity * (b - a) = Capacity * b - Capacity * a /\ b - a \in Int
  BY <1>1
<1>3. Capacity * a \in Int /\ Capacity * b \in Int
  BY <1>1
<1>4. Capacity * (b - a) = l - k
  BY <1>1, <1>2, <1>3
<1>5. CASE b - a >= 1
  <2>1. Capacity * (b - a) = Capacity + Capacity * (b - a - 1)
    BY <1>1, <1>2
  <2>2. Capacity * (b - a - 1) \in Int /\ Capacity * (b - a - 1) >= 0
    BY <1>1, <1>2, <1>5
  <2> QED
    BY <1>1, <1>4, <2>1, <2>2
<1>6. CASE b - a <= 0
  <2>1. Capacity * (a - b) >= 0 /\ Capacity * (a - b) = -(Capacity * (b - a))
    BY <1>1, <1>2, <1>6
  <2> QED
    BY <1>1, <1>4, <2>1
<1> QED
  BY <1>2, <1>5, <1>6

----------------------------------------------------------------------------
(* What the steps do to the tasks.                                         *)

LEMMA PushKeepsPlaces ==
  ASSUME WorkQueueSizes, WorkQueueInv, WorkQueue!PushTask
  PROVE  PlaceInv'
<1> DEFINE s == WorkQueue!Slot(bottom)
           old == task[s]
<1>1. /\ s \in WorkQueue!Slots /\ pushed \in WorkQueue!Tasks
      /\ task' = [task EXCEPT ![s] = pushed] /\ pushed' = pushed + 1 /\ UNCHANGED ran
      /\ destroyed' = destroyed \cup ({old} \ {WorkQueue!NoTask})
  BY QueueSlotIsSlot DEF WorkQueue!PushTask, WorkQueueSizes, WorkQueueInv, WorkQueueTypeOK,
       OwnerInv, WorkQueue!Tasks
<1> HIDE DEF s
<1>2. /\ PlaceInv /\ task \in [WorkQueue!Slots -> WorkQueue!Tasks \cup {WorkQueue!NoTask}] /\ pushed \in Nat
      /\ WorkQueue!NoTask \notin WorkQueue!Tasks /\ WorkQueue!Tasks \subseteq Nat
  BY NoSuchTask DEF WorkQueueInv, WorkQueueTypeOK
<1>3. ran[pushed] = 0 /\ pushed \notin destroyed /\ \A r \in WorkQueue!Slots : task[r] # pushed
  BY <1>1, <1>2 DEF PlaceInv
<1>4. ASSUME NEW r \in WorkQueue!Slots, task'[r] # WorkQueue!NoTask
      PROVE  /\ task'[r] < pushed' /\ ran'[task'[r]] = 0 /\ task'[r] \notin destroyed'
             /\ \A q \in WorkQueue!Slots : task'[q] = task'[r] => q = r
  <2>1. CASE r = s
    BY <1>1, <1>2, <1>3, <2>1
  <2>2. CASE r # s
    <3>1. task'[r] = task[r] /\ task[r] \in WorkQueue!Tasks
      BY <1>1, <1>2, <1>4, <2>2
    <3>2. task[r] < pushed /\ ran[task[r]] = 0 /\ task[r] \notin destroyed
      BY <1>2, <1>4, <3>1 DEF PlaceInv
    <3>3. task[r] # old /\ \A q \in WorkQueue!Slots : task'[q] = task'[r] => q = r
      BY <1>1, <1>2, <1>3, <1>4, <2>2, <3>1 DEF PlaceInv
    <3>4. task[r] \notin destroyed'
      BY <1>1, <3>2, <3>3
    <3>5. task[r] < pushed'
      <4>1. task[r] \in Nat /\ pushed \in Nat /\ task[r] < pushed
        BY <1>2, <3>1, <3>2
      <4> QED
        BY <1>1, <3>1, <4>1
    <3> QED
      BY <1>1, <3>1, <3>2, <3>3, <3>4, <3>5
  <2> QED
    BY <2>1, <2>2
<1>5. ASSUME NEW x \in WorkQueue!Tasks, x < pushed'
      PROVE  \/ \E r \in WorkQueue!Slots : task'[r] = x
             \/ ran'[x] = 1 /\ x \notin destroyed'
             \/ ran'[x] = 0 /\ x \in destroyed'
  <2>1. CASE x = pushed
    BY <1>1, <1>2, <2>1
  <2>2. CASE x = old
    BY <1>1, <1>2, <2>2 DEF PlaceInv
  <2>3. CASE x # pushed /\ x # old
    <3>1. x < pushed
      BY <1>1, <1>2, <1>5, <2>3
    <3> QED
      BY <1>1, <1>2, <2>3, <3>1 DEF PlaceInv
  <2> QED
    BY <2>1, <2>2, <2>3
<1>6. ASSUME NEW x \in WorkQueue!Tasks, x >= pushed'
      PROVE  ran'[x] = 0 /\ x \notin destroyed'
  <2>1. x >= pushed
    BY <1>1, <1>2, <1>6
  <2>2. x # old
    BY <1>1, <1>2, <2>1 DEF PlaceInv
  <2> QED
    BY <1>1, <1>2, <2>1, <2>2 DEF PlaceInv
<1> QED
  BY <1>4, <1>5, <1>6 DEF PlaceInv

LEMMA TakeKeepsPlaces ==
  ASSUME WorkQueueSizes, WorkQueueInv, NEW p \in WorkQueue!Participants, WorkQueue!TakeTask(p)
  PROVE  PlaceInv'
<1> DEFINE s == WorkQueue!Slot(at[p])
           x == task[s]
<1>1. /\ s \in WorkQueue!Slots /\ UNCHANGED <<pushed, destroyed>>
      /\ task' = [task EXCEPT ![s] = WorkQueue!NoTask]
      /\ ran' = IF x = WorkQueue!NoTask THEN ran ELSE [ran EXCEPT ![x] = @ + 1]
  BY QueueSlotIsSlot DEF WorkQueue!TakeTask, WorkQueue!HandOut, WorkQueueInv, WorkQueueTypeOK
<1> HIDE DEF s
<1>2. /\ PlaceInv /\ task \in [WorkQueue!Slots -> WorkQueue!Tasks \cup {WorkQueue!NoTask}] /\ ran \in [WorkQueue!Tasks -> Nat]
      /\ WorkQueue!NoTask \notin WorkQueue!Tasks
  BY NoSuchTask DEF WorkQueueInv, WorkQueueTypeOK
<1>3. CASE x = WorkQueue!NoTask
  <2>1. task' = task /\ ran' = ran
    BY <1>1, <1>2, <1>3
  <2> QED
    BY <1>1, <1>2, <2>1 DEF PlaceInv
<1>4. CASE x # WorkQueue!NoTask
  <2>1. /\ x \in WorkQueue!Tasks /\ x < pushed /\ ran[x] = 0 /\ x \notin destroyed
        /\ \A r \in WorkQueue!Slots : task[r] = x => r = s
    BY <1>1, <1>2, <1>4 DEF PlaceInv
  <2> HIDE DEF x
  <2>2. ran'[x] = 1 /\ \A y \in WorkQueue!Tasks : y # x => ran'[y] = ran[y]
    BY <1>1, <1>2, <1>4, <2>1
  <2>3. \A r \in WorkQueue!Slots : task'[r] # WorkQueue!NoTask => r # s /\ task'[r] = task[r] /\ task[r] # x
    BY <1>1, <1>2, <2>1
  <2>4. \A r \in WorkQueue!Slots : r # s => task'[r] = task[r]
    BY <1>1, <1>2
  <2>5. \A y \in WorkQueue!Tasks : y # x => \A r \in WorkQueue!Slots : task[r] = y => task'[r] = y
    BY <2>4 DEF x
  <2>6. ASSUME NEW r \in WorkQueue!Slots, task'[r] # WorkQueue!NoTask
        PROVE  /\ task'[r] < pushed' /\ ran'[task'[r]] = 0 /\ task'[r] \notin destroyed'
               /\ \A q \in WorkQueue!Slots : task'[q] = task'[r] => q = r
    <3>1. r # s /\ task'[r] = task[r] /\ task[r] # x /\ task[r] \in WorkQueue!Tasks
      BY <1>2, <2>3, <2>6
    <3>2. /\ task[r] < pushed /\ ran[task[r]] = 0 /\ task[r] \notin destroyed
          /\ \A q \in WorkQueue!Slots : task[q] = task[r] => q = r
      BY <1>2, <2>6, <3>1 DEF PlaceInv
    <3>3. \A q \in WorkQueue!Slots : task'[q] = task'[r] => q = r
      BY <2>3, <2>6, <3>1, <3>2
    <3> QED
      BY <1>1, <2>2, <3>1, <3>2, <3>3
  <2>7. ASSUME NEW y \in WorkQueue!Tasks, y < pushed'
        PROVE  \/ \E r \in WorkQueue!Slots : task'[r] = y
               \/ ran'[y] = 1 /\ y \notin destroyed'
               \/ ran'[y] = 0 /\ y \in destroyed'
    <3>1. CASE y = x
      BY <1>1, <2>1, <2>2, <3>1
    <3>2. CASE y # x
      <4>1. y < pushed
        BY <1>1, <2>7
      <4> QED
        BY <1>1, <1>2, <2>2, <2>5, <3>2, <4>1 DEF PlaceInv
    <3> QED
      BY <3>1, <3>2
  <2>8. ASSUME NEW y \in WorkQueue!Tasks, y >= pushed'
        PROVE  ran'[y] = 0 /\ y \notin destroyed'
    <3>1. y >= pushed /\ y # x
      BY <1>1, <2>1, <2>8, NoSuchTask DEF WorkQueueInv, WorkQueueTypeOK
    <3> QED
      BY <1>1, <1>2, <2>2, <3>1 DEF PlaceInv
  <2> QED
    BY <2>6, <2>7, <2>8 DEF PlaceInv
<1> QED
  BY <1>3, <1>4

----------------------------------------------------------------------------
(* What the steps do to the slots' cover.                                  *)

LEMMA LabelsListed ==
  /\ "idle" \in QueueLabels /\ "pushTask" \in QueueLabels /\ "pushReady" \in QueueLabels /\ "pushBottom" \in QueueLabels
  /\ "popTop" \in QueueLabels /\ "popReady" \in QueueLabels /\ "popCas" \in QueueLabels /\ "popRestore" \in QueueLabels
  /\ "popTask" \in QueueLabels /\ "stealTask" \in QueueLabels /\ "clearReady" \in QueueLabels /\ "stealBottom" \in QueueLabels
  /\ "stealReady" \in QueueLabels /\ "stealCas" \in QueueLabels
BY DEF QueueLabels

(* A thread goes somewhere.                                                *)
LEMMA Goes ==
  ASSUME WorkQueueTypeOK, NEW p \in WorkQueue!Participants,
         NEW label \in QueueLabels, WorkQueue!GoTo(p, label)
  PROVE  /\ queuePc' \in [WorkQueue!Participants -> QueueLabels] /\ queuePc'[p] = label
         /\ \A q \in WorkQueue!Participants : q # p => queuePc'[q] = queuePc[q]
BY DEF WorkQueueTypeOK, WorkQueue!GoTo

LEMMA StaysPending ==
  ASSUME WorkQueueTypeOK, NEW p \in WorkQueue!Participants, NEW s \in WorkQueue!Slots, Pending(s),
         \A q \in WorkQueue!Participants : q # p => queuePc'[q] = queuePc[q] /\ at'[q] = at[q],
         queuePc[p] \notin Won
  PROVE  Pending(s)'
BY DEF Pending

(* A step of the owner that leaves alone top_, the tasks, the range of     *)
(* indices in use and the slot being pushed.                               *)
LEMMA StaysCovered ==
  ASSUME WorkQueueInv, NEW p \in WorkQueue!Participants, queuePc[p] \notin Won,
         \A q \in WorkQueue!Participants : q # p => queuePc'[q] = queuePc[q] /\ at'[q] = at[q],
         UNCHANGED <<top, task>>, Limit' = Limit,
         \A s \in WorkQueue!Slots : Pushing(s) => Pushing(s)' \/ Listed(s)'
  PROVE  CoverInv'
<1> SUFFICES ASSUME NEW s \in WorkQueue!Slots, task[s] # WorkQueue!NoTask
             PROVE  Listed(s)' \/ Pushing(s)' \/ Pending(s)'
  BY DEF CoverInv
<1>1. Listed(s) \/ Pushing(s) \/ Pending(s)
  BY DEF WorkQueueInv, CoverInv
<1>2. Listed(s) => Listed(s)'
  BY DEF Listed
<1>3. Pending(s) => Pending(s)'
  BY StaysPending DEF WorkQueueInv
<1> QED
  BY <1>1, <1>2, <1>3

(* Somebody wins index top_: it leaves the range of those in use.          *)
LEMMA WonIsPending ==
  ASSUME WorkQueueInv, NEW p \in WorkQueue!Participants, queuePc[p] \notin Won, queuePc'[p] \in Won, at' = at,
         \A q \in WorkQueue!Participants : q # p => queuePc'[q] = queuePc[q],
         at[p] = top, top' = top + 1, UNCHANGED task, Limit' = Limit,
         \A s \in WorkQueue!Slots : Pushing(s) => Pushing(s)'
  PROVE  CoverInv'
<1> SUFFICES ASSUME NEW s \in WorkQueue!Slots, task[s] # WorkQueue!NoTask
             PROVE  Listed(s)' \/ Pushing(s)' \/ Pending(s)'
  BY DEF CoverInv
<1>1. Listed(s) \/ Pushing(s) \/ Pending(s)
  BY DEF WorkQueueInv, CoverInv
<1>2. CASE Listed(s)
  <2>1. PICK k \in Nat : top <= k /\ k < Limit /\ WorkQueue!Slot(k) = s
    BY <1>2 DEF Listed
  <2>2. CASE k = top
    BY <2>1, <2>2 DEF Pending
  <2>3. CASE k # top
    <3>1. top' <= k /\ k < Limit'
      BY <2>1, <2>3 DEF WorkQueueInv, WorkQueueTypeOK
    <3> QED
      BY <2>1, <3>1 DEF Listed
  <2> QED
    BY <2>2, <2>3
<1>3. CASE Pending(s)
  BY <1>3 DEF Pending
<1> QED
  BY <1>1, <1>2, <1>3

(* The steps that leave the tasks alone but for the ranges.                *)
LEMMA QuietKeepsPlaces ==
  ASSUME WorkQueueInv, UNCHANGED <<task, pushed, ran, destroyed>>
  PROVE  PlaceInv'
BY DEF WorkQueueInv, PlaceInv

----------------------------------------------------------------------------
(* The owner.                                                              *)

LEMMA OwnersStep ==
  ASSUME WorkQueueSizes, WorkQueueInv, WorkQueue!Push \/ WorkQueue!Pop
  PROVE  WorkQueueInv'
<1> USE DEF WorkQueue!queueVars, Popping, Won
<1>1. /\ Owner \in WorkQueue!Participants /\ WorkQueueTypeOK /\ OwnerInv /\ PlaceInv /\ CoverInv /\ RaceInv
      /\ top \in Nat /\ bottom \in Nat /\ Limit \in Nat /\ at \in [WorkQueue!Participants -> Nat]
      /\ \A p \in Thieves : p \in WorkQueue!Participants /\ p # Owner
      /\ \A s \in WorkQueue!Slots : Pushing(s) => queuePc[Owner] \in {"pushReady", "pushBottom"}
  BY DEF WorkQueue!Participants, WorkQueueInv, Pushing, WorkQueueSizes, Limit, WorkQueueTypeOK
<1>2. CASE WorkQueue!PushCheck
  <2>1. /\ queuePc'[Owner] = "pushTask"
        /\ \A q \in WorkQueue!Participants : q # Owner => queuePc'[q] = queuePc[q]
    BY <1>1, <1>2 DEF WorkQueue!PushCheck, WorkQueue!GoTo, WorkQueueTypeOK
  <2>2. WorkQueueTypeOK'
    BY <1>1, <1>2, Goes, LabelsListed DEF WorkQueue!PushCheck, WorkQueueTypeOK
  <2>3. OwnerInv'
    BY <1>1, <1>2, <2>1 DEF WorkQueue!PushCheck, OwnerInv
  <2>4. CoverInv'
    BY <1>1, <1>2, <2>1, StaysCovered DEF WorkQueue!PushCheck, Limit
  <2>9. RaceInv'
    BY <1>1, <1>2, <2>1 DEF WorkQueue!PushCheck, RaceInv, Limit
  <2> QED
    BY <1>2, <2>2, <2>3, <2>4, <2>9, QuietKeepsPlaces DEF WorkQueue!PushCheck, WorkQueueInv
<1>3. CASE WorkQueue!PushTask
  <2> DEFINE s == WorkQueue!Slot(bottom)
  <2>1. /\ queuePc'[Owner] = "pushReady"
        /\ \A q \in WorkQueue!Participants : q # Owner => queuePc'[q] = queuePc[q]
    BY <1>1, <1>3 DEF WorkQueue!PushTask, WorkQueue!GoTo, WorkQueueTypeOK
  <2>2. /\ s \in WorkQueue!Slots /\ pushed \in WorkQueue!Tasks /\ task' = [task EXCEPT ![s] = pushed]
        /\ destroyed' = destroyed \cup ({task[s]} \ {WorkQueue!NoTask}) /\ pushed' = pushed + 1
        /\ UNCHANGED <<top, bottom, at, seen, ran>> /\ queuePc[Owner] = "pushTask"
    BY <1>1, <1>3, QueueSlotIsSlot DEF WorkQueue!PushTask, WorkQueueSizes, WorkQueueTypeOK,
         OwnerInv, WorkQueue!Tasks
  <2>3. WorkQueueTypeOK'
    <3>1. queuePc' \in [WorkQueue!Participants -> QueueLabels]
      BY <1>1, <1>3, Goes, LabelsListed DEF WorkQueue!PushTask
    <3>2. pushed' \in Nat /\ pushed' <= NumTasks
      BY <1>1, <2>2 DEF WorkQueueTypeOK, OwnerInv, WorkQueueSizes
    <3>3. task' \in [WorkQueue!Slots -> WorkQueue!Tasks \cup {WorkQueue!NoTask}] /\ destroyed' \in SUBSET WorkQueue!Tasks
      BY <1>1, <2>2 DEF WorkQueueTypeOK
    <3> QED
      BY <1>1, <2>2, <3>1, <3>2, <3>3 DEF WorkQueueTypeOK
  <2>4. OwnerInv'
    BY <2>1 DEF OwnerInv
  <2>5. CoverInv'
    <3> SUFFICES ASSUME NEW r \in WorkQueue!Slots, task'[r] # WorkQueue!NoTask
                 PROVE  Listed(r)' \/ Pushing(r)' \/ Pending(r)'
      BY DEF CoverInv
    <3>1. CASE r = s
      BY <2>1, <2>2, <3>1 DEF Pushing
    <3>2. CASE r # s
      <4>1. task[r] # WorkQueue!NoTask
        BY <1>1, <2>2, <3>2 DEF WorkQueueTypeOK
      <4>2. Listed(r) \/ Pending(r)
        BY <1>1, <2>2, <4>1 DEF CoverInv, Pushing
      <4>3. Listed(r) => Listed(r)'
        BY <2>1, <2>2 DEF Listed, Limit
      <4>4. Pending(r) => Pending(r)'
        BY <1>1, <2>1, <2>2, StaysPending
      <4> QED
        BY <4>2, <4>3, <4>4
    <3> QED
      BY <3>1, <3>2
  <2>9. RaceInv'
    BY <1>1, <1>3, <2>1 DEF WorkQueue!PushTask, RaceInv, Limit
  <2> QED
    BY <1>3, <2>3, <2>4, <2>5, <2>9, PushKeepsPlaces DEF WorkQueueInv
<1>4. CASE WorkQueue!PushReady
  <2>1. /\ queuePc'[Owner] = "pushBottom"
        /\ \A q \in WorkQueue!Participants : q # Owner => queuePc'[q] = queuePc[q]
    BY <1>1, <1>4 DEF WorkQueue!PushReady, WorkQueue!GoTo, WorkQueueTypeOK
  <2>2. WorkQueueTypeOK'
    BY <1>1, <1>4, Goes, LabelsListed DEF WorkQueue!PushReady, WorkQueueTypeOK
  <2>3. OwnerInv'
    BY <2>1 DEF OwnerInv
  <2>4. CoverInv'
    BY <1>1, <1>4, <2>1, StaysCovered DEF WorkQueue!PushReady, Limit, Pushing
  <2>9. RaceInv'
    BY <1>1, <1>4, <2>1 DEF WorkQueue!PushReady, RaceInv, Limit
  <2> QED
    BY <1>4, <2>2, <2>3, <2>4, <2>9, QuietKeepsPlaces DEF WorkQueue!PushReady, WorkQueueInv
<1>5. CASE WorkQueue!PushBottom
  <2>1. /\ queuePc'[Owner] = "idle"
        /\ \A q \in WorkQueue!Participants : q # Owner => queuePc'[q] = queuePc[q]
    BY <1>1, <1>5 DEF WorkQueue!PushBottom, WorkQueue!GoTo, WorkQueueTypeOK
  <2>2. WorkQueueTypeOK'
    BY <1>1, <1>5, Goes, LabelsListed DEF WorkQueue!PushBottom, WorkQueueTypeOK
  <2>3. OwnerInv'
    BY <2>1 DEF OwnerInv
  <2>4. CoverInv'
    <3> SUFFICES ASSUME NEW r \in WorkQueue!Slots, task[r] # WorkQueue!NoTask
                 PROVE  Listed(r)' \/ Pushing(r)' \/ Pending(r)'
      BY <1>5 DEF CoverInv, WorkQueue!PushBottom
    <3>1. Listed(r) \/ Pushing(r) \/ Pending(r)
      BY <1>1 DEF CoverInv
    <3>2. CASE Listed(r)
      <4>1. PICK k \in Nat : top <= k /\ k < bottom /\ WorkQueue!Slot(k) = r
        BY <1>5, <3>2 DEF Listed, Limit, WorkQueue!PushBottom
      <4>2. top' <= k /\ k < Limit'
        BY <1>1, <1>5, <2>1, <4>1 DEF WorkQueue!PushBottom, Limit, WorkQueueTypeOK
      <4> QED
        BY <4>1, <4>2 DEF Listed
    <3>3. CASE Pushing(r)
      <4>1. top' <= bottom /\ bottom < Limit'
        BY <1>1, <1>5, <2>1, <3>3 DEF WorkQueue!PushBottom, Limit, RaceInv
      <4> QED
        BY <1>1, <3>3, <4>1 DEF Listed, Pushing, WorkQueueTypeOK
    <3>4. CASE Pending(r)
      BY <1>1, <1>5, <2>1, <3>4, StaysPending DEF WorkQueue!PushBottom
    <3> QED
      BY <3>1, <3>2, <3>3, <3>4
  <2>9. RaceInv'
    BY <1>1, <1>5, <2>1 DEF WorkQueue!PushBottom, RaceInv, Limit
  <2> QED
    BY <1>5, <2>2, <2>3, <2>4, <2>9, QuietKeepsPlaces DEF WorkQueue!PushBottom, WorkQueueInv
<1>6. CASE WorkQueue!PopReserve
  <2>1. /\ queuePc'[Owner] = "popTop"
        /\ \A q \in WorkQueue!Participants : q # Owner => queuePc'[q] = queuePc[q]
        /\ at'[Owner] = bottom - 1
        /\ \A q \in WorkQueue!Participants : q # Owner => at'[q] = at[q]
        /\ bottom' = bottom - 1 /\ bottom' \in Nat
    BY <1>1, <1>6 DEF WorkQueue!PopReserve, WorkQueue!GoTo, WorkQueueTypeOK
  <2>2. WorkQueueTypeOK'
    BY <1>1, <1>6, <2>1, Goes, LabelsListed DEF WorkQueue!PopReserve, WorkQueueTypeOK
  <2>3. OwnerInv'
    BY <2>1 DEF OwnerInv
  <2>4. Limit' = Limit
    BY <1>1, <1>6, <2>1 DEF WorkQueue!PopReserve, Limit
  <2>5. CoverInv'
    BY <1>1, <1>6, <2>1, <2>4, StaysCovered DEF WorkQueue!PopReserve
  <2>6. RaceInv'
    BY <1>1, <1>6, <2>1, <2>4 DEF WorkQueue!PopReserve, RaceInv
  <2> QED
    BY <1>6, <2>2, <2>3, <2>5, <2>6, QuietKeepsPlaces DEF WorkQueue!PopReserve, WorkQueueInv
<1>7. CASE WorkQueue!PopReadTop
  <2>1. /\ queuePc'[Owner] = IF top <= at[Owner] THEN "popReady" ELSE "popRestore"
        /\ \A q \in WorkQueue!Participants : q # Owner => queuePc'[q] = queuePc[q]
    BY <1>1, <1>7 DEF WorkQueue!PopReadTop, WorkQueue!GoTo, WorkQueueTypeOK
  <2>2. WorkQueueTypeOK'
    BY <1>1, <1>7, Goes, LabelsListed DEF WorkQueue!PopReadTop, WorkQueueTypeOK
  <2>3. OwnerInv'
    BY <1>1, <1>7, <2>1 DEF WorkQueue!PopReadTop, OwnerInv
  <2>4. Limit' = Limit
    BY <1>7, <2>1 DEF WorkQueue!PopReadTop, Limit
  <2>5. CoverInv'
    BY <1>1, <1>7, <2>1, <2>4, StaysCovered DEF WorkQueue!PopReadTop
  <2>6. RaceInv'
    BY <1>1, <1>7, <2>1, <2>4 DEF WorkQueue!PopReadTop, RaceInv
  <2> QED
    BY <1>7, <2>2, <2>3, <2>5, <2>6, QuietKeepsPlaces DEF WorkQueue!PopReadTop, WorkQueueInv
<1>8. CASE WorkQueue!PopReady
  <2>1. /\ queuePc'[Owner] = IF ~ready[WorkQueue!Slot(at[Owner])] THEN "popRestore"
                             ELSE IF seen = at[Owner] THEN "popCas" ELSE "popTask"
        /\ \A q \in WorkQueue!Participants : q # Owner => queuePc'[q] = queuePc[q]
        /\ queuePc[Owner] = "popReady" /\ at[Owner] = bottom /\ seen \in Nat /\ seen <= at[Owner]
        /\ UNCHANGED <<top, bottom, at, seen, task>>
    BY <1>1, <1>8 DEF WorkQueue!PopReady, WorkQueue!GoTo, WorkQueueTypeOK, OwnerInv
  <2>2. WorkQueueTypeOK'
    BY <1>1, <1>8, Goes, LabelsListed DEF WorkQueue!PopReady, WorkQueueTypeOK
  <2>3. OwnerInv'
    BY <1>1, <2>1 DEF OwnerInv
  <2>4. CoverInv'
    <3>1. CASE queuePc'[Owner] = "popTask"
      <4> SUFFICES ASSUME NEW r \in WorkQueue!Slots, task[r] # WorkQueue!NoTask
                   PROVE  Listed(r)' \/ Pushing(r)' \/ Pending(r)'
        BY <2>1 DEF CoverInv
      <4>1. Listed(r) \/ Pending(r)
        BY <1>1, <2>1 DEF CoverInv
      <4>2. CASE Listed(r)
        <5>1. PICK k \in Nat : top <= k /\ k < bottom + 1 /\ WorkQueue!Slot(k) = r
          BY <2>1, <4>2 DEF Listed, Limit
        <5>2. CASE k = bottom
          BY <1>1, <2>1, <3>1, <5>1, <5>2 DEF Pending
        <5>3. CASE k # bottom
          <6>1. top' <= k /\ k < Limit'
            BY <1>1, <2>1, <3>1, <5>1, <5>3 DEF Limit
          <6> QED
            BY <5>1, <6>1 DEF Listed
        <5> QED
          BY <5>2, <5>3
      <4>3. CASE Pending(r)
        BY <1>1, <2>1, <4>3, StaysPending
      <4> QED
        BY <4>1, <4>2, <4>3
    <3>2. CASE queuePc'[Owner] # "popTask"
      <4>1. Limit' = Limit
        BY <2>1, <3>2 DEF Limit
      <4> QED
        BY <1>1, <2>1, <4>1, StaysCovered
    <3> QED
      BY <3>1, <3>2
  <2>5. RaceInv'
    <3>1. CASE queuePc'[Owner] = "popTask"
      <4>1. /\ seen < at[Owner] /\ top <= bottom /\ Limit' = bottom
            /\ \A p \in Thieves : queuePc[p] \in {"stealReady", "stealCas"} => at[p] < bottom
        BY <1>1, <2>1, <3>1 DEF RaceInv, Limit
      <4> QED
        BY <1>1, <2>1, <3>1, <4>1 DEF RaceInv
    <3>2. CASE queuePc'[Owner] # "popTask"
      <4>1. Limit' = Limit
        BY <2>1, <3>2 DEF Limit
      <4> QED
        BY <1>1, <2>1, <3>2, <4>1 DEF RaceInv
    <3> QED
      BY <3>1, <3>2
  <2> QED
    BY <1>8, <2>2, <2>3, <2>4, <2>5, QuietKeepsPlaces DEF WorkQueue!PopReady, WorkQueueInv
<1>9. CASE WorkQueue!PopCas
  <2>1. at[Owner] = bottom /\ seen = at[Owner] /\ queuePc[Owner] = "popCas" /\ Limit = bottom + 1
    BY <1>1, <1>9 DEF WorkQueue!PopCas, OwnerInv, Limit
  <2>2. CASE top = seen
    <3>1. /\ queuePc'[Owner] = "popTask"
          /\ \A q \in WorkQueue!Participants : q # Owner => queuePc'[q] = queuePc[q]
          /\ top' = top + 1 /\ bottom' = bottom + 1
      BY <1>1, <1>9, <2>2 DEF WorkQueue!PopCas, WorkQueue!GoTo, WorkQueueTypeOK
    <3>2. WorkQueueTypeOK'
      BY <1>1, <1>9, <2>2, <3>1, Goes, LabelsListed DEF WorkQueue!PopCas, WorkQueueTypeOK
    <3>3. OwnerInv'
      BY <3>1 DEF OwnerInv
    <3>4. Limit' = Limit
      BY <2>1, <3>1 DEF Limit
    <3>5. CoverInv'
      BY <1>1, <1>9, <2>1, <2>2, <3>1, <3>4, WonIsPending DEF WorkQueue!PopCas
    <3>6. RaceInv'
      BY <1>1, <1>9, <2>1, <2>2, <3>1, <3>4 DEF WorkQueue!PopCas, RaceInv
    <3> QED
      BY <1>9, <3>2, <3>3, <3>5, <3>6, QuietKeepsPlaces DEF WorkQueue!PopCas, WorkQueueInv
  <2>3. CASE top # seen
    <3>1. /\ queuePc'[Owner] = "popRestore"
          /\ \A q \in WorkQueue!Participants : q # Owner => queuePc'[q] = queuePc[q]
          /\ UNCHANGED <<top, bottom>>
      BY <1>1, <1>9, <2>3 DEF WorkQueue!PopCas, WorkQueue!GoTo, WorkQueueTypeOK
    <3>2. WorkQueueTypeOK'
      BY <1>1, <1>9, <2>3, <3>1, Goes, LabelsListed DEF WorkQueue!PopCas, WorkQueueTypeOK
    <3>3. OwnerInv'
      BY <1>9, <2>1, <3>1 DEF WorkQueue!PopCas, OwnerInv
    <3>4. Limit' = Limit
      BY <2>1, <3>1 DEF Limit
    <3>5. CoverInv'
      BY <1>1, <1>9, <2>1, <3>1, <3>4, StaysCovered DEF WorkQueue!PopCas
    <3>6. RaceInv'
      BY <1>1, <1>9, <3>1, <3>4 DEF WorkQueue!PopCas, RaceInv
    <3> QED
      BY <1>9, <3>2, <3>3, <3>5, <3>6, QuietKeepsPlaces DEF WorkQueue!PopCas, WorkQueueInv
  <2> QED
    BY <2>2, <2>3
<1>10. CASE WorkQueue!PopRestore
  <2>1. /\ queuePc'[Owner] = "idle"
        /\ \A q \in WorkQueue!Participants : q # Owner => queuePc'[q] = queuePc[q]
        /\ bottom' = bottom + 1
    BY <1>1, <1>10 DEF WorkQueue!PopRestore, WorkQueue!GoTo, WorkQueueTypeOK
  <2>2. WorkQueueTypeOK'
    BY <1>1, <1>10, Goes, LabelsListed DEF WorkQueue!PopRestore, WorkQueueTypeOK
  <2>3. OwnerInv'
    BY <2>1 DEF OwnerInv
  <2>4. Limit' = Limit
    BY <1>10, <2>1 DEF WorkQueue!PopRestore, Limit
  <2>5. CoverInv'
    BY <1>1, <1>10, <2>1, <2>4, StaysCovered DEF WorkQueue!PopRestore
  <2>6. RaceInv'
    BY <1>1, <1>10, <2>1, <2>4 DEF WorkQueue!PopRestore, RaceInv
  <2> QED
    BY <1>10, <2>2, <2>3, <2>5, <2>6, QuietKeepsPlaces DEF WorkQueue!PopRestore, WorkQueueInv
<1> QED
  BY <1>2, <1>3, <1>4, <1>5, <1>6, <1>7, <1>8, <1>9, <1>10 DEF WorkQueue!Push, WorkQueue!Pop

----------------------------------------------------------------------------
(* The thieves, and whoever empties a slot.                                *)

LEMMA ThievesStep ==
  ASSUME WorkQueueSizes, WorkQueueInv, NEW p \in Thieves, WorkQueue!Steal(p)
  PROVE  WorkQueueInv'
<1> USE DEF WorkQueue!queueVars, Won
<1>1. /\ WorkQueueTypeOK /\ OwnerInv /\ PlaceInv /\ CoverInv /\ RaceInv
      /\ top \in Nat /\ bottom \in Nat /\ Limit \in Nat /\ at \in [WorkQueue!Participants -> Nat]
      /\ p \in WorkQueue!Participants /\ Owner \in WorkQueue!Participants /\ p # Owner
      /\ \A q \in Thieves : q \in WorkQueue!Participants
  BY DEF WorkQueue!Participants, WorkQueueInv, WorkQueueSizes, Limit, WorkQueueTypeOK
<1>2. CASE WorkQueue!StealReadTop(p)
  <2>1. /\ queuePc'[p] = "stealBottom"
        /\ \A q \in WorkQueue!Participants : q # p => queuePc'[q] = queuePc[q]
        /\ at'[p] = top /\ \A q \in WorkQueue!Participants : q # p => at'[q] = at[q]
    BY <1>1, <1>2 DEF WorkQueue!StealReadTop, WorkQueue!GoTo, WorkQueueTypeOK
  <2>2. WorkQueueTypeOK'
    BY <1>1, <1>2, Goes, LabelsListed DEF WorkQueue!StealReadTop, WorkQueueTypeOK
  <2>3. OwnerInv' /\ Limit' = Limit
    BY <1>1, <1>2, <2>1 DEF WorkQueue!StealReadTop, OwnerInv, Limit
  <2>4. CoverInv'
    BY <1>1, <1>2, <2>1, <2>3, StaysCovered DEF WorkQueue!StealReadTop, Pushing
  <2>5. RaceInv'
    BY <1>1, <1>2, <2>1, <2>3 DEF WorkQueue!StealReadTop, RaceInv
  <2> QED
    BY <1>2, <2>2, <2>3, <2>4, <2>5, QuietKeepsPlaces DEF WorkQueue!StealReadTop, WorkQueueInv
<1>3. CASE WorkQueue!StealReadBottom(p)
  <2>1. /\ queuePc'[p] = IF at[p] < bottom THEN "stealReady" ELSE "idle"
        /\ \A q \in WorkQueue!Participants : q # p => queuePc'[q] = queuePc[q]
    BY <1>1, <1>3 DEF WorkQueue!StealReadBottom, WorkQueue!GoTo, WorkQueueTypeOK
  <2>2. WorkQueueTypeOK'
    BY <1>1, <1>3, Goes, LabelsListed DEF WorkQueue!StealReadBottom, WorkQueueTypeOK
  <2>3. OwnerInv' /\ Limit' = Limit
    BY <1>1, <1>3, <2>1 DEF WorkQueue!StealReadBottom, OwnerInv, Limit
  <2>4. CoverInv'
    BY <1>1, <1>3, <2>1, <2>3, StaysCovered DEF WorkQueue!StealReadBottom, Pushing
  <2>5. RaceInv'
    <3>1. bottom <= Limit /\ (queuePc[Owner] = "popReady" => at[Owner] = bottom)
      BY <1>1 DEF Limit, OwnerInv, Popping
    <3> QED
      BY <1>1, <1>3, <2>1, <2>3, <3>1 DEF WorkQueue!StealReadBottom, RaceInv
  <2> QED
    BY <1>3, <2>2, <2>3, <2>4, <2>5, QuietKeepsPlaces DEF WorkQueue!StealReadBottom,
         WorkQueueInv
<1>4. CASE WorkQueue!StealReady(p)
  <2>1. /\ queuePc'[p] \in {"stealCas", "idle"}
        /\ \A q \in WorkQueue!Participants : q # p => queuePc'[q] = queuePc[q]
    BY <1>1, <1>4 DEF WorkQueue!StealReady, WorkQueue!GoTo, WorkQueueTypeOK
  <2>2. WorkQueueTypeOK'
    BY <1>1, <1>4, Goes, LabelsListed DEF WorkQueue!StealReady, WorkQueueTypeOK
  <2>3. OwnerInv' /\ Limit' = Limit
    BY <1>1, <1>4, <2>1 DEF WorkQueue!StealReady, OwnerInv, Limit
  <2>4. CoverInv'
    BY <1>1, <1>4, <2>1, <2>3, StaysCovered DEF WorkQueue!StealReady, Pushing
  <2>5. RaceInv'
    BY <1>1, <1>4, <2>1, <2>3 DEF WorkQueue!StealReady, RaceInv
  <2> QED
    BY <1>4, <2>2, <2>3, <2>4, <2>5, QuietKeepsPlaces DEF WorkQueue!StealReady, WorkQueueInv
<1>5. CASE WorkQueue!StealCas(p)
  <2>1. CASE top = at[p]
    <3>1. /\ queuePc'[p] = "stealTask"
          /\ \A q \in WorkQueue!Participants : q # p => queuePc'[q] = queuePc[q]
          /\ top' = top + 1
      BY <1>1, <1>5, <2>1 DEF WorkQueue!StealCas, WorkQueue!GoTo, WorkQueueTypeOK
    <3>2. WorkQueueTypeOK'
      BY <1>1, <1>5, <3>1, Goes, LabelsListed DEF WorkQueue!StealCas, WorkQueueTypeOK
    <3>3. OwnerInv' /\ Limit' = Limit
      BY <1>1, <1>5, <3>1 DEF WorkQueue!StealCas, OwnerInv, Limit, WorkQueueSizes
    <3>4. CoverInv'
      BY <1>1, <1>5, <2>1, <3>1, <3>3, WonIsPending DEF WorkQueue!StealCas, Pushing
    <3>5. RaceInv'
      BY <1>1, <1>5, <2>1, <3>1, <3>3 DEF WorkQueue!StealCas, RaceInv
    <3> QED
      BY <1>5, <3>2, <3>3, <3>4, <3>5, QuietKeepsPlaces DEF WorkQueue!StealCas, WorkQueueInv
  <2>2. CASE top # at[p]
    <3>1. /\ queuePc'[p] = "idle"
          /\ \A q \in WorkQueue!Participants : q # p => queuePc'[q] = queuePc[q]
          /\ UNCHANGED top
      BY <1>1, <1>5, <2>2 DEF WorkQueue!StealCas, WorkQueue!GoTo, WorkQueueTypeOK
    <3>2. WorkQueueTypeOK'
      BY <1>1, <1>5, <2>2, <3>1, Goes, LabelsListed DEF WorkQueue!StealCas, WorkQueueTypeOK
    <3>3. OwnerInv' /\ Limit' = Limit
      BY <1>1, <1>5, <3>1 DEF WorkQueue!StealCas, OwnerInv, Limit
    <3>4. CoverInv'
      BY <1>1, <1>5, <3>1, <3>3, StaysCovered DEF WorkQueue!StealCas, Pushing
    <3>5. RaceInv'
      BY <1>1, <1>5, <3>1, <3>3 DEF WorkQueue!StealCas, RaceInv
    <3> QED
      BY <1>5, <3>2, <3>3, <3>4, <3>5, QuietKeepsPlaces DEF WorkQueue!StealCas, WorkQueueInv
  <2> QED
    BY <2>1, <2>2
<1> QED
  BY <1>2, <1>3, <1>4, <1>5 DEF WorkQueue!Steal

LEMMA EmptyingStep ==
  ASSUME WorkQueueSizes, WorkQueueInv, NEW p \in WorkQueue!Participants,
         WorkQueue!TakeTask(p) \/ WorkQueue!ClearReady(p)
  PROVE  WorkQueueInv'
<1> USE DEF WorkQueue!queueVars, Won
<1>1. /\ WorkQueueTypeOK /\ OwnerInv /\ PlaceInv /\ CoverInv /\ RaceInv
      /\ Owner \in WorkQueue!Participants
      /\ \A q \in Thieves : q \in WorkQueue!Participants /\ q # Owner
  BY DEF WorkQueue!Participants, WorkQueueInv, WorkQueueSizes
<1>2. CASE WorkQueue!TakeTask(p)
  <2> DEFINE s == WorkQueue!Slot(at[p])
  <2>1. /\ queuePc'[p] = "clearReady"
        /\ \A q \in WorkQueue!Participants : q # p => queuePc'[q] = queuePc[q]
        /\ s \in WorkQueue!Slots /\ task' = [task EXCEPT ![s] = WorkQueue!NoTask]
        /\ UNCHANGED <<top, bottom, at, seen, pushed>>
        /\ queuePc[p] \in Won /\ (p = Owner => queuePc[p] = "popTask")
    BY <1>1, <1>2, QueueSlotIsSlot DEF WorkQueue!TakeTask, WorkQueue!GoTo, WorkQueueTypeOK
  <2>2. WorkQueueTypeOK'
    <3>1. queuePc' \in [WorkQueue!Participants -> QueueLabels]
      BY <1>1, <1>2, Goes, LabelsListed DEF WorkQueue!TakeTask
    <3>2. task' \in [WorkQueue!Slots -> WorkQueue!Tasks \cup {WorkQueue!NoTask}]
      BY <1>1, <2>1 DEF WorkQueueTypeOK
    <3>3. ran' \in [WorkQueue!Tasks -> Nat]
      <4>1. task[s] \in WorkQueue!Tasks \cup {WorkQueue!NoTask}
        BY <1>1, <2>1 DEF WorkQueueTypeOK
      <4> QED
        BY <1>1, <1>2, <4>1 DEF WorkQueue!TakeTask, WorkQueue!HandOut, WorkQueueTypeOK
    <3> QED
      BY <1>1, <1>2, <3>1, <3>2, <3>3 DEF WorkQueue!TakeTask, WorkQueueTypeOK
  <2>3. OwnerInv' /\ Limit' = Limit
    <3>1. CASE p = Owner
      BY <2>1, <3>1 DEF OwnerInv, Limit, Popping
    <3>2. CASE p # Owner
      BY <1>1, <2>1, <3>2 DEF OwnerInv, Limit
    <3> QED
      BY <3>1, <3>2
  <2>4. CoverInv'
    <3> SUFFICES ASSUME NEW r \in WorkQueue!Slots, task'[r] # WorkQueue!NoTask
                 PROVE  Listed(r)' \/ Pushing(r)' \/ Pending(r)'
      BY DEF CoverInv
    <3>1. r # s /\ task[r] # WorkQueue!NoTask
      BY <1>1, <2>1 DEF WorkQueueTypeOK
    <3>2. Listed(r) \/ Pushing(r) \/ Pending(r)
      BY <1>1, <3>1 DEF CoverInv
    <3>3. Listed(r) => Listed(r)'
      BY <2>1, <2>3 DEF Listed
    <3>4. Pushing(r) => Pushing(r)'
      BY <1>1, <2>1 DEF Pushing
    <3>5. Pending(r) => Pending(r)'
      BY <2>1, <3>1 DEF Pending
    <3> QED
      BY <3>2, <3>3, <3>4, <3>5
  <2>5. RaceInv'
    BY <1>1, <2>1, <2>3 DEF RaceInv
  <2> QED
    BY <1>2, <2>2, <2>3, <2>4, <2>5, TakeKeepsPlaces DEF WorkQueueInv
<1>3. CASE WorkQueue!ClearReady(p)
  <2>1. /\ queuePc'[p] = "idle"
        /\ \A q \in WorkQueue!Participants : q # p => queuePc'[q] = queuePc[q]
    BY <1>1, <1>3 DEF WorkQueue!ClearReady, WorkQueue!GoTo, WorkQueueTypeOK
  <2>2. WorkQueueTypeOK'
    BY <1>1, <1>3, Goes, LabelsListed DEF WorkQueue!ClearReady, WorkQueueTypeOK
  <2>3. OwnerInv' /\ Limit' = Limit
    BY <1>1, <1>3, <2>1 DEF WorkQueue!ClearReady, OwnerInv, Limit, Popping
  <2>4. CoverInv'
    BY <1>1, <1>3, <2>1, <2>3, StaysCovered DEF WorkQueue!ClearReady, Pushing
  <2>5. RaceInv'
    BY <1>1, <1>3, <2>1, <2>3 DEF WorkQueue!ClearReady, RaceInv
  <2> QED
    BY <1>3, <2>2, <2>3, <2>4, <2>5, QuietKeepsPlaces DEF WorkQueue!ClearReady, WorkQueueInv
<1> QED
  BY <1>2, <1>3

LEMMA WorkQueueStarts == ASSUME WorkQueueSizes, WorkQueue!Init PROVE WorkQueueInv
<1> USE DEF WorkQueue!Init, WorkQueueSizes
<1>1. WorkQueueTypeOK
  BY LabelsListed DEF WorkQueueTypeOK
<1>2. OwnerInv /\ RaceInv
  BY DEF OwnerInv, RaceInv, Limit, Popping, WorkQueue!Participants
<1>3. PlaceInv
  BY DEF PlaceInv, WorkQueue!Tasks
<1>4. CoverInv
  BY DEF CoverInv
<1> QED
  BY <1>1, <1>2, <1>3, <1>4 DEF WorkQueueInv

LEMMA WorkQueueStutters == ASSUME WorkQueueInv, UNCHANGED WorkQueue!vars PROVE WorkQueueInv'
<1> USE DEF WorkQueue!vars, WorkQueue!queueVars
<1>1. WorkQueueTypeOK' /\ OwnerInv' /\ PlaceInv'
  BY DEF WorkQueueInv, WorkQueueTypeOK, OwnerInv, PlaceInv
<1>2. CoverInv'
  BY DEF WorkQueueInv, CoverInv, Listed, Pushing, Pending, Limit
<1>3. RaceInv'
  BY DEF WorkQueueInv, RaceInv, Limit
<1> QED
  BY <1>1, <1>2, <1>3 DEF WorkQueueInv

(* The specification of all structures runs the work queue.                *)
LEMMA WorkQueueRuns ==
  /\ AllInit => WorkQueue!Init
  /\ [AllNext]_AllVars => WorkQueue!Next \/ UNCHANGED WorkQueue!vars
BY DEF AllInit, AllNext, AllVars, workQueueVars, WorkQueue!vars, WorkQueue!queueVars

(* Its module has the cardinality of the standard module.                  *)
LEMMA QueueCardinality == ASSUME NEW S PROVE WorkQueue!Cardinality(S) = Cardinality(S)
BY DEF WorkQueue!Cardinality, Cardinality

(* The invariant of the work queue holds in every reachable state.         *)
THEOREM WorkQueueInvariant == ASSUME WorkQueueSizes PROVE AllSpec => []WorkQueueInv
<1>1. AllInit => WorkQueueInv
  BY WorkQueueRuns, WorkQueueStarts
<1>2. WorkQueueInv /\ [AllNext]_AllVars => WorkQueueInv'
  BY WorkQueueRuns, OwnersStep, ThievesStep, EmptyingStep, WorkQueueStutters
     DEF WorkQueue!Next
<1> QED
  BY <1>1, <1>2, PTL DEF AllSpec

(* A task is in one slot, or was handed out once, or was destroyed.        *)
THEOREM EveryTaskIsAccounted ==
  ASSUME WorkQueueSizes PROVE AllSpec => []TasksAccounted
<1>1. ASSUME WorkQueueInv
      PROVE  TasksAccounted
  <2> SUFFICES ASSUME NEW x \in 0 .. pushed - 1
               PROVE  Cardinality({s \in WorkQueue!Slots : task[s] = x}) + ran[x]
                        + (IF x \in destroyed THEN 1 ELSE 0) = 1
    BY QueueCardinality DEF TasksAccounted, WorkQueue!TasksAccounted
  <2>1. /\ PlaceInv /\ x \in WorkQueue!Tasks /\ x < pushed /\ x # WorkQueue!NoTask
    BY <1>1 DEF WorkQueueInv, WorkQueueTypeOK, WorkQueueSizes, WorkQueue!Tasks,
         WorkQueue!NoTask
  <2>2. CASE \E r \in WorkQueue!Slots : task[r] = x
    <3>1. PICK r \in WorkQueue!Slots : task[r] = x
      BY <2>2
    <3>2. /\ {s \in WorkQueue!Slots : task[s] = x} = {r}
          /\ ran[x] = 0 /\ x \notin destroyed
      BY <2>1, <3>1 DEF PlaceInv
    <3>3. Cardinality({s \in WorkQueue!Slots : task[s] = x}) = 1
      BY <3>2, FS_Singleton
    <3> QED
      BY <3>2, <3>3
  <2>3. CASE ~ \E r \in WorkQueue!Slots : task[r] = x
    <3>1. {s \in WorkQueue!Slots : task[s] = x} = {}
      BY <2>3
    <3>2. \/ ran[x] = 1 /\ x \notin destroyed
          \/ ran[x] = 0 /\ x \in destroyed
      BY <2>1, <2>3 DEF PlaceInv
    <3> QED
      BY <3>1, <3>2, FS_EmptySet
  <2> QED
    BY <2>2, <2>3
<1> QED
  BY <1>1, WorkQueueInvariant, PTL

(* A push destroys a task only while somebody who has won it lags behind.  *)
THEOREM DestroyedWereWon ==
  ASSUME WorkQueueSizes PROVE AllSpec => OnlyPendingDestroyed
<1> DEFINE Kept ==
      \A x \in destroyed' \ destroyed :
        \E p \in WorkQueue!Participants :
          queuePc[p] \in {"popTask", "stealTask"} /\ task[WorkQueue!Slot(at[p])] = x
<1>1. ASSUME WorkQueueInv, WorkQueue!Next \/ UNCHANGED WorkQueue!vars
      PROVE  Kept
  <2> SUFFICES ASSUME NEW x \in destroyed' \ destroyed
               PROVE  \E p \in WorkQueue!Participants :
                        queuePc[p] \in {"popTask", "stealTask"} /\ task[WorkQueue!Slot(at[p])] = x
    OBVIOUS
  <2>1. WorkQueue!PushTask
    BY <1>1
    DEF WorkQueue!Next, WorkQueue!Push, WorkQueue!Pop, WorkQueue!Steal,
        WorkQueue!PushCheck, WorkQueue!PushReady, WorkQueue!PushBottom,
        WorkQueue!PopReserve, WorkQueue!PopReadTop,
        WorkQueue!PopReady, WorkQueue!PopCas, WorkQueue!PopRestore, WorkQueue!TakeTask,
        WorkQueue!ClearReady, WorkQueue!StealReadTop, WorkQueue!StealReadBottom,
        WorkQueue!StealReady, WorkQueue!StealCas, WorkQueue!vars
  <2> DEFINE s == WorkQueue!Slot(bottom)
  <2>2. /\ s \in WorkQueue!Slots /\ task[s] = x /\ task[s] # WorkQueue!NoTask /\ queuePc[Owner] = "pushTask"
        /\ top \in Nat /\ bottom \in Nat /\ bottom - top < Capacity
    BY <1>1, <2>1, QueueSlotIsSlot DEF WorkQueue!PushTask, WorkQueueInv, WorkQueueTypeOK,
         OwnerInv
  <2>3. Listed(s) \/ Pending(s)
    BY <1>1, <2>2 DEF WorkQueueInv, CoverInv, Pushing
  <2>4. ~ Listed(s)
    <3> SUFFICES ASSUME NEW k \in Nat, top <= k, k < bottom, WorkQueue!Slot(k) = s
                 PROVE  FALSE
      BY <2>2 DEF Listed, Limit, Popping
    <3>1. bottom - k < Capacity
      BY <2>2 DEF WorkQueueSizes
    <3> QED
      BY <2>2, <3>1, SlotsApart
  <2> QED
    BY <2>2, <2>3, <2>4 DEF Pending, Won
<1>2. WorkQueueInv /\ [AllNext]_AllVars => [Kept]_(WorkQueue!vars)
  BY <1>1, WorkQueueRuns
<1> HIDE DEF Kept
<1>3. AllSpec => [][Kept]_(WorkQueue!vars)
  BY <1>2, WorkQueueInvariant, PTL DEF AllSpec
<1> QED
  BY <1>3 DEF OnlyPendingDestroyed, WorkQueue!OnlyPendingDestroyed, Kept
=============================================================================
