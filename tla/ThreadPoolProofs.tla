-------------------------- MODULE ThreadPoolProofs --------------------------
(***************************************************************************)
(* Proofs about the thread pool, for any number of workers, clients and    *)
(* tasks: a task that was accepted is taken once and runs once, and        *)
(* waitForAll returns only when everything has run.                        *)
(***************************************************************************)
EXTENDS ThreadPool, FiniteSetTheorems, SequenceTheorems, TLAPS

(***************************************************************************)
(* The inductive invariant, one named part per concern.                    *)
(***************************************************************************)

(* Workers between taking a task and counting it, and clients that have    *)
(* counted a task and neither queued nor uncounted it.                     *)
Holding == {"begin", "run"}
Offering == {"lockPush", "push", "uncount"}
Reading == {"readCompleted", "readFailed", "readActive", "returned"}

Hands      == {w \in Workers : pc[w] \in Holding}
Submitting == {c \in Clients : pc[c] \in Offering}

PlacesOK ==
  /\ pc \in [Threads -> WorkerPlaces \cup ClientPlaces]
  /\ \A w \in Workers : pc[w] \in WorkerPlaces
  /\ \A c \in Clients : pc[c] \in ClientPlaces
  /\ at \in [Threads -> Nat]
  /\ \A w \in Workers : pc[w] = "steal" => at[w] \in Workers
  /\ \A c \in Clients : at[c] \in Workers
  /\ next_queue \in Workers

TasksOK ==
  /\ queue \in [Workers -> Seq(Tasks)]
  /\ task \in [Threads -> Tasks \cup {NoTask}]
  /\ accepted \in SUBSET Tasks /\ finished \in SUBSET Tasks

NumbersOK ==
  /\ total_tasks \in Int /\ completed_tasks \in Int /\ failed_tasks \in Int
  /\ seen \in [Clients -> Int] /\ counted \in [Clients -> Int]
  /\ late \in [Clients -> BOOLEAN]

TypeOK == PlacesOK /\ TasksOK /\ NumbersOK

(* A task is in one place of one queue, waits only if it was accepted, and *)
(* not once it has run.                                                    *)
QueueInv ==
  /\ \A q, r \in Workers : \A i \in 1 .. Len(queue[q]), j \in 1 .. Len(queue[r]) :
       queue[q][i] = queue[r][j] => q = r /\ i = j
  /\ \A q \in Workers : \A i \in 1 .. Len(queue[q]) : queue[q][i] \in accepted \ finished

(* Or it is in one worker's hands, and then in no queue.                   *)
HandInv ==
  \A w \in Hands :
    /\ task[w] \in accepted \ finished
    /\ \A v \in Hands : task[v] = task[w] => v = w
    /\ \A q \in Workers : \A i \in 1 .. Len(queue[q]) : queue[q][i] # task[w]

(* A task on its way into a queue is nowhere else.                         *)
SubmitInv ==
  /\ finished \subseteq accepted
  /\ \A c \in Submitting :
       /\ task[c] \in Tasks /\ task[c] \notin accepted
       /\ \A d \in Submitting : task[d] = task[c] => d = c

(* The counters count what they are named for.                             *)
CountersInv ==
  /\ total_tasks = Cardinality(accepted) + Cardinality(Submitting)
  /\ completed_tasks + failed_tasks = Cardinality(finished)

(* What a client has read lies between what was and what is.               *)
WaitOK(c) ==
  /\ (pc[c] \in Reading /\ ~late[c]) => total_tasks <= seen[c]
  /\ pc[c] = "readFailed" => counted[c] <= completed_tasks
  /\ pc[c] \in {"readActive", "returned"} =>
       seen[c] <= counted[c] /\ counted[c] <= completed_tasks + failed_tasks

WaitInv == \A c \in Clients : WaitOK(c)

PoolInv == QueueInv /\ HandInv /\ SubmitInv /\ CountersInv
IInv == TypeOK /\ PoolInv /\ WaitInv

----------------------------------------------------------------------------
(* Kinds of steps, by what becomes of the tasks.                           *)

(* No task moves.                                                          *)
Quiet ==
  /\ UNCHANGED <<queue, accepted, finished, total_tasks, completed_tasks, failed_tasks>>
  /\ Hands' = Hands /\ Submitting' = Submitting
  /\ \A u \in Hands \cup Submitting : task'[u] = task[u]

(* Sequence r is s without its k-th element.                               *)
Dropped(s, k, r) ==
  /\ k \in 1 .. Len(s) /\ Len(r) = Len(s) - 1
  /\ \A i \in 1 .. Len(r) : r[i] = s[IF i < k THEN i ELSE i + 1]

(* Worker w takes the k-th task of queue q.                                *)
Takes(w, q, k) ==
  /\ Dropped(queue[q], k, queue'[q])
  /\ \A r \in Workers : r # q => queue'[r] = queue[r]
  /\ task'[w] = queue[q][k]
  /\ \A u \in Threads : u # w => task'[u] = task[u]
  /\ w \notin Hands /\ Hands' = Hands \cup {w} /\ Submitting' = Submitting
  /\ UNCHANGED <<accepted, finished, total_tasks, completed_tasks, failed_tasks>>

(* Worker w runs its task.                                                 *)
Runs(w) ==
  /\ w \in Hands /\ Hands' = Hands \ {w} /\ Submitting' = Submitting
  /\ finished' = finished \cup {task[w]}
  /\ UNCHANGED <<queue, accepted, task, total_tasks>>
  /\ completed_tasks' + failed_tasks' = completed_tasks + failed_tasks + 1
  /\ completed_tasks' >= completed_tasks

(* Client c has counted task t, to submit it.                              *)
Counts(c, t) ==
  /\ c \notin Submitting /\ Submitting' = Submitting \cup {c} /\ Hands' = Hands
  /\ t \in Tasks /\ t \notin accepted /\ \A d \in Submitting : task[d] # t
  /\ task'[c] = t /\ \A u \in Threads : u # c => task'[u] = task[u]
  /\ total_tasks' = total_tasks + 1
  /\ UNCHANGED <<queue, accepted, finished, completed_tasks, failed_tasks>>

(* Client c queues its task at the end of queue q.                         *)
Pushes(c, q) ==
  /\ c \in Submitting /\ Submitting' = Submitting \ {c} /\ Hands' = Hands
  /\ queue'[q] = Append(queue[q], task[c])
  /\ \A r \in Workers : r # q => queue'[r] = queue[r]
  /\ accepted' = accepted \cup {task[c]}
  /\ \A u \in Threads : u # c => task'[u] = task[u]
  /\ UNCHANGED <<finished, total_tasks, completed_tasks, failed_tasks>>

(* Client c gives its task up.                                             *)
Uncounts(c) ==
  /\ c \in Submitting /\ Submitting' = Submitting \ {c} /\ Hands' = Hands
  /\ total_tasks' = total_tasks - 1
  /\ \A u \in Threads : u # c => task'[u] = task[u]
  /\ UNCHANGED <<queue, accepted, finished, completed_tasks, failed_tasks>>

WorkerKind(w) ==
  \/ Quiet
  \/ \E q \in Workers : \E k \in 1 .. Len(queue[q]) : Takes(w, q, k)
  \/ Runs(w)

ClientKind(c) ==
  \/ Quiet
  \/ \E t \in Tasks : Counts(c, t)
  \/ \E q \in Workers : Pushes(c, q)
  \/ Uncounts(c)

(* What a client waits for, as others change it.                           *)
WorkerFrame ==
  /\ UNCHANGED <<seen, counted, late, total_tasks>>
  /\ \A c \in Clients : pc'[c] = pc[c]
  /\ completed_tasks' >= completed_tasks
  /\ completed_tasks' + failed_tasks' >= completed_tasks + failed_tasks

ClientFrame(c) ==
  /\ UNCHANGED <<completed_tasks, failed_tasks>>
  /\ \A d \in Clients \ {c} :
       /\ pc'[d] = pc[d] /\ seen'[d] = seen[d] /\ counted'[d] = counted[d]
       /\ \/ late'[d] = late[d] /\ total_tasks' <= total_tasks
          \/ pc[d] \in Reading => late'[d]

----------------------------------------------------------------------------
LEMMA Apart ==
  /\ NumThreads \in Nat /\ 0 \in Workers
  /\ Workers \subseteq Threads /\ Clients \subseteq Threads
  /\ \A w \in Workers, c \in Clients : w # c
  /\ \A n \in Nat : n < NumThreads <=> n \in Workers
  /\ \A w \in Workers : w \in Nat /\ w + 1 \in Nat
BY ThreadPoolAssumption DEF Workers, Threads

LEMMA PlacesApart ==
  /\ WorkerPlaces \cap Offering = {}
  /\ Holding \subseteq WorkerPlaces /\ Offering \subseteq ClientPlaces
BY DEF WorkerPlaces, ClientPlaces, Offering, Holding

LEMMA Finite ==
  ASSUME TasksOK
  PROVE  /\ IsFiniteSet(accepted) /\ Cardinality(accepted) \in Nat
         /\ IsFiniteSet(finished) /\ Cardinality(finished) \in Nat
         /\ IsFiniteSet(Submitting) /\ Cardinality(Submitting) \in Nat
<1>1. accepted \in SUBSET Tasks /\ finished \in SUBSET Tasks /\ Submitting \in SUBSET Clients
  BY DEF TasksOK, Submitting
<1>2. IsFiniteSet(Tasks) /\ IsFiniteSet(Clients)
  BY ThreadPoolAssumption
<1>3. IsFiniteSet(accepted) /\ IsFiniteSet(finished) /\ IsFiniteSet(Submitting)
  BY <1>1, <1>2, FS_Subset
<1> QED
  BY <1>3, FS_CardinalityType

(* The last element of a sequence, and the first, dropped.                 *)
LEMMA BackDropped ==
  ASSUME NEW s \in Seq(Tasks), s # << >>
  PROVE  /\ SubSeq(s, 1, Len(s) - 1) \in Seq(Tasks)
         /\ Len(s) \in 1 .. Len(s) /\ s[Len(s)] \in Tasks
         /\ Dropped(s, Len(s), SubSeq(s, 1, Len(s) - 1))
<1>1. Len(s) \in Nat \ {0}
  BY EmptySeq
<1>2. \A i \in 1 .. Len(s) : s[i] \in Tasks
  BY ElementOfSeq
<1>3. /\ SubSeq(s, 1, Len(s) - 1) \in Seq(Tasks)
      /\ Len(SubSeq(s, 1, Len(s) - 1)) = IF 1 <= Len(s) - 1 THEN Len(s) - 1 - 1 + 1 ELSE 0
      /\ \A i \in 1 .. Len(s) - 1 - 1 + 1 : SubSeq(s, 1, Len(s) - 1)[i] = s[1 + i - 1]
  <2>1. Len(s) - 1 \in Int /\ 1 \in Int /\ \A i \in 1 .. Len(s) - 1 : s[i] \in Tasks
    BY <1>1, <1>2
  <2> QED
    BY <2>1, SubSeqProperties
<1> DEFINE n == Len(s)
           r == SubSeq(s, 1, n - 1)
<1>4. /\ n \in Nat \ {0} /\ r \in Seq(Tasks)
      /\ Len(r) = IF 1 <= n - 1 THEN n - 1 - 1 + 1 ELSE 0
      /\ \A i \in 1 .. n - 1 - 1 + 1 : r[i] = s[1 + i - 1]
      /\ \A i \in 1 .. n : s[i] \in Tasks
  BY <1>1, <1>2, <1>3
<1> HIDE DEF n, r
<1>5. Len(r) = n - 1
  BY <1>4
<1>6. \A i \in 1 .. n - 1 : r[i] = s[i]
  BY <1>4
<1>7. n \in 1 .. n /\ n = Len(s)
  BY <1>4 DEF n
<1>8. Dropped(s, n, r)
  BY <1>4, <1>5, <1>6, <1>7 DEF Dropped
<1> QED
  BY <1>4, <1>7, <1>8 DEF n, r

LEMMA FrontDropped ==
  ASSUME NEW s \in Seq(Tasks), s # << >>
  PROVE  /\ Tail(s) \in Seq(Tasks)
         /\ 1 \in 1 .. Len(s) /\ Head(s) = s[1] /\ s[1] \in Tasks
         /\ Dropped(s, 1, Tail(s))
<1>1. Len(s) \in Nat \ {0}
  BY EmptySeq
<1>2. /\ Tail(s) \in Seq(Tasks) /\ Len(Tail(s)) = Len(s) - 1
      /\ \A i \in 1 .. Len(Tail(s)) : Tail(s)[i] = s[i + 1]
  BY HeadTailProperties
<1>3. Head(s) = s[1] /\ s[1] \in Tasks
  BY <1>1, ElementOfSeq
<1> QED
  BY <1>1, <1>2, <1>3 DEF Dropped

----------------------------------------------------------------------------
(* Where a step takes a thread.                                            *)

LEMMA WorkerGoes ==
  ASSUME PlacesOK, NEW w \in Workers, NEW place \in WorkerPlaces, NEW n \in Nat,
         Goto(w, place), TurnTo(w, n), UNCHANGED next_queue,
         place = "steal" => n \in Workers
  PROVE  /\ PlacesOK'
         /\ pc[w] \in Holding /\ place \in Holding => Hands' = Hands
         /\ pc[w] \notin Holding /\ place \notin Holding => Hands' = Hands
         /\ pc[w] \notin Holding /\ place \in Holding => w \notin Hands /\ Hands' = Hands \cup {w}
         /\ pc[w] \in Holding /\ place \notin Holding => w \in Hands /\ Hands' = Hands \ {w}
         /\ Submitting' = Submitting
         /\ \A c \in Clients : pc'[c] = pc[c]
<1> USE Apart
<1>1. /\ pc' \in [Threads -> WorkerPlaces \cup ClientPlaces]
      /\ pc'[w] = place /\ \A t \in Threads : t # w => pc'[t] = pc[t]
  BY DEF PlacesOK, Goto
<1>2. /\ at' \in [Threads -> Nat]
      /\ at'[w] = n /\ \A t \in Threads : t # w => at'[t] = at[t]
  BY DEF PlacesOK, TurnTo
<1>3. PlacesOK'
  BY <1>1, <1>2 DEF PlacesOK
<1> QED
  BY <1>1, <1>3 DEF Hands, Submitting

LEMMA ClientGoes ==
  ASSUME PlacesOK, NEW c \in Clients, NEW place \in ClientPlaces, NEW n \in Workers,
         Goto(c, place), TurnTo(c, n), next_queue' \in Workers
  PROVE  /\ PlacesOK' /\ pc'[c] = place
         /\ Submitting' = IF place \in Offering THEN Submitting \cup {c} ELSE Submitting \ {c}
         /\ (pc[c] \in Offering <=> place \in Offering) => Submitting' = Submitting
         /\ Hands' = Hands
         /\ \A d \in Clients \ {c} : pc'[d] = pc[d]
<1> USE Apart
<1>1. /\ pc' \in [Threads -> WorkerPlaces \cup ClientPlaces]
      /\ pc'[c] = place /\ \A t \in Threads : t # c => pc'[t] = pc[t]
  BY DEF PlacesOK, Goto
<1>2. /\ at' \in [Threads -> Nat]
      /\ at'[c] = n /\ \A t \in Threads : t # c => at'[t] = at[t]
  BY DEF PlacesOK, TurnTo
<1>3. PlacesOK'
  BY <1>1, <1>2 DEF PlacesOK
<1> QED
  BY <1>1, <1>3 DEF Hands, Submitting

(* A notification moves its client on and wakes a worker that sleeps.      *)
LEMMA ClientNotifies ==
  ASSUME PlacesOK, NEW c \in Clients, NEW place \in ClientPlaces, NEW n \in Workers,
         NEW q \in Workers, Notify(q, c, place), TurnTo(c, n), UNCHANGED next_queue
  PROVE  /\ PlacesOK' /\ pc'[c] = place
         /\ Submitting' = IF place \in Offering THEN Submitting \cup {c} ELSE Submitting \ {c}
         /\ (pc[c] \in Offering <=> place \in Offering) => Submitting' = Submitting
         /\ Hands' = Hands
         /\ \A d \in Clients \ {c} : pc'[d] = pc[d]
<1> USE Apart
<1>1. /\ pc' \in [Threads -> WorkerPlaces \cup ClientPlaces]
      /\ pc'[c] = place /\ \A t \in Threads : t \notin {c, q} => pc'[t] = pc[t]
      /\ pc'[q] = IF pc[q] = "asleep" THEN "lockPop" ELSE pc[q]
  BY DEF PlacesOK, Notify, WorkerPlaces
<1>2. /\ at' \in [Threads -> Nat]
      /\ at'[c] = n /\ \A t \in Threads : t # c => at'[t] = at[t]
  BY DEF PlacesOK, TurnTo
<1>3. PlacesOK'
  BY <1>1, <1>2 DEF PlacesOK, WorkerPlaces
<1>4. Hands' = Hands
  BY <1>1 DEF Hands, Holding
<1> QED
  BY <1>1, <1>3, <1>4 DEF Submitting

(* A thread that does not move, or keeps its queue, in the same form.      *)
LEMMA Stays ==
  ASSUME PlacesOK, NEW t \in Threads
  PROVE  /\ pc' = pc => Goto(t, pc[t])
         /\ at' = at => TurnTo(t, at[t])
         /\ at[t] \in Nat
BY DEF PlacesOK, Goto, TurnTo

----------------------------------------------------------------------------
(* Every kind of step preserves the invariant of the tasks.                *)

LEMMA QuietPreserves ==
  ASSUME TypeOK, PoolInv, Quiet
  PROVE  PoolInv'
<1>1. QueueInv'
  BY DEF PoolInv, QueueInv, Quiet
<1>2. HandInv'
  BY DEF PoolInv, HandInv, Quiet
<1>3. SubmitInv'
  BY DEF PoolInv, SubmitInv, Quiet
<1>4. CountersInv'
  BY DEF PoolInv, CountersInv, Quiet
<1> QED
  BY <1>1, <1>2, <1>3, <1>4 DEF PoolInv

LEMMA LengthsAreNumbers ==
  ASSUME TasksOK, NEW q \in Workers
  PROVE  queue[q] \in Seq(Tasks) /\ Len(queue[q]) \in Nat
BY LenProperties DEF TasksOK

(* What a shortened queue holds stood in the queue before.                 *)
LEMMA DroppedFrom ==
  ASSUME NEW s, NEW r, NEW k \in Nat, Len(s) \in Nat, Len(r) \in Nat, Dropped(s, k, r),
         NEW i \in 1 .. Len(r)
  PROVE  \E j \in 1 .. Len(s) : /\ r[i] = s[j] /\ j # k
                                /\ j = IF i < k THEN i ELSE i + 1
BY DEF Dropped

(* Positions are kept apart by dropping one.                               *)
LEMMA TakeKeepsPlaces ==
  ASSUME TasksOK, TasksOK', NEW w \in Workers, NEW q \in Workers,
         NEW k \in 1 .. Len(queue[q]), Takes(w, q, k),
         NEW r \in Workers, NEW i \in 1 .. Len(queue'[r])
  PROVE  \E j \in 1 .. Len(queue[r]) :
           /\ queue'[r][i] = queue[r][j]
           /\ r = q => j # k /\ j = IF i < k THEN i ELSE i + 1
           /\ r # q => j = i
<1>1. Len(queue[r]) \in Nat /\ Len(queue'[r]) \in Nat /\ Len(queue[q]) \in Nat
  BY LengthsAreNumbers
<1>2. CASE r = q
  <2>1. Dropped(queue[q], k, queue'[q])
    BY DEF Takes
  <2>2. k \in Nat
    BY <1>1
  <2> QED
    BY <1>1, <1>2, <2>1, <2>2, DroppedFrom
<1>3. CASE r # q
  BY <1>3 DEF Takes
<1> QED
  BY <1>2, <1>3

LEMMA TakePreserves ==
  ASSUME TypeOK, TypeOK', PoolInv, NEW w \in Workers, NEW q \in Workers,
         NEW k \in 1 .. Len(queue[q]), Takes(w, q, k)
  PROVE  PoolInv'
<1> USE DEF TypeOK, PoolInv
<1>1. QueueInv'
  <2>1. ASSUME NEW p \in Workers, NEW r \in Workers,
               NEW i \in 1 .. Len(queue'[p]), NEW j \in 1 .. Len(queue'[r]),
               queue'[p][i] = queue'[r][j]
        PROVE  p = r /\ i = j
    <3>1. PICK io \in 1 .. Len(queue[p]) :
            /\ queue'[p][i] = queue[p][io]
            /\ p = q => io # k /\ io = IF i < k THEN i ELSE i + 1
            /\ p # q => io = i
      BY TakeKeepsPlaces
    <3>2. PICK jo \in 1 .. Len(queue[r]) :
            /\ queue'[r][j] = queue[r][jo]
            /\ r = q => jo # k /\ jo = IF j < k THEN j ELSE j + 1
            /\ r # q => jo = j
      BY TakeKeepsPlaces
    <3>3. queue[p][io] = queue[r][jo]
      BY <2>1, <3>1, <3>2
    <3>4. p = r /\ io = jo
      BY <3>3 DEF QueueInv
    <3>5. i \in Int /\ j \in Int /\ k \in Int
      BY LengthsAreNumbers
    <3> QED
      BY <3>1, <3>2, <3>4, <3>5
  <2>2. ASSUME NEW r \in Workers, NEW i \in 1 .. Len(queue'[r])
        PROVE  queue'[r][i] \in accepted' \ finished'
    BY TakeKeepsPlaces DEF QueueInv, Takes
  <2> QED
    BY <2>1, <2>2 DEF QueueInv
<1>2. HandInv'
  <2>1. queue[q][k] \in accepted \ finished
    BY DEF QueueInv
  <2>2. \A v \in Hands : v \in Threads /\ v # w /\ task'[v] = task[v]
    BY Apart DEF Takes, Hands
  <2>3. \A r \in Workers : \A i \in 1 .. Len(queue'[r]) : queue'[r][i] # queue[q][k]
    BY TakeKeepsPlaces DEF QueueInv
  <2>4. \A v \in Hands : task[v] # queue[q][k]
    BY DEF HandInv
  <2>5. ASSUME NEW v \in Hands
        PROVE  \A r \in Workers : \A i \in 1 .. Len(queue'[r]) : queue'[r][i] # task[v]
    BY TakeKeepsPlaces DEF HandInv
  <2>6. ASSUME NEW v \in Hands'
        PROVE  task'[v] \in accepted' \ finished'
    BY <2>1, <2>2 DEF Takes, HandInv
  <2>7. ASSUME NEW v \in Hands', NEW u \in Hands', task'[u] = task'[v]
        PROVE  u = v
    BY <2>2, <2>4, <2>7 DEF Takes, HandInv
  <2>8. ASSUME NEW v \in Hands'
        PROVE  \A r \in Workers : \A i \in 1 .. Len(queue'[r]) : queue'[r][i] # task'[v]
    BY <2>2, <2>3, <2>5 DEF Takes
  <2> QED
    BY <2>6, <2>7, <2>8 DEF HandInv
<1>3. SubmitInv'
  <2>1. \A c \in Submitting : task'[c] = task[c]
    BY Apart DEF Takes, Submitting
  <2> QED
    BY <2>1 DEF SubmitInv, Takes
<1>4. CountersInv'
  BY DEF CountersInv, Takes
<1> QED
  BY <1>1, <1>2, <1>3, <1>4

LEMMA RunPreserves ==
  ASSUME TypeOK, TypeOK', PoolInv, NEW w \in Workers, Runs(w)
  PROVE  PoolInv'
<1> USE DEF TypeOK, PoolInv
<1>1. /\ task[w] \in accepted \ finished
      /\ \A v \in Hands : task[v] = task[w] => v = w
      /\ \A q \in Workers : \A i \in 1 .. Len(queue[q]) : queue[q][i] # task[w]
  BY DEF Runs, HandInv
<1>2. QueueInv'
  BY <1>1 DEF Runs, QueueInv
<1>3. HandInv'
  BY <1>1 DEF Runs, HandInv
<1>4. SubmitInv'
  BY <1>1 DEF Runs, SubmitInv
<1>5. CountersInv'
  <2>1. Cardinality(finished') = Cardinality(finished) + 1
    BY <1>1, Finite, FS_AddElement DEF Runs
  <2> QED
    BY <2>1 DEF Runs, CountersInv, NumbersOK
<1> QED
  BY <1>2, <1>3, <1>4, <1>5

LEMMA CountPreserves ==
  ASSUME TypeOK, TypeOK', PoolInv, NEW c \in Clients, NEW t \in Tasks, Counts(c, t)
  PROVE  PoolInv'
<1> USE DEF TypeOK, PoolInv
<1>1. \A u \in Hands \cup Submitting : u # c /\ task'[u] = task[u]
  BY Apart DEF Counts, Hands, Submitting
<1>2. QueueInv'
  BY DEF Counts, QueueInv
<1>3. HandInv'
  BY <1>1 DEF Counts, HandInv
<1>4. SubmitInv'
  <2>1. ASSUME NEW d \in Submitting', NEW e \in Submitting', task'[e] = task'[d]
        PROVE  e = d
    BY <1>1, <2>1 DEF Counts, SubmitInv
  <2>2. ASSUME NEW d \in Submitting'
        PROVE  task'[d] \in Tasks /\ task'[d] \notin accepted'
    BY <1>1 DEF Counts, SubmitInv
  <2> QED
    BY <2>1, <2>2 DEF Counts, SubmitInv
<1>5. CountersInv'
  <2>1. Cardinality(Submitting') = Cardinality(Submitting) + 1
    BY Finite, FS_AddElement DEF Counts
  <2> QED
    BY <2>1, Finite DEF Counts, CountersInv, NumbersOK
<1> QED
  BY <1>2, <1>3, <1>4, <1>5

LEMMA PushPreserves ==
  ASSUME TypeOK, TypeOK', PoolInv, NEW c \in Clients, NEW q \in Workers, Pushes(c, q)
  PROVE  PoolInv'
<1> USE DEF TypeOK, PoolInv
<1> DEFINE t == task[c]
<1>1. /\ t \in Tasks /\ t \notin accepted /\ t \notin finished
      /\ \A d \in Submitting : task[d] = t => d = c
  BY DEF SubmitInv, Pushes
<1>2. \A u \in Hands \cup Submitting' : u # c /\ task'[u] = task[u]
  BY Apart DEF Pushes, Hands, Submitting
<1>3. /\ Len(queue'[q]) = Len(queue[q]) + 1 /\ Len(queue[q]) \in Nat
      /\ queue'[q][Len(queue[q]) + 1] = t
      /\ \A i \in 1 .. Len(queue[q]) : queue'[q][i] = queue[q][i]
  BY <1>1, LengthsAreNumbers, AppendProperties DEF Pushes
<1> HIDE DEF t
(* What a queue holds was there before, or is the task at its new end.     *)
<1>4. ASSUME NEW r \in Workers, NEW i \in 1 .. Len(queue'[r])
      PROVE  \/ i \in 1 .. Len(queue[r]) /\ queue'[r][i] = queue[r][i]
             \/ r = q /\ i = Len(queue[q]) + 1 /\ queue'[r][i] = t
  <2>1. CASE r = q
    BY <1>3, <1>4, <2>1
  <2>2. CASE r # q
    BY <1>4, <2>2 DEF Pushes
  <2> QED
    BY <2>1, <2>2
<1>5. QueueInv'
  <2>1. ASSUME NEW p \in Workers, NEW r \in Workers,
               NEW i \in 1 .. Len(queue'[p]), NEW j \in 1 .. Len(queue'[r]),
               queue'[p][i] = queue'[r][j]
        PROVE  p = r /\ i = j
    BY <1>1, <1>4, <2>1 DEF QueueInv
  <2>2. ASSUME NEW r \in Workers, NEW i \in 1 .. Len(queue'[r])
        PROVE  queue'[r][i] \in accepted' \ finished'
    BY <1>1, <1>4 DEF QueueInv, Pushes, t
  <2> QED
    BY <2>1, <2>2 DEF QueueInv
<1>6. HandInv'
  <2>1. ASSUME NEW w \in Hands'
        PROVE  /\ task'[w] = task[w] /\ task[w] \in accepted \ finished
               /\ \A v \in Hands' : task'[v] = task'[w] => v = w
               /\ \A r \in Workers : \A i \in 1 .. Len(queue[r]) : queue[r][i] # task[w]
    BY <1>2 DEF HandInv, Pushes
  <2>2. ASSUME NEW w \in Hands'
        PROVE  \A r \in Workers : \A i \in 1 .. Len(queue'[r]) : queue'[r][i] # task'[w]
    BY <1>1, <1>4, <2>1
  <2> QED
    BY <2>1, <2>2 DEF HandInv, Pushes
<1>7. SubmitInv'
  BY <1>1, <1>2 DEF SubmitInv, Pushes, t
<1>8. CountersInv'
  <2>1. Cardinality(Submitting') = Cardinality(Submitting) - 1
    BY Finite, FS_RemoveElement DEF Pushes
  <2>2. Cardinality(accepted') = Cardinality(accepted) + 1
    BY <1>1, Finite, FS_AddElement DEF Pushes, t
  <2> QED
    BY <2>1, <2>2, Finite DEF Pushes, CountersInv, NumbersOK
<1> QED
  BY <1>5, <1>6, <1>7, <1>8

LEMMA UncountPreserves ==
  ASSUME TypeOK, TypeOK', PoolInv, NEW c \in Clients, Uncounts(c)
  PROVE  PoolInv'
<1> USE DEF TypeOK, PoolInv
<1>1. \A u \in Hands \cup Submitting' : u # c /\ task'[u] = task[u]
  BY Apart DEF Uncounts, Hands, Submitting
<1>2. QueueInv'
  BY DEF Uncounts, QueueInv
<1>3. HandInv'
  BY <1>1 DEF Uncounts, HandInv
<1>4. SubmitInv'
  BY <1>1 DEF SubmitInv, Uncounts
<1>5. CountersInv'
  <2>1. Cardinality(Submitting') = Cardinality(Submitting) - 1
    BY Finite, FS_RemoveElement DEF Uncounts
  <2> QED
    BY <2>1, Finite DEF Uncounts, CountersInv, NumbersOK
<1> QED
  BY <1>2, <1>3, <1>4, <1>5

----------------------------------------------------------------------------
(* The steps of the workers.                                               *)

(* A step that moves no task.                                              *)
LEMMA WorkerIsQuiet ==
  ASSUME TypeOK, NEW w \in Workers, PlacesOK', Hands' = Hands, Submitting' = Submitting,
         \A c \in Clients : pc'[c] = pc[c],
         UNCHANGED <<queue, task, accepted, finished, total_tasks, completed_tasks,
                     failed_tasks, waits>>
  PROVE  TypeOK' /\ WorkerKind(w) /\ WorkerFrame
<1>1. TasksOK' /\ NumbersOK'
  BY DEF TypeOK, TasksOK, NumbersOK, waits
<1>2. Quiet
  BY DEF Quiet
<1>3. WorkerFrame
  BY DEF WorkerFrame, TypeOK, NumbersOK, waits
<1> QED
  BY <1>1, <1>2, <1>3 DEF TypeOK, WorkerKind

(* A step that takes the last task of a queue, or the first one.           *)
LEMMA WorkerTakes ==
  ASSUME TypeOK, NEW w \in Workers, NEW q \in Workers, queue[q] # << >>,
         PopBack(q, w) \/ PopFront(q, w),
         PlacesOK', w \notin Hands, Hands' = Hands \cup {w}, Submitting' = Submitting,
         \A c \in Clients : pc'[c] = pc[c],
         UNCHANGED <<accepted, finished, total_tasks, completed_tasks, failed_tasks, waits>>
  PROVE  TypeOK' /\ WorkerKind(w) /\ WorkerFrame
<1>1. queue \in [Workers -> Seq(Tasks)] /\ task \in [Threads -> Tasks \cup {NoTask}]
  BY DEF TypeOK, TasksOK
<1>2. queue[q] \in Seq(Tasks) /\ w \in Threads
  BY <1>1, Apart
<1>3. PICK k \in 1 .. Len(queue[q]), r \in Seq(Tasks) :
        /\ Dropped(queue[q], k, r) /\ queue[q][k] \in Tasks
        /\ queue' = [queue EXCEPT ![q] = r]
        /\ task' = [task EXCEPT ![w] = queue[q][k]]
  <2>1. CASE PopBack(q, w)
    BY <1>2, <2>1, BackDropped DEF PopBack
  <2>2. CASE PopFront(q, w)
    <3>1. /\ queue' = [queue EXCEPT ![q] = Tail(queue[q])]
          /\ task' = [task EXCEPT ![w] = queue[q][1]]
      BY <1>2, <2>2, FrontDropped DEF PopFront
    <3> QED
      BY <1>2, <3>1, FrontDropped
  <2> QED
    BY <2>1, <2>2
<1>4. queue' \in [Workers -> Seq(Tasks)] /\ queue'[q] = r
  BY <1>1, <1>3
<1>5. task' \in [Threads -> Tasks \cup {NoTask}]
  BY <1>1, <1>3
<1>6. TasksOK' /\ NumbersOK'
  BY <1>4, <1>5 DEF TypeOK, TasksOK, NumbersOK, waits
<1>7. Takes(w, q, k)
  BY <1>1, <1>2, <1>3, <1>4 DEF Takes
<1>8. WorkerFrame
  BY DEF WorkerFrame, TypeOK, NumbersOK, waits
<1> QED
  BY <1>6, <1>7, <1>8 DEF TypeOK, WorkerKind

LEMMA WorkerRuns ==
  ASSUME TypeOK, HandInv, NEW w \in Workers, RunTask(w)
  PROVE  TypeOK' /\ WorkerKind(w) /\ WorkerFrame
<1>1. w \in Hands /\ task[w] \in Tasks
  BY DEF RunTask, Hands, Holding, HandInv, TypeOK, TasksOK
<1>2. PlacesOK /\ Goto(w, "end") /\ TurnTo(w, at[w]) /\ at[w] \in Nat
  BY Apart, Stays DEF TypeOK, RunTask
<1>3. /\ PlacesOK' /\ Hands' = Hands \ {w} /\ Submitting' = Submitting
      /\ \A c \in Clients : pc'[c] = pc[c]
  BY <1>2, WorkerGoes DEF RunTask, WorkerPlaces, Holding
<1>4. /\ completed_tasks' \in Int /\ failed_tasks' \in Int
      /\ completed_tasks' + failed_tasks' = completed_tasks + failed_tasks + 1
      /\ completed_tasks' >= completed_tasks
      /\ completed_tasks' + failed_tasks' >= completed_tasks + failed_tasks
  BY DEF RunTask, TypeOK, NumbersOK
<1>5. TasksOK' /\ NumbersOK'
  BY <1>1, <1>4 DEF RunTask, TypeOK, TasksOK, NumbersOK, waits
<1>6. Runs(w)
  BY <1>1, <1>3, <1>4 DEF Runs, RunTask
<1>7. WorkerFrame
  BY <1>3, <1>4 DEF WorkerFrame, RunTask, waits
<1> QED
  BY <1>3, <1>5, <1>6, <1>7 DEF TypeOK, WorkerKind

LEMMA WorkerStep ==
  ASSUME TypeOK, HandInv, NEW w \in Workers, Worker(w)
  PROVE  TypeOK' /\ WorkerKind(w) /\ WorkerFrame
<1> USE Apart
<1>1. /\ PlacesOK /\ at[w] \in Nat
      /\ pc' = pc => Goto(w, pc[w])
      /\ at' = at => TurnTo(w, at[w])
  BY Stays DEF TypeOK
<1>2. w \in Hands => pc[w] \in Holding
  BY DEF Hands
<1>3. CASE TryPop(w)
  <2>1. PICK place \in {"popOwn", "trySteal"} : Goto(w, place)
    BY <1>3 DEF TryPop
  <2>2. /\ PlacesOK' /\ Hands' = Hands /\ Submitting' = Submitting
        /\ \A c \in Clients : pc'[c] = pc[c]
    BY <1>1, <1>2, <1>3, <2>1, WorkerGoes DEF TryPop, WorkerPlaces, Holding
  <2> QED
    BY <1>3, <2>2, WorkerIsQuiet DEF TryPop, history, counters
<1>4. CASE PopOwn(w)
  <2>1. CASE queue[w] # << >>
    <3>1. PopBack(w, w) /\ Goto(w, "begin")
      BY <1>4, <2>1 DEF PopOwn
    <3>2. /\ PlacesOK' /\ w \notin Hands /\ Hands' = Hands \cup {w} /\ Submitting' = Submitting
          /\ \A c \in Clients : pc'[c] = pc[c]
      BY <1>1, <1>2, <1>4, <3>1, WorkerGoes DEF PopOwn, WorkerPlaces, Holding
    <3> QED
      BY <1>4, <2>1, <3>1, <3>2, WorkerTakes DEF PopOwn, history, counters
  <2>2. CASE queue[w] = << >>
    <3>1. Goto(w, "trySteal") /\ UNCHANGED <<queue, task>>
      BY <1>4, <2>2 DEF PopOwn
    <3>2. /\ PlacesOK' /\ Hands' = Hands /\ Submitting' = Submitting
          /\ \A c \in Clients : pc'[c] = pc[c]
      BY <1>1, <1>2, <1>4, <3>1, WorkerGoes DEF PopOwn, WorkerPlaces, Holding
    <3> QED
      BY <1>4, <3>1, <3>2, WorkerIsQuiet DEF PopOwn, history, counters
  <2> QED
    BY <2>1, <2>2
<1>5. CASE TrySteal(w)
  <2>1. /\ PlacesOK' /\ Hands' = Hands /\ Submitting' = Submitting
        /\ \A c \in Clients : pc'[c] = pc[c]
    <3>1. CASE Goto(w, "steal") /\ UNCHANGED at
      <4>1. at[w] \in Workers
        BY <1>1, <1>5 DEF TrySteal
      <4> QED
        BY <1>1, <1>2, <1>5, <3>1, <4>1, WorkerGoes DEF TrySteal, WorkerPlaces, Holding
    <3>2. CASE TurnTo(w, at[w] + 1) /\ UNCHANGED pc
      <4>1. Goto(w, "trySteal") /\ at[w] + 1 \in Nat
        BY <1>1, <1>5, <3>2 DEF TrySteal
      <4> QED
        BY <1>1, <1>2, <1>5, <3>2, <4>1, WorkerGoes DEF TrySteal, WorkerPlaces, Holding
    <3> QED
      BY <1>5, <3>1, <3>2 DEF TrySteal
  <2> QED
    BY <1>5, <2>1, WorkerIsQuiet DEF TrySteal, history, counters
<1>6. CASE Steal(w)
  <2>1. at[w] \in Workers
    BY <1>1, <1>6 DEF Steal, PlacesOK
  <2>2. CASE queue[at[w]] # << >>
    <3>1. PopFront(at[w], w) /\ Goto(w, "begin") /\ TurnTo(w, 0)
      BY <1>6, <2>2 DEF Steal
    <3>2. /\ PlacesOK' /\ w \notin Hands /\ Hands' = Hands \cup {w} /\ Submitting' = Submitting
          /\ \A c \in Clients : pc'[c] = pc[c]
      BY <1>1, <1>2, <1>6, <3>1, WorkerGoes DEF Steal, WorkerPlaces, Holding
    <3> QED
      BY <1>6, <2>1, <2>2, <3>1, <3>2, WorkerTakes DEF Steal, history, counters
  <2>3. CASE queue[at[w]] = << >>
    <3>1. Goto(w, "trySteal") /\ TurnTo(w, at[w] + 1) /\ UNCHANGED <<queue, task>>
      BY <1>6, <2>3 DEF Steal
    <3>2. /\ PlacesOK' /\ Hands' = Hands /\ Submitting' = Submitting
          /\ \A c \in Clients : pc'[c] = pc[c]
      BY <1>1, <1>2, <1>6, <3>1, WorkerGoes DEF Steal, WorkerPlaces, Holding
    <3> QED
      BY <1>6, <3>1, <3>2, WorkerIsQuiet DEF Steal, history, counters
  <2> QED
    BY <2>2, <2>3
<1>7. CASE CheckStop(w)
  <2>1. PICK place \in {"exited", "lockPop"} : Goto(w, place) /\ TurnTo(w, 0)
    BY <1>7 DEF CheckStop
  <2>2. /\ PlacesOK' /\ Hands' = Hands /\ Submitting' = Submitting
        /\ \A c \in Clients : pc'[c] = pc[c]
    BY <1>1, <1>2, <1>7, <2>1, WorkerGoes DEF CheckStop, WorkerPlaces, Holding
  <2> QED
    BY <1>7, <2>2, WorkerIsQuiet DEF CheckStop, history, counters
<1>8. CASE LockPop(w)
  <2>1. /\ PlacesOK' /\ Hands' = Hands /\ Submitting' = Submitting
        /\ \A c \in Clients : pc'[c] = pc[c]
    BY <1>1, <1>2, <1>8, WorkerGoes DEF LockPop, WorkerPlaces, Holding
  <2> QED
    BY <1>8, <2>1, WorkerIsQuiet DEF LockPop, history, counters
<1>9. CASE Pop(w)
  <2>1. CASE queue[w] # << >>
    <3>1. PopBack(w, w) /\ Goto(w, "begin")
      BY <1>9, <2>1 DEF Pop
    <3>2. /\ PlacesOK' /\ w \notin Hands /\ Hands' = Hands \cup {w} /\ Submitting' = Submitting
          /\ \A c \in Clients : pc'[c] = pc[c]
      BY <1>1, <1>2, <1>9, <3>1, WorkerGoes DEF Pop, WorkerPlaces, Holding
    <3> QED
      BY <1>9, <2>1, <3>1, <3>2, WorkerTakes DEF Pop, history, counters
  <2>2. CASE queue[w] = << >>
    <3>1. PICK place \in {"tryPop", "asleep"} : Goto(w, place) /\ UNCHANGED <<queue, task>>
      BY <1>9, <2>2 DEF Pop
    <3>2. /\ PlacesOK' /\ Hands' = Hands /\ Submitting' = Submitting
          /\ \A c \in Clients : pc'[c] = pc[c]
      BY <1>1, <1>2, <1>9, <3>1, WorkerGoes DEF Pop, WorkerPlaces, Holding
    <3> QED
      BY <1>9, <3>1, <3>2, WorkerIsQuiet DEF Pop, history, counters
  <2> QED
    BY <2>1, <2>2
<1>10. CASE BeginTask(w)
  <2>1. /\ PlacesOK' /\ Hands' = Hands /\ Submitting' = Submitting
        /\ \A c \in Clients : pc'[c] = pc[c]
    BY <1>1, <1>2, <1>10, WorkerGoes DEF BeginTask, WorkerPlaces, Holding
  <2> QED
    BY <1>10, <2>1, WorkerIsQuiet DEF BeginTask, history
<1>11. CASE RunTask(w)
  BY <1>11, WorkerRuns
<1>12. CASE EndTask(w)
  <2>1. /\ PlacesOK' /\ Hands' = Hands /\ Submitting' = Submitting
        /\ \A c \in Clients : pc'[c] = pc[c]
    BY <1>1, <1>2, <1>12, WorkerGoes DEF EndTask, WorkerPlaces, Holding
  <2>2. /\ task' \in [Threads -> Tasks \cup {NoTask}]
        /\ \A u \in Hands \cup Submitting : task'[u] = task[u]
    <3>1. w \notin Hands \cup Submitting
      BY <1>2, <1>12 DEF EndTask, Holding, Submitting
    <3>2. Hands \cup Submitting \subseteq Threads
      BY DEF Hands, Submitting
    <3> QED
      BY <1>12, <3>1, <3>2 DEF EndTask, TypeOK, TasksOK
  <2>3. TasksOK' /\ NumbersOK'
    BY <1>12, <2>2 DEF EndTask, TypeOK, TasksOK, NumbersOK, waits, history
  <2>4. Quiet /\ WorkerFrame
    BY <1>12, <2>1, <2>2
    DEF EndTask, Quiet, WorkerFrame, TypeOK, NumbersOK, waits, history
  <2> QED
    BY <2>1, <2>3, <2>4 DEF TypeOK, WorkerKind
<1> QED
  BY <1>3, <1>4, <1>5, <1>6, <1>7, <1>8, <1>9, <1>10, <1>11, <1>12 DEF Worker

----------------------------------------------------------------------------
(* The steps of the clients.                                               *)

(* A step that moves no task and leaves the counters alone.                *)
LEMMA ClientIsQuiet ==
  ASSUME TypeOK, NEW c \in Clients, PlacesOK', Hands' = Hands, Submitting' = Submitting,
         UNCHANGED <<queue, task, accepted, finished, total_tasks, completed_tasks,
                     failed_tasks>>
  PROVE  TasksOK' /\ ClientKind(c)
<1>1. TasksOK'
  BY DEF TypeOK, TasksOK
<1>2. Quiet
  BY DEF Quiet
<1> QED
  BY <1>1, <1>2 DEF ClientKind

(* A step of a client that is not waiting for the tasks, nor will be.      *)
LEMMA NotWaiting ==
  ASSUME TypeOK, NEW c \in Clients, TasksOK', PlacesOK', pc'[c] \notin Reading,
         ClientKind(c), total_tasks' \in Int, total_tasks' <= total_tasks,
         \A d \in Clients \ {c} : pc'[d] = pc[d],
         UNCHANGED <<completed_tasks, failed_tasks, waits>>
  PROVE  TypeOK' /\ ClientFrame(c) /\ WaitOK(c)'
<1>1. NumbersOK'
  BY DEF TypeOK, NumbersOK, waits
<1>2. ClientFrame(c)
  BY DEF ClientFrame, waits
<1>3. WaitOK(c)'
  BY DEF WaitOK, Reading
<1> QED
  BY <1>1, <1>2, <1>3 DEF TypeOK

LEMMA Counting ==
  ASSUME TypeOK, NEW c \in Clients, NEW t \in Tasks, NEW q \in Workers,
         CountTask(c, t, q), next_queue' \in Workers
  PROVE  TypeOK' /\ ClientKind(c) /\ ClientFrame(c) /\ WaitOK(c)'
<1> USE Apart
<1>1. PlacesOK /\ Goto(c, "lockPush") /\ TurnTo(c, q)
  BY DEF TypeOK, CountTask
<1>2. /\ PlacesOK' /\ pc'[c] = "lockPush" /\ Hands' = Hands
      /\ Submitting' = Submitting \cup {c}
      /\ \A d \in Clients \ {c} : pc'[d] = pc[d]
  BY <1>1, ClientGoes DEF ClientPlaces, Offering
<1>3. TasksOK'
  BY DEF CountTask, TypeOK, TasksOK, history
<1>4. NumbersOK'
  BY DEF CountTask, TypeOK, NumbersOK
<1>5. c \notin Submitting
  BY DEF CountTask, Submitting, Offering
<1>6. t \notin accepted /\ \A d \in Submitting : task[d] # t
  BY DEF CountTask, Unsubmitted, Submitting
<1>7. task'[c] = t /\ \A u \in Threads : u # c => task'[u] = task[u]
  BY DEF CountTask, TypeOK, TasksOK
<1>8. Counts(c, t)
  BY <1>2, <1>5, <1>6, <1>7 DEF Counts, CountTask, history
<1>9. ClientFrame(c)
  BY <1>2 DEF ClientFrame, CountTask, Reading
<1>10. WaitOK(c)'
  BY <1>2 DEF WaitOK, Reading
<1> QED
  BY <1>2, <1>3, <1>4, <1>8, <1>9, <1>10 DEF TypeOK, ClientKind

LEMMA Pushing ==
  ASSUME TypeOK, SubmitInv, NEW c \in Clients, Push(c)
  PROVE  TypeOK' /\ ClientKind(c) /\ ClientFrame(c) /\ WaitOK(c)'
<1>1. /\ PlacesOK /\ Goto(c, "notify") /\ TurnTo(c, at[c]) /\ at[c] \in Workers
      /\ next_queue' \in Workers
  BY Apart, Stays DEF TypeOK, Push, PlacesOK
<1>2. /\ PlacesOK' /\ pc'[c] = "notify" /\ Hands' = Hands
      /\ Submitting' = Submitting \ {c}
      /\ \A d \in Clients \ {c} : pc'[d] = pc[d]
  BY <1>1, ClientGoes DEF ClientPlaces, Offering
<1>3. c \in Submitting /\ task[c] \in Tasks
  BY DEF Push, Submitting, Offering, SubmitInv
<1>4. /\ queue' = [queue EXCEPT ![at[c]] = Append(queue[at[c]], task[c])]
      /\ queue \in [Workers -> Seq(Tasks)]
  BY DEF Push, TypeOK, TasksOK
<1>5. /\ task' = [task EXCEPT ![c] = NoTask]
      /\ task \in [Threads -> Tasks \cup {NoTask}]
      /\ accepted' = accepted \cup {task[c]} /\ UNCHANGED finished
      /\ accepted \in SUBSET Tasks /\ finished \in SUBSET Tasks
  BY DEF Push, TypeOK, TasksOK
<1>6. /\ queue' \in [Workers -> Seq(Tasks)]
      /\ queue'[at[c]] = Append(queue[at[c]], task[c])
      /\ \A r \in Workers : r # at[c] => queue'[r] = queue[r]
  <2>1. Append(queue[at[c]], task[c]) \in Seq(Tasks)
    BY <1>1, <1>3, <1>4, AppendProperties
  <2> QED
    BY <1>1, <1>4, <2>1
<1>7. TasksOK'
  BY <1>3, <1>5, <1>6 DEF TasksOK
<1>8. Pushes(c, at[c])
  BY <1>2, <1>3, <1>5, <1>6 DEF Pushes, Push, counters
<1>9. ClientKind(c)
  BY <1>1, <1>8 DEF ClientKind
<1>10. total_tasks' \in Int /\ total_tasks' <= total_tasks
  BY DEF Push, counters, TypeOK, NumbersOK
<1>11. UNCHANGED <<completed_tasks, failed_tasks, waits>>
  BY DEF Push, counters
<1> QED
  BY <1>2, <1>7, <1>9, <1>10, <1>11, NotWaiting DEF Reading

LEMMA Uncounting ==
  ASSUME TypeOK, NEW c \in Clients, UncountTask(c)
  PROVE  TypeOK' /\ ClientKind(c) /\ ClientFrame(c) /\ WaitOK(c)'
<1>1. PlacesOK /\ Goto(c, "idle") /\ TurnTo(c, 0) /\ next_queue' \in Workers
  BY DEF TypeOK, UncountTask, PlacesOK
<1>2. /\ PlacesOK' /\ pc'[c] = "idle" /\ Hands' = Hands
      /\ Submitting' = Submitting \ {c}
      /\ \A d \in Clients \ {c} : pc'[d] = pc[d]
  BY <1>1, Apart, ClientGoes DEF ClientPlaces, Offering
<1>3. c \in Submitting
  BY DEF UncountTask, Submitting, Offering
<1>4. TasksOK' /\ \A u \in Threads : u # c => task'[u] = task[u]
  BY DEF UncountTask, TypeOK, TasksOK
<1>5. Uncounts(c)
  BY <1>2, <1>3, <1>4 DEF Uncounts, UncountTask
<1>6. total_tasks' \in Int /\ total_tasks' <= total_tasks
  BY DEF UncountTask, TypeOK, NumbersOK
<1>7. ClientKind(c) /\ UNCHANGED <<completed_tasks, failed_tasks, waits>>
  BY <1>5 DEF ClientKind, UncountTask
<1> QED
  BY <1>2, <1>4, <1>6, <1>7, NotWaiting DEF Reading

(* A client that goes on without touching tasks, counters and readings.    *)
LEMMA Moving ==
  ASSUME TypeOK, NEW c \in Clients, PlacesOK', pc'[c] \notin Reading,
         Hands' = Hands, Submitting' = Submitting,
         \A d \in Clients \ {c} : pc'[d] = pc[d],
         UNCHANGED <<queue, task, accepted, finished, total_tasks, completed_tasks,
                     failed_tasks, waits>>
  PROVE  TypeOK' /\ ClientKind(c) /\ ClientFrame(c) /\ WaitOK(c)'
<1>1. total_tasks' \in Int /\ total_tasks' <= total_tasks
  BY DEF TypeOK, NumbersOK
<1>2. TasksOK' /\ ClientKind(c)
  BY ClientIsQuiet
<1> QED
  BY <1>1, <1>2, NotWaiting

(* A client of waitForAll, whose readings are what the code makes of them. *)
LEMMA Waiting ==
  ASSUME TypeOK, NEW c \in Clients, PlacesOK', Hands' = Hands, Submitting' = Submitting,
         \A d \in Clients \ {c} : /\ pc'[d] = pc[d] /\ seen'[d] = seen[d]
                                  /\ counted'[d] = counted[d] /\ late'[d] = late[d],
         seen' \in [Clients -> Int], counted' \in [Clients -> Int],
         late' \in [Clients -> BOOLEAN], WaitOK(c)',
         UNCHANGED <<queue, task, accepted, finished, total_tasks, completed_tasks,
                     failed_tasks>>
  PROVE  TypeOK' /\ ClientKind(c) /\ ClientFrame(c) /\ WaitOK(c)'
<1>1. TasksOK' /\ ClientKind(c)
  BY ClientIsQuiet
<1>2. NumbersOK' /\ ClientFrame(c)
  BY DEF TypeOK, NumbersOK, ClientFrame
<1> QED
  BY <1>1, <1>2 DEF TypeOK

LEMMA Forgetting ==
  ASSUME NumbersOK, NEW c \in Clients, ForgetReadings(c)
  PROVE  /\ seen' \in [Clients -> Int] /\ counted' \in [Clients -> Int]
         /\ late' \in [Clients -> BOOLEAN]
         /\ \A d \in Clients \ {c} : seen'[d] = seen[d] /\ counted'[d] = counted[d]
                                     /\ late'[d] = late[d]
BY DEF NumbersOK, ForgetReadings

LEMMA ClientStep ==
  ASSUME TypeOK, SubmitInv, WaitInv, NEW c \in Clients, Call(c) \/ Proceed(c)
  PROVE  TypeOK' /\ ClientKind(c) /\ ClientFrame(c) /\ WaitOK(c)'
<1> USE DEF history, counters
<1>1. /\ PlacesOK /\ at[c] \in Workers /\ 0 \in Workers /\ next_queue \in Workers
      /\ pc' = pc => Goto(c, pc[c])
      /\ at' = at => TurnTo(c, at[c])
  BY Apart, Stays DEF TypeOK, PlacesOK
<1>2. WaitOK(c)
  BY DEF WaitInv
<1>3. ASSUME NEW t \in Tasks, Submit(c, t)
      PROVE  TypeOK' /\ ClientKind(c) /\ ClientFrame(c) /\ WaitOK(c)'
  <2>1. (next_queue + 1) % NumThreads \in Workers
    BY <1>1, ThreadPoolAssumption DEF Workers
  <2> QED
    BY <1>1, <1>3, <2>1, Counting DEF Submit
<1>4. ASSUME NEW t \in Tasks, NEW q \in Workers, SubmitToQueue(c, t, q)
      PROVE  TypeOK' /\ ClientKind(c) /\ ClientFrame(c) /\ WaitOK(c)'
  BY <1>1, <1>4, Counting DEF SubmitToQueue
<1>5. CASE WaitForAll(c)
  <2>1. /\ PlacesOK' /\ pc'[c] = "readTotal" /\ Hands' = Hands /\ Submitting' = Submitting
        /\ \A d \in Clients \ {c} : pc'[d] = pc[d]
    BY <1>1, <1>5, ClientGoes DEF WaitForAll, ClientPlaces, Offering
  <2> QED
    BY <1>5, <2>1, Moving DEF WaitForAll, Reading
<1>6. CASE GiveUp(c)
  <2>1. /\ PlacesOK' /\ pc'[c] = "idle" /\ Hands' = Hands /\ Submitting' = Submitting
        /\ \A d \in Clients \ {c} : pc'[d] = pc[d]
    BY <1>1, <1>6, ClientGoes DEF GiveUp, ClientPlaces, Offering
  <2> QED
    BY <1>6, <2>1, Moving DEF GiveUp, Reading
<1>7. CASE Shutdown(c)
  <2>1. /\ PlacesOK' /\ pc'[c] = "lockClose" /\ Hands' = Hands /\ Submitting' = Submitting
        /\ \A d \in Clients \ {c} : pc'[d] = pc[d]
    BY <1>1, <1>7, ClientGoes DEF Shutdown, ClientPlaces, Offering
  <2> QED
    BY <1>7, <2>1, Moving DEF Shutdown, Reading
<1>8. CASE LockPush(c)
  <2>1. /\ PlacesOK' /\ pc'[c] = "push" /\ Hands' = Hands /\ Submitting' = Submitting
        /\ \A d \in Clients \ {c} : pc'[d] = pc[d]
    BY <1>1, <1>8, ClientGoes DEF LockPush, ClientPlaces, Offering
  <2> QED
    BY <1>8, <2>1, Moving DEF LockPush, Reading
<1>9. CASE Push(c)
  BY <1>9, Pushing
<1>10. CASE PushRejected(c)
  <2>1. /\ PlacesOK' /\ pc'[c] = "uncount" /\ Hands' = Hands /\ Submitting' = Submitting
        /\ \A d \in Clients \ {c} : pc'[d] = pc[d]
    BY <1>1, <1>10, ClientGoes DEF PushRejected, ClientPlaces, Offering
  <2> QED
    BY <1>10, <2>1, Moving DEF PushRejected, Reading
<1>11. CASE NotifyPush(c)
  <2>1. /\ PlacesOK' /\ pc'[c] = "idle" /\ Hands' = Hands /\ Submitting' = Submitting
        /\ \A d \in Clients \ {c} : pc'[d] = pc[d]
    BY <1>1, <1>11, ClientNotifies DEF NotifyPush, ClientPlaces, Offering
  <2> QED
    BY <1>11, <2>1, Moving DEF NotifyPush, Reading
<1>12. CASE UncountTask(c)
  BY <1>12, Uncounting
<1>13. CASE LockClose(c)
  <2>1. /\ PlacesOK' /\ pc'[c] = "close" /\ Hands' = Hands /\ Submitting' = Submitting
        /\ \A d \in Clients \ {c} : pc'[d] = pc[d]
    BY <1>1, <1>13, ClientGoes DEF LockClose, ClientPlaces, Offering
  <2> QED
    BY <1>13, <2>1, Moving DEF LockClose, Reading
<1>14. CASE Close(c)
  <2>1. /\ PlacesOK' /\ pc'[c] = "notifyClosed" /\ Hands' = Hands /\ Submitting' = Submitting
        /\ \A d \in Clients \ {c} : pc'[d] = pc[d]
    BY <1>1, <1>14, ClientGoes DEF Close, ClientPlaces, Offering
  <2> QED
    BY <1>14, <2>1, Moving DEF Close, Reading
<1>15. CASE NotifyClosed(c)
  <2>1. PICK place \in {"lockClose", "idle"}, n \in Workers :
          Notify(at[c], c, place) /\ TurnTo(c, n)
    <3>1. CASE at[c] + 1 < NumThreads
      <4>1. at[c] + 1 \in Workers
        BY <1>1, <3>1, Apart
      <4> QED
        BY <1>15, <3>1, <4>1 DEF NotifyClosed, CloseNext
    <3>2. CASE ~(at[c] + 1 < NumThreads)
      BY <1>1, <1>15, <3>2 DEF NotifyClosed, CloseNext
    <3> QED
      BY <3>1, <3>2
  <2>2. /\ PlacesOK' /\ pc'[c] = place /\ Hands' = Hands /\ Submitting' = Submitting
        /\ \A d \in Clients \ {c} : pc'[d] = pc[d]
    BY <1>1, <1>15, <2>1, ClientNotifies DEF NotifyClosed, CloseNext, ClientPlaces, Offering
  <2> QED
    BY <1>15, <2>2, Moving DEF NotifyClosed, CloseNext, Reading
<1>16. CASE ReadTotal(c)
  <2>1. /\ PlacesOK' /\ pc'[c] = "readCompleted" /\ Hands' = Hands /\ Submitting' = Submitting
        /\ \A d \in Clients \ {c} : pc'[d] = pc[d]
    BY <1>1, <1>16, ClientGoes DEF ReadTotal, ClientPlaces, Offering
  <2>2. /\ seen' \in [Clients -> Int] /\ counted' \in [Clients -> Int]
        /\ late' \in [Clients -> BOOLEAN]
        /\ \A d \in Clients \ {c} : seen'[d] = seen[d] /\ counted'[d] = counted[d]
                                    /\ late'[d] = late[d]
    BY <1>16 DEF ReadTotal, TypeOK, NumbersOK
  <2>3. WaitOK(c)'
    BY <1>16, <2>1 DEF ReadTotal, WaitOK, TypeOK, NumbersOK
  <2> QED
    BY <1>16, <2>1, <2>2, <2>3, Waiting DEF ReadTotal
<1>17. CASE ReadCompleted(c)
  <2>1. /\ PlacesOK' /\ pc'[c] = "readFailed" /\ Hands' = Hands /\ Submitting' = Submitting
        /\ \A d \in Clients \ {c} : pc'[d] = pc[d]
    BY <1>1, <1>17, ClientGoes DEF ReadCompleted, ClientPlaces, Offering
  <2>2. /\ seen' \in [Clients -> Int] /\ counted' \in [Clients -> Int]
        /\ late' \in [Clients -> BOOLEAN]
        /\ \A d \in Clients \ {c} : seen'[d] = seen[d] /\ counted'[d] = counted[d]
                                    /\ late'[d] = late[d]
    BY <1>17 DEF ReadCompleted, TypeOK, NumbersOK
  <2>3. WaitOK(c)'
    BY <1>2, <1>17, <2>1 DEF ReadCompleted, WaitOK, Reading, TypeOK, NumbersOK
  <2> QED
    BY <1>17, <2>1, <2>2, <2>3, Waiting DEF ReadCompleted
<1>18. CASE ReadFailed(c)
  <2>1. PICK place \in {"readActive", "readTotal"} : Goto(c, place)
    BY <1>18 DEF ReadFailed
  <2>2. /\ PlacesOK' /\ pc'[c] = place /\ Hands' = Hands /\ Submitting' = Submitting
        /\ \A d \in Clients \ {c} : pc'[d] = pc[d]
    BY <1>1, <1>18, <2>1, ClientGoes DEF ReadFailed, ClientPlaces, Offering
  <2>3. /\ seen' \in [Clients -> Int] /\ counted' \in [Clients -> Int]
        /\ late' \in [Clients -> BOOLEAN]
        /\ \A d \in Clients \ {c} : seen'[d] = seen[d] /\ counted'[d] = counted[d]
                                    /\ late'[d] = late[d]
    <3>1. \/ ForgetReadings(c)
          \/ counted' = [counted EXCEPT ![c] = @ + failed_tasks] /\ UNCHANGED <<seen, late>>
      BY <1>18 DEF ReadFailed
    <3>2. NumbersOK
      BY DEF TypeOK
    <3> QED
      BY <3>1, <3>2, Forgetting DEF NumbersOK
  <2>4. WaitOK(c)'
    <3>1. CASE counted[c] + failed_tasks >= seen[c]
      <4>1. /\ counted'[c] = counted[c] + failed_tasks /\ UNCHANGED <<seen, late>>
            /\ Goto(c, "readActive") /\ pc[c] = "readFailed"
            /\ UNCHANGED <<total_tasks, completed_tasks, failed_tasks>>
        BY <1>18, <3>1 DEF ReadFailed, TypeOK, NumbersOK
      <4>2. pc'[c] = "readActive"
        BY <1>1, <4>1, Apart DEF Goto, PlacesOK
      <4>3. counted[c] \in Int /\ completed_tasks \in Int /\ failed_tasks \in Int
        BY DEF TypeOK, NumbersOK
      <4> QED
        BY <1>2, <3>1, <4>1, <4>2, <4>3 DEF WaitOK, Reading
    <3>2. CASE ~(counted[c] + failed_tasks >= seen[c])
      <4>1. pc'[c] = "readTotal"
        BY <1>1, <1>18, <3>2, Apart DEF ReadFailed, Goto, PlacesOK
      <4> QED
        BY <4>1 DEF WaitOK, Reading
    <3> QED
      BY <3>1, <3>2
  <2> QED
    BY <1>18, <2>2, <2>3, <2>4, Waiting DEF ReadFailed
<1>19. CASE ReadActive(c)
  <2>1. PICK place \in {"returned", "readTotal"} : Goto(c, place)
    BY <1>19 DEF ReadActive
  <2>2. /\ PlacesOK' /\ pc'[c] = place /\ Hands' = Hands /\ Submitting' = Submitting
        /\ \A d \in Clients \ {c} : pc'[d] = pc[d]
    BY <1>1, <1>19, <2>1, ClientGoes DEF ReadActive, ClientPlaces, Offering
  <2>3. /\ seen' \in [Clients -> Int] /\ counted' \in [Clients -> Int]
        /\ late' \in [Clients -> BOOLEAN]
        /\ \A d \in Clients \ {c} : seen'[d] = seen[d] /\ counted'[d] = counted[d]
                                    /\ late'[d] = late[d]
    <3>1. UNCHANGED waits \/ ForgetReadings(c)
      BY <1>19 DEF ReadActive
    <3> QED
      BY <3>1, Forgetting DEF waits, TypeOK, NumbersOK
  <2>4. WaitOK(c)'
    <3>1. CASE active_tasks = 0
      BY <1>2, <1>19, <3>1, <2>2 DEF ReadActive, waits, WaitOK, Reading
    <3>2. CASE active_tasks # 0
      <4>1. pc'[c] = "readTotal"
        BY <1>1, <1>19, <3>2, Apart DEF ReadActive, Goto, PlacesOK
      <4> QED
        BY <4>1 DEF WaitOK, Reading
    <3> QED
      BY <3>1, <3>2
  <2> QED
    BY <1>19, <2>2, <2>3, <2>4, Waiting DEF ReadActive
<1>20. CASE GoOn(c)
  <2>1. /\ PlacesOK' /\ pc'[c] = "idle" /\ Hands' = Hands /\ Submitting' = Submitting
        /\ \A d \in Clients \ {c} : pc'[d] = pc[d]
    BY <1>1, <1>20, ClientGoes DEF GoOn, ClientPlaces, Offering
  <2>2. /\ seen' \in [Clients -> Int] /\ counted' \in [Clients -> Int]
        /\ late' \in [Clients -> BOOLEAN]
        /\ \A d \in Clients \ {c} : seen'[d] = seen[d] /\ counted'[d] = counted[d]
                                    /\ late'[d] = late[d]
    BY <1>20, Forgetting DEF GoOn, TypeOK
  <2>3. WaitOK(c)'
    BY <2>1 DEF WaitOK, Reading
  <2> QED
    BY <1>20, <2>1, <2>2, <2>3, Waiting DEF GoOn
<1> QED
  BY <1>3, <1>4, <1>5, <1>6, <1>7, <1>8, <1>9, <1>10, <1>11, <1>12, <1>13, <1>14, <1>15,
     <1>16, <1>17, <1>18, <1>19, <1>20
  DEF Call, Proceed

----------------------------------------------------------------------------
(* The invariant.                                                          *)

LEMMA InitIInv == Init => IInv
<1> SUFFICES ASSUME Init
             PROVE  IInv
  OBVIOUS
<1> USE Apart DEF Init
<1>1. PlacesOK
  BY DEF PlacesOK, WorkerPlaces, ClientPlaces
<1>2. TasksOK
  BY DEF TasksOK
<1>3. NumbersOK
  BY DEF NumbersOK
<1>4. Hands = {} /\ Submitting = {}
  BY DEF Hands, Submitting, Holding, Offering
<1>5. QueueInv /\ HandInv /\ SubmitInv
  BY <1>4 DEF QueueInv, HandInv, SubmitInv
<1>6. CountersInv
  BY <1>4, FS_EmptySet DEF CountersInv
<1>7. WaitInv
  BY DEF WaitInv, WaitOK, Reading
<1> QED
  BY <1>1, <1>2, <1>3, <1>5, <1>6, <1>7 DEF IInv, TypeOK, PoolInv

LEMMA WorkersKeepIInv ==
  ASSUME IInv, NEW w \in Workers, Worker(w)
  PROVE  IInv'
<1>1. TypeOK' /\ WorkerKind(w) /\ WorkerFrame
  BY WorkerStep DEF IInv, PoolInv
<1>2. PoolInv'
  BY <1>1, QuietPreserves, TakePreserves, RunPreserves DEF IInv, WorkerKind
<1>3. WaitInv'
  <2> SUFFICES ASSUME NEW c \in Clients
               PROVE  WaitOK(c)'
    BY DEF WaitInv
  <2>1. /\ WaitOK(c) /\ pc'[c] = pc[c]
        /\ seen'[c] = seen[c] /\ counted'[c] = counted[c] /\ late'[c] = late[c]
        /\ total_tasks' = total_tasks /\ completed_tasks' >= completed_tasks
        /\ completed_tasks' + failed_tasks' >= completed_tasks + failed_tasks
    BY <1>1 DEF IInv, WaitInv, WorkerFrame
  <2>2. /\ counted[c] \in Int /\ completed_tasks \in Int /\ failed_tasks \in Int
        /\ completed_tasks' \in Int /\ failed_tasks' \in Int
    BY <1>1 DEF IInv, TypeOK, NumbersOK
  <2> QED
    BY <2>1, <2>2 DEF WaitOK
<1> QED
  BY <1>1, <1>2, <1>3 DEF IInv

LEMMA ClientsKeepIInv ==
  ASSUME IInv, NEW c \in Clients, Call(c) \/ Proceed(c)
  PROVE  IInv'
<1>1. TypeOK' /\ ClientKind(c) /\ ClientFrame(c) /\ WaitOK(c)'
  BY ClientStep DEF IInv, PoolInv
<1>2. PoolInv'
  BY <1>1, QuietPreserves, CountPreserves, PushPreserves, UncountPreserves
  DEF IInv, ClientKind
<1>3. WaitInv'
  <2> SUFFICES ASSUME NEW d \in Clients \ {c}
               PROVE  WaitOK(d)'
    BY <1>1 DEF WaitInv
  <2>1. /\ WaitOK(d) /\ pc'[d] = pc[d]
        /\ seen'[d] = seen[d] /\ counted'[d] = counted[d]
        /\ completed_tasks' = completed_tasks /\ failed_tasks' = failed_tasks
        /\ \/ late'[d] = late[d] /\ total_tasks' <= total_tasks
           \/ pc[d] \in Reading => late'[d]
    BY <1>1 DEF IInv, WaitInv, ClientFrame
  <2>2. seen[d] \in Int /\ total_tasks \in Int /\ total_tasks' \in Int
    BY <1>1 DEF IInv, TypeOK, NumbersOK
  <2> QED
    BY <2>1, <2>2 DEF WaitOK
<1> QED
  BY <1>1, <1>2, <1>3 DEF IInv

LEMMA StutterKeepsIInv ==
  ASSUME IInv, UNCHANGED vars
  PROVE  IInv'
<1> USE DEF vars, counters, waits, history
<1>1. TypeOK'
  BY DEF IInv, TypeOK, PlacesOK, TasksOK, NumbersOK
<1>2. Quiet
  BY DEF Quiet, Hands, Submitting
<1>3. PoolInv'
  BY <1>1, <1>2, QuietPreserves DEF IInv
<1>4. WaitInv'
  BY DEF IInv, WaitInv, WaitOK
<1> QED
  BY <1>1, <1>3, <1>4 DEF IInv

(* The inductive invariant: tasks are in one place each, the counters      *)
(* count them, and what waitForAll has read bounds what has become of them. *)
THEOREM PoolInvariant == Spec => []IInv
<1>1. IInv /\ [Next]_vars => IInv'
  BY WorkersKeepIInv, ClientsKeepIInv, StutterKeepsIInv DEF Next
<1> QED
  BY <1>1, InitIInv, PTL DEF Spec

(* When waitForAll returns, every accepted task has run, unless a task was *)
(* counted after total_tasks_ was read, for any number of workers, waiting *)
(* clients and tasks, thrown exceptions and rejected submissions included. *)
THEOREM WaitingIsExact == Spec => []WaitIsExact
<1>1. ASSUME IInv
      PROVE  WaitIsExact
  <2> SUFFICES ASSUME NEW c \in Clients, pc[c] = "returned"
               PROVE  /\ Cardinality(finished) >= seen[c]
                      /\ ~late[c] => accepted = finished
    BY DEF WaitIsExact
  <2>1. /\ finished \subseteq accepted
        /\ total_tasks = Cardinality(accepted) + Cardinality(Submitting)
        /\ completed_tasks + failed_tasks = Cardinality(finished)
        /\ ~late[c] => total_tasks <= seen[c]
        /\ seen[c] <= counted[c] /\ counted[c] <= completed_tasks + failed_tasks
    BY <1>1 DEF IInv, PoolInv, SubmitInv, CountersInv, WaitInv, WaitOK, Reading
  <2>2. /\ IsFiniteSet(accepted) /\ Cardinality(accepted) \in Nat
        /\ Cardinality(finished) \in Nat /\ Cardinality(Submitting) \in Nat
        /\ seen[c] \in Int /\ counted[c] \in Int /\ total_tasks \in Int
    BY <1>1, Finite DEF IInv, TypeOK, NumbersOK
  <2>3. Cardinality(finished) >= seen[c]
    BY <2>1, <2>2
  <2>4. ASSUME ~late[c]
        PROVE  accepted = finished
    <3>1. Cardinality(accepted) <= Cardinality(finished)
      BY <2>1, <2>2, <2>4
    <3> QED
      BY <2>1, <2>2, <3>1, FS_Subset
  <2> QED
    BY <2>3, <2>4
<1> QED
  BY <1>1, PoolInvariant, PTL

----------------------------------------------------------------------------
(* The refinement.                                                         *)

LEMMA InThePool ==
  /\ \A x : x \in Queued <=> \E q \in Workers : \E i \in 1 .. Len(queue[q]) : x = queue[q][i]
  /\ \A x : x \in Queued' <=> \E q \in Workers : \E i \in 1 .. Len(queue'[q]) : x = queue'[q][i]
  /\ \A x : x \in Taken <=> \E w \in Hands : x = task[w]
  /\ \A x : x \in Taken' <=> \E w \in Hands' : x = task'[w]
BY DEF Queued, Taken, Hands, Holding

LEMMA TakeRefines ==
  ASSUME IInv, IInv', NEW w \in Workers, NEW q \in Workers,
         NEW k \in 1 .. Len(queue[q]), Takes(w, q, k)
  PROVE  Pool!Take(queue[q][k])
<1> DEFINE t == queue[q][k]
<1>1. TasksOK /\ TasksOK' /\ QueueInv /\ HandInv
  BY DEF IInv, TypeOK, PoolInv
<1>2. t \in Queued /\ UNCHANGED finished
  BY InThePool DEF Takes
<1>3. ASSUME NEW x \in Queued'
      PROVE  x \in Queued /\ x # t
  <2>1. PICK r \in Workers : \E i \in 1 .. Len(queue'[r]) : x = queue'[r][i]
    BY InThePool
  <2>2. PICK i \in 1 .. Len(queue'[r]) : x = queue'[r][i]
    BY <2>1
  <2>3. PICK j \in 1 .. Len(queue[r]) : x = queue[r][j] /\ (r = q => j # k)
    BY <1>1, <2>2, TakeKeepsPlaces
  <2> QED
    BY <1>1, <2>3, InThePool DEF QueueInv
<1>4. ASSUME NEW x \in Queued, x # t
      PROVE  x \in Queued'
  <2>1. PICK r \in Workers : \E j \in 1 .. Len(queue[r]) : x = queue[r][j]
    BY InThePool
  <2>2. PICK j \in 1 .. Len(queue[r]) : x = queue[r][j]
    BY <2>1
  <2>3. CASE r # q
    BY <2>2, <2>3, InThePool DEF Takes
  <2>4. CASE r = q
    <3>1. /\ Len(queue[q]) \in Nat /\ Len(queue'[q]) = Len(queue[q]) - 1
          /\ \A i \in 1 .. Len(queue'[q]) :
               queue'[q][i] = queue[q][IF i < k THEN i ELSE i + 1]
      BY <1>1, LengthsAreNumbers DEF Takes, Dropped
    <3>2. j # k /\ j \in 1 .. Len(queue[q])
      BY <1>4, <2>2, <2>4
    <3>3. \E i \in 1 .. Len(queue'[q]) : (IF i < k THEN i ELSE i + 1) = j
      <4>1. CASE j < k
        <5>1. j \in 1 .. Len(queue'[q])
          BY <3>1, <3>2, <4>1
        <5> QED
          BY <4>1, <5>1
      <4>2. CASE j > k
        <5>1. j - 1 \in 1 .. Len(queue'[q]) /\ ~(j - 1 < k) /\ j - 1 + 1 = j
          BY <3>1, <3>2, <4>2
        <5> QED
          BY <5>1
      <4> QED
        BY <3>1, <3>2, <4>1, <4>2
    <3> QED
      BY <2>2, <2>4, <3>1, <3>3, InThePool
  <2> QED
    BY <2>3, <2>4
<1>5. Queued' = Queued \ {t}
  BY <1>3, <1>4
<1>6. Taken' = Taken \cup {t}
  <2>1. \A v \in Hands : v \in Threads /\ v # w
    BY Apart DEF Takes, Hands
  <2>2. task'[w] = t /\ Hands' = Hands \cup {w} /\ \A v \in Hands : task'[v] = task[v]
    BY <2>1 DEF Takes
  <2> HIDE DEF t
  <2> QED
    BY <2>2, InThePool
<1> HIDE DEF t
<1>7. Pool!Take(t)
  BY <1>2, <1>5, <1>6 DEF Pool!Take
<1> QED
  BY <1>7 DEF t

LEMMA RunRefines ==
  ASSUME IInv, NEW w \in Workers, Runs(w)
  PROVE  Pool!Complete(task[w])
<1>1. HandInv
  BY DEF IInv, PoolInv
<1>2. task[w] \in Taken
  BY InThePool DEF Runs
<1>3. Taken' = Taken \ {task[w]}
  BY <1>1, InThePool DEF Runs, HandInv
<1>4. Queued' = Queued /\ finished' = finished \cup {task[w]}
  BY DEF Runs, Queued
<1> QED
  BY <1>2, <1>3, <1>4 DEF Pool!Complete

LEMMA PushRefines ==
  ASSUME IInv, IInv', NEW c \in Clients, NEW q \in Workers, Pushes(c, q)
  PROVE  Pool!Accept(task[c])
<1> DEFINE t == task[c]
<1>1. TasksOK /\ QueueInv /\ HandInv /\ SubmitInv
  BY DEF IInv, TypeOK, PoolInv
<1>2. t \in Tasks /\ t \notin accepted
  BY <1>1 DEF Pushes, SubmitInv
<1>3. t \notin Queued \cup Taken \cup finished
  BY <1>1, <1>2, InThePool DEF QueueInv, HandInv, SubmitInv
<1>4. /\ Len(queue'[q]) = Len(queue[q]) + 1 /\ Len(queue[q]) \in Nat
      /\ queue'[q][Len(queue[q]) + 1] = t
      /\ \A i \in 1 .. Len(queue[q]) : queue'[q][i] = queue[q][i]
  BY <1>1, <1>2, LengthsAreNumbers, AppendProperties DEF Pushes
<1>5. \A r \in Workers : r # q => queue'[r] = queue[r]
  BY DEF Pushes
<1> HIDE DEF t
<1>6. ASSUME NEW x \in Queued'
      PROVE  x \in Queued \cup {t}
  <2>1. PICK r \in Workers : \E i \in 1 .. Len(queue'[r]) : x = queue'[r][i]
    BY InThePool
  <2>2. PICK i \in 1 .. Len(queue'[r]) : x = queue'[r][i]
    BY <2>1
  <2>3. CASE r # q
    BY <1>5, <2>2, <2>3, InThePool
  <2>4. CASE r = q
    <3>1. CASE i = Len(queue[q]) + 1
      BY <1>4, <2>2, <2>4, <3>1
    <3>2. CASE i # Len(queue[q]) + 1
      <4>1. i \in 1 .. Len(queue[q])
        BY <1>4, <2>4, <3>2
      <4> QED
        BY <1>4, <2>2, <2>4, <4>1, InThePool
    <3> QED
      BY <3>1, <3>2
  <2> QED
    BY <2>3, <2>4
<1>7. t \in Queued'
  <2>1. Len(queue[q]) + 1 \in 1 .. Len(queue'[q])
    BY <1>4
  <2> QED
    BY <1>4, <2>1, InThePool
<1>8. ASSUME NEW x \in Queued
      PROVE  x \in Queued'
  <2>1. PICK r \in Workers : \E i \in 1 .. Len(queue[r]) : x = queue[r][i]
    BY InThePool
  <2>2. PICK i \in 1 .. Len(queue[r]) : x = queue[r][i]
    BY <2>1
  <2>3. CASE r # q
    BY <1>5, <2>2, <2>3, InThePool
  <2>4. CASE r = q
    <3>1. i \in 1 .. Len(queue'[q])
      BY <1>4, <2>4
    <3> QED
      BY <1>4, <2>2, <2>4, <3>1, InThePool
  <2> QED
    BY <2>3, <2>4
<1>9. Queued' = Queued \cup {t}
  BY <1>6, <1>7, <1>8
<1>10. Taken' = Taken
  <2>1. Hands' = Hands /\ \A v \in Hands : task'[v] = task[v]
    BY Apart DEF Pushes, Hands
  <2>2. \A x : x \in Taken' <=> x \in Taken
    BY <2>1, InThePool
  <2> QED
    BY <2>2
<1>11. UNCHANGED finished
  BY DEF Pushes
<1>12. Pool!Accept(t)
  BY <1>3, <1>9, <1>10, <1>11 DEF Pool!Accept
<1> QED
  BY <1>12 DEF t

(* Any other step stutters.                                                *)
LEMMA OthersStutter ==
  ASSUME UNCHANGED <<queue, finished>>, Hands' = Hands, \A v \in Hands : task'[v] = task[v]
  PROVE  UNCHANGED Pool!poolvars
<1>1. Taken' = Taken
  <2>1. \A x : x \in Taken' <=> x \in Taken
    BY InThePool
  <2> QED
    BY <2>1
<1>2. Queued' = Queued
  BY DEF Queued
<1> QED
  BY <1>1, <1>2 DEF Pool!poolvars

(* The pool implements a pool, whatever its queues do: every accepted task *)
(* is taken by one worker and runs once, for any number of workers.        *)
THEOREM PoolRefines == Spec => ImplementsPool
<1>1. ASSUME Init
      PROVE  Pool!Init
  <2>1. \A q \in Workers : queue[q] = << >>
    BY <1>1 DEF Init
  <2>2. Queued = {}
    BY <2>1, InThePool
  <2>3. Hands = {}
    BY <1>1, Apart DEF Init, Hands, Holding
  <2>4. Taken = {}
    BY <2>3, InThePool
  <2> QED
    BY <1>1, <2>2, <2>4 DEF Init, Pool!Init
<1>2. ASSUME IInv, IInv', [Next]_vars
      PROVE  [Pool!Next]_Pool!poolvars
  <2>1. ASSUME NEW w \in Workers, Worker(w)
        PROVE  [Pool!Next]_Pool!poolvars
    <3>1. WorkerKind(w)
      BY <1>2, <2>1, WorkerStep DEF IInv, PoolInv
    <3>2. CASE Quiet
      BY <3>2, OthersStutter DEF Quiet
    <3>3. ASSUME NEW q \in Workers, NEW k \in 1 .. Len(queue[q]), Takes(w, q, k)
          PROVE  Pool!Next
      <4>1. queue[q][k] \in Tasks
        BY <1>2 DEF IInv, PoolInv, QueueInv, TypeOK, TasksOK
      <4> QED
        BY <1>2, <3>3, <4>1, TakeRefines DEF Pool!Next
    <3>4. ASSUME Runs(w)
          PROVE  Pool!Next
      <4>1. task[w] \in Tasks
        BY <1>2, <3>4 DEF Runs, IInv, PoolInv, HandInv, TypeOK, TasksOK
      <4> QED
        BY <1>2, <3>4, <4>1, RunRefines DEF Pool!Next
    <3> QED
      BY <3>1, <3>2, <3>3, <3>4 DEF WorkerKind
  <2>2. ASSUME NEW c \in Clients, Call(c) \/ Proceed(c)
        PROVE  [Pool!Next]_Pool!poolvars
    <3>1. ClientKind(c)
      BY <1>2, <2>2, ClientStep DEF IInv, PoolInv
    <3>2. c \in Threads /\ \A v \in Hands : v \in Threads /\ v # c
      BY Apart DEF Hands
    <3>3. CASE Quiet
      BY <3>3, OthersStutter DEF Quiet
    <3>4. ASSUME NEW t \in Tasks, Counts(c, t)
          PROVE  UNCHANGED Pool!poolvars
      BY <3>2, <3>4, OthersStutter DEF Counts
    <3>5. ASSUME NEW q \in Workers, Pushes(c, q)
          PROVE  Pool!Next
      <4>1. task[c] \in Tasks
        BY <1>2, <3>5 DEF Pushes, IInv, PoolInv, SubmitInv
      <4> QED
        BY <1>2, <3>5, <4>1, PushRefines DEF Pool!Next
    <3>6. CASE Uncounts(c)
      BY <3>2, <3>6, OthersStutter DEF Uncounts
    <3> QED
      BY <3>1, <3>3, <3>4, <3>5, <3>6 DEF ClientKind
  <2>3. CASE UNCHANGED vars
    BY <2>3, OthersStutter DEF vars, history, Hands
  <2> QED
    BY <1>2, <2>1, <2>2, <2>3 DEF Next
<1> QED
  BY <1>1, <1>2, PoolInvariant, PTL DEF Spec, ImplementsPool, Pool!Spec
=============================================================================
