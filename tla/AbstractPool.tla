--------------------------- MODULE AbstractPool ---------------------------
(***************************************************************************)
(* What a thread pool promises, whatever its queues do: a submitted task   *)
(* waits until one worker takes it, runs once, and is done.  Nothing is    *)
(* promised about the order.                                               *)
(***************************************************************************)
CONSTANT Tasks

VARIABLES
  waiting,   \* tasks that were accepted and that no worker has taken
  running,   \* tasks a worker has taken
  done       \* tasks that ran, and threw or not

poolvars == <<waiting, running, done>>

Init == waiting = {} /\ running = {} /\ done = {}

Accept(t) ==
  /\ t \notin waiting \cup running \cup done
  /\ waiting' = waiting \cup {t}
  /\ UNCHANGED <<running, done>>

Take(t) ==
  /\ t \in waiting
  /\ waiting' = waiting \ {t}
  /\ running' = running \cup {t}
  /\ UNCHANGED done

Complete(t) ==
  /\ t \in running
  /\ running' = running \ {t}
  /\ done' = done \cup {t}
  /\ UNCHANGED waiting

Next == \E t \in Tasks : Accept(t) \/ Take(t) \/ Complete(t)

Spec == Init /\ [][Next]_poolvars
============================================================================
