----------------------------- MODULE FifoSemaphore ----------------------------
(***************************************************************************)
(* What gt_sem_wait ("P") and gt_sem_post ("V") of scheduler/gthr.c        *)
(* promise the threads that share a semaphore, without a counter, thread   *)
(* states or a scheduler: at most Units threads are inside, the others     *)
(* stand in line, and a thread that leaves hands its unit directly to the  *)
(* thread that has been in line longest, so that nobody overtakes.         *)
(***************************************************************************)
EXTENDS Integers, Sequences, FiniteSets

CONSTANTS Threads,   \* the threads that may use the semaphore
          Units      \* initial value of the semaphore

VARIABLES inside,    \* threads that own a unit
          line       \* threads waiting for one, the longest waiting first

vars == <<inside, line>>

InLine(t) == \E i \in 1 .. Len(line) : line[i] = t

Init == inside = {} /\ line = <<>>

(* A free unit is taken at once, provided that nobody is waiting for it. *)
Enter(t) ==
    /\ t \notin inside /\ ~InLine(t)
    /\ line = <<>> /\ Cardinality(inside) < Units
    /\ inside' = inside \cup {t}
    /\ UNCHANGED line

(* All units are owned: the thread joins the line at its end. *)
Join(t) ==
    /\ t \notin inside /\ ~InLine(t)
    /\ Cardinality(inside) >= Units
    /\ line' = Append(line, t)
    /\ UNCHANGED inside

(* The unit goes to the head of the line, or becomes free. *)
Leave(t) ==
    /\ t \in inside
    /\ \/ /\ line # <<>>
          /\ inside' = (inside \ {t}) \cup {Head(line)}
          /\ line' = Tail(line)
       \/ /\ line = <<>>
          /\ inside' = inside \ {t}
          /\ UNCHANGED line

Next == \E t \in Threads : Enter(t) \/ Join(t) \/ Leave(t)

Spec == Init /\ [][Next]_vars
===============================================================================
