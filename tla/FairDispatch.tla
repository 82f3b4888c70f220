------------------------------ MODULE FairDispatch ----------------------------
(***************************************************************************)
(* What the pre-forked pool of AAAAAAAAAAaa/main.cpp promises its clients, *)
(* without sockets, pipes or signals: connections are dealt to the workers *)
(* in turn, a worker serves those dealt to it one at a time and in the     *)
(* order of their arrival, and none of them is served twice, changes hands *)
(* or is dropped, unless its worker or the dispatcher stops.               *)
(***************************************************************************)
EXTENDS Integers, Sequences, SequencesExt

CONSTANT N            \* number of workers, at least one

VARIABLES turns,      \* turns dealt so far; a connection is named by its turn
          backlog,    \* backlog[w]: connections dealt to w and not finished
          open,       \* the dispatcher is accepting connections
          up          \* workers that are running

vars == <<turns, backlog, open, up>>

Workers == 0 .. N - 1

Init == /\ turns = 0 /\ open = TRUE
        /\ backlog = [w \in Workers |-> <<>>]
        /\ up = Workers

Arrive == /\ open
          /\ turns' = turns + 1
          /\ backlog' = [backlog EXCEPT ![turns % N] = Append(@, turns')]
          /\ UNCHANGED <<open, up>>

(* A turn without a connection: the client was gone before it was accepted. *)
Skip == open /\ turns' = turns + 1 /\ UNCHANGED <<backlog, open, up>>

Finish(w) == /\ w \in up /\ backlog[w] # <<>>
             /\ backlog' = [backlog EXCEPT ![w] = Tail(@)]
             /\ UNCHANGED <<turns, open, up>>

(* The latest connection, if any, may still be with the dispatcher. *)
HasLatest(s)     == s # <<>> /\ Last(s) = turns
WithoutLatest(s) == IF HasLatest(s) THEN Front(s) ELSE s
OnlyLatest(s)    == IF HasLatest(s) THEN <<turns>> ELSE <<>>

(* A worker stops with its backlog, a connection still on its way excepted. *)
StopWorker(w) ==
    /\ w \in up /\ up' = up \ {w}
    /\ \E kept \in {<<>>, OnlyLatest(backlog[w])} :
           backlog' = [backlog EXCEPT ![w] = kept]
    /\ UNCHANGED <<turns, open>>

(* The dispatcher stops, with the connection it has not passed on yet. *)
Close ==
    /\ open /\ open' = FALSE
    /\ \/ UNCHANGED backlog
       \/ backlog' = [w \in Workers |-> WithoutLatest(backlog[w])]
    /\ UNCHANGED <<turns, up>>

Next == Arrive \/ Skip \/ Close \/ \E w \in Workers : Finish(w) \/ StopWorker(w)

Spec == Init /\ [][Next]_vars
===============================================================================
