------------------------------ MODULE Scheduling ------------------------------
(***************************************************************************)
(* The three selection algorithms of scheduler/gthr.c as operators on the  *)
(* thread table: which thread round_robin_select, priority_based_select    *)
(* and lottery_scheduling_select store in *selected, or None when they     *)
(* return false.  Each is a set of results with one element; the loops     *)
(* that compute them are in SchedulingLoops, which checks that they agree. *)
(***************************************************************************)
EXTENDS Integers

CONSTANT MaxGThreads    \* size of gt_table

ASSUME MaxGThreadsAssumption == MaxGThreads \in Nat \ {0}

Threads == 0 .. MaxGThreads - 1          \* indexes of gt_table
Main == 0                                \* &gt_table[0], the initial thread
None == -1                               \* the select function returned false

ThreadStates == {"Unused", "Running", "Ready", "Blocked"}
Algorithms == {"RoundRobin", "PriorityBased", "LotteryScheduling"}

(***************************************************************************)
(* How many increments of p, wrapping at the end of the table, lead from   *)
(* thread cur to thread t.  cur itself comes last.                         *)
(***************************************************************************)
Rank(cur, t) == IF t > cur THEN t - cur ELSE t - cur + MaxGThreads

OtherReady(st, cur) == {t \in Threads \ {cur} : st[t] = "Ready"}

(* A scan that always starts at the first slot: a mistake FirstReady could
   contain, used by no specification. *)
FirstReadyFromSlotZero(st, cur) ==
    {t \in OtherReady(st, cur) : \A u \in OtherReady(st, cur) : t <= u}

(* The ready thread the scan that starts behind cur meets first. *)
FirstReady(st, cur) ==
    {t \in OtherReady(st, cur) :
        \A u \in OtherReady(st, cur) : Rank(cur, t) <= Rank(cur, u)}

(***************************************************************************)
(* The scan ends at cur.  A blocked cur is skipped by the continue, which  *)
(* ends the loop: no thread was found.  Otherwise cur is selected, whether *)
(* it is running or has just become unused.                                *)
(***************************************************************************)
RoundRobinSelect(st, cur) ==
    IF OtherReady(st, cur) # {} THEN FirstReady(st, cur)
    ELSE IF st[cur] = "Blocked" THEN {None} ELSE {cur}

(***************************************************************************)
(* The loop stops at the first ready thread, because highest_priority is   *)
(* still zero when its priority is compared.  It tests p == gt_current     *)
(* before anything else, so it falls back to cur even when cur is blocked. *)
(***************************************************************************)
PriorityBasedSelect(st, cur) ==
    IF OtherReady(st, cur) # {} THEN FirstReady(st, cur) ELSE {cur}

(***************************************************************************)
(* The first thread in table order that is in use and owns the ticket runs *)
(* if it can; if it is blocked the draw falls back to round robin.  The    *)
(* ticket of a thread that is Unused selects nobody.                       *)
(***************************************************************************)
Owners(st, start, end, ticket) ==
    {t \in Threads : st[t] # "Unused" /\ ticket \in start[t] .. end[t]}

LotterySelect(st, cur, start, end, ticket) ==
    LET owners == Owners(st, start, end, ticket)
        first  == {t \in owners : \A u \in owners : t <= u}
    IN  IF owners = {} THEN {None}
        ELSE {t \in first : st[t] # "Blocked"}
             \cup (IF \E t \in first : st[t] = "Blocked"
                   THEN RoundRobinSelect(st, cur) ELSE {})
===============================================================================
