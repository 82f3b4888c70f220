---------------------------- MODULE SchedulingLoops ---------------------------
(***************************************************************************)
(* One call of gt_schedule in scheduler/gthr.c, loop iteration by loop     *)
(* iteration: the scans of round_robin_select, priority_based_select and   *)
(* lottery_scheduling_select, then update_waittime_stats.  It is started   *)
(* on every table of the shape gt_create and the switches give it, which   *)
(* includes the ones GThread reaches, to show that the scans compute what  *)
(* the operators of Scheduling define, that they end, and what becomes of  *)
(* the priorities and of their boost.                                      *)
(***************************************************************************)
EXTENDS Scheduling

CONSTANT MaxPriority

ASSUME MaxPriorityAssumption == MaxPriority \in Nat \ {0}

VARIABLES
    algorithm,
    state, gt_current, base_priority, current_priority,    \* the thread table
    ticket_start, ticket_end, winning_ticket,
    p, highest_priority, selected,                         \* locals
    at               \* "select", "fallback", "account" or "done"

table == <<algorithm, state, gt_current, base_priority, ticket_start,
           ticket_end, winning_ticket>>
vars == <<table, current_priority, p, highest_priority, selected, at>>

-------------------------------------------------------------------------------
(***************************************************************************)
(* The tables: main and threads in the next slots have been created with   *)
(* consecutive ticket ranges; main is Running or Ready, only gt_current is *)
(* Running, and gt_current may just have become Blocked or Unused.         *)
(***************************************************************************)
LastTicket(base) ==
    LET last[t \in Threads] == base[t] + (IF t = Main THEN 0 ELSE last[t - 1])
    IN  last

Init ==
    /\ algorithm \in Algorithms
    /\ gt_current \in Threads
    /\ \E created \in Threads :
          /\ state \in [Threads -> ThreadStates]
          /\ base_priority \in
                {b \in [Threads -> 0 .. MaxPriority] :
                    /\ b[Main] = MaxPriority
                    /\ \A t \in Threads : b[t] > 0 <=> t <= created}
          /\ \A t \in Threads : t > created => state[t] = "Unused"
          /\ gt_current <= created
    /\ state[Main] = IF gt_current = Main THEN "Running" ELSE "Ready"
    /\ \A t \in Threads \ {Main} :
          IF t = gt_current THEN state[t] # "Ready" ELSE state[t] # "Running"
    /\ current_priority = base_priority
    /\ ticket_end = [t \in Threads |-> IF base_priority[t] = 0 THEN 0
                                       ELSE LastTicket(base_priority)[t]]
    /\ ticket_start = [t \in Threads |-> IF base_priority[t] = 0 THEN 0
                                         ELSE ticket_end[t] - base_priority[t] + 1]
    /\ winning_ticket \in 1 .. LastTicket(base_priority)[MaxGThreads - 1]
    /\ p = IF algorithm = "LotteryScheduling" THEN Main ELSE gt_current
    /\ highest_priority = 0
    /\ selected = None
    /\ at = "select"

-------------------------------------------------------------------------------
(* An increment that leaves the last slot out: a mistake for Successor. *)
ShortSuccessor(q) == IF q + 1 >= MaxGThreads - 1 THEN Main ELSE q + 1

(* if (++p == &gt_table[MaxGThreads]) p = &gt_table[0] *)
Successor(q) == IF q + 1 = MaxGThreads THEN Main ELSE q + 1

(* The scan is over; *selected, or None when it returns false. *)
Return(s) ==
    /\ selected' = s
    /\ at' = IF s = None THEN "done" ELSE "account"

(* One iteration of the do-while loop of round_robin_select. *)
RoundRobinIteration ==
    LET q == Successor(p) IN
    /\ p' = q
    /\ \/ /\ state[q] = "Blocked" /\ q # gt_current
          /\ UNCHANGED <<selected, at>>
       \/ /\ state[q] = "Blocked" /\ q = gt_current
          /\ Return(None)
       \/ /\ state[q] # "Blocked"
          /\ q = gt_current \/ state[q] = "Ready"
          /\ Return(q)
       \/ /\ state[q] \notin {"Blocked", "Ready"} /\ q # gt_current
          /\ UNCHANGED <<selected, at>>
    /\ UNCHANGED <<table, current_priority, highest_priority>>

RoundRobin ==
    /\ at = "fallback" \/ (at = "select" /\ algorithm = "RoundRobin")
    /\ RoundRobinIteration

(* The boosted priority of a thread the scan meets. *)
Boosted(q) ==
    IF current_priority[q] + 1 > MaxPriority
    THEN MaxPriority ELSE current_priority[q] + 1

(* A mistake for PriorityBased: the scan does not test p == gt_current. *)
PriorityBasedEndless ==
    LET q == Successor(p) IN
    /\ at = "select" /\ algorithm = "PriorityBased"
    /\ p' = q
    /\ IF state[q] = "Ready" THEN Return(q) ELSE UNCHANGED <<selected, at>>
    /\ UNCHANGED <<table, current_priority, highest_priority>>

(* One iteration of the do-while loop of priority_based_select. *)
PriorityBased ==
    LET q == Successor(p) IN
    /\ at = "select" /\ algorithm = "PriorityBased"
    /\ p' = q
    /\ \/ /\ q = gt_current
          /\ Return(q)
          /\ UNCHANGED <<current_priority, highest_priority>>
       \/ /\ q # gt_current /\ state[q] # "Ready"
          /\ UNCHANGED <<selected, at, current_priority, highest_priority>>
       \/ /\ q # gt_current /\ state[q] = "Ready"
          /\ current_priority' = [current_priority EXCEPT ![q] = Boosted(q)]
          /\ IF Boosted(q) >= highest_priority
             THEN highest_priority' = Boosted(q) /\ Return(q)
             ELSE UNCHANGED <<highest_priority, selected, at>>
    /\ UNCHANGED table

(* One iteration of the for loop of lottery_scheduling_select. *)
Lottery ==
    LET owner == winning_ticket \in ticket_start[p] .. ticket_end[p] IN
    /\ at = "select" /\ algorithm = "LotteryScheduling"
    /\ \/ /\ owner /\ state[p] \in {"Ready", "Running"}
          /\ Return(p)
          /\ UNCHANGED p
       \/ /\ owner /\ state[p] = "Blocked"
          /\ at' = "fallback"
          /\ p' = gt_current
          /\ UNCHANGED selected
       \/ /\ ~owner \/ state[p] = "Unused"
          /\ IF p + 1 = MaxGThreads
             THEN Return(None) /\ UNCHANGED p
             ELSE p' = p + 1 /\ UNCHANGED <<selected, at>>
    /\ UNCHANGED <<table, current_priority, highest_priority>>

(* update_waittime_stats: the selected thread gets its own priority back. *)
update_waittime_stats ==
    /\ at = "account" /\ at' = "done"
    /\ current_priority' =
          IF state[selected] \in {"Ready", "Blocked"}
          THEN [current_priority EXCEPT ![selected] = base_priority[selected]]
          ELSE current_priority
    /\ UNCHANGED <<table, p, highest_priority, selected>>

Next == RoundRobin \/ PriorityBased \/ Lottery \/ update_waittime_stats

(* The loops run to their end unless they never end: a step is never delayed. *)
Spec == Init /\ [][Next]_vars /\ WF_vars(Next)

-------------------------------------------------------------------------------
(* What the three select functions return is what Scheduling says, for every
   table: the scans neither skip a slot nor stop short of one. *)
LoopsMatchOperators ==
    at \in {"account", "done"} =>
        {selected} =
            CASE algorithm = "RoundRobin" -> RoundRobinSelect(state, gt_current)
              [] algorithm = "PriorityBased" ->
                    PriorityBasedSelect(state, gt_current)
              [] algorithm = "LotteryScheduling" ->
                    LotterySelect(state, gt_current, ticket_start, ticket_end,
                                  winning_ticket)

(* What priority_based_select does is select the thread round robin would
   select, whatever the priorities; but for a caller that just blocked itself
   or returned while nobody else is ready, which cannot be since main is. *)
PriorityIsRoundRobin ==
    at \in {"account", "done"} /\ algorithm = "PriorityBased" =>
        {selected} = RoundRobinSelect(state, gt_current)

(* No call of gt_schedule leaves a changed priority behind: the boost is given
   to the thread that is selected only, and taken back at once.  So a call
   finds base_priority everywhere, however often a thread has been skipped. *)
NoBoostSurvives == at = "done" => current_priority = base_priority

(* What the comments in priority_based_select and struct gt promise: "Select
   thread based on priority", "higher number = higher priority", and "boost
   priority if skipped".  A ready thread that is passed over has no higher
   priority than the selected one, or is compensated by a boost. *)
PassedOverOnlyWithBoost ==
    at = "done" /\ algorithm = "PriorityBased" =>
        \A t \in OtherReady(state, gt_current) \ {selected} :
            \/ base_priority[t] <= base_priority[selected]
            \/ current_priority[t] > base_priority[t]

(* gt_schedule comes back from its scan, the "while (found == false)" of
   priority_based_select included. *)
Terminates == <>(at = "done")
===============================================================================
