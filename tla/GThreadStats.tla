------------------------------ MODULE GThreadStats ----------------------------
(***************************************************************************)
(* The statistics of scheduler/gthr.c: struct gt_stats of every thread and *)
(* the code that keeps it, inside gt_create, gt_schedule, gt_sem_wait,     *)
(* gt_sem_post and gt_return, over the behaviours of GThread and a clock.  *)
(*                                                                         *)
(* The clock does not run backwards.  gt_schedule reads it several times;  *)
(* here it is one instant.  Of the report of gt_print_stats the times are  *)
(* here; the counts, extremes, sum_runtime and sums of squares, which are  *)
(* updated where the times are and only printed, are left out.             *)
(***************************************************************************)
EXTENDS GThread

CONSTANTS
    MaxTime,      \* bound on the clock
    MaxCalls      \* bound on the calls of gt_schedule

ASSUME StatsAssumption == {MaxTime, MaxCalls} \subseteq Nat

VARIABLES
    now,          \* what gettimeofday returns
    stats,        \* stats[t]: struct gt_stats of slot t
    spent,        \* spent[t]: time slot t really was Running and Ready
    leaving,      \* threads in gt_return that have charged their last slice
    calls         \* calls of gt_schedule so far

statsVars == <<vars, now, stats, spent, leaving, calls>>

(* All zero, like the slots of the table before gt_create. *)
Zeroed ==
    [last_run |-> 0, last_ready |-> 0,
     total_runtime |-> 0, total_waittime |-> 0, sum_waittime |-> 0]

gt_init_stats ==
    [Zeroed EXCEPT !.last_run = now, !.last_ready = now]

StatsInit ==
    /\ Init
    /\ now = 0 /\ calls = 0 /\ leaving = {}
    /\ stats = [t \in Threads |-> IF t = Main THEN gt_init_stats ELSE Zeroed]
    /\ spent = [t \in Threads |-> [running |-> 0, ready |-> 0]]

-------------------------------------------------------------------------------
(* The updates, as functions of the table s of statistics. *)

update_runtime_stats(s, t) ==
    IF state[t] # "Running" THEN s
    ELSE [s EXCEPT ![t].total_runtime = @ + now - s[t].last_run]

update_waittime_stats(s, t) ==
    LET waittime == now - s[t].last_ready
    IN  IF state[t] \notin {"Ready", "Blocked"} THEN s
        ELSE [s EXCEPT ![t].total_waittime = @ + waittime,
                       ![t].sum_waittime = @ + waittime]

(* The part of prepare_for_switch that reads the clock. *)
prepare_for_switch(s, next) ==
    [s EXCEPT ![gt_current].last_ready =
                  IF state[gt_current] \in {"Unused", "Blocked"} THEN @ ELSE now,
              ![next].last_run = now]

-------------------------------------------------------------------------------
(* The steps *)

(* Time passes, and every thread is in some state meanwhile; none passes
   between the two lines of gt_return. *)
Tick ==
    /\ now < MaxTime /\ process = "up"
    /\ gt_current \in leaving => pc[gt_current] # "top"
    /\ now' = now + 1
    /\ spent' = [t \in Threads |->
                    [running |-> spent[t].running + (IF state[t] = "Running" THEN 1 ELSE 0),
                     ready   |-> spent[t].ready + (IF state[t] = "Ready" THEN 1 ELSE 0)]]
    /\ UNCHANGED <<vars, stats, leaving, calls>>

(* A call of gt_schedule that selects gt_current' and switches to it. *)
Selects ==
    /\ gt_current' \in Picks /\ Switch(gt_current') /\ process' = process
    /\ stats' = prepare_for_switch(
                    update_waittime_stats(
                        update_runtime_stats(stats, gt_current), gt_current'),
                    gt_current')

(* One that finds nobody has charged the running thread before it looks. *)
SelectsNobody ==
    /\ None \in Picks /\ gt_current' = gt_current /\ state' = state
    /\ gt_current = Main => process' # process
    /\ stats' = update_runtime_stats(stats, gt_current)

GtSchedule ==
    /\ calls < MaxCalls /\ calls' = calls + 1
    /\ \/ Alarm \/ MainYields
       \/ \E t \in Threads : WaitYields(t) \/ PostYields(t) \/ ReturnYields(t)
    /\ Selects \/ SelectsNobody
    /\ UNCHANGED <<now, spent, leaving>>

(* An alarm whose gt_schedule fails leaves nothing but its statistics. *)
FailedAlarm ==
    /\ calls < MaxCalls /\ calls' = calls + 1
    /\ process = "up" /\ alarm /\ None \in Picks
    /\ stats' = update_runtime_stats(stats, gt_current)
    /\ UNCHANGED <<vars, now, spent, leaving>>

Create ==
    /\ gt_create
    /\ stats' = [t \in Threads |-> IF state'[t] = state[t] THEN stats[t]
                                   ELSE gt_init_stats]

(***************************************************************************)
(* A thread that has to wait is charged the time since it became ready,    *)
(* which includes the time it has been running since.                      *)
(***************************************************************************)
Wait(t) ==
    /\ t \notin leaving /\ gt_sem_wait(t)
    /\ stats' = IF queue' = queue THEN stats
                ELSE [stats EXCEPT ![t].total_waittime = @ + now - stats[t].last_ready]

(* A mistake for Post: last_ready stays what it was before the wait. *)
PostWithoutTime(t) == gt_sem_post(t) /\ UNCHANGED stats

Post(t) ==
    /\ gt_sem_post(t)
    /\ stats' = IF queue = <<>> THEN stats
                ELSE [stats EXCEPT ![Head(queue)].last_ready = now]

(* A mistake for Charge: the last slice of the thread is dropped. *)
ChargeNothing(t) == stats' = stats

Charge(t) ==
    stats' = [stats EXCEPT ![t].total_runtime = @ + now - stats[t].last_run]

(* gt_return charges the last slice while the thread is still Running, so an
   alarm before the next line charges it again. *)
ReturnCharges(t) ==
    /\ MayReturn /\ t # Main /\ At(t, "top")
    /\ t \notin leaving /\ leaving' = leaving \cup {t}
    /\ Charge(t)
    /\ UNCHANGED <<vars, now, spent, calls>>

ReturnStops(t) == t \in leaving /\ gt_return(t) /\ UNCHANGED stats

(* Code that keeps no statistics. *)
Uncounted(t) ==
    /\ (t = Main /\ MainReturns) \/ WaitReturns(t) \/ AssertFails(t)
    /\ UNCHANGED stats

StatsNext ==
    \/ Tick \/ GtSchedule \/ FailedAlarm \/ \E t \in Threads : ReturnCharges(t)
    \/ /\ \/ Create
          \/ \E t \in Threads : Wait(t) \/ Post(t) \/ ReturnStops(t) \/ Uncounted(t)
       /\ UNCHANGED <<now, spent, leaving, calls>>

StatsSpec == StatsInit /\ [][StatsNext]_statsVars

-------------------------------------------------------------------------------
(* Properties *)

(* The slice and the wait that have not been charged yet, as gt_print_stats
   adds them. *)
current_runtime(t) == IF state[t] = "Running" THEN now - stats[t].last_run ELSE 0
current_waittime(t) == IF state[t] = "Ready" THEN now - stats[t].last_ready ELSE 0

(***************************************************************************)
(* update_waittime_stats, gt_sem_post: sum_waittime, which the printed     *)
(* average is made of, is exactly the time a thread has been Ready,        *)
(* whatever sequence of preemptions, waits and wake-ups it went through.   *)
(* After a failed draw a gt_sem_post may set last_ready of a thread that   *)
(* is Ready already, and a part of its wait is lost.                       *)
(***************************************************************************)
WaitsAreExact ==
    DrawsSucceed => \A t \in Threads :
        stats[t].sum_waittime + current_waittime(t) = spent[t].ready

(* The threads that are Blocked because malloc failed in gt_sem_wait. *)
Unqueued == {t \in Threads : state[t] = "Blocked"} \ Queued

(***************************************************************************)
(* total_runtime and total_waittime: together they miss no time a thread   *)
(* was Running or Ready.  A slice that ends in gt_sem_wait is charged as   *)
(* waiting instead of running, and the wait before it a second time.       *)
(* Until a thread is charged so, both are exact; none but a thread in      *)
(* gt_return is charged more running time than it had.  A thread that      *)
(* gt_sem_wait has no node for is never charged its last slice.            *)
(***************************************************************************)
TimeIsAccounted ==
    DrawsSucceed => \A t \in Threads \ Unqueued :
        LET run  == stats[t].total_runtime + current_runtime(t)
            wait == stats[t].total_waittime + current_waittime(t)
        IN  /\ run + wait >= spent[t].running + spent[t].ready
            /\ t \notin leaving =>
                  /\ run <= spent[t].running
                  /\ stats[t].total_waittime = stats[t].sum_waittime =>
                         run = spent[t].running /\ wait = spent[t].ready
===============================================================================
