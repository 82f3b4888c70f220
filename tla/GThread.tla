-------------------------------- MODULE GThread -------------------------------
(***************************************************************************)
(* The green threads of scheduler/: the thread table, gt_create,           *)
(* gt_schedule with its three selection algorithms, gt_return, the alarm   *)
(* that preempts, and the FIFO semaphore, driven by the program main.c     *)
(* runs: the initial thread creates workers and calls gt_return, each      *)
(* worker loops through gt_sem_wait, a critical section and gt_sem_post.   *)
(*                                                                         *)
(* One OS thread executes everything, so a step is always a step of        *)
(* gt_current.  gt_schedule is one step here: gt_reset_sig has just given  *)
(* the running slice another 500 microseconds when the selection starts.   *)
(* GThreadPreempt splits it up.  The code of gt_sem_wait and gt_sem_post   *)
(* between the two sigprocmask calls is one step as well: SIGALRM, the     *)
(* only other source of switches, is blocked there.                        *)
(***************************************************************************)
EXTENDS Scheduling, Sequences, FiniteSets, Functions

CONSTANTS
    MaxPriority,     \* upper bound of a priority
    Menu,            \* algorithms the user may select at the prompt
    Priorities,      \* the arguments main passes to gt_create, in order
    SemValue,        \* the value main passes to gt_sem_init
    MayReturn,       \* TRUE if the run function of a worker may return
    MallocMayFail    \* TRUE if malloc may return NULL

ASSUME ConstantsAssumption ==
    /\ MaxPriority \in Nat \ {0}
    /\ Menu \subseteq Algorithms
    /\ Priorities \in Seq(Int)
    /\ SemValue \in Nat
    /\ MayReturn \in BOOLEAN
    /\ MallocMayFail \in BOOLEAN

VARIABLES
    current_algorithm,
    state, gt_current,                                      \* thread table
    base_priority, ticket_start, ticket_end, total_tickets,
    value, queue,                                           \* semaphore
    created,         \* calls of gt_create made by main
    alarm,           \* the alarm has been started by a first gt_schedule
    pc,              \* what each thread executes next, see PCs
    process          \* "up", or how the process ended

semaphore == <<value, queue>>
tickets   == <<base_priority, ticket_start, ticket_end, total_tickets>>
vars == <<current_algorithm, state, gt_current, tickets, semaphore,
          created, alarm, pc, process>>

(***************************************************************************)
(* "none"     the slot runs no code                                        *)
(* "create"   main creates the workers                                     *)
(* "yield"    main is in the loop of gt_return, before gt_schedule         *)
(* "top"      a worker is about to call gt_sem_wait                        *)
(* "waiting"  in gt_sem_wait, signals restored, before gt_schedule         *)
(* "parked"   in gt_sem_wait, gt_schedule has switched away                *)
(* "crit"     gt_sem_wait has returned                                     *)
(* "posted"   in gt_sem_post, signals restored, before gt_schedule         *)
(* "stopped"  in gt_return, marked Unused, before gt_schedule              *)
(* "gone"     in gt_return, gt_schedule has switched away                  *)
(***************************************************************************)
PCs == {"none", "create", "yield", "top", "waiting", "parked", "crit",
        "posted", "stopped", "gone"}

(* The process runs, and it runs thread t, which has reached label. *)
At(t, label) == process = "up" /\ gt_current = t /\ pc[t] = label

Goto(t, label) == pc' = [pc EXCEPT ![t] = label]

-------------------------------------------------------------------------------
(* The user chooses an algorithm, or gets RoundRobin for an invalid choice. *)
select_algorithm == current_algorithm \in Menu

(* The initial thread runs with the first MaxPriority tickets; every other
   slot of the table is zeroed memory. *)
gt_init ==
    /\ state = [t \in Threads |-> IF t = Main THEN "Running" ELSE "Unused"]
    /\ gt_current = Main
    /\ base_priority = [t \in Threads |-> IF t = Main THEN MaxPriority ELSE 0]
    /\ ticket_start = [t \in Threads |-> IF t = Main THEN 1 ELSE 0]
    /\ ticket_end = [t \in Threads |-> IF t = Main THEN MaxPriority ELSE 0]
    /\ total_tickets = MaxPriority

gt_sem_init == value = SemValue /\ queue = <<>>

Init ==
    /\ select_algorithm /\ gt_init /\ gt_sem_init
    /\ created = 0
    /\ alarm = FALSE
    /\ pc = [t \in Threads |-> IF t = Main THEN "create" ELSE "none"]
    /\ process = "up"

-------------------------------------------------------------------------------
(* gt_schedule *)

(* The threads the selected algorithm may pick now, or None. *)
Picks ==
    CASE current_algorithm = "RoundRobin" ->
            RoundRobinSelect(state, gt_current)
      [] current_algorithm = "PriorityBased" ->
            PriorityBasedSelect(state, gt_current)
      [] current_algorithm = "LotteryScheduling" ->
            IF total_tickets <= 0 THEN {None}
            ELSE UNION {LotterySelect(state, gt_current, ticket_start,
                                      ticket_end, ticket) :
                            ticket \in 1 .. total_tickets}

(***************************************************************************)
(* prepare_for_switch, gt_current = selected and gt_switch.  The operators *)
(* before Switch are mistakes it could contain: the old thread stays       *)
(* Running, the new one is not marked, the test for Blocked or the test    *)
(* for Unused is missing.  No specification uses them, here or below.      *)
(***************************************************************************)
SwitchKeepsOld(s) ==
    state' = [state EXCEPT ![s] = "Running"] /\ gt_current' = s

SwitchForgetsNew(s) ==
    /\ state' = [state EXCEPT ![gt_current] =
                    IF @ \in {"Unused", "Blocked"} THEN @ ELSE "Ready"]
    /\ gt_current' = s

SwitchWakesBlocked(s) ==
    /\ state' = [state EXCEPT ![gt_current] =
                    IF @ = "Unused" THEN @ ELSE "Ready", ![s] = "Running"]
    /\ gt_current' = s

SwitchRevivesUnused(s) ==
    /\ state' = [state EXCEPT ![gt_current] =
                    IF @ = "Blocked" THEN @ ELSE "Ready", ![s] = "Running"]
    /\ gt_current' = s

Switch(s) ==
    /\ state' = [state EXCEPT
                    ![gt_current] =
                        IF @ \in {"Unused", "Blocked"} THEN @ ELSE "Ready",
                    ![s] = "Running"]
    /\ gt_current' = s

(***************************************************************************)
(* The running thread calls gt_schedule, which switches to a thread it     *)
(* selects; the caller goes on at label when it is switched to again.      *)
(***************************************************************************)
Yield(label) ==
    /\ \E s \in Picks \ {None} : Switch(s)
    /\ Goto(gt_current, label)
    /\ alarm' = TRUE
    /\ UNCHANGED <<current_algorithm, tickets, semaphore, created, process>>

(* gt_schedule has found no thread and returns false to the running one. *)
FailedYield(label) ==
    /\ None \in Picks
    /\ Goto(gt_current, label)
    /\ alarm' = TRUE
    /\ UNCHANGED <<current_algorithm, state, gt_current, tickets, semaphore,
                   created>>

(***************************************************************************)
(* SIGALRM interrupts the running thread; gt_alarm_handle calls            *)
(* gt_schedule and the thread later goes on where it was.  A gt_schedule   *)
(* that fails changes nothing here.                                        *)
(***************************************************************************)
Alarm == process = "up" /\ alarm /\ Yield(pc[gt_current])

-------------------------------------------------------------------------------
(* gt_create and assign_tickets, called by main before any gt_schedule *)

(* Without the upper bound. *)
PositivePriority(priority) ==
    IF priority < 1 THEN MaxPriority \div 2 ELSE priority

ValidPriority(priority) ==
    IF priority < 1 \/ priority > MaxPriority
    THEN MaxPriority \div 2 ELSE priority

(* A range that starts at the last ticket of the thread before. *)
assign_overlapping_tickets(p, priority) ==
    /\ ticket_start' = [ticket_start EXCEPT ![p] = total_tickets]
    /\ ticket_end' = [ticket_end EXCEPT ![p] = total_tickets + priority]
    /\ total_tickets' = total_tickets + priority

assign_tickets(p, priority) ==
    LET count == IF priority <= 0 THEN 1 ELSE priority
    IN  /\ ticket_start' = [ticket_start EXCEPT ![p] = total_tickets + 1]
        /\ ticket_end' = [ticket_end EXCEPT ![p] = total_tickets + count]
        /\ total_tickets' = total_tickets + count

EmptySlot(p) ==
    /\ state[p] = "Unused"
    /\ \A q \in Threads : q < p => state[q] # "Unused"

gt_create ==
    /\ At(Main, "create")
    /\ created < Len(Priorities)
    /\ created' = created + 1
    /\ \/ \E p \in Threads :
            LET priority == ValidPriority(Priorities[created + 1])
            IN  /\ EmptySlot(p)
                /\ state' = [state EXCEPT ![p] = "Ready"]
                /\ base_priority' = [base_priority EXCEPT ![p] = priority]
                /\ assign_tickets(p, priority)
                /\ Goto(p, "top")
       \/ /\ MallocMayFail \/ \A p \in Threads : state[p] # "Unused"
          /\ UNCHANGED <<state, tickets, pc>>
    /\ UNCHANGED <<current_algorithm, gt_current, semaphore, alarm, process>>

(* main has created its workers and calls gt_return. *)
MainReturns ==
    /\ At(Main, "create")
    /\ created = Len(Priorities)
    /\ Goto(Main, "yield")
    /\ UNCHANGED <<current_algorithm, state, gt_current, tickets, semaphore,
                   created, alarm, process>>

(* while (gt_schedule()) ; exit(ret) *)
MainYields ==
    /\ At(Main, "yield")
    /\ \/ Yield("yield")
       \/ FailedYield("yield") /\ process' = "exited"

-------------------------------------------------------------------------------
(* gt_sem_wait *)

(* The new node is made the tail, but not the successor of the old tail. *)
EnqueueUnlinked(t) == queue' = IF queue = <<>> THEN <<t>> ELSE queue

(* The new node becomes the last one of the waiting queue. *)
Enqueue(t) == queue' = Append(queue, t)

(* The test of the counter, and a test that is off by one. *)
NotNegative == value >= 0

Available == value > 0

(***************************************************************************)
(* The part that runs with signals blocked: take a unit, or join the queue *)
(* as Blocked.  When malloc fails the thread is Blocked, in no queue, and  *)
(* gt_sem_wait returns.                                                    *)
(***************************************************************************)
gt_sem_wait(t) ==
    /\ At(t, "top")
    /\ \/ /\ Available
          /\ value' = value - 1
          /\ Goto(t, "crit")
          /\ UNCHANGED <<state, queue>>
       \/ /\ ~Available
          /\ state' = [state EXCEPT ![t] = "Blocked"]
          /\ Enqueue(t)
          /\ Goto(t, "waiting")
          /\ UNCHANGED value
       \/ /\ ~Available /\ MallocMayFail
          /\ state' = [state EXCEPT ![t] = "Blocked"]
          /\ Goto(t, "crit")
          /\ UNCHANGED semaphore
    /\ UNCHANGED <<current_algorithm, gt_current, tickets, created, alarm,
                   process>>

(* The call of gt_schedule that ends gt_sem_wait; its result is ignored. *)
WaitYields(t) ==
    /\ At(t, "waiting")
    /\ \/ Yield("parked")
       \/ FailedYield("parked") /\ UNCHANGED process

(* That gt_schedule has returned, and with it gt_sem_wait. *)
WaitReturns(t) ==
    /\ At(t, "parked")
    /\ Goto(t, "crit")
    /\ UNCHANGED <<current_algorithm, state, gt_current, tickets, semaphore,
                   created, alarm, process>>

-------------------------------------------------------------------------------
(* gt_sem_post *)

(* Mistakes in HandOver: the unit is counted as well, the thread that has
   waited least gets it, or the thread is left Blocked. *)
HandOverAndCount ==
    /\ queue' = Tail(queue)
    /\ state' = [state EXCEPT ![Head(queue)] = "Ready"]
    /\ value' = value + 1

HandOverToLast ==
    /\ queue' = SubSeq(queue, 1, Len(queue) - 1)
    /\ state' = [state EXCEPT ![queue[Len(queue)]] = "Ready"]
    /\ UNCHANGED value

HandOverWithoutWakeup ==
    /\ queue' = Tail(queue)
    /\ UNCHANGED <<state, value>>

(* The unit goes to the head of the queue, which leaves it. *)
HandOver ==
    /\ queue' = Tail(queue)
    /\ state' = [state EXCEPT ![Head(queue)] = "Ready"]
    /\ UNCHANGED value

(* The part that runs with signals blocked. *)
gt_sem_post(t) ==
    /\ At(t, "crit")
    /\ \/ queue # <<>> /\ HandOver
       \/ /\ queue = <<>>
          /\ value' = value + 1
          /\ UNCHANGED <<state, queue>>
    /\ Goto(t, "posted")
    /\ UNCHANGED <<current_algorithm, gt_current, tickets, created, alarm,
                   process>>

PostYields(t) ==
    /\ At(t, "posted")
    /\ \/ Yield("top")
       \/ FailedYield("top") /\ UNCHANGED process

-------------------------------------------------------------------------------
(* gt_stop and gt_return, reached when the run function of a worker returns *)

(***************************************************************************)
(* The thread marks its slot Unused and frees its stack by an address that *)
(* malloc has not returned: the C library aborts the process or carries on.*)
(***************************************************************************)
gt_return(t) ==
    /\ MayReturn /\ t # Main /\ At(t, "top")
    /\ state' = [state EXCEPT ![t] = "Unused"]
    /\ process' \in {"up", "heap abort"}
    /\ Goto(t, "stopped")
    /\ UNCHANGED <<current_algorithm, gt_current, tickets, semaphore,
                   created, alarm>>

ReturnYields(t) ==
    /\ At(t, "stopped")
    /\ \/ Yield("gone")
       \/ FailedYield("gone") /\ UNCHANGED process

(* gt_schedule returns to gt_return: assert(!"reachable") fails. *)
AssertFails(t) ==
    /\ At(t, "gone")
    /\ process' = "assert failed"
    /\ UNCHANGED <<current_algorithm, state, gt_current, tickets, semaphore,
                   created, alarm, pc>>

-------------------------------------------------------------------------------
(* One step of the code thread t runs. *)
Step(t) ==
    \/ t = Main /\ (gt_create \/ MainReturns \/ MainYields)
    \/ gt_sem_wait(t) \/ WaitYields(t) \/ WaitReturns(t)
    \/ gt_sem_post(t) \/ PostYields(t)
    \/ ReturnYields(t) \/ AssertFails(t)

Next == Alarm \/ \E t \in Threads : Step(t) \/ gt_return(t)

Spec == Init /\ [][Next]_vars

(***************************************************************************)
(* The interval timer keeps firing.  A thread that gets the CPU again and  *)
(* again gets through its next piece of code although it is preempted: it  *)
(* goes on where it was, and a sleep asks for the remaining time only.     *)
(* Nothing obliges a run function to return.                               *)
(***************************************************************************)
Fairness == WF_vars(Alarm) /\ \A t \in Threads : SF_vars(Step(t))

FairSpec == Spec /\ Fairness
-------------------------------------------------------------------------------
(* Correctness *)

Endings == {"exited", "assert failed", "heap abort"}

(* Every variable has its type; the number of tickets never shrinks to zero. *)
TypeOK ==
    /\ current_algorithm \in Menu
    /\ state \in [Threads -> ThreadStates]
    /\ gt_current \in Threads
    /\ base_priority \in [Threads -> 0 .. MaxPriority]
    /\ ticket_start \in [Threads -> Nat]
    /\ ticket_end \in [Threads -> Nat]
    /\ total_tickets \in Nat \ {0}
    /\ value \in Nat
    /\ queue \in Seq(Threads)
    /\ created \in 0 .. Len(Priorities)
    /\ alarm \in BOOLEAN
    /\ pc \in [Threads -> PCs]
    /\ process \in {"up"} \cup Endings

(* The threads in gt_sem_wait that have not returned from it. *)
Waiters == {t \in Threads : pc[t] \in {"waiting", "parked"}}

(* The threads that own a unit: gt_sem_wait has let them through, or
   gt_sem_post has handed them the unit while they were waiting. *)
Inside  == {t \in Threads : pc[t] = "crit"}
Holders == Inside \cup {t \in Waiters : state[t] # "Blocked"}

Queued == Range(queue)

(* gt_schedule always finds a thread, unless the lottery may draw the ticket
   of one that has finished.  A draw that fails makes gt_sem_wait return
   without a unit, and gt_return continue. *)
NobodyHasFinished == \A t \in Threads : pc[t] \notin {"stopped", "gone"}

DrawsSucceed == current_algorithm = "LotteryScheduling" => NobodyHasFinished

(* At most one thread is marked Running, and it is gt_current: what
   prepare_for_switch keeps in step with "gt_current = selected". *)
OneRunner == \A t \in Threads : state[t] = "Running" => t = gt_current

(* And the thread that executes is that one, except for the moment in which it
   is about to give up the CPU for good: it blocked itself in gt_sem_wait or
   marked itself Unused in gt_return.  It stays in that moment, or goes on
   after it, only if a draw has failed. *)
CurrentRuns ==
    /\ OneRunner
    /\ DrawsSucceed /\ process = "up" =>
          \/ state[gt_current] = "Running"
          \/ state[gt_current] = "Blocked" /\ pc[gt_current] = "waiting"
          \/ state[gt_current] = "Unused" /\ pc[gt_current] = "stopped"

(* The queue of the semaphore holds every thread at most once, and only
   Blocked threads inside gt_sem_wait, so that gt_sem_post wakes a sleeper. *)
QueueSound ==
    /\ IsInjective(queue)
    /\ \A t \in Queued : state[t] = "Blocked" /\ t \in Waiters

(* A Blocked thread is in the queue, where a later gt_sem_post finds it. *)
NobodyForgotten == \A t \in Threads : state[t] = "Blocked" => t \in Queued

(* The linked list and its tail pointer hold exactly the Blocked threads. *)
QueueIsTheBlocked == DrawsSucceed => QueueSound /\ NobodyForgotten

(* The counter and the threads that own a unit add up to the initial value,
   and a unit is free only while nobody is queued for it. *)
UnitsAddUp ==
    /\ value + Cardinality(Holders) = SemValue
    /\ queue # <<>> => value = 0

(* gt_sem_wait and gt_sem_post lose or make no unit, as long as no draw lets
   a thread through that was not handed one. *)
UnitsConserved == DrawsSucceed => UnitsAddUp

(* The same books without thread states: whoever is in gt_sem_wait or past
   it either took a unit or has a node in the queue.  Holds even when
   gt_sem_wait returns without the semaphore, as long as malloc succeeds. *)
BooksBalance ==
    value + Cardinality(Waiters \cup Inside) = SemValue + Len(queue)

(* At most SemValue threads are between gt_sem_wait and gt_sem_post, as long
   as no draw lets a thread through. *)
MutualExclusion == DrawsSucceed => Cardinality(Inside) <= SemValue

(* Every ticket the lottery can draw belongs to exactly one thread in use,
   so that a draw always selects somebody. *)
EveryTicketOwned ==
    \A ticket \in 1 .. total_tickets :
        \E t \in Threads :
            Owners(state, ticket_start, ticket_end, ticket) = {t}

(* assign_tickets deals the tickets out so; gt_return does not take the ones
   of a finished thread out of the draw. *)
TicketPartition == NobodyHasFinished => EveryTicketOwned

(* Round robin and the priority scan bring every switch nearer to a thread
   that stays ready: it is overtaken at most once by each other slot. *)
RoundRobinProgress ==
    [][ \A t \in Threads :
          current_algorithm # "LotteryScheduling"
          /\ state[t] = "Ready" /\ state'[t] = "Ready"
          /\ t # gt_current /\ gt_current' # gt_current
            => Rank(gt_current', t) < Rank(gt_current, t) ]_vars

(* The slot of a thread that returned is never switched to or revived.  The
   lottery breaks this: when it makes gt_sem_wait return early, the thread's
   node stays in the queue, and a gt_sem_post that finds it there after the
   thread has returned marks the finished thread Ready. *)
GoneStaysGone ==
    [][ \A t \in Threads :
          current_algorithm # "LotteryScheduling"
          /\ pc[t] \in {"stopped", "gone"} /\ gt_current # t
            => gt_current' # t /\ state'[t] = "Unused" ]_vars

(* assert(!"reachable"): gt_schedule never returns to a thread in gt_return,
   unless the lottery has drawn the ticket of a thread that is gone. *)
NeverReachesAssert ==
    process = "assert failed" => current_algorithm = "LotteryScheduling"

(* gt_sem_wait and gt_sem_post are a first-in first-out semaphore: every step
   is one of the abstract semaphore, up to the first that a thread takes after
   a draw may have failed. *)
Fifo == INSTANCE FifoSemaphore
            WITH inside <- Holders, line <- queue, Units <- SemValue

FifoSpec == Fifo!Init /\ [][DrawsSucceed' => Fifo!Next]_(Fifo!vars)

(* What a thread is promised: the algorithm is not left to the dice, and the
   process has not ended. *)
Promised == current_algorithm # "LotteryScheduling" /\ process = "up"

(* A thread that waits for the semaphore gets it, unless a run function that
   returns ends the process first. *)
NoStarvation ==
    \A t \in Threads :
        Promised /\ t \in Waiters ~> t \in Inside \/ process # "up"

(* A thread that is ready gets the CPU, with the same exception. *)
EveryReadyRuns ==
    \A t \in Threads :
        Promised /\ state[t] = "Ready" ~> gt_current = t \/ process # "up"

AllDone ==
    /\ pc[Main] = "yield"
    /\ \A t \in Threads \ {Main} : state[t] = "Unused"

(* Once no worker is left, main's loop over gt_schedule ends and the process
   exits. *)
MainExits == AllDone ~> process # "up"
===============================================================================
