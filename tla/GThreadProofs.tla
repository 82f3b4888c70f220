----------------------------- MODULE GThreadProofs ----------------------------
(***************************************************************************)
(* Theorems about GThread for every size of the thread table, every list   *)
(* of priorities and every initial value of the semaphore.                 *)
(***************************************************************************)
EXTENDS GThread, FiniteSetTheorems, SequenceTheorems, TLAPS

-------------------------------------------------------------------------------
(* The thread table and the selection *)

(* gt_table[0] is a slot of the table. *)
LEMMA MainIsThread == Main \in Threads /\ None \notin Threads
BY MaxGThreadsAssumption DEF Main, None, Threads

(* Whatever a selection returns is a thread, unless it returns false. *)
LEMMA PicksAreThreads ==
    ASSUME TypeOK, NEW s \in Picks, s # None
    PROVE  s \in Threads
<1>1. \A c \in Threads : FirstReady(state, c) \subseteq Threads
  BY DEF FirstReady, OtherReady
<1>2. RoundRobinSelect(state, gt_current) \subseteq Threads \cup {None}
  BY <1>1 DEF RoundRobinSelect, TypeOK
<1>3. PriorityBasedSelect(state, gt_current) \subseteq Threads
  BY <1>1 DEF PriorityBasedSelect, TypeOK
<1>4. \A ticket : LotterySelect(state, gt_current, ticket_start, ticket_end,
                                ticket) \subseteq Threads \cup {None}
  BY <1>2 DEF LotterySelect, Owners
<1>5. current_algorithm \in Algorithms
  BY ConstantsAssumption DEF TypeOK
<1>. QED  BY <1>2, <1>3, <1>4, <1>5 DEF Picks, Algorithms

(* The table after prepare_for_switch, slot by slot. *)
LEMMA SwitchEffect ==
    ASSUME TypeOK, NEW s \in Threads, Switch(s)
    PROVE  /\ gt_current' = s
           /\ state' \in [Threads -> ThreadStates]
           /\ \A u \in Threads :
                 state'[u] = IF u = s THEN "Running"
                             ELSE IF /\ u = gt_current
                                     /\ state[u] \notin {"Unused", "Blocked"}
                                  THEN "Ready" ELSE state[u]
BY DEF Switch, TypeOK, ThreadStates

(* gt_create gives a priority within its bounds, and at least one ticket. *)
LEMMA PriorityBounds ==
    \A priority \in Int : ValidPriority(priority) \in 0 .. MaxPriority
BY ConstantsAssumption DEF ValidPriority

-------------------------------------------------------------------------------
(* Type correctness *)

LEMMA YieldTypes ==
    ASSUME TypeOK, NEW label \in PCs, Yield(label)
    PROVE  TypeOK'
<1>1. PICK s \in Picks \ {None} : Switch(s)
  BY DEF Yield
<1>2. s \in Threads
  BY <1>1, PicksAreThreads
<1>3. state' \in [Threads -> ThreadStates] /\ gt_current' \in Threads
  BY <1>1, <1>2, SwitchEffect
<1>. QED  BY <1>3 DEF TypeOK, Yield, Goto, tickets, semaphore

LEMMA FailedYieldTypes ==
    ASSUME TypeOK, NEW label \in PCs, FailedYield(label),
           process' \in {"up"} \cup Endings
    PROVE  TypeOK'
BY DEF TypeOK, FailedYield, Goto, tickets, semaphore

(* The initial states have them. *)
LEMMA InitTypes == Init => TypeOK
<1>. SUFFICES ASSUME Init PROVE TypeOK
  OBVIOUS
<1>. USE MainIsThread, ConstantsAssumption
   DEF Init, select_algorithm, gt_init, gt_sem_init
<1>1. state \in [Threads -> ThreadStates] /\ pc \in [Threads -> PCs]
  BY DEF ThreadStates, PCs
<1>2. /\ base_priority \in [Threads -> 0 .. MaxPriority]
      /\ ticket_start \in [Threads -> Nat] /\ ticket_end \in [Threads -> Nat]
  OBVIOUS
<1>3. created \in 0 .. Len(Priorities) /\ total_tickets \in Nat \ {0}
  OBVIOUS
<1>4. value \in Nat /\ queue \in Seq(Threads)
  OBVIOUS
<1>5. gt_current \in Threads /\ alarm \in BOOLEAN
  OBVIOUS
<1>. QED  BY <1>1, <1>2, <1>3, <1>4, <1>5
   DEF TypeOK, Init, select_algorithm, gt_init, gt_sem_init

(* Every step keeps the types. *)
LEMMA TypesAreKept == TypeOK /\ [Next]_vars => TypeOK'
<1>. SUFFICES ASSUME TypeOK, [Next]_vars PROVE TypeOK'
  OBVIOUS
<1>0. \A l : l \in {"create", "yield", "top", "waiting", "parked", "crit",
                   "posted", "stopped", "gone"} => l \in PCs
  BY DEF PCs
<1>1. CASE Alarm
  <2>1. pc[gt_current] \in PCs
    BY DEF TypeOK
  <2>. QED  BY <1>1, <2>1, YieldTypes DEF Alarm
<1>2. CASE gt_create
  <2>1. CASE UNCHANGED <<state, tickets, pc>>
    BY <1>2, <2>1, ConstantsAssumption
       DEF gt_create, TypeOK, tickets, semaphore
  <2>2. CASE ~ UNCHANGED <<state, tickets, pc>>
    <3>. DEFINE priority == ValidPriority(Priorities[created + 1])
    <3>1. PICK p \in Threads :
             /\ state' = [state EXCEPT ![p] = "Ready"]
             /\ base_priority' = [base_priority EXCEPT ![p] = priority]
             /\ assign_tickets(p, priority)
             /\ Goto(p, "top")
      BY <1>2, <2>2 DEF gt_create
    <3>2. created < Len(Priorities) /\ created' = created + 1
      BY <1>2 DEF gt_create
    <3>3. Priorities[created + 1] \in Int
      BY <3>2, ConstantsAssumption DEF TypeOK
    <3>4. priority \in 0 .. MaxPriority
      BY <3>3, PriorityBounds
    <3>5. base_priority' \in [Threads -> 0 .. MaxPriority]
      BY <3>1, <3>4 DEF TypeOK
    <3>6. /\ ticket_start' \in [Threads -> Nat]
          /\ ticket_end' \in [Threads -> Nat]
          /\ total_tickets' \in Nat \ {0}
      <4>. HIDE DEF priority
      <4>. QED BY <3>1, <3>4, ConstantsAssumption DEF assign_tickets, TypeOK
    <3>7. state' \in [Threads -> ThreadStates] /\ pc' \in [Threads -> PCs]
      BY <3>1, <1>0 DEF TypeOK, Goto, ThreadStates
    <3>8. created' \in 0 .. Len(Priorities)
      BY <3>2, ConstantsAssumption DEF TypeOK
    <3>. QED
      BY <1>2, <3>5, <3>6, <3>7, <3>8 DEF gt_create, TypeOK, semaphore
  <2>. QED  BY <2>1, <2>2
<1>3. CASE MainReturns
  BY <1>3, <1>0 DEF MainReturns, TypeOK, Goto, tickets, semaphore
<1>4. CASE MainYields
  BY <1>4, <1>0, YieldTypes, FailedYieldTypes DEF MainYields, Endings
<1>5. ASSUME NEW t \in Threads, gt_sem_wait(t) PROVE TypeOK'
  <2>1. pc' \in [Threads -> PCs] /\ state' \in [Threads -> ThreadStates]
    BY <1>5, <1>0 DEF gt_sem_wait, TypeOK, Goto, ThreadStates
  <2>2. queue' \in Seq(Threads)
    <3>1. queue' = queue \/ queue' = Append(queue, t)
      BY <1>5 DEF gt_sem_wait, Enqueue, semaphore
    <3>2. queue \in Seq(Threads)
      BY DEF TypeOK
    <3>. QED  BY <3>1, <3>2
  <2>3. value' \in Nat
    <3>1. value' = value \/ (value > 0 /\ value' = value - 1)
      BY <1>5 DEF gt_sem_wait, Available, semaphore
    <3>. QED  BY <3>1 DEF TypeOK
  <2>. QED  BY <1>5, <2>1, <2>2, <2>3 DEF gt_sem_wait, TypeOK, tickets
<1>6. ASSUME NEW t \in Threads, WaitYields(t) PROVE TypeOK'
  <2>1. process \in {"up"} \cup Endings
    BY DEF TypeOK
  <2>. QED  BY <1>6, <2>1, <1>0, YieldTypes, FailedYieldTypes DEF WaitYields
<1>7. ASSUME NEW t \in Threads, WaitReturns(t) PROVE TypeOK'
  BY <1>7, <1>0 DEF WaitReturns, TypeOK, Goto, tickets, semaphore
<1>8. ASSUME NEW t \in Threads, gt_sem_post(t) PROVE TypeOK'
  <2>1. pc' \in [Threads -> PCs]
    BY <1>8, <1>0 DEF gt_sem_post, TypeOK, Goto
  <2>2. state' \in [Threads -> ThreadStates]
    BY <1>8 DEF gt_sem_post, HandOver, TypeOK, ThreadStates
  <2>3. queue' \in Seq(Threads)
    <3>1. queue' = queue \/ (queue # <<>> /\ queue' = Tail(queue))
      BY <1>8 DEF gt_sem_post, HandOver
    <3>2. queue \in Seq(Threads)
      BY DEF TypeOK
    <3>. QED  BY <3>1, <3>2
  <2>4. value' \in Nat
    BY <1>8 DEF gt_sem_post, HandOver, TypeOK
  <2>. QED  BY <1>8, <2>1, <2>2, <2>3, <2>4 DEF gt_sem_post, TypeOK, tickets
<1>9. ASSUME NEW t \in Threads, PostYields(t) PROVE TypeOK'
  <2>1. process \in {"up"} \cup Endings
    BY DEF TypeOK
  <2>. QED  BY <1>9, <2>1, <1>0, YieldTypes, FailedYieldTypes DEF PostYields
<1>10. ASSUME NEW t \in Threads, gt_return(t) PROVE TypeOK'
  BY <1>10, <1>0
     DEF gt_return, TypeOK, Goto, tickets, semaphore, ThreadStates, Endings
<1>11. ASSUME NEW t \in Threads, ReturnYields(t) PROVE TypeOK'
  <2>1. process \in {"up"} \cup Endings
    BY DEF TypeOK
  <2>. QED  BY <1>11, <2>1, <1>0, YieldTypes, FailedYieldTypes DEF ReturnYields
<1>12. ASSUME NEW t \in Threads, AssertFails(t) PROVE TypeOK'
  BY <1>12 DEF AssertFails, TypeOK, tickets, semaphore, Endings
<1>13. CASE UNCHANGED vars
  BY <1>13 DEF vars, TypeOK, tickets, semaphore
<1>. QED
  BY <1>1, <1>2, <1>3, <1>4, <1>5, <1>6, <1>7, <1>8, <1>9, <1>10, <1>11,
     <1>12, <1>13 DEF Next, Step

(* Every variable keeps its type. *)
THEOREM TypeCorrect == Spec => []TypeOK
BY InitTypes, TypesAreKept, PTL DEF Spec

-------------------------------------------------------------------------------
(* At most one thread is marked Running *)

LEMMA YieldKeepsOneRunner ==
    ASSUME TypeOK, OneRunner, NEW label \in PCs, Yield(label)
    PROVE  OneRunner'
<1>1. PICK s \in Picks \ {None} : Switch(s)
  BY DEF Yield
<1>2. s \in Threads
  BY <1>1, PicksAreThreads
<1>. QED  BY <1>1, <1>2, SwitchEffect DEF OneRunner

(* With every algorithm, and also when run functions return or malloc fails,
   no thread but gt_current is marked Running. *)
THEOREM OnlyCurrentRuns == Spec => []OneRunner
<1>1. Init => OneRunner
  BY DEF Init, select_algorithm, gt_init, gt_sem_init, OneRunner
<1>2. TypeOK /\ OneRunner /\ [Next]_vars => OneRunner'
  <2>. SUFFICES ASSUME TypeOK, OneRunner, [Next]_vars PROVE OneRunner'
    OBVIOUS
  <2>0. \A l : l \in {"yield", "top", "parked", "gone"} => l \in PCs
    BY DEF PCs
  <2>1. ASSUME NEW label \in PCs, FailedYield(label) PROVE OneRunner'
    BY <2>1 DEF FailedYield, OneRunner
  <2>2. CASE Alarm
    <3>1. pc[gt_current] \in PCs
      BY DEF TypeOK
    <3>. QED  BY <2>2, <3>1, YieldKeepsOneRunner DEF Alarm
  <2>3. CASE gt_create
    BY <2>3 DEF gt_create, OneRunner, TypeOK
  <2>4. CASE MainReturns
    BY <2>4 DEF MainReturns, OneRunner
  <2>5. CASE MainYields
    BY <2>5, <2>0, <2>1, YieldKeepsOneRunner DEF MainYields
  <2>6. ASSUME NEW t \in Threads, gt_sem_wait(t) PROVE OneRunner'
    BY <2>6 DEF gt_sem_wait, OneRunner, TypeOK
  <2>7. ASSUME NEW t \in Threads, WaitYields(t) PROVE OneRunner'
    BY <2>7, <2>0, <2>1, YieldKeepsOneRunner DEF WaitYields
  <2>8. ASSUME NEW t \in Threads, WaitReturns(t) PROVE OneRunner'
    BY <2>8 DEF WaitReturns, OneRunner
  <2>9. ASSUME NEW t \in Threads, gt_sem_post(t) PROVE OneRunner'
    BY <2>9 DEF gt_sem_post, HandOver, OneRunner, TypeOK
  <2>10. ASSUME NEW t \in Threads, PostYields(t) PROVE OneRunner'
    BY <2>10, <2>0, <2>1, YieldKeepsOneRunner DEF PostYields
  <2>11. ASSUME NEW t \in Threads, gt_return(t) PROVE OneRunner'
    BY <2>11 DEF gt_return, OneRunner, TypeOK
  <2>12. ASSUME NEW t \in Threads, ReturnYields(t) PROVE OneRunner'
    BY <2>12, <2>0, <2>1, YieldKeepsOneRunner DEF ReturnYields
  <2>13. ASSUME NEW t \in Threads, AssertFails(t) PROVE OneRunner'
    BY <2>13 DEF AssertFails, OneRunner
  <2>14. CASE UNCHANGED vars
    BY <2>14 DEF vars, OneRunner
  <2>. QED
    BY <2>2, <2>3, <2>4, <2>5, <2>6, <2>7, <2>8, <2>9, <2>10, <2>11, <2>12,
       <2>13, <2>14 DEF Next, Step
<1>. QED  BY <1>1, <1>2, TypeCorrect, PTL DEF Spec

-------------------------------------------------------------------------------
(* Round robin and the priority scan pass over nobody *)

(* Behind the thread the scan has found, every other ready thread is nearer. *)
LEMMA RankDecreases ==
    ASSUME NEW c \in Threads, NEW s \in Threads, NEW t \in Threads,
           t # s, t # c, s # c, Rank(c, s) <= Rank(c, t)
    PROVE  Rank(s, t) < Rank(c, t)
BY MaxGThreadsAssumption DEF Rank, Threads

(* Every switch brings each thread that stays ready nearer to its turn. *)
THEOREM RoundRobinIsFair == Spec => RoundRobinProgress
<1>. DEFINE Nearer ==
        \A t \in Threads :
          current_algorithm # "LotteryScheduling"
          /\ state[t] = "Ready" /\ state'[t] = "Ready"
          /\ t # gt_current /\ gt_current' # gt_current
            => Rank(gt_current', t) < Rank(gt_current, t)
<1>1. TypeOK /\ [Next]_vars => [Nearer]_vars
  <2>. SUFFICES ASSUME TypeOK, Next, gt_current' # gt_current,
                       current_algorithm # "LotteryScheduling",
                       NEW t \in Threads, t # gt_current,
                       state[t] = "Ready", state'[t] = "Ready"
                PROVE  Rank(gt_current', t) < Rank(gt_current, t)
    OBVIOUS
  <2>1. PICK label : Yield(label)
    BY DEF Next, Alarm, Step, gt_create, MainReturns, MainYields, gt_sem_wait,
           WaitYields, WaitReturns, gt_sem_post, PostYields, gt_return,
           ReturnYields, AssertFails, FailedYield
  <2>2. PICK s \in Picks \ {None} : Switch(s)
    BY <2>1 DEF Yield
  <2>3. s \in Threads
    BY <2>2, PicksAreThreads
  <2>4. gt_current' = s /\ state'[s] = "Running"
    BY <2>2, <2>3, SwitchEffect
  <2>5. s # t /\ s # gt_current
    BY <2>4
  <2>6. current_algorithm \in {"RoundRobin", "PriorityBased"}
    BY ConstantsAssumption DEF TypeOK, Algorithms
  <2>7. s \in FirstReady(state, gt_current)
    BY <2>2, <2>5, <2>6
       DEF Picks, RoundRobinSelect, PriorityBasedSelect, OtherReady
  <2>8. Rank(gt_current, s) <= Rank(gt_current, t)
    BY <2>7 DEF FirstReady, OtherReady
  <2>. QED  BY <2>3, <2>4, <2>5, <2>8, RankDecreases DEF TypeOK
<1>. QED  BY <1>1, TypeCorrect, PTL DEF Spec, RoundRobinProgress

-------------------------------------------------------------------------------
(* An unused slot runs no code *)

(* A thread marked Unused is in gt_return, if it has ever been created. *)
UnusedIsIdle ==
    \A t \in Threads :
        state[t] = "Unused" => pc[t] \in {"none", "stopped", "gone"}

LEMMA YieldKeepsUnusedIdle ==
    ASSUME TypeOK, UnusedIsIdle, NEW label,
           Yield(label) \/ FailedYield(label),
           pc[gt_current] \in {"none", "stopped", "gone"}
               => label \in {"none", "stopped", "gone"}
    PROVE  UnusedIsIdle'
<1>1. \A t \in Threads : state'[t] = "Unused" => state[t] = "Unused"
  <2>1. CASE Yield(label)
    <3>1. PICK s \in Picks \ {None} : Switch(s)
      BY <2>1 DEF Yield
    <3>. QED  BY <3>1, PicksAreThreads, SwitchEffect
  <2>2. CASE FailedYield(label)
    BY <2>2 DEF FailedYield
  <2>. QED  BY <2>1, <2>2
<1>2. Goto(gt_current, label)
  BY DEF Yield, FailedYield
<1>. QED  BY <1>1, <1>2 DEF UnusedIsIdle, Goto, TypeOK

(* Every step keeps an Unused slot idle. *)
LEMMA UnusedIdleIsKept ==
    TypeOK /\ UnusedIsIdle /\ [Next]_vars => UnusedIsIdle'
<1>. SUFFICES ASSUME TypeOK, UnusedIsIdle, [Next]_vars PROVE UnusedIsIdle'
  OBVIOUS
<1>1. CASE Alarm
  BY <1>1, YieldKeepsUnusedIdle DEF Alarm
<1>2. CASE gt_create
  BY <1>2 DEF gt_create, EmptySlot, Goto, UnusedIsIdle, TypeOK
<1>3. CASE MainReturns
  BY <1>3 DEF MainReturns, At, Goto, UnusedIsIdle, TypeOK
<1>4. CASE MainYields
  BY <1>4, YieldKeepsUnusedIdle DEF MainYields, At
<1>5. ASSUME NEW t \in Threads, gt_sem_wait(t) PROVE UnusedIsIdle'
  BY <1>5 DEF gt_sem_wait, At, Goto, UnusedIsIdle, TypeOK
<1>6. ASSUME NEW t \in Threads, WaitYields(t) PROVE UnusedIsIdle'
  BY <1>6, YieldKeepsUnusedIdle DEF WaitYields, At
<1>7. ASSUME NEW t \in Threads, WaitReturns(t) PROVE UnusedIsIdle'
  BY <1>7 DEF WaitReturns, At, Goto, UnusedIsIdle, TypeOK
<1>8. ASSUME NEW t \in Threads, gt_sem_post(t) PROVE UnusedIsIdle'
  BY <1>8 DEF gt_sem_post, HandOver, At, Goto, UnusedIsIdle, TypeOK
<1>9. ASSUME NEW t \in Threads, PostYields(t) PROVE UnusedIsIdle'
  BY <1>9, YieldKeepsUnusedIdle DEF PostYields, At
<1>10. ASSUME NEW t \in Threads, gt_return(t) PROVE UnusedIsIdle'
  BY <1>10 DEF gt_return, At, Goto, UnusedIsIdle, TypeOK
<1>11. ASSUME NEW t \in Threads, ReturnYields(t) PROVE UnusedIsIdle'
  BY <1>11, YieldKeepsUnusedIdle DEF ReturnYields, At
<1>12. ASSUME NEW t \in Threads, AssertFails(t) PROVE UnusedIsIdle'
  BY <1>12 DEF AssertFails, UnusedIsIdle
<1>13. CASE UNCHANGED vars
  BY <1>13 DEF vars, UnusedIsIdle
<1>. QED
  BY <1>1, <1>2, <1>3, <1>4, <1>5, <1>6, <1>7, <1>8, <1>9, <1>10, <1>11,
     <1>12, <1>13 DEF Next, Step

LEMMA UnusedStaysIdle == Spec => []UnusedIsIdle
<1>1. Init => UnusedIsIdle
  BY DEF Init, select_algorithm, gt_init, gt_sem_init, UnusedIsIdle
<1>. QED  BY <1>1, UnusedIdleIsKept, TypeCorrect, PTL DEF Spec

-------------------------------------------------------------------------------
(* Threads are created first and finish for good *)

(* The algorithm is chosen once. *)
LEMMA SameAlgorithm == [Next]_vars => current_algorithm' = current_algorithm
BY DEF Next, Alarm, Step, gt_create, MainReturns, MainYields, gt_sem_wait,
       WaitYields, WaitReturns, gt_sem_post, PostYields, gt_return,
       ReturnYields, AssertFails, Yield, FailedYield, vars

(* While main creates threads, none of them has been run. *)
CreationComesFirst ==
    pc[Main] = "create" =>
        /\ gt_current = Main /\ ~alarm
        /\ \A t \in Threads \ {Main} : pc[t] \in {"none", "top"}

(* main creates its threads before any of them runs. *)
LEMMA CreationIsKept ==
    ASSUME TypeOK, CreationComesFirst, [Next]_vars
    PROVE  CreationComesFirst'
<1>1. ASSUME NEW t \in Threads, NEW label, Goto(t, label), label # "create",
             pc[Main] # "create" \/ (t = Main)
      PROVE  CreationComesFirst'
  <2>1. pc'[Main] = IF t = Main THEN label ELSE pc[Main]
    BY <1>1, MainIsThread DEF Goto, TypeOK
  <2>. QED  BY <1>1, <2>1 DEF CreationComesFirst
<1>2. gt_current \in Threads /\ Main \in Threads
  BY MainIsThread DEF TypeOK
<1>3. CASE UNCHANGED vars
  BY <1>3 DEF vars, CreationComesFirst
<1>4. CASE Alarm
  <2>1. pc[Main] # "create" /\ pc'[Main] = pc[Main]
    BY <1>2, <1>4 DEF Alarm, Yield, Goto, CreationComesFirst, TypeOK
  <2>. QED  BY <2>1 DEF CreationComesFirst
<1>5. CASE gt_create
  <2>1. /\ gt_current = Main /\ gt_current' = Main /\ pc[Main] = "create"
        /\ ~alarm /\ ~alarm' /\ \A u \in Threads \ {Main} : pc[u] \in {"none", "top"}
    BY <1>5 DEF gt_create, At, CreationComesFirst
  <2>2. \A u \in Threads : pc'[u] = pc[u] \/ pc'[u] = "top"
    BY <1>5 DEF gt_create, Goto, TypeOK, tickets
  <2>. QED  BY <2>1, <2>2 DEF CreationComesFirst
<1>6. CASE MainReturns \/ MainYields
  BY <1>1, <1>2, <1>6
  DEF MainReturns, MainYields, At, Yield, FailedYield
<1>7. ASSUME NEW t \in Threads,
             \/ gt_sem_wait(t) \/ WaitYields(t) \/ WaitReturns(t)
             \/ gt_sem_post(t) \/ PostYields(t) \/ ReturnYields(t)
             \/ gt_return(t)
      PROVE  CreationComesFirst'
  <2>1. gt_current = t /\ pc[t] # "create"
    BY <1>7 DEF gt_sem_wait, WaitYields, WaitReturns, gt_sem_post, PostYields,
                ReturnYields, gt_return, At
  <2>2. pc[Main] # "create"
    BY <2>1 DEF CreationComesFirst
  <2>3. \E label \in {"waiting", "crit", "parked", "posted", "top", "gone",
                      "stopped"} : Goto(t, label)
    BY <1>7, <2>1
    DEF gt_sem_wait, WaitYields, WaitReturns, gt_sem_post, PostYields,
        ReturnYields, gt_return, Yield, FailedYield
  <2>. QED  BY <1>1, <2>2, <2>3
<1>8. ASSUME NEW t \in Threads, AssertFails(t)
      PROVE  CreationComesFirst'
  BY <1>8 DEF AssertFails, CreationComesFirst
<1>. QED  BY <1>3, <1>4, <1>5, <1>6, <1>7, <1>8 DEF Next, Step

LEMMA CreationAlwaysFirst == Spec => []CreationComesFirst
<1>1. Init => CreationComesFirst
  BY MainIsThread
     DEF Init, select_algorithm, gt_init, gt_sem_init, CreationComesFirst
<1>. QED  BY <1>1, CreationIsKept, TypeCorrect, PTL DEF Spec

(* Who has returned from its function never runs in it again. *)
LEMMA FinishedForEver ==
    ASSUME TypeOK, CreationComesFirst, [Next]_vars,
           NEW t \in Threads, pc[t] \in {"stopped", "gone"}
    PROVE  pc'[t] \in {"stopped", "gone"}
<1>. DEFINE Over(l) == l \in {"stopped", "gone"}
<1>1. gt_current \in Threads
  BY DEF TypeOK
<1>2. ASSUME NEW u \in Threads, NEW label, Goto(u, label),
             Over(pc[u]) => Over(label)
      PROVE  Over(pc'[t])
  BY <1>2 DEF Goto, TypeOK
<1>3. CASE UNCHANGED vars \/ UNCHANGED pc
  BY <1>3 DEF vars
<1>4. CASE Alarm
  BY <1>1, <1>2, <1>4 DEF Alarm, Yield
<1>5. CASE gt_create
  <2>1. t # Main => ~ Over(pc[t])
    BY <1>5 DEF gt_create, At, CreationComesFirst
  <2>. QED  BY <1>5, <2>1 DEF gt_create, At
<1>6. CASE MainReturns \/ MainYields
  BY <1>1, <1>2, <1>6, MainIsThread
  DEF MainReturns, MainYields, At, Yield, FailedYield
<1>7. ASSUME NEW u \in Threads,
             \/ gt_sem_wait(u) \/ WaitYields(u) \/ WaitReturns(u)
             \/ gt_sem_post(u) \/ PostYields(u) \/ ReturnYields(u)
             \/ gt_return(u)
      PROVE  Over(pc'[t])
  BY <1>2, <1>7
  DEF gt_sem_wait, WaitYields, WaitReturns, gt_sem_post, PostYields,
      ReturnYields, gt_return, At, Yield, FailedYield
<1>8. ASSUME NEW u \in Threads, AssertFails(u)  PROVE Over(pc'[t])
  BY <1>8 DEF AssertFails
<1>. QED
  BY <1>3, <1>4, <1>5, <1>6, <1>7, <1>8 DEF Next, Step

(* Under the lottery a draw that may fail may fail for ever. *)
LEMMA DrawsSucceededBefore ==
    ASSUME TypeOK, CreationComesFirst, [Next]_vars
    PROVE  /\ NobodyHasFinished' => NobodyHasFinished
           /\ DrawsSucceed' => DrawsSucceed
BY FinishedForEver, SameAlgorithm DEF NobodyHasFinished, DrawsSucceed

-------------------------------------------------------------------------------
(* The books of the semaphore balance *)

(* The threads that have called gt_sem_wait and not yet gt_sem_post. *)
Callers == Waiters \cup Inside

LEMMA FiniteThreads == IsFiniteSet(Threads)
BY FS_Interval, MaxGThreadsAssumption DEF Threads

(* Sets of threads have a size, which changes by one with one element. *)
LEMMA CountThreads ==
    ASSUME NEW S \in SUBSET Threads, NEW t \in Threads
    PROVE  /\ IsFiniteSet(S) /\ Cardinality(S) \in Nat
           /\ t \notin S => Cardinality(S \cup {t}) = Cardinality(S) + 1
           /\ t \in S => Cardinality(S \ {t}) = Cardinality(S) - 1
<1>1. IsFiniteSet(S)
  BY FS_Subset, FiniteThreads
<1>. QED  BY <1>1, FS_CardinalityType, FS_AddElement, FS_RemoveElement

(* How Callers changes when thread t goes on at another label. *)
LEMMA GotoChangesCallers ==
    ASSUME TypeOK, NEW t \in Threads, NEW label, Goto(t, label)
    PROVE  Callers' = IF label \in {"waiting", "parked", "crit"}
                      THEN Callers \cup {t} ELSE Callers \ {t}
BY DEF Goto, Callers, Waiters, Inside, TypeOK

(* They are when main starts. *)
LEMMA InitBooks == Init => BooksBalance
<1>. SUFFICES ASSUME Init PROVE BooksBalance
  OBVIOUS
<1>1. Waiters \cup Inside = {}
  BY DEF Init, select_algorithm, gt_init, gt_sem_init, Waiters, Inside
<1>. QED  BY <1>1, FS_EmptySet, ConstantsAssumption
   DEF Init, select_algorithm, gt_init, gt_sem_init, BooksBalance

(* Every step keeps the books balanced. *)
LEMMA BooksAreKept ==
    ASSUME ~MallocMayFail, TypeOK, UnusedIsIdle, BooksBalance, [Next]_vars
    PROVE  BooksBalance'
<1>. DEFINE Calls(t) == pc[t] \in {"waiting", "parked", "crit"}
<1>0. /\ Callers \in SUBSET Threads /\ queue \in Seq(Threads)
      /\ value \in Nat /\ SemValue \in Nat
      /\ value + Cardinality(Callers) = SemValue + Len(queue)
      /\ gt_current \in Threads
      /\ \A t \in Threads : t \in Callers <=> Calls(t)
  BY ConstantsAssumption
     DEF Callers, Waiters, Inside, BooksBalance, TypeOK
<1>1. ASSUME Callers' = Callers, UNCHANGED semaphore PROVE BooksBalance'
  BY <1>1 DEF BooksBalance, Callers, semaphore
<1>2. ASSUME NEW label, Yield(label) \/ FailedYield(label),
             label \in {"waiting", "parked", "crit"} <=> Calls(gt_current)
      PROVE  BooksBalance'
  <2>1. Goto(gt_current, label) /\ UNCHANGED semaphore
    BY <1>2 DEF Yield, FailedYield
  <2>2. Callers' = Callers
    BY <1>0, <1>2, <2>1, GotoChangesCallers
  <2>. QED  BY <1>1, <2>1, <2>2
<1>3. CASE Alarm
  BY <1>3, <1>2 DEF Alarm
<1>4. CASE gt_create
  <2>1. CASE UNCHANGED pc
    BY <1>1, <1>4, <2>1 DEF gt_create, Callers, Waiters, Inside
  <2>2. CASE \E p \in Threads : state[p] = "Unused" /\ Goto(p, "top")
    BY <1>0, <1>1, <1>4, <2>2, GotoChangesCallers
       DEF gt_create, UnusedIsIdle
  <2>. QED  BY <1>4, <2>1, <2>2 DEF gt_create, EmptySlot
<1>5. CASE MainReturns
  BY <1>0, <1>1, <1>5, MainIsThread, GotoChangesCallers DEF MainReturns, At
<1>6. CASE MainYields
  BY <1>2, <1>6 DEF MainYields, At
<1>7. ASSUME NEW t \in Threads, gt_sem_wait(t) PROVE BooksBalance'
  <2>1. t \notin Callers
    BY <1>0, <1>7 DEF gt_sem_wait, At
  <2>2. Callers' = Callers \cup {t}
    BY <1>7, GotoChangesCallers DEF gt_sem_wait
  <2>3. Cardinality(Callers') = Cardinality(Callers) + 1
    BY <1>0, <2>1, <2>2, CountThreads
  <2>4. \/ value > 0 /\ value' = value - 1 /\ queue' = queue
        \/ value' = value /\ queue' = Append(queue, t)
    BY <1>7 DEF gt_sem_wait, Available, Enqueue
  <2>5. \/ value' = value - 1 /\ Len(queue') = Len(queue)
        \/ value' = value /\ Len(queue') = Len(queue) + 1
    BY <1>0, <2>4
  <2>6. Cardinality(Callers) \in Nat
    BY <1>0, CountThreads
  <2>7. value' + Cardinality(Callers') = SemValue + Len(queue')
    BY <1>0, <2>3, <2>5, <2>6
  <2>. QED  BY <2>7 DEF BooksBalance, Callers
<1>8. ASSUME NEW t \in Threads, WaitYields(t) PROVE BooksBalance'
  BY <1>2, <1>8 DEF WaitYields, At
<1>9. ASSUME NEW t \in Threads, WaitReturns(t) PROVE BooksBalance'
  BY <1>0, <1>1, <1>9, GotoChangesCallers DEF WaitReturns, At
<1>10. ASSUME NEW t \in Threads, gt_sem_post(t) PROVE BooksBalance'
  <2>1. t \in Callers
    BY <1>0, <1>10 DEF gt_sem_post, At
  <2>2. Callers' = Callers \ {t}
    BY <1>10, GotoChangesCallers DEF gt_sem_post
  <2>3. Cardinality(Callers') = Cardinality(Callers) - 1
    BY <1>0, <2>1, <2>2, CountThreads
  <2>4. \/ value' = value /\ queue # <<>> /\ queue' = Tail(queue)
        \/ value' = value + 1 /\ queue' = queue
    BY <1>10 DEF gt_sem_post, HandOver
  <2>5. \/ value' = value /\ Len(queue') = Len(queue) - 1
        \/ value' = value + 1 /\ Len(queue') = Len(queue)
    BY <1>0, <2>4
  <2>6. Cardinality(Callers) \in Nat
    BY <1>0, CountThreads
  <2>7. value' + Cardinality(Callers') = SemValue + Len(queue')
    BY <1>0, <2>3, <2>5, <2>6
  <2>. QED  BY <2>7 DEF BooksBalance, Callers
<1>11. ASSUME NEW t \in Threads, PostYields(t) PROVE BooksBalance'
  BY <1>2, <1>11 DEF PostYields, At
<1>12. ASSUME NEW t \in Threads, gt_return(t) PROVE BooksBalance'
  BY <1>0, <1>1, <1>12, GotoChangesCallers DEF gt_return, At
<1>13. ASSUME NEW t \in Threads, ReturnYields(t) PROVE BooksBalance'
  BY <1>2, <1>13 DEF ReturnYields, At
<1>14. ASSUME NEW t \in Threads, AssertFails(t) PROVE BooksBalance'
  BY <1>1, <1>14 DEF AssertFails, Callers, Waiters, Inside
<1>15. CASE UNCHANGED vars
  BY <1>1, <1>15 DEF vars, Callers, Waiters, Inside
<1>. QED
  BY <1>3, <1>4, <1>5, <1>6, <1>7, <1>8, <1>9, <1>10, <1>11, <1>12, <1>13,
     <1>14, <1>15 DEF Next, Step

(* Without a failing malloc, the counter and the callers of gt_sem_wait always
   match the queue, even when a lottery lets a thread through unserved. *)
THEOREM BooksAlwaysBalance ==
    ASSUME ~MallocMayFail
    PROVE  Spec => []BooksBalance
BY InitBooks, BooksAreKept, TypeCorrect, UnusedStaysIdle, PTL DEF Spec

-------------------------------------------------------------------------------
(* Queues *)

(* An element that joins a queue at its end. *)
LEMMA RangeAppend ==
    ASSUME NEW S, NEW q \in Seq(S), NEW e \in S
    PROVE  /\ Range(Append(q, e)) = Range(q) \cup {e}
           /\ IsInjective(q) /\ e \notin Range(q) => IsInjective(Append(q, e))
<1>. DEFINE a == Append(q, e)
<1>1. /\ DOMAIN q = 1 .. Len(q) /\ Len(q) \in Nat
      /\ DOMAIN a = 1 .. Len(q) + 1
      /\ \A i \in 1 .. Len(q) : a[i] = q[i]
      /\ a[Len(q) + 1] = e
  BY LenProperties, AppendProperties
<1>. HIDE DEF a
<1>2. \A i \in DOMAIN a : i \in DOMAIN q \/ i = Len(q) + 1
  BY <1>1
<1>3. \A i \in DOMAIN q : i \in DOMAIN a
  BY <1>1
<1>4. Range(a) = Range(q) \cup {e}
  BY <1>1, <1>2, <1>3 DEF Range
<1>5. ASSUME IsInjective(q), e \notin Range(q),
             NEW i \in DOMAIN a, NEW j \in DOMAIN a, a[i] = a[j]
      PROVE  i = j
  BY <1>1, <1>2, <1>5 DEF Range, IsInjective
<1>. QED  BY <1>4, <1>5 DEF IsInjective, a

(* The element at the head leaves. *)
LEMMA RangeTail ==
    ASSUME NEW S, NEW q \in Seq(S), q # <<>>
    PROVE  /\ Head(q) \in Range(q)
           /\ Range(Tail(q)) \subseteq Range(q)
           /\ Range(q) = Range(Tail(q)) \cup {Head(q)}
           /\ IsInjective(q) => IsInjective(Tail(q)) /\ Head(q) \notin Range(Tail(q))
<1>. DEFINE r == Tail(q)
<1>0. r \in Seq(S) /\ Len(r) = Len(q) - 1 /\ Len(q) \in Nat \ {0}
  BY HeadTailProperties, EmptySeq
<1>1. /\ DOMAIN q = 1 .. Len(q) /\ Len(q) \in Nat \ {0}
      /\ DOMAIN r = 1 .. Len(q) - 1
      /\ \A i \in 1 .. Len(q) - 1 : r[i] = q[i + 1]
      /\ Head(q) = q[1]
  BY <1>0, LenProperties, HeadTailProperties
<1>. HIDE DEF r
<1>2. /\ 1 \in DOMAIN q
      /\ \A i \in DOMAIN r : i + 1 \in DOMAIN q /\ r[i] = q[i + 1] /\ i + 1 # 1
      /\ \A i \in DOMAIN q : i = 1 \/ (i - 1 \in DOMAIN r /\ r[i - 1] = q[i])
  BY <1>1
<1>3. Head(q) \in Range(q) /\ Range(q) = Range(r) \cup {Head(q)}
  <2>1. Head(q) \in Range(q) /\ Range(r) \subseteq Range(q)
    BY <1>1, <1>2 DEF Range
  <2>2. ASSUME NEW i \in DOMAIN q PROVE q[i] \in Range(r) \cup {Head(q)}
    <3>1. CASE i = 1
      BY <1>1, <3>1
    <3>2. CASE i - 1 \in DOMAIN r /\ r[i - 1] = q[i]
      BY <3>2 DEF Range
    <3>. QED  BY <1>2, <3>1, <3>2
  <2>. QED  BY <2>1, <2>2 DEF Range
<1>4. IsInjective(q) => Head(q) \notin Range(r)
  BY <1>1, <1>2 DEF Range, IsInjective
<1>5. ASSUME IsInjective(q), NEW i \in DOMAIN r, NEW j \in DOMAIN r, r[i] = r[j]
      PROVE  i = j
  <2>1. i + 1 = j + 1
    BY <1>2, <1>5 DEF IsInjective
  <2>. QED  BY <1>1, <2>1
<1>. QED  BY <1>3, <1>4, <1>5 DEF IsInjective, r

(* Only threads are queued. *)
LEMMA QueuedThreads == TypeOK => queue \in Seq(Threads) /\ Queued \subseteq Threads
BY RangeOfSeq DEF TypeOK, Queued

-------------------------------------------------------------------------------
(* Every ticket has an owner *)

InUse(t) == state[t] # "Unused"

(* The ranges of the threads in use cover the tickets without overlap, and
   neither the CPU nor the semaphore can revive an unused slot. *)
TicketInv ==
    /\ InUse(gt_current)
    /\ \A t \in Queued : InUse(t)
    /\ \A t \in Threads :
          InUse(t) => 1 <= ticket_start[t] /\ ticket_end[t] <= total_tickets
    /\ \A t, u \in Threads :
          InUse(t) /\ InUse(u) /\ t # u =>
              ticket_end[t] < ticket_start[u] \/ ticket_end[u] < ticket_start[t]
    /\ \A ticket \in 1 .. total_tickets :
          \E t \in Threads : InUse(t) /\ ticket \in ticket_start[t] .. ticket_end[t]

LEMMA TicketNumbers ==
    ASSUME TypeOK
    PROVE  /\ total_tickets \in Nat
           /\ \A t \in Threads : ticket_start[t] \in Nat /\ ticket_end[t] \in Nat
BY DEF TypeOK

LEMMA TicketInvPartitions == TypeOK /\ TicketInv => EveryTicketOwned
<1>. SUFFICES ASSUME TypeOK, TicketInv, NEW ticket \in 1 .. total_tickets
              PROVE  \E t \in Threads :
                        Owners(state, ticket_start, ticket_end, ticket) = {t}
  BY DEF EveryTicketOwned
<1>1. PICK t \in Threads :
         InUse(t) /\ ticket \in ticket_start[t] .. ticket_end[t]
  BY DEF TicketInv
<1>2. \A u \in Threads :
         InUse(u) /\ ticket \in ticket_start[u] .. ticket_end[u] => u = t
  <2>. SUFFICES ASSUME NEW u \in Threads, InUse(u), u # t,
                       ticket \in ticket_start[u] .. ticket_end[u]
                PROVE  FALSE
    OBVIOUS
  <2>1. ticket_end[t] < ticket_start[u] \/ ticket_end[u] < ticket_start[t]
    BY <1>1 DEF TicketInv
  <2>. QED  BY <1>1, <2>1, TicketNumbers
<1>3. Owners(state, ticket_start, ticket_end, ticket) = {t}
  BY <1>1, <1>2 DEF Owners, InUse
<1>. QED  BY <1>3

(* No selection returns an unused slot, unless the running thread has just
   become one. *)
LEMMA PicksAreInUse ==
    ASSUME TypeOK, InUse(gt_current), NEW s \in Picks, s # None
    PROVE  InUse(s)
<1>1. \A u \in FirstReady(state, gt_current) : InUse(u)
  BY DEF FirstReady, OtherReady, InUse
<1>2. \A u \in RoundRobinSelect(state, gt_current) \ {None} : InUse(u)
  BY <1>1 DEF RoundRobinSelect
<1>3. \A u \in PriorityBasedSelect(state, gt_current) : InUse(u)
  BY <1>1 DEF PriorityBasedSelect
<1>4. \A ticket : \A u \in LotterySelect(state, gt_current, ticket_start,
                               ticket_end, ticket) \ {None} : InUse(u)
  BY <1>2 DEF LotterySelect, Owners, InUse
<1>5. current_algorithm \in Algorithms
  BY ConstantsAssumption DEF TypeOK
<1>. QED  BY <1>2, <1>3, <1>4, <1>5 DEF Picks, Algorithms

LEMMA YieldKeepsTickets ==
    ASSUME TypeOK, TicketInv, NEW label, Yield(label) \/ FailedYield(label)
    PROVE  TicketInv'
<1>1. InUse(gt_current)' /\ \A t \in Threads : InUse(t)' <=> InUse(t)
  <2>1. CASE Yield(label)
    <3>1. PICK s \in Picks \ {None} : Switch(s)
      BY <2>1 DEF Yield
    <3>2. s \in Threads /\ InUse(s)
      BY <3>1, PicksAreThreads, PicksAreInUse DEF TicketInv
    <3>. QED  BY <3>1, <3>2, SwitchEffect DEF InUse, TypeOK
  <2>2. CASE FailedYield(label)
    BY <2>2 DEF FailedYield, InUse, TicketInv
  <2>. QED  BY <2>1, <2>2
<1>2. UNCHANGED tickets /\ queue' = queue
  BY DEF Yield, FailedYield, semaphore
<1>3. \A t \in Queued : InUse(t)'
  BY <1>1, QueuedThreads DEF TicketInv
<1>. QED  BY <1>1, <1>2, <1>3 DEF TicketInv, tickets, Queued

LEMMA CreateKeepsTickets ==
    ASSUME TypeOK, TypeOK', TicketInv, gt_create
    PROVE  TicketInv'
<1>1. CASE UNCHANGED <<state, tickets, pc>>
  BY <1>1 DEF gt_create, TicketInv, InUse, tickets, Queued, semaphore
<1>2. CASE ~ UNCHANGED <<state, tickets, pc>>
  <2>. DEFINE priority == ValidPriority(Priorities[created + 1])
  <2>1. PICK p \in Threads :
           /\ EmptySlot(p)
           /\ state' = [state EXCEPT ![p] = "Ready"]
           /\ assign_tickets(p, priority)
    BY <1>2 DEF gt_create
  <2>2. created < Len(Priorities) /\ UNCHANGED gt_current
    BY DEF gt_create
  <2>3. Priorities[created + 1] \in Int
    BY <2>2, ConstantsAssumption DEF TypeOK
  <2>4. priority \in 0 .. MaxPriority /\ MaxPriority \in Nat
    BY <2>3, PriorityBounds, ConstantsAssumption
  <2>. HIDE DEF priority
  <2>. DEFINE count == IF priority <= 0 THEN 1 ELSE priority
  <2>5. /\ ticket_start' = [ticket_start EXCEPT ![p] = total_tickets + 1]
        /\ ticket_end' = [ticket_end EXCEPT ![p] = total_tickets + count]
        /\ total_tickets' = total_tickets + count
        /\ count \in Nat \ {0}
    BY <2>1, <2>4 DEF assign_tickets
  <2>. HIDE DEF count
  <2>6. /\ ~InUse(p) /\ InUse(p)'
        /\ ticket_start'[p] = total_tickets + 1
        /\ ticket_end'[p] = total_tickets'
        /\ \A t \in Threads \ {p} :
              /\ InUse(t)' <=> InUse(t)
              /\ ticket_start'[t] = ticket_start[t]
              /\ ticket_end'[t] = ticket_end[t]
    BY <2>1, <2>5 DEF InUse, EmptySlot, TypeOK
  <2>7. InUse(gt_current)'
    BY <2>2, <2>6 DEF TicketInv, TypeOK
  <2>8. ASSUME NEW t \in Threads, InUse(t)'
        PROVE  1 <= ticket_start'[t] /\ ticket_end'[t] <= total_tickets'
    <3>1. CASE t = p
      BY <2>5, <2>6, <3>1, TicketNumbers
    <3>2. CASE t # p
      <4>1. 1 <= ticket_start[t] /\ ticket_end[t] <= total_tickets
        BY <2>6, <2>8, <3>2 DEF TicketInv
      <4>. QED  BY <2>5, <2>6, <3>2, <4>1, TicketNumbers
    <3>. QED  BY <3>1, <3>2
  <2>9. ASSUME NEW t \in Threads, NEW u \in Threads,
               InUse(t)', InUse(u)', t # u
        PROVE  \/ ticket_end'[t] < ticket_start'[u]
               \/ ticket_end'[u] < ticket_start'[t]
    <3>1. \A v \in Threads \ {p} : InUse(v)' => ticket_end[v] <= total_tickets
      BY <2>6 DEF TicketInv
    <3>2. CASE t = p
      BY <2>6, <2>9, <3>1, <3>2, TicketNumbers
    <3>3. CASE u = p
      BY <2>6, <2>9, <3>1, <3>3, TicketNumbers
    <3>4. CASE t # p /\ u # p
      BY <2>6, <2>9, <3>4 DEF TicketInv
    <3>. QED  BY <3>2, <3>3, <3>4
  <2>10. ASSUME NEW ticket \in 1 .. total_tickets'
         PROVE  \E t \in Threads :
                   InUse(t)' /\ ticket \in ticket_start'[t] .. ticket_end'[t]
    <3>1. CASE ticket <= total_tickets
      <4>1. PICK t \in Threads :
               InUse(t) /\ ticket \in ticket_start[t] .. ticket_end[t]
        BY <2>10, <3>1, TicketNumbers DEF TicketInv
      <4>2. t # p
        BY <4>1, <2>6
      <4>. QED  BY <4>1, <4>2, <2>6
    <3>2. CASE ticket > total_tickets
      BY <2>5, <2>6, <2>10, <3>2, TicketNumbers
    <3>. QED  BY <2>5, <2>10, <3>1, <3>2, TicketNumbers
  <2>11. \A t \in Queued' : InUse(t)'
    <3>1. queue' = queue /\ Queued \subseteq Threads
      BY QueuedThreads DEF gt_create, semaphore
    <3>. QED  BY <2>6, <3>1 DEF TicketInv, Queued
  <2>. QED  BY <2>7, <2>8, <2>9, <2>10, <2>11 DEF TicketInv
<1>. QED  BY <1>1, <1>2

(* Only a run function that returns takes a ticket away from the draws. *)
LEMMA TicketsAreKept ==
    ASSUME TypeOK, TypeOK', TicketInv, [Next]_vars,
           \A t \in Threads : ~ gt_return(t)
    PROVE  TicketInv'
<1>1. CASE Alarm
  BY <1>1, YieldKeepsTickets DEF Alarm
<1>2. CASE gt_create
  BY <1>2, CreateKeepsTickets
<1>3. CASE MainReturns
  BY <1>3 DEF MainReturns, TicketInv, InUse, tickets, Queued, semaphore
<1>4. CASE MainYields
  BY <1>4, YieldKeepsTickets DEF MainYields
<1>5. ASSUME NEW t \in Threads, gt_sem_wait(t) PROVE TicketInv'
  <2>1. UNCHANGED tickets /\ UNCHANGED gt_current /\ t = gt_current
    BY <1>5 DEF gt_sem_wait, At
  <2>2. \A u \in Threads : InUse(u)' <=> InUse(u)
    BY <1>5, <2>1 DEF gt_sem_wait, InUse, TypeOK, TicketInv
  <2>3. Queued' \subseteq Queued \cup {t}
    <3>1. queue' = queue \/ queue' = Append(queue, t)
      BY <1>5 DEF gt_sem_wait, Enqueue, semaphore
    <3>. QED  BY <3>1, QueuedThreads, RangeAppend DEF Queued
  <2>4. \A u \in Queued' : InUse(u)'
    BY <2>1, <2>2, <2>3, QueuedThreads DEF TicketInv
  <2>. QED  BY <2>1, <2>2, <2>4 DEF TicketInv, tickets, TypeOK
<1>6. ASSUME NEW t \in Threads, WaitYields(t) PROVE TicketInv'
  BY <1>6, YieldKeepsTickets DEF WaitYields
<1>7. ASSUME NEW t \in Threads, WaitReturns(t) PROVE TicketInv'
  BY <1>7 DEF WaitReturns, TicketInv, InUse, tickets, Queued, semaphore
<1>8. ASSUME NEW t \in Threads, gt_sem_post(t) PROVE TicketInv'
  <2>1. UNCHANGED tickets /\ UNCHANGED gt_current
    BY <1>8 DEF gt_sem_post
  <2>2. queue \in Seq(Threads) /\ Queued \subseteq Threads
    BY QueuedThreads
  <2>3. queue # <<>> => Head(queue) \in Queued
    BY <2>2, RangeTail DEF Queued
  <2>4. \A u \in Threads : InUse(u)' <=> InUse(u)
    BY <1>8, <2>3 DEF gt_sem_post, HandOver, InUse, TypeOK, TicketInv
  <2>5. Queued' \subseteq Queued
    <3>1. queue' = queue \/ (queue # <<>> /\ queue' = Tail(queue))
      BY <1>8 DEF gt_sem_post, HandOver
    <3>. QED  BY <2>2, <3>1, RangeTail DEF Queued
  <2>6. \A u \in Queued' : InUse(u)'
    BY <2>2, <2>4, <2>5 DEF TicketInv
  <2>. QED  BY <2>1, <2>4, <2>6 DEF TicketInv, tickets, TypeOK
<1>9. ASSUME NEW t \in Threads, PostYields(t) PROVE TicketInv'
  BY <1>9, YieldKeepsTickets DEF PostYields
<1>10. ASSUME NEW t \in Threads, ReturnYields(t) PROVE TicketInv'
  BY <1>10, YieldKeepsTickets DEF ReturnYields
<1>11. ASSUME NEW t \in Threads, AssertFails(t) PROVE TicketInv'
  BY <1>11 DEF AssertFails, TicketInv, InUse, tickets, Queued, semaphore
<1>12. CASE UNCHANGED vars
  BY <1>12 DEF vars, TicketInv, InUse, tickets, Queued, semaphore
<1>. QED
  BY <1>1, <1>2, <1>3, <1>4, <1>5, <1>6, <1>7, <1>8, <1>9, <1>10, <1>11,
     <1>12 DEF Next, Step

LEMMA InitTickets == Init => TicketInv
<1>. SUFFICES ASSUME Init PROVE TicketInv
  OBVIOUS
<1>1. Queued = {}
  BY DEF Init, select_algorithm, gt_init, gt_sem_init, Queued, Range
<1>. QED
  BY <1>1, MainIsThread, ConstantsAssumption
     DEF Init, select_algorithm, gt_init, gt_sem_init, TicketInv, InUse

LEMMA TicketsStayCovered == Spec => [](NobodyHasFinished => TicketInv)
<1>1. ASSUME TypeOK, CreationComesFirst, NobodyHasFinished => TicketInv,
             [Next]_vars, NobodyHasFinished'
      PROVE  TicketInv'
  <2>1. TypeOK' /\ TicketInv
    BY <1>1, TypesAreKept, DrawsSucceededBefore
  <2>2. ASSUME NEW t \in Threads, gt_return(t)  PROVE FALSE
    <3>1. pc'[t] = "stopped"
      BY <1>1, <2>2 DEF gt_return, Goto, TypeOK
    <3>. QED  BY <1>1, <3>1 DEF NobodyHasFinished
  <2>. QED  BY <1>1, <2>1, <2>2, TicketsAreKept
<1>. QED  BY <1>1, InitTickets, TypeCorrect, CreationAlwaysFirst, PTL DEF Spec

(* As long as no thread has returned from its function, every draw of the
   lottery finds exactly one thread in use that owns the ticket. *)
THEOREM EveryTicketHasOneOwner == Spec => []TicketPartition
<1>1. TypeOK /\ (NobodyHasFinished => TicketInv) => TicketPartition
  BY TicketInvPartitions DEF TicketPartition
<1>. QED  BY <1>1, TypeCorrect, TicketsStayCovered, PTL

-------------------------------------------------------------------------------
(***************************************************************************)
(* The semaphore of GThread is safe, and implements FifoSemaphore, if      *)
(* malloc does not fail, and under the lottery until a thread finishes.    *)
(* The argument is that gt_schedule never returns to a thread that is      *)
(* Blocked, because it always finds another one: main is never Blocked,    *)
(* and every ticket has an owner.                                          *)
(*                                                                         *)
(* A thread that has returned from its function stays finished under round *)
(* robin and the priority scan.  This needs no condition on malloc, but    *)
(* that all threads are created before the first of them runs.             *)
(***************************************************************************)
-------------------------------------------------------------------------------
(* The inductive invariant *)

(* main neither waits for the semaphore nor marks itself Unused. *)
MainInUse ==
    state[Main] \in {"Running", "Ready"} /\ pc[Main] \in {"create", "yield"}

(* CurrentRuns, also when the process has ended. *)
CurrentOwnsCPU ==
    \/ state[gt_current] = "Running"
    \/ state[gt_current] = "Blocked" /\ pc[gt_current] = "waiting"
    \/ state[gt_current] = "Unused" /\ pc[gt_current] = "stopped"

IdleIsUnused ==
    \A t \in Threads :
        pc[t] \in {"none", "stopped", "gone"} => state[t] = "Unused"

SemInv == QueueSound /\ NobodyForgotten /\ UnitsAddUp

Inv == MainInUse /\ CurrentOwnsCPU /\ IdleIsUnused /\ SemInv

(* What is known before: the invariants above. *)
LotteryIsFair ==
    current_algorithm = "LotteryScheduling" => EveryTicketOwned

Known == TypeOK /\ OneRunner /\ UnusedIsIdle /\ LotteryIsFair

LEMMA KnownAlways == Spec => [](DrawsSucceed => Known)
<1>1. TypeOK /\ OneRunner /\ UnusedIsIdle /\ TicketPartition
      => (DrawsSucceed => Known)
  BY DEF DrawsSucceed, TicketPartition, LotteryIsFair, Known
<1>. QED
  BY <1>1, TypeCorrect, OnlyCurrentRuns, UnusedStaysIdle,
     EveryTicketHasOneOwner, PTL

-------------------------------------------------------------------------------
(* gt_schedule finds a thread that can run *)

LEMMA PicksCanRun ==
    ASSUME Known, MainInUse, NEW s \in Picks
    PROVE  s \in Threads /\ state[s] \in {"Ready", "Running"}
<1>. DEFINE CanRun(u) == u \in Threads /\ state[u] \in {"Ready", "Running"}
<1>1. OtherReady(state, gt_current) = {} => CanRun(gt_current)
  <2>. SUFFICES ASSUME OtherReady(state, gt_current) = {}
                PROVE  CanRun(gt_current)
    OBVIOUS
  <2>1. CASE gt_current = Main
    BY <2>1, MainIsThread DEF MainInUse
  <2>2. CASE gt_current # Main
    <3>1. state[Main] = "Ready"
      BY <2>2, MainIsThread DEF MainInUse, Known, OneRunner
    <3>. QED  BY <2>2, <3>1, MainIsThread DEF OtherReady
  <2>. QED  BY <2>1, <2>2
<1>2. \A u \in FirstReady(state, gt_current) : CanRun(u)
  BY DEF FirstReady, OtherReady
<1>3. \A u \in RoundRobinSelect(state, gt_current) : CanRun(u)
  BY <1>1, <1>2 DEF RoundRobinSelect
<1>4. \A u \in PriorityBasedSelect(state, gt_current) : CanRun(u)
  BY <1>1, <1>2 DEF PriorityBasedSelect
<1>5. ASSUME current_algorithm = "LotteryScheduling",
             NEW ticket \in 1 .. total_tickets,
             NEW u \in LotterySelect(state, gt_current, ticket_start,
                                     ticket_end, ticket)
      PROVE  CanRun(u)
  <2>1. Owners(state, ticket_start, ticket_end, ticket) # {}
    BY <1>5 DEF Known, LotteryIsFair, EveryTicketOwned
  <2>2. \A v \in Owners(state, ticket_start, ticket_end, ticket) :
           v \in Threads /\ state[v] \in {"Ready", "Running", "Blocked"}
    BY DEF Owners, Known, TypeOK, ThreadStates
  <2>3. \/ u \in RoundRobinSelect(state, gt_current)
        \/ /\ u \in Owners(state, ticket_start, ticket_end, ticket)
           /\ state[u] # "Blocked"
    BY <1>5, <2>1 DEF LotterySelect
  <2>4. CASE u \in RoundRobinSelect(state, gt_current)
    BY <1>3, <2>4
  <2>5. CASE u \in Owners(state, ticket_start, ticket_end, ticket)
             /\ state[u] # "Blocked"
    BY <2>2, <2>5
  <2>. QED  BY <2>3, <2>4, <2>5
<1>6. total_tickets > 0 /\ current_algorithm \in Algorithms
  BY ConstantsAssumption DEF Known, TypeOK
<1>7. CASE current_algorithm = "RoundRobin"
  BY <1>3, <1>7 DEF Picks
<1>8. CASE current_algorithm = "PriorityBased"
  BY <1>4, <1>8 DEF Picks
<1>9. CASE current_algorithm = "LotteryScheduling"
  <2>1. Picks = UNION {LotterySelect(state, gt_current, ticket_start,
                                     ticket_end, ticket) :
                           ticket \in 1 .. total_tickets}
    BY <1>6, <1>9 DEF Picks, Known, TypeOK
  <2>2. PICK ticket \in 1 .. total_tickets :
            s \in LotterySelect(state, gt_current, ticket_start, ticket_end,
                               ticket)
    BY <2>1
  <2>. QED  BY <1>5, <1>9, <2>2
<1>. QED  BY <1>6, <1>7, <1>8, <1>9 DEF Algorithms

(* So it never returns false, and never to its caller in the wrong place. *)
LEMMA YieldNeverFails ==
    ASSUME Known, MainInUse, NEW label
    PROVE  ~FailedYield(label)
BY PicksCanRun, MainIsThread DEF FailedYield

-------------------------------------------------------------------------------
(* Switches preserve the invariant *)

(* The caller goes on in the same part of its code. *)
SamePart(label) ==
    LET c == pc[gt_current]
    IN  /\ label \in {"create", "yield"} <=> c \in {"create", "yield"}
        /\ label \in {"waiting", "parked"} <=> c \in {"waiting", "parked"}
        /\ label = "crit" <=> c = "crit"
        /\ label \in {"none", "stopped", "gone"}
               <=> c \in {"none", "stopped", "gone"}

(* Whoever waits, waits for the same thing. *)
SameRoles ==
    /\ UNCHANGED semaphore
    /\ Waiters' = Waiters /\ Inside' = Inside
    /\ \A u \in Threads : state'[u] = "Blocked" <=> state[u] = "Blocked"

LEMMA SameRolesKeepSem ==
    ASSUME TypeOK, SemInv, SameRoles
    PROVE  SemInv' /\ Holders' = Holders /\ queue' = queue
<1>1. Holders' = Holders
  BY DEF SameRoles, Holders, Waiters
<1>2. queue' = queue /\ value' = value /\ Queued' = Queued
  BY DEF SameRoles, semaphore, Queued
<1>3. QueueSound'
  BY <1>2, QueuedThreads DEF SemInv, QueueSound, SameRoles
<1>4. NobodyForgotten'
  BY <1>2 DEF SemInv, NobodyForgotten, SameRoles
<1>5. UnitsAddUp'
  BY <1>1, <1>2 DEF SemInv, UnitsAddUp
<1>. QED  BY <1>1, <1>2, <1>3, <1>4, <1>5 DEF SemInv

LEMMA YieldKeepsInv ==
    ASSUME Known, Inv, NEW label, SamePart(label), Yield(label)
    PROVE  Inv' /\ SameRoles
<1>1. PICK s \in Picks \ {None} : Switch(s)
  BY DEF Yield
<1>2. s \in Threads /\ state[s] \in {"Ready", "Running"}
  BY <1>1, PicksCanRun DEF Inv
<1>3. /\ gt_current' = s /\ gt_current \in Threads
      /\ \A u \in Threads :
            state'[u] = IF u = s THEN "Running"
                        ELSE IF /\ u = gt_current
                                /\ state[u] \notin {"Unused", "Blocked"}
                             THEN "Ready" ELSE state[u]
  BY <1>1, <1>2, SwitchEffect DEF Known, TypeOK
<1>4. \A u \in Threads : pc'[u] = IF u = gt_current THEN label ELSE pc[u]
  BY DEF Yield, Goto, Known, TypeOK
<1>5. MainInUse'
  BY <1>3, <1>4, MainIsThread DEF Inv, MainInUse, SamePart
<1>6. CurrentOwnsCPU'
  BY <1>2, <1>3 DEF CurrentOwnsCPU
<1>7. IdleIsUnused'
  BY <1>2, <1>3, <1>4 DEF Inv, IdleIsUnused, SamePart
<1>8. SameRoles
  <2>1. Waiters' = Waiters /\ Inside' = Inside
    BY <1>3, <1>4 DEF Waiters, Inside, SamePart
  <2>2. \A u \in Threads : state'[u] = "Blocked" <=> state[u] = "Blocked"
    BY <1>2, <1>3
  <2>. QED  BY <2>1, <2>2 DEF Yield, SameRoles
<1>. QED  BY <1>5, <1>6, <1>7, <1>8, SameRolesKeepSem DEF Inv, Known

-------------------------------------------------------------------------------
(* gt_sem_wait and gt_sem_post preserve it *)

(* A thread that executes its own code is neither Blocked nor queued. *)
LEMMA RunnerIsNotQueued ==
    ASSUME Inv, NEW t \in Threads, t = gt_current,
           pc[t] \notin {"waiting", "stopped"}
    PROVE  state[t] = "Running" /\ t \notin Queued
BY DEF Inv, CurrentOwnsCPU, SemInv, QueueSound

LEMMA HoldersCount ==
    ASSUME TypeOK, UnitsAddUp
    PROVE  /\ Holders \in SUBSET Threads /\ IsFiniteSet(Holders)
           /\ Cardinality(Holders) \in Nat /\ value \in Nat /\ SemValue \in Nat
           /\ value + Cardinality(Holders) = SemValue
           /\ queue # <<>> => value = 0
<1>1. Holders \in SUBSET Threads
  BY DEF Holders, Inside, Waiters
<1>2. IsFiniteSet(Holders) /\ Cardinality(Holders) \in Nat
  BY <1>1, MainIsThread, CountThreads
<1>. QED  BY <1>1, <1>2, ConstantsAssumption DEF TypeOK, UnitsAddUp

(* gt_sem_wait: the thread takes a free unit, or joins the queue. *)
TakesUnit(t) ==
    /\ value > 0 /\ t \notin Holders
    /\ Holders' = Holders \cup {t} /\ UNCHANGED queue

JoinsQueue(t) ==
    /\ value = 0 /\ t \notin Holders /\ t \notin Queued
    /\ UNCHANGED Holders /\ queue' = Append(queue, t)

LEMMA WaitKeepsInv ==
    ASSUME ~MallocMayFail, Known, Inv, NEW t \in Threads, gt_sem_wait(t)
    PROVE  Inv' /\ (TakesUnit(t) \/ JoinsQueue(t))
<1>. USE DEF Known
<1>1. t = gt_current /\ gt_current' = t /\ pc[t] = "top"
  BY DEF gt_sem_wait, At
<1>2. state[t] = "Running" /\ t \notin Queued /\ t # Main /\ t \notin Holders
  <2>1. t # Main /\ t \notin Holders
    BY <1>1 DEF Inv, MainInUse, Holders, Inside, Waiters
  <2>. QED  BY <1>1, <2>1, RunnerIsNotQueued
<1>3. CASE /\ value > 0 /\ value' = value - 1 /\ Goto(t, "crit")
           /\ UNCHANGED <<state, queue>>
  <2>1. \A u \in Threads : pc'[u] = IF u = t THEN "crit" ELSE pc[u]
    BY <1>3 DEF Goto, TypeOK
  <2>2. MainInUse' /\ CurrentOwnsCPU' /\ IdleIsUnused'
    BY <1>1, <1>2, <1>3, <2>1, MainIsThread
       DEF Inv, MainInUse, CurrentOwnsCPU, IdleIsUnused
  <2>3. Holders' = Holders \cup {t} /\ Waiters' = Waiters
    BY <1>1, <1>3, <2>1 DEF Holders, Inside, Waiters
  <2>4. UnitsAddUp'
    <3>1. Cardinality(Holders') = Cardinality(Holders) + 1
      BY <1>2, <2>3, HoldersCount, CountThreads DEF Inv, SemInv
    <3>2. value' + Cardinality(Holders') = SemValue /\ queue' = <<>>
      BY <1>3, <3>1, HoldersCount DEF Inv, SemInv
    <3>. QED  BY <3>2 DEF UnitsAddUp
  <2>5. QueueSound' /\ NobodyForgotten'
    BY <1>3, <2>3 DEF Inv, SemInv, QueueSound, NobodyForgotten, Queued
  <2>. QED
    BY <1>2, <1>3, <2>2, <2>3, <2>4, <2>5 DEF Inv, SemInv, TakesUnit
<1>4. CASE /\ ~(value > 0) /\ UNCHANGED value
           /\ state' = [state EXCEPT ![t] = "Blocked"]
           /\ queue' = Append(queue, t) /\ Goto(t, "waiting")
  <2>1. /\ \A u \in Threads : pc'[u] = IF u = t THEN "waiting" ELSE pc[u]
        /\ \A u \in Threads : state'[u] = IF u = t THEN "Blocked" ELSE state[u]
    BY <1>4 DEF Goto, TypeOK
  <2>2. MainInUse' /\ CurrentOwnsCPU' /\ IdleIsUnused'
    BY <1>1, <1>2, <1>4, <2>1, MainIsThread
       DEF Inv, MainInUse, CurrentOwnsCPU, IdleIsUnused
  <2>3. Holders' = Holders /\ Waiters' = Waiters \cup {t}
    BY <1>1, <1>4, <2>1 DEF Holders, Inside, Waiters
  <2>4. /\ Queued' = Queued \cup {t} /\ IsInjective(queue')
        /\ Queued \subseteq Threads
    BY <1>2, <1>4, QueuedThreads, RangeAppend
       DEF Queued, Inv, SemInv, QueueSound
  <2>5. QueueSound' /\ NobodyForgotten'
    BY <1>2, <2>1, <2>3, <2>4 DEF Inv, SemInv, QueueSound, NobodyForgotten
  <2>6. value = 0 /\ UnitsAddUp'
    BY <1>4, <2>3, HoldersCount DEF Inv, SemInv, UnitsAddUp
  <2>. QED
    BY <1>2, <1>4, <2>2, <2>3, <2>5, <2>6 DEF Inv, SemInv, JoinsQueue
<1>. QED
  BY <1>3, <1>4 DEF gt_sem_wait, Available, Enqueue

(* gt_sem_post: the head of the queue gets the unit, or it becomes free. *)
HandsOver(t) ==
    /\ queue # <<>> /\ t \in Holders
    /\ Holders' = (Holders \ {t}) \cup {Head(queue)} /\ queue' = Tail(queue)

FreesUnit(t) ==
    /\ queue = <<>> /\ t \in Holders
    /\ Holders' = Holders \ {t} /\ UNCHANGED queue

LEMMA PostKeepsInv ==
    ASSUME Known, Inv, NEW t \in Threads, gt_sem_post(t)
    PROVE  Inv' /\ (HandsOver(t) \/ FreesUnit(t))
<1>. USE DEF Known
<1>1. t = gt_current /\ gt_current' = t /\ pc[t] = "crit" /\ Goto(t, "posted")
  BY DEF gt_sem_post, At
<1>2. state[t] = "Running" /\ t \notin Queued /\ t # Main /\ t \in Holders
  <2>1. t # Main /\ t \in Holders
    BY <1>1 DEF Inv, MainInUse, Holders, Inside
  <2>. QED  BY <1>1, <2>1, RunnerIsNotQueued
<1>3. \A u \in Threads : pc'[u] = IF u = t THEN "posted" ELSE pc[u]
  BY <1>1 DEF Goto, TypeOK
<1>4. Waiters' = Waiters /\ Inside' = Inside \ {t}
  BY <1>1, <1>3 DEF Waiters, Inside
<1>5. CASE queue # <<>> /\ HandOver
  <2>. DEFINE h == Head(queue)
  <2>1. /\ h \in Queued /\ h \in Threads /\ Queued = Queued' \cup {h}
        /\ IsInjective(queue') /\ h \notin Queued' /\ Queued \subseteq Threads
    BY <1>5, QueuedThreads, RangeTail
       DEF HandOver, Inv, SemInv, QueueSound, Queued
  <2>2. h # t /\ state[h] = "Blocked" /\ h \in Waiters
    BY <1>2, <2>1 DEF Inv, SemInv, QueueSound
  <2>3. /\ value' = value /\ queue' = Tail(queue)
        /\ \A u \in Threads : state'[u] = IF u = h THEN "Ready" ELSE state[u]
    BY <1>5, <2>1 DEF HandOver, TypeOK
  <2>. HIDE DEF h
  <2>4. MainInUse' /\ CurrentOwnsCPU' /\ IdleIsUnused'
    BY <1>1, <1>2, <1>3, <2>2, <2>3, MainIsThread
       DEF Inv, MainInUse, CurrentOwnsCPU, IdleIsUnused, Waiters
  <2>5. h \notin Holders /\ Holders' = (Holders \ {t}) \cup {h}
    <3>1. h \notin Holders
      BY <2>2 DEF Holders, Inside, Waiters
    <3>2. t \notin Waiters
      BY <1>1 DEF Waiters
    <3>. QED  BY <1>4, <2>1, <2>2, <2>3, <3>1, <3>2 DEF Holders, Waiters
  <2>6. UnitsAddUp'
    <3>1. Cardinality(Holders \ {t}) = Cardinality(Holders) - 1
      BY <1>2, HoldersCount, CountThreads DEF Inv, SemInv
    <3>2. Cardinality(Holders') = Cardinality(Holders \ {t}) + 1
      BY <2>1, <2>5, HoldersCount, CountThreads DEF Inv, SemInv
    <3>. QED
      BY <1>5, <2>3, <3>1, <3>2, HoldersCount DEF Inv, SemInv, UnitsAddUp
  <2>7. QueueSound' /\ NobodyForgotten'
    BY <1>4, <2>1, <2>2, <2>3 DEF Inv, SemInv, QueueSound, NobodyForgotten
  <2>. QED
    BY <1>2, <1>5, <2>3, <2>4, <2>5, <2>6, <2>7 DEF Inv, SemInv, HandsOver, h
<1>6. CASE queue = <<>> /\ value' = value + 1 /\ UNCHANGED <<state, queue>>
  <2>1. MainInUse' /\ CurrentOwnsCPU' /\ IdleIsUnused'
    BY <1>1, <1>2, <1>3, <1>6, MainIsThread
       DEF Inv, MainInUse, CurrentOwnsCPU, IdleIsUnused
  <2>2. Holders' = Holders \ {t}
    BY <1>1, <1>4, <1>6 DEF Holders, Waiters
  <2>3. UnitsAddUp'
    <3>1. Cardinality(Holders') = Cardinality(Holders) - 1
      BY <1>2, <2>2, HoldersCount, CountThreads DEF Inv, SemInv
    <3>. QED
      BY <1>6, <3>1, HoldersCount DEF Inv, SemInv, UnitsAddUp
  <2>4. QueueSound' /\ NobodyForgotten'
    BY <1>4, <1>6 DEF Inv, SemInv, QueueSound, NobodyForgotten, Queued
  <2>. QED
    BY <1>2, <1>6, <2>1, <2>2, <2>3, <2>4 DEF Inv, SemInv, FreesUnit
<1>. QED  BY <1>5, <1>6 DEF gt_sem_post

-------------------------------------------------------------------------------
(* So do the other actions, which leave the semaphore alone *)

(* gt_create puts a thread into a slot nobody waits in. *)
LEMMA CreateKeepsInv ==
    ASSUME Known, Inv, gt_create
    PROVE  Inv' /\ SameRoles
<1>. USE DEF Known
<1>1. gt_current = Main /\ gt_current' = Main /\ pc[Main] = "create"
  BY DEF gt_create, At
<1>2. CASE UNCHANGED <<state, pc>>
  <2>1. SameRoles
    BY <1>2 DEF gt_create, SameRoles, Waiters, Inside
  <2>. QED
    BY <1>1, <1>2, <2>1, SameRolesKeepSem
       DEF Inv, MainInUse, CurrentOwnsCPU, IdleIsUnused
<1>3. ASSUME NEW p \in Threads, EmptySlot(p), Goto(p, "top"),
             state' = [state EXCEPT ![p] = "Ready"]
      PROVE  Inv' /\ SameRoles
  <2>1. state[p] = "Unused" /\ p # Main
    BY <1>3 DEF EmptySlot, Inv, MainInUse
  <2>2. pc[p] \notin {"waiting", "parked", "crit"}
    BY <2>1 DEF UnusedIsIdle
  <2>3. /\ \A u \in Threads : pc'[u] = IF u = p THEN "top" ELSE pc[u]
        /\ \A u \in Threads : state'[u] = IF u = p THEN "Ready" ELSE state[u]
    BY <1>3 DEF Goto, TypeOK
  <2>4. Waiters' = Waiters /\ Inside' = Inside
    BY <2>2, <2>3 DEF Waiters, Inside
  <2>5. SameRoles
    BY <2>1, <2>3, <2>4 DEF gt_create, SameRoles
  <2>6. MainInUse' /\ CurrentOwnsCPU' /\ IdleIsUnused'
    BY <1>1, <2>1, <2>3, MainIsThread
       DEF Inv, MainInUse, CurrentOwnsCPU, IdleIsUnused
  <2>. QED  BY <2>5, <2>6, SameRolesKeepSem DEF Inv
<1>. QED  BY <1>2, <1>3 DEF gt_create

(* main leaves its loop of gt_create calls, or a worker its run function. *)
LEMMA ReturnsKeepInv ==
    ASSUME Known, Inv, MainReturns \/ \E t \in Threads : gt_return(t)
    PROVE  Inv' /\ SameRoles
<1>. USE DEF Known
<1>1. CASE MainReturns
  <2>1. /\ gt_current = Main /\ gt_current' = Main
        /\ state' = state /\ pc[Main] = "create"
        /\ \A u \in Threads : pc'[u] = IF u = Main THEN "yield" ELSE pc[u]
    BY <1>1 DEF MainReturns, At, Goto, TypeOK
  <2>2. SameRoles
    BY <1>1, <2>1 DEF MainReturns, SameRoles, Waiters, Inside
  <2>3. MainInUse' /\ CurrentOwnsCPU' /\ IdleIsUnused'
    BY <2>1, MainIsThread DEF Inv, MainInUse, CurrentOwnsCPU, IdleIsUnused
  <2>. QED  BY <2>2, <2>3, SameRolesKeepSem DEF Inv
<1>2. ASSUME NEW t \in Threads, gt_return(t)
      PROVE  Inv' /\ SameRoles
  <2>1. /\ t = gt_current /\ gt_current' = t /\ pc[t] = "top" /\ t # Main
        /\ \A u \in Threads : pc'[u] = IF u = t THEN "stopped" ELSE pc[u]
        /\ \A u \in Threads : state'[u] = IF u = t THEN "Unused" ELSE state[u]
    BY <1>2 DEF gt_return, At, Goto, TypeOK
  <2>2. state[t] = "Running"
    BY <2>1, RunnerIsNotQueued
  <2>3. SameRoles
    <3>1. Waiters' = Waiters /\ Inside' = Inside
      BY <2>1 DEF Waiters, Inside
    <3>2. \A u \in Threads : state'[u] = "Blocked" <=> state[u] = "Blocked"
      BY <2>1, <2>2
    <3>. QED  BY <1>2, <3>1, <3>2 DEF gt_return, SameRoles
  <2>4. MainInUse' /\ CurrentOwnsCPU' /\ IdleIsUnused'
    BY <2>1, MainIsThread DEF Inv, MainInUse, CurrentOwnsCPU, IdleIsUnused
  <2>. QED  BY <2>3, <2>4, SameRolesKeepSem DEF Inv
<1>. QED  BY <1>1, <1>2

(* gt_sem_wait returns to a thread that has been handed its unit. *)
LEMMA WaitReturnsKeepsInv ==
    ASSUME Known, Inv, NEW t \in Threads, WaitReturns(t)
    PROVE  Inv' /\ UNCHANGED <<Holders, queue>>
<1>. USE DEF Known
<1>1. /\ t = gt_current /\ gt_current' = t /\ pc[t] = "parked"
      /\ state' = state /\ queue' = queue /\ value' = value
      /\ \A u \in Threads : pc'[u] = IF u = t THEN "crit" ELSE pc[u]
  BY DEF WaitReturns, At, Goto, TypeOK, semaphore
<1>2. state[t] = "Running" /\ t \notin Queued /\ t # Main
  <2>1. t # Main
    BY <1>1 DEF Inv, MainInUse
  <2>. QED  BY <1>1, <2>1, RunnerIsNotQueued
<1>3. MainInUse' /\ CurrentOwnsCPU' /\ IdleIsUnused'
  BY <1>1, <1>2, MainIsThread DEF Inv, MainInUse, CurrentOwnsCPU, IdleIsUnused
<1>4. Waiters' = Waiters \ {t} /\ Inside' = Inside \cup {t}
  BY <1>1 DEF Waiters, Inside
<1>5. Holders' = Holders
  BY <1>1, <1>2, <1>4 DEF Holders, Waiters
<1>6. QueueSound' /\ NobodyForgotten'
  BY <1>1, <1>2, <1>4, QueuedThreads
     DEF Inv, SemInv, QueueSound, NobodyForgotten, Queued
<1>7. UnitsAddUp'
  BY <1>1, <1>5 DEF Inv, SemInv, UnitsAddUp
<1>. QED  BY <1>1, <1>3, <1>5, <1>6, <1>7 DEF Inv, SemInv

(* Every call of gt_schedule, from the code or from the alarm. *)
LEMMA SwitchesKeepInv ==
    ASSUME Known, Inv,
           \/ Alarm \/ MainYields
           \/ \E t \in Threads : WaitYields(t) \/ PostYields(t) \/ ReturnYields(t)
    PROVE  Inv' /\ SameRoles
<1>1. ~FailedYield("yield") /\ ~FailedYield("parked")
      /\ ~FailedYield("top") /\ ~FailedYield("gone")
  BY YieldNeverFails DEF Inv
<1>2. PICK label : Yield(label) /\ SamePart(label)
  <2>1. CASE Alarm
    BY <2>1 DEF Alarm, SamePart
  <2>2. CASE MainYields
    BY <1>1, <2>2 DEF MainYields, At, SamePart
  <2>3. ASSUME NEW t \in Threads, WaitYields(t)
        PROVE  Yield("parked") /\ SamePart("parked")
    BY <1>1, <2>3 DEF WaitYields, At, SamePart
  <2>4. ASSUME NEW t \in Threads, PostYields(t)
        PROVE  Yield("top") /\ SamePart("top")
    BY <1>1, <2>4 DEF PostYields, At, SamePart
  <2>5. ASSUME NEW t \in Threads, ReturnYields(t)
        PROVE  Yield("gone") /\ SamePart("gone")
    BY <1>1, <2>5 DEF ReturnYields, At, SamePart
  <2>. QED  BY <2>1, <2>2, <2>3, <2>4, <2>5
<1>. QED  BY <1>2, YieldKeepsInv

(* gt_schedule does not come back to gt_return. *)
LEMMA NoAssertFails ==
    ASSUME Inv, NEW t \in Threads
    PROVE  ~AssertFails(t)
BY DEF AssertFails, At, Inv, IdleIsUnused, CurrentOwnsCPU

-------------------------------------------------------------------------------
(* The theorems *)

(* What a step does to the semaphore. *)
SemStep ==
    \/ UNCHANGED <<Holders, queue>>
    \/ \E t \in Threads : \/ TakesUnit(t) \/ JoinsQueue(t)
                          \/ HandsOver(t) \/ FreesUnit(t)

LEMMA InvIsInductive ==
    ASSUME ~MallocMayFail, Known, Inv, [Next]_vars
    PROVE  Inv' /\ SemStep
<1>. USE DEF Known
<1>1. CASE UNCHANGED vars
  <2>1. /\ state' = state /\ gt_current' = gt_current /\ pc' = pc
        /\ UNCHANGED semaphore
    BY <1>1 DEF vars
  <2>2. SameRoles
    BY <2>1 DEF SameRoles, Waiters, Inside
  <2>. QED
    BY <2>1, <2>2, SameRolesKeepSem
       DEF SemStep, Inv, MainInUse, CurrentOwnsCPU, IdleIsUnused
<1>2. CASE Inv' /\ SameRoles
  BY <1>2, SameRolesKeepSem DEF Inv, SemStep
<1>3. CASE Alarm
  BY <1>2, <1>3, SwitchesKeepInv
<1>4. ASSUME NEW t \in Threads, Step(t) \/ gt_return(t)
      PROVE  Inv' /\ SemStep
  <2>1. CASE gt_create
    BY <1>2, <2>1, CreateKeepsInv
  <2>2. CASE MainReturns \/ gt_return(t)
    BY <1>2, <2>2, ReturnsKeepInv
  <2>3. CASE MainYields \/ WaitYields(t) \/ PostYields(t) \/ ReturnYields(t)
    BY <1>2, <2>3, SwitchesKeepInv
  <2>4. CASE gt_sem_wait(t)
    BY <2>4, WaitKeepsInv DEF SemStep
  <2>5. CASE WaitReturns(t)
    BY <2>5, WaitReturnsKeepsInv DEF SemStep
  <2>6. CASE gt_sem_post(t)
    BY <2>6, PostKeepsInv DEF SemStep
  <2>. QED
    BY <1>4, <2>1, <2>2, <2>3, <2>4, <2>5, <2>6, NoAssertFails DEF Step
<1>. QED  BY <1>1, <1>3, <1>4 DEF Next

LEMMA InitIsSafe == Init => Inv /\ Holders = {} /\ queue = <<>>
<1>. SUFFICES ASSUME Init
              PROVE  Inv /\ Holders = {} /\ queue = <<>>
  OBVIOUS
<1>1. /\ state = [t \in Threads |-> IF t = Main THEN "Running" ELSE "Unused"]
      /\ pc = [t \in Threads |-> IF t = Main THEN "create" ELSE "none"]
      /\ gt_current = Main /\ value = SemValue /\ queue = <<>>
  BY DEF Init, select_algorithm, gt_init, gt_sem_init
<1>2. Holders = {}
  BY <1>1 DEF Holders, Inside, Waiters
<1>3. Queued = {} /\ IsInjective(queue)
  BY <1>1 DEF Queued, Range, IsInjective
<1>4. UnitsAddUp
  BY <1>1, <1>2, FS_EmptySet, ConstantsAssumption DEF UnitsAddUp
<1>5. QueueSound /\ NobodyForgotten
  BY <1>1, <1>3 DEF QueueSound, NobodyForgotten
<1>. QED
  BY <1>1, <1>2, <1>4, <1>5, MainIsThread
     DEF Inv, MainInUse, CurrentOwnsCPU, IdleIsUnused, SemInv

LEMMA InvAlways ==
    ASSUME ~MallocMayFail
    PROVE  Spec => [](DrawsSucceed => Inv)
<1>1. Init => Inv
  BY InitIsSafe
<1>2. TypeOK /\ CreationComesFirst /\ (DrawsSucceed => Known)
      /\ (DrawsSucceed => Inv) /\ [Next]_vars => (DrawsSucceed' => Inv')
  BY DrawsSucceededBefore, InvIsInductive
<1>. QED
  BY <1>1, <1>2, TypeCorrect, CreationAlwaysFirst, KnownAlways, PTL DEF Spec

(* Whoever executes is the one thread marked Running in the thread table; in
   particular gt_schedule never returns to a thread that is Blocked, unless a
   draw has failed. *)
THEOREM RunningThreadOwnsCPU ==
    ASSUME ~MallocMayFail
    PROVE  Spec => []CurrentRuns
<1>1. (DrawsSucceed => Inv) /\ OneRunner => CurrentRuns
  BY DEF Inv, CurrentOwnsCPU, CurrentRuns
<1>. QED  BY <1>1, InvAlways, OnlyCurrentRuns, PTL

(* The waiting queue and the Blocked threads are the same set. *)
THEOREM QueueHoldsTheBlocked ==
    ASSUME ~MallocMayFail
    PROVE  Spec => []QueueIsTheBlocked
<1>1. (DrawsSucceed => Inv) => QueueIsTheBlocked
  BY DEF Inv, SemInv, QueueIsTheBlocked
<1>. QED  BY <1>1, InvAlways, PTL

(* No unit of the semaphore is lost or made, whatever preempts what. *)
THEOREM NoUnitIsLost ==
    ASSUME ~MallocMayFail
    PROVE  Spec => []UnitsConserved
<1>1. (DrawsSucceed => Inv) => UnitsConserved
  BY DEF Inv, SemInv, UnitsConserved
<1>. QED  BY <1>1, InvAlways, PTL

(* At most SemValue threads are inside at the same time. *)
THEOREM SemaphoreExcludes ==
    ASSUME ~MallocMayFail
    PROVE  Spec => []MutualExclusion
<1>1. Known /\ Inv => Cardinality(Inside) <= SemValue
  <2>. SUFFICES ASSUME Known, Inv
                PROVE  Cardinality(Inside) <= SemValue
    OBVIOUS
  <2>1. Inside \subseteq Holders
    BY DEF Holders
  <2>2. Cardinality(Inside) <= Cardinality(Holders) /\ IsFiniteSet(Inside)
    BY <2>1, HoldersCount, FS_Subset DEF Known, Inv, SemInv
  <2>3. Cardinality(Inside) \in Nat
    BY <2>2, FS_CardinalityType
  <2>. QED
    BY <2>2, <2>3, HoldersCount DEF Known, Inv, SemInv
<1>2. (DrawsSucceed => Known) /\ (DrawsSucceed => Inv) => MutualExclusion
  BY <1>1 DEF MutualExclusion
<1>. QED  BY <1>2, KnownAlways, InvAlways, PTL

-------------------------------------------------------------------------------
(* The refinement *)

LEMMA SemStepIsFifo ==
    ASSUME Known, Inv, SemStep
    PROVE  [Fifo!Next]_Fifo!vars
<1>. USE DEF Known
<1>1. queue \in Seq(Threads)
  BY DEF TypeOK
<1>2. /\ value + Cardinality(Holders) = SemValue
      /\ value \in Nat /\ SemValue \in Nat /\ Cardinality(Holders) \in Nat
      /\ queue # <<>> => value = 0
  BY HoldersCount DEF Inv, SemInv
<1>3. \A t : Fifo!InLine(t) <=> t \in Queued
  BY <1>1 DEF Fifo!InLine, Queued, Range
<1>4. Fifo!Cardinality(Holders) = Cardinality(Holders)
  BY DEF Fifo!Cardinality, Cardinality
<1>5. ASSUME NEW t \in Threads, TakesUnit(t)
      PROVE  Fifo!Enter(t)
  <2>1. queue = <<>> /\ Queued = {}
    BY <1>2, <1>5 DEF TakesUnit, Queued, Range
  <2>. QED  BY <1>2, <1>3, <1>4, <1>5, <2>1 DEF TakesUnit, Fifo!Enter
<1>6. ASSUME NEW t \in Threads, JoinsQueue(t)
      PROVE  Fifo!Join(t)
  BY <1>2, <1>3, <1>4, <1>6 DEF JoinsQueue, Fifo!Join
<1>7. ASSUME NEW t \in Threads, HandsOver(t) \/ FreesUnit(t)
      PROVE  Fifo!Leave(t)
  BY <1>7 DEF HandsOver, FreesUnit, Fifo!Leave
<1>8. CASE UNCHANGED <<Holders, queue>>
  BY <1>8 DEF Fifo!vars
<1>. QED  BY <1>5, <1>6, <1>7, <1>8 DEF SemStep, Fifo!Next

(* gt_sem_wait and gt_sem_post implement the first-in first-out semaphore,
   under every algorithm and every placement of the alarms. *)
THEOREM ImplementsFifo ==
    ASSUME ~MallocMayFail
    PROVE  Spec => FifoSpec
<1>1. Init => Fifo!Init
  BY InitIsSafe DEF Fifo!Init
<1>2. TypeOK /\ CreationComesFirst /\ (DrawsSucceed => Known)
      /\ (DrawsSucceed => Inv) /\ [Next]_vars
      => [DrawsSucceed' => Fifo!Next]_(Fifo!vars)
  <2>. SUFFICES ASSUME TypeOK, CreationComesFirst, DrawsSucceed => Known,
                       DrawsSucceed => Inv, [Next]_vars, DrawsSucceed'
                PROVE  [Fifo!Next]_(Fifo!vars)
    OBVIOUS
  <2>1. DrawsSucceed
    BY DrawsSucceededBefore
  <2>. QED  BY <2>1, InvIsInductive, SemStepIsFifo
<1>. QED
  BY <1>1, <1>2, TypeCorrect, CreationAlwaysFirst, KnownAlways, InvAlways, PTL
     DEF Spec, FifoSpec

-------------------------------------------------------------------------------
(***************************************************************************)
(* Threads that return.  Under round robin and the priority scan malloc    *)
(* may fail as well: a thread whose malloc failed stays Blocked, goes on   *)
(* executing and is left behind at its next switch.                        *)
(***************************************************************************)
NoLottery == current_algorithm # "LotteryScheduling"

(* The executing thread is Running, or about to give up the CPU; or it is the
   one whose gt_sem_wait has returned without a unit. *)
CurrentExecutes ==
    \/ state[gt_current] = "Running"
    \/ state[gt_current] = "Blocked" /\ pc[gt_current] \in {"waiting", "crit", "posted"}
    \/ state[gt_current] = "Unused" /\ pc[gt_current] = "stopped"

ReturnInv ==
    MainInUse /\ CurrentExecutes /\ CreationComesFirst /\ IdleIsUnused /\ QueueSound

(* GoneStaysGone, of one step. *)
FinishedStay ==
    \A t \in Threads :
        pc[t] \in {"stopped", "gone"} /\ gt_current # t
            => gt_current' # t /\ state'[t] = "Unused"

LEMMA YieldKeepsReturnInv ==
    ASSUME Known, ReturnInv, NEW label, SamePart(label), Yield(label),
           pc[Main] # "create", label = "create" => pc[gt_current] = "create"
    PROVE  ReturnInv' /\ FinishedStay
<1>1. PICK s \in Picks \ {None} : Switch(s)
  BY DEF Yield
<1>2. s \in Threads /\ state[s] \in {"Ready", "Running"}
  BY <1>1, PicksCanRun DEF ReturnInv
<1>3. /\ gt_current' = s /\ gt_current \in Threads
      /\ \A u \in Threads :
            state'[u] = IF u = s THEN "Running"
                        ELSE IF /\ u = gt_current
                                /\ state[u] \notin {"Unused", "Blocked"}
                             THEN "Ready" ELSE state[u]
  BY <1>1, <1>2, SwitchEffect DEF Known, TypeOK
<1>4. \A u \in Threads : pc'[u] = IF u = gt_current THEN label ELSE pc[u]
  BY DEF Yield, Goto, Known, TypeOK
<1>5. MainInUse'
  BY <1>3, <1>4, MainIsThread DEF ReturnInv, MainInUse, SamePart
<1>6. CurrentExecutes'
  BY <1>2, <1>3 DEF CurrentExecutes
<1>7. CreationComesFirst'
  BY <1>4, MainIsThread DEF CreationComesFirst
<1>8. IdleIsUnused' /\ FinishedStay
  BY <1>2, <1>3, <1>4 DEF ReturnInv, IdleIsUnused, SamePart, FinishedStay
<1>9. QueueSound'
  <2>1. queue' = queue /\ Queued' = Queued /\ Queued \subseteq Threads
    BY QueuedThreads DEF Yield, semaphore, Queued, Known
  <2>2. Waiters' = Waiters
    BY <1>3, <1>4 DEF Waiters, SamePart
  <2>3. \A u \in Threads : state'[u] = "Blocked" <=> state[u] = "Blocked"
    BY <1>2, <1>3
  <2>. QED  BY <2>1, <2>2, <2>3 DEF ReturnInv, QueueSound
<1>. QED  BY <1>5, <1>6, <1>7, <1>8, <1>9 DEF ReturnInv

(* Every call of gt_schedule, from the code or from the alarm. *)
LEMMA SwitchesKeepReturnInv ==
    ASSUME Known, ReturnInv,
           \/ Alarm \/ MainYields
           \/ \E t \in Threads : WaitYields(t) \/ PostYields(t) \/ ReturnYields(t)
    PROVE  ReturnInv' /\ FinishedStay
<1>. DEFINE Fits(label) ==
        /\ Yield(label) /\ SamePart(label) /\ pc[Main] # "create"
        /\ label = "create" => pc[gt_current] = "create"
<1>1. ~FailedYield("yield") /\ ~FailedYield("parked")
      /\ ~FailedYield("top") /\ ~FailedYield("gone")
  BY YieldNeverFails DEF ReturnInv
<1>2. PICK label : Fits(label)
  <2>1. CASE Alarm
    BY <2>1 DEF Alarm, SamePart, ReturnInv, CreationComesFirst
  <2>2. CASE MainYields
    BY <1>1, <2>2 DEF MainYields, At, SamePart
  <2>3. ASSUME NEW t \in Threads, WaitYields(t)
        PROVE  Fits("parked")
    BY <1>1, <2>3 DEF WaitYields, At, SamePart, ReturnInv, CreationComesFirst
  <2>4. ASSUME NEW t \in Threads, PostYields(t)
        PROVE  Fits("top")
    BY <1>1, <2>4 DEF PostYields, At, SamePart, ReturnInv, CreationComesFirst
  <2>5. ASSUME NEW t \in Threads, ReturnYields(t)
        PROVE  Fits("gone")
    BY <1>1, <2>5 DEF ReturnYields, At, SamePart, ReturnInv, CreationComesFirst
  <2>. QED  BY <2>1, <2>2, <2>3, <2>4, <2>5
<1>. QED  BY <1>2, YieldKeepsReturnInv

(* gt_create puts a thread into a slot no thread has returned from. *)
LEMMA CreateKeepsReturnInv ==
    ASSUME Known, ReturnInv, gt_create
    PROVE  ReturnInv' /\ FinishedStay
<1>. USE DEF Known
<1>1. /\ gt_current = Main /\ gt_current' = Main /\ pc[Main] = "create"
      /\ ~alarm /\ ~alarm' /\ queue' = queue /\ Queued' = Queued
      /\ \A u \in Threads \ {Main} : pc[u] \in {"none", "top"}
  BY DEF gt_create, At, ReturnInv, CreationComesFirst, semaphore, Queued
<1>2. CASE UNCHANGED <<state, pc>>
  BY <1>1, <1>2
     DEF ReturnInv, MainInUse, CurrentExecutes, CreationComesFirst, IdleIsUnused,
         QueueSound, Waiters, FinishedStay
<1>3. ASSUME NEW p \in Threads, EmptySlot(p), Goto(p, "top"),
             state' = [state EXCEPT ![p] = "Ready"]
      PROVE  ReturnInv' /\ FinishedStay
  <2>1. state[p] = "Unused" /\ p # Main
    BY <1>3 DEF EmptySlot, ReturnInv, MainInUse
  <2>2. /\ \A u \in Threads : pc'[u] = IF u = p THEN "top" ELSE pc[u]
        /\ \A u \in Threads : state'[u] = IF u = p THEN "Ready" ELSE state[u]
    BY <1>3 DEF Goto, TypeOK
  <2>3. MainInUse' /\ CurrentExecutes' /\ CreationComesFirst' /\ IdleIsUnused'
    BY <1>1, <2>1, <2>2, MainIsThread
       DEF ReturnInv, MainInUse, CurrentExecutes, CreationComesFirst, IdleIsUnused
  <2>4. QueueSound'
    BY <1>1, <2>1, <2>2, QueuedThreads DEF ReturnInv, QueueSound, Waiters
  <2>5. FinishedStay
    BY <1>1, <2>1, <2>2, MainIsThread DEF ReturnInv, FinishedStay
  <2>. QED  BY <2>3, <2>4, <2>5 DEF ReturnInv
<1>. QED  BY <1>2, <1>3 DEF gt_create

(* Steps after which the same thread executes, in its own code. *)
LEMMA ReturnsKeepReturnInv ==
    ASSUME Known, ReturnInv,
           MainReturns \/ \E t \in Threads : gt_return(t) \/ WaitReturns(t)
    PROVE  ReturnInv' /\ FinishedStay
<1>. USE DEF Known
<1>1. queue' = queue /\ Queued' = Queued /\ gt_current' = gt_current
      /\ Queued \subseteq Threads
  BY QueuedThreads
     DEF MainReturns, gt_return, WaitReturns, semaphore, Queued
<1>2. CASE MainReturns
  <2>1. /\ state' = state /\ pc[Main] = "create"
        /\ \A u \in Threads : pc'[u] = IF u = Main THEN "yield" ELSE pc[u]
    BY <1>2 DEF MainReturns, At, Goto, TypeOK
  <2>. QED
    BY <1>1, <2>1, MainIsThread
       DEF ReturnInv, MainInUse, CurrentExecutes, CreationComesFirst,
           IdleIsUnused, QueueSound, Waiters, FinishedStay
<1>3. ASSUME NEW t \in Threads, gt_return(t)
      PROVE  ReturnInv' /\ FinishedStay
  <2>1. /\ t = gt_current /\ pc[t] = "top" /\ t # Main
        /\ \A u \in Threads : pc'[u] = IF u = t THEN "stopped" ELSE pc[u]
        /\ \A u \in Threads : state'[u] = IF u = t THEN "Unused" ELSE state[u]
    BY <1>3 DEF gt_return, At, Goto, TypeOK
  <2>2. pc[Main] # "create"
    BY <2>1 DEF ReturnInv, CreationComesFirst
  <2>3. t \notin Queued
    BY <2>1 DEF ReturnInv, QueueSound, Waiters
  <2>4. MainInUse' /\ CurrentExecutes' /\ CreationComesFirst' /\ IdleIsUnused'
    BY <1>1, <2>1, <2>2, MainIsThread
       DEF ReturnInv, MainInUse, CurrentExecutes, CreationComesFirst, IdleIsUnused
  <2>5. QueueSound' /\ FinishedStay
    BY <1>1, <2>1, <2>3
       DEF ReturnInv, IdleIsUnused, QueueSound, Waiters, FinishedStay
  <2>. QED  BY <2>4, <2>5 DEF ReturnInv
<1>4. ASSUME NEW t \in Threads, WaitReturns(t)
      PROVE  ReturnInv' /\ FinishedStay
  <2>1. /\ t = gt_current /\ pc[t] = "parked" /\ state' = state
        /\ \A u \in Threads : pc'[u] = IF u = t THEN "crit" ELSE pc[u]
    BY <1>4 DEF WaitReturns, At, Goto, TypeOK
  <2>2. state[t] = "Running" /\ t # Main /\ t \notin Queued
    BY <2>1 DEF ReturnInv, CurrentExecutes, MainInUse, QueueSound
  <2>3. MainInUse' /\ CurrentExecutes' /\ CreationComesFirst' /\ IdleIsUnused'
    BY <1>1, <2>1, <2>2, MainIsThread
       DEF ReturnInv, MainInUse, CurrentExecutes, CreationComesFirst, IdleIsUnused
  <2>4. QueueSound' /\ FinishedStay
    BY <1>1, <2>1, <2>2
       DEF ReturnInv, IdleIsUnused, QueueSound, Waiters, FinishedStay
  <2>. QED  BY <2>3, <2>4 DEF ReturnInv
<1>. QED  BY <1>2, <1>3, <1>4

(* gt_sem_wait, with and without a unit or a node for the queue. *)
LEMMA WaitKeepsReturnInv ==
    ASSUME Known, ReturnInv, NEW t \in Threads, gt_sem_wait(t)
    PROVE  ReturnInv' /\ FinishedStay
<1>. USE DEF Known
<1>1. /\ t = gt_current /\ gt_current' = t /\ pc[t] = "top" /\ t # Main
      /\ pc[Main] # "create" /\ t \notin Queued /\ state[t] = "Running"
  BY DEF gt_sem_wait, At, ReturnInv, CreationComesFirst, MainInUse, QueueSound,
         Waiters, CurrentExecutes, IdleIsUnused
<1>2. PICK label \in {"crit", "waiting"} : Goto(t, label)
  BY DEF gt_sem_wait
<1>3. \A u \in Threads : pc'[u] = IF u = t THEN label ELSE pc[u]
  BY <1>2 DEF Goto, TypeOK
<1>4. \/ state' = state /\ label = "crit"
      \/ state' = [state EXCEPT ![t] = "Blocked"]
  BY <1>2, <1>3 DEF gt_sem_wait, Goto, TypeOK
<1>5. \A u \in Threads : state'[u] = IF u = t THEN state'[t] ELSE state[u]
  BY <1>4 DEF TypeOK
<1>6. state'[t] \in {"Running", "Blocked"}
  BY <1>1, <1>4 DEF TypeOK
<1>7. MainInUse' /\ CreationComesFirst' /\ IdleIsUnused' /\ FinishedStay
  BY <1>1, <1>3, <1>5, <1>6, MainIsThread
     DEF ReturnInv, MainInUse, CreationComesFirst, IdleIsUnused, FinishedStay
<1>8. CurrentExecutes'
  BY <1>1, <1>3, <1>6 DEF CurrentExecutes
<1>9. QueueSound'
  <2>1. CASE queue' = queue
    <3>1. Queued' = Queued /\ Queued \subseteq Threads
      BY <2>1, QueuedThreads DEF Queued
    <3>. QED
      BY <1>1, <1>3, <1>5, <2>1, <3>1 DEF ReturnInv, QueueSound, Waiters
  <2>2. CASE queue' # queue
    <3>1. queue' = Append(queue, t)
      BY <2>2 DEF gt_sem_wait, Enqueue, semaphore
    <3>2. Goto(t, "waiting") /\ state' = [state EXCEPT ![t] = "Blocked"]
      BY <2>2 DEF gt_sem_wait, semaphore
    <3>3. pc'[t] = "waiting" /\ state'[t] = "Blocked"
      BY <3>2 DEF Goto, TypeOK
    <3>4. /\ Queued' = Queued \cup {t} /\ IsInjective(queue')
          /\ Queued \subseteq Threads
      BY <1>1, <3>1, QueuedThreads, RangeAppend DEF Queued, ReturnInv, QueueSound
    <3>. QED
      BY <1>1, <1>3, <1>5, <3>3, <3>4 DEF ReturnInv, QueueSound, Waiters
  <2>. QED  BY <2>1, <2>2
<1>. QED  BY <1>7, <1>8, <1>9 DEF ReturnInv

(* gt_sem_post wakes a thread that is still in gt_sem_wait. *)
LEMMA PostKeepsReturnInv ==
    ASSUME Known, ReturnInv, NEW t \in Threads, gt_sem_post(t)
    PROVE  ReturnInv' /\ FinishedStay
<1>. USE DEF Known
<1>1. /\ t = gt_current /\ gt_current' = t /\ pc[t] = "crit" /\ t # Main
      /\ pc[Main] # "create" /\ t \notin Queued
      /\ state[t] \in {"Running", "Blocked"}
  BY DEF gt_sem_post, At, ReturnInv, CreationComesFirst, MainInUse, QueueSound,
         Waiters, CurrentExecutes
<1>2. \A u \in Threads : pc'[u] = IF u = t THEN "posted" ELSE pc[u]
  BY DEF gt_sem_post, Goto, TypeOK
<1>3. CASE queue # <<>> /\ HandOver
  <2>. DEFINE h == Head(queue)
  <2>1. /\ h \in Threads /\ Queued = Queued' \cup {h}
        /\ IsInjective(queue') /\ h \notin Queued' /\ Queued \subseteq Threads
    BY <1>3, QueuedThreads, RangeTail
       DEF HandOver, ReturnInv, QueueSound, Queued
  <2>2. h # t /\ state[h] = "Blocked" /\ pc[h] \in {"waiting", "parked"}
    BY <1>1, <2>1 DEF ReturnInv, QueueSound, Waiters
  <2>3. \A u \in Threads : state'[u] = IF u = h THEN "Ready" ELSE state[u]
    BY <1>3, <2>1 DEF HandOver, TypeOK
  <2>. HIDE DEF h
  <2>4. MainInUse' /\ CurrentExecutes' /\ CreationComesFirst' /\ IdleIsUnused'
    BY <1>1, <1>2, <2>2, <2>3, MainIsThread
       DEF ReturnInv, MainInUse, CurrentExecutes, CreationComesFirst, IdleIsUnused
  <2>5. QueueSound'
    BY <1>1, <1>2, <2>1, <2>2, <2>3 DEF ReturnInv, QueueSound, Waiters
  <2>6. FinishedStay
    BY <1>1, <2>2, <2>3 DEF ReturnInv, IdleIsUnused, FinishedStay
  <2>. QED  BY <2>4, <2>5, <2>6 DEF ReturnInv
<1>4. CASE UNCHANGED <<state, queue>>
  <2>1. Queued' = Queued /\ Queued \subseteq Threads
    BY <1>4, QueuedThreads DEF Queued
  <2>. QED
    BY <1>1, <1>2, <1>4, <2>1, MainIsThread
       DEF ReturnInv, MainInUse, CurrentExecutes, CreationComesFirst,
           IdleIsUnused, QueueSound, Waiters, FinishedStay
<1>. QED  BY <1>3, <1>4 DEF gt_sem_post

(* gt_schedule does not come back to gt_return. *)
LEMMA NoReturnFromReturn ==
    ASSUME ReturnInv, NEW t \in Threads
    PROVE  ~AssertFails(t)
BY DEF AssertFails, At, ReturnInv, IdleIsUnused, CurrentExecutes

LEMMA ReturnInvIsKept ==
    ASSUME Known, ReturnInv, [Next]_vars
    PROVE  ReturnInv' /\ [FinishedStay]_vars
<1>1. CASE UNCHANGED vars
  BY <1>1
     DEF vars, semaphore, ReturnInv, MainInUse, CurrentExecutes,
         CreationComesFirst, IdleIsUnused, QueueSound, Waiters, Queued
<1>2. CASE Alarm
  BY <1>2, SwitchesKeepReturnInv
<1>3. ASSUME NEW t \in Threads, Step(t) \/ gt_return(t)
      PROVE  ReturnInv' /\ FinishedStay
  <2>1. CASE gt_create
    BY <2>1, CreateKeepsReturnInv
  <2>2. CASE MainReturns \/ gt_return(t) \/ WaitReturns(t)
    BY <2>2, ReturnsKeepReturnInv
  <2>3. CASE MainYields \/ WaitYields(t) \/ PostYields(t) \/ ReturnYields(t)
    BY <2>3, SwitchesKeepReturnInv
  <2>4. CASE gt_sem_wait(t)
    BY <2>4, WaitKeepsReturnInv
  <2>5. CASE gt_sem_post(t)
    BY <2>5, PostKeepsReturnInv
  <2>. QED
    BY <1>3, <2>1, <2>2, <2>3, <2>4, <2>5, NoReturnFromReturn DEF Step
<1>. QED  BY <1>1, <1>2, <1>3 DEF Next

LEMMA ReturnInvIsInductive ==
    ASSUME Known, NoLottery => ReturnInv, [Next]_vars
    PROVE  /\ NoLottery' => ReturnInv'
           /\ NoLottery => [FinishedStay]_vars
           /\ NoLottery => \A t \in Threads : ~AssertFails(t)
BY SameAlgorithm, ReturnInvIsKept, NoReturnFromReturn DEF NoLottery

LEMMA NoLotteryIsKnown ==
    ASSUME TypeOK, OneRunner, UnusedIsIdle, NoLottery
    PROVE  Known
BY DEF Known, LotteryIsFair, NoLottery

LEMMA InitReturnInv == Init => ReturnInv
<1>. SUFFICES ASSUME Init PROVE ReturnInv
  OBVIOUS
<1>1. /\ state = [t \in Threads |-> IF t = Main THEN "Running" ELSE "Unused"]
      /\ pc = [t \in Threads |-> IF t = Main THEN "create" ELSE "none"]
      /\ gt_current = Main /\ queue = <<>> /\ alarm = FALSE
  BY DEF Init, select_algorithm, gt_init, gt_sem_init
<1>2. Queued = {} /\ IsInjective(queue)
  BY <1>1 DEF Queued, Range, IsInjective
<1>. QED
  BY <1>1, <1>2, MainIsThread
     DEF ReturnInv, MainInUse, CurrentExecutes, CreationComesFirst,
         IdleIsUnused, QueueSound

LEMMA ReturnInvAlways == Spec => [](NoLottery => ReturnInv)
<1>1. Init => (NoLottery => ReturnInv)
  BY InitReturnInv
<1>2. TypeOK /\ OneRunner /\ UnusedIsIdle /\ (NoLottery => ReturnInv)
      /\ [Next]_vars => (NoLottery' => ReturnInv')
  <2>. SUFFICES ASSUME TypeOK, OneRunner, UnusedIsIdle, NoLottery => ReturnInv,
                       [Next]_vars, NoLottery'
                PROVE  ReturnInv'
    OBVIOUS
  <2>1. current_algorithm' = current_algorithm
    BY SameAlgorithm
  <2>2. Known
    BY <2>1, NoLotteryIsKnown DEF NoLottery
  <2>. QED  BY <2>2, ReturnInvIsInductive
<1>. QED
  BY <1>1, <1>2, TypeCorrect, OnlyCurrentRuns, UnusedStaysIdle, PTL DEF Spec

(* A thread that has returned from its function is never switched to or
   revived under round robin and the priority scan; no assumption is needed. *)
THEOREM FinishedStayFinished == Spec => GoneStaysGone
<1>. DEFINE Stay ==
        \A t \in Threads :
          current_algorithm # "LotteryScheduling"
          /\ pc[t] \in {"stopped", "gone"} /\ gt_current # t
            => gt_current' # t /\ state'[t] = "Unused"
<1>1. TypeOK /\ OneRunner /\ UnusedIsIdle /\ (NoLottery => ReturnInv)
      /\ [Next]_vars => [Stay]_vars
  BY NoLotteryIsKnown, ReturnInvIsInductive DEF NoLottery, FinishedStay
<1>. QED
  BY <1>1, TypeCorrect, OnlyCurrentRuns, UnusedStaysIdle, ReturnInvAlways, PTL
     DEF Spec, GoneStaysGone

(* assert(!"reachable") in gt_return is never reached but under the lottery;
   again without any assumption. *)
THEOREM AssertIsUnreachable == Spec => []NeverReachesAssert
<1>1. Init => NeverReachesAssert
  BY DEF Init, select_algorithm, gt_init, gt_sem_init, NeverReachesAssert
<1>2. (NoLottery => ReturnInv) /\ NeverReachesAssert /\ [Next]_vars
      => NeverReachesAssert'
  <2>. SUFFICES ASSUME NoLottery => ReturnInv, NeverReachesAssert, [Next]_vars
                PROVE  NeverReachesAssert'
    OBVIOUS
  <2>1. CASE UNCHANGED vars
    BY <2>1 DEF NeverReachesAssert, vars
  <2>2. CASE Alarm
    BY <2>2 DEF Alarm, Yield, NeverReachesAssert
  <2>3. ASSUME NEW t \in Threads, Step(t) \/ gt_return(t)
        PROVE  NeverReachesAssert'
    BY <2>3, NoReturnFromReturn
       DEF Step, gt_create, MainReturns, MainYields, Yield, FailedYield,
           gt_sem_wait, WaitYields, WaitReturns, gt_sem_post, PostYields,
           gt_return, ReturnYields, AssertFails, NeverReachesAssert, NoLottery
  <2>. QED  BY <2>1, <2>2, <2>3 DEF Next
<1>. QED  BY <1>1, <1>2, ReturnInvAlways, PTL DEF Spec
===============================================================================
