------------------------- MODULE SchedulingLoopsProofs -------------------------
(***************************************************************************)
(* The scans of gt_schedule compute what Scheduling says, for every size   *)
(* of the thread table and every priority.  The argument is about the part *)
(* of the table a scan has already passed: no thread in it is ready, or    *)
(* for the lottery, none in it owns the ticket.                            *)
(***************************************************************************)
EXTENDS SchedulingLoops, TLAPS

-------------------------------------------------------------------------------
(* Going round the table *)

LEMMA MainIsAThread == Main \in Threads /\ None \notin Threads
BY MaxGThreadsAssumption DEF Main, None, Threads

LEMMA RankRange ==
    ASSUME NEW cur \in Threads, NEW t \in Threads
    PROVE  /\ Rank(cur, t) \in 1 .. MaxGThreads
           /\ Rank(cur, t) = MaxGThreads <=> t = cur
BY MaxGThreadsAssumption DEF Threads, Rank

LEMMA RankIsInjective ==
    ASSUME NEW cur \in Threads, NEW t \in Threads, NEW u \in Threads,
           Rank(cur, t) = Rank(cur, u)
    PROVE  t = u
BY MaxGThreadsAssumption DEF Threads, Rank

(* ++p and the wrap lead to the next rank, or from cur to the first one. *)
LEMMA SuccessorRank ==
    ASSUME NEW cur \in Threads, NEW q \in Threads
    PROVE  /\ Successor(q) \in Threads
           /\ Rank(cur, Successor(q)) = IF q = cur THEN 1 ELSE Rank(cur, q) + 1
<1>1. Successor(q) \in Threads
  BY MaxGThreadsAssumption DEF Successor, Threads, Main
<1>2. CASE q + 1 = MaxGThreads
  BY <1>2, MaxGThreadsAssumption DEF Successor, Threads, Main, Rank
<1>3. CASE q + 1 # MaxGThreads
  BY <1>3, MaxGThreadsAssumption DEF Successor, Threads, Main, Rank
<1>. QED  BY <1>1, <1>2, <1>3

-------------------------------------------------------------------------------
(* The inductive invariant *)

LoopTypes ==
    /\ algorithm \in Algorithms
    /\ state \in [Threads -> ThreadStates]
    /\ gt_current \in Threads /\ p \in Threads
    /\ selected \in Threads \cup {None}
    /\ base_priority \in [Threads -> 0 .. MaxPriority]
    /\ current_priority \in [Threads -> 0 .. MaxPriority]
    /\ at \in {"select", "fallback", "account", "done"}

(* main is Running, or Ready for the thread that runs. *)
MainCanRun ==
    state[Main] = IF gt_current = Main THEN "Running" ELSE "Ready"

(* A scan that is still going has boosted nobody. *)
Untouched == highest_priority = 0 /\ current_priority = base_priority

(* It starts behind gt_current, and has met no ready thread so far. *)
NoneReadyYet ==
    p # gt_current =>
        \A u \in Threads :
            Rank(gt_current, u) <= Rank(gt_current, p) => state[u] # "Ready"

Owns(t) == t \in Owners(state, ticket_start, ticket_end, winning_ticket)

FirstOwner(t) == Owns(t) /\ \A u \in Threads : Owns(u) => t <= u

Progress ==
    /\ at \in {"select", "fallback"} => Untouched
    /\ at = "select" /\ algorithm # "LotteryScheduling" => NoneReadyYet
    /\ at = "select" /\ algorithm = "LotteryScheduling" =>
          \A u \in Threads : u < p => ~Owns(u)
    /\ at = "fallback" =>
          /\ NoneReadyYet /\ algorithm = "LotteryScheduling"
          /\ \E t \in Threads : FirstOwner(t) /\ state[t] = "Blocked"

(* The thread that is accounted for is the only one with a boost. *)
BoostIsSelected ==
    at = "account" =>
        /\ selected \in Threads
        /\ state[selected] \notin {"Ready", "Blocked"} =>
              current_priority = base_priority
        /\ \A t \in Threads \ {selected} :
              current_priority[t] = base_priority[t]

LoopInv ==
    /\ LoopTypes /\ MainCanRun /\ Progress
    /\ BoostIsSelected /\ NoBoostSurvives /\ LoopsMatchOperators

(* What LoopsMatchOperators asks for when the scan returns s. *)
Right(s) ==
    {s} = CASE algorithm = "RoundRobin" -> RoundRobinSelect(state, gt_current)
            [] algorithm = "PriorityBased" ->
                  PriorityBasedSelect(state, gt_current)
            [] algorithm = "LotteryScheduling" ->
                  LotterySelect(state, gt_current, ticket_start, ticket_end,
                                winning_ticket)

-------------------------------------------------------------------------------
(* What a scan finds *)

(* The first ready thread behind gt_current is FirstReady. *)
LEMMA ScanFindsFirstReady ==
    ASSUME LoopTypes, NoneReadyYet, Successor(p) # gt_current,
           state[Successor(p)] = "Ready"
    PROVE  /\ OtherReady(state, gt_current) # {}
           /\ FirstReady(state, gt_current) = {Successor(p)}
<1>. DEFINE q == Successor(p)
<1>1. q \in OtherReady(state, gt_current)
  BY SuccessorRank DEF OtherReady, LoopTypes
<1>2. ASSUME NEW u \in OtherReady(state, gt_current)
      PROVE  Rank(gt_current, q) <= Rank(gt_current, u)
  <2>1. u \in Threads /\ state[u] = "Ready" /\ gt_current \in Threads
        /\ p \in Threads
    BY <1>2 DEF OtherReady, LoopTypes
  <2>2. /\ Rank(gt_current, u) \in 1 .. MaxGThreads
        /\ Rank(gt_current, p) \in 1 .. MaxGThreads
        /\ MaxGThreads \in Nat
    BY <2>1, RankRange, MaxGThreadsAssumption
  <2>3. CASE p = gt_current
    BY <2>1, <2>2, <2>3, SuccessorRank
  <2>4. CASE p # gt_current
    <3>1. ~(Rank(gt_current, u) <= Rank(gt_current, p))
      BY <2>1, <2>4 DEF NoneReadyYet
    <3>2. Rank(gt_current, q) = Rank(gt_current, p) + 1
      BY <2>1, <2>4, SuccessorRank
    <3>. QED  BY <2>2, <3>1, <3>2
  <2>. QED  BY <2>3, <2>4
<1>3. ASSUME NEW u \in FirstReady(state, gt_current)
      PROVE  u = q
  <2>1. u \in OtherReady(state, gt_current)
        /\ Rank(gt_current, u) <= Rank(gt_current, q)
    BY <1>1, <1>3 DEF FirstReady
  <2>2. u \in Threads /\ q \in Threads /\ gt_current \in Threads
    BY <1>1, <2>1 DEF OtherReady, LoopTypes
  <2>3. /\ Rank(gt_current, u) \in 1 .. MaxGThreads
        /\ Rank(gt_current, q) \in 1 .. MaxGThreads
    BY <2>2, RankRange
  <2>4. Rank(gt_current, u) = Rank(gt_current, q)
    BY <1>2, <2>1, <2>3, MaxGThreadsAssumption
  <2>. QED  BY <2>2, <2>4, RankIsInjective
<1>4. q \in FirstReady(state, gt_current)
  BY <1>1, <1>2 DEF FirstReady
<1>. QED  BY <1>1, <1>3, <1>4

(* A scan that comes back to gt_current has found nobody. *)
LEMMA FullCircle ==
    ASSUME LoopTypes, NoneReadyYet, Successor(p) = gt_current
    PROVE  OtherReady(state, gt_current) = {}
<1>. SUFFICES ASSUME NEW u \in OtherReady(state, gt_current)
              PROVE  FALSE
  OBVIOUS
<1>1. /\ u \in Threads /\ u # gt_current /\ state[u] = "Ready"
      /\ gt_current \in Threads /\ p \in Threads
  BY DEF OtherReady, LoopTypes
<1>2. /\ Rank(gt_current, u) \in 1 .. MaxGThreads - 1
      /\ Rank(gt_current, gt_current) = MaxGThreads
  BY <1>1, RankRange, MaxGThreadsAssumption
<1>3. MaxGThreads = IF p = gt_current THEN 1 ELSE Rank(gt_current, p) + 1
  BY <1>1, <1>2, SuccessorRank
<1>4. p # gt_current
  BY <1>2, <1>3
<1>5. Rank(gt_current, p) \in 1 .. MaxGThreads
  BY <1>1, RankRange
<1>6. Rank(gt_current, u) <= Rank(gt_current, p)
  BY <1>2, <1>3, <1>4, <1>5, MaxGThreadsAssumption
<1>. QED  BY <1>1, <1>4, <1>6 DEF NoneReadyYet

(* One more thread has been passed that is not ready. *)
LEMMA ScanGoesOn ==
    ASSUME LoopTypes, NoneReadyYet, Successor(p) # gt_current,
           state[Successor(p)] # "Ready",
           p' = Successor(p), state' = state, gt_current' = gt_current
    PROVE  NoneReadyYet'
<1>. SUFFICES ASSUME NEW u \in Threads,
                     Rank(gt_current, u) <= Rank(gt_current, Successor(p))
              PROVE  state[u] # "Ready"
  BY DEF NoneReadyYet
<1>1. gt_current \in Threads /\ p \in Threads /\ Successor(p) \in Threads
  BY SuccessorRank DEF LoopTypes
<1>2. /\ Rank(gt_current, u) \in 1 .. MaxGThreads
      /\ Rank(gt_current, p) \in 1 .. MaxGThreads
      /\ Rank(gt_current, Successor(p)) =
            IF p = gt_current THEN 1 ELSE Rank(gt_current, p) + 1
  BY <1>1, RankRange, SuccessorRank
<1>3. CASE Rank(gt_current, u) = Rank(gt_current, Successor(p))
  BY <1>1, <1>3, RankIsInjective
<1>4. CASE Rank(gt_current, u) # Rank(gt_current, Successor(p))
  <2>1. p # gt_current /\ Rank(gt_current, u) <= Rank(gt_current, p)
    BY <1>2, <1>4, MaxGThreadsAssumption
  <2>. QED  BY <2>1 DEF NoneReadyYet
<1>. QED  BY <1>3, <1>4

-------------------------------------------------------------------------------
(* What the select functions return is right *)

(* The lottery returns the first owner of the ticket, if it can run. *)
LEMMA FirstOwnerDecides ==
    ASSUME LoopTypes, NEW t \in Threads, FirstOwner(t)
    PROVE  LotterySelect(state, gt_current, ticket_start, ticket_end,
                         winning_ticket)
              = IF state[t] = "Blocked" THEN RoundRobinSelect(state, gt_current)
                ELSE {t}
<1>. DEFINE owners == Owners(state, ticket_start, ticket_end, winning_ticket)
            first  == {u \in owners : \A v \in owners : u <= v}
<1>1. owners \subseteq Threads /\ t \in owners
  BY DEF FirstOwner, Owns, Owners
<1>2. first = {t}
  <2>1. \A u \in owners : t <= u
    BY <1>1 DEF FirstOwner, Owns
  <2>2. \A u \in first : u <= t /\ t <= u /\ u \in Int /\ t \in Int
    BY <1>1, <2>1, MaxGThreadsAssumption DEF Threads
  <2>3. \A u \in first : u = t
    BY <2>2
  <2>. QED  BY <1>1, <2>1, <2>3
<1>. HIDE DEF owners
<1>3. owners # {}
  BY <1>1
<1>4. LotterySelect(state, gt_current, ticket_start, ticket_end, winning_ticket)
        = {u \in first : state[u] # "Blocked"}
          \cup (IF \E u \in first : state[u] = "Blocked"
                THEN RoundRobinSelect(state, gt_current) ELSE {})
  BY <1>3 DEF LotterySelect, owners
<1>. HIDE DEF first
<1>. QED  BY <1>2, <1>4

(* The returns of round_robin_select, also as the end of a lottery. *)
LEMMA RoundRobinIsRight ==
    ASSUME LoopInv, RoundRobin, NEW s, Return(s),
           \/ /\ s = None /\ Successor(p) = gt_current
              /\ state[gt_current] = "Blocked"
           \/ /\ s = gt_current /\ Successor(p) = gt_current
              /\ state[gt_current] # "Blocked"
           \/ /\ s = Successor(p) /\ Successor(p) # gt_current
              /\ state[Successor(p)] = "Ready"
    PROVE  Right(s)
<1>1. LoopTypes /\ NoneReadyYet
  BY DEF LoopInv, Progress, RoundRobin
<1>2. RoundRobinSelect(state, gt_current) = {s}
  BY <1>1, ScanFindsFirstReady, FullCircle DEF RoundRobinSelect
<1>3. CASE at = "select"
  BY <1>2, <1>3 DEF RoundRobin, Right
<1>4. CASE at = "fallback"
  <2>1. PICK t \in Threads : FirstOwner(t) /\ state[t] = "Blocked"
    BY <1>4 DEF LoopInv, Progress
  <2>2. LotterySelect(state, gt_current, ticket_start, ticket_end,
                      winning_ticket) = {s}
    BY <1>1, <1>2, <2>1, FirstOwnerDecides
  <2>. QED  BY <1>4, <2>2 DEF LoopInv, Progress, Right
<1>. QED  BY <1>3, <1>4 DEF RoundRobin

-------------------------------------------------------------------------------
(* The steps preserve the invariant *)

(* What is common to every step that ends a scan. *)
LEMMA ReturnKeepsInv ==
    ASSUME LoopInv, UNCHANGED table, NEW s \in Threads \cup {None},
           Return(s), Right(s), p' \in Threads,
           current_priority' \in [Threads -> 0 .. MaxPriority],
           \/ current_priority' = current_priority
           \/ s \in Threads /\ state[s] = "Ready"
              /\ \A t \in Threads \ {s} :
                    current_priority'[t] = current_priority[t],
           at \in {"select", "fallback"}
    PROVE  LoopInv'
<1>1. selected' = s /\ at' \in {"account", "done"}
      /\ (at' = "done" <=> s = None)
  BY DEF Return
<1>2. /\ algorithm' = algorithm /\ state' = state /\ gt_current' = gt_current
      /\ base_priority' = base_priority /\ ticket_start' = ticket_start
      /\ ticket_end' = ticket_end /\ winning_ticket' = winning_ticket
  BY DEF table
<1>3. current_priority = base_priority
  BY DEF LoopInv, Progress, Untouched
<1>4. LoopTypes'
  BY <1>1, <1>2 DEF LoopInv, LoopTypes
<1>5. MainCanRun' /\ Progress'
  BY <1>1, <1>2 DEF LoopInv, MainCanRun, Progress
<1>6. BoostIsSelected' /\ NoBoostSurvives'
  BY <1>1, <1>2, <1>3, MainIsAThread DEF BoostIsSelected, NoBoostSurvives
<1>7. LoopsMatchOperators'
  BY <1>1, <1>2 DEF Right, LoopsMatchOperators
<1>. QED  BY <1>4, <1>5, <1>6, <1>7 DEF LoopInv

(* And to every step that goes on scanning. *)
LEMMA IterationKeepsInv ==
    ASSUME LoopInv, UNCHANGED <<table, current_priority, highest_priority>>,
           p' \in Threads, UNCHANGED selected, Progress',
           at' \in {"select", "fallback"}
    PROVE  LoopInv'
BY DEF table, LoopInv, LoopTypes, MainCanRun, BoostIsSelected, NoBoostSurvives,
       LoopsMatchOperators

LEMMA RoundRobinKeepsInv ==
    ASSUME LoopInv, RoundRobin
    PROVE  LoopInv'
<1>. DEFINE q == Successor(p)
<1>1. /\ LoopTypes /\ NoneReadyYet /\ at \in {"select", "fallback"}
      /\ q \in Threads /\ p' = q
      /\ UNCHANGED <<table, current_priority, highest_priority>>
  BY SuccessorRank DEF LoopInv, LoopTypes, Progress, RoundRobin,
                       RoundRobinIteration
<1>2. ASSUME NEW s \in Threads \cup {None}, Return(s), Right(s)
      PROVE  LoopInv'
  BY <1>1, <1>2, ReturnKeepsInv DEF LoopTypes
<1>3. CASE state[q] = "Blocked" /\ q = gt_current
  BY <1>2, <1>3, RoundRobinIsRight DEF RoundRobin, RoundRobinIteration
<1>4. CASE state[q] # "Blocked" /\ (q = gt_current \/ state[q] = "Ready")
  <2>1. Return(q)
    BY <1>4 DEF RoundRobin, RoundRobinIteration
  <2>2. Right(q)
    BY <1>4, <2>1, RoundRobinIsRight
  <2>. QED  BY <1>1, <1>2, <2>1, <2>2
<1>5. CASE q # gt_current /\ state[q] # "Ready"
  <2>1. UNCHANGED <<selected, at>>
    BY <1>5 DEF RoundRobin, RoundRobinIteration
  <2>2. NoneReadyYet'
    BY <1>1, <1>5, ScanGoesOn DEF table
  <2>3. Progress'
    BY <1>1, <2>1, <2>2
       DEF LoopInv, RoundRobin, table, Progress, Untouched, FirstOwner, Owns
  <2>. QED  BY <1>1, <2>1, <2>3, IterationKeepsInv
<1>. QED  BY <1>3, <1>4, <1>5

LEMMA BoostedIsAPriority ==
    ASSUME LoopTypes, NEW q \in Threads
    PROVE  Boosted(q) \in 0 .. MaxPriority
BY MaxPriorityAssumption DEF LoopTypes, Boosted

LEMMA PriorityBasedKeepsInv ==
    ASSUME LoopInv, PriorityBased
    PROVE  LoopInv'
<1>. DEFINE q == Successor(p)
<1>1. /\ LoopTypes /\ NoneReadyYet /\ at = "select" /\ q \in Threads
      /\ algorithm = "PriorityBased" /\ p' = q /\ UNCHANGED table
      /\ current_priority \in [Threads -> 0 .. MaxPriority]
      /\ highest_priority = 0
  BY SuccessorRank DEF LoopInv, LoopTypes, Progress, Untouched, PriorityBased
<1>2. CASE q = gt_current
  <2>1. Return(q) /\ current_priority' = current_priority
    BY <1>2 DEF PriorityBased
  <2>2. Right(q)
    BY <1>1, <1>2, FullCircle DEF Right, PriorityBasedSelect
  <2>. QED  BY <1>1, <2>1, <2>2, ReturnKeepsInv
<1>3. CASE q # gt_current /\ state[q] # "Ready"
  <2>1. UNCHANGED <<selected, at, current_priority, highest_priority>>
    BY <1>3 DEF PriorityBased
  <2>2. NoneReadyYet'
    BY <1>1, <1>3, ScanGoesOn DEF table
  <2>3. Progress'
    BY <1>1, <2>1, <2>2 DEF LoopInv, table, Progress, Untouched
  <2>. QED  BY <1>1, <2>1, <2>3, IterationKeepsInv
<1>4. CASE q # gt_current /\ state[q] = "Ready"
  <2>1. Boosted(q) \in 0 .. MaxPriority
    BY <1>1, BoostedIsAPriority
  <2>2. /\ current_priority' = [current_priority EXCEPT ![q] = Boosted(q)]
        /\ Boosted(q) >= highest_priority
    BY <1>1, <1>4, <2>1, MaxPriorityAssumption DEF PriorityBased
  <2>3. Return(q)
    BY <1>4, <2>2 DEF PriorityBased
  <2>4. Right(q)
    BY <1>1, <1>4, ScanFindsFirstReady DEF Right, PriorityBasedSelect
  <2>5. /\ current_priority' \in [Threads -> 0 .. MaxPriority]
        /\ \A t \in Threads \ {q} : current_priority'[t] = current_priority[t]
    BY <1>1, <2>1, <2>2
  <2>. QED  BY <1>1, <1>4, <2>3, <2>4, <2>5, ReturnKeepsInv
<1>. QED  BY <1>2, <1>3, <1>4

LEMMA LotteryKeepsInv ==
    ASSUME LoopInv, Lottery
    PROVE  LoopInv'
<1>. DEFINE owner == winning_ticket \in ticket_start[p] .. ticket_end[p]
<1>1. /\ LoopTypes /\ at = "select" /\ p \in Threads
      /\ algorithm = "LotteryScheduling"
      /\ UNCHANGED <<table, current_priority, highest_priority>>
      /\ current_priority \in [Threads -> 0 .. MaxPriority]
      /\ \A u \in Threads : u < p => ~Owns(u)
  BY DEF LoopInv, LoopTypes, Progress, Lottery
<1>2. Owns(p) <=> owner /\ state[p] # "Unused"
  BY <1>1 DEF Owns, Owners
<1>3. Owns(p) => FirstOwner(p)
  BY <1>1, MaxGThreadsAssumption DEF FirstOwner, Threads
<1>4. state[p] \in ThreadStates
  BY <1>1 DEF LoopTypes
<1>5. CASE owner /\ state[p] \in {"Ready", "Running"}
  <2>1. Return(p) /\ p' = p
    BY <1>5 DEF Lottery
  <2>2. Right(p)
    BY <1>1, <1>2, <1>3, <1>5, FirstOwnerDecides DEF Right
  <2>. QED  BY <1>1, <2>1, <2>2, ReturnKeepsInv
<1>6. CASE owner /\ state[p] = "Blocked"
  <2>1. at' = "fallback" /\ p' = gt_current /\ UNCHANGED selected
    BY <1>6 DEF Lottery
  <2>2. \E t \in Threads : FirstOwner(t) /\ state[t] = "Blocked"
    BY <1>1, <1>2, <1>3, <1>6
  <2>3. Progress'
    BY <1>1, <2>1, <2>2
       DEF LoopInv, table, Progress, Untouched, NoneReadyYet, FirstOwner, Owns
  <2>. QED  BY <1>1, <2>1, <2>3, IterationKeepsInv DEF LoopTypes
<1>7. CASE (~owner \/ state[p] = "Unused") /\ p + 1 = MaxGThreads
  <2>1. Return(None) /\ p' = p
    BY <1>7 DEF Lottery
  <2>2. \A u \in Threads : ~Owns(u)
    BY <1>1, <1>2, <1>7, MaxGThreadsAssumption DEF Threads
  <2>3. Right(None)
    <3>1. Owners(state, ticket_start, ticket_end, winning_ticket) = {}
      BY <2>2 DEF Owns, Owners
    <3>. QED  BY <1>1, <3>1 DEF Right, LotterySelect
  <2>. QED  BY <1>1, <2>1, <2>3, ReturnKeepsInv
<1>8. CASE (~owner \/ state[p] = "Unused") /\ p + 1 # MaxGThreads
  <2>1. p' = p + 1 /\ UNCHANGED <<selected, at>>
    BY <1>8 DEF Lottery
  <2>2. p' \in Threads
    BY <1>1, <1>8, <2>1, MaxGThreadsAssumption DEF Threads
  <2>3. \A u \in Threads : u < p' => ~Owns(u)
    BY <1>1, <1>2, <1>8, <2>1, MaxGThreadsAssumption DEF Threads
  <2>4. Progress'
    BY <1>1, <2>1, <2>3
       DEF LoopInv, table, Progress, Untouched, Owns
  <2>. QED  BY <1>1, <2>1, <2>2, <2>4, IterationKeepsInv
<1>. QED  BY <1>2, <1>4, <1>5, <1>6, <1>7, <1>8 DEF ThreadStates

LEMMA AccountKeepsInv ==
    ASSUME LoopInv, update_waittime_stats
    PROVE  LoopInv'
<1>1. /\ at = "account" /\ at' = "done" /\ selected \in Threads
      /\ UNCHANGED <<table, p, highest_priority, selected>>
      /\ LoopTypes /\ BoostIsSelected
  BY DEF LoopInv, BoostIsSelected, update_waittime_stats
<1>2. current_priority' = base_priority
  <2>1. CASE state[selected] \in {"Ready", "Blocked"}
    <3>1. current_priority' =
            [current_priority EXCEPT ![selected] = base_priority[selected]]
      BY <2>1 DEF update_waittime_stats
    <3>. QED  BY <1>1, <3>1 DEF LoopTypes, BoostIsSelected
  <2>2. CASE state[selected] \notin {"Ready", "Blocked"}
    BY <1>1, <2>2 DEF BoostIsSelected, update_waittime_stats
  <2>. QED  BY <2>1, <2>2
<1>. QED
  BY <1>1, <1>2
     DEF table, LoopInv, LoopTypes, MainCanRun, Progress, BoostIsSelected,
         NoBoostSurvives, LoopsMatchOperators

LEMMA LoopInvIsInductive ==
    ASSUME LoopInv, [Next]_vars
    PROVE  LoopInv'
<1>1. CASE UNCHANGED vars
  BY <1>1
     DEF vars, table, LoopInv, LoopTypes, MainCanRun, Progress, Untouched,
         NoneReadyYet, FirstOwner, Owns, BoostIsSelected, NoBoostSurvives,
         LoopsMatchOperators
<1>. QED
  BY <1>1, RoundRobinKeepsInv, PriorityBasedKeepsInv, LotteryKeepsInv,
     AccountKeepsInv DEF Next

LEMMA InitIsScanning == Init => LoopInv
<1>. SUFFICES ASSUME Init
              PROVE  LoopInv
  OBVIOUS
<1>1. /\ algorithm \in Algorithms /\ gt_current \in Threads
      /\ current_priority = base_priority
      /\ p = IF algorithm = "LotteryScheduling" THEN Main ELSE gt_current
      /\ highest_priority = 0 /\ selected = None /\ at = "select"
  BY DEF Init
<1>2. /\ state \in [Threads -> ThreadStates]
      /\ base_priority \in [Threads -> 0 .. MaxPriority]
  BY DEF Init
<1>3. LoopTypes
  BY <1>1, <1>2, MainIsAThread DEF LoopTypes
<1>4. MainCanRun
  BY DEF Init, MainCanRun
<1>5. Progress
  BY <1>1, MaxGThreadsAssumption
     DEF Progress, Untouched, NoneReadyYet, Main, Threads
<1>. QED
  BY <1>1, <1>3, <1>4, <1>5
     DEF LoopInv, BoostIsSelected, NoBoostSurvives, LoopsMatchOperators

LEMMA LoopInvAlways == Spec => []LoopInv
BY InitIsScanning, LoopInvIsInductive, PTL DEF Spec

-------------------------------------------------------------------------------
(* The results *)

(* The do-while and for loops of the three select functions return what the
   set definitions of Scheduling say, for every size of the thread table. *)
THEOREM ScansAreRight == Spec => []LoopsMatchOperators
<1>1. LoopInv => LoopsMatchOperators
  BY DEF LoopInv
<1>. QED  BY <1>1, LoopInvAlways, PTL

(* The priority scan selects what round robin would, whatever the size of the
   table and the priorities in it. *)
THEOREM PrioritiesDecideNothing == Spec => []PriorityIsRoundRobin
<1>1. LoopInv => PriorityIsRoundRobin
  <2>. SUFFICES ASSUME LoopInv, at \in {"account", "done"},
                       algorithm = "PriorityBased"
                PROVE  {selected} = RoundRobinSelect(state, gt_current)
    BY DEF PriorityIsRoundRobin
  <2>1. {selected} = PriorityBasedSelect(state, gt_current)
    BY DEF LoopInv, LoopsMatchOperators
  <2>2. OtherReady(state, gt_current) = {} => state[gt_current] # "Blocked"
    <3>1. CASE gt_current = Main
      BY <3>1 DEF LoopInv, MainCanRun
    <3>2. CASE gt_current # Main
      BY <3>2, MainIsAThread DEF LoopInv, MainCanRun, OtherReady
    <3>. QED  BY <3>1, <3>2
  <2>. QED  BY <2>1, <2>2 DEF PriorityBasedSelect, RoundRobinSelect
<1>. QED  BY <1>1, LoopInvAlways, PTL

(* A call of gt_schedule leaves every priority as it found it. *)
THEOREM BoostIsTakenBack == Spec => []NoBoostSurvives
<1>1. LoopInv => NoBoostSurvives
  BY DEF LoopInv
<1>. QED  BY <1>1, LoopInvAlways, PTL
===============================================================================
