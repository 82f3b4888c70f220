--------------------------- MODULE GThreadStatsProofs -------------------------
(***************************************************************************)
(* The statistics of GThreadStats are exact, or wrong in one way only, for *)
(* every number of threads, every algorithm and every length of a run.     *)
(*                                                                         *)
(* The argument is a relation between the record of one thread, the time   *)
(* it really spent and its state; each of the updates keeps it for the     *)
(* thread it is about.  What GThreadProofs shows of the scheduler says in  *)
(* which state that thread is.                                             *)
(***************************************************************************)
EXTENDS GThreadStats, GThreadProofs

Stats == [last_run : Nat, last_ready : Nat, total_runtime : Nat,
          total_waittime : Nat, sum_waittime : Nat]
Spent == [running : Nat, ready : Nat]

(* What gt_print_stats shows for a thread with the statistics s in state st. *)
Runtime(s, st, n) ==
    s.total_runtime + (IF st = "Running" THEN n - s.last_run ELSE 0)

Waittime(s, st, n) ==
    s.total_waittime + (IF st = "Ready" THEN n - s.last_ready ELSE 0)

Exact(s, x, st, n) ==
    /\ s.last_run <= n /\ s.last_ready <= n
    /\ s.sum_waittime + (IF st = "Ready" THEN n - s.last_ready ELSE 0) = x.ready

(***************************************************************************)
(* The statistics s of a thread in state st agree at time n with the time  *)
(* x it really spent.  charged says that gt_return has charged its last    *)
(* slice: then the thread may stop without losing any time.                *)
(***************************************************************************)
Accounted(s, x, st, n, charged) ==
    LET run  == Runtime(s, st, n)
        wait == Waittime(s, st, n)
    IN  /\ st = "Running" => s.last_ready <= s.last_run
        /\ s.sum_waittime <= s.total_waittime
        /\ run + wait >= x.running + x.ready
        /\ ~ charged =>
              /\ run <= x.running
              /\ s.total_waittime = s.sum_waittime =>
                     run = x.running /\ wait = x.ready
        /\ charged /\ st = "Running" =>
              s.total_runtime + s.total_waittime >= x.running + x.ready

(* A thread that gt_sem_wait blocks for lack of memory is not charged. *)
Sound(s, x, st, n, charged) ==
    /\ s \in Stats /\ x \in Spent
    /\ Exact(s, x, st, n)
    /\ ~MallocMayFail => Accounted(s, x, st, n, charged)

AllSound ==
    \A t \in Threads : Sound(stats[t], spent[t], state[t], now, t \in leaving)

StatsTypes ==
    /\ now \in Nat /\ leaving \subseteq Threads
    /\ stats \in [Threads -> Stats] /\ spent \in [Threads -> Spent]

(* A thread that has charged its last slice is in gt_return. *)
LeavingReturn ==
    \A t \in leaving : pc[t] \in {"top", "stopped", "gone"}

(* The slots that are free while main creates threads have never been used. *)
FreshSlots ==
    pc[Main] = "create" =>
        \A t \in Threads : state[t] = "Unused" => spent[t] = [running |-> 0, ready |-> 0]

(* What is known of the scheduler as long as every draw succeeds. *)
Scheduled ==
    ReturnInv /\ (current_algorithm = "LotteryScheduling" => TicketInv)

StatsInv ==
    /\ CreationComesFirst
    /\ DrawsSucceed =>
          Scheduled /\ StatsTypes /\ LeavingReturn /\ FreshSlots /\ AllSound

-------------------------------------------------------------------------------
(* The updates of one record *)

LEMMA Numbers ==
    ASSUME NEW s, NEW x, NEW st, NEW n, NEW charged, Sound(s, x, st, n, charged)
    PROVE  /\ s.last_run \in Nat /\ s.last_ready \in Nat
           /\ s.total_runtime \in Nat /\ s.total_waittime \in Nat
           /\ s.sum_waittime \in Nat /\ s \in Stats
           /\ x.running \in Nat /\ x.ready \in Nat /\ x \in Spent
BY DEF Sound, Stats, Spent

(* Time passes. *)
LEMMA TimePasses ==
    ASSUME NEW s, NEW x, NEW st, NEW n \in Nat, NEW charged \in BOOLEAN,
           Sound(s, x, st, n, charged), ~(charged /\ st = "Running")
    PROVE  Sound(s, [running |-> x.running + (IF st = "Running" THEN 1 ELSE 0),
                     ready   |-> x.ready + (IF st = "Ready" THEN 1 ELSE 0)],
                 st, n + 1, charged)
<1>. DEFINE y == [running |-> x.running + (IF st = "Running" THEN 1 ELSE 0),
                  ready   |-> x.ready + (IF st = "Ready" THEN 1 ELSE 0)]
<1>1. /\ s.last_run \in Nat /\ s.last_ready \in Nat /\ s.total_runtime \in Nat
      /\ s.total_waittime \in Nat /\ s.sum_waittime \in Nat
      /\ x.running \in Nat /\ x.ready \in Nat /\ s \in Stats
  BY Numbers
<1>2. /\ y \in Spent
      /\ y.running = x.running + (IF st = "Running" THEN 1 ELSE 0)
      /\ y.ready = x.ready + (IF st = "Ready" THEN 1 ELSE 0)
  BY <1>1 DEF Spent
<1>. HIDE DEF y
<1>3. Exact(s, y, st, n + 1)
  BY <1>1, <1>2 DEF Sound, Exact
<1>4. ASSUME Accounted(s, x, st, n, charged)
      PROVE  Accounted(s, y, st, n + 1, charged)
  BY <1>1, <1>2, <1>4 DEF Accounted, Runtime, Waittime, Sound, Exact
<1>. QED  BY <1>1, <1>2, <1>3, <1>4 DEF Sound, y

(* A Running thread loses the CPU and becomes Ready: update_runtime_stats and
   the first assignment of prepare_for_switch. *)
LEMMA LosesCPU ==
    ASSUME NEW s, NEW x, NEW n \in Nat, NEW charged \in BOOLEAN,
           Sound(s, x, "Running", n, charged),
           NEW r \in Stats,
           r.last_run = s.last_run, r.last_ready = n,
           r.total_runtime = s.total_runtime + n - s.last_run,
           r.total_waittime = s.total_waittime, r.sum_waittime = s.sum_waittime
    PROVE  Sound(r, x, "Ready", n, charged)
<1>1. /\ s.last_run \in Nat /\ s.last_ready \in Nat /\ s.total_runtime \in Nat
      /\ s.total_waittime \in Nat /\ s.sum_waittime \in Nat
      /\ x.running \in Nat /\ x.ready \in Nat
  BY Numbers
<1>2. Exact(r, x, "Ready", n)
  BY <1>1 DEF Sound, Exact
<1>3. ASSUME Accounted(s, x, "Running", n, charged)
      PROVE  Accounted(r, x, "Ready", n, charged)
  BY <1>1, <1>3 DEF Accounted, Runtime, Waittime, Sound, Exact
<1>. QED  BY <1>2, <1>3 DEF Sound

(* A Ready thread is switched to: update_waittime_stats and the second
   assignment of prepare_for_switch. *)
LEMMA GetsCPU ==
    ASSUME NEW s, NEW x, NEW n \in Nat, NEW charged \in BOOLEAN,
           Sound(s, x, "Ready", n, charged),
           NEW r \in Stats,
           r.last_run = n, r.last_ready = s.last_ready,
           r.total_runtime = s.total_runtime,
           r.total_waittime = s.total_waittime + (n - s.last_ready),
           r.sum_waittime = s.sum_waittime + (n - s.last_ready)
    PROVE  Sound(r, x, "Running", n, charged)
<1>1. /\ s.last_run \in Nat /\ s.last_ready \in Nat /\ s.total_runtime \in Nat
      /\ s.total_waittime \in Nat /\ s.sum_waittime \in Nat
      /\ x.running \in Nat /\ x.ready \in Nat
  BY Numbers
<1>2. Exact(r, x, "Running", n)
  BY <1>1 DEF Sound, Exact
<1>3. ASSUME Accounted(s, x, "Ready", n, charged)
      PROVE  Accounted(r, x, "Running", n, charged)
  BY <1>1, <1>3 DEF Accounted, Runtime, Waittime, Sound, Exact
<1>. QED  BY <1>2, <1>3 DEF Sound

(* gt_sem_wait blocks a Running thread and charges it as waiting, from the time
   at which it became ready, which is not after its slice started. *)
LEMMA BeginsToWait ==
    ASSUME NEW s, NEW x, NEW n \in Nat,
           Sound(s, x, "Running", n, FALSE),
           NEW r \in Stats,
           r.last_run = s.last_run, r.last_ready = s.last_ready,
           r.total_runtime = s.total_runtime,
           r.total_waittime = s.total_waittime + n - s.last_ready,
           r.sum_waittime = s.sum_waittime
    PROVE  Sound(r, x, "Blocked", n, FALSE)
<1>1. /\ s.last_run \in Nat /\ s.last_ready \in Nat /\ s.total_runtime \in Nat
      /\ s.total_waittime \in Nat /\ s.sum_waittime \in Nat
      /\ x.running \in Nat /\ x.ready \in Nat
  BY Numbers
<1>2. Exact(r, x, "Blocked", n)
  BY <1>1 DEF Sound, Exact
<1>3. ASSUME Accounted(s, x, "Running", n, FALSE)
      PROVE  Accounted(r, x, "Blocked", n, FALSE)
  BY <1>1, <1>3 DEF Accounted, Runtime, Waittime, Sound, Exact
<1>. QED  BY <1>2, <1>3 DEF Sound

(* gt_sem_post makes a Blocked thread Ready. *)
LEMMA IsWoken ==
    ASSUME NEW s, NEW x, NEW n \in Nat, NEW charged \in BOOLEAN,
           Sound(s, x, "Blocked", n, charged),
           NEW r \in Stats,
           r.last_run = s.last_run, r.last_ready = n,
           r.total_runtime = s.total_runtime,
           r.total_waittime = s.total_waittime, r.sum_waittime = s.sum_waittime
    PROVE  Sound(r, x, "Ready", n, charged)
<1>1. /\ s.last_run \in Nat /\ s.last_ready \in Nat /\ s.total_runtime \in Nat
      /\ s.total_waittime \in Nat /\ s.sum_waittime \in Nat
      /\ x.running \in Nat /\ x.ready \in Nat
  BY Numbers
<1>2. Exact(r, x, "Ready", n)
  BY <1>1 DEF Sound, Exact
<1>3. ASSUME Accounted(s, x, "Blocked", n, charged)
      PROVE  Accounted(r, x, "Ready", n, charged)
  BY <1>1, <1>3 DEF Accounted, Runtime, Waittime, Sound, Exact
<1>. QED  BY <1>2, <1>3 DEF Sound

(* gt_return charges the last slice. *)
LEMMA ChargesSlice ==
    ASSUME NEW s, NEW x, NEW n \in Nat,
           Sound(s, x, "Running", n, FALSE),
           NEW r \in Stats,
           r.last_run = s.last_run, r.last_ready = s.last_ready,
           r.total_runtime = s.total_runtime + n - s.last_run,
           r.total_waittime = s.total_waittime, r.sum_waittime = s.sum_waittime
    PROVE  Sound(r, x, "Running", n, TRUE)
<1>1. /\ s.last_run \in Nat /\ s.last_ready \in Nat /\ s.total_runtime \in Nat
      /\ s.total_waittime \in Nat /\ s.sum_waittime \in Nat
      /\ x.running \in Nat /\ x.ready \in Nat
  BY Numbers
<1>2. Exact(r, x, "Running", n)
  BY <1>1 DEF Sound, Exact
<1>3. ASSUME Accounted(s, x, "Running", n, FALSE)
      PROVE  Accounted(r, x, "Running", n, TRUE)
  BY <1>1, <1>3 DEF Accounted, Runtime, Waittime, Sound, Exact
<1>. QED  BY <1>2, <1>3 DEF Sound

(* A Running thread stops after that, or blocks because malloc has failed. *)
LEMMA StopsRunning ==
    ASSUME NEW s, NEW x, NEW n \in Nat, NEW charged \in BOOLEAN,
           NEW st \in {"Unused", "Blocked"},
           charged \/ MallocMayFail, Sound(s, x, "Running", n, charged)
    PROVE  Sound(s, x, st, n, charged)
<1>1. /\ s.last_run \in Nat /\ s.last_ready \in Nat /\ s.total_runtime \in Nat
      /\ s.total_waittime \in Nat /\ s.sum_waittime \in Nat
      /\ x.running \in Nat /\ x.ready \in Nat
  BY Numbers
<1>2. Exact(s, x, st, n)
  BY <1>1 DEF Sound, Exact
<1>3. ASSUME charged, Accounted(s, x, "Running", n, charged)
      PROVE  Accounted(s, x, st, n, charged)
  BY <1>1, <1>3 DEF Accounted, Runtime, Waittime, Sound, Exact
<1>. QED  BY <1>2, <1>3 DEF Sound

(* gt_init_stats, for a slot that has never been used. *)
LEMMA StartsAtZero ==
    ASSUME now \in Nat, NEW st, NEW charged \in BOOLEAN
    PROVE  Sound(gt_init_stats, [running |-> 0, ready |-> 0], st, now, charged)
<1>1. /\ gt_init_stats \in Stats
      /\ gt_init_stats.last_run = now /\ gt_init_stats.last_ready = now
      /\ gt_init_stats.total_runtime = 0 /\ gt_init_stats.total_waittime = 0
      /\ gt_init_stats.sum_waittime = 0
  BY DEF gt_init_stats, Zeroed, Stats
<1>2. [running |-> 0, ready |-> 0] \in Spent
  BY DEF Spent
<1>. HIDE DEF gt_init_stats
<1>. QED  BY <1>1, <1>2 DEF Sound, Exact, Accounted, Runtime, Waittime

-------------------------------------------------------------------------------
(* The scheduler underneath *)

(* Statistics are kept beside the steps of GThread, never instead of them. *)
LEMMA StatsStepsAreSteps == [StatsNext]_statsVars => [Next]_vars
<1>1. Tick => UNCHANGED vars
  BY DEF Tick
<1>2. FailedAlarm => UNCHANGED vars
  BY DEF FailedAlarm
<1>3. \A t \in Threads : ReturnCharges(t) => UNCHANGED vars
  BY DEF ReturnCharges
<1>4. GtSchedule => Next
  BY MainIsThread DEF GtSchedule, Next, Step
<1>5. Create => Next
  BY MainIsThread DEF Create, Next, Step
<1>6. ASSUME NEW t \in Threads, Wait(t) \/ Post(t) \/ ReturnStops(t) \/ Uncounted(t)
      PROVE  Next
  BY <1>6, MainIsThread DEF Wait, Post, ReturnStops, Uncounted, Next, Step
<1>7. UNCHANGED statsVars => UNCHANGED vars
  BY DEF statsVars
<1>. QED
  BY <1>1, <1>2, <1>3, <1>4, <1>5, <1>6, <1>7 DEF StatsNext

LEMMA StatsRunIsRun == StatsSpec => Spec
<1>1. StatsInit => Init
  BY DEF StatsInit
<1>. QED  BY <1>1, StatsStepsAreSteps, PTL DEF StatsSpec, Spec

(* What the scheduler keeps as long as no draw may fail. *)
LEMMA ScheduledIsKept ==
    ASSUME TypeOK, TypeOK', OneRunner, UnusedIsIdle, Scheduled,
           DrawsSucceed', [Next]_vars
    PROVE  Known /\ Scheduled' /\ [FinishedStay]_vars
<1>1. Known
  BY TicketInvPartitions DEF Known, LotteryIsFair, Scheduled
<1>2. ReturnInv' /\ [FinishedStay]_vars
  BY <1>1, ReturnInvIsKept DEF Scheduled
<1>3. ASSUME current_algorithm' = "LotteryScheduling"  PROVE TicketInv'
  <2>1. ASSUME NEW t \in Threads, gt_return(t)  PROVE FALSE
    <3>1. pc'[t] = "stopped"
      BY <2>1 DEF gt_return, Goto, TypeOK
    <3>. QED  BY <1>3, <3>1 DEF DrawsSucceed, NobodyHasFinished
  <2>2. TicketInv
    BY <1>3, SameAlgorithm DEF Scheduled
  <2>. QED  BY <2>1, <2>2, TicketsAreKept
<1>. QED  BY <1>1, <1>2, <1>3 DEF Scheduled

-------------------------------------------------------------------------------
(* The updates of the table *)

LEMMA Fields ==
    \A r \in Stats : /\ r.last_run \in Nat /\ r.last_ready \in Nat
                     /\ r.total_runtime \in Nat /\ r.total_waittime \in Nat
                     /\ r.sum_waittime \in Nat
BY DEF Stats

(* One entry is replaced. *)
LEMMA OneEntry ==
    ASSUME NEW f \in [Threads -> Stats], NEW c \in Threads, NEW r \in Stats,
           NEW g, g = [f EXCEPT ![c] = r]
    PROVE  /\ g \in [Threads -> Stats] /\ g[c] = r
           /\ \A u \in Threads \ {c} : g[u] = f[u]
OBVIOUS

LEMMA RuntimeUpdate ==
    ASSUME NEW f \in [Threads -> Stats], NEW c \in Threads, now \in Nat,
           f[c].last_run <= now, state[c] = "Running",
           NEW g, g = update_runtime_stats(f, c)
    PROVE  /\ g \in [Threads -> Stats]
           /\ \A u \in Threads \ {c} : g[u] = f[u]
           /\ g[c].last_run = f[c].last_run /\ g[c].last_ready = f[c].last_ready
           /\ g[c].total_runtime = f[c].total_runtime + now - f[c].last_run
           /\ g[c].total_waittime = f[c].total_waittime
           /\ g[c].sum_waittime = f[c].sum_waittime
<1>. DEFINE v == f[c].total_runtime + now - f[c].last_run
            r == [f[c] EXCEPT !.total_runtime = v]
<1>1. v \in Nat
  BY Fields
<1>2. g = [f EXCEPT ![c] = r]
  BY DEF update_runtime_stats
<1>. HIDE DEF v
<1>3. /\ r \in Stats /\ r.total_runtime = v
      /\ r.last_run = f[c].last_run /\ r.last_ready = f[c].last_ready
      /\ r.total_waittime = f[c].total_waittime
      /\ r.sum_waittime = f[c].sum_waittime
  BY <1>1 DEF Stats
<1>. HIDE DEF r
<1>4. /\ g \in [Threads -> Stats] /\ g[c] = r
      /\ \A u \in Threads \ {c} : g[u] = f[u]
  BY <1>2, <1>3, OneEntry
<1>. QED  BY <1>3, <1>4 DEF v

LEMMA WaittimeUpdate ==
    ASSUME NEW f \in [Threads -> Stats], NEW c \in Threads, now \in Nat,
           f[c].last_ready <= now, state[c] = "Ready",
           NEW g, g = update_waittime_stats(f, c)
    PROVE  /\ g \in [Threads -> Stats]
           /\ \A u \in Threads \ {c} : g[u] = f[u]
           /\ g[c].last_run = f[c].last_run /\ g[c].last_ready = f[c].last_ready
           /\ g[c].total_runtime = f[c].total_runtime
           /\ g[c].total_waittime = f[c].total_waittime + (now - f[c].last_ready)
           /\ g[c].sum_waittime = f[c].sum_waittime + (now - f[c].last_ready)
<1>. DEFINE w     == now - f[c].last_ready
            total == f[c].total_waittime + w
            sum   == f[c].sum_waittime + w
            r     == [f[c] EXCEPT !.total_waittime = total, !.sum_waittime = sum]
<1>1. total \in Nat /\ sum \in Nat
  BY Fields
<1>2. g = [f EXCEPT ![c] = r]
  BY DEF update_waittime_stats
<1>. HIDE DEF total, sum
<1>3. /\ r \in Stats
      /\ r.last_run = f[c].last_run /\ r.last_ready = f[c].last_ready
      /\ r.total_runtime = f[c].total_runtime
      /\ r.total_waittime = total /\ r.sum_waittime = sum
  BY <1>1 DEF Stats
<1>. HIDE DEF r
<1>4. /\ g \in [Threads -> Stats] /\ g[c] = r
      /\ \A u \in Threads \ {c} : g[u] = f[u]
  BY <1>2, <1>3, OneEntry
<1>. QED  BY <1>3, <1>4 DEF total, sum

LEMMA SwitchUpdate ==
    ASSUME NEW f \in [Threads -> Stats], gt_current \in Threads, now \in Nat,
           NEW c \in Threads, NEW g, g = prepare_for_switch(f, c)
    PROVE  /\ g \in [Threads -> Stats]
           /\ \A u \in Threads :
                 /\ g[u].last_run = IF u = c THEN now ELSE f[u].last_run
                 /\ g[u].last_ready =
                       IF u = gt_current /\ state[u] \notin {"Unused", "Blocked"}
                       THEN now ELSE f[u].last_ready
                 /\ g[u].total_runtime = f[u].total_runtime
                 /\ g[u].total_waittime = f[u].total_waittime
                 /\ g[u].sum_waittime = f[u].sum_waittime
           /\ \A u \in Threads \ {c, gt_current} : g[u] = f[u]
           /\ state[gt_current] \in {"Unused", "Blocked"} /\ gt_current # c
                 => g[gt_current] = f[gt_current]
<1>. DEFINE d == gt_current
            l == IF state[d] \in {"Unused", "Blocked"} THEN f[d].last_ready ELSE now
            r == [f[d] EXCEPT !.last_ready = l]
            h == [f EXCEPT ![d] = r]
            q == [h[c] EXCEPT !.last_run = now]
<1>1. l \in Nat
  BY Fields
<1>2. g = [h EXCEPT ![c] = q]
  BY DEF prepare_for_switch
<1>. HIDE DEF l
<1>3. /\ r \in Stats /\ r.last_ready = l
      /\ r.last_run = f[d].last_run
      /\ r.total_runtime = f[d].total_runtime
      /\ r.total_waittime = f[d].total_waittime
      /\ r.sum_waittime = f[d].sum_waittime
      /\ l = f[d].last_ready => r = f[d]
  BY <1>1 DEF Stats
<1>. HIDE DEF r
<1>4. /\ h \in [Threads -> Stats] /\ h[d] = r
      /\ \A u \in Threads \ {d} : h[u] = f[u]
  BY <1>3, OneEntry
<1>. HIDE DEF h
<1>5. /\ q \in Stats /\ q.last_run = now
      /\ q.last_ready = h[c].last_ready
      /\ q.total_runtime = h[c].total_runtime
      /\ q.total_waittime = h[c].total_waittime
      /\ q.sum_waittime = h[c].sum_waittime
  BY <1>4 DEF Stats
<1>. HIDE DEF q
<1>6. /\ g \in [Threads -> Stats] /\ g[c] = q
      /\ \A u \in Threads \ {c} : g[u] = h[u]
  BY <1>2, <1>4, <1>5, OneEntry
<1>7. ASSUME NEW u \in Threads
      PROVE  /\ g[u].last_run = IF u = c THEN now ELSE f[u].last_run
             /\ g[u].last_ready = IF u = d THEN l ELSE f[u].last_ready
             /\ g[u].total_runtime = f[u].total_runtime
             /\ g[u].total_waittime = f[u].total_waittime
             /\ g[u].sum_waittime = f[u].sum_waittime
  BY <1>3, <1>4, <1>5, <1>6
<1>8. /\ \A u \in Threads \ {c, d} : g[u] = f[u]
      /\ l = f[d].last_ready /\ d # c => g[d] = f[d]
  BY <1>3, <1>4, <1>6
<1>. QED  BY <1>6, <1>7, <1>8 DEF l

-------------------------------------------------------------------------------
(* The steps *)

Books == StatsTypes /\ LeavingReturn /\ FreshSlots /\ AllSound

(* A step is about one thread. *)
LEMMA OthersStaySound ==
    ASSUME AllSound, NEW t \in Threads, UNCHANGED <<spent, now>>,
           \A u \in Threads \ {t} :
              /\ stats'[u] = stats[u] /\ state'[u] = state[u]
              /\ u \in leaving' <=> u \in leaving,
           Sound(stats'[t], spent[t], state'[t], now, t \in leaving')
    PROVE  AllSound'
<1>. SUFFICES ASSUME NEW u \in Threads
              PROVE  Sound(stats'[u], spent'[u], state'[u], now', u \in leaving')
  BY DEF AllSound
<1>1. CASE u = t
  BY <1>1
<1>2. CASE u # t
  <2>1. (u \in leaving') = (u \in leaving)
    BY <1>2
  <2>2. Sound(stats[u], spent[u], state[u], now, u \in leaving)
    BY DEF AllSound
  <2>. QED  BY <1>2, <2>1, <2>2
<1>. QED  BY <1>1, <1>2

LEMMA TickKeepsBooks ==
    ASSUME Known, Scheduled, Books, Tick
    PROVE  Books'
<1>1. now \in Nat /\ now' = now + 1 /\ UNCHANGED <<vars, stats, leaving>>
  BY DEF Tick, Books, StatsTypes
<1>2. UNCHANGED <<state, pc>>
  BY <1>1 DEF vars
<1>3. ASSUME NEW t \in Threads
      PROVE  Sound(stats[t], spent'[t], state[t], now + 1, t \in leaving)
  <2>1. ~(t \in leaving /\ state[t] = "Running")
    BY DEF Known, OneRunner, Books, LeavingReturn, Scheduled, ReturnInv,
           IdleIsUnused, Tick
  <2>2. Sound(stats[t], spent[t], state[t], now, t \in leaving)
    BY DEF Books, AllSound
  <2>3. spent'[t] =
           [running |-> spent[t].running + (IF state[t] = "Running" THEN 1 ELSE 0),
            ready   |-> spent[t].ready + (IF state[t] = "Ready" THEN 1 ELSE 0)]
    BY DEF Tick
  <2>4. (t \in leaving) \in BOOLEAN
    OBVIOUS
  <2>. QED  BY <1>1, <2>1, <2>2, <2>3, <2>4, TimePasses
<1>4. AllSound'
  BY <1>1, <1>2, <1>3 DEF AllSound
<1>5. StatsTypes'
  <2>1. \A t \in Threads : spent'[t] \in Spent
    BY <1>3 DEF Sound
  <2>2. spent' = [t \in Threads |-> spent'[t]]
    BY DEF Tick
  <2>. QED  BY <1>1, <2>1, <2>2 DEF Books, StatsTypes
<1>6. FreshSlots'
  <2>. SUFFICES ASSUME NEW t \in Threads, pc[Main] = "create", state[t] = "Unused"
                PROVE  spent'[t] = [running |-> 0, ready |-> 0]
    BY <1>2 DEF FreshSlots
  <2>1. spent[t] = [running |-> 0, ready |-> 0]
    BY DEF Books, FreshSlots
  <2>. QED  BY <2>1 DEF Tick
<1>. QED  BY <1>1, <1>2, <1>4, <1>5, <1>6 DEF Books, LeavingReturn

(* gt_schedule: the thread that loses the CPU and the one that gets it. *)
LEMMA SelectKeepsSound ==
    ASSUME Known, Scheduled, Books, Selects, UNCHANGED <<now, spent, leaving>>
    PROVE  AllSound' /\ stats' \in [Threads -> Stats]
<1>. DEFINE c == gt_current
            s == gt_current'
            f == update_runtime_stats(stats, c)
            g == update_waittime_stats(f, s)
<1>1. s \in Picks /\ Switch(s) /\ stats' = prepare_for_switch(g, s)
  BY DEF Selects
<1>2. /\ now \in Nat /\ c \in Threads /\ stats \in [Threads -> Stats]
      /\ TypeOK
  BY DEF Known, TypeOK, Books, StatsTypes
<1>3. s \in Threads /\ state[s] \in {"Ready", "Running"}
  BY <1>1, PicksCanRun DEF Scheduled, ReturnInv
<1>4. /\ state[s] = "Running" => s = c
      /\ state[c] \in {"Running", "Blocked", "Unused"}
  BY <1>3 DEF Known, OneRunner, Scheduled, ReturnInv, CurrentExecutes
<1>5. \A u \in Threads :
         state'[u] = IF u = s THEN "Running"
                     ELSE IF u = c /\ state[u] \notin {"Unused", "Blocked"}
                          THEN "Ready" ELSE state[u]
  BY <1>1, <1>2, <1>3, SwitchEffect DEF TypeOK
<1>. HIDE DEF f, g, c, s
<1>6. ASSUME NEW u \in Threads
      PROVE  /\ Sound(stats[u], spent[u], state[u], now, u \in leaving)
             /\ stats[u].last_run <= now /\ stats[u].last_ready <= now
             /\ (u \in leaving) \in BOOLEAN
  BY DEF Books, AllSound, Sound, Exact
<1>7. CASE s = c
  <2>1. state[c] = "Running"
    BY <1>3, <1>4, <1>7
  <2>2. /\ f \in [Threads -> Stats]
        /\ \A u \in Threads \ {c} : f[u] = stats[u]
        /\ f[c].last_run = stats[c].last_run /\ f[c].last_ready = stats[c].last_ready
        /\ f[c].total_runtime = stats[c].total_runtime + now - stats[c].last_run
        /\ f[c].total_waittime = stats[c].total_waittime
        /\ f[c].sum_waittime = stats[c].sum_waittime
    BY <1>2, <1>6, <2>1, RuntimeUpdate DEF f
  <2>3. g = f
    BY <1>7, <2>1 DEF g, update_waittime_stats
  <2>4. /\ stats' \in [Threads -> Stats]
        /\ \A u \in Threads :
              /\ stats'[u].last_run = IF u = s THEN now ELSE f[u].last_run
              /\ stats'[u].last_ready =
                    IF u = c /\ state[u] \notin {"Unused", "Blocked"}
                    THEN now ELSE f[u].last_ready
              /\ stats'[u].total_runtime = f[u].total_runtime
              /\ stats'[u].total_waittime = f[u].total_waittime
              /\ stats'[u].sum_waittime = f[u].sum_waittime
        /\ \A u \in Threads \ {s, c} : stats'[u] = f[u]
    BY <1>1, <1>2, <1>3, <2>2, <2>3, SwitchUpdate DEF c
  <2>5. /\ stats'[c] \in Stats
        /\ stats'[c].last_run = now /\ stats'[c].last_ready = now
        /\ stats'[c].total_runtime = stats[c].total_runtime + now - stats[c].last_run
        /\ stats'[c].total_waittime = stats[c].total_waittime
        /\ stats'[c].sum_waittime = stats[c].sum_waittime
    BY <1>2, <1>7, <2>1, <2>2, <2>4
  <2>6. Sound(stats'[c], spent[c], "Running", now, c \in leaving)
    <3>1. /\ Sound(stats[c], spent[c], "Running", now, c \in leaving)
          /\ (c \in leaving) \in BOOLEAN
      BY <1>2, <1>6, <2>1
    <3>. DEFINE r == [stats'[c] EXCEPT !.last_run = stats[c].last_run]
    <3>2. /\ r \in Stats
          /\ r.last_run = stats[c].last_run /\ r.last_ready = now
          /\ r.total_runtime = stats[c].total_runtime + now - stats[c].last_run
          /\ r.total_waittime = stats[c].total_waittime
          /\ r.sum_waittime = stats[c].sum_waittime
      BY <1>2, <2>5 DEF Stats
    <3>. HIDE DEF r
    <3>3. Sound(r, spent[c], "Ready", now, c \in leaving)
      BY <1>2, <3>1, <3>2, LosesCPU
    <3>4. /\ stats'[c].total_waittime = r.total_waittime + (now - r.last_ready)
          /\ stats'[c].sum_waittime = r.sum_waittime + (now - r.last_ready)
          /\ stats'[c].last_ready = r.last_ready
          /\ stats'[c].total_runtime = r.total_runtime
          /\ stats'[c].last_run = now /\ stats'[c] \in Stats
          /\ (c \in leaving) \in BOOLEAN
      BY <1>2, <2>5, <3>2, Fields
    <3>. QED  BY <1>2, <3>3, <3>4, GetsCPU
  <2>7. /\ state'[c] = "Running" /\ \A u \in Threads \ {c} : state'[u] = state[u]
        /\ \A u \in Threads \ {c} : stats'[u] = stats[u]
    BY <1>2, <1>5, <1>7, <2>2, <2>4
  <2>. QED  BY <1>2, <2>4, <2>6, <2>7, OthersStaySound DEF Books
<1>8. CASE s # c /\ state[c] = "Running"
  <2>1. state[s] = "Ready"
    BY <1>3, <1>4, <1>8
  <2>2. /\ f \in [Threads -> Stats]
        /\ \A u \in Threads \ {c} : f[u] = stats[u]
        /\ f[c].last_run = stats[c].last_run /\ f[c].last_ready = stats[c].last_ready
        /\ f[c].total_runtime = stats[c].total_runtime + now - stats[c].last_run
        /\ f[c].total_waittime = stats[c].total_waittime
        /\ f[c].sum_waittime = stats[c].sum_waittime
    BY <1>2, <1>6, <1>8, RuntimeUpdate DEF f
  <2>3. f[s] = stats[s] /\ stats[s].last_ready <= now
    BY <1>3, <1>6, <1>8, <2>2
  <2>4. /\ g \in [Threads -> Stats]
        /\ \A u \in Threads \ {s} : g[u] = f[u]
        /\ g[s].last_run = f[s].last_run /\ g[s].last_ready = f[s].last_ready
        /\ g[s].total_runtime = f[s].total_runtime
        /\ g[s].total_waittime = f[s].total_waittime + (now - f[s].last_ready)
        /\ g[s].sum_waittime = f[s].sum_waittime + (now - f[s].last_ready)
    BY <1>2, <1>3, <2>1, <2>2, <2>3, WaittimeUpdate DEF g
  <2>5. /\ stats' \in [Threads -> Stats]
        /\ \A u \in Threads :
              /\ stats'[u].last_run = IF u = s THEN now ELSE g[u].last_run
              /\ stats'[u].last_ready =
                    IF u = c /\ state[u] \notin {"Unused", "Blocked"}
                    THEN now ELSE g[u].last_ready
              /\ stats'[u].total_runtime = g[u].total_runtime
              /\ stats'[u].total_waittime = g[u].total_waittime
              /\ stats'[u].sum_waittime = g[u].sum_waittime
        /\ \A u \in Threads \ {s, c} : stats'[u] = g[u]
    BY <1>1, <1>2, <1>3, <2>4, SwitchUpdate DEF c
  <2>6. Sound(stats'[c], spent[c], "Ready", now, c \in leaving)
    <3>1. /\ stats'[c] \in Stats
          /\ stats'[c].last_run = stats[c].last_run /\ stats'[c].last_ready = now
          /\ stats'[c].total_runtime = stats[c].total_runtime + now - stats[c].last_run
          /\ stats'[c].total_waittime = stats[c].total_waittime
          /\ stats'[c].sum_waittime = stats[c].sum_waittime
      BY <1>2, <1>8, <2>2, <2>4, <2>5
    <3>2. /\ Sound(stats[c], spent[c], "Running", now, c \in leaving)
          /\ (c \in leaving) \in BOOLEAN
      BY <1>2, <1>6, <1>8
    <3>. QED  BY <1>2, <3>1, <3>2, LosesCPU
  <2>7. Sound(stats'[s], spent[s], "Running", now, s \in leaving)
    <3>1. /\ stats'[s] \in Stats
          /\ stats'[s].last_run = now /\ stats'[s].last_ready = stats[s].last_ready
          /\ stats'[s].total_runtime = stats[s].total_runtime
          /\ stats'[s].total_waittime
                 = stats[s].total_waittime + (now - stats[s].last_ready)
          /\ stats'[s].sum_waittime
                 = stats[s].sum_waittime + (now - stats[s].last_ready)
      BY <1>3, <1>8, <2>3, <2>4, <2>5
    <3>2. /\ Sound(stats[s], spent[s], "Ready", now, s \in leaving)
          /\ (s \in leaving) \in BOOLEAN
      BY <1>3, <1>6, <2>1
    <3>. QED  BY <1>2, <3>1, <3>2, GetsCPU
  <2>8. ASSUME NEW u \in Threads
        PROVE  Sound(stats'[u], spent[u], state'[u], now, u \in leaving)
    <3>1. CASE u = c
      BY <1>2, <1>5, <1>8, <2>6, <3>1
    <3>2. CASE u = s
      BY <1>3, <1>5, <2>7, <3>2
    <3>3. CASE u \notin {c, s}
      BY <1>5, <1>6, <2>2, <2>4, <2>5, <3>3
    <3>. QED  BY <3>1, <3>2, <3>3
  <2>. QED  BY <2>5, <2>8 DEF AllSound
<1>9. CASE s # c /\ state[c] \in {"Blocked", "Unused"}
  <2>1. state[s] = "Ready" /\ f = stats
    BY <1>3, <1>4, <1>9 DEF f, update_runtime_stats
  <2>2. /\ g \in [Threads -> Stats]
        /\ \A u \in Threads \ {s} : g[u] = f[u]
        /\ g[s].last_run = f[s].last_run /\ g[s].last_ready = f[s].last_ready
        /\ g[s].total_runtime = f[s].total_runtime
        /\ g[s].total_waittime = f[s].total_waittime + (now - f[s].last_ready)
        /\ g[s].sum_waittime = f[s].sum_waittime + (now - f[s].last_ready)
    BY <1>2, <1>3, <1>6, <2>1, WaittimeUpdate DEF g
  <2>3. /\ stats' \in [Threads -> Stats]
        /\ \A u \in Threads :
              /\ stats'[u].last_run = IF u = s THEN now ELSE g[u].last_run
              /\ stats'[u].last_ready =
                    IF u = c /\ state[u] \notin {"Unused", "Blocked"}
                    THEN now ELSE g[u].last_ready
              /\ stats'[u].total_runtime = g[u].total_runtime
              /\ stats'[u].total_waittime = g[u].total_waittime
              /\ stats'[u].sum_waittime = g[u].sum_waittime
        /\ \A u \in Threads \ {s, c} : stats'[u] = g[u]
        /\ state[c] \in {"Unused", "Blocked"} /\ c # s => stats'[c] = g[c]
    BY <1>1, <1>2, <1>3, <2>2, SwitchUpdate DEF c
  <2>4. /\ stats'[s] \in Stats
        /\ stats'[s].last_run = now /\ stats'[s].last_ready = stats[s].last_ready
        /\ stats'[s].total_runtime = stats[s].total_runtime
        /\ stats'[s].total_waittime
               = stats[s].total_waittime + (now - stats[s].last_ready)
        /\ stats'[s].sum_waittime
               = stats[s].sum_waittime + (now - stats[s].last_ready)
    BY <1>3, <1>9, <2>1, <2>2, <2>3
  <2>5. Sound(stats'[s], spent[s], "Running", now, s \in leaving)
    <3>1. /\ Sound(stats[s], spent[s], "Ready", now, s \in leaving)
          /\ (s \in leaving) \in BOOLEAN
      BY <1>3, <1>6, <2>1
    <3>. QED  BY <1>2, <2>4, <3>1, GetsCPU
  <2>6. /\ state'[s] = "Running" /\ \A u \in Threads \ {s} : state'[u] = state[u]
        /\ \A u \in Threads \ {s} : stats'[u] = stats[u]
    BY <1>3, <1>5, <1>9, <2>1, <2>2, <2>3
  <2>. QED  BY <1>3, <2>3, <2>5, <2>6, OthersStaySound DEF Books
<1>. QED  BY <1>4, <1>7, <1>8, <1>9

(* What a step of the code of one thread leaves of the rest of the books. *)
LEMMA RestIsKept ==
    ASSUME TypeOK, Books, NEW t \in Threads, NEW label, Goto(t, label),
           t \in leaving => label \in {"top", "stopped", "gone"},
           pc[Main] # "create", t = Main => label # "create",
           UNCHANGED <<now, spent, leaving>>,
           stats' \in [Threads -> Stats], AllSound'
    PROVE  Books'
<1>1. \A u \in Threads : pc'[u] = IF u = t THEN label ELSE pc[u]
  BY DEF Goto, TypeOK
<1>2. LeavingReturn'
  BY <1>1 DEF Books, StatsTypes, LeavingReturn
<1>3. FreshSlots'
  BY <1>1, MainIsThread DEF FreshSlots
<1>. QED  BY <1>2, <1>3 DEF Books, StatsTypes

LEMMA NoneIsNotPicked ==
    ASSUME Known, Scheduled  PROVE None \notin Picks
BY PicksCanRun, MainIsThread DEF Scheduled, ReturnInv

LEMMA ScheduleKeepsBooks ==
    ASSUME Known, Scheduled, Books, GtSchedule
    PROVE  Books'
<1>1. Selects /\ UNCHANGED <<now, spent, leaving>>
  BY NoneIsNotPicked DEF GtSchedule, SelectsNobody
<1>2. AllSound' /\ stats' \in [Threads -> Stats]
  BY <1>1, SelectKeepsSound
<1>3. TypeOK /\ CreationComesFirst /\ gt_current \in Threads
  BY DEF Known, TypeOK, Scheduled, ReturnInv
<1>4. ASSUME NEW t \in Threads, gt_current = t, NEW old, NEW label,
             pc[t] = old, old # "create", Goto(t, label), label # "create",
             old \in {"top", "stopped", "gone"} => label \in {"top", "stopped", "gone"}
      PROVE  Books'
  <2>1. pc[Main] # "create"
    BY <1>3, <1>4 DEF CreationComesFirst
  <2>2. t \in leaving => label \in {"top", "stopped", "gone"}
    BY <1>4 DEF Books, LeavingReturn
  <2>. QED  BY <1>1, <1>2, <1>3, <1>4, <2>1, <2>2, RestIsKept
<1>5. CASE Alarm
  <2>1. pc[Main] # "create" /\ Goto(gt_current, pc[gt_current])
    BY <1>3, <1>5 DEF Alarm, Yield, CreationComesFirst
  <2>2. gt_current \in leaving => pc[gt_current] \in {"top", "stopped", "gone"}
    BY DEF Books, LeavingReturn
  <2>. QED  BY <1>1, <1>2, <1>3, <2>1, <2>2, RestIsKept
<1>6. CASE MainYields
  <2>1. Main \in Threads /\ At(Main, "yield") /\ Goto(gt_current, "yield")
    BY <1>6, MainIsThread DEF MainYields, Yield, FailedYield
  <2>. QED  BY <1>4, <2>1 DEF At
<1>7. ASSUME NEW t \in Threads, WaitYields(t)  PROVE Books'
  <2>1. At(t, "waiting") /\ Goto(gt_current, "parked")
    BY <1>7 DEF WaitYields, Yield, FailedYield
  <2>. QED  BY <1>4, <2>1 DEF At
<1>8. ASSUME NEW t \in Threads, PostYields(t)  PROVE Books'
  <2>1. At(t, "posted") /\ Goto(gt_current, "top")
    BY <1>8 DEF PostYields, Yield, FailedYield
  <2>. QED  BY <1>4, <2>1 DEF At
<1>9. ASSUME NEW t \in Threads, ReturnYields(t)  PROVE Books'
  <2>1. At(t, "stopped") /\ Goto(gt_current, "gone")
    BY <1>9 DEF ReturnYields, Yield, FailedYield
  <2>. QED  BY <1>4, <2>1 DEF At
<1>. QED  BY <1>5, <1>6, <1>7, <1>8, <1>9 DEF GtSchedule

(* A new thread gets a slot that has never been used. *)
LEMMA CreateKeepsBooks ==
    ASSUME Known, Scheduled, Books, Create, UNCHANGED <<now, spent, leaving>>
    PROVE  Books'
<1>1. /\ TypeOK /\ now \in Nat /\ pc[Main] = "create"
      /\ stats \in [Threads -> Stats] /\ leaving \subseteq Threads
      /\ stats' = [t \in Threads |-> IF state'[t] = state[t] THEN stats[t]
                                     ELSE gt_init_stats]
  BY DEF Known, Books, StatsTypes, Create, gt_create, At
<1>2. ASSUME UNCHANGED <<state, pc>>  PROVE Books'
  <2>1. stats' = stats
    BY <1>1, <1>2
  <2>. QED  BY <1>2, <2>1 DEF Books, StatsTypes, LeavingReturn, FreshSlots, AllSound
<1>3. ASSUME NEW p \in Threads, EmptySlot(p), Goto(p, "top"),
             state' = [state EXCEPT ![p] = "Ready"]
      PROVE  Books'
  <2>1. /\ state[p] = "Unused" /\ state'[p] = "Ready"
        /\ \A u \in Threads \ {p} : state'[u] = state[u]
        /\ \A u \in Threads : pc'[u] = IF u = p THEN "top" ELSE pc[u]
    BY <1>1, <1>3 DEF EmptySlot, Goto, TypeOK
  <2>2. /\ stats'[p] = gt_init_stats
        /\ \A u \in Threads \ {p} : stats'[u] = stats[u]
    BY <1>1, <2>1
  <2>3. spent[p] = [running |-> 0, ready |-> 0]
    BY <1>1, <2>1 DEF Books, FreshSlots
  <2>4. (p \in leaving) \in BOOLEAN
    OBVIOUS
  <2>5. Sound(gt_init_stats, spent[p], "Ready", now, p \in leaving)
    BY <1>1, <2>3, <2>4, StartsAtZero
  <2>6. AllSound'
    BY <2>1, <2>2, <2>5, OthersStaySound DEF Books
  <2>7. stats' \in [Threads -> Stats]
    <3>1. gt_init_stats \in Stats
      BY <2>5 DEF Sound
    <3>. HIDE DEF gt_init_stats
    <3>. QED  BY <1>1, <3>1
  <2>8. LeavingReturn' /\ FreshSlots'
    BY <1>1, <2>1 DEF Books, LeavingReturn, FreshSlots
  <2>. QED  BY <2>6, <2>7, <2>8 DEF Books, StatsTypes
<1>. QED  BY <1>2, <1>3 DEF Create, gt_create

(* What is known of the thread that executes its own code. *)
LEMMA CodeIsOfCurrent ==
    ASSUME Known, Scheduled, Books, NEW t \in Threads, NEW label, At(t, label),
           label # "create"
    PROVE  /\ gt_current = t /\ pc[t] = label /\ pc[Main] # "create"
           /\ label = "top" => state[t] = "Running"
           /\ t \in leaving => label \in {"top", "stopped", "gone"}
BY DEF At, Known, Scheduled, ReturnInv, CreationComesFirst, CurrentExecutes,
       Books, LeavingReturn

(* The thread that gt_sem_wait blocks is charged, if there is a node for it. *)
LEMMA WaitKeepsBooks ==
    ASSUME Known, Scheduled, Books, NEW t \in Threads, Wait(t),
           UNCHANGED <<now, spent, leaving>>
    PROVE  Books'
<1>1. /\ TypeOK /\ now \in Nat /\ stats \in [Threads -> Stats]
      /\ t \notin leaving /\ At(t, "top") /\ gt_sem_wait(t)
      /\ stats' = IF queue' = queue THEN stats
                  ELSE [stats EXCEPT ![t].total_waittime = @ + now - stats[t].last_ready]
  BY DEF Known, Books, StatsTypes, Wait, gt_sem_wait
<1>2. gt_current = t /\ pc[Main] # "create" /\ state[t] = "Running"
  BY <1>1, CodeIsOfCurrent
<1>3. PICK label \in {"crit", "waiting"} : Goto(t, label)
  BY <1>1 DEF gt_sem_wait
<1>4. /\ Sound(stats[t], spent[t], "Running", now, FALSE)
      /\ (t \in leaving) = FALSE
  <2>1. (t \in leaving) = FALSE
    BY <1>1
  <2>. QED  BY <1>2, <2>1 DEF Books, AllSound
<1>5. ASSUME UNCHANGED state, UNCHANGED queue
      PROVE  AllSound' /\ stats' \in [Threads -> Stats]
  BY <1>1, <1>5 DEF Books, AllSound
<1>6. ASSUME state' = [state EXCEPT ![t] = "Blocked"], stats' \in [Threads -> Stats],
             \A u \in Threads \ {t} : stats'[u] = stats[u],
             Sound(stats'[t], spent[t], "Blocked", now, FALSE)
      PROVE  AllSound' /\ stats' \in [Threads -> Stats]
  <2>1. state'[t] = "Blocked" /\ \A u \in Threads \ {t} : state'[u] = state[u]
    BY <1>1, <1>6 DEF TypeOK
  <2>. QED  BY <1>4, <1>6, <2>1, OthersStaySound DEF Books
<1>7. ASSUME MallocMayFail, state' = [state EXCEPT ![t] = "Blocked"], queue' = queue
      PROVE  AllSound' /\ stats' \in [Threads -> Stats]
  <2>1. Sound(stats[t], spent[t], "Blocked", now, FALSE)
    BY <1>1, <1>4, <1>7, StopsRunning
  <2>. QED  BY <1>1, <1>6, <1>7, <2>1
<1>8. ASSUME state' = [state EXCEPT ![t] = "Blocked"], queue' = Append(queue, t)
      PROVE  AllSound' /\ stats' \in [Threads -> Stats]
  <2>1. queue' # queue
    <3>1. queue \in Seq(Threads)
      BY <1>1, QueuedThreads
    <3>2. Len(Append(queue, t)) = Len(queue) + 1 /\ Len(queue) \in Nat
      BY <3>1
    <3>. QED  BY <1>8, <3>2
  <2>. DEFINE v == stats[t].total_waittime + now - stats[t].last_ready
              r == [stats[t] EXCEPT !.total_waittime = v]
  <2>2. v \in Nat
    BY <1>1, <1>4, Fields DEF Sound, Exact
  <2>3. stats' = [stats EXCEPT ![t] = r]
    BY <1>1, <2>1
  <2>. HIDE DEF v
  <2>4. /\ r \in Stats /\ r.total_waittime = v
        /\ r.last_run = stats[t].last_run /\ r.last_ready = stats[t].last_ready
        /\ r.total_runtime = stats[t].total_runtime
        /\ r.sum_waittime = stats[t].sum_waittime
    BY <1>1, <2>2 DEF Stats
  <2>. HIDE DEF r
  <2>5. Sound(r, spent[t], "Blocked", now, FALSE)
    BY <1>1, <1>4, <2>4, BeginsToWait DEF v
  <2>6. /\ stats' \in [Threads -> Stats] /\ stats'[t] = r
        /\ \A u \in Threads \ {t} : stats'[u] = stats[u]
    BY <1>1, <2>3, <2>4, OneEntry
  <2>. QED  BY <1>6, <1>8, <2>5, <2>6
<1>9. AllSound' /\ stats' \in [Threads -> Stats]
  BY <1>1, <1>5, <1>7, <1>8 DEF gt_sem_wait, Enqueue, semaphore
<1>. QED  BY <1>1, <1>2, <1>3, <1>9, RestIsKept

(* gt_sem_post wakes a thread that is Blocked. *)
LEMMA PostKeepsBooks ==
    ASSUME Known, Scheduled, Books, NEW t \in Threads, Post(t),
           UNCHANGED <<now, spent, leaving>>
    PROVE  Books'
<1>1. /\ TypeOK /\ now \in Nat /\ stats \in [Threads -> Stats]
      /\ At(t, "crit") /\ gt_sem_post(t) /\ Goto(t, "posted")
      /\ stats' = IF queue = <<>> THEN stats
                  ELSE [stats EXCEPT ![Head(queue)].last_ready = now]
  BY DEF Known, Books, StatsTypes, Post, gt_sem_post
<1>2. pc[Main] # "create" /\ t \notin leaving
  BY <1>1, CodeIsOfCurrent
<1>3. CASE queue = <<>>
  <2>1. state' = state /\ stats' = stats
    BY <1>1, <1>3 DEF gt_sem_post
  <2>2. AllSound'
    BY <2>1 DEF Books, AllSound
  <2>. QED  BY <1>1, <1>2, <2>1, <2>2, RestIsKept
<1>4. CASE queue # <<>>
  <2>. DEFINE h == Head(queue)
              r == [stats[h] EXCEPT !.last_ready = now]
  <2>1. h \in Queued /\ h \in Threads /\ state' = [state EXCEPT ![h] = "Ready"]
    <3>1. queue \in Seq(Threads) /\ Queued \subseteq Threads
      BY <1>1, QueuedThreads
    <3>2. h \in Queued
      BY <1>4, <3>1 DEF Queued, Range
    <3>. QED  BY <1>1, <1>4, <3>1, <3>2 DEF gt_sem_post, HandOver
  <2>2. state[h] = "Blocked"
    BY <2>1 DEF Scheduled, ReturnInv, QueueSound
  <2>3. stats' = [stats EXCEPT ![h] = r]
    BY <1>1, <1>4
  <2>. HIDE DEF h
  <2>4. /\ r \in Stats /\ r.last_ready = now /\ r.last_run = stats[h].last_run
        /\ r.total_runtime = stats[h].total_runtime
        /\ r.total_waittime = stats[h].total_waittime
        /\ r.sum_waittime = stats[h].sum_waittime
    BY <1>1, <2>1 DEF Stats
  <2>. HIDE DEF r
  <2>5. /\ Sound(stats[h], spent[h], "Blocked", now, h \in leaving)
        /\ (h \in leaving) \in BOOLEAN
    BY <2>1, <2>2 DEF Books, AllSound
  <2>6. Sound(r, spent[h], "Ready", now, h \in leaving)
    BY <1>1, <2>4, <2>5, IsWoken
  <2>7. /\ stats' \in [Threads -> Stats] /\ stats'[h] = r
        /\ \A u \in Threads \ {h} : stats'[u] = stats[u]
    <3>1. h \in Threads /\ r \in Stats /\ stats \in [Threads -> Stats]
      BY <1>1, <2>1, <2>4
    <3>. QED  BY <2>3, <3>1, OneEntry
  <2>8. state'[h] = "Ready" /\ \A u \in Threads \ {h} : state'[u] = state[u]
    BY <1>1, <2>1 DEF TypeOK
  <2>9. AllSound'
    BY <2>1, <2>6, <2>7, <2>8, OthersStaySound DEF Books
  <2>. QED  BY <1>1, <1>2, <2>7, <2>9, RestIsKept
<1>. QED  BY <1>3, <1>4

(* The two lines of gt_return. *)
LEMMA ReturnKeepsBooks ==
    ASSUME Known, Scheduled, Books, NEW t \in Threads,
           \/ ReturnCharges(t)
           \/ ReturnStops(t) /\ UNCHANGED <<now, spent, leaving>>
    PROVE  Books'
<1>1. /\ TypeOK /\ now \in Nat /\ stats \in [Threads -> Stats]
      /\ At(t, "top") /\ UNCHANGED <<now, spent>> /\ leaving \subseteq Threads
  BY DEF Known, Books, StatsTypes, ReturnCharges, ReturnStops, gt_return
<1>2. pc[t] = "top" /\ pc[Main] # "create" /\ state[t] = "Running"
  BY <1>1, CodeIsOfCurrent
<1>3. Sound(stats[t], spent[t], "Running", now, t \in leaving)
  BY <1>2 DEF Books, AllSound
<1>4. CASE ReturnCharges(t)
  <2>. DEFINE v == stats[t].total_runtime + now - stats[t].last_run
              r == [stats[t] EXCEPT !.total_runtime = v]
  <2>1. /\ UNCHANGED <<state, pc>> /\ t \notin leaving /\ leaving' = leaving \cup {t}
        /\ stats' = [stats EXCEPT ![t] = r]
    BY <1>4 DEF ReturnCharges, Charge, vars
  <2>2. Sound(stats[t], spent[t], "Running", now, FALSE)
    <3>1. (t \in leaving) = FALSE
      BY <2>1
    <3>. QED  BY <1>3, <3>1
  <2>3. v \in Nat
    BY <1>1, <2>2, Fields DEF Sound, Exact
  <2>. HIDE DEF v
  <2>4. /\ r \in Stats /\ r.total_runtime = v
        /\ r.last_run = stats[t].last_run /\ r.last_ready = stats[t].last_ready
        /\ r.total_waittime = stats[t].total_waittime
        /\ r.sum_waittime = stats[t].sum_waittime
    BY <1>1, <2>3 DEF Stats
  <2>. HIDE DEF r
  <2>5. Sound(r, spent[t], "Running", now, TRUE)
    BY <1>1, <2>2, <2>4, ChargesSlice DEF v
  <2>6. /\ stats' \in [Threads -> Stats] /\ stats'[t] = r
        /\ \A u \in Threads \ {t} : stats'[u] = stats[u]
    BY <1>1, <2>1, <2>4, OneEntry
  <2>7. (t \in leaving') = TRUE
    BY <2>1
  <2>8. AllSound'
    BY <1>1, <1>2, <2>1, <2>5, <2>6, <2>7, OthersStaySound DEF Books
  <2>9. LeavingReturn' /\ FreshSlots'
    BY <1>1, <1>2, <2>1 DEF Books, LeavingReturn, FreshSlots
  <2>. QED  BY <1>1, <2>1, <2>6, <2>8, <2>9 DEF Books, StatsTypes
<1>5. CASE ReturnStops(t) /\ UNCHANGED <<now, spent, leaving>>
  <2>1. /\ t \in leaving /\ stats' = stats /\ Goto(t, "stopped")
        /\ state' = [state EXCEPT ![t] = "Unused"] /\ t # Main
    BY <1>5 DEF ReturnStops, gt_return
  <2>2. state'[t] = "Unused" /\ \A u \in Threads \ {t} : state'[u] = state[u]
    BY <1>1, <2>1 DEF TypeOK
  <2>3. (t \in leaving) = TRUE
    BY <2>1
  <2>4. Sound(stats[t], spent[t], "Unused", now, TRUE)
    BY <1>1, <1>3, <2>3, StopsRunning
  <2>5. AllSound'
    BY <1>1, <1>5, <2>1, <2>2, <2>3, <2>4, OthersStaySound DEF Books
  <2>. QED  BY <1>1, <1>2, <1>5, <2>1, <2>5, RestIsKept
<1>. QED  BY <1>4, <1>5

LEMMA UncountedKeepsBooks ==
    ASSUME Known, Scheduled, Books, NEW t \in Threads, Uncounted(t),
           UNCHANGED <<now, spent, leaving>>
    PROVE  Books'
<1>1. TypeOK /\ stats' = stats /\ stats \in [Threads -> Stats]
  BY DEF Known, Books, StatsTypes, Uncounted
<1>2. ~ AssertFails(t)
  BY NoReturnFromReturn DEF Scheduled
<1>3. state' = state
  BY <1>2 DEF Uncounted, MainReturns, WaitReturns
<1>4. AllSound'
  BY <1>1, <1>3 DEF Books, AllSound
<1>5. CASE MainReturns
  <2>1. \A u \in Threads : pc'[u] = IF u = Main THEN "yield" ELSE pc[u]
    BY <1>1, <1>5 DEF MainReturns, Goto, TypeOK
  <2>2. Main \notin leaving /\ pc'[Main] # "create"
    BY <1>5, <2>1, MainIsThread DEF MainReturns, At, Books, LeavingReturn
  <2>3. LeavingReturn' /\ FreshSlots'
    BY <2>1, <2>2 DEF Books, StatsTypes, LeavingReturn, FreshSlots
  <2>. QED  BY <1>1, <1>4, <2>3 DEF Books, StatsTypes
<1>6. CASE WaitReturns(t)
  <2>1. At(t, "parked") /\ Goto(t, "crit")
    BY <1>6 DEF WaitReturns
  <2>2. pc[Main] # "create" /\ t \notin leaving
    BY <2>1, CodeIsOfCurrent
  <2>. QED  BY <1>1, <1>4, <2>1, <2>2, RestIsKept
<1>. QED  BY <1>2, <1>5, <1>6 DEF Uncounted

-------------------------------------------------------------------------------
(* The invariant *)

LEMMA BooksAreExact ==
    ASSUME Books  PROVE \A t \in Threads :
        stats[t].sum_waittime + current_waittime(t) = spent[t].ready
BY DEF Books, AllSound, Sound, Exact, current_waittime

LEMMA BooksKept ==
    ASSUME Known, Scheduled, Books, [StatsNext]_statsVars
    PROVE  Books'
<1>1. CASE UNCHANGED statsVars
  BY <1>1 DEF statsVars, vars, Books, StatsTypes, LeavingReturn, FreshSlots, AllSound
<1>2. CASE Tick
  BY <1>2, TickKeepsBooks
<1>3. CASE GtSchedule
  BY <1>3, ScheduleKeepsBooks
<1>4. CASE FailedAlarm
  BY <1>4, NoneIsNotPicked DEF FailedAlarm
<1>5. ASSUME NEW t \in Threads, ReturnCharges(t)  PROVE Books'
  BY <1>5, ReturnKeepsBooks
<1>6. CASE Create /\ UNCHANGED <<now, spent, leaving, calls>>
  BY <1>6, CreateKeepsBooks
<1>7. ASSUME NEW t \in Threads, Wait(t) \/ Post(t) \/ ReturnStops(t) \/ Uncounted(t),
             UNCHANGED <<now, spent, leaving, calls>>
      PROVE  Books'
  BY <1>7, WaitKeepsBooks, PostKeepsBooks, ReturnKeepsBooks, UncountedKeepsBooks
<1>. QED  BY <1>1, <1>2, <1>3, <1>4, <1>5, <1>6, <1>7 DEF StatsNext

LEMMA InitStatsInv == StatsInit => StatsInv
<1>. SUFFICES ASSUME StatsInit PROVE StatsInv
  OBVIOUS
<1>1. /\ Init /\ now = 0 /\ leaving = {}
      /\ stats = [t \in Threads |-> IF t = Main THEN gt_init_stats ELSE Zeroed]
      /\ spent = [t \in Threads |-> [running |-> 0, ready |-> 0]]
      /\ pc = [t \in Threads |-> IF t = Main THEN "create" ELSE "none"]
  BY DEF StatsInit, Init
<1>2. Scheduled /\ CreationComesFirst
  BY <1>1, InitReturnInv, InitTickets DEF Scheduled, ReturnInv
<1>3. gt_init_stats = Zeroed
  <2>1. /\ gt_init_stats \in Stats /\ Zeroed \in Stats
        /\ gt_init_stats.last_run = Zeroed.last_run
        /\ gt_init_stats.last_ready = Zeroed.last_ready
        /\ gt_init_stats.total_runtime = Zeroed.total_runtime
        /\ gt_init_stats.total_waittime = Zeroed.total_waittime
        /\ gt_init_stats.sum_waittime = Zeroed.sum_waittime
    BY <1>1 DEF gt_init_stats, Zeroed, Stats
  <2>. QED  BY <2>1 DEF Stats
<1>4. ASSUME NEW t \in Threads
      PROVE  Sound(stats[t], spent[t], state[t], now, t \in leaving)
  <2>1. (t \in leaving) = FALSE /\ now \in Nat
    BY <1>1
  <2>2. Sound(gt_init_stats, [running |-> 0, ready |-> 0], state[t], now, FALSE)
    BY <2>1, StartsAtZero
  <2>3. stats[t] = gt_init_stats /\ spent[t] = [running |-> 0, ready |-> 0]
    BY <1>1, <1>3
  <2>. QED  BY <2>1, <2>2, <2>3
<1>5. StatsTypes
  <2>1. \A t \in Threads : stats[t] \in Stats /\ spent[t] \in Spent
    BY <1>4 DEF Sound
  <2>. QED  BY <1>1, <2>1 DEF StatsTypes
<1>6. LeavingReturn /\ FreshSlots
  BY <1>1 DEF LeavingReturn, FreshSlots
<1>. QED  BY <1>2, <1>4, <1>5, <1>6 DEF StatsInv, AllSound

LEMMA StatsInvAlways == StatsSpec => []StatsInv
<1>. DEFINE Facts == TypeOK /\ OneRunner /\ UnusedIsIdle
<1>1. Facts /\ StatsInv /\ [StatsNext]_statsVars => StatsInv'
  <2>. SUFFICES ASSUME Facts, StatsInv, [StatsNext]_statsVars
                PROVE  StatsInv'
    OBVIOUS
  <2>1. [Next]_vars /\ TypeOK'
    BY StatsStepsAreSteps, TypesAreKept
  <2>2. CreationComesFirst'
    BY <2>1, CreationIsKept DEF StatsInv
  <2>3. ASSUME DrawsSucceed'  PROVE Scheduled' /\ Books'
    <3>1. DrawsSucceed
      BY <2>1, <2>3, DrawsSucceededBefore DEF StatsInv
    <3>2. Scheduled /\ Books
      BY <3>1 DEF StatsInv, Books
    <3>3. Known /\ Scheduled'
      BY <2>1, <2>3, <3>2, ScheduledIsKept
    <3>. QED  BY <3>2, <3>3, BooksKept
  <2>. QED  BY <2>2, <2>3 DEF StatsInv, Books
<1>2. StatsSpec => []Facts
  BY StatsRunIsRun, TypeCorrect, OnlyCurrentRuns, UnusedStaysIdle, PTL
<1>. QED  BY <1>1, <1>2, InitStatsInv, PTL DEF StatsSpec

(* The times that gt_print_stats makes its average wait of are exactly the
   times the threads were Ready: for every number of threads, also when malloc
   fails, and for as long as no draw of the lottery may fail. *)
THEOREM WaitsAreAlwaysExact == StatsSpec => []WaitsAreExact
<1>1. StatsInv => WaitsAreExact
  BY BooksAreExact DEF StatsInv, Books, WaitsAreExact
<1>. QED  BY <1>1, StatsInvAlways, PTL

(* No time of a thread is missed by both of its totals, none but a thread in
   gt_return is charged more running time than it had, and both totals are
   exact until the thread blocks.  A thread that gt_sem_wait blocks for lack
   of memory is not charged at all, so this needs malloc to succeed. *)
THEOREM TimeIsAlwaysAccounted ==
    ASSUME ~MallocMayFail
    PROVE  StatsSpec => []TimeIsAccounted
<1>1. StatsInv => TimeIsAccounted
  <2>. SUFFICES ASSUME StatsInv, DrawsSucceed, NEW t \in Threads
                PROVE
          LET run  == stats[t].total_runtime + current_runtime(t)
              wait == stats[t].total_waittime + current_waittime(t)
          IN  /\ run + wait >= spent[t].running + spent[t].ready
              /\ t \notin leaving =>
                    /\ run <= spent[t].running
                    /\ stats[t].total_waittime = stats[t].sum_waittime =>
                           run = spent[t].running /\ wait = spent[t].ready
    BY DEF TimeIsAccounted
  <2>1. Accounted(stats[t], spent[t], state[t], now, t \in leaving)
    BY DEF StatsInv, AllSound, Sound
  <2>. QED
    BY <2>1 DEF Accounted, Runtime, Waittime, current_runtime, current_waittime
<1>. QED  BY <1>1, StatsInvAlways, PTL

================================================================================
