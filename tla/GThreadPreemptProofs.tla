-------------------------- MODULE GThreadPreemptProofs -------------------------
(***************************************************************************)
(* What survives of GThread when SIGALRM interrupts gt_schedule between    *)
(* its writes, for every number of threads and of nested interruptions.    *)
(*                                                                         *)
(* The difficulty is gt_current: a call that is interrupted between        *)
(* "gt_current = selected" and gt_switch leaves it pointing to a thread    *)
(* that does not run, and the call that interrupts it saves the registers  *)
(* there.  Such a call loses the context and never gets back, which is     *)
(* why code outside gt_schedule never sees the wrong gt_current.           *)
(***************************************************************************)
EXTENDS GThreadPreempt, GThreadProofs

(* A call of gt_schedule that has not reached the assignment yet. *)
Selecting(f) == f.at \in {"demote", "promote", "assign"}

(* The calls on the stack of t above position k have not. *)
SelectingAbove(t, k) ==
    \A j \in k + 1 .. Len(frames[t]) : Selecting(frames[t][j])

(* A thread that does not execute has left its stack in gt_switch. *)
OthersSuspended ==
    \A t \in Threads \ {cpu} :
        frames[t] # <<>> => frames[t][Len(frames[t])] = Suspended

(* gt_current is what the last assignment on the stack in use has made it, or
   the thread that executes, if gt_switch came back to it after that. *)
CurrentIsLastAssigned ==
    \A k \in 0 .. Len(frames[cpu]) :
        SelectingAbove(cpu, k) =>
            /\ k = 0 => gt_current = cpu
            /\ k > 0 =>
                 /\ frames[cpu][k].at = "back" => gt_current = cpu
                 /\ frames[cpu][k].at = "switch" =>
                        gt_current = frames[cpu][k].sel

(* When a call is above another one that is about to switch to a different
   thread, a call between them or above them saves the registers in the wrong
   record: the stack is never left again. *)
NeverLeft ==
    \A t \in Threads : \A j, k \in 1 .. Len(frames[t]) :
        /\ j < k
        /\ frames[t][j].at = "switch" /\ frames[t][j].sel # t
        /\ ~ Selecting(frames[t][k])
        => \E l \in 1 .. Len(frames[t]) :
              l > j /\ frames[t][l].at = "switch" /\ frames[t][l].old # t

(* The lowest call on a stack saves the registers where they belong. *)
FirstSavesItself ==
    \A t \in Threads :
        frames[t] # <<>> /\ frames[t][1].at = "switch" => frames[t][1].old = t

(* What a call that is not interrupted has written already. *)
WrittenInOrder ==
    interrupts = 0 /\ frames[cpu] # <<>> =>
        LET f == frames[cpu][1]
        IN  /\ f.at \in {"promote", "assign", "switch"} =>
                   \/ state[cpu] \in {"Unused", "Blocked", "Ready"}
                   \/ f.at # "promote" /\ f.sel = cpu
            /\ f.at \in {"assign", "switch"} => state[f.sel] = "Running"

(* Only main creates threads and waits for all of them. *)
MainsLabels == \A t \in Threads : pc[t] \in {"create", "yield"} <=> t = Main

(* The inductive invariant.  Once the process has ended nothing changes. *)
PreemptInv ==
    /\ PreemptTypeOK
    /\ BooksBalance
    /\ process = "up" =>
          /\ TypeOK /\ UnusedIsIdle /\ MainsLabels
          /\ OthersSuspended /\ CurrentIsLastAssigned /\ NeverLeft
          /\ FirstSavesItself /\ WrittenInOrder

-------------------------------------------------------------------------------
(* Stacks *)

(* A call is pushed on a stack. *)
LEMMA Pushed ==
    ASSUME NEW s \in Seq(Frame), NEW f \in Frame
    PROVE  /\ Append(s, f) \in Seq(Frame)
           /\ Len(s) \in Nat /\ Len(Append(s, f)) = Len(s) + 1
           /\ Append(s, f)[Len(s) + 1] = f
           /\ \A k \in 1 .. Len(s) : Append(s, f)[k] = s[k]
BY AppendProperties, LenProperties

(* The innermost call of a stack, and the stack without it. *)
LEMMA Popped ==
    ASSUME NEW s \in Seq(Frame), s # <<>>
    PROVE  /\ Len(s) \in Nat \ {0}
           /\ Last(s) = s[Len(s)] /\ Last(s) \in Frame
           /\ Front(s) \in Seq(Frame)
           /\ Len(Front(s)) = Len(s) - 1
           /\ \A k \in 1 .. Len(s) - 1 : Front(s)[k] = s[k]
<1>1. Len(s) \in Nat \ {0} /\ \A k \in 1 .. Len(s) : s[k] \in Frame
  BY EmptySeq, ElementOfSeq
<1>2. \A k \in 1 .. Len(s) - 1 : s[k] \in Frame
  BY <1>1
<1>3. /\ Front(s) \in Seq(Frame)
      /\ Len(Front(s)) =
            IF 1 <= Len(s) - 1 THEN (Len(s) - 1) - 1 + 1 ELSE 0
      /\ \A k \in 1 .. (Len(s) - 1) - 1 + 1 : Front(s)[k] = s[1 + k - 1]
  BY <1>1, <1>2, SubSeqProperties DEF Front
<1>4. Len(Front(s)) = Len(s) - 1
  <2>1. \A n \in Nat \ {0} :
            (IF 1 <= n - 1 THEN (n - 1) - 1 + 1 ELSE 0) = n - 1
    OBVIOUS
  <2>. QED  BY <1>1, <1>3, <2>1
<1>5. ASSUME NEW k \in 1 .. Len(s) - 1  PROVE Front(s)[k] = s[k]
  <2>1. k \in 1 .. (Len(s) - 1) - 1 + 1 /\ 1 + k - 1 = k
    BY <1>1
  <2>. QED  BY <1>3, <2>1
<1>6. Last(s) = s[Len(s)] /\ Last(s) \in Frame
  BY <1>1 DEF Last
<1>. QED  BY <1>1, <1>3, <1>4, <1>5, <1>6

(* The innermost call goes on: it is replaced by f. *)
LEMMA Replaced ==
    ASSUME NEW s \in Seq(Frame), s # <<>>, NEW f \in Frame
    PROVE  LET r == Append(Front(s), f)
           IN  /\ r \in Seq(Frame) /\ Len(r) = Len(s)
               /\ r[Len(s)] = f
               /\ \A k \in 1 .. Len(s) - 1 : r[k] = s[k]
<1>. DEFINE q == Front(s)
<1>1. /\ q \in Seq(Frame) /\ Len(q) = Len(s) - 1 /\ Len(s) \in Nat \ {0}
      /\ \A k \in 1 .. Len(s) - 1 : q[k] = s[k]
  BY Popped
<1>. HIDE DEF q
<1>2. /\ Append(q, f) \in Seq(Frame) /\ Len(Append(q, f)) = Len(q) + 1
      /\ Append(q, f)[Len(q) + 1] = f
      /\ \A k \in 1 .. Len(q) : Append(q, f)[k] = q[k]
  BY <1>1, Pushed
<1>. QED  BY <1>1, <1>2 DEF q

(* Which calls there are. *)
LEMMA Frames ==
    \A f \in Frame :
        /\ f.at \in {"back", "demote", "promote", "assign", "switch"}
        /\ f.at = "back" <=> f = Suspended
        /\ Selecting(f) => f.sel \in Threads /\ f.old = None
        /\ f.at = "switch" => f.sel \in Threads /\ f.old \in Threads
<1>1. ASSUME NEW f \in [at : {"demote", "promote", "assign"}, sel : Threads,
                        old : {None}]
      PROVE  f.at \in {"demote", "promote", "assign"}
             /\ f.sel \in Threads /\ f.old = None
  OBVIOUS
<1>2. ASSUME NEW f \in [at : {"switch"}, sel : Threads, old : Threads]
      PROVE  f.at = "switch" /\ f.sel \in Threads /\ f.old \in Threads
  OBVIOUS
<1>3. Suspended.at = "back"
  BY DEF Suspended
<1>4. ASSUME NEW f \in Frame
      PROVE  \/ f = Suspended
             \/ f \in [at : {"demote", "promote", "assign"}, sel : Threads,
                       old : {None}]
             \/ f \in [at : {"switch"}, sel : Threads, old : Threads]
  BY DEF Frame
<1>. QED  BY <1>1, <1>2, <1>3, <1>4 DEF Selecting

-------------------------------------------------------------------------------
(* The code outside gt_schedule *)

LEMMA InitHolds == PreemptInit => PreemptInv
<1>. SUFFICES ASSUME PreemptInit  PROVE PreemptInv
  OBVIOUS
<1>1. TypeOK
  BY InitTypes DEF PreemptInit
<1>2. UnusedIsIdle /\ MainsLabels /\ process = "up"
  BY DEF PreemptInit, Init, select_algorithm, gt_init, gt_sem_init,
         UnusedIsIdle, MainsLabels
<1>3. BooksBalance
  BY InitBooks DEF PreemptInit
<1>4. \A t \in Threads : frames[t] = <<>>
  BY DEF PreemptInit
<1>5. PreemptTypeOK
  <2>1. <<>> \in Seq(Frame) /\ Len(<<>>) = 0
    BY EmptySeq
  <2>. QED
    BY <1>2, <2>1, MainIsThread, PreemptAssumption
    DEF PreemptInit, PreemptTypeOK
<1>6. OthersSuspended /\ FirstSavesItself /\ NeverLeft
  <2>1. \A t \in Threads : Len(frames[t]) = 0
    BY <1>4, EmptySeq
  <2>. QED  BY <1>4, <2>1 DEF OthersSuspended, FirstSavesItself, NeverLeft
<1>7. CurrentIsLastAssigned /\ WrittenInOrder
  <2>1. gt_current = cpu /\ frames[cpu] = <<>> /\ Len(frames[cpu]) = 0
    BY <1>4, MainIsThread, EmptySeq DEF PreemptInit, Init, gt_init
  <2>. QED  BY <2>1 DEF CurrentIsLastAssigned, WrittenInOrder
<1>. QED  BY <1>1, <1>2, <1>3, <1>5, <1>6, <1>7 DEF PreemptInv

(* The calls and the pointers are what they were. *)
LEMMA SameStacks ==
    ASSUME PreemptInv, process = "up", UNCHANGED <<cpu, frames, gt_current>>
    PROVE  /\ OthersSuspended' /\ CurrentIsLastAssigned'
           /\ NeverLeft' /\ FirstSavesItself'
BY DEF PreemptInv, OthersSuspended, CurrentIsLastAssigned, SelectingAbove,
       NeverLeft, FirstSavesItself

LEMMA CodeKeepsInv ==
    ASSUME PreemptInv, Code
    PROVE  PreemptInv'
<1>. USE DEF PreemptInv
<1>0. cpu \in Threads /\ Main \in Threads /\ ~MayReturn /\ ~MallocMayFail
  BY MainIsThread, PreemptAssumption DEF PreemptTypeOK
<1>1. /\ process = "up" /\ process' = "up" /\ gt_current' = gt_current
      /\ UNCHANGED <<cpu, frames, interrupts>> /\ Idle
  BY DEF Code, gt_create, MainReturns, gt_sem_wait, WaitReturns, gt_sem_post, At
<1>2. Next
  BY <1>0 DEF Code, Next, Step
<1>3. TypeOK' /\ UnusedIsIdle' /\ BooksBalance'
  BY <1>0, <1>1, <1>2, TypesAreKept, UnusedIdleIsKept, BooksAreKept
<1>4. MainsLabels'
  <2>. USE <1>1 DEF MainsLabels, At, Goto, TypeOK
  <2>1. CASE gt_create
    <3>1. CASE UNCHANGED pc
      BY <3>1
    <3>2. CASE \E p \in Threads : EmptySlot(p) /\ Goto(p, "top")
      <4>1. PICK p \in Threads : EmptySlot(p) /\ Goto(p, "top")
        BY <3>2
      <4>2. p # Main
        BY <1>0, <2>1, <4>1 DEF gt_create, EmptySlot, UnusedIsIdle
      <4>. QED  BY <4>1, <4>2
    <3>. QED  BY <2>1, <3>1, <3>2 DEF gt_create
  <2>2. CASE MainReturns
    BY <1>0, <2>2 DEF MainReturns
  <2>3. CASE gt_sem_wait(cpu) \/ WaitReturns(cpu) \/ gt_sem_post(cpu)
    BY <1>0, <2>3 DEF gt_sem_wait, WaitReturns, gt_sem_post
  <2>. QED  BY <2>1, <2>2, <2>3 DEF Code
<1>5. PreemptTypeOK'
  BY <1>1 DEF PreemptTypeOK
<1>6. WrittenInOrder'
  BY <1>1 DEF WrittenInOrder, Idle
<1>. QED  BY <1>1, <1>3, <1>4, <1>5, <1>6, SameStacks

-------------------------------------------------------------------------------
(* Calls of gt_schedule *)

(***************************************************************************)
(* A new call on the stack in use, which may be empty or hold calls that   *)
(* are interrupted.  The thread goes on at a label of the same kind.       *)
(***************************************************************************)
SameKind(label) ==
    /\ label \in PCs
    /\ label \in {"create", "yield"} <=> pc[cpu] \in {"create", "yield"}
    /\ label \in {"waiting", "parked", "crit"}
            <=> pc[cpu] \in {"waiting", "parked", "crit"}
    /\ pc[cpu] \in {"none", "stopped", "gone"}
            => label \in {"none", "stopped", "gone"}

LEMMA GotoKeepsRest ==
    ASSUME PreemptInv, process = "up", NEW label, SameKind(label),
           Goto(cpu, label), alarm' = TRUE,
           process' \in {"up", "exited"},
           UNCHANGED <<current_algorithm, state, gt_current, tickets,
                       semaphore, created>>
    PROVE  TypeOK' /\ UnusedIsIdle' /\ MainsLabels' /\ BooksBalance'
<1>. USE DEF PreemptInv
<1>0. cpu \in Threads
  BY DEF PreemptTypeOK
<1>1. pc' \in [Threads -> PCs]
  BY DEF Goto, TypeOK, SameKind
<1>2. TypeOK'
  BY <1>1 DEF TypeOK, Endings, tickets, semaphore
<1>3. UnusedIsIdle' /\ MainsLabels'
  BY <1>0 DEF UnusedIsIdle, MainsLabels, Goto, TypeOK, SameKind
<1>4. Callers' = Callers
  BY <1>0, GotoChangesCallers DEF SameKind, Callers, Waiters, Inside
<1>5. BooksBalance'
  BY <1>4 DEF BooksBalance, Callers, semaphore
<1>. QED  BY <1>2, <1>3, <1>5

LEMMA CallKeepsInv ==
    ASSUME PreemptInv, process = "up", NEW label, SameKind(label), Call(label),
           interrupts' \in 0 .. MaxInterrupts, interrupts' >= interrupts,
           Len(frames[cpu]) <= interrupts'
    PROVE  PreemptInv'
<1>. USE DEF PreemptInv
<1>0. cpu \in Threads /\ MaxInterrupts \in Nat /\ interrupts \in Nat
      /\ interrupts' \in Nat
  BY PreemptAssumption DEF PreemptTypeOK
<1>1. PICK s \in Picks \ {None} :
          frames' = [frames EXCEPT ![cpu] =
                        Append(@, [at |-> "demote", sel |-> s, old |-> None])]
  BY DEF Call
<1>. DEFINE f == [at |-> "demote", sel |-> s, old |-> None]
            stack == frames[cpu]
            n == Len(stack)
<1>2. s \in Threads
  BY <1>1, PicksAreThreads
<1>3. f \in Frame /\ Selecting(f) /\ f.at = "demote"
  BY <1>2 DEF Frame, Selecting
<1>4. stack \in Seq(Frame)
  BY <1>0 DEF PreemptTypeOK
<1>. HIDE DEF f
<1>5. frames' = [frames EXCEPT ![cpu] = Append(@, f)]
  BY <1>1 DEF f
<1>6. /\ Append(stack, f) \in Seq(Frame)
      /\ n \in Nat /\ Len(Append(stack, f)) = n + 1
      /\ Append(stack, f)[n + 1] = f
      /\ \A k \in 1 .. n : Append(stack, f)[k] = stack[k]
  BY <1>3, <1>4, Pushed
<1>7. /\ frames' \in [Threads -> Seq(Frame)]
      /\ frames'[cpu] = Append(stack, f)
      /\ \A t \in Threads \ {cpu} : frames'[t] = frames[t]
  BY <1>0, <1>5, <1>6 DEF PreemptTypeOK
<1>8. /\ Len(frames'[cpu]) = n + 1 /\ frames'[cpu][n + 1] = f
      /\ \A k \in 1 .. n : frames'[cpu][k] = frames[cpu][k]
  BY <1>6, <1>7
<1>9. UNCHANGED <<cpu, gt_current, process, state>>
  BY DEF Call
<1>10. PreemptTypeOK'
  <2>1. \A t \in Threads : Len(frames[t]) \in Nat /\ Len(frames[t]) <= interrupts + 1
    BY LenProperties DEF PreemptTypeOK
  <2>2. ASSUME NEW t \in Threads  PROVE Len(frames'[t]) <= interrupts' + 1
    <3>1. CASE t = cpu
      BY <1>0, <1>6, <1>8, <3>1
    <3>2. CASE t # cpu
      <4>1. Len(frames'[t]) = Len(frames[t])
        BY <1>7, <3>2
      <4>. QED  BY <1>0, <2>1, <4>1
    <3>. QED  BY <3>1, <3>2
  <2>. QED  BY <1>0, <1>7, <1>9, <2>2 DEF PreemptTypeOK
<1>11. TypeOK' /\ UnusedIsIdle' /\ MainsLabels' /\ BooksBalance'
  BY GotoKeepsRest DEF Call
<1>12. OthersSuspended'
  BY <1>7, <1>9 DEF OthersSuspended
<1>13. FirstSavesItself'
  <2>1. ASSUME NEW t \in Threads, frames'[t] # <<>>, frames'[t][1].at = "switch"
        PROVE  frames'[t][1].old = t
    <3>1. CASE t # cpu
      BY <1>7, <2>1, <3>1 DEF FirstSavesItself
    <3>2. CASE t = cpu /\ n = 0
      BY <1>3, <1>8, <2>1, <3>2
    <3>3. CASE t = cpu /\ n > 0
      <4>1. frames'[t][1] = frames[t][1] /\ frames[t] # <<>>
        BY <1>6, <1>8, <3>3, EmptySeq
      <4>. QED  BY <2>1, <4>1 DEF FirstSavesItself
    <3>. QED  BY <1>6, <3>1, <3>2, <3>3
  <2>. QED  BY <2>1 DEF FirstSavesItself
<1>14. CurrentIsLastAssigned'
  <2>1. ASSUME NEW k \in 0 .. n + 1,
               \A j \in k + 1 .. n + 1 : Selecting(frames'[cpu][j])
        PROVE  /\ k = 0 => gt_current = cpu
               /\ k > 0 =>
                    /\ frames'[cpu][k].at = "back" => gt_current = cpu
                    /\ frames'[cpu][k].at = "switch" =>
                           gt_current = frames'[cpu][k].sel
    <3>1. CASE k = n + 1
      BY <1>3, <1>6, <1>8, <3>1
    <3>2. CASE k <= n
      <4>1. ASSUME NEW j \in k + 1 .. n  PROVE Selecting(frames[cpu][j])
        <5>1. j \in k + 1 .. n + 1 /\ j \in 1 .. n
          BY <1>6
        <5>. QED  BY <1>8, <2>1, <5>1
      <4>2. k \in 0 .. n
        BY <1>6, <3>2
      <4>3. k > 0 => k \in 1 .. n
        BY <4>2
      <4>. QED
        BY <1>8, <4>1, <4>2, <4>3 DEF CurrentIsLastAssigned, SelectingAbove
    <3>. QED  BY <1>6, <3>1, <3>2
  <2>. QED  BY <1>8, <1>9, <2>1 DEF CurrentIsLastAssigned, SelectingAbove
<1>15. NeverLeft'
  <2>1. ASSUME NEW t \in Threads,
               NEW j \in 1 .. Len(frames'[t]), NEW k \in 1 .. Len(frames'[t]), j < k,
               frames'[t][j].at = "switch", frames'[t][j].sel # t,
               ~ Selecting(frames'[t][k])
        PROVE  \E l \in 1 .. Len(frames'[t]) :
                  l > j /\ frames'[t][l].at = "switch" /\ frames'[t][l].old # t
    <3>1. CASE t # cpu
      BY <1>7, <2>1, <3>1 DEF NeverLeft
    <3>2. CASE t = cpu
      <4>1. k \in 1 .. n /\ j \in 1 .. n
        BY <1>3, <1>6, <1>8, <2>1, <3>2
      <4>2. frames'[cpu][j] = frames[cpu][j] /\ frames'[cpu][k] = frames[cpu][k]
        BY <1>8, <4>1
      <4>3. PICK l \in 1 .. n :
               l > j /\ frames[cpu][l].at = "switch" /\ frames[cpu][l].old # cpu
        BY <1>0, <2>1, <3>2, <4>1, <4>2 DEF NeverLeft
      <4>4. l \in 1 .. n + 1 /\ frames'[cpu][l] = frames[cpu][l]
        BY <1>6, <1>8
      <4>. QED  BY <1>8, <3>2, <4>3, <4>4
    <3>. QED  BY <3>1, <3>2
  <2>. QED  BY <2>1 DEF NeverLeft
<1>16. WrittenInOrder'
  <2>1. interrupts' = 0 => n = 0
    BY <1>6
  <2>. QED  BY <1>3, <1>8, <1>9, <2>1 DEF WrittenInOrder
<1>. QED  BY <1>9, <1>10, <1>11, <1>12, <1>13, <1>14, <1>15, <1>16

(***************************************************************************)
(* gt_schedule finds no thread, and the code of the thread goes on.        *)
(***************************************************************************)
LEMMA FailedCallKeepsInv ==
    ASSUME PreemptInv, process = "up", Idle, NEW label, SameKind(label),
           FailedCall(label)
    PROVE  PreemptInv'
<1>. USE DEF PreemptInv
<1>1. /\ process' \in {"up", "exited"}
      /\ UNCHANGED <<cpu, gt_current, state, frames, interrupts>>
  BY DEF FailedCall
<1>2. TypeOK' /\ UnusedIsIdle' /\ MainsLabels' /\ BooksBalance'
  BY <1>1, GotoKeepsRest DEF FailedCall
<1>3. PreemptTypeOK'
  BY <1>1 DEF PreemptTypeOK
<1>4. WrittenInOrder'
  BY <1>1 DEF WrittenInOrder, Idle
<1>. QED  BY <1>1, <1>2, <1>3, <1>4, SameStacks

(* The labels at which the code calls gt_schedule, and those it returns to. *)
LEMMA CodeCallsKeepInv ==
    ASSUME PreemptInv, CodeCalls
    PROVE  PreemptInv'
<1>. USE DEF PreemptInv
<1>1. PICK point \in DOMAIN Then :
          /\ At(cpu, point)
          /\ \/ Call(Then[point]) /\ UNCHANGED interrupts
             \/ FailedCall(Then[point])
  BY DEF CodeCalls
<1>2. process = "up" /\ Idle /\ pc[cpu] = point
  BY <1>1 DEF CodeCalls, At
<1>3. point \in {"yield", "waiting", "posted"}
      /\ Then["yield"] = "yield" /\ Then["waiting"] = "parked"
      /\ Then["posted"] = "top"
  BY DEF Then
<1>4. SameKind(Then[point])
  BY <1>2, <1>3 DEF SameKind, PCs
<1>5. CASE Call(Then[point]) /\ UNCHANGED interrupts
  <2>1. Len(frames[cpu]) = 0 /\ interrupts \in 0 .. MaxInterrupts
        /\ MaxInterrupts \in Nat
    BY <1>2, EmptySeq, PreemptAssumption DEF Idle, PreemptTypeOK
  <2>. QED  BY <1>2, <1>4, <1>5, <2>1, CallKeepsInv
<1>6. CASE FailedCall(Then[point])
  BY <1>2, <1>4, <1>6, FailedCallKeepsInv
<1>. QED  BY <1>1, <1>5, <1>6

(* An alarm, in the code of the thread or in one of its calls. *)
LEMMA AlarmKeepsInv ==
    ASSUME PreemptInv, gt_alarm_handle
    PROVE  PreemptInv'
<1>. USE DEF PreemptInv
<1>1. process = "up" /\ Call(pc[cpu])
  BY DEF gt_alarm_handle
<1>2. cpu \in Threads /\ interrupts \in 0 .. MaxInterrupts /\ MaxInterrupts \in Nat
      /\ frames[cpu] \in Seq(Frame) /\ Len(frames[cpu]) <= interrupts + 1
  BY PreemptAssumption DEF PreemptTypeOK
<1>3. SameKind(pc[cpu])
  BY <1>1, <1>2 DEF SameKind, TypeOK
<1>4. CASE Idle /\ UNCHANGED interrupts
  <2>1. Len(frames[cpu]) = 0
    BY <1>4, EmptySeq DEF Idle
  <2>. QED  BY <1>1, <1>2, <1>3, <1>4, <2>1, CallKeepsInv
<1>5. CASE interrupts < MaxInterrupts /\ interrupts' = interrupts + 1
  <2>1. interrupts' \in 0 .. MaxInterrupts /\ interrupts' >= interrupts
        /\ Len(frames[cpu]) <= interrupts'
    BY <1>2, <1>5
  <2>. QED  BY <1>1, <1>3, <2>1, CallKeepsInv
<1>. QED  BY <1>4, <1>5 DEF gt_alarm_handle

-------------------------------------------------------------------------------
(* The writes of a call *)

(* A thread that executes its own code is gt_current. *)
LEMMA IdleIsCurrent ==
    ASSUME PreemptInv, process = "up", Idle
    PROVE  gt_current = cpu /\ cpu \in Threads
<1>1. Len(frames[cpu]) = 0
  BY EmptySeq DEF Idle
<1>2. 0 \in 0 .. 0 /\ \A j \in 0 + 1 .. 0 : FALSE
  OBVIOUS
<1>3. cpu \in Threads
  BY DEF PreemptInv, PreemptTypeOK
<1>. QED
  BY <1>1, <1>2, <1>3 DEF PreemptInv, CurrentIsLastAssigned, SelectingAbove

(* What a step of the innermost call does to the stacks. *)
LEMMA TopEffect ==
    ASSUME PreemptInv, ~ Idle, NEW f \in Frame, SetTop(f)
    PROVE  LET n == Len(frames[cpu])
           IN  /\ cpu \in Threads
               /\ n \in Nat \ {0} /\ Top = frames[cpu][n] /\ Top \in Frame
               /\ frames' \in [Threads -> Seq(Frame)]
               /\ \A t \in Threads \ {cpu} : frames'[t] = frames[t]
               /\ Len(frames'[cpu]) = n /\ frames'[cpu][n] = f
               /\ \A k \in 1 .. n - 1 : frames'[cpu][k] = frames[cpu][k]
<1>1. cpu \in Threads /\ frames \in [Threads -> Seq(Frame)]
      /\ frames[cpu] \in Seq(Frame) /\ frames[cpu] # <<>>
  BY DEF PreemptInv, PreemptTypeOK, Idle
<1>. DEFINE r == Append(Front(frames[cpu]), f)
<1>2. /\ r \in Seq(Frame) /\ Len(r) = Len(frames[cpu])
      /\ r[Len(frames[cpu])] = f
      /\ \A k \in 1 .. Len(frames[cpu]) - 1 : r[k] = frames[cpu][k]
  BY <1>1, Replaced
<1>3. /\ Len(frames[cpu]) \in Nat \ {0}
      /\ Top = frames[cpu][Len(frames[cpu])] /\ Top \in Frame
  BY <1>1, Popped DEF Top
<1>4. frames' = [frames EXCEPT ![cpu] = r]
  BY DEF SetTop
<1>. HIDE DEF r
<1>5. frames'[cpu] = r /\ frames' \in [Threads -> Seq(Frame)]
      /\ \A t \in Threads \ {cpu} : frames'[t] = frames[t]
  BY <1>1, <1>2, <1>4
<1>. QED  BY <1>1, <1>2, <1>3, <1>5

LEMMA TopKeepsTypes ==
    ASSUME PreemptInv, ~ Idle, NEW f \in Frame, SetTop(f),
           cpu' \in Threads, interrupts' = interrupts,
           process' \in {"up", "exited", "context lost"}
    PROVE  PreemptTypeOK'
<1>1. /\ frames' \in [Threads -> Seq(Frame)]
      /\ Len(frames'[cpu]) = Len(frames[cpu])
      /\ \A t \in Threads \ {cpu} : frames'[t] = frames[t]
  BY TopEffect
<1>2. \A t \in Threads : Len(frames'[t]) = Len(frames[t])
  BY <1>1
<1>. QED  BY <1>1, <1>2 DEF PreemptInv, PreemptTypeOK

LEMMA SameBooks ==
    ASSUME PreemptInv, UNCHANGED <<pc, semaphore>>
    PROVE  BooksBalance'
BY DEF PreemptInv, BooksBalance, Waiters, Inside, semaphore

(* A call that selects goes on, and still selects. *)
LEMMA StillSelecting ==
    ASSUME PreemptInv, process = "up", ~ Idle, Selecting(Top),
           NEW f \in Frame, Selecting(f), SetTop(f), UNCHANGED <<cpu, gt_current>>
    PROVE  /\ OthersSuspended' /\ CurrentIsLastAssigned'
           /\ NeverLeft' /\ FirstSavesItself'
<1>. DEFINE n == Len(frames[cpu])
<1>1. /\ cpu \in Threads /\ n \in Nat \ {0} /\ Top = frames[cpu][n]
      /\ \A t \in Threads \ {cpu} : frames'[t] = frames[t]
      /\ Len(frames'[cpu]) = n /\ frames'[cpu][n] = f
      /\ \A k \in 1 .. n - 1 : frames'[cpu][k] = frames[cpu][k]
  BY TopEffect
<1>2. \A k \in 1 .. n : \/ k = n
                        \/ k \in 1 .. n - 1 /\ frames'[cpu][k] = frames[cpu][k]
  BY <1>1
<1>3. /\ frames'[cpu][n].at \notin {"switch", "back"}
      /\ frames[cpu][n].at \notin {"switch", "back"}
  BY <1>1 DEF Selecting
<1>4. \A k \in 1 .. n : Selecting(frames'[cpu][k]) <=> Selecting(frames[cpu][k])
  BY <1>1, <1>2
<1>5. OthersSuspended'
  BY <1>1 DEF PreemptInv, OthersSuspended
<1>6. FirstSavesItself'
  <2>1. ASSUME NEW t \in Threads, frames'[t] # <<>>, frames'[t][1].at = "switch"
        PROVE  frames'[t][1].old = t
    <3>1. CASE t # cpu
      BY <1>1, <2>1, <3>1 DEF PreemptInv, FirstSavesItself
    <3>2. CASE t = cpu
      <4>1. 1 \in 1 .. n - 1 /\ frames'[t][1] = frames[t][1]
        BY <1>1, <1>2, <1>3, <2>1, <3>2
      <4>. QED  BY <2>1, <3>2, <4>1 DEF PreemptInv, FirstSavesItself, Idle
    <3>. QED  BY <3>1, <3>2
  <2>. QED  BY <2>1 DEF FirstSavesItself
<1>7. CurrentIsLastAssigned'
  <2>1. ASSUME NEW k \in 0 .. n,
               \A j \in k + 1 .. n : Selecting(frames'[cpu][j])
        PROVE  /\ k = 0 => gt_current = cpu
               /\ k > 0 =>
                    /\ frames'[cpu][k].at = "back" => gt_current = cpu
                    /\ frames'[cpu][k].at = "switch" =>
                           gt_current = frames'[cpu][k].sel
    <3>1. ASSUME NEW j \in k + 1 .. n  PROVE Selecting(frames[cpu][j])
      <4>1. j \in 1 .. n
        BY <1>1
      <4>. QED  BY <1>4, <2>1, <4>1
    <3>2. k = 0 \/ k = n \/ (k \in 1 .. n - 1 /\ frames'[cpu][k] = frames[cpu][k])
      BY <1>1
    <3>. QED
      BY <1>1, <1>3, <3>1, <3>2
      DEF PreemptInv, CurrentIsLastAssigned, SelectingAbove
  <2>. QED  BY <1>1, <2>1 DEF CurrentIsLastAssigned, SelectingAbove
<1>8. NeverLeft'
  <2>1. ASSUME NEW t \in Threads,
               NEW j \in 1 .. Len(frames'[t]), NEW k \in 1 .. Len(frames'[t]), j < k,
               frames'[t][j].at = "switch", frames'[t][j].sel # t,
               ~ Selecting(frames'[t][k])
        PROVE  \E l \in 1 .. Len(frames'[t]) :
                  l > j /\ frames'[t][l].at = "switch" /\ frames'[t][l].old # t
    <3>1. CASE t # cpu
      BY <1>1, <2>1, <3>1 DEF PreemptInv, NeverLeft
    <3>2. CASE t = cpu
      <4>1. /\ j \in 1 .. n - 1 /\ frames'[cpu][j] = frames[cpu][j]
            /\ k \in 1 .. n /\ ~ Selecting(frames[cpu][k])
        BY <1>1, <1>2, <1>3, <1>4, <2>1, <3>2
      <4>2. j \in 1 .. n
        BY <4>1
      <4>3. PICK l \in 1 .. n :
               l > j /\ frames[cpu][l].at = "switch" /\ frames[cpu][l].old # cpu
        BY <1>1, <2>1, <3>2, <4>1, <4>2 DEF PreemptInv, NeverLeft
      <4>4. frames'[cpu][l] = frames[cpu][l]
        BY <1>2, <1>3, <4>3
      <4>. QED  BY <1>1, <3>2, <4>3, <4>4
    <3>. QED  BY <3>1, <3>2
  <2>. QED  BY <2>1 DEF NeverLeft
<1>. QED  BY <1>5, <1>6, <1>7, <1>8

(* Until the first interruption a stack holds one call, and gt_current is the
   thread that executes until that call assigns it. *)
LEMMA OneCall ==
    ASSUME PreemptInv, process = "up", interrupts = 0, ~ Idle
    PROVE  /\ cpu \in Threads
           /\ Len(frames[cpu]) = 1 /\ Top = frames[cpu][1] /\ Top \in Frame
           /\ Selecting(Top) => gt_current = cpu
           /\ Top.at = "switch" => gt_current = Top.sel /\ Top.old = cpu
<1>. USE DEF PreemptInv
<1>1. cpu \in Threads /\ frames[cpu] \in Seq(Frame) /\ frames[cpu] # <<>>
      /\ Len(frames[cpu]) <= 0 + 1
  BY DEF PreemptTypeOK, Idle
<1>2. Len(frames[cpu]) \in Nat \ {0} /\ Top = frames[cpu][Len(frames[cpu])]
      /\ Top \in Frame
  BY <1>1, Popped DEF Top
<1>3. Len(frames[cpu]) = 1 /\ Top = frames[cpu][1]
  <2>1. \A n \in Nat \ {0} : n <= 0 + 1 => n = 1
    OBVIOUS
  <2>. QED  BY <1>1, <1>2, <2>1
<1>4. Selecting(Top) => gt_current = cpu
  <2>1. \A j \in 0 + 1 .. 1 : j = 1
    OBVIOUS
  <2>2. 0 \in 0 .. 1
    OBVIOUS
  <2>. QED  BY <1>3, <2>1, <2>2 DEF CurrentIsLastAssigned, SelectingAbove
<1>5. Top.at = "switch" => gt_current = Top.sel
  <2>1. 1 \in 0 .. 1 /\ 1 + 1 .. 1 = {}
    OBVIOUS
  <2>. QED  BY <1>3, <2>1 DEF CurrentIsLastAssigned, SelectingAbove
<1>. QED  BY <1>1, <1>2, <1>3, <1>4, <1>5 DEF FirstSavesItself

LEMMA DemoteKeepsInv ==
    ASSUME PreemptInv, Demote
    PROVE  PreemptInv'
<1>. USE DEF PreemptInv
<1>. DEFINE f == [Top EXCEPT !.at = "promote"]
<1>1. /\ process = "up" /\ ~ Idle /\ Top.at = "demote" /\ SetTop(f)
      /\ state' = [state EXCEPT ![gt_current] =
                       IF @ \in {"Unused", "Blocked"} THEN @ ELSE "Ready"]
      /\ UNCHANGED <<current_algorithm, gt_current, tickets, semaphore, created,
                     alarm, pc, process, cpu, interrupts>>
  BY DEF Demote, InCall
<1>2. cpu \in Threads /\ frames[cpu] \in Seq(Frame) /\ frames[cpu] # <<>>
  BY <1>1 DEF PreemptTypeOK, Idle
<1>3. Top \in Frame
  BY <1>2, Popped DEF Top
<1>4. f \in Frame /\ Selecting(f) /\ Selecting(Top) /\ f.at = "promote"
  BY <1>1, <1>3 DEF Frame, Selecting, Suspended
<1>. HIDE DEF f
<1>5. TypeOK'
  BY <1>1 DEF TypeOK, ThreadStates, tickets, semaphore
<1>6. UnusedIsIdle' /\ MainsLabels'
  BY <1>1 DEF UnusedIsIdle, MainsLabels, TypeOK
<1>7. PreemptTypeOK' /\ BooksBalance'
  BY <1>1, <1>2, <1>4, TopKeepsTypes, SameBooks
<1>8. /\ OthersSuspended' /\ CurrentIsLastAssigned'
      /\ NeverLeft' /\ FirstSavesItself'
  BY <1>1, <1>4, StillSelecting
<1>9. WrittenInOrder'
  <2>1. CASE interrupts = 0
    <3>1. gt_current = cpu /\ Len(frames[cpu]) = 1
      BY <1>1, <1>4, <2>1, OneCall
    <3>2. frames'[cpu][1] = f
      BY <1>1, <1>4, <3>1, TopEffect
    <3>3. state'[cpu] \in {"Unused", "Blocked", "Ready"}
      BY <1>1, <1>2, <3>1 DEF TypeOK
    <3>. QED  BY <1>1, <1>4, <3>2, <3>3 DEF WrittenInOrder
  <2>2. CASE interrupts # 0
    BY <1>1, <2>2 DEF WrittenInOrder
  <2>. QED  BY <2>1, <2>2
<1>. QED  BY <1>1, <1>5, <1>6, <1>7, <1>8, <1>9

LEMMA PromoteKeepsInv ==
    ASSUME PreemptInv, Promote
    PROVE  PreemptInv'
<1>. USE DEF PreemptInv
<1>. DEFINE f == [Top EXCEPT !.at = "assign"]
<1>1. /\ process = "up" /\ ~ Idle /\ Top.at = "promote" /\ SetTop(f)
      /\ state' = [state EXCEPT ![Top.sel] = "Running"]
      /\ UNCHANGED <<current_algorithm, gt_current, tickets, semaphore, created,
                     alarm, pc, process, cpu, interrupts>>
  BY DEF Promote, InCall
<1>2. cpu \in Threads /\ frames[cpu] \in Seq(Frame) /\ frames[cpu] # <<>>
  BY <1>1 DEF PreemptTypeOK, Idle
<1>3. Top \in Frame
  BY <1>2, Popped DEF Top
<1>4. /\ f \in Frame /\ Selecting(f) /\ Selecting(Top)
      /\ f.at = "assign" /\ f.sel = Top.sel /\ Top.sel \in Threads
  BY <1>1, <1>3 DEF Frame, Selecting, Suspended
<1>. HIDE DEF f
<1>5. TypeOK'
  BY <1>1 DEF TypeOK, ThreadStates, tickets, semaphore
<1>6. UnusedIsIdle' /\ MainsLabels'
  BY <1>1 DEF UnusedIsIdle, MainsLabels, TypeOK
<1>7. PreemptTypeOK' /\ BooksBalance'
  BY <1>1, <1>2, <1>4, TopKeepsTypes, SameBooks
<1>8. /\ OthersSuspended' /\ CurrentIsLastAssigned'
      /\ NeverLeft' /\ FirstSavesItself'
  BY <1>1, <1>4, StillSelecting
<1>9. WrittenInOrder'
  <2>1. CASE interrupts = 0
    <3>1. Len(frames[cpu]) = 1 /\ Top = frames[cpu][1]
      BY <1>1, <2>1, OneCall
    <3>2. frames'[cpu][1] = f
      BY <1>1, <1>4, <3>1, TopEffect
    <3>3. state[cpu] \in {"Unused", "Blocked", "Ready"}
      BY <1>1, <1>2, <2>1, <3>1 DEF WrittenInOrder
    <3>4. /\ state'[Top.sel] = "Running"
          /\ Top.sel = cpu \/ state'[cpu] \in {"Unused", "Blocked", "Ready"}
      BY <1>1, <1>2, <1>4, <3>3 DEF TypeOK
    <3>. QED  BY <1>1, <1>4, <3>2, <3>4 DEF WrittenInOrder
  <2>2. CASE interrupts # 0
    BY <1>1, <2>2 DEF WrittenInOrder
  <2>. QED  BY <2>1, <2>2
<1>. QED  BY <1>1, <1>5, <1>6, <1>7, <1>8, <1>9

(***************************************************************************)
(* The assignment.  If a call below is about to switch to another thread,  *)
(* old is now that thread, and this call saves the registers there.        *)
(***************************************************************************)
LEMMA AssignEffect ==
    ASSUME PreemptInv, Assign
    PROVE  /\ process = "up" /\ ~ Idle /\ cpu \in Threads /\ gt_current \in Threads
           /\ Top \in Frame /\ Selecting(Top) /\ Top.at = "assign"
           /\ Top.sel \in Threads /\ gt_current' = Top.sel
           /\ UNCHANGED <<current_algorithm, state, tickets, semaphore, created,
                          alarm, pc, process, cpu, interrupts>>
           /\ \E f \in Frame :
                 /\ SetTop(f) /\ ~ Selecting(f)
                 /\ f.at = "switch" /\ f.sel = Top.sel /\ f.old = gt_current
<1>. DEFINE f == [Top EXCEPT !.at = "switch", !.old = gt_current]
<1>1. /\ process = "up" /\ ~ Idle /\ Top.at = "assign" /\ SetTop(f)
      /\ gt_current' = Top.sel
      /\ UNCHANGED <<current_algorithm, state, tickets, semaphore, created,
                     alarm, pc, process, cpu, interrupts>>
  BY DEF Assign, InCall
<1>2. cpu \in Threads /\ frames[cpu] \in Seq(Frame) /\ frames[cpu] # <<>>
  BY <1>1 DEF PreemptInv, PreemptTypeOK, Idle
<1>3. gt_current \in Threads
  BY <1>1 DEF PreemptInv, TypeOK
<1>4. Top \in Frame
  BY <1>2, Popped DEF Top
<1>. HIDE DEF Top
<1>5. Top \in [at : {"demote", "promote", "assign"}, sel : Threads, old : {None}]
  BY <1>1, <1>4 DEF Frame, Suspended
<1>6. /\ f \in [at : {"switch"}, sel : Threads, old : Threads]
      /\ f.sel = Top.sel /\ f.old = gt_current /\ f.at = "switch"
  BY <1>3, <1>5
<1>. HIDE DEF f
<1>7. f \in Frame /\ ~ Selecting(f) /\ Selecting(Top) /\ Top.sel \in Threads
  BY <1>1, <1>5, <1>6 DEF Frame, Selecting
<1>. QED  BY <1>1, <1>2, <1>3, <1>4, <1>6, <1>7

LEMMA AssignStacks ==
    ASSUME PreemptInv, Assign
    PROVE  /\ OthersSuspended' /\ CurrentIsLastAssigned'
           /\ NeverLeft' /\ FirstSavesItself'
<1>. DEFINE n == Len(frames[cpu])
<1>1. /\ process = "up" /\ ~ Idle /\ cpu \in Threads /\ cpu' = cpu
      /\ Selecting(Top) /\ gt_current' = Top.sel
  BY AssignEffect
<1>2. PICK f \in Frame :
         /\ SetTop(f) /\ ~ Selecting(f)
         /\ f.at = "switch" /\ f.sel = Top.sel /\ f.old = gt_current
  BY AssignEffect
<1>3. /\ n \in Nat \ {0} /\ Top = frames[cpu][n]
      /\ \A t \in Threads \ {cpu} : frames'[t] = frames[t]
      /\ Len(frames'[cpu]) = n /\ frames'[cpu][n] = f
      /\ \A k \in 1 .. n - 1 : frames'[cpu][k] = frames[cpu][k]
  BY <1>1, <1>2, TopEffect
<1>4. OthersSuspended'
  BY <1>1, <1>3 DEF PreemptInv, OthersSuspended
(* If only calls that select are above position k, gt_current is not changed
   by them. *)
<1>5. ASSUME NEW k \in 0 .. n - 1,
             \A j \in k + 1 .. n - 1 : Selecting(frames[cpu][j])
      PROVE  /\ k = 0 => gt_current = cpu
             /\ k > 0 /\ frames[cpu][k].at = "switch"
                   => gt_current = frames[cpu][k].sel
  <2>1. ASSUME NEW j \in k + 1 .. n  PROVE Selecting(frames[cpu][j])
    <3>1. j = n \/ j \in k + 1 .. n - 1
      BY <1>3
    <3>. QED  BY <1>1, <1>3, <1>5, <3>1
  <2>2. k \in 0 .. n
    BY <1>3
  <2>. QED
    BY <1>1, <2>1, <2>2 DEF PreemptInv, CurrentIsLastAssigned, SelectingAbove
<1>6. FirstSavesItself'
  <2>1. ASSUME NEW t \in Threads, frames'[t] # <<>>, frames'[t][1].at = "switch"
        PROVE  frames'[t][1].old = t
    <3>1. CASE t # cpu
      BY <1>1, <1>3, <2>1, <3>1 DEF PreemptInv, FirstSavesItself
    <3>2. CASE t = cpu /\ n = 1
      <4>1. 0 \in 0 .. n - 1 /\ \A j \in 0 + 1 .. n - 1 : FALSE
        BY <3>2
      <4>2. gt_current = cpu
        BY <1>5, <4>1
      <4>. QED  BY <1>2, <1>3, <3>2, <4>2
    <3>3. CASE t = cpu /\ n # 1
      <4>1. 1 \in 1 .. n - 1
        <5>1. \A m \in Nat \ {0} : m # 1 => 1 \in 1 .. m - 1
          OBVIOUS
        <5>. QED  BY <1>3, <3>3, <5>1
      <4>2. frames'[t][1] = frames[t][1]
        BY <1>3, <3>3, <4>1
      <4>. QED
        BY <1>1, <2>1, <3>3, <4>2 DEF PreemptInv, FirstSavesItself, Idle
    <3>. QED  BY <3>1, <3>2, <3>3
  <2>. QED  BY <2>1 DEF FirstSavesItself
<1>7. CurrentIsLastAssigned'
  <2>1. ASSUME NEW k \in 0 .. n,
               \A j \in k + 1 .. n : Selecting(frames'[cpu][j])
        PROVE  k = n
    <3>1. n \in k + 1 .. n => Selecting(f)
      BY <1>3, <2>1
    <3>. QED  BY <1>2, <1>3, <3>1
  <2>2. ASSUME NEW k \in 0 .. n,
               \A j \in k + 1 .. n : Selecting(frames'[cpu][j])
        PROVE  /\ k = 0 => gt_current' = cpu
               /\ k > 0 =>
                    /\ frames'[cpu][k].at = "back" => gt_current' = cpu
                    /\ frames'[cpu][k].at = "switch" =>
                           gt_current' = frames'[cpu][k].sel
    <3>1. k = n /\ k # 0
      BY <1>3, <2>1, <2>2
    <3>. QED  BY <1>1, <1>2, <1>3, <3>1
  <2>. QED  BY <1>1, <1>3, <2>2 DEF CurrentIsLastAssigned, SelectingAbove
<1>8. NeverLeft'
  <2>1. ASSUME NEW t \in Threads,
               NEW j \in 1 .. Len(frames'[t]), NEW k \in 1 .. Len(frames'[t]), j < k,
               frames'[t][j].at = "switch", frames'[t][j].sel # t,
               ~ Selecting(frames'[t][k])
        PROVE  \E l \in 1 .. Len(frames'[t]) :
                  l > j /\ frames'[t][l].at = "switch" /\ frames'[t][l].old # t
    <3>1. CASE t # cpu
      BY <1>1, <1>3, <2>1, <3>1 DEF PreemptInv, NeverLeft
    <3>2. CASE t = cpu
      <4>1. /\ j \in 1 .. n - 1 /\ j \in 0 .. n - 1 /\ j > 0 /\ n > j
            /\ j \in 1 .. n /\ n \in 1 .. n
        BY <1>3, <2>1, <3>2
      <4>2. frames'[cpu][j] = frames[cpu][j]
        BY <1>3, <4>1
      <4>3. CASE \A m \in j + 1 .. n - 1 : Selecting(frames[cpu][m])
        <5>1. gt_current = frames[cpu][j].sel
          BY <1>5, <2>1, <3>2, <4>1, <4>2, <4>3
        <5>2. frames'[cpu][n].at = "switch" /\ frames'[cpu][n].old # cpu
          BY <1>2, <1>3, <2>1, <3>2, <4>2, <5>1
        <5>. QED  BY <1>3, <3>2, <4>1, <5>2
      <4>4. CASE \E m \in j + 1 .. n - 1 : ~ Selecting(frames[cpu][m])
        <5>1. PICK m \in j + 1 .. n - 1 : ~ Selecting(frames[cpu][m])
          BY <4>4
        <5>2. m \in 1 .. n /\ j < m
          BY <1>3, <4>1
        <5>3. PICK l \in 1 .. n :
                 l > j /\ frames[cpu][l].at = "switch" /\ frames[cpu][l].old # cpu
          BY <1>1, <2>1, <3>2, <4>1, <4>2, <5>1, <5>2 DEF PreemptInv, NeverLeft
        <5>4. frames[cpu][n].at # "switch"
          BY <1>1, <1>3 DEF Selecting
        <5>5. l \in 1 .. n - 1
          <6>1. l # n
            BY <5>3, <5>4
          <6>. QED  BY <1>3, <6>1
        <5>6. frames'[cpu][l] = frames[cpu][l]
          BY <1>3, <5>5
        <5>. QED  BY <1>3, <3>2, <5>3, <5>6
      <4>. QED  BY <4>3, <4>4
    <3>. QED  BY <3>1, <3>2
  <2>. QED  BY <2>1 DEF NeverLeft
<1>. QED  BY <1>4, <1>6, <1>7, <1>8

LEMMA AssignKeepsInv ==
    ASSUME PreemptInv, Assign
    PROVE  PreemptInv'
<1>1. /\ process = "up" /\ ~ Idle /\ cpu \in Threads /\ gt_current \in Threads
      /\ Top \in Frame /\ Selecting(Top) /\ Top.at = "assign"
      /\ Top.sel \in Threads /\ gt_current' = Top.sel
      /\ UNCHANGED <<current_algorithm, state, tickets, semaphore, created,
                     alarm, pc, process, cpu, interrupts>>
  BY AssignEffect
<1>2. PICK f \in Frame :
         /\ SetTop(f) /\ ~ Selecting(f)
         /\ f.at = "switch" /\ f.sel = Top.sel /\ f.old = gt_current
  BY AssignEffect
<1>3. TypeOK'
  BY <1>1 DEF PreemptInv, TypeOK, tickets, semaphore
<1>4. UnusedIsIdle' /\ MainsLabels'
  BY <1>1 DEF PreemptInv, UnusedIsIdle, MainsLabels
<1>5. PreemptTypeOK'
  <2>1. process \in {"up", "exited", "context lost"}
    BY <1>1
  <2>. QED  BY <1>1, <1>2, <2>1, TopKeepsTypes
<1>6. BooksBalance'
  BY <1>1, SameBooks
<1>7. WrittenInOrder'
  <2>1. CASE interrupts = 0
    <3>1. Len(frames[cpu]) = 1 /\ Top = frames[cpu][1]
      BY <1>1, <2>1, OneCall
    <3>2. frames'[cpu][1] = f
      BY <1>1, <1>2, <3>1, TopEffect
    <3>3. /\ state[Top.sel] = "Running"
          /\ Top.sel = cpu \/ state[cpu] \in {"Unused", "Blocked", "Ready"}
      BY <1>1, <2>1, <3>1 DEF PreemptInv, WrittenInOrder, Idle
    <3>. QED  BY <1>1, <1>2, <3>2, <3>3 DEF WrittenInOrder
  <2>2. CASE interrupts # 0
    BY <1>1, <2>2 DEF WrittenInOrder
  <2>. QED  BY <2>1, <2>2
<1>8. /\ OthersSuspended' /\ CurrentIsLastAssigned'
      /\ NeverLeft' /\ FirstSavesItself'
  BY AssignStacks
<1>. QED  BY <1>1, <1>3, <1>4, <1>5, <1>6, <1>7, <1>8 DEF PreemptInv

(***************************************************************************)
(* gt_switch.  It finds gt_current at the thread it switches to, because   *)
(* nothing has assigned it since this call has; and the thread it goes to  *)
(* has itself left its stack in gt_switch, or not run yet.                 *)
(***************************************************************************)
LEMMA SwitchStacks ==
    ASSUME PreemptInv, gt_switch, Top.old = cpu
    PROVE  /\ OthersSuspended' /\ CurrentIsLastAssigned'
           /\ NeverLeft' /\ FirstSavesItself' /\ WrittenInOrder'
           /\ PreemptTypeOK' /\ cpu' \in Threads
           /\ frames'[cpu'] # <<>>
                 => frames'[cpu'][Len(frames'[cpu'])] = Suspended
<1>. DEFINE n == Len(frames[cpu])
<1>1. /\ process = "up" /\ ~ Idle /\ Top.at = "switch" /\ SetTop(Suspended)
      /\ cpu' = Top.sel
      /\ UNCHANGED <<gt_current, process, interrupts>>
  BY DEF gt_switch, InCall
<1>2. Suspended \in Frame /\ Suspended.at = "back" /\ ~ Selecting(Suspended)
  BY DEF Frame, Suspended, Selecting
<1>3. /\ cpu \in Threads /\ n \in Nat \ {0} /\ Top = frames[cpu][n]
      /\ Top \in Frame
      /\ frames' \in [Threads -> Seq(Frame)]
      /\ \A t \in Threads \ {cpu} : frames'[t] = frames[t]
      /\ Len(frames'[cpu]) = n /\ frames'[cpu][n] = Suspended
      /\ \A k \in 1 .. n - 1 : frames'[cpu][k] = frames[cpu][k]
  BY <1>1, <1>2, TopEffect
<1>4. cpu' \in Threads /\ ~ Selecting(Top)
  BY <1>1, <1>3, Frames DEF Selecting
<1>5. \A k \in 1 .. n : \/ k = n
                        \/ k \in 1 .. n - 1 /\ frames'[cpu][k] = frames[cpu][k]
  BY <1>3
<1>6. gt_current = cpu'
  <2>1. n \in 0 .. n /\ n > 0 /\ \A j \in n + 1 .. n : FALSE
    BY <1>3
  <2>. QED
    BY <1>1, <1>3, <2>1 DEF PreemptInv, CurrentIsLastAssigned, SelectingAbove
(* Every stack is empty, or its innermost call is in gt_switch. *)
<1>7. ASSUME NEW t \in Threads, frames'[t] # <<>>
      PROVE  frames'[t][Len(frames'[t])] = Suspended
  <2>1. CASE t = cpu
    BY <1>3, <2>1
  <2>2. CASE t # cpu
    BY <1>1, <1>3, <1>7, <2>2 DEF PreemptInv, OthersSuspended
  <2>. QED  BY <2>1, <2>2
<1>8. OthersSuspended'
  BY <1>7 DEF OthersSuspended
<1>9. PreemptTypeOK'
  <2>1. process' \in {"up", "exited", "context lost"}
    BY <1>1
  <2>. QED  BY <1>1, <1>2, <1>4, <2>1, TopKeepsTypes
<1>10. FirstSavesItself'
  <2>1. ASSUME NEW t \in Threads, frames'[t] # <<>>, frames'[t][1].at = "switch"
        PROVE  frames'[t][1].old = t
    <3>1. CASE t # cpu
      BY <1>1, <1>3, <2>1, <3>1 DEF PreemptInv, FirstSavesItself
    <3>2. CASE t = cpu
      <4>1. frames'[cpu][1] = frames[cpu][1]
        BY <1>2, <1>3, <1>5, <2>1, <3>2
      <4>. QED
        BY <1>1, <1>3, <2>1, <3>2, <4>1 DEF PreemptInv, FirstSavesItself, Idle
    <3>. QED  BY <3>1, <3>2
  <2>. QED  BY <2>1 DEF FirstSavesItself
<1>11. CurrentIsLastAssigned'
  <2>1. ASSUME NEW k \in 0 .. Len(frames'[cpu']),
               \A j \in k + 1 .. Len(frames'[cpu']) : Selecting(frames'[cpu'][j])
        PROVE  k > 0 => frames'[cpu'][k].at = "back"
    <3>1. CASE frames'[cpu'] = <<>>
      <4>1. Len(frames'[cpu']) = 0
        BY <3>1, EmptySeq
      <4>. QED  BY <2>1, <4>1
    <3>2. CASE frames'[cpu'] # <<>>
      <4>. DEFINE m == Len(frames'[cpu'])
      <4>1. frames'[cpu'][m] = Suspended
        BY <1>4, <1>7, <3>2
      <4>2. m \in Nat
        BY <1>3, <1>4, LenProperties
      <4>3. m \in k + 1 .. m => Selecting(Suspended)
        BY <2>1, <4>1
      <4>4. k = m
        BY <1>2, <2>1, <4>2, <4>3
      <4>. QED  BY <1>2, <4>1, <4>4
    <3>. QED  BY <3>1, <3>2
  <2>2. gt_current' = cpu'
    BY <1>1, <1>6
  <2>. QED  BY <2>1, <2>2 DEF CurrentIsLastAssigned, SelectingAbove
<1>12. NeverLeft'
  <2>1. ASSUME NEW t \in Threads,
               NEW j \in 1 .. Len(frames'[t]), NEW k \in 1 .. Len(frames'[t]), j < k,
               frames'[t][j].at = "switch", frames'[t][j].sel # t,
               ~ Selecting(frames'[t][k])
        PROVE  \E l \in 1 .. Len(frames'[t]) :
                  l > j /\ frames'[t][l].at = "switch" /\ frames'[t][l].old # t
    <3>1. CASE t # cpu
      <4>1. frames'[t] = frames[t] /\ NeverLeft
        BY <1>1, <1>3, <3>1 DEF PreemptInv
      <4>. QED  BY <2>1, <4>1 DEF NeverLeft
    <3>2. CASE t = cpu
      <4>1. j \in 1 .. n /\ k \in 1 .. n
        BY <1>3, <2>1, <3>2
      <4>2. frames'[cpu][j] = frames[cpu][j]
        BY <1>2, <1>3, <1>5, <2>1, <3>2, <4>1
      <4>3. ~ Selecting(frames[cpu][k])
        BY <1>3, <1>4, <1>5, <2>1, <3>2, <4>1
      <4>4. PICK l \in 1 .. n :
               l > j /\ frames[cpu][l].at = "switch" /\ frames[cpu][l].old # cpu
        BY <1>1, <1>3, <2>1, <3>2, <4>1, <4>2, <4>3 DEF PreemptInv, NeverLeft
      <4>5. frames'[cpu][l] = frames[cpu][l]
        BY <1>3, <1>5, <4>4
      <4>. QED  BY <1>3, <3>2, <4>4, <4>5
    <3>. QED  BY <3>1, <3>2
  <2>. QED  BY <2>1 DEF NeverLeft
<1>13. WrittenInOrder'
  <2>1. ASSUME interrupts' = 0, frames'[cpu'] # <<>>
        PROVE  frames'[cpu'][1].at = "back"
    <3>1. frames'[cpu'] \in Seq(Frame) /\ Len(frames'[cpu']) <= 0 + 1
      BY <1>4, <1>9, <2>1 DEF PreemptTypeOK
    <3>2. Len(frames'[cpu']) \in Nat \ {0}
      BY <2>1, <3>1, Popped
    <3>3. Len(frames'[cpu']) = 1
      <4>1. \A m \in Nat \ {0} : m <= 0 + 1 => m = 1
        OBVIOUS
      <4>. QED  BY <3>1, <3>2, <4>1
    <3>. QED  BY <1>2, <1>4, <1>7, <2>1, <3>3
  <2>. QED  BY <2>1 DEF WrittenInOrder
<1>. QED  BY <1>4, <1>7, <1>8, <1>9, <1>10, <1>11, <1>12, <1>13

LEMMA SwitchKeepsInv ==
    ASSUME PreemptInv, gt_switch
    PROVE  PreemptInv'
<1>1. /\ process = "up" /\ ~ Idle
      /\ UNCHANGED <<current_algorithm, state, gt_current, tickets, semaphore,
                     created, alarm, pc, interrupts>>
  BY DEF gt_switch, InCall
<1>2. BooksBalance'
  BY <1>1, SameBooks
<1>3. CASE Top.old = cpu
  <2>1. TypeOK' /\ UnusedIsIdle' /\ MainsLabels'
    <3>1. process' = process
      BY <1>3 DEF gt_switch
    <3>. QED
      BY <1>1, <3>1
      DEF PreemptInv, TypeOK, UnusedIsIdle, MainsLabels, tickets, semaphore
  <2>. QED  BY <1>2, <1>3, <2>1, SwitchStacks DEF PreemptInv
<1>4. CASE Top.old # cpu
  <2>1. process' = "context lost" /\ UNCHANGED <<cpu, frames>>
    BY <1>4 DEF gt_switch
  <2>2. PreemptTypeOK'
    BY <1>1, <2>1 DEF PreemptInv, PreemptTypeOK
  <2>. QED  BY <1>2, <2>1, <2>2 DEF PreemptInv
<1>. QED  BY <1>3, <1>4

(***************************************************************************)
(* gt_switch has come back.  A call below that is about to switch selected *)
(* this thread: had it selected another, this call would not come back.    *)
(***************************************************************************)
LEMMA BackKeepsInv ==
    ASSUME PreemptInv, Back
    PROVE  PreemptInv'
<1>. DEFINE n == Len(frames[cpu])
<1>1. /\ process = "up" /\ ~ Idle /\ Top.at = "back"
      /\ frames' = [frames EXCEPT ![cpu] = Front(@)]
      /\ UNCHANGED <<vars, cpu, interrupts>>
  BY DEF Back, InCall
<1>2. /\ cpu \in Threads /\ frames \in [Threads -> Seq(Frame)]
      /\ frames[cpu] \in Seq(Frame) /\ frames[cpu] # <<>>
  BY <1>1 DEF PreemptInv, PreemptTypeOK, Idle
<1>3. /\ n \in Nat \ {0} /\ Top = frames[cpu][n] /\ Top \in Frame
      /\ Front(frames[cpu]) \in Seq(Frame) /\ Len(Front(frames[cpu])) = n - 1
      /\ \A k \in 1 .. n - 1 : Front(frames[cpu])[k] = frames[cpu][k]
  BY <1>2, Popped DEF Top
<1>4. /\ frames' \in [Threads -> Seq(Frame)]
      /\ frames'[cpu] = Front(frames[cpu])
      /\ \A t \in Threads \ {cpu} : frames'[t] = frames[t]
  BY <1>1, <1>2, <1>3
<1>5. /\ Len(frames'[cpu]) = n - 1
      /\ \A k \in 1 .. n - 1 : frames'[cpu][k] = frames[cpu][k]
  BY <1>3, <1>4
<1>6. ~ Selecting(Top) /\ Top.at # "switch"
  BY <1>1 DEF Selecting
<1>7. UNCHANGED <<gt_current, state, pc, process, semaphore, tickets, created,
                  alarm, current_algorithm>>
  BY <1>1 DEF vars, tickets, semaphore
<1>8. TypeOK' /\ UnusedIsIdle' /\ MainsLabels' /\ BooksBalance'
  <2>1. TypeOK' /\ UnusedIsIdle' /\ MainsLabels'
    BY <1>1, <1>7
    DEF PreemptInv, TypeOK, UnusedIsIdle, MainsLabels, tickets, semaphore
  <2>. QED  BY <1>7, <2>1, SameBooks
<1>9. PreemptTypeOK'
  <2>1. ASSUME NEW t \in Threads  PROVE Len(frames'[t]) <= interrupts + 1
    <3>1. CASE t = cpu
      <4>1. n <= interrupts + 1
        BY <1>2 DEF PreemptInv, PreemptTypeOK
      <4>2. interrupts \in 0 .. MaxInterrupts /\ MaxInterrupts \in Nat
        BY PreemptAssumption DEF PreemptInv, PreemptTypeOK
      <4>. QED  BY <1>3, <1>5, <3>1, <4>1, <4>2
    <3>2. CASE t # cpu
      BY <1>4, <3>2 DEF PreemptInv, PreemptTypeOK
    <3>. QED  BY <3>1, <3>2
  <2>. QED  BY <1>1, <1>4, <1>7, <2>1 DEF PreemptInv, PreemptTypeOK
<1>10. OthersSuspended'
  BY <1>1, <1>4 DEF PreemptInv, OthersSuspended
<1>11. FirstSavesItself'
  <2>1. ASSUME NEW t \in Threads, frames'[t] # <<>>, frames'[t][1].at = "switch"
        PROVE  frames'[t][1].old = t
    <3>1. CASE t # cpu
      BY <1>1, <1>4, <2>1, <3>1 DEF PreemptInv, FirstSavesItself
    <3>2. CASE t = cpu
      <4>1. n - 1 # 0
        BY <1>3, <1>4, <2>1, <3>2, EmptySeq
      <4>2. 1 \in 1 .. n - 1
        <5>1. \A m \in Nat \ {0} : m - 1 # 0 => 1 \in 1 .. m - 1
          OBVIOUS
        <5>. QED  BY <1>3, <4>1, <5>1
      <4>3. frames'[cpu][1] = frames[cpu][1]
        BY <1>5, <4>2
      <4>. QED
        BY <1>1, <1>2, <2>1, <3>2, <4>3 DEF PreemptInv, FirstSavesItself
    <3>. QED  BY <3>1, <3>2
  <2>. QED  BY <2>1 DEF FirstSavesItself
<1>12. NeverLeft'
  <2>1. ASSUME NEW t \in Threads,
               NEW j \in 1 .. Len(frames'[t]), NEW k \in 1 .. Len(frames'[t]), j < k,
               frames'[t][j].at = "switch", frames'[t][j].sel # t,
               ~ Selecting(frames'[t][k])
        PROVE  \E l \in 1 .. Len(frames'[t]) :
                  l > j /\ frames'[t][l].at = "switch" /\ frames'[t][l].old # t
    <3>1. CASE t # cpu
      BY <1>1, <1>4, <2>1, <3>1 DEF PreemptInv, NeverLeft
    <3>2. CASE t = cpu
      <4>1. j \in 1 .. n - 1 /\ k \in 1 .. n - 1
        BY <1>5, <2>1, <3>2
      <4>2. j \in 1 .. n /\ k \in 1 .. n
        BY <1>3, <4>1
      <4>3. frames'[cpu][j] = frames[cpu][j] /\ frames'[cpu][k] = frames[cpu][k]
        BY <1>5, <4>1
      <4>4. PICK l \in 1 .. n :
               l > j /\ frames[cpu][l].at = "switch" /\ frames[cpu][l].old # cpu
        BY <1>1, <1>2, <2>1, <3>2, <4>2, <4>3 DEF PreemptInv, NeverLeft
      <4>5. l # n
        BY <1>3, <1>6, <4>4
      <4>6. l \in 1 .. n - 1
        BY <1>3, <4>4, <4>5
      <4>. QED  BY <1>5, <3>2, <4>4, <4>6
    <3>. QED  BY <3>1, <3>2
  <2>. QED  BY <2>1 DEF NeverLeft
<1>13. gt_current = cpu
  <2>1. n \in 0 .. n /\ n > 0 /\ \A j \in n + 1 .. n : FALSE
    BY <1>3
  <2>. QED
    BY <1>1, <1>3, <2>1 DEF PreemptInv, CurrentIsLastAssigned, SelectingAbove
<1>14. CurrentIsLastAssigned'
  <2>1. ASSUME NEW k \in 0 .. n - 1,
               \A j \in k + 1 .. n - 1 : Selecting(frames'[cpu][j]),
               k > 0, frames'[cpu][k].at = "switch"
        PROVE  frames'[cpu][k].sel = cpu
    <3>1. SUFFICES ASSUME frames'[cpu][k].sel # cpu  PROVE FALSE
      OBVIOUS
    <3>2. k \in 1 .. n - 1 /\ k \in 1 .. n /\ n \in 1 .. n /\ k < n
      BY <1>3, <2>1
    <3>3. frames[cpu][k].at = "switch" /\ frames[cpu][k].sel # cpu
      BY <1>5, <2>1, <3>1, <3>2
    <3>4. PICK l \in 1 .. n :
             l > k /\ frames[cpu][l].at = "switch" /\ frames[cpu][l].old # cpu
      BY <1>1, <1>2, <1>3, <1>6, <3>2, <3>3 DEF PreemptInv, NeverLeft
    <3>5. l # n
      BY <1>3, <1>6, <3>4
    <3>6. l \in k + 1 .. n - 1 /\ l \in 1 .. n - 1
      BY <1>3, <3>2, <3>4, <3>5
    <3>7. Selecting(frames[cpu][l])
      BY <1>5, <2>1, <3>6
    <3>. QED  BY <3>4, <3>7 DEF Selecting
  <2>. QED
    BY <1>1, <1>5, <1>7, <1>13, <2>1 DEF CurrentIsLastAssigned, SelectingAbove
<1>15. WrittenInOrder'
  <2>1. ASSUME interrupts' = 0  PROVE frames'[cpu] = <<>>
    <3>1. n = 1
      BY <1>1, <2>1, OneCall
    <3>2. Len(frames'[cpu]) = 0
      BY <1>5, <3>1
    <3>. QED  BY <1>3, <1>4, <3>2, EmptySeq
  <2>. QED  BY <1>1, <2>1 DEF WrittenInOrder
<1>. QED
  BY <1>1, <1>8, <1>9, <1>10, <1>11, <1>12, <1>14, <1>15 DEF PreemptInv

-------------------------------------------------------------------------------
(* The invariant *)

LEMMA PreemptInvIsKept == PreemptInv /\ [PreemptNext]_preemptVars => PreemptInv'
<1>1. ASSUME PreemptInv, UNCHANGED preemptVars  PROVE PreemptInv'
  <2>1. UNCHANGED <<cpu, frames, interrupts, gt_current, state, pc, process,
                    semaphore, tickets, created, alarm, current_algorithm>>
    BY <1>1 DEF preemptVars, vars, tickets, semaphore
  <2>2. BooksBalance'
    BY <1>1, <2>1, SameBooks
  <2>3. PreemptTypeOK'
    BY <1>1, <2>1 DEF PreemptInv, PreemptTypeOK
  <2>4. CASE process = "up"
    <3>1. TypeOK' /\ UnusedIsIdle' /\ MainsLabels' /\ WrittenInOrder'
      BY <1>1, <2>1, <2>4
      DEF PreemptInv, TypeOK, UnusedIsIdle, MainsLabels, WrittenInOrder,
          tickets, semaphore
    <3>. QED  BY <1>1, <2>1, <2>2, <2>3, <2>4, <3>1, SameStacks DEF PreemptInv
  <2>. QED  BY <2>1, <2>2, <2>3, <2>4 DEF PreemptInv
<1>. QED
  BY <1>1, CodeKeepsInv, CodeCallsKeepInv, AlarmKeepsInv, DemoteKeepsInv,
     PromoteKeepsInv, AssignKeepsInv, SwitchKeepsInv, BackKeepsInv
  DEF PreemptNext

LEMMA PreemptInvAlways == PreemptSpec => []PreemptInv
BY InitHolds, PreemptInvIsKept, PTL DEF PreemptSpec

(* The stacks hold calls of gt_schedule, at most one more than calls have been
   interrupted. *)
THEOREM PreemptTypeCorrect == PreemptSpec => []PreemptTypeOK
<1>1. PreemptInv => PreemptTypeOK
  BY DEF PreemptInv
<1>. QED  BY <1>1, PreemptInvAlways, PTL

(* A function run by a thread never executes while gt_current is another one,
   wherever SIGALRM interrupts gt_schedule: a call that would return with the
   wrong gt_current has lost the context of its thread before. *)
THEOREM CodeNeverSeesAnother == PreemptSpec => []CodeRunsAsCurrent
<1>1. PreemptInv => CodeRunsAsCurrent
  BY IdleIsCurrent DEF CodeRunsAsCurrent
<1>. QED  BY <1>1, PreemptInvAlways, PTL

(* Interrupted calls of gt_schedule do not disturb the books of gt_sem_wait and
   gt_sem_post. *)
THEOREM BooksBalanceInterrupted == PreemptSpec => []BooksBalance
<1>1. PreemptInv => BooksBalance
  BY DEF PreemptInv
<1>. QED  BY <1>1, PreemptInvAlways, PTL

-------------------------------------------------------------------------------
(* Until the first interruption *)

(* The thread table st after a switch from c to s. *)
Switched(st, c, s) ==
    [st EXCEPT ![c] = IF @ \in {"Unused", "Blocked"} THEN @ ELSE "Ready",
               ![s] = "Running"]

LEMMA SwitchedStates ==
    ASSUME NEW st \in [Threads -> ThreadStates], NEW c \in Threads,
           NEW s \in Threads
    PROVE  Switched(st, c, s) =
              [t \in Threads |->
                  IF t = s THEN "Running"
                  ELSE IF t = c /\ st[c] \notin {"Unused", "Blocked"} THEN "Ready"
                  ELSE st[t]]
BY DEF Switched

(* The instance has the same table and the same selection algorithms. *)
LEMMA SameAlgorithms ==
    /\ Atomic!Threads = Threads /\ Atomic!Main = Main /\ Atomic!None = None
    /\ \A st, cur :
          /\ Atomic!RoundRobinSelect(st, cur) = RoundRobinSelect(st, cur)
          /\ Atomic!PriorityBasedSelect(st, cur) = PriorityBasedSelect(st, cur)
          /\ \A start, end, ticket :
                Atomic!LotterySelect(st, cur, start, end, ticket) =
                   LotterySelect(st, cur, start, end, ticket)
<1>1. Atomic!Threads = Threads /\ Atomic!Main = Main /\ Atomic!None = None
  BY DEF Atomic!Threads, Threads, Atomic!Main, Main, Atomic!None, None
<1>. HIDE DEF Threads, Main, None
<1>2. ASSUME NEW st, NEW cur
      PROVE  /\ Atomic!OtherReady(st, cur) = OtherReady(st, cur)
             /\ Atomic!FirstReady(st, cur) = FirstReady(st, cur)
  BY <1>1
  DEF Atomic!OtherReady, OtherReady, Atomic!FirstReady, FirstReady, Atomic!Rank, Rank
<1>3. ASSUME NEW st, NEW cur
      PROVE  /\ Atomic!RoundRobinSelect(st, cur) = RoundRobinSelect(st, cur)
             /\ Atomic!PriorityBasedSelect(st, cur) = PriorityBasedSelect(st, cur)
  BY <1>1, <1>2
  DEF Atomic!RoundRobinSelect, RoundRobinSelect, Atomic!PriorityBasedSelect,
      PriorityBasedSelect
<1>4. ASSUME NEW st, NEW cur, NEW start, NEW end, NEW ticket
      PROVE  Atomic!LotterySelect(st, cur, start, end, ticket) =
                LotterySelect(st, cur, start, end, ticket)
  <2>1. Atomic!Owners(st, start, end, ticket) = Owners(st, start, end, ticket)
    BY <1>1 DEF Atomic!Owners, Owners
  <2>. QED  BY <1>1, <1>3, <2>1 DEF Atomic!LotterySelect, LotterySelect
<1>. QED  BY <1>1, <1>3, <1>4

(* Outside the writes of a call the two specifications see the same table. *)
LEMMA NotSwitching ==
    ASSUME ~ Switching
    PROVE  /\ AtomicState = state /\ AtomicCurrent = gt_current
           /\ Atomic!Picks = Picks
<1>1. AtomicState = state /\ AtomicCurrent = gt_current
  BY DEF AtomicState, AtomicCurrent
<1>. HIDE DEF AtomicState, AtomicCurrent
<1>2. Atomic!Picks = Picks
  BY <1>1, SameAlgorithms DEF Atomic!Picks, Picks
<1>. QED  BY <1>1, <1>2

LEMMA IdleIsNotSwitching ==
    /\ Idle => ~ Switching
    /\ Idle' => ~ Switching'
BY DEF Switching

(* The code outside gt_schedule does what it does there. *)
LEMMA CodeIsAtomic ==
    ASSUME PreemptInv, Code
    PROVE  Atomic!Next
<1>1. /\ Idle /\ process = "up" /\ cpu \in Threads /\ frames' = frames
      /\ cpu' = cpu
  BY DEF Code, gt_create, MainReturns, gt_sem_wait, WaitReturns, gt_sem_post, At,
         PreemptInv, PreemptTypeOK
<1>2. Idle'
  BY <1>1 DEF Idle
<1>3. /\ AtomicState = state /\ AtomicCurrent = gt_current
      /\ AtomicState' = state' /\ AtomicCurrent' = gt_current'
  BY <1>1, <1>2, IdleIsNotSwitching DEF AtomicState, AtomicCurrent
<1>. HIDE DEF AtomicState, AtomicCurrent
<1>4. ASSUME gt_create  PROVE Atomic!gt_create
  BY <1>3, <1>4, SameAlgorithms
  DEF gt_create, Atomic!gt_create, At, Atomic!At, EmptySlot, Atomic!EmptySlot,
      assign_tickets, Atomic!assign_tickets, ValidPriority, Atomic!ValidPriority,
      Goto, Atomic!Goto, tickets, semaphore, Atomic!tickets, Atomic!semaphore
<1>5. ASSUME MainReturns  PROVE Atomic!MainReturns
  BY <1>3, <1>5, SameAlgorithms
  DEF MainReturns, Atomic!MainReturns, At, Atomic!At, Goto, Atomic!Goto,
      tickets, semaphore, Atomic!tickets, Atomic!semaphore
<1>6. ASSUME gt_sem_wait(cpu)  PROVE Atomic!gt_sem_wait(cpu)
  BY <1>3, <1>6
  DEF gt_sem_wait, Atomic!gt_sem_wait, At, Atomic!At, Goto, Atomic!Goto,
      Available, Atomic!Available, Enqueue, Atomic!Enqueue,
      tickets, semaphore, Atomic!tickets, Atomic!semaphore
<1>7. ASSUME WaitReturns(cpu)  PROVE Atomic!WaitReturns(cpu)
  BY <1>3, <1>7
  DEF WaitReturns, Atomic!WaitReturns, At, Atomic!At, Goto, Atomic!Goto,
      tickets, semaphore, Atomic!tickets, Atomic!semaphore
<1>8. ASSUME gt_sem_post(cpu)  PROVE Atomic!gt_sem_post(cpu)
  BY <1>3, <1>8
  DEF gt_sem_post, Atomic!gt_sem_post, At, Atomic!At, Goto, Atomic!Goto,
      HandOver, Atomic!HandOver, tickets, Atomic!tickets
<1>9. Main \in Threads /\ Atomic!Main = Main /\ Atomic!Threads = Threads
  BY MainIsThread, SameAlgorithms
<1>. QED
  BY <1>1, <1>4, <1>5, <1>6, <1>7, <1>8, <1>9
  DEF Code, Atomic!Next, Atomic!Step

(* A new call switches at once there. *)
LEMMA CallIsYield ==
    ASSUME PreemptInv, process = "up", Idle, NEW label, Call(label)
    PROVE  Atomic!Yield(label)
<1>1. PICK s \in Picks \ {None} :
          frames' = [frames EXCEPT ![cpu] =
                        Append(@, [at |-> "demote", sel |-> s, old |-> None])]
  BY DEF Call
<1>. DEFINE f == [at |-> "demote", sel |-> s, old |-> None]
<1>2. s \in Threads /\ cpu \in Threads /\ gt_current = cpu
  <2>1. TypeOK
    BY DEF PreemptInv
  <2>. QED  BY <1>1, <2>1, IdleIsCurrent, PicksAreThreads
<1>3. f \in Frame /\ f.at = "demote" /\ f.sel = s
  BY <1>2 DEF Frame
<1>. HIDE DEF f
<1>4. frames'[cpu] = Append(<<>>, f) /\ cpu' = cpu
  <2>1. frames' = [frames EXCEPT ![cpu] = Append(@, f)]
    BY <1>1 DEF f
  <2>. QED  BY <1>2, <2>1 DEF Call, Idle, PreemptInv, PreemptTypeOK
<1>5. ~ Idle' /\ Top' = f
  <2>1. <<>> \in Seq(Frame) /\ Len(<<>>) = 0
    BY EmptySeq
  <2>2. /\ Append(<<>>, f) \in Seq(Frame)
        /\ Len(Append(<<>>, f)) = 0 + 1 /\ Append(<<>>, f)[0 + 1] = f
    BY <1>3, <2>1, Pushed
  <2>3. Append(<<>>, f) # <<>>
    BY <2>1, <2>2
  <2>4. Last(Append(<<>>, f)) = f
    BY <2>2 DEF Last
  <2>. QED  BY <1>4, <2>3, <2>4 DEF Idle, Top
<1>6. /\ AtomicState = state /\ AtomicCurrent = gt_current
      /\ Atomic!Picks = Picks
  BY IdleIsNotSwitching, NotSwitching
<1>7. /\ AtomicCurrent' = s
      /\ AtomicState' = [state EXCEPT
               ![gt_current] = IF @ \in {"Unused", "Blocked"} THEN @ ELSE "Ready",
               ![s] = "Running"]
  <2>1. Switching' /\ Top.sel' = s /\ cpu' = gt_current /\ state' = state
    BY <1>2, <1>3, <1>4, <1>5 DEF Switching, Call
  <2>. QED  BY <2>1 DEF AtomicState, AtomicCurrent
<1>. HIDE DEF AtomicState, AtomicCurrent
<1>8. Atomic!Switch(s)
  BY <1>6, <1>7 DEF Atomic!Switch
<1>. QED
  BY <1>1, <1>2, <1>6, <1>8, SameAlgorithms
  DEF Call, Atomic!Yield, Goto, Atomic!Goto, tickets, semaphore, Atomic!tickets,
      Atomic!semaphore

(* So does a call that finds no thread. *)
LEMMA FailedCallIsFailedYield ==
    ASSUME PreemptInv, process = "up", Idle, NEW label, FailedCall(label)
    PROVE  Atomic!FailedYield(label)
<1>1. gt_current = cpu
  BY IdleIsCurrent
<1>2. /\ AtomicState = state /\ AtomicCurrent = gt_current
      /\ Atomic!Picks = Picks /\ Atomic!None = None
  BY IdleIsNotSwitching, NotSwitching, SameAlgorithms
<1>3. AtomicState' = state' /\ AtomicCurrent' = gt_current'
  <2>1. Idle'
    BY DEF FailedCall, Idle
  <2>. QED  BY <2>1, IdleIsNotSwitching DEF AtomicState, AtomicCurrent
<1>. HIDE DEF AtomicState, AtomicCurrent
<1>. QED
  BY <1>1, <1>2, <1>3
  DEF FailedCall, Atomic!FailedYield, Goto, Atomic!Goto, tickets, semaphore,
      Atomic!tickets, Atomic!semaphore

LEMMA CodeCallsAreAtomic ==
    ASSUME PreemptInv, CodeCalls
    PROVE  Atomic!Next
<1>1. PICK point \in DOMAIN Then :
          /\ At(cpu, point)
          /\ \/ Call(Then[point]) /\ UNCHANGED interrupts
             \/ FailedCall(Then[point])
  BY DEF CodeCalls
<1>2. /\ process = "up" /\ Idle /\ pc[cpu] = point /\ gt_current = cpu
      /\ cpu \in Threads
  BY <1>1 DEF CodeCalls, At, PreemptInv, PreemptTypeOK
<1>3. /\ point \in {"yield", "waiting", "posted"}
      /\ Then["yield"] = "yield" /\ Then["waiting"] = "parked"
      /\ Then["posted"] = "top"
  BY DEF Then
<1>4. AtomicCurrent = cpu /\ Atomic!Main = Main /\ Atomic!Threads = Threads
  BY <1>2, IdleIsNotSwitching, NotSwitching, SameAlgorithms
<1>5. cpu = Main <=> point = "yield"
  BY <1>2, <1>3 DEF PreemptInv, MainsLabels
<1>6. \/ Atomic!Yield(Then[point]) /\ UNCHANGED process
      \/ /\ Atomic!FailedYield(Then[point])
         /\ process' = IF cpu = Main THEN "exited" ELSE process
  <2>1. ASSUME Call(Then[point])
        PROVE  Atomic!Yield(Then[point]) /\ UNCHANGED process
    <3>1. UNCHANGED process
      BY <2>1 DEF Call
    <3>. QED  BY <1>2, <2>1, <3>1, CallIsYield
  <2>2. ASSUME FailedCall(Then[point])
        PROVE  /\ Atomic!FailedYield(Then[point])
               /\ process' = IF cpu = Main THEN "exited" ELSE process
    <3>1. process' = IF cpu = Main THEN "exited" ELSE process
      BY <2>2 DEF FailedCall
    <3>. QED  BY <1>2, <2>2, <3>1, FailedCallIsFailedYield
  <2>. QED  BY <1>1, <2>1, <2>2
<1>7. Atomic!At(cpu, point)
  BY <1>2, <1>4 DEF Atomic!At
<1>8. CASE point = "yield"
  <2>1. Atomic!MainYields
    BY <1>3, <1>4, <1>5, <1>6, <1>7, <1>8 DEF Atomic!MainYields
  <2>. QED  BY <1>2, <1>4, <1>5, <1>8, <2>1 DEF Atomic!Next, Atomic!Step
<1>9. CASE point = "waiting"
  <2>1. Atomic!WaitYields(cpu)
    BY <1>3, <1>5, <1>6, <1>7, <1>9 DEF Atomic!WaitYields
  <2>. QED  BY <1>2, <1>4, <2>1 DEF Atomic!Next, Atomic!Step
<1>10. CASE point = "posted"
  <2>1. Atomic!PostYields(cpu)
    BY <1>3, <1>5, <1>6, <1>7, <1>10 DEF Atomic!PostYields
  <2>. QED  BY <1>2, <1>4, <2>1 DEF Atomic!Next, Atomic!Step
<1>. QED  BY <1>3, <1>8, <1>9, <1>10

LEMMA AlarmIsAtomic ==
    ASSUME PreemptInv, gt_alarm_handle, interrupts' = 0
    PROVE  Atomic!Next
<1>1. process = "up" /\ alarm /\ Call(pc[cpu])
  BY DEF gt_alarm_handle
<1>2. Idle
  <2>1. interrupts \in 0 .. MaxInterrupts /\ MaxInterrupts \in Nat
    BY PreemptAssumption DEF PreemptInv, PreemptTypeOK
  <2>2. interrupts + 1 # 0
    BY <2>1
  <2>. QED  BY <2>2 DEF gt_alarm_handle
<1>3. AtomicCurrent = cpu
  BY <1>1, <1>2, IdleIsCurrent, IdleIsNotSwitching, NotSwitching
<1>4. Atomic!Yield(pc[cpu])
  BY <1>1, <1>2, CallIsYield
<1>. QED  BY <1>1, <1>3, <1>4 DEF Atomic!Next, Atomic!Alarm

(* The innermost call after one of its writes. *)
LEMMA TopAfter ==
    ASSUME PreemptInv, ~ Idle, NEW f \in Frame, SetTop(f), cpu' = cpu
    PROVE  ~ Idle' /\ Top' = f
<1>1. /\ Len(frames[cpu]) \in Nat \ {0} /\ Len(frames'[cpu]) = Len(frames[cpu])
      /\ frames'[cpu][Len(frames[cpu])] = f
  BY TopEffect
<1>2. frames'[cpu] # <<>>
  BY <1>1, EmptySeq
<1>. QED  BY <1>1, <1>2 DEF Idle, Top, Last

(***************************************************************************)
(* The writes of a call are parts of a switch that has taken place: if the *)
(* table with the rest of the writes is the same afterwards, nothing has   *)
(* happened in GThread.                                                    *)
(***************************************************************************)
LEMMA WriteIsStutter ==
    ASSUME PreemptInv, ~ Idle, Selecting(Top), NEW f \in Frame, SetTop(f),
           f.at \in {"promote", "assign", "switch"}, f.sel = Top.sel,
           Switched(state', cpu, f.sel) = Switched(state, cpu, f.sel),
           UNCHANGED <<current_algorithm, tickets, semaphore, created, alarm, pc,
                       process, cpu>>
    PROVE  UNCHANGED Atomic!vars
<1>1. ~ Idle' /\ Top' = f /\ cpu' = cpu
  BY TopAfter
<1>2. Switching
  BY DEF Switching, Selecting
<1>3. Switching'
  BY <1>1 DEF Switching
<1>4. AtomicCurrent' = AtomicCurrent
  BY <1>1, <1>2, <1>3 DEF AtomicCurrent
<1>5. AtomicState' = AtomicState
  <2>1. AtomicState = Switched(state, cpu, Top.sel)
    BY <1>2 DEF AtomicState, Switched
  <2>2. AtomicState' = Switched(state', cpu, f.sel)
    BY <1>1, <1>3 DEF AtomicState, Switched
  <2>. QED  BY <2>1, <2>2
<1>. HIDE DEF AtomicState, AtomicCurrent
<1>. QED
  BY <1>4, <1>5
  DEF Atomic!vars, Atomic!tickets, Atomic!semaphore, tickets, semaphore

LEMMA DemoteIsStutter ==
    ASSUME PreemptInv, interrupts = 0, Demote
    PROVE  UNCHANGED Atomic!vars
<1>. DEFINE f == [Top EXCEPT !.at = "promote"]
<1>1. /\ process = "up" /\ ~ Idle /\ Top.at = "demote" /\ SetTop(f)
      /\ state' = [state EXCEPT ![gt_current] =
                       IF @ \in {"Unused", "Blocked"} THEN @ ELSE "Ready"]
      /\ UNCHANGED <<current_algorithm, gt_current, tickets, semaphore, created,
                     alarm, pc, process, cpu, interrupts>>
  BY DEF Demote, InCall
<1>2. Selecting(Top)
  BY <1>1 DEF Selecting
<1>3. /\ cpu \in Threads /\ Top \in Frame /\ gt_current = cpu
      /\ state \in [Threads -> ThreadStates]
  BY <1>1, <1>2, OneCall DEF PreemptInv, TypeOK
<1>4. f \in Frame /\ f.at = "promote" /\ f.sel = Top.sel /\ f.sel \in Threads
  BY <1>1, <1>3 DEF Frame, Suspended
<1>. HIDE DEF f
<1>5. Switched(state', cpu, f.sel) = Switched(state, cpu, f.sel)
  <2>1. /\ state' \in [Threads -> ThreadStates]
        /\ \A t \in Threads \ {cpu} : state'[t] = state[t]
        /\ state'[cpu] = IF state[cpu] \in {"Unused", "Blocked"} THEN state[cpu]
                         ELSE "Ready"
    BY <1>1, <1>3 DEF ThreadStates
  <2>2. ASSUME NEW t \in Threads
        PROVE  (t = cpu /\ state'[cpu] \notin {"Unused", "Blocked"}
                   => state[cpu] \notin {"Unused", "Blocked"})
               /\ (t = cpu /\ state'[cpu] \in {"Unused", "Blocked"}
                   => state'[cpu] = state[cpu])
    BY <2>1
  <2>. DEFINE now(t) == IF t = f.sel THEN "Running"
                        ELSE IF t = cpu /\ state[cpu] \notin {"Unused", "Blocked"}
                             THEN "Ready"
                        ELSE state[t]
              next(t) == IF t = f.sel THEN "Running"
                         ELSE IF t = cpu /\ state'[cpu] \notin {"Unused", "Blocked"}
                              THEN "Ready"
                         ELSE state'[t]
  <2>3. \A t \in Threads : next(t) = now(t)
    BY <2>1, <2>2
  <2>4. /\ Switched(state, cpu, f.sel) = [t \in Threads |-> now(t)]
        /\ Switched(state', cpu, f.sel) = [t \in Threads |-> next(t)]
    BY <1>3, <1>4, <2>1, SwitchedStates
  <2>. HIDE DEF now, next
  <2>. QED  BY <2>3, <2>4
<1>. QED  BY <1>1, <1>2, <1>4, <1>5, WriteIsStutter

LEMMA PromoteIsStutter ==
    ASSUME PreemptInv, interrupts = 0, Promote
    PROVE  UNCHANGED Atomic!vars
<1>. DEFINE f == [Top EXCEPT !.at = "assign"]
<1>1. /\ process = "up" /\ ~ Idle /\ Top.at = "promote" /\ SetTop(f)
      /\ state' = [state EXCEPT ![Top.sel] = "Running"]
      /\ UNCHANGED <<current_algorithm, gt_current, tickets, semaphore, created,
                     alarm, pc, process, cpu, interrupts>>
  BY DEF Promote, InCall
<1>2. Selecting(Top)
  BY <1>1 DEF Selecting
<1>3. /\ cpu \in Threads /\ Top \in Frame /\ Top = frames[cpu][1]
      /\ state \in [Threads -> ThreadStates]
  BY <1>1, <1>2, OneCall DEF PreemptInv, TypeOK
<1>4. f \in Frame /\ f.at = "assign" /\ f.sel = Top.sel /\ f.sel \in Threads
  BY <1>1, <1>3 DEF Frame, Suspended
<1>. HIDE DEF f
<1>5. Switched(state', cpu, f.sel) = Switched(state, cpu, f.sel)
  <2>1. /\ state' \in [Threads -> ThreadStates]
        /\ \A t \in Threads \ {f.sel} : state'[t] = state[t]
    BY <1>1, <1>3, <1>4 DEF ThreadStates
  <2>. QED  BY <1>3, <1>4, <2>1, SwitchedStates
<1>. QED  BY <1>1, <1>2, <1>4, <1>5, WriteIsStutter

LEMMA AssignIsStutter ==
    ASSUME PreemptInv, interrupts = 0, Assign
    PROVE  UNCHANGED Atomic!vars
<1>1. /\ ~ Idle /\ Selecting(Top)
      /\ UNCHANGED <<current_algorithm, state, tickets, semaphore, created,
                     alarm, pc, process, cpu, interrupts>>
  BY AssignEffect
<1>2. PICK f \in Frame :
         /\ SetTop(f) /\ ~ Selecting(f)
         /\ f.at = "switch" /\ f.sel = Top.sel /\ f.old = gt_current
  BY AssignEffect
<1>3. Switched(state', cpu, f.sel) = Switched(state, cpu, f.sel)
  BY <1>1
<1>. QED  BY <1>1, <1>2, <1>3, WriteIsStutter

(* At the switch all writes of the call have been made; nobody is lost. *)
LEMMA SwitchIsStutter ==
    ASSUME PreemptInv, interrupts = 0, gt_switch
    PROVE  UNCHANGED Atomic!vars
<1>1. /\ process = "up" /\ ~ Idle /\ Top.at = "switch"
      /\ UNCHANGED <<current_algorithm, state, gt_current, tickets, semaphore,
                     created, alarm, pc, interrupts>>
  BY DEF gt_switch, InCall
<1>2. /\ cpu \in Threads /\ Top \in Frame /\ Top = frames[cpu][1]
      /\ gt_current = Top.sel /\ Top.old = cpu
      /\ state \in [Threads -> ThreadStates]
  BY <1>1, OneCall DEF PreemptInv, TypeOK
<1>3. Top.sel \in Threads
  BY <1>1, <1>2, Frames
<1>4. process' = process
  BY <1>2 DEF gt_switch
<1>5. ~ Switching'
  <2>1. frames'[cpu'] # <<>> => frames'[cpu'][Len(frames'[cpu'])] = Suspended
    BY <1>2, SwitchStacks
  <2>2. frames'[cpu'] # <<>> => Last(frames'[cpu']) = Suspended
    BY <2>1 DEF Last
  <2>. QED  BY <2>2 DEF Switching, Idle, Top, Suspended
<1>6. Switching
  BY <1>1 DEF Switching
<1>7. Switched(state, cpu, Top.sel) = state
  <2>1. /\ state[Top.sel] = "Running"
        /\ Top.sel = cpu \/ state[cpu] \in {"Unused", "Blocked", "Ready"}
    BY <1>1, <1>2 DEF PreemptInv, WrittenInOrder, Idle
  <2>. QED  BY <1>2, <1>3, <2>1, SwitchedStates
<1>8. AtomicState' = AtomicState /\ AtomicCurrent' = AtomicCurrent
  BY <1>1, <1>2, <1>5, <1>6, <1>7 DEF AtomicState, AtomicCurrent, Switched
<1>. HIDE DEF AtomicState, AtomicCurrent
<1>. QED
  BY <1>1, <1>4, <1>8
  DEF Atomic!vars, Atomic!tickets, Atomic!semaphore, tickets, semaphore

LEMMA BackIsStutter ==
    ASSUME PreemptInv, interrupts = 0, Back
    PROVE  UNCHANGED Atomic!vars
<1>1. /\ process = "up" /\ ~ Idle /\ Top.at = "back"
      /\ frames' = [frames EXCEPT ![cpu] = Front(@)]
      /\ UNCHANGED <<vars, cpu, interrupts>>
  BY DEF Back, InCall
<1>2. /\ cpu \in Threads /\ frames \in [Threads -> Seq(Frame)]
      /\ frames[cpu] \in Seq(Frame) /\ frames[cpu] # <<>>
  BY <1>1 DEF PreemptInv, PreemptTypeOK, Idle
<1>3. Front(frames[cpu]) \in Seq(Frame) /\ Len(Front(frames[cpu])) = 1 - 1
  BY <1>1, <1>2, OneCall, Popped
<1>4. Idle'
  BY <1>1, <1>2, <1>3, EmptySeq DEF Idle
<1>5. ~ Switching /\ ~ Switching'
  BY <1>1, <1>4 DEF Switching
<1>6. UNCHANGED <<gt_current, state, pc, process, semaphore, tickets, created,
                  alarm, current_algorithm>>
  BY <1>1 DEF vars, tickets, semaphore
<1>7. AtomicState' = AtomicState /\ AtomicCurrent' = AtomicCurrent
  BY <1>5, <1>6 DEF AtomicState, AtomicCurrent
<1>. HIDE DEF AtomicState, AtomicCurrent
<1>. QED
  BY <1>6, <1>7
  DEF Atomic!vars, Atomic!tickets, Atomic!semaphore, tickets, semaphore

LEMMA AtomicStart == PreemptInit => Atomic!Init
<1>. SUFFICES ASSUME PreemptInit  PROVE Atomic!Init
  OBVIOUS
<1>1. Idle /\ Init
  BY MainIsThread DEF PreemptInit, Idle
<1>2. AtomicState = state /\ AtomicCurrent = gt_current
  BY <1>1, IdleIsNotSwitching, NotSwitching
<1>. HIDE DEF AtomicState, AtomicCurrent
<1>. QED
  BY <1>1, <1>2, SameAlgorithms
  DEF Init, Atomic!Init, select_algorithm, Atomic!select_algorithm, gt_init,
      Atomic!gt_init, gt_sem_init, Atomic!gt_sem_init

(* Until SIGALRM interrupts a call of gt_schedule the writes of every call
   happen as one: what is proved of GThread holds that far. *)
THEOREM AtomicBeforeInterrupts == PreemptSpec => AtomicUntilInterrupted
<1>1. ASSUME PreemptInv, PreemptNext, interrupts' = 0
      PROVE  [Atomic!Next]_(Atomic!vars)
  <2>1. CASE Code
    BY <1>1, <2>1, CodeIsAtomic
  <2>2. CASE CodeCalls
    BY <1>1, <2>2, CodeCallsAreAtomic
  <2>3. CASE gt_alarm_handle
    BY <1>1, <2>3, AlarmIsAtomic
  <2>4. CASE Demote \/ Promote \/ Assign \/ gt_switch \/ Back
    <3>1. interrupts = 0
      BY <1>1, <2>4 DEF Demote, Promote, Assign, gt_switch, Back
    <3>. QED
      BY <1>1, <2>4, <3>1, DemoteIsStutter, PromoteIsStutter, AssignIsStutter,
         SwitchIsStutter, BackIsStutter
  <2>. QED  BY <1>1, <2>1, <2>2, <2>3, <2>4 DEF PreemptNext
<1>2. PreemptInv /\ [PreemptNext]_preemptVars
         => [interrupts' = 0 => [Atomic!Next]_(Atomic!vars)]_preemptVars
  BY <1>1
<1>. QED
  BY <1>2, AtomicStart, PreemptInvAlways, PTL
  DEF PreemptSpec, AtomicUntilInterrupted

================================================================================
