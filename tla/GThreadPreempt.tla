----------------------------- MODULE GThreadPreempt ---------------------------
(***************************************************************************)
(* gt_schedule of scheduler/gthr.c write by write, interrupted by SIGALRM. *)
(*                                                                         *)
(* gt_schedule unblocks SIGALRM and restarts the timer before it selects a *)
(* thread, so gt_alarm_handle can interrupt any later point of it and call *)
(* gt_schedule again on the same stack.  A call is a frame on the stack of *)
(* the thread that runs it; cpu is the thread whose stack is in use, and   *)
(* gt_current only what the code believes.                                 *)
(*                                                                         *)
(* The workload is that of GThread with functions that do not return.      *)
(***************************************************************************)
EXTENDS GThread, SequencesExt

CONSTANT MaxInterrupts   \* bound: how often SIGALRM interrupts gt_schedule

ASSUME PreemptAssumption ==
    /\ MaxInterrupts \in Nat
    /\ ~MayReturn /\ ~MallocMayFail

VARIABLES cpu,         \* the thread whose stack the processor uses
          frames,      \* the calls of gt_schedule on the stack of each thread
          interrupts   \* calls of gt_schedule interrupted by an alarm so far

preemptVars == <<vars, cpu, frames, interrupts>>

(***************************************************************************)
(* A frame is a call that has selected a thread: the next thing it does,   *)
(* *selected, and the thread whose ctx the local variable old points to.   *)
(***************************************************************************)
(* A call in gt_switch; its locals will not be read again. *)
Suspended == [at |-> "back", sel |-> None, old |-> None]

Frame ==
    {Suspended}
    \cup [at : {"demote", "promote", "assign"}, sel : Threads, old : {None}]
    \cup [at : {"switch"}, sel : Threads, old : Threads]

Idle == frames[cpu] = <<>>               \* the thread executes its own code
Top  == Last(frames[cpu])                \* the innermost call on the cpu

InCall(point) == process = "up" /\ ~Idle /\ Top.at = point

SetTop(f) == frames' = [frames EXCEPT ![cpu] = Append(Front(@), f)]

PreemptInit ==
    /\ Init
    /\ cpu = Main
    /\ frames = [t \in Threads |-> <<>>]
    /\ interrupts = 0

-------------------------------------------------------------------------------
(* A call that goes on when the selection has failed: a mistake for Call. *)
CallIgnoringFailure(label) ==
    /\ \E s \in Picks :
          frames' = [frames EXCEPT ![cpu] =
                        Append(@, [at |-> "demote", sel |-> s, old |-> None])]
    /\ Goto(cpu, label)
    /\ alarm' = TRUE
    /\ UNCHANGED <<current_algorithm, state, gt_current, tickets, semaphore,
                   created, process, cpu>>

(***************************************************************************)
(* A call of gt_schedule up to and including the selection, as one step:   *)
(* alarms come before the scan or after it.  One between two slots of the  *)
(* scan, which can change slots that have been skipped already, so that    *)
(* the call selects another ready thread, is left out.  The caller goes on *)
(* at label once its frame is gone.                                        *)
(***************************************************************************)
Call(label) ==
    /\ \E s \in Picks \ {None} :
          frames' = [frames EXCEPT ![cpu] =
                        Append(@, [at |-> "demote", sel |-> s, old |-> None])]
    /\ Goto(cpu, label)
    /\ alarm' = TRUE
    /\ UNCHANGED <<current_algorithm, state, gt_current, tickets, semaphore,
                   created, process, cpu>>

(* A call that finds no thread and returns false at once, which ends the
   loop of main.  In gt_alarm_handle it leaves no trace. *)
FailedCall(label) ==
    /\ None \in Picks
    /\ Goto(cpu, label)
    /\ alarm' = TRUE
    /\ process' = IF cpu = Main THEN "exited" ELSE process
    /\ UNCHANGED <<current_algorithm, state, gt_current, tickets, semaphore,
                   created, cpu, frames, interrupts>>

(* prepare_for_switch: current->state = Ready, current being gt_current. *)
Demote ==
    /\ InCall("demote")
    /\ SetTop([Top EXCEPT !.at = "promote"])
    /\ state' = [state EXCEPT ![gt_current] =
                    IF @ \in {"Unused", "Blocked"} THEN @ ELSE "Ready"]
    /\ UNCHANGED <<current_algorithm, gt_current, tickets, semaphore, created,
                   alarm, pc, process, cpu, interrupts>>

(* next->state = Running forgotten: a mistake for Promote. *)
PromoteNobody ==
    /\ InCall("promote")
    /\ SetTop([Top EXCEPT !.at = "assign"])
    /\ UNCHANGED <<vars, cpu, interrupts>>

(* prepare_for_switch: next->state = Running. *)
Promote ==
    /\ InCall("promote")
    /\ SetTop([Top EXCEPT !.at = "assign"])
    /\ state' = [state EXCEPT ![Top.sel] = "Running"]
    /\ UNCHANGED <<current_algorithm, gt_current, tickets, semaphore, created,
                   alarm, pc, process, cpu, interrupts>>

(* gt_current = selected forgotten: a mistake for Assign. *)
AssignNothing ==
    /\ InCall("assign")
    /\ SetTop([Top EXCEPT !.at = "switch", !.old = gt_current])
    /\ UNCHANGED <<vars, cpu, interrupts>>

(* old = &gt_current->ctx; gt_current = selected *)
Assign ==
    /\ InCall("assign")
    /\ SetTop([Top EXCEPT !.at = "switch", !.old = gt_current])
    /\ gt_current' = Top.sel
    /\ UNCHANGED <<current_algorithm, state, tickets, semaphore, created,
                   alarm, pc, process, cpu, interrupts>>

(***************************************************************************)
(* gt_switch stores the registers of the running stack in *old and loads   *)
(* those of the selected thread.  When old is the record of another thread *)
(* that thread has lost its context; what follows is undefined.            *)
(***************************************************************************)
gt_switch ==
    /\ InCall("switch")
    /\ \/ /\ Top.old = cpu
          /\ SetTop(Suspended)
          /\ cpu' = Top.sel
          /\ UNCHANGED process
       \/ /\ Top.old # cpu
          /\ process' = "context lost"
          /\ UNCHANGED <<cpu, frames>>
    /\ UNCHANGED <<current_algorithm, state, gt_current, tickets, semaphore,
                   created, alarm, pc, interrupts>>

(* gt_switch has come back to this stack: gt_schedule returns true. *)
Back ==
    /\ InCall("back")
    /\ frames' = [frames EXCEPT ![cpu] = Front(@)]
    /\ UNCHANGED <<vars, cpu, interrupts>>

(* gt_alarm_handle, on the stack of the thread it interrupts. *)
gt_alarm_handle ==
    /\ process = "up" /\ alarm
    /\ Call(pc[cpu])
    /\ \/ Idle /\ UNCHANGED interrupts
       \/ /\ ~Idle /\ interrupts < MaxInterrupts
          /\ interrupts' = interrupts + 1

-------------------------------------------------------------------------------
(* The code of the threads outside gt_schedule. *)
Code ==
    /\ Idle
    /\ \/ gt_create \/ MainReturns
       \/ gt_sem_wait(cpu) \/ WaitReturns(cpu) \/ gt_sem_post(cpu)
    /\ UNCHANGED <<cpu, frames, interrupts>>

(* Its calls of gt_schedule, and where the code is after each of them. *)
Then == [yield |-> "yield", waiting |-> "parked", posted |-> "top"]

CodeCalls ==
    /\ Idle
    /\ \E point \in DOMAIN Then :
          /\ At(cpu, point)
          /\ \/ Call(Then[point]) /\ UNCHANGED interrupts
             \/ FailedCall(Then[point])

PreemptNext ==
    Code \/ CodeCalls \/ gt_alarm_handle
    \/ Demote \/ Promote \/ Assign \/ gt_switch \/ Back

PreemptSpec == PreemptInit /\ [][PreemptNext]_preemptVars

-------------------------------------------------------------------------------
(* Correctness *)

(* A stack holds at most one call of gt_schedule more than calls have been
   interrupted, and a call that is about to switch has selected a thread. *)
PreemptTypeOK ==
    /\ cpu \in Threads
    /\ frames \in [Threads -> Seq(Frame)]
    /\ \A t \in Threads : Len(frames[t]) <= interrupts + 1
    /\ interrupts \in 0 .. MaxInterrupts
    /\ process \in {"up", "exited", "context lost"}

(* A thread's own code, which gt_sem_wait and gt_sem_post are part of, never
   runs while gt_current points to another thread, however often gt_schedule
   was interrupted before. *)
CodeRunsAsCurrent == process = "up" /\ Idle => gt_current = cpu

(***************************************************************************)
(* Until SIGALRM interrupts a call of gt_schedule its writes happen as     *)
(* one: this specification implements GThread, in which the switch takes   *)
(* place when the thread has been selected.                                *)
(***************************************************************************)
Switching ==
    ~Idle /\ Top.at \in {"demote", "promote", "assign", "switch"}

AtomicState ==
    IF Switching
    THEN [state EXCEPT
             ![cpu] = IF @ \in {"Unused", "Blocked"} THEN @ ELSE "Ready",
             ![Top.sel] = "Running"]
    ELSE state

AtomicCurrent == IF Switching THEN Top.sel ELSE gt_current

Atomic == INSTANCE GThread
              WITH state <- AtomicState, gt_current <- AtomicCurrent

AtomicUntilInterrupted ==
    /\ Atomic!Init
    /\ [][interrupts' = 0 => [Atomic!Next]_(Atomic!vars)]_preemptVars
===============================================================================
