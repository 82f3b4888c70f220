# Verification of IVOS2025

The repository holds three programs that share no code: a library of green
threads with its demo (`src/scheduler`), a shell for FAT16 disk images
(`src/file_system`), and two generations of a pre-forked HTTPS server
(`src/http_server`). This directory models them in TLA+, model-checks the models
with TLC and proves with TLAPS what can be proved of their safety, for every size of
the tables, pools and volumes.

Contents: 1 inventory of the code, 2 modules, 3 how the models correspond to the
code, 4 runs and bounds, 5 fairness, 6 proofs, 7 deviations found, 8 what is left
out and the plan.

## 1. Inventory

### 1.1 Green threads (`src/scheduler`: gthr.c, gthr.h, gthr_struct.h, gthr_switch.S, main.c)

*State.* `gt_table`, an array of `MaxGThreads` slots with the saved registers,
`state` (Unused, Running, Ready, Blocked), priorities, a range of lottery tickets
and time statistics; `gt_current`, the slot in use; `total_tickets`; the algorithm
chosen at the start; semaphores with a counter and a linked queue of waiting
threads.

*Operations.* `gt_init`, `gt_create`, `gt_schedule` with `round_robin_select`,
`priority_based_select` and `lottery_scheduling_select`, `gt_return`, the handler
`gt_alarm_handle`, and `gt_sem_init`, `gt_sem_wait`, `gt_sem_post`. Inside them
`gt_init_stats`, `update_runtime_stats` and `update_waittime_stats` keep the times
that `gt_print_stats` prints.

*Interaction.* One OS thread runs everything. A green thread loses the CPU where it
calls `gt_schedule`, or anywhere else when SIGALRM runs `gt_alarm_handle`, which
calls `gt_schedule` on the stack of the interrupted thread. `gt_sem_wait` and
`gt_sem_post` mask the signals around their bodies; `gt_schedule` itself unmasks
SIGALRM and restarts the timer before it has selected anybody.

*Hard.* Preemption inside `gt_schedule`; the direct hand-over of a unit to a thread
that is not running; functions that return, whose slot keeps tickets and a context;
allocation that fails after a thread has been marked Blocked; loops over the table
whose end depends on `gt_current`.

*Correct means.* Exactly the thread the table calls Running executes; the semaphore
excludes, loses no unit, and serves in order; every ready thread runs again; every
ticket has one owner; the asserts are unreachable; the statistics add up to the time
that has passed.

### 1.2 Pre-forked HTTPS pool (`src/http_server/AAAAAAAAAAaa`: main.cpp, requestparser.cpp, response.cpp)

*State.* In `main` the accepted socket and `next_worker`; a socket pair for each of
five workers; in each worker the connection it serves and the descriptors it holds;
a System V message queue for the log; the log file; which processes are alive.

*Operations.* `main` accepts a connection, sends its descriptor to the next worker
and closes its own copy. `worker_process` receives it, does the TLS handshake and
calls `handle_client`, which reads a request, saves uploads, loads a file or runs a
script (`RequestParser` scans the first record for headers, two loops read and save
the parts of a form), logs all this with `log_message`, and replies. `logger_process` writes the
queue to the file. `cleanup` is the handler of SIGINT and SIGTERM in every process.

*Interaction.* Socket pairs between main and the workers (whose other ends later
workers inherit), one shared message queue, fork and wait, signals.

*Hard.* A process that ends in the middle of something: who notices, what is lost,
who waits for whom; bounded queues that block the sender; a client that disconnects
at any point; descriptors that are never closed; handlers that run at any point; a
request that arrives in pieces, while headers are looked for in whatever came first;
clients that say nothing, for whom no timeout is set.

*Correct means.* Each connection reaches one worker, in turn, and is served once, in
order; the log has every message of a request once and in order; a shutdown ends
all processes; an accepted connection is settled if clients answer; a file is saved as it was sent.

### 1.3 FAT16 shell (`src/file_system`: fat.c, fat.h)

*State.* The position of the shell: `current_directory` (the prompt),
`current_directory_offset`, `dir_depth`, `current_entry`; the global `entry`; the
image, which is only read.

*Operations.* The commands `cd`, `ls`, `tree`, `read` and `cat`, `exit`.

*Hard.* Several variables that say the same thing; a typed name of which eight characters
are compared and all are kept; places computed from cluster
numbers in three different ways; listing by recursion; chains in the FAT that end
early or do not end.

*Correct means.* The prompt is where the shell is; `ls` and `tree` list what is on the
volume; `read` delivers the bytes of the file.

### 1.4 Server class (`src/http_server`: server.cpp, ssl.cpp, logger_strategy.cpp, ...)

An older version of 1.2 with its own TLS wrapper and loggers.

*State.* The members of the singleton `Server` (`server_fd`, `new_socket`,
`worker_sockets`), which processes are alive, and the descriptors each of them holds.

*Operations.* `getInstance`, `create_socket`, `bind_socket`, `listen_socket`,
`create_workers`, `create_logger`, the accept loop of `run`, `send_fd`, `recv_fd`.

*Hard.* `create_workers` closes `new_socket` before there has been a connection, which
is descriptor 0; everything after that depends on which descriptor number is free.
Workers inherit the listening socket and both ends of the socket pairs.
`SO_REUSEADDR | SO_REUSEPORT` allows a second start beside the remains of the first.

*Correct means.* Connections are accepted and handed to workers until the server is
stopped, and nothing is left of it then. Neither holds: see 4.3.

### 1.5 Other parts

The construction of replies, the loggers of the Server class, the stubs of the FAT
shell and the demo functions `main.c` does not use are components of PROJECT.json with
status *not_modelled* and the reason.

## 2. Modules

| module | what it is |
|---|---|
| `Scheduling` | the three selection algorithms as operators on a thread table |
| `SchedulingLoops` | the loops of the same algorithms, iteration by iteration, and `update_waittime_stats` |
| `FifoSemaphore` | abstract: a first-in first-out semaphore with direct hand-over |
| `GThread` | thread table, `gt_schedule` as one step, alarm, semaphore, `gt_create`, `gt_return`, driven by `main.c` |
| `GThreadPreempt` | `gt_schedule` write by write, interrupted by SIGALRM, with the stacks of calls |
| `GThreadStats` | the statistics of the threads, over `GThread` and a clock |
| `GThreadProofs` | theorems about `GThread` |
| `SchedulingLoopsProofs`, `GThreadPreemptProofs`, `GThreadStatsProofs` | theorems about the modules of these names |
| `MCGThread`, `MCGThreadPreempt`, `MCGThreadStats` | constants for TLC |
| `FairDispatch` | abstract: connections dealt in turn to workers that serve in order |
| `HttpPool` | the processes of 1.2, system call by system call |
| `FormUpload`, `MCFormUpload` | one file upload in 1.2: reading loop, header scan, saving loop; the forms for TLC |
| `ForkingServer` | the processes and descriptors of 1.4 |
| `FatShell`, `MCFatShell` | the shell of 1.3, and small volumes for TLC |
| `HttpPoolProofs`, `FormUploadProofs`, `ForkingServerProofs`, `FatShellProofs` | theorems about the modules of these names |

`GThread` extends `Scheduling`; `GThreadPreempt` and `GThreadStats` extend `GThread`:
the first reuses its actions for the code outside `gt_schedule`, the second adds to
each of its actions what that code does to the statistics. `GThread` implements `FifoSemaphore`
(`FifoSpec`), `GThreadPreempt` implements `GThread` until the first interruption
(`AtomicUntilInterrupted`), `HttpPool` implements `FairDispatch` (`DispatchSpec`).

Definitions whose comment calls them *a mistake for X* are forms of X with a
plausible bug. Nothing refers to them; they are there to be put in the place of X,
and each property of a passing run fails for at least one of them (PROJECT.json,
`mutants`). `ForkingServer` is the exception: its properties describe what follows from a wrong
`close`, and the other form they fail for is the right one.

## 3. Models and code

### 3.1 GThread

| model | code |
|---|---|
| `Threads`, `Main`, `state`, `gt_current` | slots of `gt_table` by index, slot 0, their `state`, the index of `gt_current` |
| `base_priority`, `ticket_start`, `ticket_end`, `total_tickets` | the fields and variable of that name |
| `value`, `queue` | `semaphore->value`, and the nodes from `front` to `rear` |
| `pc[t]` | where the code of thread t goes on; constants in the module's header |
| `created`, `alarm`, `process` | progress of `main`, whether `gt_reset_sig` has started the timer, how the process ended |
| `Yield(l)` | `gt_schedule` as called from a point after which the thread continues at l: selection, `prepare_for_switch`, `gt_current = selected`, `gt_switch` |
| `FailedYield(l)` | the same call when nothing is selected |
| `Alarm` | `gt_alarm_handle` outside the masked sections |
| `gt_sem_wait`, `gt_sem_post` | the bodies between the two `sigprocmask` calls, all paths, among them the failed `malloc` |
| `WaitYields`, `WaitReturns`, `PostYields` | the rest of these functions |
| `gt_create`, `MainReturns`, `MainYields`, `gt_return`, `ReturnYields`, `AssertFails` | `gt_create` with the correction of the priority, the empty slot and the tickets; main's way into `gt_return`; its loop; a worker's `gt_stop`; the assertion behind it |

`gt_schedule` is one step because the timer has been restarted with a full slice just
before the selection. That is an assumption about timing and not about order: what
happens without it is the subject of `GThreadPreempt`.

A failed `free` of the stack in `gt_return` (the address is not one malloc returned)
either aborts the process or carries on; both outcomes are in the model. What a
second thread created in the slot of a finished one would see is not, because
`main.c` creates all threads first.

### 3.2 GThreadPreempt and GThreadStats

`cpu` is the thread whose stack is in use, `frames[t]` the calls of `gt_schedule` on
t's stack, each with its local variables `selected` and `old` and the next write:
`Demote`, `Promote` (the two writes of `prepare_for_switch`), `Assign`
(`gt_current = selected`), `gt_switch`, `Back`. `gt_alarm_handle` may start a call
on top of any of them. The selection itself is one step: alarms before it are folded into
one just before the call. An alarm between two slots of a scan is left out; it can change
slots that have been skipped already, so that the call selects another ready thread than
`Call` does, but then that selection is as stale as one the model has. A
`gt_switch` that stores the registers of the running stack in the record of another
thread ends the behaviour with `process = "context lost"`.

`GThreadStats` has a clock, the record `stats[t]` of each slot, and as a measure
`spent[t]`, the time the slot really was Running and Ready. `GtSchedule` is any call of
`gt_schedule` of `GThread` together with `update_runtime_stats`, `update_waittime_stats`
and the clock reads of `prepare_for_switch`; a call that selects nobody has charged the
running thread already (`SelectsNobody`, `FailedAlarm`). `Wait`, `Post` and the two lines
of `gt_return` (`ReturnCharges`, `ReturnStops`) charge on their own account; an alarm may
fall between those two lines. The clock does not run backwards and does not advance
inside a call.

### 3.3 SchedulingLoops

One action per iteration of a loop, over every table of four slots that has the shape
`gt_create` and the switches give it: used slots first, adjacent ticket ranges, main Running
or Ready, nobody but `gt_current` Running. It covers what
the operators of `Scheduling` leave out: the loop variable that wraps around, the
test `p == gt_current` before the state is looked at, the boost against starvation
and its removal by `update_waittime_stats`.

### 3.4 HttpPool and FairDispatch

A connection is named by the number of the `accept` call that returned it. Processes
are the numbers 0 .. WORKER_COUNT-1 (workers), WORKER_COUNT (main), WORKER_COUNT+1
(logger).

| model | code |
|---|---|
| `Accept`, `Send`, `SendBreaks`, `Close` | the loop of `main`: `accept`, also failing; `sendmsg`, waiting for room or killed by SIGPIPE; `next_worker` and `close` |
| `channel[w]` | descriptors in `worker_pipes[w]`, at most `ChannelSize` |
| `Recv`, `RecvEOF` | `recvmsg`; at end of file the null control message is read |
| `WritersOf(w)` | who still holds `worker_pipes[w][1]`: main and the workers forked after w |
| `Handshake`, `HandshakeFails` | `SSL_accept` and its error path |
| `WriteBreaks` | SIGPIPE in `SSL_accept` or `SSL_write`, which kills the worker |
| `ClientStep`, `OwnStep` | the steps of a worker that wait for its client, and those that do not |
| `ReadRequest`, `ReadBreaks` | the reads of `handle_client`: which kind of request it was, or the exception and the endless loop when the client has gone |
| `Steps`, `Now(w)`, `log_message`, `execute_file`, `Reply` | the calls `handle_client` makes for a kind of request, one after the other |
| `ScriptEnds` | `read` and `waitpid` in `execute_file` return |
| `sockets[w]`, `NoDescriptor` | descriptors never closed after a reply, and `loadFile` throwing when none is left |
| `msgrcv`, `WriteLog` | `logger_process`, with the message it holds in between |
| `Signal`, `EnterCleanup`, `cleanup` | a signal to the group or to one process, its delivery, the handler |

The model starts when all processes have been forked. `cleanup` is one step after the
last child has gone, because nothing the other processes see lies between
`msgctl` and `exit`. A zero-length first read is parsed as a request for the path ""
and takes the steps of a file, so it needs no action of its own. Left out are a SIGPIPE in
`SSL_shutdown`, after the reply has been written (the worker ends as in `WriteBreaks`, with the
connection answered), and `execute_file` when `pipe` or `fork` fails: with a failed `pipe` it
goes on with two descriptors it has not got.

In the refinement the backlog of a worker is the connection it serves, those in its
socket pair and the one main is about to send to it.

**FormUpload** looks into `ReadRequest` for one kind of request. The body is a sequence of tokens
of one unit each (boundary, part header, empty line, data, line break, a line that looks like a
header), since the code only ever searches for these. `FirstRead` and `ReadMore` are `SSL_read`
with whatever the client has put into a record, `parse` is `RequestParser::parse` on the first of
them, `Incomplete` the condition of the reading loop, `SavePart` one iteration of the saving loop.
It is assumed that the header of the request comes whole in the first record, that the form is
well formed (`RequestsAssumption`: the data of a part holds no boundary), and that records are cut
between tokens. A line that consists of a line feed alone, which ends the header loop early, and a
Content-Length that is no number, for which `stoi` throws, are not among the tokens. Where the
worker gets stuck or ends (`phase` "endless" or "aborted"), `HttpPool` takes over.

**ForkingServer** has the table of descriptors of every process, because `create_workers`
closes by number and the kernel allocates the lowest free number. The descriptor tables
start with standard input open or closed and the log file opened or not. `Start`,
`SocketPair`, `ForkWorker`, `ForkLogger` and `Accept` are the system calls of main with
their failures; `send_fd` records which end of which pair has a message; `LoggerEnds` is
the failing `msgrcv`; `Kill` ends any process. What a worker does with a connection has
no action, since no execution gives it one (`WorkersSleepOn`).

### 3.5 FatShell

Places are counted in slots of 32 bytes (directory entries). `SlotAt` says what is at a place: a
slot of the root directory, of a data cluster, or of the first sectors. `print_directory(base)`
and `ReadLoop` are the recursion and the loop of the code as recursive functions, `Visible` and
`Listing` its two passes over a directory; `base` is what the caller passes for
`data_region_offset`, which is the wrong value in `list_files`. Recursion that leaves the buffer
for the indentation ends the behaviour with `status = "overrun"`. An entry is a name, a kind
(file, dir, hidden dir, label, deleted, long name), an extension, a first cluster and a size.

A typed name is a record of what the code makes of it: `parts`, what its slashes separate, is
appended to the prompt; `padded`, its first eight characters as `fill_name` leaves them, is what
`cd` compares with the entries, and `read` with the name and extension in `file`, capitals,
whatever the entry is; `up` says that the name begins with `..`. The prompt is a sequence of
such parts, because `cd ..` cuts it at its last slash. So `PICTURES/2024` enters the directory
`PICTURES` and `cd ..` comes back with the prompt `/root/PICTURES`.

Directories have one cluster each: `tree` and `ls` look at no other. `cd` and `read` take
the first slot that matches, `read` only before the end mark of the directory. `VolumesAssumption` says
what every volume is: a root directory of at most `RootSlots` slots, clusters of at most
`ClusterSlots`, and directories, but for `.` and `..`, that lead to data clusters; names may
occur twice, a chain may go anywhere, directories may share a cluster or contain each other,
and the first sectors hold anything. An unused slot is all zero, which the code assumes where it
reads the size of one. Not modelled: names of more than eight characters before the dot in `read`,
which leave `name[9]`; a prompt of more than 1024 bytes, which repeated `cd` with a slash can
reach in the code (`MaxPath` bounds it); directories of more than 512 slots, which would leave
`entries` in `print_directory` (`GeometryAssumption`); and dates with a month outside 1 .. 12, for
which `format_datetime` leaves its table.

## 4. Runs

Every run finishes within two minutes on two workers.

| run | states | question |
|---|---|---|
| `threads` | 51 000 | is the thread system safe, under every algorithm and every placement of the alarm, and does every thread run again and get the semaphore? |
| `stats` | 2.3 million | do the statistics add up to the time that has passed, and do finished threads stay finished when functions return and allocations fail? |
| `main_never_exits` | violation | does main stop when all others have? |
| `loops` | 348 000 | do the loops compute what the operators say, and do they end? |
| `priority_ignored` | violation | is a ready thread passed over only for a higher priority, or for a boost? |
| `preempt` | 2.8 million | what do alarms inside `gt_schedule` leave intact? |
| `preempt_intrusion` | violation | and what do they break? |
| `pool` | 2.6 million | is the pool safe when clients, workers, logger or main stop anywhere? |
| `pool_liveness` | 117 000 | is every connection settled as long as clients answer, and does a shutdown end? |
| `upload` | 1.1 million | is a file saved as it was sent, however it is cut into records? |
| `forking_server` | 212 000 | how far does a start of the Server class get, and what does it leave? |
| `fat_shell` | 814 000 | do prompt, listings and contents agree with the volume? |

### 4.1 Bounds

* `MaxGThreads` 4 and 5 with one `gt_create` more than there is room for in
  `threads`: two threads inside the semaphore with `SemValue` 2, at least two in the
  queue, and a failed creation. A wait queue of two or three distinguishes head, middle
  and tail. Any of the four workers may return, so that under the lottery the queue entry of
  a thread can outlive it.
* `Priorities` 3, 9, 1, 2, 3 with `MaxPriority` 4: distinct, equal, and one out of
  range.
* `MaxInterrupts` 2: the first interruption makes a selection stale, the second hits
  the call that made it stale. `interrupts` counts them and bounds the state space.
* `stats` has three slots, `MaxTime` 3 and `MaxCalls` 6: enough for a thread to be
  preempted, to wait, to be served and to wait again with the clock advancing at any of
  these points, for a thread to return while another one is Ready or waits, and for
  `malloc` to fail in any call of `gt_sem_wait`.
* `SchedulingLoops` starts from all tables of four slots of the shape described in 3.3,
  84 114 of them, reachable or not. `MaxPriority` is 3, since with 2 the boost makes all
  priorities equal and a scan that did respect them could not be told from one that does not.
* `WORKER_COUNT` 2 is the smallest pool with a turn, a worker that inherits another's
  socket pair and one that does not; `MaxAccepts` 3 brings the turn back to worker 0;
  `FdLimit` 2 lets it use its last descriptor; `ChannelSize` 1 and `QueueSize` 1 or 2
  make every sender wait; one signal, to all or to any one process.
* `Kinds`: in `pool` a script and an upload, the request that reports something before
  its request line; in `pool_liveness` a script, the only one with a child. The others
  are shorter sequences of the same steps with other texts.
* `upload`: forms of up to three parts, which have a first, a middle and a last one, fields
  and files mixed; a part may have a Content-Length of its own, and its data a line that looks
  like one or like another multipart header; `HeaderSize` 4, so that what the wrong count
  loses can be the closing boundary, a part of a file, a whole part, or the whole of a small
  form, while longer forms keep files that are out of its reach.
* `forking_server`: two workers, since the second socket pair is the first to get
  descriptor 0; two starts, one beside the remains of the other; two waiting connections,
  one that ends the server and one that is left; ten descriptors (`Fds`), more than any
  process uses.
* FAT: four data clusters, two nested directories in every placement, a file of
  less than a cluster, of full clusters and of more than the chain holds,
  with every chain over the free clusters, circular ones included: 10 800 volumes. The
  root directory starts at sector 4 and cluster 4 exists, so that one placement in four is
  the ambiguous one of section 7; the directory is called `A`, or `PICTURES`, which has the
  eight characters another name can begin with. The typed names are `A`, `PICTURES.`,
  `PICTURES/2024`, `..` and `F.TXT`. `LastCluster` is 5 (0xFFF7 in the code), `MaxPath` 3 bounds
  the prompt, `MaxLevel` 3 the indentation (127 in the code).

### 4.2 Deadlock

Checked where the program cannot stop. It is switched off in `threads`, `preempt` and
`preempt_intrusion` (the process ends), `stats` (the clock and the calls are bounded), `loops`
and `priority_ignored` (the loop ends),
`upload` (the upload ends), `forking_server`, `pool` and `pool_liveness` (all processes end,
or wait for clients that no longer come), and `fat_shell` (`exit`).

### 4.3 What the runs show

*threads.* Two threads inside at most; queue, states and counter describe the same
situation; a unit passed on is neither lost nor counted twice; a free unit cannot be
taken while somebody waits; tickets are an exact partition; each switch of round robin
brings a ready thread nearer. `FifoSpec` says the same to the user of a semaphore. Under round
robin and the priority scan every ready thread runs again and every waiting one gets the
semaphore; the lottery promises neither, a thread may lose every draw. All this holds while
threads return from their functions, with one exception: under the lottery the ticket of a
finished thread can be drawn, a draw that finds nobody makes `gt_schedule` fail, and `gt_sem_wait`
ignores that. The properties of the semaphore are therefore claimed under `DrawsSucceed`, which is
always true without the lottery, and with it until the first thread finishes.

*stats.* `sum_waittime`, of which the printed average is made, is exact. The totals are not, once
a thread has waited for the semaphore: the slice that ends in `gt_sem_wait` is charged as waiting,
and the wait before it a second time. They never miss any time, though. Threads whose function
returns are safe with round robin and with the priority scan: no finished thread comes back, and
`gt_return` does not reach its assertion. With the lottery a failed draw makes `gt_sem_wait`
return without the unit while its thread is still in the queue. With four workers that entry can
outlive the thread: a later `gt_sem_post` finds it and makes the finished thread Ready again.
`GoneStaysGone`, `NeverReachesAssert` and the statistics make an exception of this case.

*loops* and *priority_ignored.* The loops are right in the sense that they compute what
`Scheduling` says, and end. What the scan by priority computes is not what its comments say:
`priority_ignored` finds a ready thread of priority 2 passed over for one of priority 1 that
stands before it in the table, and without a boost. The theorems `PrioritiesDecideNothing` and
`BoostIsTakenBack` say it for all tables: the thread round robin would have selected is
selected, and no boost outlives the call.

*preempt_intrusion.* `main.c:119` has the note "TODO: ROUNDROBIN S SEMAFOREM NEFUNGUJE" (round
robin with the semaphore does not work). The models of the two alone find nothing wrong: with
`gt_schedule` as one step, round robin excludes, serves in order and starves nobody
(*threads*). The counterexample of this run is a plausible reason for the note: it happens under
round robin, needs an alarm inside `gt_schedule`, and leaves two threads in the critical section.

*preempt.* `CodeRunsAsCurrent` is the surprising one: although writes of nested calls
interleave and contexts can get lost, a thread that executes its own code is always
`gt_current`, so `gt_sem_wait` never enqueues a wrong thread.

*pool.* Whatever ends whenever, no connection is given to two workers or twice to one,
turns are kept also when `accept` fails, the log of a request is a prefix of what it
should be, complete once the client has its reply, and only answered connections
leak descriptors.

*pool_liveness.* Nothing but its own clients, an endless upload or a full log queue without a
logger can hold a connection or a worker for ever. `ClientsAnswer` is a condition on the clients
and the code does nothing to make it true: there is no timeout and no keepalive, and a client that
connects and says nothing keeps its worker in `SSL_accept` or `SSL_read`. The runs show how far
that reaches: `Settled` asks for the clients of the connection's own worker only, so a silent
client elsewhere does no harm until main blocks on the full socket pair of that worker;
`WorkersFollow` asks for those of the worker and of all forked after it, which hold its socket
pair open. `GroupShutdown` needs no client, since the signal interrupts whatever a worker waits
for.

*upload.* All files but the last are saved as sent. The last one is cut or carries the closing
boundary. What may be missing from the form is as much as the header is long, not less
(`Incomplete` compares the sum of both with the length of one); `EarlyFilesAreWhole` says what that
leaves intact: each file whose following boundary begins before the last `HeaderSize` units of the
form. Lines of the body that happen to be in the first record are believed as headers (the
exceptions `Believed` and `boundary = "Y"`).

*fat_shell.* What depends on the position of the shell is true unless a directory can be taken for
the root (`Ambiguous`); the words of the prompt, and with them what `ls` shows for them, unless a
directory can be entered by a name with a slash (`Misleading`). The model has both cases and does
in them what the code does; less is claimed of them.

*forking_server.* The close of descriptor 0 leaves it free when main comes to `accept`; the
connection gets number 0, which ends the loop and main. So each start accepts at most one
connection, gives none to a worker, and leaves workers that never learn of main's end,
since they hold the sending ends of their own socket pairs, and with them the port.

## 5. Fairness

`GThread!FairSpec`: the interval timer keeps firing (WF of `Alarm`), and a thread that
gets the CPU again and again completes its next piece of code (SF of its `Step`): it
resumes where it was preempted. Nothing obliges a function to return, so `gt_return` has
no fairness. WF of a thread's step would not do, since an alarm disables it. The
liveness properties are stated for round robin and the priority scan, and until the process
ends. The run checks them with functions that may return and allocations that succeed.

`SchedulingLoops`: the loop goes on (WF).

`HttpPool!Fairness`: the kernel runs every process that is not waiting and delivers
signals (WF). The steps a worker takes on its own (`OwnStep`) have SF because `msgsnd` serves
blocked callers in order while others fill the queue. Steps that wait for a client have no
fairness, as no timeout ends the wait; where a property needs them it says so (`ClientsAnswer`).
Scripts are assumed to end (WF of `ScriptEnds`). `Accept` and `Signal` have no fairness.

`ForkingServer`: main is scheduled and a blocking `accept` returns when there is a
connection (WF of `MainStep`). Failing calls, kills and clients have no fairness.

FatShell, FormUpload, GThreadPreempt and GThreadStats state no liveness.

## 6. Proofs

The theorems hold for every number of threads, workers and starts, every capacity, every
form and way to cut it into records, every geometry and volume, and runs of any length.

| theorem | of | assumption |
|---|---|---|
| *GThread* | | |
| `TypeCorrect` | `TypeOK` | none |
| `OnlyCurrentRuns` | `OneRunner` | none |
| `RoundRobinIsFair` | `RoundRobinProgress` | none |
| `BooksAlwaysBalance` | `BooksBalance` | malloc does not fail |
| `EveryTicketHasOneOwner` | `TicketPartition` | none |
| `RunningThreadOwnsCPU` | `CurrentRuns` | malloc does not fail |
| `QueueHoldsTheBlocked` | `QueueIsTheBlocked` (`QueueSound` and `NobodyForgotten`) | malloc does not fail |
| `NoUnitIsLost` | `UnitsConserved` | malloc does not fail |
| `SemaphoreExcludes` | `MutualExclusion` | malloc does not fail |
| `ImplementsFifo` | `FifoSpec` | malloc does not fail |
| `FinishedStayFinished` | `GoneStaysGone` | none |
| `AssertIsUnreachable` | `NeverReachesAssert` | none |
| *SchedulingLoops* | | |
| `ScansAreRight` | `LoopsMatchOperators` | none |
| `PrioritiesDecideNothing` | `PriorityIsRoundRobin`, checked by no run | none |
| `BoostIsTakenBack` | `NoBoostSurvives`, checked by no run | none |
| *GThreadPreempt* | | |
| `PreemptTypeCorrect` | `PreemptTypeOK` | none |
| `CodeNeverSeesAnother` | `CodeRunsAsCurrent` | none |
| `BooksBalanceInterrupted` | `BooksBalance` | none |
| `AtomicBeforeInterrupts` | `AtomicUntilInterrupted` | none |
| *GThreadStats* | | |
| `WaitsAreAlwaysExact` | `WaitsAreExact` | none |
| `TimeIsAlwaysAccounted` | `TimeIsAccounted` | malloc does not fail |
| *HttpPool* | | |
| `PoolTypeCorrect` | `PoolTypeOK` | none |
| `OnlyAnsweredLeak` | `LeakIsTheAnswered` | none |
| `PoolIsFair` | `DispatchSpec` | none |
| `LogKeepsOrder` | `LogInOrder` | none |
| *FormUpload* | | |
| `SavedAreSent` | `SavedIsSent` | none |
| `EarlyFilesAreAlwaysWhole` | `EarlyFilesAreWhole` | none |
| *ForkingServer* | | |
| `ServerEndsAtFirstAccept` | `OneAcceptPerStart` | none |
| `WorkersNeverWake` | `WorkersSleepOn` | none |
| *FatShell* | | |
| `FatTypeCorrect` | `FatTypeOK` | none |
| `PromptIsAlwaysTrue` | `PromptIsTrue` | none |
| `ReadIsAlwaysExact` | `ReadIsExact` | none |
| `TreeIsAlwaysHierarchy` | `TreeIsHierarchy` | none |
| `LsAlwaysShowsCurrent` | `LsShowsCurrent` | none |

"Malloc does not fail" is needed: a thread for which `gt_sem_wait` has no node goes on without the
unit. "None" means no assumption but those on the constants, like `PoolAssumption`,
`NamesAssumption` and `VolumesAssumption`, which TLC evaluates in the runs. A property that
excludes a case itself (the lottery, a draw that may fail, an ambiguous volume, a name with a
slash, a removed queue) is proved as it is stated. `GThreadPreempt` as a whole is about functions
that do not return and a malloc that does not fail (`PreemptAssumption`).

### 6.1 The arguments

*GThread.* The semaphore is safe because `gt_schedule` never returns to a thread that blocked
itself. `MutualExclusion` is not inductive: its proof needs that the counter and the owners add up
(`UnitsConserved`), which needs that queue and Blocked states agree (`QueueSound`,
`NobodyForgotten`), which needs that the thread that continues after `gt_schedule` is Running
(`CurrentOwnsCPU`). This in turn holds because the selection always finds somebody: main is never
Blocked or Unused (`MainInUse`), and each ticket has an owner (`LotteryIsFair`) as long as nobody
has finished. What is inductive is `DrawsSucceed => Inv`, since a finished thread stays finished
(`FinishedForEver`) and so `DrawsSucceed` never becomes true again: `main` creates all threads
before the first one runs (`CreationComesFirst`). `Inv` is the conjunction of these with
`IdleIsUnused`; `Known` collects what the first module has proved before. One lemma per action
shows that it preserves `Inv` (`WaitKeepsInv`, `PostKeepsInv`, `YieldKeepsInv`, ...),
`InvIsInductive` puts them together. `ImplementsFifo` then only has to look at the three variables
of `FifoSemaphore`. For the tickets the inductive invariant says that the ranges are adjacent
intervals that end at `total_tickets`. `RoundRobinProgress` needs no invariant beyond types: it is
arithmetic about `Rank`.

What a finished thread can suffer does not depend on malloc: `ReturnInv` keeps of `Inv` what
survives a failing allocation (nodes in the queue are Blocked threads, idle slots are Unused,
main is up), and adds that all threads are created before the first one runs, so that no
slot is given away twice.

*SchedulingLoops.* `LoopInv` says of the part of the table the scan has passed that no
thread in it is ready, or for the lottery, that none in it has the ticket; positions are
ranks counted from `gt_current`, so that the wrap-around is one case of arithmetic.

*GThreadPreempt.* An interrupted call leaves `gt_current` at a thread that does not
run. `PreemptInv` says what is still true then: `gt_current` is what the last assignment on
the stack in use made it (`CurrentIsLastAssigned`), a thread that does not run has left its
stack in `gt_switch` (`OthersSuspended`), and a call that has been overtaken by another
one's assignment can never be returned to, since the overtaking call saves the registers in
a wrong record (`NeverLeft`). So when the last call of a stack is gone, `gt_current` is
right. Until the first interruption the same invariant has one call at most, whose writes
done so far are known (`WrittenInOrder`); the step that completes the switch is the atomic
one and all others are stutters.

*GThreadStats.* `Accounted` relates the record of one thread, the time it spent and its
state; one lemma per update function shows that the update restores it. What remains is to
know in which state the thread is at each call, which `Scheduled` (`ReturnInv` and
`TicketInv`) provides as long as no draw can fail.

*HttpPool.* Main deals connection c to worker (c - 1) % `WORKER_COUNT` (`Home`), also after
failing calls of `accept`: `MainInTurn`. So whatever a worker holds, has in its socket pair
or leaks is its own (`EverybodyHoldsItsOwn`), and two workers never hold the same.
`PoolInv` adds that a worker is within the calls of its request (`WorkerInStep`). That is
enough for `DispatchSpec`: the first element of a backlog is the one being served. For
the log, `LogInv` states `LogInOrder` of a request in progress: what is logged of connection
c is what the first `step - 1` calls of its request have sent (`LogPart`), a connection
that has not come or is still in a socket pair is unread (`NotYet`, `Unread`), and no
longer anything once the queue has been removed.

*FormUpload.* The saving loop erases what it has saved, so the invariant has to say where in
the body the buffer is. `UploadInv` says that the buffer is always the piece of the body
from some place to `received` (`AllIsLeft` before saving, `SavingAPart` during it), that the
place is the beginning of a part, and that the files written are those of the parts before it
(`AllAreSaved` at the end). Two facts about the body carry the steps: the parts stand one
after the other (`Layout`), and from the beginning of a part, or from the end of its header,
the first boundary ahead is the one of the part that follows (`BoundaryAhead`), since data
holds none. So `SavePart` moves to the next part unless the reading stopped in this one.
`EarlyFilesAreWhole` needs two things more: the reading loop left with `HeaderSize + received` at
least the Content-Length, so a boundary that begins before the tail has been received; and once
saving has ended, every part whose following boundary was received is among those saved, with
exactly its data (`AllAreSaved`, carried through the loop by `RunsOn`). `EarlyFilesBySaved` puts them
together.

*ForkingServer.* `ServerInv` says which descriptors are free where: 0 in main from the first
fork on, and in every process enough for `socketpair` to return two different ones; a living
worker has the sending end of its own pair (`HasOwnPair`).

*FatShell.* `PlaceInv` says where the shell can be at all: `dir_depth` is never more than the
number of parts in the prompt, since a name adds at least one and `..` takes one; and the shell is in the
root directory at depth 0, or in a subdirectory at depth 1 whose entry `current_entry` is one of the
root's, with the offset of its cluster (`Located`). Only a directory that is taken for the root lets
`cd` go down a second time. The prompt follows in step when each name that can be taken for a
directory has one part.
What `ReadLoop` prints follows by induction over the bytes left:
the loop entered at cluster c prints byte b from the cluster b \div `ClusterBytes` links
behind c. For `tree` and `ls`, `Whole(t, level, es, base)` says that the lines t list the
entries es at a level, that all other lines are deeper, and that below each line is what a
scan of the place it leads to sees. It is proved for a single line with its block
(`BlockIsWhole`), for two lists in a row (`TwoAreWhole`), for the entries of a directory by
induction over their number (`ListingIsWhole`), and for all directories by induction over the
levels the indentation has room for (`LinesAreWhole`); no structure of the tree is needed, so
that a directory may contain itself. `Whole` holds for either base. With the right one, the
places the scans look at are the clusters of the volume (`ClusterIsVisible`), which
makes it `TreeIsHierarchy`; with the wrong one only its first conjunct is what
`LsShowsCurrent` claims.

Inductions over data are made over a set of numbers: the lemma `Induction` says that a set
which has 0 and with each number the next one has all, and the definition at hand is a
recursive function, so that its equation can be cited. It follows from `WFMin`, that the
numbers have no infinite descent.

### 6.2 Not proved

These rest on TLC:

* liveness, which includes all that needs ENABLED: `NoStarvation`, `EveryReadyRuns`,
  `Terminates`, `Settled`, `WorkersFollow`, `GroupShutdown`, `FirstClientEndsServer`;
* that the mistakes listed as mutants are found, and the two violations of section 7.

## 7. Deviations

Shown by a run (PROJECT.json, `findings`):

1. `main` never leaves the loop of `gt_return`, since round robin and the priority scan
   select `gt_current` itself when nobody else is left.
2. An alarm inside `gt_schedule` lets a Blocked thread run, and the semaphore excludes no
   longer.
3. `priority_based_select` takes the next ready slot, whatever its priority, though its comments
   and those of `gthr.h` say that it selects by priority.
4. The boost against starvation which the comments promise is given to the selected thread only
   and undone by the call that grants it (shown by the same run as 3).

Visible in the models, as steps or as exceptions in properties:

5. A call of `gt_schedule` interrupted after `gt_current = selected` saves the context of
   the running thread in the wrong record.
6. `gt_sem_wait` returns as if it owned the semaphore when `malloc` fails, and leaves the
   thread Blocked and in no queue.
7. `gt_return` frees an address malloc did not return.
8. Tickets of finished threads are still drawn; the failed draw makes `gt_sem_wait` return
   without a unit, and the entry it leaves in the queue can bring a finished thread back.
9. The slice that ends in `gt_sem_wait` is charged as waiting, and the wait before it twice; a
   failing `gt_schedule` charges the running thread twice, and so does an alarm between the
   two lines of `gt_return`.
10. A SIGTERM to main alone makes it wait for children it has not signalled: no exit, no
    more service. A SIGTERM to any other process removes the log queue of all of them.
11. The end of one worker ends main at its next turn (SIGPIPE), and then all the others.
12. Sockets of answered connections stay open; a worker ends when its descriptors are used up.
13. An upload is cut short, since the bytes of the header are counted against Content-Length;
    as much as the header is long may be missing; the last file keeps the closing boundary if
    it was received.
14. Lines of the body in the first record override the headers of the request; a POST without
    Content-Length ends the worker by an exception.
15. A start of the Server class ends at its first connection and leaves workers that keep the
    port (4.3).
16. A directory of the FAT volume whose first cluster has the number of the first sector of
    the root directory is taken for the root after `cd`.
17. `ls` in the root directory descends into the wrong clusters, for a directory in cluster 2
    without end.
18. `read` in a subdirectory searches the first sectors of the image.
19. Of a name typed after `cd` eight characters are compared and all go into the prompt: after
    `cd PICTURES/2024` and `cd ..` the shell is in the root directory and says `/root/PICTURES`.
20. A client that says nothing holds its worker for ever.

Read in the code and outside the models: in the pool the listening socket survives main in
its children, and a failed `bind` is not noticed.

## 8. What is not modelled, and the plan

*Not modelled:* TLS, sockets and file contents beyond their success or failure; formatting;
start-up errors that end the program; CPU registers beyond whose context is saved where.

*Not modelled in a component that is:* `sum_runtime`, the counts, extremes and sums of squares of
the statistics, which are only printed; an alarm between two slots of a scan (3.2); bodies that
are not multipart, and records that cut the header of a request; of the Server class, what a
worker would do with a connection, and the return of `recv_fd`, which no execution reaches; a
thread created in the slot of a finished one, or by a thread other than main, which `main.c` never
does.

*Worth adding:* creation of threads while the timer runs, in `GThreadPreempt` (the slot that is
Ready before it is complete, two creators of one slot), for users of the library other than
`main.c`; a second incarnation of the pool on the port its children still hold.

*Theorems:* every invariant, every action property and every refinement the passing runs
check is proved; the liveness properties of 6.2 are not.
