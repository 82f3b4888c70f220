-------------------------------- MODULE HttpPool ------------------------------
(***************************************************************************)
(* The pre-forked HTTPS server of http_server/AAAAAAAAAAaa/main.cpp: main  *)
(* accepts connections and passes their descriptors over socket pairs to   *)
(* the workers in turn; each worker serves one connection at a time and    *)
(* logs over a message queue, which a logger process writes to a file.     *)
(* Every process runs cleanup on SIGINT or SIGTERM.                        *)
(*                                                                         *)
(* A step is a system call that another process can observe, with the      *)
(* local code up to the next one.  What a client sends is chosen when the  *)
(* worker reads it; contents of files, headers and replies are left out.   *)
(* pipe, fork, socketpair and SSL_new are taken to succeed.                *)
(***************************************************************************)
EXTENDS Integers, Sequences, FiniteSets, SequencesExt

CONSTANTS
    WORKER_COUNT,
    Kinds,          \* what clients may ask for, see Steps
    ClientsHangUp,  \* TRUE if a client may disconnect while it is served
    FdLimit,        \* descriptors a worker has for client sockets
    ChannelSize,    \* connections that fit in a socket pair
    QueueSize,      \* messages that fit in the log queue
    MaxAccepts,     \* bound on the calls of accept
    MaxSignals      \* bound on the signals sent from outside

Workers == 0 .. WORKER_COUNT - 1
Server  == WORKER_COUNT
Logger  == WORKER_COUNT + 1
Procs   == 0 .. WORKER_COUNT + 1

(***************************************************************************)
(* The system calls handle_client makes for a request, in their order: the *)
(* log messages by what they report, the start of a script, and the reply. *)
(***************************************************************************)
Steps ==
    [file    |-> <<"request", "path", "found", "reply">>,
     missing |-> <<"request", "path", "missing", "reply">>,
     index   |-> <<"request", "path", "found", "index", "reply">>,
     script  |-> <<"request", "path", "found", "script", "executed", "reply">>,
     upload  |-> <<"upload", "request", "path", "found", "reply">>]

Texts == {"upload", "request", "path", "found", "missing", "index", "executed"}

ASSUME PoolAssumption ==
    /\ WORKER_COUNT \in Nat \ {0}
    /\ Kinds \subseteq DOMAIN Steps
    /\ ClientsHangUp \in BOOLEAN
    /\ {FdLimit, ChannelSize, QueueSize} \subseteq Nat \ {0}
    /\ {MaxAccepts, MaxSignals} \subseteq Nat

VARIABLES
    pc,             \* where each process is, see the PCs below
    accepts,        \* calls of accept made; a connection is named by its call
    client_sock,    \* of main: the accepted connection, None or Failed
    next_worker,    \* of main
    channel,        \* channel[w]: connections in worker_pipes[w]
    conn,           \* conn[w]: the connection w serves, or None
    step,           \* step[w]: position of w in the steps of its request
    sockets,        \* sockets[w]: connections w holds a descriptor of
    script,         \* workers with a running child
    request,        \* request[c]: what the client asked for, once read
    answered,       \* connections whose reply has been sent
    queue,          \* the log queue
    removed,        \* the log queue has been removed
    log_msg,        \* of the logger: the message received and not written
    log_file,       \* log_file[c]: messages about c in the file
    pending,        \* processes with an undelivered SIGINT or SIGTERM
    signals         \* signals sent so far

mainvars   == <<accepts, client_sock, next_worker>>
workervars == <<conn, step, sockets, script, request, answered>>
logvars    == <<queue, removed, log_msg, log_file>>
vars == <<pc, mainvars, channel, workervars, logvars, pending, signals>>

None   == 0
Failed == -1
Conns  == 1 .. MaxAccepts

ServerPCs == {"accept", "send", "close"}
WorkerPCs == {"recv", "handshake", "request", "work", "endless"}
Ended     == {"exited", "failed", "aborted", "killed", "crashed"}

Gone(p) == pc[p] \in Ended

PoolTypeOK ==
    /\ pc \in [Procs -> ServerPCs \cup WorkerPCs \cup Ended
                        \cup {"logging", "cleanup"}]
    /\ accepts \in 0 .. MaxAccepts
    /\ client_sock \in Conns \cup {None, Failed}
    /\ next_worker \in Workers
    /\ channel \in [Workers -> Seq(Conns)]
    /\ \A w \in Workers : Len(channel[w]) <= ChannelSize
    /\ conn \in [Workers -> Conns \cup {None}]
    /\ step \in [Workers -> 0 .. 6]
    /\ sockets \in [Workers -> SUBSET Conns]
    /\ script \subseteq Workers
    /\ request \in [Conns -> Kinds \cup {"unread"}]
    /\ answered \subseteq Conns
    /\ queue \in Seq(Conns \X Texts) /\ Len(queue) <= QueueSize
    /\ removed \in BOOLEAN
    /\ log_msg \in Seq(Conns \X Texts) /\ Len(log_msg) <= 1
    /\ log_file \in [Conns -> Seq(Texts)]
    /\ pending \subseteq Procs
    /\ signals \in 0 .. MaxSignals

(* The logger exits at once if it cannot open its file; main never notices. *)
Init ==
    /\ \E p \in {"logging", "failed"} :
           pc = [q \in Procs |-> IF q = Server THEN "accept"
                                 ELSE IF q = Logger THEN p ELSE "recv"]
    /\ accepts = 0 /\ client_sock = None /\ next_worker = 0
    /\ channel = [w \in Workers |-> <<>>]
    /\ conn = [w \in Workers |-> None]
    /\ step = [w \in Workers |-> 0]
    /\ sockets = [w \in Workers |-> {}]
    /\ script = {}
    /\ request = [c \in Conns |-> "unread"]
    /\ answered = {}
    /\ queue = <<>> /\ removed = FALSE
    /\ log_msg = <<>> /\ log_file = [c \in Conns |-> <<>>]
    /\ pending = {} /\ signals = 0

Goto(p, l) == pc' = [pc EXCEPT ![p] = l]

(***************************************************************************)
(* main                                                                    *)
(***************************************************************************)

(* accept fails if the client is gone already; main does not check. *)
Accept ==
    /\ pc[Server] = "accept" /\ accepts < MaxAccepts
    /\ accepts' = accepts + 1
    /\ client_sock' \in {accepts', Failed}
    /\ Goto(Server, "send")
    /\ UNCHANGED <<next_worker, channel, workervars, logvars, pending, signals>>

(* A mistake for Send: the descriptor is sent with MSG_DONTWAIT. *)
SendOrDrop ==
    /\ pc[Server] = "send" /\ ~Gone(next_worker)
    /\ IF client_sock # Failed /\ Len(channel[next_worker]) < ChannelSize
       THEN channel' = [channel EXCEPT ![next_worker] = Append(@, client_sock)]
       ELSE UNCHANGED channel
    /\ Goto(Server, "close")
    /\ UNCHANGED <<mainvars, workervars, logvars, pending, signals>>

(***************************************************************************)
(* sendmsg waits for room in the socket pair.  Without a valid descriptor  *)
(* it fails and sends nothing.                                             *)
(***************************************************************************)
Send ==
    /\ pc[Server] = "send" /\ ~Gone(next_worker)
    /\ \/ /\ client_sock # Failed
          /\ Len(channel[next_worker]) < ChannelSize
          /\ channel' = [channel EXCEPT ![next_worker] = Append(@, client_sock)]
       \/ client_sock = Failed /\ UNCHANGED channel
    /\ Goto(Server, "close")
    /\ UNCHANGED <<mainvars, workervars, logvars, pending, signals>>

(* Nobody holds the other end of the socket pair any more: SIGPIPE. *)
SendBreaks ==
    /\ pc[Server] = "send" /\ Gone(next_worker)
    /\ IF client_sock = Failed
       THEN Goto(Server, "close") /\ UNCHANGED <<client_sock, pending>>
       ELSE /\ Goto(Server, "killed") /\ client_sock' = None
            /\ pending' = pending \ {Server}
    /\ UNCHANGED <<accepts, next_worker, channel, workervars, logvars, signals>>

(* A mistake for NextWorker: the index does not wrap around. *)
NextWorkerUnbounded == next_worker + 1

NextWorker == (next_worker + 1) % WORKER_COUNT

Close ==
    /\ pc[Server] = "close"
    /\ next_worker' = NextWorker
    /\ client_sock' = None
    /\ Goto(Server, "accept")
    /\ UNCHANGED <<accepts, channel, workervars, logvars, pending, signals>>

(***************************************************************************)
(* worker_process and handle_client                                        *)
(***************************************************************************)

(* The end of worker w, by exit or by a signal nobody handles. *)
Ends(w, how) ==
    /\ Goto(w, how)
    /\ conn' = [conn EXCEPT ![w] = None]
    /\ step' = [step EXCEPT ![w] = 0]
    /\ sockets' = [sockets EXCEPT ![w] = {}]
    /\ channel' = [channel EXCEPT ![w] = <<>>]
    /\ pending' = pending \ {w}

Crash(w, how) ==
    /\ Ends(w, how)
    /\ UNCHANGED <<mainvars, script, request, answered, logvars, signals>>

Recv(w) ==
    /\ pc[w] = "recv" /\ channel[w] # <<>>
    /\ LET c == Head(channel[w]) IN
           /\ conn' = [conn EXCEPT ![w] = c]
           /\ sockets' = [sockets EXCEPT ![w] = @ \cup {c}]
    /\ channel' = [channel EXCEPT ![w] = Tail(@)]
    /\ Goto(w, "handshake")
    /\ UNCHANGED <<mainvars, step, script, request, answered, logvars,
                   pending, signals>>

(* A mistake for WritersOf: a worker does not close its copy of worker_pipes[w][1]. *)
WritersWithItself(w) == {Server} \cup {v \in Workers : v >= w}

(***************************************************************************)
(* The processes that keep the other end of worker_pipes[w] open: main,    *)
(* and every worker forked after w, which inherited it.                    *)
(***************************************************************************)
WritersOf(w) == {Server} \cup {v \in Workers : v > w}

(***************************************************************************)
(* End of file is not an error: recvmsg returns 0, there is no control     *)
(* message, and CMSG_DATA of the null pointer is read.                     *)
(***************************************************************************)
RecvEOF(w) ==
    /\ pc[w] = "recv" /\ channel[w] = <<>>
    /\ \A p \in WritersOf(w) : Gone(p)
    /\ Crash(w, "crashed")

Handshake(w) ==
    /\ pc[w] = "handshake" /\ Goto(w, "request")
    /\ UNCHANGED <<mainvars, channel, workervars, logvars, pending, signals>>

(* A mistake for HandshakeFails: the error path does not close client_sock. *)
HandshakeFailsOpen(w) ==
    /\ pc[w] = "handshake"
    /\ conn' = [conn EXCEPT ![w] = None]
    /\ Goto(w, "recv")
    /\ UNCHANGED <<mainvars, channel, step, sockets, script, request, answered,
                   logvars, pending, signals>>

HandshakeFails(w) ==
    /\ pc[w] = "handshake"
    /\ sockets' = [sockets EXCEPT ![w] = @ \ {conn[w]}]
    /\ conn' = [conn EXCEPT ![w] = None]
    /\ Goto(w, "recv")
    /\ UNCHANGED <<mainvars, channel, step, script, request, answered, logvars,
                   pending, signals>>

ReadRequest(w) ==
    /\ pc[w] = "request"
    /\ \E kind \in Kinds : request' = [request EXCEPT ![conn[w]] = kind]
    /\ step' = [step EXCEPT ![w] = 1]
    /\ Goto(w, "work")
    /\ UNCHANGED <<mainvars, channel, conn, sockets, script, answered, logvars,
                   pending, signals>>

(***************************************************************************)
(* SSL_read fails: append throws on a negative length.  On an orderly      *)
(* close it returns 0, and an upload that is shorter than its              *)
(* Content-Length is read for ever.                                        *)
(***************************************************************************)
ReadBreaks(w) ==
    /\ pc[w] = "request" /\ ClientsHangUp
    /\ \/ Crash(w, "aborted")
       \/ /\ Goto(w, "endless")
          /\ UNCHANGED <<mainvars, channel, workervars, logvars, pending, signals>>

Now(w) == IF pc[w] = "work" THEN Steps[request[conn[w]]][step[w]] ELSE "none"

Advance(w) == step' = [step EXCEPT ![w] = @ + 1]

(* A file can be opened only if a descriptor is left. *)
CanOpen(w) == Cardinality(sockets[w]) < FdLimit

(* fileExists says no, loadFile of the error page throws, nobody catches. *)
NoDescriptor(w) ==
    /\ Now(w) \in {"found", "missing"} /\ ~CanOpen(w)
    /\ Crash(w, "aborted")

(* A mistake for msgsnd: msgsnd is called with IPC_NOWAIT. *)
msgsndNoWait(m) ==
    IF ~removed /\ Len(queue) < QueueSize THEN queue' = Append(queue, m)
    ELSE UNCHANGED queue

(* A mistake for msgsnd: msgsnd is called again until it succeeds. *)
msgsndRetrying(m) ==
    ~removed /\ Len(queue) < QueueSize /\ queue' = Append(queue, m)

(***************************************************************************)
(* log_message: msgsnd waits for room; once the queue has been removed it  *)
(* fails, which nobody looks at.                                           *)
(***************************************************************************)
msgsnd(m) ==
    \/ /\ ~removed /\ Len(queue) < QueueSize
       /\ queue' = Append(queue, m)
    \/ removed /\ UNCHANGED queue

log_message(w) ==
    /\ Now(w) \in Texts
    /\ Now(w) \in {"found", "missing"} => CanOpen(w)
    /\ w \notin script
    /\ msgsnd(<<conn[w], Now(w)>>)
    /\ Advance(w)
    /\ UNCHANGED <<pc, mainvars, channel, conn, sockets, script, request, answered,
                   removed, log_msg, log_file, pending, signals>>

execute_file(w) ==
    /\ Now(w) = "script"
    /\ script' = script \cup {w}
    /\ Advance(w)
    /\ UNCHANGED <<pc, mainvars, channel, conn, sockets, request, answered, logvars,
                   pending, signals>>

ScriptEnds(w) ==
    /\ w \in script /\ script' = script \ {w}
    /\ UNCHANGED <<pc, mainvars, channel, conn, step, sockets, request, answered,
                   logvars, pending, signals>>

(* SSL_shutdown and SSL_free leave the socket open, and so does the caller. *)
Reply(w) ==
    /\ Now(w) = "reply"
    /\ answered' = answered \cup {conn[w]}
    /\ conn' = [conn EXCEPT ![w] = None]
    /\ step' = [step EXCEPT ![w] = 0]
    /\ Goto(w, "recv")
    /\ UNCHANGED <<mainvars, channel, sockets, script, request, logvars,
                   pending, signals>>

(* SSL_accept or SSL_write writes to a client that has disconnected: SIGPIPE. *)
WriteBreaks(w) ==
    /\ pc[w] = "handshake" \/ Now(w) = "reply"
    /\ ClientsHangUp
    /\ Crash(w, "killed")

(***************************************************************************)
(* logger_process.  Once the queue has been removed msgrcv fails and is    *)
(* called again for ever.                                                  *)
(***************************************************************************)
msgrcv ==
    /\ pc[Logger] = "logging" /\ log_msg = <<>> /\ queue # <<>>
    /\ log_msg' = <<Head(queue)>> /\ queue' = Tail(queue)
    /\ UNCHANGED <<pc, mainvars, channel, workervars, removed, log_file,
                   pending, signals>>

WriteLog ==
    /\ pc[Logger] = "logging" /\ log_msg # <<>>
    /\ log_file' = [log_file EXCEPT ![log_msg[1][1]] = Append(@, log_msg[1][2])]
    /\ log_msg' = <<>>
    /\ UNCHANGED <<pc, mainvars, channel, workervars, queue, removed,
                   pending, signals>>

(***************************************************************************)
(* Signals and cleanup                                                     *)
(***************************************************************************)

(* Ctrl-C reaches the whole process group, kill a single process. *)
Signal ==
    /\ signals < MaxSignals /\ signals' = signals + 1
    /\ \E targets \in {Procs} \cup {{p} : p \in Procs} :
           pending' = pending \cup {p \in targets : ~Gone(p)}
    /\ UNCHANGED <<pc, mainvars, channel, workervars, logvars>>

(* A mistake for EnterCleanup: a worker looks for a signal only between two connections. *)
EnterCleanupWhenIdle(p) ==
    /\ p \in pending /\ ~Gone(p) /\ pc[p] # "cleanup"
    /\ p \in Workers => pc[p] = "recv"
    /\ Goto(p, "cleanup")
    /\ pending' = pending \ {p}
    /\ client_sock' = IF p = Server THEN None ELSE client_sock
    /\ UNCHANGED <<accepts, next_worker, channel, workervars, logvars, signals>>

(* The handler interrupts whatever system call the process is in. *)
EnterCleanup(p) ==
    /\ p \in pending /\ ~Gone(p) /\ pc[p] # "cleanup"
    /\ Goto(p, "cleanup")
    /\ pending' = pending \ {p}
    /\ client_sock' = IF p = Server THEN None ELSE client_sock
    /\ UNCHANGED <<accepts, next_worker, channel, workervars, logvars, signals>>

(* The children of main are the workers and the logger, a worker's its script. *)
Childless(p) ==
    IF p = Server THEN \A q \in Procs \ {Server} : Gone(q) ELSE p \notin script

(* waitpid until there is no child, then the queue is removed, by everybody. *)
cleanup(p) ==
    /\ pc[p] = "cleanup" /\ Childless(p)
    /\ IF p \in Workers
       THEN Ends(p, "exited")
       ELSE Goto(p, "exited") /\ pending' = pending \ {p}
            /\ UNCHANGED <<conn, step, sockets, channel>>
    /\ removed' = TRUE /\ queue' = <<>>
    /\ log_msg' = IF p = Logger THEN <<>> ELSE log_msg
    /\ UNCHANGED <<mainvars, script, request, answered, log_file, signals>>

MainStep == Send \/ SendBreaks \/ Close

(***************************************************************************)
(* SSL_accept, SSL_read and SSL_write block until the client does its part *)
(* or hangs up: the sockets have no timeout.                               *)
(***************************************************************************)
ClientStep(w) ==
    \/ Handshake(w) \/ HandshakeFails(w) \/ ReadRequest(w) \/ ReadBreaks(w)
    \/ Reply(w) \/ WriteBreaks(w)

(* The steps a worker takes without its client. *)
OwnStep(w) ==
    \/ Recv(w) \/ RecvEOF(w) \/ NoDescriptor(w) \/ log_message(w)
    \/ execute_file(w)

WorkerStep(w) == ClientStep(w) \/ OwnStep(w)

Next == \/ Accept \/ MainStep \/ Signal \/ msgrcv \/ WriteLog
        \/ \E w \in Workers : WorkerStep(w) \/ ScriptEnds(w)
        \/ \E p \in Procs : EnterCleanup(p) \/ cleanup(p)

(***************************************************************************)
(* The kernel schedules every process that is not waiting, delivers        *)
(* signals, and serves the blocked callers of msgsnd in order.  Scripts    *)
(* end.  Nobody has to connect or to send a signal, and no client has to   *)
(* speak, to read its reply or to hang up.                                 *)
(***************************************************************************)
Fairness ==
    /\ WF_vars(MainStep) /\ WF_vars(msgrcv \/ WriteLog)
    /\ \A w \in Workers : SF_vars(OwnStep(w)) /\ WF_vars(ScriptEnds(w))
    /\ \A p \in Procs : WF_vars(EnterCleanup(p)) /\ WF_vars(cleanup(p))

Spec == Init /\ [][Next]_vars /\ Fairness

(***************************************************************************)
(* Properties                                                              *)
(***************************************************************************)

(* The elements of s that are in S, in their order. *)
Only(s, S) ==
    LET First[n \in 0 .. Len(s)] ==
            IF n = 0 THEN <<>>
            ELSE IF s[n] \in S THEN Append(First[n - 1], s[n]) ELSE First[n - 1]
    IN  First[Len(s)]

(* What a request has to leave in the log. *)
Expected(c) ==
    IF request[c] = "unread" THEN <<>> ELSE Only(Steps[request[c]], Texts)

TextsOf(c, messages) ==
    LET mine == Only(messages, {c} \X Texts)
    IN  [i \in DOMAIN mine |-> mine[i][2]]

(* The texts about c in the file, with the logger and in the queue. *)
Logged(c) == log_file[c] \o TextsOf(c, log_msg) \o TextsOf(c, queue)

(* log_message, logger_process: whatever the workers and the logger        *)
(* interleave, the messages of a request reach the file in their order,    *)
(* none is lost or written twice, and all of them have been sent when the  *)
(* client gets its reply.  Only the removal of the queue ends this.        *)
LogInOrder ==
    removed \/ \A c \in Conns :
        /\ IsPrefix(Logged(c), Expected(c))
        /\ c \in answered => Logged(c) = Expected(c)

(* handle_client, worker_process: besides the connection it serves, a      *)
(* worker holds descriptors of connections it has answered only; a failed  *)
(* handshake leaves none behind, and no connection is held by two workers. *)
LeakIsTheAnswered ==
    \A w \in Workers :
        /\ sockets[w] \ {conn[w]} \subseteq answered
        /\ \A v \in Workers \ {w} : sockets[v] \cap sockets[w] = {}

(* The connections on their way to w, in w, and still with main. *)
Backlog(w) ==
    (IF conn[w] = None THEN <<>> ELSE <<conn[w]>>)
    \o channel[w]
    \o (IF next_worker = w /\ pc[Server] = "send" /\ client_sock # Failed
        THEN <<client_sock>> ELSE <<>>)

Dispatch == INSTANCE FairDispatch WITH
    N       <- WORKER_COUNT,
    turns   <- accepts,
    backlog <- [w \in Workers |-> Backlog(w)],
    open    <- pc[Server] \in ServerPCs,
    up      <- {w \in Workers : ~Gone(w)}

(* main, worker_process: the pool implements FairDispatch. *)
DispatchSpec == Dispatch!Init /\ [][Dispatch!Next]_Dispatch!vars

(* The worker main passes connection c to. *)
Home(c) == (c - 1) % WORKER_COUNT

Waiting(c) == \E i \in DOMAIN Backlog(Home(c)) : Backlog(Home(c))[i] = c

LogIsStuck == Gone(Logger) /\ ~removed

(* Worker w is in SSL_accept, SSL_read or SSL_write. *)
OnClient(w) == pc[w] \in {"handshake", "request"} \/ Now(w) = "reply"

(* None of the clients of worker w keeps it in one of them for ever. *)
ClientsAnswer(w) == []<>~OnClient(w)

(* A connection that has been accepted is answered or turned away, if the  *)
(* clients its worker serves do not fall silent; or its worker is lost in  *)
(* an endless upload, or nobody empties the log queue any more.  Clients   *)
(* of the other workers, silent or not, cannot hold it up.                 *)
Settled ==
    \A c \in Conns :
        ClientsAnswer(Home(c)) =>
            (Waiting(c) ~> ~Waiting(c) \/ pc[Home(c)] = "endless" \/ LogIsStuck)

(* Without main a worker ends after those forked after it, which hold its  *)
(* socket pair open: one of them that is stuck, in an endless upload or on *)
(* a silent client, keeps all workers before it, and none behind it.       *)
WorkersFollow ==
    \A w \in Workers :
        (\A v \in w .. WORKER_COUNT - 1 : ClientsAnswer(v)) =>
            (Gone(Server) ~> \/ Gone(w)
                             \/ \E v \in w .. WORKER_COUNT - 1 : pc[v] = "endless"
                             \/ LogIsStuck)

(* Ctrl-C ends all processes and removes the log queue. *)
GroupShutdown ==
    (pending = Procs) ~> (removed /\ \A p \in Procs : Gone(p))
===============================================================================
