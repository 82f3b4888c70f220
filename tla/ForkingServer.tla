----------------------------- MODULE ForkingServer ----------------------------
(***************************************************************************)
(* The class Server of http_server/: the processes a started server forks, *)
(* the file descriptors each of them inherits, and the connections that    *)
(* wait at its listening socket.                                           *)
(*                                                                         *)
(* The member new_socket is zero until the first accept: Server is a       *)
(* static object.  create_workers closes it, which is descriptor 0, once   *)
(* for every worker.  Every other descriptor is allocated by the lowest    *)
(* number that is free, so the numbers matter and are modelled.            *)
(*                                                                         *)
(* The server may be started while processes of an earlier start are left: *)
(* SO_REUSEADDR | SO_REUSEPORT lets it bind, and the connections are then  *)
(* spread over all listening sockets of the port.  What a worker does with *)
(* a connection is not here: it never gets one.                            *)
(***************************************************************************)
EXTENDS Integers, FiniteSets, FiniteSetsExt, Functions

CONSTANTS
    MAX_WORKERS,
    MaxStarts,      \* bound on how often the program is started
    MaxClients      \* bound on the connections that wait at a time

ASSUME ServerAssumption ==
    /\ MAX_WORKERS \in Nat \ {0} /\ MaxStarts \in Nat \ {0}
    /\ MaxClients \in Nat

Starts  == 1 .. MaxStarts
Main    == 0
Workers == 1 .. MAX_WORKERS
Logger  == MAX_WORKERS + 1

(* A process: the start it belongs to and what it was forked for. *)
Processes == Starts \X (Main .. Logger)

(* What a descriptor refers to.  Pair(g, i, side) is one end of the pair of
   sockets for worker i. *)
Object(kind, g, n)  == [kind |-> kind, start |-> g, n |-> n]
Free                == Object("free", 0, 0)
Inherited           == Object("inherited", 0, 0)
LogFile(g)          == Object("log", g, 0)
Listener(g)         == Object("listener", g, 0)
Pair(g, i, side)    == Object("pair", g, 2 * i + side)
Connection(g)       == Object("connection", g, 0)

Fds == 0 .. 2 * MAX_WORKERS + 5

VARIABLES
    alive,            \* the processes that run
    fds,              \* fds[p][n]: what descriptor n of process p refers to
    at,               \* what main of each start does next, see Labels
    i,                \* the worker main is about to create
    new_socket, server_fd, worker_sockets,    \* members of Server, by start
    backlog,          \* connections waiting at the listening socket of a start
    accepted,         \* connections accepted by each start
    sent              \* ends of pairs that hold an unread message

members == <<new_socket, server_fd, worker_sockets>>
vars == <<alive, fds, at, i, members, backlog, accepted, sent>>

(* "off"     not started          "logger"  in create_logger
   "pair"    before socketpair    "accept"  in accept
   "fork"    before fork          "ended"   main has exited or been killed *)
Labels == {"off", "pair", "fork", "logger", "accept", "ended"}

Closed == [n \in Fds |-> Free]

Init ==
    /\ alive = {}
    /\ fds = [p \in Processes |-> Closed]
    /\ at = [g \in Starts |-> "off"]
    /\ i = [g \in Starts |-> 1]
    /\ new_socket = [g \in Starts |-> 0]
    /\ server_fd = [g \in Starts |-> 0]
    /\ worker_sockets = [g \in Starts |-> [w \in Workers |-> <<0, 0>>]]
    /\ backlog = [g \in Starts |-> 0]
    /\ accepted = [g \in Starts |-> 0]
    /\ sent = {}

-------------------------------------------------------------------------------
(* Descriptors *)

Lowest(table) == Min({n \in Fds : table[n] = Free})

(* The table in which the lowest free descriptor refers to object. *)
Opened(table, object) == [table EXCEPT ![Lowest(table)] = object]

IsOpen(object, processes, tables) ==
    \E p \in processes, n \in Fds : tables[p][n] = object

(* Connections wait only as long as some process has the listening socket. *)
Waiting(backlogs, processes, tables) ==
    [g \in Starts |-> IF IsOpen(Listener(g), processes, tables)
                      THEN backlogs[g] ELSE 0]

(* A process is gone, and with it its descriptors; backlogs waited then. *)
GoneLeaving(p, backlogs) ==
    /\ alive' = alive \ {p}
    /\ fds' = [fds EXCEPT ![p] = Closed]
    /\ at' = IF p[2] = Main THEN [at EXCEPT ![p[1]] = "ended"] ELSE at
    /\ backlog' = Waiting(backlogs, alive', fds')
    /\ UNCHANGED <<i, members, sent>>

Gone(p) == GoneLeaving(p, backlog)

-------------------------------------------------------------------------------
(***************************************************************************)
(* main: getInstance, create_socket, bind_socket, listen_socket.  The      *)
(* program may be started with its standard input closed, and FileLogger   *)
(* may be unable to open its file.  Starts happen in order.                *)
(***************************************************************************)
Start(g) ==
    /\ at[g] = "off"
    /\ \A earlier \in Starts : earlier < g => at[earlier] # "off"
    /\ \E stdin \in {Inherited, Free}, logs \in BOOLEAN :
          LET std    == [Closed EXCEPT ![0] = stdin, ![1] = Inherited,
                                       ![2] = Inherited]
              logged == IF logs THEN Opened(std, LogFile(g)) ELSE std
          IN  /\ fds' = [fds EXCEPT ![<<g, Main>>] = Opened(logged, Listener(g))]
              /\ server_fd' = [server_fd EXCEPT ![g] = Lowest(logged)]
    /\ alive' = alive \cup {<<g, Main>>}
    /\ at' = [at EXCEPT ![g] = "pair"]
    /\ UNCHANGED <<i, new_socket, worker_sockets, backlog, accepted, sent>>

(* socketpair for worker i, or exit(EXIT_FAILURE). *)
SocketPair(g) ==
    LET first  == Lowest(fds[<<g, Main>>])
        half   == Opened(fds[<<g, Main>>], Pair(g, i[g], 0))
    IN  /\ at[g] = "pair"
        /\ \/ /\ fds' = [fds EXCEPT ![<<g, Main>>] = Opened(half, Pair(g, i[g], 1))]
              /\ worker_sockets' =
                    [worker_sockets EXCEPT ![g][i[g]] = <<first, Lowest(half)>>]
              /\ at' = [at EXCEPT ![g] = "fork"]
              /\ UNCHANGED <<alive, i, new_socket, server_fd, backlog, sent>>
           \/ Gone(<<g, Main>>)
        /\ UNCHANGED accepted

(* What main closes after the fork; first the version without new_socket. *)
WorkerEndClosed(g, table) ==
    [table EXCEPT ![worker_sockets[g][i[g]][2]] = Free]

ClosedByParent(g, table) ==
    [table EXCEPT ![new_socket[g]] = Free, ![worker_sockets[g][i[g]][2]] = Free]

(* fork of worker i, which inherits every descriptor and waits in recvmsg. *)
ForkWorker(g) ==
    LET worker == <<g, i[g]>>
        table  == fds[<<g, Main>>]
    IN  /\ at[g] = "fork"
        /\ \/ /\ alive' = alive \cup {worker}
              /\ fds' = [fds EXCEPT ![worker] = table,
                                    ![<<g, Main>>] = ClosedByParent(g, table)]
              /\ backlog' = Waiting(backlog, alive', fds')
              /\ i' = [i EXCEPT ![g] = @ + 1]
              /\ at' = [at EXCEPT ![g] = IF i[g] = MAX_WORKERS THEN "logger" ELSE "pair"]
              /\ UNCHANGED <<members, sent>>
           \/ Gone(<<g, Main>>)
        /\ UNCHANGED accepted

(* create_logger *)
ForkLogger(g) ==
    /\ at[g] = "logger"
    /\ \/ /\ alive' = alive \cup {<<g, Logger>>}
          /\ fds' = [fds EXCEPT ![<<g, Logger>>] = fds[<<g, Main>>]]
          /\ at' = [at EXCEPT ![g] = "accept"]
          /\ UNCHANGED <<i, members, backlog, sent>>
       \/ Gone(<<g, Main>>)
    /\ UNCHANGED accepted

(***************************************************************************)
(* send_fd: the message arrives at the other end of the pair, if both      *)
(* descriptors are open and refer to what they should.                     *)
(***************************************************************************)
send_fd(table, socket, fd) ==
    sent' = IF fd \in Fds /\ table[fd] # Free /\ table[socket].kind = "pair"
            THEN sent \cup {[table[socket] EXCEPT !.n = @ + 1]}
            ELSE sent

(* accept returns a connection, for the first worker, as long as there are
   descriptors; if it gets number 0, the loop ends, and so does main. *)
Accept(g) ==
    LET table == fds[<<g, Main>>]
        fd    == Lowest(table)
    IN  /\ at[g] = "accept" /\ table[server_fd[g]] = Listener(g)
        /\ backlog[g] > 0 /\ Free \in Range(table)
        /\ accepted' = [accepted EXCEPT ![g] = @ + 1]
        /\ IF fd = 0
           THEN GoneLeaving(<<g, Main>>, [backlog EXCEPT ![g] = @ - 1])
           ELSE /\ fds' = [fds EXCEPT ![<<g, Main>>] = Opened(table, Connection(g))]
                /\ new_socket' = [new_socket EXCEPT ![g] = fd]
                /\ backlog' = [backlog EXCEPT ![g] = @ - 1]
                /\ send_fd(fds'[<<g, Main>>], worker_sockets[g][1][1], fd)
                /\ UNCHANGED <<alive, at, i, server_fd, worker_sockets>>

(* accept returns -1, which is not 0: it is sent, in vain, to a worker. *)
AcceptFails(g) ==
    /\ at[g] = "accept"
    /\ new_socket' = [new_socket EXCEPT ![g] = -1]
    /\ send_fd(fds[<<g, Main>>], worker_sockets[g][1][1], -1)
    /\ UNCHANGED <<alive, fds, at, i, server_fd, worker_sockets, backlog,
                   accepted>>

(* msgrcv fails in the logger: log_queue_id is 0 and no such queue is there. *)
LoggerEnds(g) ==
    /\ <<g, Logger>> \in alive
    /\ Gone(<<g, Logger>>)
    /\ UNCHANGED accepted

-------------------------------------------------------------------------------
(* A client connects to a socket that listens on the port, whoever has it. *)
Connect(g) ==
    /\ FoldFunction(+, 0, backlog) < MaxClients
    /\ IsOpen(Listener(g), alive, fds)
    /\ backlog' = [backlog EXCEPT ![g] = @ + 1]
    /\ UNCHANGED <<alive, fds, at, i, members, accepted, sent>>

(* The user kills one process. *)
Kill(p) ==
    /\ p \in alive
    /\ Gone(p)
    /\ UNCHANGED accepted

MainStep(g) == SocketPair(g) \/ ForkWorker(g) \/ ForkLogger(g) \/ Accept(g)

Next ==
    \/ \E g \in Starts : \/ Start(g) \/ MainStep(g) \/ AcceptFails(g)
                         \/ LoggerEnds(g) \/ Connect(g)
    \/ \E p \in Processes : Kill(p)

(* main is not delayed for ever, and a blocking accept returns when there is
   a connection; nobody has to start, connect to or kill anything. *)
Spec == Init /\ [][Next]_vars /\ \A g \in Starts : WF_vars(MainStep(g))

-------------------------------------------------------------------------------
(* Correctness *)

(* Descriptor 0 is free when main first calls accept: a connection gets
   that number and ends the loop.  So a start accepts one connection at most,
   and is over when it has; all later clients find a listening socket that
   only workers and the logger keep open, or none. *)
OneAcceptPerStart ==
    \A g \in Starts : accepted[g] <= 1 /\ (accepted[g] = 1 => at[g] = "ended")

(* recv_fd never returns: no connection is handed over, and no worker sees
   the end of its pair, also when main is gone, because the workers hold the
   sending ends themselves.  They stay, with the port, until they are killed. *)
WorkersSleepOn ==
    /\ sent = {}
    /\ \A g \in Starts, w \in Workers :
          <<g, w>> \in alive => IsOpen(Pair(g, w, 0), alive, fds)

(* A single client ends the server: once a connection waits, main exits,
   however the start-up, failing accepts and kills interleave; except when
   its listening socket got descriptor 0 itself and was closed. *)
FirstClientEndsServer ==
    \A g \in Starts :
        backlog[g] > 0 /\ at[g] # "ended" /\ server_fd[g] # 0 ~> at[g] = "ended"
===============================================================================
