----------------------------- MODULE HttpPoolProofs ----------------------------
(***************************************************************************)
(* The pool implements FairDispatch, for every number of workers, every    *)
(* capacity of the socket pairs and the log queue, and whatever clients    *)
(* and signals do.  The argument is that main deals connection c to worker *)
(* (c - 1) % WORKER_COUNT, so that no two workers ever hold the same one.  *)
(*                                                                         *)
(* And the log is in order: what is logged of a connection is at any time  *)
(* what the calls made so far for its request have sent.  What a filtered  *)
(* sequence holds is an induction over its length, made with a set of      *)
(* numbers (lemma Induction).                                              *)
(***************************************************************************)
EXTENDS HttpPool, SequenceTheorems, WellFoundedInduction, TLAPS

-------------------------------------------------------------------------------
(* The inductive invariant *)

(* Connection c may be with worker w: it is w's, and main is done with it. *)
Due(c, w) ==
    /\ c \in 1 .. accepts /\ Home(c) = w
    /\ pc[Server] = "send" => c < accepts

EverybodyHoldsItsOwn ==
    \A w \in Workers :
        /\ conn[w] # None => Due(conn[w], w)
        /\ \A i \in 1 .. Len(channel[w]) : Due(channel[w][i], w)
        /\ \A c \in sockets[w] : Due(c, w)

(* main's round: the accepted connection is the latest, and next_worker the
   one whose turn it is. *)
MainInTurn ==
    /\ pc[Server] = "accept" => next_worker = Home(accepts + 1)
    /\ pc[Server] \in {"send", "close"} =>
           accepts > 0 /\ next_worker = Home(accepts)
    /\ pc[Server] = "send" => client_sock \in {accepts, Failed}

(* A worker between two connections has none, and one that serves a request
   is at one of its steps. *)
InStep(w) ==
    /\ pc[w] = "recv" => conn[w] = None
    /\ pc[w] \in {"handshake", "request", "work"} => conn[w] \in Conns
    /\ pc[w] = "work" =>
          /\ request[conn[w]] \in Kinds
          /\ step[w] \in 1 .. Len(Steps[request[conn[w]]])

WorkerInStep == \A w \in Workers : InStep(w)

(* The first part of LeakIsTheAnswered. *)
LeakAnswered == \A w \in Workers : sockets[w] \ {conn[w]} \subseteq answered

PoolInv ==
    /\ PoolTypeOK /\ EverybodyHoldsItsOwn /\ MainInTurn
    /\ WorkerInStep /\ LeakAnswered

-------------------------------------------------------------------------------
(* Lemmas about the constants *)

LEMMA ProcsAreDifferent ==
    /\ Server \in Procs /\ Logger \in Procs /\ Workers \subseteq Procs
    /\ Server \notin Workers /\ Logger \notin Workers /\ Server # Logger
    /\ 0 \in Workers
BY PoolAssumption DEF Procs, Server, Logger, Workers

LEMMA BoundsAreNumbers ==
    /\ MaxAccepts \in Nat /\ MaxSignals \in Nat
    /\ FdLimit \in Nat /\ ChannelSize \in Nat /\ QueueSize \in Nat
    /\ None \notin Conns /\ Failed \notin Conns /\ None # Failed
BY PoolAssumption DEF Conns, None, Failed

LEMMA HomeIsAWorker ==
    ASSUME NEW c \in Int
    PROVE  Home(c) \in Workers
BY PoolAssumption DEF Home, Workers

LEMMA RemainderIsUnique ==
    ASSUME NEW n \in Nat \ {0}, NEW q \in Int, NEW r \in 0 .. n - 1
    PROVE  (n * q + r) % n = r
<1>. DEFINE a == n * q + r  k == a \div n  m == a % n
<1>1. a \in Int /\ k \in Int /\ m \in 0 .. n - 1 /\ a = n * k + m
  OBVIOUS
<1>2. n * (q - k) = m - r
  BY <1>1
<1>3. \A d \in Int : d >= 1 => n * d >= n
  OBVIOUS
<1>4. ~(q - k >= 1)
  BY <1>1, <1>2, <1>3
<1>5. n * (k - q) = r - m
  BY <1>1
<1>6. ~(k - q >= 1)
  BY <1>1, <1>3, <1>5
<1>7. q = k
  BY <1>1, <1>4, <1>6
<1>. QED  BY <1>1, <1>7

LEMMA NextWorkerIsHome ==
    ASSUME NEW c \in Nat \ {0}, next_worker = Home(c)
    PROVE  NextWorker = Home(c + 1)
<1>. DEFINE n == WORKER_COUNT  q == (c - 1) \div n  r == (c - 1) % n
<1>1. /\ n \in Nat \ {0} /\ q \in Int /\ r \in 0 .. n - 1
      /\ c - 1 = n * q + r
  BY PoolAssumption
<1>2. NextWorker = (r + 1) % n /\ Home(c + 1) = c % n
  BY DEF NextWorker, Home
<1>. HIDE DEF n, q, r
<1>3. CASE r + 1 \in 0 .. n - 1
  <2>1. c = n * q + (r + 1) /\ r + 1 = n * 0 + (r + 1)
    BY <1>1, <1>3
  <2>2. c % n = r + 1 /\ (r + 1) % n = r + 1
    BY <1>1, <1>3, <2>1, RemainderIsUnique
  <2>. QED  BY <1>2, <2>2
<1>4. CASE r + 1 = n
  <2>1. c = n * (q + 1) + 0 /\ r + 1 = n * 1 + 0 /\ 0 \in 0 .. n - 1
    BY <1>1, <1>4
  <2>2. c % n = 0 /\ (r + 1) % n = 0
    BY <1>1, <2>1, RemainderIsUnique
  <2>. QED  BY <1>2, <2>2
<1>. QED  BY <1>1, <1>3, <1>4

(* The calls that are not the reply are followed by another one. *)
LEMMA StepsEndWithReply ==
    ASSUME NEW kind \in Kinds
    PROVE  /\ Len(Steps[kind]) \in 1 .. 6
           /\ \A i \in 1 .. Len(Steps[kind]) :
                 /\ Steps[kind][i] \in Texts \cup {"script", "reply"}
                 /\ Steps[kind][i] # "reply" => i < Len(Steps[kind])
<1>1. kind \in {"file", "missing", "index", "script", "upload"}
  BY PoolAssumption DEF Steps
<1>2. CASE kind = "file"
  BY <1>2 DEF Steps, Texts
<1>3. CASE kind = "missing"
  BY <1>3 DEF Steps, Texts
<1>4. CASE kind = "index"
  BY <1>4 DEF Steps, Texts
<1>5. CASE kind = "script"
  BY <1>5 DEF Steps, Texts
<1>6. CASE kind = "upload"
  BY <1>6 DEF Steps, Texts
<1>. QED  BY <1>1, <1>2, <1>3, <1>4, <1>5, <1>6

(* A call that is not the reply leaves the worker in the steps of its
   request. *)
LEMMA NowIsAStep ==
    ASSUME WorkerInStep, NEW w \in Workers, Now(w) # "none"
    PROVE  /\ pc[w] = "work" /\ conn[w] \in Conns
           /\ Now(w) \in Texts \cup {"script", "reply"}
           /\ request[conn[w]] \in Kinds
           /\ step[w] \in 0 .. 6
           /\ Now(w) # "reply" =>
                 /\ step[w] + 1 \in 1 .. Len(Steps[request[conn[w]]])
                 /\ step[w] + 1 \in 0 .. 6
<1>1. pc[w] = "work"
  BY DEF Now
<1>. DEFINE kind == request[conn[w]]
<1>2. kind \in Kinds /\ step[w] \in 1 .. Len(Steps[kind]) /\ conn[w] \in Conns
  BY <1>1 DEF WorkerInStep, InStep
<1>3. Now(w) = Steps[kind][step[w]]
  BY <1>1 DEF Now
<1>. HIDE DEF kind
<1>4. /\ Len(Steps[kind]) \in 1 .. 6
      /\ Now(w) \in Texts \cup {"script", "reply"}
      /\ Now(w) # "reply" => step[w] < Len(Steps[kind])
  BY <1>2, <1>3, StepsEndWithReply
<1>5. \A n \in 1 .. 6 : \A i \in 1 .. n :
         i \in 0 .. 6 /\ (i < n => i + 1 \in 1 .. n /\ i + 1 \in 0 .. 6)
  OBVIOUS
<1>. QED  BY <1>1, <1>2, <1>4, <1>5 DEF kind

-------------------------------------------------------------------------------
(* Every variable keeps its type *)

LEMMA MainKeepsTypes ==
    ASSUME PoolInv, Accept \/ MainStep
    PROVE  PoolTypeOK'
<1>1. CASE Accept
  BY <1>1, ProcsAreDifferent, BoundsAreNumbers
     DEF PoolInv, PoolTypeOK, Accept, Goto, Conns, workervars, logvars,
         ServerPCs
<1>2. CASE Send
  <2>1. /\ channel' \in [Workers -> Seq(Conns)]
        /\ \A w \in Workers : Len(channel'[w]) <= ChannelSize
    <3>1. CASE UNCHANGED channel
      BY <3>1 DEF PoolInv, PoolTypeOK
    <3>2. CASE /\ client_sock # Failed /\ Len(channel[next_worker]) < ChannelSize
               /\ channel' = [channel EXCEPT
                                ![next_worker] = Append(@, client_sock)]
      <4>1. client_sock \in Conns
        BY <1>2, <3>2, BoundsAreNumbers
           DEF PoolInv, PoolTypeOK, MainInTurn, Send, Conns
      <4>. QED  BY <3>2, <4>1, BoundsAreNumbers DEF PoolInv, PoolTypeOK
    <3>. QED  BY <1>2, <3>1, <3>2 DEF Send
  <2>. QED
    BY <1>2, <2>1, ProcsAreDifferent
       DEF PoolInv, PoolTypeOK, Send, Goto, mainvars, workervars, logvars,
           ServerPCs
<1>3. CASE SendBreaks
  BY <1>3, ProcsAreDifferent
     DEF PoolInv, PoolTypeOK, SendBreaks, Goto, workervars, logvars, ServerPCs,
         Ended
<1>4. CASE Close
  <2>1. NextWorker \in Workers
    BY PoolAssumption DEF PoolInv, PoolTypeOK, NextWorker, Workers
  <2>. QED
    BY <1>4, <2>1, ProcsAreDifferent
       DEF PoolInv, PoolTypeOK, Close, Goto, workervars, logvars, ServerPCs
<1>. QED  BY <1>1, <1>2, <1>3, <1>4 DEF MainStep

LEMMA EndsKeepsTypes ==
    ASSUME PoolTypeOK, NEW w \in Workers, NEW how \in Ended, Ends(w, how)
    PROVE  /\ pc' \in [Procs -> ServerPCs \cup WorkerPCs \cup Ended
                                \cup {"logging", "cleanup"}]
           /\ channel' \in [Workers -> Seq(Conns)]
           /\ \A v \in Workers : Len(channel'[v]) <= ChannelSize
           /\ conn' \in [Workers -> Conns \cup {None}]
           /\ step' \in [Workers -> 0 .. 6]
           /\ sockets' \in [Workers -> SUBSET Conns]
           /\ pending' \subseteq Procs
BY ProcsAreDifferent, BoundsAreNumbers DEF PoolTypeOK, Ends, Goto

LEMMA CrashKeepsTypes ==
    ASSUME PoolTypeOK, NEW w \in Workers, NEW how \in Ended, Crash(w, how)
    PROVE  PoolTypeOK'
<1>1. Ends(w, how) /\ UNCHANGED <<mainvars, script, request, answered,
                                  logvars, signals>>
  BY DEF Crash
<1>. QED
  BY <1>1, EndsKeepsTypes DEF PoolTypeOK, mainvars, logvars

LEMMA MsgsndKeepsTypes ==
    ASSUME NEW S, NEW m \in S, queue \in Seq(S), Len(queue) <= QueueSize,
           msgsnd(m)
    PROVE  queue' \in Seq(S) /\ Len(queue') <= QueueSize
BY BoundsAreNumbers DEF msgsnd

LEMMA WorkerKeepsTypes ==
    ASSUME PoolInv, NEW w \in Workers, WorkerStep(w) \/ ScriptEnds(w)
    PROVE  PoolTypeOK'
<1>. USE ProcsAreDifferent, BoundsAreNumbers DEF PoolInv, Goto
<1>1. CASE Recv(w)
  BY <1>1 DEF PoolTypeOK, Recv, mainvars, logvars, WorkerPCs
<1>2. CASE Handshake(w)
  BY <1>2 DEF PoolTypeOK, Handshake, mainvars, workervars, logvars, WorkerPCs
<1>9. CASE HandshakeFails(w)
  BY <1>9 DEF PoolTypeOK, HandshakeFails, mainvars, logvars, WorkerPCs
<1>3. CASE ReadRequest(w)
  <2>1. request' \in [Conns -> Kinds \cup {"unread"}]
    BY <1>3 DEF PoolTypeOK, WorkerInStep, InStep, ReadRequest
  <2>. QED
    BY <1>3, <2>1 DEF PoolTypeOK, ReadRequest, mainvars, logvars, WorkerPCs
<1>4. CASE RecvEOF(w) \/ ReadBreaks(w) \/ NoDescriptor(w) \/ WriteBreaks(w)
  <2>1. CASE Goto(w, "endless") /\ UNCHANGED <<mainvars, channel, workervars,
                                               logvars, pending, signals>>
    BY <2>1 DEF PoolTypeOK, mainvars, workervars, logvars, WorkerPCs
  <2>. QED
    BY <1>4, <2>1, CrashKeepsTypes
       DEF RecvEOF, ReadBreaks, NoDescriptor, WriteBreaks, Ended
<1>5. CASE log_message(w)
  <2>1. /\ conn[w] \in Conns /\ step[w] + 1 \in 0 .. 6
        /\ Now(w) \in Texts
    BY <1>5, NowIsAStep DEF log_message, Texts
  <2>2. queue' \in Seq(Conns \X Texts) /\ Len(queue') <= QueueSize
    <3>1. <<conn[w], Now(w)>> \in Conns \X Texts
      BY <2>1
    <3>2. msgsnd(<<conn[w], Now(w)>>)
      BY <1>5 DEF log_message
    <3>. QED
      BY <3>1, <3>2, MsgsndKeepsTypes DEF PoolTypeOK
  <2>. QED
    BY <1>5, <2>1, <2>2
       DEF PoolTypeOK, log_message, Advance, mainvars
<1>6. CASE execute_file(w)
  <2>1. step[w] + 1 \in 0 .. 6
    BY <1>6, NowIsAStep DEF execute_file
  <2>. QED
    BY <1>6, <2>1 DEF PoolTypeOK, execute_file, Advance, mainvars, logvars
<1>7. CASE ScriptEnds(w)
  BY <1>7 DEF PoolTypeOK, ScriptEnds, mainvars, logvars
<1>8. CASE Reply(w)
  <2>1. conn[w] \in Conns
    BY <1>8, NowIsAStep DEF Reply
  <2>. QED
    BY <1>8, <2>1 DEF PoolTypeOK, Reply, mainvars, logvars, WorkerPCs
<1>. QED
  BY <1>1, <1>2, <1>3, <1>4, <1>5, <1>6, <1>7, <1>8, <1>9
  DEF WorkerStep, ClientStep, OwnStep

LEMMA LoggerKeepsTypes ==
    ASSUME PoolInv, msgrcv \/ WriteLog
    PROVE  PoolTypeOK'
<1>1. CASE msgrcv
  BY <1>1, BoundsAreNumbers
     DEF PoolInv, PoolTypeOK, msgrcv, mainvars, workervars
<1>2. CASE WriteLog
  <2>1. log_msg[1] \in Conns \X Texts
    BY <1>2 DEF WriteLog, PoolInv, PoolTypeOK
  <2>2. log_file' \in [Conns -> Seq(Texts)]
    BY <1>2, <2>1 DEF WriteLog, PoolInv, PoolTypeOK
  <2>. QED
    BY <1>2, <2>2 DEF PoolInv, PoolTypeOK, WriteLog, mainvars, workervars
<1>. QED  BY <1>1, <1>2

LEMMA SignalsKeepTypes ==
    ASSUME PoolInv, Signal \/ \E q \in Procs : EnterCleanup(q) \/ cleanup(q)
    PROVE  PoolTypeOK'
<1>1. CASE Signal
  <2>1. pending' \subseteq Procs /\ signals' \in 0 .. MaxSignals
    BY <1>1, BoundsAreNumbers DEF Signal, PoolInv, PoolTypeOK
  <2>. QED
    BY <1>1, <2>1
       DEF PoolInv, PoolTypeOK, Signal, mainvars, workervars, logvars
<1>2. ASSUME NEW q \in Procs, EnterCleanup(q)
      PROVE  PoolTypeOK'
  BY <1>2 DEF PoolInv, PoolTypeOK, EnterCleanup, Goto, workervars, logvars
<1>3. ASSUME NEW q \in Procs, cleanup(q)
      PROVE  PoolTypeOK'
  <2>1. /\ removed' \in BOOLEAN /\ queue' = <<>>
        /\ UNCHANGED <<mainvars, script, request, answered, log_file, signals>>
    BY <1>3 DEF cleanup
  <2>4. queue' \in Seq(Conns \X Texts) /\ Len(queue') <= QueueSize
    BY <2>1, BoundsAreNumbers
  <2>5. log_msg' \in Seq(Conns \X Texts) /\ Len(log_msg') <= 1
    BY <1>3 DEF cleanup, PoolInv, PoolTypeOK
  <2>2. CASE q \in Workers
    <3>1. Ends(q, "exited") /\ "exited" \in Ended
      BY <1>3, <2>2 DEF cleanup, Ended
    <3>. QED
      BY <2>1, <2>2, <2>4, <2>5, <3>1, EndsKeepsTypes
         DEF PoolInv, PoolTypeOK, mainvars
  <2>3. CASE q \notin Workers
    BY <1>3, <2>1, <2>3, <2>4, <2>5
       DEF cleanup, Goto, PoolInv, PoolTypeOK, mainvars, Ended
  <2>. QED  BY <2>2, <2>3
<1>. QED  BY <1>1, <1>2, <1>3

-------------------------------------------------------------------------------
(* Every connection stays with its worker *)

(* What the rest of the invariant reads of the workers. *)
workers == <<conn, step, sockets, request, answered>>

SamePlaces(W) == \A w \in W : pc'[w] = pc[w]

(* Of different workers no two hold the same connection. *)
LEMMA HoldersDiffer ==
    ASSUME EverybodyHoldsItsOwn, NEW v \in Workers, NEW w \in Workers, v # w
    PROVE  /\ sockets[v] \cap sockets[w] = {}
           /\ conn[v] # None => conn[v] # conn[w]
           /\ conn[v] # None => conn[v] \notin sockets[w]
BY DEF EverybodyHoldsItsOwn, Due

LEMMA MainKeepsRest ==
    ASSUME PoolInv, Accept \/ MainStep
    PROVE  /\ EverybodyHoldsItsOwn' /\ MainInTurn'
           /\ WorkerInStep' /\ LeakAnswered'
<1>. USE ProcsAreDifferent, BoundsAreNumbers
<1>. SUFFICES EverybodyHoldsItsOwn' /\ MainInTurn' /\ UNCHANGED workers
              /\ SamePlaces(Workers)
  BY DEF PoolInv, workers, SamePlaces, WorkerInStep, InStep, LeakAnswered
<1>0. /\ accepts \in Nat /\ pc \in [Procs -> ServerPCs \cup WorkerPCs \cup Ended
                                             \cup {"logging", "cleanup"}]
      /\ channel \in [Workers -> Seq(Conns)] /\ next_worker \in Workers
  BY DEF PoolInv, PoolTypeOK
<1>1. CASE Accept
  <2>1. /\ accepts' = accepts + 1 /\ client_sock' \in {accepts', Failed}
        /\ pc[Server] = "accept" /\ pc'[Server] = "send"
        /\ next_worker' = next_worker /\ UNCHANGED <<channel, workers>>
        /\ SamePlaces(Workers)
    BY <1>0, <1>1 DEF Accept, Goto, workervars, workers, SamePlaces
  <2>2. \A w \in Workers : \A c : Due(c, w) => Due(c, w)'
    BY <1>0, <2>1 DEF Due, Home
  <2>3. EverybodyHoldsItsOwn'
    BY <2>1, <2>2 DEF PoolInv, EverybodyHoldsItsOwn, workers
  <2>4. MainInTurn'
    BY <1>0, <2>1 DEF PoolInv, MainInTurn, Home
  <2>. QED  BY <2>1, <2>3, <2>4
<1>2. CASE Send
  <2>1. /\ accepts' = accepts /\ client_sock' = client_sock
        /\ next_worker' = next_worker
        /\ pc[Server] = "send" /\ pc'[Server] = "close"
        /\ UNCHANGED workers /\ SamePlaces(Workers)
    BY <1>0, <1>2 DEF Send, Goto, mainvars, workervars, workers, SamePlaces
  <2>2. \A w \in Workers : \A c : Due(c, w) => Due(c, w)'
    BY <2>1 DEF Due, Home
  <2>3. /\ client_sock # Failed => Due(client_sock, next_worker)'
        /\ client_sock # Failed => client_sock \in Conns
    BY <1>0, <2>1 DEF PoolInv, PoolTypeOK, MainInTurn, Due, Home, Conns
  <2>4. ASSUME NEW w \in Workers, NEW i \in 1 .. Len(channel'[w])
        PROVE  Due(channel[w][i], w)'
    <3>1. CASE channel'[w] = channel[w]
      BY <2>2, <3>1 DEF PoolInv, EverybodyHoldsItsOwn, Due, Home
    <3>2. CASE channel'[w] # channel[w]
      <4>1. /\ w = next_worker /\ client_sock # Failed
            /\ channel'[w] = Append(channel[w], client_sock)
        BY <1>0, <1>2, <3>2 DEF Send
      <4>2. channel[w] \in Seq(Conns) /\ client_sock \in Conns
        BY <1>0, <2>3, <4>1
      <4>3. CASE i = Len(channel[w]) + 1
        BY <2>1, <2>3, <4>1, <4>2, <4>3 DEF Due, Home
      <4>4. CASE i \in 1 .. Len(channel[w])
        BY <2>2, <4>1, <4>2, <4>4 DEF PoolInv, EverybodyHoldsItsOwn, Due, Home
      <4>. QED  BY <4>1, <4>2, <4>3, <4>4
    <3>. QED  BY <3>1, <3>2
  <2>5. EverybodyHoldsItsOwn'
    BY <2>1, <2>2, <2>4 DEF PoolInv, EverybodyHoldsItsOwn, Due, Home, workers
  <2>6. MainInTurn'
    BY <2>1 DEF PoolInv, MainInTurn, Home
  <2>. QED  BY <2>1, <2>5, <2>6
<1>3. CASE SendBreaks
  <2>1. /\ accepts' = accepts /\ next_worker' = next_worker
        /\ pc[Server] = "send" /\ pc'[Server] \in {"close", "killed"}
        /\ UNCHANGED <<channel, workers>> /\ SamePlaces(Workers)
    BY <1>0, <1>3 DEF SendBreaks, Goto, workervars, workers, SamePlaces
  <2>2. \A w \in Workers : \A c : Due(c, w) => Due(c, w)'
    BY <2>1 DEF Due, Home
  <2>. QED
    BY <2>1, <2>2 DEF PoolInv, EverybodyHoldsItsOwn, MainInTurn, Home, workers
<1>4. CASE Close
  <2>1. /\ accepts' = accepts /\ next_worker' = NextWorker
        /\ pc[Server] = "close" /\ pc'[Server] = "accept"
        /\ UNCHANGED <<channel, workers>> /\ SamePlaces(Workers)
    BY <1>0, <1>4 DEF Close, Goto, workervars, workers, SamePlaces
  <2>2. \A w \in Workers : \A c : Due(c, w) => Due(c, w)'
    BY <2>1 DEF Due, Home
  <2>3. NextWorker = Home(accepts + 1)
    BY <1>0, <2>1, NextWorkerIsHome DEF PoolInv, MainInTurn
  <2>4. MainInTurn'
    BY <2>1, <2>3 DEF MainInTurn, Home
  <2>. QED
    BY <2>1, <2>2, <2>4 DEF PoolInv, EverybodyHoldsItsOwn, workers
<1>. QED  BY <1>1, <1>2, <1>3, <1>4 DEF MainStep

(* A step of one worker, which may finish with its connection, take the next
   one from its socket pair, or lose everything. *)
OnlyTouches(w) ==
    /\ UNCHANGED mainvars
    /\ \A p \in Procs \ {w} : pc'[p] = pc[p]
    /\ \A v \in Workers \ {w} :
          /\ conn'[v] = conn[v] /\ step'[v] = step[v]
          /\ sockets'[v] = sockets[v] /\ channel'[v] = channel[v]
    /\ \A c \in Conns : c = conn[w] \/ request'[c] = request[c]
    /\ answered \subseteq answered'

LEMMA WorkerKeepsRest ==
    ASSUME PoolInv, NEW w \in Workers, OnlyTouches(w), PoolTypeOK',
           \/ conn'[w] \in {None, conn[w]}
           \/ channel[w] # <<>> /\ conn'[w] = Head(channel[w]),
           \/ channel'[w] \in {channel[w], <<>>}
           \/ channel[w] # <<>> /\ channel'[w] = Tail(channel[w]),
           sockets'[w] \subseteq sockets[w] \cup {conn'[w]},
           sockets'[w] \ {conn'[w]} \subseteq answered', InStep(w)'
    PROVE  PoolInv'
<1>. USE ProcsAreDifferent, BoundsAreNumbers
<1>1. /\ accepts' = accepts /\ client_sock' = client_sock
      /\ next_worker' = next_worker /\ pc'[Server] = pc[Server]
  BY DEF OnlyTouches, mainvars
<1>2. \A v \in Workers : \A c : Due(c, v) => Due(c, v)'
  BY <1>1 DEF Due, Home
<1>3. MainInTurn'
  BY <1>1 DEF PoolInv, MainInTurn, Home
<1>4. channel[w] \in Seq(Conns)
  BY DEF PoolInv, PoolTypeOK
<1>5. conn'[w] # None => Due(conn[w], w)'
  BY <1>2, <1>4 DEF PoolInv, EverybodyHoldsItsOwn, Due, Home
<1>6. ASSUME NEW i \in 1 .. Len(channel'[w])
      PROVE  Due(channel[w][i], w)'
  <2>1. \A j \in 1 .. Len(channel[w]) : Due(channel[w][j], w)
    BY DEF PoolInv, EverybodyHoldsItsOwn
  <2>2. \E j \in 1 .. Len(channel[w]) : channel'[w][i] = channel[w][j]
    <3>1. CASE channel'[w] = channel[w]
      BY <3>1
    <3>2. CASE channel'[w] = <<>>
      BY <3>2
    <3>3. CASE channel[w] # <<>> /\ channel'[w] = Tail(channel[w])
      <4>1. i + 1 \in 1 .. Len(channel[w]) /\ channel'[w][i] = channel[w][i + 1]
        BY <1>4, <3>3
      <4>. QED  BY <4>1
    <3>. QED  BY <3>1, <3>2, <3>3
  <2>. QED  BY <1>1, <2>1, <2>2 DEF Due, Home
<1>7. \A c \in sockets'[w] : Due(c, w)'
  <2>1. None \notin sockets'[w]
    BY DEF PoolTypeOK
  <2>. QED
    BY <1>2, <1>5, <2>1 DEF PoolInv, EverybodyHoldsItsOwn, Due, Home
<1>8. EverybodyHoldsItsOwn'
  BY <1>2, <1>5, <1>6, <1>7
     DEF OnlyTouches, PoolInv, EverybodyHoldsItsOwn, Due, Home
<1>9. LeakAnswered'
  BY DEF OnlyTouches, PoolInv, LeakAnswered
<1>10. ASSUME NEW v \in Workers, v # w
       PROVE  InStep(v)'
  <2>1. /\ InStep(v) /\ pc'[v] = pc[v] /\ conn'[v] = conn[v]
        /\ step'[v] = step[v]
        /\ conn[v] \in Conns => request'[conn[v]] = request[conn[v]]
    BY <1>10, HoldersDiffer DEF OnlyTouches, PoolInv, WorkerInStep
  <2>. QED  BY <2>1 DEF InStep
<1>11. WorkerInStep'
  BY <1>10 DEF WorkerInStep
<1>. QED
  BY <1>3, <1>8, <1>9, <1>11 DEF PoolInv

LEMMA EndsKeepsInv ==
    ASSUME PoolInv, NEW w \in Workers, NEW how \in Ended, Ends(w, how),
           UNCHANGED <<mainvars, request, answered>>, PoolTypeOK'
    PROVE  PoolInv'
<1>. USE ProcsAreDifferent
<1>1. /\ pc'[w] = how /\ conn'[w] = None /\ sockets'[w] = {}
      /\ channel'[w] = <<>>
  BY DEF PoolInv, PoolTypeOK, Ends, Goto
<1>2. OnlyTouches(w)
  BY DEF PoolInv, PoolTypeOK, Ends, Goto, OnlyTouches
<1>3. InStep(w)'
  BY <1>1 DEF InStep, Ended
<1>. QED  BY <1>1, <1>2, <1>3, WorkerKeepsRest

(* A step of a worker that leaves its socket pair alone and ends nothing. *)
LEMMA OwnStepKeepsInv ==
    ASSUME PoolInv, NEW w \in Workers, OnlyTouches(w), PoolTypeOK',
           conn' = conn, sockets' = sockets, channel'[w] = channel[w],
           answered' = answered, InStep(w)'
    PROVE  PoolInv'
<1>1. sockets[w] \ {conn[w]} \subseteq answered
  BY DEF PoolInv, LeakAnswered
<1>. QED  BY <1>1, WorkerKeepsRest

LEMMA WorkerKeepsInv ==
    ASSUME PoolInv, NEW w \in Workers, WorkerStep(w) \/ ScriptEnds(w)
    PROVE  PoolInv'
<1>. USE ProcsAreDifferent
<1>0. /\ PoolTypeOK /\ PoolTypeOK' /\ WorkerInStep /\ InStep(w)
      /\ sockets[w] \ {conn[w]} \subseteq answered
  BY WorkerKeepsTypes DEF PoolInv, LeakAnswered, WorkerInStep
<1>1. CASE Recv(w)
  <2>1. /\ conn[w] = None /\ channel[w] # <<>> /\ channel[w] \in Seq(Conns)
        /\ pc'[w] = "handshake" /\ conn'[w] = Head(channel[w])
        /\ sockets'[w] = sockets[w] \cup {conn'[w]}
        /\ channel'[w] = Tail(channel[w]) /\ answered' = answered
    BY <1>0, <1>1 DEF Recv, PoolTypeOK, Goto, InStep
  <2>2. OnlyTouches(w)
    BY <1>0, <1>1 DEF Recv, PoolTypeOK, Goto, OnlyTouches
  <2>3. InStep(w)' /\ sockets'[w] \ {conn'[w]} \subseteq answered'
    BY <1>0, <2>1, BoundsAreNumbers DEF InStep, PoolTypeOK
  <2>. QED  BY <1>0, <2>1, <2>2, <2>3, WorkerKeepsRest
<1>2. CASE Handshake(w)
  <2>1. /\ UNCHANGED <<channel, workervars>>
        /\ pc[w] = "handshake" /\ pc'[w] = "request"
    BY <1>0, <1>2 DEF Handshake, PoolTypeOK, Goto
  <2>2. OnlyTouches(w)
    BY <1>0, <1>2 DEF Handshake, PoolTypeOK, Goto, OnlyTouches, workervars
  <2>3. InStep(w)'
    BY <1>0, <2>1 DEF InStep, workervars
  <2>. QED  BY <1>0, <2>1, <2>2, <2>3, OwnStepKeepsInv DEF workervars
<1>3. CASE HandshakeFails(w)
  <2>1. /\ pc'[w] = "recv" /\ conn'[w] = None /\ answered' = answered
        /\ sockets'[w] = sockets[w] \ {conn[w]} /\ channel'[w] = channel[w]
    BY <1>0, <1>3 DEF HandshakeFails, PoolTypeOK, Goto
  <2>2. OnlyTouches(w)
    BY <1>0, <1>3 DEF HandshakeFails, PoolTypeOK, Goto, OnlyTouches
  <2>3. InStep(w)'
    BY <2>1 DEF InStep
  <2>. QED  BY <1>0, <2>1, <2>2, <2>3, WorkerKeepsRest
<1>4. CASE ReadRequest(w)
  <2>1. /\ conn[w] \in Conns /\ pc'[w] = "work" /\ step'[w] = 1
        /\ request'[conn[w]] \in Kinds
        /\ UNCHANGED <<conn, sockets, channel, answered>>
    BY <1>0, <1>4 DEF ReadRequest, PoolTypeOK, Goto, InStep
  <2>2. OnlyTouches(w)
    BY <1>0, <1>4 DEF ReadRequest, PoolTypeOK, Goto, OnlyTouches
  <2>3. 1 \in 1 .. Len(Steps[request'[conn[w]]])
    <3>1. \A n \in 1 .. 6 : 1 \in 1 .. n
      OBVIOUS
    <3>. QED  BY <2>1, <3>1, StepsEndWithReply
  <2>4. InStep(w)'
    BY <2>1, <2>3 DEF InStep
  <2>. QED  BY <1>0, <2>1, <2>2, <2>4, OwnStepKeepsInv
<1>5. CASE RecvEOF(w) \/ ReadBreaks(w) \/ NoDescriptor(w) \/ WriteBreaks(w)
  <2>1. CASE Goto(w, "endless") /\ UNCHANGED <<mainvars, channel, workervars,
                                               logvars, pending, signals>>
    <3>1. OnlyTouches(w) /\ pc'[w] = "endless"
      BY <1>0, <2>1 DEF PoolTypeOK, Goto, OnlyTouches, workervars
    <3>2. InStep(w)'
      BY <3>1 DEF InStep
    <3>. QED  BY <1>0, <2>1, <3>1, <3>2, OwnStepKeepsInv DEF workervars
  <2>2. ASSUME NEW how \in Ended, Crash(w, how)
        PROVE  PoolInv'
    BY <1>0, <2>2, EndsKeepsInv DEF Crash
  <2>. QED
    BY <1>5, <2>1, <2>2
       DEF RecvEOF, ReadBreaks, NoDescriptor, WriteBreaks, Ended
<1>6. CASE log_message(w) \/ execute_file(w)
  <2>1. Now(w) \in Texts \cup {"script"} /\ Advance(w)
        /\ UNCHANGED <<pc, conn, sockets, channel, request, answered>>
    BY <1>6 DEF log_message, execute_file
  <2>2. OnlyTouches(w)
    BY <1>0, <1>6 DEF log_message, execute_file, Advance, OnlyTouches,
                      PoolTypeOK
  <2>3. /\ pc[w] = "work" /\ conn[w] \in Conns /\ request[conn[w]] \in Kinds
        /\ step[w] + 1 \in 1 .. Len(Steps[request[conn[w]]])
    BY <1>0, <2>1, NowIsAStep DEF Texts
  <2>4. InStep(w)'
    BY <1>0, <2>1, <2>3 DEF InStep, Advance, PoolTypeOK
  <2>. QED  BY <1>0, <2>1, <2>2, <2>4, OwnStepKeepsInv
<1>7. CASE ScriptEnds(w)
  <2>1. UNCHANGED <<pc, mainvars, conn, step, sockets, channel, request,
                    answered>>
    BY <1>7 DEF ScriptEnds
  <2>2. OnlyTouches(w) /\ InStep(w)'
    BY <1>0, <2>1 DEF OnlyTouches, InStep
  <2>. QED  BY <1>0, <2>1, <2>2, OwnStepKeepsInv
<1>8. CASE Reply(w)
  <2>1. /\ pc'[w] = "recv" /\ conn'[w] = None /\ sockets' = sockets
        /\ answered' = answered \cup {conn[w]} /\ channel'[w] = channel[w]
    BY <1>0, <1>8 DEF Reply, PoolTypeOK, Goto
  <2>2. OnlyTouches(w)
    BY <1>0, <1>8 DEF Reply, PoolTypeOK, Goto, OnlyTouches
  <2>3. InStep(w)'
    BY <2>1 DEF InStep
  <2>4. sockets'[w] \ {conn'[w]} \subseteq answered'
    BY <1>0, <2>1
  <2>. QED  BY <1>0, <2>1, <2>2, <2>3, <2>4, WorkerKeepsRest
<1>. QED
  BY <1>1, <1>2, <1>3, <1>4, <1>5, <1>6, <1>7, <1>8
  DEF WorkerStep, ClientStep, OwnStep

(* The logger, a signal and a script leave the connections alone. *)
LEMMA SameConnsKeepInv ==
    ASSUME PoolInv, PoolTypeOK', UNCHANGED <<pc, mainvars, channel, workervars>>
    PROVE  PoolInv'
BY DEF PoolInv, mainvars, workervars, EverybodyHoldsItsOwn, Due, Home,
       MainInTurn, WorkerInStep, InStep, LeakAnswered

LEMMA CleanupKeepsInv ==
    ASSUME PoolInv, NEW q \in Procs, EnterCleanup(q) \/ cleanup(q)
    PROVE  PoolInv'
<1>. USE ProcsAreDifferent
<1>0. PoolTypeOK /\ PoolTypeOK'
  BY SignalsKeepTypes DEF PoolInv
<1>1. CASE q \in Workers /\ cleanup(q)
  BY <1>0, <1>1, EndsKeepsInv DEF cleanup, Ended
<1>2. CASE q \notin Workers \/ EnterCleanup(q)
  <2>1. /\ accepts' = accepts /\ next_worker' = next_worker
        /\ UNCHANGED <<channel, workers>>
        /\ pc'[q] \in {"cleanup", "exited"}
        /\ \A r \in Procs \ {q} : pc'[r] = pc[r]
    BY <1>0, <1>2
       DEF EnterCleanup, cleanup, Goto, PoolTypeOK, workervars, workers,
           mainvars
  <2>2. client_sock' = client_sock \/ q = Server
    BY <1>2 DEF EnterCleanup, cleanup, mainvars
  <2>3. \A w \in Workers : \A c : Due(c, w) => Due(c, w)'
    BY <2>1 DEF Due, Home
  <2>4. EverybodyHoldsItsOwn' /\ LeakAnswered'
    BY <2>1, <2>3
       DEF PoolInv, EverybodyHoldsItsOwn, LeakAnswered, workers, Due, Home
  <2>5. MainInTurn'
    BY <2>1, <2>2 DEF PoolInv, MainInTurn, Home
  <2>6. WorkerInStep'
    BY <2>1 DEF PoolInv, WorkerInStep, InStep, workers
  <2>. QED  BY <1>0, <2>4, <2>5, <2>6 DEF PoolInv
<1>. QED  BY <1>1, <1>2

LEMMA PoolInvIsInductive ==
    ASSUME PoolInv, [Next]_vars
    PROVE  PoolInv'
<1>1. CASE UNCHANGED vars
  <2>1. PoolTypeOK'
    BY <1>1
       DEF vars, mainvars, workervars, logvars, PoolInv, PoolTypeOK
  <2>. QED  BY <1>1, <2>1, SameConnsKeepInv DEF vars
<1>2. CASE Accept \/ MainStep
  BY <1>2, MainKeepsTypes, MainKeepsRest DEF PoolInv
<1>3. CASE Signal \/ msgrcv \/ WriteLog
  BY <1>3, SignalsKeepTypes, LoggerKeepsTypes, SameConnsKeepInv
     DEF Signal, msgrcv, WriteLog
<1>. QED
  BY <1>1, <1>2, <1>3, WorkerKeepsInv, CleanupKeepsInv DEF Next

LEMMA PoolInvAlways == Spec => []PoolInv
<1>1. Init => PoolInv
  <2>. SUFFICES ASSUME Init
                PROVE  PoolInv
    OBVIOUS
  <2>. USE ProcsAreDifferent, BoundsAreNumbers
  <2>1. /\ pc \in [Procs -> ServerPCs \cup WorkerPCs \cup Ended
                            \cup {"logging", "cleanup"}]
        /\ pc[Server] = "accept" /\ \A w \in Workers : pc[w] = "recv"
    BY DEF Init, ServerPCs, WorkerPCs, Ended
  <2>2. PoolTypeOK
    BY <2>1 DEF Init, PoolTypeOK, Conns
  <2>3. EverybodyHoldsItsOwn /\ LeakAnswered
    BY DEF Init, EverybodyHoldsItsOwn, LeakAnswered
  <2>4. Home(1) = 0
    BY PoolAssumption DEF Home
  <2>5. MainInTurn
    BY <2>1, <2>4 DEF Init, MainInTurn
  <2>6. WorkerInStep
    BY <2>1 DEF Init, WorkerInStep, InStep
  <2>. QED  BY <2>2, <2>3, <2>5, <2>6 DEF PoolInv
<1>. QED  BY <1>1, PoolInvIsInductive, PTL DEF Spec

-------------------------------------------------------------------------------
(* The invariants of the pool *)

(* Every variable keeps its type; a worker is never past the last call of its
   request, nor in a request that another worker could replace. *)
THEOREM PoolTypeCorrect == Spec => []PoolTypeOK
<1>1. PoolInv => PoolTypeOK
  BY DEF PoolInv
<1>. QED  BY <1>1, PoolInvAlways, PTL

(* A worker never holds a descriptor of another worker's connection, and
   those it holds without serving them are of connections it answered. *)
THEOREM OnlyAnsweredLeak == Spec => []LeakIsTheAnswered
<1>1. PoolInv => LeakIsTheAnswered
  BY HoldersDiffer DEF PoolInv, LeakAnswered, LeakIsTheAnswered
<1>. QED  BY <1>1, PoolInvAlways, PTL

-------------------------------------------------------------------------------
(* The refinement: the backlogs of FairDispatch *)

Serving(w) == IF conn[w] = None THEN <<>> ELSE <<conn[w]>>

(* With main, which has accepted it for w and not yet passed it on. *)
InTransit(w) ==
    IF next_worker = w /\ pc[Server] = "send" /\ client_sock # Failed
    THEN <<client_sock>> ELSE <<>>

backlogs == [w \in Workers |-> Backlog(w)]

LEMMA LatestIsLast ==
    ASSUME NEW S, NEW s \in Seq(S), NEW c \in S
    PROVE  s \o <<c>> # <<>> /\ Last(s \o <<c>>) = c /\ Front(s \o <<c>>) = s
<1>1. /\ Len(s \o <<c>>) = Len(s) + 1 /\ (s \o <<c>>)[Len(s) + 1] = c
      /\ \A i \in 1 .. Len(s) : (s \o <<c>>)[i] = s[i]
      /\ s \o <<c>> \in Seq(S)
  BY ConcatProperties
<1>2. s \o <<c>> # <<>> /\ Last(s \o <<c>>) = c
  BY <1>1 DEF Last
<1>3. Front(s \o <<c>>) = s
  BY <1>1 DEF Front
<1>. QED  BY <1>2, <1>3

LEMMA TailOfServed ==
    ASSUME NEW S, NEW s \in Seq(S), NEW t \in Seq(S), NEW c \in S
    PROVE  /\ (<<c>> \o s) \o t # <<>>
           /\ Tail((<<c>> \o s) \o t) = (<<>> \o s) \o t
<1>1. (<<c>> \o s) \o t = <<c>> \o (s \o t) /\ s \o t \in Seq(S)
  BY ConcatAssociative
<1>2. \A u \in Seq(S) : <<c>> \o u # <<>> /\ Tail(<<c>> \o u) = u
  OBVIOUS
<1>. QED  BY <1>1, <1>2

isOpen  == pc[Server] \in ServerPCs
running == {w \in Workers : ~Gone(w)}

(* The steps of FairDispatch, in the terms of the pool. *)
Idles   == UNCHANGED <<accepts, backlogs, isOpen, running>>
Skips   == /\ isOpen /\ accepts' = accepts + 1
           /\ UNCHANGED <<backlogs, isOpen, running>>
Arrives == /\ isOpen /\ accepts' = accepts + 1
           /\ backlogs' = [backlogs EXCEPT
                             ![Home(accepts + 1)] = Append(@, accepts')]
           /\ UNCHANGED <<isOpen, running>>
Finishes(w) == /\ w \in running /\ backlogs[w] # <<>>
               /\ backlogs' = [backlogs EXCEPT ![w] = Tail(@)]
               /\ UNCHANGED <<accepts, isOpen, running>>
EndsIn(s) == s # <<>> /\ Last(s) = accepts
Stops(w) == /\ w \in running /\ running' = running \ {w}
            /\ \E kept \in {<<>>, IF EndsIn(backlogs[w]) THEN <<accepts>>
                                  ELSE <<>>} :
                  backlogs' = [backlogs EXCEPT ![w] = kept]
            /\ UNCHANGED <<accepts, isOpen>>
Closes == /\ isOpen /\ ~isOpen'
          /\ \/ UNCHANGED backlogs
             \/ backlogs' = [w \in Workers |->
                               IF EndsIn(backlogs[w]) THEN Front(backlogs[w])
                               ELSE backlogs[w]]
          /\ UNCHANGED <<accepts, running>>

DispatchStep ==
    \/ Idles \/ Skips \/ Arrives \/ Closes
    \/ \E w \in Workers : Finishes(w) \/ Stops(w)

LEMMA StepsAreFair ==
    ASSUME PoolTypeOK, DispatchStep
    PROVE  [Dispatch!Next]_Dispatch!vars
<1>. USE DEF isOpen, running, backlogs, Dispatch!Next, Dispatch!vars,
            Dispatch!Workers, Workers
<1>1. CASE Idles
  BY <1>1 DEF Idles
<1>2. CASE Skips
  BY <1>2 DEF Skips, Dispatch!Skip
<1>3. CASE Arrives
  <2>1. Home(accepts + 1) = accepts % WORKER_COUNT
    BY DEF Home, PoolTypeOK
  <2>. QED  BY <1>3, <2>1 DEF Arrives, Dispatch!Arrive
<1>4. CASE Closes
  BY <1>4 DEF Closes, EndsIn, Last, Front, Dispatch!Close, Dispatch!Last,
              Dispatch!WithoutLatest, Dispatch!HasLatest, Dispatch!Front
<1>5. ASSUME NEW w \in Workers, Finishes(w)
      PROVE  Dispatch!Finish(w)
  BY <1>5 DEF Finishes, Dispatch!Finish
<1>6. ASSUME NEW w \in Workers, Stops(w)
      PROVE  Dispatch!StopWorker(w)
  BY <1>6 DEF Stops, EndsIn, Last, Dispatch!StopWorker, Dispatch!Last,
              Dispatch!OnlyLatest, Dispatch!HasLatest
<1>. QED
  BY <1>1, <1>2, <1>3, <1>4, <1>5, <1>6 DEF DispatchStep

LEMMA BacklogParts ==
    ASSUME PoolInv, NEW w \in Workers
    PROVE  /\ channel[w] \in Seq(Conns)
           /\ Serving(w) \in Seq(Conns) /\ InTransit(w) \in Seq(Conns)
           /\ Serving(w) \o channel[w] \in Seq(Conns)
           /\ backlogs[w] = (Serving(w) \o channel[w]) \o InTransit(w)
<1>1. channel[w] \in Seq(Conns) /\ conn[w] \in Conns \cup {None}
  BY DEF PoolInv, PoolTypeOK
<1>2. pc[Server] = "send" /\ client_sock # Failed => client_sock \in Conns
  BY BoundsAreNumbers DEF PoolInv, PoolTypeOK, MainInTurn, Conns
<1>3. Serving(w) \in Seq(Conns) /\ InTransit(w) \in Seq(Conns)
  BY <1>1, <1>2 DEF Serving, InTransit
<1>. QED
  BY <1>1, <1>3, ConcatProperties DEF backlogs, Backlog, Serving, InTransit

LEMMA SameBacklog ==
    ASSUME NEW w \in Workers, conn'[w] = conn[w], channel'[w] = channel[w],
           InTransit(w)' = InTransit(w)
    PROVE  Backlog(w)' = Backlog(w)
BY DEF Backlog, InTransit

(* Steps that no connection takes part in. *)
LEMMA SameBacklogs ==
    ASSUME UNCHANGED <<conn, channel>>,
           \A w \in Workers : InTransit(w)' = InTransit(w)
    PROVE  backlogs' = backlogs
<1>1. \A w \in Workers : Backlog(w)' = Backlog(w)
  BY DEF Backlog, InTransit
<1>. QED  BY <1>1 DEF backlogs

(* The latest connection is the last of a backlog, if it is still with main. *)
LEMMA LatestIsInTransit ==
    ASSUME PoolInv, pc[Server] = "send", client_sock # Failed,
           NEW w \in Workers
    PROVE  /\ client_sock = accepts /\ accepts \in Conns
           /\ w = next_worker =>
                 /\ EndsIn(backlogs[w])
                 /\ Front(backlogs[w]) = Serving(w) \o channel[w]
                 /\ InTransit(w) = <<accepts>>
           /\ w # next_worker =>
                 /\ ~EndsIn(backlogs[w])
                 /\ backlogs[w] = Serving(w) \o channel[w]
                 /\ InTransit(w) = <<>>
<1>. DEFINE s == Serving(w) \o channel[w]
<1>1. client_sock = accepts /\ accepts \in Conns
  BY BoundsAreNumbers DEF PoolInv, PoolTypeOK, MainInTurn, Conns
<1>2. /\ s \in Seq(Conns) /\ channel[w] \in Seq(Conns)
      /\ Serving(w) \in Seq(Conns) /\ backlogs[w] = s \o InTransit(w)
  BY BacklogParts
<1>3. CASE w = next_worker
  <2>1. InTransit(w) = <<accepts>>
    BY <1>1, <1>3 DEF InTransit
  <2>. HIDE DEF s
  <2>2. s \o <<accepts>> # <<>> /\ Last(s \o <<accepts>>) = accepts
        /\ Front(s \o <<accepts>>) = s
    BY <1>1, <1>2, LatestIsLast
  <2>3. EndsIn(backlogs[w]) /\ Front(backlogs[w]) = s
    BY <1>2, <2>1, <2>2 DEF EndsIn
  <2>. QED  BY <1>1, <1>3, <2>1, <2>3 DEF s
<1>4. CASE w # next_worker
  <2>1. InTransit(w) = <<>>
    BY <1>4 DEF InTransit
  <2>2. backlogs[w] = s
    BY <1>2, <2>1, ConcatEmptySeq
  <2>3. \A i \in 1 .. Len(Serving(w)) : Serving(w)[i] # accepts
    BY <1>1 DEF PoolInv, EverybodyHoldsItsOwn, Due, Serving, Conns
  <2>4. \A i \in 1 .. Len(channel[w]) : channel[w][i] # accepts
    BY <1>1 DEF PoolInv, EverybodyHoldsItsOwn, Due, Conns
  <2>5. \A i \in 1 .. Len(s) : s[i] # accepts
    <3>1. /\ Len(s) = Len(Serving(w)) + Len(channel[w])
          /\ \A i \in 1 .. Len(Serving(w)) + Len(channel[w]) :
                s[i] = IF i <= Len(Serving(w)) THEN Serving(w)[i]
                       ELSE channel[w][i - Len(Serving(w))]
      BY <1>2, ConcatProperties
    <3>2. Len(Serving(w)) \in Nat /\ Len(channel[w]) \in Nat
      BY <1>2
    <3>. HIDE DEF s
    <3>. QED  BY <2>3, <2>4, <3>1, <3>2
  <2>. HIDE DEF s
  <2>6. s # <<>> => Last(s) # accepts
    BY <1>2, <2>5 DEF Last
  <2>. QED  BY <1>1, <1>4, <2>1, <2>2, <2>6 DEF EndsIn, s
<1>. QED  BY <1>3, <1>4

-------------------------------------------------------------------------------
(* Every step of the pool is one of FairDispatch, or none *)

LEMMA AcceptIsFair ==
    ASSUME PoolInv, Accept
    PROVE  DispatchStep
<1>. USE ProcsAreDifferent, BoundsAreNumbers
<1>1. /\ accepts' = accepts + 1 /\ client_sock' \in {accepts', Failed}
      /\ pc[Server] = "accept" /\ pc'[Server] = "send"
      /\ next_worker' = next_worker /\ next_worker = Home(accepts + 1)
      /\ next_worker \in Workers /\ UNCHANGED <<conn, channel>>
      /\ \A p \in Procs \ {Server} : pc'[p] = pc[p]
      /\ accepts' \in Conns
  BY DEF Accept, Goto, PoolInv, PoolTypeOK, MainInTurn, workervars, Conns
<1>2. isOpen /\ isOpen' /\ running' = running
  BY <1>1 DEF isOpen, running, Gone, ServerPCs
<1>3. \A w \in Workers : InTransit(w) = <<>>
  BY <1>1 DEF InTransit
<1>4. CASE client_sock' = Failed
  <2>1. \A w \in Workers : InTransit(w)' = InTransit(w)
    BY <1>1, <1>3, <1>4 DEF InTransit
  <2>. QED  BY <1>1, <1>2, <2>1, SameBacklogs DEF DispatchStep, Skips
<1>5. CASE client_sock' # Failed
  <2>. DEFINE n == next_worker
  <2>1. \A w \in Workers : Backlog(w)' =
           (Serving(w) \o channel[w]) \o (IF w = n THEN <<accepts'>> ELSE <<>>)
    BY <1>1, <1>5 DEF Backlog, Serving
  <2>2. ASSUME NEW w \in Workers
        PROVE  /\ Serving(w) \o channel[w] \in Seq(Conns)
               /\ backlogs[w] = Serving(w) \o channel[w]
    <3>1. /\ Serving(w) \o channel[w] \in Seq(Conns)
          /\ backlogs[w] = (Serving(w) \o channel[w]) \o <<>>
      BY <1>3, BacklogParts
    <3>. QED  BY <3>1, ConcatEmptySeq
  <2>3. ASSUME NEW w \in Workers
        PROVE  Backlog(w)' = IF w = n THEN Append(backlogs[w], accepts')
                             ELSE backlogs[w]
    <3>1. CASE w = n
      BY <1>1, <2>1, <2>2, <3>1, AppendIsConcat
    <3>2. CASE w # n
      <4>1. Backlog(w)' = backlogs[w] \o <<>> /\ backlogs[w] \in Seq(Conns)
        BY <2>1, <2>2, <3>2
      <4>. QED  BY <3>2, <4>1, ConcatEmptySeq
    <3>. QED  BY <3>1, <3>2
  <2>4. backlogs' = [backlogs EXCEPT ![n] = Append(@, accepts')]
    BY <1>1, <2>3 DEF backlogs
  <2>. QED  BY <1>1, <1>2, <2>4 DEF DispatchStep, Arrives
<1>. QED  BY <1>4, <1>5

(* The descriptor changes hands. *)
LEMMA SendIsInvisible ==
    ASSUME PoolInv, Send
    PROVE  DispatchStep
<1>. USE ProcsAreDifferent, BoundsAreNumbers
<1>1. /\ pc[Server] = "send" /\ pc'[Server] = "close"
      /\ UNCHANGED <<mainvars, conn>> /\ next_worker \in Workers
      /\ \A p \in Procs \ {Server} : pc'[p] = pc[p]
      /\ channel \in [Workers -> Seq(Conns)]
  BY DEF Send, Goto, PoolInv, PoolTypeOK, workervars
<1>2. UNCHANGED <<accepts, isOpen, running>>
  BY <1>1 DEF isOpen, running, Gone, ServerPCs, mainvars
<1>3. \A w \in Workers : Backlog(w)' = Serving(w) \o channel'[w]
  <2>1. \A w \in Workers : channel'[w] \in Seq(Conns)
    BY MainKeepsTypes DEF MainStep, PoolTypeOK
  <2>2. \A w \in Workers : Backlog(w)' = (Serving(w) \o channel'[w]) \o <<>>
    BY <1>1 DEF Backlog, Serving
  <2>3. \A w \in Workers : Serving(w) \o channel'[w] \in Seq(Conns)
    BY <2>1, BacklogParts, ConcatProperties
  <2>. QED  BY <2>2, <2>3, ConcatEmptySeq
<1>4. ASSUME NEW w \in Workers
      PROVE  Backlog(w)' = backlogs[w]
  <2>1. CASE client_sock = Failed
    <3>1. InTransit(w) = <<>> /\ channel' = channel
      BY <1>1, <2>1 DEF InTransit, Send
    <3>2. /\ Serving(w) \o channel[w] \in Seq(Conns)
          /\ backlogs[w] = (Serving(w) \o channel[w]) \o <<>>
          /\ Backlog(w)' = Serving(w) \o channel[w]
      BY <1>3, <3>1, BacklogParts
    <3>. QED  BY <3>2, ConcatEmptySeq
  <2>2. CASE client_sock # Failed /\ w # next_worker
    <3>1. channel'[w] = channel[w]
      BY <1>1, <2>2 DEF Send
    <3>. QED  BY <1>1, <1>3, <2>2, <3>1, LatestIsInTransit
  <2>3. CASE client_sock # Failed /\ w = next_worker
    <3>1. channel'[w] = Append(channel[w], client_sock)
      BY <1>1, <2>3 DEF Send
    <3>2. client_sock \in Conns /\ InTransit(w) = <<client_sock>>
      BY <1>1, <2>3, LatestIsInTransit
    <3>3. channel'[w] = channel[w] \o <<client_sock>>
          /\ <<client_sock>> \in Seq(Conns)
      BY <1>1, <3>1, <3>2, AppendIsConcat
    <3>4. /\ Serving(w) \in Seq(Conns) /\ channel[w] \in Seq(Conns)
          /\ backlogs[w] = (Serving(w) \o channel[w]) \o <<client_sock>>
          /\ Backlog(w)' = Serving(w) \o (channel[w] \o <<client_sock>>)
      BY <1>3, <3>2, <3>3, BacklogParts
    <3>5. \A r \in Seq(Conns) : \A t \in Seq(Conns) : \A u \in Seq(Conns) :
             (r \o t) \o u = r \o (t \o u)
      BY ConcatAssociative
    <3>. QED  BY <3>3, <3>4, <3>5, Zenon
  <2>. QED  BY <2>1, <2>2, <2>3
<1>5. backlogs' = backlogs
  BY <1>4 DEF backlogs
<1>. QED  BY <1>2, <1>5 DEF DispatchStep, Idles

(* main gives up the connection it has not passed on, and closes. *)
LEMMA MainStops ==
    ASSUME PoolInv, UNCHANGED <<accepts, next_worker, conn, channel>>,
           isOpen, ~isOpen', running' = running
    PROVE  DispatchStep
<1>1. ASSUME NEW w \in Workers
      PROVE  Backlog(w)' = (Serving(w) \o channel[w]) \o <<>>
  BY DEF isOpen, ServerPCs, Backlog, Serving
<1>2. ASSUME NEW w \in Workers
      PROVE  /\ Backlog(w)' = Serving(w) \o channel[w]
             /\ Serving(w) \o channel[w] \in Seq(Conns)
             /\ backlogs[w] = (Serving(w) \o channel[w]) \o InTransit(w)
  <2>1. /\ Serving(w) \o channel[w] \in Seq(Conns)
        /\ backlogs[w] = (Serving(w) \o channel[w]) \o InTransit(w)
    BY BacklogParts
  <2>. QED  BY <1>1, <2>1, ConcatEmptySeq
<1>3. CASE pc[Server] = "send" /\ client_sock # Failed
  <2>1. ASSUME NEW w \in Workers
        PROVE  Backlog(w)' = IF EndsIn(backlogs[w]) THEN Front(backlogs[w])
                             ELSE backlogs[w]
    BY <1>2, <1>3, LatestIsInTransit
  <2>2. backlogs' = [w \in Workers |->
                       IF EndsIn(backlogs[w]) THEN Front(backlogs[w])
                       ELSE backlogs[w]]
    BY <2>1 DEF backlogs
  <2>. QED  BY <2>2 DEF DispatchStep, Closes
<1>4. CASE ~(pc[Server] = "send" /\ client_sock # Failed)
  <2>1. ASSUME NEW w \in Workers
        PROVE  Backlog(w)' = backlogs[w]
    <3>1. InTransit(w) = <<>>
      BY <1>4 DEF InTransit
    <3>2. backlogs[w] = (Serving(w) \o channel[w]) \o <<>>
      BY <1>2, <3>1
    <3>. QED  BY <1>1, <3>2
  <2>2. backlogs' = backlogs
    BY <2>1 DEF backlogs
  <2>. QED  BY <2>2 DEF DispatchStep, Closes
<1>. QED  BY <1>3, <1>4

(* A worker ends; a connection main still has for it stays. *)
LEMMA WorkerStops ==
    ASSUME PoolInv, NEW w \in Workers, NEW how \in Ended, Ends(w, how),
           UNCHANGED mainvars, ~Gone(w)
    PROVE  DispatchStep
<1>. USE ProcsAreDifferent
<1>1. /\ pc'[w] = how /\ conn'[w] = None /\ channel'[w] = <<>>
      /\ \A p \in Procs \ {w} : pc'[p] = pc[p]
      /\ \A v \in Workers \ {w} : conn'[v] = conn[v] /\ channel'[v] = channel[v]
  BY DEF PoolInv, PoolTypeOK, Ends, Goto
<1>2. /\ w \in running /\ running' = running \ {w}
      /\ UNCHANGED <<accepts, isOpen>>
  BY <1>1 DEF running, Gone, isOpen, mainvars
<1>3. \A v \in Workers : InTransit(v)' = InTransit(v)
  BY <1>1 DEF InTransit, mainvars
<1>4. \A v \in Workers \ {w} : Backlog(v)' = backlogs[v]
  BY <1>1, <1>3 DEF Backlog, InTransit, backlogs
<1>5. Backlog(w)' = InTransit(w)
  <2>1. Backlog(w)' = (<<>> \o <<>>) \o InTransit(w)
    BY <1>1, <1>3 DEF Backlog, InTransit
  <2>2. InTransit(w) \in Seq(Conns) /\ <<>> \in Seq(Conns)
    BY BacklogParts
  <2>3. \A s \in Seq(Conns) : <<>> \o s = s
    BY ConcatEmptySeq
  <2>. QED  BY <2>1, <2>2, <2>3
<1>6. InTransit(w) \in {<<>>, IF EndsIn(backlogs[w]) THEN <<accepts>> ELSE <<>>}
  <2>1. CASE pc[Server] = "send" /\ client_sock # Failed
    BY <2>1, LatestIsInTransit
  <2>2. CASE ~(pc[Server] = "send" /\ client_sock # Failed)
    BY <2>2 DEF InTransit
  <2>. QED  BY <2>1, <2>2
<1>7. backlogs' = [backlogs EXCEPT ![w] = InTransit(w)]
  BY <1>4, <1>5 DEF backlogs
<1>. QED  BY <1>2, <1>6, <1>7 DEF DispatchStep, Stops

(* A worker is through with its connection. *)
LEMMA WorkerFinishes ==
    ASSUME PoolInv, NEW w \in Workers, UNCHANGED <<mainvars, channel>>,
           conn[w] \in Conns, conn' = [conn EXCEPT ![w] = None],
           Goto(w, "recv"), ~Gone(w)
    PROVE  DispatchStep
<1>. USE ProcsAreDifferent, BoundsAreNumbers
<1>1. /\ pc'[w] = "recv" /\ conn'[w] = None /\ channel'[w] = channel[w]
      /\ \A p \in Procs \ {w} : pc'[p] = pc[p]
      /\ \A v \in Workers \ {w} : conn'[v] = conn[v] /\ channel'[v] = channel[v]
  BY DEF PoolInv, PoolTypeOK, Goto
<1>2. /\ w \in running /\ UNCHANGED <<accepts, isOpen, running>>
  BY <1>1 DEF running, Gone, isOpen, mainvars, Ended
<1>3. \A v \in Workers : InTransit(v)' = InTransit(v)
  BY <1>1 DEF InTransit, mainvars
<1>4. ASSUME NEW v \in Workers \ {w}
      PROVE  Backlog(v)' = backlogs[v]
  <2>1. conn'[v] = conn[v] /\ channel'[v] = channel[v]
    BY <1>1
  <2>2. InTransit(v)' = InTransit(v)
    BY <1>3
  <2>. QED  BY <2>1, <2>2, SameBacklog DEF backlogs
<1>5. Backlog(w)' = (<<>> \o channel[w]) \o InTransit(w)
  BY <1>1, <1>3 DEF Backlog, InTransit
<1>6. /\ channel[w] \in Seq(Conns) /\ InTransit(w) \in Seq(Conns)
      /\ backlogs[w] = (<<conn[w]>> \o channel[w]) \o InTransit(w)
  BY BacklogParts DEF Serving
<1>7. backlogs[w] # <<>> /\ Backlog(w)' = Tail(backlogs[w])
  BY <1>5, <1>6, TailOfServed
<1>8. backlogs' = [backlogs EXCEPT ![w] = Tail(@)]
  BY <1>4, <1>7 DEF backlogs
<1>. QED  BY <1>2, <1>7, <1>8 DEF DispatchStep, Finishes

(* A worker takes the next connection out of its socket pair. *)
LEMMA RecvIsInvisible ==
    ASSUME PoolInv, NEW w \in Workers, Recv(w)
    PROVE  DispatchStep
<1>. USE ProcsAreDifferent, BoundsAreNumbers
<1>1. /\ pc[w] = "recv" /\ pc'[w] = "handshake"
      /\ conn[w] = None /\ conn'[w] = Head(channel[w])
      /\ channel[w] # <<>> /\ channel'[w] = Tail(channel[w])
      /\ channel[w] \in Seq(Conns) /\ UNCHANGED mainvars
      /\ \A p \in Procs \ {w} : pc'[p] = pc[p]
      /\ \A v \in Workers \ {w} : conn'[v] = conn[v] /\ channel'[v] = channel[v]
  BY DEF Recv, PoolInv, PoolTypeOK, Goto, WorkerInStep, InStep
<1>2. UNCHANGED <<accepts, isOpen, running>>
  BY <1>1 DEF running, Gone, isOpen, mainvars, Ended
<1>3. \A v \in Workers : InTransit(v)' = InTransit(v)
  BY <1>1 DEF InTransit, mainvars
<1>4. \A v \in Workers \ {w} : Backlog(v)' = backlogs[v]
  BY <1>1, <1>3 DEF Backlog, InTransit, backlogs
<1>5. Head(channel[w]) \in Conns
  BY <1>1
<1>6. Backlog(w)' = (<<Head(channel[w])>> \o Tail(channel[w])) \o InTransit(w)
  BY <1>1, <1>3, <1>5 DEF Backlog, InTransit
<1>7. backlogs[w] = (<<>> \o channel[w]) \o InTransit(w)
  BY <1>1, BacklogParts DEF Serving
<1>8. /\ <<>> \o channel[w] = channel[w]
      /\ <<Head(channel[w])>> \o Tail(channel[w]) = channel[w]
  BY <1>1, <1>5
<1>9. backlogs' = backlogs
  BY <1>4, <1>6, <1>7, <1>8 DEF backlogs
<1>. QED  BY <1>2, <1>9 DEF DispatchStep, Idles

(* Steps inside the request of a worker, of the logger and of the kernel. *)
LEMMA OtherStepsAreInvisible ==
    ASSUME PoolInv, UNCHANGED <<mainvars, conn, channel>>, pc'[Server] = pc[Server],
           \A w \in Workers : Gone(w)' <=> Gone(w)
    PROVE  DispatchStep
<1>1. \A w \in Workers : InTransit(w)' = InTransit(w)
  BY DEF InTransit, mainvars
<1>2. UNCHANGED <<accepts, isOpen, running>>
  BY DEF isOpen, running, mainvars
<1>. QED  BY <1>1, <1>2, SameBacklogs DEF DispatchStep, Idles

LEMMA MainIsFair ==
    ASSUME PoolInv, Accept \/ MainStep
    PROVE  DispatchStep
<1>. USE ProcsAreDifferent
<1>1. CASE SendBreaks
  <2>1. /\ pc[Server] = "send" /\ accepts' = accepts
        /\ UNCHANGED <<next_worker, conn, channel>>
        /\ \A p \in Procs \ {Server} : pc'[p] = pc[p]
    BY <1>1 DEF SendBreaks, PoolInv, PoolTypeOK, Goto, workervars
  <2>2. running' = running
    BY <2>1 DEF running, Gone
  <2>3. CASE client_sock = Failed
    <3>1. client_sock' = client_sock /\ pc'[Server] = "close"
      BY <1>1, <2>3 DEF SendBreaks, PoolInv, PoolTypeOK, Goto
    <3>2. \A w \in Workers : InTransit(w)' = InTransit(w)
      BY <2>3, <3>1 DEF InTransit
    <3>3. isOpen' = isOpen
      BY <2>1, <3>1 DEF isOpen, ServerPCs
    <3>. QED
      BY <2>1, <2>2, <3>2, <3>3, SameBacklogs DEF DispatchStep, Idles
  <2>4. CASE client_sock # Failed
    <3>1. pc'[Server] = "killed"
      BY <1>1, <2>4 DEF SendBreaks, PoolInv, PoolTypeOK, Goto
    <3>2. isOpen /\ ~isOpen'
      BY <2>1, <3>1 DEF isOpen, ServerPCs
    <3>. QED  BY <2>1, <2>2, <3>2, MainStops
  <2>. QED  BY <2>3, <2>4
<1>2. CASE Close
  <2>1. /\ pc[Server] = "close" /\ pc'[Server] = "accept"
        /\ accepts' = accepts /\ UNCHANGED <<conn, channel>>
        /\ \A p \in Procs \ {Server} : pc'[p] = pc[p]
    BY <1>2 DEF Close, PoolInv, PoolTypeOK, Goto, workervars
  <2>2. \A w \in Workers : InTransit(w)' = InTransit(w)
    BY <2>1 DEF InTransit
  <2>3. isOpen' = isOpen /\ running' = running
    BY <2>1 DEF isOpen, ServerPCs, running, Gone
  <2>. QED  BY <2>1, <2>2, <2>3, SameBacklogs DEF DispatchStep, Idles
<1>. QED  BY <1>1, <1>2, AcceptIsFair, SendIsInvisible DEF MainStep

LEMMA WorkerIsFair ==
    ASSUME PoolInv, NEW w \in Workers, WorkerStep(w) \/ ScriptEnds(w)
    PROVE  DispatchStep
<1>. USE ProcsAreDifferent
<1>0. PoolTypeOK /\ WorkerInStep /\ InStep(w)
  BY DEF PoolInv, WorkerInStep
<1>1. CASE Recv(w)
  BY <1>1, RecvIsInvisible
<1>2. CASE HandshakeFails(w) \/ Reply(w)
  <2>1. /\ pc[w] \in {"handshake", "work"} /\ Goto(w, "recv")
        /\ conn' = [conn EXCEPT ![w] = None]
        /\ UNCHANGED <<mainvars, channel>>
    BY <1>2 DEF HandshakeFails, Reply, Now
  <2>2. conn[w] \in Conns /\ ~Gone(w)
    BY <1>0, <2>1 DEF InStep, Gone, Ended
  <2>. QED  BY <2>1, <2>2, WorkerFinishes
<1>3. ASSUME NEW how \in Ended, Crash(w, how), ~Gone(w)
      PROVE  DispatchStep
  BY <1>3, WorkerStops DEF Crash
<1>4. CASE RecvEOF(w) \/ ReadBreaks(w) \/ NoDescriptor(w) \/ WriteBreaks(w)
  <2>1. pc[w] \in {"recv", "handshake", "request", "work"}
    BY <1>4 DEF RecvEOF, ReadBreaks, NoDescriptor, WriteBreaks, Now
  <2>2. ~Gone(w)
    BY <2>1 DEF Gone, Ended
  <2>3. CASE Goto(w, "endless") /\ UNCHANGED <<mainvars, channel, workervars,
                                               logvars, pending, signals>>
    <3>1. /\ UNCHANGED <<mainvars, conn, channel>> /\ pc'[Server] = pc[Server]
          /\ \A v \in Workers : Gone(v)' <=> Gone(v)
      BY <1>0, <2>2, <2>3 DEF PoolTypeOK, Goto, Gone, Ended, workervars
    <3>. QED  BY <3>1, OtherStepsAreInvisible
  <2>. QED
    BY <1>3, <1>4, <2>2, <2>3
       DEF RecvEOF, ReadBreaks, NoDescriptor, WriteBreaks, Ended
<1>5. CASE Handshake(w) \/ ReadRequest(w)
  <2>1. /\ pc[w] \in {"handshake", "request"}
        /\ pc' = [pc EXCEPT ![w] = pc'[w]] /\ pc'[w] \in {"request", "work"}
        /\ UNCHANGED <<mainvars, conn, channel>>
    BY <1>0, <1>5 DEF Handshake, ReadRequest, Goto, PoolTypeOK, workervars
  <2>2. pc'[Server] = pc[Server] /\ \A v \in Workers : Gone(v)' <=> Gone(v)
    BY <1>0, <2>1 DEF PoolTypeOK, Gone, Ended
  <2>. QED  BY <2>1, <2>2, OtherStepsAreInvisible
<1>6. CASE log_message(w) \/ execute_file(w) \/ ScriptEnds(w)
  <2>1. UNCHANGED <<pc, mainvars, conn, channel>>
    BY <1>6 DEF log_message, execute_file, ScriptEnds
  <2>. QED  BY <2>1, OtherStepsAreInvisible DEF Gone
<1>. QED
  BY <1>1, <1>2, <1>4, <1>5, <1>6
  DEF WorkerStep, ClientStep, OwnStep

LEMMA CleanupIsFair ==
    ASSUME PoolInv, NEW q \in Procs, EnterCleanup(q) \/ cleanup(q)
    PROVE  DispatchStep
<1>. USE ProcsAreDifferent
<1>0. PoolTypeOK
  BY DEF PoolInv
<1>1. CASE EnterCleanup(Server) /\ q = Server
  <2>1. /\ pc'[Server] = "cleanup" /\ ~Gone(Server)
        /\ UNCHANGED <<accepts, next_worker, conn, channel>>
        /\ \A p \in Procs \ {Server} : pc'[p] = pc[p]
    BY <1>0, <1>1 DEF EnterCleanup, PoolTypeOK, Goto, workervars
  <2>2. ~isOpen' /\ running' = running
    BY <2>1 DEF isOpen, ServerPCs, running, Gone
  <2>3. CASE isOpen
    BY <2>1, <2>2, <2>3, MainStops
  <2>4. CASE ~isOpen
    <3>1. \A w \in Workers : InTransit(w)' = InTransit(w)
      BY <2>1, <2>4 DEF isOpen, ServerPCs, InTransit
    <3>. QED
      BY <2>1, <2>2, <2>4, <3>1, SameBacklogs DEF DispatchStep, Idles, isOpen
  <2>. QED  BY <2>3, <2>4
<1>2. CASE EnterCleanup(q) /\ q # Server
  <2>1. /\ pc'[Server] = pc[Server] /\ UNCHANGED <<mainvars, conn, channel>>
        /\ \A w \in Workers : Gone(w)' <=> Gone(w)
    BY <1>0, <1>2
       DEF EnterCleanup, PoolTypeOK, Goto, mainvars, workervars, Gone, Ended
  <2>. QED  BY <2>1, OtherStepsAreInvisible
<1>3. CASE cleanup(q) /\ q \in Workers
  <2>1. ~Gone(q) /\ Ends(q, "exited") /\ UNCHANGED mainvars
    BY <1>3 DEF cleanup, Gone, Ended
  <2>. QED  BY <1>3, <2>1, WorkerStops DEF Ended
<1>4. CASE cleanup(q) /\ q \notin Workers
  <2>1. /\ pc[q] = "cleanup" /\ pc'[q] = "exited"
        /\ UNCHANGED <<mainvars, conn, channel>>
        /\ \A p \in Procs \ {q} : pc'[p] = pc[p]
    BY <1>0, <1>4 DEF cleanup, PoolTypeOK, Goto
  <2>2. \A w \in Workers : InTransit(w)' = InTransit(w)
    BY <2>1 DEF InTransit, mainvars
  <2>3. UNCHANGED <<accepts, isOpen, running>>
    BY <1>4, <2>1 DEF isOpen, ServerPCs, running, Gone, mainvars
  <2>. QED  BY <2>1, <2>2, <2>3, SameBacklogs DEF DispatchStep, Idles
<1>. QED  BY <1>1, <1>2, <1>3, <1>4

(* The pool implements FairDispatch: connections are dealt in turn, each
   worker serves its own in the order they came in, and none is lost but with
   its worker or, before it is passed on, with main. *)
THEOREM PoolIsFair == Spec => DispatchSpec
<1>1. Init => Dispatch!Init
  <2>. SUFFICES ASSUME Init
                PROVE  Dispatch!Init
    OBVIOUS
  <2>1. /\ pc[Server] = "accept" /\ \A w \in Workers : ~Gone(w)
    BY ProcsAreDifferent DEF Init, Gone, Ended
  <2>2. \A w \in Workers : Backlog(w) = <<>>
    BY <2>1 DEF Init, Backlog
  <2>. QED
    BY <2>1, <2>2 DEF Init, Dispatch!Init, Dispatch!Workers, Workers, ServerPCs
<1>2. PoolInv /\ [Next]_vars => [Dispatch!Next]_Dispatch!vars
  <2>. SUFFICES ASSUME PoolInv, [Next]_vars
                PROVE  DispatchStep
    BY StepsAreFair DEF PoolInv
  <2>1. CASE UNCHANGED vars
    BY <2>1, OtherStepsAreInvisible DEF vars, workervars, Gone
  <2>2. CASE Signal \/ msgrcv \/ WriteLog
    BY <2>2, OtherStepsAreInvisible
       DEF Signal, msgrcv, WriteLog, workervars, Gone
  <2>. QED
    BY <2>1, <2>2, MainIsFair, WorkerIsFair, CleanupIsFair DEF Next
<1>. QED  BY <1>1, <1>2, PoolInvAlways, PTL DEF Spec, DispatchSpec

-------------------------------------------------------------------------------
(* The log: sequences, and what Only keeps of them *)

(* Induction, about a set of numbers. *)
LEMMA Induction ==
    ASSUME NEW S, 0 \in S, \A n \in Nat : n \in S => n + 1 \in S
    PROVE  Nat \subseteq S
<1>. DEFINE Less == {p \in Nat \X Nat : p[1] < p[2]}
            Rest == Nat \ S
<1>1. IsWellFoundedOn(Less, Nat)
  BY NatLessThanWellFounded DEF OpToRel
<1>. SUFFICES ASSUME Rest # {}  PROVE FALSE
  OBVIOUS
<1>2. PICK m \in Rest : \A x \in Rest : ~ (<<x, m>> \in Less)
  <2>. HIDE DEF Less
  <2>. QED  BY <1>1, WFMin
<1>3. m \in Nat \ {0} /\ m - 1 \in Nat /\ m = (m - 1) + 1
  OBVIOUS
<1>4. m - 1 \notin Rest
  <2>1. <<m - 1, m>> \in Less
    BY <1>3
  <2>. QED  BY <1>2, <2>1
<1>. QED  BY <1>3, <1>4

(* The recursive function in Only: what is kept of the first n elements. *)
Kept(s, S) ==
    CHOOSE F : F = [n \in 0 .. Len(s) |->
        IF n = 0 THEN <<>>
        ELSE IF s[n] \in S THEN Append(F[n - 1], s[n]) ELSE F[n - 1]]

LEMMA OnlyIsKept == \A s, S : Only(s, S) = Kept(s, S)[Len(s)]
BY DEF Only, Kept

LEMMA KeptIsDefined ==
    ASSUME NEW s, NEW S, Len(s) \in Nat
    PROVE  Kept(s, S) = [n \in 0 .. Len(s) |->
               IF n = 0 THEN <<>>
               ELSE IF s[n] \in S THEN Append(Kept(s, S)[n - 1], s[n])
                    ELSE Kept(s, S)[n - 1]]
<1>. DEFINE Value(F, n) ==
                IF n = 0 THEN <<>>
                ELSE IF s[n] \in S THEN Append(F[n - 1], s[n]) ELSE F[n - 1]
            Fits(F, m) == F = [n \in 0 .. m |-> Value(F, n)]
            D == {m \in Nat : \E F : Fits(F, m)}
<1>1. 0 \in D
  <2>. DEFINE F == [n \in 0 .. 0 |-> <<>>]
  <2>1. Fits(F, 0)
    OBVIOUS
  <2>. QED  BY <2>1
<1>2. ASSUME NEW m \in Nat, m \in D  PROVE m + 1 \in D
  <2>1. PICK F : Fits(F, m)
    BY <1>2
  <2>. DEFINE G == [n \in 0 .. m + 1 |-> IF n = m + 1 THEN Value(F, n) ELSE F[n]]
  <2>2. ASSUME NEW n \in 0 .. m + 1  PROVE G[n] = Value(G, n)
    <3>1. CASE n = 0
      BY <2>1, <3>1
    <3>2. CASE n \in 1 .. m
      <4>1. n - 1 \in 0 .. m /\ n \in 0 .. m /\ n # m + 1 /\ n - 1 # m + 1
            /\ n - 1 \in 0 .. m + 1
        BY <3>2
      <4>2. G[n] = F[n] /\ G[n - 1] = F[n - 1]
        BY <4>1
      <4>3. F[n] = Value(F, n)
        BY <2>1, <4>1
      <4>. QED  BY <4>2, <4>3
    <3>3. CASE n = m + 1
      <4>1. m \in 0 .. m + 1 /\ m # m + 1 /\ n - 1 = m /\ n # 0
        BY <3>3
      <4>2. G[n] = Value(F, n) /\ G[n - 1] = F[n - 1]
        BY <3>3, <4>1
      <4>. QED  BY <4>2
    <3>. QED  BY <3>1, <3>2, <3>3
  <2>3. Fits(G, m + 1)
    <3>. DEFINE V(n) == Value(G, n)
    <3>1. G = [n \in 0 .. m + 1 |-> G[n]]
      OBVIOUS
    <3>. HIDE DEF G
    <3>. QED  BY <2>2, <3>1
  <2>. HIDE DEF G, Fits
  <2>. QED  BY <2>3
<1>3. Len(s) \in D
  <2>. HIDE DEF D
  <2>. QED  BY <1>1, <1>2, Induction
<1>. QED  BY <1>3 DEF Kept

LEMMA KeptSteps ==
    ASSUME NEW s, NEW S, Len(s) \in Nat
    PROVE  /\ Kept(s, S)[0] = <<>>
           /\ \A n \in 0 .. Len(s) - 1 :
                 Kept(s, S)[n + 1] =
                     IF s[n + 1] \in S THEN Append(Kept(s, S)[n], s[n + 1])
                     ELSE Kept(s, S)[n]
<1>. DEFINE K == Kept(s, S)
<1>1. K = [n \in 0 .. Len(s) |->
               IF n = 0 THEN <<>>
               ELSE IF s[n] \in S THEN Append(K[n - 1], s[n]) ELSE K[n - 1]]
  BY KeptIsDefined
<1>. HIDE DEF K
<1>2. K[0] = <<>>
  BY <1>1
<1>3. ASSUME NEW n \in 0 .. Len(s) - 1
      PROVE  K[n + 1] = IF s[n + 1] \in S THEN Append(K[n], s[n + 1]) ELSE K[n]
  <2>1. n + 1 \in 0 .. Len(s) /\ n + 1 # 0 /\ (n + 1) - 1 = n
    OBVIOUS
  <2>2. K[n + 1] = IF s[n + 1] \in S THEN Append(K[(n + 1) - 1], s[n + 1])
                   ELSE K[(n + 1) - 1]
    BY <1>1, <2>1
  <2>. QED  BY <2>1, <2>2
<1>. QED  BY <1>2, <1>3 DEF K

(* Only the elements up to the n-th one matter. *)
LEMMA KeptAgree ==
    ASSUME NEW s, NEW t, NEW S, Len(s) \in Nat, Len(t) \in Nat,
           NEW m \in 0 .. Len(s), m <= Len(t), \A i \in 1 .. m : s[i] = t[i]
    PROVE  \A n \in 0 .. m : Kept(s, S)[n] = Kept(t, S)[n]
<1>. DEFINE D == {n \in Nat : n <= m => Kept(s, S)[n] = Kept(t, S)[n]}
<1>1. 0 \in D
  BY KeptSteps
<1>2. ASSUME NEW n \in Nat, n \in D  PROVE n + 1 \in D
  <2>. SUFFICES ASSUME n + 1 <= m
                PROVE  Kept(s, S)[n + 1] = Kept(t, S)[n + 1]
    OBVIOUS
  <2>1. /\ n \in 0 .. Len(s) - 1 /\ n \in 0 .. Len(t) - 1 /\ n <= m
        /\ n + 1 \in 1 .. m
    OBVIOUS
  <2>2. Kept(s, S)[n] = Kept(t, S)[n] /\ s[n + 1] = t[n + 1]
    BY <1>2, <2>1
  <2>. QED  BY <2>1, <2>2, KeptSteps
<1>3. Nat \subseteq D
  <2>. HIDE DEF D
  <2>. QED  BY <1>1, <1>2, Induction
<1>. QED  BY <1>3

LEMMA KeptTypes ==
    ASSUME NEW T, NEW s \in Seq(T), NEW S
    PROVE  \A n \in 0 .. Len(s) : Kept(s, S)[n] \in Seq(T \cap S)
<1>. DEFINE D == {n \in Nat : n <= Len(s) => Kept(s, S)[n] \in Seq(T \cap S)}
<1>0. Len(s) \in Nat
  OBVIOUS
<1>1. 0 \in D
  <2>1. Kept(s, S)[0] = <<>>
    BY <1>0, KeptSteps
  <2>2. <<>> \in Seq(T \cap S)
    OBVIOUS
  <2>. QED  BY <2>1, <2>2
<1>2. ASSUME NEW n \in Nat, n \in D  PROVE n + 1 \in D
  <2>. SUFFICES ASSUME n + 1 <= Len(s)
                PROVE  Kept(s, S)[n + 1] \in Seq(T \cap S)
    OBVIOUS
  <2>1. n \in 0 .. Len(s) - 1 /\ n <= Len(s) /\ s[n + 1] \in T
    BY <1>0
  <2>2. Kept(s, S)[n] \in Seq(T \cap S)
    BY <1>2, <2>1
  <2>3. Kept(s, S)[n + 1] = IF s[n + 1] \in S THEN Append(Kept(s, S)[n], s[n + 1])
                            ELSE Kept(s, S)[n]
    BY <1>0, <2>1, KeptSteps
  <2>. QED  BY <2>1, <2>2, <2>3
<1>3. Nat \subseteq D
  <2>. HIDE DEF D
  <2>. QED  BY <1>1, <1>2, Induction
<1>. QED  BY <1>0, <1>3

LEMMA OnlyOfNone == \A S : Only(<<>>, S) = <<>>
<1>1. Len(<<>>) = 0
  OBVIOUS
<1>. QED  BY <1>1, OnlyIsKept, KeptSteps

LEMMA OnlyAppended ==
    ASSUME NEW T, NEW s \in Seq(T), NEW x \in T, NEW S
    PROVE  Only(Append(s, x), S) =
               IF x \in S THEN Append(Only(s, S), x) ELSE Only(s, S)
<1>. DEFINE t == Append(s, x)
<1>1. /\ Len(s) \in Nat /\ Len(t) = Len(s) + 1 /\ t[Len(s) + 1] = x
      /\ \A i \in 1 .. Len(s) : s[i] = t[i]
  OBVIOUS
<1>. HIDE DEF t
<1>2. Kept(t, S)[Len(s)] = Kept(s, S)[Len(s)]
  BY <1>1, KeptAgree
<1>3. Kept(t, S)[Len(s) + 1] =
         IF t[Len(s) + 1] \in S THEN Append(Kept(t, S)[Len(s)], t[Len(s) + 1])
         ELSE Kept(t, S)[Len(s)]
  BY <1>1, KeptSteps
<1>. QED  BY <1>1, <1>2, <1>3, OnlyIsKept DEF t

LEMMA OnlyTypes ==
    ASSUME NEW T, NEW s \in Seq(T), NEW S
    PROVE  Only(s, S) \in Seq(T \cap S)
BY KeptTypes, OnlyIsKept

LEMMA AppendToConcat ==
    ASSUME NEW T, NEW a \in Seq(T), NEW b \in Seq(T), NEW x \in T
    PROVE  /\ Append(a \o b, x) = a \o Append(b, x)
           /\ Append(b, x) \in Seq(T)
<1>1. a \o b \in Seq(T) /\ <<x>> \in Seq(T) /\ Append(b, x) \in Seq(T)
  OBVIOUS
<1>2. Append(a \o b, x) = (a \o b) \o <<x>> /\ Append(b, x) = b \o <<x>>
  BY <1>1, AppendIsConcat
<1>3. (a \o b) \o <<x>> = a \o (b \o <<x>>)
  BY <1>1, ConcatAssociative
<1>. QED  BY <1>1, <1>2, <1>3

(* Taking the first element away takes it from the front of what is kept. *)
LEMMA OnlyFirst ==
    ASSUME NEW T, NEW s \in Seq(T), s # <<>>, NEW S
    PROVE  Only(s, S) = (IF Head(s) \in S THEN <<Head(s)>> ELSE <<>>)
                        \o Only(Tail(s), S)
<1>. DEFINE t == Tail(s)
            h == IF Head(s) \in S THEN <<Head(s)>> ELSE <<>>
            D == {n \in Nat : n <= Len(t) => Kept(s, S)[n + 1] = h \o Kept(t, S)[n]}
<1>1. /\ t \in Seq(T) /\ Len(t) \in Nat /\ Len(s) = Len(t) + 1 /\ Len(s) \in Nat
      /\ Head(s) = s[1] /\ s[1] \in T /\ \A i \in 1 .. Len(t) : t[i] = s[i + 1]
  OBVIOUS
<1>2. h \in Seq(T)
  <2>1. <<>> \in Seq(T) /\ <<Head(s)>> \in Seq(T)
    BY <1>1
  <2>. QED  BY <2>1
<1>3. \A n \in 0 .. Len(t) : Kept(t, S)[n] \in Seq(T)
  <2>1. \A n \in 0 .. Len(t) : Kept(t, S)[n] \in Seq(T \cap S)
    BY <1>1, KeptTypes
  <2>. QED  BY <2>1, SeqMonotonic
<1>. HIDE DEF t
<1>4. 0 \in D
  <2>1. Kept(s, S)[0] = <<>> /\ Kept(t, S)[0] = <<>>
    BY <1>1, KeptSteps
  <2>2. Kept(s, S)[0 + 1] = IF s[0 + 1] \in S THEN Append(Kept(s, S)[0], s[0 + 1])
                            ELSE Kept(s, S)[0]
    BY <1>1, KeptSteps
  <2>3. Append(<<>>, Head(s)) = <<Head(s)>>
    OBVIOUS
  <2>4. Kept(s, S)[0 + 1] = h
    BY <1>1, <2>1, <2>2, <2>3
  <2>. HIDE DEF h
  <2>5. h \o <<>> = h
    BY <1>2, ConcatEmptySeq
  <2>. QED  BY <2>1, <2>4, <2>5
<1>. HIDE DEF h
<1>5. ASSUME NEW n \in Nat, n \in D  PROVE n + 1 \in D
  <2>. SUFFICES ASSUME n + 1 <= Len(t)
                PROVE  Kept(s, S)[(n + 1) + 1] = h \o Kept(t, S)[n + 1]
    OBVIOUS
  <2>1. /\ n \in 0 .. Len(t) - 1 /\ n \in 0 .. Len(t) /\ n + 1 \in 0 .. Len(s) - 1
        /\ n + 1 \in 1 .. Len(t) /\ n <= Len(t)
    BY <1>1
  <2>. DEFINE x == t[n + 1]
              k == Kept(t, S)[n]
  <2>2. Kept(s, S)[n + 1] = h \o k /\ s[(n + 1) + 1] = x /\ x \in T /\ k \in Seq(T)
    BY <1>1, <1>3, <1>5, <2>1
  <2>3. Kept(t, S)[n + 1] = IF x \in S THEN Append(k, x) ELSE k
    BY <1>1, <2>1, KeptSteps
  <2>4. Kept(s, S)[(n + 1) + 1] =
            IF s[(n + 1) + 1] \in S THEN Append(Kept(s, S)[n + 1], s[(n + 1) + 1])
            ELSE Kept(s, S)[n + 1]
    <3>1. \A m \in 0 .. Len(s) - 1 :
             Kept(s, S)[m + 1] = IF s[m + 1] \in S THEN Append(Kept(s, S)[m], s[m + 1])
                                 ELSE Kept(s, S)[m]
      BY <1>1, KeptSteps
    <3>. DEFINE m == n + 1
    <3>2. m \in 0 .. Len(s) - 1
      BY <2>1
    <3>. HIDE DEF m
    <3>3. Kept(s, S)[m + 1] = IF s[m + 1] \in S THEN Append(Kept(s, S)[m], s[m + 1])
                              ELSE Kept(s, S)[m]
      BY <3>1, <3>2
    <3>. QED  BY <3>3 DEF m
  <2>. HIDE DEF x, k
  <2>5. Append(h \o k, x) = h \o Append(k, x)
    <3>1. x \in T /\ k \in Seq(T) /\ h \in Seq(T)
      BY <1>2, <2>2
    <3>2. \A a, b \in Seq(T), y \in T :
             Append(a \o b, y) = a \o Append(b, y) /\ Append(b, y) \in Seq(T)
      BY AppendToConcat
    <3>. QED  BY <3>1, <3>2
  <2>. QED  BY <2>2, <2>3, <2>4, <2>5
<1>6. Nat \subseteq D
  <2>. HIDE DEF D
  <2>. QED  BY <1>4, <1>5, Induction
<1>7. Kept(s, S)[Len(t) + 1] = h \o Kept(t, S)[Len(t)]
  BY <1>1, <1>6
<1>. QED  BY <1>1, <1>7, OnlyIsKept DEF h, t

LEMMA OnlyOfOne ==
    ASSUME NEW x, NEW S
    PROVE  Only(<<x>>, S) = IF x \in S THEN <<x>> ELSE <<>>
<1>1. /\ <<>> \in Seq({x}) /\ x \in {x} /\ Append(<<>>, x) = <<x>>
  OBVIOUS
<1>2. Only(Append(<<>>, x), S) = IF x \in S THEN Append(Only(<<>>, S), x)
                                 ELSE Only(<<>>, S)
  BY <1>1, OnlyAppended, Zenon
<1>. QED  BY <1>1, <1>2, OnlyOfNone

(* What is kept of a prefix, one element later, and in the end. *)
LEMMA OnlyOfPrefix ==
    ASSUME NEW T, NEW s \in Seq(T), NEW S
    PROVE  /\ Only(SubSeq(s, 1, 0), S) = <<>>
           /\ Only(SubSeq(s, 1, Len(s)), S) = Only(s, S)
           /\ \A n \in 0 .. Len(s) - 1 :
                 Only(SubSeq(s, 1, n + 1), S) =
                     IF s[n + 1] \in S THEN Append(Only(SubSeq(s, 1, n), S), s[n + 1])
                     ELSE Only(SubSeq(s, 1, n), S)
<1>1. SubSeq(s, 1, 0) = <<>> /\ SubSeq(s, 1, Len(s)) = s
  BY SubSeqEmpty, SubSeqFull
<1>2. ASSUME NEW n \in 0 .. Len(s) - 1
      PROVE  Only(SubSeq(s, 1, n + 1), S) =
                 IF s[n + 1] \in S THEN Append(Only(SubSeq(s, 1, n), S), s[n + 1])
                 ELSE Only(SubSeq(s, 1, n), S)
  <2>. DEFINE k == SubSeq(s, 1, n)
  <2>1. k \in Seq(T) /\ s[n + 1] \in T
    OBVIOUS
  <2>2. SubSeq(s, 1, n + 1) = Append(k, s[n + 1])
    OBVIOUS
  <2>. HIDE DEF k
  <2>4. \A x \in T : Only(Append(k, x), S) =
            IF x \in S THEN Append(Only(k, S), x) ELSE Only(k, S)
    BY <2>1, OnlyAppended, Zenon
  <2>3. Only(Append(k, s[n + 1]), S) =
            IF s[n + 1] \in S THEN Append(Only(k, S), s[n + 1]) ELSE Only(k, S)
    BY <2>1, <2>4
  <2>. QED  BY <2>2, <2>3 DEF k
<1>. QED  BY <1>1, <1>2, OnlyOfNone

LEMMA PrefixesOnly ==
    ASSUME NEW T, NEW s \in Seq(T), NEW S, NEW n \in 0 .. Len(s)
    PROVE  IsPrefix(Only(SubSeq(s, 1, n), S), Only(s, S))
<1>0. /\ Only(SubSeq(s, 1, Len(s)), S) = Only(s, S)
      /\ \A m \in 0 .. Len(s) - 1 :
           Only(SubSeq(s, 1, m + 1), S) =
               IF s[m + 1] \in S THEN Append(Only(SubSeq(s, 1, m), S), s[m + 1])
               ELSE Only(SubSeq(s, 1, m), S)
  BY OnlyOfPrefix
<1>. DEFINE K(m) == Only(SubSeq(s, 1, m), S)
            D == {d \in Nat : n + d <= Len(s) =>
                                 \E u \in Seq(T) : K(n + d) = K(n) \o u}
<1>1. \A m \in 0 .. Len(s) : K(m) \in Seq(T)
  <2>1. ASSUME NEW m \in 0 .. Len(s)  PROVE K(m) \in Seq(T)
    <3>1. SubSeq(s, 1, m) \in Seq(T)
      OBVIOUS
    <3>2. K(m) \in Seq(T \cap S)
      BY <3>1, OnlyTypes
    <3>. QED  BY <3>2, SeqMonotonic
  <2>. QED  BY <2>1
<1>2. \A m \in 0 .. Len(s) - 1 :
          K(m + 1) = IF s[m + 1] \in S THEN Append(K(m), s[m + 1]) ELSE K(m)
  BY <1>0
<1>3. K(Len(s)) = Only(s, S)
  BY <1>0
<1>. HIDE DEF K
<1>4. 0 \in D
  <2>1. K(n) \o <<>> = K(n) /\ <<>> \in Seq(T) /\ n + 0 = n
    BY <1>1, ConcatEmptySeq
  <2>. QED  BY <2>1
<1>5. ASSUME NEW d \in Nat, d \in D  PROVE d + 1 \in D
  <2>. SUFFICES ASSUME n + (d + 1) <= Len(s)
                PROVE  \E u \in Seq(T) : K(n + (d + 1)) = K(n) \o u
    OBVIOUS
  <2>1. /\ n + d <= Len(s) /\ n + d \in 0 .. Len(s) - 1
        /\ n + (d + 1) = (n + d) + 1 /\ s[(n + d) + 1] \in T
    OBVIOUS
  <2>2. PICK u \in Seq(T) : K(n + d) = K(n) \o u
    BY <1>5, <2>1
  <2>3. K((n + d) + 1) = IF s[(n + d) + 1] \in S THEN Append(K(n + d), s[(n + d) + 1])
                         ELSE K(n + d)
    BY <1>2, <2>1
  <2>. DEFINE x == s[(n + d) + 1]
  <2>4. Append(K(n) \o u, x) = K(n) \o Append(u, x) /\ Append(u, x) \in Seq(T)
    <3>1. K(n) \in Seq(T) /\ x \in T
      BY <1>1, <2>1
    <3>. HIDE DEF x
    <3>2. \A a, b \in Seq(T), y \in T :
             Append(a \o b, y) = a \o Append(b, y) /\ Append(b, y) \in Seq(T)
      BY AppendToConcat
    <3>. QED  BY <3>1, <3>2
  <2>. QED  BY <2>1, <2>2, <2>3, <2>4
<1>6. Len(s) - n \in D
  <2>1. Len(s) - n \in Nat
    OBVIOUS
  <2>. HIDE DEF D
  <2>. QED  BY <1>4, <1>5, <2>1, Induction
<1>7. PICK u \in Seq(T) : K(Len(s)) = K(n) \o u
  <2>1. n + (Len(s) - n) = Len(s)
    OBVIOUS
  <2>. QED  BY <1>6, <2>1
<1>8. IsPrefix(K(n), K(n) \o u)
  <2>. DEFINE a == K(n)
  <2>1. a \in Seq(T)
    BY <1>1
  <2>. HIDE DEF a
  <2>2. SubSeq(a \o u, 1, Len(a)) = SubSeq(a, 1, Len(a))
    BY <2>1
  <2>. QED  BY <2>1, <2>2 DEF IsPrefix, a
<1>. QED  BY <1>3, <1>7, <1>8 DEF K

-------------------------------------------------------------------------------
(* The texts of messages *)

SecondOf(s) == [i \in DOMAIN s |-> s[i][2]]

Messages == Conns \X Texts

LEMMA SecondsOfSequence ==
    ASSUME NEW s \in Seq(Messages)
    PROVE  /\ SecondOf(s) \in Seq(Texts) /\ Len(SecondOf(s)) = Len(s)
           /\ \A i \in 1 .. Len(s) : SecondOf(s)[i] = s[i][2]
<1>1. \A i \in 1 .. Len(s) : s[i] \in Messages /\ s[i][2] \in Texts
  BY DEF Messages
<1>2. DOMAIN s = 1 .. Len(s) /\ Len(s) \in Nat
  OBVIOUS
<1>. QED  BY <1>1, <1>2 DEF SecondOf

LEMMA SecondOfAppended ==
    ASSUME NEW s \in Seq(Messages), NEW m \in Messages
    PROVE  SecondOf(Append(s, m)) = Append(SecondOf(s), m[2])
<1>. DEFINE a == SecondOf(Append(s, m))
            b == Append(SecondOf(s), m[2])
<1>1. /\ Append(s, m) \in Seq(Messages) /\ Len(Append(s, m)) = Len(s) + 1
      /\ \A i \in 1 .. Len(s) : Append(s, m)[i] = s[i]
      /\ Append(s, m)[Len(s) + 1] = m /\ m[2] \in Texts /\ Len(s) \in Nat
  BY DEF Messages
<1>2. /\ a \in Seq(Texts) /\ Len(a) = Len(s) + 1
      /\ \A i \in 1 .. Len(s) + 1 : a[i] = Append(s, m)[i][2]
  BY <1>1, SecondsOfSequence
<1>3. /\ b \in Seq(Texts) /\ Len(b) = Len(s) + 1 /\ b[Len(s) + 1] = m[2]
      /\ \A i \in 1 .. Len(s) : b[i] = s[i][2]
  BY <1>1, SecondsOfSequence
<1>. HIDE DEF a, b
<1>4. ASSUME NEW i \in 1 .. Len(s) + 1  PROVE a[i] = b[i]
  <2>1. i \in 1 .. Len(s) \/ i = Len(s) + 1
    BY <1>1
  <2>. QED  BY <1>1, <1>2, <1>3, <2>1
<1>. QED  BY <1>2, <1>3, <1>4, SeqEqual DEF a, b

LEMMA SecondOfConcat ==
    ASSUME NEW s \in Seq(Messages), NEW t \in Seq(Messages)
    PROVE  SecondOf(s \o t) = SecondOf(s) \o SecondOf(t)
<1>. DEFINE a == SecondOf(s \o t)
            b == SecondOf(s) \o SecondOf(t)
<1>1. /\ s \o t \in Seq(Messages) /\ Len(s \o t) = Len(s) + Len(t)
      /\ \A i \in 1 .. Len(s) + Len(t) :
            (s \o t)[i] = IF i <= Len(s) THEN s[i] ELSE t[i - Len(s)]
  BY ConcatProperties
<1>2. /\ a \in Seq(Texts) /\ Len(a) = Len(s) + Len(t)
      /\ \A i \in 1 .. Len(s) + Len(t) : a[i] = (s \o t)[i][2]
  BY <1>1, SecondsOfSequence
<1>3. /\ b \in Seq(Texts) /\ Len(b) = Len(s) + Len(t)
      /\ \A i \in 1 .. Len(s) + Len(t) :
            b[i] = IF i <= Len(s) THEN SecondOf(s)[i] ELSE SecondOf(t)[i - Len(s)]
  <2>. DEFINE x == SecondOf(s)
              y == SecondOf(t)
  <2>1. x \in Seq(Texts) /\ Len(x) = Len(s) /\ y \in Seq(Texts) /\ Len(y) = Len(t)
    BY SecondsOfSequence
  <2>. HIDE DEF x, y
  <2>2. /\ x \o y \in Seq(Texts) /\ Len(x \o y) = Len(x) + Len(y)
        /\ \A i \in 1 .. Len(x) + Len(y) :
              (x \o y)[i] = IF i <= Len(x) THEN x[i] ELSE y[i - Len(x)]
    BY <2>1, ConcatProperties
  <2>. QED  BY <2>1, <2>2 DEF x, y
<1>. HIDE DEF a, b
<1>4. ASSUME NEW i \in 1 .. Len(s) + Len(t)  PROVE a[i] = b[i]
  <2>0. Len(s) \in Nat /\ Len(t) \in Nat
    OBVIOUS
  <2>1. CASE i <= Len(s)
    <3>1. i \in 1 .. Len(s)
      BY <2>0, <2>1
    <3>. QED  BY <1>1, <1>2, <1>3, <2>1, <3>1, SecondsOfSequence
  <2>2. CASE ~(i <= Len(s))
    <3>1. i - Len(s) \in 1 .. Len(t)
      BY <2>0, <2>2
    <3>. QED  BY <1>1, <1>2, <1>3, <2>2, <3>1, SecondsOfSequence
  <2>. QED  BY <2>1, <2>2
<1>. QED  BY <1>2, <1>3, <1>4, SeqEqual DEF a, b

LEMMA TextsOfTypes ==
    ASSUME NEW c, NEW q \in Seq(Messages)
    PROVE  /\ Only(q, {c} \X Texts) \in Seq(Messages)
           /\ TextsOf(c, q) = SecondOf(Only(q, {c} \X Texts))
           /\ TextsOf(c, q) \in Seq(Texts)
<1>1. Only(q, {c} \X Texts) \in Seq(Messages \cap ({c} \X Texts))
  BY OnlyTypes
<1>2. Only(q, {c} \X Texts) \in Seq(Messages)
  BY <1>1, SeqMonotonic
<1>3. TextsOf(c, q) = SecondOf(Only(q, {c} \X Texts))
  BY DEF TextsOf, SecondOf
<1>. QED  BY <1>2, <1>3, SecondsOfSequence

LEMMA TextsOfNone == \A c : TextsOf(c, <<>>) = <<>>
<1>1. \A c : Only(<<>>, {c} \X Texts) = <<>>
  BY OnlyOfNone
<1>. SUFFICES ASSUME NEW c  PROVE TextsOf(c, <<>>) = <<>>
  OBVIOUS
<1>2. TextsOf(c, <<>>) = [i \in DOMAIN <<>> |-> <<>>[i][2]]
  BY <1>1 DEF TextsOf
<1>. QED  BY <1>2

LEMMA TextsOfAppended ==
    ASSUME NEW c, NEW q \in Seq(Messages), NEW d \in Conns, NEW t \in Texts
    PROVE  TextsOf(c, Append(q, <<d, t>>)) =
               IF c = d THEN Append(TextsOf(c, q), t) ELSE TextsOf(c, q)
<1>. DEFINE m == <<d, t>>
            S == {c} \X Texts
<1>1. m \in Messages /\ (m \in S <=> c = d) /\ m[2] = t
  BY DEF Messages
<1>. HIDE DEF m, S
<1>2. Append(q, m) \in Seq(Messages)
  BY <1>1
<1>3. Only(Append(q, m), S) = IF m \in S THEN Append(Only(q, S), m)
                              ELSE Only(q, S)
  <2>1. \A x \in Messages : Only(Append(q, x), S) =
            IF x \in S THEN Append(Only(q, S), x) ELSE Only(q, S)
    BY OnlyAppended, Zenon
  <2>. QED  BY <1>1, <2>1
<1>4. /\ Only(q, S) \in Seq(Messages)
      /\ TextsOf(c, q) = SecondOf(Only(q, S))
      /\ TextsOf(c, Append(q, m)) = SecondOf(Only(Append(q, m), S))
  BY <1>2, TextsOfTypes DEF S
<1>5. SecondOf(Append(Only(q, S), m)) = Append(SecondOf(Only(q, S)), m[2])
  BY <1>1, <1>4, SecondOfAppended
<1>. QED  BY <1>1, <1>3, <1>4, <1>5 DEF m

LEMMA TextsOfFirst ==
    ASSUME NEW c, NEW q \in Seq(Messages), q # <<>>
    PROVE  TextsOf(c, q) = TextsOf(c, <<Head(q)>>) \o TextsOf(c, Tail(q))
<1>. DEFINE m == Head(q)
            S == {c} \X Texts
<1>1. m \in Messages /\ Tail(q) \in Seq(Messages) /\ <<m>> \in Seq(Messages)
  OBVIOUS
<1>. HIDE DEF m, S
<1>2. Only(q, S) = (IF m \in S THEN <<m>> ELSE <<>>) \o Only(Tail(q), S)
  BY OnlyFirst DEF m
<1>3. Only(<<m>>, S) = IF m \in S THEN <<m>> ELSE <<>>
  BY OnlyOfOne
<1>4. Only(q, S) = Only(<<m>>, S) \o Only(Tail(q), S)
  BY <1>2, <1>3
<1>5. /\ TextsOf(c, q) = SecondOf(Only(q, S))
      /\ Only(<<m>>, S) \in Seq(Messages)
      /\ TextsOf(c, <<m>>) = SecondOf(Only(<<m>>, S))
      /\ Only(Tail(q), S) \in Seq(Messages)
      /\ TextsOf(c, Tail(q)) = SecondOf(Only(Tail(q), S))
  BY <1>1, TextsOfTypes DEF S
<1>6. SecondOf(Only(<<m>>, S) \o Only(Tail(q), S)) =
          SecondOf(Only(<<m>>, S)) \o SecondOf(Only(Tail(q), S))
  BY <1>5, SecondOfConcat
<1>. QED  BY <1>4, <1>5, <1>6 DEF m

LEMMA TextsOfOne ==
    ASSUME NEW c, NEW d \in Conns, NEW t \in Texts
    PROVE  TextsOf(c, <<<<d, t>>>>) = IF c = d THEN <<t>> ELSE <<>>
<1>. DEFINE m == <<d, t>>
<1>1. m \in Messages /\ <<>> \in Seq(Messages) /\ <<m>> = Append(<<>>, m)
  BY DEF Messages
<1>2. TextsOf(c, Append(<<>>, m)) =
          IF c = d THEN Append(TextsOf(c, <<>>), t) ELSE TextsOf(c, <<>>)
  BY <1>1, TextsOfAppended
<1>3. Append(<<>>, t) = <<t>>
  OBVIOUS
<1>. HIDE DEF m
<1>4. <<m>> = Append(<<>>, m)
  OBVIOUS
<1>. QED  BY <1>2, <1>3, <1>4, TextsOfNone DEF m

-------------------------------------------------------------------------------
(* The log, and how far the workers are *)

(* The messages of the first n calls for a request. *)
Done(kind, n) == Only(SubSeq(Steps[kind], 1, n), Texts)

LogPart(c) ==
    /\ request[c] = "unread" => Logged(c) = <<>> /\ c \notin answered
    /\ request[c] # "unread" =>
           \E n \in 0 .. Len(Steps[request[c]]) : Logged(c) = Done(request[c], n)
    /\ c \in answered => Logged(c) = Done(request[c], Len(Steps[request[c]]))
    /\ \A w \in Workers : conn[w] = c /\ pc[w] = "work" =>
           Logged(c) = Done(request[c], step[w] - 1)

(* Nobody has read a request that is still on its way. *)
Unread(w) ==
    /\ \A i, j \in 1 .. Len(channel[w]) : i < j => channel[w][i] < channel[w][j]
    /\ \A i \in 1 .. Len(channel[w]) :
          conn[w] < channel[w][i] /\ request[channel[w][i]] = "unread"
    /\ pc[w] \in {"handshake", "request"} => request[conn[w]] = "unread"
    /\ pc[w] = "work" => conn[w] \notin answered

NotYet(c) == c > accepts \/ (c = accepts /\ pc[Server] = "send")

LogOpen == /\ \A c \in Conns : LogPart(c)
           /\ \A c \in Conns : NotYet(c) => request[c] = "unread"
           /\ \A w \in Workers : Unread(w)

LogInv == removed \/ LogOpen

Calls == Texts \cup {"script", "reply"}

LEMMA StepsAreCalls ==
    ASSUME NEW kind \in Kinds
    PROVE  /\ Steps[kind] \in Seq(Calls) /\ kind # "unread"
           /\ \A i \in 1 .. Len(Steps[kind]) :
                 Steps[kind][i] = "reply" => i = Len(Steps[kind])
<1>1. kind \in {"file", "missing", "index", "script", "upload"}
  BY PoolAssumption DEF Steps
<1>2. CASE kind = "file"
  BY <1>2 DEF Steps, Texts, Calls
<1>3. CASE kind = "missing"
  BY <1>3 DEF Steps, Texts, Calls
<1>4. CASE kind = "index"
  BY <1>4 DEF Steps, Texts, Calls
<1>5. CASE kind = "script"
  BY <1>5 DEF Steps, Texts, Calls
<1>6. CASE kind = "upload"
  BY <1>6 DEF Steps, Texts, Calls
<1>. QED  BY <1>1, <1>2, <1>3, <1>4, <1>5, <1>6

LEMMA OneMoreCall ==
    ASSUME NEW kind \in Kinds
    PROVE  /\ Done(kind, 0) = <<>>
           /\ \A n \in 1 .. Len(Steps[kind]) :
                 Done(kind, n) =
                     IF Steps[kind][n] \in Texts
                     THEN Append(Done(kind, n - 1), Steps[kind][n])
                     ELSE Done(kind, n - 1)
<1>. DEFINE s == Steps[kind]
<1>1. s \in Seq(Calls)
  BY StepsAreCalls
<1>. HIDE DEF s
<1>2. /\ Only(SubSeq(s, 1, 0), Texts) = <<>>
      /\ \A n \in 0 .. Len(s) - 1 :
            Only(SubSeq(s, 1, n + 1), Texts) =
                IF s[n + 1] \in Texts
                THEN Append(Only(SubSeq(s, 1, n), Texts), s[n + 1])
                ELSE Only(SubSeq(s, 1, n), Texts)
  <2>1. /\ Only(SubSeq(s, 1, 0), Texts) = <<>>
        /\ Only(SubSeq(s, 1, Len(s)), Texts) = Only(s, Texts)
        /\ \A n \in 0 .. Len(s) - 1 :
              Only(SubSeq(s, 1, n + 1), Texts) =
                  IF s[n + 1] \in Texts
                  THEN Append(Only(SubSeq(s, 1, n), Texts), s[n + 1])
                  ELSE Only(SubSeq(s, 1, n), Texts)
    <3>1. \A r \in Seq(Calls) : \A S :
             /\ Only(SubSeq(r, 1, 0), S) = <<>>
             /\ Only(SubSeq(r, 1, Len(r)), S) = Only(r, S)
             /\ \A n \in 0 .. Len(r) - 1 :
                   Only(SubSeq(r, 1, n + 1), S) =
                       IF r[n + 1] \in S
                       THEN Append(Only(SubSeq(r, 1, n), S), r[n + 1])
                       ELSE Only(SubSeq(r, 1, n), S)
      BY OnlyOfPrefix
    <3>. QED  BY <1>1, <3>1
  <2>. QED  BY <2>1
<1>3. \A n \in 1 .. Len(s) : n - 1 \in 0 .. Len(s) - 1 /\ (n - 1) + 1 = n
  BY <1>1
<1>4. ASSUME NEW n \in 1 .. Len(s)
      PROVE  Only(SubSeq(s, 1, n), Texts) =
                 IF s[n] \in Texts THEN Append(Only(SubSeq(s, 1, n - 1), Texts), s[n])
                 ELSE Only(SubSeq(s, 1, n - 1), Texts)
  <2>. DEFINE k == n - 1
  <2>1. k \in 0 .. Len(s) - 1 /\ k + 1 = n
    BY <1>3
  <2>. HIDE DEF k
  <2>2. Only(SubSeq(s, 1, k + 1), Texts) =
            IF s[k + 1] \in Texts
            THEN Append(Only(SubSeq(s, 1, k), Texts), s[k + 1])
            ELSE Only(SubSeq(s, 1, k), Texts)
    BY <1>2, <2>1
  <2>. QED  BY <2>1, <2>2 DEF k
<1>. QED  BY <1>2, <1>4 DEF Done, s

(* What a run checks follows. *)
LEMMA OrderFollows ==
    ASSUME PoolTypeOK, LogInv
    PROVE  LogInOrder
<1>. SUFFICES ASSUME NEW c \in Conns, LogPart(c)
              PROVE  /\ IsPrefix(Logged(c), Expected(c))
                     /\ c \in answered => Logged(c) = Expected(c)
  BY DEF LogInv, LogOpen, LogInOrder
<1>1. CASE request[c] = "unread"
  <2>1. Logged(c) = <<>> /\ c \notin answered /\ Expected(c) = <<>>
    BY <1>1 DEF LogPart, Expected
  <2>2. IsPrefix(<<>>, <<>>)
    BY DEF IsPrefix
  <2>. QED  BY <2>1, <2>2
<1>2. CASE request[c] # "unread"
  <2>. DEFINE kind == request[c]
              s == Steps[kind]
  <2>1. kind \in Kinds /\ Expected(c) = Only(s, Texts)
    BY <1>2 DEF PoolTypeOK, Expected
  <2>2. PICK n \in 0 .. Len(s) : Logged(c) = Only(SubSeq(s, 1, n), Texts)
    BY <1>2 DEF LogPart, Done
  <2>3. c \in answered => Logged(c) = Only(SubSeq(s, 1, Len(s)), Texts)
    BY DEF LogPart, Done
  <2>. HIDE DEF kind
  <2>4. s \in Seq(Calls)
    BY <2>1, StepsAreCalls
  <2>. HIDE DEF s
  <2>5. IsPrefix(Only(SubSeq(s, 1, n), Texts), Only(s, Texts))
    BY <2>4, PrefixesOnly
  <2>6. SubSeq(s, 1, Len(s)) = s
    BY <2>4, SubSeqFull
  <2>. QED  BY <2>1, <2>2, <2>3, <2>5, <2>6
<1>. QED  BY <1>1, <1>2

-------------------------------------------------------------------------------
(* How a step changes what is logged *)

LEMMA LogTypes ==
    ASSUME PoolTypeOK, NEW c \in Conns
    PROVE  /\ log_file[c] \in Seq(Texts)
           /\ log_msg \in Seq(Messages) /\ TextsOf(c, log_msg) \in Seq(Texts)
           /\ queue \in Seq(Messages) /\ TextsOf(c, queue) \in Seq(Texts)
           /\ log_file[c] \o TextsOf(c, log_msg) \in Seq(Texts)
           /\ Logged(c) \in Seq(Texts)
<1>1. /\ log_msg \in Seq(Messages) /\ queue \in Seq(Messages)
      /\ log_file[c] \in Seq(Texts)
  BY DEF PoolTypeOK, Messages
<1>2. TextsOf(c, log_msg) \in Seq(Texts) /\ TextsOf(c, queue) \in Seq(Texts)
  BY <1>1, TextsOfTypes
<1>3. \A s, t \in Seq(Texts) : s \o t \in Seq(Texts)
  OBVIOUS
<1>. QED  BY <1>1, <1>2, <1>3 DEF Logged

LEMMA SameLog ==
    ASSUME UNCHANGED <<queue, log_msg, log_file>>, NEW c
    PROVE  Logged(c)' = Logged(c)
BY DEF Logged, TextsOf

LEMMA SentIsLogged ==
    ASSUME PoolTypeOK, NEW c \in Conns, NEW d \in Conns, NEW t \in Texts,
           queue' = Append(queue, <<d, t>>), UNCHANGED <<log_msg, log_file>>
    PROVE  Logged(c)' = IF c = d THEN Append(Logged(c), t) ELSE Logged(c)
<1>. DEFINE a == log_file[c] \o TextsOf(c, log_msg)
            b == TextsOf(c, queue)
<1>1. a \in Seq(Texts) /\ b \in Seq(Texts) /\ queue \in Seq(Messages)
  BY LogTypes
<1>2. /\ a' = a /\ Logged(c) = a \o b
      /\ Logged(c)' = a \o TextsOf(c, Append(queue, <<d, t>>))
  BY DEF Logged, TextsOf
<1>3. TextsOf(c, Append(queue, <<d, t>>)) = IF c = d THEN Append(b, t) ELSE b
  BY <1>1, TextsOfAppended
<1>. HIDE DEF a, b
<1>4. Append(a \o b, t) = a \o Append(b, t)
  <2>1. \A x, y \in Seq(Texts), z \in Texts :
           Append(x \o y, z) = x \o Append(y, z) /\ Append(y, z) \in Seq(Texts)
    BY AppendToConcat
  <2>. QED  BY <1>1, <2>1
<1>. QED  BY <1>2, <1>3, <1>4

LEMMA SingleMessage ==
    ASSUME NEW T, NEW s \in Seq(T), s # <<>>, Len(s) <= 1
    PROVE  s[1] \in T /\ s = <<s[1]>>
<1>1. Len(s) = 1 /\ s[1] \in T
  OBVIOUS
<1>. DEFINE t == <<s[1]>>
<1>2. t \in Seq(T) /\ Len(t) = 1 /\ t[1] = s[1]
  BY <1>1
<1>. HIDE DEF t
<1>3. s = t
  BY <1>1, <1>2, SeqEqual
<1>. QED  BY <1>1, <1>3 DEF t

LEMMA LoggerKeepsLogged ==
    ASSUME PoolTypeOK, NEW c \in Conns, msgrcv \/ WriteLog
    PROVE  Logged(c)' = Logged(c)
<1>. DEFINE f == log_file[c]
<1>0. /\ f \in Seq(Texts) /\ queue \in Seq(Messages) /\ log_msg \in Seq(Messages)
      /\ TextsOf(c, queue) \in Seq(Texts) /\ TextsOf(c, log_msg) \in Seq(Texts)
      /\ Len(log_msg) <= 1
  BY LogTypes DEF PoolTypeOK
<1>1. CASE msgrcv
  <2>. DEFINE h == TextsOf(c, <<Head(queue)>>)
              t == TextsOf(c, Tail(queue))
  <2>1. /\ queue # <<>> /\ log_msg = <<>> /\ log_msg' = <<Head(queue)>>
        /\ queue' = Tail(queue) /\ log_file' = log_file
    BY <1>1 DEF msgrcv
  <2>2. TextsOf(c, queue) = h \o t /\ TextsOf(c, log_msg) = <<>>
    BY <1>0, <2>1, TextsOfFirst, TextsOfNone
  <2>3. h \in Seq(Texts) /\ t \in Seq(Texts)
    <3>1. <<Head(queue)>> \in Seq(Messages) /\ Tail(queue) \in Seq(Messages)
      BY <1>0, <2>1
    <3>. QED  BY <3>1, TextsOfTypes
  <2>4. Logged(c) = f \o <<>> \o (h \o t) /\ Logged(c)' = f \o h \o t
    BY <2>1, <2>2 DEF Logged, TextsOf
  <2>. HIDE DEF f, h, t
  <2>5. f \o <<>> = f
    BY <1>0, ConcatEmptySeq
  <2>6. f \o (h \o t) = f \o h \o t
    <3>1. \A x, y, z \in Seq(Texts) : x \o (y \o z) = (x \o y) \o z
      BY ConcatAssociative
    <3>. QED  BY <1>0, <2>3, <3>1
  <2>. QED  BY <2>4, <2>5, <2>6
<1>2. CASE WriteLog
  <2>. DEFINE d == log_msg[1][1]
              x == log_msg[1][2]
              q == TextsOf(c, queue)
  <2>1. /\ log_msg # <<>> /\ log_msg' = <<>> /\ queue' = queue
        /\ log_file' = [log_file EXCEPT ![d] = Append(@, x)]
    BY <1>2 DEF WriteLog
  <2>2. d \in Conns /\ x \in Texts /\ log_msg = <<<<d, x>>>>
    <3>1. log_msg[1] \in Messages /\ log_msg = <<log_msg[1]>>
      BY <1>0, <2>1, SingleMessage
    <3>2. \A m \in Messages : m = <<m[1], m[2]>> /\ m[1] \in Conns /\ m[2] \in Texts
      BY DEF Messages
    <3>. QED  BY <3>1, <3>2
  <2>3. TextsOf(c, log_msg) = IF c = d THEN <<x>> ELSE <<>>
    <3>. HIDE DEF d, x
    <3>. QED  BY <2>2, TextsOfOne
  <2>4. log_file'[c] = IF c = d THEN Append(f, x) ELSE f
    BY <2>1, <2>2 DEF PoolTypeOK
  <2>5. /\ Logged(c) = f \o TextsOf(c, log_msg) \o q
        /\ Logged(c)' = log_file'[c] \o <<>> \o q
    BY <2>1, TextsOfNone DEF Logged, TextsOf
  <2>6. f \o <<x>> = Append(f, x) /\ f \o <<>> = f /\ Append(f, x) \in Seq(Texts)
    <3>. HIDE DEF f, d, x
    <3>. QED  BY <1>0, <2>2, ConcatEmptySeq, AppendIsConcat
  <2>7. Append(f, x) \o <<>> = Append(f, x)
    <3>. DEFINE g == Append(f, x)
    <3>1. g \in Seq(Texts)
      BY <2>6
    <3>. HIDE DEF g
    <3>2. g \o <<>> = g
      BY <3>1, ConcatEmptySeq
    <3>. QED  BY <3>2 DEF g
  <2>. HIDE DEF f, d, x, q
  <2>. QED  BY <2>3, <2>4, <2>5, <2>6, <2>7
<1>. QED  BY <1>1, <1>2

-------------------------------------------------------------------------------
(* Every step keeps the log in order *)

LEMMA LogPartIsKept ==
    ASSUME NEW c \in Conns, LogPart(c), Logged(c)' = Logged(c),
           request'[c] = request[c], (c \in answered') = (c \in answered),
           \A w \in Workers : conn'[w] = c /\ pc'[w] = "work" =>
               conn[w] = c /\ pc[w] = "work" /\ step'[w] = step[w]
    PROVE  LogPart(c)'
<1>1. request[c] = "unread" => Logged(c) = <<>> /\ c \notin answered
  BY DEF LogPart
<1>2. request[c] # "unread" =>
          \E n \in 0 .. Len(Steps[request[c]]) : Logged(c) = Done(request[c], n)
  BY DEF LogPart
<1>3. c \in answered => Logged(c) = Done(request[c], Len(Steps[request[c]]))
  BY DEF LogPart
<1>4. \A w \in Workers : conn[w] = c /\ pc[w] = "work" =>
          Logged(c) = Done(request[c], step[w] - 1)
  BY DEF LogPart
<1>. QED  BY <1>1, <1>2, <1>3, <1>4 DEF LogPart, Done

LEMMA WorkerKeepsLog ==
    ASSUME PoolInv, LogOpen, NEW w \in Workers, OnlyTouches(w),
           answered' \subseteq answered \cup {conn[w]}, Unread(w)',
           \A c \in Conns \ {conn[w]} : Logged(c)' = Logged(c),
           \A c \in Conns : c = conn[w] => LogPart(c)',
           pc'[w] = "work" => conn'[w] = conn[w]
    PROVE  LogOpen'
<1>. USE ProcsAreDifferent, BoundsAreNumbers
<1>1. ASSUME NEW c \in Conns, c # conn[w]
      PROVE  LogPart(c)'
  <2>1. /\ LogPart(c) /\ Logged(c)' = Logged(c) /\ request'[c] = request[c]
        /\ (c \in answered') = (c \in answered)
    BY <1>1 DEF LogOpen, OnlyTouches
  <2>2. ASSUME NEW v \in Workers, conn'[v] = c, pc'[v] = "work"
        PROVE  conn[v] = c /\ pc[v] = "work" /\ step'[v] = step[v]
    <3>1. v # w
      BY <1>1, <2>2
    <3>. QED  BY <2>2, <3>1 DEF OnlyTouches
  <2>. QED  BY <2>1, <2>2, LogPartIsKept
<1>2. ASSUME NEW c \in Conns, NotYet(c)'
      PROVE  request'[c] = "unread"
  <2>1. NotYet(c)
    BY <1>2 DEF NotYet, OnlyTouches, mainvars
  <2>2. c # conn[w]
    <3>1. conn[w] # None => Due(conn[w], w)
      BY DEF PoolInv, EverybodyHoldsItsOwn
    <3>2. accepts \in Nat /\ c \in Nat /\ c # None
      BY DEF PoolInv, PoolTypeOK, Conns
    <3>. QED  BY <2>1, <3>1, <3>2 DEF NotYet, Due
  <2>. QED  BY <2>1, <2>2 DEF LogOpen, OnlyTouches
<1>3. ASSUME NEW v \in Workers, v # w
      PROVE  Unread(v)'
  <2>1. /\ Unread(v) /\ pc'[v] = pc[v] /\ conn'[v] = conn[v]
        /\ channel'[v] = channel[v] /\ InStep(v) /\ EverybodyHoldsItsOwn
    BY <1>3 DEF LogOpen, OnlyTouches, PoolInv, WorkerInStep
  <2>2. conn[v] \in Conns =>
            /\ request'[conn[v]] = request[conn[v]]
            /\ conn[v] \in answered' => conn[v] \in answered
    BY <1>3, <2>1, HoldersDiffer DEF OnlyTouches
  <2>3. \A i \in 1 .. Len(channel[v]) :
            request'[channel[v][i]] = request[channel[v][i]]
    <3>1. channel[v] \in Seq(Conns)
      BY DEF PoolInv, PoolTypeOK
    <3>2. \A i \in 1 .. Len(channel[v]) :
             channel[v][i] \in Conns /\ Due(channel[v][i], v)
      BY <2>1, <3>1 DEF EverybodyHoldsItsOwn
    <3>3. conn[w] # None => Due(conn[w], w)
      BY <2>1 DEF EverybodyHoldsItsOwn
    <3>4. \A i \in 1 .. Len(channel[v]) : channel[v][i] # conn[w]
      BY <1>3, <3>2, <3>3 DEF Due
    <3>. QED  BY <3>2, <3>4 DEF OnlyTouches
  <2>. QED  BY <2>1, <2>2, <2>3 DEF Unread, InStep
<1>4. (\A c \in Conns : LogPart(c))' /\ (\A v \in Workers : Unread(v))'
  BY <1>1, <1>3
<1>. QED  BY <1>2, <1>4 DEF LogOpen

(* A step of a worker that leaves requests and replies alone, and its
   connection unless it drops it. *)
LEMMA UnreadIsKept ==
    ASSUME PoolInv, NEW w \in Workers, Unread(w),
           channel'[w] = channel[w], conn'[w] \in {conn[w], None},
           UNCHANGED <<request, answered>>,
           pc'[w] \in {"handshake", "request"} =>
               conn'[w] = conn[w] /\ pc[w] \in {"handshake", "request"},
           pc'[w] = "work" => conn'[w] = conn[w] /\ pc[w] = "work"
    PROVE  Unread(w)'
<1>1. channel[w] \in Seq(Conns)
  BY DEF PoolInv, PoolTypeOK
<1>2. \A i \in 1 .. Len(channel[w]) : channel[w][i] \in Conns /\ None < channel[w][i]
  <2>1. \A c \in Conns : None < c
    BY BoundsAreNumbers DEF Conns, None
  <2>. QED  BY <1>1, <2>1
<1>. QED  BY <1>2 DEF Unread

LEMMA QuietWorkerKeepsLog ==
    ASSUME PoolInv, LogOpen, NEW w \in Workers, OnlyTouches(w), Unread(w)',
           UNCHANGED <<queue, log_msg, log_file, request, answered>>,
           pc'[w] = "work" =>
               conn'[w] = conn[w] /\ pc[w] = "work" /\ step'[w] = step[w]
    PROVE  LogOpen'
<1>1. \A c \in Conns : Logged(c)' = Logged(c)
  BY SameLog
<1>2. ASSUME NEW c \in Conns, c = conn[w]
      PROVE  LogPart(c)'
  <2>1. LogPart(c) /\ Logged(c)' = Logged(c)
        /\ request'[c] = request[c] /\ (c \in answered') = (c \in answered)
    BY <1>1 DEF LogOpen
  <2>2. ASSUME NEW v \in Workers, conn'[v] = c, pc'[v] = "work"
        PROVE  conn[v] = c /\ pc[v] = "work" /\ step'[v] = step[v]
    <3>1. v = w \/ (conn'[v] = conn[v] /\ pc'[v] = pc[v] /\ step'[v] = step[v])
      BY ProcsAreDifferent DEF OnlyTouches
    <3>. QED  BY <2>2, <3>1
  <2>. QED  BY <2>1, <2>2, LogPartIsKept
<1>. QED  BY <1>1, <1>2, WorkerKeepsLog

(* The call a worker makes next adds its message to the log, if it has one. *)
LEMMA NextCall ==
    ASSUME PoolInv, LogOpen, NEW w \in Workers, Now(w) # "none"
    PROVE  /\ pc[w] = "work" /\ conn[w] \in Conns /\ conn[w] \notin answered
           /\ request[conn[w]] \in Kinds /\ step[w] \in Nat
           /\ step[w] \in 0 .. Len(Steps[request[conn[w]]])
           /\ Done(request[conn[w]], step[w]) =
                  IF Now(w) \in Texts THEN Append(Logged(conn[w]), Now(w))
                  ELSE Logged(conn[w])
           /\ Now(w) = "reply" => step[w] = Len(Steps[request[conn[w]]])
<1>. DEFINE c == conn[w]
            kind == request[c]
            n == step[w]
<1>1. pc[w] = "work"
  BY DEF Now
<1>2. c \in Conns /\ kind \in Kinds /\ n \in 1 .. Len(Steps[kind])
  BY <1>1 DEF PoolInv, WorkerInStep, InStep
<1>3. Now(w) = Steps[kind][n]
  BY <1>1 DEF Now
<1>4. LogPart(c) /\ Unread(w)
  BY <1>2 DEF LogOpen
<1>5. Logged(c) = Done(kind, n - 1) /\ c \notin answered
  BY <1>1, <1>4 DEF LogPart, Unread
<1>. HIDE DEF c, kind, n
<1>6. Len(Steps[kind]) \in Nat /\ (Steps[kind][n] = "reply" => n = Len(Steps[kind]))
  BY <1>2, StepsAreCalls, StepsEndWithReply
<1>7. Done(kind, n) = IF Steps[kind][n] \in Texts
                      THEN Append(Done(kind, n - 1), Steps[kind][n])
                      ELSE Done(kind, n - 1)
  BY <1>2, OneMoreCall
<1>8. n \in Nat /\ n \in 0 .. Len(Steps[kind])
  BY <1>2, <1>6
<1>. QED  BY <1>1, <1>2, <1>3, <1>5, <1>6, <1>7, <1>8 DEF c, kind, n

(* The worker has made its call. *)
LEMMA CallKeepsPart ==
    ASSUME PoolInv, LogOpen, NEW w \in Workers, Now(w) # "none", OnlyTouches(w),
           NEW c \in Conns, c = conn[w], request' = request,
           Logged(c)' = Done(request[c], step[w]),
           pc'[w] = "work" => step'[w] = step[w] + 1,
           c \in answered' => Now(w) = "reply"
    PROVE  LogPart(c)'
<1>. DEFINE kind == request[c]
            n == step[w]
<1>1. /\ kind \in Kinds /\ n \in Nat /\ n \in 0 .. Len(Steps[kind])
      /\ Now(w) = "reply" => n = Len(Steps[kind])
  BY NextCall
<1>2. kind # "unread"
  BY <1>1, StepsAreCalls
<1>3. \A v \in Workers : conn'[v] = c => v = w
  BY <1>1, BoundsAreNumbers, HoldersDiffer DEF OnlyTouches, PoolInv
<1>4. pc'[w] = "work" => step'[w] - 1 = n
  BY <1>1
<1>5. request'[c] = kind /\ Logged(c)' = Done(kind, n)
  OBVIOUS
<1>. HIDE DEF kind, n
<1>. QED  BY <1>1, <1>2, <1>3, <1>4, <1>5 DEF LogPart, Done

LEMMA WorkersKeepOrder ==
    ASSUME PoolInv, PoolInv', ~removed, LogOpen,
           NEW w \in Workers, WorkerStep(w) \/ ScriptEnds(w)
    PROVE  LogOpen'
<1>. USE ProcsAreDifferent
<1>0. /\ PoolTypeOK /\ WorkerInStep /\ InStep(w) /\ Unread(w)
      /\ channel[w] \in Seq(Conns)
  BY DEF PoolInv, PoolTypeOK, WorkerInStep, LogOpen
<1>1. CASE Recv(w)
  <2>1. /\ conn[w] = None /\ channel[w] # <<>>
        /\ pc'[w] = "handshake" /\ conn'[w] = Head(channel[w])
        /\ channel'[w] = Tail(channel[w])
        /\ UNCHANGED <<answered, request, queue, log_msg, log_file>>
    BY <1>0, <1>1 DEF Recv, PoolTypeOK, Goto, InStep, logvars
  <2>2. OnlyTouches(w)
    BY <1>0, <1>1 DEF Recv, PoolTypeOK, Goto, OnlyTouches
  <2>3. Unread(w)'
    <3>. DEFINE s == channel[w]
                t == Tail(s)
    <3>1. /\ Head(s) = s[1] /\ Len(s) = Len(t) + 1 /\ Len(t) \in Nat
          /\ \A i \in 1 .. Len(t) : t[i] = s[i + 1]
      BY <1>0, <2>1
    <3>2. /\ \A i, j \in 1 .. Len(s) : i < j => s[i] < s[j]
          /\ \A i \in 1 .. Len(s) : request[s[i]] = "unread"
      BY <1>0 DEF Unread
    <3>3. /\ channel'[w] = t /\ conn'[w] = s[1] /\ request' = request
          /\ pc'[w] = "handshake"
      BY <2>1, <3>1
    <3>. HIDE DEF s, t
    <3>4. /\ 1 \in 1 .. Len(s)
          /\ \A i \in 1 .. Len(t) : i + 1 \in 1 .. Len(s) /\ 1 < i + 1
      BY <3>1
    <3>5. \A i, j \in 1 .. Len(t) : i < j => t[i] < t[j]
      BY <3>1, <3>2, <3>4
    <3>6. \A i \in 1 .. Len(t) : s[1] < t[i] /\ request[t[i]] = "unread"
      BY <3>1, <3>2, <3>4
    <3>. QED  BY <3>2, <3>3, <3>4, <3>5, <3>6 DEF Unread
  <2>. QED  BY <2>1, <2>2, <2>3, QuietWorkerKeepsLog
<1>2. CASE Handshake(w)
  <2>1. /\ UNCHANGED <<channel, conn, step, request, answered,
                       queue, log_msg, log_file>>
        /\ pc[w] = "handshake" /\ pc'[w] = "request"
    BY <1>0, <1>2 DEF Handshake, PoolTypeOK, Goto, workervars, logvars
  <2>2. OnlyTouches(w)
    BY <1>0, <1>2 DEF Handshake, PoolTypeOK, Goto, OnlyTouches, workervars
  <2>3. Unread(w)'
    BY <1>0, <2>1, UnreadIsKept
  <2>. QED  BY <2>1, <2>2, <2>3, QuietWorkerKeepsLog
<1>3. CASE HandshakeFails(w)
  <2>1. /\ pc'[w] = "recv" /\ conn'[w] = None /\ channel'[w] = channel[w]
        /\ UNCHANGED <<request, answered, queue, log_msg, log_file>>
    BY <1>0, <1>3 DEF HandshakeFails, PoolTypeOK, Goto, logvars
  <2>2. OnlyTouches(w)
    BY <1>0, <1>3 DEF HandshakeFails, PoolTypeOK, Goto, OnlyTouches
  <2>3. Unread(w)'
    BY <1>0, <2>1, UnreadIsKept
  <2>. QED  BY <2>1, <2>2, <2>3, QuietWorkerKeepsLog
<1>4. CASE ReadRequest(w)
  <2>. DEFINE c == conn[w]
  <2>1. PICK kind \in Kinds : request' = [request EXCEPT ![conn[w]] = kind]
    BY <1>4 DEF ReadRequest
  <2>2. /\ conn[w] \in Conns /\ request[conn[w]] = "unread"
        /\ pc'[w] = "work" /\ step'[w] = 1 /\ request'[conn[w]] = kind
        /\ \A d \in Conns \ {conn[w]} : request'[d] = request[d]
        /\ UNCHANGED <<conn, channel, answered, queue, log_msg, log_file>>
    BY <1>0, <1>4, <2>1
       DEF ReadRequest, PoolTypeOK, Goto, InStep, Unread, logvars
  <2>3. OnlyTouches(w)
    BY <1>0, <1>4 DEF ReadRequest, PoolTypeOK, Goto, OnlyTouches
  <2>4. Logged(conn[w]) = <<>> /\ conn[w] \notin answered
    BY <2>2 DEF LogOpen, LogPart
  <2>5. Unread(w)'
    <3>1. \A i \in 1 .. Len(channel[w]) :
             channel[w][i] \in Conns /\ conn[w] < channel[w][i]
      BY <1>0 DEF Unread
    <3>2. \A d \in Conns : ~(d < d)
      BY BoundsAreNumbers DEF Conns
    <3>3. \A i \in 1 .. Len(channel[w]) : channel[w][i] # conn[w]
      BY <2>2, <3>1, <3>2
    <3>. QED  BY <1>0, <2>2, <2>4, <3>1, <3>3 DEF Unread
  <2>6. ASSUME NEW d \in Conns, d = conn[w]
        PROVE  LogPart(d)'
    <3>1. Logged(d)' = Done(kind, 0) /\ kind # "unread" /\ request'[d] = kind
          /\ d \notin answered'
      BY <2>2, <2>4, <2>6, SameLog, OneMoreCall, StepsAreCalls
    <3>2. 0 \in 0 .. Len(Steps[kind])
      BY StepsEndWithReply
    <3>3. \A v \in Workers : conn'[v] = d => v = w
      BY <2>2, <2>6, BoundsAreNumbers, HoldersDiffer DEF PoolInv
    <3>4. step'[w] - 1 = 0
      BY <2>2
    <3>. QED  BY <3>1, <3>2, <3>3, <3>4 DEF LogPart, Done
  <2>7. \A d \in Conns : Logged(d)' = Logged(d)
    BY <2>2, SameLog
  <2>. QED  BY <2>2, <2>3, <2>5, <2>6, <2>7, WorkerKeepsLog
<1>5. CASE RecvEOF(w) \/ ReadBreaks(w) \/ NoDescriptor(w) \/ WriteBreaks(w)
  <2>1. CASE Goto(w, "endless") /\ UNCHANGED <<mainvars, channel, workervars,
                                               logvars, pending, signals>>
    <3>1. OnlyTouches(w) /\ pc'[w] = "endless"
      BY <1>0, <2>1 DEF PoolTypeOK, Goto, OnlyTouches, workervars
    <3>2. UNCHANGED <<channel, conn, request, answered, queue, log_msg, log_file>>
      BY <2>1 DEF workervars, logvars
    <3>3. Unread(w)'
      BY <1>0, <3>1, <3>2, UnreadIsKept
    <3>. QED  BY <3>1, <3>2, <3>3, QuietWorkerKeepsLog
  <2>2. ASSUME NEW how \in Ended, Crash(w, how)
        PROVE  LogOpen'
    <3>1. /\ pc'[w] = how /\ conn'[w] = None /\ channel'[w] = <<>>
          /\ UNCHANGED <<request, answered, queue, log_msg, log_file>>
      BY <1>0, <2>2 DEF PoolTypeOK, Crash, Ends, Goto, logvars
    <3>2. OnlyTouches(w)
      BY <1>0, <2>2 DEF PoolTypeOK, Crash, Ends, Goto, OnlyTouches
    <3>3. how \notin {"handshake", "request", "work"}
      BY DEF Ended
    <3>4. Unread(w)'
      BY <3>1, <3>3 DEF Unread
    <3>. QED  BY <3>1, <3>2, <3>3, <3>4, QuietWorkerKeepsLog
  <2>. QED
    BY <1>5, <2>1, <2>2
       DEF RecvEOF, ReadBreaks, NoDescriptor, WriteBreaks, Ended
<1>6. CASE log_message(w) \/ execute_file(w)
  <2>1. /\ Now(w) \in Texts \cup {"script"}
        /\ UNCHANGED <<pc, conn, channel, request, answered, log_msg, log_file>>
        /\ step'[w] = step[w] + 1
    BY <1>0, <1>6 DEF log_message, execute_file, logvars, Advance, PoolTypeOK
  <2>2. OnlyTouches(w)
    BY <1>0, <1>6 DEF log_message, execute_file, Advance, OnlyTouches, PoolTypeOK
  <2>3. Unread(w)'
    BY <1>0, <2>1, UnreadIsKept
  <2>4. Now(w) # "none" /\ Now(w) # "reply"
    BY <2>1 DEF Texts
  <2>5. IF Now(w) \in Texts THEN queue' = Append(queue, <<conn[w], Now(w)>>)
        ELSE queue' = queue
    BY <1>6 DEF log_message, execute_file, msgsnd, logvars, Texts
  <2>6. ASSUME NEW d \in Conns
        PROVE  Logged(d)' = IF d = conn[w] /\ Now(w) \in Texts
                            THEN Append(Logged(d), Now(w)) ELSE Logged(d)
    <3>1. CASE Now(w) \in Texts
      <4>1. conn[w] \in Conns
        BY <2>4, NextCall
      <4>. QED  BY <1>0, <2>1, <2>5, <3>1, <4>1, SentIsLogged
    <3>2. CASE Now(w) \notin Texts
      BY <2>1, <2>5, <3>2, SameLog
    <3>. QED  BY <3>1, <3>2
  <2>7. ASSUME NEW d \in Conns, d = conn[w]
        PROVE  LogPart(d)'
    <3>1. /\ Done(request[d], step[w]) =
                 IF Now(w) \in Texts THEN Append(Logged(d), Now(w)) ELSE Logged(d)
          /\ d \notin answered
      BY <2>4, <2>7, NextCall
    <3>2. Logged(d)' = Done(request[d], step[w]) /\ d \notin answered'
      BY <2>1, <2>6, <2>7, <3>1
    <3>. QED  BY <2>1, <2>2, <2>4, <2>7, <3>2, CallKeepsPart
  <2>8. pc'[w] = "work" => conn'[w] = conn[w]
    BY <2>1
  <2>. QED  BY <2>1, <2>2, <2>3, <2>6, <2>7, <2>8, WorkerKeepsLog
<1>7. CASE ScriptEnds(w)
  <2>1. UNCHANGED <<pc, mainvars, conn, step, sockets, channel, request,
                    answered, queue, log_msg, log_file>>
    BY <1>7 DEF ScriptEnds, logvars
  <2>2. OnlyTouches(w) /\ Unread(w)'
    BY <1>0, <2>1 DEF OnlyTouches, Unread
  <2>. QED  BY <2>1, <2>2, QuietWorkerKeepsLog
<1>8. CASE Reply(w)
  <2>1. /\ Now(w) = "reply" /\ pc'[w] = "recv" /\ conn'[w] = None
        /\ answered' = answered \cup {conn[w]} /\ channel'[w] = channel[w]
        /\ UNCHANGED <<request, queue, log_msg, log_file>>
    BY <1>0, <1>8 DEF Reply, PoolTypeOK, Goto, logvars
  <2>2. OnlyTouches(w)
    BY <1>0, <1>8 DEF Reply, PoolTypeOK, Goto, OnlyTouches
  <2>3. Unread(w)'
    <3>1. \A i \in 1 .. Len(channel[w]) :
             channel[w][i] \in Conns /\ None < channel[w][i]
      <4>1. \A c \in Conns : None < c
        BY BoundsAreNumbers DEF Conns, None
      <4>. QED  BY <1>0, <4>1
    <3>. QED  BY <1>0, <2>1, <3>1 DEF Unread
  <2>4. \A d \in Conns : Logged(d)' = Logged(d)
    BY <2>1, SameLog
  <2>5. ASSUME NEW d \in Conns, d = conn[w]
        PROVE  LogPart(d)'
    <3>1. Done(request[d], step[w]) = Logged(d)
      BY <2>1, <2>5, NextCall DEF Texts
    <3>. QED  BY <2>1, <2>2, <2>4, <2>5, <3>1, CallKeepsPart
  <2>. QED  BY <2>1, <2>2, <2>3, <2>4, <2>5, WorkerKeepsLog
<1>. QED
  BY <1>1, <1>2, <1>3, <1>4, <1>5, <1>6, <1>7, <1>8
  DEF WorkerStep, ClientStep, OwnStep

(* main, the logger, a signal: what the workers have done stays. *)
LEMMA SameWorkersKeepLog ==
    ASSUME LogOpen, UNCHANGED <<conn, step, request, answered>>,
           \A c \in Conns : Logged(c)' = Logged(c),
           \A c \in Conns : NotYet(c)' => NotYet(c),
           \A w \in Workers : pc'[w] \in {pc[w], "cleanup"},
           \A w \in Workers : channel'[w] = channel[w] \/ Unread(w)'
    PROVE  LogOpen'
<1>1. ASSUME NEW c \in Conns
      PROVE  LogPart(c)'
  <2>1. /\ LogPart(c) /\ Logged(c)' = Logged(c) /\ request'[c] = request[c]
        /\ (c \in answered') = (c \in answered)
    BY DEF LogOpen
  <2>2. \A w \in Workers : conn'[w] = c /\ pc'[w] = "work" =>
            conn[w] = c /\ pc[w] = "work" /\ step'[w] = step[w]
    OBVIOUS
  <2>. QED  BY <2>1, <2>2, LogPartIsKept
<1>2. ASSUME NEW w \in Workers
      PROVE  Unread(w)'
  <2>1. Unread(w) /\ pc'[w] \in {pc[w], "cleanup"}
        /\ (channel'[w] = channel[w] \/ Unread(w)')
    BY DEF LogOpen
  <2>. QED  BY <2>1 DEF Unread
<1>3. (\A c \in Conns : LogPart(c))' /\ (\A w \in Workers : Unread(w))'
  BY <1>1, <1>2
<1>4. \A c \in Conns : NotYet(c)' => request'[c] = "unread"
  BY DEF LogOpen
<1>. QED  BY <1>3, <1>4 DEF LogOpen

LEMMA MainKeepsOrder ==
    ASSUME PoolInv, LogOpen, Accept \/ MainStep
    PROVE  LogOpen'
<1>. USE ProcsAreDifferent
<1>0. /\ accepts \in Nat /\ Conns \subseteq Nat /\ pc \in [Procs ->
             ServerPCs \cup WorkerPCs \cup Ended \cup {"logging", "cleanup"}]
      /\ next_worker \in Workers /\ channel \in [Workers -> Seq(Conns)]
  BY DEF PoolInv, PoolTypeOK, Conns
<1>1. /\ UNCHANGED <<conn, step, request, answered, queue, log_msg, log_file>>
      /\ \A w \in Workers : pc'[w] = pc[w]
  BY <1>0
     DEF Accept, MainStep, Send, SendBreaks, Close, Goto, workervars, logvars
<1>2. \A c \in Conns : Logged(c)' = Logged(c)
  BY <1>1, SameLog
<1>3. \A c \in Conns : NotYet(c)' => NotYet(c)
  <2>1. CASE Accept
    BY <1>0, <2>1 DEF Accept, Goto, NotYet
  <2>2. CASE MainStep
    <3>1. accepts' = accepts /\ pc'[Server] # "send"
      BY <1>0, <2>2 DEF MainStep, Send, SendBreaks, Close, Goto, mainvars
    <3>. QED  BY <1>0, <3>1 DEF NotYet
  <2>. QED  BY <2>1, <2>2
<1>4. ASSUME NEW w \in Workers, channel'[w] # channel[w]
      PROVE  Unread(w)'
  <2>1. /\ pc[Server] = "send" /\ w = next_worker /\ client_sock # Failed
        /\ channel' = [channel EXCEPT ![w] = Append(@, client_sock)]
    BY <1>0, <1>4 DEF Accept, MainStep, Send, SendBreaks, Close
  <2>. DEFINE s == channel[w]
              t == Append(s, accepts)
  <2>2. client_sock = accepts /\ accepts > 0
    BY <2>1 DEF PoolInv, MainInTurn
  <2>3. accepts \in Conns /\ request[accepts] = "unread"
    <3>1. accepts \in Conns
      BY <2>1, <2>2, BoundsAreNumbers DEF PoolInv, PoolTypeOK, Conns
    <3>. QED  BY <2>1, <3>1 DEF LogOpen, NotYet
  <2>4. /\ Len(t) = Len(s) + 1 /\ Len(s) \in Nat /\ t[Len(s) + 1] = accepts
        /\ \A i \in 1 .. Len(s) : t[i] = s[i]
    BY <1>0, <2>3
  <2>5. /\ \A i, j \in 1 .. Len(s) : i < j => s[i] < s[j]
        /\ \A i \in 1 .. Len(s) : conn[w] < s[i] /\ request[s[i]] = "unread"
        /\ pc[w] \in {"handshake", "request"} => request[conn[w]] = "unread"
        /\ pc[w] = "work" => conn[w] \notin answered
    BY DEF LogOpen, Unread
  <2>6. /\ \A i \in 1 .. Len(s) : s[i] < accepts
        /\ conn[w] < accepts
    BY <2>1, <2>2, BoundsAreNumbers
       DEF PoolInv, EverybodyHoldsItsOwn, Due, None
  <2>7. channel'[w] = t
    BY <1>0, <2>1, <2>2
  <2>. HIDE DEF s, t
  <2>8. \A i \in 1 .. Len(t) : i \in 1 .. Len(s) \/ i = Len(s) + 1
    BY <2>4
  <2>9. \A i, j \in 1 .. Len(t) : i < j => t[i] < t[j]
    <3>1. SUFFICES ASSUME NEW i \in 1 .. Len(t), NEW j \in 1 .. Len(t), i < j
                   PROVE  t[i] < t[j]
      OBVIOUS
    <3>2. i \in 1 .. Len(s)
      BY <2>4, <3>1
    <3>3. j \in 1 .. Len(s) \/ j = Len(s) + 1
      BY <2>8
    <3>. QED  BY <2>4, <2>5, <2>6, <3>1, <3>2, <3>3
  <2>10. \A i \in 1 .. Len(t) : conn[w] < t[i] /\ request[t[i]] = "unread"
    BY <2>3, <2>4, <2>5, <2>6, <2>8
  <2>. QED  BY <1>1, <2>5, <2>7, <2>9, <2>10 DEF Unread
<1>. QED  BY <1>1, <1>2, <1>3, <1>4, SameWorkersKeepLog

LEMMA OthersKeepOrder ==
    ASSUME PoolInv, LogOpen,
           \/ Signal \/ msgrcv \/ WriteLog \/ UNCHANGED vars
           \/ \E q \in Procs : EnterCleanup(q)
    PROVE  LogOpen'
<1>1. PoolTypeOK
  BY DEF PoolInv
<1>2. /\ UNCHANGED <<conn, step, request, answered, channel, accepts>>
      /\ \A q \in Procs : pc'[q] \in {pc[q], "cleanup"}
  BY <1>1
     DEF Signal, msgrcv, WriteLog, vars, EnterCleanup, Goto, PoolTypeOK,
         mainvars, workervars
<1>3. ASSUME NEW c \in Conns
      PROVE  Logged(c)' = Logged(c)
  <2>1. CASE msgrcv \/ WriteLog
    BY <1>1, <2>1, LoggerKeepsLogged
  <2>2. CASE UNCHANGED <<queue, log_msg, log_file>>
    BY <2>2, SameLog
  <2>. QED  BY <2>1, <2>2 DEF Signal, vars, EnterCleanup, logvars
<1>4. \A c \in Conns : NotYet(c)' => NotYet(c)
  BY <1>2, ProcsAreDifferent DEF NotYet
<1>. QED  BY <1>2, <1>3, <1>4, ProcsAreDifferent, SameWorkersKeepLog

LEMMA LogInvIsInductive ==
    ASSUME PoolInv, PoolInv', LogInv, [Next]_vars
    PROVE  LogInv'
<1>. SUFFICES ASSUME ~removed'
              PROVE  LogOpen'
  BY DEF LogInv
<1>1. ~removed
  BY DEF Next, vars, logvars, Accept, MainStep, Send, SendBreaks, Close,
         Signal, msgrcv, WriteLog, WorkerStep, ClientStep, OwnStep, ScriptEnds,
         Recv, RecvEOF,
         Handshake, HandshakeFails, ReadRequest, ReadBreaks, NoDescriptor,
         log_message, execute_file, Reply, WriteBreaks, Crash, EnterCleanup,
         cleanup
<1>2. LogOpen
  BY <1>1 DEF LogInv
<1>3. \A q \in Procs : ~cleanup(q)
  BY DEF cleanup
<1>. QED
  BY <1>1, <1>2, <1>3, MainKeepsOrder, OthersKeepOrder, WorkersKeepOrder DEF Next

LEMMA InitLog == Init => LogInv
<1>. SUFFICES ASSUME Init
              PROVE  LogOpen
  BY DEF LogInv
<1>. USE ProcsAreDifferent
<1>1. /\ \A c \in Conns : request[c] = "unread" /\ log_file[c] = <<>>
      /\ answered = {} /\ log_msg = <<>> /\ queue = <<>>
      /\ \A w \in Workers : /\ channel[w] = <<>> /\ conn[w] = None
                            /\ pc[w] = "recv"
  BY DEF Init
<1>2. ASSUME NEW c \in Conns
      PROVE  Logged(c) = <<>>
  <2>1. Logged(c) = <<>> \o TextsOf(c, <<>>) \o TextsOf(c, <<>>)
    BY <1>1 DEF Logged
  <2>. QED  BY <2>1, TextsOfNone
<1>3. \A c \in Conns : LogPart(c)
  BY <1>1, <1>2 DEF LogPart
<1>4. \A w \in Workers : Unread(w)
  BY <1>1 DEF Unread
<1>. QED  BY <1>1, <1>3, <1>4 DEF LogOpen

(* Whatever the workers and the logger interleave, the messages of a request
   are in the log in their order, none lost or doubled, and all of them are
   there when the client gets its reply, until the queue is removed. *)
THEOREM LogKeepsOrder == Spec => []LogInOrder
<1>1. PoolInv /\ LogInv => LogInOrder
  BY OrderFollows DEF PoolInv
<1>. QED
  BY <1>1, InitLog, LogInvIsInductive, PoolInvAlways, PTL DEF Spec
===============================================================================
