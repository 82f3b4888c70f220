--------------------------- MODULE ForkingServerProofs -------------------------
(***************************************************************************)
(* The safety of the class Server, for every number of workers and starts: *)
(* a start accepts one connection at most and ends with it, no descriptor  *)
(* is ever handed to a worker, and no worker sees the end of its pair.     *)
(*                                                                         *)
(* All of it follows from what the descriptors refer to: 0 is free in main *)
(* from the first fork on, and every process has enough free descriptors   *)
(* for socketpair to return two different ones.                            *)
(***************************************************************************)
EXTENDS ForkingServer, WellFoundedInduction, TLAPS

Things ==
    [kind  : {"free", "inherited", "log", "listener", "pair", "connection"},
     start : {0} \cup Starts,
     n     : Nat]

Tables == [Fds -> Things]

ServerTypeOK ==
    /\ alive \subseteq Processes
    /\ fds \in [Processes -> Tables]
    /\ at \in [Starts -> Labels]
    /\ i \in [Starts -> 1 .. MAX_WORKERS + 1]
    /\ new_socket \in [Starts -> Fds \cup {-1}]
    /\ server_fd \in [Starts -> Fds]
    /\ worker_sockets \in [Starts -> [Workers -> Fds \X Fds]]
    /\ accepted \in [Starts -> Nat]

(***************************************************************************)
(* What is true of each start g.                                           *)
(***************************************************************************)

(* Until its first accept, main has not touched new_socket. *)
NothingAccepted(g) ==
    /\ accepted[g] <= 1
    /\ at[g] # "ended" => accepted[g] = 0
    /\ at[g] = "off" => i[g] = 1
    /\ at[g] \in {"pair", "fork"} => i[g] \in Workers
    /\ at[g] \in {"off", "pair", "fork"} => new_socket[g] = 0

(* The descriptors from n on are free. *)
FreeFrom(table, n) == \A m \in Fds : m >= n => table[m] = Free

(* Every pair needs two descriptors, and the table of main has that many. *)
Room(g) ==
    /\ at[g] = "pair" => FreeFrom(fds[<<g, Main>>], 3 + 2 * i[g])
    /\ at[g] = "fork" => FreeFrom(fds[<<g, Main>>], 5 + 2 * i[g])

Has(table, object) == \E n \in Fds : table[n] = object

(* Main has the sending end when it forks, so that the worker inherits it. *)
PairIsOpen(g) == at[g] = "fork" => Has(fds[<<g, Main>>], Pair(g, i[g], 0))

(* create_workers has closed descriptor 0. *)
ZeroIsFree(g) ==
    at[g] \in {"logger", "accept"} => fds[<<g, Main>>][0] = Free

(* A worker has the sending end of its own pair. *)
HasOwnPair(g) ==
    \A w \in Workers : <<g, w>> \in alive => Has(fds[<<g, w>>], Pair(g, w, 0))

Fine(g) ==
    NothingAccepted(g) /\ Room(g) /\ PairIsOpen(g) /\ ZeroIsFree(g)
    /\ HasOwnPair(g)

ServerInv ==
    /\ ServerTypeOK
    /\ sent = {}
    /\ \A g \in Starts : Fine(g)

-------------------------------------------------------------------------------
(* Descriptors *)

(* A set of natural numbers that is not empty has a least element. *)
LEMMA LeastNatural ==
    ASSUME NEW S, S \subseteq Nat, S # {}
    PROVE  \E m \in S : \A x \in S : m <= x
<1> DEFINE Less == {ss \in Nat \X Nat : ss[1] < ss[2]}
<1>1. IsWellFoundedOn(Less, Nat)
  BY NatLessThanWellFounded DEF OpToRel
<1>2. PICK m \in S : \A x \in S : ~ (<<x, m>> \in Less)
  <2> HIDE DEF Less
  <2> QED  BY <1>1, WFMin
<1>3. ASSUME NEW x \in S  PROVE m <= x
  <2>1. x \in Nat /\ m \in Nat
    OBVIOUS
  <2>2. ASSUME x < m  PROVE FALSE
    <3>1. <<x, m>> \in Less
      BY <2>1, <2>2
    <3> QED  BY <1>2, <3>1
  <2> QED  BY <2>1, <2>2
<1> QED  BY <1>3

LEMMA FdsAreNumbers == Fds \subseteq Nat /\ {0, 1, 2, 3, 4, 5} \subseteq Fds
BY ServerAssumption DEF Fds

(* What an open returns: the lowest descriptor that is free. *)
LEMMA LowestIsFree ==
    ASSUME NEW table \in Tables, NEW n \in Fds, table[n] = Free
    PROVE  /\ Lowest(table) \in Fds
           /\ table[Lowest(table)] = Free
           /\ Lowest(table) <= n
<1> DEFINE S == {m \in Fds : table[m] = Free}
<1>1. n \in S /\ S \subseteq Nat
  BY FdsAreNumbers
<1>2. \E m \in S : \A x \in S : m <= x
  BY <1>1, LeastNatural
<1>3. Min(S) \in S /\ \A x \in S : Min(S) <= x
  BY <1>2 DEF Min
<1> QED  BY <1>1, <1>3 DEF Lowest

(* Opening a file changes one descriptor, which was free. *)
LEMMA OpenedChangesOne ==
    ASSUME NEW table \in Tables, NEW n \in Fds, table[n] = Free,
           NEW object \in Things
    PROVE  /\ Opened(table, object) \in Tables
           /\ Opened(table, object)[Lowest(table)] = object
           /\ \A m \in Fds : table[m] # Free =>
                  Opened(table, object)[m] = table[m]
BY LowestIsFree DEF Opened, Tables

LEMMA FreeAtItsStart ==
    ASSUME NEW table, NEW n \in Fds, FreeFrom(table, n)
    PROVE  table[n] = Free
BY FdsAreNumbers DEF FreeFrom

(* Where a table is free from n on it still is from n + 1 on. *)
LEMMA OpenedKeepsRoom ==
    ASSUME NEW table \in Tables, NEW n \in Fds, FreeFrom(table, n),
           NEW object \in Things
    PROVE  FreeFrom(Opened(table, object), n + 1)
<1>1. table[n] = Free
  BY FdsAreNumbers DEF FreeFrom
<1>2. Lowest(table) \in Fds /\ Lowest(table) <= n
  BY <1>1, LowestIsFree
<1> QED  BY <1>2, FdsAreNumbers DEF FreeFrom, Opened, Tables

LEMMA ThingsTyped ==
    /\ Free \in Things /\ Inherited \in Things
    /\ \A g \in Starts :
          /\ LogFile(g) \in Things
          /\ Listener(g) \in Things
          /\ Connection(g) \in Things
          /\ \A w \in Workers, side \in {0, 1} :
                Pair(g, w, side) \in Things /\ Pair(g, w, side) # Free
BY ServerAssumption
DEF Things, Free, Inherited, LogFile, Listener, Connection, Pair, Object, Starts,
    Workers

LEMMA ClosedTyped == Closed \in Tables
BY ThingsTyped DEF Closed, Tables

-------------------------------------------------------------------------------
(* The steps *)

LEMMA InitIsInvariant == Init => ServerInv
<1> SUFFICES ASSUME Init  PROVE ServerInv
  OBVIOUS
<1>1. ServerTypeOK
  BY ServerAssumption, ClosedTyped, FdsAreNumbers
  DEF Init, ServerTypeOK, Labels, Workers
<1>2. sent = {} /\ \A g \in Starts : Fine(g)
  BY DEF Init, Fine, NothingAccepted, Room, PairIsOpen, ZeroIsFree, HasOwnPair
<1> QED  BY <1>1, <1>2 DEF ServerInv

(* Every process of a start is a process. *)
LEMMA ProcessesOf ==
    ASSUME NEW g \in Starts
    PROVE  /\ <<g, Main>> \in Processes /\ <<g, Logger>> \in Processes
           /\ \A w \in Workers : /\ <<g, w>> \in Processes
                                /\ w # Main /\ w # Logger
BY ServerAssumption DEF Processes, Main, Logger, Workers

(* The death of a process, main of a start included; main may have accepted
   its one connection just before. *)
LEMMA GoneKeepsInvariant ==
    ASSUME ServerInv, NEW p \in Processes, NEW backlogs, GoneLeaving(p, backlogs),
           \/ accepted' = accepted
           \/ /\ p[2] = Main /\ at[p[1]] = "accept"
              /\ accepted' = [accepted EXCEPT ![p[1]] = @ + 1]
    PROVE  ServerInv'
<1> USE DEF ServerInv
<1>1. /\ alive' = alive \ {p}
      /\ fds' = [fds EXCEPT ![p] = Closed]
      /\ at' = IF p[2] = Main THEN [at EXCEPT ![p[1]] = "ended"] ELSE at
      /\ UNCHANGED <<i, new_socket, server_fd, worker_sockets, sent>>
  BY DEF GoneLeaving, members
<1>2. p[1] \in Starts /\ p = <<p[1], p[2]>>
  BY DEF Processes
<1>3. ServerTypeOK'
  BY <1>1, <1>2, ClosedTyped DEF ServerTypeOK, Labels
<1>4. ASSUME NEW g \in Starts, at'[g] # "ended"
      PROVE  /\ at'[g] = at[g] /\ accepted'[g] = accepted[g]
             /\ fds'[<<g, Main>>] = fds[<<g, Main>>]
  <2>1. p # <<g, Main>>
    BY <1>1, <1>2, <1>4 DEF ServerTypeOK
  <2>2. at'[g] = at[g]
    BY <1>1, <1>2, <1>4 DEF ServerTypeOK
  <2>3. fds'[<<g, Main>>] = fds[<<g, Main>>]
    BY <1>1, <2>1, ProcessesOf DEF ServerTypeOK
  <2>4. accepted'[g] = accepted[g]
    BY <1>2, <2>1 DEF ServerTypeOK
  <2> QED  BY <2>2, <2>3, <2>4
<1>5. SUFFICES ASSUME NEW g \in Starts  PROVE Fine(g)'
  BY <1>1, <1>3
<1>6. Fine(g)
  OBVIOUS
<1>7. NothingAccepted(g)'
  <2>1. accepted'[g] <= 1
    BY <1>2, <1>6 DEF ServerTypeOK, Fine, NothingAccepted
  <2> QED  BY <1>1, <1>4, <1>6, <2>1 DEF Fine, NothingAccepted
<1>8. Room(g)' /\ PairIsOpen(g)' /\ ZeroIsFree(g)'
  BY <1>1, <1>4, <1>6 DEF Fine, Room, PairIsOpen, ZeroIsFree, Has, FreeFrom
<1>9. HasOwnPair(g)'
  <2> SUFFICES ASSUME NEW w \in Workers, <<g, w>> \in alive'
               PROVE  Has(fds'[<<g, w>>], Pair(g, w, 0))
    BY DEF HasOwnPair, Has
  <2>1. fds'[<<g, w>>] = fds[<<g, w>>]
    BY <1>1, ProcessesOf DEF ServerTypeOK
  <2> QED  BY <1>1, <1>6, <2>1 DEF Fine, HasOwnPair
<1> QED  BY <1>7, <1>8, <1>9 DEF Fine

(***************************************************************************)
(* A step of the start g changes its own processes, and what is true of    *)
(* another start only depends on that one's.                               *)
(***************************************************************************)
LEMMA OthersStayFine ==
    ASSUME ServerInv, NEW g \in Starts, NEW h \in Starts \ {g},
           at'[h] = at[h], i'[h] = i[h], accepted'[h] = accepted[h],
           new_socket'[h] = new_socket[h],
           \A n \in Main .. Logger :
               /\ fds'[<<h, n>>] = fds[<<h, n>>]
               /\ <<h, n>> \in alive' <=> <<h, n>> \in alive
    PROVE  Fine(h)'
<1>1. /\ Main \in Main .. Logger
      /\ \A w \in Workers : w \in Main .. Logger
  BY ServerAssumption DEF Main, Logger, Workers
<1>2. Fine(h)
  BY DEF ServerInv
<1>3. NothingAccepted(h)'
  BY <1>2 DEF Fine, NothingAccepted
<1>4. Room(h)' /\ PairIsOpen(h)' /\ ZeroIsFree(h)'
  BY <1>1, <1>2 DEF Fine, Room, PairIsOpen, ZeroIsFree, Has, FreeFrom
<1>5. HasOwnPair(h)'
  BY <1>1, <1>2 DEF Fine, HasOwnPair, Has
<1> QED  BY <1>3, <1>4, <1>5 DEF Fine

LEMMA StartKeepsInvariant ==
    ASSUME ServerInv, NEW g \in Starts, Start(g)
    PROVE  ServerInv'
<1> USE ServerAssumption DEF ServerInv
<1> DEFINE main == <<g, Main>>
<1>1. PICK stdin \in {Inherited, Free}, logs \in BOOLEAN :
          LET std    == [Closed EXCEPT ![0] = stdin, ![1] = Inherited,
                                       ![2] = Inherited]
              logged == IF logs THEN Opened(std, LogFile(g)) ELSE std
          IN  /\ fds' = [fds EXCEPT ![main] = Opened(logged, Listener(g))]
              /\ server_fd' = [server_fd EXCEPT ![g] = Lowest(logged)]
  BY DEF Start
<1> DEFINE std    == [Closed EXCEPT ![0] = stdin, ![1] = Inherited,
                                    ![2] = Inherited]
           logged == IF logs THEN Opened(std, LogFile(g)) ELSE std
           table  == Opened(logged, Listener(g))
<1>2. fds' = [fds EXCEPT ![main] = table]
      /\ server_fd' = [server_fd EXCEPT ![g] = Lowest(logged)]
  BY <1>1
<1>3. std \in Tables /\ FreeFrom(std, 3)
  BY ClosedTyped, ThingsTyped, FdsAreNumbers DEF Closed, FreeFrom, Tables
<1>4. logged \in Tables /\ FreeFrom(logged, 4)
  <2> HIDE DEF std
  <2>1. std[3] = Free /\ FreeFrom(std, 4)
    BY <1>3, FdsAreNumbers DEF FreeFrom
  <2>2. Opened(std, LogFile(g)) \in Tables
    BY <1>3, <2>1, OpenedChangesOne, ThingsTyped, FdsAreNumbers
  <2>3. FreeFrom(Opened(std, LogFile(g)), 4)
    BY <1>3, OpenedKeepsRoom, ThingsTyped, FdsAreNumbers
  <2> QED  BY <1>3, <2>1, <2>2, <2>3
<1>5. table \in Tables /\ FreeFrom(table, 5) /\ Lowest(logged) \in Fds
  <2> HIDE DEF logged
  <2>1. logged[4] = Free
    BY <1>4, FdsAreNumbers DEF FreeFrom
  <2>2. table \in Tables /\ Lowest(logged) \in Fds
    BY <1>4, <2>1, OpenedChangesOne, LowestIsFree, ThingsTyped, FdsAreNumbers
  <2>3. FreeFrom(table, 5)
    BY <1>4, OpenedKeepsRoom, ThingsTyped, FdsAreNumbers
  <2> QED  BY <2>2, <2>3
<1> HIDE DEF table, logged
<1>6. /\ at[g] = "off" /\ at' = [at EXCEPT ![g] = "pair"]
      /\ alive' = alive \cup {main}
      /\ UNCHANGED <<i, new_socket, worker_sockets, backlog, accepted, sent>>
  BY DEF Start
<1>7. ServerTypeOK'
  BY <1>2, <1>5, <1>6, ProcessesOf DEF ServerTypeOK, Labels
<1>8. at'[g] = "pair" /\ fds'[main] = table /\ i'[g] = 1
  BY <1>2, <1>6, ProcessesOf DEF ServerTypeOK, Fine, NothingAccepted
<1>9. NothingAccepted(g)' /\ PairIsOpen(g)' /\ ZeroIsFree(g)'
  BY <1>6, <1>8
  DEF Fine, NothingAccepted, PairIsOpen, ZeroIsFree, Workers, ServerTypeOK
<1>10. Room(g)'
  BY <1>5, <1>8 DEF Room, FreeFrom
<1>11. HasOwnPair(g)'
  BY <1>2, <1>6, ProcessesOf DEF Fine, HasOwnPair, Has, ServerTypeOK
<1>12. Fine(g)'
  BY <1>9, <1>10, <1>11 DEF Fine
<1>13. ASSUME NEW h \in Starts \ {g}  PROVE Fine(h)'
  <2>1. \A n \in Main .. Logger :
            /\ <<h, n>> \in Processes /\ <<h, n>> # main
            /\ fds'[<<h, n>>] = fds[<<h, n>>]
    BY <1>2 DEF ServerTypeOK, Processes
  <2> QED  BY <1>6, <2>1, OthersStayFine DEF ServerTypeOK
<1> QED  BY <1>6, <1>7, <1>12, <1>13

LEMMA SocketPairKeepsInvariant ==
    ASSUME ServerInv, NEW g \in Starts, SocketPair(g)
    PROVE  ServerInv'
<1> DEFINE main  == <<g, Main>>
           table == fds[main]
           half  == Opened(table, Pair(g, i[g], 0))
           both  == Opened(half, Pair(g, i[g], 1))
<1>1. at[g] = "pair" /\ accepted' = accepted
  BY DEF SocketPair
<1>2. CASE Gone(main)
  BY <1>1, <1>2, GoneKeepsInvariant, ProcessesOf DEF Gone
<1>3. CASE /\ fds' = [fds EXCEPT ![main] = both]
           /\ worker_sockets' = [worker_sockets EXCEPT
                                     ![g][i[g]] = <<Lowest(table), Lowest(half)>>]
           /\ at' = [at EXCEPT ![g] = "fork"]
           /\ UNCHANGED <<alive, i, new_socket, server_fd, backlog, sent>>
  <2> USE ServerAssumption DEF ServerInv
  <2>1. /\ table \in Tables /\ main \in Processes /\ i[g] \in Workers
        /\ FreeFrom(table, 3 + 2 * i[g])
    BY <1>1, ProcessesOf DEF ServerTypeOK, Fine, NothingAccepted, Room
  <2>2. 3 + 2 * i[g] \in Fds /\ 4 + 2 * i[g] \in Fds
    BY <2>1 DEF Fds, Workers
  <2>3. /\ Pair(g, i[g], 0) \in Things /\ Pair(g, i[g], 1) \in Things
        /\ Pair(g, i[g], 0) # Free
    BY <2>1, ThingsTyped
  <2>4. /\ table[3 + 2 * i[g]] = Free
        /\ half \in Tables /\ Lowest(table) \in Fds
        /\ half[Lowest(table)] = Pair(g, i[g], 0)
    <3>1. table[3 + 2 * i[g]] = Free
      BY <2>1, <2>2, FreeAtItsStart
    <3> QED  BY <2>1, <2>2, <2>3, <3>1, OpenedChangesOne, LowestIsFree
  <2>5. FreeFrom(half, 4 + 2 * i[g])
    <3>1. FreeFrom(half, (3 + 2 * i[g]) + 1)
      BY <2>1, <2>2, <2>3, OpenedKeepsRoom
    <3>2. (3 + 2 * i[g]) + 1 = 4 + 2 * i[g]
      BY <2>1 DEF Workers
    <3> QED  BY <3>1, <3>2
  <2> HIDE DEF half
  <2>6. /\ both \in Tables /\ Lowest(half) \in Fds
        /\ both[Lowest(table)] = Pair(g, i[g], 0)
    <3>1. half[4 + 2 * i[g]] = Free
      BY <2>2, <2>5, FreeAtItsStart
    <3> QED  BY <2>2, <2>3, <2>4, <3>1, OpenedChangesOne, LowestIsFree
  <2>7. FreeFrom(both, 5 + 2 * i[g])
    <3>1. FreeFrom(both, (4 + 2 * i[g]) + 1)
      BY <2>2, <2>3, <2>4, <2>5, OpenedKeepsRoom
    <3>2. (4 + 2 * i[g]) + 1 = 5 + 2 * i[g]
      BY <2>1 DEF Workers
    <3> QED  BY <3>1, <3>2
  <2> HIDE DEF both
  <2>8. ServerTypeOK'
    BY <1>1, <1>3, <2>1, <2>4, <2>6 DEF ServerTypeOK, Labels
  <2>9. at'[g] = "fork" /\ fds'[main] = both /\ i' = i
    BY <1>3, <2>1 DEF ServerTypeOK
  <2>10. NothingAccepted(g)' /\ ZeroIsFree(g)'
    BY <1>1, <1>3, <2>9 DEF Fine, NothingAccepted, ZeroIsFree
  <2>11. Room(g)' /\ PairIsOpen(g)'
    BY <2>4, <2>6, <2>7, <2>9 DEF Room, PairIsOpen, FreeFrom, Has
  <2>12. HasOwnPair(g)'
    BY <1>3, ProcessesOf DEF Fine, HasOwnPair, Has, ServerTypeOK
  <2>13. Fine(g)'
    BY <2>10, <2>11, <2>12 DEF Fine
  <2>14. ASSUME NEW h \in Starts \ {g}  PROVE Fine(h)'
    <3>1. \A n \in Main .. Logger :
              /\ <<h, n>> \in Processes /\ <<h, n>> # main
              /\ fds'[<<h, n>>] = fds[<<h, n>>]
      BY <1>3 DEF ServerTypeOK, Processes
    <3> QED  BY <1>1, <1>3, <3>1, OthersStayFine DEF ServerTypeOK
  <2> QED  BY <1>3, <2>8, <2>13, <2>14
<1> QED  BY <1>2, <1>3 DEF SocketPair

LEMMA ForkWorkerKeepsInvariant ==
    ASSUME ServerInv, NEW g \in Starts, ForkWorker(g)
    PROVE  ServerInv'
<1> DEFINE main   == <<g, Main>>
           worker == <<g, i[g]>>
           table  == fds[main]
           parent == ClosedByParent(g, table)
<1>1. at[g] = "fork" /\ accepted' = accepted
  BY DEF ForkWorker
<1>2. CASE Gone(main)
  BY <1>1, <1>2, GoneKeepsInvariant, ProcessesOf DEF Gone
<1>3. CASE /\ alive' = alive \cup {worker}
           /\ fds' = [fds EXCEPT ![worker] = table, ![main] = parent]
           /\ i' = [i EXCEPT ![g] = @ + 1]
           /\ at' = [at EXCEPT ![g] = IF i[g] = MAX_WORKERS THEN "logger" ELSE "pair"]
           /\ UNCHANGED <<members, sent>>
  <2> USE ServerAssumption DEF ServerInv
  <2>1. /\ table \in Tables /\ main \in Processes /\ worker \in Processes
        /\ i[g] \in Workers /\ new_socket[g] = 0
        /\ FreeFrom(table, 5 + 2 * i[g]) /\ Has(table, Pair(g, i[g], 0))
    BY <1>1, ProcessesOf
    DEF ServerTypeOK, Fine, NothingAccepted, Room, PairIsOpen
  <2>2. /\ parent \in Tables /\ parent[0] = Free
        /\ FreeFrom(parent, 5 + 2 * i[g])
    BY <2>1, ThingsTyped, FdsAreNumbers DEF ClosedByParent, Tables, FreeFrom
  <2> HIDE DEF parent
  <2>3. ServerTypeOK'
    <3>1. alive' \subseteq Processes /\ fds' \in [Processes -> Tables]
      BY <1>3, <2>1, <2>2 DEF ServerTypeOK
    <3>2. i' \in [Starts -> 1 .. MAX_WORKERS + 1]
      BY <1>3, <2>1 DEF ServerTypeOK, Workers
    <3>3. at' \in [Starts -> Labels]
      BY <1>3 DEF ServerTypeOK, Labels
    <3> QED  BY <1>1, <1>3, <3>1, <3>2, <3>3 DEF ServerTypeOK, members
  <2>4. /\ fds'[main] = parent /\ i'[g] = i[g] + 1 /\ new_socket'[g] = 0
        /\ at'[g] = IF i[g] = MAX_WORKERS THEN "logger" ELSE "pair"
    BY <1>3, <2>1 DEF ServerTypeOK, members
  <2>5. NothingAccepted(g)' /\ ZeroIsFree(g)' /\ PairIsOpen(g)'
    BY <1>1, <2>1, <2>2, <2>4
    DEF Fine, NothingAccepted, ZeroIsFree, PairIsOpen, Workers
  <2>6. Room(g)'
    <3>1. 3 + 2 * i'[g] = 5 + 2 * i[g]
      BY <2>1, <2>4 DEF Workers
    <3>2. FreeFrom(fds'[main], 3 + 2 * i'[g])
      BY <2>2, <2>4, <3>1
    <3> QED  BY <2>4, <3>2 DEF Room, FreeFrom
  <2>7. HasOwnPair(g)'
    <3> SUFFICES ASSUME NEW w \in Workers, <<g, w>> \in alive'
                 PROVE  Has(fds'[<<g, w>>], Pair(g, w, 0))
      BY DEF HasOwnPair, Has
    <3>1. CASE w = i[g]
      <4>1. fds'[<<g, w>>] = table
        BY <1>3, <2>1, <3>1, ProcessesOf DEF ServerTypeOK
      <4> QED  BY <2>1, <3>1, <4>1
    <3>2. CASE w # i[g]
      <4>1. fds'[<<g, w>>] = fds[<<g, w>>] /\ <<g, w>> \in alive
        BY <1>3, <3>2, ProcessesOf DEF ServerTypeOK
      <4> QED  BY <4>1 DEF Fine, HasOwnPair
    <3> QED  BY <3>1, <3>2
  <2>8. Fine(g)'
    BY <2>5, <2>6, <2>7 DEF Fine
  <2>9. ASSUME NEW h \in Starts \ {g}  PROVE Fine(h)'
    <3>1. \A n \in Main .. Logger :
              /\ <<h, n>> \in Processes /\ <<h, n>> # main /\ <<h, n>> # worker
              /\ fds'[<<h, n>>] = fds[<<h, n>>]
      BY <1>3 DEF ServerTypeOK, Processes
    <3> QED  BY <1>1, <1>3, <3>1, OthersStayFine DEF ServerTypeOK, members
  <2> QED  BY <1>3, <2>3, <2>8, <2>9
<1> QED  BY <1>2, <1>3 DEF ForkWorker

LEMMA ForkLoggerKeepsInvariant ==
    ASSUME ServerInv, NEW g \in Starts, ForkLogger(g)
    PROVE  ServerInv'
<1> DEFINE main == <<g, Main>>  logger == <<g, Logger>>
<1>1. at[g] = "logger" /\ accepted' = accepted
  BY DEF ForkLogger
<1>2. CASE Gone(main)
  BY <1>1, <1>2, GoneKeepsInvariant, ProcessesOf DEF Gone
<1>3. CASE /\ alive' = alive \cup {logger}
           /\ fds' = [fds EXCEPT ![logger] = fds[main]]
           /\ at' = [at EXCEPT ![g] = "accept"]
           /\ UNCHANGED <<i, members, backlog, sent>>
  <2> USE DEF ServerInv
  <2>1. main \in Processes /\ logger \in Processes /\ main # logger
    BY ProcessesOf, ServerAssumption DEF Main, Logger
  <2>2. ServerTypeOK'
    BY <1>1, <1>3, <2>1 DEF ServerTypeOK, Labels, members
  <2>3. at'[g] = "accept" /\ fds'[main] = fds[main]
    BY <1>3, <2>1 DEF ServerTypeOK
  <2>4. NothingAccepted(g)' /\ ZeroIsFree(g)' /\ PairIsOpen(g)' /\ Room(g)'
    BY <1>1, <2>3 DEF Fine, NothingAccepted, ZeroIsFree, PairIsOpen, Room
  <2>5. HasOwnPair(g)'
    BY <1>3, ProcessesOf DEF Fine, HasOwnPair, Has, ServerTypeOK
  <2>6. Fine(g)'
    BY <2>4, <2>5 DEF Fine
  <2>7. ASSUME NEW h \in Starts \ {g}  PROVE Fine(h)'
    <3>1. \A n \in Main .. Logger :
              /\ <<h, n>> \in Processes /\ <<h, n>> # logger
              /\ fds'[<<h, n>>] = fds[<<h, n>>]
      BY <1>3 DEF ServerTypeOK, Processes
    <3> QED  BY <1>1, <1>3, <3>1, OthersStayFine DEF ServerTypeOK, members
  <2> QED  BY <1>3, <2>2, <2>6, <2>7
<1> QED  BY <1>2, <1>3 DEF ForkLogger

(***************************************************************************)
(* accept gets descriptor 0, the loop of main ends, and with it the        *)
(* process: the branch in which the connection is handed over is dead.     *)
(***************************************************************************)
LEMMA AcceptKeepsInvariant ==
    ASSUME ServerInv, NEW g \in Starts, Accept(g)
    PROVE  ServerInv'
<1> DEFINE main == <<g, Main>>  table == fds[main]
<1>1. at[g] = "accept" /\ accepted' = [accepted EXCEPT ![g] = @ + 1]
  BY DEF Accept
<1>2. main \in Processes /\ table \in Tables /\ table[0] = Free
  BY <1>1, ProcessesOf DEF ServerInv, ServerTypeOK, Fine, ZeroIsFree
<1>3. Lowest(table) = 0
  <2> HIDE DEF table
  <2>1. 0 \in Fds /\ Fds \subseteq Nat
    BY FdsAreNumbers
  <2>2. Lowest(table) \in Fds /\ Lowest(table) <= 0
    BY <1>2, <2>1, LowestIsFree
  <2>3. Lowest(table) \in Nat
    BY <2>1, <2>2
  <2>4. \A m \in Nat : m <= 0 => m = 0
    OBVIOUS
  <2> QED  BY <2>2, <2>3, <2>4
<1>4. GoneLeaving(main, [backlog EXCEPT ![g] = @ - 1])
  BY <1>3 DEF Accept
<1> QED  BY <1>1, <1>2, <1>4, GoneKeepsInvariant

LEMMA AcceptFailsKeepsInvariant ==
    ASSUME ServerInv, NEW g \in Starts, AcceptFails(g)
    PROVE  ServerInv'
<1> USE DEF ServerInv
<1>1. /\ at[g] = "accept" /\ new_socket' = [new_socket EXCEPT ![g] = -1]
      /\ UNCHANGED <<alive, fds, at, i, server_fd, worker_sockets, backlog,
                     accepted>>
  BY DEF AcceptFails
<1>2. sent' = {}
  <2>1. -1 \notin Fds
    BY DEF Fds
  <2> QED  BY <2>1 DEF AcceptFails, send_fd
<1>3. ServerTypeOK'
  BY <1>1 DEF ServerTypeOK
<1>4. Fine(g)'
  BY <1>1 DEF Fine, NothingAccepted, Room, PairIsOpen, ZeroIsFree, HasOwnPair
<1>5. ASSUME NEW h \in Starts \ {g}  PROVE Fine(h)'
  BY <1>1, OthersStayFine DEF ServerTypeOK
<1> QED  BY <1>2, <1>3, <1>4, <1>5

LEMMA SameKeepsInvariant ==
    ASSUME ServerInv,
           UNCHANGED <<alive, fds, at, i, members, accepted, sent>>
    PROVE  ServerInv'
BY DEF ServerInv, ServerTypeOK, Fine, NothingAccepted, Room, PairIsOpen,
       ZeroIsFree, HasOwnPair, members

LEMMA ServerInvIsInductive == ServerInv /\ [Next]_vars => ServerInv'
<1> SUFFICES ASSUME ServerInv, [Next]_vars  PROVE ServerInv'
  OBVIOUS
<1>1. CASE UNCHANGED vars
  BY <1>1, SameKeepsInvariant DEF vars
<1>2. ASSUME NEW g \in Starts, Start(g) \/ MainStep(g)  PROVE ServerInv'
  BY <1>2, StartKeepsInvariant, SocketPairKeepsInvariant,
     ForkWorkerKeepsInvariant, ForkLoggerKeepsInvariant, AcceptKeepsInvariant
  DEF MainStep
<1>3. ASSUME NEW g \in Starts, AcceptFails(g)  PROVE ServerInv'
  BY <1>3, AcceptFailsKeepsInvariant
<1>4. ASSUME NEW g \in Starts, LoggerEnds(g)  PROVE ServerInv'
  BY <1>4, GoneKeepsInvariant, ProcessesOf DEF LoggerEnds, Gone
<1>5. ASSUME NEW g \in Starts, Connect(g)  PROVE ServerInv'
  BY <1>5, SameKeepsInvariant DEF Connect
<1>6. ASSUME NEW p \in Processes, Kill(p)  PROVE ServerInv'
  BY <1>6, GoneKeepsInvariant DEF Kill, Gone
<1> QED  BY <1>1, <1>2, <1>3, <1>4, <1>5, <1>6 DEF Next

LEMMA ServerInvAlways == Spec => []ServerInv
BY InitIsInvariant, ServerInvIsInductive, PTL DEF Spec

-------------------------------------------------------------------------------
(* The theorems *)

(***************************************************************************)
(* The loop `while ((new_socket = accept(...)))' of Server: no start       *)
(* accepts a second connection, and the one that accepted has ended.       *)
(***************************************************************************)
THEOREM ServerEndsAtFirstAccept == Spec => []OneAcceptPerStart
<1>1. ServerInv => OneAcceptPerStart
  BY DEF ServerInv, ServerTypeOK, Fine, NothingAccepted, OneAcceptPerStart
<1> QED  BY <1>1, ServerInvAlways, PTL

(***************************************************************************)
(* send_fd and recv_fd: nothing ever arrives at a worker, neither a        *)
(* descriptor nor the end of its pair, in every order of forks, failures   *)
(* and kills.  A worker that lives sleeps in recvmsg.                      *)
(***************************************************************************)
THEOREM WorkersNeverWake == Spec => []WorkersSleepOn
<1>1. ServerInv => WorkersSleepOn
  <2> SUFFICES ASSUME ServerInv, NEW g \in Starts, NEW w \in Workers,
                      <<g, w>> \in alive
               PROVE  IsOpen(Pair(g, w, 0), alive, fds)
    BY DEF ServerInv, WorkersSleepOn
  <2>1. Has(fds[<<g, w>>], Pair(g, w, 0))
    BY DEF ServerInv, Fine, HasOwnPair
  <2> QED  BY <2>1 DEF Has, IsOpen
<1> QED  BY <1>1, ServerInvAlways, PTL
===============================================================================
