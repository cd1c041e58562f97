-------------------------- MODULE WebservLoopProofs --------------------------
(***************************************************************************)
(* Proofs about WebservLoop for every set of clients, every number of      *)
(* descriptors, whatever descriptor FD_SET(-1) marks and whether or not    *)
(* accepted sockets block.                                                 *)
(***************************************************************************)
EXTENDS WebservLoop, SequenceTheorems, TLAPS

USE CarefulAssumption, MaxFdAssumption, NoOneAssumption, StrayAssumption

----------------------------------------------------------------------------
(* Types *)

LEMMA Descriptors ==
    /\ sock_server \in Fd /\ ClientFd \subseteq Fd /\ sock_server \notin ClientFd
    /\ \A f \in Fd : f + 1 \in 0 .. Past
    /\ 0 \in 0 .. Past /\ Past \in 0 .. Past
  BY DEF sock_server, Fd, ClientFd, NeverOpen, Past

LEMMA ClientObjects ==
    /\ Empty \in Responses
    /\ Absent \in [socket_mod : {"absent", "READ_M", "WRITE_M"}, response : Responses]
    /\ NewClient \in [socket_mod : {"absent", "READ_M", "WRITE_M"}, response : Responses]
  BY DEF Empty, Response, Responses, Asks, Absent, NewClient

LEMMA DropTypes ==
    ASSUME TypeOK, NEW f \in Fd, Drop(f)
    PROVE  /\ cpy_readfds' \subseteq Fd /\ cpy_writefds' \subseteq ClientFd
           /\ map_clients' \in [ClientFd -> [socket_mod : {"absent", "READ_M", "WRITE_M"},
                                             response : Responses]]
           /\ conn' \in [ClientFd -> Client \cup {NoOne}]
           /\ hungup' \subseteq Client
<1>1. cpy_readfds' \subseteq Fd /\ cpy_writefds' \subseteq ClientFd
  BY DEF TypeOK, Drop
<1>2. CASE f \in ClientFd
  <2>1. map_clients' \in [ClientFd -> [socket_mod : {"absent", "READ_M", "WRITE_M"},
                                       response : Responses]]
    BY <1>2, ClientObjects DEF TypeOK, Drop
  <2>2. conn' \in [ClientFd -> Client \cup {NoOne}]
    BY <1>2 DEF TypeOK, Drop
  <2>3. hungup' \subseteq Client
    BY <1>2 DEF TypeOK, Drop
  <2> QED
    BY <1>1, <2>1, <2>2, <2>3
<1>3. CASE f \notin ClientFd
  BY <1>1, <1>3 DEF TypeOK, Drop
<1> QED
  BY <1>2, <1>3

\* Whether the connection is closed after a response: only when the last header of
\* its request asked for it.
Ends(r) == r.asks = "last"

LEMMA SendEither ==
    ASSUME TypeOK, NEW f \in Fd, Send(f)
    PROVE  \/ Ends(map_clients[f].response) /\ Drop(f)
           \/ /\ ~Ends(map_clients[f].response)
              /\ cpy_writefds' = cpy_writefds \ {f}
              /\ cpy_readfds' = cpy_readfds \cup {f}
              /\ map_clients' = [map_clients EXCEPT ![f].socket_mod = "READ_M"]
              /\ UNCHANGED <<conn, hungup>>
<1> DEFINE asks == map_clients[f].response.asks
<1>1. asks \in Asks
  BY DEF Send, Writes, TypeOK, Responses
<1>2. getConnection(asks) = "close" <=> asks = "last"
  <2> HIDE DEF asks
  <2>1. /\ getConnection("nothing") # "close" /\ getConnection("earlier") # "close"
        /\ getConnection("last") = "close"
    BY DEF getConnection
  <2> QED BY <1>1, <2>1 DEF Asks
<1> QED
  BY <1>2 DEF Send, Ends

LEMMA PreparedType ==
    ASSUME NEW c \in Client, NEW request \in Seq(Pieces)
    PROVE  Prepared(c, request) \in Responses
<1>1. CASE Len(request) >= 2
  <2>1. request[1] \in Pieces
    BY <1>1
  <2> QED
    BY <2>1 DEF Prepared, Response, Responses, Asks, Pieces
<1>2. CASE ~(Len(request) >= 2)
  BY <1>2 DEF Prepared, Response, Responses, Asks
<1> QED
  BY <1>1, <1>2

LEMMA TypeServer == TypeOK /\ Server => TypeOK'
<1> SUFFICES ASSUME TypeOK, Server PROVE TypeOK'
  OBVIOUS
<1> USE Descriptors DEF net, pass, books
<1>1. CASE Select
  BY <1>1 DEF Select, TypeOK
<1>2. CASE Accept
  <2>1. PICK c \in backlog, f \in ClientFd :
            /\ backlog' = backlog \ {c}
            /\ conn' = [conn EXCEPT ![f] = c]
            /\ cpy_readfds' = cpy_readfds \cup {f}
            /\ map_clients' = [map_clients EXCEPT ![f] = IF @ = Absent THEN NewClient ELSE @]
    BY <1>2 DEF Accept
  <2>2. map_clients' \in [ClientFd -> [socket_mod : {"absent", "READ_M", "WRITE_M"},
                                       response : Responses]]
    BY <2>1, ClientObjects DEF TypeOK
  <2> QED
    BY <1>2, <2>1, <2>2 DEF Accept, Visits, TypeOK
<1>3. CASE AcceptFails
  BY <1>3 DEF AcceptFails, Visits, TypeOK
<1>4. ASSUME NEW f \in Fd, RecvEnds(f) PROVE TypeOK'
  BY <1>4, DropTypes DEF RecvEnds, Visits, TypeOK
<1>5. ASSUME NEW f \in Fd, Recv(f) PROVE TypeOK'
  <2> DEFINE c == conn[f]
  <2>1. f \in ClientFd /\ c \in Client
    BY <1>5 DEF Recv, TypeOK
  <2>2. PICK n \in 1 .. Len(wire[c]) :
            /\ wire' = [wire EXCEPT ![c] = SubSeq(@, n + 1, Len(@))]
            /\ map_clients' = [map_clients EXCEPT ![f] =
                  [socket_mod |-> "WRITE_M",
                   response |-> Prepared(c, SubSeq(wire[c], 1, n))]]
    BY <1>5 DEF Recv
  <2>3. wire[c] \in Seq(Pieces)
    BY <2>1 DEF TypeOK
  <2>4. SubSeq(wire[c], 1, n) \in Seq(Pieces)
    BY <2>3, SubSeqProperties
  <2>5. SubSeq(wire[c], n + 1, Len(wire[c])) \in Seq(Pieces)
    BY <2>3, SubSeqProperties
  <2>6. Prepared(c, SubSeq(wire[c], 1, n)) \in Responses
    BY <2>1, <2>4, PreparedType
  <2>7. wire' \in [Client -> Seq(Pieces)]
    BY <2>1, <2>2, <2>5 DEF TypeOK
  <2>8. map_clients' \in [ClientFd -> [socket_mod : {"absent", "READ_M", "WRITE_M"},
                                       response : Responses]]
    BY <2>1, <2>2, <2>6 DEF TypeOK
  <2> QED
    BY <1>5, <2>1, <2>7, <2>8 DEF Recv, Visits, TypeOK
<1>6. ASSUME NEW f \in Fd, Send(f) PROVE TypeOK'
  <2>1. f \in ClientFd /\ conn[f] \in Client /\ i' = f + 1 /\ UNCHANGED <<pass, net>>
    BY <1>6 DEF Send, Writes, Visits, TypeOK
  <2>2. map_clients[f].response \in Responses
    BY <2>1 DEF TypeOK
  <2>3. answers' \in [Client -> Seq(Responses)]
    <3>1. answers[conn[f]] \in Seq(Responses)
      BY <2>1 DEF TypeOK
    <3>2. Append(answers[conn[f]], map_clients[f].response) \in Seq(Responses)
      BY <2>2, <3>1
    <3> QED
      BY <1>6, <2>1, <3>2 DEF Send, TypeOK
  <2>4. CASE Ends(map_clients[f].response)
    <3>1. Drop(f)
      BY <1>6, <2>4, SendEither
    <3> QED
      BY <2>1, <2>3, <3>1, DropTypes DEF TypeOK
  <2>5. CASE ~Ends(map_clients[f].response)
    <3>1. /\ cpy_writefds' = cpy_writefds \ {f}
          /\ cpy_readfds' = cpy_readfds \cup {f}
          /\ map_clients' = [map_clients EXCEPT ![f].socket_mod = "READ_M"]
          /\ UNCHANGED <<conn, hungup>>
      BY <1>6, <2>5, SendEither
    <3> QED
      BY <2>1, <2>3, <3>1, ZenonT(30) DEF TypeOK
  <2> QED
    BY <2>4, <2>5
<1>7. ASSUME NEW f \in Fd, SendFails(f) PROVE TypeOK'
  BY <1>7, DropTypes DEF SendFails, Writes, Visits, TypeOK
<1> QED
  BY <1>1, <1>2, <1>3, <1>4, <1>5, <1>6, <1>7 DEF Server

LEMMA TypeEnvironment == TypeOK /\ Environment => TypeOK'
<1> SUFFICES ASSUME TypeOK, NEW c \in Client, Connect(c) \/ SendRequest(c) \/ Close(c)
             PROVE  TypeOK'
  BY DEF Environment
<1> USE DEF pass, books
<1>1. CASE Connect(c)
  BY <1>1 DEF Connect, TypeOK
<1>2. CASE SendRequest(c)
  <2>1. PICK asks \in Asks :
            wire' = [wire EXCEPT ![c] =
                        @ \o <<Piece(sent'[c], "header", asks), Piece(sent'[c], "rest", asks)>>]
    BY <1>2 DEF SendRequest
  <2>2. sent' \in [Client -> Nat]
    BY <1>2 DEF SendRequest, TypeOK
  <2>3. /\ Piece(sent'[c], "header", asks) \in Pieces
        /\ Piece(sent'[c], "rest", asks) \in Pieces
    BY <2>2 DEF Piece, Pieces
  <2>4. wire' \in [Client -> Seq(Pieces)]
    <3>1. <<Piece(sent'[c], "header", asks), Piece(sent'[c], "rest", asks)>> \in Seq(Pieces)
      BY <2>3
    <3>2. wire[c] \in Seq(Pieces)
      BY DEF TypeOK
    <3>3. wire[c] \o <<Piece(sent'[c], "header", asks), Piece(sent'[c], "rest", asks)>>
             \in Seq(Pieces)
      BY <3>1, <3>2, ConcatProperties
    <3> QED
      BY <2>1, <3>3 DEF TypeOK
  <2> QED
    BY <1>2, <2>2, <2>4 DEF SendRequest, TypeOK
<1>3. CASE Close(c)
  BY <1>3 DEF Close, TypeOK
<1> QED
  BY <1>1, <1>2, <1>3

LEMMA TypeKept == TypeOK /\ [Next]_vars => TypeOK'
<1>1. TypeOK /\ UNCHANGED vars => TypeOK'
  BY DEF TypeOK, vars, books, pass, net
<1> QED
  BY <1>1, TypeServer, TypeEnvironment DEF Next

\* Every variable keeps its type.
THEOREM TypeCorrect == Spec => []TypeOK
<1>1. Init => TypeOK
  BY Descriptors, ClientObjects DEF Init, TypeOK
<1> QED
  BY <1>1, TypeKept, PTL DEF Spec

----------------------------------------------------------------------------
(* The books *)

\* A Client object is there exactly when its mode says so: what BooksAgree
\* needs to be inductive, besides the types.
BooksInv ==
    /\ TypeOK
    /\ \A f \in ClientFd : map_clients[f].socket_mod = "absent" => map_clients[f] = Absent
    /\ BooksAgree

LEMMA Modes == Absent.socket_mod = "absent" /\ NewClient.socket_mod = "READ_M"
  BY DEF Absent, NewClient

\* The part of BooksAgree about one descriptor.
Agrees(f) ==
    /\ f \in cpy_readfds <=> map_clients[f].socket_mod = "READ_M"
    /\ f \in cpy_writefds <=> map_clients[f].socket_mod = "WRITE_M"
    /\ map_clients[f] = Absent <=> conn[f] = NoOne

Ahead ==
    \A f \in Fd \ {Stray} :
        i <= f => /\ f \in readfds => f \in cpy_readfds
                  /\ f \in writefds => f \in cpy_writefds

LEMMA BooksParts == BooksAgree <=> Ahead /\ \A f \in ClientFd \ {Stray} : Agrees(f)
  BY DEF BooksAgree, Agrees, Ahead

\* Nothing ahead of the loop goes stale when only descriptor f changes.
LEMMA AheadKept ==
    ASSUME Ahead, NEW f \in Fd, i' = f + 1, i <= f, UNCHANGED pass,
           i \in 0 .. Past,
           \A g \in Fd : g # f => /\ g \in cpy_readfds => g \in cpy_readfds'
                                  /\ g \in cpy_writefds => g \in cpy_writefds'
    PROVE  Ahead'
<1> SUFFICES ASSUME NEW g \in Fd \ {Stray}, i' <= g
             PROVE  /\ g \in readfds' => g \in cpy_readfds'
                    /\ g \in writefds' => g \in cpy_writefds'
  BY DEF Ahead
<1>1. g # f /\ i <= g
  BY DEF Fd, NeverOpen, Past
<1> QED
  BY <1>1 DEF Ahead, pass

LEMMA DropBooks ==
    ASSUME BooksInv, NEW f \in Fd, Drop(f), i' = f + 1, i <= f, UNCHANGED pass, TypeOK'
    PROVE  BooksInv'
<1>1. /\ cpy_readfds' = cpy_readfds \ {f}
      /\ cpy_writefds' = cpy_writefds \ {f}
  BY DEF Drop
<1>2. Ahead'
  BY <1>1, AheadKept, BooksParts DEF BooksInv, TypeOK
<1>3. CASE f \in ClientFd
  <2>1. /\ map_clients' = [map_clients EXCEPT ![f] = Absent]
        /\ conn' = [conn EXCEPT ![f] = NoOne]
    BY <1>3 DEF Drop
  <2>2. \A g \in ClientFd : map_clients'[g] = IF g = f THEN Absent ELSE map_clients[g]
    BY <2>1 DEF BooksInv, TypeOK
  <2>3. \A g \in ClientFd : conn'[g] = IF g = f THEN NoOne ELSE conn[g]
    BY <2>1 DEF BooksInv, TypeOK
  <2>4. ASSUME NEW g \in ClientFd \ {Stray} PROVE Agrees(g)'
    <3>1. CASE g = f
      BY <1>1, <2>2, <2>3, <3>1, Modes DEF Agrees
    <3>2. CASE g # f
      BY <1>1, <2>2, <2>3, <3>2, BooksParts DEF BooksInv, Agrees
    <3> QED
      BY <3>1, <3>2
  <2>5. \A g \in ClientFd : map_clients'[g].socket_mod = "absent" => map_clients'[g] = Absent
    BY <2>2 DEF BooksInv
  <2> QED
    BY <1>2, <2>4, <2>5, BooksParts DEF BooksInv, BooksAgree, Agrees, Ahead
<1>4. CASE f \notin ClientFd
  <2>1. UNCHANGED <<map_clients, conn>>
    BY <1>4 DEF Drop
  <2>2. \A g \in ClientFd \ {Stray} : Agrees(g)'
    BY <1>1, <1>4, <2>1, BooksParts DEF BooksInv, Agrees
  <2> QED
    BY <1>2, <2>1, <2>2 DEF BooksInv, BooksAgree, Agrees, Ahead
<1> QED
  BY <1>3, <1>4

\* A handler that gives descriptor f another mode keeps the books.
LEMMA ModeBooks ==
    ASSUME BooksInv, TypeOK', NEW f \in ClientFd, NEW mode \in {"READ_M", "WRITE_M"},
           i' = f + 1, i <= f, UNCHANGED <<pass, conn>>,
           conn[f] # NoOne,
           cpy_readfds' = IF mode = "READ_M" THEN cpy_readfds \cup {f} ELSE cpy_readfds \ {f},
           cpy_writefds' = IF mode = "WRITE_M" THEN cpy_writefds \cup {f} ELSE cpy_writefds \ {f},
           \A g \in ClientFd : g # f => map_clients'[g] = map_clients[g],
           map_clients'[f].socket_mod = mode
    PROVE  BooksInv'
<1> USE Descriptors
<1>1. Ahead'
  BY AheadKept, BooksParts DEF BooksInv, TypeOK
<1>2. map_clients'[f] # Absent
  BY Modes
<1>3. ASSUME NEW g \in ClientFd \ {Stray} PROVE Agrees(g)'
  <2>1. CASE g = f
    BY <1>2, <2>1 DEF Agrees
  <2>2. CASE g # f
    BY <2>2, BooksParts DEF BooksInv, Agrees
  <2> QED
    BY <2>1, <2>2
<1>4. \A g \in ClientFd : map_clients'[g].socket_mod = "absent" => map_clients'[g] = Absent
  BY DEF BooksInv
<1> QED
  BY <1>1, <1>3, <1>4 DEF BooksInv, BooksAgree, Agrees, Ahead

LEMMA BooksServer == BooksInv /\ Server => BooksInv'
<1> SUFFICES ASSUME BooksInv, Server PROVE BooksInv'
  OBVIOUS
<1> USE Descriptors
<1>t. TypeOK /\ TypeOK'
  BY TypeServer DEF BooksInv
<1>1. CASE Select
  <2>1. UNCHANGED <<cpy_readfds, cpy_writefds, map_clients, conn>>
    BY <1>1 DEF Select, books
  <2>2. Ahead'
    BY <1>1, <2>1 DEF Select, Ahead
  <2>3. \A f \in ClientFd \ {Stray} : Agrees(f)'
    BY <2>1, BooksParts DEF BooksInv, Agrees
  <2> QED
    BY <1>t, <2>1, <2>2, <2>3 DEF BooksInv, BooksAgree, Agrees, Ahead
<1>2. CASE Accept
  <2>1. PICK c \in backlog, f \in ClientFd :
            /\ conn[f] = NoOne
            /\ conn' = [conn EXCEPT ![f] = c]
            /\ cpy_readfds' = cpy_readfds \cup {f}
            /\ map_clients' = [map_clients EXCEPT ![f] = IF @ = Absent THEN NewClient ELSE @]
    BY <1>2 DEF Accept
  <2>2. /\ i' = sock_server + 1 /\ i <= sock_server
        /\ UNCHANGED pass /\ UNCHANGED cpy_writefds
    BY <1>2 DEF Accept, Visits
  <2>3. Ahead'
    BY <1>t, <2>1, <2>2, AheadKept, BooksParts DEF BooksInv, TypeOK
  <2>4. \A g \in ClientFd : conn'[g] = IF g = f THEN c ELSE conn[g]
    BY <1>t, <2>1 DEF TypeOK
  <2>5. \A g \in ClientFd : map_clients'[g] =
            IF g = f /\ map_clients[f] = Absent THEN NewClient ELSE map_clients[g]
    BY <1>t, <2>1 DEF TypeOK
  <2>6. c # NoOne
    BY <1>t, <2>1 DEF TypeOK
  <2>7. ASSUME NEW g \in ClientFd \ {Stray} PROVE Agrees(g)'
    <3>1. CASE g = f
      <4>1. Agrees(f)
        BY <3>1, <2>7, BooksParts DEF BooksInv
      <4>2. map_clients[f] = Absent /\ f \notin cpy_writefds
        BY <2>1, <4>1, Modes DEF Agrees
      <4> QED
        BY <2>1, <2>2, <2>4, <2>5, <2>6, <3>1, <4>2, Modes DEF Agrees
    <3>2. CASE g # f
      BY <2>1, <2>2, <2>4, <2>5, <3>2, BooksParts DEF BooksInv, Agrees
    <3> QED
      BY <3>1, <3>2
  <2>8. \A g \in ClientFd : map_clients'[g].socket_mod = "absent" => map_clients'[g] = Absent
    BY <2>5, Modes DEF BooksInv
  <2> QED
    BY <1>t, <2>3, <2>7, <2>8 DEF BooksInv, BooksAgree, Agrees, Ahead
<1>3. CASE AcceptFails
  <2>1. /\ i' = sock_server + 1 /\ i <= sock_server
        /\ UNCHANGED <<pass, cpy_writefds, map_clients, conn>>
        /\ cpy_readfds' = cpy_readfds \cup {Stray}
    BY <1>3 DEF AcceptFails, Visits
  <2>2. Ahead'
    BY <1>t, <2>1, AheadKept, BooksParts DEF BooksInv, TypeOK
  <2>3. \A f \in ClientFd \ {Stray} : Agrees(f)'
    BY <2>1, BooksParts DEF BooksInv, Agrees
  <2> QED
    BY <1>t, <2>1, <2>2, <2>3 DEF BooksInv, BooksAgree, Agrees, Ahead
<1>4. ASSUME NEW f \in Fd, RecvEnds(f) PROVE BooksInv'
  BY <1>t, <1>4, DropBooks DEF RecvEnds, Visits
<1>5. ASSUME NEW f \in Fd, Recv(f) PROVE BooksInv'
  <2> DEFINE c == conn[f]
  <2>1. f \in ClientFd /\ conn[f] # NoOne /\ UNCHANGED <<pass, conn>> /\ i' = f + 1 /\ i <= f
    BY <1>5 DEF Recv, Visits
  <2>2. PICK n \in 1 .. Len(wire[c]) :
            map_clients' = [map_clients EXCEPT ![f] =
                  [socket_mod |-> "WRITE_M",
                   response |-> Prepared(c, SubSeq(wire[c], 1, n))]]
    BY <1>5 DEF Recv
  <2>3. /\ map_clients'[f].socket_mod = "WRITE_M"
        /\ \A g \in ClientFd : g # f => map_clients'[g] = map_clients[g]
    BY <1>t, <2>1, <2>2 DEF TypeOK
  <2>4. /\ cpy_readfds' = cpy_readfds \ {f}
        /\ cpy_writefds' = cpy_writefds \cup {f}
    BY <1>5 DEF Recv
  <2> QED
    BY <1>t, <2>1, <2>3, <2>4, ModeBooks
<1>6. ASSUME NEW f \in Fd, Send(f) PROVE BooksInv'
  <2>1. f \in ClientFd /\ conn[f] # NoOne /\ UNCHANGED pass /\ i' = f + 1 /\ i <= f
    BY <1>6 DEF Send, Writes, Visits
  <2>2. CASE Ends(map_clients[f].response)
    BY <1>t, <1>6, <2>1, <2>2, SendEither, DropBooks
  <2>3. CASE ~Ends(map_clients[f].response)
    <3>1. /\ cpy_writefds' = cpy_writefds \ {f}
          /\ cpy_readfds' = cpy_readfds \cup {f}
          /\ map_clients' = [map_clients EXCEPT ![f].socket_mod = "READ_M"]
          /\ UNCHANGED conn
      BY <1>t, <1>6, <2>3, SendEither
    <3>2. /\ map_clients'[f].socket_mod = "READ_M"
          /\ \A g \in ClientFd : g # f => map_clients'[g] = map_clients[g]
      BY <1>t, <2>1, <3>1 DEF TypeOK
    <3> QED
      BY <1>t, <2>1, <3>1, <3>2, ModeBooks
  <2> QED
    BY <2>2, <2>3
<1>7. ASSUME NEW f \in Fd, SendFails(f) PROVE BooksInv'
  BY <1>t, <1>7, DropBooks DEF SendFails, Writes, Visits
<1> QED
  BY <1>1, <1>2, <1>3, <1>4, <1>5, <1>6, <1>7 DEF Server

\* The sets, the map of clients and the open descriptors agree at every step.
THEOREM BooksAlwaysAgree == Spec => []BooksAgree
<1>1. Init => BooksInv
  <2>1. Init => TypeOK
    BY Descriptors, ClientObjects DEF Init, TypeOK
  <2> QED
    BY <2>1, Descriptors, Modes DEF Init, BooksInv, BooksAgree, Past, Fd
<1>2. BooksInv /\ [Next]_vars => BooksInv'
  <2> SUFFICES ASSUME BooksInv, [Next]_vars PROVE BooksInv'
    OBVIOUS
  <2>1. CASE Server
    BY <2>1, BooksServer
  <2>2. CASE Environment
    <3>1. UNCHANGED <<books, pass, i>>
      BY <2>2 DEF Environment, Connect, SendRequest, Close
    <3>2. TypeOK'
      BY <2>2, TypeEnvironment DEF BooksInv
    <3> QED
      BY <3>1, <3>2 DEF books, pass, BooksInv, BooksAgree
  <2>3. CASE UNCHANGED vars
    BY <2>3 DEF vars, books, pass, net, BooksInv, BooksAgree, TypeOK
  <2> QED
    BY <2>1, <2>2, <2>3 DEF Next
<1>3. BooksInv => BooksAgree
  BY DEF BooksInv
<1> QED
  BY <1>1, <1>2, <1>3, PTL DEF Spec
----------------------------------------------------------------------------
(* Hanging up *)

\* A connection is in one place at most: waiting, behind one descriptor, or
\* closed by the server.
Separate ==
    /\ \A f, g \in ClientFd : conn[f] = conn[g] /\ conn[f] # NoOne => f = g
    /\ \A f \in ClientFd : conn[f] \notin backlog /\ conn[f] \notin hungup
    /\ \A c \in hungup : c \notin backlog

LEMMA ConnAfterDrop ==
    ASSUME TypeOK, NEW f \in Fd, Drop(f)
    PROVE  /\ \A g \in ClientFd : conn'[g] = IF g = f THEN NoOne ELSE conn[g]
           /\ f \in ClientFd /\ conn[f] # NoOne => hungup' = hungup \cup {conn[f]}
           /\ ~(f \in ClientFd /\ conn[f] # NoOne) => hungup' = hungup
<1>1. CASE f \in ClientFd
  BY <1>1 DEF Drop, TypeOK
<1>2. CASE f \notin ClientFd
  BY <1>2 DEF Drop
<1> QED
  BY <1>1, <1>2

LEMMA DropSeparates ==
    ASSUME TypeOK, Separate, NEW f \in Fd, Drop(f), UNCHANGED backlog
    PROVE  Separate'
<1>1. NoOne \notin backlog /\ NoOne \notin hungup
  BY DEF TypeOK
<1> QED
  BY <1>1, ConnAfterDrop DEF Separate

LEMMA StaysSeparate == TypeOK /\ Separate /\ [Next]_vars => Separate'
<1> SUFFICES ASSUME TypeOK, Separate, [Next]_vars PROVE Separate'
  OBVIOUS
<1>0. NoOne \notin backlog /\ NoOne \notin hungup
  BY DEF TypeOK
<1>1. CASE UNCHANGED <<conn, backlog, hungup>>
  BY <1>1 DEF Separate
<1>2. ASSUME NEW c \in Client, Connect(c) PROVE Separate'
  BY <1>0, <1>2 DEF Connect, Used, Separate, books
<1>3. CASE Accept
  <2>1. PICK c \in backlog, f \in ClientFd :
            /\ backlog' = backlog \ {c}
            /\ conn' = [conn EXCEPT ![f] = c]
            /\ UNCHANGED hungup
    BY <1>3 DEF Accept
  <2>2. \A g \in ClientFd : conn'[g] = IF g = f THEN c ELSE conn[g]
    BY <2>1 DEF TypeOK
  <2> QED
    BY <1>0, <2>1, <2>2 DEF Separate
<1>4. ASSUME NEW f \in Fd, RecvEnds(f) \/ SendFails(f) PROVE Separate'
  BY <1>4, DropSeparates DEF RecvEnds, SendFails, net
<1>5. ASSUME NEW f \in Fd, Send(f) PROVE Separate'
  <2>1. Drop(f) \/ UNCHANGED <<conn, hungup>>
    BY <1>5 DEF Send
  <2>2. UNCHANGED backlog
    BY <1>5 DEF Send, net
  <2> QED
    BY <1>1, <2>1, <2>2, DropSeparates
<1>6. CASE Select \/ AcceptFails
  BY <1>1, <1>6 DEF Select, AcceptFails, books, net
<1>7. ASSUME NEW f \in Fd, Recv(f) PROVE Separate'
  BY <1>1, <1>7 DEF Recv
<1>8. ASSUME NEW c \in Client, SendRequest(c) \/ Close(c) PROVE Separate'
  BY <1>1, <1>8 DEF SendRequest, Close, books
<1>9. CASE UNCHANGED vars
  BY <1>1, <1>9 DEF vars, books, net
<1> QED
  BY <1>2, <1>3, <1>4, <1>5, <1>6, <1>7, <1>8, <1>9 DEF Next, Server, Environment

\* The reason for a closed connection stays: nothing is sent on it any more.
LEMMA ReasonsStay ==
    ASSUME HangsUpWithReason, gone \subseteq gone',
           \A c \in hungup : answers'[c] = answers[c],
           \A c \in hungup' \ hungup : ~Inherits =>
              c \in gone' \/ (answers'[c] # <<>> /\ Ends(answers'[c][Len(answers'[c])]))
    PROVE  HangsUpWithReason'
  BY DEF HangsUpWithReason, Ends

LEMMA ReasonKept ==
    TypeOK /\ Separate /\ HangsUpWithReason /\ [Next]_vars => HangsUpWithReason'
<1> SUFFICES ASSUME TypeOK, Separate, HangsUpWithReason, [Next]_vars
             PROVE  HangsUpWithReason'
  OBVIOUS
<1>1. CASE UNCHANGED <<hungup, answers>> /\ gone \subseteq gone'
  BY <1>1, ReasonsStay
<1>2. ASSUME NEW f \in Fd, RecvEnds(f) PROVE HangsUpWithReason'
  <2>1. UNCHANGED <<gone, answers>> /\ Drop(f)
    BY <1>2 DEF RecvEnds, net
  <2>2. ~Inherits /\ f \in ClientFd /\ conn[f] # NoOne => conn[f] \in gone
    BY <1>2 DEF RecvEnds, Open
  <2> QED
    BY <2>1, <2>2, ConnAfterDrop, ReasonsStay
<1>3. ASSUME NEW f \in Fd, SendFails(f) PROVE HangsUpWithReason'
  <2>1. UNCHANGED <<gone, answers>> /\ Drop(f) /\ conn[f] \in gone
    BY <1>3 DEF SendFails, net
  <2> QED
    BY <2>1, ConnAfterDrop, ReasonsStay
<1>4. ASSUME NEW f \in Fd, Send(f) PROVE HangsUpWithReason'
  <2> DEFINE c == conn[f]
             r == map_clients[f].response
  <2>1. /\ f \in ClientFd /\ c \in Client /\ UNCHANGED gone
        /\ answers' = [answers EXCEPT ![c] = Append(@, r)]
    BY <1>4 DEF Send, Writes, net, TypeOK
  <2>2. r \in Responses /\ answers[c] \in Seq(Responses)
    BY <2>1 DEF TypeOK
  <2>3. /\ answers'[c] = Append(answers[c], r)
        /\ \A d \in Client : d # c => answers'[d] = answers[d]
    BY <2>1 DEF TypeOK
  <2>4. answers'[c] # <<>> /\ answers'[c][Len(answers'[c])] = r
    BY <2>2, <2>3, AppendProperties
  <2>5. \A d \in hungup : answers'[d] = answers[d]
    BY <2>1, <2>3 DEF Separate, TypeOK
  <2>6. CASE Ends(r)
    <3>1. Drop(f)
      BY <1>4, <2>6, SendEither
    <3>2. hungup' \subseteq hungup \cup {c}
      BY <3>1, ConnAfterDrop
    <3> QED
      BY <2>1, <2>4, <2>5, <2>6, <3>2, ReasonsStay
  <2>7. CASE ~Ends(r)
    <3>1. UNCHANGED hungup
      BY <1>4, <2>7, SendEither
    <3> QED
      BY <2>1, <2>5, <3>1, ReasonsStay
  <2> QED
    BY <2>6, <2>7
<1>5. CASE Select \/ Accept \/ AcceptFails
  BY <1>1, <1>5 DEF Select, Accept, AcceptFails, books, net
<1>6. ASSUME NEW f \in Fd, Recv(f) PROVE HangsUpWithReason'
  BY <1>1, <1>6 DEF Recv
<1>7. CASE Environment
  BY <1>1, <1>7 DEF Environment, Connect, SendRequest, Close, books
<1>8. CASE UNCHANGED vars
  BY <1>1, <1>8 DEF vars, books, net
<1> QED
  BY <1>2, <1>3, <1>4, <1>5, <1>6, <1>7, <1>8 DEF Next, Server

\* Sockets that block are closed only with a reason.
THEOREM ClosesWithReason == Spec => []HangsUpWithReason
<1>1. Init => Separate /\ HangsUpWithReason
  BY DEF Init, Separate, HangsUpWithReason
<1>2. TypeOK /\ Separate /\ HangsUpWithReason /\ [Next]_vars
         => (Separate /\ HangsUpWithReason)'
  BY StaysSeparate, ReasonKept
<1> QED
  BY <1>1, <1>2, TypeCorrect, PTL DEF Spec
----------------------------------------------------------------------------
(* Answers *)

\* Whether a descriptor is written to depends on its object alone, whatever
\* FD_SET(-1) marks.
WritesRight ==
    /\ \A f \in ClientFd :
          /\ f \in cpy_writefds <=> map_clients[f].socket_mod = "WRITE_M"
          /\ map_clients[f].socket_mod = "absent" <=> conn[f] = NoOne
          /\ map_clients[f].socket_mod = "absent" => map_clients[f] = Absent
    /\ \A f \in ClientFd : i <= f /\ f \in writefds => f \in cpy_writefds

Alive(c) == c \in backlog \/ \E f \in ClientFd : conn[f] = c
Writing(f) == map_clients[f].socket_mod = "WRITE_M"
Pending(f) == map_clients[f].response

\* A connection not made yet has nothing.
Fresh(c) ==
    ~Alive(c) /\ c \notin hungup => sent[c] = 0 /\ wire[c] = <<>> /\ answers[c] = <<>>

\* The pieces on the wire are in the order in which they were sent.
WireInOrder(c) ==
    \A k \in 1 .. Len(wire[c]) :
        /\ wire[c][k].req \in 1 .. sent[c]
        /\ wire[c][k].part = "header" =>
              \A j \in 1 .. k - 1 : wire[c][j].req < wire[c][k].req

\* The answers are to requests before those that are still on the wire.
AnswersInOrder(c) ==
    \A m \in 1 .. Len(answers[c]) :
        /\ answers[c][m].of = c
        /\ answers[c][m].req \in 0 .. sent[c]
        /\ answers[c][m].req # 0 =>
              \A k \in 1 .. m - 1 : answers[c][k].req < answers[c][m].req
        /\ \A k \in 1 .. Len(wire[c]) :
              wire[c][k].part = "header" => answers[c][m].req < wire[c][k].req

\* A connection is not written to after the answer to a request that asks to close.
NoneAfterClose(c) ==
    /\ \A m \in 1 .. Len(answers[c]) : \A k \in 1 .. m - 1 : ~Ends(answers[c][k])
    /\ Alive(c) => \A m \in 1 .. Len(answers[c]) : ~Ends(answers[c][m])

\* A prepared response comes between the answers and the wire.
PendingInOrder(f) ==
    Writing(f) =>
        /\ Pending(f).of = conn[f]
        /\ Pending(f).req \in 0 .. sent[conn[f]]
        /\ Pending(f).req # 0 =>
              \A m \in 1 .. Len(answers[conn[f]]) : answers[conn[f]][m].req < Pending(f).req
        /\ \A k \in 1 .. Len(wire[conn[f]]) :
              wire[conn[f]][k].part = "header" => Pending(f).req < wire[conn[f]][k].req

\* A careful client has at most one request under way: on the wire, or its
\* answer prepared.
Busy(c) == wire[c] # <<>> \/ \E f \in ClientFd : conn[f] = c /\ Writing(f)

OneAtATime(c) ==
    /\ \A m \in 1 .. Len(answers[c]) : answers[c][m].req = m
    /\ wire[c] # <<>> =>
          Len(wire[c]) = 2 /\ wire[c][1].part = "header" /\ wire[c][1].req = sent[c]
    /\ \A f \in ClientFd :
          conn[f] = c /\ Writing(f) => wire[c] = <<>> /\ Pending(f).req = sent[c]
    /\ Alive(c) => Len(answers[c]) = IF Busy(c) THEN sent[c] - 1 ELSE sent[c]

ClientInv(c) ==
    /\ Fresh(c) /\ WireInOrder(c) /\ AnswersInOrder(c) /\ NoneAfterClose(c)
    /\ c \in Careful => OneAtATime(c)

AnswersInv ==
    /\ TypeOK /\ Separate /\ WritesRight
    /\ \A c \in Client : ClientInv(c)
    /\ \A f \in ClientFd : PendingInOrder(f)

LEMMA MapAfterDrop ==
    ASSUME TypeOK, NEW f \in Fd, Drop(f)
    PROVE  \A g \in ClientFd : map_clients'[g] = IF g = f THEN Absent ELSE map_clients[g]
<1>1. CASE f \in ClientFd
  BY <1>1 DEF Drop, TypeOK
<1>2. CASE f \notin ClientFd
  BY <1>2 DEF Drop
<1> QED
  BY <1>1, <1>2

LEMMA DropWrites ==
    ASSUME TypeOK, WritesRight, NEW f \in Fd, Drop(f), i' = f + 1, i <= f, UNCHANGED pass
    PROVE  WritesRight'
<1>1. cpy_writefds' = cpy_writefds \ {f}
  BY DEF Drop
<1>2. \A g \in ClientFd : i' <= g => g # f /\ i <= g
  BY DEF TypeOK, Fd, ClientFd, NeverOpen, Past
<1> QED
  BY <1>1, <1>2, ConnAfterDrop, MapAfterDrop, Modes DEF WritesRight, pass

LEMMA WritesStay == TypeOK /\ WritesRight /\ [Next]_vars => WritesRight'
<1> SUFFICES ASSUME TypeOK, WritesRight, [Next]_vars PROVE WritesRight'
  OBVIOUS
<1> USE Descriptors
<1>0. ASSUME NEW f \in Fd, i' = f + 1, i <= f
      PROVE  \A g \in ClientFd : i' <= g => g # f /\ i <= g
  BY <1>0 DEF TypeOK, Fd, ClientFd, NeverOpen, Past
<1>1. CASE Select
  BY <1>1 DEF Select, books, WritesRight
<1>2. CASE Accept
  <2>1. PICK c \in backlog, f \in ClientFd :
            /\ conn[f] = NoOne
            /\ conn' = [conn EXCEPT ![f] = c]
            /\ map_clients' = [map_clients EXCEPT ![f] = IF @ = Absent THEN NewClient ELSE @]
    BY <1>2 DEF Accept
  <2>2. \A g \in ClientFd : conn'[g] = IF g = f THEN c ELSE conn[g]
    BY <2>1 DEF TypeOK
  <2>3. \A g \in ClientFd : map_clients'[g] = IF g = f THEN NewClient ELSE map_clients[g]
    BY <2>1 DEF TypeOK, WritesRight
  <2>4. c # NoOne
    BY <2>1 DEF TypeOK
  <2>5. i' = sock_server + 1 /\ i <= sock_server /\ UNCHANGED <<pass, cpy_writefds>>
    BY <1>2 DEF Accept, Visits
  <2> QED
    BY <1>0, <2>1, <2>2, <2>3, <2>4, <2>5, Modes DEF WritesRight, pass
<1>3. CASE AcceptFails
  <2>1. /\ i' = sock_server + 1 /\ i <= sock_server
        /\ UNCHANGED <<pass, cpy_writefds, map_clients, conn>>
    BY <1>3 DEF AcceptFails, Visits
  <2> QED
    BY <1>0, <2>1 DEF WritesRight, pass
<1>4. ASSUME NEW f \in Fd, RecvEnds(f) \/ SendFails(f) PROVE WritesRight'
  BY <1>4, DropWrites DEF RecvEnds, SendFails, Writes, Visits
<1>5. ASSUME NEW f \in Fd, Recv(f) PROVE WritesRight'
  <2>1. /\ f \in ClientFd /\ conn[f] # NoOne /\ UNCHANGED <<pass, conn>> /\ i' = f + 1 /\ i <= f
        /\ cpy_writefds' = cpy_writefds \cup {f}
    BY <1>5 DEF Recv, Visits
  <2>2. PICK r : map_clients' = [map_clients EXCEPT ![f] =
                                    [socket_mod |-> "WRITE_M", response |-> r]]
    BY <1>5 DEF Recv
  <2>3. \A g \in ClientFd : map_clients'[g].socket_mod =
            IF g = f THEN "WRITE_M" ELSE map_clients[g].socket_mod
    BY <2>2 DEF TypeOK
  <2>4. \A g \in ClientFd : g # f => map_clients'[g] = map_clients[g]
    BY <2>2 DEF TypeOK
  <2> QED
    BY <1>0, <2>1, <2>3, <2>4 DEF WritesRight, pass
<1>6. ASSUME NEW f \in Fd, Send(f) PROVE WritesRight'
  <2>1. f \in ClientFd /\ conn[f] # NoOne /\ UNCHANGED pass /\ i' = f + 1 /\ i <= f
    BY <1>6 DEF Send, Writes, Visits
  <2>2. CASE Drop(f)
    BY <2>1, <2>2, DropWrites
  <2>3. CASE ~Drop(f)
    <3>1. /\ cpy_writefds' = cpy_writefds \ {f}
          /\ map_clients' = [map_clients EXCEPT ![f].socket_mod = "READ_M"]
          /\ UNCHANGED conn
      BY <1>6, <2>3 DEF Send
    <3>2. \A g \in ClientFd : map_clients'[g].socket_mod =
              IF g = f THEN "READ_M" ELSE map_clients[g].socket_mod
      BY <3>1 DEF TypeOK
    <3>3. \A g \in ClientFd : g # f => map_clients'[g] = map_clients[g]
      BY <3>1 DEF TypeOK
    <3> QED
      BY <1>0, <2>1, <3>1, <3>2, <3>3 DEF WritesRight, pass
  <2> QED
    BY <2>2, <2>3
<1>7. CASE Environment
  BY <1>7 DEF Environment, Connect, SendRequest, Close, books, pass, WritesRight
<1>8. CASE UNCHANGED vars
  BY <1>8 DEF vars, books, pass, WritesRight
<1> QED
  BY <1>1, <1>2, <1>3, <1>4, <1>5, <1>6, <1>7, <1>8 DEF Next, Server

\* A connection whose requests and answers a step leaves alone, and that it
\* does not make, keeps its invariant.
LEMMA ClientStays ==
    ASSUME AnswersInv, NEW c \in Client,
           sent'[c] = sent[c], wire'[c] = wire[c], answers'[c] = answers[c],
           hungup \subseteq hungup',
           Alive(c)' => Alive(c), Alive(c) => Alive(c)' \/ c \in hungup',
           \A f \in ClientFd : conn'[f] = c /\ Writing(f)' =>
              conn[f] = c /\ Writing(f) /\ Pending(f)' = Pending(f),
           Alive(c)' => \A f \in ClientFd :
              conn[f] = c /\ Writing(f) => conn'[f] = c /\ Writing(f)'
    PROVE  ClientInv(c)'
<1>1. ClientInv(c)
  BY DEF AnswersInv
<1>2. Fresh(c)'
  BY <1>1 DEF ClientInv, Fresh
<1>3. WireInOrder(c)'
  BY <1>1 DEF ClientInv, WireInOrder
<1>4. AnswersInOrder(c)'
  BY <1>1 DEF ClientInv, AnswersInOrder
<1>5. NoneAfterClose(c)'
  BY <1>1 DEF ClientInv, NoneAfterClose
<1>6. ASSUME c \in Careful PROVE OneAtATime(c)'
  <2>1. OneAtATime(c)
    BY <1>1, <1>6 DEF ClientInv
  <2>2. Alive(c)' => (Busy(c)' <=> Busy(c))
    BY DEF Busy
  <2> QED
    BY <2>1, <2>2 DEF OneAtATime
<1> QED
  BY <1>2, <1>3, <1>4, <1>5, <1>6 DEF ClientInv

LEMMA PendingStays ==
    ASSUME AnswersInv, NEW f \in ClientFd,
           Writing(f)' => Writing(f) /\ Pending(f)' = Pending(f) /\ conn'[f] = conn[f],
           Writing(f)' => LET c == conn[f]
                          IN  sent'[c] = sent[c] /\ wire'[c] = wire[c] /\ answers'[c] = answers[c]
    PROVE  PendingInOrder(f)'
  BY DEF AnswersInv, PendingInOrder
LEMMA AnswersRest ==
    ASSUME AnswersInv,
           UNCHANGED <<map_clients, conn, backlog, hungup, sent, wire, answers>>
    PROVE  /\ \A c \in Client : ClientInv(c)'
           /\ \A f \in ClientFd : PendingInOrder(f)'
<1>1. ASSUME NEW c \in Client PROVE ClientInv(c)'
  BY ClientStays DEF Alive, Writing, Pending
<1>2. ASSUME NEW f \in ClientFd PROVE PendingInOrder(f)'
  BY PendingStays DEF Writing, Pending
<1> QED
  BY <1>1, <1>2

LEMMA AnswersConnect ==
    ASSUME AnswersInv, NEW d \in Client, Connect(d)
    PROVE  /\ \A c \in Client : ClientInv(c)'
           /\ \A f \in ClientFd : PendingInOrder(f)'
<1>1. /\ backlog' = backlog \cup {d}
      /\ UNCHANGED <<map_clients, conn, hungup, sent, wire, answers>>
  BY DEF Connect, books
<1>2. ASSUME NEW c \in Client, c # d PROVE ClientInv(c)'
  BY <1>1, <1>2, ClientStays DEF Alive, Writing, Pending
<1>3. ~Alive(d) /\ d \notin hungup
  BY DEF Connect, Used, Alive
<1>4. sent[d] = 0 /\ wire[d] = <<>> /\ answers[d] = <<>>
  BY <1>3 DEF AnswersInv, ClientInv, Fresh
<1>5. Len(<<>>) = 0
  BY EmptySeq
<1>6. Alive(d)'
  BY <1>1 DEF Alive
<1>7. ClientInv(d)'
  <2>1. sent'[d] = 0 /\ wire'[d] = <<>> /\ Len(wire'[d]) = 0 /\ Len(answers'[d]) = 0
    BY <1>1, <1>4, <1>5
  <2>2. \A f \in ClientFd : conn'[f] # d
    BY <1>1, <1>3 DEF Alive
  <2>3. ~Busy(d)'
    BY <2>1, <2>2 DEF Busy
  <2> QED
    BY <1>6, <2>1, <2>2, <2>3
       DEF ClientInv, Fresh, WireInOrder, AnswersInOrder, NoneAfterClose, OneAtATime
<1>8. ASSUME NEW f \in ClientFd PROVE PendingInOrder(f)'
  BY <1>1, PendingStays DEF Writing, Pending
<1> QED
  BY <1>2, <1>7, <1>8

LEMMA AnswersAccept ==
    ASSUME AnswersInv, Accept
    PROVE  /\ \A c \in Client : ClientInv(c)'
           /\ \A f \in ClientFd : PendingInOrder(f)'
<1>1. PICK d \in backlog, f \in ClientFd :
          /\ conn[f] = NoOne
          /\ backlog' = backlog \ {d}
          /\ conn' = [conn EXCEPT ![f] = d]
          /\ map_clients' = [map_clients EXCEPT ![f] = IF @ = Absent THEN NewClient ELSE @]
  BY DEF Accept
<1>2. UNCHANGED <<hungup, sent, wire, answers>>
  BY DEF Accept
<1>3. \A g \in ClientFd : conn'[g] = IF g = f THEN d ELSE conn[g]
  BY <1>1 DEF AnswersInv, TypeOK
<1>4. \A g \in ClientFd : map_clients'[g] = IF g = f THEN NewClient ELSE map_clients[g]
  BY <1>1 DEF AnswersInv, TypeOK, WritesRight
<1>5. \A g \in ClientFd : Writing(g)' => g # f
  BY <1>4, Modes DEF Writing
<1>6. NoOne \notin Client
  OBVIOUS
<1>7. ASSUME NEW c \in Client PROVE ClientInv(c)'
  <2>1. Alive(c)' <=> Alive(c)
    BY <1>1, <1>3, <1>7 DEF Alive
  <2>2. ASSUME NEW g \in ClientFd
        PROVE  conn'[g] = c /\ Writing(g)' => conn[g] = c /\ Writing(g) /\ Pending(g)' = Pending(g)
    BY <1>3, <1>4, <1>5 DEF Writing, Pending
  <2>3. ASSUME NEW g \in ClientFd, conn[g] = c, Writing(g) PROVE conn'[g] = c /\ Writing(g)'
    BY <1>1, <1>3, <1>4, <2>3 DEF Writing
  <2> QED
    BY <1>2, <2>1, <2>2, <2>3, ClientStays
<1>8. ASSUME NEW g \in ClientFd PROVE PendingInOrder(g)'
  BY <1>2, <1>3, <1>4, <1>5, PendingStays DEF Writing, Pending
<1> QED
  BY <1>7, <1>8

LEMMA AnswersDrop ==
    ASSUME AnswersInv, NEW f \in Fd, Drop(f), UNCHANGED <<backlog, sent, wire>>,
           \A c \in Client : c # conn[f] \/ f \notin ClientFd => answers'[c] = answers[c]
    PROVE  /\ \A c \in Client : c # conn[f] \/ f \notin ClientFd \/ answers'[c] = answers[c]
                 => ClientInv(c)'
           /\ \A g \in ClientFd : PendingInOrder(g)'
<1>1. /\ \A g \in ClientFd : conn'[g] = IF g = f THEN NoOne ELSE conn[g]
      /\ f \in ClientFd /\ conn[f] # NoOne => hungup' = hungup \cup {conn[f]}
      /\ ~(f \in ClientFd /\ conn[f] # NoOne) => hungup' = hungup
  BY ConnAfterDrop DEF AnswersInv
<1>2. \A g \in ClientFd : map_clients'[g] = IF g = f THEN Absent ELSE map_clients[g]
  BY MapAfterDrop DEF AnswersInv
<1>3. \A g \in ClientFd : Writing(g)' => g # f
  BY <1>2, Modes DEF Writing
<1>4. \A g, h \in ClientFd : conn[g] = conn[h] /\ conn[g] # NoOne => g = h
  BY DEF AnswersInv, Separate
<1>5. ASSUME NEW c \in Client,
             c # conn[f] \/ f \notin ClientFd \/ answers'[c] = answers[c]
      PROVE  ClientInv(c)'
  <2>1. c # NoOne /\ answers'[c] = answers[c]
    BY <1>5
  <2>2. hungup \subseteq hungup' /\ (Alive(c)' => Alive(c))
    BY <1>1, <2>1 DEF Alive
  <2>3. Alive(c) => Alive(c)' \/ c \in hungup'
    BY <1>1, <2>1 DEF Alive
  <2>4. ASSUME NEW g \in ClientFd
        PROVE  conn'[g] = c /\ Writing(g)' => conn[g] = c /\ Writing(g) /\ Pending(g)' = Pending(g)
    BY <1>1, <1>2, <1>3 DEF Writing, Pending
  <2>5. ASSUME Alive(c)', NEW g \in ClientFd, conn[g] = c, Writing(g)
        PROVE  conn'[g] = c /\ Writing(g)'
    <3>1. g # f
      <4>1. SUFFICES ASSUME g = f PROVE FALSE
        OBVIOUS
      <4>2. \A h \in ClientFd : conn'[h] # c
        BY <1>1, <1>4, <2>1, <2>5, <4>1
      <4>3. c \notin backlog
        BY <2>5 DEF AnswersInv, Separate
      <4> QED
        BY <2>5, <4>2, <4>3 DEF Alive
    <3> QED
      BY <1>1, <1>2, <2>5, <3>1 DEF Writing
  <2> QED
    BY <2>1, <2>2, <2>3, <2>4, <2>5, ClientStays
<1>6. ASSUME NEW g \in ClientFd PROVE PendingInOrder(g)'
  <2>1. SUFFICES ASSUME Writing(g)' PROVE PendingInOrder(g)'
    BY DEF PendingInOrder
  <2>2. g # f /\ Writing(g) /\ Pending(g)' = Pending(g) /\ conn'[g] = conn[g]
    BY <1>1, <1>2, <1>3, <2>1 DEF Writing, Pending
  <2>3. conn[g] \in Client
    BY <2>2 DEF AnswersInv, TypeOK, WritesRight, Writing
  <2>4. conn[g] # conn[f] \/ f \notin ClientFd
    BY <1>4, <2>2, <2>3
  <2> QED
    BY <2>2, <2>3, <2>4, PendingStays
<1> QED
  BY <1>5, <1>6
LEMMA AnswersSendRequest ==
    ASSUME AnswersInv, NEW d \in Client, SendRequest(d)
    PROVE  /\ \A c \in Client : ClientInv(c)'
           /\ \A f \in ClientFd : PendingInOrder(f)'
<1>1. /\ sent' = [sent EXCEPT ![d] = @ + 1]
      /\ UNCHANGED <<map_clients, conn, hungup, backlog, answers>>
      /\ d \in Careful => Len(answers[d]) = sent[d]
  BY DEF SendRequest, books
<1>2. PICK asks \in Asks :
          wire' = [wire EXCEPT ![d] =
                      @ \o <<Piece(sent'[d], "header", asks), Piece(sent'[d], "rest", asks)>>]
  BY DEF SendRequest
<1> DEFINE n == Len(wire[d])
           two == <<Piece(sent'[d], "header", asks), Piece(sent'[d], "rest", asks)>>
<1>3. sent[d] \in Nat /\ sent'[d] = sent[d] + 1
  BY <1>1 DEF AnswersInv, TypeOK
<1>4. /\ wire'[d] = wire[d] \o two
      /\ \A c \in Client : c # d => wire'[c] = wire[c] /\ sent'[c] = sent[c]
  BY <1>1, <1>2 DEF AnswersInv, TypeOK
<1>5. wire[d] \in Seq(Pieces) /\ n \in Nat
  BY LenProperties DEF AnswersInv, TypeOK
<1>6. two \in Seq(Pieces) /\ Len(two) = 2
  BY <1>3 DEF Piece, Pieces
<1>7. /\ two[1].part = "header" /\ two[1].req = sent[d] + 1
      /\ two[2].part = "rest" /\ two[2].req = sent[d] + 1
  BY <1>3 DEF Piece
<1> HIDE DEF two
<1>8. /\ Len(wire'[d]) = n + 2
      /\ \A k \in 1 .. n + 2 : wire'[d][k] = IF k <= n THEN wire[d][k] ELSE two[k - n]
  <2>1. /\ Len(wire[d] \o two) = Len(wire[d]) + Len(two)
        /\ \A k \in 1 .. Len(wire[d]) + Len(two) :
              (wire[d] \o two)[k] = IF k <= Len(wire[d]) THEN wire[d][k]
                                                       ELSE two[k - Len(wire[d])]
    BY <1>5, <1>6, ConcatProperties, ZenonT(30)
  <2> QED
    BY <1>4, <1>6, <2>1
<1> HIDE DEF n
<1>9. ASSUME NEW k \in 1 .. n + 2
      PROVE  \/ k \in 1 .. n /\ wire'[d][k] = wire[d][k]
             \/ k = n + 1 /\ wire'[d][k].part = "header" /\ wire'[d][k].req = sent[d] + 1
             \/ k = n + 2 /\ wire'[d][k].part = "rest" /\ wire'[d][k].req = sent[d] + 1
  <2>1. CASE k <= n
    BY <1>5, <1>8, <2>1
  <2>2. CASE k = n + 1
    <3>1. k - n = 1 /\ ~(k <= n)
      BY <1>5, <2>2
    <3> QED
      BY <1>7, <1>8, <2>2, <3>1
  <2>3. CASE k = n + 2
    <3>1. k - n = 2 /\ ~(k <= n)
      BY <1>5, <2>3
    <3> QED
      BY <1>7, <1>8, <2>3, <3>1
  <2> QED
    BY <1>5, <2>1, <2>2, <2>3
<1>10. ClientInv(d)
  BY DEF AnswersInv
<1>11. WireInOrder(d)'
  <2> SUFFICES ASSUME NEW k \in 1 .. n + 2
               PROVE  /\ wire'[d][k].req \in 1 .. sent[d] + 1
                      /\ wire'[d][k].part = "header" =>
                            \A j \in 1 .. k - 1 : wire'[d][j].req < wire'[d][k].req
    BY <1>3, <1>8 DEF WireInOrder
  <2>1. WireInOrder(d)
    BY <1>10 DEF ClientInv
  <2>5. \A j \in 1 .. n :
            /\ wire[d][j].req \in 1 .. sent[d]
            /\ wire[d][j].part = "header" =>
                  \A h \in 1 .. j - 1 : wire[d][h].req < wire[d][j].req
    BY <2>1 DEF WireInOrder, n
  <2>2. CASE k \in 1 .. n
    <3>1. \A j \in 1 .. k : wire'[d][j] = wire[d][j]
      BY <1>5, <1>8, <2>2
    <3>2. k \in 1 .. k /\ \A j \in 1 .. k - 1 : j \in 1 .. k
      BY <2>2, <1>5
    <3>3. wire'[d][k] = wire[d][k] /\ \A j \in 1 .. k - 1 : wire'[d][j] = wire[d][j]
      BY <3>1, <3>2
    <3>4. wire[d][k].req \in 1 .. sent[d] + 1
      BY <1>3, <2>2, <2>5
    <3> QED
      BY <2>2, <2>5, <3>3, <3>4
  <2>3. CASE k = n + 1
    <3>1. wire'[d][k].req = sent[d] + 1
      BY <1>5, <1>9, <2>3
    <3>2. \A j \in 1 .. k - 1 : wire'[d][j] = wire[d][j] /\ j \in 1 .. n
      <4>1. \A j \in 1 .. k - 1 : j \in 1 .. n /\ j \in 1 .. n + 2 /\ j <= n
        BY <1>5, <2>3
      <4> QED
        BY <1>8, <4>1
    <3>3. \A j \in 1 .. k - 1 : wire'[d][j].req \in 1 .. sent[d]
      BY <2>5, <3>2
    <3> QED
      BY <1>3, <3>1, <3>3
  <2>4. CASE k = n + 2
    <3>1. wire'[d][k].part = "rest" /\ wire'[d][k].req = sent[d] + 1
      <4>1. k \notin 1 .. n /\ k # n + 1
        BY <1>5, <2>4
      <4> QED
        BY <1>9, <4>1
    <3> QED
      BY <1>3, <3>1
  <2> QED
    BY <1>5, <2>2, <2>3, <2>4
<1>12. AnswersInOrder(d)'
  <2> SUFFICES ASSUME NEW m \in 1 .. Len(answers[d])
               PROVE  /\ answers[d][m].of = d
                      /\ answers[d][m].req \in 0 .. sent[d] + 1
                      /\ answers[d][m].req # 0 =>
                            \A k \in 1 .. m - 1 : answers[d][k].req < answers[d][m].req
                      /\ \A k \in 1 .. n + 2 :
                            wire'[d][k].part = "header" => answers[d][m].req < wire'[d][k].req
    BY <1>1, <1>3, <1>8 DEF AnswersInOrder
  <2>1. AnswersInOrder(d)
    BY <1>10 DEF ClientInv
  <2>2. answers[d][m].req \in 0 .. sent[d]
    BY <2>1 DEF AnswersInOrder
  <2>3. ASSUME NEW k \in 1 .. n + 2, wire'[d][k].part = "header"
        PROVE  answers[d][m].req < wire'[d][k].req
    <3>1. CASE k \in 1 .. n /\ wire'[d][k] = wire[d][k]
      BY <2>1, <2>3, <3>1 DEF AnswersInOrder, n
    <3>2. CASE wire'[d][k].req = sent[d] + 1
      BY <1>3, <2>2, <3>2
    <3> QED
      BY <1>9, <3>1, <3>2
  <2> QED
    BY <1>3, <2>1, <2>2, <2>3 DEF AnswersInOrder
<1>13. Alive(d) /\ Alive(d)'
  BY <1>1 DEF SendRequest, MaySpeak, Used, Alive
<1>14. Fresh(d)' /\ NoneAfterClose(d)'
  BY <1>1, <1>10, <1>13 DEF Fresh, NoneAfterClose, ClientInv
<1>15. ASSUME d \in Careful PROVE OneAtATime(d)'
  <2>1. OneAtATime(d) /\ Len(answers[d]) = sent[d]
    BY <1>1, <1>10, <1>15 DEF ClientInv
  <2>2. ~Busy(d)
    BY <1>3, <1>13, <2>1 DEF OneAtATime
  <2>3. n = 0
    <3>1. wire[d] = <<>>
      BY <2>2 DEF Busy
    <3> QED
      BY <3>1, EmptySeq DEF n
  <2>4. /\ Len(wire'[d]) = 2 /\ wire'[d][1].part = "header"
        /\ wire'[d][1].req = sent'[d]
    BY <1>3, <1>5, <1>8, <1>9, <2>3
  <2>5. Busy(d)'
    <3>1. wire'[d] # <<>>
      <4>1. Len(wire'[d]) # Len(<<>>)
        BY <2>4, EmptySeq
      <4> QED
        BY <4>1, Zenon
    <3> QED
      BY <3>1 DEF Busy
  <2>6. \A f \in ClientFd : ~(conn'[f] = d /\ Writing(f)')
    BY <1>1, <2>2 DEF Busy, Writing
  <2>7. Len(answers'[d]) = sent'[d] - 1
    BY <1>1, <1>3, <2>1
  <2>8. \A m \in 1 .. Len(answers'[d]) : answers'[d][m].req = m
    BY <1>1, <2>1 DEF OneAtATime
  <2> QED
    BY <2>4, <2>5, <2>6, <2>7, <2>8 DEF OneAtATime
<1>16. ASSUME NEW c \in Client PROVE ClientInv(c)'
  <2>1. CASE c = d
    BY <1>11, <1>12, <1>14, <1>15, <2>1 DEF ClientInv
  <2>2. CASE c # d
    BY <1>1, <1>4, <2>2, ClientStays DEF Alive, Writing, Pending
  <2> QED
    BY <2>1, <2>2
<1>17. ASSUME NEW f \in ClientFd PROVE PendingInOrder(f)'
  <2>1. CASE conn[f] # d
    <3>1. SUFFICES ASSUME Writing(f)' PROVE PendingInOrder(f)'
      BY DEF PendingInOrder
    <3>2. conn[f] \in Client
      BY <1>1, <3>1 DEF AnswersInv, TypeOK, WritesRight, Writing
    <3> QED
      BY <1>1, <1>4, <2>1, <3>2, PendingStays DEF Writing, Pending
  <2>2. CASE conn[f] = d
    <3>1. PendingInOrder(f)
      BY DEF AnswersInv
    <3>2. SUFFICES ASSUME Writing(f)' PROVE PendingInOrder(f)'
      BY DEF PendingInOrder
    <3>3. /\ Pending(f).of = d /\ Pending(f).req \in 0 .. sent[d]
          /\ Pending(f).req # 0 =>
                \A m \in 1 .. Len(answers[d]) : answers[d][m].req < Pending(f).req
          /\ \A k \in 1 .. n : wire[d][k].part = "header" => Pending(f).req < wire[d][k].req
          /\ Pending(f)' = Pending(f)
      BY <1>1, <2>2, <3>1, <3>2 DEF PendingInOrder, Writing, Pending, n
    <3>4. \A k \in 1 .. n + 2 :
             wire'[d][k].part = "header" => Pending(f).req < wire'[d][k].req
      <4> SUFFICES ASSUME NEW k \in 1 .. n + 2, wire'[d][k].part = "header"
                   PROVE  Pending(f).req < wire'[d][k].req
        OBVIOUS
      <4>1. CASE k \in 1 .. n /\ wire'[d][k] = wire[d][k]
        BY <3>3, <4>1
      <4>2. CASE wire'[d][k].req = sent[d] + 1
        BY <1>3, <3>3, <4>2
      <4> QED
        BY <1>9, <4>1, <4>2
    <3> QED
      BY <1>1, <1>3, <1>8, <2>2, <3>3, <3>4 DEF PendingInOrder
  <2> QED
    BY <2>1, <2>2
<1> QED
  BY <1>16, <1>17
\* What is prepared from the first n pieces of a wire.
LEMMA PreparedIs ==
    ASSUME NEW c \in Client, NEW w \in Seq(Pieces), NEW n \in 1 .. Len(w),
           NEW p, p = Prepared(c, SubSeq(w, 1, n))
    PROVE  /\ p.of = c
           /\ p.req = 0 \/ (p.req = w[1].req /\ w[1].part = "header")
           /\ n >= 2 /\ w[1].part = "header" => p.req = w[1].req
<1> DEFINE s == SubSeq(w, 1, n)
<1>1. Len(w) \in Nat /\ \A k \in 1 .. n : w[k] \in Pieces
  BY LenProperties
<1>2. Len(s) = n
  BY <1>1, SubSeqProperties
<1>3. s[1] = w[1]
  <2>1. \A k \in 1 .. n - 1 + 1 : s[k] = w[1 + k - 1]
    BY <1>1, SubSeqProperties
  <2>2. 1 \in 1 .. n - 1 + 1
    BY <1>1
  <2> QED
    BY <2>1, <2>2
<1> HIDE DEF s
<1> QED
  BY <1>2, <1>3 DEF Prepared, Response, s

LEMMA AnswersRecv ==
    ASSUME AnswersInv, NEW f \in Fd, Recv(f), NEW c \in Client, c = conn[f]
    PROVE  /\ \A d \in Client : ClientInv(d)'
           /\ \A g \in ClientFd : PendingInOrder(g)'
<1> DEFINE w == wire[c]
           p == Pending(f)'
<1>1. /\ f \in ClientFd /\ c \in Client
      /\ UNCHANGED <<conn, hungup, backlog, sent, answers>>
  BY DEF Recv, AnswersInv, TypeOK
<1>2. PICK n \in 1 .. Len(w) :
          /\ c \in Careful => n = Len(w)
          /\ wire' = [wire EXCEPT ![c] = SubSeq(@, n + 1, Len(@))]
          /\ map_clients' = [map_clients EXCEPT ![f] =
                [socket_mod |-> "WRITE_M", response |-> Prepared(c, SubSeq(w, 1, n))]]
  BY DEF Recv
<1>3. w \in Seq(Pieces) /\ Len(w) \in Nat
  BY <1>1, LenProperties DEF AnswersInv, TypeOK
<1>4. /\ wire'[c] = SubSeq(w, n + 1, Len(w))
      /\ \A d \in Client : d # c => wire'[d] = wire[d]
  BY <1>1, <1>2 DEF AnswersInv, TypeOK
<1>5. /\ Len(wire'[c]) = Len(w) - n
      /\ \A k \in 1 .. Len(w) - n : wire'[c][k] = w[n + k]
  <2>1. \A k \in n + 1 .. Len(w) : w[k] \in Pieces
    BY <1>3
  <2>2. /\ Len(SubSeq(w, n + 1, Len(w))) =
              IF n + 1 <= Len(w) THEN Len(w) - (n + 1) + 1 ELSE 0
        /\ \A k \in 1 .. Len(w) - (n + 1) + 1 :
              SubSeq(w, n + 1, Len(w))[k] = w[n + 1 + k - 1]
    BY <1>3, <2>1, SubSeqProperties
  <2>3. \A k \in 1 .. Len(w) - n : k \in 1 .. Len(w) - (n + 1) + 1 /\ n + 1 + k - 1 = n + k
    BY <1>3
  <2> QED
    BY <1>3, <1>4, <2>2, <2>3
<1>6. /\ map_clients'[f] =
            [socket_mod |-> "WRITE_M", response |-> Prepared(c, SubSeq(w, 1, n))]
      /\ \A g \in ClientFd : g # f => map_clients'[g] = map_clients[g]
  BY <1>1, <1>2 DEF AnswersInv, TypeOK
<1>7. /\ Writing(f)' /\ p = Prepared(c, SubSeq(w, 1, n))
      /\ \A g \in ClientFd : g # f => (Writing(g)' <=> Writing(g)) /\ Pending(g)' = Pending(g)
  BY <1>6 DEF Writing, Pending
<1>8. \A g \in ClientFd : g # f => conn[g] # c
  BY <1>1 DEF AnswersInv, Separate
<1>9. ClientInv(c)
  BY <1>1 DEF AnswersInv
<1> HIDE DEF p, w
<1>10. sent[c] \in Nat
  BY <1>1 DEF AnswersInv, TypeOK
<1>11. \A k \in 1 .. Len(w) :
          /\ w[k].req \in 1 .. sent[c]
          /\ w[k].part = "header" => \A j \in 1 .. k - 1 : w[j].req < w[k].req
  BY <1>9 DEF ClientInv, WireInOrder, w
<1>12. ASSUME NEW k \in 1 .. Len(w) - n
       PROVE  /\ wire'[c][k] = w[n + k] /\ n + k \in 1 .. Len(w)
              /\ 1 \in 1 .. n + k - 1
              /\ \A j \in 1 .. k - 1 : wire'[c][j] = w[n + j] /\ n + j \in 1 .. n + k - 1
  <2>1. n + k \in 1 .. Len(w) /\ 1 \in 1 .. n + k - 1
    BY <1>3
  <2>2. \A j \in 1 .. k - 1 : j \in 1 .. Len(w) - n /\ n + j \in 1 .. n + k - 1
    BY <1>3
  <2> QED
    BY <1>5, <2>1, <2>2
<1>13. WireInOrder(c)'
  <2> SUFFICES ASSUME NEW k \in 1 .. Len(w) - n
               PROVE  /\ wire'[c][k].req \in 1 .. sent[c]
                      /\ wire'[c][k].part = "header" =>
                            \A j \in 1 .. k - 1 : wire'[c][j].req < wire'[c][k].req
    BY <1>1, <1>5 DEF WireInOrder
  <2>1. wire'[c][k] = w[n + k] /\ w[n + k].req \in 1 .. sent[c]
    BY <1>11, <1>12
  <2>2. ASSUME wire'[c][k].part = "header", NEW j \in 1 .. k - 1
        PROVE  wire'[c][j].req < wire'[c][k].req
    <3>0. n + k \in 1 .. Len(w) /\ w[n + k].part = "header"
      BY <1>12, <2>2
    <3>1. \A h \in 1 .. n + k - 1 : w[h].req < w[n + k].req
      BY <1>11, <3>0
    <3>2. wire'[c][j] = w[n + j] /\ n + j \in 1 .. n + k - 1
      BY <1>12
    <3> QED
      BY <2>1, <3>1, <3>2
  <2> QED
    BY <2>1, <2>2
<1>14. AnswersInOrder(c)'
  <2>1. AnswersInOrder(c)
    BY <1>9 DEF ClientInv
  <2>2. ASSUME NEW m \in 1 .. Len(answers[c]), NEW k \in 1 .. Len(w) - n,
               wire'[c][k].part = "header"
        PROVE  answers[c][m].req < wire'[c][k].req
    <3>1. \A h \in 1 .. Len(w) : w[h].part = "header" => answers[c][m].req < w[h].req
      BY <2>1 DEF AnswersInOrder, w
    <3> QED
      BY <1>12, <2>2, <3>1
  <2> QED
    BY <1>1, <1>5, <2>1, <2>2, SMTT(30) DEF AnswersInOrder
<1>15. Alive(c) /\ Alive(c)'
  BY <1>1 DEF Alive
<1>16. Fresh(c)' /\ NoneAfterClose(c)'
  BY <1>1, <1>9, <1>15 DEF Fresh, NoneAfterClose, ClientInv
<1>17. /\ p.of = c
       /\ p.req = 0 \/ (p.req = w[1].req /\ w[1].part = "header")
       /\ n >= 2 /\ w[1].part = "header" => p.req = w[1].req
  BY <1>1, <1>3, <1>7, PreparedIs
<1>18. 1 \in 1 .. Len(w)
  BY <1>3
<1>19. w # <<>>
  <2>1. Len(w) # Len(<<>>)
    BY <1>18, <1>3, EmptySeq
  <2> QED
    BY <2>1, Zenon
<1>20. PendingInOrder(f)'
  <2>1. conn'[f] = c
    BY <1>1
  <2>2. p.req \in 0 .. sent[c]
    BY <1>10, <1>11, <1>17, <1>18
  <2>3. ASSUME p.req # 0, NEW m \in 1 .. Len(answers[c]) PROVE answers[c][m].req < p.req
    BY <1>9, <1>17, <1>18, <2>3 DEF ClientInv, AnswersInOrder, w
  <2>4. ASSUME NEW k \in 1 .. Len(w) - n, wire'[c][k].part = "header"
        PROVE  p.req < wire'[c][k].req
    <3>1. w[n + k].req \in 1 .. sent[c] /\ w[1].req < w[n + k].req
      BY <1>11, <1>12, <2>4
    <3> QED
      BY <1>10, <1>12, <1>17, <3>1, SMTT(30)
  <2> QED
    BY <1>1, <1>5, <1>17, <2>1, <2>2, <2>3, <2>4 DEF PendingInOrder, p
<1>21. ASSUME c \in Careful PROVE OneAtATime(c)'
  <2>1. OneAtATime(c)
    BY <1>9, <1>21 DEF ClientInv
  <2>2. n = 2 /\ Len(w) = 2 /\ w[1].part = "header" /\ w[1].req = sent[c]
    BY <1>2, <1>19, <1>21, <2>1 DEF OneAtATime, w
  <2>3. wire'[c] = <<>>
    <3>1. SubSeq(w, n + 1, Len(w)) = <<>>
      BY <2>2, SubSeqEmpty
    <3> QED
      BY <1>4, <3>1 DEF w
  <2>4. p.req = sent[c]
    BY <1>17, <2>2
  <2>5. Busy(c) /\ Busy(c)'
    BY <1>1, <1>7, <1>19 DEF Busy, w
  <2>6. \A g \in ClientFd : conn'[g] = c => g = f
    BY <1>1, <1>8
  <2> QED
    BY <1>1, <1>15, <2>1, <2>3, <2>4, <2>5, <2>6 DEF OneAtATime, p
<1>22. ASSUME NEW d \in Client PROVE ClientInv(d)'
  <2>1. CASE d = c
    BY <1>13, <1>14, <1>16, <1>21, <2>1 DEF ClientInv
  <2>2. CASE d # c
    <3>1. Alive(d)' <=> Alive(d)
      BY <1>1 DEF Alive
    <3>2. conn[f] # d
      BY <2>2
    <3>3. wire'[d] = wire[d]
      BY <1>4, <2>2
    <3>4. \A g \in ClientFd : conn[g] = d =>
              (Writing(g)' <=> Writing(g)) /\ Pending(g)' = Pending(g)
      BY <1>7, <3>2
    <3> QED
      BY <1>1, <3>1, <3>3, <3>4, ClientStays
  <2> QED
    BY <2>1, <2>2
<1>23. ASSUME NEW g \in ClientFd PROVE PendingInOrder(g)'
  <2>1. CASE g = f
    BY <1>20, <2>1
  <2>2. CASE g # f
    <3>1. SUFFICES ASSUME Writing(g)' PROVE PendingInOrder(g)'
      BY DEF PendingInOrder
    <3>2. Writing(g) /\ Pending(g)' = Pending(g)
      BY <1>7, <2>2, <3>1
    <3>3. conn[g] \in Client /\ conn[g] # c
      BY <1>8, <2>2, <3>2 DEF AnswersInv, TypeOK, WritesRight, Writing
    <3> QED
      BY <1>1, <1>4, <3>2, <3>3, PendingStays
  <2> QED
    BY <2>1, <2>2
<1> QED
  BY <1>22, <1>23

LEMMA AnswersSend ==
    ASSUME AnswersInv, NEW f \in Fd, Send(f), NEW c \in Client, c = conn[f]
    PROVE  /\ \A d \in Client : ClientInv(d)'
           /\ \A g \in ClientFd : PendingInOrder(g)'
<1> DEFINE p == Pending(f)
           a == answers[c]
<1>1. /\ f \in ClientFd /\ c \in Client /\ UNCHANGED <<backlog, sent, wire>>
      /\ answers' = [answers EXCEPT ![c] = Append(@, p)]
  BY DEF Send, Writes, net, Pending, AnswersInv, TypeOK
<1>2. Writing(f)
  BY DEF Send, Writes, Visits, AnswersInv, WritesRight, Writing
<1>3. a \in Seq(Responses) /\ Len(a) \in Nat /\ p \in Responses
  BY <1>1, LenProperties DEF AnswersInv, TypeOK, Pending
<1>4. /\ answers'[c] = Append(a, p)
      /\ \A d \in Client : d # c => answers'[d] = answers[d]
  BY <1>1 DEF AnswersInv, TypeOK
<1>5. /\ Len(answers'[c]) = Len(a) + 1 /\ answers'[c][Len(a) + 1] = p
      /\ \A k \in 1 .. Len(a) : answers'[c][k] = a[k]
  BY <1>3, <1>4, AppendProperties
<1>6. \A m \in 1 .. Len(a) + 1 :
         \/ m \in 1 .. Len(a) /\ answers'[c][m] = a[m]
            /\ \A k \in 1 .. m - 1 : answers'[c][k] = a[k]
         \/ m = Len(a) + 1 /\ answers'[c][m] = p /\ m - 1 = Len(a)
  <2> SUFFICES ASSUME NEW m \in 1 .. Len(a) + 1
               PROVE  \/ m \in 1 .. Len(a) /\ answers'[c][m] = a[m]
                         /\ \A k \in 1 .. m - 1 : answers'[c][k] = a[k]
                      \/ m = Len(a) + 1 /\ answers'[c][m] = p /\ m - 1 = Len(a)
    OBVIOUS
  <2>1. CASE m = Len(a) + 1
    BY <1>3, <1>5, <2>1
  <2>2. CASE m # Len(a) + 1
    <3>1. m \in 1 .. Len(a) /\ \A k \in 1 .. m - 1 : k \in 1 .. Len(a)
      BY <1>3, <2>2
    <3> QED
      BY <1>5, <3>1
  <2> QED
    BY <2>1, <2>2
<1>7. /\ p.of = c /\ p.req \in 0 .. sent[c]
      /\ p.req # 0 => \A m \in 1 .. Len(a) : a[m].req < p.req
      /\ \A k \in 1 .. Len(wire[c]) : wire[c][k].part = "header" => p.req < wire[c][k].req
  BY <1>1, <1>2 DEF AnswersInv, PendingInOrder
<1>8. ClientInv(c)
  BY <1>1 DEF AnswersInv
<1>9. Alive(c)
  BY <1>1 DEF Alive
<1>10. \A g \in ClientFd : g # f => conn[g] # c
  BY <1>1 DEF AnswersInv, Separate
<1>11. c \notin backlog
  BY <1>1 DEF AnswersInv, Separate
<1>12. \/ Ends(p) /\ Drop(f)
       \/ ~Ends(p) /\ UNCHANGED <<conn, hungup>>
          /\ map_clients' = [map_clients EXCEPT ![f].socket_mod = "READ_M"]
  <2>1. TypeOK /\ f \in Fd
    BY <1>1 DEF AnswersInv, Fd, ClientFd
  <2> QED BY <2>1, SendEither DEF Pending
<1>13. ~Writing(f)' /\ hungup \subseteq hungup'
       /\ \A g \in ClientFd : g # f => conn'[g] = conn[g] /\ map_clients'[g] = map_clients[g]
  <2>1. CASE Drop(f)
    BY <1>1, <2>1, ConnAfterDrop, MapAfterDrop, Modes DEF AnswersInv, Writing
  <2>2. CASE UNCHANGED <<conn, hungup>>
             /\ map_clients' = [map_clients EXCEPT ![f].socket_mod = "READ_M"]
    BY <1>1, <2>2 DEF AnswersInv, TypeOK, Writing
  <2> QED
    BY <1>12, <2>1, <2>2
<1> HIDE DEF p
<1>14. (Alive(c)' /\ ~Ends(p)) \/ (~Alive(c)' /\ c \in hungup')
  <2>1. CASE Ends(p) /\ Drop(f)
    <3>1. conn'[f] # c /\ c \in hungup'
      BY <1>1, <2>1, ConnAfterDrop DEF AnswersInv
    <3> QED
      BY <1>1, <1>10, <1>11, <1>13, <3>1 DEF Alive
  <2>2. CASE ~Ends(p) /\ UNCHANGED conn
    <3>1. conn'[f] = c
      BY <2>2
    <3>2. Alive(c)'
      BY <1>1, <3>1 DEF Alive
    <3> QED
      BY <2>2, <3>2
  <2> QED
    BY <1>12, <2>1, <2>2
<1> HIDE DEF a
<1>15. WireInOrder(c)' /\ Fresh(c)'
  BY <1>1, <1>8, <1>14 DEF ClientInv, WireInOrder, Fresh
<1>16. AnswersInOrder(c)'
  <2>1. AnswersInOrder(c)
    BY <1>8 DEF ClientInv
  <2>2. \A m \in 1 .. Len(a) + 1 :
           /\ answers'[c][m].of = c
           /\ answers'[c][m].req \in 0 .. sent[c]
           /\ answers'[c][m].req # 0 =>
                 \A k \in 1 .. m - 1 : answers'[c][k].req < answers'[c][m].req
           /\ \A k \in 1 .. Len(wire[c]) :
                 wire[c][k].part = "header" => answers'[c][m].req < wire[c][k].req
    <3> SUFFICES ASSUME NEW m \in 1 .. Len(a) + 1
                 PROVE  /\ answers'[c][m].of = c
                        /\ answers'[c][m].req \in 0 .. sent[c]
                        /\ answers'[c][m].req # 0 =>
                              \A k \in 1 .. m - 1 : answers'[c][k].req < answers'[c][m].req
                        /\ \A k \in 1 .. Len(wire[c]) : wire[c][k].part = "header" =>
                              answers'[c][m].req < wire[c][k].req
      OBVIOUS
    <3>1. CASE m \in 1 .. Len(a) /\ answers'[c][m] = a[m]
               /\ \A k \in 1 .. m - 1 : answers'[c][k] = a[k]
      BY <2>1, <3>1 DEF AnswersInOrder, a
    <3>2. CASE m = Len(a) + 1 /\ answers'[c][m] = p /\ m - 1 = Len(a)
      BY <1>5, <1>7, <3>2
    <3> QED
      BY <1>6, <3>1, <3>2
  <2> QED
    BY <1>1, <1>5, <2>2 DEF AnswersInOrder
<1>17. NoneAfterClose(c)'
  <2>1. \A m \in 1 .. Len(a) : ~Ends(a[m])
    BY <1>8, <1>9 DEF ClientInv, NoneAfterClose, a
  <2>2. \A m \in 1 .. Len(a) + 1 : \A k \in 1 .. m - 1 : ~Ends(answers'[c][k])
    <3> SUFFICES ASSUME NEW m \in 1 .. Len(a) + 1, NEW k \in 1 .. m - 1
                 PROVE  ~Ends(answers'[c][k])
      OBVIOUS
    <3>1. k \in 1 .. Len(a)
      BY <1>3
    <3> QED
      BY <1>5, <2>1, <3>1
  <2>3. Alive(c)' => \A m \in 1 .. Len(a) + 1 : ~Ends(answers'[c][m])
    BY <1>6, <1>14, <2>1
  <2> QED
    BY <1>5, <2>2, <2>3 DEF NoneAfterClose
<1>18. ASSUME c \in Careful PROVE OneAtATime(c)'
  <2>1. OneAtATime(c)
    BY <1>8, <1>18 DEF ClientInv
  <2>2. wire[c] = <<>> /\ p.req = sent[c]
    BY <1>1, <1>2, <2>1 DEF OneAtATime, p
  <2>3. Len(a) = sent[c] - 1
    <3>1. Busy(c)
      BY <1>1, <1>2 DEF Busy
    <3> QED
      BY <1>9, <2>1, <3>1 DEF OneAtATime, a
  <2>4. sent[c] \in Nat
    BY <1>1 DEF AnswersInv, TypeOK
  <2>5. \A m \in 1 .. Len(a) + 1 : answers'[c][m].req = m
    <3>1. \A m \in 1 .. Len(a) : a[m].req = m
      BY <2>1 DEF OneAtATime, a
    <3>2. p.req = Len(a) + 1
      BY <2>2, <2>3, <2>4
    <3> QED
      BY <1>6, <3>1, <3>2
  <2>6. \A g \in ClientFd : ~(conn'[g] = c /\ Writing(g)')
    BY <1>10, <1>13
  <2>7. ~Busy(c)'
    BY <1>1, <2>2, <2>6 DEF Busy
  <2>8. Len(answers'[c]) = sent'[c]
    BY <1>1, <1>5, <2>3, <2>4
  <2> QED
    BY <1>1, <1>5, <2>2, <2>5, <2>6, <2>7, <2>8 DEF OneAtATime
<1>19. ASSUME NEW d \in Client PROVE ClientInv(d)'
  <2>1. CASE d = c
    BY <1>15, <1>16, <1>17, <1>18, <2>1 DEF ClientInv
  <2>2. CASE d # c
    <3>1. conn[f] # d
      BY <2>2
    <3>2. conn'[f] # d
      BY <1>1, <1>12, <2>2, <3>1, ConnAfterDrop DEF AnswersInv
    <3>3. Alive(d)' <=> Alive(d)
      BY <1>1, <1>13, <3>1, <3>2 DEF Alive
    <3>4. \A g \in ClientFd : conn[g] = d \/ conn'[g] = d =>
             /\ conn[g] = d /\ conn'[g] = d
             /\ (Writing(g)' <=> Writing(g)) /\ Pending(g)' = Pending(g)
      BY <1>13, <3>1, <3>2 DEF Writing, Pending
    <3>5. answers'[d] = answers[d] /\ wire'[d] = wire[d] /\ sent'[d] = sent[d]
      BY <1>1, <1>4, <2>2
    <3> QED
      BY <1>13, <3>3, <3>4, <3>5, ClientStays
  <2> QED
    BY <2>1, <2>2
<1>20. ASSUME NEW g \in ClientFd PROVE PendingInOrder(g)'
  <2>1. SUFFICES ASSUME Writing(g)' PROVE PendingInOrder(g)'
    BY DEF PendingInOrder
  <2>2. g # f
    BY <1>13, <2>1
  <2>3. Writing(g) /\ Pending(g)' = Pending(g) /\ conn'[g] = conn[g]
    BY <1>13, <2>1, <2>2 DEF Writing, Pending
  <2>4. conn[g] \in Client /\ conn[g] # c
    BY <1>10, <2>2, <2>3 DEF AnswersInv, TypeOK, WritesRight, Writing
  <2> QED
    BY <1>1, <1>4, <2>3, <2>4, PendingStays
<1> QED
  BY <1>19, <1>20

LEMMA AnswersKept == AnswersInv /\ [Next]_vars => AnswersInv'
<1> SUFFICES ASSUME AnswersInv, [Next]_vars PROVE AnswersInv'
  OBVIOUS
<1>0. TypeOK' /\ Separate' /\ WritesRight'
  BY TypeKept, StaysSeparate, WritesStay DEF AnswersInv
<1>1. ASSUME Select \/ AcceptFails \/ UNCHANGED vars
      PROVE  /\ \A c \in Client : ClientInv(c)'
             /\ \A g \in ClientFd : PendingInOrder(g)'
  BY <1>1, AnswersRest DEF Select, AcceptFails, vars, books, net
<1>2. ASSUME Accept
      PROVE  /\ \A c \in Client : ClientInv(c)'
             /\ \A g \in ClientFd : PendingInOrder(g)'
  BY <1>2, AnswersAccept
<1>3. ASSUME NEW f \in Fd, RecvEnds(f) \/ SendFails(f)
      PROVE  /\ \A c \in Client : ClientInv(c)'
             /\ \A g \in ClientFd : PendingInOrder(g)'
  <2>1. Drop(f) /\ UNCHANGED <<backlog, sent, wire, answers>>
    BY <1>3 DEF RecvEnds, SendFails, net
  <2> QED
    BY <2>1, AnswersDrop
<1>4. ASSUME NEW f \in Fd, Recv(f) \/ Send(f)
      PROVE  /\ \A c \in Client : ClientInv(c)'
             /\ \A g \in ClientFd : PendingInOrder(g)'
  <2>1. conn[f] \in Client
    BY <1>4 DEF Recv, Send, Writes, AnswersInv, TypeOK
  <2> QED
    BY <1>4, <2>1, AnswersRecv, AnswersSend
<1>5. ASSUME NEW d \in Client, Close(d)
      PROVE  /\ \A c \in Client : ClientInv(c)'
             /\ \A g \in ClientFd : PendingInOrder(g)'
  BY <1>5, AnswersRest DEF Close, books
<1>6. ASSUME NEW d \in Client, Connect(d) \/ SendRequest(d)
      PROVE  /\ \A c \in Client : ClientInv(c)'
             /\ \A g \in ClientFd : PendingInOrder(g)'
  BY <1>6, AnswersConnect, AnswersSendRequest
<1>7. /\ \A c \in Client : ClientInv(c)'
      /\ \A g \in ClientFd : PendingInOrder(g)'
  BY <1>1, <1>2, <1>3, <1>4, <1>5, <1>6 DEF Next, Server, Environment
<1> QED
  BY <1>0, <1>7 DEF AnswersInv

\* A connection is answered in order, once for each request, and not after the
\* answer to one whose last header is "Connection: close", in whatever pieces its
\* requests arrive.
THEOREM AnswersAlwaysMatch == Spec => []AnswersMatch
<1>1. Init => AnswersInv
  <2> SUFFICES ASSUME Init PROVE AnswersInv
    OBVIOUS
  <2>1. TypeOK
    BY Descriptors, ClientObjects DEF Init, TypeOK
  <2>2. Separate
    BY DEF Init, Separate
  <2>3. WritesRight
    BY Modes, Descriptors DEF Init, WritesRight
  <2>4. Len(<<>>) = 0
    BY EmptySeq
  <2>5. \A c \in Client : ~Alive(c) /\ sent[c] = 0 /\ wire[c] = <<>> /\ answers[c] = <<>>
    BY DEF Init, Alive
  <2>6. ASSUME NEW c \in Client PROVE ClientInv(c)
    <3>1. \A f \in ClientFd : conn[f] # c
      BY <2>5 DEF Alive
    <3> QED
      BY <2>4, <2>5, <3>1
         DEF ClientInv, Fresh, WireInOrder, AnswersInOrder, NoneAfterClose, OneAtATime
  <2>7. \A f \in ClientFd : PendingInOrder(f)
    BY Modes DEF Init, PendingInOrder, Writing
  <2> QED
    BY <2>1, <2>2, <2>3, <2>6, <2>7 DEF AnswersInv
<1>2. AnswersInv => AnswersMatch
  <2> SUFFICES ASSUME AnswersInv, NEW c \in Client, NEW m \in 1 .. Len(answers[c])
               PROVE  /\ answers[c][m].of = c
                      /\ answers[c][m].req <= sent[c]
                      /\ \A k \in 1 .. m - 1 :
                            /\ ~Ends(answers[c][k])
                            /\ answers[c][m].req # 0 => answers[c][k].req < answers[c][m].req
                      /\ c \in Careful => answers[c][m].req = m
    BY DEF AnswersMatch, Ends
  <2>1. AnswersInOrder(c) /\ NoneAfterClose(c) /\ (c \in Careful => OneAtATime(c))
    BY DEF AnswersInv, ClientInv
  <2>2. sent[c] \in Nat
    BY DEF AnswersInv, TypeOK
  <2>3. answers[c][m].req <= sent[c]
    BY <2>1, <2>2 DEF AnswersInOrder
  <2> QED
    BY <2>1, <2>3 DEF AnswersInOrder, NoneAfterClose, OneAtATime
<1> QED
  BY <1>1, <1>2, AnswersKept, PTL DEF Spec
==============================================================================
