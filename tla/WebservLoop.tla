----------------------------- MODULE WebservLoop -----------------------------
(***************************************************************************)
(* The event loop of "6.2 - WEBSERV" (RunServer.cpp): one thread around    *)
(* select that accepts connections, takes what one recv returns for one    *)
(* request, prepares its response and sends it when the socket is          *)
(* writable.                                                               *)
(*                                                                         *)
(* A request travels as two pieces, its header lines and the rest from the *)
(* blank line on; recv returns any of them that have arrived.  What a      *)
(* response contains is left open: it is named by its request, and by 0    *)
(* when what recv returned does not begin with a whole request.  Each      *)
(* connection is used once, descriptors are reused.                        *)
(***************************************************************************)
EXTENDS Integers, Sequences, FiniteSets

CONSTANTS Client,      \* the connections made
          Careful,     \* those whose requests arrive whole, one after the other's answer
          MaxFd,       \* descriptors of client sockets are 1 .. MaxFd
          MaxRequests, \* bound on the requests of all connections together
          Stray,       \* the descriptor that FD_SET(-1, ...) marks
          Inherits     \* accepted sockets inherit O_NONBLOCK, as on BSD

ASSUME CarefulAssumption == Careful \subseteq Client
ASSUME MaxFdAssumption == MaxFd \in Nat \ {0}

NoOne == "no one"
ASSUME NoOneAssumption == NoOne \notin Client

\* The listening socket is opened before any client's, and is non-blocking.
sock_server == 0
ClientFd == 1 .. MaxFd

\* A descriptor that is never open, above all those that are.
NeverOpen == MaxFd + 1
Fd == 0 .. NeverOpen

\* Marking -1 is undefined: it may hit any bit; on sock_server it does nothing.
ASSUME StrayAssumption == Stray \in Fd

Past == NeverOpen + 1

\* Where "Connection: close" stands among the headers of a request, if it does.
Asks == {"nothing", "earlier", "last"}

Piece(r, part, asks) == [req |-> r, part |-> part, asks |-> asks]

\* A response, with what the request object it was prepared from asked for.
Response(c, r, asks) == [of |-> c, req |-> r, asks |-> asks]
Empty == Response(NoOne, 0, "nothing")

\* The text of the header in the request object: parseHeader splits the lines at
\* the newline only, so each but the last, which ends where the headers do, keeps
\* its carriage return.
getConnection(asks) == [nothing |-> "", earlier |-> "close\r", last |-> "close"][asks]

\* The Client object of a descriptor, if it has one.
Absent == [socket_mod |-> "absent", response |-> Empty]
NewClient == [socket_mod |-> "READ_M", response |-> Empty]

VARIABLES
    cpy_readfds, cpy_writefds,  \* what the loop waits for
    readfds, writefds,          \* what the last select left of them
    i,                          \* the loop variable of process
    map_clients,
    conn,                       \* the connection behind each descriptor
    backlog,                    \* connections not accepted yet
    gone,                       \* connections their client has closed
    hungup,                     \* connections the server has closed
    sent,                       \* requests begun by each client
    wire,                       \* pieces not read yet
    answers                     \* responses sent on each connection

books == <<cpy_readfds, cpy_writefds, map_clients, conn, hungup>>
pass == <<readfds, writefds>>
net == <<backlog, gone, sent, wire>>
vars == <<books, pass, i, net, answers>>

Used == {c \in Client : \E f \in ClientFd : conn[f] = c}
----------------------------------------------------------------------------
Init ==
    /\ cpy_readfds = {sock_server} /\ cpy_writefds = {}
    /\ readfds = {} /\ writefds = {} /\ i = Past
    /\ map_clients = [f \in ClientFd |-> Absent]
    /\ conn = [f \in ClientFd |-> NoOne]
    /\ backlog = {} /\ gone = {} /\ hungup = {}
    /\ sent = [c \in Client |-> 0]
    /\ wire = [c \in Client |-> <<>>]
    /\ answers = [c \in Client |-> <<>>]

(* The clients *)

Connect(c) ==
    /\ c \notin backlog \cup Used \cup gone \cup hungup
    /\ backlog' = backlog \cup {c}
    /\ UNCHANGED <<books, pass, i, gone, sent, wire, answers>>

MaySpeak(c) == c \in (backlog \cup Used) \ gone

SendRequest(c) ==
    /\ MaySpeak(c)
    /\ Cardinality({r \in Client \X (1 .. MaxRequests) : r[2] <= sent[r[1]]}) < MaxRequests
    /\ c \in Careful => Len(answers[c]) = sent[c]
    /\ sent' = [sent EXCEPT ![c] = @ + 1]
    /\ \E asks \in Asks :
          wire' = [wire EXCEPT ![c] =
                      @ \o <<Piece(sent'[c], "header", asks), Piece(sent'[c], "rest", asks)>>]
    /\ UNCHANGED <<books, pass, i, backlog, gone, answers>>

Close(c) ==
    /\ MaySpeak(c)
    /\ gone' = gone \cup {c}
    /\ UNCHANGED <<books, pass, i, backlog, sent, wire, answers>>

(* The server *)

Ready(f) ==
    IF f = sock_server THEN backlog # {}
    ELSE f \in ClientFd /\ conn[f] # NoOne /\ (wire[conn[f]] # <<>> \/ conn[f] \in gone)

Open(f) == f = sock_server \/ (f \in ClientFd /\ conn[f] # NoOne)

\* select keeps the descriptors that are ready; it fails, and keeps the sets
\* as they are, when one of them is not open.  A time-out with nothing ready
\* is a pass that does nothing.
Select ==
    /\ \A f \in readfds \cup writefds : f < i
    /\ IF \A f \in cpy_readfds \cup cpy_writefds : Open(f)
       THEN readfds' = {f \in cpy_readfds : Ready(f)}
       ELSE readfds' = cpy_readfds
    /\ writefds' = cpy_writefds
    /\ readfds' \cup writefds' # {}
    /\ i' = 0
    /\ UNCHANGED <<books, net, answers>>

\* process goes on to the next descriptor that is in one of the sets.
Visits(f) ==
    /\ f \in readfds \cup writefds
    /\ i <= f
    /\ \A g \in readfds \cup writefds : g < f => g < i
    /\ i' = f + 1
    /\ UNCHANGED pass

\* accept takes the lowest free descriptor.
Accept ==
    /\ sock_server \in readfds
    /\ Visits(sock_server)
    /\ \E c \in backlog, f \in ClientFd :
          /\ conn[f] = NoOne
          /\ \A g \in ClientFd : g < f => conn[g] # NoOne
          /\ backlog' = backlog \ {c}
          /\ conn' = [conn EXCEPT ![f] = c]
          /\ cpy_readfds' = cpy_readfds \cup {f}
          /\ map_clients' = [map_clients EXCEPT ![f] = IF @ = Absent THEN NewClient ELSE @]
    /\ UNCHANGED <<cpy_writefds, hungup, gone, sent, wire, answers>>

\* accept fails without a connection or a descriptor for it; the -1 it returns
\* is used all the same.
AcceptFails ==
    /\ sock_server \in readfds
    /\ Visits(sock_server)
    /\ backlog = {} \/ \A f \in ClientFd : conn[f] # NoOne
    /\ cpy_readfds' = cpy_readfds \cup {Stray}
    /\ UNCHANGED <<cpy_writefds, map_clients, conn, hungup, net, answers>>

\* close(i), both FD_CLR and the erase that every error path has.
Drop(f) ==
    /\ cpy_readfds' = cpy_readfds \ {f}
    /\ cpy_writefds' = cpy_writefds \ {f}
    /\ IF f \in ClientFd
       THEN /\ map_clients' = [map_clients EXCEPT ![f] = Absent]
            /\ hungup' = hungup \cup ({conn[f]} \ {NoOne})
            /\ conn' = [conn EXCEPT ![f] = NoOne]
       ELSE UNCHANGED <<map_clients, hungup, conn>>

\* recv returns 0 or -1: the client has closed, the descriptor is not open, or
\* nothing has arrived on a socket that does not block.
RecvEnds(f) ==
    /\ f \in readfds \ {sock_server}
    /\ Visits(f)
    /\ Open(f) => conn[f] \in gone \/ (Inherits /\ wire[conn[f]] = <<>>)
    /\ Drop(f)
    /\ UNCHANGED <<net, answers>>

\* What recv returned is taken for a request: whatever follows a whole one is
\* its body, and anything else is answered with an error.
Prepared(c, request) ==
    IF Len(request) >= 2 /\ request[1].part = "header"
    THEN Response(c, request[1].req, request[1].asks)
    ELSE Response(c, 0, "nothing")

\* Mutant of Recv: the descriptor stays in the read set.
RecvStaysReading(f) ==
    /\ f \in readfds \cap ClientFd
    /\ Visits(f)
    /\ conn[f] # NoOne
    /\ LET c == conn[f]
       IN  \E n \in 1 .. Len(wire[c]) :
              LET request == SubSeq(wire[c], 1, n)
              IN  /\ c \in Careful => n = Len(wire[c])
                  /\ wire' = [wire EXCEPT ![c] = SubSeq(@, n + 1, Len(@))]
                  /\ map_clients' = [map_clients EXCEPT ![f] =
                        [socket_mod |-> "WRITE_M", response |-> Prepared(c, request)]]
    /\ UNCHANGED cpy_readfds
    /\ cpy_writefds' = cpy_writefds \cup {f}
    /\ UNCHANGED <<conn, hungup, backlog, gone, sent, answers>>

\* recv returns something: the response is prepared at once.
Recv(f) ==
    /\ f \in readfds \cap ClientFd
    /\ Visits(f)
    /\ conn[f] # NoOne
    /\ LET c == conn[f]
       IN  \E n \in 1 .. Len(wire[c]) :
              LET request == SubSeq(wire[c], 1, n)
              IN  /\ c \in Careful => n = Len(wire[c])
                  /\ wire' = [wire EXCEPT ![c] = SubSeq(@, n + 1, Len(@))]
                  /\ map_clients' = [map_clients EXCEPT ![f] =
                        [socket_mod |-> "WRITE_M", response |-> Prepared(c, request)]]
    /\ cpy_readfds' = cpy_readfds \ {f}
    /\ cpy_writefds' = cpy_writefds \cup {f}
    /\ UNCHANGED <<conn, hungup, backlog, gone, sent, answers>>

\* A descriptor in both sets is read, not written, in this pass.
Writes(f) == f \in (writefds \ readfds) \cap ClientFd /\ Visits(f) /\ conn[f] # NoOne

\* Mutants of Send: the descriptor stays in the write set, does not return to
\* the read set, or is closed after every response.
SendStaysWriting(f) ==
    /\ Writes(f)
    /\ answers' = [answers EXCEPT ![conn[f]] = Append(@, map_clients[f].response)]
    /\ IF getConnection(map_clients[f].response.asks) = "close"
       THEN Drop(f)
       ELSE /\ UNCHANGED cpy_writefds
            /\ cpy_readfds' = cpy_readfds \cup {f}
            /\ map_clients' = [map_clients EXCEPT ![f].socket_mod = "READ_M"]
            /\ UNCHANGED <<conn, hungup>>
    /\ UNCHANGED net

SendStopsReading(f) ==
    /\ Writes(f)
    /\ answers' = [answers EXCEPT ![conn[f]] = Append(@, map_clients[f].response)]
    /\ IF getConnection(map_clients[f].response.asks) = "close"
       THEN Drop(f)
       ELSE /\ cpy_writefds' = cpy_writefds \ {f}
            /\ UNCHANGED cpy_readfds
            /\ map_clients' = [map_clients EXCEPT ![f].socket_mod = "READ_M"]
            /\ UNCHANGED <<conn, hungup>>
    /\ UNCHANGED net

SendCloses(f) ==
    /\ Writes(f)
    /\ answers' = [answers EXCEPT ![conn[f]] = Append(@, map_clients[f].response)]
    /\ IF map_clients[f].response # Empty
       THEN Drop(f)
       ELSE /\ cpy_writefds' = cpy_writefds \ {f}
            /\ cpy_readfds' = cpy_readfds \cup {f}
            /\ map_clients' = [map_clients EXCEPT ![f].socket_mod = "READ_M"]
            /\ UNCHANGED <<conn, hungup>>
    /\ UNCHANGED net

\* send takes the response; the connection is closed or waits for the next
\* request.
Send(f) ==
    /\ Writes(f)
    /\ answers' = [answers EXCEPT ![conn[f]] = Append(@, map_clients[f].response)]
    /\ IF getConnection(map_clients[f].response.asks) = "close"
       THEN Drop(f)
       ELSE /\ cpy_writefds' = cpy_writefds \ {f}
            /\ cpy_readfds' = cpy_readfds \cup {f}
            /\ map_clients' = [map_clients EXCEPT ![f].socket_mod = "READ_M"]
            /\ UNCHANGED <<conn, hungup>>
    /\ UNCHANGED net

\* send returns -1 on a connection its client has closed; SIGPIPE is handled.
SendFails(f) ==
    /\ Writes(f)
    /\ conn[f] \in gone
    /\ Drop(f)
    /\ UNCHANGED <<net, answers>>

Server ==
    \/ Select \/ Accept \/ AcceptFails
    \/ \E f \in Fd : RecvEnds(f) \/ Recv(f) \/ Send(f) \/ SendFails(f)

Environment == \E c \in Client : Connect(c) \/ SendRequest(c) \/ Close(c)

Next == Server \/ Environment

Spec == Init /\ [][Next]_vars

\* process is called for ever, and its calls return.
FairSpec == Spec /\ WF_vars(Server)
----------------------------------------------------------------------------
(* Properties *)

Responses == [of : Client \cup {NoOne}, req : Nat, asks : Asks]
Pieces == [req : Nat, part : {"header", "rest"}, asks : Asks]

\* Every variable has its type.
TypeOK ==
    /\ cpy_readfds \subseteq Fd /\ cpy_writefds \subseteq ClientFd
    /\ readfds \subseteq Fd /\ writefds \subseteq ClientFd
    /\ i \in 0 .. Past
    /\ map_clients \in [ClientFd -> [socket_mod : {"absent", "READ_M", "WRITE_M"},
                                     response : Responses]]
    /\ conn \in [ClientFd -> Client \cup {NoOne}]
    /\ backlog \subseteq Client /\ gone \subseteq Client /\ hungup \subseteq Client
    /\ sent \in [Client -> Nat]
    /\ wire \in [Client -> Seq(Pieces)]
    /\ answers \in [Client -> Seq(Responses)]

\* The sets, the map of clients and the kernel's descriptors agree: a connected
\* client has its object and is in the one set its mode calls for, a closed
\* descriptor is nowhere, and no pass has a stale descriptor ahead of it.
BooksAgree ==
    /\ \A f \in ClientFd \ {Stray} :
          /\ f \in cpy_readfds <=> map_clients[f].socket_mod = "READ_M"
          /\ f \in cpy_writefds <=> map_clients[f].socket_mod = "WRITE_M"
          /\ map_clients[f] = Absent <=> conn[f] = NoOne
    /\ \A f \in Fd \ {Stray} :
          i <= f => /\ f \in readfds => f \in cpy_readfds
                    /\ f \in writefds => f \in cpy_writefds

\* A connection gets answers to its own requests only, in order, each once, and
\* none after the answer to a request whose last header is "Connection: close"
\* (the same header before another one is not obeyed); a careful client gets one
\* for every request, in order.
AnswersMatch ==
    \A c \in Client : \A m \in 1 .. Len(answers[c]) :
        /\ answers[c][m].of = c
        /\ answers[c][m].req <= sent[c]
        /\ \A k \in 1 .. m - 1 :
              /\ answers[c][k].asks # "last"
              /\ answers[c][m].req # 0 => answers[c][k].req < answers[c][m].req
        /\ c \in Careful => answers[c][m].req = m

\* When sockets block, the server closes a connection only after its client
\* has, or after the answer to a request that ends with "Connection: close", even
\* in the passes that follow a failed accept, where no descriptor is known to be
\* ready.
HangsUpWithReason ==
    \A c \in hungup :
        ~Inherits => \/ c \in gone
                     \/ answers[c] # <<>> /\ answers[c][Len(answers[c])].asks = "last"

\* A careful client that stays is answered, whatever the others do, unless a
\* failed accept has left its mark in the read set.
CarefulAreAnswered ==
    \A c \in Careful, n \in 1 .. MaxRequests :
        sent[c] = n ~> (Len(answers[c]) >= n \/ c \in gone \/ Stray \in cpy_readfds)
============================================================================
