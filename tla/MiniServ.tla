------------------------------ MODULE MiniServ ------------------------------
(***************************************************************************)
(* The chat server mini_serv.c of exam rank 06: one thread around select,  *)
(* which registers clients, relays their lines to the others and announces *)
(* arrivals and departures.                                                *)
(*                                                                         *)
(* Each member of Client is one connection, used once; descriptors are     *)
(* reused.  A client sends tokens: 0 is a newline, any other number a      *)
(* piece of text.  TCP may hand them to recv in any pieces.  The clients,  *)
(* the kernel's descriptor table and the sockets are the environment.      *)
(***************************************************************************)
EXTENDS Integers, Sequences, FiniteSets

CONSTANTS Client,     \* the connections made to the server
          Prompt,     \* those that read at once: always writable
          MaxFd,      \* descriptors for clients are 1 .. MaxFd
          MaxTokens,  \* bound on the tokens the clients send together
          MallocFails \* allocations may fail

ASSUME PromptAssumption == Prompt \subseteq Client
ASSUME MaxFdAssumption == MaxFd \in Nat \ {0}

NoOne == "no one"
ASSUME NoOneAssumption == NoOne \notin Client

\* The listening socket is opened first, so its descriptor is the smallest.
sockfd == 0
ClientFd == 1 .. MaxFd
Fd == 0 .. MaxFd

VARIABLES
    afds, rfds, wfds,  \* the sets of descriptors
    max_fd, count,     \* the globals of the same names
    ids, msgs,         \* per descriptor: the client's id, its unfinished line
    next,              \* the loop variable fd; past every descriptor: select
    running,           \* the process is alive
    stalled,           \* the client that a blocked send waits for, or NoOne
    noMemory,          \* an allocation has failed
    log,               \* everything given to notify_other, in order
    missed,            \* clients connected that a message was not sent to
    conn,              \* the connection behind each descriptor, or NoOne
    backlog,           \* connections not accepted yet
    closed,            \* connections closed at the client's end
    said,              \* everything each client has sent
    wire               \* what of it recv has not returned yet

server == <<afds, rfds, wfds, max_fd, count, ids, msgs, next, stalled>>
clients == <<backlog, closed, said, wire>>
history == <<noMemory, log, missed>>
vars == <<server, running, history, conn, clients>>

Arrived(id) == [kind |-> "arrived", id |-> id, line |-> <<>>]
Departed(id) == [kind |-> "left", id |-> id, line |-> <<>>]
Said(id, line) == [kind |-> "said", id |-> id, line |-> line]

Past == MaxFd + 1
Used == {c \in Client : \E f \in ClientFd : conn[f] = c}
----------------------------------------------------------------------------
Init ==
    /\ afds = {sockfd} /\ rfds = {} /\ wfds = {}
    /\ max_fd = sockfd /\ count = 0
    /\ ids = [f \in ClientFd |-> 0]
    /\ msgs = [f \in ClientFd |-> <<>>]
    /\ next = Past
    /\ running = TRUE /\ stalled = NoOne
    /\ noMemory = FALSE /\ log = <<>> /\ missed = {}
    /\ conn = [f \in ClientFd |-> NoOne]
    /\ backlog = {} /\ closed = {}
    /\ said = [c \in Client |-> <<>>]
    /\ wire = [c \in Client |-> <<>>]

(* The clients *)

Connect(c) ==
    /\ c \notin backlog \cup Used \cup closed
    /\ backlog' = backlog \cup {c}
    /\ UNCHANGED <<server, running, history, conn, closed, said, wire>>

Speak(c) ==
    /\ c \in (backlog \cup Used) \ closed
    /\ Cardinality({t \in Client \X (1 .. MaxTokens) : t[2] <= Len(said[t[1]])})
         < MaxTokens
    /\ \E token \in {0, Len(said[c]) + 1} :
          /\ said' = [said EXCEPT ![c] = Append(@, token)]
          /\ wire' = [wire EXCEPT ![c] = Append(@, token)]
    /\ UNCHANGED <<server, running, history, conn, backlog, closed>>

Close(c) ==
    /\ c \in (backlog \cup Used) \ closed
    /\ closed' = closed \cup {c}
    /\ UNCHANGED <<server, running, history, conn, backlog, said, wire>>

(* The server *)

\* notify_other(author, ...) for each of the messages.  A client whose
\* descriptor is not in wfds is skipped.  Sending to a connection that its
\* client has closed may raise SIGPIPE, which nothing handles.  The sockets are
\* blocking: the buffer of a client that does not read may fill during the pass,
\* and then send waits.
Notify(author, messages) ==
    LET to == {f \in wfds \ {author} : f <= max_fd'}
    IN  /\ log' = log \o messages
        /\ missed' = IF messages = <<>> THEN missed
                     ELSE missed \cup {conn[f] : f \in afds \ (to \cup {author, sockfd})}
        /\ \/ /\ running' = TRUE
              /\ \/ stalled' = NoOne
                 \/ /\ messages # <<>>
                    /\ \E f \in to : /\ conn[f] \notin Prompt \cup closed
                                     /\ stalled' = conn[f]
           \/ /\ messages # <<>>
              /\ \E f \in to : conn[f] \in closed
              /\ running' = FALSE
              /\ stalled' = NoOne

\* The blocked send returns because the client reads, or fails because it has
\* closed; the sends that were to follow it may raise SIGPIPE as well.
SendReturns ==
    /\ running
    /\ stalled # NoOne
    /\ stalled' = NoOne
    /\ running' \in IF \E f \in wfds : conn[f] \in closed THEN BOOLEAN ELSE {TRUE}
    /\ UNCHANGED <<afds, rfds, wfds, max_fd, count, ids, msgs, next, history,
                   conn, clients>>

Readable(f) ==
    IF f = sockfd THEN backlog # {}
    ELSE wire[conn[f]] # <<>> \/ conn[f] \in closed

Scanned == \A f \in rfds : f < next

Select ==
    /\ running /\ stalled = NoOne
    /\ Scanned
    /\ rfds' = {f \in afds : Readable(f)}
    /\ wfds' \in {w \in SUBSET (afds \ {sockfd}) :
                    \A f \in afds \ {sockfd} : conn[f] \in Prompt => f \in w}
    /\ rfds' \cup wfds' # {}
    /\ next' = 0
    /\ UNCHANGED <<afds, max_fd, count, ids, msgs, running, stalled, history,
                   conn, clients>>

\* The next ready descriptor of the pass.
Handles(f) ==
    /\ running /\ stalled = NoOne
    /\ f \in rfds
    /\ f >= next
    /\ \A g \in rfds : g < f => g < next

\* Mutant of AcceptFails: the pass is left whether accept succeeds or not.
AcceptFailsBreak ==
    /\ Handles(sockfd)
    /\ \A f \in ClientFd : conn[f] # NoOne
    /\ next' = Past
    /\ UNCHANGED <<afds, rfds, wfds, max_fd, count, ids, msgs, running,
                   stalled, history, conn, clients>>

\* accept takes the lowest free descriptor, and fails when there is none.
AcceptFails ==
    /\ Handles(sockfd)
    /\ \A f \in ClientFd : conn[f] # NoOne
    /\ next' = sockfd + 1
    /\ UNCHANGED <<afds, rfds, wfds, max_fd, count, ids, msgs, running,
                   stalled, history, conn, clients>>

\* Mutants of Register: ids that follow the descriptor, and a buffer that is not
\* reset.
RegisterByFd(f) ==
    /\ max_fd' = IF f > max_fd THEN f ELSE max_fd
    /\ ids' = [ids EXCEPT ![f] = f]
    /\ count' = count + 1
    /\ msgs' = [msgs EXCEPT ![f] = <<>>]
    /\ afds' = afds \cup {f}
    /\ Notify(f, <<Arrived(f)>>)

RegisterOldBuffer(f) ==
    /\ max_fd' = IF f > max_fd THEN f ELSE max_fd
    /\ ids' = [ids EXCEPT ![f] = count]
    /\ count' = count + 1
    /\ UNCHANGED msgs
    /\ afds' = afds \cup {f}
    /\ Notify(f, <<Arrived(count)>>)

Register(f) ==
    /\ max_fd' = IF f > max_fd THEN f ELSE max_fd
    /\ ids' = [ids EXCEPT ![f] = count]
    /\ count' = count + 1
    /\ msgs' = [msgs EXCEPT ![f] = <<>>]
    /\ afds' = afds \cup {f}
    /\ Notify(f, <<Arrived(count)>>)

\* Mutant of Accept: the pass goes on after a registration.
AcceptNoBreak ==
    /\ Handles(sockfd)
    /\ \E c \in backlog, f \in ClientFd :
          /\ conn[f] = NoOne
          /\ \A g \in ClientFd : g < f => conn[g] # NoOne
          /\ conn' = [conn EXCEPT ![f] = c]
          /\ backlog' = backlog \ {c}
          /\ Register(f)
    /\ next' = sockfd + 1
    /\ UNCHANGED <<rfds, wfds, noMemory, closed, said, wire>>

Accept ==
    /\ Handles(sockfd)
    /\ \E c \in backlog, f \in ClientFd :
          /\ conn[f] = NoOne
          /\ \A g \in ClientFd : g < f => conn[g] # NoOne
          /\ conn' = [conn EXCEPT ![f] = c]
          /\ backlog' = backlog \ {c}
          /\ Register(f)
    /\ next' = Past
    /\ UNCHANGED <<rfds, wfds, noMemory, closed, said, wire>>

\* Mutant of Disconnect: the pass goes on.
DisconnectNoBreak(f) ==
    /\ Handles(f)
    /\ f # sockfd
    /\ conn[f] \in closed
    /\ afds' = afds \ {f}
    /\ conn' = [conn EXCEPT ![f] = NoOne]
    /\ UNCHANGED <<max_fd, rfds, wfds, count, ids, msgs, noMemory, clients>>
    /\ Notify(f, <<Departed(ids[f])>>)
    /\ next' = f + 1

\* recv returns 0 at the end of the stream, or -1 when closing has reset the
\* connection (what was left to read is lost then); either way the client is
\* removed and the pass is left.
Disconnect(f) ==
    /\ Handles(f)
    /\ f # sockfd
    /\ conn[f] \in closed
    /\ afds' = afds \ {f}
    /\ conn' = [conn EXCEPT ![f] = NoOne]
    /\ UNCHANGED <<max_fd, rfds, wfds, count, ids, msgs, noMemory, clients>>
    /\ Notify(f, <<Departed(ids[f])>>)
    /\ next' = Past

\* The complete lines at the front of a buffer, and what follows them.
Newlines(s) == {k \in 1 .. Len(s) : s[k] = 0}
LastNewline(s) == CHOOSE k \in Newlines(s) \cup {0} : \A j \in Newlines(s) : j <= k
NthNewline(s, n) ==
    IF n = 0 THEN 0
    ELSE CHOOSE k \in Newlines(s) :
            Cardinality({j \in Newlines(s) : j <= k}) = n
LinesOf(s) ==
    [n \in 1 .. Cardinality(Newlines(s)) |->
        SubSeq(s, NthNewline(s, n - 1) + 1, NthNewline(s, n))]
RestOf(s) == SubSeq(s, LastNewline(s) + 1, Len(s))

\* recv takes some of what has arrived, str_join adds it to the client's
\* unfinished line, send_msg relays every complete line.
Receive(f) ==
    /\ Handles(f)
    /\ f # sockfd
    /\ \E n \in 1 .. Len(wire[conn[f]]) :
          LET c == conn[f]
              joined == msgs[f] \o SubSeq(wire[c], 1, n)
              lines == LinesOf(joined)
          IN  /\ wire' = [wire EXCEPT ![c] = SubSeq(@, n + 1, Len(@))]
              /\ msgs' = [msgs EXCEPT ![f] = RestOf(joined)]
              /\ UNCHANGED <<max_fd, afds, rfds, wfds, count, ids, noMemory,
                             conn, backlog, closed, said>>
              /\ Notify(f, [k \in 1 .. Len(lines) |-> Said(ids[f], lines[k])])
    /\ next' = f + 1

\* malloc fails in str_join: the buffer becomes null, the bytes are lost.
ReceiveNoMemory(f) ==
    /\ MallocFails
    /\ Handles(f)
    /\ f # sockfd
    /\ \E n \in 1 .. Len(wire[conn[f]]) :
          wire' = [wire EXCEPT ![conn[f]] = SubSeq(@, n + 1, Len(@))]
    /\ msgs' = [msgs EXCEPT ![f] = <<>>]
    /\ noMemory' = TRUE
    /\ next' = f + 1
    /\ UNCHANGED <<afds, rfds, wfds, max_fd, count, ids, running, stalled, log,
                   missed, conn, backlog, closed, said>>

\* calloc fails in extract_message, whose -1 send_msg takes for a message: the
\* null pointer goes to strlen, and the process dies, unless there is nobody to
\* send it to (then extract_message is called again, as if nothing had failed).
\* What was sent just before that is left out.
ExtractFails(f) ==
    /\ MallocFails
    /\ Handles(f)
    /\ f # sockfd
    /\ \E g \in wfds \ {f} : g <= max_fd
    /\ \E n \in 1 .. Len(wire[conn[f]]) :
          /\ Newlines(msgs[f] \o SubSeq(wire[conn[f]], 1, n)) # {}
          /\ wire' = [wire EXCEPT ![conn[f]] = SubSeq(@, n + 1, Len(@))]
    /\ noMemory' = TRUE
    /\ running' = FALSE
    /\ UNCHANGED <<server, log, missed, conn, backlog, closed, said>>

Server ==
    \/ Select \/ AcceptFails \/ Accept
    \/ \E f \in ClientFd : \/ Disconnect(f) \/ Receive(f)
                            \/ ReceiveNoMemory(f) \/ ExtractFails(f)

\* Once the process is gone nothing the clients do matters to it.
Environment == running /\ \E c \in Client : Connect(c) \/ Speak(c) \/ Close(c)

Next == Server \/ SendReturns \/ Environment

Spec == Init /\ [][Next]_vars

\* The server is one thread that always gets to run.  Nothing makes a client read
\* what it is sent, but the send to a client that has closed does return.
FairSpec ==
    Spec /\ WF_vars(Server) /\ WF_vars(SendReturns /\ stalled \in closed)
----------------------------------------------------------------------------
(* Properties *)

\* 0, or the place of a piece of text in what its client sent.
Tokens == Nat

Message == [kind : {"arrived", "left", "said"}, id : Nat, line : Seq(Tokens)]

\* Every variable has its type.
TypeOK ==
    /\ afds \subseteq Fd /\ rfds \subseteq Fd /\ wfds \subseteq ClientFd
    /\ max_fd \in Fd /\ count \in Nat
    /\ ids \in [ClientFd -> Nat]
    /\ msgs \in [ClientFd -> Seq(Tokens)]
    /\ next \in 0 .. Past
    /\ running \in BOOLEAN /\ noMemory \in BOOLEAN
    /\ stalled \in Client \cup {NoOne}
    /\ log \in Seq(Message)
    /\ missed \subseteq Client
    /\ conn \in [ClientFd -> Client \cup {NoOne}]
    /\ backlog \subseteq Client /\ closed \subseteq Client
    /\ said \in [Client -> Seq(Tokens)]
    /\ wire \in [Client -> Seq(Tokens)]

\* While a pass is under way its sets are those of the clients still
\* connected: the breaks after register_client and remove_client leave the
\* pass before a descriptor that was opened or closed in it is looked at.
PassIsCurrent ==
    /\ afds = {sockfd} \cup {f \in ClientFd : conn[f] # NoOne}
    /\ ~Scanned => rfds \cup wfds \subseteq afds

\* A client that reads at once is told everything the others cause while it
\* is connected, although notify_other uses a set computed before the pass.
PromptMissNothing == missed \cap Prompt = {}

\* What the messages relay of the client with an id, one line after the other.
Heard(messages, id) ==
    LET heard[k \in 0 .. Len(messages)] ==
            IF k = 0 THEN <<>>
            ELSE IF messages[k].kind = "said" /\ messages[k].id = id
                 THEN heard[k - 1] \o messages[k].line
                 ELSE heard[k - 1]
    IN  heard[Len(messages)]

\* What recv returned in pieces comes out whole, in order and only once,
\* under the id of the client that sent it.
StreamIntact ==
    ~noMemory =>
        \A f \in ClientFd :
            conn[f] # NoOne =>
                said[conn[f]] = Heard(log, ids[f]) \o msgs[f] \o wire[conn[f]]

\* Arrivals are announced with the ids 0, 1, 2..., each once; no message bears
\* an id before its arrival or after its departure was announced, whatever
\* descriptors were reused.
IdsFollowArrivals ==
    \A k \in 1 .. Len(log) :
        /\ log[k].kind = "arrived" =>
              \A id \in 0 .. count :
                  id < log[k].id <=> \E j \in 1 .. k - 1 : log[j] = Arrived(id)
        /\ \E j \in 1 .. k : log[j] = Arrived(log[k].id)
        /\ \A j \in 1 .. k - 1 : log[j] # Departed(log[k].id)

\* What a client has sent is read in the end, whatever the other clients send
\* and even when connections that cannot be accepted keep the listening socket
\* ready; only a client that stays connected and never reads can prevent it, once
\* a send has blocked on it.
ClientsAreServed ==
    \A c \in Client :
        (c \in Used /\ wire[c] # <<>>)
            ~> \/ wire[c] = <<>> \/ c \notin Used \/ ~running
               \/ [](stalled \in Client \ (Prompt \cup closed))

\* The subject: messages are sent to all the other clients that are
\* connected, and a client that does not read must stay connected.
AllAreTold == missed = {}
============================================================================
