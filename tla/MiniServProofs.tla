--------------------------- MODULE MiniServProofs ---------------------------
(***************************************************************************)
(* Proofs about MiniServ for every set of clients and every number of      *)
(* descriptors: a pass over the descriptors never acts on a stale set, so  *)
(* a client that reads at once misses nothing; the ids in the messages     *)
(* follow arrivals and departures; and what clients send is relayed whole. *)
(***************************************************************************)
EXTENDS MiniServ, FiniteSetTheorems, SequenceTheorems, WellFoundedInduction, TLAPS

USE PromptAssumption, MaxFdAssumption, NoOneAssumption

----------------------------------------------------------------------------
(* The sets of a pass *)

\* What makes PassIsCurrent inductive, with what the current pass owes to the
\* clients that read at once.
PassInv ==
    /\ conn \in [ClientFd -> Client \cup {NoOne}]
    /\ backlog \subseteq Client
    /\ rfds \subseteq Fd
    /\ next \in 0 .. Past
    /\ max_fd \in Fd
    /\ \A f \in afds : f <= max_fd
    /\ PassIsCurrent
    /\ ~Scanned => \A f \in ClientFd : conn[f] \in Prompt => f \in wfds
    /\ PromptMissNothing

\* A message sent during a pass reaches every client that reads at once.
LEMMA NotifyReachesPrompt ==
    ASSUME PassInv, ~Scanned, NEW author, NEW messages,
           Notify(author, messages),
           max_fd' \in Fd, max_fd <= max_fd'
    PROVE  missed' \cap Prompt = {}
<1> DEFINE to == {f \in wfds \ {author} : f <= max_fd'}
<1>1. ASSUME NEW f \in afds \ (to \cup {author, sockfd}), conn[f] \in Prompt
      PROVE  FALSE
  <2>1. f \in ClientFd
    BY <1>1 DEF PassInv, PassIsCurrent
  <2>2. f \in wfds
    BY <1>1, <2>1 DEF PassInv
  <2>3. f <= max_fd'
    BY <1>1, <2>1 DEF PassInv, ClientFd, Fd
  <2> QED
    BY <1>1, <2>2, <2>3
<1>2. missed' \subseteq missed \cup {conn[f] : f \in afds \ (to \cup {author, sockfd})}
  BY DEF Notify
<1> QED
  BY <1>1, <1>2 DEF PassInv, PromptMissNothing

\* A handler runs during a pass only.
LEMMA HandlesInPass ==
    ASSUME NEW f \in Fd, Handles(f), next \in 0 .. Past
    PROVE  ~Scanned
  BY DEF Handles, Scanned, Fd, Past

\* Every step of the server preserves PassInv.
LEMMA PassInvServer == PassInv /\ Server => PassInv'
<1> SUFFICES ASSUME PassInv, Server PROVE PassInv'
  OBVIOUS
<1> USE DEF clients, history
<1>1. sockfd \in Fd /\ ClientFd \subseteq Fd /\ sockfd \notin ClientFd
  BY DEF sockfd, Fd, ClientFd
<1>2. CASE Select
  BY <1>1, <1>2 DEF Select, PassInv, PassIsCurrent, PromptMissNothing, Past
<1>3. CASE AcceptFails
  <2>1. ~Scanned
    BY <1>1, <1>3, HandlesInPass DEF AcceptFails, PassInv
  <2> QED
    BY <1>3, <2>1
    DEF AcceptFails, PassInv, PassIsCurrent, PromptMissNothing, sockfd, Past
<1>4. CASE Accept
  <2>1. ~Scanned
    BY <1>1, <1>4, HandlesInPass DEF Accept, PassInv
  <2>2. PICK c \in backlog, f \in ClientFd :
            /\ conn[f] = NoOne
            /\ conn' = [conn EXCEPT ![f] = c]
            /\ Register(f)
    BY <1>4 DEF Accept
  <2>3. PICK m : Notify(f, m)
    BY <2>2 DEF Register
  <2>4. max_fd' \in Fd /\ max_fd <= max_fd' /\ f <= max_fd'
    BY <2>2 DEF Register, PassInv, Fd, ClientFd
  <2>5. missed' \cap Prompt = {}
    BY <2>1, <2>3, <2>4, NotifyReachesPrompt
  <2>6. conn' \in [ClientFd -> Client \cup {NoOne}]
    BY <2>2 DEF PassInv
  <2>7. afds' = {sockfd} \cup {g \in ClientFd : conn'[g] # NoOne}
    <3>1. afds' = afds \cup {f}
      BY <2>2 DEF Register
    <3>2. c # NoOne
      BY <2>2 DEF PassInv
    <3> QED
      BY <2>2, <3>1, <3>2 DEF PassInv, PassIsCurrent
  <2>8. \A g \in afds' : g <= max_fd'
    <3>1. afds' = afds \cup {f} /\ afds \subseteq Fd
      BY <1>1, <2>2 DEF Register, PassInv, PassIsCurrent
    <3> QED
      BY <2>4, <3>1 DEF PassInv, Fd
  <2>9. rfds' = rfds /\ next' = Past /\ backlog' \subseteq Client
    BY <1>4 DEF Accept, PassInv
  <2>10. Scanned'
    BY <2>9 DEF Scanned, PassInv, Fd, Past
  <2> QED
    BY <2>4, <2>5, <2>6, <2>7, <2>8, <2>9, <2>10
    DEF PassInv, PassIsCurrent, PromptMissNothing, Past
<1>5. ASSUME NEW f \in ClientFd, Disconnect(f) PROVE PassInv'
  <2>1. ~Scanned
    BY <1>1, <1>5, HandlesInPass DEF Disconnect, PassInv
  <2>2. PICK m : Notify(f, m)
    BY <1>5 DEF Disconnect
  <2>3. missed' \cap Prompt = {}
    BY <1>5, <2>1, <2>2, NotifyReachesPrompt DEF Disconnect, PassInv, Fd
  <2>4. conn' = [conn EXCEPT ![f] = NoOne] /\ afds' = afds \ {f}
    BY <1>5 DEF Disconnect
  <2>5. afds' = {sockfd} \cup {g \in ClientFd : conn'[g] # NoOne}
    BY <1>1, <2>4 DEF PassInv, PassIsCurrent
  <2>6. /\ rfds' = rfds /\ next' = Past /\ backlog' = backlog
        /\ max_fd' = max_fd
    BY <1>5 DEF Disconnect
  <2>7. Scanned'
    BY <2>6 DEF Scanned, PassInv, Fd, Past
  <2> QED
    BY <2>3, <2>4, <2>5, <2>6, <2>7
    DEF PassInv, PassIsCurrent, PromptMissNothing, Past
<1>6. ASSUME NEW f \in ClientFd, Receive(f) PROVE PassInv'
  <2>1. ~Scanned
    BY <1>1, <1>6, HandlesInPass DEF Receive, PassInv
  <2>2. PICK m : Notify(f, m)
    BY <1>6 DEF Receive
  <2>3. /\ UNCHANGED <<max_fd, afds, rfds, wfds, conn, backlog>>
        /\ next' = f + 1
    BY <1>6 DEF Receive
  <2>4. missed' \cap Prompt = {}
    BY <2>1, <2>2, <2>3, NotifyReachesPrompt DEF PassInv, Fd
  <2>5. next' \in 0 .. Past
    BY <2>3 DEF ClientFd, Past
  <2> QED
    BY <2>1, <2>3, <2>4, <2>5 DEF PassInv, PassIsCurrent, PromptMissNothing
<1>7. ASSUME NEW f \in ClientFd, ReceiveNoMemory(f) PROVE PassInv'
  <2>1. ~Scanned
    BY <1>1, <1>7, HandlesInPass DEF ReceiveNoMemory, PassInv
  <2>2. next' \in 0 .. Past
    BY <1>7 DEF ReceiveNoMemory, ClientFd, Past
  <2> QED
    BY <1>7, <2>1, <2>2
    DEF ReceiveNoMemory, PassInv, PassIsCurrent, PromptMissNothing
<1>8. ASSUME NEW f \in ClientFd, ExtractFails(f) PROVE PassInv'
  BY <1>8
  DEF ExtractFails, PassInv, PassIsCurrent, PromptMissNothing, Scanned, server
<1> QED
  BY <1>2, <1>3, <1>4, <1>5, <1>6, <1>7, <1>8 DEF Server

\* So does everything else.
LEMMA PassInvOther ==
    ASSUME PassInv, SendReturns \/ Environment \/ UNCHANGED vars
    PROVE  PassInv'
<1>1. CASE SendReturns
  BY <1>1
  DEF SendReturns, history, clients, PassInv, PassIsCurrent, PromptMissNothing,
      Scanned
<1>2. CASE Environment
  <2>1. /\ UNCHANGED <<conn, rfds, wfds, afds, next, max_fd, missed>>
        /\ backlog' \subseteq Client
    BY <1>2
    DEF Environment, Connect, Speak, Close, server, history, PassInv
  <2> QED
    BY <2>1 DEF PassInv, PassIsCurrent, PromptMissNothing, Scanned
<1>3. CASE UNCHANGED vars
  BY <1>3
  DEF vars, server, history, clients, PassInv, PassIsCurrent,
      PromptMissNothing, Scanned
<1> QED
  BY <1>1, <1>2, <1>3

\* PassInv holds in every reachable state.
LEMMA PassInvInvariant == Spec => []PassInv
<1>1. Init => PassInv
  BY DEF Init, PassInv, PassIsCurrent, PromptMissNothing, Scanned, sockfd,
     Fd, ClientFd, Past
<1>2. PassInv /\ [Next]_vars => PassInv'
  BY PassInvServer, PassInvOther DEF Next
<1> QED
  BY <1>1, <1>2, PTL DEF Spec

\* The sets a pass works with are never stale.
THEOREM PassesAreCurrent == Spec => []PassIsCurrent
  BY PassInvInvariant, PTL DEF PassInv

\* Clients that read at once miss no message.
THEOREM NothingIsMissed == Spec => []PromptMissNothing
  BY PassInvInvariant, PTL DEF PassInv
-----------------------------------------------------------------------------
(* The lines of a buffer *)

\* A set of natural numbers has a smallest element, and a greatest if it is
\* bounded.
LEMMA Smallest ==
    ASSUME NEW T, T \subseteq Nat, T # {}
    PROVE  \E x \in T : \A y \in T : x <= y
<1> DEFINE R == OpToRel(<, Nat)
<1>1. IsWellFoundedOn(R, Nat)
  BY NatLessThanWellFounded
<1>2. \A x, y \in Nat : x < y => <<x, y>> \in R
  BY DEF OpToRel
<1> HIDE DEF R
<1>3. PICK x \in T : \A y \in T : ~ (<<y, x>> \in R)
  BY <1>1, WFMin
<1>4. ASSUME NEW y \in T PROVE x <= y
  <2>1. x \in Nat /\ y \in Nat /\ ~ (y < x)
    BY <1>2, <1>3
  <2> QED BY <2>1
<1> QED BY <1>4

LEMMA Greatest ==
    ASSUME NEW n \in Nat, NEW T, T \subseteq 0 .. n, T # {}
    PROVE  \E x \in T : \A y \in T : y <= x
<1> DEFINE U == {n - x : x \in T}
<1>1. U \subseteq Nat /\ U # {}
  <2>1. \A x \in T : n - x \in Nat
    OBVIOUS
  <2>2. PICK x \in T : TRUE
    OBVIOUS
  <2> QED BY <2>1, <2>2
<1> HIDE DEF U
<1>2. PICK u \in U : \A v \in U : u <= v
  BY <1>1, Smallest
<1>3. PICK x \in T : u = n - x
  BY DEF U
<1>4. ASSUME NEW y \in T PROVE y <= x
  <2>1. u <= n - y
    BY <1>2 DEF U
  <2> QED BY <1>3, <2>1
<1> QED BY <1>4

\* The newlines among the first n tokens.
Upto(s, n) == {j \in Newlines(s) : j <= n}

LEMMA Counts ==
    ASSUME NEW s \in Seq(Tokens), NEW n \in Nat
    PROVE  /\ IsFiniteSet(Upto(s, n)) /\ Cardinality(Upto(s, n)) \in Nat
           /\ n + 1 \in Newlines(s) =>
                 Cardinality(Upto(s, n + 1)) = Cardinality(Upto(s, n)) + 1
           /\ n + 1 \notin Newlines(s) => Upto(s, n + 1) = Upto(s, n)
<1>1. Newlines(s) \subseteq 1 .. Len(s) /\ Len(s) \in Nat
  BY LenProperties DEF Newlines
<1>2. IsFiniteSet(1 .. Len(s))
  BY <1>1, FS_Interval
<1>3. IsFiniteSet(Upto(s, n))
  BY <1>1, <1>2, FS_Subset DEF Upto
<1>4. Cardinality(Upto(s, n)) \in Nat
  BY <1>3, FS_CardinalityType
<1>5. ASSUME n + 1 \in Newlines(s)
      PROVE  Cardinality(Upto(s, n + 1)) = Cardinality(Upto(s, n)) + 1
  <2>1. Upto(s, n + 1) = Upto(s, n) \cup {n + 1}
    BY <1>1, <1>5 DEF Upto
  <2>2. n + 1 \notin Upto(s, n)
    BY DEF Upto
  <2> QED BY <1>3, <2>1, <2>2, FS_AddElement
<1>6. ASSUME n + 1 \notin Newlines(s) PROVE Upto(s, n + 1) = Upto(s, n)
  BY <1>1, <1>6 DEF Upto
<1> QED BY <1>3, <1>4, <1>5, <1>6

\* The n-th newline is there, for every n up to their number.
LEMMA NthIs ==
    ASSUME NEW s \in Seq(Tokens), NEW n \in Nat, n <= Cardinality(Newlines(s))
    PROVE  /\ NthNewline(s, n) \in 0 .. Len(s)
           /\ n # 0 => NthNewline(s, n) \in Newlines(s)
           /\ Cardinality(Upto(s, NthNewline(s, n))) = n
<1>1. Newlines(s) \subseteq 1 .. Len(s) /\ Len(s) \in Nat
  BY LenProperties DEF Newlines
<1>2. CASE n = 0
  <2>1. NthNewline(s, n) = 0 /\ Upto(s, 0) = {}
    BY <1>1, <1>2 DEF NthNewline, Upto
  <2>2. Cardinality({}) = 0
    BY FS_EmptySet
  <2>3. 0 \in 0 .. Len(s)
    BY <1>1
  <2>4. Cardinality(Upto(s, NthNewline(s, n))) = n
    BY <1>2, <2>1, <2>2
  <2> QED BY <1>2, <2>1, <2>3, <2>4
<1>3. CASE n # 0
  <2> DEFINE T == {k \in Nat : Cardinality(Upto(s, k)) >= n}
  <2>1. T \subseteq Nat /\ T # {}
    <3>1. Upto(s, Len(s)) = Newlines(s)
      BY <1>1 DEF Upto
    <3> QED BY <1>1, <3>1
  <2> HIDE DEF T
  <2>2. PICK k \in T : \A m \in T : k <= m
    BY <2>1, Smallest
  <2>3. k \in Nat /\ Cardinality(Upto(s, k)) >= n
    BY DEF T
  <2>4. k # 0
    <3>1. Upto(s, 0) = {}
      BY <1>1 DEF Upto
    <3>2. Cardinality(Upto(s, 0)) = 0
      BY <3>1, FS_EmptySet
    <3> QED BY <1>3, <2>3, <3>2
  <2>5. k - 1 \in Nat /\ (k - 1) + 1 = k
    BY <2>3, <2>4
  <2>6. k - 1 \notin T
    BY <2>2, <2>3
  <2>7. Cardinality(Upto(s, k - 1)) \in Nat /\ Cardinality(Upto(s, k - 1)) < n
    <3>1. Cardinality(Upto(s, k - 1)) \in Nat
      BY <2>5, Counts
    <3>2. ~ (Cardinality(Upto(s, k - 1)) >= n)
      BY <2>5, <2>6 DEF T
    <3> QED BY <3>1, <3>2
  <2>8. k \in Newlines(s)
    <3>1. k \notin Newlines(s) => Upto(s, k) = Upto(s, k - 1)
      BY <2>5, Counts
    <3> QED BY <2>3, <2>7, <3>1
  <2>9. Cardinality(Upto(s, k)) = n
    <3>1. Cardinality(Upto(s, k)) = Cardinality(Upto(s, k - 1)) + 1
      BY <2>5, <2>8, Counts
    <3> QED BY <2>3, <2>7, <3>1
  <2>10. /\ NthNewline(s, n) \in Newlines(s)
         /\ Cardinality(Upto(s, NthNewline(s, n))) = n
    <3>1. NthNewline(s, n)
             = CHOOSE x \in Newlines(s) : Cardinality(Upto(s, x)) = n
      BY <1>3 DEF NthNewline, Upto
    <3> QED BY <2>8, <2>9, <3>1
  <2> QED BY <1>1, <2>10
<1> QED BY <1>2, <1>3

LEMMA LinesType ==
    ASSUME NEW s \in Seq(Tokens)
    PROVE  LinesOf(s) \in Seq(Seq(Tokens)) /\ RestOf(s) \in Seq(Tokens)
<1>1. /\ Newlines(s) \subseteq 1 .. Len(s) /\ Len(s) \in Nat
      /\ \A k \in 1 .. Len(s) : s[k] \in Tokens
  BY LenProperties, ElementOfSeq DEF Newlines
<1>2. Cardinality(Newlines(s)) \in Nat
  <2>1. IsFiniteSet(1 .. Len(s))
    BY <1>1, FS_Interval
  <2>2. IsFiniteSet(Newlines(s))
    BY <1>1, <2>1, FS_Subset
  <2> QED BY <2>2, FS_CardinalityType
<1>3. ASSUME NEW n \in 1 .. Cardinality(Newlines(s))
      PROVE  SubSeq(s, NthNewline(s, n - 1) + 1, NthNewline(s, n)) \in Seq(Tokens)
  <2>1. NthNewline(s, n - 1) \in 0 .. Len(s) /\ NthNewline(s, n) \in 0 .. Len(s)
    <3>1. n - 1 \in Nat /\ n \in Nat /\ n - 1 <= Cardinality(Newlines(s))
          /\ n <= Cardinality(Newlines(s))
      BY <1>2
    <3> QED BY <3>1, NthIs
  <2> DEFINE a == NthNewline(s, n - 1) + 1
             b == NthNewline(s, n)
  <2>2. a \in Int /\ b \in Int /\ \A k \in a .. b : s[k] \in Tokens
    BY <1>1, <2>1
  <2> HIDE DEF a, b
  <2>3. SubSeq(s, a, b) \in Seq(Tokens)
    BY <2>2, SubSeqProperties
  <2> QED BY <2>3 DEF a, b
<1>4. LinesOf(s) \in Seq(Seq(Tokens))
  <2> DEFINE N == Cardinality(Newlines(s))
  <2>1. LinesOf(s) \in [1 .. N -> Seq(Tokens)]
    BY <1>3 DEF LinesOf
  <2>2. N \in Nat
    BY <1>2
  <2> HIDE DEF N
  <2> QED BY <2>1, <2>2, SeqDef
<1>5. RestOf(s) \in Seq(Tokens)
  <2>1. LastNewline(s) \in 0 .. Len(s)
    <3>1. PICK k \in Newlines(s) \cup {0} : \A j \in Newlines(s) \cup {0} : j <= k
      <4>1. Newlines(s) \cup {0} \subseteq 0 .. Len(s)
        BY <1>1
      <4> QED BY <1>1, <4>1, Greatest
    <3>2. LastNewline(s) \in Newlines(s) \cup {0}
      BY <3>1 DEF LastNewline
    <3> QED BY <1>1, <3>2
  <2> DEFINE a == LastNewline(s) + 1
  <2>2. a \in Int /\ \A k \in a .. Len(s) : s[k] \in Tokens
    BY <1>1, <2>1
  <2> HIDE DEF a
  <2>3. SubSeq(s, a, Len(s)) \in Seq(Tokens)
    BY <1>1, <2>2, SubSeqProperties
  <2> QED BY <2>3 DEF RestOf, a
<1> QED BY <1>4, <1>5
\* What recv takes from a stream, and what it leaves.
LEMMA PiecesType ==
    ASSUME NEW buffer \in Seq(Tokens), NEW stream \in Seq(Tokens),
           NEW n \in 1 .. Len(stream)
    PROVE  /\ buffer \o SubSeq(stream, 1, n) \in Seq(Tokens)
           /\ SubSeq(stream, n + 1, Len(stream)) \in Seq(Tokens)
<1>1. Len(stream) \in Nat /\ \A k \in 1 .. Len(stream) : stream[k] \in Tokens
  BY LenProperties, ElementOfSeq
<1>2. SubSeq(stream, 1, n) \in Seq(Tokens)
  <2>1. 1 \in Int /\ n \in Int /\ \A k \in 1 .. n : stream[k] \in Tokens
    BY <1>1
  <2> QED BY <2>1, SubSeqProperties
<1>3. SubSeq(stream, n + 1, Len(stream)) \in Seq(Tokens)
  <2>1. /\ n + 1 \in Int /\ Len(stream) \in Int
        /\ \A k \in n + 1 .. Len(stream) : stream[k] \in Tokens
    BY <1>1
  <2> QED BY <2>1, SubSeqProperties
<1> QED BY <1>2, <1>3, ConcatProperties

-----------------------------------------------------------------------------
(* Types *)

Sets ==
    /\ afds \subseteq Fd /\ rfds \subseteq Fd /\ wfds \subseteq ClientFd
    /\ missed \subseteq Client /\ backlog \subseteq Client /\ closed \subseteq Client
Numbers == max_fd \in Fd /\ count \in Nat /\ next \in 0 .. Past
Tables ==
    /\ ids \in [ClientFd -> Nat]
    /\ msgs \in [ClientFd -> Seq(Tokens)]
    /\ conn \in [ClientFd -> Client \cup {NoOne}]
    /\ said \in [Client -> Seq(Tokens)]
    /\ wire \in [Client -> Seq(Tokens)]
Bools ==
    running \in BOOLEAN /\ noMemory \in BOOLEAN /\ stalled \in Client \cup {NoOne}

TInv == Sets /\ Numbers /\ Tables /\ Bools /\ log \in Seq(Message)

LEMMA TypesAre == TInv => TypeOK
  BY DEF TInv, Sets, Numbers, Tables, Bools, TypeOK

LEMMA MessageTypes ==
    \A id \in Nat : /\ Arrived(id) \in Message /\ Departed(id) \in Message
                    /\ \A line \in Seq(Tokens) : Said(id, line) \in Message
<1>1. <<>> \in Seq(Tokens)
  OBVIOUS
<1> QED BY <1>1 DEF Arrived, Departed, Said, Message

LEMMA EmptyLine == <<>> \in Seq(Tokens)
  OBVIOUS

\* What notify_other leaves.
LEMMA NotifyTypes ==
    ASSUME PassInv, TInv, NEW author, NEW messages \in Seq(Message),
           Notify(author, messages)
    PROVE  /\ log' \in Seq(Message) /\ missed' \subseteq Client
           /\ running' \in BOOLEAN /\ stalled' \in Client \cup {NoOne}
<1>1. log' \in Seq(Message)
  <2>1. log' = log \o messages
    BY DEF Notify
  <2> QED BY <2>1, ConcatProperties DEF TInv
<1>2. missed' \subseteq missed \cup {conn[f] : f \in afds \ {sockfd}}
  BY DEF Notify
<1>3. \A f \in afds \ {sockfd} : conn[f] \in Client
  BY DEF PassInv, PassIsCurrent, TInv, Tables
<1>4. running' \in BOOLEAN
  BY DEF Notify
<1>5. stalled' \in Client \cup {NoOne}
  BY DEF Notify, TInv, Sets, Tables
<1> QED BY <1>1, <1>2, <1>3, <1>4, <1>5 DEF TInv, Sets

\* A descriptor that a pass handles has a client.
LEMMA HandlesClient ==
    ASSUME PassInv, NEW f \in ClientFd, Handles(f)
    PROVE  ~Scanned /\ conn[f] \in Client
<1>1. f \in Fd /\ f # sockfd
  BY DEF Fd, ClientFd, sockfd
<1>2. ~Scanned
  BY <1>1, HandlesInPass DEF PassInv
<1>3. f \in afds
  BY <1>2 DEF Handles, PassInv, PassIsCurrent
<1> QED BY <1>1, <1>2, <1>3 DEF PassInv, PassIsCurrent

LEMMA TypesStep ==
    ASSUME PassInv, TInv, [Next]_vars
    PROVE  TInv'
<1> USE DEF clients, history, server
<1>1. PassInv'
  <2>1. CASE Server
    BY <2>1, PassInvServer
  <2>2. CASE ~Server
    BY <2>2, PassInvOther DEF Next
  <2> QED BY <2>1, <2>2
<1>2. rfds' \subseteq Fd /\ next' \in 0 .. Past /\ max_fd' \in Fd
      /\ backlog' \subseteq Client /\ conn' \in [ClientFd -> Client \cup {NoOne}]
  BY <1>1 DEF PassInv
<1>3. sockfd \in Fd /\ ClientFd \subseteq Fd /\ sockfd \notin ClientFd
  BY DEF sockfd, Fd, ClientFd
<1>4. afds' \subseteq Fd /\ afds' \ {sockfd} \subseteq ClientFd
      /\ afds \ {sockfd} \subseteq ClientFd
  BY <1>1, <1>3 DEF PassInv, PassIsCurrent
<1>5. CASE Environment
  <2>1. UNCHANGED <<wfds, missed, count, ids, msgs, running, stalled, noMemory, log>>
    BY <1>5 DEF Environment, Connect, Speak, Close
  <2>2. closed' \subseteq Client
    BY <1>5 DEF Environment, Connect, Speak, Close, TInv, Sets
  <2>3. said' \in [Client -> Seq(Tokens)] /\ wire' \in [Client -> Seq(Tokens)]
    <3>1. ASSUME NEW c \in Client, Speak(c)
          PROVE  said' \in [Client -> Seq(Tokens)] /\ wire' \in [Client -> Seq(Tokens)]
      <4>1. PICK token \in {0, Len(said[c]) + 1} :
                /\ said' = [said EXCEPT ![c] = Append(@, token)]
                /\ wire' = [wire EXCEPT ![c] = Append(@, token)]
        BY <3>1 DEF Speak
      <4>2. said[c] \in Seq(Tokens) /\ wire[c] \in Seq(Tokens)
        BY DEF TInv, Tables
      <4>3. token \in Tokens
        BY <4>2, LenProperties DEF Tokens
      <4>4. Append(said[c], token) \in Seq(Tokens) /\ Append(wire[c], token) \in Seq(Tokens)
        BY <4>2, <4>3, AppendProperties
      <4> QED BY <4>1, <4>4 DEF TInv, Tables
    <3>2. ASSUME NEW c \in Client, Connect(c) \/ Close(c) PROVE UNCHANGED <<said, wire>>
      BY <3>2 DEF Connect, Close
    <3>3. UNCHANGED <<said, wire>> =>
              said' \in [Client -> Seq(Tokens)] /\ wire' \in [Client -> Seq(Tokens)]
      BY DEF TInv, Tables
    <3> QED BY <1>5, <3>1, <3>2, <3>3 DEF Environment
  <2> QED BY <1>2, <1>4, <2>1, <2>2, <2>3 DEF TInv, Sets, Numbers, Tables, Bools
<1>6. CASE Select
  <2>1. wfds' \subseteq ClientFd
    BY <1>4, <1>6 DEF Select
  <2>2. UNCHANGED <<missed, closed, count, ids, msgs, said, wire, running, stalled,
                 noMemory, log>>
    BY <1>6 DEF Select
  <2> QED BY <1>2, <1>4, <2>1, <2>2 DEF TInv, Sets, Numbers, Tables, Bools
<1>7. CASE AcceptFails
  BY <1>2, <1>4, <1>7 DEF AcceptFails, TInv, Sets, Numbers, Tables, Bools
<1>8. CASE Accept
  <2>1. PICK f \in ClientFd : Register(f)
    BY <1>8 DEF Accept
  <2>2. /\ ids' = [ids EXCEPT ![f] = count] /\ count' = count + 1
        /\ msgs' = [msgs EXCEPT ![f] = <<>>]
        /\ Notify(f, <<Arrived(count)>>)
    BY <2>1 DEF Register
  <2>3. count' \in Nat /\ ids' \in [ClientFd -> Nat] /\ msgs' \in [ClientFd -> Seq(Tokens)]
    BY <2>2 DEF TInv, Numbers, Tables
  <2>4. <<Arrived(count)>> \in Seq(Message)
    BY MessageTypes DEF TInv, Numbers
  <2>5. /\ log' \in Seq(Message) /\ missed' \subseteq Client
        /\ running' \in BOOLEAN /\ stalled' \in Client \cup {NoOne}
    BY <2>2, <2>4, NotifyTypes
  <2>6. UNCHANGED <<wfds, noMemory, closed, said, wire>>
    BY <1>8 DEF Accept
  <2> QED BY <1>2, <1>4, <2>3, <2>5, <2>6 DEF TInv, Sets, Numbers, Tables, Bools
<1>9. ASSUME NEW f \in ClientFd, Disconnect(f) PROVE TInv'
  <2>1. /\ Notify(f, <<Departed(ids[f])>>)
        /\ UNCHANGED <<wfds, count, ids, msgs, noMemory, closed, said, wire>>
    BY <1>9 DEF Disconnect
  <2>2. <<Departed(ids[f])>> \in Seq(Message)
    <3>1. ids[f] \in Nat
      BY DEF TInv, Tables
    <3> QED BY <3>1, MessageTypes
  <2>3. /\ log' \in Seq(Message) /\ missed' \subseteq Client
        /\ running' \in BOOLEAN /\ stalled' \in Client \cup {NoOne}
    BY <2>1, <2>2, NotifyTypes
  <2> QED BY <1>2, <1>4, <2>1, <2>3 DEF TInv, Sets, Numbers, Tables, Bools
<1>10. ASSUME NEW f \in ClientFd, Receive(f) PROVE TInv'
  <2> DEFINE c == conn[f]
  <2>1. c \in Client
    BY <1>10, HandlesClient DEF Receive
  <2>2. wire[c] \in Seq(Tokens) /\ msgs[f] \in Seq(Tokens) /\ ids[f] \in Nat
    BY <2>1 DEF TInv, Tables
  <2>3. PICK n \in 1 .. Len(wire[c]) :
          LET joined == msgs[f] \o SubSeq(wire[c], 1, n)
              lines == LinesOf(joined)
          IN  /\ wire' = [wire EXCEPT ![c] = SubSeq(@, n + 1, Len(@))]
              /\ msgs' = [msgs EXCEPT ![f] = RestOf(joined)]
              /\ UNCHANGED <<max_fd, afds, rfds, wfds, count, ids, noMemory,
                             conn, backlog, closed, said>>
              /\ Notify(f, [k \in 1 .. Len(lines) |-> Said(ids[f], lines[k])])
    BY <1>10 DEF Receive
  <2> DEFINE joined == msgs[f] \o SubSeq(wire[c], 1, n)
             lines == LinesOf(joined)
             messages == [k \in 1 .. Len(lines) |-> Said(ids[f], lines[k])]
  <2>4. joined \in Seq(Tokens) /\ SubSeq(wire[c], n + 1, Len(wire[c])) \in Seq(Tokens)
    BY <2>2, PiecesType
  <2>5. lines \in Seq(Seq(Tokens)) /\ RestOf(joined) \in Seq(Tokens)
    <3> HIDE DEF joined
    <3> QED BY <2>4, LinesType
  <2>6. messages \in Seq(Message)
    <3> HIDE DEF lines
    <3>1. Len(lines) \in Nat /\ \A k \in 1 .. Len(lines) : lines[k] \in Seq(Tokens)
      BY <2>5, LenProperties, ElementOfSeq
    <3>2. messages \in [1 .. Len(lines) -> Message]
      BY <2>2, <3>1, MessageTypes
    <3> QED BY <3>1, <3>2, SeqDef
  <2>7. /\ log' \in Seq(Message) /\ missed' \subseteq Client
        /\ running' \in BOOLEAN /\ stalled' \in Client \cup {NoOne}
    <3>1. Notify(f, messages)
      BY <2>3
    <3> HIDE DEF messages
    <3> QED BY <2>6, <3>1, NotifyTypes
  <2>8. wire' \in [Client -> Seq(Tokens)] /\ msgs' \in [ClientFd -> Seq(Tokens)]
    <3>1. /\ wire' = [wire EXCEPT ![c] = SubSeq(wire[c], n + 1, Len(wire[c]))]
          /\ msgs' = [msgs EXCEPT ![f] = RestOf(joined)]
      BY <2>3
    <3> HIDE DEF joined
    <3> QED BY <2>1, <2>4, <2>5, <3>1 DEF TInv, Tables
  <2>9. UNCHANGED <<wfds, closed, count, ids, said, noMemory>>
    BY <2>3
  <2> QED BY <1>2, <1>4, <2>7, <2>8, <2>9 DEF TInv, Sets, Numbers, Tables, Bools
<1>11. ASSUME NEW f \in ClientFd, ReceiveNoMemory(f) PROVE TInv'
  <2> DEFINE c == conn[f]
  <2>1. c \in Client
    BY <1>11, HandlesClient DEF ReceiveNoMemory
  <2>2. wire[c] \in Seq(Tokens)
    BY <2>1 DEF TInv, Tables
  <2>3. PICK n \in 1 .. Len(wire[c]) :
            wire' = [wire EXCEPT ![c] = SubSeq(@, n + 1, Len(@))]
    BY <1>11 DEF ReceiveNoMemory
  <2>4. SubSeq(wire[c], n + 1, Len(wire[c])) \in Seq(Tokens)
    BY <2>2, PiecesType
  <2>5. wire' \in [Client -> Seq(Tokens)]
    BY <2>1, <2>3, <2>4 DEF TInv, Tables
  <2>6. /\ msgs' = [msgs EXCEPT ![f] = <<>>] /\ noMemory' = TRUE
        /\ UNCHANGED <<wfds, count, ids, running, stalled, log, missed, closed, said>>
    BY <1>11 DEF ReceiveNoMemory
  <2>7. msgs' \in [ClientFd -> Seq(Tokens)]
    BY <2>6 DEF TInv, Tables
  <2> QED BY <1>2, <1>4, <2>5, <2>6, <2>7 DEF TInv, Sets, Numbers, Tables, Bools
<1>12. CASE UNCHANGED vars
  BY <1>12 DEF vars, TInv, Sets, Numbers, Tables, Bools
<1>13. CASE SendReturns
  <2>1. running' \in BOOLEAN /\ stalled' = NoOne
    BY <1>13 DEF SendReturns
  <2>2. UNCHANGED <<wfds, missed, closed, count, ids, msgs, said, wire, noMemory, log>>
    BY <1>13 DEF SendReturns
  <2> QED BY <1>2, <1>4, <2>1, <2>2 DEF TInv, Sets, Numbers, Tables, Bools
<1>14. ASSUME NEW f \in ClientFd, ExtractFails(f) PROVE TInv'
  <2> DEFINE c == conn[f]
  <2>1. c \in Client
    BY <1>14, HandlesClient DEF ExtractFails
  <2>2. wire[c] \in Seq(Tokens)
    BY <2>1 DEF TInv, Tables
  <2>3. PICK n \in 1 .. Len(wire[c]) :
            wire' = [wire EXCEPT ![c] = SubSeq(@, n + 1, Len(@))]
    BY <1>14 DEF ExtractFails
  <2>4. SubSeq(wire[c], n + 1, Len(wire[c])) \in Seq(Tokens)
    BY <2>2, PiecesType
  <2>5. wire' \in [Client -> Seq(Tokens)]
    BY <2>1, <2>3, <2>4 DEF TInv, Tables
  <2>6. /\ noMemory' = TRUE /\ running' = FALSE
        /\ UNCHANGED <<wfds, count, ids, msgs, stalled, log, missed, closed, said>>
    BY <1>14 DEF ExtractFails
  <2> QED BY <1>2, <1>4, <2>5, <2>6 DEF TInv, Sets, Numbers, Tables, Bools
<1> QED BY <1>5, <1>6, <1>7, <1>8, <1>9, <1>10, <1>11, <1>12, <1>13, <1>14
        DEF Next, Server

LEMMA TypesAlways == Spec => [](PassInv /\ TInv)
<1>1. Init => TInv
  <2>1. <<>> \in Seq(Tokens) /\ <<>> \in Seq(Message)
    OBVIOUS
  <2>2. Init => Sets
    BY DEF Init, Sets, Fd, ClientFd, sockfd
  <2>3. Init => Numbers
    BY DEF Init, Numbers, Fd, Past, sockfd
  <2>4. Init => Tables
    BY <2>1 DEF Init, Tables
  <2>5. Init => Bools
    BY DEF Init, Bools
  <2>6. Init => log \in Seq(Message)
    BY <2>1 DEF Init
  <2> QED BY <2>2, <2>3, <2>4, <2>5, <2>6 DEF TInv
<1>2. PassInv /\ TInv /\ [Next]_vars => TInv'
  BY TypesStep
<1> QED BY <1>1, <1>2, PassInvInvariant, PTL DEF Spec

\* Every variable keeps its type, whatever pieces recv returns.
THEOREM TypeCorrect == Spec => []TypeOK
  BY TypesAlways, TypesAre, PTL
-----------------------------------------------------------------------------
(* Ids *)

Connected(f) == f \in ClientFd /\ conn[f] # NoOne

\* Messages of different kinds, or about different clients, are different.
LEMMA Differ ==
    \A a, b \in Nat, line \in Seq(Tokens) :
        /\ Arrived(a).id = a /\ Arrived(a).kind = "arrived"
        /\ Departed(a).id = a /\ Departed(a).kind = "left"
        /\ Said(a, line).id = a /\ Said(a, line).kind = "said"
        /\ Arrived(a) = Arrived(b) => a = b
        /\ Departed(a) = Departed(b) => a = b
        /\ Arrived(a) # Departed(b)
        /\ Said(a, line) # Arrived(b)
        /\ Said(a, line) # Departed(b)
<1>1. \A a, b \in Nat, line \in Seq(Tokens) :
        /\ Arrived(a).id = a /\ Arrived(a).kind = "arrived"
        /\ Departed(a).id = a /\ Departed(a).kind = "left"
        /\ Said(a, line).id = a /\ Said(a, line).kind = "said"
  BY DEF Arrived, Departed, Said
<1>2. ASSUME NEW a \in Nat, NEW b \in Nat, NEW line \in Seq(Tokens)
      PROVE  /\ Arrived(a) = Arrived(b) => a = b
             /\ Departed(a) = Departed(b) => a = b
  <2>1. /\ Arrived(a).id = a /\ Arrived(b).id = b
        /\ Departed(a).id = a /\ Departed(b).id = b
    BY <1>1
  <2> QED BY <2>1
<1>3. ASSUME NEW a \in Nat, NEW b \in Nat, NEW line \in Seq(Tokens)
      PROVE  /\ Arrived(a) # Departed(b)
             /\ Said(a, line) # Arrived(b)
             /\ Said(a, line) # Departed(b)
  <2>1. Arrived(a).kind = "arrived" /\ Arrived(b).kind = "arrived"
    BY <1>1
  <2>2. Departed(b).kind = "left" /\ Said(a, line).kind = "said"
    BY <1>1, ZenonT(30)
  <2> QED BY <2>1, <2>2
<1> QED BY <1>1, <1>2, <1>3, SMTT(30)

\* A message is added to the log.
LEMMA Logged ==
    ASSUME NEW old \in Seq(Message), NEW messages \in Seq(Message)
    PROVE  /\ Len(old \o messages) = Len(old) + Len(messages)
           /\ Len(old) \in Nat /\ Len(messages) \in Nat
           /\ \A k \in 1 .. Len(old) : (old \o messages)[k] = old[k]
           /\ \A k \in 1 .. Len(messages) : (old \o messages)[Len(old) + k] = messages[k]
           /\ \A k \in 1 .. Len(old) + Len(messages) :
                 k \in 1 .. Len(old) \/ k - Len(old) \in 1 .. Len(messages)
<1>1. Len(old) \in Nat /\ Len(messages) \in Nat
  BY LenProperties
<1>2. /\ Len(old \o messages) = Len(old) + Len(messages)
      /\ \A k \in 1 .. Len(old) + Len(messages) :
            (old \o messages)[k] = IF k <= Len(old) THEN old[k] ELSE messages[k - Len(old)]
  BY ConcatProperties
<1>3. ASSUME NEW k \in 1 .. Len(old) PROVE (old \o messages)[k] = old[k]
  <2>1. k \in 1 .. Len(old) + Len(messages) /\ k <= Len(old)
    BY <1>1
  <2> QED BY <1>2, <2>1
<1>4. ASSUME NEW k \in 1 .. Len(messages)
      PROVE  (old \o messages)[Len(old) + k] = messages[k]
  <2>1. /\ Len(old) + k \in 1 .. Len(old) + Len(messages) /\ ~ (Len(old) + k <= Len(old))
        /\ (Len(old) + k) - Len(old) = k
    BY <1>1
  <2> QED BY <1>2, <2>1
<1>5. \A k \in 1 .. Len(old) + Len(messages) :
          k \in 1 .. Len(old) \/ k - Len(old) \in 1 .. Len(messages)
  BY <1>1
<1> QED BY <1>1, <1>2, <1>3, <1>4, <1>5

\* What is said of an old message stays true, as it is about those before it.
About(l, k) ==
    /\ l[k].kind = "arrived" =>
          \A id \in Nat : id < l[k].id <=> \E j \in 1 .. k - 1 : l[j] = Arrived(id)
    /\ \E j \in 1 .. k : l[j] = Arrived(l[k].id)
    /\ \A j \in 1 .. k - 1 : l[j] # Departed(l[k].id)

LEMMA OldStay ==
    ASSUME NEW old, NEW new, NEW n \in Nat, \A k \in 1 .. n : new[k] = old[k],
           NEW k \in 1 .. n, About(old, k)
    PROVE  About(new, k)
<1>1. k \in 1 .. n /\ \A j \in 1 .. k : j \in 1 .. n
  OBVIOUS
<1>2. \A j \in 1 .. k - 1 : j \in 1 .. k
  OBVIOUS
<1>3. \A j \in 1 .. k : new[j] = old[j]
  BY <1>1
<1>4. new[k] = old[k]
  OBVIOUS
<1> QED BY <1>2, <1>3, <1>4 DEF About

\* The ids in use are different, are not new, and have not departed; what was
\* announced is exactly the ids given; and every message fits those before it.
InUse ==
    \A f \in ClientFd : Connected(f) =>
        /\ ids[f] < count
        /\ \A j \in 1 .. Len(log) : log[j] # Departed(ids[f])
Distinct ==
    \A f, g \in ClientFd : Connected(f) /\ Connected(g) /\ f # g => ids[f] # ids[g]
Announced ==
    \A id \in Nat : (\E j \in 1 .. Len(log) : log[j] = Arrived(id)) <=> id < count
Told == \A k \in 1 .. Len(log) : log[k].id < count /\ About(log, k)

IdInv == InUse /\ Distinct /\ Announced /\ Told

\* A message has an id.
LEMMA LogIds ==
    ASSUME TInv
    PROVE  /\ Len(log) \in Nat /\ count \in Nat
           /\ \A k \in 1 .. Len(log) : log[k].id \in Nat
           /\ \A f \in ClientFd : ids[f] \in Nat
<1>1. log \in Seq(Message) /\ count \in Nat /\ ids \in [ClientFd -> Nat]
  BY DEF TInv, Numbers, Tables
<1>2. Len(log) \in Nat /\ \A k \in 1 .. Len(log) : log[k] \in Message
  BY <1>1, LenProperties, ElementOfSeq
<1>3. \A m \in Message : m.id \in Nat
  BY DEF Message
<1> QED BY <1>1, <1>2, <1>3

\* Nothing is said: no id is given, and connections at most end.
LEMMA IdsQuiet ==
    ASSUME IdInv, UNCHANGED <<log, ids, count>>,
           \A f \in ClientFd : Connected(f)' => Connected(f)
    PROVE  IdInv'
<1>1. InUse'
  BY DEF IdInv, InUse
<1>2. Distinct'
  BY DEF IdInv, Distinct
<1>3. Announced'
  BY DEF IdInv, Announced
<1>4. Told'
  BY DEF IdInv, Told, About
<1> QED BY <1>1, <1>2, <1>3, <1>4 DEF IdInv

\* A message is added, and fits the log.
LEMMA ToldGrows ==
    ASSUME TInv, Told, NEW messages \in Seq(Message), log' = log \o messages,
           count' \in Nat, count <= count',
           \A k \in 1 .. Len(messages) :
               messages[k].id < count' /\ About(log', Len(log) + k)
    PROVE  Told'
<1>1. log \in Seq(Message)
  BY DEF TInv
<1>2. /\ Len(log') = Len(log) + Len(messages)
      /\ Len(log) \in Nat /\ Len(messages) \in Nat
      /\ \A k \in 1 .. Len(log) : log'[k] = log[k]
      /\ \A k \in 1 .. Len(messages) : log'[Len(log) + k] = messages[k]
  BY <1>1, Logged
<1>3. ASSUME NEW k \in 1 .. Len(log) PROVE log'[k].id < count' /\ About(log', k)
  <2>1. log[k].id < count /\ About(log, k)
    BY DEF Told
  <2>2. About(log', k)
    BY <1>2, <2>1, OldStay
  <2> QED BY <1>2, <2>1, <2>2, LogIds
<1>4. ASSUME NEW k \in 1 .. Len(log'), k \notin 1 .. Len(log)
      PROVE log'[k].id < count' /\ About(log', k)
  <2>1. k - Len(log) \in 1 .. Len(messages) /\ Len(log) + (k - Len(log)) = k
    BY <1>2, <1>4
  <2> QED BY <1>2, <2>1
<1> QED BY <1>3, <1>4 DEF Told

\* The id of a new client is count, which no message bears yet.
LEMMA IdsAccept ==
    ASSUME TInv, IdInv, NEW f \in ClientFd, log' = log \o <<Arrived(count)>>,
           ids' = [ids EXCEPT ![f] = count], count' = count + 1,
           \A g \in ClientFd : g # f => conn'[g] = conn[g]
    PROVE  IdInv'
<1>1. log \in Seq(Message) /\ <<Arrived(count)>> \in Seq(Message) /\ count \in Nat
  BY MessageTypes DEF TInv, Numbers
<1>2. Len(<<Arrived(count)>>) = 1 /\ <<Arrived(count)>>[1] = Arrived(count)
  OBVIOUS
<1>3. /\ Len(log') = Len(log) + 1 /\ Len(log) \in Nat
      /\ \A k \in 1 .. Len(log) : log'[k] = log[k]
      /\ log'[Len(log) + 1] = Arrived(count)
      /\ \A k \in 1 .. Len(log) + 1 : k \in 1 .. Len(log) \/ k = Len(log) + 1
  <2> DEFINE new == <<Arrived(count)>>
  <2>1. new \in Seq(Message) /\ Len(new) = 1 /\ new[1] = Arrived(count)
    BY <1>1, <1>2
  <2> HIDE DEF new
  <2>2. log' = log \o new
    BY DEF new
  <2> QED BY <1>1, <2>1, <2>2, Logged
<1>4. /\ ids'[f] = count
      /\ \A g \in ClientFd : g # f => ids'[g] = ids[g]
      /\ \A g \in ClientFd : g # f /\ Connected(g)' => Connected(g)
  BY DEF TInv, Tables, Connected
<1>5. \A j \in 1 .. Len(log) : log[j].id \in Nat /\ log[j].id < count
  BY LogIds DEF IdInv, Told
<1>6. /\ Arrived(count).id = count /\ Departed(count).id = count
      /\ Arrived(count).kind = "arrived"
      /\ \A id \in Nat : Arrived(id) = Arrived(count) => id = count
      /\ \A id \in Nat : Arrived(count) # Departed(id)
  BY <1>1, Differ, EmptyLine, ZenonT(30)
<1>7. \A j \in 1 .. Len(log) : log[j] # Departed(count)
  BY <1>1, <1>5, <1>6
<1>8. \A g \in ClientFd : ids[g] \in Nat
  BY LogIds
<1>9. ASSUME NEW g \in ClientFd, Connected(g)'
      PROVE  ids'[g] < count' /\ \A j \in 1 .. Len(log') : log'[j] # Departed(ids'[g])
  <2>1. CASE g = f
    <3>1. ids'[g] = count
      BY <1>4, <2>1
    <3>2. \A j \in 1 .. Len(log') : log'[j] # Departed(count)
      BY <1>1, <1>3, <1>6, <1>7
    <3> QED BY <1>1, <3>1, <3>2
  <2>2. CASE g # f
    <3>1. ids'[g] = ids[g] /\ Connected(g) /\ ids[g] \in Nat
      BY <1>4, <1>8, <1>9, <2>2
    <3>2. ids[g] < count /\ \A j \in 1 .. Len(log) : log[j] # Departed(ids[g])
      BY <3>1 DEF IdInv, InUse
    <3>3. \A j \in 1 .. Len(log') : log'[j] # Departed(ids[g])
      BY <1>3, <1>6, <3>1, <3>2
    <3> QED BY <1>1, <3>1, <3>2, <3>3
  <2> QED BY <2>1, <2>2
<1>10. InUse'
  BY <1>9 DEF InUse
<1>11. Distinct'
  <2>1. \A g \in ClientFd : g # f /\ Connected(g)' => ids'[g] = ids[g] /\ ids[g] < count
    BY <1>4 DEF IdInv, InUse
  <2>2. ASSUME NEW g \in ClientFd, NEW h \in ClientFd, g # h,
               Connected(g)', Connected(h)'
        PROVE  ids'[g] # ids'[h]
    <3>1. CASE g = f
      <4>1. ids'[g] = count /\ ids'[h] = ids[h] /\ ids[h] < count
        BY <1>4, <2>1, <2>2, <3>1
      <4> QED BY <1>1, <1>8, <4>1
    <3>2. CASE h = f
      <4>1. ids'[h] = count /\ ids'[g] = ids[g] /\ ids[g] < count
        BY <1>4, <2>1, <2>2, <3>2
      <4> QED BY <1>1, <1>8, <4>1
    <3>3. CASE g # f /\ h # f
      BY <1>4, <2>2, <3>3 DEF IdInv, Distinct
    <3> QED BY <3>1, <3>2, <3>3
  <2> QED BY <2>2 DEF Distinct
<1>12. Announced'
  <2>1. ASSUME NEW id \in Nat, NEW j \in 1 .. Len(log'), log'[j] = Arrived(id)
        PROVE  id < count'
    <3>1. CASE j \in 1 .. Len(log)
      <4>1. log[j] = Arrived(id)
        BY <1>3, <2>1, <3>1
      <4>2. id < count
        BY <3>1, <4>1 DEF IdInv, Announced
      <4> QED BY <1>1, <4>2
    <3>2. CASE j = Len(log) + 1
      <4>1. id = count
        BY <1>3, <1>6, <2>1, <3>2
      <4> QED BY <1>1, <4>1
    <3> QED BY <1>3, <3>1, <3>2
  <2>2. ASSUME NEW id \in Nat, id < count'
        PROVE  \E j \in 1 .. Len(log') : log'[j] = Arrived(id)
    <3>1. CASE id = count
      BY <1>3, <3>1
    <3>2. CASE id < count
      <4>1. PICK j \in 1 .. Len(log) : log[j] = Arrived(id)
        BY <3>2 DEF IdInv, Announced
      <4>2. j \in 1 .. Len(log') /\ log'[j] = Arrived(id)
        BY <1>3, <4>1
      <4> QED BY <4>2
    <3> QED BY <1>1, <2>2, <3>1, <3>2
  <2> QED BY <2>1, <2>2 DEF Announced
<1>13. About(log', Len(log) + 1)
  <2> DEFINE k == Len(log) + 1
  <2>1. log'[k] = Arrived(count) /\ k - 1 = Len(log) /\ k \in 1 .. k
    BY <1>3
  <2>2. \A id \in Nat : id < count <=> \E j \in 1 .. Len(log) : log[j] = Arrived(id)
    BY DEF IdInv, Announced
  <2>3. \A id \in Nat : id < log'[k].id <=> \E j \in 1 .. k - 1 : log'[j] = Arrived(id)
    BY <1>3, <1>6, <2>1, <2>2
  <2>4. \E j \in 1 .. k : log'[j] = Arrived(log'[k].id)
    BY <1>6, <2>1
  <2>5. \A j \in 1 .. k - 1 : log'[j] # Departed(log'[k].id)
    BY <1>3, <1>6, <1>7, <2>1
  <2> QED BY <2>3, <2>4, <2>5 DEF About
<1>14. Told'
  <2> DEFINE new == <<Arrived(count)>>
  <2>1. new \in Seq(Message) /\ log' = log \o new /\ count' \in Nat /\ count <= count'
    BY <1>1
  <2>2. \A k \in 1 .. Len(new) : k = 1 /\ new[k] = Arrived(count)
    BY <1>2
  <2>3. count < count'
    BY <1>1
  <2>4. \A k \in 1 .. Len(new) : new[k].id < count' /\ About(log', Len(log) + k)
    BY <1>6, <1>13, <2>2, <2>3
  <2> HIDE DEF new
  <2> QED BY <2>1, <2>4, ToldGrows DEF IdInv
<1> QED BY <1>10, <1>11, <1>12, <1>14 DEF IdInv

\* The id of a client that leaves is announced as gone, and no longer in use.
LEMMA IdsDisconnect ==
    ASSUME TInv, IdInv, NEW f \in ClientFd, Connected(f),
           log' = log \o <<Departed(ids[f])>>, UNCHANGED <<ids, count>>,
           conn' = [conn EXCEPT ![f] = NoOne]
    PROVE  IdInv'
<1> DEFINE id == ids[f]
           new == <<Departed(id)>>
<1>1. id \in Nat /\ id < count /\ count \in Nat /\ new \in Seq(Message)
  <2>1. id \in Nat /\ count \in Nat
    BY LogIds
  <2> QED BY <2>1, MessageTypes DEF IdInv, InUse
<1>2. Len(new) = 1 /\ new[1] = Departed(id)
  OBVIOUS
<1>3. log' = log \o new /\ count' = count
  OBVIOUS
<1>4. \A j \in 1 .. Len(log) : log[j] # Departed(id)
  BY DEF IdInv, InUse
<1>5. /\ \A g \in ClientFd : Connected(g)' => Connected(g) /\ g # f /\ ids'[g] = ids[g]
      /\ \A g \in ClientFd : Connected(g) /\ g # f => ids[g] # id
  BY DEF TInv, Tables, Connected, IdInv, Distinct
<1>6. \A g \in ClientFd : ids[g] \in Nat
  BY LogIds
<1>7. log \in Seq(Message)
  BY DEF TInv
<1> HIDE DEF id, new
<1>8. /\ Len(log') = Len(log) + 1 /\ Len(log) \in Nat
      /\ \A k \in 1 .. Len(log) : log'[k] = log[k]
      /\ log'[Len(log) + 1] = Departed(id)
      /\ \A k \in 1 .. Len(log) + 1 : k \in 1 .. Len(log) \/ k = Len(log) + 1
  BY <1>1, <1>2, <1>3, <1>7, Logged
<1>9. /\ Departed(id).id = id /\ Departed(id).kind = "left"
      /\ \A other \in Nat : Arrived(other) # Departed(id)
      /\ \A other \in Nat : Departed(other) = Departed(id) => other = id
  BY <1>1, Differ, EmptyLine, ZenonT(30)
<1>10. InUse'
  <2>1. ASSUME NEW g \in ClientFd, Connected(g)'
        PROVE  /\ ids'[g] < count'
               /\ \A j \in 1 .. Len(log') : log'[j] # Departed(ids'[g])
    <3>1. ids'[g] = ids[g] /\ Connected(g) /\ ids[g] \in Nat /\ ids[g] # id
      BY <1>5, <1>6, <2>1
    <3>2. ids[g] < count /\ \A j \in 1 .. Len(log) : log[j] # Departed(ids[g])
      BY <3>1 DEF IdInv, InUse
    <3>3. \A j \in 1 .. Len(log') : log'[j] # Departed(ids[g])
      BY <1>8, <1>9, <3>1, <3>2
    <3> QED BY <1>3, <3>1, <3>2, <3>3
  <2> QED BY <2>1 DEF InUse
<1>11. Distinct'
  BY <1>5 DEF IdInv, Distinct
<1>12. Announced'
  <2>1. ASSUME NEW other \in Nat
        PROVE  (\E j \in 1 .. Len(log') : log'[j] = Arrived(other))
                 <=> (\E j \in 1 .. Len(log) : log[j] = Arrived(other))
    BY <1>8, <1>9
  <2> QED BY <1>3, <2>1 DEF IdInv, Announced
<1>13. About(log', Len(log) + 1)
  <2> DEFINE k == Len(log) + 1
  <2>1. log'[k] = Departed(id) /\ k - 1 = Len(log) /\ \A j \in 1 .. Len(log) : j \in 1 .. k
    BY <1>8
  <2>2. PICK j \in 1 .. Len(log) : log[j] = Arrived(id)
    BY <1>1 DEF IdInv, Announced
  <2>3. \E i \in 1 .. k : log'[i] = Arrived(log'[k].id)
    BY <1>8, <1>9, <2>1, <2>2
  <2>4. \A i \in 1 .. k - 1 : log'[i] # Departed(log'[k].id)
    BY <1>4, <1>8, <1>9, <2>1
  <2>5. log'[k].kind # "arrived"
    BY <1>9, <2>1
  <2> QED BY <2>3, <2>4, <2>5 DEF About
<1>14. Told'
  <2>1. \A k \in 1 .. Len(new) : k = 1 /\ new[k] = Departed(id)
    BY <1>2
  <2>2. \A k \in 1 .. Len(new) : new[k].id < count' /\ About(log', Len(log) + k)
    BY <1>1, <1>3, <1>9, <1>13, <2>1
  <2>3. count' \in Nat /\ count <= count'
    BY <1>1, <1>3
  <2> QED BY <1>1, <1>3, <2>2, <2>3, ToldGrows DEF IdInv
<1> QED BY <1>10, <1>11, <1>12, <1>14 DEF IdInv

\* What a connected client says comes after its arrival, before its departure.
LEMMA IdsReceive ==
    ASSUME TInv, IdInv, NEW f \in ClientFd, Connected(f),
           NEW new \in Seq(Message), log' = log \o new,
           \A k \in 1 .. Len(new) :
               \E line \in Seq(Tokens) : new[k] = Said(ids[f], line),
           UNCHANGED <<ids, count, conn>>
    PROVE  IdInv'
<1> DEFINE id == ids[f]
<1>1. id \in Nat /\ id < count /\ count \in Nat
  <2>1. id \in Nat /\ count \in Nat
    BY LogIds
  <2> QED BY <2>1 DEF IdInv, InUse
<1>2. \A k \in 1 .. Len(new) : \E line \in Seq(Tokens) : new[k] = Said(id, line)
  OBVIOUS
<1>3. \A j \in 1 .. Len(log) : log[j] # Departed(id)
  BY DEF IdInv, InUse
<1>4. log \in Seq(Message)
  BY DEF TInv
<1> HIDE DEF id
<1>5. /\ Len(log') = Len(log) + Len(new) /\ Len(log) \in Nat /\ Len(new) \in Nat
      /\ \A k \in 1 .. Len(log) : log'[k] = log[k]
      /\ \A k \in 1 .. Len(new) : log'[Len(log) + k] = new[k]
      /\ \A k \in 1 .. Len(log) + Len(new) :
            k \in 1 .. Len(log) \/ k - Len(log) \in 1 .. Len(new)
  BY <1>4, Logged
<1>6. \A k \in 1 .. Len(new) :
          /\ new[k].id = id /\ new[k].kind = "said"
          /\ \A other \in Nat : new[k] # Arrived(other) /\ new[k] # Departed(other)
  BY <1>1, <1>2, Differ
<1>7. ASSUME NEW j \in 1 .. Len(log'), j \notin 1 .. Len(log)
      PROVE  \A other \in Nat : log'[j] # Arrived(other) /\ log'[j] # Departed(other)
  <2>1. j - Len(log) \in 1 .. Len(new) /\ Len(log) + (j - Len(log)) = j
    BY <1>5, <1>7
  <2>2. log'[j] = new[j - Len(log)]
    BY <1>5, <2>1
  <2> QED BY <1>6, <2>1, <2>2
<1>8. \A j \in 1 .. Len(log) : j \in 1 .. Len(log') /\ log'[j] = log[j]
  BY <1>5
<1>9. InUse'
  <2>1. ASSUME NEW g \in ClientFd, Connected(g)
        PROVE  \A j \in 1 .. Len(log') : log'[j] # Departed(ids[g])
    <3>1. ids[g] \in Nat /\ \A j \in 1 .. Len(log) : log[j] # Departed(ids[g])
      BY <2>1, LogIds DEF IdInv, InUse
    <3> QED BY <1>7, <1>8, <3>1
  <2> QED BY <2>1 DEF IdInv, InUse, Connected
<1>10. Distinct'
  BY DEF IdInv, Distinct, Connected
<1>11. Announced'
  <2>1. ASSUME NEW other \in Nat
        PROVE  (\E j \in 1 .. Len(log') : log'[j] = Arrived(other))
                 <=> (\E j \in 1 .. Len(log) : log[j] = Arrived(other))
    BY <1>7, <1>8
  <2> QED BY <2>1 DEF IdInv, Announced
<1>12. ASSUME NEW k \in 1 .. Len(new)
       PROVE  new[k].id < count' /\ About(log', Len(log) + k)
  <2> DEFINE n == Len(log) + k
  <2>1. /\ n \in 1 .. Len(log') /\ log'[n] = new[k]
        /\ \A j \in 1 .. Len(log) : j \in 1 .. n
        /\ \A j \in 1 .. n - 1 : j \in 1 .. Len(log')
    BY <1>5
  <2>2. log'[n].id = id /\ log'[n].kind = "said"
    BY <1>6, <2>1
  <2> HIDE DEF n
  <2>3. PICK j \in 1 .. Len(log) : log[j] = Arrived(id)
    BY <1>1 DEF IdInv, Announced
  <2>4. \E i \in 1 .. n : log'[i] = Arrived(log'[n].id)
    BY <1>8, <2>1, <2>2, <2>3
  <2>5. \A i \in 1 .. n - 1 : log'[i] # Departed(log'[n].id)
    BY <1>1, <1>3, <1>7, <1>8, <2>1, <2>2
  <2>6. About(log', n)
    BY <2>2, <2>4, <2>5 DEF About
  <2> QED BY <1>1, <1>6, <2>6 DEF n
<1>13. Told'
  <2>1. count' \in Nat /\ count <= count'
    BY <1>1
  <2> QED BY <1>12, <2>1, ToldGrows DEF IdInv
<1> QED BY <1>9, <1>10, <1>11, <1>13 DEF IdInv

LEMMA IdsStep ==
    ASSUME PassInv, TInv, IdInv, [Next]_vars
    PROVE  IdInv'
<1> USE DEF clients, history, server
<1>1. CASE Environment
  <2>1. UNCHANGED <<log, ids, count, conn>>
    BY <1>1 DEF Environment, Connect, Speak, Close
  <2> QED BY <2>1, IdsQuiet DEF Connected
<1>2. CASE Select \/ AcceptFails
  <2>1. UNCHANGED <<log, ids, count, conn>>
    BY <1>2 DEF Select, AcceptFails
  <2> QED BY <2>1, IdsQuiet DEF Connected
<1>3. CASE Accept
  <2>1. PICK c \in backlog, f \in ClientFd :
            conn' = [conn EXCEPT ![f] = c] /\ Register(f)
    BY <1>3 DEF Accept
  <2>2. /\ ids' = [ids EXCEPT ![f] = count] /\ count' = count + 1
        /\ log' = log \o <<Arrived(count)>>
    BY <2>1 DEF Register, Notify
  <2>3. \A g \in ClientFd : g # f => conn'[g] = conn[g]
    BY <2>1 DEF TInv, Tables
  <2> QED BY <2>2, <2>3, IdsAccept
<1>4. ASSUME NEW f \in ClientFd, Disconnect(f) PROVE IdInv'
  <2>1. conn[f] \in Client
    BY <1>4, HandlesClient DEF Disconnect
  <2>2. Connected(f)
    BY <2>1 DEF Connected
  <2>3. /\ log' = log \o <<Departed(ids[f])>> /\ UNCHANGED <<ids, count>>
        /\ conn' = [conn EXCEPT ![f] = NoOne]
    BY <1>4 DEF Disconnect, Notify
  <2> QED BY <2>2, <2>3, IdsDisconnect
<1>5. ASSUME NEW f \in ClientFd, Receive(f) PROVE IdInv'
  <2>1. conn[f] \in Client
    BY <1>5, HandlesClient DEF Receive
  <2>2. Connected(f)
    BY <2>1 DEF Connected
  <2>3. PICK n \in 1 .. Len(wire[conn[f]]) :
            LET lines == LinesOf(msgs[f] \o SubSeq(wire[conn[f]], 1, n))
            IN  /\ UNCHANGED <<count, ids, conn>>
                /\ Notify(f, [k \in 1 .. Len(lines) |-> Said(ids[f], lines[k])])
    BY <1>5 DEF Receive
  <2> DEFINE lines == LinesOf(msgs[f] \o SubSeq(wire[conn[f]], 1, n))
             new == [k \in 1 .. Len(lines) |-> Said(ids[f], lines[k])]
  <2>4. log' = log \o new /\ UNCHANGED <<count, ids, conn>>
    BY <2>3 DEF Notify
  <2>5. lines \in Seq(Seq(Tokens))
    BY <2>1, PiecesType, ConcatProperties, LinesType DEF TInv, Tables
  <2>6. ids[f] \in Nat
    BY LogIds
  <2> HIDE DEF lines
  <2>7. Len(lines) \in Nat /\ \A k \in 1 .. Len(lines) : lines[k] \in Seq(Tokens)
    BY <2>5, LenProperties, ElementOfSeq
  <2>8. \A k \in 1 .. Len(lines) : new[k] \in Message
    BY <2>6, <2>7, MessageTypes
  <2>9. new \in Seq(Message) /\ Len(new) = Len(lines)
    BY <2>7, <2>8
  <2>10. \A k \in 1 .. Len(new) : \E line \in Seq(Tokens) : new[k] = Said(ids[f], line)
    BY <2>7, <2>9
  <2> HIDE DEF new
  <2> QED BY <2>2, <2>4, <2>9, <2>10, IdsReceive
<1>6. ASSUME NEW f \in ClientFd, ReceiveNoMemory(f) PROVE IdInv'
  <2>1. UNCHANGED <<log, ids, count, conn>>
    BY <1>6 DEF ReceiveNoMemory
  <2> QED BY <2>1, IdsQuiet DEF Connected
<1>7. CASE UNCHANGED vars
  <2>1. UNCHANGED <<log, ids, count, conn>>
    BY <1>7 DEF vars
  <2> QED BY <2>1, IdsQuiet DEF Connected
<1>8. CASE SendReturns \/ \E f \in ClientFd : ExtractFails(f)
  <2>1. UNCHANGED <<log, ids, count, conn>>
    BY <1>8 DEF SendReturns, ExtractFails
  <2> QED BY <2>1, IdsQuiet DEF Connected
<1> QED BY <1>1, <1>2, <1>3, <1>4, <1>5, <1>6, <1>7, <1>8 DEF Next, Server

LEMMA IdsAlways == Spec => [](PassInv /\ TInv /\ IdInv)
<1>1. Init => IdInv
  <2>1. Init => Len(log) = 0 /\ 1 .. 0 = {} /\ count = 0
    BY DEF Init
  <2>2. Init => \A f \in ClientFd : ~Connected(f)
    BY DEF Init, Connected
  <2>3. Init => Announced
    BY <2>1 DEF Announced
  <2>4. Init => InUse /\ Distinct /\ Told
    BY <2>1, <2>2 DEF InUse, Distinct, Told
  <2> QED BY <2>3, <2>4 DEF IdInv
<1>2. PassInv /\ TInv /\ IdInv /\ [Next]_vars => IdInv'
  BY IdsStep
<1> QED BY <1>1, <1>2, TypesAlways, PTL DEF Spec

\* Ids are announced in order, each once, and no message bears an id before
\* its arrival or after its departure, whatever descriptors are reused.
THEOREM IdsFollow == Spec => []IdsFollowArrivals
<1>1. TInv /\ IdInv => IdsFollowArrivals
  <2> SUFFICES ASSUME TInv, IdInv PROVE IdsFollowArrivals
    OBVIOUS
  <2>1. \A id \in 0 .. count : id \in Nat
    BY LogIds
  <2>2. \A k \in 1 .. Len(log) : About(log, k)
    BY DEF IdInv, Told
  <2> QED BY <2>1, <2>2 DEF About, IdsFollowArrivals
<1> QED BY <1>1, IdsAlways, PTL
-----------------------------------------------------------------------------
(* What is relayed *)

\* What holds at the first number of a range, and at each after one where it
\* holds, holds in the whole range.
LEMMA Induction ==
    ASSUME NEW a \in Int, NEW b \in Int, NEW S, a \in S,
           \A k \in a .. b - 1 : k \in S => k + 1 \in S
    PROVE  \A k \in a .. b : k \in S
<1> DEFINE T == {d \in Nat : a + d <= b /\ a + d \notin S}
<1>1. ASSUME T # {} PROVE FALSE
  <2>1. PICK d \in T : \A e \in T : d <= e
    <3>1. T \subseteq Nat
      OBVIOUS
    <3> HIDE DEF T
    <3> QED BY <1>1, <3>1, Smallest
  <2>2. d \in Nat /\ a + d <= b /\ a + d \notin S /\ d # 0
    BY <2>1
  <2>3. d - 1 \in Nat /\ d - 1 \notin T /\ a + (d - 1) <= b
    BY <2>1, <2>2
  <2>4. a + (d - 1) \in S /\ a + (d - 1) \in a .. b - 1 /\ (a + (d - 1)) + 1 = a + d
    BY <2>2, <2>3
  <2> QED BY <2>2, <2>4
<1>2. ASSUME NEW k \in a .. b, k \notin S PROVE FALSE
  <2>1. k - a \in Nat /\ a + (k - a) = k /\ k <= b
    OBVIOUS
  <2>2. k - a \in T
    BY <1>2, <2>1
  <2> QED BY <1>1, <2>2
<1> QED BY <1>2

\* What is heard of a client after each message.
Hears(h, messages, id) ==
    /\ h \in [0 .. Len(messages) -> Seq(Tokens)]
    /\ h[0] = <<>>
    /\ \A k \in 1 .. Len(messages) :
          h[k] = IF messages[k].kind = "said" /\ messages[k].id = id
                 THEN h[k - 1] \o messages[k].line
                 ELSE h[k - 1]

\* There is such a history up to each message.
LEMMA HistoryExists ==
    ASSUME NEW messages \in Seq(Message), NEW id
    PROVE  \E h : Hears(h, messages, id)
<1> DEFINE n == Len(messages)
           Step(x, k) == IF messages[k].kind = "said" /\ messages[k].id = id
                         THEN x \o messages[k].line ELSE x
           Upon(h, m) == /\ h \in [0 .. m -> Seq(Tokens)]
                         /\ h[0] = <<>>
                         /\ \A k \in 1 .. m : h[k] = Step(h[k - 1], k)
           S == {m \in 0 .. n : \E h : Upon(h, m)}
<1>1. n \in Nat /\ \A k \in 1 .. n : messages[k].line \in Seq(Tokens)
  <2>1. n \in Nat /\ \A k \in 1 .. n : messages[k] \in Message
    BY LenProperties, ElementOfSeq
  <2>2. \A m \in Message : m.line \in Seq(Tokens)
    BY DEF Message
  <2> QED BY <2>1, <2>2
<1>2. \A x \in Seq(Tokens), k \in 1 .. n : Step(x, k) \in Seq(Tokens)
  BY <1>1, ConcatProperties
<1> HIDE DEF Step, n
<1>3. 0 \in S
  <2> DEFINE h == [k \in 0 .. 0 |-> <<>>]
  <2>1. Upon(h, 0)
    <3>1. <<>> \in Seq(Tokens)
      OBVIOUS
    <3>2. h \in [0 .. 0 -> Seq(Tokens)] /\ h[0] = <<>>
      BY <3>1
    <3>3. 1 .. 0 = {}
      OBVIOUS
    <3> QED BY <3>2, <3>3
  <2> HIDE DEF Upon, h
  <2> QED BY <1>1, <2>1
<1>4. ASSUME NEW m \in 0 .. n - 1, m \in S PROVE m + 1 \in S
  <2>1. PICK h : Upon(h, m)
    BY <1>4
  <2> DEFINE g == [k \in 0 .. m + 1 |-> IF k = m + 1 THEN Step(h[m], m + 1) ELSE h[k]]
  <2>2. /\ m \in Nat /\ m + 1 \in 1 .. n /\ m + 1 \in 0 .. n
        /\ h \in [0 .. m -> Seq(Tokens)] /\ h[m] \in Seq(Tokens)
        /\ h[0] = <<>> /\ \A k \in 1 .. m : h[k] = Step(h[k - 1], k)
    BY <1>1, <2>1
  <2>3. Step(h[m], m + 1) \in Seq(Tokens)
    BY <1>2, <2>2
  <2>4. /\ \A k \in 0 .. m : g[k] = h[k]
        /\ g[m + 1] = Step(h[m], m + 1)
    BY <2>2
  <2>5. g \in [0 .. m + 1 -> Seq(Tokens)] /\ g[0] = <<>>
    BY <2>2, <2>3, <2>4
  <2> HIDE DEF g
  <2>6. ASSUME NEW k \in 1 .. m + 1 PROVE g[k] = Step(g[k - 1], k)
    <3>1. k - 1 \in 0 .. m /\ g[k - 1] = h[k - 1]
      BY <2>2, <2>4
    <3>2. CASE k = m + 1
      <4>1. k - 1 = m
        BY <2>2, <3>2
      <4> QED BY <2>4, <3>1, <3>2, <4>1
    <3>3. CASE k # m + 1
      <4>1. k \in 1 .. m /\ k \in 0 .. m
        BY <2>2, <3>3
      <4> QED BY <2>2, <2>4, <3>1, <4>1
    <3> QED BY <3>2, <3>3
  <2>7. Upon(g, m + 1)
    BY <2>5, <2>6
  <2> HIDE DEF Upon
  <2> QED BY <2>2, <2>7
<1> HIDE DEF S
<1>5. n \in S
  <2>1. \A k \in 0 .. n : k \in S
    <3>1. 0 \in Int /\ n \in Int
      BY <1>1
    <3> QED BY <1>3, <1>4, <3>1, Induction
  <2> QED BY <1>1, <2>1
<1>6. PICK h : Upon(h, n)
  BY <1>5 DEF S
<1>7. Hears(h, messages, id)
  BY <1>6 DEF Hears, Step, n
<1> QED BY <1>7

\* It is the one that Heard ends with.
LEMMA HeardIs ==
    ASSUME NEW messages \in Seq(Message), NEW id
    PROVE  \E h : Hears(h, messages, id) /\ Heard(messages, id) = h[Len(messages)]
<1> DEFINE n == Len(messages)
           Step(x, k) == IF messages[k].kind = "said" /\ messages[k].id = id
                         THEN x \o messages[k].line ELSE x
           Fits(v) == v = [k \in 0 .. n |-> IF k = 0 THEN <<>> ELSE Step(v[k - 1], k)]
<1>1. n \in Nat /\ \A k \in 1 .. n : messages[k].line \in Seq(Tokens)
  <2>1. n \in Nat /\ \A k \in 1 .. n : messages[k] \in Message
    BY LenProperties, ElementOfSeq
  <2>2. \A m \in Message : m.line \in Seq(Tokens)
    BY DEF Message
  <2> QED BY <2>1, <2>2
<1>2. \A x \in Seq(Tokens), k \in 1 .. n : Step(x, k) \in Seq(Tokens)
  BY <1>1, ConcatProperties
<1>3. \E v : Fits(v)
  <2>1. PICK h : Hears(h, messages, id)
    BY HistoryExists
  <2>2. /\ h \in [0 .. n -> Seq(Tokens)] /\ h[0] = <<>>
        /\ \A k \in 1 .. n : h[k] = Step(h[k - 1], k)
    BY <2>1 DEF Hears
  <2> HIDE DEF Step, n
  <2>3. \A k \in 0 .. n : h[k] = IF k = 0 THEN <<>> ELSE Step(h[k - 1], k)
    BY <1>1, <2>2
  <2>4. h = [k \in 0 .. n |-> h[k]]
    BY <2>2
  <2>5. Fits(h)
    BY <2>3, <2>4
  <2> HIDE DEF Fits
  <2> QED BY <2>5
<1> DEFINE h == CHOOSE v : Fits(v)
<1>4. Heard(messages, id) = h[n]
  BY DEF Heard
<1>5. Fits(h)
  <2> HIDE DEF Fits
  <2> QED BY <1>3
<1> HIDE DEF h, Step, n
<1>6. \A k \in 0 .. n : h[k] = IF k = 0 THEN <<>> ELSE Step(h[k - 1], k)
  BY <1>5
<1>7. h = [k \in 0 .. n |-> h[k]]
  BY <1>5
<1> HIDE DEF Fits
<1>8. h[0] = <<>> /\ \A k \in 1 .. n : h[k] = Step(h[k - 1], k)
  <2>1. 0 \in 0 .. n /\ \A k \in 1 .. n : k \in 0 .. n /\ k # 0
    BY <1>1
  <2> QED BY <1>6, <2>1
<1>9. \A k \in 0 .. n : h[k] \in Seq(Tokens)
  <2> DEFINE S == {k \in 0 .. n : h[k] \in Seq(Tokens)}
  <2>1. 0 \in S
    <3>1. 0 \in 0 .. n
      BY <1>1
    <3> QED BY <1>8, <3>1, EmptyLine
  <2>2. ASSUME NEW k \in 0 .. n - 1, k \in S PROVE k + 1 \in S
    <3>1. k + 1 \in 1 .. n /\ (k + 1) - 1 = k /\ k + 1 \in 0 .. n
      BY <1>1
    <3>2. h[k + 1] = Step(h[k], k + 1)
      BY <1>8, <3>1
    <3>3. h[k + 1] \in Seq(Tokens)
      BY <1>2, <2>2, <3>1, <3>2
    <3> QED BY <3>1, <3>3
  <2> HIDE DEF S
  <2>3. \A k \in 0 .. n : k \in S
    <3>1. 0 \in Int /\ n \in Int
      BY <1>1
    <3> QED BY <2>1, <2>2, <3>1, Induction
  <2> QED BY <2>3 DEF S
<1>10. h \in [0 .. n -> Seq(Tokens)]
  BY <1>7, <1>9
<1>11. Hears(h, messages, id)
  BY <1>8, <1>10 DEF Hears, Step, n
<1> QED BY <1>4, <1>11 DEF n

\* One text behind another.
Cat(s, t) == s \o t

LEMMA CatType == \A s, t \in Seq(Tokens) : Cat(s, t) \in Seq(Tokens)
  BY ConcatProperties DEF Cat

LEMMA CatAssociative ==
    \A s, t, u \in Seq(Tokens) : Cat(Cat(s, t), u) = Cat(s, Cat(t, u))
  BY ConcatAssociative DEF Cat

\* What was heard up to a message does not depend on those after it.
LEMMA HeardBefore ==
    ASSUME NEW old \in Seq(Message), NEW new \in Seq(Message), NEW id,
           NEW g, Hears(g, old, id), NEW h, Hears(h, old \o new, id)
    PROVE  h[Len(old)] = g[Len(old)]
<1> DEFINE n == Len(old)
           S == {k \in 0 .. n : h[k] = g[k]}
<1>1. /\ n \in Nat /\ Len(old \o new) = n + Len(new) /\ Len(new) \in Nat
      /\ \A k \in 1 .. n : (old \o new)[k] = old[k]
  BY Logged
<1>2. 0 \in S
  BY <1>1 DEF Hears
<1>3. ASSUME NEW k \in 0 .. n - 1, k \in S PROVE k + 1 \in S
  <2> DEFINE m == k + 1
  <2>1. m \in 1 .. n /\ m \in 1 .. Len(old \o new) /\ m - 1 = k /\ m \in 0 .. n
    BY <1>1
  <2> HIDE DEF m
  <2>2. (old \o new)[m] = old[m]
    BY <1>1, <2>1
  <2>3. g[m] = IF old[m].kind = "said" /\ old[m].id = id THEN g[k] \o old[m].line ELSE g[k]
    BY <2>1 DEF Hears
  <2>4. h[m] = IF old[m].kind = "said" /\ old[m].id = id THEN h[k] \o old[m].line ELSE h[k]
    BY <2>1, <2>2 DEF Hears
  <2>5. h[m] = g[m]
    BY <1>3, <2>3, <2>4
  <2> QED BY <2>1, <2>5 DEF m
<1> HIDE DEF S
<1>4. n \in S
  <2>1. 0 \in Int /\ n \in Int
    BY <1>1
  <2>2. \A k \in 0 .. n : k \in S
    BY <1>2, <1>3, <2>1, Induction
  <2> QED BY <1>1, <2>2
<1> QED BY <1>4 DEF S

\* Messages that the client did not say leave what was heard of it.
LEMMA HeardOthers ==
    ASSUME NEW old \in Seq(Message), NEW new \in Seq(Message), NEW id,
           \A k \in 1 .. Len(new) : ~(new[k].kind = "said" /\ new[k].id = id)
    PROVE  Heard(old \o new, id) = Heard(old, id)
<1> DEFINE n == Len(old)
           l == Len(new)
<1>1. PICK g : Hears(g, old, id) /\ Heard(old, id) = g[n]
  BY HeardIs
<1>2. old \o new \in Seq(Message)
  BY ConcatProperties
<1>3. PICK h : Hears(h, old \o new, id) /\ Heard(old \o new, id) = h[Len(old \o new)]
  BY <1>2, HeardIs
<1>4. /\ n \in Nat /\ Len(old \o new) = n + l /\ l \in Nat
      /\ \A k \in 1 .. l : (old \o new)[n + k] = new[k]
  BY Logged
<1> DEFINE S == {k \in 0 .. l : h[n + k] = g[n]}
<1>5. 0 \in S
  <2>1. h[n] = g[n]
    BY <1>1, <1>3, HeardBefore
  <2>2. n + 0 = n /\ 0 \in 0 .. l
    BY <1>4
  <2> QED BY <2>1, <2>2
<1>6. ASSUME NEW k \in 0 .. l - 1, k \in S PROVE k + 1 \in S
  <2> DEFINE m == n + (k + 1)
  <2>1. m \in 1 .. Len(old \o new) /\ m - 1 = n + k /\ k + 1 \in 1 .. l /\ k + 1 \in 0 .. l
    BY <1>4
  <2>2. (old \o new)[m] = new[k + 1]
    BY <1>4, <2>1
  <2> HIDE DEF m
  <2>3. ~((old \o new)[m].kind = "said" /\ (old \o new)[m].id = id)
    BY <2>1, <2>2
  <2>4. h[m] = h[m - 1]
    BY <1>3, <2>1, <2>3 DEF Hears
  <2>5. h[m] = g[n]
    BY <1>6, <2>1, <2>4
  <2> QED BY <2>1, <2>5 DEF m
<1> HIDE DEF S
<1>7. l \in S
  <2>1. 0 \in Int /\ l \in Int
    BY <1>4
  <2>2. \A k \in 0 .. l : k \in S
    BY <1>5, <1>6, <2>1, Induction
  <2> QED BY <1>4, <2>2
<1> QED BY <1>1, <1>3, <1>4, <1>7 DEF S

\* The newlines come one after the other, and the last one is the last.
LEMMA NthFollows ==
    ASSUME NEW s \in Seq(Tokens)
    PROVE  /\ Cardinality(Newlines(s)) \in Nat
           /\ NthNewline(s, 0) = 0
           /\ \A n \in 1 .. Cardinality(Newlines(s)) :
                 /\ NthNewline(s, n - 1) \in 0 .. Len(s)
                 /\ NthNewline(s, n) \in 0 .. Len(s)
                 /\ NthNewline(s, n - 1) <= NthNewline(s, n)
           /\ NthNewline(s, Cardinality(Newlines(s))) = LastNewline(s)
<1> DEFINE N == Cardinality(Newlines(s))
<1>1. /\ Newlines(s) \subseteq 1 .. Len(s) /\ Len(s) \in Nat
      /\ IsFiniteSet(Newlines(s)) /\ N \in Nat
  <2>1. Newlines(s) \subseteq 1 .. Len(s) /\ Len(s) \in Nat
    BY LenProperties DEF Newlines
  <2>2. IsFiniteSet(1 .. Len(s))
    BY <2>1, FS_Interval
  <2>3. IsFiniteSet(Newlines(s))
    BY <2>1, <2>2, FS_Subset
  <2> QED BY <2>1, <2>3, FS_CardinalityType
<1>2. NthNewline(s, 0) = 0
  BY DEF NthNewline
<1>3. \A n \in 0 .. N : /\ NthNewline(s, n) \in 0 .. Len(s)
                        /\ n # 0 => NthNewline(s, n) \in Newlines(s)
                        /\ Cardinality(Upto(s, NthNewline(s, n))) = n
  <2> SUFFICES ASSUME NEW n \in 0 .. N
               PROVE  /\ NthNewline(s, n) \in 0 .. Len(s)
                      /\ n # 0 => NthNewline(s, n) \in Newlines(s)
                      /\ Cardinality(Upto(s, NthNewline(s, n))) = n
    OBVIOUS
  <2>1. n \in Nat /\ n <= Cardinality(Newlines(s))
    BY <1>1
  <2> QED BY <2>1, NthIs
<1>4. ASSUME NEW n \in 1 .. N PROVE NthNewline(s, n - 1) <= NthNewline(s, n)
  <2> DEFINE a == NthNewline(s, n - 1)
             b == NthNewline(s, n)
  <2>1. n - 1 \in 0 .. N /\ n \in 0 .. N
    BY <1>1
  <2>2. /\ a \in 0 .. Len(s) /\ b \in 0 .. Len(s)
        /\ Cardinality(Upto(s, a)) = n - 1 /\ Cardinality(Upto(s, b)) = n
    BY <1>3, <2>1
  <2> HIDE DEF a, b
  <2>3. ASSUME b < a PROVE FALSE
    <3>1. Upto(s, b) \subseteq Upto(s, a)
      BY <1>1, <2>2, <2>3 DEF Upto
    <3>2. IsFiniteSet(Upto(s, a))
      BY <1>1, FS_Subset DEF Upto
    <3>3. Cardinality(Upto(s, b)) <= Cardinality(Upto(s, a))
      BY <3>1, <3>2, FS_Subset
    <3> QED BY <1>1, <2>2, <3>3
  <2> QED BY <1>1, <2>2, <2>3 DEF a, b
<1>5. NthNewline(s, N) = LastNewline(s)
  <2> DEFINE b == NthNewline(s, N)
  <2>1. /\ b \in 0 .. Len(s) /\ (N # 0 => b \in Newlines(s))
        /\ Cardinality(Upto(s, b)) = N
    BY <1>1, <1>3
  <2> HIDE DEF b
  <2>2. Upto(s, b) = Newlines(s)
    <3>1. Upto(s, b) \subseteq Newlines(s)
      BY DEF Upto
    <3> QED BY <1>1, <2>1, <3>1, FS_Subset
  <2>3. b \in Newlines(s) \cup {0}
    <3>1. CASE N = 0
      <4>1. b = 0
        BY <1>2, <3>1 DEF b
      <4> QED BY <4>1
    <3> QED BY <2>1, <3>1
  <2>4. \A j \in Newlines(s) : j <= b
    BY <2>2 DEF Upto
  <2>5. LastNewline(s) \in Newlines(s) \cup {0} /\ \A j \in Newlines(s) : j <= LastNewline(s)
    BY <2>3, <2>4 DEF LastNewline
  <2>6. LastNewline(s) <= b /\ b <= LastNewline(s)
    BY <1>1, <2>1, <2>3, <2>4, <2>5
  <2> QED BY <1>1, <2>1, <2>5, <2>6 DEF b
<1>6. \A n \in 1 .. N : n - 1 \in 0 .. N /\ n \in 0 .. N
  BY <1>1
<1> QED BY <1>1, <1>2, <1>3, <1>4, <1>5, <1>6

\* The new messages that a client said the lines of a buffer.
Relays(full, old, new, id, s) ==
    /\ full = old \o new
    /\ Len(new) = Cardinality(Newlines(s))
    /\ \A k \in 1 .. Len(new) :
          new[k] = Said(id, SubSeq(s, NthNewline(s, k - 1) + 1, NthNewline(s, k)))

\* The lines of a buffer, relayed, and what stays in it are what was in it.
LEMMA HeardLines ==
    ASSUME NEW old \in Seq(Message), NEW new \in Seq(Message), NEW id \in Nat,
           NEW s \in Seq(Tokens), NEW full, Relays(full, old, new, id, s)
    PROVE  Cat(Heard(full, id), RestOf(s)) = Cat(Heard(old, id), s)
<1> DEFINE n == Len(old)
           l == Len(new)
           at(k) == NthNewline(s, k)
<1>1. PICK g : Hears(g, old, id) /\ Heard(old, id) = g[n]
  BY HeardIs
<1>2. old \o new \in Seq(Message)
  BY ConcatProperties
<1>3. PICK h : Hears(h, old \o new, id) /\ Heard(old \o new, id) = h[Len(old \o new)]
  BY <1>2, HeardIs
<1>4. /\ n \in Nat /\ Len(old \o new) = n + l /\ l \in Nat
      /\ \A k \in 1 .. l : (old \o new)[n + k] = new[k]
  BY Logged
<1>5. g[n] \in Seq(Tokens) /\ Len(s) \in Nat
  <2>1. n \in 0 .. Len(old)
    BY <1>4
  <2>2. g \in [0 .. Len(old) -> Seq(Tokens)]
    BY <1>1 DEF Hears
  <2> QED BY <2>1, <2>2, LenProperties
<1>6. /\ at(0) = 0 /\ at(l) = LastNewline(s)
      /\ \A k \in 1 .. l : at(k - 1) \in 0 .. Len(s) /\ at(k) \in 0 .. Len(s) /\ at(k - 1) <= at(k)
  BY NthFollows DEF Relays
<1> DEFINE R == {k \in 0 .. l : h[n + k] = g[n] \o SubSeq(s, 1, at(k))}
<1> HIDE DEF n, l, at
<1>7. 0 \in R
  <2>1. h[n] = g[n]
    BY <1>1, <1>3, HeardBefore DEF n
  <2>2. SubSeq(s, 1, 0) = <<>>
    BY SubSeqEmpty
  <2>3. g[n] \o <<>> = g[n]
    BY <1>5, ConcatEmptySeq
  <2>4. n + 0 = n /\ 0 \in 0 .. l
    BY <1>4
  <2> QED BY <1>6, <2>1, <2>2, <2>3, <2>4
<1>8. ASSUME NEW k \in 0 .. l - 1, k \in R PROVE k + 1 \in R
  <2> DEFINE m == n + (k + 1)
             a == at(k)
             b == at(k + 1)
  <2>1. /\ m \in 1 .. Len(old \o new) /\ m - 1 = n + k /\ k + 1 \in 1 .. l /\ k + 1 \in 0 .. l
        /\ (k + 1) - 1 = k
    BY <1>4
  <2>2. a \in 0 .. Len(s) /\ b \in 0 .. Len(s) /\ a <= b
    BY <1>6, <2>1
  <2>3. (old \o new)[m] = Said(id, SubSeq(s, a + 1, b))
    <3>1. (old \o new)[m] = new[k + 1]
      BY <1>4, <2>1
    <3>2. new[k + 1] = Said(id, SubSeq(s, at((k + 1) - 1) + 1, at(k + 1)))
      BY <2>1 DEF at, l, Relays
    <3> QED BY <2>1, <3>1, <3>2
  <2> HIDE DEF m, a, b
  <2>4. /\ SubSeq(s, 1, a) \in Seq(Tokens) /\ SubSeq(s, a + 1, b) \in Seq(Tokens)
        /\ SubSeq(s, 1, a) \o SubSeq(s, a + 1, b) = SubSeq(s, 1, b)
    <3>1. \A i \in 1 .. Len(s) : s[i] \in Tokens
      BY ElementOfSeq
    <3>2. 1 \in 1 .. Len(s) + 1 /\ a \in 1 - 1 .. Len(s) /\ b \in a .. Len(s)
      BY <1>5, <2>2
    <3>3. SubSeq(s, 1, a) \o SubSeq(s, a + 1, b) = SubSeq(s, 1, b)
      BY <3>2, ConcatAdjacentSubSeq
    <3>4. /\ 1 \in Int /\ a \in Int /\ a + 1 \in Int /\ b \in Int
          /\ \A i \in 1 .. a : s[i] \in Tokens
          /\ \A i \in a + 1 .. b : s[i] \in Tokens
      BY <1>5, <2>2, <3>1
    <3> QED BY <3>3, <3>4, SubSeqProperties
  <2>5. /\ (old \o new)[m].kind = "said" /\ (old \o new)[m].id = id
        /\ (old \o new)[m].line = SubSeq(s, a + 1, b)
    <3>1. \A line : Said(id, line).kind = "said" /\ Said(id, line).id = id
                    /\ Said(id, line).line = line
      BY DEF Said
    <3> QED BY <2>3, <3>1, Zenon
  <2>6. h[m] = h[n + k] \o SubSeq(s, a + 1, b)
    BY <1>3, <2>1, <2>5 DEF Hears
  <2>7. h[n + k] = g[n] \o SubSeq(s, 1, a)
    BY <1>8 DEF a
  <2>8. h[m] = g[n] \o SubSeq(s, 1, b)
    <3> DEFINE x == g[n]
               y == SubSeq(s, 1, a)
               z == SubSeq(s, a + 1, b)
    <3>1. x \in Seq(Tokens) /\ y \in Seq(Tokens) /\ z \in Seq(Tokens)
      BY <1>5, <2>4
    <3>2. h[m] = Cat(Cat(x, y), z) /\ Cat(y, z) = SubSeq(s, 1, b)
      BY <2>4, <2>6, <2>7 DEF Cat
    <3> HIDE DEF x, y, z
    <3>3. Cat(Cat(x, y), z) = Cat(x, Cat(y, z))
      BY <3>1, CatAssociative
    <3>4. h[m] = Cat(x, SubSeq(s, 1, b))
      BY <3>2, <3>3
    <3> QED BY <3>4 DEF x, Cat
  <2> QED BY <2>1, <2>8 DEF m, b
<1> HIDE DEF R
<1>9. l \in R
  <2>1. 0 \in Int /\ l \in Int
    BY <1>4
  <2>2. \A k \in 0 .. l : k \in R
    BY <1>7, <1>8, <2>1, Induction
  <2> QED BY <1>4, <2>2
<1>10. Heard(full, id) = g[n] \o SubSeq(s, 1, LastNewline(s))
  BY <1>3, <1>4, <1>6, <1>9 DEF R, Relays
<1> DEFINE a == LastNewline(s)
<1>11. a \in 0 .. Len(s)
  BY <1>4, <1>6, NthIs DEF l, at, Relays
<1> HIDE DEF a
<1>12. /\ SubSeq(s, 1, a) \in Seq(Tokens) /\ SubSeq(s, a + 1, Len(s)) \in Seq(Tokens)
       /\ SubSeq(s, 1, a) \o SubSeq(s, a + 1, Len(s)) = s
  <2>1. \A i \in 1 .. Len(s) : s[i] \in Tokens
    BY ElementOfSeq
  <2>2. 1 \in 1 .. Len(s) + 1 /\ a \in 1 - 1 .. Len(s) /\ Len(s) \in a .. Len(s)
    BY <1>5, <1>11
  <2>3. SubSeq(s, 1, a) \o SubSeq(s, a + 1, Len(s)) = SubSeq(s, 1, Len(s))
    BY <2>2, ConcatAdjacentSubSeq
  <2>4. SubSeq(s, 1, Len(s)) = s
    BY SubSeqFull
  <2>5. /\ 1 \in Int /\ a \in Int /\ a + 1 \in Int /\ Len(s) \in Int
        /\ \A i \in 1 .. a : s[i] \in Tokens
        /\ \A i \in a + 1 .. Len(s) : s[i] \in Tokens
    BY <1>5, <1>11, <2>1
  <2> QED BY <2>3, <2>4, <2>5, SubSeqProperties
<1>13. Cat(Cat(g[n], SubSeq(s, 1, a)), SubSeq(s, a + 1, Len(s))) = Cat(g[n], s)
  <2> DEFINE x == g[n]
             y == SubSeq(s, 1, a)
             z == SubSeq(s, a + 1, Len(s))
  <2>1. x \in Seq(Tokens) /\ y \in Seq(Tokens) /\ z \in Seq(Tokens)
    BY <1>5, <1>12
  <2>2. Cat(y, z) = s
    BY <1>12 DEF Cat
  <2> HIDE DEF x, y, z
  <2>3. Cat(Cat(x, y), z) = Cat(x, s)
    BY <2>1, <2>2, CatAssociative
  <2> QED BY <2>3 DEF x, y, z
<1>14. Heard(full, id) = Cat(g[n], SubSeq(s, 1, a))
  BY <1>10 DEF a, Cat
<1> QED BY <1>1, <1>13, <1>14 DEF RestOf, a, n

\* Connections are behind one descriptor at most, and behind none while they
\* wait; nothing was read of one that has not been accepted.
Behind == \A f, g \in ClientFd : Connected(f) /\ conn[f] = conn[g] => f = g
NotYet == \A c \in backlog, f \in ClientFd : conn[f] # c
Waits(c) == c \in backlog \/ c \notin Used \cup closed
Unread == \A c \in Client : Waits(c) => wire[c] = said[c]
Streams ==
    ~noMemory =>
        \A f \in ClientFd :
            Connected(f) =>
                said[conn[f]] = Heard(log, ids[f]) \o (msgs[f] \o wire[conn[f]])

StreamInv == Behind /\ NotYet /\ Unread /\ Streams

LEMMA HeardType ==
    ASSUME NEW messages \in Seq(Message), NEW id
    PROVE  Heard(messages, id) \in Seq(Tokens)
<1>1. PICK h : Hears(h, messages, id) /\ Heard(messages, id) = h[Len(messages)]
  BY HeardIs
<1>2. Len(messages) \in Nat
  BY LenProperties
<1>3. Len(messages) \in 0 .. Len(messages)
  BY <1>2
<1> QED BY <1>1, <1>3 DEF Hears

\* The parts of a stream are sequences of tokens.
LEMMA PartsType ==
    ASSUME TInv, NEW f \in ClientFd, Connected(f)
    PROVE  /\ conn[f] \in Client /\ log \in Seq(Message) /\ ids[f] \in Nat
           /\ Heard(log, ids[f]) \in Seq(Tokens) /\ msgs[f] \in Seq(Tokens)
           /\ wire[conn[f]] \in Seq(Tokens) /\ said[conn[f]] \in Seq(Tokens)
<1>1. conn[f] \in Client /\ log \in Seq(Message)
  BY DEF TInv, Tables, Connected
<1>2. Heard(log, ids[f]) \in Seq(Tokens)
  BY <1>1, HeardType
<1> QED BY <1>1, <1>2 DEF TInv, Tables

\* A message that is not said changes nothing that was heard.
LEMMA HeardQuiet ==
    ASSUME TInv, NEW m \in Message, m.kind # "said", log' = log \o <<m>>, NEW id
    PROVE  Heard(log', id) = Heard(log, id)
<1>1. log \in Seq(Message)
  BY DEF TInv
<1> DEFINE new == <<m>>
<1>2. new \in Seq(Message) /\ \A k \in 1 .. Len(new) : new[k] = m
  OBVIOUS
<1>3. log' = log \o new
  OBVIOUS
<1> HIDE DEF new
<1> QED BY <1>1, <1>2, <1>3, HeardOthers

LEMMA StreamEnvironment ==
    ASSUME TInv, StreamInv, Environment
    PROVE  StreamInv'
<1> USE DEF server, history
<1>1. UNCHANGED <<conn, noMemory, log, ids, msgs>>
  BY DEF Environment, Connect, Speak, Close
<1>2. /\ Used' = Used /\ \A f : Connected(f)' <=> Connected(f)
      /\ \A f \in ClientFd : Connected(f) => conn[f] \in Used /\ conn[f] \in Client
  BY <1>1 DEF Used, Connected, TInv, Tables
<1>3. Behind'
  BY <1>1, <1>2 DEF StreamInv, Behind
<1>4. ASSUME NEW c \in Client, Connect(c) PROVE StreamInv'
  <2>1. c \notin Used /\ c \notin closed /\ backlog' = backlog \cup {c}
        /\ UNCHANGED <<closed, said, wire>>
    BY <1>4 DEF Connect
  <2>2. NotYet'
    BY <1>1, <2>1 DEF StreamInv, NotYet, Used
  <2>3. Unread'
    BY <1>2, <2>1 DEF StreamInv, Unread, Waits
  <2>4. Streams'
    BY <1>1, <1>2, <2>1 DEF StreamInv, Streams
  <2> QED BY <1>3, <2>2, <2>3, <2>4 DEF StreamInv
<1>5. ASSUME NEW c \in Client, Speak(c) PROVE StreamInv'
  <2>1. PICK token \in {0, Len(said[c]) + 1} :
            /\ said' = [said EXCEPT ![c] = Append(@, token)]
            /\ wire' = [wire EXCEPT ![c] = Append(@, token)]
    BY <1>5 DEF Speak
  <2>2. said[c] \in Seq(Tokens) /\ wire[c] \in Seq(Tokens)
    BY DEF TInv, Tables
  <2>3. token \in Tokens
    <3>1. Len(said[c]) \in Nat
      BY <2>2, LenProperties
    <3> QED BY <3>1 DEF Tokens
  <2>4. UNCHANGED <<backlog, closed>>
    BY <1>5 DEF Speak
  <2>5. /\ said'[c] = Append(said[c], token) /\ wire'[c] = Append(wire[c], token)
        /\ \A d \in Client : d # c => said'[d] = said[d] /\ wire'[d] = wire[d]
    BY <2>1 DEF TInv, Tables
  <2>6. Unread'
    BY <1>2, <2>4, <2>5 DEF StreamInv, Unread, Waits
  <2>7. NotYet'
    BY <1>1, <2>4 DEF StreamInv, NotYet
  <2>8. ASSUME ~noMemory, NEW f \in ClientFd, Connected(f)
        PROVE  said'[conn[f]] = Heard(log, ids[f]) \o (msgs[f] \o wire'[conn[f]])
    <3>1. said[conn[f]] = Heard(log, ids[f]) \o (msgs[f] \o wire[conn[f]])
      BY <2>8 DEF StreamInv, Streams
    <3>2. CASE conn[f] # c
      BY <1>2, <2>5, <2>8, <3>1, <3>2
    <3>3. CASE conn[f] = c
      <4> DEFINE h == Heard(log, ids[f])
                 m == msgs[f]
                 w == wire[c]
      <4>1. h \in Seq(Tokens) /\ m \in Seq(Tokens) /\ w \in Seq(Tokens)
        BY <2>2, <2>8, PartsType
      <4>2. said[c] = h \o (m \o w)
        BY <3>1, <3>3
      <4> HIDE DEF h, m, w
      <4>3. <<token>> \in Seq(Tokens)
        BY <2>3
      <4>4. Append(said[c], token) = Cat(said[c], <<token>>)
        BY <2>2, <2>3, AppendIsConcat DEF Cat
      <4>5. Append(w, token) = Cat(w, <<token>>)
        BY <2>3, <4>1, AppendIsConcat DEF Cat
      <4>6. said[c] = Cat(h, Cat(m, w))
        BY <4>2 DEF Cat
      <4> DEFINE t == <<token>>
      <4>7. t \in Seq(Tokens)
        BY <4>3
      <4> HIDE DEF t
      <4>8. Cat(Cat(h, Cat(m, w)), t) = Cat(h, Cat(m, Cat(w, t)))
        <5>1. Cat(m, w) \in Seq(Tokens)
          BY <4>1, CatType
        <5>2. Cat(Cat(h, Cat(m, w)), t) = Cat(h, Cat(Cat(m, w), t))
          BY <4>1, <4>7, <5>1, CatAssociative
        <5>3. Cat(Cat(m, w), t) = Cat(m, Cat(w, t))
          BY <4>1, <4>7, CatAssociative
        <5> QED BY <5>2, <5>3
      <4>9. said'[c] = Cat(h, Cat(m, wire'[c]))
        BY <2>5, <4>4, <4>5, <4>6, <4>8 DEF t, w
      <4>10. said'[c] = h \o (m \o wire'[c])
        BY <4>9 DEF Cat
      <4> QED BY <3>3, <4>10 DEF h, m
    <3> QED BY <3>2, <3>3
  <2>9. Streams'
    BY <1>1, <1>2, <2>8 DEF Streams
  <2> QED BY <1>3, <2>6, <2>7, <2>9 DEF StreamInv
<1>6. ASSUME NEW c \in Client, Close(c) PROVE StreamInv'
  <2>1. closed' = closed \cup {c} /\ UNCHANGED <<backlog, said, wire>>
    BY <1>6 DEF Close
  <2>2. NotYet'
    BY <1>1, <2>1 DEF StreamInv, NotYet
  <2>3. Unread'
    BY <1>2, <2>1 DEF StreamInv, Unread, Waits
  <2>4. Streams'
    BY <1>1, <1>2, <2>1 DEF StreamInv, Streams
  <2> QED BY <1>3, <2>2, <2>3, <2>4 DEF StreamInv
<1> QED BY <1>4, <1>5, <1>6 DEF Environment

\* A client that is accepted was not heard of, and nothing of it was read.
LEMMA StreamAccept ==
    ASSUME TInv, IdInv, StreamInv, Accept
    PROVE  StreamInv'
<1>1. PICK c \in backlog, f \in ClientFd :
          /\ conn[f] = NoOne
          /\ conn' = [conn EXCEPT ![f] = c]
          /\ backlog' = backlog \ {c}
          /\ Register(f)
  BY DEF Accept
<1>2. /\ ids' = [ids EXCEPT ![f] = count] /\ msgs' = [msgs EXCEPT ![f] = <<>>]
      /\ log' = log \o <<Arrived(count)>>
  BY <1>1 DEF Register, Notify
<1>3. UNCHANGED <<noMemory, closed, said, wire>>
  BY DEF Accept
<1>4. /\ count \in Nat /\ c \in Client /\ c # NoOne /\ log \in Seq(Message)
      /\ Arrived(count) \in Message /\ Arrived(count).kind # "said"
  <2>1. count \in Nat /\ c \in Client /\ c # NoOne /\ log \in Seq(Message)
    BY DEF TInv, Numbers, Sets
  <2>2. Arrived(count) \in Message
    BY <2>1, MessageTypes
  <2>3. Arrived(count).kind = "arrived"
    BY DEF Arrived
  <2> QED BY <2>1, <2>2, <2>3
<1>5. /\ conn'[f] = c /\ ids'[f] = count /\ msgs'[f] = <<>>
      /\ \A g \in ClientFd : g # f => /\ conn'[g] = conn[g] /\ ids'[g] = ids[g]
                                      /\ msgs'[g] = msgs[g]
  BY <1>1, <1>2 DEF TInv, Tables
<1>6. \A g \in ClientFd : conn[g] # c
  BY DEF StreamInv, NotYet
<1>7. Behind'
  BY <1>5, <1>6 DEF StreamInv, Behind, Connected
<1>8. NotYet'
  BY <1>1, <1>5 DEF StreamInv, NotYet
<1>9. Unread'
  <2>1. ASSUME NEW d \in Client, Waits(d)' PROVE Waits(d)
    <3>1. d \in Used => d \in Used'
      BY <1>1, <1>5, <1>4 DEF Used
    <3> QED BY <1>1, <1>3, <2>1, <3>1 DEF Waits
  <2> QED BY <1>3, <2>1 DEF StreamInv, Unread
<1>10. Heard(log', count) = <<>>
  <2>1. Heard(log', count) = Heard(log, count)
    BY <1>2, <1>4, HeardQuiet
  <2>2. \A k \in 1 .. Len(log) : log[k].id # count
    BY <1>4, LogIds DEF IdInv, Told
  <2>3. Heard(<<>> \o log, count) = Heard(<<>>, count)
    <3>1. <<>> \in Seq(Message)
      OBVIOUS
    <3> QED BY <1>4, <2>2, <3>1, HeardOthers
  <2>4. <<>> \o log = log
    BY <1>4, ConcatEmptySeq
  <2>5. Heard(<<>>, count) = <<>>
    <3>1. <<>> \in Seq(Message) /\ Len(<<>>) = 0
      OBVIOUS
    <3>2. PICK h : Hears(h, <<>>, count) /\ Heard(<<>>, count) = h[Len(<<>>)]
      BY <3>1, HeardIs
    <3> QED BY <3>1, <3>2 DEF Hears
  <2> QED BY <2>1, <2>3, <2>4, <2>5
<1>11. ASSUME ~noMemory, NEW g \in ClientFd, Connected(g)'
       PROVE  said[conn'[g]] = Heard(log', ids'[g]) \o (msgs'[g] \o wire[conn'[g]])
  <2>1. CASE g = f
    <3>1. wire[c] = said[c] /\ wire[c] \in Seq(Tokens)
      BY <1>4 DEF StreamInv, Unread, Waits, TInv, Tables
    <3>2. <<>> \o wire[c] = wire[c]
      BY <3>1, ConcatEmptySeq
    <3> QED BY <1>5, <1>10, <2>1, <3>1, <3>2
  <2>2. CASE g # f
    <3>1. Connected(g) /\ conn'[g] = conn[g] /\ ids'[g] = ids[g] /\ msgs'[g] = msgs[g]
      BY <1>5, <1>11, <2>2 DEF Connected
    <3>2. said[conn[g]] = Heard(log, ids[g]) \o (msgs[g] \o wire[conn[g]])
      BY <1>11, <3>1 DEF StreamInv, Streams
    <3>3. Heard(log', ids[g]) = Heard(log, ids[g])
      BY <1>2, <1>4, HeardQuiet
    <3> QED BY <3>1, <3>2, <3>3
  <2> QED BY <2>1, <2>2
<1>12. Streams'
  BY <1>3, <1>11 DEF Streams
<1> QED BY <1>7, <1>8, <1>9, <1>12 DEF StreamInv

LEMMA StreamDisconnect ==
    ASSUME PassInv, TInv, StreamInv, NEW f \in ClientFd, Disconnect(f)
    PROVE  StreamInv'
<1>1. /\ conn' = [conn EXCEPT ![f] = NoOne] /\ conn[f] \in closed
      /\ log' = log \o <<Departed(ids[f])>>
      /\ UNCHANGED <<ids, msgs, noMemory, backlog, closed, said, wire>>
  BY DEF Disconnect, Notify, clients
<1>2. conn[f] \in Client /\ ids[f] \in Nat
  BY HandlesClient DEF Disconnect, TInv, Tables
<1>3. Departed(ids[f]) \in Message /\ Departed(ids[f]).kind # "said"
  <2>1. Departed(ids[f]).kind = "left"
    BY DEF Departed
  <2> QED BY <1>2, <2>1, MessageTypes
<1>4. /\ conn'[f] = NoOne
      /\ \A g \in ClientFd : g # f => conn'[g] = conn[g]
  BY <1>1 DEF TInv, Tables
<1>5. \A g \in ClientFd : Connected(g)' => Connected(g) /\ g # f /\ conn'[g] = conn[g]
  BY <1>4 DEF Connected
<1>6. Behind'
  BY <1>4, <1>5 DEF StreamInv, Behind, Connected
<1>7. NotYet'
  BY <1>1, <1>4, NoOneAssumption DEF StreamInv, NotYet, TInv, Sets
<1>8. Unread'
  <2>1. ASSUME NEW d \in Client, Waits(d)' PROVE Waits(d)
    <3>1. d \in Used => d \in Used' \/ d = conn[f]
      BY <1>4 DEF Used
    <3> QED BY <1>1, <2>1, <3>1 DEF Waits
  <2> QED BY <1>1, <2>1 DEF StreamInv, Unread
<1>9. Streams'
  <2>1. ASSUME ~noMemory, NEW g \in ClientFd, Connected(g)'
        PROVE  said[conn[g]] = Heard(log', ids[g]) \o (msgs[g] \o wire[conn[g]])
    <3>1. said[conn[g]] = Heard(log, ids[g]) \o (msgs[g] \o wire[conn[g]])
      BY <1>5, <2>1 DEF StreamInv, Streams
    <3>2. Heard(log', ids[g]) = Heard(log, ids[g])
      BY <1>1, <1>3, HeardQuiet
    <3> QED BY <3>1, <3>2
  <2> QED BY <1>1, <1>5, <2>1 DEF Streams
<1> QED BY <1>6, <1>7, <1>8, <1>9 DEF StreamInv

\* What recv takes goes into the messages and the buffer.
LEMMA StreamReceive ==
    ASSUME PassInv, TInv, IdInv, StreamInv, NEW f \in ClientFd, Receive(f)
    PROVE  StreamInv'
<1> DEFINE c == conn[f]
<1>1. c \in Client /\ Connected(f) /\ c \in Used /\ ids[f] \in Nat
  <2>1. c \in Client
    BY HandlesClient DEF Receive
  <2>2. c # NoOne /\ ids[f] \in Nat
    BY <2>1 DEF TInv, Tables
  <2> QED BY <2>1, <2>2 DEF Connected, Used
<1>2. PICK n \in 1 .. Len(wire[c]) :
          LET joined == msgs[f] \o SubSeq(wire[c], 1, n)
              lines == LinesOf(joined)
          IN  /\ wire' = [wire EXCEPT ![c] = SubSeq(@, n + 1, Len(@))]
              /\ msgs' = [msgs EXCEPT ![f] = RestOf(joined)]
              /\ UNCHANGED <<ids, noMemory, conn, backlog, closed, said>>
              /\ Notify(f, [k \in 1 .. Len(lines) |-> Said(ids[f], lines[k])])
  BY DEF Receive
<1> DEFINE s == msgs[f] \o SubSeq(wire[c], 1, n)
           new == [k \in 1 .. Len(LinesOf(s)) |-> Said(ids[f], LinesOf(s)[k])]
           w == SubSeq(wire[c], n + 1, Len(wire[c]))
<1>3. /\ wire' = [wire EXCEPT ![c] = w] /\ msgs' = [msgs EXCEPT ![f] = RestOf(s)]
      /\ UNCHANGED <<ids, noMemory, conn, backlog, closed, said>>
      /\ log' = log \o new
  BY <1>2 DEF Notify
<1>4. /\ msgs[f] \in Seq(Tokens) /\ wire[c] \in Seq(Tokens) /\ s \in Seq(Tokens)
      /\ w \in Seq(Tokens) /\ log \in Seq(Message)
  BY <1>1, PiecesType DEF TInv, Tables
<1>5. SubSeq(wire[c], 1, n) \in Seq(Tokens) /\ SubSeq(wire[c], 1, n) \o w = wire[c]
  <2> DEFINE v == wire[c]
             l == Len(v)
  <2>1. v \in Seq(Tokens) /\ n \in 1 .. l
    BY <1>4
  <2> HIDE DEF v
  <2>2. l \in Nat /\ \A k \in 1 .. l : v[k] \in Tokens
    BY <2>1, LenProperties, ElementOfSeq
  <2>3. 1 \in 1 .. Len(v) + 1 /\ n \in 1 - 1 .. Len(v) /\ l \in n .. Len(v)
    BY <2>1, <2>2
  <2>4. SubSeq(v, 1, n) \o SubSeq(v, n + 1, l) = SubSeq(v, 1, l)
    BY <2>1, <2>3, ConcatAdjacentSubSeq
  <2>5. SubSeq(v, 1, l) = v
    BY <2>1, SubSeqFull
  <2>6. SubSeq(v, 1, n) \in Seq(Tokens)
    <3>1. 1 \in Int /\ n \in Int /\ \A k \in 1 .. n : v[k] \in Tokens
      BY <2>1, <2>2
    <3> QED BY <3>1, SubSeqProperties
  <2> QED BY <2>4, <2>5, <2>6 DEF v
<1>6. /\ LinesOf(s) \in Seq(Seq(Tokens)) /\ RestOf(s) \in Seq(Tokens)
      /\ Cardinality(Newlines(s)) \in Nat
  BY <1>4, LinesType, NthFollows
<1>7. /\ Len(LinesOf(s)) = Cardinality(Newlines(s))
      /\ \A k \in 1 .. Cardinality(Newlines(s)) :
            LinesOf(s)[k] = SubSeq(s, NthNewline(s, k - 1) + 1, NthNewline(s, k))
  <2> DEFINE N == Cardinality(Newlines(s))
  <2>1. DOMAIN LinesOf(s) = 1 .. N
    BY DEF LinesOf
  <2>2. \A k \in 1 .. N : LinesOf(s)[k] = SubSeq(s, NthNewline(s, k - 1) + 1, NthNewline(s, k))
    BY DEF LinesOf
  <2>3. Len(LinesOf(s)) \in Nat /\ DOMAIN LinesOf(s) = 1 .. Len(LinesOf(s))
    BY <1>6, LenProperties
  <2> HIDE DEF N, s
  <2>4. N \in Nat
    BY <1>6 DEF N
  <2>5. Len(LinesOf(s)) = N
    BY <2>1, <2>3, <2>4
  <2> QED BY <2>2, <2>5 DEF N
<1>8. /\ new \in Seq(Message) /\ Len(new) = Cardinality(Newlines(s))
      /\ \A k \in 1 .. Len(new) : new[k] = Said(ids[f], LinesOf(s)[k])
  <2>1. \A k \in 1 .. Len(LinesOf(s)) : LinesOf(s)[k] \in Seq(Tokens)
    BY <1>6, ElementOfSeq
  <2>2. \A k \in 1 .. Len(LinesOf(s)) : Said(ids[f], LinesOf(s)[k]) \in Message
    BY <1>1, <2>1, MessageTypes
  <2> DEFINE l == Len(LinesOf(s))
  <2>3. l \in Nat /\ new \in [1 .. l -> Message]
    BY <1>6, <2>2, LenProperties
  <2>4. \A k \in 1 .. l : new[k] = Said(ids[f], LinesOf(s)[k])
    OBVIOUS
  <2> HIDE DEF l, new
  <2>5. new \in Seq(Message) /\ Len(new) = l
    BY <2>3
  <2> QED BY <1>7, <2>4, <2>5 DEF l
<1> HIDE DEF c, s, new, w
<1>9. /\ msgs'[f] = RestOf(s) /\ wire'[c] = w
      /\ \A g \in ClientFd : g # f => msgs'[g] = msgs[g]
      /\ \A d \in Client : d # c => wire'[d] = wire[d]
  BY <1>1, <1>3 DEF TInv, Tables
<1>10. \A g \in ClientFd : g # f /\ Connected(g) => conn[g] # c /\ conn[g] \in Client
  BY <1>1 DEF StreamInv, Behind, Connected, TInv, Tables, c
<1>11. Cat(Heard(log', ids[f]), RestOf(s)) = Cat(Heard(log, ids[f]), s)
  <2>1. Relays(log', log, new, ids[f], s)
    BY <1>3, <1>7, <1>8 DEF Relays
  <2>2. log \in Seq(Message) /\ new \in Seq(Message) /\ ids[f] \in Nat /\ s \in Seq(Tokens)
    BY <1>1, <1>4, <1>8
  <2> QED BY <2>1, <2>2, HeardLines
<1>12. \A g \in ClientFd : g # f /\ Connected(g) => Heard(log', ids[g]) = Heard(log, ids[g])
  <2> SUFFICES ASSUME NEW g \in ClientFd, g # f, Connected(g)
               PROVE  Heard(log', ids[g]) = Heard(log, ids[g])
    OBVIOUS
  <2>1. ids[g] # ids[f]
    BY <1>1 DEF IdInv, Distinct
  <2>2. \A k \in 1 .. Len(new) : new[k].id = ids[f]
    BY <1>8 DEF Said
  <2>3. \A k \in 1 .. Len(new) : ~(new[k].kind = "said" /\ new[k].id = ids[g])
    BY <2>1, <2>2
  <2> QED BY <1>3, <1>4, <1>8, <2>3, HeardOthers
<1>13. ASSUME ~noMemory, NEW g \in ClientFd, Connected(g)
       PROVE  said[conn[g]] = Heard(log', ids[g]) \o (msgs'[g] \o wire'[conn[g]])
  <2>1. said[conn[g]] = Heard(log, ids[g]) \o (msgs[g] \o wire[conn[g]])
    BY <1>13 DEF StreamInv, Streams
  <2>2. CASE g # f
    BY <1>9, <1>10, <1>12, <1>13, <2>1, <2>2
  <2>3. CASE g = f
    <3> DEFINE h == Heard(log, ids[f])
               k == Heard(log', ids[f])
               m == msgs[f]
               r == RestOf(s)
               v == SubSeq(wire[c], 1, n)
    <3>1. log' \in Seq(Message)
      BY <1>3, <1>4, <1>8, ConcatProperties
    <3>2. h \in Seq(Tokens) /\ k \in Seq(Tokens)
      <4>1. \A l \in Seq(Message) : Heard(l, ids[f]) \in Seq(Tokens)
        BY HeardType
      <4> QED BY <1>4, <3>1, <4>1
    <3>3. m \in Seq(Tokens) /\ r \in Seq(Tokens) /\ v \in Seq(Tokens) /\ w \in Seq(Tokens)
      BY <1>4, <1>5, <1>6
    <3>4. s = Cat(m, v) /\ Cat(k, r) = Cat(h, s) /\ Cat(v, w) = wire[c]
      BY <1>5, <1>11 DEF s, Cat
    <3>5. said[c] = Cat(h, Cat(m, wire[c]))
      BY <2>1, <2>3 DEF c, Cat
    <3> HIDE DEF h, k, m, r, v
    <3>6. Cat(k, Cat(r, w)) = Cat(Cat(k, r), w)
      BY <3>2, <3>3, CatAssociative
    <3>7. Cat(Cat(h, Cat(m, v)), w) = Cat(h, Cat(m, Cat(v, w)))
      BY <3>2, <3>3, CatType, CatAssociative
    <3>8. Cat(k, Cat(r, w)) = said[c]
      BY <3>4, <3>5, <3>6, <3>7
    <3>9. k \o (r \o w) = said[c]
      BY <3>8 DEF Cat
    <3> QED BY <1>9, <2>3, <3>9 DEF k, r, c
  <2> QED BY <2>2, <2>3
<1>14. Streams'
  BY <1>3, <1>13 DEF Streams, Connected
<1>15. Behind' /\ NotYet'
  BY <1>3 DEF StreamInv, Behind, NotYet, Connected
<1>16. Unread'
  <2>1. ~Waits(c)
    BY <1>1 DEF StreamInv, NotYet, Waits, c
  <2>2. \A d \in Client : Waits(d)' => Waits(d)
    BY <1>3 DEF Waits, Used
  <2> QED BY <1>3, <1>9, <2>1, <2>2 DEF StreamInv, Unread
<1> QED BY <1>14, <1>15, <1>16 DEF StreamInv

LEMMA StreamNoMemory ==
    ASSUME PassInv, TInv, StreamInv, NEW f \in ClientFd,
           ReceiveNoMemory(f) \/ ExtractFails(f)
    PROVE  StreamInv'
<1> DEFINE c == conn[f]
<1>1. c \in Client /\ c \in Used
  BY HandlesClient DEF ReceiveNoMemory, ExtractFails, Used
<1>2. /\ noMemory' = TRUE /\ UNCHANGED <<conn, backlog, closed, said>>
      /\ \A d \in Client : d # c => wire'[d] = wire[d]
  BY DEF ReceiveNoMemory, ExtractFails, TInv, Tables
<1>3. ~Waits(c)
  BY <1>1 DEF StreamInv, NotYet, Waits
<1>4. \A d \in Client : Waits(d)' => Waits(d)
  BY <1>2 DEF Waits, Used
<1> HIDE DEF c
<1>5. Unread'
  BY <1>2, <1>3, <1>4 DEF StreamInv, Unread
<1> QED BY <1>2, <1>5 DEF StreamInv, Streams, Behind, NotYet, Connected

LEMMA StreamStep ==
    ASSUME PassInv, TInv, IdInv, StreamInv, [Next]_vars
    PROVE  StreamInv'
<1>1. CASE Select \/ AcceptFails \/ SendReturns \/ UNCHANGED vars
  <2>1. UNCHANGED <<conn, backlog, closed, said, wire, noMemory, log, ids, msgs>>
    BY <1>1 DEF Select, AcceptFails, SendReturns, vars, server, clients, history
  <2> QED BY <2>1 DEF StreamInv, Behind, NotYet, Unread, Streams, Waits, Used, Connected
<1> QED BY <1>1, StreamEnvironment, StreamAccept, StreamDisconnect, StreamReceive,
           StreamNoMemory DEF Next, Server

\* Whatever pieces recv returns a stream in, and whatever descriptors are reused,
\* the messages under the id of a client, its buffer and what has not been read
\* are together what it sent, for any number of clients and of descriptors.
THEOREM StreamsStayIntact == Spec => []StreamIntact
<1>1. Init => StreamInv
  BY DEF Init, StreamInv, Behind, NotYet, Unread, Streams, Connected
<1>2. TInv /\ StreamInv => StreamIntact
  <2> SUFFICES ASSUME TInv, StreamInv, ~noMemory, NEW f \in ClientFd, conn[f] # NoOne
               PROVE  said[conn[f]] = Heard(log, ids[f]) \o msgs[f] \o wire[conn[f]]
    BY DEF StreamIntact
  <2> DEFINE h == Heard(log, ids[f])
             m == msgs[f]
             w == wire[conn[f]]
  <2>1. said[conn[f]] = h \o (m \o w)
    BY DEF StreamInv, Streams, Connected
  <2>2. h \in Seq(Tokens) /\ m \in Seq(Tokens) /\ w \in Seq(Tokens)
    BY PartsType DEF Connected
  <2> HIDE DEF h, m, w
  <2>3. Cat(Cat(h, m), w) = Cat(h, Cat(m, w))
    BY <2>2, CatAssociative
  <2>4. said[conn[f]] = h \o m \o w
    BY <2>1, <2>3 DEF Cat
  <2> QED BY <2>4 DEF h, m, w
<1> QED BY <1>1, <1>2, StreamStep, IdsAlways, PTL DEF Spec
=============================================================================
