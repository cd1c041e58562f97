------------------------ MODULE WebservRequestProofs ------------------------
(***************************************************************************)
(* Proofs about WebservRequest for all files, requests and scripts: what   *)
(* is answered as a script's output is all of it, nothing the server has   *)
(* forked outlives its request, a request is answered once, the disk       *)
(* changes only as a request has the right to, and the servers that start  *)
(* are set from their own blocks of the file.                              *)
(***************************************************************************)
EXTENDS WebservRequest, SequenceTheorems, FiniteSetTheorems, TLAPS

USE WritesAssumption, PipeAssumption, NoScriptAssumption

-----------------------------------------------------------------------------
(* The script *)

Waits == {"wait", "kill", "read"}

\* The server closes its write end at once, what was written is in the pipe up
\* to the end of the wait, and the process is gone when the pipe is read.
CgiInv ==
    /\ caller \in {"none", "wait", "kill", "read", "true", "false"}
    /\ wrote \in Nat /\ pipe \in Nat
    /\ caller \in Waits => ~writeEnd
    /\ caller \in {"wait", "kill"} => child # "none" /\ pipe = wrote
    /\ caller = "read" => child = "none" /\ pipe = wrote
    /\ caller \notin Waits => child = "none" /\ (readEnd \/ writeEnd => forkFailed)
    /\ caller = "true" => _py_body_response = wrote

Elsewhere ==
    UNCHANGED <<caller, child, wrote, pipe, readEnd, writeEnd, _py_body_response,
                forkFailed>>

LEMMA CgiKept == CgiInv /\ Elsewhere => CgiInv'
  BY DEF CgiInv, Elsewhere, Waits

LEMMA CgiRun == CgiInv /\ CgiStep => CgiInv'
<1> SUFFICES ASSUME CgiInv, CgiStep PROVE CgiInv'
  OBVIOUS
<1> USE DEF process, result, CgiInv, Waits
<1>1. CASE WaitOver
  BY <1>1 DEF WaitOver
<1>2. CASE TimeOver
  BY <1>2 DEF TimeOver
<1>3. CASE Kill
  BY <1>3 DEF Kill
<1>4. CASE ReadAll
  BY <1>4 DEF ReadAll
<1>5. CASE Exec
  BY <1>5 DEF Exec
<1>6. CASE ExecFails
  BY <1>6 DEF ExecFails
<1>7. CASE ScriptWrites
  BY <1>7 DEF ScriptWrites
<1>8. CASE ScriptEnds
  BY <1>8 DEF ScriptEnds
<1>9. CASE ServerLogs
  BY <1>9 DEF ServerLogs
<1>10. CASE TimePasses
  BY <1>10 DEF TimePasses
<1> QED
  BY <1>1, <1>2, <1>3, <1>4, <1>5, <1>6, <1>7, <1>8, <1>9, <1>10
  DEF CgiStep, Parent, Child

\* What a handler of the server does to the script.
LEMMA Handlers ==
    ASSUME Handle
    PROVE  \/ Elsewhere
           \/ /\ caller = "none"
              /\ \E s \in Script : Fork(s) \/ PipeFails(s) \/ ForkFails(s)
           \/ caller \in {"true", "false"} /\ ScriptAnswered
<1> USE DEF cgiVars, process, result, Elsewhere
<1>1. CASE HandleUnframed \/ HandleThrows \/ HandleLoops \/ HandleError
  BY <1>1 DEF HandleUnframed, HandleThrows, HandleLoops, HandleError
<1>2. CASE HandleUpload \/ HandleDelete \/ HandleFile \/ HandleDirectory
  BY <1>2, ZenonT(30) DEF HandleUpload, HandleDelete, HandleFile, HandleDirectory
<1>3. CASE HandleScript
  BY <1>3 DEF HandleScript, Opened, Prepares, Receives
<1>4. CASE ScriptAnswered
  BY <1>4 DEF ScriptAnswered
<1> QED BY <1>1, <1>2, <1>3, <1>4 DEF Handle

LEMMA CgiStays == CgiInv /\ [Next]_vars => CgiInv'
<1> SUFFICES ASSUME CgiInv, [Next]_vars PROVE CgiInv'
  OBVIOUS
<1> USE DEF cgiVars, process, result
<1>1. CASE Start
  BY <1>1, CgiKept DEF Start, Elsewhere
<1>2. CASE Handle
  <2>1. CASE Elsewhere
    BY <2>1, CgiKept
  <2>2. ASSUME caller = "none", NEW s \in Script, Fork(s) PROVE CgiInv'
    BY <2>2 DEF Fork, CgiInv, Waits
  <2>3. ASSUME caller = "none", NEW s \in Script, PipeFails(s) \/ ForkFails(s)
        PROVE CgiInv'
    BY <2>3 DEF PipeFails, ForkFails, Returns, CgiInv, Waits
  <2>4. CASE caller \in {"true", "false"} /\ ScriptAnswered
    BY <2>4 DEF ScriptAnswered, CgiInv, Waits
  <2> QED BY <1>2, <2>1, <2>2, <2>3, <2>4, Handlers
<1>3. CASE Run
  BY <1>3, CgiRun DEF Run
<1>4. CASE ChildAnswers
  BY <1>4 DEF ChildAnswers, CgiInv, Waits
<1>5. CASE ChildTakes
  BY <1>5 DEF ChildTakes, CgiInv, Waits
<1>6. CASE \E r \in Request : Arrive(r)
  BY <1>6, CgiKept DEF Arrive, Elsewhere
<1>7. CASE UNCHANGED vars
  BY <1>7, CgiKept DEF vars, Elsewhere
<1> QED BY <1>1, <1>2, <1>3, <1>4, <1>5, <1>6, <1>7 DEF Next

LEMMA CgiAlways == Spec => []CgiInv
<1>1. Init => CgiInv
  BY DEF Init, CgiInit, CgiInv, Waits
<1> QED BY <1>1, CgiStays, PTL DEF Spec

\* All that a script wrote is its answer, although its output is read only
\* after its end and may not fit the pipe.
THEOREM OutputStaysWhole == Spec => []OutputIsWhole
<1>1. CgiInv => OutputIsWhole
  BY DEF CgiInv, OutputIsWhole
<1> QED BY <1>1, CgiAlways, PTL

\* However executePythonScript returns, its process is gone, and so is its pipe
\* unless fork has failed.
THEOREM NothingIsLeft == Spec => []NothingLeftRunning
<1>1. CgiInv => NothingLeftRunning
  BY DEF CgiInv, NothingLeftRunning, Waits
<1> QED BY <1>1, CgiAlways, PTL
-----------------------------------------------------------------------------
(* The answers *)

Status == {200, 301, 400, 404, 405, 413, 500, 508}
Body == {"page", "empty", "output", "file", "listing", "deleted", "delete failed",
         "upload failed"}
Response == [status : Status, body : Body]

\* The requests a server has read are the first ones.
Read == Len(asked) - Len(wire)

Unanswered(n) == Len(answers[n]) = 0
AtMostOne(n) == \/ Len(answers[n]) <= 1
                \/ /\ n \in unexecuted
                   /\ Len(answers[n]) = 2 /\ answers[n][1].status = 500

\* The requests on the wire are the last ones and have no answer; the one a
\* script runs for has none but that of the child whose execve failed.
AnswerInv ==
    /\ asked \in Seq(Request)
    /\ wire \in Seq(Nat) /\ Len(wire) <= Len(asked)
    /\ \A k \in 1 .. Len(wire) : wire[k] = Read + k
    /\ answers \in [1 .. Len(asked) -> Seq(Response)]
    /\ \A n \in 1 .. Len(asked) : n > Read => Unanswered(n)
    /\ \A n \in 1 .. Len(asked) : AtMostOne(n)
    /\ caller # "none" =>
          /\ current \in 1 .. Read
          /\ _status_code \in Status
          /\ \/ Unanswered(current)
             \/ /\ current \in unexecuted
                /\ Len(answers[current]) = 1 /\ answers[current][1].status = 500
          /\ child \in {"forked", "script", "server"} => Unanswered(current)
          /\ child = "server" => current \in unexecuted

LEMMA AnswersKept ==
    ASSUME AnswerInv, UNCHANGED <<asked, wire, answers>>, unexecuted \subseteq unexecuted',
           \/ caller' = "none"
           \/ /\ caller # "none" /\ UNCHANGED <<current, _status_code>>
              /\ child' \in {"forked", "script", "server"} =>
                    child \in {"forked", "script", "server"}
              /\ child' = "server" => child = "server" \/ current \in unexecuted'
    PROVE  AnswerInv'
  BY DEF AnswerInv, Read, Unanswered, AtMostOne

\* Another request is read, and its number is the next one.
LEMMA Reading1 ==
    ASSUME AnswerInv, wire # <<>>
    PROVE  /\ Head(wire) = Read + 1 /\ Read + 1 \in 1 .. Len(asked) /\ Read \in Nat
           /\ Tail(wire) \in Seq(Nat) /\ Len(Tail(wire)) = Len(wire) - 1
           /\ Len(wire) \in Nat /\ Len(asked) \in Nat
           /\ \A k \in 1 .. Len(Tail(wire)) : Tail(wire)[k] = Read + 1 + k
<1>1. wire \in Seq(Nat) /\ asked \in Seq(Request) /\ Len(wire) <= Len(asked)
  BY DEF AnswerInv
<1>2. Len(wire) \in Nat /\ Len(asked) \in Nat /\ Len(wire) # 0
  BY <1>1, LenProperties, EmptySeq
<1>3. /\ Head(wire) = wire[1] /\ Tail(wire) \in Seq(Nat)
      /\ Len(Tail(wire)) = Len(wire) - 1
      /\ \A k \in 1 .. Len(Tail(wire)) : Tail(wire)[k] = wire[k + 1]
  BY <1>1, <1>2, HeadTailProperties
<1>4. \A k \in 1 .. Len(wire) : wire[k] = Read + k
  BY DEF AnswerInv
<1>5. Read \in Nat /\ Read + 1 \in 1 .. Len(asked)
  BY <1>1, <1>2 DEF Read
<1>6. wire[1] = Read + 1
  BY <1>2, <1>4
<1>7. ASSUME NEW k \in 1 .. Len(Tail(wire)) PROVE Tail(wire)[k] = Read + 1 + k
  <2>1. Tail(wire)[k] = wire[k + 1] /\ k + 1 \in 1 .. Len(wire)
    BY <1>2, <1>3
  <2> QED BY <1>4, <1>5, <2>1
<1> QED BY <1>2, <1>3, <1>5, <1>6, <1>7

\* A request is taken from the wire; it alone may be answered.
LEMMA Takes ==
    ASSUME AnswerInv, wire # <<>>, wire' = Tail(wire), UNCHANGED <<asked, unexecuted>>,
           \/ UNCHANGED answers
           \/ \E r \in Response : answers' = [answers EXCEPT ![Head(wire)] = Append(@, r)],
           \/ caller' = "none"
           \/ /\ caller # "none" /\ UNCHANGED <<current, _status_code>>
              /\ child' \in {"forked", "script", "server"} =>
                    child \in {"forked", "script", "server"}
              /\ child' = "server" => child = "server"
           \/ /\ UNCHANGED answers /\ current' = Head(wire) /\ _status_code' \in Status
              /\ child' # "server"
    PROVE  AnswerInv'
<1> DEFINE n == Read + 1
<1>1. /\ Head(wire) = n /\ n \in 1 .. Len(asked) /\ Read \in Nat /\ n = Read + 1
      /\ wire' \in Seq(Nat) /\ Len(wire') = Len(wire) - 1
      /\ Len(wire) \in Nat /\ Len(asked) \in Nat
      /\ \A k \in 1 .. Len(wire') : wire'[k] = n + k
  BY Reading1
<1>2. Read' = n /\ Len(wire') <= Len(asked')
  BY <1>1 DEF Read, AnswerInv
<1>3. answers \in [1 .. Len(asked) -> Seq(Response)] /\ Len(answers[n]) = 0
  BY <1>1 DEF AnswerInv, Unanswered
<1> HIDE DEF n
<1>4. /\ answers' \in [1 .. Len(asked) -> Seq(Response)]
      /\ \A m \in 1 .. Len(asked) : m # n => answers'[m] = answers[m]
      /\ Len(answers'[n]) <= 1
  <2>1. CASE UNCHANGED answers
    BY <1>3, <2>1
  <2>2. ASSUME NEW r \in Response, answers' = [answers EXCEPT ![n] = Append(@, r)]
        PROVE <1>4!1 /\ <1>4!2 /\ <1>4!3
    <3>1. answers[n] \in Seq(Response)
      BY <1>1, <1>3
    <3>2. Append(answers[n], r) \in Seq(Response) /\ Len(Append(answers[n], r)) = 1
      BY <1>3, <3>1, AppendProperties
    <3> QED BY <1>1, <1>3, <2>2, <3>2
  <2> QED BY <1>1, <2>1, <2>2
<1>5. \A m \in 1 .. Len(asked)' : m > n => Unanswered(m)'
  BY <1>1, <1>4 DEF AnswerInv, Unanswered
<1>6. \A m \in 1 .. Len(asked)' : AtMostOne(m)'
  <2>1. ASSUME NEW m \in 1 .. Len(asked) PROVE AtMostOne(m)'
    <3>1. CASE m = n
      BY <1>4, <3>1 DEF AtMostOne
    <3>2. CASE m # n
      <4>1. answers'[m] = answers[m] /\ AtMostOne(m)
        BY <1>4, <3>2 DEF AnswerInv
      <4> QED BY <4>1 DEF AtMostOne
    <3> QED BY <3>1, <3>2
  <2> QED BY <2>1
<1>7. ASSUME caller' # "none", caller # "none", UNCHANGED <<current, _status_code>>,
             child' \in {"forked", "script", "server"} =>
                    child \in {"forked", "script", "server"},
             child' = "server" => child = "server"
      PROVE  /\ current' \in 1 .. n
             /\ _status_code' \in Status
             /\ \/ Unanswered(current)'
                \/ /\ current' \in unexecuted'
                   /\ Len(answers'[current']) = 1 /\ answers'[current'][1].status = 500
             /\ child' \in {"forked", "script", "server"} => Unanswered(current)'
             /\ child' = "server" => current' \in unexecuted'
  <2>1. current \in 1 .. Read /\ current # n /\ current \in 1 .. Len(asked)
    BY <1>1, <1>7 DEF AnswerInv
  <2>2. answers'[current'] = answers[current]
    BY <1>4, <1>7, <2>1
  <2>3. current' \in 1 .. n
    BY <1>1, <1>7, <2>1
  <2> QED BY <1>7, <2>2, <2>3 DEF AnswerInv, Unanswered
<1>8. ASSUME UNCHANGED answers, current' = n, _status_code' \in Status
      PROVE  /\ current' \in 1 .. n
             /\ _status_code' \in Status
             /\ Unanswered(current)'
  BY <1>1, <1>3, <1>8 DEF Unanswered
<1>9. asked' \in Seq(Request) /\ Len(asked') = Len(asked)
  BY DEF AnswerInv
<1> QED BY <1>1, <1>2, <1>4, <1>5, <1>6, <1>7, <1>8, <1>9 DEF AnswerInv

\* What becomes of a script is answered, after the child's 500 if there is one.
LEMMA AnswersAgain ==
    ASSUME AnswerInv, caller # "none", UNCHANGED <<asked, wire, unexecuted>>,
           NEW r \in Response,
           answers' = [answers EXCEPT ![current] = Append(@, r)],
           \/ caller' = "none"
           \/ /\ UNCHANGED <<current, _status_code>>
              /\ r.status = 500 /\ child = "server" /\ child' = "second"
    PROVE  AnswerInv'
<1>1. /\ current \in 1 .. Read /\ Len(asked) \in Nat /\ Len(wire) \in Nat
      /\ answers \in [1 .. Len(asked) -> Seq(Response)]
      /\ \/ Unanswered(current)
         \/ /\ current \in unexecuted
            /\ Len(answers[current]) = 1 /\ answers[current][1].status = 500
      /\ child = "server" => Unanswered(current) /\ current \in unexecuted
  BY LenProperties DEF AnswerInv
<1>2. current \in 1 .. Len(asked) /\ Read \in Int /\ Read' = Read
  BY <1>1 DEF Read
<1>3. answers[current] \in Seq(Response)
  BY <1>1, <1>2
<1> DEFINE new == Append(answers[current], r)
<1>4. /\ new \in Seq(Response)
      /\ Len(new) = Len(answers[current]) + 1
      /\ new[Len(answers[current]) + 1] = r
      /\ \A k \in 1 .. Len(answers[current]) : new[k] = answers[current][k]
  BY <1>3, AppendProperties
<1>5. /\ answers' \in [1 .. Len(asked) -> Seq(Response)]
      /\ \A m \in 1 .. Len(asked) : m # current => answers'[m] = answers[m]
      /\ answers'[current] = new
  BY <1>1, <1>2, <1>4
<1> HIDE DEF new
<1>6. \/ Len(new) = 1 /\ new[1] = r
      \/ /\ ~Unanswered(current) /\ current \in unexecuted
         /\ Len(new) = 2 /\ new[1].status = 500
  <2>1. CASE Unanswered(current)
    BY <1>4, <2>1 DEF Unanswered
  <2>2. CASE /\ current \in unexecuted
             /\ Len(answers[current]) = 1 /\ answers[current][1].status = 500
    BY <1>4, <2>2 DEF Unanswered
  <2> QED BY <1>1, <2>1, <2>2
<1>7. \A m \in 1 .. Len(asked)' : m > Read' => Unanswered(m)'
  <2>1. ASSUME NEW m \in 1 .. Len(asked), m > Read PROVE Unanswered(m)'
    <3>1. answers'[m] = answers[m] /\ Unanswered(m)
      BY <1>1, <1>2, <1>5, <2>1 DEF AnswerInv
    <3> QED BY <3>1 DEF Unanswered
  <2> QED BY <1>2, <2>1
<1>8. \A m \in 1 .. Len(asked)' : AtMostOne(m)'
  <2>1. ASSUME NEW m \in 1 .. Len(asked), m # current PROVE AtMostOne(m)'
    <3>1. answers'[m] = answers[m] /\ AtMostOne(m)
      BY <1>5, <2>1 DEF AnswerInv
    <3> QED BY <3>1, ZenonT(30) DEF AtMostOne
  <2>2. \/ Len(answers'[current]) <= 1
        \/ /\ current \in unexecuted'
           /\ Len(answers'[current]) = 2 /\ answers'[current][1].status = 500
    BY <1>5, <1>6
  <2>3. ASSUME NEW m \in 1 .. Len(asked), m = current PROVE AtMostOne(m)'
    BY <2>2, <2>3 DEF AtMostOne
  <2> QED BY <2>1, <2>3
<1>9. ASSUME caller' # "none"
      PROVE  /\ current' \in 1 .. Read'
             /\ _status_code' \in Status
             /\ current' \in unexecuted'
             /\ Len(answers'[current']) = 1 /\ answers'[current'][1].status = 500
             /\ child' = "second"
  <2>1. /\ UNCHANGED <<current, _status_code>>
        /\ r.status = 500 /\ child = "server" /\ child' = "second"
    BY <1>9
  <2>2. Len(new) = 1 /\ new[1] = r
    BY <1>1, <1>6, <2>1
  <2>3. _status_code \in Status
    BY DEF AnswerInv
  <2> QED BY <1>1, <1>2, <1>5, <2>1, <2>2, <2>3, SMTT(30)
<1> QED BY <1>1, <1>2, <1>5, <1>7, <1>8, <1>9, SMTT(30) DEF AnswerInv

\* A request arrives: it is the last one, and unanswered.
LEMMA Arrives ==
    ASSUME AnswerInv, NEW r \in Request, asked' = Append(asked, r),
           wire' = Append(wire, Len(asked')), answers' = Append(answers, <<>>),
           UNCHANGED <<caller, child, current, _status_code, unexecuted>>
    PROVE  AnswerInv'
<1>1. /\ asked \in Seq(Request) /\ wire \in Seq(Nat) /\ Len(wire) <= Len(asked)
      /\ Len(asked) \in Nat /\ Len(wire) \in Nat
      /\ answers \in [1 .. Len(asked) -> Seq(Response)]
      /\ \A k \in 1 .. Len(wire) : wire[k] = Read + k
  BY LenProperties DEF AnswerInv
<1>2. asked' \in Seq(Request) /\ Len(asked') = Len(asked) + 1
  BY <1>1, AppendProperties
<1>3. /\ wire' \in Seq(Nat) /\ Len(wire') = Len(wire) + 1
      /\ wire'[Len(wire) + 1] = Len(asked) + 1
      /\ \A k \in 1 .. Len(wire) : wire'[k] = wire[k]
  <2>1. Len(asked') \in Nat
    BY <1>1, <1>2
  <2> QED BY <1>1, <1>2, <2>1, AppendProperties
<1>4. Read' = Read /\ Len(asked) = Read + Len(wire) /\ Read \in Nat
  BY <1>1, <1>2, <1>3 DEF Read
<1>5. \A k \in 1 .. Len(wire') : wire'[k] = Read' + k
  <2>1. ASSUME NEW k \in 1 .. Len(wire') PROVE wire'[k] = Read + k
    <3>1. CASE k \in 1 .. Len(wire)
      BY <1>1, <1>3, <3>1
    <3>2. CASE k = Len(wire) + 1
      BY <1>1, <1>3, <1>4, <3>2
    <3> QED BY <1>1, <1>3, <3>1, <3>2
  <2> QED BY <1>4, <2>1
<1>6. /\ answers' \in [1 .. Len(asked') -> Seq(Response)]
      /\ \A m \in 1 .. Len(asked) : answers'[m] = answers[m]
      /\ Len(answers'[Len(asked) + 1]) = 0
  <2>1. answers \in Seq(Seq(Response)) /\ Len(answers) = Len(asked)
    <3>1. answers \in Seq(Seq(Response))
      <4> DEFINE S == Seq(Response)
      <4>1. Seq(S) = UNION {[1 .. n -> S] : n \in Nat}
        BY SeqDef
      <4>2. [1 .. Len(asked) -> S] \in {[1 .. n -> S] : n \in Nat}
        BY <1>1
      <4> HIDE DEF S
      <4>3. [1 .. Len(asked) -> S] \subseteq Seq(S)
        BY <4>1, <4>2
      <4> QED BY <1>1, <4>3 DEF S
    <3>2. DOMAIN answers = 1 .. Len(asked)
      BY <1>1
    <3> QED BY <1>1, <3>1, <3>2, LenProperties
  <2>2. <<>> \in Seq(Response) /\ Len(<<>>) = 0
    BY EmptySeq
  <2>3. /\ answers' \in Seq(Seq(Response)) /\ Len(answers') = Len(answers) + 1
        /\ \A m \in 1 .. Len(answers) : answers'[m] = answers[m]
        /\ answers'[Len(answers) + 1] = <<>>
    BY <2>1, <2>2, AppendProperties
  <2>4. answers' \in [1 .. Len(answers') -> Seq(Response)]
    BY <2>3, LenProperties
  <2> QED BY <1>2, <2>1, <2>2, <2>3, <2>4
<1>7. \A m \in 1 .. Len(asked') : m \in 1 .. Len(asked) \/ m = Len(asked) + 1
  BY <1>1, <1>2
<1>8. \A m \in 1 .. Len(asked)' : m > Read' => Unanswered(m)'
  <2>1. ASSUME NEW m \in 1 .. Len(asked), m > Read PROVE Unanswered(m)'
    <3>1. answers'[m] = answers[m] /\ Unanswered(m)
      BY <1>6, <2>1 DEF AnswerInv
    <3> QED BY <3>1 DEF Unanswered
  <2>2. ASSUME NEW m, m = Len(asked) + 1 PROVE Unanswered(m)'
    BY <1>6, <2>2 DEF Unanswered
  <2> QED BY <1>4, <1>7, <2>1, <2>2
<1>9. \A m \in 1 .. Len(asked)' : AtMostOne(m)'
  <2>1. ASSUME NEW m \in 1 .. Len(asked) PROVE AtMostOne(m)'
    <3>1. answers'[m] = answers[m] /\ AtMostOne(m)
      BY <1>6 DEF AnswerInv
    <3> QED BY <3>1, ZenonT(30) DEF AtMostOne
  <2>2. ASSUME NEW m, m = Len(asked) + 1 PROVE AtMostOne(m)'
    BY <1>6, <2>2 DEF AtMostOne
  <2> QED BY <1>7, <2>1, <2>2
<1>10. ASSUME caller' # "none"
       PROVE  /\ current' \in 1 .. Read'
              /\ _status_code' \in Status
              /\ \/ Unanswered(current)'
                 \/ /\ current' \in unexecuted'
                    /\ Len(answers'[current']) = 1 /\ answers'[current'][1].status = 500
              /\ child' \in {"forked", "script", "server"} => Unanswered(current)'
              /\ child' = "server" => current' \in unexecuted'
  <2>1. current \in 1 .. Read /\ current \in 1 .. Len(asked)
    BY <1>1, <1>4, <1>10 DEF AnswerInv
  <2>2. answers'[current'] = answers[current]
    BY <1>6, <2>1
  <2> QED BY <1>4, <1>10, <2>1, <2>2 DEF AnswerInv, Unanswered
<1>11. Len(wire') <= Len(asked')
  BY <1>1, <1>2, <1>3
<1> QED BY <1>2, <1>3, <1>5, <1>6, <1>8, <1>9, <1>10, <1>11 DEF AnswerInv

LEMMA Codes ==
    ASSUME NEW r
    PROVE  checkRequest(r).code \in Status
  BY DEF checkRequest, Status

LEMMA Bodies ==
    \A s, code : getErrorResponse(s, code) \in Body
  BY DEF getErrorResponse, Body

\* The answers of the handlers.
LEMMA HandledOnce ==
    ASSUME CgiInv, AnswerInv, Handle
    PROVE  AnswerInv'
<1> USE DEF configVars, cgiVars, process, result
<1>1. /\ \A code \in Status, body \in Body : [status |-> code, body |-> body] \in Response
      /\ "page" \in Body
  BY DEF Response, Body
<1>2. verdict.code \in Status /\ 500 \in Status /\ 508 \in Status
  BY Codes DEF verdict, Status
<1>3. CASE HandleUnframed
  <2>1. /\ caller' = "none" /\ wire # <<>> /\ wire' = Tail(wire)
        /\ UNCHANGED <<asked, unexecuted>>
        /\ answers' = [answers EXCEPT ![Head(wire)] =
                          Append(@, [status |-> 500, body |-> "page"])]
    BY <1>3 DEF HandleUnframed, Receives, Answer, number
  <2>2. [status |-> 500, body |-> "page"] \in Response
    BY <1>1, <1>2
  <2> QED BY <2>1, <2>2, Takes
<1>4. CASE HandleThrows \/ HandleLoops
  <2>1. /\ caller' = "none" /\ wire # <<>> /\ wire' = Tail(wire)
        /\ UNCHANGED <<asked, answers, unexecuted>>
    BY <1>4 DEF HandleThrows, HandleLoops, Receives
  <2> QED BY <2>1, Takes
<1>5. CASE HandleError
  <2>1. /\ caller' = "none" /\ wire # <<>> /\ wire' = Tail(wire)
        /\ UNCHANGED <<asked, unexecuted>>
        /\ answers' = [answers EXCEPT ![Head(wire)] =
              Append(@, [status |-> verdict.code, body |-> getErrorResponse(server, verdict.code)])]
    BY <1>5 DEF HandleError, Prepares, Receives, Answer, number
  <2>2. [status |-> verdict.code, body |-> getErrorResponse(server, verdict.code)] \in Response
    BY <1>1, <1>2, Bodies
  <2> QED BY <2>1, <2>2, Takes
<1>6. CASE HandleUpload \/ HandleDelete \/ HandleFile \/ HandleDirectory
  <2>1. /\ caller' = "none" /\ wire # <<>> /\ wire' = Tail(wire)
        /\ UNCHANGED <<asked, unexecuted>>
    BY <1>6 DEF HandleUpload, HandleDelete, HandleFile, HandleDirectory, Opened, Prepares, Receives
  <2>2. PICK body \in Body : answers' = [answers EXCEPT ![Head(wire)] =
                      Append(@, [status |-> verdict.code, body |-> body])]
    <3> USE DEF Answer, number, Body
    <3>1. CASE HandleUpload \/ HandleDelete
      BY <3>1 DEF HandleUpload, HandleDelete
    <3>2. CASE HandleFile
      BY <3>2 DEF HandleFile
    <3>3. CASE HandleDirectory
      <4>1. PICK body : /\ body \in Body
                        /\ Answer(number, verdict.code, body)
        BY <3>3 DEF HandleDirectory
      <4> QED BY <4>1
    <3> QED BY <1>6, <3>1, <3>2, <3>3
  <2> QED BY <1>1, <1>2, <2>1, <2>2, Takes
<1>7. CASE HandleScript
  <2>1. /\ wire # <<>> /\ wire' = Tail(wire) /\ UNCHANGED <<asked, answers, unexecuted>>
        /\ current' = Head(wire) /\ _status_code' \in Status
    BY <1>2, <1>7 DEF HandleScript, Opened, Prepares, Receives, number
  <2>2. child = "none"
    BY <1>7 DEF HandleScript, Opened, Prepares, Receives, CgiInv, Waits
  <2>3. child' # "server"
    BY <1>7, <2>2 DEF HandleScript, Fork, PipeFails, ForkFails, Returns
  <2> QED BY <2>1, <2>3, Takes
<1>8. CASE ScriptAnswered
  <2>1. PICK r \in Response : answers' = [answers EXCEPT ![current] = Append(@, r)]
    <3> DEFINE code == IF caller = "true" THEN _status_code
                       ELSE IF _inf_loop THEN 508 ELSE 500
               body == IF caller = "true" THEN "output"
                       ELSE getErrorResponse(ServerOf(asked[current]), code)
    <3>1. answers' = [answers EXCEPT ![current] = Append(@, [status |-> code, body |-> body])]
      BY <1>8 DEF ScriptAnswered, Answer
    <3>2. code \in Status
      BY <1>2, <1>8 DEF ScriptAnswered, AnswerInv
    <3>3. body \in Body
      <4> HIDE DEF code
      <4>1. getErrorResponse(ServerOf(asked[current]), code) \in Body
        BY Bodies
      <4>2. "output" \in Body
        BY DEF Body
      <4> QED BY <4>1, <4>2
    <3> HIDE DEF code, body
    <3>4. [status |-> code, body |-> body] \in Response
      BY <3>2, <3>3 DEF Response
    <3> QED BY <3>1, <3>4
  <2>2. /\ caller' = "none" /\ caller # "none" /\ UNCHANGED <<asked, wire, unexecuted>>
    BY <1>8 DEF ScriptAnswered
  <2> QED BY <2>1, <2>2, AnswersAgain
<1> QED BY <1>3, <1>4, <1>5, <1>6, <1>7, <1>8 DEF Handle

LEMMA AnsweredOnce == CgiInv /\ AnswerInv /\ [Next]_vars => AnswerInv'
<1> SUFFICES ASSUME CgiInv, AnswerInv, [Next]_vars PROVE AnswerInv'
  OBVIOUS
<1> USE DEF configVars, cgiVars, process, result
<1>1. CASE Start
  BY <1>1, AnswersKept DEF Start
<1>2. CASE Handle
  BY <1>2, HandledOnce
<1>3. CASE Run
  <2>1. /\ UNCHANGED <<asked, wire, answers, current, _status_code>>
        /\ unexecuted \subseteq unexecuted'
        /\ child = "forked" /\ child' = "server" => current \in unexecuted'
    BY <1>3 DEF Run
  <2>2. /\ caller # "none"
        /\ child' \in {"forked", "script", "server"} =>
              child \in {"forked", "script", "server"}
        /\ child' = "server" => child \in {"forked", "server"}
    BY <1>3 DEF Run, CgiStep, Parent, Child, WaitOver, TimeOver, Kill, ReadAll, Exec,
         ExecFails, ScriptWrites, ScriptEnds, ServerLogs, TimePasses, CgiInv, Waits
  <2> QED BY <2>1, <2>2, AnswersKept
<1>4. CASE ChildAnswers
  <2>1. /\ child = "server" /\ child' = "second"
        /\ UNCHANGED <<asked, wire, caller, current, _status_code, unexecuted>>
        /\ answers' = [answers EXCEPT ![current] = Append(@,
              [status |-> 500, body |-> getErrorResponse(ServerOf(asked[current]), 500)])]
    BY <1>4 DEF ChildAnswers, Answer
  <2>2. [status |-> 500, body |-> getErrorResponse(ServerOf(asked[current]), 500)] \in Response
    BY Bodies DEF Response, Status
  <2>3. caller # "none"
    BY <2>1 DEF CgiInv, Waits
  <2>4. PICK r \in Response :
            r.status = 500 /\ answers' = [answers EXCEPT ![current] = Append(@, r)]
    BY <2>1, <2>2, ZenonT(30)
  <2> QED BY <2>1, <2>3, <2>4, AnswersAgain, ZenonT(30)
<1>5. CASE ChildTakes
  <2>1. /\ child = "second" /\ child' \in {"second", "ended"}
        /\ wire # <<>> /\ wire' = Tail(wire)
        /\ UNCHANGED <<asked, answers, caller, current, _status_code, unexecuted>>
    BY <1>5 DEF ChildTakes
  <2>2. caller # "none"
    BY <2>1 DEF CgiInv, Waits
  <2> QED BY <2>1, <2>2, Takes
<1>6. ASSUME NEW r \in Request, Arrive(r) PROVE AnswerInv'
  <2>1. /\ asked' = Append(asked, r) /\ wire' = Append(wire, Len(asked'))
        /\ answers' = Append(answers, <<>>)
        /\ UNCHANGED <<caller, child, current, _status_code, unexecuted>>
    BY <1>6 DEF Arrive
  <2> QED BY <2>1, Arrives
<1>7. CASE UNCHANGED vars
  <2>1. UNCHANGED <<asked, wire, answers, current, _status_code, caller, child, unexecuted>>
    BY <1>7 DEF vars
  <2> QED BY <2>1, AnswersKept
<1> QED BY <1>1, <1>2, <1>3, <1>4, <1>5, <1>6, <1>7 DEF Next

LEMMA AnswersAlways == Spec => [](CgiInv /\ AnswerInv)
<1>1. Init => AnswerInv
  <2> SUFFICES ASSUME Init PROVE AnswerInv
    OBVIOUS
  <2>1. asked = <<>> /\ wire = <<>> /\ answers = <<>> /\ caller = "none"
    BY DEF Init, CgiInit
  <2>2. Len(<<>>) = 0 /\ 1 .. 0 = {} /\ <<>> \in Seq(Request) /\ <<>> \in Seq(Nat)
        /\ <<>> \in Seq(Seq(Response))
    BY EmptySeq
  <2>3. <<>> \in [1 .. 0 -> Seq(Response)]
    BY <2>2, LenProperties
  <2> QED BY <2>1, <2>2, <2>3 DEF AnswerInv
<1> QED BY <1>1, AnsweredOnce, CgiAlways, PTL DEF Spec

\* A request is answered once, or twice if the execve for its script failed.
THEOREM AnsweredOnlyOnce == Spec => []OneAnswerEach
<1>1. AnswerInv => OneAnswerEach
  BY LenProperties DEF AnswerInv, OneAnswerEach, AtMostOne
<1> QED BY <1>1, AnswersAlways, PTL
-----------------------------------------------------------------------------
(* The servers *)

IsServer(s) == DOMAIN s = DOMAIN NewServer /\ s.max_body_size \in Nat

\* Servers have a limit, and a request came to one of them: while the servers
\* are read there are no requests, and afterwards they do not change.
ServersInv ==
    /\ IsServer(serverConfig)
    /\ \E S : configs \in Seq(S) /\ \A s \in S : IsServer(s)
    /\ state = "parsing" => asked = <<>>
    /\ \A n \in 1 .. Len(asked) : asked[n].server \in 1 .. Len(configs)

LEMMA NewServerIs == IsServer(NewServer)
  BY DEF IsServer, NewServer

LEMMA ServerAdded ==
    ASSUME ServersInv
    PROVE  \E S : Append(configs, serverConfig) \in Seq(S) /\ \A s \in S : IsServer(s)
<1>1. PICK S : configs \in Seq(S) /\ \A s \in S : IsServer(s)
  BY DEF ServersInv
<1> DEFINE T == S \cup {serverConfig}
<1>2. configs \in Seq(T)
  BY <1>1, SeqMonotonic
<1>3. Append(configs, serverConfig) \in Seq(T)
  BY <1>2, AppendProperties
<1>4. \A s \in T : IsServer(s)
  BY <1>1 DEF ServersInv
<1> QED BY <1>3, <1>4

LEMMA SettingKeeps ==
    ASSUME IsServer(serverConfig), ReadBlock \/ ReadSetting
    PROVE  IsServer(serverConfig')
<1>1. \A key : key \in DOMAIN NewServer => key \in DOMAIN serverConfig
  BY DEF IsServer
<1>2. /\ "max_body_size" \in DOMAIN serverConfig /\ serverConfig["max_body_size"] \in Nat
      /\ serverConfig.max_body_size = serverConfig["max_body_size"]
  BY DEF IsServer, NewServer
<1>3. ASSUME Settles, serverConfig' = [serverConfig EXCEPT ![Line.key] = Line.value]
      PROVE  IsServer(serverConfig')
  <2>1. Line.key = "max_body_size" => Line.value \in Nat
    BY <1>3, BufferAssumption DEF Settles
  <2> QED BY <1>2, <1>3, <2>1 DEF IsServer
<1>4. ASSUME NEW routes, serverConfig' = [serverConfig EXCEPT !.routes = routes]
      PROVE  IsServer(serverConfig')
  BY <1>2, <1>4 DEF IsServer
<1>5. ASSUME NEW pages, serverConfig' = [serverConfig EXCEPT !.error_pages = pages]
      PROVE  IsServer(serverConfig')
  BY <1>2, <1>5 DEF IsServer
<1>6. CASE ReadBlock
  BY <1>4, <1>6 DEF ReadBlock
<1>7. CASE ReadSetting
  <2>1. CASE SettlesRoute /\ serverConfig' =
                [serverConfig EXCEPT !.routes[Len(serverConfig.routes)] =
                    RouteWith(@, Line.key, Line.value)]
    BY <1>4, <2>1
  <2> QED BY <1>3, <1>5, <1>7, <2>1 DEF ReadSetting
<1> QED BY <1>6, <1>7

LEMMA ServersStay ==
    ASSUME AnswerInv, ServersInv, [Next]_vars
    PROVE  ServersInv'
<1> USE DEF configVars
<1>1. ASSUME UNCHANGED <<serverConfig, configs, asked>>, state' = "parsing" => state = "parsing"
      PROVE  ServersInv'
  BY <1>1 DEF ServersInv
<1>2. CASE Start
  <2>1. state = "parsing" /\ asked' = asked /\ asked = <<>>
    BY <1>2 DEF Start, Parse, ReadServer, ReadBlock, ReadSetting, Reject, EndOfFile, Reading, ServersInv
  <2>2. 1 .. Len(asked') = {}
    BY <2>1, EmptySeq
  <2>3. CASE ReadServer \/ EndOfFile
    <3>1. IsServer(serverConfig')
      BY <2>3, NewServerIs DEF ReadServer, EndOfFile, ServersInv
    <3>2. configs' \in {configs, Append(configs, serverConfig)}
      BY <2>3 DEF ReadServer, EndOfFile
    <3>3. \E S : configs' \in Seq(S) /\ \A s \in S : IsServer(s)
      BY <3>2, ServerAdded DEF ServersInv
    <3> QED BY <2>1, <2>2, <3>1, <3>3 DEF ServersInv
  <2>4. CASE ReadBlock \/ ReadSetting
    <3>1. IsServer(serverConfig') /\ configs' = configs
      BY <2>4, SettingKeeps DEF ServersInv, ReadBlock, ReadSetting
    <3> QED BY <2>1, <2>2, <3>1 DEF ServersInv
  <2>5. CASE Reject
    BY <1>1, <2>1, <2>5 DEF Reject
  <2> QED BY <1>2, <2>3, <2>4, <2>5 DEF Start, Parse
<1>3. CASE Handle
  <2>1. UNCHANGED <<serverConfig, configs, asked>> /\ state' \in {state, "ended", "stuck"}
    BY <1>3 DEF Handle, HandleUnframed, HandleThrows, HandleLoops, HandleError, HandleUpload,
       HandleDelete, HandleFile, HandleDirectory, HandleScript, ScriptAnswered, Opened, Prepares
  <2> QED BY <1>1, <2>1
<1>4. CASE Run \/ ChildAnswers \/ ChildTakes
  BY <1>1, <1>4 DEF Run, ChildAnswers, ChildTakes
<1>5. ASSUME NEW r \in Request, Arrive(r) PROVE ServersInv'
  <2>1. /\ asked' = Append(asked, r) /\ r.server \in DOMAIN configs
        /\ UNCHANGED <<serverConfig, configs>> /\ state' # "parsing"
    BY <1>5 DEF Arrive
  <2>2. r.server \in 1 .. Len(configs)
    BY <2>1, LenProperties DEF ServersInv
  <2>3. /\ asked \in Seq(Request) /\ Len(asked') = Len(asked) + 1 /\ Len(asked) \in Nat
        /\ asked'[Len(asked) + 1] = r
        /\ \A n \in 1 .. Len(asked) : asked'[n] = asked[n]
    BY <2>1, AppendProperties, LenProperties DEF AnswerInv
  <2>4. ASSUME NEW n \in 1 .. Len(asked') PROVE asked'[n].server \in 1 .. Len(configs)
    <3>1. CASE n \in 1 .. Len(asked)
      BY <2>3, <3>1 DEF ServersInv
    <3>2. CASE n = Len(asked) + 1
      BY <2>2, <2>3, <3>2
    <3> QED BY <2>3, <3>1, <3>2
  <2> QED BY <2>1, <2>4 DEF ServersInv
<1>6. CASE UNCHANGED vars
  BY <1>1, <1>6 DEF vars
<1> QED BY <1>2, <1>3, <1>4, <1>5, <1>6 DEF Next

LEMMA ServersAlways == Spec => [](CgiInv /\ AnswerInv /\ ServersInv)
<1>1. Init => ServersInv
  <2> SUFFICES ASSUME Init PROVE ServersInv
    OBVIOUS
  <2>1. asked = <<>> /\ configs = <<>> /\ serverConfig = NewServer
    BY DEF Init, ConfigInit
  <2>2. Len(<<>>) = 0 /\ 1 .. 0 = {} /\ <<>> \in Seq({})
    BY EmptySeq
  <2> QED BY <2>1, <2>2, NewServerIs DEF ServersInv
<1>2. AnswerInv /\ ServersInv /\ [Next]_vars => ServersInv'
  BY ServersStay
<1> QED BY <1>1, <1>2, AnswersAlways, PTL DEF Spec

-----------------------------------------------------------------------------
(* Rights *)

LEMMA LetThrough ==
    ASSUME NEW r, checkRequest(r).code \in {200, 301}
    PROVE  /\ check_host_port(r) /\ ~(r.body > ServerOf(r).max_body_size)
           /\ getLocation(ServerOf(r), PathOf(r)) # 0
           /\ r.method \in ServerOf(r).routes[getLocation(ServerOf(r), PathOf(r))].methods
  BY DEF checkRequest

LEMMA RequestIs ==
    ASSUME AnswerInv, ServersInv, Receives
    PROVE  request.body \in Nat /\ ServerOf(request).max_body_size \in Nat
<1>1. number \in 1 .. Len(asked)
  BY Reading1 DEF Receives, number
<1>2. request \in Request /\ request.server \in 1 .. Len(configs)
  BY <1>1, ElementOfSeq DEF request, AnswerInv, ServersInv
<1>3. IsServer(ServerOf(request))
  BY <1>2, ElementOfSeq DEF ServerOf, ServersInv
<1> QED BY <1>2, <1>3, RequestAssumption DEF IsServer

\* The disk and the scripts are for requests that have a right to them.
THEOREM RightsAreKept == Spec => ActsByRight
<1>1. ASSUME [Next]_vars, files' # files \/ (caller # "wait" /\ caller' = "wait")
      PROVE  HandleUpload \/ HandleDelete \/ HandleScript
  <2> USE DEF configVars, cgiVars, process, result
  <2>1. CASE Start
    BY <1>1, <2>1 DEF Start
  <2>2. CASE Run
    BY <1>1, <2>2 DEF Run, CgiStep, Parent, Child, WaitOver, TimeOver, Kill, ReadAll, Exec,
       ExecFails, ScriptWrites, ScriptEnds, ServerLogs, TimePasses
  <2>3. CASE ChildAnswers \/ ChildTakes
    BY <1>1, <2>3 DEF ChildAnswers, ChildTakes
  <2>4. CASE \E r \in Request : Arrive(r)
    BY <1>1, <2>4 DEF Arrive
  <2>5. CASE UNCHANGED vars
    BY <1>1, <2>5 DEF vars
  <2>6. CASE HandleUnframed \/ HandleThrows \/ HandleLoops \/ HandleError
             \/ HandleFile \/ HandleDirectory \/ ScriptAnswered
    BY <1>1, <2>6 DEF HandleUnframed, HandleThrows, HandleLoops, HandleError,
       HandleFile, HandleDirectory, ScriptAnswered
  <2> QED BY <1>1, <2>1, <2>2, <2>3, <2>4, <2>5, <2>6 DEF Next, Handle
<1>2. ASSUME AnswerInv, ServersInv, HandleUpload \/ HandleDelete \/ HandleScript
      PROVE  LET s == ServerOf(request)
                 at == getLocation(s, PathOf(request))
             IN  /\ request.host \in {s.server_name, s.ip}
                 /\ request.port = s.port
                 /\ request.body <= s.max_body_size
                 /\ at # 0
                 /\ request.method \in s.routes[at].methods
  <2>1. verdict.code \in {200, 301}
    BY <1>2 DEF HandleUpload, HandleDelete, HandleScript, Opened
  <2>2. checkRequest(request).code \in {200, 301}
    BY <2>1 DEF verdict
  <2>3. ~(request.body > ServerOf(request).max_body_size)
    BY <2>2, LetThrough
  <2>4. request.body \in Nat /\ ServerOf(request).max_body_size \in Nat
    BY <1>2, RequestIs DEF HandleUpload, HandleDelete, HandleScript, Opened, Prepares
  <2>5. request.body <= ServerOf(request).max_body_size
    BY <2>3, <2>4
  <2> QED BY <2>2, <2>5, LetThrough DEF check_host_port, HostMatches
<1>3. ASSUME HandleUpload \/ HandleDelete \/ HandleScript
      PROVE  /\ files \subseteq files' \/ request.method = "DELETE"
             /\ files' \subseteq files \/ request.method = "POST"
  BY <1>3 DEF HandleUpload, HandleDelete, HandleScript, Uploads
<1>4. AnswerInv /\ ServersInv /\ [Next]_vars =>
         [(files' # files \/ (caller # "wait" /\ caller' = "wait")) =>
            LET s == ServerOf(request)
                at == getLocation(s, PathOf(request))
            IN  /\ request.host \in {s.server_name, s.ip}
                /\ request.port = s.port
                /\ request.body <= s.max_body_size
                /\ at # 0
                /\ request.method \in s.routes[at].methods
                /\ files \subseteq files' \/ request.method = "DELETE"
                /\ files' \subseteq files \/ request.method = "POST"]_vars
  BY <1>1, <1>2, <1>3
<1> QED BY <1>4, ServersAlways, PTL DEF Spec, ActsByRight
-----------------------------------------------------------------------------
(* Types *)

Nested == {<<>>, <<"server">>} \cup {<<"server", b>> : b \in Blocks}

\* The part of ConfigTypeOK that is not in ServersInv.
FileInv ==
    /\ state \in {"parsing", "serving", "stuck", "ended"}
    /\ file \in DOMAIN ConfigFiles
    /\ lineNumber \in 0 .. Len(Lines)
    /\ contexts \in Nested
    /\ in_server \in BOOLEAN
    /\ in_server => contexts # <<>>

Uploaded == {<<UploadRoot, Append(UploadPath, r.upload)>> : r \in Request}

DiskInv ==
    /\ files \subseteq FirstFile \cup Uploaded
    /\ current \in 0 .. Len(asked)
    /\ _status_code \in {0, 200, 301}
    /\ taken \subseteq 1 .. Len(asked)
    /\ unexecuted \subseteq 1 .. Len(asked)

LEMMA CutServer ==
    /\ Len(<<"server">>) = 1 /\ SubSeq(<<"server">>, 1, 0) = <<>>
    /\ Len(<<>>) = 0 /\ <<"server">> # <<>>
    /\ \A b : Append(<<"server">>, b) = <<"server", b>>
<1> DEFINE s == <<"server">>
<1>1. s \in Seq({"server"}) /\ Len(s) = 1 /\ s[1] = "server"
  OBVIOUS
<1>2. Len(<<>>) = 0
  BY EmptySeq
<1>3. ASSUME NEW b PROVE Append(<<"server">>, b) = <<"server", b>>
  <2> DEFINE T == {"server", b}
             t == <<"server", b>>
             u == Append(s, b)
  <2>1. t \in Seq(T) /\ Len(t) = 2 /\ t[1] = "server" /\ t[2] = b
    OBVIOUS
  <2>2. s \in Seq(T) /\ b \in T
    OBVIOUS
  <2>6. Len(s) = 1 /\ s[1] = "server"
    OBVIOUS
  <2> HIDE DEF s, t, T, u
  <2>7. /\ u \in Seq(T) /\ Len(u) = Len(s) + 1 /\ u[Len(s) + 1] = b
        /\ \A k \in 1 .. Len(s) : u[k] = s[k]
    BY <2>2, AppendProperties DEF u
  <2>3. u \in Seq(T) /\ Len(u) = 2 /\ u[1] = "server" /\ u[2] = b
    BY <2>6, <2>7
  <2>4. \A k \in 1 .. Len(u) : k = 1 \/ k = 2
    BY <2>3
  <2>5. u = t
    BY <2>1, <2>3, <2>4, SeqEqual
  <2> QED BY <2>5 DEF u, t, s
<1> HIDE DEF s
<1>4. SubSeq(s, 1, 0) \in Seq({"server"}) /\ Len(SubSeq(s, 1, 0)) = 0
  BY <1>1, SubSeqProperties
<1>5. SubSeq(s, 1, 0) = <<>>
  BY <1>4, EmptySeq
<1>6. s # <<>>
  <2>1. Len(s) # Len(<<>>)
    BY <1>1, <1>2
  <2> QED BY <2>1, Zenon
<1> QED BY <1>1, <1>2, <1>3, <1>5, <1>6 DEF s

LEMMA CutBlock ==
    ASSUME NEW b
    PROVE  /\ Len(<<"server", b>>) = 2 /\ SubSeq(<<"server", b>>, 1, 0) = <<>>
           /\ SubSeq(<<"server", b>>, 1, 1) = <<"server">>
           /\ <<"server", b>> # <<>>
<1> DEFINE S == {"server", b}
           s == <<"server", b>>
           t == <<"server">>
<1>1. s \in Seq(S) /\ Len(s) = 2 /\ s[1] = "server"
  OBVIOUS
<1>2. t \in Seq(S) /\ Len(t) = 1 /\ t[1] = "server"
  OBVIOUS
<1> HIDE DEF s, t, S
<1>3. SubSeq(s, 1, 0) \in Seq(S) /\ Len(SubSeq(s, 1, 0)) = 0
  BY <1>1, SubSeqProperties
<1>4. SubSeq(s, 1, 0) = <<>>
  BY <1>3, EmptySeq
<1>5. /\ SubSeq(s, 1, 1) \in Seq(S) /\ Len(SubSeq(s, 1, 1)) = 1
      /\ SubSeq(s, 1, 1)[1] = s[1]
  BY <1>1, SubSeqProperties
<1>6. SubSeq(s, 1, 1) = t
  <2>1. \A k \in 1 .. 1 : k = 1
    OBVIOUS
  <2> QED BY <1>1, <1>2, <1>5, <2>1, SeqEqual
<1>7. s # <<>>
  BY <1>1, CutServer, SMTT(30)
<1> QED BY <1>1, <1>4, <1>6, <1>7 DEF s, t

\* The contexts that a line keeps are a server, or a block in one.
LEMMA PoppedIs ==
    ASSUME FileInv, Reading
    PROVE  /\ Popped \in Nested
           /\ currentContext = "server" => Popped = <<"server">>
           /\ currentContext \in Blocks => Popped # <<>>
<1>1. Line.tabs \in Nat
  <2>1. lineNumber + 1 \in 1 .. Len(ConfigFiles[file])
    BY ConfigFilesAssumption DEF FileInv, Reading, Lines
  <2> QED BY <2>1, ConfigFilesAssumption DEF FileInv, Line, Lines
<1>2. ASSUME NEW b
      PROVE  /\ Len(<<"server", b>>) = 2 /\ SubSeq(<<"server", b>>, 1, 0) = <<>>
             /\ SubSeq(<<"server", b>>, 1, 1) = <<"server">>
             /\ <<"server", b>> # <<>>
  BY CutBlock
<1>3. /\ Len(<<"server">>) = 1 /\ SubSeq(<<"server">>, 1, 0) = <<>>
      /\ Len(<<>>) = 0 /\ <<"server">> # <<>>
  BY CutServer
<1>4. Popped \in Nested
  <2>1. CASE contexts = <<>>
    BY <1>1, <1>3, <2>1 DEF Popped, Nested
  <2>2. CASE contexts = <<"server">>
    <3>1. Line.tabs < 1 => Line.tabs = 0
      BY <1>1
    <3> QED BY <1>3, <2>2, <3>1 DEF Popped, Nested
  <2>3. ASSUME NEW b \in Blocks, contexts = <<"server", b>> PROVE Popped \in Nested
    <3>1. Line.tabs < 2 => Line.tabs = 0 \/ Line.tabs = 1
      BY <1>1
    <3> QED BY <1>2, <2>3, <3>1 DEF Popped, Nested
  <2> QED BY <2>1, <2>2, <2>3 DEF FileInv, Nested
<1>5. /\ Last(<<"server">>) = "server"
      /\ \A b : Last(<<"server", b>>) = b
  BY DEF Last
<1>6. "server" \notin Blocks /\ Empty # "server" /\ Empty \notin Blocks
  BY DEF Blocks, Empty
<1>7. CASE Popped = <<>>
  BY <1>4, <1>6, <1>7 DEF currentContext
<1>8. CASE Popped = <<"server">>
  <2>1. Popped # <<>> /\ currentContext = "server"
    BY <1>3, <1>5, <1>8 DEF currentContext
  <2> QED BY <1>4, <1>8, <2>1
<1>9. ASSUME NEW b \in Blocks, Popped = <<"server", b>>
      PROVE  Popped # <<>> /\ currentContext = b
  BY <1>2, <1>3, <1>5, <1>9 DEF currentContext
<1> QED BY <1>4, <1>6, <1>7, <1>8, <1>9 DEF Nested

LEMMA FileStarts == Init => FileInv
<1> SUFFICES ASSUME Init PROVE FileInv
  OBVIOUS
<1>1. /\ state \in {"parsing", "serving", "stuck", "ended"}
      /\ file \in DOMAIN ConfigFiles /\ contexts \in Nested
  BY DEF Init, ConfigInit, Nested
<1>2. in_server \in BOOLEAN /\ (in_server => contexts # <<>>)
  BY DEF Init, ConfigInit
<1>3. Len(Lines) \in Nat
  BY <1>1, ConfigFilesAssumption DEF Lines
<1>4. lineNumber \in 0 .. Len(Lines)
  BY <1>3 DEF Init, ConfigInit
<1> QED BY <1>1, <1>2, <1>4 DEF FileInv

LEMMA FileTypes == FileInv /\ [Next]_vars => FileInv'
<1> SUFFICES ASSUME FileInv, [Next]_vars PROVE FileInv'
  OBVIOUS
<1> USE DEF configVars
<1>1. ASSUME UNCHANGED <<file, lineNumber, contexts, in_server>>,
             state' \in {"parsing", "serving", "stuck", "ended"}
      PROVE  FileInv'
  BY <1>1 DEF FileInv, Lines
<1>2. CASE Start
  <2>1. \/ state' \in {"serving", "ended"} /\ UNCHANGED <<file, lineNumber, contexts, in_server>>
        \/ ReadServer \/ ReadBlock \/ ReadSetting
    BY <1>2 DEF Start, Parse, Reject, EndOfFile
  <2>2. ASSUME Reading, lineNumber' = lineNumber + 1, UNCHANGED <<state, file>>
        PROVE  lineNumber' \in 0 .. Len(Lines') /\ state' = "parsing"
               /\ file' \in DOMAIN ConfigFiles
    BY <2>2, ConfigFilesAssumption DEF FileInv, Reading, Lines
  <2>3. CASE ReadServer
    <3>1. contexts' = <<"server">> /\ in_server' = TRUE /\ contexts' # <<>>
      BY <2>3 DEF ReadServer
    <3> QED BY <2>2, <2>3, <3>1 DEF ReadServer, FileInv, Nested
  <2>4. CASE ReadBlock
    <3>1. Popped = <<"server">> /\ Line.key \in Blocks
      BY <2>4, PoppedIs DEF ReadBlock, OpensBlock
    <3>2. contexts' = <<"server", Line.key>>
      BY <2>4, <3>1, CutServer DEF ReadBlock
    <3>3. contexts' \in Nested /\ contexts' # <<>>
      BY <3>1, <3>2 DEF Nested
    <3> QED BY <2>2, <2>4, <3>3 DEF ReadBlock, FileInv
  <2>5. CASE ReadSetting
    <3>1. currentContext \in Blocks \cup {"server"}
      BY <2>5 DEF ReadSetting, Settles, SettlesRoute, SettlesPage, Blocks
    <3>2. contexts' = Popped /\ UNCHANGED in_server
      BY <2>5 DEF ReadSetting
    <3>3. Reading /\ lineNumber' = lineNumber + 1 /\ UNCHANGED <<state, file>>
      BY <2>5 DEF ReadSetting
    <3>4. Popped \in Nested /\ Popped # <<>>
      BY <3>1, <3>3, PoppedIs, CutServer
    <3> QED BY <2>2, <3>2, <3>3, <3>4 DEF FileInv
  <2> QED BY <1>1, <2>1, <2>3, <2>4, <2>5
<1>3. CASE Handle
  <2>1. UNCHANGED <<file, lineNumber, contexts, in_server>> /\ state' \in {state, "ended", "stuck"}
    BY <1>3 DEF Handle, HandleUnframed, HandleThrows, HandleLoops, HandleError, HandleUpload,
       HandleDelete, HandleFile, HandleDirectory, HandleScript, ScriptAnswered, Opened, Prepares
  <2> QED BY <1>1, <2>1 DEF FileInv
<1>4. CASE Run \/ ChildAnswers \/ ChildTakes \/ \E r \in Request : Arrive(r)
  BY <1>1, <1>4 DEF Run, ChildAnswers, ChildTakes, Arrive, FileInv
<1>5. CASE UNCHANGED vars
  BY <1>1, <1>5 DEF vars, FileInv
<1> QED BY <1>2, <1>3, <1>4, <1>5 DEF Next

Flags == /\ elapsed \in BOOLEAN /\ readEnd \in BOOLEAN /\ writeEnd \in BOOLEAN
         /\ _inf_loop \in BOOLEAN /\ forkFailed \in BOOLEAN
Amounts == wrote \in Nat /\ pipe \in 0 .. PipeSize /\ _py_body_response \in Nat
Places == /\ caller \in {"none", "wait", "kill", "read", "true", "false"}
          /\ script \in Script \cup {NoScript}
          /\ child \in {"none", "forked", "script", "server", "second", "ended"}

LEMMA CgiParts == CgiTypeOK <=> Flags /\ Amounts /\ Places
  BY DEF CgiTypeOK, Flags, Amounts, Places

LEMMA CgiTypes == CgiTypeOK /\ [Next]_vars => CgiTypeOK'
<1> SUFFICES ASSUME CgiTypeOK, [Next]_vars PROVE Flags' /\ Amounts' /\ Places'
  BY DEF CgiTypeOK, Flags, Amounts, Places
<1>0. Flags /\ Amounts /\ Places
  BY CgiParts
<1> USE <1>0 DEF cgiVars, process, result
<1>1. CASE UNCHANGED cgiVars
  BY <1>1 DEF Flags, Amounts, Places
<1>2. ASSUME NEW s \in Script, Fork(s) \/ PipeFails(s) \/ ForkFails(s)
      PROVE  Flags' /\ Amounts' /\ Places'
  <2>1. Flags'
    BY <1>2, Zenon DEF Fork, PipeFails, ForkFails, Returns, Flags
  <2>2. Amounts'
    BY <1>2 DEF Fork, PipeFails, ForkFails, Returns, Amounts
  <2>3. Places'
    BY <1>2 DEF Fork, PipeFails, ForkFails, Returns, Places
  <2> QED BY <2>1, <2>2, <2>3
<1>3. CASE Run
  <2>1. CASE WaitOver \/ TimeOver \/ Kill \/ ReadAll
    <3> USE DEF WaitOver, TimeOver, Kill, ReadAll
    <3>1. Flags'
      BY <2>1, Zenon DEF Flags
    <3>2. Amounts'
      BY <2>1 DEF Amounts
    <3>3. Places'
      BY <2>1 DEF Places
    <3> QED BY <3>1, <3>2, <3>3
  <2>2. CASE Exec \/ ExecFails \/ ScriptEnds \/ TimePasses
    <3> USE DEF Exec, ExecFails, ScriptEnds, TimePasses
    <3>1. Flags'
      BY <2>2, Zenon DEF Flags
    <3>2. Amounts' /\ Places'
      BY <2>2 DEF Amounts, Places
    <3> QED BY <3>1, <3>2
  <2>3. CASE ScriptWrites \/ ServerLogs
    BY <2>3 DEF ScriptWrites, ServerLogs, Flags, Amounts, Places
  <2> QED BY <1>3, <2>1, <2>2, <2>3 DEF Run, CgiStep, Parent, Child
<1>4. CASE HandleScript
  BY <1>2, <1>4 DEF HandleScript
<1>5. CASE ScriptAnswered \/ ChildAnswers \/ ChildTakes
  BY <1>5 DEF ScriptAnswered, ChildAnswers, ChildTakes, Flags, Amounts, Places
<1>6. CASE Start \/ (\E r \in Request : Arrive(r)) \/ UNCHANGED vars
  BY <1>1, <1>6 DEF Start, Arrive, vars
<1>7. CASE HandleUnframed \/ HandleThrows \/ HandleLoops \/ HandleError
           \/ HandleUpload \/ HandleDelete \/ HandleFile \/ HandleDirectory
  <2>1. UNCHANGED cgiVars
    BY <1>7 DEF HandleUnframed, HandleThrows, HandleLoops, HandleError,
       HandleUpload, HandleDelete, HandleFile, HandleDirectory
  <2> QED BY <1>1, <2>1
<1> QED BY <1>3, <1>4, <1>5, <1>6, <1>7 DEF Next, Handle

LEMMA DiskTypes ==
    ASSUME CgiInv, AnswerInv, DiskInv, [Next]_vars
    PROVE  DiskInv'
<1>1. Len(asked) \in Nat
  BY LenProperties DEF AnswerInv
<1>2. ASSUME UNCHANGED <<asked, files, current, _status_code, unexecuted>>,
             taken' = taken \/ (wire # <<>> /\ taken' = taken \cup {number})
      PROVE  DiskInv'
  <2>1. wire # <<>> => number \in 1 .. Len(asked)
    BY Reading1 DEF number
  <2>2. taken' \subseteq 1 .. Len(asked)
    <3>1. taken \subseteq 1 .. Len(asked)
      BY DEF DiskInv
    <3>2. CASE taken' = taken
      BY <3>1, <3>2, Zenon
    <3>3. CASE wire # <<>> /\ taken' = taken \cup {number}
      <4>1. number \in 1 .. Len(asked)
        BY <2>1, <3>3, Zenon
      <4> QED BY <3>1, <3>3, <4>1, Zenon
    <3> QED BY <1>2, <3>2, <3>3, Zenon
  <2> QED BY <1>2, <2>2 DEF DiskInv
<1>3. ASSUME UNCHANGED <<asked, current, _status_code, taken, unexecuted>>,
             files' \subseteq FirstFile \cup Uploaded
      PROVE  DiskInv'
  BY <1>3 DEF DiskInv
<1>4. CASE HandleScript
  <2>1. current' \in 1 .. Len(asked) /\ _status_code' \in {200, 301}
    BY <1>4, Reading1 DEF HandleScript, Opened, Prepares, Receives, number
  <2>2. UNCHANGED <<asked, files, taken, unexecuted>>
    BY <1>4 DEF HandleScript, Opened, Prepares
  <2> QED BY <1>1, <2>1, <2>2 DEF DiskInv
<1>5. CASE HandleUpload
  <2>1. UNCHANGED <<asked, current, _status_code, taken, unexecuted>> /\ wire # <<>>
    BY <1>5 DEF HandleUpload, Opened, Prepares, Receives
  <2>2. request \in Request
    <3>1. number \in 1 .. Len(asked)
      BY <2>1, Reading1 DEF number
    <3> QED BY <3>1, ElementOfSeq DEF AnswerInv, request
  <2>3. files' \subseteq FirstFile \cup Uploaded
    <3>1. <<UploadRoot, Append(UploadPath, request.upload)>> \in Uploaded
      BY <2>2 DEF Uploaded
    <3>2. files' \subseteq files \cup {<<UploadRoot, Append(UploadPath, request.upload)>>}
      BY <1>5 DEF HandleUpload
    <3> QED BY <3>1, <3>2 DEF DiskInv
  <2> QED BY <1>3, <2>1, <2>3
<1>6. CASE HandleDelete
  <2>1. UNCHANGED <<asked, current, _status_code, taken, unexecuted>> /\ files' \subseteq files
    BY <1>6 DEF HandleDelete, Opened, Prepares
  <2> QED BY <1>3, <2>1 DEF DiskInv
<1>7. CASE HandleUnframed \/ HandleThrows \/ HandleLoops \/ HandleError
           \/ HandleFile \/ HandleDirectory \/ ScriptAnswered
  BY <1>2, <1>7 DEF HandleUnframed, HandleThrows, HandleLoops, HandleError,
     HandleFile, HandleDirectory, ScriptAnswered, Opened, Prepares
<1>8. CASE Start \/ ChildAnswers \/ ChildTakes
  BY <1>2, <1>8 DEF Start, ChildAnswers, ChildTakes
<1>9. ASSUME NEW r \in Request, Arrive(r) PROVE DiskInv'
  <2>1. asked' = Append(asked, r) /\ UNCHANGED <<files, current, _status_code, taken, unexecuted>>
    BY <1>9 DEF Arrive
  <2>2. Len(asked') = Len(asked) + 1
    BY <2>1, AppendProperties DEF AnswerInv
  <2> QED BY <1>1, <2>1, <2>2 DEF DiskInv
<1>10. CASE UNCHANGED vars
  BY <1>2, <1>10 DEF vars
<1>11. CASE Run
  <2>1. child = "forked" => current \in 1 .. Len(asked)
    BY <1>1, LenProperties DEF CgiInv, Waits, AnswerInv, Read
  <2>2. /\ UNCHANGED <<asked, files, current, _status_code, taken>>
        /\ \/ unexecuted' = unexecuted
           \/ child = "forked" /\ unexecuted' = unexecuted \cup {current}
    BY <1>11 DEF Run
  <2>3. unexecuted' \subseteq 1 .. Len(asked)
    <3>1. unexecuted \subseteq 1 .. Len(asked)
      BY DEF DiskInv
    <3> QED BY <2>1, <2>2, <3>1, Zenon
  <2> QED BY <2>2, <2>3 DEF DiskInv
<1> QED BY <1>4, <1>5, <1>6, <1>7, <1>8, <1>9, <1>10, <1>11 DEF Next, Handle

\* Every variable keeps its type, for all configuration files, requests and
\* scripts.
THEOREM TypeCorrect == Spec => []TypeOK
<1>1. Init => FileInv /\ CgiTypeOK /\ DiskInv
  <2> SUFFICES ASSUME Init PROVE FileInv /\ CgiTypeOK /\ DiskInv
    OBVIOUS
  <2>1. FileInv
    BY FileStarts
  <2>2. CgiTypeOK
    <3>1. Flags
      BY DEF Init, CgiInit, Flags
    <3>2. Amounts
      BY DEF Init, CgiInit, Amounts
    <3>3. Places
      BY DEF Init, CgiInit, Places
    <3> QED BY <3>1, <3>2, <3>3, CgiParts
  <2>3. DiskInv
    BY EmptySeq DEF Init, DiskInv
  <2> QED BY <2>1, <2>2, <2>3
<1>2. FileInv /\ CgiTypeOK /\ CgiInv /\ AnswerInv /\ DiskInv /\ [Next]_vars
          => (FileInv /\ CgiTypeOK /\ DiskInv)'
  BY FileTypes, CgiTypes, DiskTypes
<1>3. ASSUME FileInv, CgiTypeOK, AnswerInv, ServersInv, DiskInv PROVE TypeOK
  <2>1. ConfigTypeOK
    <3>1. \A n \in DOMAIN configs : IsServer(configs[n])
      <4>1. PICK S : configs \in Seq(S) /\ \A t \in S : IsServer(t)
        BY <1>3 DEF ServersInv
      <4>2. DOMAIN configs = 1 .. Len(configs)
        BY <4>1, LenProperties
      <4> QED BY <4>1, <4>2, ElementOfSeq
    <3> QED BY <1>3, <3>1 DEF ConfigTypeOK, FileInv, ServersInv, IsServer, Nested
  <2>5. /\ asked \in Seq(Request) /\ wire \in Seq(Nat) /\ Len(wire) <= Len(asked)
        /\ \A n \in 1 .. Len(wire) : wire[n] = Read + n
        /\ answers \in [1 .. Len(asked) -> Seq(Response)]
    BY <1>3 DEF AnswerInv
  <2>2. DOMAIN asked = 1 .. Len(asked) /\ Len(asked) \in Nat /\ Len(wire) \in Nat
        /\ wire \in [1 .. Len(wire) -> Nat]
    BY <2>5, LenProperties
  <2>3. wire \in Seq(DOMAIN asked)
    <3>1. \A n \in 1 .. Len(wire) : wire[n] \in DOMAIN asked
      BY <2>2, <2>5 DEF Read
    <3>2. wire \in [1 .. Len(wire) -> DOMAIN asked]
      BY <2>2, <3>1
    <3> DEFINE S == DOMAIN asked
    <3>3. Seq(S) = UNION {[1 .. n -> S] : n \in Nat}
      BY SeqDef
    <3>4. [1 .. Len(wire) -> S] \in {[1 .. n -> S] : n \in Nat}
      BY <2>2
    <3> HIDE DEF S
    <3>5. [1 .. Len(wire) -> S] \subseteq Seq(S)
      BY <3>3, <3>4
    <3> QED BY <3>2, <3>5 DEF S
  <2>4. DOMAIN answers = DOMAIN asked /\ asked \in Seq(Request)
    BY <2>2, <2>5
  <2> QED BY <1>3, <2>1, <2>2, <2>3, <2>4 DEF TypeOK, DiskInv, Uploaded
<1> QED BY <1>1, <1>2, <1>3, ServersAlways, PTL DEF Spec

-----------------------------------------------------------------------------
(* The blocks of the file *)

\* The "server" lines among the first n, the lines of the k-th server, and those
\* of them among the first n.
ServersIn(lines, n) ==
    {h \in DOMAIN lines : lines[h].key = "server" /\ h <= n}
Block(lines, k) ==
    {j \in DOMAIN lines :
        lines[j].key # "server" /\ Cardinality(ServersIn(lines, j)) = k}
BlockIn(lines, k, n) == {j \in Block(lines, k) : j <= n}

IsFile(lines) == Len(lines) \in Nat /\ DOMAIN lines = 1 .. Len(lines)

LEMMA CountIs ==
    ASSUME NEW lines, IsFile(lines), NEW n \in Nat
    PROVE  IsFiniteSet(ServersIn(lines, n)) /\ Cardinality(ServersIn(lines, n)) \in Nat
<1>1. IsFiniteSet(1 .. n) /\ ServersIn(lines, n) \in SUBSET (1 .. n)
  BY FS_Interval DEF ServersIn, IsFile
<1> QED BY <1>1, FS_Subset, FS_CardinalityType

LEMMA CountGrows ==
    ASSUME NEW lines, IsFile(lines), NEW m \in Nat, NEW n \in Nat, m <= n
    PROVE  Cardinality(ServersIn(lines, m)) <= Cardinality(ServersIn(lines, n))
<1>1. ServersIn(lines, m) \in SUBSET ServersIn(lines, n)
  BY DEF ServersIn, IsFile
<1> QED BY <1>1, CountIs, FS_Subset

LEMMA CountNext ==
    ASSUME NEW lines, IsFile(lines), NEW n \in 0 .. Len(lines) - 1
    PROVE  Cardinality(ServersIn(lines, n + 1)) =
              Cardinality(ServersIn(lines, n)) +
                 (IF lines[n + 1].key = "server" THEN 1 ELSE 0)
<1>1. n \in Nat /\ n + 1 \in DOMAIN lines /\ \A h \in DOMAIN lines : h <= n + 1 <=> h <= n \/ h = n + 1
  BY DEF IsFile
<1>2. n + 1 \notin ServersIn(lines, n)
  BY <1>1 DEF ServersIn
<1>3. CASE lines[n + 1].key = "server"
  <2>1. ServersIn(lines, n + 1) = ServersIn(lines, n) \cup {n + 1}
    BY <1>1, <1>3 DEF ServersIn
  <2> QED BY <1>1, <1>2, <1>3, <2>1, CountIs, FS_AddElement
<1>4. CASE lines[n + 1].key # "server"
  <2>1. ServersIn(lines, n + 1) = ServersIn(lines, n)
    BY <1>1, <1>4 DEF ServersIn
  <2> QED BY <1>1, <1>4, <2>1, CountIs
<1> QED BY <1>3, <1>4

\* A "server" line ends the block before it and begins an empty one.
LEMMA BlockEnds ==
    ASSUME NEW lines, IsFile(lines), NEW n \in 0 .. Len(lines) - 1,
           lines[n + 1].key = "server"
    PROVE  /\ BlockIn(lines, Cardinality(ServersIn(lines, n)) + 1, n + 1) = {}
           /\ BlockIn(lines, Cardinality(ServersIn(lines, n)), n)
                 = Block(lines, Cardinality(ServersIn(lines, n)))
<1> DEFINE c == Cardinality(ServersIn(lines, n))
<1>1. n \in Nat /\ n + 1 \in Nat /\ c \in Nat /\ Cardinality(ServersIn(lines, n + 1)) = c + 1
  BY CountIs, CountNext
<1>2. ASSUME NEW j \in DOMAIN lines, lines[j].key # "server", j <= n + 1
      PROVE  Cardinality(ServersIn(lines, j)) <= c
  <2>1. j \in Nat /\ j <= n
    BY <1>2 DEF IsFile
  <2> QED BY <1>1, <2>1, CountGrows
<1>3. ASSUME NEW j \in DOMAIN lines, ~(j <= n)
      PROVE  c + 1 <= Cardinality(ServersIn(lines, j))
  <2>1. j \in Nat /\ n + 1 <= j
    BY <1>3 DEF IsFile
  <2> QED BY <1>1, <2>1, CountGrows
<1> HIDE DEF c
<1>4. BlockIn(lines, c + 1, n + 1) = {}
  BY <1>1, <1>2 DEF BlockIn, Block
<1>5. BlockIn(lines, c, n) = Block(lines, c)
  BY <1>1, <1>3 DEF BlockIn, Block
<1> QED BY <1>4, <1>5 DEF c

\* Any other line belongs to the block of the "server" line before it.
LEMMA BlockGoesOn ==
    ASSUME NEW lines, IsFile(lines), NEW n \in 0 .. Len(lines) - 1,
           lines[n + 1].key # "server"
    PROVE  /\ BlockIn(lines, Cardinality(ServersIn(lines, n)), n + 1)
                 = BlockIn(lines, Cardinality(ServersIn(lines, n)), n) \cup {n + 1}
           /\ n + 1 \notin BlockIn(lines, Cardinality(ServersIn(lines, n)), n)
<1>1. /\ n + 1 \in DOMAIN lines /\ n \in Nat
      /\ \A j \in DOMAIN lines : j <= n + 1 <=> j <= n \/ j = n + 1
  BY DEF IsFile
<1>2. Cardinality(ServersIn(lines, n + 1)) = Cardinality(ServersIn(lines, n))
  BY <1>1, CountIs, CountNext
<1> DEFINE S == Block(lines, Cardinality(ServersIn(lines, n)))
<1>3. n + 1 \in S
  BY <1>1, <1>2 DEF Block
<1>4. S \subseteq DOMAIN lines
  BY DEF Block
<1>5. ~(n + 1 <= n)
  BY <1>1
<1> HIDE DEF S
<1>6. /\ {j \in S : j <= n + 1} = {j \in S : j <= n} \cup {n + 1}
      /\ n + 1 \notin {j \in S : j <= n}
  BY <1>1, <1>3, <1>4, <1>5
<1> QED BY <1>6 DEF BlockIn, S

\* What a server is set to comes from the lines B, and it has their locations.
Copied == DOMAIN NewServer \ {"error_pages", "routes"}
SetBy(lines, s, B) ==
    \A key \in Copied :
        \/ s[key] = NewServer[key]
        \/ \E j \in B : lines[j].key = key /\ lines[j].value = s[key]
LocatedBy(lines, s, B) ==
    /\ \E S : s.routes \in Seq(S)
    /\ Len(s.routes) = Cardinality({j \in B : lines[j].key = "location"})
FromBlock(lines, s, B) == SetBy(lines, s, B) /\ LocatedBy(lines, s, B)

\* The "server" lines read are the servers begun; the finished ones follow their
\* blocks, and the one being read follows the lines of its block read so far.
BlocksInv ==
    /\ ~in_server => contexts = <<>> /\ serverConfig = NewServer
    /\ state = "parsing" =>
          /\ Cardinality(ServersIn(Lines, lineNumber))
                = Len(configs) + (IF in_server THEN 1 ELSE 0)
          /\ \A k \in 1 .. Len(configs) : FromBlock(Lines, configs[k], Block(Lines, k))
          /\ in_server =>
                FromBlock(Lines, serverConfig, BlockIn(Lines, Len(configs) + 1, lineNumber))

LEMMA NewFollows ==
    ASSUME NEW lines
    PROVE  FromBlock(lines, NewServer, {})
<1>1. SetBy(lines, NewServer, {})
  BY DEF SetBy
<1>2. NewServer.routes = <<>> /\ <<>> \in Seq({}) /\ Len(<<>>) = 0
  BY EmptySeq DEF NewServer
<1>3. {j \in {} : lines[j].key = "location"} = {} /\ Cardinality({}) = 0
  BY FS_EmptySet
<1> QED BY <1>1, <1>2, <1>3 DEF FromBlock, LocatedBy

LEMMA SetByMore ==
    ASSUME NEW lines, NEW s, NEW t, NEW B, NEW C, SetBy(lines, s, B), B \subseteq C,
           \A key \in Copied : t[key] = s[key]
    PROVE  SetBy(lines, t, C)
  BY DEF SetBy

\* The settings of a line that is no location.
LEMMA SettingFollows ==
    ASSUME NEW B, FileInv, IsServer(serverConfig), ReadSetting,
           FromBlock(Lines, serverConfig, B)
    PROVE  FromBlock(Lines, serverConfig', B \cup {lineNumber + 1})
<1> DEFINE C == B \cup {lineNumber + 1}
<1>1. Line.key # "location"
  BY DEF ReadSetting, Settles, SettlesRoute, SettlesPage, Blocks
<1>2. {j \in C : Lines[j].key = "location"} = {j \in B : Lines[j].key = "location"}
  BY <1>1 DEF Line
<1>3. /\ \A key \in Copied : key \in DOMAIN serverConfig /\ key # "routes" /\ key # "error_pages"
      /\ "routes" \in DOMAIN serverConfig
  BY DEF IsServer, Copied, NewServer
<1>4. CASE Settles /\ serverConfig' = [serverConfig EXCEPT ![Line.key] = Line.value]
  <2>1. Line.key # "routes"
    BY <1>4 DEF Settles
  <2>2. serverConfig'.routes = serverConfig.routes
    BY <1>3, <1>4, <2>1
  <2>3. ASSUME NEW key \in Copied
        PROVE  \/ serverConfig'[key] = NewServer[key]
               \/ \E j \in C : Lines[j].key = key /\ Lines[j].value = serverConfig'[key]
    <3>1. CASE key = Line.key
      BY <1>3, <1>4, <3>1 DEF Line
    <3>2. CASE key # Line.key
      BY <1>3, <1>4, <3>2 DEF FromBlock, SetBy
    <3> QED BY <3>1, <3>2
  <2>4. SetBy(Lines, serverConfig', C)
    BY <2>3 DEF SetBy
  <2>5. LocatedBy(Lines, serverConfig', C)
    BY <1>2, <2>2 DEF FromBlock, LocatedBy
  <2> QED BY <2>4, <2>5 DEF FromBlock
<1>5. ASSUME NEW pages, serverConfig' = [serverConfig EXCEPT !.error_pages = pages]
      PROVE  FromBlock(Lines, serverConfig', C)
  <2>1. serverConfig'.routes = serverConfig.routes
    BY <1>3, <1>5
  <2>2. \A key \in Copied : serverConfig'[key] = serverConfig[key]
    BY <1>3, <1>5
  <2>3. SetBy(Lines, serverConfig', C)
    BY <2>2, SetByMore DEF FromBlock
  <2>4. LocatedBy(Lines, serverConfig', C)
    BY <1>2, <2>1 DEF FromBlock, LocatedBy
  <2> QED BY <2>3, <2>4 DEF FromBlock
<1>6. ASSUME NEW i, NEW route,
             serverConfig' = [serverConfig EXCEPT !.routes = [serverConfig.routes EXCEPT ![i] = route]]
      PROVE  FromBlock(Lines, serverConfig', C)
  <2>1. PICK S : serverConfig.routes \in Seq(S)
    BY DEF FromBlock, LocatedBy
  <2> DEFINE T == S \cup {route}
             routes == serverConfig.routes
             changed == [routes EXCEPT ![i] = route]
  <2>2. Len(routes) \in Nat /\ routes \in [1 .. Len(routes) -> S]
    BY <2>1, LenProperties
  <2>3. changed \in [1 .. Len(routes) -> T]
    BY <2>2
  <2>4. changed \in Seq(T) /\ Len(changed) = Len(routes)
    <3> HIDE DEF T, changed, routes
    <3>1. Seq(T) = UNION {[1 .. n -> T] : n \in Nat}
      BY SeqDef
    <3>2. changed \in Seq(T)
      BY <2>2, <2>3, <3>1
    <3> QED BY <2>2, <2>3, <3>2, LenProperties
  <2>5. serverConfig'.routes = changed
    BY <1>3, <1>6
  <2>6. \A key \in Copied : serverConfig'[key] = serverConfig[key]
    BY <1>3, <1>6
  <2>7. SetBy(Lines, serverConfig', C)
    BY <2>6, SetByMore DEF FromBlock
  <2> HIDE DEF T, changed
  <2>8. LocatedBy(Lines, serverConfig', C)
    BY <1>2, <2>4, <2>5 DEF FromBlock, LocatedBy
  <2> QED BY <2>7, <2>8 DEF FromBlock
<1>7. CASE SettlesRoute /\ serverConfig' =
                [serverConfig EXCEPT !.routes[Len(serverConfig.routes)] =
                    RouteWith(@, Line.key, Line.value)]
  BY <1>6, <1>7
<1>8. CASE SettlesPage /\ serverConfig' =
                IF Line.key = "page"
                THEN [serverConfig EXCEPT !.error_pages =
                        {page \in @ : page[1] # Line.value[1]} \cup {Line.value}]
                ELSE serverConfig
  <2>1. CASE Line.key = "page"
    BY <1>5, <1>8, <2>1
  <2>2. CASE Line.key # "page"
    <3>1. serverConfig' = serverConfig
      BY <1>8, <2>2
    <3>2. SetBy(Lines, serverConfig', C) /\ LocatedBy(Lines, serverConfig', C)
      BY <1>2, <3>1, SetByMore DEF FromBlock, LocatedBy
    <3> QED BY <3>2 DEF FromBlock
  <2> QED BY <2>1, <2>2
<1> QED BY <1>4, <1>7, <1>8 DEF ReadSetting

\* A line that opens a location adds one to the server.
LEMMA BlockFollows ==
    ASSUME NEW B, FileInv, IsServer(serverConfig), ReadBlock,
           IsFiniteSet(B), lineNumber + 1 \notin B,
           FromBlock(Lines, serverConfig, B)
    PROVE  FromBlock(Lines, serverConfig', B \cup {lineNumber + 1})
<1> DEFINE C == B \cup {lineNumber + 1}
           D == {j \in B : Lines[j].key = "location"}
<1>1. /\ \A key \in Copied : key \in DOMAIN serverConfig /\ key # "routes"
      /\ "routes" \in DOMAIN serverConfig
  BY DEF IsServer, Copied, NewServer
<1>2. CASE Line.key = "location"
  <2>1. PICK S : serverConfig.routes \in Seq(S)
    BY DEF FromBlock, LocatedBy
  <2> DEFINE T == S \cup {NewRoute}
  <2>2. serverConfig.routes \in Seq(T) /\ NewRoute \in T
    BY <2>1, SeqMonotonic
  <2> HIDE DEF T
  <2>3. serverConfig' = [serverConfig EXCEPT !.routes = Append(serverConfig.routes, NewRoute)]
    BY <1>2 DEF ReadBlock
  <2>4. serverConfig'.routes = Append(serverConfig.routes, NewRoute)
    BY <1>1, <2>3
  <2>5. /\ serverConfig'.routes \in Seq(T)
        /\ Len(serverConfig'.routes) = Len(serverConfig.routes) + 1
    BY <2>2, <2>4, AppendProperties
  <2>6. D \in SUBSET B /\ IsFiniteSet(D) /\ lineNumber + 1 \notin D
    BY FS_Subset
  <2>7. {j \in C : Lines[j].key = "location"} = D \cup {lineNumber + 1}
    BY <1>2 DEF Line
  <2>8. Cardinality(D \cup {lineNumber + 1}) = Cardinality(D) + 1
    BY <2>6, FS_AddElement
  <2>9. LocatedBy(Lines, serverConfig', C)
    BY <2>5, <2>7, <2>8 DEF FromBlock, LocatedBy
  <2>10. \A key \in Copied : serverConfig'[key] = serverConfig[key]
    BY <1>1, <2>3
  <2>11. SetBy(Lines, serverConfig', C)
    BY <2>10, SetByMore DEF FromBlock
  <2> QED BY <2>9, <2>11 DEF FromBlock
<1>3. CASE Line.key # "location"
  <2>1. serverConfig' = serverConfig
    BY <1>3 DEF ReadBlock
  <2>2. {j \in C : Lines[j].key = "location"} = D
    BY <1>3 DEF Line
  <2>3. SetBy(Lines, serverConfig', C) /\ LocatedBy(Lines, serverConfig', C)
    BY <2>1, <2>2, SetByMore DEF FromBlock, LocatedBy
  <2> QED BY <2>3 DEF FromBlock
<1> QED BY <1>2, <1>3

LEMMA FileIs == FileInv => IsFile(Lines)
  BY ConfigFilesAssumption DEF FileInv, IsFile, Lines

LEMMA BlocksStay ==
    ASSUME FileInv, ServersInv, BlocksInv, [Next]_vars
    PROVE  BlocksInv'
<1> USE DEF configVars
<1> DEFINE n == lineNumber
<1>1. IsFile(Lines) /\ n \in 0 .. Len(Lines) /\ n \in Nat
      /\ Len(configs) \in Nat
  BY FileIs, LenProperties DEF FileInv, ServersInv
<1>2. ASSUME UNCHANGED <<file, lineNumber, contexts, in_server, serverConfig>>,
             state' = "parsing" => state = "parsing" /\ UNCHANGED configs
      PROVE  BlocksInv'
  <2>1. Lines' = Lines
    BY <1>2 DEF Lines
  <2> QED BY <1>2, <2>1 DEF BlocksInv
<1>3. ASSUME Reading, UNCHANGED <<state, file>>, n' = n + 1
      PROVE  /\ n \in 0 .. Len(Lines) - 1 /\ state = "parsing" /\ Lines' = Lines
             /\ Line = Lines[n + 1]
             /\ Cardinality(ServersIn(Lines, n)) = Len(configs) + (IF in_server THEN 1 ELSE 0)
             /\ \A k \in 1 .. Len(configs) : FromBlock(Lines, configs[k], Block(Lines, k))
             /\ in_server => FromBlock(Lines, serverConfig, BlockIn(Lines, Len(configs) + 1, n))
  BY <1>1, <1>3 DEF Reading, Lines, Line, BlocksInv
<1>4. CASE Start
  <2>1. CASE ReadServer
    <3> DEFINE c == Cardinality(ServersIn(Lines, n))
    <3>1. /\ Reading /\ UNCHANGED <<state, file>> /\ n' = n + 1
          /\ Line.key = "server" /\ in_server' = TRUE
      BY <2>1 DEF ReadServer, Opens
    <3>2. /\ n \in 0 .. Len(Lines) - 1 /\ state = "parsing" /\ Lines' = Lines
          /\ Lines[n + 1].key = "server"
          /\ c = Len(configs) + (IF in_server THEN 1 ELSE 0)
          /\ \A k \in 1 .. Len(configs) : FromBlock(Lines, configs[k], Block(Lines, k))
          /\ in_server => FromBlock(Lines, serverConfig, BlockIn(Lines, Len(configs) + 1, n))
      BY <1>3, <3>1
    <3>3. Cardinality(ServersIn(Lines, n + 1)) = c + 1
      BY <1>1, <3>2, CountNext
    <3>4. BlockIn(Lines, c + 1, n + 1) = {} /\ BlockIn(Lines, c, n) = Block(Lines, c)
      BY <1>1, <3>2, BlockEnds
    <3>5. serverConfig' = NewServer
      BY <2>1 DEF ReadServer, BlocksInv
    <3>6. Len(configs') = c /\ \A k \in 1 .. c : FromBlock(Lines, configs'[k], Block(Lines, k))
      <4>1. CASE in_server
        <5>1. configs' = Append(configs, serverConfig)
          BY <2>1, <4>1 DEF ReadServer
        <5>2. /\ Len(configs') = Len(configs) + 1 /\ configs'[Len(configs) + 1] = serverConfig
              /\ \A k \in 1 .. Len(configs) : configs'[k] = configs[k]
          BY <5>1, ServerAdded, AppendProperties DEF ServersInv
        <5>3. c = Len(configs) + 1
          BY <3>2, <4>1
        <5>4. FromBlock(Lines, serverConfig, Block(Lines, c))
          BY <3>2, <3>4, <4>1, <5>3
        <5> HIDE DEF c
        <5>5. ASSUME NEW k \in 1 .. c PROVE FromBlock(Lines, configs'[k], Block(Lines, k))
          <6>1. CASE k = c
            BY <5>2, <5>3, <5>4, <6>1
          <6>2. CASE k \in 1 .. Len(configs)
            BY <3>2, <5>2, <6>2
          <6> QED BY <1>1, <5>3, <6>1, <6>2
        <5> QED BY <5>2, <5>3, <5>5
      <4>2. CASE ~in_server
        <5>1. configs' = configs
          BY <2>1, <4>2 DEF ReadServer
        <5>2. c = Len(configs)
          BY <1>1, <3>2, <4>2
        <5> HIDE DEF c
        <5> QED BY <3>2, <5>1, <5>2
      <4> QED BY <4>1, <4>2
    <3> HIDE DEF c
    <3>7. FromBlock(Lines, serverConfig', BlockIn(Lines, Len(configs') + 1, n + 1))
      BY <3>4, <3>5, <3>6, NewFollows
    <3> QED BY <3>1, <3>2, <3>3, <3>6, <3>7 DEF BlocksInv
  <2>2. CASE ReadBlock \/ ReadSetting
    <3> DEFINE c == Cardinality(ServersIn(Lines, n))
               B == BlockIn(Lines, c, n)
    <3>1. /\ Reading /\ UNCHANGED <<state, file, in_server, configs>> /\ n' = n + 1
          /\ Line.key # "server"
      BY <2>2 DEF ReadBlock, ReadSetting, OpensBlock, Settles, SettlesRoute, SettlesPage, Blocks
    <3>2. /\ n \in 0 .. Len(Lines) - 1 /\ state = "parsing" /\ Lines' = Lines
          /\ Lines[n + 1].key # "server"
          /\ c = Len(configs) + (IF in_server THEN 1 ELSE 0)
          /\ \A k \in 1 .. Len(configs) : FromBlock(Lines, configs[k], Block(Lines, k))
          /\ in_server => FromBlock(Lines, serverConfig, BlockIn(Lines, Len(configs) + 1, n))
      BY <1>3, <3>1
    <3>3. in_server
      <4> SUFFICES ASSUME ~in_server PROVE FALSE
        OBVIOUS
      <4>1. contexts = <<>>
        BY DEF BlocksInv
      <4>2. Line.tabs \in Nat
        BY <3>1, ConfigFilesAssumption DEF FileInv, Line, Lines, Reading
      <4>3. Popped = <<>>
        BY <4>1, <4>2, EmptySeq DEF Popped
      <4>4. currentContext = Empty
        BY <4>3 DEF currentContext
      <4> QED BY <2>2, <4>4 DEF ReadBlock, ReadSetting, OpensBlock, Settles, SettlesRoute,
                                SettlesPage, Empty
    <3>4. c = Len(configs) + 1 /\ FromBlock(Lines, serverConfig, B)
      BY <3>2, <3>3
    <3>5. Cardinality(ServersIn(Lines, n + 1)) = c
      BY <1>1, <3>2, <3>4, CountNext
    <3>6. BlockIn(Lines, c, n + 1) = B \cup {n + 1} /\ n + 1 \notin B
      BY <1>1, <3>2, BlockGoesOn
    <3>7. IsFiniteSet(B)
      <4>1. B \in SUBSET (1 .. Len(Lines)) /\ IsFiniteSet(1 .. Len(Lines))
        BY <1>1, FS_Interval DEF BlockIn, Block, IsFile
      <4> QED BY <4>1, FS_Subset
    <3>8. IsServer(serverConfig)
      BY DEF ServersInv
    <3> HIDE DEF B, c
    <3>9. FromBlock(Lines, serverConfig', B \cup {n + 1})
      <4>1. CASE ReadBlock
        BY <3>4, <3>6, <3>7, <3>8, <4>1, BlockFollows
      <4>2. CASE ReadSetting
        BY <3>4, <3>8, <4>2, SettingFollows
      <4> QED BY <2>2, <4>1, <4>2
    <3> QED BY <3>1, <3>2, <3>3, <3>4, <3>5, <3>6, <3>9 DEF BlocksInv
  <2>3. CASE Reject \/ EndOfFile
    BY <1>2, <2>3 DEF Reject, EndOfFile
  <2> QED BY <1>4, <2>1, <2>2, <2>3 DEF Start, Parse
<1>5. CASE Handle
  <2>1. /\ UNCHANGED <<file, lineNumber, contexts, in_server, serverConfig, configs>>
        /\ state' \in {state, "ended", "stuck"}
    BY <1>5 DEF Handle, HandleUnframed, HandleThrows, HandleLoops, HandleError, HandleUpload,
       HandleDelete, HandleFile, HandleDirectory, HandleScript, ScriptAnswered, Opened, Prepares
  <2> QED BY <1>2, <2>1
<1>6. CASE Run \/ ChildAnswers \/ ChildTakes \/ \E r \in Request : Arrive(r)
  BY <1>2, <1>6 DEF Run, ChildAnswers, ChildTakes, Arrive
<1>7. CASE UNCHANGED vars
  BY <1>2, <1>7 DEF vars
<1> QED BY <1>4, <1>5, <1>6, <1>7 DEF Next

LEMMA BlocksAlways == Spec => [](FileInv /\ ServersInv /\ BlocksInv)
<1>1. ASSUME Init PROVE FileInv /\ BlocksInv
  <2>1. /\ state = "parsing" /\ file \in DOMAIN ConfigFiles /\ lineNumber = 0
        /\ contexts = <<>> /\ in_server = FALSE /\ serverConfig = NewServer /\ configs = <<>>
    BY <1>1 DEF Init, ConfigInit
  <2>2. FileInv
    BY <1>1, FileStarts
  <2>3. IsFile(Lines)
    BY <2>2, FileIs
  <2>4. ServersIn(Lines, 0) = {}
    BY <2>3 DEF ServersIn, IsFile
  <2>5. Cardinality(ServersIn(Lines, 0)) = 0 /\ Len(configs) = 0
    BY <2>1, <2>4, FS_EmptySet, EmptySeq
  <2>6. 1 .. Len(configs) = {}
    BY <2>5
  <2> QED BY <2>1, <2>2, <2>5, <2>6 DEF BlocksInv
<1>2. FileInv /\ ServersInv /\ BlocksInv /\ [Next]_vars => (FileInv /\ BlocksInv)'
  BY FileTypes, BlocksStay
<1> QED BY <1>1, <1>2, ServersAlways, PTL DEF Spec

LEMMA BlockIs ==
    ASSUME IsFile(Lines)
    PROVE  /\ Cardinality(ServerLines) = Cardinality(ServersIn(Lines, Len(Lines)))
           /\ \A k : BlockOf(k) = Block(Lines, k) /\ Block(Lines, k) = BlockIn(Lines, k, Len(Lines))
<1>1. ServerLines = ServersIn(Lines, Len(Lines))
  BY DEF ServerLines, ServersIn, IsFile
<1>2. ASSUME NEW k PROVE BlockOf(k) = Block(Lines, k)
  <2>1. ASSUME NEW j \in DOMAIN Lines, Lines[j].key # "server"
        PROVE  {h \in ServerLines : h < j} = ServersIn(Lines, j)
    BY <2>1 DEF ServerLines, ServersIn, IsFile
  <2>2. \A j : j \in DOMAIN Lines \ ServerLines <=> j \in DOMAIN Lines /\ Lines[j].key # "server"
    BY DEF ServerLines
  <2> QED BY <2>1, <2>2 DEF BlockOf, Block
<1>3. ASSUME NEW k PROVE Block(Lines, k) = BlockIn(Lines, k, Len(Lines))
  BY DEF Block, BlockIn, IsFile
<1> QED BY <1>1, <1>2, <1>3

\* The servers that start are those of the file, each set from its own block.
THEOREM ServersAreTheirBlocks == Spec => ServersFollowBlocks
<1>1. ASSUME FileInv, ServersInv, BlocksInv, [Next]_vars,
             state = "parsing", state' = "serving"
      PROVE  StartsFromBlocks
  <2> USE DEF configVars
  <2>1. EndOfFile
    <3>1. CASE Start
      BY <1>1, <3>1 DEF Start, Parse, ReadServer, ReadBlock, ReadSetting, Reject
    <3>2. CASE Handle
      <4>1. state' \in {state, "ended", "stuck"}
        BY <3>2 DEF Handle, HandleUnframed, HandleThrows, HandleLoops, HandleError, HandleUpload,
           HandleDelete, HandleFile, HandleDirectory, HandleScript, ScriptAnswered, Opened, Prepares
      <4> QED BY <1>1, <4>1
    <3>3. CASE Run \/ ChildAnswers \/ ChildTakes \/ (\E r \in Request : Arrive(r)) \/ UNCHANGED vars
      BY <1>1, <3>3 DEF Run, ChildAnswers, ChildTakes, Arrive, vars
    <3> QED BY <1>1, <3>1, <3>2, <3>3 DEF Next
  <2>2. in_server
    BY <1>1, <2>1 DEF EndOfFile, CheckForMinimumConfig, BlocksInv, NewServer
  <2>3. /\ lineNumber = Len(Lines) /\ configs' = Append(configs, serverConfig)
        /\ IsFile(Lines)
    BY <1>1, <2>1, FileIs DEF EndOfFile
  <2>4. /\ Cardinality(ServersIn(Lines, Len(Lines))) = Len(configs) + 1
        /\ \A k \in 1 .. Len(configs) : FromBlock(Lines, configs[k], Block(Lines, k))
        /\ FromBlock(Lines, serverConfig, BlockIn(Lines, Len(configs) + 1, Len(Lines)))
    BY <1>1, <2>2, <2>3 DEF BlocksInv
  <2>5. PICK S : Append(configs, serverConfig) \in Seq(S) /\ configs \in Seq(S)
    <3>1. PICK S : configs \in Seq(S)
      BY <1>1 DEF ServersInv
    <3> DEFINE T == S \cup {serverConfig}
    <3>2. configs \in Seq(T)
      BY <3>1, SeqMonotonic
    <3>3. Append(configs, serverConfig) \in Seq(T)
      BY <3>2, AppendProperties
    <3> QED BY <3>2, <3>3
  <2>6. PICK T : configs \in Seq(T) /\ serverConfig \in T
    <3>1. configs \in Seq(S \cup {serverConfig})
      BY <2>5, SeqMonotonic
    <3> QED BY <3>1
  <2>7. /\ Len(configs) \in Nat /\ Len(configs') = Len(configs) + 1
        /\ DOMAIN configs' = 1 .. Len(configs) + 1
        /\ configs'[Len(configs) + 1] = serverConfig
        /\ \A k \in 1 .. Len(configs) : configs'[k] = configs[k]
    BY <2>3, <2>6, AppendProperties, LenProperties
  <2>8. ASSUME NEW k \in DOMAIN configs' PROVE FromBlock(Lines, configs'[k], BlockOf(k))
    <3>1. BlockOf(k) = Block(Lines, k) /\ Block(Lines, k) = BlockIn(Lines, k, Len(Lines))
      BY <2>3, BlockIs
    <3>2. CASE k = Len(configs) + 1
      BY <2>4, <2>7, <3>1, <3>2
    <3>3. CASE k \in 1 .. Len(configs)
      BY <2>4, <2>7, <3>1, <3>3
    <3> QED BY <2>7, <3>2, <3>3
  <2>9. Len(configs') = Cardinality(ServerLines)
    BY <2>3, <2>4, <2>7, BlockIs
  <2>10. ASSUME NEW k \in DOMAIN configs' PROVE ComesFrom(configs'[k], BlockOf(k))
    BY <2>8 DEF ComesFrom, FromBlock, SetBy, LocatedBy, Copied
  <2> QED BY <2>9, <2>10 DEF StartsFromBlocks
<1>2. FileInv /\ ServersInv /\ BlocksInv /\ [Next]_vars => [StartsFromBlocks]_configVars
  <2>1. CASE state = "parsing" /\ state' = "serving"
    BY <1>1, <2>1
  <2>2. CASE ~(state = "parsing" /\ state' = "serving")
    BY <2>2 DEF StartsFromBlocks
  <2> QED BY <2>1, <2>2
<1> QED BY <1>2, BlocksAlways, PTL DEF ServersFollowBlocks, Spec
=============================================================================
