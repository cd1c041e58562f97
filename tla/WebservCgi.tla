------------------------------ MODULE WebservCgi ------------------------------
(***************************************************************************)
(* CgiHandler::executePythonScript: the server forks a child that becomes  *)
(* the script, waits for its end in a busy loop of at most MAX_TIME_CHILD  *)
(* seconds, and only then reads the pipe the script wrote to.              *)
(*                                                                         *)
(* The output of a script is a number of bytes; a pipe holds PipeSize.     *)
(***************************************************************************)
EXTENDS Naturals

CONSTANTS Script,    \* the scripts
          Writes,    \* Writes[s]: the bytes s writes
          Ends,      \* those of the scripts that end by themselves
          PipeSize,
          CanFail    \* pipe, fork and execve may fail

ASSUME WritesAssumption == Writes \in [Script -> Nat]
ASSUME PipeAssumption == PipeSize \in Nat \ {0}

NoScript == "no script"
ASSUME NoScriptAssumption == NoScript \notin Script

VARIABLES
    caller,   \* where executePythonScript is
    script,   \* the script it was called for
    child,    \* what the forked process is
    wrote,    \* what the child has written so far
    pipe,     \* what of it is still in the pipe
    elapsed,  \* more than MAX_TIME_CHILD seconds since the fork
    readEnd, writeEnd,   \* the pipefd of this call is open in the server
    _py_body_response,   \* how much of the output was read
    _inf_loop,
    forkFailed   \* history: the fork of this call failed

process == <<script, child, wrote, pipe, elapsed>>
result == <<_py_body_response, _inf_loop>>
cgiVars == <<caller, process, readEnd, writeEnd, result, forkFailed>>

CgiInit ==
    /\ caller = "none"
    /\ script = NoScript
    /\ child = "none"
    /\ wrote = 0
    /\ pipe = 0
    /\ elapsed = FALSE
    /\ readEnd = FALSE
    /\ writeEnd = FALSE
    /\ _py_body_response = 0
    /\ _inf_loop = FALSE
    /\ forkFailed = FALSE
-----------------------------------------------------------------------------
(* The server *)

Returns(s) ==
    /\ CanFail
    /\ script' = s
    /\ _py_body_response' = 0
    /\ _inf_loop' = FALSE
    /\ caller' = "false"
    /\ UNCHANGED <<child, wrote, pipe, elapsed>>

\* pipe() fails, and opens nothing.
PipeFails(s) ==
    /\ Returns(s)
    /\ readEnd' = FALSE
    /\ writeEnd' = FALSE
    /\ forkFailed' = FALSE

\* fork() fails: nobody closes the pipe, and a later call opens another one, so
\* its two descriptors are lost for good.
ForkFails(s) ==
    /\ Returns(s)
    /\ readEnd' = TRUE
    /\ writeEnd' = TRUE
    /\ forkFailed' = TRUE

\* Mutant of Fork: the server keeps its write end of the pipe.
ForkKeepsWriteEnd(s) ==
    /\ script' = s
    /\ child' = "forked"
    /\ wrote' = 0
    /\ pipe' = 0
    /\ elapsed' = FALSE
    /\ readEnd' = TRUE
    /\ writeEnd' = TRUE
    /\ _py_body_response' = 0
    /\ _inf_loop' = FALSE
    /\ forkFailed' = FALSE
    /\ caller' = "wait"

\* pipe, fork, and the close of the write end before the wait.
Fork(s) ==
    /\ script' = s
    /\ child' = "forked"
    /\ wrote' = 0
    /\ pipe' = 0
    /\ elapsed' = FALSE
    /\ readEnd' = TRUE
    /\ writeEnd' = FALSE
    /\ _py_body_response' = 0
    /\ _inf_loop' = FALSE
    /\ forkFailed' = FALSE
    /\ caller' = "wait"

\* waitpid returns the child.
WaitOver ==
    /\ caller = "wait"
    /\ child = "ended"
    /\ child' = "none"
    /\ caller' = "read"
    /\ UNCHANGED <<script, wrote, pipe, elapsed, readEnd, writeEnd, result,
                   forkFailed>>

\* waitpid returns 0 and the time is over; the child may still end before the
\* kill.
TimeOver ==
    /\ caller = "wait"
    /\ child \notin {"none", "ended"}
    /\ elapsed
    /\ caller' = "kill"
    /\ UNCHANGED <<process, readEnd, writeEnd, result, forkFailed>>

\* Mutants of Kill: without the signal, without the close.
KillNobody ==
    /\ caller = "kill"
    /\ _inf_loop' = TRUE
    /\ readEnd' = FALSE
    /\ caller' = "false"
    /\ UNCHANGED <<process, writeEnd, _py_body_response, forkFailed>>

KillKeepsPipe ==
    /\ caller = "kill"
    /\ child' = "none"
    /\ pipe' = 0
    /\ _inf_loop' = TRUE
    /\ caller' = "false"
    /\ UNCHANGED <<script, wrote, elapsed, readEnd, writeEnd,
                   _py_body_response, forkFailed>>

\* The killed child is never waited for; a zombie does nothing more.
Kill ==
    /\ caller = "kill"
    /\ child' = "none"
    /\ pipe' = 0
    /\ _inf_loop' = TRUE
    /\ readEnd' = FALSE
    /\ caller' = "false"
    /\ UNCHANGED <<script, wrote, elapsed, writeEnd, _py_body_response,
                   forkFailed>>

\* Mutant of ReadAll: one byte only.
ReadOne ==
    /\ caller = "read"
    /\ ~writeEnd
    /\ _py_body_response' = IF pipe = 0 THEN 0 ELSE 1
    /\ pipe' = 0
    /\ readEnd' = FALSE
    /\ caller' = "true"
    /\ UNCHANGED <<script, child, wrote, elapsed, writeEnd, _inf_loop, forkFailed>>

\* read returns 0 only when nobody can write to the pipe any more.
ReadAll ==
    /\ caller = "read"
    /\ ~writeEnd
    /\ _py_body_response' = pipe
    /\ pipe' = 0
    /\ readEnd' = FALSE
    /\ caller' = "true"
    /\ UNCHANGED <<script, child, wrote, elapsed, writeEnd, _inf_loop, forkFailed>>

Parent == WaitOver \/ TimeOver \/ Kill \/ ReadAll
-----------------------------------------------------------------------------
(* The child *)

Exec ==
    /\ child = "forked"
    /\ child' = "script"
    /\ UNCHANGED <<caller, script, wrote, pipe, elapsed, readEnd, writeEnd,
                   result, forkFailed>>

\* executePythonScript returns false in the child as well, which goes on as a
\* second server.
ExecFails ==
    /\ CanFail
    /\ child = "forked"
    /\ child' = "server"
    /\ UNCHANGED <<caller, script, wrote, pipe, elapsed, readEnd, writeEnd,
                   result, forkFailed>>

\* A write waits while the pipe is full.
ScriptWrites ==
    /\ child = "script"
    /\ wrote < Writes[script]
    /\ pipe < PipeSize
    /\ wrote' = wrote + 1
    /\ pipe' = pipe + 1
    /\ UNCHANGED <<caller, script, child, elapsed, readEnd, writeEnd, result,
                   forkFailed>>

\* The end of the script, or an error in the middle of it: the exit status is
\* never looked at.
ScriptEnds ==
    /\ child = "script"
    /\ script \in Ends
    /\ wrote < Writes[script] => CanFail
    /\ child' = "ended"
    /\ UNCHANGED <<caller, script, wrote, pipe, elapsed, readEnd, writeEnd,
                   result, forkFailed>>

\* The second server logs to the pipe, which has become its output.
ServerLogs ==
    /\ child \in {"server", "second"}
    /\ pipe < PipeSize
    /\ wrote' = wrote + 1
    /\ pipe' = pipe + 1
    /\ UNCHANGED <<caller, script, child, elapsed, readEnd, writeEnd, result,
                   forkFailed>>

Child == Exec \/ ExecFails \/ ScriptWrites \/ ScriptEnds \/ ServerLogs

TimePasses ==
    /\ caller = "wait"
    /\ ~elapsed
    /\ elapsed' = TRUE
    /\ UNCHANGED <<caller, script, child, wrote, pipe, readEnd, writeEnd,
                   result, forkFailed>>

CgiStep == Parent \/ Child \/ TimePasses
-----------------------------------------------------------------------------
(* Properties *)

CgiTypeOK ==
    /\ caller \in {"none", "wait", "kill", "read", "true", "false"}
    /\ script \in Script \cup {NoScript}
    /\ child \in {"none", "forked", "script", "server", "second", "ended"}
    /\ wrote \in Nat
    /\ pipe \in 0 .. PipeSize
    /\ elapsed \in BOOLEAN
    /\ readEnd \in BOOLEAN
    /\ writeEnd \in BOOLEAN
    /\ _py_body_response \in Nat
    /\ _inf_loop \in BOOLEAN
    /\ forkFailed \in BOOLEAN

\* What is answered as the output of a script is all that the child wrote up
\* to its end, although the pipe is smaller than what a script may write and
\* is read only afterwards.
OutputIsWhole == caller = "true" => _py_body_response = wrote

\* Outside executePythonScript no process that it forked runs, and neither end
\* of its pipe is open, however it returned: unless fork has failed, which leaves
\* both open.
NothingLeftRunning ==
    caller \notin {"wait", "kill", "read"} =>
        child = "none" /\ (readEnd \/ writeEnd => forkFailed)
=============================================================================
