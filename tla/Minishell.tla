------------------------------ MODULE Minishell ------------------------------
(***************************************************************************)
(* minishell: a line is a list of segments joined by |, || or &&. They are *)
(* run one after the other: the shell waits for the child of each before   *)
(* it starts the next, and between them its own standard input and output  *)
(* are what the children inherit.                                          *)
(*                                                                         *)
(* A segment is chosen when the shell gets to it. Expansion, and $? with   *)
(* it, and redirections after a here-document are left out. A descriptor   *)
(* that was never set is closed or is the terminal.                        *)
(***************************************************************************)
EXTENDS MinishellEnv, FiniteSets

CONSTANTS
    Segments,      \* what a segment can be
    MaxSegments    \* bound: the segments of a line

ASSUME MaxSegmentsAssumption == MaxSegments \in Nat \ {0}

Command ==
    {"cat", "program", "missing", "echo", "export", "unset", "cd", "exit", "exit 1 2",
     "none"}    \* a segment of redirections only, or empty

Builtin1 == {"echo", "export", "unset"}
Builtin2 == {"cd", "exit", "exit 1 2"}
External == {"cat", "program"}

Separator == {"|", "||", "&&", "end"}

\* in and out are redirections, here a here-document.
Segment ==
    {s \in [cmd : Command, arg : Argument, in : BOOLEAN, out : BOOLEAN,
            here : BOOLEAN, sep : Separator] :
        /\ s.cmd \notin {"export", "unset"} => s.arg = NoArgument
        /\ s.here => s.cmd \in External /\ ~s.in /\ ~s.out}

ASSUME SegmentsAssumption == Segments \subseteq Segment

\* Where a descriptor leads.
Terminal == <<"terminal", 0>>
DevNull == <<"null", 0>>
Closed == <<"closed", 0>>
File(k) == <<"file", k>>
Pipe(k) == <<"pipe", k>>
HereFile == <<"here", 0>>

NoChild == [cmd |-> "none"]

VARIABLES
    env,         \* env_dup
    pc,          \* "prompt", "loop", "phase_enter", "phase_check", "fork",
                 \* "waitpid", "wait", "minishell_end", "exited" or "crashed"
    fd0, fd1,    \* the standard input and output of the shell
    input, output,
    k, segment,  \* the number of the segment, and the segment
    redirected,  \* in_out_acc # 0
    pip,
    pipes,       \* [latest, open]: the segment that made the pipe, and whether
                 \* the shell still holds its write end
    or, err,
    cat, cat_nb,
    exits,       \* the first word of the line is exit
    child,       \* [cmd, in, out, blocked]
    status,      \* what waitpid is to say of it
    previous     \* history: [sep, ran, err, piped] of the segment before, and
                 \* whether one before left a stream redirected, or a here-document

descriptors == <<fd0, fd1, input, output>>
vars == <<env, pc, descriptors, k, segment, redirected, pip, pipes, or, err,
          cat, cat_nb, exits, child, status, previous>>

NoSegment == [cmd |-> "none", arg |-> NoArgument, in |-> FALSE, out |-> FALSE,
              here |-> FALSE, sep |-> "end"]
NoPrevious == [sep |-> "none", ran |-> FALSE, err |-> 0, piped |-> FALSE, stray |-> FALSE]

Redirect(old, new) == IF new = Closed THEN old ELSE new

Init ==
    /\ env \in UNION {[1 .. n -> Variable] : n \in 0 .. 1}
    /\ \A n \in DOMAIN env : env[n].key # BadKey /\ env[n].value # Null
    /\ pc = "prompt"
    /\ fd0 = Terminal /\ fd1 = Terminal
    /\ input \in {Closed, Terminal}
    /\ output \in {Closed, Terminal}
    /\ k = 0
    /\ segment = NoSegment
    /\ redirected = FALSE
    /\ pip = 0
    /\ pipes = [latest |-> 0, open |-> FALSE]
    /\ or = 0 /\ err = 0
    /\ cat = 0 /\ cat_nb = 0
    /\ exits = FALSE
    /\ child = NoChild
    /\ status = 0
    /\ previous = NoPrevious
-----------------------------------------------------------------------------
(* A line *)

\* The end of the input.
EndOfInput ==
    /\ pc = "prompt"
    /\ pc' = "exited"
    /\ UNCHANGED <<env, descriptors, k, segment, redirected, pip, pipes, or, err,
                   cat, cat_nb, exits, child, status, previous>>

\* A line that is empty, or begins or ends with a separator, is not run.
Line ==
    /\ pc = "prompt"
    /\ exits' \in BOOLEAN
    /\ pc' = "loop"
    /\ UNCHANGED <<env, descriptors, k, segment, redirected, pip, pipes, or, err,
                   cat, cat_nb, child, status, previous>>

\* Leading cats that would read the terminal are not run: minishell_end reads a
\* line for each.
SkipsCat(s) ==
    s.cmd = "cat" /\ ~s.in /\ ~s.out /\ s.sep = "|" /\ cat # 2 /\ (k = 0 \/ cat = 1)

\* A line does not end with a separator, and does not begin with one, or with
\* a redirection and nothing else.
Possible(s) ==
    IF k = 0 THEN (s.in \/ s.out) /\ (s.sep = "end" => s.in /\ s.out)
             ELSE s.sep = "end" => s.in \/ s.out

\* init_vars_inloop, and what the shell does before it looks at the command:
\* the redirections are its own. One that cannot be opened leaves the stream
\* where it led.
NextSegment ==
    /\ pc = "loop"
    /\ \E s \in Segments :
          /\ ~s.here
          /\ k = MaxSegments - 1 => s.sep = "end"
          /\ k = 0 => (exits <=> s.cmd \in {"exit", "exit 1 2"})
          /\ s.cmd = "none" => Possible(s)
          /\ segment' = s
          /\ k' = k + 1
          /\ IF SkipsCat(s)
             THEN /\ cat' = 1
                  /\ cat_nb' = cat_nb + 1
                  /\ err' = IF exits THEN err ELSE 0
                  /\ redirected' = FALSE
                  /\ previous' = [NoPrevious EXCEPT !.sep = "|", !.stray = previous.stray]
                  /\ UNCHANGED <<pc, descriptors>>
             ELSE /\ cat' = IF cat # 1 /\ k > 0 THEN cat ELSE 2
                  /\ pc' = "phase_enter"
                  /\ redirected' = (s.in \/ s.out)
                  /\ \E file \in IF s.in THEN {File(k + 1), Closed} ELSE {input} :
                        /\ input' = file
                        /\ fd0' = IF s.in THEN Redirect(fd0, file) ELSE fd0
                  /\ \E file \in IF s.out THEN {File(k + 1), Closed} ELSE {output} :
                        /\ output' = file
                        /\ fd1' = IF s.out THEN Redirect(fd1, file) ELSE fd1
                  /\ err' = IF (s.in /\ input' = Closed) \/ (s.out /\ output' = Closed)
                            THEN 1
                            ELSE IF exits THEN err ELSE 0
                  /\ UNCHANGED <<cat_nb, previous>>
    /\ UNCHANGED <<env, pip, pipes, or, exits, child, status>>

\* A here-document: its command reads a file, and writes to a pipe if there is
\* one before or after it. or is decided before it runs.
HereDocument ==
    /\ pc = "loop"
    /\ \E s \in Segments :
          /\ s.here
          /\ k = MaxSegments - 1 => s.sep = "end"
          /\ k = 0 => ~exits
          /\ segment' = s
          /\ k' = k + 1
          /\ err' = IF exits THEN err ELSE 0
          /\ or' = IF s.sep = "||" /\ err' = 0 THEN 1 ELSE or
          /\ pip' = IF s.sep = "|" THEN 1 ELSE pip
          /\ input' = HereFile
          /\ fd1' = Redirect(fd1, output)
          /\ child' = [cmd |-> s.cmd, in |-> HereFile, blocked |-> FALSE,
                       out |-> IF pip' = 1 THEN Pipe(k + 1) ELSE fd1']
          /\ IF pip' = 1
             THEN fd0' = Pipe(k + 1) /\ pipes' = [latest |-> k + 1, open |-> FALSE]
             ELSE fd0' = HereFile /\ UNCHANGED pipes
    /\ pc' = "wait"
    /\ redirected' = FALSE
    /\ UNCHANGED <<env, output, cat, cat_nb, exits, status, previous>>

\* Its status is not kept, and the streams stay as they are.
HereDocumentEnds ==
    /\ pc = "wait"
    /\ child = NoChild
    /\ pc' = IF segment.sep = "end" THEN "minishell_end" ELSE "loop"
    /\ previous' = [NoPrevious EXCEPT !.sep = segment.sep, !.stray = TRUE]
    /\ UNCHANGED <<env, descriptors, k, segment, redirected, pip, pipes, or, err,
                   cat, cat_nb, exits, child, status>>
-----------------------------------------------------------------------------
(* The phases of a segment *)

AfterSegment == IF segment.sep = "end" THEN "minishell_end" ELSE "loop"

\* Mutant of Skip: or stays.
SkipAll ==
    /\ pc = "phase_enter"
    /\ or = 1
    /\ pc' = AfterSegment
    /\ previous' = [sep |-> segment.sep, ran |-> FALSE, err |-> err, piped |-> FALSE,
                    stray |-> previous.stray \/ redirected]
    /\ UNCHANGED <<env, descriptors, k, segment, redirected, pip, pipes, or, err, cat,
                   cat_nb, exits, child, status>>

\* One segment is skipped; what it redirected stays so.
Skip ==
    /\ pc = "phase_enter"
    /\ or = 1
    /\ or' = 0
    /\ pc' = AfterSegment
    /\ previous' = [sep |-> segment.sep, ran |-> FALSE, err |-> err, piped |-> FALSE,
                    stray |-> previous.stray \/ redirected]
    /\ UNCHANGED <<env, descriptors, k, segment, redirected, pip, pipes, err, cat,
                   cat_nb, exits, child, status>>

Enter ==
    /\ pc = "phase_enter"
    /\ or = 0
    /\ pc' = IF segment.cmd = "none" THEN "crashed" ELSE "phase_check"
    /\ UNCHANGED <<env, descriptors, k, segment, redirected, pip, pipes, or, err,
                   cat, cat_nb, exits, child, status, previous>>

\* What a built-in command does to the variables and to err.
exec_builtin ==
    LET arg == segment.arg
    IN  CASE segment.cmd = "export" ->
                env' = mini_export(env, arg) /\ err' = export_err(env, err, arg)
          [] segment.cmd = "unset" ->
                env' = mini_unset(env, arg.key) /\ UNCHANGED err
          [] segment.cmd = "cd" ->
                \/ err' = 1 /\ UNCHANGED env
                \/ /\ UNCHANGED err
                   /\ \E value \in [Directory -> Value] : env' = set_dir(env, value)
          [] segment.cmd = "exit 1 2" -> err' = 1 /\ UNCHANGED env
          [] OTHER -> UNCHANGED <<env, err>>

\* Mutant of phase_check: only the first of a pipeline makes a pipe.
phase_checkOnePipe ==
    /\ pc = "phase_check"
    /\ segment.cmd # "exit"
    /\ exec_builtin
    /\ fd1' = IF segment.cmd \notin Builtin1 THEN fd1
              ELSE IF ~redirected THEN Terminal
              ELSE Redirect(DevNull, output)
    /\ IF segment.sep = "|" /\ pip = 0
       THEN /\ pipes' = [latest |-> k, open |-> TRUE]
            /\ pip' = 1
       ELSE UNCHANGED <<pipes, pip>>
    /\ pc' = "fork"
    /\ UNCHANGED <<fd0, input, output, k, segment, redirected, or, cat,
                   cat_nb, exits, child, status, previous>>

\* Built-ins of the first kind are run here with their output discarded, and
\* again by the child.
phase_check ==
    /\ pc = "phase_check"
    /\ segment.cmd # "exit"
    /\ exec_builtin
    /\ fd1' = IF segment.cmd \notin Builtin1 THEN fd1
              ELSE IF ~redirected THEN Terminal
              ELSE Redirect(DevNull, output)
    /\ IF segment.sep = "|"
       THEN /\ pipes' = [latest |-> k, open |-> TRUE]
            /\ pip' = 1
       ELSE UNCHANGED <<pipes, pip>>
    /\ pc' = "fork"
    /\ UNCHANGED <<fd0, input, output, k, segment, redirected, or, cat,
                   cat_nb, exits, child, status, previous>>

\* exit is run by the shell, in a pipeline too.
Exit ==
    /\ pc = "phase_check"
    /\ segment.cmd = "exit"
    /\ pc' = "exited"
    /\ UNCHANGED <<env, descriptors, k, segment, redirected, pip, pipes, or, err,
                   cat, cat_nb, exits, child, status, previous>>

\* Removing the first of several variables reads it after it was freed; so does
\* cd the directory it came from.
ReadFreed ==
    /\ pc = "phase_check"
    /\ \/ segment.cmd = "unset" /\ ReadsFreed(env, segment.arg.key)
       \/ segment.cmd = "cd" /\ ReadsOldpwd(env)
    /\ pc' = "crashed"
    /\ UNCHANGED <<env, descriptors, k, segment, redirected, pip, pipes, or, err,
                   cat, cat_nb, exits, child, status, previous>>

\* Mutant of fork: the shell keeps the write end.
forkKeeps ==
    /\ pc = "fork"
    /\ child' = [cmd |-> segment.cmd,
                 in |-> fd0,
                 out |-> IF pip = 1 /\ ~redirected /\ pipes.open THEN Pipe(pipes.latest)
                         ELSE fd1,
                 blocked |-> FALSE]
    /\ IF pip = 1
       THEN fd0' = Pipe(pipes.latest) /\ UNCHANGED pipes
       ELSE UNCHANGED <<fd0, pipes>>
    /\ pc' = "waitpid"
    /\ UNCHANGED <<env, fd1, input, output, k, segment, redirected, pip, or, err,
                   cat, cat_nb, exits, status, previous>>

\* The child takes the write end of the pipe, if it is still open; the shell
\* the read end, although it may be that of an earlier pipe.
fork ==
    /\ pc = "fork"
    /\ child' = [cmd |-> segment.cmd,
                 in |-> fd0,
                 out |-> IF pip = 1 /\ ~redirected /\ pipes.open THEN Pipe(pipes.latest)
                         ELSE fd1,
                 blocked |-> FALSE]
    /\ IF pip = 1
       THEN /\ fd0' = Pipe(pipes.latest)
            /\ pipes' = [pipes EXCEPT !.open = FALSE]
       ELSE UNCHANGED <<fd0, pipes>>
    /\ pc' = "waitpid"
    /\ UNCHANGED <<env, fd1, input, output, k, segment, redirected, pip, or, err,
                   cat, cat_nb, exits, status, previous>>

IsPipe(fd) == fd[1] = "pipe"

\* The command writes more than a pipe holds: nobody reads it yet.
ChildBlocks ==
    /\ child # NoChild
    /\ child.cmd \in External
    /\ IsPipe(child.out)
    /\ child' = [child EXCEPT !.blocked = TRUE]
    /\ UNCHANGED <<env, pc, descriptors, k, segment, redirected, pip, pipes, or, err,
                   cat, cat_nb, exits, status, previous>>

\* A command that reads a pipe gets to its end if nobody can write to it.
ChildEnds ==
    /\ child # NoChild
    /\ ~child.blocked
    /\ child.cmd \in External /\ IsPipe(child.in) =>
          ~ (pipes.open /\ child.in = Pipe(pipes.latest))
    /\ status' \in IF child.cmd \in External THEN {0, 1} ELSE {err}
    /\ child' = NoChild
    /\ UNCHANGED <<env, pc, descriptors, k, segment, redirected, pip, pipes, or, err,
                   cat, cat_nb, exits, previous>>

\* SIGINT or SIGQUIT from the terminal kills a program, which counts as
\* success. The shell itself only writes to the terminal.
Signal ==
    /\ child # NoChild
    /\ child.cmd \in External
    /\ child' = NoChild
    /\ status' = 0
    /\ UNCHANGED <<env, pc, descriptors, k, segment, redirected, pip, pipes, or, err,
                   cat, cat_nb, exits, previous>>

\* Mutant of phase_end: the streams are restored after a | too.
phase_endRestores ==
    /\ pc = "waitpid"
    /\ child = NoChild
    /\ err' = IF segment.cmd = "missing" THEN 127 ELSE status
    /\ or' = IF segment.sep = "||" /\ err' = 0 THEN 1 ELSE or
    /\ fd0' = Terminal /\ fd1' = Terminal
    /\ pc' = AfterSegment
    /\ previous' = [sep |-> segment.sep, ran |-> TRUE, err |-> err',
                    piped |-> segment.sep = "|" /\ ~redirected,
                    stray |-> segment.sep = "|" /\ (redirected \/ previous.stray)]
    /\ UNCHANGED <<env, input, output, k, segment, redirected, pip, pipes, cat,
                   cat_nb, exits, child, status>>

\* After a | the streams stay as they are for the next segment.
phase_end ==
    /\ pc = "waitpid"
    /\ child = NoChild
    /\ err' = IF segment.cmd = "missing" THEN 127 ELSE status
    /\ or' = IF segment.sep = "||" /\ err' = 0 THEN 1 ELSE or
    /\ IF segment.sep = "|"
       THEN UNCHANGED <<fd0, fd1>>
       ELSE fd0' = Terminal /\ fd1' = Terminal
    /\ pc' = AfterSegment
    /\ previous' = [sep |-> segment.sep, ran |-> TRUE, err |-> err',
                    piped |-> segment.sep = "|" /\ ~redirected,
                    stray |-> segment.sep = "|" /\ (redirected \/ previous.stray)]
    /\ UNCHANGED <<env, input, output, k, segment, redirected, pip, pipes, cat,
                   cat_nb, exits, child, status>>

\* The line's end, and init_vars for the next.
minishell_end ==
    /\ pc = "minishell_end"
    /\ fd0' = Terminal /\ fd1' = Terminal
    /\ input' = IF input = Closed THEN Closed ELSE Terminal
    /\ output' = IF output = Closed THEN Closed ELSE Terminal
    /\ k' = 0 /\ segment' = NoSegment
    /\ redirected' = FALSE
    /\ pip' = 0
    /\ or' = 0
    /\ cat' = 0 /\ cat_nb' = 0
    /\ pipes' = [latest |-> 0, open |-> FALSE]
    /\ exits' = FALSE
    /\ status' = 0
    /\ previous' = NoPrevious
    /\ pc' = "prompt"
    /\ UNCHANGED <<env, err, child>>
-----------------------------------------------------------------------------
Shell ==
    \/ NextSegment \/ HereDocument \/ HereDocumentEnds
    \/ Skip \/ Enter \/ phase_check \/ Exit \/ ReadFreed
    \/ fork \/ phase_end \/ minishell_end

Next ==
    \/ EndOfInput \/ Line
    \/ Shell
    \/ ChildBlocks \/ ChildEnds
    \/ Signal

Spec == Init /\ [][Next]_vars

\* The shell goes on while it can, the programs it runs end, and who typed a line
\* types what it then asks for: a here-document, a line for each cat it did not
\* run. Nobody has to type another line, or to send a signal.
FairSpec == Spec /\ WF_vars(Shell) /\ WF_vars(ChildEnds)
-----------------------------------------------------------------------------
(* Properties *)

Streams == {Terminal, DevNull, HereFile} \cup {File(n) : n \in 1 .. MaxSegments}
               \cup {Pipe(n) : n \in 1 .. MaxSegments}

TypeOK ==
    /\ env \in Seq(Variable)
    /\ pc \in {"prompt", "loop", "phase_enter", "phase_check", "fork", "waitpid",
              "wait", "minishell_end", "exited", "crashed"}
    /\ fd0 \in Streams /\ fd1 \in Streams
    /\ {input, output} \subseteq Streams \cup {Closed}
    /\ k \in 0 .. MaxSegments
    /\ segment \in Segment
    /\ redirected \in BOOLEAN /\ exits \in BOOLEAN
    /\ pip \in {0, 1} /\ or \in {0, 1}
    /\ pipes \in [latest : 0 .. MaxSegments, open : BOOLEAN]
    /\ err \in {0, 1, 127}
    /\ cat \in 0 .. 2 /\ cat_nb \in 0 .. MaxSegments
    /\ \/ child = NoChild
       \/ child \in [cmd : Command, in : Streams, out : Streams, blocked : BOOLEAN]
    /\ status \in {0, 1, 127}
    /\ previous \in [sep : Separator \cup {"none"}, ran : BOOLEAN, err : {0, 1, 127},
                     piped : BOOLEAN, stray : BOOLEAN]

Running == pc = "waitpid" /\ child # NoChild

\* What a command reads is its own redirection, or the output of the segment
\* before a |, or the terminal: unless a redirection before a | or of a skipped
\* segment, or a here-document, has left the shell's own streams elsewhere.
ReadsFromPrevious ==
    Running /\ ~previous.stray =>
        child.in = IF segment.in /\ input # Closed THEN File(k)
                   ELSE IF previous.piped THEN Pipe(k - 1)
                   ELSE Terminal

\* What it writes goes to its own redirection, if it could be opened, or into
\* the pipe that the next segment reads, or to the terminal. (With a redirection
\* of the input, or one that could not be opened, it does not go into the pipe,
\* but where the shell itself writes; a built-in's then to /dev/null.)
WritesToNext ==
    Running /\ ~previous.stray =>
        /\ segment.out /\ output # Closed => child.out = File(k)
        /\ ~redirected => child.out = IF segment.sep = "|" THEN Pipe(k) ELSE Terminal

\* A segment is skipped only if the one before its || was run, and succeeded.
OrIsAboutPrevious ==
    pc = "phase_enter" /\ ~previous.stray =>
        (or = 1 <=> previous.sep = "||" /\ previous.ran /\ previous.err = 0)

\* No key is there twice, whatever was exported and unset.
KeysUnique == \A m, n \in DOMAIN env : m # n => env[m].key # env[n].key

\* export gives a variable its value or refuses it (a name with a character that
\* is neither letter nor digit needs a sign =), unset leaves none to be found, cd
\* defines none and writes its own two at most, and the others keep theirs.
ExportAndUnset ==
    [][pc = "phase_check" /\ pc' = "fork" =>
          LET arg == segment.arg
              cmd == segment.cmd
          IN  /\ cmd = "unset" => ~Defined(env', arg.key)
              /\ cmd = "export" =>
                    IF Refused(env, arg) THEN env' = env /\ err' = 1
                    ELSE /\ Defined(env', arg.key)
                         /\ arg.equals => get_value(env', arg.key) = arg.value
              /\ \A key \in Key : cmd \notin {"export", "unset"} \/ key # arg.key =>
                    /\ Defined(env', key) <=> Defined(env, key)
                    /\ cmd # "cd" \/ key \notin Directory =>
                          get_value(env', key) = get_value(env, key)]_vars

\* A line is done with in the end, if no command fills a pipe that nobody reads
\* yet: the shell waits for each before it starts the next.
LineEnds ==
    pc = "loop" ~> \/ pc \in {"prompt", "exited", "crashed"}
                   \/ child # NoChild /\ child.blocked
=============================================================================
