----------------------------- MODULE MCMinishell -----------------------------
EXTENDS Minishell

Redirected(cmds, ins, outs, seps) ==
    [cmd : cmds, arg : {NoArgument}, in : ins, out : outs, here : {FALSE}, sep : seps]

\* A, A= and A=v for export, A for unset.
Arguments == [key : Key, value : {Null}, equals : BOOLEAN]
                 \cup [key : Key, value : {"v"}, equals : {TRUE}]
ArgumentsOf(cmd) == IF cmd = "export" THEN Arguments
                                      ELSE [key : Key, value : {Null}, equals : {FALSE}]

\* A program with every redirection and separator; the others with those that
\* change what they do.
MCSegments ==
    UNION {Redirected({"program"}, BOOLEAN, BOOLEAN, Separator),
           Redirected({"echo"}, {FALSE}, BOOLEAN, {"|", "end"}),
           Redirected({"cat"}, BOOLEAN, {FALSE}, {"|", "end"}),
           Redirected({"none"}, {TRUE}, BOOLEAN, {"end"}),
           Redirected({"missing"}, {FALSE}, {FALSE}, {"|", "||", "&&"}),
           Redirected({"cd", "exit", "exit 1 2"}, {FALSE}, {FALSE}, {"|", "end"}),
           [cmd : {"program"}, arg : {NoArgument}, in : {FALSE}, out : {FALSE},
            here : {TRUE}, sep : Separator],
           UNION {[cmd : {cmd}, arg : ArgumentsOf(cmd), in : {FALSE}, out : {FALSE},
                   here : {FALSE}, sep : {"end"}] : cmd \in {"export", "unset"}}}
=============================================================================
