---------------------------- MODULE WebservConfig ----------------------------
(***************************************************************************)
(* ConfigParser::parseConfigs: the configuration file, read line by line.  *)
(* Its blocks are given by the tabs a line begins with: a line with n tabs *)
(* leaves the contexts beyond the first n.                                 *)
(*                                                                         *)
(* A line is [tabs, key, value]; empty lines and comments are left out. A  *)
(* path is the sequence of the names between its slashes. The value of     *)
(* "port" and "max_body_size" is a number, or NotANumber, on which stoi    *)
(* throws; a line "404: page" has the key "page" and the value <<404, page>>*)
(* or, when its number is none of int, <<TooLarge, page>>.                 *)
(***************************************************************************)
EXTENDS Integers, Sequences, SequencesExt, FiniteSets

CONSTANTS ConfigFiles,   \* the files the program may be started with
          BUFFER_SIZE

ASSUME BufferAssumption == BUFFER_SIZE \in Nat
ASSUME ConfigFilesAssumption ==
    \A f \in DOMAIN ConfigFiles :
        /\ Len(ConfigFiles[f]) \in Nat
        /\ DOMAIN ConfigFiles[f] = 1 .. Len(ConfigFiles[f])
        /\ \A l \in 1 .. Len(ConfigFiles[f]) : ConfigFiles[f][l].tabs \in Nat

NotANumber == -1
TooLarge == -2
Empty == ""
EmptyPath == <<"">>

VARIABLES
    state,         \* "parsing", "serving", "stuck", or "ended" by an exception
    file,          \* which of them it is
    lineNumber,    \* the lines read
    contexts,      \* the blocks the last line was in, the innermost last
    in_server,
    serverConfig,  \* the server being read
    configs        \* the servers before it, or all of them

configVars ==
    <<state, file, lineNumber, contexts, in_server, serverConfig, configs>>

NewServer ==
    [server_name |-> Empty, port |-> 0, ip |-> Empty, max_body_size |-> 0,
     root |-> Empty, default_file |-> EmptyPath, error_pages |-> {},
     routes |-> <<>>]

\* directory_listing of a new route is not initialised.
NewRoute ==
    [path |-> EmptyPath, methods |-> {}, directory_listing |-> "uninitialised",
     redirection |-> EmptyPath]

ConfigInit ==
    /\ state = "parsing"
    /\ file \in DOMAIN ConfigFiles
    /\ lineNumber = 0
    /\ contexts = <<>>
    /\ in_server = FALSE
    /\ serverConfig = NewServer
    /\ configs = <<>>
-----------------------------------------------------------------------------
(* What a line is for *)

Lines == ConfigFiles[file]
Line == Lines[lineNumber + 1]

\* The contexts the line is in, and the innermost of them.
Popped == IF Line.tabs < Len(contexts) THEN SubSeq(contexts, 1, Line.tabs)
                                       ELSE contexts
currentContext == IF Popped = <<>> THEN Empty ELSE Last(Popped)

Blocks == {"location", "error_page"}
Methods == {"GET", "POST", "DELETE", "PUT"}

Opens == Line.key = "server" /\ Popped = <<>>
OpensBlock == Line.key \in Blocks /\ currentContext = "server"

\* What processServer takes without throwing, and processLocation.
Settles ==
    /\ currentContext = "server"
    /\ \/ Line.key \in {"server_name", "ip", "root"} /\ Line.value # Empty
       \/ Line.key = "default_file" /\ Line.value # EmptyPath
       \/ Line.key = "port" /\ Line.value # NotANumber
       \/ Line.key = "max_body_size" /\ Line.value \in 0 .. BUFFER_SIZE

SettlesRoute ==
    /\ currentContext = "location"
    /\ \/ Line.key = "methods" /\ Line.value \subseteq Methods
       \/ Line.key \in {"directory_listing", "path", "redirect", "root"}

\* A line of an error_page block that begins with no number is skipped: of what
\* stoi throws, only invalid_argument is caught.
SettlesPage ==
    /\ currentContext = "error_page"
    /\ Line.key \notin Blocks \cup {"server"}
    /\ Line.key = "page" => Line.value[1] # TooLarge

Reading == state = "parsing" /\ lineNumber < Len(Lines)
-----------------------------------------------------------------------------
\* Mutant of ReadServer: the next server starts from the one before it.
ReadServerKept ==
    /\ Reading
    /\ Opens
    /\ lineNumber' = lineNumber + 1
    /\ contexts' = <<"server">>
    /\ in_server' = TRUE
    /\ configs' = IF in_server THEN Append(configs, serverConfig) ELSE configs
    /\ UNCHANGED <<state, file, serverConfig>>

\* The server before this one is pushed; nothing has validated it.
ReadServer ==
    /\ Reading
    /\ Opens
    /\ lineNumber' = lineNumber + 1
    /\ contexts' = <<"server">>
    /\ in_server' = TRUE
    /\ configs' = IF in_server THEN Append(configs, serverConfig) ELSE configs
    /\ serverConfig' = IF in_server THEN NewServer ELSE serverConfig
    /\ UNCHANGED <<state, file>>

ReadBlock ==
    /\ Reading
    /\ OpensBlock
    /\ lineNumber' = lineNumber + 1
    /\ contexts' = Append(Popped, Line.key)
    /\ serverConfig' =
          IF Line.key = "location"
          THEN [serverConfig EXCEPT !.routes = Append(@, NewRoute)]
          ELSE serverConfig
    /\ UNCHANGED <<state, file, in_server, configs>>

\* A location's settings. A value of directory_listing other than on and off is
\* ignored, methods add to those of an earlier line, and nothing reads its root.
RouteWith(route, key, value) ==
    CASE key = "path" -> [route EXCEPT !.path = value]
      [] key = "redirect" -> [route EXCEPT !.redirection = value]
      [] key = "methods" -> [route EXCEPT !.methods = @ \cup value]
      [] key = "root" -> route
      [] key = "directory_listing" ->
            [route EXCEPT !.directory_listing =
                IF value \in {"on", "off"} THEN value ELSE @]

ReadSetting ==
    /\ Reading
    /\ lineNumber' = lineNumber + 1
    /\ contexts' = Popped
    /\ \/ /\ Settles
          /\ serverConfig' = [serverConfig EXCEPT ![Line.key] = Line.value]
       \/ /\ SettlesRoute
          /\ serverConfig' =
                [serverConfig EXCEPT !.routes[Len(serverConfig.routes)] =
                    RouteWith(@, Line.key, Line.value)]
       \/ /\ SettlesPage
          /\ serverConfig' =
                IF Line.key = "page"
                THEN [serverConfig EXCEPT !.error_pages =
                        {page \in @ : page[1] # Line.value[1]} \cup {Line.value}]
                ELSE serverConfig
    /\ UNCHANGED <<state, file, in_server, configs>>

\* Everything else throws, and main returns.
Reject ==
    /\ Reading
    /\ ~(Opens \/ OpensBlock \/ Settles \/ SettlesRoute \/ SettlesPage)
    /\ state' = "ended"
    /\ UNCHANGED <<file, lineNumber, contexts, in_server, serverConfig, configs>>

CheckForMinimumConfig(s) ==
    /\ s.ip # Empty
    /\ s.port # 0
    /\ s.root # Empty
    /\ s.default_file # EmptyPath
    /\ s.server_name # Empty
    /\ s.max_body_size # 0

Duplicates(servers) ==
    \E j, k \in DOMAIN servers :
        /\ j # k
        /\ servers[j].ip = servers[k].ip
        /\ servers[j].port = servers[k].port

\* Only the last server is checked.
EndOfFile ==
    /\ state = "parsing"
    /\ lineNumber = Len(Lines)
    /\ configs' = Append(configs, serverConfig)
    /\ state' = IF CheckForMinimumConfig(serverConfig) /\ ~Duplicates(configs')
                THEN "serving" ELSE "ended"
    /\ UNCHANGED <<file, lineNumber, contexts, in_server, serverConfig>>

Parse == ReadServer \/ ReadBlock \/ ReadSetting \/ Reject \/ EndOfFile
-----------------------------------------------------------------------------
(* Properties *)

ConfigTypeOK ==
    /\ state \in {"parsing", "serving", "stuck", "ended"}
    /\ file \in DOMAIN ConfigFiles
    /\ lineNumber \in 0 .. Len(Lines)
    /\ contexts \in {<<>>, <<"server">>} \cup {<<"server", b>> : b \in Blocks}
    /\ in_server \in BOOLEAN
    /\ in_server => contexts # <<>>
    /\ DOMAIN serverConfig = DOMAIN NewServer
    /\ \A k \in DOMAIN configs : DOMAIN configs[k] = DOMAIN NewServer

\* The lines after the k-th "server" line and before the next one.
ServerLines == {j \in DOMAIN Lines : Lines[j].key = "server"}
BlockOf(k) ==
    {j \in DOMAIN Lines \ ServerLines :
        Cardinality({h \in ServerLines : h < j}) = k}

\* What a server may be: its settings are of lines in its block, or as they were
\* when it was new, and its locations are those of the block.
ComesFrom(server, block) ==
    /\ \A key \in DOMAIN NewServer \ {"error_pages", "routes"} :
          \/ server[key] = NewServer[key]
          \/ \E j \in block : Lines[j].key = key /\ Lines[j].value = server[key]
    /\ Len(server.routes) =
          Cardinality({j \in block : Lines[j].key = "location"})

StartsFromBlocks ==
    state = "parsing" /\ state' = "serving" =>
        /\ Len(configs') = Cardinality(ServerLines)
        /\ \A k \in DOMAIN configs' : ComesFrom(configs'[k], BlockOf(k))

\* When the servers start, they are those of the file; the settings of each are
\* of lines in its own block, and it has as many locations as the block (its
\* error pages and what is in the locations are not compared): nothing of a server
\* is left in the next one, whatever the indentation has closed and opened.
ServersFollowBlocks == [][StartsFromBlocks]_configVars
=============================================================================
