---------------------------- MODULE WebservRequest ----------------------------
(***************************************************************************)
(* A request, from the bytes of one recv to its response: parseRequest,    *)
(* checkRequest and prepareResponse, with the CGI of WebservCgi and the    *)
(* servers of WebservConfig. The event loop around it is WebservLoop; here *)
(* requests arrive whole and are read one after the other.                 *)
(*                                                                         *)
(* A request is a record of what the code looks at:                        *)
(*   server      the listening socket it came through                      *)
(*   framed      it contains HTTP/1.1 and an empty line                    *)
(*   emptyLast   its last header ends with the colon                       *)
(*   method, path, version, host, port     (the path as it was sent)       *)
(*   body        its length                                                *)
(*   upload      the body is multipart data with a file's content          *)
(***************************************************************************)
EXTENDS WebservConfig, WebservCgi, FiniteSets

CONSTANTS Request,      \* the requests clients may send
          MaxRequests,  \* bound: so many of them, and only where the servers
          ServedFiles,  \* were read from one of these files
          Dir,          \* the directories of the disk, as <<root, path>>
          FirstFile,    \* the files it holds at the start, likewise
          Named         \* the names with a dot in them

ASSUME ScriptsAreNamed == Script \subseteq Named
ASSUME RequestAssumption == \A r \in Request : r.body \in Nat

VARIABLES
    files,     \* the files on the disk
    asked,     \* the requests, in the order of their arrival
    wire,      \* the numbers of those no server has read yet
    answers,   \* what was sent for each
    current,   \* the last request a script was run for, or 0
    _status_code,   \* its status so far
    taken,     \* history: the requests read by a second server
    unexecuted \* history: those whose script execve did not start

vars == <<configVars, cgiVars, files, asked, wire, answers, current,
          _status_code, taken, unexecuted>>

NoPort == 80
NotAPort == -1
UploadRoot == "website0"
UploadPath == <<"", "uploads">>
Root == <<"", "">>

Init ==
    /\ ConfigInit
    /\ CgiInit
    /\ files = FirstFile
    /\ asked = <<>>
    /\ wire = <<>>
    /\ answers = <<>>
    /\ current = 0
    /\ _status_code = 0
    /\ taken = {}
    /\ unexecuted = {}
-----------------------------------------------------------------------------
(* parseRequest *)

ServerOf(r) == configs[r.server]

\* A slash at the end is cut off: the path of "/" is empty.
PathOf(r) == IF Len(r.path) > 1 /\ Last(r.path) = "" THEN Front(r.path)
                                                     ELSE r.path

HostMatches(r) == r.host \in {ServerOf(r).server_name, ServerOf(r).ip}

\* substr throws on a header that ends with its colon; stoul on a port that is
\* no number, which is looked at only when the host is this server's.
Throws(r) == r.emptyLast \/ (HostMatches(r) /\ r.port = NotAPort)

(* checkRequest *)

check_host_port(r) == HostMatches(r) /\ r.port = ServerOf(r).port

\* The paths getLocation compares with those of the routes, "/" excepted: it
\* cuts the path at its last slash. A path without one is cut no further.
Tried(path) ==
    LET shortest == IF path[1] = "" /\ Len(path) > 1 THEN 2 ELSE 1
    IN  {SubSeq(path, 1, k) : k \in shortest .. Len(path)}

RoutesTo(s, paths) == {j \in DOMAIN s.routes : s.routes[j].path \in paths}
First(indices) == CHOOSE j \in indices : \A k \in indices : j <= k

\* The first route for the longest of the paths that has one; 0 is the code's
\* -1.
getLocation(s, path) ==
    LET found == RoutesTo(s, Tried(path))
        longest == {j \in found :
                       \A k \in found : Len(s.routes[k].path) <= Len(s.routes[j].path)}
    IN  IF found # {} THEN First(longest)
        ELSE IF RoutesTo(s, {Root}) # {} THEN First(RoutesTo(s, {Root}))
        ELSE 0

\* getRoute compares the path as a whole; checkRedirection takes the empty path
\* for "/".
Redirection(s, path) ==
    LET routes == RoutesTo(s, {IF path = EmptyPath THEN Root ELSE path})
    IN  IF routes = {} THEN EmptyPath ELSE s.routes[First(routes)].redirection

isFile(path) == Last(path) \in Named
Exists(s, path) ==
    <<s.root, path>> \in IF isFile(path) THEN files ELSE files \cup Dir

\* Mutant of checkRequest: the redirection is looked up before the method.
checkRequestRedirected(r) ==
    LET s == ServerOf(r)
        path == PathOf(r)
        code == IF ~check_host_port(r) THEN 404
                ELSE IF r.body > s.max_body_size THEN 413
                ELSE IF getLocation(s, path) = 0 THEN 400
                ELSE IF Redirection(s, path) # EmptyPath THEN 301
                ELSE IF r.method \notin s.routes[getLocation(s, path)].methods
                     THEN 405
                ELSE IF Exists(s, path) THEN 200 ELSE 404
    IN  [code |-> code,
         path |-> IF code = 301 THEN Redirection(s, path) ELSE path]

\* The 505 that checkHttpVersion asks for is not returned: every branch of the
\* chain after it sets the status again.
checkRequest(r) ==
    LET s == ServerOf(r)
        path == PathOf(r)
        code == IF ~check_host_port(r) THEN 404
                ELSE IF r.body > s.max_body_size THEN 413
                ELSE IF getLocation(s, path) = 0 THEN 400
                ELSE IF r.method \notin s.routes[getLocation(s, path)].methods
                     THEN 405
                ELSE IF Redirection(s, path) # EmptyPath THEN 301
                ELSE IF Exists(s, path) THEN 200 ELSE 404
    IN  [code |-> code,
         path |-> IF code = 301 THEN Redirection(s, path) ELSE path]

\* getLocation never comes to "/" from a path that does not begin with one.
SearchLoops(r) ==
    /\ check_host_port(r)
    /\ r.body <= ServerOf(r).max_body_size
    /\ PathOf(r)[1] # ""
    /\ RoutesTo(ServerOf(r), Tried(PathOf(r))) = {}
-----------------------------------------------------------------------------
(* Reading a request *)

number == Head(wire)
request == asked[number]
verdict == checkRequest(request)
server == ServerOf(request)

Receives ==
    /\ state = "serving"
    /\ caller = "none"
    /\ wire # <<>>

Answer(n, status, body) ==
    answers' = [answers EXCEPT ![n] =
                   Append(@, [status |-> status, body |-> body])]

\* recvs_request sends the rescue response when parseRequest returns false.
HandleUnframed ==
    /\ Receives
    /\ ~request.framed
    /\ wire' = Tail(wire)
    /\ Answer(number, 500, "page")
    /\ UNCHANGED <<configVars, cgiVars, files, asked, current, _status_code,
                   taken, unexecuted>>

\* Nothing catches an exception before main, where it ends the server.
HandleThrows ==
    /\ Receives
    /\ request.framed
    /\ Throws(request)
    /\ wire' = Tail(wire)
    /\ state' = "ended"
    /\ UNCHANGED <<file, lineNumber, contexts, in_server, serverConfig, configs,
                   cgiVars, files, asked, answers, current, _status_code, taken,
                   unexecuted>>

HandleLoops ==
    /\ Receives
    /\ request.framed
    /\ ~Throws(request)
    /\ SearchLoops(request)
    /\ wire' = Tail(wire)
    /\ state' = "stuck"
    /\ UNCHANGED <<file, lineNumber, contexts, in_server, serverConfig, configs,
                   cgiVars, files, asked, answers, current, _status_code, taken,
                   unexecuted>>

Prepares ==
    /\ Receives
    /\ request.framed
    /\ ~Throws(request)
    /\ ~SearchLoops(request)
    /\ wire' = Tail(wire)
    /\ UNCHANGED <<configVars, asked, taken, unexecuted>>

\* The web/default_error_pages of the repository.
DefaultPages == {400, 403, 404, 413, 500, 502, 503, 505, 508}

getErrorResponse(s, code) ==
    LET own == {page \in s.error_pages : page[1] = code}
        found == IF own = {} THEN code \in DefaultPages
                             ELSE \E page \in own : <<s.root, page[2]>> \in files
    IN  IF found THEN "page" ELSE "empty"

HandleError ==
    /\ Prepares
    /\ verdict.code \notin {200, 301}
    /\ Answer(number, verdict.code, getErrorResponse(server, verdict.code))
    /\ UNCHANGED <<cgiVars, files, current, _status_code>>

\* A request that checkRequest lets through, and whose path, which is that of
\* the redirection by now, is a file that can be opened.
Opened ==
    /\ Prepares
    /\ verdict.code \in {200, 301}
    /\ isFile(verdict.path)
    /\ <<server.root, verdict.path>> \in files

\* Whatever the method, a script is run.
HandleScript ==
    /\ Opened
    /\ Last(verdict.path) \in Script
    /\ current' = number
    /\ _status_code' = verdict.code
    /\ LET s == Last(verdict.path)
       IN  Fork(s) \/ PipeFails(s) \/ ForkFails(s)
    /\ UNCHANGED <<files, answers>>

Uploads(r) == r.upload # Empty /\ r.method = "POST"

\* The file goes to a directory of its own, whatever the server's root is.
HandleUpload ==
    /\ Opened
    /\ Last(verdict.path) \notin Script
    /\ Uploads(request)
    /\ \/ /\ files' = files \cup {<<UploadRoot, Append(UploadPath, request.upload)>>}
          /\ Answer(number, verdict.code, "file")
       \/ /\ CanFail
          /\ Answer(number, verdict.code, "upload failed")
          /\ UNCHANGED files
    /\ UNCHANGED <<cgiVars, current, _status_code>>

HandleDelete ==
    /\ Opened
    /\ Last(verdict.path) \notin Script
    /\ request.method = "DELETE"
    /\ \/ /\ files' = files \ {<<server.root, verdict.path>>}
          /\ Answer(number, verdict.code, "deleted")
       \/ /\ CanFail
          /\ Answer(number, verdict.code, "delete failed")
          /\ UNCHANGED files
    /\ UNCHANGED <<cgiVars, current, _status_code>>

HandleFile ==
    /\ Opened
    /\ Last(verdict.path) \notin Script
    /\ ~Uploads(request)
    /\ request.method # "DELETE"
    /\ Answer(number, verdict.code, "file")
    /\ UNCHANGED <<cgiVars, files, current, _status_code>>

\* directory_listing is that of the route for the path itself, and not
\* initialised where the route does not set it or there is no such route.
Listings(s, path) ==
    LET routes == RoutesTo(s, {path})
        set == IF routes = {} THEN "uninitialised"
               ELSE s.routes[First(routes)].directory_listing
    IN  CASE set = "on" -> {TRUE} [] set = "off" -> {FALSE} [] OTHER -> BOOLEAN

HandleDirectory ==
    /\ Prepares
    /\ verdict.code \in {200, 301}
    /\ ~(isFile(verdict.path) /\ <<server.root, verdict.path>> \in files)
    /\ \E listing \in Listings(server, verdict.path) :
          LET found == IF listing THEN <<server.root, verdict.path>> \in Dir
                       ELSE <<server.root, server.default_file>> \in files
          IN  Answer(number, verdict.code,
                     IF ~found THEN "empty" ELSE IF listing THEN "listing"
                     ELSE "file")
    /\ UNCHANGED <<cgiVars, files, current, _status_code>>

\* executePythonScript has returned to prepareResponse.
ScriptAnswered ==
    /\ caller \in {"true", "false"}
    /\ caller' = "none"
    /\ LET code == IF caller = "true" THEN _status_code
                   ELSE IF _inf_loop THEN 508 ELSE 500
       IN  Answer(current, code,
                  IF caller = "true" THEN "output"
                  ELSE getErrorResponse(ServerOf(asked[current]), code))
    /\ UNCHANGED <<configVars, process, readEnd, writeEnd, result, forkFailed,
                   files, asked, wire, current, _status_code, taken, unexecuted>>

Handle ==
    \/ HandleUnframed \/ HandleThrows \/ HandleLoops \/ HandleError
    \/ HandleScript \/ HandleUpload \/ HandleDelete \/ HandleFile
    \/ HandleDirectory \/ ScriptAnswered
-----------------------------------------------------------------------------
(* The child whose execve failed *)

\* It answers the request itself...
ChildAnswers ==
    /\ child = "server"
    /\ child' = "second"
    /\ Answer(current, 500, getErrorResponse(ServerOf(asked[current]), 500))
    /\ UNCHANGED <<configVars, caller, script, wrote, pipe, elapsed, readEnd,
                   writeEnd, result, forkFailed, files, asked, wire, current,
                   _status_code, taken, unexecuted>>

\* ... and goes on with the sockets it shares with the server: it takes
\* requests, which may end it by an exception. What it answers is left out.
ChildTakes ==
    /\ child = "second"
    /\ wire # <<>>
    /\ taken' = taken \cup {number}
    /\ wire' = Tail(wire)
    /\ child' = IF request.framed /\ Throws(request) THEN "ended" ELSE child
    /\ UNCHANGED <<configVars, caller, script, wrote, pipe, elapsed, readEnd,
                   writeEnd, result, forkFailed, files, asked, answers, current,
                   _status_code, unexecuted>>
-----------------------------------------------------------------------------
Arrive(r) ==
    /\ state = "serving"
    /\ file \in ServedFiles
    /\ Len(asked) < MaxRequests
    /\ r.server \in DOMAIN configs
    /\ asked' = Append(asked, r)
    /\ wire' = Append(wire, Len(asked'))
    /\ answers' = Append(answers, <<>>)
    /\ UNCHANGED <<configVars, cgiVars, files, current, _status_code, taken, unexecuted>>

\* The steps of WebservConfig and WebservCgi leave the rest alone.
Start ==
    /\ Parse
    /\ UNCHANGED <<cgiVars, files, asked, wire, answers, current, _status_code,
                   taken, unexecuted>>

Run ==
    /\ CgiStep
    /\ unexecuted' = IF child = "forked" /\ child' = "server"
                     THEN unexecuted \cup {current} ELSE unexecuted
    /\ UNCHANGED <<configVars, files, asked, wire, answers, current,
                   _status_code, taken>>

Next ==
    \/ Start \/ Handle \/ Run \/ ChildAnswers \/ ChildTakes
    \/ \E r \in Request : Arrive(r)

Spec == Init /\ [][Next]_vars

\* The server's one thread and a forked process are scheduled, and time passes.
\* Nothing is assumed of the scripts and of the clients.
FairSpec ==
    /\ Spec
    /\ WF_vars(Start)
    /\ WF_vars(Handle)
    /\ WF_vars(Parent /\ UNCHANGED <<configVars, files, asked, wire, answers,
                                     current, _status_code, taken, unexecuted>>)
    /\ WF_vars(TimePasses /\ UNCHANGED <<configVars, files, asked, wire,
                                         answers, current, _status_code, taken,
                                         unexecuted>>)
-----------------------------------------------------------------------------
(* Properties *)

\* Every variable has its type; no file appears but by an upload.
TypeOK ==
    /\ ConfigTypeOK
    /\ CgiTypeOK
    /\ files \subseteq FirstFile
          \cup {<<UploadRoot, Append(UploadPath, r.upload)>> : r \in Request}
    /\ asked \in Seq(Request)
    /\ wire \in Seq(DOMAIN asked)
    /\ DOMAIN answers = DOMAIN asked
    /\ current \in 0 .. Len(asked)
    /\ _status_code \in {0, 200, 301}
    /\ taken \subseteq DOMAIN asked
    /\ unexecuted \subseteq DOMAIN asked

\* The disk changes and a script starts only for a request that came to its
\* server's name and port, with a body within the limit, and whose own location
\* allows the method, wherever a redirection has led it; only a DELETE removes
\* a file and only a POST adds one.
ActsByRight ==
    [][(files' # files \/ (caller # "wait" /\ caller' = "wait")) =>
          LET s == ServerOf(request)
              at == getLocation(s, PathOf(request))
          IN  /\ request.host \in {s.server_name, s.ip}
              /\ request.port = s.port
              /\ request.body <= s.max_body_size
              /\ at # 0
              /\ request.method \in s.routes[at].methods
              /\ files \subseteq files' \/ request.method = "DELETE"
              /\ files' \subseteq files \/ request.method = "POST"]_vars

\* A request gets one answer. Two only if the execve for it failed: then the
\* child's 500 comes first, and the server's own after it.
OneAnswerEach ==
    \A n \in DOMAIN asked :
        \/ Len(answers[n]) <= 1
        \/ /\ n \in unexecuted
           /\ Len(answers[n]) = 2
           /\ answers[n][1].status = 500

\* Every request is answered, in spite of scripts that do not end or write more
\* than the pipe holds, unless an exception or the search for a location has
\* stopped the server, or a second server has taken the request.
EveryRequestAnswered ==
    \A n \in 1 .. MaxRequests :
        (n \in DOMAIN asked) ~>
            \/ n \in DOMAIN answers /\ answers[n] # <<>>
            \/ n \in taken
            \/ state \in {"ended", "stuck"}

\* The comment above checkHttpVersion: 505 when it fails.
UnsupportedVersionIsTold ==
    \A n \in DOMAIN asked :
        (asked[n].framed /\ asked[n].version # "HTTP/1.1\r") =>
            \A a \in DOMAIN answers[n] : answers[n][a].status = 505
=============================================================================
