--------------------------- MODULE MCWebservRequest ---------------------------
(* A small instance of WebservRequest for TLC.                              *)
EXTENDS WebservRequest

At(tabs, key, value) == [tabs |-> tabs, key |-> key, value |-> value]

\* After 6.2 - WEBSERV/config/config.config and server_on_same_port.config.
MCFirst ==
    <<At(0, "server", ""), At(1, "server_name", "localhost"), At(1, "port", 1),
      At(1, "ip", "local"), At(1, "max_body_size", 1),
      At(1, "default_file", <<"", "default.html">>), At(1, "error_page", ""),
      At(2, "page", <<404, <<"", "404.html">>>>), At(1, "root", "website0"),
      At(1, "location", ""), At(2, "path", <<"", "">>),
      At(2, "methods", {"GET", "POST"}), At(2, "redirect", <<"", "index.html">>),
      At(1, "location", ""), At(2, "path", <<"", "uploads">>),
      At(2, "methods", {"POST", "DELETE", "GET"}),
      At(2, "directory_listing", "on")>>
MCSecond ==
    <<At(0, "server", ""), At(1, "server_name", "other"), At(1, "port", 2),
      At(1, "ip", "local"), At(1, "max_body_size", 1),
      At(1, "default_file", <<"", "default.html">>), At(1, "root", "website1"),
      At(1, "location", ""), At(2, "path", <<"", "img">>),
      At(2, "methods", {"GET"}), At(2, "methods", {"DELETE"}),
      At(2, "directory_listing", "off"), At(2, "redirect", <<"", "gone.html">>)>>

MCBoth == MCFirst \o MCSecond
\* The two servers, and every file that differs from it by a line left out, or
\* by a line with a tab less or more, or by the error page's number.
MCConfigFiles ==
    <<MCBoth, [MCBoth EXCEPT ![8].value[1] = TooLarge]>>
    \o [j \in DOMAIN MCBoth |-> RemoveAt(MCBoth, j)]
    \o [j \in DOMAIN MCBoth |-> [MCBoth EXCEPT ![j].tabs = @ + 1]]
    \o [j \in DOMAIN MCBoth |-> [MCBoth EXCEPT ![j].tabs = IF @ = 0 THEN 0 ELSE @ - 1]]

MCScript == {"short.py", "long.py", "loop.py"}
MCWrites == [s \in MCScript |-> IF s = "long.py" THEN 3 ELSE 2]
MCEnds == {"short.py", "long.py"}

MCNamed == MCScript \cup {"index.html", "default.html", "404.html", "a.jpg", "new.jpg", "gone.html"}
MCDir == {<<"website0", <<"">>>>, <<"website0", <<"", "uploads">>>>,
          <<"website1", <<"">>>>, <<"website1", <<"", "img">>>>}
MCFirstFile ==
    {<<"website0", <<"", f>>>> : f \in MCScript \cup {"index.html", "404.html"}}
    \cup {<<"website0", <<"", "uploads", f>>>> : f \in {"a.jpg", "short.py"}}
    \cup {<<"website1", <<"", "default.html">>>>}

Base == [server |-> 1, framed |-> TRUE, emptyLast |-> FALSE, method |-> "GET",
         path |-> <<"", "">>, version |-> "HTTP/1.1\r", host |-> "localhost",
         port |-> 1, body |-> 0, upload |-> ""]

\* Requests that differ from a plain one in a point or two.
MCRequest ==
    {[Base EXCEPT !.framed = FALSE], [Base EXCEPT !.emptyLast = TRUE],
     [Base EXCEPT !.port = NotAPort], [Base EXCEPT !.port = NoPort],
     [Base EXCEPT !.port = NotAPort, !.host = "elsewhere"],
     [Base EXCEPT !.version = "HTTP/1.10\r"], [Base EXCEPT !.body = 2],
     [Base EXCEPT !.path = <<"index.html">>]}
    \cup {[Base EXCEPT !.method = m, !.path = p] :
            m \in {"GET", "DELETE"},
            p \in {<<"", "">>, <<"", "uploads">>, <<"", "uploads", "a.jpg">>,
                   <<"", "uploads", "short.py">>, <<"", "none", "">>}}
    \cup {[Base EXCEPT !.path = <<"", s>>] : s \in MCScript}
    \cup {[Base EXCEPT !.path = <<"", "short.py">>, !.method = "DELETE"]}
    \cup {[Base EXCEPT !.method = "POST", !.path = <<"", "uploads", "a.jpg">>,
                       !.body = b, !.upload = "new.jpg"] : b \in {1, 2}}
    \cup {[Base EXCEPT !.server = 2, !.host = "other", !.port = 2, !.path = p] :
            p \in {<<"", "img">>, <<"", "nowhere">>}}
===============================================================================
