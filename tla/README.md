# 42 Cursus: models, checks and proofs

The repository is a collection of independent programs written along the 42
curriculum. This directory holds TLA+ models of those that keep state, run
concurrently or talk to other processes, the TLC runs that check them and the
TLAPS proofs about them. `PROJECT.json` lists the components, runs, mutants,
the source lines behind every definition, the findings and the hazards.

Run a check with `tlc -config X.cfg M`, a proof with `tlapm M.tla`.

## Inventory

| Component | Source | State it keeps | Operations | What is hard |
|---|---|---|---|---|
| Philosophers | `4.1 - PHILOSOPHERS` | fork mutexes, death mutex, `ready`/`over` flags, `last_meal`, `ph_loop` | `routine`, `check_thread`, `someone_died`, `end_thread` | thread interleavings, deadlock, unlocking a mutex that another thread holds |
| mini_serv | `-- EXAMS/ExamRank6/mini_serv.c` | fd sets, `ids[]`, `msgs[]`, `max_fd`, `count` | `register_client`, `remove_client`, `send_msg`, select loop | stale ready sets, clients that are not writable, partial lines, fd reuse |
| Minitalk | `3.2 - MINITALK` | static counters of the signal handler, pending signals | `send_signals`, `signal_handler` | lost (coalesced) and reordered signals, interleaved clients |
| Webserv event loop | `6.2 - WEBSERV/sources/RunServer.cpp`, `Client.cpp`, `ServersManager.cpp` | fd sets, client map, per client request and response | `accept_new_connection`, `recvs_request`, `send_response`, `process` | partial reads and writes, stale ready sets, fd reuse, pipelining |
| Webserv requests | `RequestUtils.cpp`, `Response.cpp`, `Response_2.cpp` | request object, status code, path rewritten by redirection | `parseRequest`, `checkRequest`, `prepareResponse` | order of checks, overwritten status, uninitialised listing flag |
| Webserv CGI | `CgiHandler.cpp` | child process, pipe | `executePythonScript` | timeout against exit, full pipe, failed exec, descriptors never closed |
| Webserv configuration | `ConfigParser.cpp`, `ServerConfig.cpp` | context stack, server list | `parseConfigs` and what it calls | validation of the last server only, nesting by indentation |
| Minishell | `4.2 - MINISHELL` | environment lists, pipes, children, here-documents, `g_cat` | pipeline phases, `cd`, `export`, `unset`, heredoc | signals during a wait, fds inherited by children, built-ins run twice, list heads freed |
| Get_next_line (and bonus) | `2.1 - GET_NEXT_LINE` | static stash (per fd in the bonus) | `get_next_line` | one stash for several fds, read errors between two reads |
| Push_swap | `3.3 - PUSH_SWAP/sources` | two stacks | the eleven instructions, sorting of 2, 3, 5 and more numbers | long sequences, early exits, an uninitialised flag |
| Libft, ft_printf | `1 - LIBFT`, `2.2 - FT_PRINTF` | none | leaf functions on strings, lists and memory | nothing concurrent |
| FDF, MiniRT | `3.1 - FDF`, `5.1 - MINI_RT` | a window and a scene | rendering | floating point geometry |
| Piscine, CPP, exams | `0 - PISCINE`, `5.3 - CPP`, rest of `-- EXAMS` | none or one object | exercises | nothing shared |
| NetPractice, Inception | `5.2 - NET_PRACTICE`, `6.1-INCEPTION` | third-party trainer, container configuration | none | not a program of this repository |

The programs do not call one another. Within one of them the components
interact through shared memory (Philosophers), signals (Minitalk), sockets
(mini_serv, Webserv), pipes and exit codes (Webserv CGI, Minishell).

## Modules

| Module | What it is | Checked by | Proved in |
|---|---|---|---|
| `Philosophers` | threads, forks and monitor of `4.1 - PHILOSOPHERS` | itself | `PhilosophersProofs` |
| `DiningTable` | what the forks promise; implemented by `Philosophers` | `philo_end` | `PhilosophersProofs` |
| `MiniServ` | the chat server of exam rank 06 | `MCMiniServ` | `MiniServProofs` |
| `WebservLoop` | the event loop of `6.2 - WEBSERV` | `MCWebservLoop` | `WebservLoopProofs` |
| `WebservConfig` | its configuration file | `MCWebservRequest` | `WebservRequestProofs` |
| `WebservCgi` | its scripts: parent, child and pipe | `MCWebservRequest` | `WebservRequestProofs` |
| `WebservRequest` | a request to its response, composed of the two above | `MCWebservRequest` | `WebservRequestProofs` |
| `Minitalk` | the signals of `3.2 - MINITALK`, client and server | `MCMinitalk` | `MinitalkProofs` |
| `GetNextLine` | both versions of `2.1 - GET_NEXT_LINE` | `MCGetNextLine` | `GetNextLineProofs` |
| `LineStream` | what a reader of lines is promised; implemented by `GetNextLine` | `get_next_line` | `GetNextLineProofs` |
| `PushSwap` | `3.3 - PUSH_SWAP/sources` | `MCPushSwap` | `PushSwapProofs` |
| `StackMachine` | the two stacks of the subject, as a reader of the output moves them; implemented by `PushSwap` | `push_swap` | |
| `MinishellEnv` | the list of variables under `export` and `unset` | `MCMinishell` | `MinishellProofs` |
| `Minishell` | how `4.2 - MINISHELL` runs a line | `MCMinishell` | `MinishellProofs` |

An `MC` module gives a module its small instance; `Philosophers` needs none.
The cfg files bear the names of the modules, with what they are about added
where there are several.

Operators whose name extends that of the one below them (`RecvStaysReading`
above `Recv`) are mutants: the same step with a plausible mistake. No
specification uses them; `PROJECT.json` says which property each one breaks.

The type invariant of a module is proved for all parameters, and not run once
more.

## Philosophers

`Philosophers.tla` models the program as one thread per philosopher and the
main thread. `pc[p]` names the line of `routine`, `routine_eat` and
`routine_sleep_think` a thread is at; `mainPc` and `i` those of `thread_init`,
`check_thread`, `someone_died` and `end_thread`. `Held(p)` is derived from the
position of the thread: a thread believes it holds what it has locked and not
yet unlocked, whatever the monitor did to the mutex meanwhile. `locked` is what
the mutex really is: the default kind of pthread mutex has no owner check, so
`someone_died`'s unlocking of the forks of a starved philosopher frees them
under their holders.

Reading `over` and printing under the death mutex are two steps
(`EnterPrint`, `PrintLine`), because `over` is written without the mutex.
Time is one bit per philosopher: `Expire(p)` says that `time_to_die` has passed
since `last_meal`, the assignment of `last_meal` clears it. The sleeps only
delay, and a thread can be delayed at any other point as well, so they exclude
no order. `ph_loop` saturates one past the goal: the code compares it with the
goal for equality only.

`DiningTable.tla` is what the forks promise: left fork, right fork, back in the
same order, and a fork taken from a neighbour's hand only after a reported
death spoiled it.

| Run | Bounds | What it shows |
|---|---|---|
| `philo_end` | 2 philosophers, goal of 1 meal | `OneDeathLine`, `OneLateLine`, `EndsClean` (no mutex is destroyed locked or held); `CircularWaitBroken`: the monitor frees a circle that formed before `over`; `EndsUnlessCircular`: once `over` is set the program ends, or all wait in a circle; `TableSpec`: refinement of `DiningTable` |
| `philo_all_eaten` | the same | violation of `AllHaveEaten`: `checks.c:81` counts the last philosopher's meals only, `checks.c:56` speaks of all |

With two philosophers a circular wait, forks spoiled by a death, the race for
the late line and the closing test arise already. Three are the first table
where a fork's two neighbours are different philosophers: what the forks promise
is proved for any number of them.

Fairness: weak for every thread, since the operating system runs each of them,
and for the passing of time; none of the mutexes, so a thread may lose every
race for one. That the program reaches its end is not claimed: without a goal
nothing has to end, and with one the monitor may miss the value it compares
with (`checks.c:81`).
`pthread_join` writes each thread's result over the start of its philosopher
(`main.c:50`, its `id` and `dead`); `Join` leaves `dead`, which nothing reads any
more.

Proofs, for every `N >= 1` and every goal: `TypeCorrect`; `ForksExclude`,
`LinesBounded` and `OneDeath`, `EndsCleanly` and `ImplementsTable`.
`ForkExclusion` (two hold a fork only after a reported death spoiled it) is not
inductive, because it does not say that a fork in somebody's hand is locked;
`ForkInv` does, for every fork that no death has spoiled, and says that the
monitor unlocks the forks of a philosopher already marked dead. `LineInv` bounds
the lines by the monitor's position and by who holds `death`; `EndInv` says that
a locked fork has a holder and that the threads joined so far are done.
`ImplementsTable` maps each step to one of `DiningTable` or to a stutter, with
`Held` and `Freed` as the refinement mapping. The two liveness properties are
model-checked only.

## MiniServ

One thread around `select`. `afds`, `rfds`, `wfds`, `max_fd`, `count`, `ids` and
`msgs` are the program's globals of the same names; `next` is the loop variable
of `main`, and each ready descriptor is one step, so that clients write, close
and connect between any two. `Register` and `Disconnect` are
`register_client` and `remove_client` with their announcements and the `break`
that follows them; `Receive` is one `recv` with `str_join` and `send_msg`, for
any number of the tokens that have arrived. A token is a newline or a piece of
text that occurs once, so a lost, repeated or reordered piece is seen.
`ReceiveNoMemory` is a failing `malloc` in `str_join`, which loses the line;
`ExtractFails` a failing `calloc` in `extract_message`, whose −1 `send_msg` takes
for a message, so that the process dies in `strlen` if there is anybody to send it
to (if not, the loop tries again, and a `calloc` that fails for ever is left out).
`Notify` is `notify_other`: it skips whoever is not in `wfds`, which is the set
`select` left before the pass. `log` keeps what was given to it, `missed` who was
skipped. The sockets are blocking, so a client whose buffer fills during a pass
makes `send` wait: `stalled` is that client, nothing of the server moves until
`SendReturns`, and what the rest of the handler does is put before the wait.

The environment: `accept` takes the lowest free descriptor and fails when there
is none; a client in `Prompt` is always writable, any other may or may not be; a
`send` to a connection closed at its other end may raise SIGPIPE, which ends the
process. Start-up errors exit and are left out.

| Run | Bounds | What it shows |
|---|---|---|
| `serv_safety` | 3 clients (1 lazy), 2 descriptors, 3 tokens, failing allocations | `PassIsCurrent`: no pass looks at a descriptor closed or opened in it; `PromptMissNothing`; `StreamIntact`: pieces join to exactly what was sent; `IdsFollowArrivals`: ids and announcements survive the reuse of descriptors |
| `serv_live` | 3 clients (1 lazy), 2 descriptors, 2 tokens | `ClientsAreServed`: neither a connection that cannot be accepted nor another client's lines starve a client; only a send that a client never reads does |
| `serv_told` | 2 clients, 2 descriptors | violation of `AllAreTold`: `mini_serv.c:77` against `subject.txt:27` |

Three clients on two descriptors reuse one and make `accept` fail; three tokens
are a line cut in the middle and another after it, or a line of each of two
clients. Fairness is weak for the one thread: `select` returns while something
is ready, and in a pass only `send` waits; it returns for certain only if the
client it waits for has closed. The clients are under no fairness, so a lazy one
may stop the server for ever, which is the one exception `ClientsAreServed` makes.

Proofs, for any clients, descriptors and tokens: `TypeCorrect`,
`PassesAreCurrent`, `NothingIsMissed` and `IdsFollow`. The first two properties
rest on `PassInv`: both of them with the types they need, `max_fd` at or above
every descriptor in `afds`, and, during a pass, every prompt client's descriptor
in `wfds`; without the last two `Notify` could skip a prompt client.
`IdsFollowArrivals` rests on `IdInv`: the ids in use are different, below `count`
and not departed; what was announced is exactly the ids given; and every message
fits those before it, which is why a longer log keeps it true. `StreamsStayIntact`
proves `StreamIntact` from `StreamInv`: what a connected client has sent is what was
passed on under its id, then its `msgs`, then what is on the wire (`Streams`), as
long as no allocation fails; no two descriptors are the same client's and none is
that of a client still waiting (`Behind`, `NotYet`), of whom nothing was read (`Unread`).
`Heard` is a recursive function of the log; that a longer log leaves its earlier
values alone (`HeardBefore`), and that messages of others add nothing
(`HeardOthers`), are shown by the lemma `Induction`. `ClientsAreServed` is
model-checked only.

## WebservLoop

One thread around `select` again. `cpy_readfds` and `cpy_writefds` are what the
loop waits for, `readfds` and `writefds` what the last `select` left of them, `i`
the loop variable of `process`, `map_clients` the `Client` objects with their mode
and prepared response. `Accept` and `AcceptFails` are `accept_new_connection`,
`RecvEnds` and `Recv` are `recvs_request`, `Send` and `SendFails` are
`send_response`, each with all the calls it makes; `Drop` is the closing that
every error path shares.

A failed `accept` passes -1 to `FD_SET` and to the map of clients
(`RunServer.cpp:49`). What that marks is undefined: the constant `Stray` is any
bit of the set, that of the listening socket included, where it does no harm.
When it is a descriptor that is never open the next `select` fails, leaves both
sets alone, and the pass goes on with them: `Select` has that branch. The object
it leaves in the map under the key -1 is never looked up and is left out.
`Inherits` says whether an accepted socket inherits `O_NONBLOCK` from the
listening one, as on BSD and macOS, or not, as on Linux: in the first case `recv`
on an idle socket returns -1 and the connection is closed, in the second it
blocks, so the step has to wait until something arrives.

A request travels in two pieces, of which `recv` returns any that have arrived:
`Prepared` is the response to what was returned, taken for one request; its
content is left open here and is the subject of `WebservRequest`. A `Careful`
client sends a request when it has the answer to the last one, and its requests
arrive whole.

Whether a connection is closed after a response is read from the text of the
header `Connection`, which `RunServer.cpp:147` compares with `close`. `parseHeader`
splits the lines at `\n`, so the text keeps its `\r` except in the last header,
after which the headers are cut at the blank line: `asks` says where among the
headers of its request "Connection: close" stands, `getConnection` what text that
leaves. Only the last is obeyed; a client that asks earlier is answered and kept.

| Run | Bounds | What it shows |
|---|---|---|
| `webserv_loop` | 3 connections (1 careful), 2 descriptors, 2 requests in all, `Stray` never open, blocking sockets | `BooksAgree`: sets, map and open descriptors agree and no pass holds a stale one; `AnswersMatch`: answers belong to the connection, in order, none twice and none after one that ends with `Connection: close`; `HangsUpWithReason`; `CarefulAreAnswered` |

The third connection is what makes `accept` fail and a descriptor be reused; two
requests are enough for one cut in two and answered twice, or two taken for one.
Fairness is weak for the server's thread. `CarefulAreAnswered` exempts the time
when `Stray` is in the read set: from then on `recv` may block on an idle socket.

Proofs, for any clients, descriptors, requests, `Stray` and both kinds of
sockets: `TypeCorrect`, `BooksAlwaysAgree`, `ClosesWithReason` and
`AnswersAlwaysMatch`. `BooksInv` adds to `BooksAgree` the types and that an
object whose mode is absent is absent; the descriptor `Stray` is excepted
throughout, since the mark may be on one that is open, or opened later.
`ClosesWithReason` needs `Separate`: a connection waits, is behind one
descriptor, or is closed, so what happens to one leaves the others alone. For
`AnswersMatch` the strengthening `AnswersInv` orders everything a connection has
asked: the answers sent come before the request that is prepared, this before
the pieces still on the wire, these before what was not sent yet, and of a
careful client only one is on its way. `CarefulAreAnswered` is model-checked
only.

Left out: several listening sockets (the loop treats them alike), partial sends,
clients that do not read their responses, the value of the time-out (`select`
changes the struct on Linux; a pass with nothing ready does nothing), descriptors
beyond `FD_SETSIZE`, exceptions, which end the process (`WebservRequest` has
those).

## WebservConfig, WebservCgi and WebservRequest

`WebservConfig` is `ConfigParser::parseConfigs`, a step per line: `contexts` is
its stack, cut at the tabs a line begins with, `serverConfig` the server being
read and `configs` those before it. `ReadServer`, `ReadBlock` and `ReadSetting`
are the lines it takes, `Reject` is every line that makes it throw, and
`EndOfFile` the check of the last server (`CheckForMinimumConfig`, which no other
server passes through) and the search for duplicates. A line is a record of
tabs, key and value; splitting the text into them is left out.

`WebservCgi` is `executePythonScript`. `caller` is where the parent is, `child`
what the forked process is, and `pipe` the number of bytes in the pipe, which
holds `PipeSize`. The parent waits in a busy loop (`WaitOver`, `TimeOver`), and
reads only after the child has ended, so a script that writes more than the pipe
holds cannot end and is killed as one that loops. `PipeFails` opens nothing;
`ForkFails` leaves both ends open, for good (`CgiHandler.cpp:56`). A failed `execve` leaves a
second server (`ExecFails`), which answers the request itself, logs into the pipe
until it is full and takes requests from the sockets it shares; what it answers
to those is left out.

`WebservRequest` composes both: a start from one of `ConfigFiles`, then requests
through the listening sockets of the servers that were read, one after the other.
`parseRequest` is what it throws on (`Throws`) and the path it cuts;
`checkRequest` is `verdict`, the status and the path after all checks in their
order, with the redirection that may lead it to another location; the actions
`Handle...` are the branches of `prepareResponse`, each with all it does to the
disk. Strings are abstracted to what is compared: a path is the sequence of the
names between its slashes, a body its length. Two ways to stop the server are
states: `ended` by an exception, which nothing but `main` catches, and `stuck`
in the search for a location of a path without a slash (`Response_2.cpp:22`).

| Run | Bounds | What it shows |
|---|---|---|
| `webserv_request` | a file of two servers and every file that differs from it by a line left out, by a tab or by an error page's number (92 in all), requests after the first of them only; 2 requests of 24 kinds; scripts of 2 and 3 bytes and one that does not end, `PipeSize` 2; pipe, fork, exec and disk may fail | `ServersFollowBlocks`: a server is what its own block says, wherever the indentation closes a context; `OutputIsWhole`: an output that is sent is all of it; `NothingLeftRunning`: no return leaves a process or, but for a failed fork, an end of the pipe; `OneAnswerEach`: two answers only to a request whose `execve` failed; `ActsByRight`: the disk changes and a script starts only for a request its server, limit and location allow, wherever it was redirected; `EveryRequestAnswered` |
| `webserv_version` | the same | violation of `UnsupportedVersionIsTold`, the comment at `Response.cpp:308`: the 505 set at line 31 is overwritten from line 35 on |

The script of 3 bytes is the one the pipe does not hold; the files with a line
missing or moved reach every branch of the parser; two requests are what it takes
for one to change the disk under the next, or for a second server to take one.
Fairness is weak for reading the file, for handling a request, for the parent
and for the passing of time: the one thread of the server is scheduled.
Nothing is assumed of a script, a second server or a client, and
`EveryRequestAnswered` excepts requests after an exception or the endless search
and those a second server has taken.

Proofs, for every configuration, script, pipe, disk and request that the named
assumptions allow (tabs, lengths and sizes are natural numbers, scripts have a dot
in their names): `TypeCorrect`, `OutputStaysWhole` and `NothingIsLeft` from `CgiInv`
(what the script wrote is what is in the pipe until it is read, and each position
of the parent says which ends are open and whether the child can still run);
`AnsweredOnlyOnce` from `AnswerInv` (the requests on the wire are the last ones,
in order and unanswered, and the one a script runs for has no answer but that of
the child; `unexecuted` keeps the requests whose `execve` failed); `RightsAreKept` from `ServersInv` (a request came to one of the servers,
which no longer change); `ServersAreTheirBlocks` (`ServersFollowBlocks`) from
`BlocksInv`: the `server` lines read so far are as many as the servers begun, the
finished ones are set from their blocks, and the one being read from the lines of
its block read so far. A line changes which block is meant only if it says
`server` (`BlockEnds`, `BlockGoesOn`), and no line sets anything before the first
of these, for then no context is open. Liveness is model-checked only.

Left out: the headers of the response, MIME types, the text of a page, the
arguments of a script. The two models of the server meet in one place: what
`WebservLoop` calls `Prepared` is one answer of `WebservRequest`. Their product is
not checked: the loop looks at nothing of a response but its length and whether
the connection closes.

## Minitalk

`Send` is one `kill` of `send_signals`: the bit at `position` of the text and
of the zero after it. `pending` is the kernel's: at most one signal of each kind,
in no order, so one sent again too early is lost. `usleep(50)` promises nothing
and is no step. The handler is one step for each static it reads or writes, for
the program is compiled without optimisation and `sa_mask` is never
initialised (`server.c:84`): it holds any of the two signals, chosen at the start,
and a handler whose other signal is not in it can be interrupted anywhere. A
handler interrupted between a read and its write overwrites what the other one
did, and a counter that passes 8 between the addition and the test
(`server.c:64`) never completes a character again: the model has both.
`disturbed` remembers whether a signal was sent before the last one was handled,
or a client began or died in the middle of another's text.

| Run | Bounds | What it shows |
|---|---|---|
| `talk` | 2 clients, 2-bit characters, texts of a character and the zero | `PrintsWhatWasSent`: undisturbed, the texts come out whole and in order; `EveryTextIsPrinted` |

Two bits tell the order of the bits apart, a text of two characters (its zero
included) the reset between them, two clients the reset between texts and every
mixture of two. Fairness is weak for the server: signals are delivered and
handlers return. The texts of `Messages` are a parameter; longer ones give more
states than the run can visit while handlers interrupt one another. Left out: a
failing `malloc` and the use of `malloc` and `printf` inside a handler that has
interrupted them, and arguments the client rejects at once.

Proofs, for any clients and texts and characters of one to eight bits (`Power` is
a table because the prover knows no exponents):

- `TypeCorrect`: where `sa_mask` blocks both signals, `counter` and `result` stay
  within a character even if signals are lost or mixed. `Room` is why: at each
  step of the handler the bits still to come fit above `result`.
- `PrintedWhole`: `PrintsWhatWasSent`. The invariant `TextInv` says that without
  disturbance only the last client of `order` is in the middle of a text
  (`Undisturbed`), that the statics are what the bits it has sent come to
  (`Decoded`), and how far the one handler has got with the next (`Handling`).
  `PrefixGrows` is the arithmetic: the first bits of a character and its next one
  are its first bits and one.

`EveryTextIsPrinted` is model-checked.

## GetNextLine

One module for both versions: `bonus` chooses, and `slot(fd)` is the place of a
descriptor's stash, the same one for all in the mandatory version. A turn of the
loop of `stash_filling` is a step, so that others write to the descriptors
between any two reads, and `read` returns any piece of what is there. `Return`
is `extract_line` and `extract_new_stash`. `CallFails` is the probe of
`get_next_line.c` that fails, which drops the stash; `ReadFails` is a read that
fails after it, on a null stash: the program crashes. `CallNegative` is a call for
`fd < 0`: the mandatory version drops its stash, and the bonus frees and clears
`stash[-1]`, outside its array, which is undefined: it crashes or touches no stash
(what else it may break is not in the model). `Close` and `Open` are the
caller's: a descriptor comes back as another file, and `get_next_line` does not
notice. `text[fd]` goes on from one file to the next: a close cuts off what was not
read. `got` and `past` are history: the bytes read for a stash and how many of them
are done with, returned or dropped.

| Run | Bounds | What it shows |
|---|---|---|
| `get_next_line` | both versions, 2 descriptors, each of up to 3 and 2 bytes over all the files it stands for, which are new lines or not, `BUFFER_SIZE` 2 | `BytesKept`: a stash holds what was read for it and neither returned nor dropped; `OneLineEach`: a line has no new line inside, and lacks one only at the end of the descriptor; `LinesInOrder`: the bonus version gives each descriptor its lines, each once, whatever is called in between (refinement of `LineStream`); `CallsReturn` |

Three bytes in pieces of at most two are a line that takes two reads, and two
lines in one piece. Fairness is weak for the call in progress; nobody has to
call or to write, so `CallsReturn` is about descriptors that have ended.
`LinesInOrder` says nothing of the mandatory version: its one stash mixes the
lines of several descriptors, as its subject lets it. `LineStream` lets bytes be
dropped by a call for a closed descriptor only, and it says what the code does
when there was no such call: a descriptor that is closed with bytes read ahead and
opened again begins with these, joined to the first line of the new file.

Proofs, for any descriptors, bytes, texts and `BUFFER_SIZE >= 1`: `TypeCorrect`,
`KeepsBytes`, `ReturnsOneLine` and `DeliversLinesInOrder`. The invariant adds that
in the bonus version what was read of a descriptor is the beginning of its text
(`ReadSoFar`), that the loop has ended on a new line in the stash or at the end
(`LoopIsOver`), that a call has its descriptor open (`CallIsOpen`) and that of a
closed one nothing is left to be read (`ClosedIsRead`). In the refinement `Return`
is `Deliver` or `Nothing`, `CallFails` is `Forget`, and the reads and `CallNegative`
are stutters. `malloc` succeeds, and descriptors are below `MAX_FD`.

## PushSwap

`main` reads the arguments: `IsNumber` and `InRange` are the checks of `checks.c`,
which compare texts before `ft_atoi`, whose ints `Wrap` when they overflow: that is
undefined in C, and wrapping is what gcc's code does. `Overflows` says for which
texts it happens. `ft_normalize` puts ranks in their place. The stacks are arrays of which
the first `int_a` and `int_b` elements count, and each instruction shifts them as
the code does, garbage behind the end included. Up to five numbers: `todo` is what is
left of the nested calls, an instruction or a call at a time. More: `Turn`,
`PassOver`, `Back` and `NextBit` are the loops of the radix sort, which leaves a
pass early when stack a happens to be in order. With several arguments `counter` is
never initialised, so whether `sa`, `ra` and `rra` are printed is chosen at the
start.

| Run | Bounds | What it shows |
|---|---|---|
| `push_swap` | base 3 and ints of 4 bits; every text of up to 4 characters, alone or after another; every order of 3 to 6 numbers; ten orders of ten | `ReadsNumbers`: what is accepted is the number the text denotes, and none but the least int overflows in `ft_atoi`; `NoNumberLost`; `Sorts`; `LowerBitsSorted` and `PassesBounded`: what a pass has achieved, even if it ended early, and that there are no more than bits; `FollowsMachine`: who follows the printed instructions has the same stacks (refinement of `StackMachine`); `Terminates` |

The small base and width put the greatest int at two digits, so that texts of
every length on either side of it are tried. Orders of six are the smallest that
the radix sort gets, ten need four passes, and all orders of up to five pass through the
sorting by cases. Fairness is weak: one thread that waits for nothing.
As the code has it, an empty argument counts as 0, and a number with a plus sign
or leading zeros may be refused for its length although it fits.

Proofs, for any number of arguments: `TypeCorrect`; `KeepsNumbers`; `PassesSort`
and `PassesAreBounded`, from an invariant that says of the middle of a pass where
the numbers with bit 0 and 1 are and in which order (`InTurn`, `InBack`), early
end included; `SortsAll`: on every exit without an error all the numbers are in
strict order, from `SortInv`, which adds to that what each call of the cases up to five
finds on the stacks; `InstructionsAreFollowed` and `MachineBeginsWithNumbers`: every
printed instruction is one of `StackMachine` and every other step a stutter; and
`ReadsTheNumbers`: what `main` accepts is what the texts denote. The last goes over
the digits of a text by the lemmas `Induction` and `Recursion`: `ft_atoi` computes
the value modulo the width of an int (`AtoiIs`), and a text that is shorter than the
greatest int, or as long and not after it, has a smaller value (`LimitIs`,
`RangeIs`), so that nothing accepted overflows on the way (`OverflowsAtLeast`) but
the least int, -2147483648: its last sum and its product with the sign do, and give
the right number because of `Wrap` (`WrapIs`). `IntAssumption` says what
the program relies on in `checks.c`: the two texts it compares with are
those of the greatest and the least int. `Terminates` is model-checked only. `Power` is a table
because the prover knows no exponents; that an array of ints has fewer than
2^30 elements bounds it.

Left out: the instructions that no function calls (`sb`, `ss`, `rb`, `rr`, `rrb`,
`rrr`), `median.c`, which is commented out, and a failing `malloc`.

## MinishellEnv and Minishell

`MinishellEnv` is the list of variables: `mini_export`, `mini_unset` and the
functions below them. `Minishell` is the loop over the segments of a line:
`NextSegment` is `init_vars_inloop` with the redirections, which are the shell's own
streams, `Skip` and `Enter` the phase that looks at `or`, `phase_check` the built-ins
(run in the shell with their output discarded, and again by the child) and the
pipe, `fork` what parent and child do with its ends, `phase_end` the wait and what is put
back after it, `minishell_end` the end of the line. `HereDocument` is the other
path through a segment. `fd0` and `fd1` are what the shell's standard streams lead to, and
so what a child inherits. A segment is chosen from `Segments` when the shell gets
to it, for nothing before looks at it. A file that cannot be opened, for input or
output, is `Closed`: `dup2` fails and the stream stays where it led, `err` is 1,
and the command runs (`utils4.c:81-96`).

`export` refuses a name that does not begin with a letter (`BadKey`) and, without
a `=`, a new name with another character than letters and digits (`OddKey`, as
`MY_VAR`; `special_cases`). `set_dir` is what `cd` writes to `PWD` and `OLDPWD`,
if they have values. The directory it copies to `OLDPWD` was freed by the `cd`
before, or never set: it may be any value, and reading it may end the shell
(`ReadFreed`).

Each command is waited for before the next begins, so `ChildBlocks` (a
command that fills the pipe its reader has not been started for) is a state the
shell does not leave without a signal.

| Run | Bounds | What it shows |
|---|---|---|
| `minishell` | lines of up to 3 segments, each of 51 (programs with every redirection and separator, built-ins, here-documents), any number of lines; the keys `OLDPWD`, `A_B` and `1A`, 2 values; `A`, `A=` and `A=v` | `ReadsFromPrevious` and `WritesToNext`: what a command reads and writes, although the shell's own streams are moved and put back around it; `OrIsAboutPrevious`: a segment is skipped only for the success of the one before its `\|\|`; `KeysUnique` and `ExportAndUnset`: what the built-ins leave of the variables; `LineEnds` |

Three segments are a pipe into a pipe, and a segment after a skipped one. The
first three properties except what the code itself mixes up: a
redirection before a `|` or of a skipped segment, or a here-document, leaves the
shell's streams elsewhere for the rest of the line (`previous.stray`). Fairness is
weak for the shell and for the end of a program that is not blocked, and
whoever typed a line types what it asks for; nobody has to type another line or
to send a signal.

Proofs, for lines of any length and any segments, keys and values:
`TypeCorrect`, `KeysStayUnique`, `ChangesOneVariable`, `CommandsRead`,
`CommandsWrite`, `SkipsAfterSuccess`. The last three share `SInv`, which says
where the shell's streams lead between two segments (`Between`), within one
(`Within`) and while its command runs (`After`), and what the flags remember
(`Marks`). `LineEnds` is model-checked.

Left out: splitting and expansion of a line (`$?` with it), the current directory,
redirections after a here-document, the freeing of
memory but for the one place where it decides (`ReadFreed`), and the reuse of
descriptor numbers.

## Findings

`PROJECT.json` lists three: the announcement that all have eaten
(`philo_all_eaten`), the messages a slow client misses (`serv_told`) and the
status 505 that is never sent (`webserv_version`). Each is a run that ends in a
violation of one property, the statement of a comment, a message or a subject.

## What is proved and what is only model-checked

The proofs are those named above, from the `ASSUME`s of the modules and nothing
else; TLC evaluates these on every instance. Every safety invariant and every
action property of a run that passes is a theorem. Only model-checked is
liveness, for the prover has neither `ENABLED` nor fairness: `ClientsAreServed`,
`EveryRequestAnswered`, `EveryTextIsPrinted`, `CallsReturn`, `Terminates`,
`LineEnds`, `CircularWaitBroken`, `EndsUnlessCircular` and `CarefulAreAnswered`.

The library's induction theorems take an operator as a parameter, which the
provers cannot instantiate. Where a proof needs induction (the log of `MiniServ`,
the digits of a text in `PushSwap`) it is stated for a set of numbers instead:
a set that holds the first number of a range, and of each the next one, holds the
whole range (`Induction`). That follows from the smallest element of a set of
naturals, which the library's theorems on well-founded relations give; and from
it, that the recursive functions of the models satisfy their own definitions (`Recursion`,
`HistoryExists`).

## What is not modelled

- Minishell parsing: splitting, expansion and display are string handling whose
  state ends with the line. Microshell (exam rank 04) has the mechanisms of
  Minishell on a smaller scale.
- Libft, ft_printf, the piscine, the exams of ranks 02, 03 and 05 and the C++
  modules: functions and classes without shared state, each exercised by its own
  `main`.
- FDF and MiniRT: floating point and pixels, through a third-party library.
- push_swap_visualizer and the container images: third-party programs;
  NetPractice: data.

These make up most of the repository's lines. Of the programs that are modelled,
what is left out is named in their sections. Hazards no property covers are listed in
`PROJECT.json` with the reason; what remains worth modelling is partial sends and
slow readers in `WebservLoop`, and the current directory and the descriptor numbers of
Minishell.
