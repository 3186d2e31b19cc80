# A formal model of get-comics

get-comics downloads a list of web comics at once. This directory holds TLA+ specifications of how
it does so, the TLC runs that check them on small instances, and machine-checked (TLAPS) proofs
about the engines, the requests, the reader, the configuration, the programs and the threaded versions
for any number of comics, slots, replies, files, runs and threads. Source
references are to `../src`.

## 1. The system

| Part | Source | State it keeps | Operations | Module |
|---|---|---|---|---|
| Native engine | http.c, common.c, socket.c, openssl.c | `head`, `outstanding`, `gotit`, `resets`, the poll table `ufds`, and a `struct connection` for each comic | `main_loop`, `start_next_comic`, `timeout_connections`, `check_connect`, `write_request`, `read_conn`, `redirect`, `reset_connection`, `close_connection`, `fail_connection`, `process_html` | `Engine`, abstractly `Downloads` |
| Reply reader | http.c | buffer, `curp`, `endp`, `rlen`, `length`, `cstate`, `func` of a connection | `read_reply`, `read_file`, `read_file_unsized`, `read_file_gzip`, `read_file_chunked`, `read_chunkblock` | `Reader` |
| Request writer | http.c, socket.c, win32/poll.c | `curp`, `length`, `access`, the state of the socket | `build_request` (its text), `write_request`, `check_connect`, `fixup_url`, `poll` | `Sender` |
| Urls, DNS cache, buffers, TLS connections | http.c, common.c, socket.c, openssl.c, mbedtls.c | `conn->host`, descriptors, the cache of addresses, the free list | `build_request`, `hostcmp`, `fixup_host`, `get_buf`, `free_buf`, `get_cache`, `try_connect`, `connect_socket`, `openssl_connect`, `openssl_check_connect`, `redirect`, `process_html` | `Requests` |
| curl engine (the default build) | curl.c, common.c | as the native engine, sockets hidden in libcurl | `main_loop`, `msg_done`, `write_callback`, `release_connection` | `CurlEngine`, abstractly `Downloads` |
| curl engine with threads | curl.c, common.c | `gotit`, `outstanding`, unlocked | `comic_thread`, `main_loop` | `CurlThreads` |
| Configuration | config.c, my-parser.c | the parser's state, the comic under construction, the list, the templates | `read_config`, `JSON_parser_char`, `parse`, `sanity_check_comic` | `Config` |
| Programs | get-comics.c, http-get.c, link-check.c, win32/getopt.h | options, operands, the list, the exit status | the `main` of each, `cd_comics_dir`, `getopt` | `Programs`, `GetOpt` |
| Names and files | common.c, get-comics.c, config.c, win32/dirent.c | directories | `create_outname`, `do_add_regexp`, `lazy_imgtype`, `clean_dir`, `clean_index_dir`, `readdir` | `Files`, `Programs` |
| Go version | get-comics.go | `got`, a channel | `main`, `get_comic`, `set_done` | `GoComics` |
| Python version | get-comics.py | `Comic.got`, a semaphore, a lock | the main loop, `comic_thread`, `stage2` | `PyComics` |
| Scripts, Makefile | get-links, get-today-http | none | | not modelled |

How they interact: `main` reads the configuration into the list `comics`, and calls `main_loop`, the
only thread. It calls `start_next_comic` (which connects through socket.c and the TLS library), waits
in `poll()`, and sweeps the list; for each ready connection it runs the function that connection is
due. That function reads the reply, may open a new connection (a redirect, a reset, the second stage
of a comic), and finally calls `close_connection` or `fail_connection`. Everything meets in a few
globals: `outstanding` and `head` decide whether the loop goes on and whether a comic starts,
`gotit` gives the exit status. Signals (SIGTERM, SIGHUP) print the list and make `poll()` fail.

What is hard: a handler may close a slot of the poll table that another connection takes before the
sweep gets there; one of several steps may fail after a connection was released; `outstanding` is
changed at many places, and a mistake only shows as a program that never ends; sockets, hosts,
buffers and addresses outlive the requests they were made for; the reader keeps two pointers and
three counters through replies that arrive in arbitrary pieces; three versions count without a lock,
and two of them wait for something that may never be given; a run finds the files that the run
before it left, whole or not. PROJECT.json lists these hazards line by line, with the properties that cover them.

What makes each part right:

* engines: the poll table and the connections agree, and `outstanding` is the number of open connections; events
  are handled by the connection they are for; no more than `thread_limit` connections; each comic is
  counted once, when its image (and not its page) has been got; the loop ends, and not early.
* requests: each goes to a server of its url, over TLS when the url says so; no descriptor and no buffer
  is lost or shared; an address that refuses is not the end of a host. The server is sent one whole request, and the connection ends.
* reader: no read goes past the buffer; the file is the body; a whole reply is
  not failed and a partial one is not got; a body of known length ends.
* configuration: a file as the manual describes it gives the comics it describes, in order; a comic on the list stays as it
  was checked; a file does not act on what the file before it left behind.
* programs: options mean what they say however they are joined; nobody's files are lost; success means
  that every comic was got, and each that came whole is in its file.
* threads: none reports more than was got, starts more than its limit, reports before its threads are done, or waits for ever.

## 2. Modules

### The engines

**`Downloads`** is what an engine promises, without sockets: a comic is queued, active, then got or
missed; they start in the order of the list, at most `Limit` at once; when all are resolved the
program stops. `Start` and `Pass` are `start_one_comic` (with and without a connection), `Deliver` is
`close_connection`, `Miss` is `fail_connection` and `timeout_connections`, `Stop` the end of the loop.

**`Engine`** is the native engine. The variables have the names of the code: `head` (as an index),
`outstanding`, `gotit`, `resets`, `fd` and `revents` (the two fields of `ufds`), `sock` (what
`release_connection` clears: `poll`, `connected`, `ssl`, the events asked for, `func`, `out`, and the
age of `access`), `matched`, `got`, `reset`; `exts` counts extensions appended to `outname`. `pc` and
`cur` say where `main_loop` is: at the top, in one of the two calls of `start_next_comic`, in `poll`, or
in the sweep at comic `cur`. Actions:

| Action | Code |
|---|---|
| `LoopTest`, `StartLink`, `StartComic`, `StartNone` | the loop's condition; `start_next_comic` and `start_one_comic`, one comic a step |
| `PollError`, `PollIdle`, `PollReady` | `poll` returning -1, 0 (with `timeout_connections`), or some ready connections |
| `Turn(c)` | one turn of the inner loop, which runs exactly one of the following handlers to its end |
| `CheckTcp`, `CheckTls` | `check_connect`, `tcp_connected`, `openssl_connect`, `openssl_check_connect` |
| `WriteRequest` | `write_request`: all, a part, or an error |
| `ReadPartial`, `ReadReset`, `ReplyBad`, `ReplyRedirect`, `ReplyHead`, `ReplyOk`, `ReadBody` | `read_conn` and the state functions by outcome, with `redirect`, `reset_connection`, `process_html` and `close_connection` inside |

`BuildRequest` gives the outcomes of `build_request` for a connection without socket: it takes the first free
slot; or fails to open a socket; or meets a TLS failure inside `connect()`, when
`tcp_connected` has already failed the connection (`Dropped`). With REUSE_SOCKET it may also fail before it looks at the socket, for a
second url that is not http: the connection then keeps the socket (`HtmlKept`). Which host a url names is not kept here: where the
code compares hosts both answers are possible (`Requests` has them). The constants choose the modes the
program may be started in (`Modes`: `mode` never changes), the build (`Ssl`, `ReuseSocket`), the two stage comics (`Regexp`) and, for each caller of
`build_request`, whether it may fail (`OpenFails`, `TlsFails`).

**`CurlEngine`** is the build that the Makefile chooses: `main_loop` over the multi interface of libcurl. `handle` is
`conn->curl` together with what libcurl knows of the transfer: running, or ended with status 200 or another, and
`broken` when the body did not come whole. `pc` follows `main_loop`: the first `thread_limit` calls of
`start_next_comic` ("prime"), the first `curl_multi_perform` ("first"), then in turn the call at the top of the
loop ("top"), `curl_multi_perform` ("perform") and the messages ("messages"). `Write` and `Finish`
are libcurl's and happen only inside `curl_multi_perform`, so no handler runs between them and a message; `MsgDone` is
`msg_done` with `process_html`, `close_connection` and `fail_connection` inside, for any ended transfer, since
libcurl promises no order. A handle that `release_connection` removes takes its message with it.

### One connection

**`Reader`** is one connection's reading, in tokens (status line, end of header, CR, LF, digits, data)
instead of bytes. The server's reply is on `wire`; `RecvTcp` and `RecvTls` take any number of tokens
that fit `rlen`, `RecvNothing` is a read of 0 bytes, and each state function is an action that
does what the function does to `curp`, `endp`, `rlen`, `length`, `cstate`, `func` and the file. A
chunk line is walked a token at a step; no action of the environment can come between those steps
(`phase` is then "parse"). `Complete` is what all of them do at the end of a body: search the page and
send the second request, or close. How a comic is read (`setting`: buffer size, TLS, reuse, replies) is chosen at the start from
`Settings` and never changes. `MCReader` gives TLC the replies and the settings.

**`Sender`** is the other half: the text that `build_request` makes (`Request`, with the room that `safecat` counts down, and
`Spaced` for the spaces), the connect that may fail late (`socket`, `soError`: reading the error clears it), `write_request` taking
all, a part, nothing, or an error, resets, and for a page the url of the image made by `FixupUrl`, whose `Escape` is the
`snprintf` of three characters into the room left. `Revents` is `poll()`: that of POSIX, or `PollWin`, which is
win32/poll.c over what `select()` says. `Idle` is `timeout_connections` for this connection.

### All connections together

**`Requests`** has what outlives a request: descriptors (`net.peer`: what each is connected to), `conn->host`, the buffers
and their free list, the cache of addresses. A url is its scheme, host and port; an address is a
machine, and machines may stop and start to accept connections (`Toggle`). `GetCache`, `AddCache`, `TryConnect`,
`Resolve`, `ConnectSocket` (and `ConnectSocket4`, the build for IPV4), `TcpConnected`, `FixupHost` and `BuildRequest` follow the functions of those
names, each as the set of what it may do, since connecting may succeed, wait or fail. The actions are the handlers that call
them; any due one may run next, a superset of what a sweep of `Engine` allows. With mbedTLS a reset inside the handshake resets the connection
and then fails it (`CheckTlsReset`).

### Before and after the loop

**`Config`** reads the files of the command line, a character a step. `jc` is the parser, with the fields of `JC`: each action
is one case of `JSON_parser_char` (`Start` is J_START, and so on), and makes the callback inside it: `OnString`, `OnArrayBegin`,
`OnObjectEnd`... are the cases of `parse`, with what they call down to `add_comic`. A number ends at a character
that is then read again, which takes two steps, as no other action is possible between them. Words inside
strings are one character, and of a comic is kept what decides its fate: the scheme of its url, whether it is for today,
whether it has a regexp. "exited" is any call of `exit`, "undefined" any use of freed memory. Left out: strings longer than
their 256 bytes, and a file that cannot be opened (it exits). `MCConfig` writes
files from the entries they describe, so that the list can be compared with them, and damages them.

**`Programs`** is the `main` of get-comics, http-get and link-check: `Option` is one turn of the loop around `getopt`,
`ConfigOperand`, `UrlOperand` and `ListOperand` take an operand, `Begin` and `BeginHere` are the checks before the loop (and -c). A program that
ends before its loop is "stopped" (a bad option, a file of -l or a directory of -i that cannot be made, a configuration that cannot be read, -V, no thread), later "exit".
In the loop each comic comes to one of the ends it has in the engines, with the files that end leaves. A page comes (`PageCame`) and is searched (`FindRegexp`), an image or a HEAD
comes (`ImageCame`, `HeadCame`), a comic is missed, with or without a part of it in a file (`Missed`), or is only a link (`Link`). A command says of which build it is, native or curl,
and what the network does to it: "resets" are connections that the native engine opens again, whose file gets a second extension if the first was open (`Reset`);
"breaks" are replies that are broken off, or empty, and are still taken for the whole (`PageBroken`, `ImageBroken`: libcurl opens no file for an empty one, so a page of an earlier run
may be the one that is searched). `whole` of a comic says whether all that came of it was its own, and came whole. A comic that is "stuck" stays outstanding for ever (`Waits`).
`NextRun` is a second run in the directories the first one has left. It uses **`GetOpt`** (the `getopt` of the Windows port, a call at a
time, and `Meaning`, what POSIX says a command line means) and **`Files`** (names as sequences of their parts between dots; which
names `clean_dir` and `clean_index_dir` remove).

### Threads

**`CurlThreads`**, **`GoComics`** and **`PyComics`** are the three programs with a thread for each comic. `++` on a shared counter
takes two steps, a read and a write, in each. `GoComics` has the unbuffered channel as `Receive`, which
takes what a goroutine sends and starts the next one; `PyComics` has the semaphore, the lock of the links and exceptions, which release neither. In
`GoComics` the tags of the configuration are visited in any order, as Go walks a map, and a goroutine that panics sends what it deferred before the program dies (`Die`). `MCWorkers` runs the three side by side: `lang` says which one a behaviour is of.

Definitions marked "Mutant" stand beside the ones they mutate: bugs that show that a property can fail. No
specification uses them.

## 3. Runs

Runs that pass:

| Run | Instance | Shows |
|---|---|---|
| engine_plain | all modes; 2 comics (1 of two stages), 2 slots, no TLS; starts and redirects may fail | types; `SlotTable`, `FreshEvents`, `GotExact`, `SecondStageGot`, `ResetsExact`; the engine implements `Downloads`, liveness included |
| engine_tls | all modes; 1 slot, TLS, handshakes failing inside `connect()` on a reset or for an image | `OutstandingExact`, `NoAbandon`, `SlotForStart`, `Termination` |
| curl_multi | 3 comics (2 of two stages), 2 transfers, downloading or writing links; starts may fail, transfers end at any time with any outcome | types; `OutstandingExact`, `OneExtension`, `LoopEnds`; the engine implements `Downloads!SafeSpec` |
| reader | TCP and TLS. Sized replies, plain and gzipped: a buffer shorter than a reply, records that fit it, page and image on one connection. Chunked replies: a buffer that holds them, separate connections. All replies, TLS records longer than a small buffer, a reused connection, servers that close or fall silent anywhere | types; `ReadsFit`, `GotWhole`, `FileIsBody`, `NoFalseFailure`, `PendingRead`, `SizedFinishes` |
| requests | 2 comics, 2 sockets, 3 host names of which 2 share a machine; OpenSSL, mbedTLS and no TLS, with and without REUSE_SOCKET, IPV4; redirects, pages and resets | types; `RightServer`, `HostOfUrl`, `PoolExact`, `FdsExact`, `FallbackTried` |
| sender | POSIX and Windows, with TLS and without; every image url of up to 3 characters in every size of buffer up to 11; buffers around the length of a request | `RequestWhole`, `PathSafe`, `Resolves` |
| config_files | every file of up to two entries of six kinds, with templates; two files of one entry; every file of up to two entries (one, with templates) with one character missing | types, `ReadBack`, `ListedFinal` |
| programs | 34 command lines of the three programs, native and curl, in pairs of runs, 5 configurations, strangers' files, resets and replies that break off | types; `SettingsRight`, `OthersKept`, `CleanExact`, `SuccessMeansFiles`, `PageOwn` |
| workers | the three threaded programs, 3 comics, limits from -1 to 2, links, exceptions, skipped comics | `CountHonest`, `AtMostLimit`, `ReportLast`, `Ends` |

Runs whose property the code violates; each is a finding in PROJECT.json:

| Run | Property | What happens |
|---|---|---|
| curl_links | `Termination` | a two stage comic in links mode: released before it is closed, `outstanding` stays and the loop goes on (common.c:361) |
| config_two | `NoUndefined` | the templates are freed after each file and the pointers kept: used, or freed again, with the next (config.c:301) |
| curl_truncated | `GotWhole` | the status of the reply is looked at, the result of the transfer is not (curl.c:92) |

The passing runs are instantiated outside these cases, and outside these others, which the models show in the same way when
the constants admit them, or which a premise of the property names; each is a hazard in PROJECT.json with its line:

| Module | Case | What fails |
|---|---|---|
| Engine | links mode without REUSE_SOCKET | `Termination`, as curl_links |
| Engine | links are counted by `add_link` and by its callers (common.c:170) | `gotit`, and with it the exit status, of links mode |
| Engine | a reset connection cannot be opened again: nobody decrements `outstanding` (common.c:150) (`"reset"` in `OpenFails`) | `Termination` |
| Engine, CurlEngine | the image of a page cannot be requested (`"html"` in `OpenFails`, `BuildFails`) | `Termination`, `LoopEnds` without its premise |
| Engine | a reset in the middle of a body: the open is deferred again (http.c:538) | `exts` comes to 2, which `OneExtension` denies of the curl build; in `Programs` (`Reset`) the whole file has two extensions, and the part is left under the name with one |
| Reader | a body of known length is cut off by the server: its own tail is counted again, and the comic is got (http.c:905) | `GotWhole` (without `~setting.cuts`) |
| Reader | a chunked page on a reused connection: its last line end is read as the next reply (http.c:689) | `NoFalseFailure` |
| Reader | a gzipped body without Content-Length | `GotWhole` |
| Reader | a chunk line ends exactly at the end of the buffer | `NoFalseFailure` |
| Reader | an unsized body, or a chunked body that is cut off (http.c:824, http.c:598) | `Finished`: it never ends |
| Requests | IPV4, a connect that is refused (socket.c:94) | `FdsExact`, `PoolExact`, `RightServer` (premise `SocketsHandled`) |
| Requests | a link from http to https on the host of a reused socket (http.c:249) | `RightServer` (premise `OneScheme`) |
| Requests | a connect to a cached address is deferred, and fails later (socket.c:202, socket.c:282) | no other address is tried: `FallbackTried` is of addresses that refuse at once, and says nothing of it |
| Sender | a connect that fails on Windows | `Resolves` |
| Config | a `}` where the `]` of the list is missing ends the last comic twice | `NoUndefined`, and the comic is on the list twice |
| Config | `{},` : a comma after an empty entry is refused (my-parser.c:143) | `ReadBack` |
| Programs | a configuration has a timeout, and -T is given (config.c:201) | the configuration goes before the command line, against get-comics.1:91; `SettingsRight` has it as the code does |
| Programs | two comics of the same name | `SuccessMeansFiles`, `PageOwn` (premise `NamesApart`) |
| Programs | what is broken off, or empty, counts as got (curl.c:92, http.c:905, http.c:826, curl.c:15) | the exit status is 0 without the whole file: `SuccessMeansFiles` and `PageOwn` are of comics whose `whole` is true |
| CurlThreads | a transfer that breaks off after a 200 is got (curl.c:92) | it is among the comics that `CountHonest` counts |
| Programs | a name that begins with a dot; a get-comics after an http-get | `CleanExact` (premises of `ProgramsClean`) |
| GoComics | a limit of 0 or less (get-comics.go:435) | `Ends` (in `Finished`) |
| PyComics | exceptions use up the semaphore (get-comics.py:237) | `Ends` (in `Finished`) |
| PyComics | the last comic of the list is not for today (get-comics.py:331) | `ReportLast`, and the links are closed while threads write them |

**Bounds.** `MaxParts` bounds, for each comic, the events that bring a download no further: partial reads
and writes, redirects, TLS retries (the resets are bounded by the code, at 3). One is enough for each handler
to run in each state of the others; `ReadTimeout` 1 lets a connection be fresh, old, and too old, and
`age` stands still beyond it. Two comics and two slots are the least in which a slot changes hands inside a
sweep; one slot for two comics is the least in which a comic waits for a slot. In `Reader`, a body of three tokens is enough to be split twice,
and chunks of two and one tokens to be split inside a chunk and between chunks; `bufsize` is chosen per setting, below the length
of the reply when the wrap-around matters and above when it must not; `MaxOut` bounds how much of a file is
remembered, and is longer than any body; `maxRecord` is the TLS record (16K of a 64K buffer in the code, so a record fits behind
a header: `RecordsFit`, the premise of `PendingRead`).
`CurlEngine` needs no bound: each comic has at most two transfers. Three comics over two transfers are the least in which
a transfer that ended, one that runs and a comic that waits meet; with pages first and last, one sweep of messages both starts a
second stage and frees the place of a comic that waits. In `Requests`, `MaxTries` bounds redirects, pages and resets over all comics: two let a comic leave its host and come back, or
two comics each change theirs; the names `a` and `b` share a machine and `a` has two ports, so a cache, a host or a socket that is mistaken for another
shows; `c` is unknown. In `Sender` a url of three characters has room for the escape to fall before, on and
after every boundary. In `Config` two entries are the least in which one comic could be confused with the
next; the six kinds of entry (for today or not, another scheme, a page with nested comments and escapes, a template, empty) take every branch of
the callback that a good file takes, and the damaged files the refusals. In `Programs` a pair of runs is the least
in which files are left behind; resets and broken replies happen to six of the commands, among them the first and the last of a pair, of both builds, with names that are extended and names that are not. Three comics over two threads are the least in which two count at once and one waits.

**Fairness.** `Engine!Fairness` is `WF(Next)`, the program runs, and `SF(PollIdle \/ PollReady)`, `poll()`
does not fail for ever: it fails on a signal, and signals are sent by hand. Nothing is asked of servers;
`Termination` rests on the timeouts, which is why `PollIdle` (nothing is ready until the wait is over) is
the step that must keep happening. `Reader!Spec` has `WF(Next)`: a connection that stays
silent times out. `CurlEngine!Spec` has `WF(Next)` and, for each comic, `SF(Finish(c))`: `build_request` sets
CURLOPT_LOW_SPEED_LIMIT and CURLOPT_LOW_SPEED_TIME, with which libcurl ends a transfer that brings nothing (one
that trickles for ever above 10 bytes a second is left out), and `curl_multi_perform` is called at every turn. `Sender!Spec` has `WF(Program)`,
so that nothing is asked of the network, and `SF(WriteAll \/ WriteError)`: a TLS library that wants to read before it writes does not go on wanting to. `MCWorkers!Spec` has `WF` of main
and of each thread, and `SF` of the lock of the links, which a waiting thread gets when it is released again and again. Every HTTP request of a thread is one step that ends,
as the libraries' timeouts make it.

Deadlock is checked in every run but workers; a finished program loops in `Terminating`. In workers the Go version with no goroutine allowed, and the Python version
whose semaphore is used up, really do stop for ever; `Ends` says when.

**Handled faults.** `OutstandingExact`, `NoAbandon` and `SlotForStart` of `Engine` are stated under `HandledFaults`, which
names the faults the code does not survive: a reset or a second stage that cannot be opened, links mode without REUSE_SOCKET, and a TLS handshake that fails inside
`connect()` at a start or a redirect, where `tcp_connected` and then its caller both act.
In engine_tls HandledFaults is true and all other faults occur. (That the table, the events and the count of the comics stay right whatever fails is proved.) In `CurlEngine` it guards `OutstandingExact` and `LoopEnds`; in
curl_multi it is true when downloading and false when writing links, where only types, `OneExtension` and the
implementation of `Downloads!SafeSpec` are claimed. The other premises of properties are `SocketsHandled` and `OneScheme` of `Requests`, `Fits` of `Sender` (the request fits its buffer),
`NamesApart` of `Programs` (and, of a single comic, that it came `whole`), `RecordsFit` and `setting.cuts` of `Reader` (a TLS record fits behind a header; the server breaks off): each has its line in the table above, or its note in PROJECT.json.

## 4. Proofs

All of them hold for every value of the constants, from the assumptions of the modules (`SizeAssumption` and
`ModeAssumption` of `Engine`, `CurlAssumption`, `ReaderAssumption`, `RequestsAssumption`, `ConfigAssumption`,
`ProgramsAssumption`, `WorkersAssumption`, `SenderAssumption`), which say that there are finitely many comics, at least one slot, and which set each parameter is in.

| Module | Theorems | Inductive invariant |
|---|---|---|
| `EngineProofs` | `TypeCorrect`, `SlotTableCorrect`, `FreshEventsCorrect`, `GotExactCorrect`, `SecondStageGotCorrect`, `ResetsExactCorrect`: whatever fails. `OutstandingCorrect`, `NoAbandonCorrect`, `SlotForStartCorrect`: with `HandledFaults` inside. `EngineImplements`: `HandledFaults => (SafeSpec => Abstract!SafeSpec)` | `TableInv`; `CountInv`; `FreshInv`, `GotInv`, `ResetInv`, each on top of `TableInv`; `RefInv` |
| `CurlEngineProofs` | `CurlOutstanding`, `CurlOneExtension`, `CurlImplements` (whatever fails) | `Inv` |
| `RequestsProofs` | `RequestsPoolExact`, `RequestsFdsExact`, `RequestsHostOfUrl`, `RequestsRightServer`, and of every step `RequestsFallbackTried` | `RequestsInv` |
| `ReaderProofs` | `ReaderReadsFit`: whatever is sent. `ReaderFileIsBody`, `ReaderGotWhole`, `ReaderPendingRead`, `ReaderNoFalseFailure`: of sized replies that are sent whole | `ReaderInv`; `SizedInv` on top of it |
| `ConfigProofs` | `ConfigTypes`, and of every step `ConfigListedFinal`: whatever the text | `ConfigInv` |
| `ProgramsProofs` | `ProgramsOthersKept`, `ProgramsSuccess`, `ProgramsPageOwn`; `ProgramsSettings`, with `GetoptTakes`; `ProgramsClean` | `ProgramsInv`; `SettingsInv` and `CleanInv`, each on top of it |
| `WorkersProofs` | `CurlCountHonest`, `CurlReportLast`; `GoCountHonest`, `GoAtMostLimit`, `GoReportLast`; `PyCountHonest`, `PyAtMostLimit`, `PyReportLast`; and of whichever runs `WorkersCountHonest`, `WorkersAtMostLimit`, `WorkersReportLast` | `CurlInv`, `GoInv`, `PyInv` |
| `SenderProofs` | `SenderRequestWhole`, `SenderPathSafe` | `SenderInv` |

**The table and the count.** `TableInv` (types, `SlotTable`, and `Queue`: a comic that was not started has no socket) is inductive by itself,
since each handler changes the table only through `Released`/`Freed` and `BuildRequest`; the lemmas
`TurnSocket` and `TurnRest` reduce the eleven handlers to "the socket of c is kept, released, or moved to the first free
slot". `Queue` is what makes a start preserve `SlotTable`: without it the starting comic might own a slot
that is forgotten. `CountInv` adds `OutstandingExact` and `DoneInv` (what `pc = "done"` implies), and needs
the cardinality of `Open` when one connection, or at a timeout a set of them, leaves it. `SlotForStart` then
follows by counting: `SlotTable` makes the open connections and the used slots equinumerous, so fewer than
`Limit` open connections leave a slot free (`FreeSlotFound`), and a least one exists (`LeastNatural`, by well-founded minimum).

**Events, counts and resets.** `FreshEvents` is inductive over `TableInv`: a connection that comes later in the sweep keeps its slot, as the slot that a turn takes is free and so
not its own; that is `SlotTable`. `GotExact` needs `NotGot` (a comic that is queued or open is not got), so that `close_connection` adds one comic to the set and one to `gotit`.
`ResetsExact` needs `ResetQueue` (a queued comic was never reset).

**Refinement.** The status of a comic under the mapping is queued from `head` on, active when it has a socket, else got or missed by `conn->gotit`. Each action maps to a
step of `Downloads` or leaves all statuses as they are, except `PollIdle`: it times out several connections in one
step, which is why `Downloads!Miss` takes a set of comics. `AtMostLimit` of the starts comes from `OutstandingExact`, hence the premise; in the curl build it comes from
`outstanding >= |Open|`, which holds whatever fails (`Count` in `Inv`), and so does the theorem.

**Requests.** `NetInv` is of a net alone: every open descriptor is one that a connection polls, no two connections poll the same, and a buffer
is in one place (`PoolOf`). It is kept by each operator in turn: `GetCache`, `TryConnect`, `Resolve`, `ConnectSocket`, `TcpConnected`, a buffer taken or given
back. `Linked` is what a connect may leave behind, and `Built` what `BuildRequest` may; both say of the connection itself what `ConnInv` and `Serves` need, and of every
other one that it is left alone (`Frame`). The handlers then are one `Built` and a few assignments each. The invariant has the host in it because a
socket is reused on the strength of `conn->host`: `Serves` (a socket is connected to a machine of that host, at its port) would not survive a redirect without
`HostOfUrl`, nor `HostOfUrl` a reset without `SameHost` between the two urls. `SocketsHandled` and `OneScheme` stay premises, inside the properties, where they are.

**The reader.** `BufferInv` says how `curp`, `endp` and `rlen` divide the buffer in each state function, until the server has closed and the last data was taken; the
one thing it needs of the replies is that they are tokens. `SizedInv` follows a reply from the wire to the file: what was sent is what the buffer, the file, the TLS library
and the wire hold, in this order (`HeaderInv` until the end of the header is found, `BodyInv` after it, with `length` for what is still to come). It is proved under `WholeSized`:
nothing is cut off, each reply has a Content-Length that is the length of its body, its header is shorter than the buffer, and a server that
closes is not asked again. Run reader has such settings, plain and gzipped, over TCP and TLS, with page and image on one connection. `ReaderNoFalseFailure` also has `NothingHidden`:
without TLS, or with records that fit. Chunked replies and replies without a length are left to TLC: some do fail (see above), and what a chunked text means is a recursive definition.

**The sender.** `SenderInv` says that what was sent and what is left are together the request for `conn->url`, which a part written, a reset and the second stage keep.
The rest is about texts, and goes by induction over them. The library's theorems on induction take a property as a parameter, which the provers cannot supply; `UpTo` says the
same of a *set* of numbers, and follows from the well-foundedness of `Nat` (`LeastNatural`). `RecursiveExists` gives from it the function that a recursive definition chooses; `Flats` is the one behind
`FlattenSeq`, and `FixupRun` the loop of `fixup_url`, of which `FixupInv` is the invariant. `HeaderWhole` shows that the room that `SAFECAT` thinks is left is enough for each
header when `Fits` holds, though it counts one too many for each.

**The configuration.** `ConfigInv` ties the state of the parser to what it returns to: a comment is nested exactly in J_COMMENT, a string is a key or a value, and a value
of an entry that is complete cannot be reached again before the next `{`. `Building` then says that a comic the parser still writes to is not on the list, from
which `ListedFinal` follows for any text; that is what keeps the dangling `ctx->new` (config.c:272) harmless.

**The programs.** `ProgramsInv` follows a run from its options to its exit, and the next one from there. Before the loop no file but that of -l is touched, and the
list only grows, by comics whose pages have the next numbers (`PagesInv`). A step of the loop is summed up in `Advances(i, new, n)`: comic i becomes `new`, which is still the same comic, n are counted, and at most one file is
written or removed, its page or the image that `new` names (`Writes`). Each of the nine actions is one (`LinkAdvances` ... `MissedAdvances`), and what is got (`AdvancesImages`), the pages (`AdvancesPages`) and the
files of others (`AdvancesOthers`) follow from it alone: by `ImagesApart` no comic, in whatever way its name was extended, writes the file of another, when they are named apart.
`SuccessMeansFiles` is then counting: without links `gotit` is the number of comics that were got (`GotInv`), so when it is the length of the list all were; and by `ImagesInv` a comic that was got
and whose `whole` is true is in the file it was last given a name for. `whole` is a premise on each comic alone, not on the network: others may be broken off in the same run. `ProgramsPageOwn` assumes
`Injective`, that two numbers give two names: `ToString` is TLC's, and the prover knows nothing of it.

**The command line.** `SettingsRight` compares what a program does to what POSIX has its command line mean, which `Meaning` reads off all words at once and `getopt` letter by letter, in
a state of its own. `SettingsInv` ties the two: while options are read, the options that were taken, followed by what remains (`Remains`: of the word that `argptr` is in, or from word
`optind` on), are those of `Meaning`, and `set` holds what the taken ones say (`OptionsTaken`); while operands are read, `set` holds what all options and the configurations read so far say
(`SaidBy`: the timeout is there as the code sets it, the last of the configurations before -T), and the list has their urls (`UrlsListed`). Neither conjunct can do without the other: what an option sets depends on its being the last of its letter. The step from one option to the next is `GetoptTakes`. It needs a solution
of the recursion in `Meaning`; `MeaningSolved` gives one, from the last word to the first (`DownTo`, by well-foundedness, as in the sender), with each case of a word in
`InWordGoesOn`, `InWordArgument` and `InWordNext`. Words are not empty, and neither a letter nor a name is what the model writes for "none" (`ProgramsAssumption`, `Character`).

**What -c removes.** `CleanExact` speaks of the moment the loop begins, and what it needs was true of every file since it was written: an image or a page that get-comics leaves, whole or in part, is named like one
and is not hidden (`DiskNamed` in `CleanInv`), as an extension is appended to the names of get-comics (`set.extend`), whatever the configuration has for a name. `ProgramsClean` has three premises, which the
commands and configurations of run programs fulfil: `NoneHidden` (no name begins with a dot, as clean_dir passes over those), `GetComicsFirst` (http-get leaves images that are not named like images, so
that get-comics is not run after it), and that the files to begin with are named so too. Without any of them -c does leave images behind, by what it is made to do.

**Threads.** A count is never above the comics that were got: the invariant says that neither the counter, nor what any thread has read of it, exceeds the
comics that were got and are past their counting (`Counted`); a thread that writes what it has read plus one joins that set itself. The
limits come from exact counts: `sema` and the threads that hold it make up `nthreads` (`SemaInv`); `main` has started `cur` goroutines and received from those that are gone (`DoneInv`).
The theorems of `MCWorkers`, whose variable `lang` says which of the three runs, come from those of the programs: `lang` never changes, so a behaviour of `MCWorkers`
is one of the program that it names.

Only model-checked:

* everything temporal (`Termination`, `LoopEnds`, `Ends`, `Resolves`, `SizedFinishes`, the liveness of `Downloads` in engine_plain): liveness under fairness, and ENABLED,
are outside what the prover can do;
* of `Reader`, chunked replies and those without a length, except for `ReadsFit`;
* `ReadBack` of `Config`: what a file means is given with the file, and the parser may stop half-way.

In one place the grouping matters to the tools: TLC and the prover do not bind `UNION` and `SUBSET` alike, so these have parentheses in `Engine` and `Requests`.

## 5. Not modelled

* `dump_outstanding` as a signal handler reads the list while it is being changed, and changes nothing but the error `poll()` returns (`PollError`).
* In `CurlEngine` every file can be created: `write_callback` would otherwise free the
  transfer whose callback is running, which libcurl does not define. In `CurlThreads` every thread can be created; joining one that was not is undefined.
* The set-up of the TLS libraries, must_alloc and its relatives, and out of memory: they end the program.
* Empty words on a command line. link-check in the curl build, which writes to files without a name. That `outname` has room for one extension only (common.c:252), which a second one after a reset may pass.
* What is inside an image, a regular expression or a date; the debug log, wording and all printing; `sigpipe`.
* The configuration as the Go and Python versions read it, except for the order of Go's map. (A negative limit of the Go version is modelled like 0. What Python reads for `nthreads` is
  assigned to a local variable and has no effect.)
* win32.c, which only wraps calls of Windows; the regex library beside it, which is vendored; the shell scripts and the Makefile.
* `mbedtls.c`'s reading and writing of records, which do what openssl.c's do for everything that `Reader` and `Sender` look at.

## 6. Plan

The modules were written, and are best read, in the order `Downloads`, `Engine`, `EngineProofs`, `Reader`, `CurlEngine`, `Config`, `Requests`,
`Sender`, `Files`, `GetOpt`, `Programs`, the three of the threads, then the other proofs. What could be added: what is proved
of sized replies, for chunked ones; the handlers of `Requests` in the order in which the sweep of `Engine` runs them.
