------------------------------- MODULE Engine -------------------------------
(***************************************************************************)
(* The native download engine of get-comics: main_loop and the state       *)
(* functions of http.c, the life of a connection in common.c, connecting   *)
(* in socket.c and openssl.c.  It is one thread around poll(): it starts   *)
(* comics from the list while there are slots, waits, and then sweeps the  *)
(* list of comics once, running the handler each ready connection is due.  *)
(*                                                                         *)
(* What the bytes of a reply say is abstracted to what the handlers do     *)
(* about them (a partial reply, a redirect, the end of a body...).  Which  *)
(* host and scheme a url names is not kept: wherever the code looks, both  *)
(* answers are possible.                                                   *)
(***************************************************************************)
EXTENDS Integers, FiniteSets

CONSTANTS
    N,            \* n_comics, the length of the list of comics
    Limit,        \* thread_limit, the size of the poll table ufds
    ReadTimeout,  \* read_timeout, in the units that age counts
    MaxParts,     \* bound: unproductive events the network has for a comic
    Regexp,       \* comics found in two stages: a page, then what it names
    Modes,        \* how the program may be run: "get"; "links", to write links
                  \* and not download them (-l); "head", to ask with HEAD
                  \* requests only (link-check)
    ReuseSocket,  \* built with REUSE_SOCKET: persistent connections
    Ssl,          \* built with WANT_SSL
    OpenFails,    \* callers of build_request whose connect_socket may fail
    TlsFails      \* callers that may meet a TLS failure inside connect()

Comics == 1 .. N
Slots == 0 .. Limit - 1
None == -1        \* a null conn->poll, and the fd of a free slot

\* Who calls build_request: start_one_comic, redirect, reset_connection and
\* process_html.
Callers == {"start", "redirect", "reset", "html"}

ASSUME SizeAssumption ==
    /\ N \in Nat \ {0}
    /\ Limit \in 1 .. N
    /\ ReadTimeout \in Nat
    /\ MaxParts \in Nat

ASSUME ModeAssumption ==
    /\ Regexp \subseteq Comics
    /\ Modes \subseteq {"get", "links", "head"}
    /\ {ReuseSocket, Ssl} \subseteq BOOLEAN
    /\ OpenFails \subseteq Callers
    /\ TlsFails \subseteq Callers

VARIABLES
    mode,         \* what the command line says (links_only, method)
    pc,           \* where main_loop is
    cur,          \* the comic the sweep has reached, 0 outside the sweep
    head,         \* the next comic to start, N + 1 when none is left
    outstanding,  \* the count of connections the loop believes are open
    gotit,        \* the count of comics, or links, the program has got
    resets,       \* the count of comics that were ever reset
    fd,           \* ufds[i].fd: the comic whose socket slot i polls, or None
    revents,      \* ufds[i].revents
    sock,         \* the part of a connection that release_connection clears
    matched,      \* conn->matched: the second stage has begun
    got,          \* conn->gotit
    reset,        \* conn->reset
    exts,         \* how often an extension was appended to conn->outname
    parts         \* unproductive events so far, at most MaxParts

LinksOnly == mode = "links"
HeadOnly == mode = "head"

counts == <<outstanding, gotit, resets>>
vars == <<mode, pc, cur, head, outstanding, gotit, resets, fd, revents, sock,
          matched, got, reset, exts, parts>>

-----------------------------------------------------------------------------
(* Connections and the poll table.                                         *)

\* age is the time since conn->access; beyond ReadTimeout it stands still.
Sock == [poll: Slots \cup {None}, connected: BOOLEAN, ssl: BOOLEAN,
         events: {"POLLIN", "POLLOUT"},
         func: {"none", "read_reply", "read_body"},
         out: BOOLEAN, age: 0 .. ReadTimeout + 1]

\* What release_connection leaves of a connection.
Released == [poll |-> None, connected |-> FALSE, ssl |-> FALSE,
             events |-> "POLLOUT", func |-> "none", out |-> FALSE, age |-> 0]

Open == {c \in Comics : sock[c].poll # None}

\* The poll table once release_connection(c) has closed the socket.
Freed(c) ==
    IF sock[c].poll = None THEN fd ELSE [fd EXCEPT ![sock[c].poll] = None]

\* Mutant: the slot is taken to be the number of slots in use.
FirstFreeByCount(table) ==
    {s \in Slots : s = Cardinality({t \in Slots : table[t] # None})}

\* The slot set_conn_socket takes: the first whose fd is -1.
FirstFree(table) ==
    {s \in Slots : table[s] = None /\ \A t \in 0 .. s - 1 : table[t] # None}

\* A socket right after connect(): still connecting, connected, or, for
\* https, wherever the handshake stands after its first step.
Deferred == [connected |-> FALSE, ssl |-> FALSE, events |-> "POLLOUT"]
TlsWaiting == {[connected |-> FALSE, ssl |-> TRUE, events |-> e] :
                 e \in {"POLLIN", "POLLOUT"}}
TlsReady == [connected |-> TRUE, ssl |-> TRUE, events |-> "POLLOUT"]
TcpConnected ==
    {[connected |-> TRUE, ssl |-> FALSE, events |-> "POLLOUT"]}
      \cup IF Ssl THEN TlsWaiting \cup {TlsReady} ELSE {}

Opened(s, k) ==
    [poll |-> s, connected |-> k.connected, ssl |-> k.ssl,
     events |-> k.events, func |-> "none", out |-> FALSE, age |-> 0]

(***************************************************************************)
(* build_request for a connection that has no socket, table being the poll *)
(* table at that moment.  rc tells its caller's outcome apart: "ok";       *)
(* "failed", no socket was opened; "tls", connect() succeeded at once, the *)
(* TLS handshake failed, and tcp_connected has called fail_connection.     *)
(***************************************************************************)
BuildRequest(c, caller, table, kinds, rc) ==
    \/ /\ rc = "ok"
       /\ \E s \in FirstFree(table), k \in kinds :
            /\ fd' = [table EXCEPT ![s] = c]
            /\ sock' = [sock EXCEPT ![c] = Opened(s, k)]
    \/ /\ \/ rc = "failed" /\ (caller \in OpenFails \/ FirstFree(table) = {})
          \/ rc = "tls" /\ Ssl /\ caller \in TlsFails /\ FirstFree(table) # {}
       /\ fd' = table
       /\ sock' = [sock EXCEPT ![c] = Released]

Outcomes == {"ok", "failed", "tls"}

\* Mutant: tcp_connected reports the TLS failure but does not fail the comic.
DroppedNothing(rc) == IF rc = "tls" THEN 0 ELSE 0

\* How much tcp_connected has already taken from outstanding.
Dropped(rc) == IF rc = "tls" THEN 1 ELSE 0

\* close_connection and fail_connection, for an open connection.
CloseConnection(c) ==
    /\ fd' = Freed(c)
    /\ sock' = [sock EXCEPT ![c] = Released]
    /\ outstanding' = outstanding - 1
    /\ gotit' = gotit + 1
    /\ got' = [got EXCEPT ![c] = TRUE]

FailConnection(c) ==
    /\ fd' = Freed(c)
    /\ sock' = [sock EXCEPT ![c] = Released]
    /\ outstanding' = outstanding - 1
    /\ UNCHANGED <<gotit, got>>

-----------------------------------------------------------------------------
(* The main loop outside the sweep.                                        *)

\* Mutant: the loop ends with the list.
LoopTestListOnly ==
    /\ pc = "top"
    /\ pc' = IF head <= N THEN "start" ELSE "done"
    /\ UNCHANGED <<mode, cur, head, counts, fd, revents, sock, matched, got, reset,
                   exts, parts>>

\* The condition of the main loop, tested at the top of every turn.
LoopTest ==
    /\ pc = "top"
    /\ pc' = IF head <= N \/ outstanding > 0 THEN "start" ELSE "done"
    /\ UNCHANGED <<mode, cur, head, counts, fd, revents, sock, matched, got, reset,
                   exts, parts>>

\* start_next_comic returns: to the poll, or from the idle branch to the top.
StartReturns == IF pc = "start" THEN "poll" ELSE "top"

Starting == pc \in {"start", "restart"}

\* Mutants: one start too many; the end of the list is not tested.
CanStartBeyond == head <= N /\ outstanding <= Limit
CanStartPastEnd == outstanding < Limit

CanStart == head <= N /\ outstanding < Limit

\* start_one_comic when only links are wanted and the url is the link:
\* add_link counts the comic, then start_one_comic counts it again.
StartLink ==
    /\ Starting /\ CanStart /\ LinksOnly /\ head \notin Regexp
    /\ gotit' = gotit + 2
    /\ got' = [got EXCEPT ![head] = TRUE]
    /\ head' = head + 1
    /\ UNCHANGED <<mode, pc, cur, outstanding, resets, fd, revents, sock, matched,
                   reset, exts, parts>>

\* start_one_comic with a connection: the loop of start_next_comic ends with
\* the first success.
StartComic ==
    /\ Starting /\ CanStart /\ (~LinksOnly \/ head \in Regexp)
    /\ \E rc \in Outcomes :
         /\ BuildRequest(head, "start", fd, TcpConnected \cup {Deferred}, rc)
         /\ outstanding' = outstanding - Dropped(rc) + (IF rc = "ok" THEN 1 ELSE 0)
         /\ pc' = IF rc = "ok" THEN StartReturns ELSE pc
    /\ head' = head + 1
    /\ UNCHANGED <<mode, cur, gotit, resets, revents, matched, got, reset, exts, parts>>

StartNone ==
    /\ Starting /\ ~CanStart
    /\ pc' = StartReturns
    /\ UNCHANGED <<mode, cur, head, counts, fd, revents, sock, matched, got, reset,
                   exts, parts>>

\* poll() fails, a signal for one: the loop goes round.
PollError ==
    /\ pc = "poll"
    /\ pc' = "top"
    /\ UNCHANGED <<mode, cur, head, counts, fd, revents, sock, matched, got, reset,
                   exts, parts>>

Older(s, time) ==
    [s EXCEPT !.age = IF @ + time > ReadTimeout THEN ReadTimeout + 1 ELSE @ + time]

\* Mutant: nothing ever times out.
ExpiredNever == {c \in Open : sock[c].age > ReadTimeout + 1}

Expired == {c \in Open : sock[c].age + 1 > ReadTimeout}

\* Nothing is ready: poll() has waited, timeout_connections fails every open
\* connection that is too old, and more comics are started.
PollIdle ==
    /\ pc = "poll"
    /\ fd' = [s \in Slots |-> IF fd[s] \in Expired THEN None ELSE fd[s]]
    /\ revents' = [s \in Slots |-> "none"]
    /\ sock' = [c \in Comics |-> IF c \in Expired THEN Released
                                 ELSE IF c \in Open THEN Older(sock[c], 1)
                                 ELSE sock[c]]
    /\ outstanding' = outstanding - Cardinality(Expired)
    /\ pc' = "restart"
    /\ UNCHANGED <<mode, cur, head, gotit, resets, matched, got, reset, exts, parts>>

\* poll() finds some connections ready for what they asked, soon or late.
PollReady ==
    /\ pc = "poll"
    /\ \E ready \in (SUBSET Open) \ {{}}, time \in 0 .. 1 :
         /\ revents' = [s \in Slots |->
                          IF fd[s] \in ready THEN sock[fd[s]].events ELSE "none"]
         /\ sock' = [c \in Comics |->
                       IF c \in Open THEN Older(sock[c], time) ELSE sock[c]]
    /\ pc' = "sweep"
    /\ cur' = 1
    /\ UNCHANGED <<mode, head, counts, fd, matched, got, reset, exts, parts>>

-----------------------------------------------------------------------------
(* The sweep.  Each handler below is what one turn of the inner loop runs. *)

\* revents as the sweep reads it through conn->poll.
Revents(c) == IF sock[c].poll = None THEN "none" ELSE revents[sock[c].poll]

Writable(c) == Revents(c) = "POLLOUT" /\ sock[c].connected
Readable(c) == Revents(c) = "POLLIN" /\ sock[c].connected
Connecting(c) == Revents(c) # "none" /\ ~sock[c].connected

\* The network does something that brings the download no further.
Spend(c) == parts[c] < MaxParts /\ parts' = [parts EXCEPT ![c] = @ + 1]

\* A turn for a connection that has no socket or whose socket is not ready.
SkipConn(c) ==
    /\ Revents(c) = "none"
    /\ UNCHANGED <<counts, fd, sock, matched, got, reset, exts, parts>>

\* check_connect before TLS.  A pending SO_ERROR is read, and so cleared, and
\* nothing else is done about it.
CheckTcp(c) ==
    /\ Connecting(c) /\ ~sock[c].ssl
    /\ \/ Spend(c) /\ UNCHANGED <<outstanding, gotit, got, fd, sock>>
       \/ /\ \E k \in TcpConnected :
               sock' = [sock EXCEPT ![c].connected = k.connected,
                                    ![c].ssl = k.ssl, ![c].events = k.events]
          /\ UNCHANGED <<outstanding, gotit, got, fd, parts>>
       \/ Ssl /\ FailConnection(c) /\ UNCHANGED parts
    /\ UNCHANGED <<resets, matched, reset, exts>>

\* check_connect while the handshake is on: openssl_check_connect.
CheckTls(c) ==
    /\ Connecting(c) /\ sock[c].ssl
    /\ \/ /\ Spend(c)
          /\ \E k \in TlsWaiting : sock' = [sock EXCEPT ![c].events = k.events]
          /\ UNCHANGED <<outstanding, gotit, got, fd>>
       \/ /\ sock' = [sock EXCEPT ![c].connected = TRUE, ![c].events = "POLLOUT"]
          /\ UNCHANGED <<outstanding, gotit, got, fd, parts>>
       \/ FailConnection(c) /\ UNCHANGED parts
    /\ UNCHANGED <<resets, matched, reset, exts>>

\* The connection once the whole request is sent.
Sent(s) == [s EXCEPT !.age = 0, !.events = "POLLIN", !.func = "read_reply"]

\* write_request.  All of it sent, the reply is read next; part of it, or
\* -EAGAIN from TLS, and the rest waits for the next POLLOUT.
WriteRequest(c) ==
    /\ Writable(c)
    /\ \/ /\ sock' = [sock EXCEPT ![c] = Sent(sock[c])]
          /\ UNCHANGED <<outstanding, gotit, got, fd, parts>>
       \/ /\ Spend(c)
          /\ sock' = [sock EXCEPT ![c].age = 0]
          /\ UNCHANGED <<outstanding, gotit, got, fd>>
       \/ FailConnection(c) /\ UNCHANGED parts
    /\ UNCHANGED <<resets, matched, reset, exts>>

\* read_conn when the socket gives part of a reply, or -EAGAIN from TLS.
ReadPartial(c) ==
    /\ Readable(c)
    /\ sock[c].func = "read_reply" \/ sock[c].ssl
    /\ Spend(c)
    /\ sock' = [sock EXCEPT ![c].age = 0]
    /\ UNCHANGED <<counts, fd, matched, got, reset, exts>>

\* Mutant: every reset is counted.
CountEveryReset(c) == resets + IF reset[c] >= 0 THEN 1 ELSE 0

\* Only the first reset of a comic is counted.
CountReset(c) == resets + IF reset[c] = 0 THEN 1 ELSE 0

\* read_conn when the read fails: reset_connection.  After the second time it
\* gives up; before, it opens the connection again, and when that fails
\* fail_connection finds conn->poll null and takes nothing from outstanding.
ReadReset(c) ==
    /\ Readable(c)
    /\ reset' = [reset EXCEPT ![c] = @ + 1]
    /\ resets' = CountReset(c)
    /\ \/ reset[c] >= 2 /\ FailConnection(c)
       \/ /\ reset[c] < 2
          /\ \E rc \in Outcomes :
               /\ BuildRequest(c, "reset", Freed(c), TcpConnected \cup {Deferred}, rc)
               /\ outstanding' = outstanding - Dropped(rc)
          /\ UNCHANGED <<gotit, got>>
    /\ UNCHANGED <<matched, exts, parts>>

\* read_reply: the reply is no good, or the output file cannot be opened.
ReplyBad(c) ==
    /\ Readable(c) /\ sock[c].func = "read_reply"
    /\ FailConnection(c)
    /\ UNCHANGED <<resets, matched, reset, exts, parts>>

\* redirect: a new connection, even to the same host.  When build_request
\* fails, fail_redirect takes the comic out of outstanding.
ReplyRedirect(c) ==
    /\ Readable(c) /\ sock[c].func = "read_reply"
    /\ Spend(c)
    /\ \E rc \in Outcomes :
         /\ BuildRequest(c, "redirect", Freed(c), TcpConnected \cup {Deferred}, rc)
         /\ outstanding' =
              outstanding - Dropped(rc) - (IF rc = "ok" THEN 0 ELSE 1)
    /\ UNCHANGED <<gotit, resets, matched, got, reset, exts>>

\* The answer to a HEAD request is all there is to get.
ReplyHead(c) ==
    /\ Readable(c) /\ sock[c].func = "read_reply" /\ HeadOnly
    /\ CloseConnection(c)
    /\ UNCHANGED <<resets, matched, reset, exts, parts>>

\* Mutant: conn->matched is not looked at, nor is the regexp.
FirstStageNever(c) == c \notin Comics

\* The page of a two stage comic is complete and is searched for the link of
\* the second stage.
FirstStage(c) == c \in Regexp /\ ~matched[c]

\* process_html, links wanted: add_link counts the comic, close_connection
\* counts it again, unless release_connection came first.
HtmlLink(c) ==
    /\ LinksOnly
    /\ matched' = [matched EXCEPT ![c] = TRUE]
    /\ got' = [got EXCEPT ![c] = TRUE]
    /\ fd' = Freed(c)
    /\ sock' = [sock EXCEPT ![c] = Released]
    /\ gotit' = gotit + (IF ReuseSocket THEN 2 ELSE 1)
    /\ outstanding' = outstanding - (IF ReuseSocket THEN 1 ELSE 0)

\* process_html, same host: the socket is kept and becomes writable.
HtmlReuse(c, s) ==
    /\ ~LinksOnly /\ ReuseSocket
    /\ matched' = [matched EXCEPT ![c] = TRUE]
    /\ sock' = [sock EXCEPT ![c] = [s EXCEPT !.events = "POLLOUT", !.out = FALSE]]
    /\ UNCHANGED <<outstanding, gotit, got, fd>>

\* process_html, and build_request fails before it looks at the socket, as for a
\* url that is not http: the socket is kept, and the page is read on.
HtmlKept(c, s) ==
    /\ ~LinksOnly /\ ReuseSocket /\ "html" \in OpenFails
    /\ matched' = [matched EXCEPT ![c] = TRUE]
    /\ sock' = [sock EXCEPT ![c] = [s EXCEPT !.out = FALSE]]
    /\ UNCHANGED <<outstanding, gotit, got, fd>>

\* Mutant: the match is counted as the comic.
HtmlOpenCounts(c) ==
    /\ ~LinksOnly
    /\ matched' = [matched EXCEPT ![c] = TRUE]
    /\ \E rc \in Outcomes :
         /\ BuildRequest(c, "html", Freed(c), {Deferred}, rc)
         /\ outstanding' = outstanding - Dropped(rc)
    /\ gotit' = gotit + 1
    /\ got' = [got EXCEPT ![c] = TRUE]

\* process_html, another host: when build_request fails it says so, and
\* nobody takes the comic out of outstanding.
HtmlOpen(c) ==
    /\ ~LinksOnly
    /\ matched' = [matched EXCEPT ![c] = TRUE]
    /\ \E rc \in Outcomes :
         /\ BuildRequest(c, "html", Freed(c),
                {[k EXCEPT !.events = "POLLOUT"] : k \in TcpConnected \cup {Deferred}}, rc)
         /\ outstanding' = outstanding - Dropped(rc)
    /\ UNCHANGED <<gotit, got>>

ProcessHtml(c, s) ==
    \/ FailConnection(c) /\ UNCHANGED matched
    \/ HtmlLink(c)
    \/ HtmlReuse(c, s) \/ HtmlKept(c, s)
    \/ HtmlOpen(c)

(***************************************************************************)
(* A turn of the function that reads the body, s being the connection as   *)
(* that function finds it.  It may write, and the first write of a body    *)
(* whose file is not open yet appends an extension to the name.            *)
(***************************************************************************)
Names(c, s) ==
    {0} \cup IF s.out \/ FirstStage(c) THEN {} ELSE {1}

Body(c, s) ==
    \E n \in Names(c, s) :
      /\ exts' = [exts EXCEPT ![c] = @ + n]
      /\ \/ /\ Spend(c)
            /\ sock' = [sock EXCEPT ![c] = [s EXCEPT !.out = @ \/ n = 1]]
            /\ UNCHANGED <<outstanding, gotit, got, fd, matched>>
         \/ FailConnection(c) /\ UNCHANGED <<matched, parts>>
         \/ ~FirstStage(c) /\ CloseConnection(c) /\ UNCHANGED <<matched, parts>>
         \/ FirstStage(c) /\ ProcessHtml(c, s) /\ UNCHANGED parts

\* read_reply, status 200: the page of a first stage goes to its own file at
\* once, any other file is opened by the first write.  What came with the
\* reply is read as body straight away.
ReplyOk(c) ==
    /\ Readable(c) /\ sock[c].func = "read_reply" /\ ~HeadOnly
    /\ LET s == [sock[c] EXCEPT !.func = "read_body", !.out = FirstStage(c), !.age = 0]
       IN \/ /\ sock' = [sock EXCEPT ![c] = s]
             /\ UNCHANGED <<outstanding, gotit, got, fd, matched, exts, parts>>
          \/ Body(c, s)
    /\ UNCHANGED <<resets, reset>>

ReadBody(c) ==
    /\ Readable(c) /\ sock[c].func = "read_body"
    /\ Body(c, [sock[c] EXCEPT !.age = 0])
    /\ UNCHANGED <<resets, reset>>

\* Mutant: a connection that has just been opened gets another turn.
AfterTurnAgain(c) ==
    IF sock'[c].poll \notin {None, sock[c].poll} THEN c
    ELSE IF c < N THEN c + 1 ELSE 0

\* The comic the sweep goes on with, 0 when it is over.
AfterTurn(c) == IF c < N THEN c + 1 ELSE 0

\* One turn of the sweep, and on to the next comic or round the main loop.
Turn(c) ==
    /\ pc = "sweep" /\ cur = c
    /\ \/ SkipConn(c) \/ CheckTcp(c) \/ CheckTls(c) \/ WriteRequest(c)
       \/ ReadPartial(c) \/ ReadReset(c) \/ ReplyBad(c) \/ ReplyRedirect(c)
       \/ ReplyHead(c) \/ ReplyOk(c) \/ ReadBody(c)
    /\ cur' = AfterTurn(c)
    /\ pc' = IF AfterTurn(c) = 0 THEN "top" ELSE "sweep"
    /\ UNCHANGED <<mode, head, revents>>

Terminating == pc = "done" /\ UNCHANGED vars

-----------------------------------------------------------------------------
Init ==
    /\ mode \in Modes
    /\ pc = "top" /\ cur = 0 /\ head = 1
    /\ outstanding = 0 /\ gotit = 0 /\ resets = 0
    /\ fd = [s \in Slots |-> None]
    /\ revents = [s \in Slots |-> "none"]
    /\ sock = [c \in Comics |-> Released]
    /\ matched = [c \in Comics |-> FALSE]
    /\ got = [c \in Comics |-> FALSE]
    /\ reset = [c \in Comics |-> 0]
    /\ exts = [c \in Comics |-> 0]
    /\ parts = [c \in Comics |-> 0]

Next ==
    \/ LoopTest \/ StartLink \/ StartComic \/ StartNone
    \/ PollError \/ PollIdle \/ PollReady
    \/ \E c \in Comics : Turn(c)
    \/ Terminating

(***************************************************************************)
(* The program keeps running, and poll() does not fail for ever.  No more  *)
(* is asked of the network: a server may fall silent at any point, and     *)
(* MaxParts is what makes replies, bodies and chains of redirects finite.  *)
(***************************************************************************)
Fairness == WF_vars(Next) /\ SF_vars(PollIdle \/ PollReady)

SafeSpec == Init /\ [][Next]_vars
Spec == SafeSpec /\ Fairness

-----------------------------------------------------------------------------
TypeOK ==
    /\ mode \in Modes
    /\ pc \in {"top", "start", "restart", "poll", "sweep", "done"}
    /\ cur \in 0 .. N /\ head \in 1 .. N + 1
    /\ outstanding \in Int /\ gotit \in Nat /\ resets \in Nat
    /\ fd \in [Slots -> Comics \cup {None}]
    /\ revents \in [Slots -> {"none", "POLLIN", "POLLOUT"}]
    /\ sock \in [Comics -> Sock]
    /\ matched \in [Comics -> BOOLEAN]
    /\ got \in [Comics -> BOOLEAN]
    /\ reset \in [Comics -> Nat]
    /\ exts \in [Comics -> Nat]
    /\ parts \in [Comics -> 0 .. MaxParts]

\* A slot and a connection always point at each other: no socket is polled
\* for a connection that let go of it, no two connections share a slot, and
\* so never more than Limit sockets are open.
SlotTable ==
    /\ \A s \in Slots : fd[s] # None => sock[fd[s]].poll = s
    /\ \A c \in Comics : sock[c].poll # None => fd[sock[c].poll] = c

(***************************************************************************)
(* The faults after which the count of open connections stays right.  When *)
(* a reset or a page cannot open its next connection, when a handshake     *)
(* fails inside connect() at a start or a redirect, or when links are      *)
(* collected without REUSE_SOCKET, outstanding goes wrong, and the loop    *)
(* goes on for ever or ends too early.                                     *)
(***************************************************************************)
HandledFaults ==
    /\ OpenFails \cap {"reset", "html"} = {}
    /\ TlsFails \cap {"start", "redirect"} = {}
    /\ "links" \in Modes => ReuseSocket

\* During the sweep the revents a connection still has to handle were reported
\* for the very socket and the events it asks for now, however many slots the
\* connections before it have closed and taken again since poll().
FreshEvents ==
    pc = "sweep" =>
      \A c \in Open : c >= cur => Revents(c) \in {"none", sock[c].events}

\* outstanding, which start_next_comic and the condition of the main loop go
\* by, is the number of connections that are open.
OutstandingExact == HandledFaults => outstanding = Cardinality(Open)

\* The main loop returns only when the whole list was started and no
\* connection is left open.
NoAbandon == HandledFaults /\ pc = "done" => head = N + 1 /\ Open = {}

\* A start is never refused a slot of the poll table: outstanding < thread_limit
\* means that one is free.
SlotForStart == HandledFaults /\ CanStart => FirstFree(fd) # {}

\* gotit, from which the exit status is computed, counts the comics got, each
\* once, and none that is still being downloaded.
GotExact ==
    ~LinksOnly => /\ gotit = Cardinality({c \in Comics : got[c]})
                  /\ \A c \in Open : ~got[c]

\* The page of a two stage comic is never counted as the comic itself.
SecondStageGot == ~HeadOnly => \A c \in Regexp : got[c] => matched[c]

\* resets counts the comics that were ever reset, each once, and no comic
\* still holds a connection after its third reset.
ResetsExact ==
    /\ resets = Cardinality({c \in Comics : reset[c] > 0})
    /\ \A c \in Open : reset[c] <= 2

\* The loop ends, whatever the network does: no comic keeps the program
\* waiting for ever.
Termination == <>(pc = "done")

\* The engine keeps the promises of Downloads: comics start in order and at
\* most Limit at once, each is resolved exactly once, and the loop returns
\* when, and only when, all of them are.
Status(c) ==
    IF c >= head THEN "queued"
    ELSE IF c \in Open THEN "active"
    ELSE IF got[c] THEN "got" ELSE "missed"

Abstract == INSTANCE Downloads WITH
                status <- [c \in Comics |-> Status(c)],
                running <- pc # "done"

ImplementsDownloads == Abstract!Spec
=============================================================================
