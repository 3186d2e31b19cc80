------------------------------- MODULE Sender -------------------------------
(***************************************************************************)
(* How the native engine sends a request (http.c): the text that           *)
(* build_request makes of a url, the socket it waits for, and the writes   *)
(* that send it, over again when the connection is reset, and of a page    *)
(* the url of the image, made safe by fixup_url.  poll() is that of POSIX, *)
(* or the one of win32/poll.c, made of select().                           *)
(*                                                                         *)
(* A token is a piece of text that is written or sent as a whole: "hi" a   *)
(* byte above 127, " " a space, "a" and "b" anything else.  The TLS        *)
(* handshake is one step here; Engine and Requests have all of it.         *)
(***************************************************************************)
EXTENDS Integers, Sequences, SequencesExt

CONSTANTS
    Settings,    \* see Setting
    MaxReferer,  \* the most tokens of a referer (200 characters)
    ReadTimeout  \* read_timeout, in turns of the loop

Chars == {"a", "b", " ", "hi"}

\* The build: for Windows or not; with a TLS library, for a https url; BUFSIZE
\* and the size of imgurl in tokens.  What is asked for: the path and host of
\* the comic, what its page matches (nothing: one stage), its referer.  What may
\* happen: connections that fail after connect(); resets; writes of a part.
Setting == [win: BOOLEAN, tls: BOOLEAN, bufsize: Nat, imgsize: Nat,
            path: Seq(Chars), match: Seq(Chars), referer: Seq(Chars),
            fails: BOOLEAN, resets: BOOLEAN, parts: BOOLEAN]

ASSUME SenderAssumption ==
    Settings \subseteq Setting /\ MaxReferer \in Nat /\ ReadTimeout \in Nat

VARIABLES
    setting,
    phase,      \* "send", "read": the request is sent; "over"
    path,       \* the path of conn->url
    matched,    \* conn->matched
    reset,      \* conn->reset
    socket,     \* "pending", then "up" or "failed"; "readable": an answer is there
    soError,    \* SO_ERROR is set; reading it clears it
    connected,  \* conn->connected
    events,     \* conn->poll->events
    access,     \* how long ago conn->access was
    curp,       \* what is to be sent: from conn->curp, conn->length of it
    sent        \* what was sent over this connection of this request

conn == <<path, matched, reset>>
net == <<socket, soError, connected, events>>
vars == <<setting, phase, conn, net, access, curp, sent>>

Min2(m, n) == IF m < n THEN m ELSE n
Prefix(s, n) == SubSeq(s, 1, Min2(n, Len(s)))
Suffix(s, n) == SubSeq(s, n + 1, Len(s))

-----------------------------------------------------------------------------
(* The text.                                                               *)

Escaped == <<"%", "h", "i">>

\* Mutant: room for two is taken to be enough.
EscapeShort(room) == Prefix(Escaped, 2)

\* snprintf of the escape, into the room that is left: it writes one less.
Escape(room) == Prefix(Escaped, room - 1)

\* fixup_url.  With room for three, two of them are written, and the text ends.
FixupUrl(url, size) ==
    LET r[i \in 0 .. Len(url)] ==
            IF i = 0 THEN [tmp |-> <<>>, len |-> size - 1, stop |-> FALSE, did |-> FALSE]
            ELSE LET p == r[i - 1]
                 IN IF p.len <= 0 \/ p.stop THEN p
                    ELSE IF url[i] # "hi"
                    THEN [p EXCEPT !.tmp = Append(@, url[i]), !.len = @ - 1]
                    ELSE IF p.len < 3 THEN [p EXCEPT !.stop = TRUE]
                    ELSE [p EXCEPT !.tmp = @ \o Escape(p.len), !.len = @ - 3, !.did = TRUE]
        end == r[Len(url)]
    IN IF end.did THEN end.tmp ELSE url

Crlf == <<"CRLF">>
Host == <<"host">>
HeaderStrings == <<<<"Host:">>, Host, Crlf, <<"User-Agent:">>, <<"agent">>, Crlf,
                   <<"Accept-Encoding: gzip">> \o Crlf>>

\* safecat of each, in the room that is left: it loses one more each time than is
\* written.
FullHeader(line) ==
    LET room(i) == setting.bufsize - Len(line) - 1
                     - Len(FlattenSeq(Prefix(HeaderStrings, i - 1))) - (i - 1)
    IN line \o FlattenSeq([i \in DOMAIN HeaderStrings |-> Prefix(HeaderStrings[i], room(i))])

Spaced(url) ==
    FlattenSeq([i \in DOMAIN url |-> IF url[i] = " " THEN <<"%", "2", "0">> ELSE <<url[i]>>])

RequestLine(url) ==
    IF \E i \in DOMAIN url : url[i] = " "
    THEN <<"GET">> \o Spaced(url) \o <<"HTTP/1.1">> \o Crlf
    ELSE Prefix(<<"GET">> \o url \o <<"HTTP/1.1">> \o Crlf, setting.bufsize - 1)

Referer ==
    IF setting.referer = <<>> THEN <<>>
    ELSE <<"Referer:">> \o Prefix(setting.referer, MaxReferer) \o Crlf

Request(url) == FullHeader(RequestLine(url)) \o Referer \o Crlf

-----------------------------------------------------------------------------
(* The socket.                                                             *)

\* connect_socket on a new socket; it is in progress, or already connected.
Connect(url) ==
    /\ curp' = Request(url) /\ sent' = <<>>
    /\ socket' \in {"pending", "up"} /\ soError' = FALSE
    /\ connected' = (socket' = "up") /\ events' = "POLLOUT"
    /\ access' = 0 /\ phase' = "send"

\* The network ends a connect that is in progress, or brings an answer.
Network ==
    /\ \/ socket = "pending" /\ socket' = "up" /\ UNCHANGED soError
       \/ socket = "pending" /\ setting.fails /\ socket' = "failed" /\ soError' = TRUE
       \/ phase = "read" /\ socket = "up" /\ socket' = "readable" /\ UNCHANGED soError
    /\ phase # "over"
    /\ UNCHANGED <<setting, phase, conn, connected, events, access, curp, sent>>

\* poll() of win32/poll.c, from what select() says of the socket: a connect
\* that failed is an exception, and nothing else.
Select == CASE socket = "up" -> {"write"}
            [] socket = "readable" -> {"read", "write"}
            [] socket = "failed" -> {"except"}
            [] socket = "pending" -> {}
PollWin ==
    {r \in {"POLLIN", "POLLOUT", "POLLERR"} :
        \/ r = "POLLIN" /\ events = "POLLIN" /\ "read" \in Select
        \/ r = "POLLOUT" /\ events = "POLLOUT" /\ "write" \in Select
        \/ r = "POLLERR" /\ "except" \in Select}

\* That of POSIX reports a failed socket as ready, too.
PollPosix == CASE socket = "up" -> {events} \ {"POLLIN"}
               [] socket = "readable" -> {events}
               [] socket = "failed" -> {events, "POLLERR"}
               [] socket = "pending" -> {}

Revents == IF setting.win THEN PollWin ELSE PollPosix

Fail == phase' = "over" /\ UNCHANGED <<setting, conn, net, access, curp, sent>>

\* Mutant: nothing times out.
IdleNever ==
    /\ phase \in {"send", "read"} /\ Revents = {}
    /\ access <= ReadTimeout /\ access' = access + 1
    /\ UNCHANGED <<setting, phase, conn, net, curp, sent>>

\* Nothing is ready: timeout_connections.
Idle ==
    /\ phase \in {"send", "read"} /\ Revents = {}
    /\ \/ access > ReadTimeout /\ Fail
       \/ access <= ReadTimeout /\ access' = access + 1
          /\ UNCHANGED <<setting, phase, conn, net, curp, sent>>

\* The turn of a connection whose revents has neither POLLIN nor POLLOUT.
SkipConn ==
    /\ phase = "send" /\ Revents = {"POLLERR"}
    /\ UNCHANGED vars

Writable == phase = "send" /\ "POLLOUT" \in Revents

\* check_connect.  The error of a failed connect is cleared when it is read, and
\* passes for a connection the next time.
CheckConnect ==
    /\ Writable /\ ~connected
    /\ IF soError
       THEN soError' = FALSE /\ UNCHANGED <<setting, phase, conn, socket, connected, events,
                                            access, curp, sent>>
       ELSE \/ connected' = TRUE /\ (setting.tls => socket = "up")
               /\ UNCHANGED <<setting, phase, conn, socket, soError, events, access, curp, sent>>
            \/ setting.tls /\ Fail

\* All of the rest is sent, and the connection waits for the reply.
WriteAll ==
    /\ Writable /\ connected /\ socket = "up"
    /\ sent' = sent \o curp /\ curp' = <<>>
    /\ phase' = "read" /\ events' = "POLLIN" /\ access' = 0
    /\ UNCHANGED <<setting, conn, socket, soError, connected>>

\* Mutant: curp is not moved on.
WritePartKeepsCurp ==
    /\ Writable /\ connected /\ socket = "up" /\ setting.parts
    /\ \E n \in 1 .. Len(curp) - 1 :
         sent' = sent \o Prefix(curp, n) /\ curp' = Prefix(curp, Len(curp) - n)
    /\ access' = 0
    /\ UNCHANGED <<setting, phase, conn, net>>

\* send, SSL_write and mbedtls_ssl_write may take a part.
WritePart ==
    /\ Writable /\ connected /\ socket = "up" /\ setting.parts
    /\ \E n \in 1 .. Len(curp) - 1 :
         sent' = sent \o Prefix(curp, n) /\ curp' = Suffix(curp, n)
    /\ access' = 0
    /\ UNCHANGED <<setting, phase, conn, net>>

\* TLS wants to read or write first, which is -EAGAIN.
WriteAgain ==
    /\ Writable /\ connected /\ setting.tls
    /\ access' = 0
    /\ UNCHANGED <<setting, phase, conn, net, curp, sent>>

WriteError ==
    /\ Writable /\ connected
    /\ socket = "failed" \/ setting.resets
    /\ Fail

Readable == phase = "read" /\ "POLLIN" \in Revents

\* reset_connection, when reading the reply finds that the connection was reset;
\* build_request may fail.
Reset ==
    /\ Readable /\ setting.resets
    /\ reset' = reset + 1
    /\ \/ reset' <= 2 /\ Connect(path)
       \/ phase' = "over" /\ UNCHANGED <<net, access, curp, sent>>
    /\ UNCHANGED <<setting, path, matched>>

\* process_html, of a page that has come: the request for the image goes over
\* the same connection, or a new one.
Html ==
    /\ Readable /\ setting.match # <<>> /\ ~matched
    /\ matched' = TRUE
    /\ \E image \in {FixupUrl(setting.match, setting.imgsize)} :
          /\ path' = image
          /\ \/ Connect(image)
             \/ /\ curp' = Request(image) /\ sent' = <<>>
                /\ events' = "POLLOUT" /\ phase' = "send"
                /\ socket' = "up" /\ UNCHANGED <<soError, connected, access>>
    /\ UNCHANGED <<setting, reset>>

\* The reply is there.
Close ==
    /\ Readable /\ (setting.match = <<>> \/ matched)
    /\ Fail

Init ==
    /\ setting \in Settings
    /\ path = setting.path /\ matched = FALSE /\ reset = 0
    /\ phase = "send" /\ socket \in {"pending", "up"} /\ soError = FALSE
    /\ connected = (socket = "up") /\ events = "POLLOUT"
    /\ access = 0 /\ curp = Request(path) /\ sent = <<>>

Terminating == phase = "over" /\ UNCHANGED vars

Program ==
    \/ Idle \/ SkipConn \/ CheckConnect
    \/ WriteAll \/ WritePart \/ WriteAgain \/ WriteError
    \/ Reset \/ Html \/ Close

Next == Program \/ Network \/ Terminating

\* The program keeps running, and TLS does not put a write off for ever; of the
\* network nothing is asked.
Spec == Init /\ [][Next]_vars /\ WF_vars(Program) /\ SF_vars(WriteAll \/ WriteError)

-----------------------------------------------------------------------------
\* What is to be asked for, with any number of characters.
Wanted(url) ==
    <<"GET">> \o Spaced(url) \o <<"HTTP/1.1">> \o Crlf \o FlattenSeq(HeaderStrings)
      \o Referer \o Crlf

\* One token for each SAFECAT goes unused.
Fits(url) == Len(Wanted(url)) + Len(HeaderStrings) < setting.bufsize

\* When the program begins to wait for a reply the server has been sent exactly
\* one request, whole, for the url as it is now: whatever the parts it was
\* written in and however often the connection was reset.
RequestWhole == phase = "read" /\ Fits(path) => sent = Wanted(path) /\ curp = <<>>

\* The path of an image names what the page did, without a byte above 127.  When
\* the buffer has no room for it and one to spare it is cut; or left as it was,
\* when the room ends before the first such byte.
Encoded(url) ==
    FlattenSeq([i \in DOMAIN url |-> IF url[i] = "hi" THEN Escaped ELSE <<url[i]>>])
PathSafe ==
    matched =>
        IF Len(Encoded(setting.match)) + 1 < setting.imgsize
        THEN path = Encoded(setting.match)
        ELSE IsPrefix(path, Encoded(setting.match)) \/ path = setting.match

\* A connection is not waited on for ever: its request is answered or it fails,
\* also when the connect fails after connect() has returned.  (On Windows such
\* a failure is no reason to look at the connection, nor to time it out.)
Resolves == ~(setting.win /\ setting.fails) => <>(phase = "over")
=============================================================================
