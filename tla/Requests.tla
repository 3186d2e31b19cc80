------------------------------ MODULE Requests ------------------------------
(***************************************************************************)
(* What the native engine keeps between the url of a comic and the server  *)
(* that is asked for it: build_request, release_connection and the buffer  *)
(* pool (http.c), the cache of addresses and connect_socket (socket.c),    *)
(* the TLS connections (openssl.c, mbedtls.c), the urls that redirects and *)
(* pages lead to (http.c, common.c).  When each of these runs is the       *)
(* subject of Engine; here any due handler may run next.                   *)
(*                                                                         *)
(* A url is its scheme, the name of its host and the port written in it;   *)
(* its path is left out.  An address stands for a machine, on which every  *)
(* port accepts connections or none does.                                  *)
(***************************************************************************)
EXTENDS Integers, Sequences, FiniteSets

CONSTANTS
    Conns,     \* the comics
    Limit,     \* thread_limit, the number of sockets there may be
    Names,     \* the names of hosts
    Dns,       \* the addresses of a name, in the order getaddrinfo gives them
    BaseHref,  \* the base_href of those comics that have one
    Settings,  \* the programs and webs to consider, see Setting
    MaxTries   \* bound: redirects, pages and resets, over all comics

Range0(s) == {s[i] : i \in DOMAIN s}
Addrs == UNION {Range0(Dns[n]) : n \in Names}

\* Port 0: none is written.
Url == [scheme: {"http", "https"}, name: Names, port: Nat]

\* What a page or a Location may hold: a url; "//" and a host; or a path.
Link == [kind: {"full", "rooted", "path"}, url: Url]

\* Built for IPV4 only (gethostbyname, no cache); with which TLS library; with
\* REUSE_SOCKET.  Machines may stop and start to accept connections.  The
\* comics' urls, and the links that are met.
Setting == [ipv4: BOOLEAN, tls: {"none", "openssl", "mbedtls"}, reuse: BOOLEAN,
            down: BOOLEAN, first: SUBSET Url, links: SUBSET Link]

ASSUME RequestsAssumption ==
    /\ IsFiniteSet(Conns) /\ Limit \in Nat \ {0} /\ MaxTries \in Nat
    /\ \A n \in Names : Dns[n] \in Seq(Addrs)
    /\ DOMAIN BaseHref \subseteq Conns
    /\ \A c \in DOMAIN BaseHref : BaseHref[c] \in Url
    /\ Settings \subseteq Setting

VARIABLES
    setting,  \* the one that is considered
    up,       \* the addresses that accept connections
    status,   \* a comic is "queued", "active", or "done": not asked for any more
    outstanding,
    url,      \* conn->url
    matched,  \* conn->matched
    reset,    \* conn->reset
    tries,    \* see MaxTries
    last,     \* how build_request ended; "ok" too when the step did not call it
    net       \* what the operators below change, see Net

vars == <<setting, up, status, outstanding, url, matched, reset, tries, last, net>>

Null == 0
Closed == [addr |-> "none", port |-> 0]
Fds == 1 .. Cardinality(Conns)
Peer == [addr: Addrs, port: Nat]

\* The descriptors of the program, the fields of the connections, the buffer
\* pool and the cache of addresses.
Net == [peer: [Fds -> Peer \cup {Closed}],   \* what a descriptor is connected to
        poll: [Conns -> Fds \cup {Null}],    \* conn->poll->fd
        connected: [Conns -> BOOLEAN],
        ssl: [Conns -> {"none", "shaking", "ready"}],   \* conn->ssl
        asking: [Conns -> BOOLEAN],   \* a request in conn->buf is not yet sent
        host: [Conns -> Url],         \* conn->host, scheme and all
        buf: [Conns -> Nat],          \* conn->buf, Null or the number of a buffer
        free: Seq(Nat \ {Null}),      \* freelist
        bufs: Nat,                    \* how many buffers malloc has given
        cache: Seq([name: Names, peer: Peer])]

IsHttp(u) == u.scheme = "http" \/ setting.tls # "none"
Port(u) == IF u.port # 0 THEN u.port ELSE IF u.scheme = "https" THEN 443 ELSE 80

\* hostcmp: it skips the scheme of either.
SameHost(u, v) == u.name = v.name /\ u.port = v.port

Open(n, c) == n.poll[c] # Null

-----------------------------------------------------------------------------
(* Buffers and connections.                                                *)

GetBuf(n, c) ==
    IF n.buf[c] # Null THEN n
    ELSE IF n.free # <<>> THEN [n EXCEPT !.buf[c] = Head(n.free), !.free = Tail(@)]
    ELSE [n EXCEPT !.buf[c] = n.bufs + 1, !.bufs = @ + 1]

\* Mutant: a null buffer is put into the pool.
FreeBufNull(n, c) == [n EXCEPT !.free = <<n.buf[c]>> \o @, !.buf[c] = Null]

FreeBuf(n, c) ==
    IF n.buf[c] = Null THEN n
    ELSE [n EXCEPT !.free = <<n.buf[c]>> \o @, !.buf[c] = Null]

\* Mutant: the socket is forgotten and not closed.
CloseSocketNot(n, c) == [n EXCEPT !.poll[c] = Null]

CloseSocket(n, c) ==
    IF ~Open(n, c) THEN n
    ELSE [n EXCEPT !.peer[n.poll[c]] = Closed, !.poll[c] = Null]

OpensslClose(n, c) == [n EXCEPT !.ssl[c] = "none"]

Release(n, c) ==
    LET closed == CloseSocket(OpensslClose(n, c), c)
    IN FreeBuf([closed EXCEPT !.connected[c] = FALSE, !.asking[c] = FALSE], c)

-----------------------------------------------------------------------------
(* Connecting.  From here to build_request, an operator is the set of what *)
(* its function may do: the net it leaves, and what it returns.            *)

Returns(n, rc) == [net |-> n, rc |-> rc]

\* One step of the handshake, after which it waits, or is over.
Handshake(n, c) ==
    {[n EXCEPT !.ssl[c] = "shaking"],
     [n EXCEPT !.ssl[c] = "ready", !.connected[c] = TRUE]}

\* openssl_connect, and tcp_connected, which fails the connection when the
\* library, or the first step of the handshake, does.
OpensslConnect(n, c) ==
    {Returns(m, "ok") : m \in Handshake(n, c)} \cup {Returns(Release(n, c), "tls")}

\* The same with mbedtls.  It may find a reset as early as this: then the
\* connection is opened once more, only to be failed, and counted out ("tls"),
\* or cannot be opened, and is not counted out ("reset").
MbedtlsConnect(n, c) ==
    {Returns(m, "ok") : m \in Handshake(n, c)}
        \cup {Returns(Release(n, c), rc) : rc \in {"tls", "reset"}}

TcpConnected(n, c, u) ==
    CASE u.scheme = "http" -> {Returns([n EXCEPT !.connected[c] = TRUE], "ok")}
      [] u.scheme = "https" /\ setting.tls = "openssl" -> OpensslConnect(n, c)
      [] u.scheme = "https" /\ setting.tls = "mbedtls" -> MbedtlsConnect(n, c)

\* connect() to an address: "now", "deferred" or "refused".
TryConnect(a) == IF a \in up THEN {"now", "deferred"} ELSE {"refused", "deferred"}

\* Mutant: the port is not compared.
GetCacheAnyPort(n, name, port) ==
    LET hits == {i \in DOMAIN n.cache : n.cache[i].name = name}
    IN {n.cache[i].peer : i \in {j \in hits : \A k \in hits : j <= k}}

\* The address, port and all, of the first entry for name and port, if any.
GetCache(n, name, port) ==
    LET hits == {i \in DOMAIN n.cache : /\ n.cache[i].name = name
                                       /\ n.cache[i].peer.port = port}
    IN {n.cache[i].peer : i \in {j \in hits : \A k \in hits : j <= k}}

AddCache(n, name, peer) ==
    [n EXCEPT !.cache = <<[name |-> name, peer |-> peer]>> \o @]

\* The descriptor socket() gives.
NewFd(n) == CHOOSE f \in Fds : /\ n.peer[f] = Closed
                               /\ \A g \in 1 .. f - 1 : n.peer[g] # Closed

SlotFree(n) == Cardinality({c \in Conns : Open(n, c)}) < Limit

\* set_conn_socket.
SetConnSocket(n, c, peer) ==
    LET f == NewFd(n) IN [n EXCEPT !.poll[c] = f, !.peer[f] = peer]

\* connect_socket once try_connect has got a socket to peer.
Connected(n, c, u, peer, how) ==
    LET m == SetConnSocket(n, c, peer)
    IN IF ~SlotFree(n) THEN {Returns(n, "full")}
       ELSE IF how = "deferred" THEN {Returns(m, "ok")}
       ELSE TcpConnected(m, c, u)

\* All that may come of try_connect, unless it is refused.
Attempt(n, c, u, peer) ==
    UNION {Connected(n, c, u, peer, how) : how \in TryConnect(peer.addr) \ {"refused"}}

Target(a, u) == [addr |-> a, port |-> Port(u)]

\* Mutant: only the first address is tried.
ResolveFirst(n, c, u) ==
    IF Dns[u.name] = <<>> THEN {Returns(n, "unknown")}
    ELSE LET peer == Target(Dns[u.name][1], u)
         IN Attempt(AddCache(n, u.name, peer), c, u, peer)
              \cup {Returns(n, rc) : rc \in TryConnect(peer.addr) \cap {"refused"}}

\* connect_socket: the addresses of the name in order, until one is not refused.
Resolve(n, c, u) ==
    LET addrs == Dns[u.name]
        Refused(k) == \A i \in 1 .. k : addrs[i] \notin up
        At(k) == Attempt(AddCache(n, u.name, Target(addrs[k], u)), c, u, Target(addrs[k], u))
    IN IF addrs = <<>> THEN {Returns(n, "unknown")}
       ELSE (UNION {At(k) : k \in {i \in DOMAIN addrs : Refused(i - 1)}})
            \cup {Returns(n, "refused") : k \in {i \in {Len(addrs)} : Refused(i)}}

\* connect_socket: the cached address, and if there is none, or it is refused,
\* those of the name.
ConnectSocket(n, c, u) ==
    LET cached == GetCache(n, u.name, Port(u))
    IN (UNION {Attempt(n, c, u, peer) : peer \in cached})
       \cup IF \A peer \in cached : peer.addr \notin up THEN Resolve(n, c, u) ELSE {}

\* connect_socket under IPV4: only the first address, and a connection that is
\* refused keeps in conn->poll the descriptor that is closed.
ConnectSocket4(n, c, u) ==
    IF Dns[u.name] = <<>> THEN {Returns(n, "unknown")}
    ELSE IF ~SlotFree(n) THEN {Returns(n, "full")}
    ELSE LET a == Dns[u.name][1]
             m == SetConnSocket(n, c, Target(a, u))
         IN {Returns(m, "ok") : how \in TryConnect(a) \cap {"deferred"}}
            \cup (UNION {TcpConnected(m, c, u) : how \in TryConnect(a) \cap {"now"}})
            \cup {Returns([m EXCEPT !.peer[m.poll[c]] = Closed], "refused") :
                    how \in TryConnect(a) \cap {"refused"}}

OpenSocket(n, c, u) ==
    IF setting.ipv4 THEN ConnectSocket4(n, c, u) ELSE ConnectSocket(n, c, u)

\* Mutant: conn->host stays what the configuration said.
FixupHostNot(n, c, u) == n

FixupHost(n, c, u) == IF SameHost(n.host[c], u) THEN n ELSE [n EXCEPT !.host[c] = u]

\* build_request for conn->url u.
BuildRequest(n, c, u) ==
    LET kept == IF Open(n, c) /\ ~SameHost(n.host[c], u) THEN Release(n, c) ELSE n
        ready == GetBuf(FixupHost(kept, c, u), c)
        Finish(r) ==
            IF r.rc = "ok" THEN Returns([r.net EXCEPT !.asking[c] = TRUE], "ok")
            ELSE Returns(FreeBuf(r.net, c), r.rc)
    IN IF ~IsHttp(u) THEN {Returns(n, "scheme")}
       ELSE IF Open(ready, c) THEN {Finish(Returns(ready, "ok"))}
       ELSE {Finish(r) : r \in OpenSocket(ready, c, u)}

-----------------------------------------------------------------------------
(* The handlers.                                                           *)

Is(c, s) == status[c] = s
Become(c, s) == status' = [status EXCEPT ![c] = s]
Try == tries < MaxTries /\ tries' = tries + 1

\* fail_redirect: the connection was released before, and is counted out now.
FailRedirect(n, c) == IF Open(n, c) THEN 0 ELSE -1

\* fail_connection: what it adds to outstanding.
FailConnection(n, c) == IF Open(n, c) THEN -1 ELSE 0

\* build_request from n, to which the comic goes on, or comes to an end.  When
\* TLS fails tcp_connected has counted the connection out already.
CountedOut(r) == IF r.rc = "tls" THEN -1 ELSE 0
Goes(c, r) == last' = r.rc /\ Become(c, IF r.rc = "ok" THEN "active" ELSE "done")

\* start_one_comic.
Start(c) ==
    /\ Is(c, "queued") /\ outstanding < Limit
    /\ \E r \in BuildRequest(net, c, url[c]) :
         /\ net' = r.net /\ Goes(c, r)
         /\ outstanding' = outstanding + CountedOut(r) + (IF r.rc = "ok" THEN 1 ELSE 0)
    /\ UNCHANGED <<setting, up, url, matched, reset, tries>>

\* fail_connection and close_connection: a timeout, an error, or the end.
End(c) ==
    /\ Open(net, c)
    /\ net' = Release(net, c) /\ outstanding' = outstanding - 1
    /\ Become(c, "done") /\ last' = "ok"
    /\ UNCHANGED <<setting, up, url, matched, reset, tries>>

\* check_connect: the deferred connect() has succeeded.  When it has not, the
\* pending error is read, and nothing else happens.
CheckConnect(c) ==
    /\ Is(c, "active") /\ Open(net, c) /\ ~net.connected[c] /\ net.ssl[c] = "none"
    /\ net.peer[net.poll[c]] # Closed /\ net.peer[net.poll[c]].addr \in up
    /\ \E r \in TcpConnected(net, c, url[c]) :
         /\ net' = r.net
         /\ \/ r.rc = "ok" /\ UNCHANGED <<status, outstanding>>
            \/ r.rc # "ok" /\ Become(c, "done") /\ outstanding' = outstanding + CountedOut(r)
    /\ last' = "ok"
    /\ UNCHANGED <<setting, up, url, matched, reset, tries>>

\* openssl_check_connect goes on with the handshake; End(c) is its failure.
CheckTls(c) ==
    /\ net.ssl[c] = "shaking"
    /\ net' \in Handshake(net, c) /\ net' # net /\ last' = "ok"
    /\ UNCHANGED <<setting, up, status, outstanding, url, matched, reset, tries>>

\* mbedtls reports that the server reset the connection: it is reset, and for
\* that openssl_check_connect still returns 1, on which the caller fails it.
CheckTlsReset(c) ==
    /\ net.ssl[c] = "shaking" /\ setting.tls = "mbedtls" /\ Try
    /\ reset' = [reset EXCEPT ![c] = @ + 1]
    /\ \/ reset[c] >= 2 /\ net' = Release(net, c) /\ last' = "ok"
          /\ outstanding' = outstanding - 1
       \/ /\ reset[c] < 2
          /\ \E r \in BuildRequest(Release(net, c), c, url[c]) :
               /\ net' = Release(r.net, c) /\ last' = r.rc
               /\ outstanding' = outstanding + CountedOut(r) + FailConnection(r.net, c)
    /\ Become(c, "done")
    /\ UNCHANGED <<setting, up, url, matched>>

\* write_request sends what build_request has put into the buffer.
WriteRequest(c) ==
    /\ net.connected[c] /\ net.asking[c]
    /\ net' = [net EXCEPT !.asking[c] = FALSE] /\ last' = "ok"
    /\ UNCHANGED <<setting, up, status, outstanding, url, matched, reset, tries>>

Reading(c) == Is(c, "active") /\ net.connected[c] /\ ~net.asking[c]

\* read_conn when the read fails: reset_connection.
Reset(c) ==
    /\ Reading(c) /\ Try
    /\ reset' = [reset EXCEPT ![c] = @ + 1]
    /\ \/ reset[c] >= 2 /\ net' = Release(net, c) /\ Become(c, "done") /\ last' = "ok"
          /\ outstanding' = outstanding - 1
       \/ /\ reset[c] < 2
          /\ \E r \in BuildRequest(Release(net, c), c, url[c]) :
               /\ Goes(c, r)
               /\ IF r.rc = "ok" THEN net' = r.net /\ UNCHANGED outstanding
                  ELSE /\ net' = Release(r.net, c)
                       /\ outstanding' = outstanding + CountedOut(r) + FailConnection(r.net, c)
    /\ UNCHANGED <<setting, up, url, matched>>

\* Where a Location leads: whatever is no url is a path on conn->host.
RedirectUrl(c, link) ==
    IF link.kind = "full" /\ IsHttp(link.url) THEN link.url ELSE net.host[c]

Redirect(c, link) ==
    /\ Reading(c) /\ Try
    /\ url' = [url EXCEPT ![c] = RedirectUrl(c, link)]
    /\ \E r \in BuildRequest(Release(net, c), c, url'[c]) :
         /\ net' = r.net /\ Goes(c, r)
         /\ outstanding' = outstanding + CountedOut(r)
                             + (IF r.rc = "ok" THEN 0 ELSE FailRedirect(r.net, c))
    /\ UNCHANGED <<setting, up, matched, reset>>

\* Where the link in a page leads.
HtmlUrl(c, link) ==
    IF link.kind = "full" /\ IsHttp(link.url) THEN link.url
    ELSE IF link.kind = "rooted" THEN [link.url EXCEPT !.scheme = "http"]
    ELSE IF c \in DOMAIN BaseHref THEN BaseHref[c]
    ELSE net.host[c]

\* process_html: it says nothing of a build_request that fails.
Html(c, link) ==
    /\ Reading(c) /\ ~matched[c] /\ Try
    /\ matched' = [matched EXCEPT ![c] = TRUE]
    /\ url' = [url EXCEPT ![c] = HtmlUrl(c, link)]
    /\ \E r \in BuildRequest(IF setting.reuse THEN net ELSE Release(net, c), c, url'[c]) :
         /\ net' = r.net /\ Goes(c, r) /\ outstanding' = outstanding + CountedOut(r)
    /\ UNCHANGED <<setting, up, reset>>

Toggle(a) ==
    /\ setting.down
    /\ up' = IF a \in up THEN up \ {a} ELSE up \cup {a}
    /\ last' = "ok"
    /\ UNCHANGED <<setting, status, outstanding, url, matched, reset, tries, net>>

Init ==
    /\ setting \in Settings /\ up = Addrs
    /\ status = [c \in Conns |-> "queued"] /\ outstanding = 0
    /\ url \in [Conns -> setting.first]
    /\ matched = [c \in Conns |-> FALSE] /\ reset = [c \in Conns |-> 0]
    /\ tries = 0 /\ last = "ok"
    /\ net = [peer |-> [f \in Fds |-> Closed], poll |-> [c \in Conns |-> Null],
              connected |-> [c \in Conns |-> FALSE], ssl |-> [c \in Conns |-> "none"],
              asking |-> [c \in Conns |-> FALSE], host |-> url,
              buf |-> [c \in Conns |-> Null], free |-> <<>>, bufs |-> 0, cache |-> <<>>]

Terminating ==
    /\ \A c \in Conns : ~Open(net, c) /\ (Is(c, "done") \/ outstanding >= Limit)
    /\ UNCHANGED vars

Next ==
    \/ Terminating
    \/ \E c \in Conns :
         \/ Start(c) \/ End(c) \/ CheckConnect(c) \/ CheckTls(c) \/ CheckTlsReset(c)
         \/ WriteRequest(c) \/ Reset(c)
         \/ \E link \in setting.links : Redirect(c, link) \/ Html(c, link)
    \/ \E a \in Addrs : Toggle(a)

Spec == Init /\ [][Next]_vars

-----------------------------------------------------------------------------
TypeOK ==
    /\ setting \in Settings /\ up \subseteq Addrs
    /\ status \in [Conns -> {"queued", "active", "done"}] /\ outstanding \in Int
    /\ url \in [Conns -> Url] /\ matched \in [Conns -> BOOLEAN]
    /\ reset \in [Conns -> 0 .. 3] /\ tries \in 0 .. MaxTries
    /\ last \in {"ok", "scheme", "unknown", "refused", "full", "tls", "reset"}
    /\ net \in Net

\* Under IPV4 a connection that is refused keeps a closed descriptor, and what
\* is said of sockets below fails.
SocketsHandled == ~(setting.ipv4 /\ setting.down)

\* No host is met under both schemes: hostcmp would take one for the other.
OneScheme ==
    LET met == setting.first \cup {BaseHref[c] : c \in DOMAIN BaseHref}
                 \cup {[l.url EXCEPT !.scheme = IF l.kind = "rooted" THEN "http" ELSE @] :
                         l \in {k \in setting.links : k.kind # "path"}}
    IN \A u \in met, v \in met : SameHost(u, v) => u = v

\* A request that is due goes to a machine the host of its url names, to the
\* port of that url, and through TLS exactly when the url says so: whatever
\* sockets were reused and addresses cached, over redirects and both stages.
RightServer ==
    SocketsHandled /\ OneScheme =>
        \A c \in Conns : net.asking[c] /\ net.connected[c] =>
            LET peer == net.peer[net.poll[c]]
            IN /\ peer # Closed /\ peer.addr \in Range0(Dns[url[c].name])
               /\ peer.port = Port(url[c])
               /\ net.ssl[c] = IF url[c].scheme = "https" THEN "ready" ELSE "none"

\* conn->host, which TLS is told and which relative links are completed with,
\* is the host of conn->url whenever a request is due.
HostOfUrl == \A c \in Conns : net.asking[c] => SameHost(net.host[c], url[c])

\* Types; and the buffers: each is owned by one connection, or is once on the free list;
\* and a connection has one while it has a socket, so there is never more than
\* one of them beyond thread_limit, for a request that then finds no slot.
PoolExact ==
    LET owners == {c \in Conns : net.buf[c] # Null}
        owned == {net.buf[c] : c \in owners}
    IN /\ TypeOK
       /\ Cardinality(owned) = Cardinality(owners)
       /\ owned \cup Range0(net.free) = 1 .. net.bufs
       /\ Cardinality(owned) + Len(net.free) = net.bufs
       /\ SocketsHandled => owners = {c \in Conns : Open(net, c)} /\ net.bufs <= Limit + 1

\* The open descriptors are those of the connections, one each: none is leaked
\* and none is closed under a connection that uses it.
FdsExact ==
    SocketsHandled =>
        LET open == {c \in Conns : Open(net, c)}
        IN /\ \A c \in open : net.peer[net.poll[c]] # Closed
           /\ Cardinality({net.poll[c] : c \in open}) = Cardinality(open)
           /\ \A f \in Fds : net.peer[f] # Closed => \E c \in open : net.poll[c] = f

\* A request is given up as refused only when no address of its host accepts
\* connections, however many of them were refused before and whatever is cached.  (A
\* connect that is deferred is no refusal yet: when it fails later, End is all that
\* comes of it, and the other addresses are not tried.)
FallbackTried ==
    [][\A c \in Conns :
         last' = "refused" /\ status'[c] # status[c] /\ ~setting.ipv4
           => Range0(Dns[url'[c].name]) \cap up = {}]_vars
=============================================================================
