--------------------------- MODULE RequestsProofs ---------------------------
(***************************************************************************)
(* What is proved about Requests.tla, for any comics, names, addresses and *)
(* webs: the buffers, the descriptors, the hosts and the servers.  The     *)
(* invariant of a net is kept by each operator of the model in turn, and   *)
(* so by build_request, and so by the handlers, which call it.             *)
(***************************************************************************)
EXTENDS Requests, FiniteSetTheorems, TLAPS

LEMMA LeastNatural ==
    ASSUME NEW S \in SUBSET Nat, S # {}
    PROVE  \E m \in S : \A n \in S : m <= n
<1>. DEFINE R == OpToRel(<, Nat)
<1>1. IsWellFoundedOn(R, Nat)
  BY NatLessThanWellFounded
<1>2. \A m, n \in Nat : n < m => <<n, m>> \in R
  BY DEF OpToRel
<1>. HIDE DEF R
<1>3. \E m \in S : \A n \in S : ~(<<n, m>> \in R)
  BY <1>1, WFMin
<1>4. \A m, n \in S : ~(<<n, m>> \in R) => m <= n
  BY <1>2
<1>. QED
  BY <1>3, <1>4

\* A function that takes no value twice has as many as its arguments are.
LEMMA ImageCount ==
    ASSUME NEW S, IsFiniteSet(S), NEW f, \A x, y \in S : f[x] = f[y] => x = y
    PROVE  LET T == {f[x] : x \in S}
           IN IsFiniteSet(T) /\ Cardinality(T) = Cardinality(S)
<1>. DEFINE T == {f[x] : x \in S}
            g == [x \in S |-> f[x]]
<1>1. g \in [S -> T] /\ \A t \in T : \E x \in S : g[x] = t
  OBVIOUS
<1>2. \A x, y \in S : g[x] = g[y] => x = y
  OBVIOUS
<1>. HIDE DEF T, g
<1>3. g \in Surjection(S, T) /\ g \in Injection(S, T)
  BY <1>1, <1>2 DEF Surjection, Injection, IsInjective
<1>4. IsFiniteSet(T) /\ Cardinality(T) = Cardinality(S)
  BY <1>3, FS_Surjection
<1>. QED
  BY <1>4 DEF T

\* The connections that have a socket.
Opened(n) == {c \in Conns : Open(n, c)}

\* Every descriptor that is open is one that a connection knows.
PeerOwned(n) == \A f \in Fds : n.peer[f] # Closed => \E c \in Conns : n.poll[c] = f

\* No two connections know the same one, and none knows a closed one.
SocketsApart(n) ==
    \A c \in Conns : Open(n, c) =>
        /\ n.peer[n.poll[c]] # Closed
        /\ \A d \in Conns : n.poll[d] = n.poll[c] => c = d

\* Each buffer is owned by one connection, or is once on the free list.
PoolOf(buf, free, bufs) ==
    /\ \A c \in Conns : buf[c] <= bufs
    /\ \A c, d \in Conns : buf[c] = buf[d] /\ buf[c] # Null => c = d
    /\ \A i \in 1 .. Len(free) : free[i] <= bufs /\ \A c \in Conns : buf[c] # free[i]
    /\ \A i, j \in 1 .. Len(free) : free[i] = free[j] => i = j
    /\ \A b \in 1 .. bufs :
         (\E c \in Conns : buf[c] = b) \/ (\E i \in 1 .. Len(free) : free[i] = b)

\* What is cached of a name is one of its addresses.
CacheRight(cache) ==
    \A i \in 1 .. Len(cache) : cache[i].peer.addr \in Range0(Dns[cache[i].name])

\* What holds of the whole of a net, inside build_request too.
NetInv(n) ==
    /\ n \in Net
    /\ PeerOwned(n) /\ Cardinality(Opened(n)) <= Limit
    /\ PoolOf(n.buf, n.free, n.bufs)
    /\ CacheRight(n.cache)
    /\ SocketsHandled => SocketsApart(n) /\ n.bufs <= Limit + 1

\* Neither connected nor asking for anything.
Idle(n, c) == ~n.connected[c] /\ n.ssl[c] = "none" /\ ~n.asking[c]

\* The socket of c leads to a server for u, in the way that u says.
Serves(n, c, u) ==
  SocketsHandled /\ OneScheme =>
    /\ n.peer[n.poll[c]].addr \in Range0(Dns[u.name])
    /\ n.peer[n.poll[c]].port = Port(u)
    /\ n.connected[c] => n.ssl[c] = IF u.scheme = "https" THEN "ready" ELSE "none"
    /\ n.ssl[c] # "none" => u.scheme = "https"

\* What holds of one connection between two calls.
ConnInv(n, c) ==
    /\ ~Open(n, c) => Idle(n, c)
    /\ n.connected[c] => n.ssl[c] # "shaking"
    /\ SocketsHandled => (n.buf[c] # Null <=> Open(n, c))
    /\ Open(n, c) => Serves(n, c, n.host[c])

\* And of its url and its status.
AskInv(n, c, u, s) ==
    /\ n.asking[c] => Open(n, c) /\ IsHttp(u) /\ SameHost(n.host[c], u)
    /\ s = "active" => Open(n, c) /\ (n.connected[c] \/ n.asking[c])
    /\ n.ssl[c] = "shaking" => s = "active"

\* The urls that are met.
Met ==
    setting.first \cup {BaseHref[c] : c \in DOMAIN BaseHref}
      \cup {[l.url EXCEPT !.scheme = IF l.kind = "rooted" THEN "http" ELSE @] :
              l \in {k \in setting.links : k.kind # "path"}}

\* get_buf takes the first buffer of the pool, or has one made.
LEMMA PoolTake ==
    ASSUME NEW buf \in [Conns -> Nat], NEW free \in Seq(Nat \ {Null}), NEW bufs \in Nat,
           PoolOf(buf, free, bufs), NEW c \in Conns, buf[c] = Null, free # <<>>
    PROVE  PoolOf([buf EXCEPT ![c] = Head(free)], Tail(free), bufs)
<1>1. /\ Len(free) \in Nat /\ Len(Tail(free)) = Len(free) - 1 /\ Head(free) = free[1]
      /\ 1 \in 1 .. Len(free) /\ Head(free) # Null
      /\ \A i \in 1 .. Len(Tail(free)) : Tail(free)[i] = free[i + 1] /\ i + 1 \in 1 .. Len(free)
  BY DEF Null
<1>2. \A i \in 2 .. Len(free) : i - 1 \in 1 .. Len(Tail(free)) /\ Tail(free)[i - 1] = free[i]
  BY <1>1
<1>. DEFINE b2 == [buf EXCEPT ![c] = Head(free)]
           t == Tail(free)
<1>3. b2[c] = free[1] /\ \A d \in Conns \ {c} : b2[d] = buf[d]
  BY <1>1
<1>. HIDE DEF b2, t
<1>4. \A b \in 1 .. bufs : (\E d \in Conns : b2[d] = b) \/ (\E i \in 1 .. Len(t) : t[i] = b)
  <2>. SUFFICES ASSUME NEW b \in 1 .. bufs
                PROVE  (\E d \in Conns : b2[d] = b) \/ (\E i \in 1 .. Len(t) : t[i] = b)
    OBVIOUS
  <2>1. CASE \E d \in Conns : buf[d] = b
    BY <1>3, <2>1 DEF Null
  <2>2. CASE \E i \in 1 .. Len(free) : free[i] = b
    BY SMTT(60), <1>1, <1>2, <1>3, <2>2 DEF t
  <2>. QED
    BY <2>1, <2>2 DEF PoolOf
<1>5. \A d \in Conns : b2[d] <= bufs
  BY <1>1, <1>3 DEF PoolOf
<1>6. \A d, e \in Conns : b2[d] = b2[e] /\ b2[d] # Null => d = e
  BY <1>1, <1>3 DEF PoolOf
<1>7. \A i \in 1 .. Len(t) : t[i] <= bufs /\ \A d \in Conns : b2[d] # t[i]
  BY <1>1, <1>3 DEF PoolOf, t
<1>8. \A i, j \in 1 .. Len(t) : t[i] = t[j] => i = j
  BY <1>1 DEF PoolOf, t
<1>. QED
  BY <1>4, <1>5, <1>6, <1>7, <1>8 DEF PoolOf, b2, t

\* When the pool is empty it has one made.
LEMMA PoolMake ==
    ASSUME NEW buf \in [Conns -> Nat], NEW free \in Seq(Nat \ {Null}), NEW bufs \in Nat,
           PoolOf(buf, free, bufs), NEW c \in Conns, buf[c] = Null
    PROVE  PoolOf([buf EXCEPT ![c] = bufs + 1], free, bufs + 1)
<1>1. Len(free) \in Nat /\ \A i \in 1 .. Len(free) : free[i] \in Nat
  OBVIOUS
<1>. QED
  BY <1>1 DEF PoolOf, Null

\* free_buf puts it in front of the others.
LEMMA PoolFree ==
    ASSUME NEW buf \in [Conns -> Nat], NEW free \in Seq(Nat \ {Null}), NEW bufs \in Nat,
           PoolOf(buf, free, bufs), NEW c \in Conns, buf[c] # Null
    PROVE  PoolOf([buf EXCEPT ![c] = Null], <<buf[c]>> \o free, bufs)
<1>. DEFINE t == <<buf[c]>> \o free
           b2 == [buf EXCEPT ![c] = Null]
<1>1. /\ Len(free) \in Nat /\ Len(t) = Len(free) + 1 /\ t[1] = buf[c]
      /\ \A i \in 2 .. Len(t) : t[i] = free[i - 1] /\ i - 1 \in 1 .. Len(free)
      /\ \A i \in 1 .. Len(free) : /\ t[i + 1] = free[i] /\ i + 1 \in 1 .. Len(t)
                                   /\ free[i] \in Nat \ {Null}
      /\ 1 \in 1 .. Len(t)
  OBVIOUS
<1>2. b2[c] = Null /\ \A d \in Conns \ {c} : b2[d] = buf[d]
  OBVIOUS
<1>. HIDE DEF b2, t
<1>3. \A i \in 1 .. Len(t) : i = 1 \/ i \in 2 .. Len(t)
  BY <1>1
<1>4. ASSUME NEW b \in 1 .. bufs
      PROVE  (\E d \in Conns : b2[d] = b) \/ (\E i \in 1 .. Len(t) : t[i] = b)
  <2>1. CASE b = buf[c]
    BY <1>1, <2>1
  <2>2. CASE b # buf[c]
    <3>1. CASE \E d \in Conns : buf[d] = b
      BY <1>2, <2>2, <3>1
    <3>2. CASE \E i \in 1 .. Len(free) : free[i] = b
      BY <1>1, <3>2
    <3>. QED
      BY <3>1, <3>2 DEF PoolOf
  <2>. QED
    BY <2>1, <2>2
<1>5. \A d \in Conns : b2[d] <= bufs
  BY <1>2 DEF PoolOf, Null
<1>6. \A d, e \in Conns : b2[d] = b2[e] /\ b2[d] # Null => d = e
  BY <1>2 DEF PoolOf
<1>7. ASSUME NEW i \in 1 .. Len(t)
      PROVE  t[i] <= bufs /\ \A d \in Conns : b2[d] # t[i]
  <2>1. CASE i = 1
    BY <1>1, <1>2, <2>1 DEF PoolOf
  <2>2. CASE i \in 2 .. Len(t)
    <3>1. t[i] = free[i - 1] /\ i - 1 \in 1 .. Len(free) /\ free[i - 1] # Null
      BY <1>1, <2>2
    <3>2. free[i - 1] <= bufs /\ \A d \in Conns : buf[d] # free[i - 1]
      BY <3>1 DEF PoolOf
    <3>. QED
      BY <1>2, <3>1, <3>2
  <2>. QED
    BY <1>3, <2>1, <2>2
<1>8. ASSUME NEW i \in 1 .. Len(t), NEW j \in 1 .. Len(t), t[i] = t[j]
      PROVE  i = j
  <2>1. CASE i = 1 /\ j = 1
    BY <2>1
  <2>2. CASE i = 1 /\ j \in 2 .. Len(t)
    <3>1. t[j] = free[j - 1] /\ j - 1 \in 1 .. Len(free)
      BY <1>1, <2>2
    <3>. QED
      BY <1>1, <1>8, <2>2, <3>1 DEF PoolOf
  <2>3. CASE i \in 2 .. Len(t) /\ j = 1
    <3>1. t[i] = free[i - 1] /\ i - 1 \in 1 .. Len(free)
      BY <1>1, <2>3
    <3>. QED
      BY SMTT(60), <1>1, <1>8, <2>3, <3>1 DEF PoolOf
  <2>4. CASE i \in 2 .. Len(t) /\ j \in 2 .. Len(t)
    <3>1. /\ t[i] = free[i - 1] /\ i - 1 \in 1 .. Len(free)
          /\ t[j] = free[j - 1] /\ j - 1 \in 1 .. Len(free)
      BY <1>1, <2>4
    <3>2. i - 1 = j - 1
      BY <1>8, <3>1 DEF PoolOf
    <3>. QED
      BY <3>2
  <2>. QED
    BY <1>3, <2>1, <2>2, <2>3, <2>4
<1>. QED
  BY <1>4, <1>5, <1>6, <1>7, <1>8 DEF PoolOf, b2, t

LEMMA NetUpdate ==
    ASSUME NEW n \in Net
    PROVE  /\ \A v \in [Fds -> Peer \cup {Closed}] : [n EXCEPT !.peer = v] \in Net
           /\ \A v \in [Conns -> Fds \cup {Null}] : [n EXCEPT !.poll = v] \in Net
           /\ \A v \in [Conns -> BOOLEAN] : /\ [n EXCEPT !.connected = v] \in Net
                                           /\ [n EXCEPT !.asking = v] \in Net
           /\ \A v \in [Conns -> {"none", "shaking", "ready"}] : [n EXCEPT !.ssl = v] \in Net
           /\ \A v \in [Conns -> Url] : [n EXCEPT !.host = v] \in Net
           /\ \A v \in [Conns -> Nat] : [n EXCEPT !.buf = v] \in Net
           /\ \A v \in Seq(Nat \ {Null}) : [n EXCEPT !.free = v] \in Net
           /\ \A v \in Nat : [n EXCEPT !.bufs = v] \in Net
           /\ \A v \in Seq([name: Names, peer: Peer]) : [n EXCEPT !.cache = v] \in Net
BY DEF Net
-----------------------------------------------------------------------------
(* The operators of the model, one by one.                                 *)

\* From n to m nothing that another connection has is changed.
Frame(n, m, c) ==
    \A d \in Conns \ {c} :
        /\ m.poll[d] = n.poll[d] /\ m.connected[d] = n.connected[d]
        /\ m.ssl[d] = n.ssl[d] /\ m.asking[d] = n.asking[d]
        /\ m.host[d] = n.host[d] /\ m.buf[d] = n.buf[d]
        /\ SocketsHandled /\ Open(n, d) => m.peer[n.poll[d]] = n.peer[n.poll[d]]

\* The fields of m are those of n, but for the ones that are not named.
SameSockets(n, m) == m.peer = n.peer /\ m.poll = n.poll
SameBuffers(n, m) == m.buf = n.buf /\ m.free = n.free /\ m.bufs = n.bufs
SameFlags(n, m) == m.connected = n.connected /\ m.ssl = n.ssl /\ m.asking = n.asking

LEMMA FrameTransitive ==
    ASSUME NEW n, NEW m, NEW k, NEW c \in Conns, Frame(n, m, c), Frame(m, k, c)
    PROVE  Frame(n, k, c)
BY DEF Frame, Open

LEMMA SetFlags ==
    ASSUME NEW n, NetInv(n), NEW m \in Net, NEW c \in Conns,
           SameSockets(n, m), SameBuffers(n, m), m.cache = n.cache, m.host = n.host,
           \A d \in Conns \ {c} : /\ m.connected[d] = n.connected[d] /\ m.ssl[d] = n.ssl[d]
                                  /\ m.asking[d] = n.asking[d]
    PROVE  NetInv(m) /\ Frame(n, m, c)
<1>1. Opened(m) = Opened(n)
  BY DEF Opened, Open, SameSockets
<1>2. PeerOwned(m) /\ (SocketsHandled => SocketsApart(m))
  BY DEF NetInv, PeerOwned, SocketsApart, Open, SameSockets
<1>3. NetInv(m)
  BY <1>1, <1>2 DEF NetInv, SameBuffers
<1>. QED
  BY <1>3 DEF Frame, Open, SameSockets, SameBuffers

LEMMA GetBufNet ==
    ASSUME NEW n, NetInv(n), NEW c \in Conns,
           SocketsHandled => \A d \in Conns \ {c} : n.buf[d] # Null => Open(n, d)
    PROVE  LET m == GetBuf(n, c)
           IN /\ NetInv(m) /\ Frame(n, m, c) /\ m.buf[c] # Null
              /\ SameSockets(n, m) /\ SameFlags(n, m) /\ m.host = n.host
<1>. DEFINE m == GetBuf(n, c)
<1>0. n \in Net /\ PoolOf(n.buf, n.free, n.bufs) /\ n.buf \in [Conns -> Nat]
      /\ n.free \in Seq(Nat \ {Null}) /\ n.bufs \in Nat
  BY DEF NetInv, Net
<1>1. CASE n.buf[c] # Null
  BY <1>1 DEF GetBuf, Frame, SameSockets, SameFlags
<1>a. ASSUME NEW k \in Net, SameSockets(n, k), SameFlags(n, k), k.host = n.host, k.cache = n.cache,
             \A d \in Conns \ {c} : k.buf[d] = n.buf[d],
             PoolOf(k.buf, k.free, k.bufs), SocketsHandled => k.bufs <= Limit + 1
      PROVE  NetInv(k) /\ Frame(n, k, c)
  <2>1. Opened(k) = Opened(n)
    BY <1>a DEF Opened, Open, SameSockets
  <2>2. PeerOwned(k) /\ (SocketsHandled => SocketsApart(k))
    BY <1>a DEF NetInv, PeerOwned, SocketsApart, Open, SameSockets
  <2>3. NetInv(k)
    BY <1>a, <2>1, <2>2 DEF NetInv
  <2>. QED
    BY <1>a, <2>3 DEF Frame, Open, SameSockets, SameFlags
<1>2. CASE n.buf[c] = Null /\ n.free # <<>>
  <2>. DEFINE b == [n.buf EXCEPT ![c] = Head(n.free)]
              k == [[n EXCEPT !.buf = b] EXCEPT !.free = Tail(n.free)]
  <2>1. b \in [Conns -> Nat] /\ Tail(n.free) \in Seq(Nat \ {Null}) /\ Head(n.free) # Null
    BY <1>0, <1>2 DEF Null
  <2>2. k \in Net
    BY <1>0, <2>1, NetUpdate
  <2>3. /\ k.buf = b /\ k.free = Tail(n.free) /\ k.bufs = n.bufs /\ k.cache = n.cache
        /\ SameSockets(n, k) /\ SameFlags(n, k) /\ k.host = n.host
    BY <1>0 DEF Net, SameSockets, SameFlags
  <2>4. m = k
    BY <1>0, <1>2 DEF GetBuf, Net
  <2>5. PoolOf(k.buf, k.free, k.bufs)
    <3>1. PoolOf(b, Tail(n.free), n.bufs)
      BY <1>0, <1>2, PoolTake
    <3>. HIDE DEF b, k
    <3>. QED
      BY <2>3, <3>1
  <2>6. SocketsHandled => k.bufs <= Limit + 1
    BY <2>3 DEF NetInv
  <2>7. k.buf[c] # Null /\ \A d \in Conns \ {c} : k.buf[d] = n.buf[d]
    BY <1>0, <2>1, <2>3
  <2>. HIDE DEF k
  <2>. QED
    BY <1>a, <2>2, <2>3, <2>4, <2>5, <2>6, <2>7
<1>3. CASE n.buf[c] = Null /\ n.free = <<>>
  <2>. DEFINE b == [n.buf EXCEPT ![c] = n.bufs + 1]
              k == [[n EXCEPT !.buf = b] EXCEPT !.bufs = n.bufs + 1]
  <2>1. b \in [Conns -> Nat] /\ n.bufs + 1 \in Nat
    BY <1>0
  <2>2. k \in Net
    BY <1>0, <2>1, NetUpdate
  <2>3. /\ k.buf = b /\ k.free = n.free /\ k.bufs = n.bufs + 1 /\ k.cache = n.cache
        /\ SameSockets(n, k) /\ SameFlags(n, k) /\ k.host = n.host
    BY <1>0 DEF Net, SameSockets, SameFlags
  <2>4. m = k
    BY <1>0, <1>3 DEF GetBuf, Net
  <2>4a. PoolOf(b, n.free, n.bufs + 1)
    BY <1>0, <1>3, PoolMake
  <2>5. PoolOf(k.buf, k.free, k.bufs)
    BY <2>3, <2>4a
  <2>6. ASSUME SocketsHandled PROVE k.bufs <= Limit + 1
    <3>. DEFINE owner == [b1 \in 1 .. n.bufs |-> CHOOSE d \in Conns : n.buf[d] = b1]
    <3>1. \A b1 \in 1 .. n.bufs : \E d \in Conns : n.buf[d] = b1
      BY <1>0, <1>3 DEF PoolOf
    <3>2. \A b1 \in 1 .. n.bufs : owner[b1] \in Opened(n) /\ n.buf[owner[b1]] = b1
      BY <1>3, <2>6, <3>1 DEF Opened, Null
    <3>2a. owner \in [1 .. n.bufs -> Opened(n)]
      BY <3>2
    <3>. HIDE DEF owner
    <3>2b. \A i, j \in 1 .. n.bufs : owner[i] = owner[j] => i = j
      BY <3>2
    <3>3. owner \in Injection(1 .. n.bufs, Opened(n))
      BY <3>2a, <3>2b DEF Injection, IsInjective
    <3>4. IsFiniteSet(Opened(n)) /\ Cardinality(Opened(n)) \in Nat
      BY RequestsAssumption, FS_Subset, FS_CardinalityType DEF Opened
    <3>5. Cardinality(1 .. n.bufs) = n.bufs /\ IsFiniteSet(1 .. n.bufs)
      BY <1>0, FS_Interval
    <3>6. n.bufs <= Cardinality(Opened(n))
      BY <3>3, <3>4, <3>5, FS_Injection
    <3>. QED
      BY <1>0, <2>3, <3>4, <3>6, RequestsAssumption DEF NetInv
  <2>7. k.buf[c] # Null /\ \A d \in Conns \ {c} : k.buf[d] = n.buf[d]
    BY <1>0, <2>3 DEF Null
  <2>. HIDE DEF k
  <2>. QED
    BY <1>a, <2>2, <2>3, <2>4, <2>5, <2>6, <2>7
<1>. QED
  BY <1>1, <1>2, <1>3

LEMMA FreeBufNet ==
    ASSUME NEW n, NetInv(n), NEW c \in Conns
    PROVE  LET m == FreeBuf(n, c)
           IN /\ NetInv(m) /\ Frame(n, m, c) /\ m.buf[c] = Null
              /\ SameSockets(n, m) /\ SameFlags(n, m) /\ m.host = n.host
<1>. DEFINE m == FreeBuf(n, c)
<1>0. n \in Net /\ PoolOf(n.buf, n.free, n.bufs) /\ n.buf \in [Conns -> Nat]
      /\ n.free \in Seq(Nat \ {Null}) /\ n.bufs \in Nat
  BY DEF NetInv, Net
<1>1. CASE n.buf[c] = Null
  BY <1>1 DEF FreeBuf, Frame, SameSockets, SameFlags
<1>2. CASE n.buf[c] # Null
  <2>. DEFINE b == [n.buf EXCEPT ![c] = Null]
              f == <<n.buf[c]>> \o n.free
              k == [[n EXCEPT !.free = f] EXCEPT !.buf = b]
  <2>1. b \in [Conns -> Nat] /\ f \in Seq(Nat \ {Null})
    BY <1>0, <1>2 DEF Null
  <2>2. k \in Net
    BY <1>0, <2>1, NetUpdate
  <2>3. /\ k.buf = b /\ k.free = f /\ k.bufs = n.bufs /\ k.cache = n.cache
        /\ SameSockets(n, k) /\ SameFlags(n, k) /\ k.host = n.host
    BY <1>0 DEF Net, SameSockets, SameFlags
  <2>4. m = k
    BY <1>0, <1>2 DEF FreeBuf, Net
  <2>5. PoolOf(b, f, n.bufs)
    BY <1>0, <1>2, PoolFree
  <2>7. k.buf[c] = Null /\ \A d \in Conns \ {c} : k.buf[d] = n.buf[d]
    BY <1>0, <2>3
  <2>. HIDE DEF k
  <2>8. Opened(k) = Opened(n)
    BY <2>3 DEF Opened, Open, SameSockets
  <2>9. PeerOwned(k) /\ (SocketsHandled => SocketsApart(k))
    BY <2>3 DEF NetInv, PeerOwned, SocketsApart, Open, SameSockets
  <2>10. NetInv(k)
    BY <2>2, <2>3, <2>5, <2>8, <2>9 DEF NetInv
  <2>11. Frame(n, k, c)
    BY <2>3, <2>7 DEF Frame, Open, SameSockets, SameFlags
  <2>. QED
    BY <2>3, <2>4, <2>7, <2>10, <2>11
<1>. QED
  BY <1>1, <1>2

LEMMA CloseSocketNet ==
    ASSUME NEW n, NetInv(n), NEW c \in Conns
    PROVE  LET m == CloseSocket(n, c)
           IN /\ NetInv(m) /\ Frame(n, m, c) /\ ~Open(m, c)
              /\ SameFlags(n, m) /\ SameBuffers(n, m) /\ m.host = n.host
<1>. DEFINE m == CloseSocket(n, c)
<1>0. /\ n \in Net /\ n.peer \in [Fds -> Peer \cup {Closed}]
      /\ n.poll \in [Conns -> Fds \cup {Null}]
      /\ IsFiniteSet(Opened(n)) /\ Cardinality(Opened(n)) \in Nat
  BY RequestsAssumption, FS_Subset, FS_CardinalityType DEF NetInv, Net, Opened
<1>1. CASE ~Open(n, c)
  BY <1>1 DEF CloseSocket, Frame, SameFlags, SameBuffers
<1>2. CASE Open(n, c)
  <2>. DEFINE p == [n.peer EXCEPT ![n.poll[c]] = Closed]
              q == [n.poll EXCEPT ![c] = Null]
              k == [[n EXCEPT !.peer = p] EXCEPT !.poll = q]
  <2>1. n.poll[c] \in Fds /\ p \in [Fds -> Peer \cup {Closed}] /\ q \in [Conns -> Fds \cup {Null}]
    BY <1>0, <1>2 DEF Open
  <2>2. k \in Net
    BY <1>0, <2>1, NetUpdate
  <2>3. /\ k.peer = p /\ k.poll = q /\ k.cache = n.cache /\ k.host = n.host
        /\ SameFlags(n, k) /\ SameBuffers(n, k)
    BY <1>0 DEF Net, SameFlags, SameBuffers
  <2>4. m = k
    BY <1>0, <1>2 DEF CloseSocket, Net
  <2>5. /\ \A d \in Conns \ {c} : k.poll[d] = n.poll[d]
        /\ k.poll[c] = Null
        /\ k.peer[n.poll[c]] = Closed
        /\ \A f \in Fds \ {n.poll[c]} : k.peer[f] = n.peer[f]
    BY <1>0, <2>1, <2>3
  <2>. HIDE DEF k, p, q
  <2>6. PeerOwned(k)
    BY <2>5 DEF NetInv, PeerOwned
  <2>7. ~Open(k, c)
    BY <2>5 DEF Open
  <2>8. Opened(k) \subseteq Opened(n)
    BY <2>5, <2>7 DEF Opened, Open
  <2>9. Cardinality(Opened(k)) <= Limit
    <3>1. Cardinality(Opened(k)) <= Cardinality(Opened(n)) /\ IsFiniteSet(Opened(k))
      BY <1>0, <2>8, FS_Subset
    <3>2. Cardinality(Opened(k)) \in Nat
      BY <3>1, FS_CardinalityType
    <3>. QED
      BY <1>0, <3>1, <3>2, RequestsAssumption DEF NetInv
  <2>10. ASSUME SocketsHandled, NEW d \in Conns \ {c}, Open(n, d)
         PROVE  k.peer[n.poll[d]] = n.peer[n.poll[d]]
    <3>1. n.poll[d] \in Fds /\ n.poll[d] # n.poll[c]
      BY <1>0, <2>10 DEF Open, NetInv, SocketsApart
    <3>. QED
      BY <2>5, <3>1
  <2>11. ASSUME SocketsHandled PROVE SocketsApart(k)
    <3>1. ASSUME NEW d \in Conns, Open(k, d)
          PROVE  /\ k.peer[k.poll[d]] # Closed
                 /\ \A e \in Conns : k.poll[e] = k.poll[d] => d = e
      <4>1. d # c /\ k.poll[d] = n.poll[d] /\ Open(n, d)
        BY <2>5, <2>7, <3>1 DEF Open
      <4>2. n.peer[n.poll[d]] # Closed /\ \A e \in Conns : n.poll[e] = n.poll[d] => d = e
        BY <2>11, <4>1 DEF NetInv, SocketsApart
      <4>3. \A e \in Conns : k.poll[e] = k.poll[d] => d = e
        BY <2>5, <3>1, <4>1, <4>2 DEF Open
      <4>. QED
        BY <2>10, <2>11, <4>1, <4>2, <4>3
    <3>. QED
      BY <3>1 DEF SocketsApart
  <2>12. NetInv(k)
    BY <2>2, <2>3, <2>6, <2>9, <2>11 DEF NetInv, SameBuffers
  <2>13. Frame(n, k, c)
    BY <2>3, <2>5, <2>10 DEF Frame, SameFlags, SameBuffers
  <2>. QED
    BY <2>3, <2>4, <2>7, <2>12, <2>13
<1>. QED
  BY <1>1, <1>2

\* release_connection gives up whatever the connection has.
LEMMA ReleaseNet ==
    ASSUME NEW n, NetInv(n), NEW c \in Conns
    PROVE  LET m == Release(n, c)
           IN /\ NetInv(m) /\ Frame(n, m, c) /\ m.host = n.host
              /\ ~Open(m, c) /\ Idle(m, c) /\ m.buf[c] = Null
<1>. DEFINE s == [n.ssl EXCEPT ![c] = "none"]
            n1 == OpensslClose(n, c)
            n2 == CloseSocket(n1, c)
            n3 == [n2 EXCEPT !.connected[c] = FALSE, !.asking[c] = FALSE]
<1>1. /\ NetInv(n1) /\ Frame(n, n1, c) /\ n1.ssl[c] = "none" /\ n1.host = n.host
  <2>1. n \in Net /\ s \in [Conns -> {"none", "shaking", "ready"}]
    BY DEF NetInv, Net
  <2>2. n1 = [n EXCEPT !.ssl = s]
    BY <2>1 DEF OpensslClose, Net
  <2>3. n1 \in Net
    BY <2>1, <2>2, NetUpdate
  <2>4. /\ n1.ssl = s /\ SameSockets(n, n1) /\ SameBuffers(n, n1) /\ n1.cache = n.cache
        /\ n1.host = n.host /\ n1.connected = n.connected /\ n1.asking = n.asking
    BY <2>1, <2>2 DEF Net, SameSockets, SameBuffers
  <2>5. n1.ssl[c] = "none" /\ \A d \in Conns \ {c} : n1.ssl[d] = n.ssl[d]
    BY <2>1, <2>4 DEF Net
  <2>. HIDE DEF n1, s
  <2>. QED
    BY <2>3, <2>4, <2>5, SetFlags
<1>. HIDE DEF n1
<1>2. NetInv(n2) /\ Frame(n1, n2, c) /\ ~Open(n2, c) /\ n2.ssl = n1.ssl /\ n2.host = n1.host
  BY <1>1, CloseSocketNet DEF SameFlags
<1>. HIDE DEF n2
<1>3. /\ NetInv(n3) /\ Frame(n2, n3, c) /\ ~Open(n3, c) /\ Idle(n3, c) /\ n3.host = n2.host
  <2>. DEFINE v == [n2.connected EXCEPT ![c] = FALSE]
              a == [n2.asking EXCEPT ![c] = FALSE]
              k == [[n2 EXCEPT !.connected = v] EXCEPT !.asking = a]
  <2>1. n2 \in Net /\ v \in [Conns -> BOOLEAN] /\ a \in [Conns -> BOOLEAN]
    BY <1>2 DEF NetInv, Net
  <2>2. k \in Net
    BY <2>1, NetUpdate
  <2>3. n3 = k
    BY <2>1 DEF Net
  <2>4. /\ k.connected = v /\ k.asking = a /\ SameSockets(n2, k) /\ SameBuffers(n2, k)
        /\ k.cache = n2.cache /\ k.host = n2.host /\ k.ssl = n2.ssl
    BY <2>1 DEF Net, SameSockets, SameBuffers
  <2>5. /\ ~k.connected[c] /\ ~k.asking[c]
        /\ \A d \in Conns \ {c} : k.connected[d] = n2.connected[d] /\ k.asking[d] = n2.asking[d]
    BY <2>1, <2>4 DEF Net
  <2>. HIDE DEF k, v, a
  <2>6. NetInv(k) /\ Frame(n2, k, c)
    BY <1>2, <2>2, <2>4, <2>5, SetFlags
  <2>. QED
    BY <1>1, <1>2, <2>3, <2>4, <2>5, <2>6 DEF Idle, Open, SameSockets
<1>. HIDE DEF n3
<1>4. LET m == FreeBuf(n3, c)
      IN /\ NetInv(m) /\ Frame(n3, m, c) /\ m.buf[c] = Null
         /\ SameSockets(n3, m) /\ SameFlags(n3, m) /\ m.host = n3.host
  BY <1>3, FreeBufNet
<1>5. Release(n, c) = FreeBuf(n3, c)
  BY DEF Release, n1, n2, n3
<1>6. Frame(n, FreeBuf(n3, c), c)
  BY <1>1, <1>2, <1>3, <1>4, FrameTransitive
<1>. QED
  BY <1>1, <1>2, <1>3, <1>4, <1>5, <1>6 DEF Idle, Open, SameSockets, SameFlags

LEMMA FixupHostNet ==
    ASSUME NEW n, NetInv(n), NEW c \in Conns, NEW u \in Url
    PROVE  LET m == FixupHost(n, c, u)
           IN /\ NetInv(m) /\ Frame(n, m, c) /\ SameSockets(n, m) /\ SameFlags(n, m)
              /\ SameBuffers(n, m) /\ SameHost(m.host[c], u) /\ m.host[c] \in {n.host[c], u}
              /\ SameHost(n.host[c], u) => m = n
<1>. DEFINE h == [n.host EXCEPT ![c] = u]
            k == [n EXCEPT !.host = h]
<1>1. CASE SameHost(n.host[c], u)
  BY <1>1 DEF FixupHost, Frame, SameSockets, SameFlags, SameBuffers
<1>2. CASE ~SameHost(n.host[c], u)
  <2>1. n \in Net /\ h \in [Conns -> Url]
    BY DEF NetInv, Net
  <2>2. FixupHost(n, c, u) = k
    BY <1>2, <2>1 DEF FixupHost, Net
  <2>3. k \in Net
    BY <2>1, NetUpdate
  <2>4. /\ k.host = h /\ SameSockets(n, k) /\ SameBuffers(n, k) /\ SameFlags(n, k)
        /\ k.cache = n.cache
    BY <2>1 DEF Net, SameSockets, SameBuffers, SameFlags
  <2>5. k.host[c] = u /\ \A d \in Conns \ {c} : k.host[d] = n.host[d]
    BY <2>1, <2>4 DEF Net
  <2>. HIDE DEF k, h
  <2>6. Opened(k) = Opened(n)
    BY <2>4 DEF Opened, Open, SameSockets
  <2>7. PeerOwned(k) /\ (SocketsHandled => SocketsApart(k))
    BY <2>4 DEF NetInv, PeerOwned, SocketsApart, Open, SameSockets
  <2>8. NetInv(k)
    BY <2>3, <2>4, <2>6, <2>7 DEF NetInv, SameBuffers
  <2>9. Frame(n, k, c)
    BY <2>4, <2>5 DEF Frame, Open, SameSockets, SameFlags, SameBuffers
  <2>. QED
    BY <1>2, <2>2, <2>4, <2>5, <2>8, <2>9 DEF SameHost
<1>. QED
  BY <1>1, <1>2

\* There is a descriptor for a connection that has none, and it is not in use.
LEMMA NewFdFound ==
    ASSUME NEW n, NetInv(n), NEW c \in Conns, ~Open(n, c)
    PROVE  NewFd(n) \in Fds /\ n.peer[NewFd(n)] = Closed
<1>. DEFINE used == {f \in Fds : n.peer[f] # Closed}
            owner == [f \in used |-> CHOOSE d \in Conns : n.poll[d] = f]
            free == {f \in Fds : n.peer[f] = Closed}
<1>1. \A f \in used : owner[f] \in Conns /\ n.poll[owner[f]] = f /\ owner[f] # c
  BY DEF NetInv, PeerOwned, Open, Fds, Null
<1>2. owner \in [used -> Conns \ {c}]
  BY <1>1
<1>3. Cardinality(Conns) \in Nat /\ IsFiniteSet(Conns)
  BY RequestsAssumption, FS_CardinalityType
<1>4. IsFiniteSet(Fds) /\ Cardinality(Fds) = Cardinality(Conns)
  BY <1>3, FS_Interval DEF Fds
<1>5. IsFiniteSet(Conns \ {c}) /\ Cardinality(Conns \ {c}) = Cardinality(Conns) - 1
  BY <1>3, FS_RemoveElement
<1>6. free # {}
  <2>1. SUFFICES ASSUME used = Fds PROVE FALSE
    OBVIOUS
  <2>2. \A f, g \in used : owner[f] = owner[g] => f = g
    BY <1>1
  <2>3. owner \in Injection(used, Conns \ {c})
    <3>. HIDE DEF owner
    <3>. QED
      BY <1>2, <2>2 DEF Injection, IsInjective
  <2>4. Cardinality(used) <= Cardinality(Conns \ {c})
    BY <1>5, <2>3, FS_Injection
  <2>. QED
    BY <1>3, <1>4, <1>5, <2>1, <2>4
<1>7. free \in SUBSET Nat
  BY <1>3 DEF Fds
<1>8. PICK f \in free : \A g \in free : f <= g
  BY <1>6, <1>7, LeastNatural
<1>9. \A g \in 1 .. f - 1 : n.peer[g] # Closed
  BY <1>3, <1>8 DEF Fds
<1>. QED
  BY <1>8, <1>9 DEF NewFd

\* set_conn_socket, when a descriptor may be had.
LEMMA SetConnSocketNet ==
    ASSUME NEW n, NetInv(n), NEW c \in Conns, ~Open(n, c), SlotFree(n),
           NEW peer \in Peer, peer.port # 0
    PROVE  LET m == SetConnSocket(n, c, peer)
           IN /\ NetInv(m) /\ Frame(n, m, c) /\ Open(m, c) /\ m.peer[m.poll[c]] = peer
              /\ SameFlags(n, m) /\ SameBuffers(n, m) /\ m.host = n.host
<1>. DEFINE f == NewFd(n)
            p == [n.peer EXCEPT ![f] = peer]
            q == [n.poll EXCEPT ![c] = f]
            k == [[n EXCEPT !.poll = q] EXCEPT !.peer = p]
<1>0. /\ n \in Net /\ n.peer \in [Fds -> Peer \cup {Closed}]
      /\ n.poll \in [Conns -> Fds \cup {Null}]
      /\ IsFiniteSet(Opened(n)) /\ Cardinality(Opened(n)) \in Nat
  BY RequestsAssumption, FS_Subset, FS_CardinalityType DEF NetInv, Net, Opened
<1>1. f \in Fds /\ n.peer[f] = Closed /\ f # Null
  BY NewFdFound DEF Fds, Null
<1>2. p \in [Fds -> Peer \cup {Closed}] /\ q \in [Conns -> Fds \cup {Null}]
  BY <1>0, <1>1
<1>3. k \in Net
  BY <1>0, <1>2, NetUpdate
<1>4. SetConnSocket(n, c, peer) = k
  BY <1>0 DEF SetConnSocket, Net
<1>5. /\ k.peer = p /\ k.poll = q /\ k.cache = n.cache /\ k.host = n.host
      /\ SameFlags(n, k) /\ SameBuffers(n, k)
  BY <1>0 DEF Net, SameFlags, SameBuffers
<1>6. /\ k.poll[c] = f /\ \A d \in Conns \ {c} : k.poll[d] = n.poll[d]
      /\ k.peer[f] = peer /\ \A g \in Fds \ {f} : k.peer[g] = n.peer[g]
  BY <1>0, <1>1, <1>5
<1>. HIDE DEF k, p, q, f
<1>7. PeerOwned(k)
  BY <1>6 DEF NetInv, PeerOwned, Open, Fds, Null
<1>8. Opened(k) = Opened(n) \cup {c} /\ Open(k, c)
  BY <1>1, <1>6 DEF Opened, Open
<1>9. Cardinality(Opened(k)) <= Limit
  <2>1. Cardinality(Opened(n)) < Limit
    BY DEF SlotFree, Opened
  <2>2. Cardinality(Opened(k)) = Cardinality(Opened(n)) + 1
    BY <1>0, <1>8, FS_AddElement DEF Opened
  <2>. QED
    BY <1>0, <2>1, <2>2, RequestsAssumption
<1>10. ASSUME SocketsHandled, NEW d \in Conns \ {c}, Open(n, d)
       PROVE  n.poll[d] \in Fds /\ n.poll[d] # f /\ k.peer[n.poll[d]] = n.peer[n.poll[d]]
  <2>1. n.poll[d] \in Fds /\ n.peer[n.poll[d]] # Closed
    BY <1>0, <1>10 DEF Open, NetInv, SocketsApart
  <2>. QED
    BY <1>1, <1>6, <2>1
<1>11. ASSUME SocketsHandled PROVE SocketsApart(k)
  <2>1. ASSUME NEW d \in Conns, Open(k, d)
        PROVE  /\ k.peer[k.poll[d]] # Closed
               /\ \A e \in Conns : k.poll[e] = k.poll[d] => d = e
    <3>1. CASE d = c
      <4>1. \A e \in Conns \ {c} : n.poll[e] # f
        BY <1>1, <1>10, <1>11 DEF Open
      <4>2. k.peer[k.poll[d]] # Closed
        BY <1>6, <3>1 DEF Closed
      <4>. QED
        BY <1>6, <3>1, <4>1, <4>2
    <3>2. CASE d # c
      <4>1. k.poll[d] = n.poll[d] /\ Open(n, d) /\ n.poll[d] # f
        BY <1>6, <1>10, <1>11, <2>1, <3>2 DEF Open
      <4>2. n.peer[n.poll[d]] # Closed /\ \A e \in Conns : n.poll[e] = n.poll[d] => d = e
        BY <1>11, <4>1 DEF NetInv, SocketsApart
      <4>. QED
        BY <1>6, <1>10, <1>11, <3>2, <4>1, <4>2
    <3>. QED
      BY <3>1, <3>2
  <2>. QED
    BY <2>1 DEF SocketsApart
<1>12. NetInv(k)
  BY <1>3, <1>5, <1>7, <1>9, <1>11 DEF NetInv, SameBuffers
<1>13. Frame(n, k, c)
  BY <1>5, <1>6, <1>10 DEF Frame, SameFlags, SameBuffers
<1>. QED
  BY <1>4, <1>5, <1>6, <1>8, <1>12, <1>13

LEMMA AddCacheNet ==
    ASSUME NEW n, NetInv(n), NEW c \in Conns, NEW name \in Names, NEW peer \in Peer,
           peer.addr \in Range0(Dns[name])
    PROVE  LET m == AddCache(n, name, peer)
           IN /\ NetInv(m) /\ Frame(n, m, c) /\ SameSockets(n, m) /\ SameFlags(n, m)
              /\ SameBuffers(n, m) /\ m.host = n.host
<1>. DEFINE entry == [name |-> name, peer |-> peer]
            w == <<entry>> \o n.cache
            k == [n EXCEPT !.cache = w]
<1>1. /\ n \in Net /\ n.cache \in Seq([name: Names, peer: Peer])
      /\ w \in Seq([name: Names, peer: Peer])
  BY DEF NetInv, Net
<1>2. k \in Net
  BY <1>1, NetUpdate
<1>3. AddCache(n, name, peer) = k
  BY <1>1 DEF AddCache, Net
<1>4. /\ k.cache = w /\ k.host = n.host
      /\ SameSockets(n, k) /\ SameFlags(n, k) /\ SameBuffers(n, k)
  BY <1>1 DEF Net, SameSockets, SameFlags, SameBuffers
<1>5. CacheRight(w)
  <2>1. SUFFICES ASSUME NEW i \in 1 .. Len(w)
                 PROVE  w[i].peer.addr \in Range0(Dns[w[i].name])
    BY DEF CacheRight
  <2>2. CASE i = 1
    BY <1>1, <2>2
  <2>3. CASE i # 1
    <3>1. i - 1 \in 1 .. Len(n.cache) /\ w[i] = n.cache[i - 1]
      BY <1>1, <2>3
    <3>. QED
      BY <3>1 DEF NetInv, CacheRight
  <2>. QED
    BY <2>2, <2>3
<1>. HIDE DEF k, w
<1>6. Opened(k) = Opened(n)
  BY <1>4 DEF Opened, Open, SameSockets
<1>7. PeerOwned(k) /\ (SocketsHandled => SocketsApart(k))
  BY <1>4 DEF NetInv, PeerOwned, SocketsApart, Open, SameSockets
<1>8. NetInv(k)
  BY <1>2, <1>4, <1>5, <1>6, <1>7 DEF NetInv, SameBuffers
<1>9. Frame(n, k, c)
  BY <1>4 DEF Frame, SameSockets, SameFlags, SameBuffers
<1>. QED
  BY <1>3, <1>4, <1>8, <1>9

-----------------------------------------------------------------------------
(* Connecting.                                                             *)

\* The setting, and the machines that may be down in it.
World == setting \in Settings /\ up \subseteq Addrs /\ (setting.down \/ up = Addrs)

\* What connecting starts from.
Ready(n, c) ==
    NetInv(n) /\ ~Open(n, c) /\ Idle(n, c) /\ (SocketsHandled => n.buf[c] # Null)

\* What comes of connecting c for u, from n.
Linked(n, r, c, u) ==
    /\ NetInv(r.net) /\ Frame(n, r.net, c) /\ r.net.host = n.host
    /\ r.rc \in {"ok", "unknown", "refused", "full", "tls", "reset"}
    /\ r.rc = "ok" =>
         /\ Open(r.net, c) /\ r.net.asking[c] = n.asking[c]
         /\ r.net.connected[c] => r.net.ssl[c] # "shaking"
         /\ SocketsHandled => r.net.buf[c] # Null
         /\ Serves(r.net, c, u)
    /\ r.rc # "ok" => Idle(r.net, c) /\ (SocketsHandled => ~Open(r.net, c))
    /\ r.rc = "refused" /\ ~setting.ipv4 => Range0(Dns[u.name]) \cap up = {}

LEMMA LinkedFrom ==
    ASSUME NEW n, NEW m, NEW c \in Conns, NEW u, NEW r,
           Frame(n, m, c), m.host = n.host, m.asking = n.asking, Linked(m, r, c, u)
    PROVE  Linked(n, r, c, u)
BY FrameTransitive DEF Linked

LEMMA FrameSelf ==
    ASSUME NEW n, NEW c \in Conns
    PROVE  Frame(n, n, c)
BY DEF Frame

LEMMA HandshakeNet ==
    ASSUME NEW n, NetInv(n), NEW c \in Conns, NEW m \in Handshake(n, c)
    PROVE  /\ NetInv(m) /\ Frame(n, m, c) /\ m.host = n.host
           /\ SameSockets(n, m) /\ SameBuffers(n, m) /\ m.asking = n.asking
           /\ \/ m.ssl[c] = "shaking" /\ m.connected[c] = n.connected[c]
              \/ m.ssl[c] = "ready" /\ m.connected[c] = TRUE
<1>0. n \in Net
  BY DEF NetInv
<1>1. CASE m = [n EXCEPT !.ssl[c] = "shaking"]
  <2>. DEFINE s == [n.ssl EXCEPT ![c] = "shaking"]
              k == [n EXCEPT !.ssl = s]
  <2>1. s \in [Conns -> {"none", "shaking", "ready"}]
    BY <1>0 DEF Net
  <2>2. k \in Net
    BY <1>0, <2>1, NetUpdate
  <2>3. m = k
    BY <1>0, <1>1 DEF Net
  <2>4. /\ k.ssl = s /\ SameSockets(n, k) /\ SameBuffers(n, k) /\ k.host = n.host
        /\ k.cache = n.cache /\ k.connected = n.connected /\ k.asking = n.asking
    BY <1>0 DEF Net, SameSockets, SameBuffers
  <2>5. k.ssl[c] = "shaking" /\ \A d \in Conns \ {c} : k.ssl[d] = n.ssl[d]
    BY <1>0, <2>4 DEF Net
  <2>. HIDE DEF k, s
  <2>6. NetInv(k) /\ Frame(n, k, c)
    BY <2>2, <2>4, <2>5, SetFlags
  <2>. QED
    BY <2>3, <2>4, <2>5, <2>6
<1>2. CASE m = [n EXCEPT !.ssl[c] = "ready", !.connected[c] = TRUE]
  <2>. DEFINE s == [n.ssl EXCEPT ![c] = "ready"]
              v == [n.connected EXCEPT ![c] = TRUE]
              k == [[n EXCEPT !.ssl = s] EXCEPT !.connected = v]
  <2>1. s \in [Conns -> {"none", "shaking", "ready"}] /\ v \in [Conns -> BOOLEAN]
    BY <1>0 DEF Net
  <2>2. k \in Net
    BY <1>0, <2>1, NetUpdate
  <2>3. m = k
    BY <1>0, <1>2 DEF Net
  <2>4. /\ k.ssl = s /\ k.connected = v /\ SameSockets(n, k) /\ SameBuffers(n, k)
        /\ k.host = n.host /\ k.cache = n.cache /\ k.asking = n.asking
    BY <1>0 DEF Net, SameSockets, SameBuffers
  <2>5. /\ k.ssl[c] = "ready" /\ k.connected[c] = TRUE
        /\ \A d \in Conns \ {c} : k.ssl[d] = n.ssl[d] /\ k.connected[d] = n.connected[d]
    BY <1>0, <2>4 DEF Net
  <2>. HIDE DEF k, s, v
  <2>6. NetInv(k) /\ Frame(n, k, c)
    BY <2>2, <2>4, <2>5, SetFlags
  <2>. QED
    BY <2>3, <2>4, <2>5, <2>6
<1>. QED
  BY <1>1, <1>2 DEF Handshake

\* tcp_connected finds a socket to a server for u, and may still be waiting for
\* the handshake when it returns.
LEMMA TcpConnectedLinks ==
    ASSUME World, NEW n, NetInv(n), NEW c \in Conns, NEW u \in Url, IsHttp(u),
           Open(n, c), ~n.connected[c], n.ssl[c] = "none",
           SocketsHandled => n.buf[c] # Null, Serves(n, c, u),
           NEW r \in TcpConnected(n, c, u)
    PROVE  /\ Linked(n, r, c, u) /\ r.rc \in {"ok", "tls", "reset"}
           /\ r.rc # "ok" => r.net.buf[c] = Null
<1>1. ASSUME u.scheme = "http", r = Returns([n EXCEPT !.connected[c] = TRUE], "ok")
      PROVE  Linked(n, r, c, u) /\ r.rc = "ok"
  <2>. DEFINE v == [n.connected EXCEPT ![c] = TRUE]
              k == [n EXCEPT !.connected = v]
  <2>1. n \in Net /\ v \in [Conns -> BOOLEAN]
    BY DEF NetInv, Net
  <2>2. k \in Net
    BY <2>1, NetUpdate
  <2>3. r.net = k /\ r.rc = "ok"
    BY <1>1, <2>1 DEF Net, Returns
  <2>4. /\ k.connected = v /\ SameSockets(n, k) /\ SameBuffers(n, k) /\ k.host = n.host
        /\ k.cache = n.cache /\ k.ssl = n.ssl /\ k.asking = n.asking
    BY <2>1 DEF Net, SameSockets, SameBuffers
  <2>5. k.connected[c] = TRUE /\ \A d \in Conns \ {c} : k.connected[d] = n.connected[d]
    BY <2>1, <2>4 DEF Net
  <2>. HIDE DEF k, v
  <2>6. NetInv(k) /\ Frame(n, k, c)
    BY <2>2, <2>4, <2>5, SetFlags
  <2>7. Open(k, c) /\ (SocketsHandled => k.buf[c] # Null) /\ Serves(k, c, u)
    BY <1>1, <2>4 DEF Open, Serves, SameSockets, SameBuffers
  <2>. QED
    BY <2>3, <2>4, <2>6, <2>7 DEF Linked
<1>2. ASSUME u.scheme = "https", NEW m \in Handshake(n, c), r = Returns(m, "ok")
      PROVE  Linked(n, r, c, u) /\ r.rc = "ok"
  <2>1. /\ NetInv(m) /\ Frame(n, m, c) /\ m.host = n.host
        /\ SameSockets(n, m) /\ SameBuffers(n, m) /\ m.asking = n.asking
        /\ \/ m.ssl[c] = "shaking" /\ m.connected[c] = n.connected[c]
           \/ m.ssl[c] = "ready" /\ m.connected[c] = TRUE
    BY <1>2, HandshakeNet
  <2>2. Open(m, c) /\ (SocketsHandled => m.buf[c] # Null) /\ Serves(m, c, u)
    BY <1>2, <2>1 DEF Open, Serves, SameSockets, SameBuffers
  <2>. QED
    BY <1>2, <2>1, <2>2 DEF Linked, Returns
<1>3. ASSUME NEW rc \in {"tls", "reset"}, r = Returns(Release(n, c), rc)
      PROVE  Linked(n, r, c, u) /\ r.rc \in {"tls", "reset"} /\ r.net.buf[c] = Null
  BY <1>3, ReleaseNet DEF Linked, Returns
<1>4. u.scheme \in {"http", "https"} /\ setting.tls \in {"none", "openssl", "mbedtls"}
  BY RequestsAssumption DEF World, Url, Setting
<1>5. CASE u.scheme = "http"
  BY <1>1, <1>5 DEF TcpConnected
<1>6. CASE u.scheme = "https" /\ setting.tls = "openssl"
  <2>1. r \in OpensslConnect(n, c)
    BY <1>6 DEF TcpConnected
  <2>. QED
    BY <1>2, <1>3, <1>6, <2>1 DEF OpensslConnect
<1>7. CASE u.scheme = "https" /\ setting.tls = "mbedtls"
  <2>1. r \in MbedtlsConnect(n, c)
    BY <1>7 DEF TcpConnected
  <2>. QED
    BY <1>2, <1>3, <1>7, <2>1 DEF MbedtlsConnect
<1>. QED
  BY <1>4, <1>5, <1>6, <1>7 DEF IsHttp

\* connect_socket with a socket to peer, a server for u.
LEMMA ConnectedLinks ==
    ASSUME World, NEW n, NEW c \in Conns, Ready(n, c), NEW u \in Url, IsHttp(u),
           NEW peer \in Peer, peer.addr \in Range0(Dns[u.name]), peer.port = Port(u),
           NEW how, NEW r \in Connected(n, c, u, peer, how)
    PROVE  Linked(n, r, c, u) /\ r.rc # "refused"
<1>1. peer.port # 0
  BY DEF Port, Url
<1>. DEFINE m == SetConnSocket(n, c, peer)
<1>2. CASE ~SlotFree(n)
  <2>1. r = Returns(n, "full")
    BY <1>2 DEF Connected
  <2>. QED
    BY <2>1, FrameSelf DEF Linked, Returns, Ready
<1>3. CASE SlotFree(n)
  <2>1. /\ NetInv(m) /\ Frame(n, m, c) /\ Open(m, c) /\ m.peer[m.poll[c]] = peer
        /\ SameFlags(n, m) /\ SameBuffers(n, m) /\ m.host = n.host
    BY <1>1, <1>3, SetConnSocketNet DEF Ready
  <2>2. (how = "deferred" /\ r = Returns(m, "ok")) \/ r \in TcpConnected(m, c, u)
    BY <1>3 DEF Connected
  <2>. HIDE DEF m
  <2>3. /\ ~m.connected[c] /\ m.ssl[c] = "none"
        /\ SocketsHandled => m.buf[c] # Null
        /\ Serves(m, c, u)
    BY <2>1 DEF Ready, Idle, Serves, SameFlags, SameBuffers
  <2>4. CASE r = Returns(m, "ok")
    BY <2>1, <2>3, <2>4 DEF Linked, Returns, SameFlags
  <2>5. CASE r \in TcpConnected(m, c, u)
    <3>1. Linked(m, r, c, u) /\ r.rc # "refused"
      BY <2>1, <2>3, <2>5, TcpConnectedLinks
    <3>. QED
      BY <2>1, <3>1, LinkedFrom DEF SameFlags
  <2>. QED
    BY <2>2, <2>4, <2>5
<1>. QED
  BY <1>2, <1>3

LEMMA AttemptLinks ==
    ASSUME World, NEW n, NEW c \in Conns, Ready(n, c), NEW u \in Url, IsHttp(u),
           NEW peer \in Peer, peer.addr \in Range0(Dns[u.name]), peer.port = Port(u),
           NEW r \in Attempt(n, c, u, peer)
    PROVE  Linked(n, r, c, u) /\ r.rc # "refused"
BY ConnectedLinks DEF Attempt

\* What the addresses of the name of a url are.
LEMMA NameAddresses ==
    ASSUME NEW u \in Url
    PROVE  /\ u.name \in Names /\ Dns[u.name] \in Seq(Addrs)
           /\ Range0(Dns[u.name]) = {Dns[u.name][i] : i \in 1 .. Len(Dns[u.name])}
           /\ \A i \in 1 .. Len(Dns[u.name]) :
                LET peer == Target(Dns[u.name][i], u)
                IN peer \in Peer /\ peer.addr \in Range0(Dns[u.name]) /\ peer.port = Port(u)
<1>1. u.name \in Names /\ Dns[u.name] \in Seq(Addrs) /\ Port(u) \in Nat
  BY RequestsAssumption DEF Url, Port
<1>2. DOMAIN Dns[u.name] = 1 .. Len(Dns[u.name])
  BY <1>1
<1>3. \A i \in 1 .. Len(Dns[u.name]) : Dns[u.name][i] \in Addrs
  BY <1>1
<1>. QED
  BY <1>1, <1>2, <1>3 DEF Range0, Target, Peer

LEMMA ResolveLinks ==
    ASSUME World, NEW n, NEW c \in Conns, Ready(n, c), NEW u \in Url, IsHttp(u),
           NEW r \in Resolve(n, c, u)
    PROVE  Linked(n, r, c, u)
<1>. DEFINE addrs == Dns[u.name]
            peer(k) == Target(addrs[k], u)
            cached(k) == AddCache(n, u.name, peer(k))
<1>1. CASE addrs = <<>>
  <2>1. r = Returns(n, "unknown")
    BY <1>1 DEF Resolve
  <2>. QED
    BY <2>1, FrameSelf DEF Linked, Returns, Ready
<1>2. CASE addrs # <<>>
  <2>1. \/ \E k \in 1 .. Len(addrs) : r \in Attempt(cached(k), c, u, peer(k))
        \/ r = Returns(n, "refused") /\ \A i \in 1 .. Len(addrs) : addrs[i] \notin up
    <3>. DEFINE Refused(k) == \A i \in 1 .. k : addrs[i] \notin up
                At(k) == Attempt(cached(k), c, u, peer(k))
                some == UNION {At(k) : k \in {i \in DOMAIN addrs : Refused(i - 1)}}
                none == {Returns(n, "refused") : k \in {i \in {Len(addrs)} : Refused(i)}}
    <3>1. Resolve(n, c, u) = some \cup none
      BY <1>2 DEF Resolve
    <3>2. DOMAIN addrs = 1 .. Len(addrs)
      BY NameAddresses
    <3>. HIDE DEF cached, peer, addrs, At
    <3>3. r \in some => \E k \in DOMAIN addrs : r \in At(k)
      OBVIOUS
    <3>4. r \in none => r = Returns(n, "refused") /\ Refused(Len(addrs))
      OBVIOUS
    <3>. HIDE DEF some, none
    <3>5. r \in some \/ r \in none
      BY <3>1
    <3>. QED
      BY <3>2, <3>3, <3>4, <3>5 DEF At
  <2>2. CASE \E k \in 1 .. Len(addrs) : r \in Attempt(cached(k), c, u, peer(k))
    <3>1. PICK k \in 1 .. Len(addrs) : r \in Attempt(cached(k), c, u, peer(k))
      BY <2>2
    <3>2. u.name \in Names /\ peer(k) \in Peer /\ peer(k).addr \in Range0(Dns[u.name])
          /\ peer(k).port = Port(u)
      BY NameAddresses
    <3>. HIDE DEF peer
    <3>3. /\ NetInv(cached(k)) /\ Frame(n, cached(k), c) /\ SameSockets(n, cached(k))
          /\ SameFlags(n, cached(k)) /\ SameBuffers(n, cached(k)) /\ cached(k).host = n.host
      BY <3>2, AddCacheNet DEF Ready
    <3>. HIDE DEF cached
    <3>4. Ready(cached(k), c)
      BY <3>3 DEF Ready, Open, Idle, SameSockets, SameFlags, SameBuffers
    <3>5. Linked(cached(k), r, c, u)
      BY <3>1, <3>2, <3>4, AttemptLinks
    <3>. QED
      BY <3>3, <3>5, LinkedFrom DEF SameFlags
  <2>3. CASE r = Returns(n, "refused") /\ \A i \in 1 .. Len(addrs) : addrs[i] \notin up
    <3>0. Range0(Dns[u.name]) = {addrs[i] : i \in 1 .. Len(addrs)}
      BY NameAddresses
    <3>1. Range0(Dns[u.name]) \cap up = {}
      BY <2>3, <3>0
    <3>. QED
      BY <2>3, <3>1, FrameSelf DEF Linked, Returns, Ready
  <2>. QED
    BY <2>1, <2>2, <2>3
<1>. QED
  BY <1>1, <1>2

LEMMA SeqElement ==
    ASSUME NEW S, NEW s \in Seq(S), NEW i \in 1 .. Len(s)
    PROVE  s[i] \in S
OBVIOUS

LEMMA ConnectSocketLinks ==
    ASSUME World, NEW n, NEW c \in Conns, Ready(n, c), NEW u \in Url, IsHttp(u),
           NEW r \in ConnectSocket(n, c, u)
    PROVE  Linked(n, r, c, u)
<1>. DEFINE cached == GetCache(n, u.name, Port(u))
<1>1. n \in Net /\ CacheRight(n.cache) /\ n.cache \in Seq([name: Names, peer: Peer])
  BY DEF Ready, NetInv, Net
<1>2. DOMAIN n.cache = 1 .. Len(n.cache)
  BY <1>1
<1>3. ASSUME NEW peer \in cached
      PROVE  peer \in Peer /\ peer.addr \in Range0(Dns[u.name]) /\ peer.port = Port(u)
  <2>1. PICK i \in 1 .. Len(n.cache) : /\ peer = n.cache[i].peer /\ n.cache[i].name = u.name
                                      /\ n.cache[i].peer.port = Port(u)
    BY <1>2, <1>3 DEF GetCache
  <2>2. n.cache[i] \in [name: Names, peer: Peer]
    BY <1>1, <2>1, SeqElement
  <2>. QED
    BY <1>1, <2>1, <2>2 DEF CacheRight
<1>. DEFINE known == UNION {Attempt(n, c, u, peer) : peer \in cached}
<1>4. ConnectSocket(n, c, u) =
        known \cup (IF \A peer \in cached : peer.addr \notin up THEN Resolve(n, c, u) ELSE {})
  BY Zenon DEF ConnectSocket
<1>. HIDE DEF cached
<1>5. CASE r \in known
  <2>1. PICK peer \in cached : r \in Attempt(n, c, u, peer)
    BY <1>5
  <2>. QED
    BY <1>3, <2>1, AttemptLinks
<1>. HIDE DEF known
<1>6. r \in known \/ r \in Resolve(n, c, u)
  BY <1>4
<1>. QED
  BY <1>5, <1>6, ResolveLinks

LEMMA ConnectSocket4Links ==
    ASSUME World, setting.ipv4, NEW n, NEW c \in Conns, Ready(n, c), NEW u \in Url, IsHttp(u),
           NEW r \in ConnectSocket4(n, c, u)
    PROVE  Linked(n, r, c, u)
<1>. DEFINE a == Dns[u.name][1]
            peer == Target(a, u)
            m == SetConnSocket(n, c, peer)
            refused == [m EXCEPT !.peer[m.poll[c]] = Closed]
<1>1. CASE Dns[u.name] = <<>> \/ ~SlotFree(n)
  <2>1. r = Returns(n, "unknown") \/ r = Returns(n, "full")
    BY <1>1 DEF ConnectSocket4
  <2>. QED
    BY <2>1, FrameSelf DEF Linked, Returns, Ready
<1>2. CASE Dns[u.name] # <<>> /\ SlotFree(n)
  <2>1. /\ u.name \in Names /\ 1 \in 1 .. Len(Dns[u.name]) /\ a \in Addrs
        /\ peer \in Peer /\ peer.addr \in Range0(Dns[u.name]) /\ peer.port = Port(u)
        /\ peer.addr = a
    BY <1>2, NameAddresses DEF Target
  <2>2. peer.port # 0
    BY <2>1 DEF Port, Url
  <2>3. \/ r = Returns(m, "ok")
        \/ r \in TcpConnected(m, c, u)
        \/ a \notin up /\ r = Returns(refused, "refused")
    <3>. DEFINE waits == {Returns(m, "ok") : how \in TryConnect(a) \cap {"deferred"}}
                goes == UNION {TcpConnected(m, c, u) : how \in TryConnect(a) \cap {"now"}}
                fails == {Returns(refused, "refused") : how \in TryConnect(a) \cap {"refused"}}
    <3>1. ConnectSocket4(n, c, u) = waits \cup goes \cup fails
      BY <1>2 DEF ConnectSocket4
    <3>. HIDE DEF m, refused, a
    <3>2. "refused" \in TryConnect(a) => a \notin up
      BY DEF TryConnect
    <3>3. /\ r \in waits => r = Returns(m, "ok")
          /\ r \in goes => r \in TcpConnected(m, c, u)
          /\ r \in fails => r = Returns(refused, "refused") /\ "refused" \in TryConnect(a)
      OBVIOUS
    <3>. HIDE DEF waits, goes, fails
    <3>. QED
      BY <3>1, <3>2, <3>3
  <2>. HIDE DEF peer, a
  <2>4. /\ NetInv(m) /\ Frame(n, m, c) /\ Open(m, c) /\ m.peer[m.poll[c]] = peer
        /\ SameFlags(n, m) /\ SameBuffers(n, m) /\ m.host = n.host
    BY <1>2, <2>1, <2>2, SetConnSocketNet DEF Ready
  <2>. HIDE DEF m
  <2>5. /\ ~m.connected[c] /\ m.ssl[c] = "none" /\ Idle(m, c)
        /\ SocketsHandled => m.buf[c] # Null
        /\ Serves(m, c, u)
    BY <2>1, <2>4 DEF Ready, Idle, Serves, SameFlags, SameBuffers
  <2>6. CASE r = Returns(m, "ok")
    BY <2>4, <2>5, <2>6 DEF Linked, Returns, SameFlags
  <2>7. CASE r \in TcpConnected(m, c, u)
    <3>1. Linked(m, r, c, u)
      BY <2>4, <2>5, <2>7, TcpConnectedLinks
    <3>. QED
      BY <2>4, <3>1, LinkedFrom DEF SameFlags
  <2>8. CASE a \notin up /\ r = Returns(refused, "refused")
    <3>1. ~SocketsHandled
      BY <2>1, <2>8 DEF World, SocketsHandled
    <3>. DEFINE p == [m.peer EXCEPT ![m.poll[c]] = Closed]
                k == [m EXCEPT !.peer = p]
    <3>2. m \in Net /\ m.poll[c] \in Fds /\ p \in [Fds -> Peer \cup {Closed}]
      BY <2>4 DEF NetInv, Net, Open
    <3>3. k \in Net
      BY <3>2, NetUpdate
    <3>4. refused = k
      BY <3>2 DEF Net
    <3>5. /\ k.peer = p /\ k.poll = m.poll /\ k.host = m.host /\ k.cache = m.cache
          /\ SameFlags(m, k) /\ SameBuffers(m, k)
      BY <3>2 DEF Net, SameFlags, SameBuffers
    <3>6. \A f \in Fds : k.peer[f] # Closed => k.peer[f] = m.peer[f]
      BY <3>2, <3>5 DEF Net
    <3>. HIDE DEF k, p
    <3>7. PeerOwned(k) /\ Opened(k) = Opened(m)
      BY <2>4, <3>5, <3>6 DEF NetInv, PeerOwned, Opened, Open
    <3>8. NetInv(k)
      BY <2>4, <3>1, <3>3, <3>5, <3>7 DEF NetInv, SameBuffers
    <3>9. Frame(m, k, c)
      BY <3>1, <3>5 DEF Frame, SameFlags, SameBuffers
    <3>10. Idle(k, c)
      BY <2>5, <3>5 DEF Idle, SameFlags
    <3>11. Linked(m, r, c, u)
      BY <2>8, <3>1, <3>4, <3>5, <3>8, <3>9, <3>10 DEF Linked, Returns
    <3>. QED
      BY <2>4, <3>11, LinkedFrom DEF SameFlags
  <2>. QED
    BY <2>3, <2>6, <2>7, <2>8
<1>. QED
  BY <1>1, <1>2

LEMMA OpenSocketLinks ==
    ASSUME World, NEW n, NEW c \in Conns, Ready(n, c), NEW u \in Url, IsHttp(u),
           NEW r \in OpenSocket(n, c, u)
    PROVE  Linked(n, r, c, u)
BY ConnectSocketLinks, ConnectSocket4Links DEF OpenSocket

-----------------------------------------------------------------------------
(* build_request.                                                          *)

\* What comes of build_request for c and url u, from n.
Built(n, r, c, u) ==
    /\ NetInv(r.net) /\ Frame(n, r.net, c) /\ ConnInv(r.net, c)
    /\ r.net.host[c] \in {n.host[c], u}
    /\ r.rc \in {"ok", "scheme", "unknown", "refused", "full", "tls", "reset"}
    /\ r.rc = "ok" =>
         /\ Open(r.net, c) /\ r.net.asking[c]
         /\ IsHttp(u) /\ SameHost(r.net.host[c], u)
    /\ r.rc = "scheme" => r.net = n
    /\ r.rc \notin {"ok", "scheme"} => Idle(r.net, c)
    /\ r.rc = "refused" /\ ~setting.ipv4 => Range0(Dns[u.name]) \cap up = {}

LEMMA SetAsking ==
    ASSUME NEW n, NetInv(n), NEW c \in Conns, NEW b \in BOOLEAN
    PROVE  LET m == [n EXCEPT !.asking[c] = b]
           IN /\ NetInv(m) /\ Frame(n, m, c) /\ m.asking[c] = b
              /\ SameSockets(n, m) /\ SameBuffers(n, m) /\ m.host = n.host
              /\ m.connected = n.connected /\ m.ssl = n.ssl
<1>. DEFINE a == [n.asking EXCEPT ![c] = b]
            k == [n EXCEPT !.asking = a]
<1>1. n \in Net /\ a \in [Conns -> BOOLEAN]
  BY DEF NetInv, Net
<1>2. k \in Net
  BY <1>1, NetUpdate
<1>3. [n EXCEPT !.asking[c] = b] = k
  BY <1>1 DEF Net
<1>4. /\ k.asking = a /\ SameSockets(n, k) /\ SameBuffers(n, k) /\ k.host = n.host
      /\ k.cache = n.cache /\ k.connected = n.connected /\ k.ssl = n.ssl
  BY <1>1 DEF Net, SameSockets, SameBuffers
<1>5. k.asking[c] = b /\ \A d \in Conns \ {c} : k.asking[d] = n.asking[d]
  BY <1>1, <1>4 DEF Net
<1>. HIDE DEF k, a
<1>6. NetInv(k) /\ Frame(n, k, c)
  BY <1>2, <1>4, <1>5, SetFlags
<1>. QED
  BY <1>3, <1>4, <1>5, <1>6

LEMMA BuildRequestBuilds ==
    ASSUME World, NEW n, NetInv(n), NEW c \in Conns, ConnInv(n, c),
           SocketsHandled => \A d \in Conns \ {c} : n.buf[d] # Null => Open(n, d),
           NEW u \in Url, u \in Met, n.host[c] \in Met,
           NEW r \in BuildRequest(n, c, u)
    PROVE  Built(n, r, c, u)
<1>. DEFINE kept == IF Open(n, c) /\ ~SameHost(n.host[c], u) THEN Release(n, c) ELSE n
            fixed == FixupHost(kept, c, u)
            ready == GetBuf(fixed, c)
            Finish(s) ==
              IF s.rc = "ok" THEN Returns([s.net EXCEPT !.asking[c] = TRUE], "ok")
              ELSE Returns(FreeBuf(s.net, c), s.rc)
<1>1. CASE ~IsHttp(u)
  <2>1. r = Returns(n, "scheme")
    BY <1>1 DEF BuildRequest
  <2>. QED
    BY <2>1, FrameSelf DEF Built, Returns
<1>2. CASE IsHttp(u)
  <2>1. /\ NetInv(kept) /\ Frame(n, kept, c) /\ ConnInv(kept, c) /\ kept.host = n.host
        /\ Open(kept, c) => SameHost(kept.host[c], u)
    <3>1. CASE Open(n, c) /\ ~SameHost(n.host[c], u)
      <4>1. /\ NetInv(kept) /\ Frame(n, kept, c) /\ kept.host = n.host
            /\ ~Open(kept, c) /\ Idle(kept, c) /\ kept.buf[c] = Null
        BY <3>1, ReleaseNet
      <4>. QED
        BY <4>1 DEF ConnInv, Idle
    <3>2. CASE ~(Open(n, c) /\ ~SameHost(n.host[c], u))
      BY <3>2, FrameSelf
    <3>. QED
      BY <3>1, <3>2
  <2>2. /\ Open(ready, c) => r = Finish(Returns(ready, "ok"))
        /\ ~Open(ready, c) => \E s \in OpenSocket(ready, c, u) : r = Finish(s)
    BY <1>2, Zenon DEF BuildRequest
  <2>. HIDE DEF kept
  <2>3. SocketsHandled => \A d \in Conns \ {c} : kept.buf[d] # Null => Open(kept, d)
    BY <2>1 DEF Frame, Open
  <2>4. /\ NetInv(fixed) /\ Frame(kept, fixed, c) /\ SameSockets(kept, fixed)
        /\ SameFlags(kept, fixed) /\ SameBuffers(kept, fixed) /\ SameHost(fixed.host[c], u)
        /\ fixed.host[c] \in {kept.host[c], u}
        /\ SameHost(kept.host[c], u) => fixed = kept
    BY <2>1, FixupHostNet
  <2>. HIDE DEF fixed
  <2>5. /\ NetInv(ready) /\ Frame(fixed, ready, c) /\ ready.buf[c] # Null
        /\ SameSockets(fixed, ready) /\ SameFlags(fixed, ready) /\ ready.host = fixed.host
    <3>1. SocketsHandled => \A d \in Conns \ {c} : fixed.buf[d] # Null => Open(fixed, d)
      BY <2>3, <2>4 DEF SameBuffers, SameSockets, Open
    <3>. QED
      BY <2>4, <3>1, GetBufNet
  <2>. HIDE DEF ready
  <2>6. Frame(n, ready, c)
    BY <2>1, <2>4, <2>5, FrameTransitive
  <2>7. OneScheme => ready.host[c] = u
    BY <2>1, <2>4, <2>5 DEF OneScheme, Met
  <2>8. /\ SameHost(ready.host[c], u) /\ ready.host[c] \in {n.host[c], u}
    BY <2>1, <2>4, <2>5
  <2>9. CASE Open(ready, c)
    <3>. DEFINE k == [ready EXCEPT !.asking[c] = TRUE]
    <3>1. r = Returns(k, "ok")
      BY <2>2, <2>9 DEF Returns
    <3>2. /\ NetInv(k) /\ Frame(ready, k, c) /\ k.asking[c] = TRUE
          /\ SameSockets(ready, k) /\ SameBuffers(ready, k) /\ k.host = ready.host
          /\ k.connected = ready.connected /\ k.ssl = ready.ssl
      BY <2>5, SetAsking
    <3>. HIDE DEF k
    <3>3. Open(kept, c) /\ fixed = kept
      BY <2>1, <2>4, <2>5, <2>9 DEF SameSockets, Open
    <3>4. ConnInv(k, c)
      BY <2>1, <2>5, <2>9, <3>2, <3>3
         DEF ConnInv, Serves, Open, SameSockets, SameFlags, SameBuffers
    <3>5. Frame(n, k, c)
      BY <2>6, <3>2, FrameTransitive
    <3>6. Open(k, c)
      BY <2>9, <3>2 DEF Open, SameSockets
    <3>. QED
      BY <1>2, <2>8, <3>1, <3>2, <3>4, <3>5, <3>6 DEF Built, Returns
  <2>10. CASE ~Open(ready, c)
    <3>1. PICK s \in OpenSocket(ready, c, u) : r = Finish(s)
      BY <2>2, <2>10
    <3>2. Ready(ready, c)
      BY <2>1, <2>4, <2>5, <2>10 DEF Ready, ConnInv, Idle, Open, SameSockets, SameFlags
    <3>3. Linked(ready, s, c, u)
      BY <1>2, <3>2, OpenSocketLinks
    <3>4. CASE s.rc = "ok"
      <4>. DEFINE k == [s.net EXCEPT !.asking[c] = TRUE]
      <4>1. r = Returns(k, "ok")
        BY <3>1, <3>4
      <4>2. /\ NetInv(k) /\ Frame(s.net, k, c) /\ k.asking[c] = TRUE
            /\ SameSockets(s.net, k) /\ SameBuffers(s.net, k) /\ k.host = s.net.host
            /\ k.connected = s.net.connected /\ k.ssl = s.net.ssl
        BY <3>3, SetAsking DEF Linked
      <4>. HIDE DEF k
      <4>3. Open(k, c) /\ k.host = ready.host
        BY <3>3, <3>4, <4>2 DEF Linked, Open, SameSockets
      <4>4. ConnInv(k, c)
        BY <2>7, <3>3, <3>4, <4>2, <4>3
           DEF Linked, ConnInv, Serves, Open, SameSockets, SameBuffers
      <4>5. Frame(n, k, c)
        BY <2>6, <3>3, <4>2, FrameTransitive DEF Linked
      <4>. QED
        BY <1>2, <2>8, <4>1, <4>2, <4>3, <4>4, <4>5 DEF Built, Returns
    <3>5. CASE s.rc # "ok"
      <4>. DEFINE k == FreeBuf(s.net, c)
      <4>1. r = Returns(k, s.rc)
        BY <3>1, <3>5
      <4>2. /\ NetInv(k) /\ Frame(s.net, k, c) /\ k.buf[c] = Null
            /\ SameSockets(s.net, k) /\ SameFlags(s.net, k) /\ k.host = s.net.host
        BY <3>3, FreeBufNet DEF Linked
      <4>. HIDE DEF k
      <4>3. Idle(k, c) /\ (SocketsHandled => ~Open(k, c)) /\ k.host = ready.host
        BY <3>3, <3>5, <4>2 DEF Linked, Idle, Open, SameSockets, SameFlags
      <4>4. ConnInv(k, c)
        BY <4>2, <4>3 DEF ConnInv, Idle, Serves
      <4>5. Frame(n, k, c)
        BY <2>6, <3>3, <4>2, FrameTransitive DEF Linked
      <4>. QED
        BY <2>8, <3>3, <3>5, <4>1, <4>2, <4>3, <4>4, <4>5 DEF Built, Returns, Linked
    <3>. QED
      BY <3>4, <3>5
  <2>. QED
    BY <2>9, <2>10
<1>. QED
  BY <1>1, <1>2

-----------------------------------------------------------------------------
(* The invariant.                                                          *)

\* Everything is as it should be with connection c.
ConnOK(n, c, u, s, k) ==
    /\ ConnInv(n, c) /\ AskInv(n, c, u, s)
    /\ n.host[c] \in Met /\ u \in Met
    /\ s # "done" => k <= 2

\* The inductive invariant: the net, and each connection in it.
RequestsInv ==
    /\ TypeOK /\ NetInv(net)
    /\ setting.down \/ up = Addrs
    /\ \A c \in Conns : ConnOK(net, c, url[c], status[c], reset[c])

LEMMA MetUrls ==
    ASSUME World
    PROVE  Met \subseteq Url
<1>1. setting \in Setting
  BY RequestsAssumption DEF World
<1>2. /\ setting.first \subseteq Url /\ setting.links \subseteq Link
      /\ \A c \in DOMAIN BaseHref : BaseHref[c] \in Url
  BY <1>1, RequestsAssumption DEF Setting
<1>3. \A l \in Link, s \in {"http"} : l.url \in Url /\ [l.url EXCEPT !.scheme = s] \in Url
                                     /\ [l.url EXCEPT !.scheme = @] = l.url
  BY DEF Link, Url
<1>. QED
  BY <1>2, <1>3 DEF Met

\* Where a Location or a page leads is met.
LEMMA LinksMet ==
    ASSUME World, NEW c \in Conns, net.host[c] \in Met, NEW link \in setting.links
    PROVE  RedirectUrl(c, link) \in Met /\ HtmlUrl(c, link) \in Met
<1>1. setting \in Setting
  BY RequestsAssumption DEF World
<1>2. link \in Link
  BY <1>1 DEF Setting
<1>3. CASE link.kind = "full"
  <2>1. link.url = [link.url EXCEPT !.scheme = IF link.kind = "rooted" THEN "http" ELSE @]
    BY <1>2, <1>3 DEF Link, Url
  <2>2. link.url \in Met
    BY <1>3, <2>1 DEF Met
  <2>. QED
    BY <1>3, <2>2 DEF RedirectUrl, HtmlUrl, Met
<1>4. CASE link.kind = "rooted"
  <2>1. [link.url EXCEPT !.scheme = "http"] =
          [link.url EXCEPT !.scheme = IF link.kind = "rooted" THEN "http" ELSE @]
    BY <1>2, <1>4 DEF Link, Url
  <2>2. [link.url EXCEPT !.scheme = "http"] \in Met
    BY <1>4, <2>1 DEF Met
  <2>. QED
    BY <1>4, <2>2 DEF RedirectUrl, HtmlUrl
<1>5. CASE link.kind = "path"
  BY <1>5 DEF RedirectUrl, HtmlUrl, Met
<1>. QED
  BY <1>2, <1>3, <1>4, <1>5 DEF Link

LEMMA InitInv == Init => RequestsInv
<1>. SUFFICES ASSUME Init PROVE RequestsInv
  OBVIOUS
<1>1. setting \in Setting /\ setting.first \subseteq Url
  BY RequestsAssumption DEF Init, Setting
<1>2. url \in [Conns -> Url] /\ \A c \in Conns : url[c] \in setting.first
  BY <1>1 DEF Init
<1>3. /\ net.peer = [f \in Fds |-> Closed] /\ net.poll = [c \in Conns |-> Null]
      /\ net.connected = [c \in Conns |-> FALSE] /\ net.ssl = [c \in Conns |-> "none"]
      /\ net.asking = [c \in Conns |-> FALSE] /\ net.host = url
      /\ net.buf = [c \in Conns |-> Null] /\ net.free = <<>> /\ net.bufs = 0
      /\ net.cache = <<>>
  BY DEF Init
<1>4. net \in Net
  BY <1>2 DEF Init, Net, Null
<1>5. Opened(net) = {}
  BY <1>3 DEF Opened, Open
<1>6. Cardinality(Opened(net)) = 0
  BY <1>5, FS_EmptySet
<1>7. PoolOf(net.buf, net.free, net.bufs) /\ CacheRight(net.cache)
  BY <1>3 DEF PoolOf, CacheRight, Null
<1>8. NetInv(net)
  BY <1>3, <1>4, <1>6, <1>7, RequestsAssumption DEF NetInv, PeerOwned, SocketsApart, Open
<1>9. TypeOK
  BY <1>2, <1>4, RequestsAssumption DEF Init, TypeOK
<1>10. ASSUME NEW c \in Conns
       PROVE  ConnOK(net, c, url[c], status[c], reset[c])
  <2>1. url[c] \in Met
    BY <1>2 DEF Met
  <2>. QED
    BY <1>3, <2>1 DEF Init, ConnOK, ConnInv, AskInv, Idle, Open, Null
<1>. QED
  BY <1>8, <1>9, <1>10 DEF Init, RequestsInv

\* What a handler of c has to see to.
LEMMA StepKeeps ==
    ASSUME RequestsInv, NEW c \in Conns, setting' = setting, up' = up, TypeOK',
           NetInv(net'), Frame(net, net', c),
           ConnOK(net', c, url'[c], status'[c], reset'[c]),
           \A d \in Conns \ {c} : /\ url'[d] = url[d] /\ status'[d] = status[d]
                                  /\ reset'[d] = reset[d]
    PROVE  RequestsInv'
<1>1. ASSUME NEW d \in Conns
      PROVE  ConnOK(net', d, url'[d], status'[d], reset'[d])
  <2>1. CASE d = c
    BY <2>1
  <2>2. CASE d # c
    <3>1. ConnOK(net, d, url[d], status[d], reset[d])
      BY DEF RequestsInv
    <3>2. ConnInv(net', d)
      BY <2>2, <3>1 DEF ConnOK, ConnInv, Frame, Open, Idle, Serves
    <3>3. AskInv(net', d, url[d], status[d])
      BY <2>2, <3>1 DEF ConnOK, AskInv, Frame, Open
    <3>. QED
      BY <2>2, <3>1, <3>2, <3>3 DEF ConnOK, Frame
  <2>. QED
    BY <2>1, <2>2
<1>2. NetInv(net)'
  BY DEF NetInv, PeerOwned, Opened, Open, PoolOf, CacheRight, SocketsHandled, SocketsApart
<1>3. \A d \in Conns : ConnOK(net', d, url'[d], status'[d], reset'[d])
  BY <1>1
<1>4. (\A d \in Conns : ConnOK(net, d, url[d], status[d], reset[d]))'
  BY <1>3 DEF ConnOK, ConnInv, AskInv, Met, Open, Idle, Serves, SocketsHandled, OneScheme,
              IsHttp, SameHost
<1>. QED
  BY <1>2, <1>4 DEF RequestsInv

-----------------------------------------------------------------------------
(* The handlers.                                                           *)

Rcs == {"ok", "scheme", "unknown", "refused", "full", "tls", "reset"}

LEMMA InvWorld ==
    ASSUME RequestsInv
    PROVE  World
BY DEF RequestsInv, TypeOK, World

\* build_request from the net as it is, and once the connection is released.
LEMMA BuildHere ==
    ASSUME RequestsInv, NEW c \in Conns, NEW u \in Met, NEW r \in BuildRequest(net, c, u)
    PROVE  Built(net, r, c, u)
<1>1. /\ World /\ u \in Url /\ NetInv(net) /\ ConnInv(net, c) /\ net.host[c] \in Met
      /\ SocketsHandled => \A d \in Conns \ {c} : net.buf[d] # Null => Open(net, d)
  BY InvWorld, MetUrls DEF RequestsInv, ConnOK, ConnInv
<1>. QED
  BY <1>1, BuildRequestBuilds

LEMMA ReleaseHere ==
    ASSUME NEW c \in Conns, NEW n, NetInv(n), Frame(net, n, c), n.host[c] \in Met
    PROVE  LET m == Release(n, c)
           IN /\ NetInv(m) /\ Frame(net, m, c) /\ Idle(m, c) /\ ~Open(m, c)
              /\ ConnInv(m, c) /\ m.host = n.host
              /\ \A u : AskInv(m, c, u, "done")
<1>. DEFINE m == Release(n, c)
<1>1. /\ NetInv(m) /\ Frame(n, m, c) /\ m.host = n.host
      /\ ~Open(m, c) /\ Idle(m, c) /\ m.buf[c] = Null
  BY ReleaseNet
<1>2. Frame(net, m, c)
  BY <1>1, FrameTransitive
<1>. HIDE DEF m
<1>3. ConnInv(m, c) /\ \A u : AskInv(m, c, u, "done")
  BY <1>1 DEF ConnInv, AskInv, Idle
<1>. QED
  BY <1>1, <1>2, <1>3 DEF m

LEMMA BuildReleased ==
    ASSUME RequestsInv, NEW c \in Conns, NEW u \in Met,
           NEW r \in BuildRequest(Release(net, c), c, u)
    PROVE  /\ Built(Release(net, c), r, c, u)
           /\ Frame(net, r.net, c) /\ r.net.host[c] \in Met
<1>. DEFINE m == Release(net, c)
<1>1. /\ World /\ u \in Url /\ NetInv(net) /\ net.host[c] \in Met
      /\ SocketsHandled => \A d \in Conns \ {c} : net.buf[d] # Null => Open(net, d)
  BY InvWorld, MetUrls DEF RequestsInv, ConnOK, ConnInv
<1>2. /\ NetInv(m) /\ Frame(net, m, c) /\ ConnInv(m, c) /\ m.host = net.host
  BY <1>1, FrameSelf, ReleaseHere
<1>. HIDE DEF m
<1>3. SocketsHandled => \A d \in Conns \ {c} : m.buf[d] # Null => Open(m, d)
  BY <1>1, <1>2 DEF Frame, Open
<1>4. Built(m, r, c, u)
  BY <1>1, <1>2, <1>3, BuildRequestBuilds DEF m
<1>5. Frame(net, r.net, c)
  BY <1>2, <1>4, FrameTransitive DEF Built
<1>. QED
  BY <1>1, <1>2, <1>4, <1>5 DEF Built, m

\* The connection that a comic goes on with, or that is left of it.
LEMMA BuiltAsks ==
    ASSUME NEW n, NEW c \in Conns, NEW u, NEW r, Built(n, r, c, u), AskInv(n, c, u, "done")
    PROVE  AskInv(r.net, c, u, IF r.rc = "ok" THEN "active" ELSE "done")
<1>1. CASE r.rc = "ok"
  BY <1>1 DEF Built, AskInv
<1>2. CASE r.rc = "scheme"
  BY <1>2 DEF Built, AskInv
<1>3. CASE r.rc \notin {"ok", "scheme"}
  BY <1>3 DEF Built, AskInv, Idle
<1>. QED
  BY <1>1, <1>2, <1>3

LEMMA StartKeeps ==
    ASSUME RequestsInv, NEW c \in Conns, Start(c)
    PROVE  RequestsInv'
<1>1. PICK r \in BuildRequest(net, c, url[c]) :
        /\ net' = r.net /\ Goes(c, r)
        /\ outstanding' = outstanding + CountedOut(r) + (IF r.rc = "ok" THEN 1 ELSE 0)
  BY DEF Start
<1>2. /\ UNCHANGED <<setting, up, url, matched, reset, tries>> /\ status[c] = "queued"
      /\ TypeOK /\ ConnOK(net, c, url[c], status[c], reset[c])
  BY DEF Start, Is, RequestsInv
<1>3. Built(net, r, c, url[c])
  BY <1>1, <1>2, BuildHere DEF ConnOK
<1>4. AskInv(net, c, url[c], "done")
  BY <1>2 DEF ConnOK, AskInv
<1>5. /\ status' = [status EXCEPT ![c] = IF r.rc = "ok" THEN "active" ELSE "done"]
      /\ last' = r.rc
  BY <1>1 DEF Goes, Become
<1>6. TypeOK'
  BY <1>1, <1>2, <1>3, <1>5 DEF TypeOK, Built, NetInv, CountedOut, IsHttp
<1>7. ConnOK(net', c, url'[c], status'[c], reset'[c])
  BY <1>1, <1>2, <1>3, <1>4, <1>5, BuiltAsks DEF ConnOK, Built, TypeOK
<1>. QED
  BY <1>1, <1>2, <1>3, <1>5, <1>6, <1>7, StepKeeps DEF Built, TypeOK

LEMMA EndKeeps ==
    ASSUME RequestsInv, NEW c \in Conns, End(c)
    PROVE  RequestsInv'
<1>1. /\ net' = Release(net, c) /\ outstanding' = outstanding - 1
      /\ status' = [status EXCEPT ![c] = "done"] /\ last' = "ok"
      /\ UNCHANGED <<setting, up, url, matched, reset, tries>>
      /\ TypeOK /\ NetInv(net) /\ ConnOK(net, c, url[c], status[c], reset[c])
  BY DEF End, Become, RequestsInv
<1>2. /\ NetInv(net') /\ Frame(net, net', c) /\ ConnInv(net', c) /\ net'.host = net.host
      /\ AskInv(net', c, url[c], "done")
  BY <1>1, FrameSelf, ReleaseHere DEF ConnOK
<1>3. TypeOK'
  BY <1>1, <1>2 DEF TypeOK, NetInv
<1>4. ConnOK(net', c, url'[c], status'[c], reset'[c])
  BY <1>1, <1>2 DEF ConnOK, TypeOK
<1>. QED
  BY <1>1, <1>2, <1>3, <1>4, StepKeeps DEF TypeOK

LEMMA CheckConnectKeeps ==
    ASSUME RequestsInv, NEW c \in Conns, CheckConnect(c)
    PROVE  RequestsInv'
<1>1. PICK r \in TcpConnected(net, c, url[c]) :
        /\ net' = r.net
        /\ \/ r.rc = "ok" /\ UNCHANGED <<status, outstanding>>
           \/ r.rc # "ok" /\ Become(c, "done") /\ outstanding' = outstanding + CountedOut(r)
  BY DEF CheckConnect
<1>2. /\ UNCHANGED <<setting, up, url, matched, reset, tries>> /\ last' = "ok"
      /\ status[c] = "active" /\ Open(net, c) /\ ~net.connected[c] /\ net.ssl[c] = "none"
      /\ TypeOK /\ World /\ NetInv(net) /\ ConnOK(net, c, url[c], status[c], reset[c])
  BY InvWorld DEF CheckConnect, Is, RequestsInv
<1>3. net.asking[c] /\ IsHttp(url[c]) /\ SameHost(net.host[c], url[c]) /\ url[c] \in Url
  BY <1>2 DEF ConnOK, AskInv, TypeOK
<1>4. OneScheme => net.host[c] = url[c]
  BY <1>2, <1>3 DEF ConnOK, OneScheme, Met
<1>5. Serves(net, c, url[c]) /\ (SocketsHandled => net.buf[c] # Null)
  BY <1>2, <1>4 DEF ConnOK, ConnInv, Serves
<1>6. Linked(net, r, c, url[c]) /\ (r.rc # "ok" => r.net.buf[c] = Null)
  BY <1>2, <1>3, <1>5, TcpConnectedLinks
<1>7. CASE r.rc = "ok"
  <2>1. /\ Open(net', c) /\ net'.asking[c] /\ net'.host = net.host
        /\ NetInv(net') /\ Frame(net, net', c)
    BY <1>1, <1>3, <1>6, <1>7 DEF Linked
  <2>2. ConnInv(net', c)
    BY <1>1, <1>4, <1>6, <1>7, <2>1 DEF Linked, ConnInv, Serves
  <2>3. AskInv(net', c, url[c], "active")
    BY <1>3, <2>1 DEF AskInv
  <2>4. TypeOK'
    BY <1>1, <1>2, <1>7, <2>1 DEF TypeOK, NetInv
  <2>5. ConnOK(net', c, url'[c], status'[c], reset'[c])
    BY <1>1, <1>2, <1>7, <2>1, <2>2, <2>3 DEF ConnOK
  <2>. QED
    BY <1>1, <1>2, <1>7, <2>1, <2>4, <2>5, StepKeeps
<1>8. CASE r.rc # "ok"
  <2>1. /\ Idle(net', c) /\ (SocketsHandled => ~Open(net', c)) /\ net'.host = net.host
        /\ NetInv(net') /\ Frame(net, net', c)
    BY <1>1, <1>6, <1>8 DEF Linked
  <2>2. status' = [status EXCEPT ![c] = "done"] /\ outstanding' \in Int
    BY <1>1, <1>2, <1>8 DEF Become, CountedOut, TypeOK
  <2>3. ConnInv(net', c) /\ AskInv(net', c, url[c], "done")
    BY <1>1, <1>6, <1>8, <2>1 DEF ConnInv, AskInv, Idle, Serves
  <2>4. TypeOK'
    BY <1>1, <1>2, <2>1, <2>2 DEF TypeOK, NetInv
  <2>5. ConnOK(net', c, url'[c], status'[c], reset'[c])
    BY <1>2, <2>1, <2>2, <2>3 DEF ConnOK, TypeOK
  <2>. QED
    BY <1>2, <2>1, <2>2, <2>4, <2>5, StepKeeps DEF TypeOK
<1>. QED
  BY <1>7, <1>8

LEMMA CheckTlsKeeps ==
    ASSUME RequestsInv, NEW c \in Conns, CheckTls(c)
    PROVE  RequestsInv'
<1>1. /\ net' \in Handshake(net, c) /\ last' = "ok" /\ net.ssl[c] = "shaking"
      /\ UNCHANGED <<setting, up, status, outstanding, url, matched, reset, tries>>
      /\ TypeOK /\ NetInv(net) /\ ConnOK(net, c, url[c], status[c], reset[c])
  BY DEF CheckTls, RequestsInv
<1>2. /\ NetInv(net') /\ Frame(net, net', c) /\ net'.host = net.host
      /\ SameSockets(net, net') /\ SameBuffers(net, net') /\ net'.asking = net.asking
      /\ \/ net'.ssl[c] = "shaking" /\ net'.connected[c] = net.connected[c]
         \/ net'.ssl[c] = "ready" /\ net'.connected[c] = TRUE
  BY <1>1, HandshakeNet
<1>3. ConnInv(net', c)
  BY <1>1, <1>2 DEF ConnOK, ConnInv, Serves, Idle, Open, SameSockets, SameBuffers
<1>4. AskInv(net', c, url[c], status[c])
  BY <1>1, <1>2 DEF ConnOK, AskInv, Open, SameSockets
<1>5. TypeOK'
  BY <1>1, <1>2 DEF TypeOK, NetInv
<1>6. ConnOK(net', c, url'[c], status'[c], reset'[c])
  BY <1>1, <1>2, <1>3, <1>4 DEF ConnOK
<1>. QED
  BY <1>1, <1>2, <1>5, <1>6, StepKeeps

\* A connection is released once more after build_request has failed.
LEMMA ReleasedAfter ==
    ASSUME RequestsInv, NEW c \in Conns, NEW u \in Met,
           NEW r \in BuildRequest(Release(net, c), c, u)
    PROVE  LET m == Release(r.net, c)
           IN /\ NetInv(m) /\ Frame(net, m, c) /\ ConnInv(m, c) /\ m.host[c] \in Met
              /\ AskInv(m, c, u, "done")
<1>1. Built(Release(net, c), r, c, u) /\ Frame(net, r.net, c) /\ r.net.host[c] \in Met
  BY BuildReleased
<1>2. NetInv(r.net)
  BY <1>1 DEF Built
<1>. QED
  BY <1>1, <1>2, ReleaseHere

LEMMA ReleasedHere ==
    ASSUME RequestsInv, NEW c \in Conns
    PROVE  LET m == Release(net, c)
           IN /\ NetInv(m) /\ Frame(net, m, c) /\ ConnInv(m, c) /\ m.host[c] \in Met
              /\ ~Open(m, c) /\ \A u : AskInv(m, c, u, "done")
<1>1. NetInv(net) /\ net.host[c] \in Met
  BY DEF RequestsInv, ConnOK
<1>. QED
  BY <1>1, FrameSelf, ReleaseHere

LEMMA CheckTlsResetKeeps ==
    ASSUME RequestsInv, NEW c \in Conns, CheckTlsReset(c)
    PROVE  RequestsInv'
<1>1. /\ reset' = [reset EXCEPT ![c] = @ + 1] /\ status' = [status EXCEPT ![c] = "done"]
      /\ tries < MaxTries /\ tries' = tries + 1 /\ net.ssl[c] = "shaking"
      /\ UNCHANGED <<setting, up, url, matched>>
      /\ TypeOK /\ ConnOK(net, c, url[c], status[c], reset[c])
  BY DEF CheckTlsReset, Become, Try, RequestsInv
<1>2. reset[c] <= 2 /\ url[c] \in Met
  BY <1>1 DEF ConnOK, AskInv
<1>3. /\ NetInv(net') /\ Frame(net, net', c) /\ ConnInv(net', c) /\ net'.host[c] \in Met
      /\ AskInv(net', c, url[c], "done") /\ last' \in Rcs /\ outstanding' \in Int
  <2>1. CASE net' = Release(net, c) /\ last' = "ok" /\ outstanding' = outstanding - 1
    BY <1>1, <2>1, ReleasedHere DEF Rcs, TypeOK
  <2>2. CASE \E r \in BuildRequest(Release(net, c), c, url[c]) :
               /\ net' = Release(r.net, c) /\ last' = r.rc
               /\ outstanding' = outstanding + CountedOut(r) + FailConnection(r.net, c)
    <3>1. PICK r \in BuildRequest(Release(net, c), c, url[c]) :
               /\ net' = Release(r.net, c) /\ last' = r.rc
               /\ outstanding' = outstanding + CountedOut(r) + FailConnection(r.net, c)
      BY <2>2
    <3>2. r.rc \in Rcs
      BY <1>2, BuildReleased DEF Built, Rcs
    <3>. QED
      BY <1>1, <1>2, <3>1, <3>2, ReleasedAfter DEF TypeOK, CountedOut, FailConnection
  <2>. QED
    BY <2>1, <2>2 DEF CheckTlsReset
<1>4. TypeOK'
  BY <1>1, <1>2, <1>3, RequestsAssumption DEF TypeOK, NetInv, Rcs
<1>5. ConnOK(net', c, url'[c], status'[c], reset'[c])
  BY <1>1, <1>2, <1>3 DEF ConnOK, TypeOK
<1>. QED
  BY <1>1, <1>3, <1>4, <1>5, StepKeeps DEF TypeOK

LEMMA WriteRequestKeeps ==
    ASSUME RequestsInv, NEW c \in Conns, WriteRequest(c)
    PROVE  RequestsInv'
<1>1. /\ net' = [net EXCEPT !.asking[c] = FALSE] /\ last' = "ok" /\ net.connected[c]
      /\ UNCHANGED <<setting, up, status, outstanding, url, matched, reset, tries>>
      /\ TypeOK /\ NetInv(net) /\ ConnOK(net, c, url[c], status[c], reset[c])
  BY DEF WriteRequest, RequestsInv
<1>2. /\ NetInv(net') /\ Frame(net, net', c) /\ net'.asking[c] = FALSE
      /\ SameSockets(net, net') /\ SameBuffers(net, net') /\ net'.host = net.host
      /\ net'.connected = net.connected /\ net'.ssl = net.ssl
  BY <1>1, SetAsking
<1>3. ConnInv(net', c)
  BY <1>1, <1>2 DEF ConnOK, ConnInv, Serves, Idle, Open, SameSockets, SameBuffers
<1>4. AskInv(net', c, url[c], status[c])
  BY <1>1, <1>2 DEF ConnOK, AskInv, Open, SameSockets
<1>5. TypeOK'
  BY <1>1, <1>2 DEF TypeOK, NetInv
<1>6. ConnOK(net', c, url'[c], status'[c], reset'[c])
  BY <1>1, <1>2, <1>3, <1>4 DEF ConnOK
<1>. QED
  BY <1>1, <1>2, <1>5, <1>6, StepKeeps

LEMMA ResetKeeps ==
    ASSUME RequestsInv, NEW c \in Conns, Reset(c)
    PROVE  RequestsInv'
<1>1. /\ reset' = [reset EXCEPT ![c] = @ + 1] /\ status[c] = "active"
      /\ tries < MaxTries /\ tries' = tries + 1
      /\ UNCHANGED <<setting, up, url, matched>>
      /\ TypeOK /\ ConnOK(net, c, url[c], status[c], reset[c])
  BY DEF Reset, Reading, Is, Try, RequestsInv
<1>2. reset[c] <= 2 /\ url[c] \in Met
  BY <1>1 DEF ConnOK
<1>3. \E s \in {"active", "done"} :
        /\ status' = [status EXCEPT ![c] = s] /\ (s = "active" => reset[c] < 2)
        /\ NetInv(net') /\ Frame(net, net', c) /\ ConnInv(net', c) /\ net'.host[c] \in Met
        /\ AskInv(net', c, url[c], s) /\ last' \in Rcs /\ outstanding' \in Int
  <2>1. CASE /\ net' = Release(net, c) /\ Become(c, "done") /\ last' = "ok"
             /\ outstanding' = outstanding - 1
    BY <1>1, <2>1, ReleasedHere DEF Rcs, TypeOK, Become
  <2>2. CASE /\ reset[c] < 2
             /\ \E r \in BuildRequest(Release(net, c), c, url[c]) :
                  /\ Goes(c, r)
                  /\ IF r.rc = "ok" THEN net' = r.net /\ UNCHANGED outstanding
                     ELSE /\ net' = Release(r.net, c)
                          /\ outstanding' = outstanding + CountedOut(r)
                                              + FailConnection(r.net, c)
    <3>1. PICK r \in BuildRequest(Release(net, c), c, url[c]) :
                  /\ Goes(c, r)
                  /\ IF r.rc = "ok" THEN net' = r.net /\ UNCHANGED outstanding
                     ELSE /\ net' = Release(r.net, c)
                          /\ outstanding' = outstanding + CountedOut(r)
                                              + FailConnection(r.net, c)
      BY <2>2
    <3>2. /\ Built(Release(net, c), r, c, url[c])
          /\ Frame(net, r.net, c) /\ r.net.host[c] \in Met
      BY <1>2, BuildReleased
    <3>3. r.rc \in Rcs /\ NetInv(r.net) /\ ConnInv(r.net, c) /\ last' = r.rc
      BY <3>1, <3>2 DEF Built, Rcs, Goes
    <3>4. CASE r.rc = "ok"
      <4>1. AskInv(r.net, c, url[c], "active")
        BY <3>2, <3>4, ReleasedHere, BuiltAsks
      <4>2. status' = [status EXCEPT ![c] = "active"] /\ net' = r.net /\ outstanding' \in Int
        BY <1>1, <3>1, <3>4 DEF Goes, Become, TypeOK
      <4>. QED
        BY <2>2, <3>2, <3>3, <4>1, <4>2
    <3>5. CASE r.rc # "ok"
      <4>1. /\ status' = [status EXCEPT ![c] = "done"] /\ net' = Release(r.net, c)
            /\ outstanding' \in Int
        BY <1>1, <3>1, <3>5 DEF Goes, Become, TypeOK, CountedOut, FailConnection
      <4>. QED
        BY <1>2, <3>3, <4>1, ReleasedAfter
    <3>. QED
      BY <3>4, <3>5
  <2>. QED
    BY <2>1, <2>2 DEF Reset
<1>4. TypeOK'
  BY <1>1, <1>2, <1>3, RequestsAssumption DEF TypeOK, NetInv, Rcs
<1>5. ConnOK(net', c, url'[c], status'[c], reset'[c])
  BY <1>1, <1>2, <1>3 DEF ConnOK, TypeOK
<1>. QED
  BY <1>1, <1>3, <1>4, <1>5, StepKeeps DEF TypeOK

LEMMA RedirectKeeps ==
    ASSUME RequestsInv, NEW c \in Conns, NEW link \in setting.links, Redirect(c, link)
    PROVE  RequestsInv'
<1>. DEFINE u == RedirectUrl(c, link)
<1>1. /\ url' = [url EXCEPT ![c] = u] /\ tries < MaxTries /\ tries' = tries + 1
      /\ UNCHANGED <<setting, up, matched, reset>> /\ status[c] = "active"
      /\ TypeOK /\ ConnOK(net, c, url[c], status[c], reset[c])
  BY DEF Redirect, Reading, Is, Try, RequestsInv
<1>2. u \in Met /\ u \in Url /\ url'[c] = u
  BY <1>1, InvWorld, MetUrls, LinksMet DEF ConnOK, TypeOK
<1>3. PICK r \in BuildRequest(Release(net, c), c, u) :
        /\ net' = r.net /\ Goes(c, r)
        /\ outstanding' = outstanding + CountedOut(r)
                            + (IF r.rc = "ok" THEN 0 ELSE FailRedirect(r.net, c))
  BY <1>2 DEF Redirect
<1>. HIDE DEF u
<1>4. /\ Built(Release(net, c), r, c, u) /\ Frame(net, r.net, c) /\ r.net.host[c] \in Met
  BY <1>2, <1>3, BuildReleased
<1>5. /\ status' = [status EXCEPT ![c] = IF r.rc = "ok" THEN "active" ELSE "done"]
      /\ last' = r.rc
  BY <1>3 DEF Goes, Become
<1>6. AskInv(r.net, c, u, IF r.rc = "ok" THEN "active" ELSE "done")
  BY <1>4, ReleasedHere, BuiltAsks
<1>7. TypeOK'
  BY <1>1, <1>2, <1>3, <1>4, <1>5, RequestsAssumption
     DEF TypeOK, Built, NetInv, CountedOut, FailRedirect
<1>8. ConnOK(net', c, url'[c], status'[c], reset'[c])
  BY <1>1, <1>2, <1>3, <1>4, <1>5, <1>6 DEF ConnOK, Built, TypeOK
<1>. QED
  BY <1>1, <1>3, <1>4, <1>5, <1>7, <1>8, StepKeeps DEF Built, TypeOK

LEMMA HtmlKeeps ==
    ASSUME RequestsInv, NEW c \in Conns, NEW link \in setting.links, Html(c, link)
    PROVE  RequestsInv'
<1>. DEFINE u == HtmlUrl(c, link)
            n == IF setting.reuse THEN net ELSE Release(net, c)
<1>1. /\ url' = [url EXCEPT ![c] = u] /\ tries < MaxTries /\ tries' = tries + 1
      /\ matched' = [matched EXCEPT ![c] = TRUE]
      /\ UNCHANGED <<setting, up, reset>> /\ status[c] = "active"
      /\ net.connected[c] /\ ~net.asking[c]
      /\ TypeOK /\ ConnOK(net, c, url[c], status[c], reset[c])
  BY DEF Html, Reading, Is, Try, RequestsInv
<1>2. u \in Met /\ u \in Url /\ url'[c] = u
  BY <1>1, InvWorld, MetUrls, LinksMet DEF ConnOK, TypeOK
<1>3. PICK r \in BuildRequest(n, c, u) :
        net' = r.net /\ Goes(c, r) /\ outstanding' = outstanding + CountedOut(r)
  BY <1>2 DEF Html
<1>. HIDE DEF u
<1>4. /\ Built(n, r, c, u) /\ Frame(net, r.net, c) /\ r.net.host[c] \in Met
      /\ AskInv(n, c, u, "done")
  <2>1. CASE setting.reuse
    <3>1. AskInv(net, c, u, "done")
      BY <1>1 DEF AskInv, ConnOK, ConnInv
    <3>. QED
      BY <1>1, <1>2, <1>3, <2>1, <3>1, BuildHere DEF Built, ConnOK
  <2>2. CASE ~setting.reuse
    BY <1>2, <1>3, <2>2, BuildReleased, ReleasedHere
  <2>. QED
    BY <2>1, <2>2
<1>. HIDE DEF n
<1>5. /\ status' = [status EXCEPT ![c] = IF r.rc = "ok" THEN "active" ELSE "done"]
      /\ last' = r.rc
  BY <1>3 DEF Goes, Become
<1>6. AskInv(r.net, c, u, IF r.rc = "ok" THEN "active" ELSE "done")
  BY <1>4, BuiltAsks
<1>7. TypeOK'
  BY <1>1, <1>2, <1>3, <1>4, <1>5, RequestsAssumption
     DEF TypeOK, Built, NetInv, CountedOut
<1>8. ConnOK(net', c, url'[c], status'[c], reset'[c])
  BY <1>1, <1>2, <1>3, <1>4, <1>5, <1>6 DEF ConnOK, Built, TypeOK
<1>. QED
  BY <1>1, <1>3, <1>4, <1>5, <1>7, <1>8, StepKeeps DEF Built, TypeOK

LEMMA ToggleKeeps ==
    ASSUME RequestsInv, NEW a \in Addrs, Toggle(a)
    PROVE  RequestsInv'
<1>1. /\ setting.down /\ up' \subseteq Addrs /\ last' = "ok"
      /\ UNCHANGED <<setting, status, outstanding, url, matched, reset, tries, net>>
  BY DEF Toggle, RequestsInv, TypeOK
<1>2. TypeOK'
  BY <1>1 DEF RequestsInv, TypeOK
<1>3. NetInv(net)'
  BY <1>1 DEF RequestsInv, NetInv, PeerOwned, Opened, Open, PoolOf, CacheRight,
              SocketsHandled, SocketsApart
<1>4. (\A d \in Conns : ConnOK(net, d, url[d], status[d], reset[d]))'
  BY <1>1 DEF RequestsInv, ConnOK, ConnInv, AskInv, Met, Open, Idle, Serves, SocketsHandled,
              OneScheme, IsHttp, SameHost
<1>. QED
  BY <1>1, <1>2, <1>3, <1>4 DEF RequestsInv

LEMMA StutterKeeps ==
    ASSUME RequestsInv, UNCHANGED vars
    PROVE  RequestsInv'
<1>1. NetInv(net)'
  BY DEF RequestsInv, NetInv, PeerOwned, Opened, Open, PoolOf, CacheRight,
         SocketsHandled, SocketsApart, vars
<1>2. (\A d \in Conns : ConnOK(net, d, url[d], status[d], reset[d]))'
  BY DEF RequestsInv, ConnOK, ConnInv, AskInv, Met, Open, Idle, Serves, SocketsHandled,
         OneScheme, IsHttp, SameHost, vars
<1>3. TypeOK'
  BY DEF RequestsInv, TypeOK, vars
<1>. QED
  BY <1>1, <1>2, <1>3 DEF RequestsInv, vars

\* Buffers, descriptors, hosts and servers, together: build_request reuses a socket on
\* the strength of the host it finds, and gives a buffer to whatever has a socket.
THEOREM RequestsInductive == Spec => []RequestsInv
<1>1. RequestsInv /\ [Next]_vars => RequestsInv'
  <2>. SUFFICES ASSUME RequestsInv, [Next]_vars PROVE RequestsInv'
    OBVIOUS
  <2>1. CASE UNCHANGED vars
    BY <2>1, StutterKeeps
  <2>2. CASE Terminating
    BY <2>2, StutterKeeps DEF Terminating
  <2>3. ASSUME NEW c \in Conns, Start(c) PROVE RequestsInv'
    BY <2>3, StartKeeps
  <2>4. ASSUME NEW c \in Conns, End(c) PROVE RequestsInv'
    BY <2>4, EndKeeps
  <2>5. ASSUME NEW c \in Conns, CheckConnect(c) PROVE RequestsInv'
    BY <2>5, CheckConnectKeeps
  <2>6. ASSUME NEW c \in Conns, CheckTls(c) PROVE RequestsInv'
    BY <2>6, CheckTlsKeeps
  <2>7. ASSUME NEW c \in Conns, CheckTlsReset(c) PROVE RequestsInv'
    BY <2>7, CheckTlsResetKeeps
  <2>8. ASSUME NEW c \in Conns, WriteRequest(c) PROVE RequestsInv'
    BY <2>8, WriteRequestKeeps
  <2>9. ASSUME NEW c \in Conns, Reset(c) PROVE RequestsInv'
    BY <2>9, ResetKeeps
  <2>10. ASSUME NEW c \in Conns, NEW link \in setting.links, Redirect(c, link)
         PROVE  RequestsInv'
    BY <2>10, RedirectKeeps
  <2>11. ASSUME NEW c \in Conns, NEW link \in setting.links, Html(c, link)
         PROVE  RequestsInv'
    BY <2>11, HtmlKeeps
  <2>12. ASSUME NEW a \in Addrs, Toggle(a) PROVE RequestsInv'
    BY <2>12, ToggleKeeps
  <2>. QED
    BY <2>1, <2>2, <2>3, <2>4, <2>5, <2>6, <2>7, <2>8, <2>9, <2>10, <2>11, <2>12 DEF Next
<1>. QED
  BY <1>1, InitInv, PTL DEF Spec

-----------------------------------------------------------------------------
(* What follows.                                                           *)

\* The buffers are counted: each is owned once or free once.
LEMMA PoolCounts ==
    ASSUME NetInv(net)
    PROVE  LET owners == {c \in Conns : net.buf[c] # Null}
               owned == {net.buf[c] : c \in owners}
           IN /\ Cardinality(owned) = Cardinality(owners)
              /\ owned \cup Range0(net.free) = 1 .. net.bufs
              /\ Cardinality(owned) + Len(net.free) = net.bufs
<1>. DEFINE owners == {c \in Conns : net.buf[c] # Null}
            owned == {net.buf[c] : c \in owners}
            freed == {net.free[i] : i \in 1 .. Len(net.free)}
<1>1. /\ net.buf \in [Conns -> Nat] /\ net.free \in Seq(Nat \ {Null}) /\ net.bufs \in Nat
      /\ PoolOf(net.buf, net.free, net.bufs)
  BY DEF NetInv, Net
<1>2. IsFiniteSet(owners)
  BY RequestsAssumption, FS_Subset
<1>3. IsFiniteSet(owned) /\ Cardinality(owned) = Cardinality(owners)
  <2>1. \A c, d \in owners : net.buf[c] = net.buf[d] => c = d
    BY <1>1 DEF PoolOf
  <2>. HIDE DEF owners
  <2>. QED
    BY <1>2, <2>1, ImageCount
<1>4. /\ Len(net.free) \in Nat /\ DOMAIN net.free = 1 .. Len(net.free)
      /\ \A i \in 1 .. Len(net.free) : net.free[i] \in Nat \ {Null}
  BY <1>1
<1>5. IsFiniteSet(freed) /\ Cardinality(freed) = Len(net.free)
  <2>1. IsFiniteSet(1 .. Len(net.free)) /\ Cardinality(1 .. Len(net.free)) = Len(net.free)
    BY <1>4, FS_Interval
  <2>2. \A i, j \in 1 .. Len(net.free) : net.free[i] = net.free[j] => i = j
    BY <1>1 DEF PoolOf
  <2>. QED
    BY <2>1, <2>2, ImageCount
<1>6. owned \cup freed = 1 .. net.bufs
  <2>1. \A b \in owned : b \in 1 .. net.bufs
    BY <1>1 DEF PoolOf, Null
  <2>2. \A b \in freed : b \in 1 .. net.bufs
    BY <1>1, <1>4 DEF PoolOf, Null
  <2>3. \A b \in 1 .. net.bufs : b \in owned \/ b \in freed
    <3>1. SUFFICES ASSUME NEW b \in 1 .. net.bufs PROVE b \in owned \/ b \in freed
      OBVIOUS
    <3>2. CASE \E c \in Conns : net.buf[c] = b
      BY <1>1, <3>2 DEF Null
    <3>3. CASE \E i \in 1 .. Len(net.free) : net.free[i] = b
      BY <3>3
    <3>. QED
      BY <1>1, <3>2, <3>3 DEF PoolOf
  <2>. QED
    BY <2>1, <2>2, <2>3
<1>7. owned \cap freed = {}
  BY <1>1 DEF PoolOf
<1>8. freed = Range0(net.free)
  BY <1>4 DEF Range0
<1>. HIDE DEF owned, freed
<1>9. Cardinality(1 .. net.bufs) = net.bufs /\ Cardinality({}) = 0
  BY SMTT(60), <1>1, FS_Interval, FS_EmptySet
<1>10. Cardinality(owned) \in Nat
  BY <1>3, FS_CardinalityType
<1>11. Cardinality(owned) + Len(net.free) = net.bufs
  <2>1. Cardinality(owned \cup freed) =
          Cardinality(owned) + Cardinality(freed) - Cardinality(owned \cap freed)
    BY <1>3, <1>5, FS_Union
  <2>2. net.bufs = Cardinality(owned) + Len(net.free) - 0
    BY <1>5, <1>6, <1>7, <1>9, <2>1
  <2>. QED
    BY <1>4, <1>10, <2>2
<1>. QED
  BY <1>3, <1>6, <1>8, <1>11 DEF owned

\* The buffer pool of http.c: no buffer is in use twice, on the free list twice
\* or on neither, whatever build_request, resets and failures do, and with
\* sockets handled as they should be there are never more than thread_limit
\* and one of them, so that a long list costs no more memory than a short one.
THEOREM RequestsPoolExact == Spec => []PoolExact
<1>1. RequestsInv => PoolExact
  <2>. SUFFICES ASSUME RequestsInv PROVE PoolExact
    OBVIOUS
  <2>1. TypeOK /\ NetInv(net) /\ \A c \in Conns : ConnInv(net, c)
    BY DEF RequestsInv, ConnOK
  <2>2. LET owners == {c \in Conns : net.buf[c] # Null}
        IN SocketsHandled =>
             owners = {c \in Conns : Open(net, c)} /\ net.bufs <= Limit + 1
    BY <2>1 DEF ConnInv, NetInv
  <2>. QED
    BY <2>1, <2>2, PoolCounts DEF PoolExact
<1>. QED
  BY <1>1, RequestsInductive, PTL

\* The sockets of socket.c and http.c: closing a connection closes its own
\* descriptor, once, and every descriptor that is open belongs to a connection.
THEOREM RequestsFdsExact == Spec => []FdsExact
<1>1. RequestsInv => FdsExact
  <2>. SUFFICES ASSUME RequestsInv, SocketsHandled
                PROVE  LET open == {c \in Conns : Open(net, c)}
                       IN /\ \A c \in open : net.peer[net.poll[c]] # Closed
                          /\ Cardinality({net.poll[c] : c \in open}) = Cardinality(open)
                          /\ \A f \in Fds : net.peer[f] # Closed =>
                               \E c \in open : net.poll[c] = f
    BY DEF FdsExact
  <2>. DEFINE open == {c \in Conns : Open(net, c)}
  <2>1. PeerOwned(net) /\ SocketsApart(net)
    BY DEF RequestsInv, NetInv
  <2>2. \A c \in open : net.peer[net.poll[c]] # Closed
    BY <2>1 DEF SocketsApart
  <2>3. Cardinality({net.poll[c] : c \in open}) = Cardinality(open)
    <3>1. \A c, d \in open : net.poll[c] = net.poll[d] => c = d
      BY <2>1 DEF SocketsApart
    <3>2. IsFiniteSet(open)
      BY RequestsAssumption, FS_Subset
    <3>. HIDE DEF open
    <3>. QED
      BY <3>1, <3>2, ImageCount
  <2>4. \A f \in Fds : net.peer[f] # Closed => \E c \in open : net.poll[c] = f
    BY <2>1, RequestsAssumption, FS_CardinalityType DEF PeerOwned, Open, Fds, Null
  <2>. QED
    BY <2>2, <2>3, <2>4
<1>. QED
  BY <1>1, RequestsInductive, PTL

\* fixup_host and hostcmp: the host that TLS is told and that relative links
\* are completed with is the one that is being asked, at every request.
THEOREM RequestsHostOfUrl == Spec => []HostOfUrl
<1>1. RequestsInv => HostOfUrl
  BY DEF RequestsInv, ConnOK, AskInv, HostOfUrl
<1>. QED
  BY <1>1, RequestsInductive, PTL

\* Whatever is cached, reused, redirected or reset, a request that is due goes
\* to a machine that its url names, to its port, and through TLS when it says so.
THEOREM RequestsRightServer == Spec => []RightServer
<1>1. RequestsInv => RightServer
  <2>. SUFFICES ASSUME RequestsInv, SocketsHandled, OneScheme,
                       NEW c \in Conns, net.asking[c], net.connected[c]
                PROVE  LET peer == net.peer[net.poll[c]]
                       IN /\ peer # Closed /\ peer.addr \in Range0(Dns[url[c].name])
                          /\ peer.port = Port(url[c])
                          /\ net.ssl[c] = IF url[c].scheme = "https" THEN "ready" ELSE "none"
    BY DEF RightServer
  <2>1. /\ Open(net, c) /\ SameHost(net.host[c], url[c]) /\ Serves(net, c, net.host[c])
        /\ net.host[c] \in Met /\ url[c] \in Met
    BY DEF RequestsInv, ConnOK, AskInv, ConnInv
  <2>2. net.host[c] = url[c]
    BY <2>1 DEF OneScheme, Met
  <2>3. net.peer[net.poll[c]] # Closed
    BY <2>1 DEF RequestsInv, NetInv, SocketsApart
  <2>. QED
    BY <2>1, <2>2, <2>3 DEF Serves
<1>. QED
  BY <1>1, RequestsInductive, PTL

\* connect_socket gives up on a host only after every address of it has been
\* refused, also when the first it tried was a cached one.  (A connect that is
\* deferred, and fails later, is not of these.)
THEOREM RequestsFallbackTried == Spec => FallbackTried
<1>1. ASSUME RequestsInv, [Next]_vars
      PROVE  [\A c \in Conns :
                last' = "refused" /\ status'[c] # status[c] /\ ~setting.ipv4
                  => Range0(Dns[url'[c].name]) \cap up = {}]_vars
  <2>. SUFFICES ASSUME Next, NEW c \in Conns, last' = "refused", status'[c] # status[c],
                       ~setting.ipv4
                PROVE  Range0(Dns[url'[c].name]) \cap up = {}
    BY <1>1
  <2>0. status \in [Conns -> {"queued", "active", "done"}] /\ url \in [Conns -> Url]
        /\ \A d \in Conns : url[d] \in Met /\ net.host[d] \in Met
    BY <1>1 DEF RequestsInv, TypeOK, ConnOK
  <2>1. ASSUME NEW d \in Conns, Start(d)
        PROVE  Range0(Dns[url'[c].name]) \cap up = {}
    <3>1. PICK r \in BuildRequest(net, d, url[d]) : Goes(d, r)
      BY <2>1 DEF Start
    <3>2. Built(net, r, d, url[d])
      BY <1>1, <2>0, BuildHere
    <3>3. d = c /\ r.rc = "refused" /\ url' = url
      BY <2>0, <2>1, <3>1 DEF Goes, Become, Start
    <3>. QED
      BY <3>2, <3>3 DEF Built
  <2>2. ASSUME NEW d \in Conns, CheckTlsReset(d)
        PROVE  Range0(Dns[url'[c].name]) \cap up = {}
    <3>1. PICK r \in BuildRequest(Release(net, d), d, url[d]) : last' = r.rc
      BY <2>2 DEF CheckTlsReset
    <3>2. Built(Release(net, d), r, d, url[d])
      BY <1>1, <2>0, BuildReleased
    <3>3. d = c /\ url' = url
      BY <2>0, <2>2 DEF CheckTlsReset, Become
    <3>. QED
      BY <3>1, <3>2, <3>3 DEF Built
  <2>3. ASSUME NEW d \in Conns, Reset(d)
        PROVE  Range0(Dns[url'[c].name]) \cap up = {}
    <3>1. PICK r \in BuildRequest(Release(net, d), d, url[d]) : Goes(d, r)
      BY <2>3 DEF Reset
    <3>2. Built(Release(net, d), r, d, url[d])
      BY <1>1, <2>0, BuildReleased
    <3>3. d = c /\ r.rc = "refused" /\ url' = url
      BY <2>0, <2>3, <3>1 DEF Goes, Become, Reset
    <3>. QED
      BY <3>2, <3>3 DEF Built
  <2>4. ASSUME NEW d \in Conns, NEW link \in setting.links, Redirect(d, link)
        PROVE  Range0(Dns[url'[c].name]) \cap up = {}
    <3>. DEFINE u == RedirectUrl(d, link)
    <3>1. u \in Met /\ url'[d] = u
      BY <1>1, <2>0, <2>4, InvWorld, LinksMet DEF Redirect
    <3>2. PICK r \in BuildRequest(Release(net, d), d, u) : Goes(d, r)
      BY <2>4, <3>1 DEF Redirect
    <3>. HIDE DEF u
    <3>3. Built(Release(net, d), r, d, u)
      BY <1>1, <3>1, BuildReleased
    <3>4. d = c /\ r.rc = "refused"
      BY <2>0, <3>2 DEF Goes, Become
    <3>. QED
      BY <3>1, <3>3, <3>4 DEF Built
  <2>5. ASSUME NEW d \in Conns, NEW link \in setting.links, Html(d, link)
        PROVE  Range0(Dns[url'[c].name]) \cap up = {}
    <3>. DEFINE u == HtmlUrl(d, link)
                n == IF setting.reuse THEN net ELSE Release(net, d)
    <3>1. u \in Met /\ url'[d] = u
      BY <1>1, <2>0, <2>5, InvWorld, LinksMet DEF Html
    <3>2. PICK r \in BuildRequest(n, d, u) : Goes(d, r)
      BY <2>5, <3>1 DEF Html
    <3>. HIDE DEF u
    <3>3. Built(n, r, d, u)
      <4>1. CASE setting.reuse
        BY <1>1, <3>1, <3>2, <4>1, BuildHere
      <4>2. CASE ~setting.reuse
        BY <1>1, <3>1, <3>2, <4>2, BuildReleased
      <4>. QED
        BY <4>1, <4>2
    <3>4. d = c /\ r.rc = "refused"
      BY <2>0, <3>2 DEF Goes, Become
    <3>. QED
      BY <3>1, <3>3, <3>4 DEF Built
  <2>6. \/ \E d \in Conns :
             \/ Start(d) \/ CheckTlsReset(d) \/ Reset(d)
             \/ \E link \in setting.links : Redirect(d, link) \/ Html(d, link)
        \/ last' = "ok"
        \/ status' = status
    BY DEF Next, Terminating, vars, End, CheckConnect, CheckTls, WriteRequest, Toggle
  <2>. QED
    BY <2>1, <2>2, <2>3, <2>4, <2>5, <2>6
<1>. QED
  BY <1>1, RequestsInductive, PTL DEF Spec, FallbackTried
=============================================================================
