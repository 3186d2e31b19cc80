---------------------------- MODULE EngineProofs ----------------------------
(***************************************************************************)
(* What is proved about Engine.tla, for every list, limit, timeout, mode   *)
(* and set of faults its assumptions allow: the poll table and the count   *)
(* of connections; then why the events of a poll are never stale, what is  *)
(* counted as got and as reset, and that the engine implements the safety  *)
(* part of Downloads.tla.                                                  *)
(***************************************************************************)
EXTENDS Engine, FiniteSetTheorems, TLAPS

LEMMA LeastNatural ==
    ASSUME NEW S \in SUBSET Nat, S # {}
    PROVE  \E m \in S : \A n \in S : m <= n
<1>. DEFINE R == OpToRel(<, Nat)
<1>1. IsWellFoundedOn(R, Nat)
  BY NatLessThanWellFounded
<1>2. \A m, n \in Nat : n < m => <<n, m>> \in R
  BY DEF OpToRel
<1>. HIDE DEF R
<1>3. \E m \in S : \A n \in S : ~(<<n, m>> \in R)
  BY <1>1, WFMin
<1>4. \A m, n \in S : ~(<<n, m>> \in R) => m <= n
  BY <1>2
<1>. QED
  BY <1>3, <1>4

\* A comic that has not been started has no connection and is not got.
Queue == \A c \in Comics : c >= head => sock[c].poll = None /\ ~got[c]

\* The inductive invariant behind type correctness and the poll table: a
\* start may fill a slot only because the comic it starts holds none.
TableInv == TypeOK /\ SlotTable /\ Queue

-----------------------------------------------------------------------------
(* Lemmas about the operators on connections.                              *)

Kinds == [connected: BOOLEAN, ssl: BOOLEAN, events: {"POLLIN", "POLLOUT"}]

LEMMA KindsType ==
    /\ TcpConnected \cup {Deferred} \subseteq Kinds
    /\ {[k EXCEPT !.events = "POLLOUT"] : k \in TcpConnected \cup {Deferred}}
         \subseteq Kinds
<1>1. TlsWaiting \subseteq Kinds
  <2>1. \A e \in {"POLLIN", "POLLOUT"} :
           [connected |-> FALSE, ssl |-> TRUE, events |-> e] \in Kinds
    BY DEF Kinds
  <2>. QED
    BY <2>1 DEF TlsWaiting
<1>2. TlsReady \in Kinds /\ Deferred \in Kinds
  BY DEF Kinds, TlsReady, Deferred
<1>3. TcpConnected \cup {Deferred} \subseteq Kinds
  <2>1. [connected |-> TRUE, ssl |-> FALSE, events |-> "POLLOUT"] \in Kinds
    BY DEF Kinds
  <2>. QED
    BY <1>1, <1>2, <2>1 DEF TcpConnected
<1>4. \A k \in Kinds : [k EXCEPT !.events = "POLLOUT"] \in Kinds
  BY DEF Kinds
<1>. QED
  BY <1>3, <1>4

LEMMA ReleasedType == Released \in Sock /\ Released.poll = None
BY SizeAssumption DEF Released, Sock, None

LEMMA OpenedType ==
    ASSUME NEW s \in Slots, NEW k \in Kinds
    PROVE  Opened(s, k) \in Sock /\ Opened(s, k).poll = s
<1>1. k.connected \in BOOLEAN /\ k.ssl \in BOOLEAN /\ k.events \in {"POLLIN", "POLLOUT"}
  BY DEF Kinds
<1>. QED
  BY <1>1, SizeAssumption DEF Sock, Opened

LEMMA SlotNotNone == None \notin Slots /\ None \notin Comics
BY SizeAssumption DEF None, Slots, Comics

\* release_connection leaves the table of the other connections.
LEMMA FreedTable ==
    ASSUME TypeOK, SlotTable, NEW c \in Comics
    PROVE  /\ Freed(c) \in [Slots -> Comics \cup {None}]
           /\ \A s \in Slots : Freed(c)[s] # None =>
                 Freed(c)[s] # c /\ Freed(c)[s] = fd[s]
           /\ \A s \in Slots : fd[s] # None /\ fd[s] # c => Freed(c)[s] = fd[s]
BY SlotNotNone DEF TypeOK, SlotTable, Freed, Sock

\* A connection that is released keeps the table and the types right.
LEMMA ReleaseKeeps ==
    ASSUME TypeOK, SlotTable, NEW c \in Comics,
           fd' = Freed(c), sock' = [sock EXCEPT ![c] = Released]
    PROVE  /\ fd' \in [Slots -> Comics \cup {None}]
           /\ sock' \in [Comics -> Sock]
           /\ SlotTable'
           /\ sock'[c].poll = None
           /\ \A d \in Comics \ {c} : sock'[d] = sock[d]
BY FreedTable, ReleasedType, SlotNotNone DEF TypeOK, SlotTable, Sock

\* build_request keeps them right too, whatever its outcome, for a connection
\* that was released just before or had no socket.
LEMMA BuildKeeps ==
    ASSUME TypeOK, SlotTable, NEW c \in Comics, NEW caller, NEW rc,
           NEW kinds \in SUBSET Kinds,
           BuildRequest(c, caller, Freed(c), kinds, rc)
    PROVE  /\ fd' \in [Slots -> Comics \cup {None}]
           /\ sock' \in [Comics -> Sock]
           /\ SlotTable'
           /\ sock'[c].poll = None <=> rc # "ok"
           /\ \A d \in Comics \ {c} : sock'[d] = sock[d]
<1>1. CASE rc = "ok"
  <2>1. PICK s \in FirstFree(Freed(c)), k \in kinds :
             /\ fd' = [Freed(c) EXCEPT ![s] = c]
             /\ sock' = [sock EXCEPT ![c] = Opened(s, k)]
    BY <1>1 DEF BuildRequest
  <2>2. s \in Slots /\ Freed(c)[s] = None
    BY <2>1 DEF FirstFree
  <2>3. Opened(s, k) \in Sock /\ Opened(s, k).poll = s
    BY <2>1, <2>2, OpenedType
  <2>. QED
    BY <1>1, <2>1, <2>2, <2>3, FreedTable, SlotNotNone DEF TypeOK, SlotTable, Sock
<1>2. CASE rc # "ok"
  <2>1. fd' = Freed(c) /\ sock' = [sock EXCEPT ![c] = Released]
    BY <1>2 DEF BuildRequest
  <2>. QED
    BY <1>2, <2>1, ReleaseKeeps
<1>. QED
  BY <1>1, <1>2

-----------------------------------------------------------------------------
(* What one turn of the sweep does to the connection whose turn it is.     *)

\* The count moves with the connection: it stays open, or it is closed and
\* outstanding goes down by one.
Counted(c) ==
    \/ c \in Open' /\ outstanding' = outstanding
    \/ c \notin Open' /\ outstanding' = outstanding - 1

OneConnection(c) ==
    /\ fd' \in [Slots -> Comics \cup {None}]
    /\ sock' \in [Comics -> Sock]
    /\ SlotTable'
    /\ \A d \in Comics \ {c} : sock'[d] = sock[d]
    /\ outstanding' \in Int
    /\ HandledFaults => Counted(c)

LEMMA KeepSocket ==
    ASSUME TypeOK, SlotTable, NEW c \in Open, NEW s \in Sock,
           s.poll = sock[c].poll,
           sock' = [sock EXCEPT ![c] = s], fd' = fd, outstanding' = outstanding
    PROVE  OneConnection(c)
BY DEF OneConnection, Counted, Open, TypeOK, SlotTable, Sock

LEMMA FailEffect ==
    ASSUME TypeOK, SlotTable, NEW c \in Open, FailConnection(c)
    PROVE  OneConnection(c)
<1>1. c \in Comics
  BY DEF Open
<1>2. fd' = Freed(c) /\ sock' = [sock EXCEPT ![c] = Released]
  BY DEF FailConnection
<1>3. /\ fd' \in [Slots -> Comics \cup {None}]
      /\ sock' \in [Comics -> Sock]
      /\ SlotTable'
      /\ sock'[c].poll = None
      /\ \A d \in Comics \ {c} : sock'[d] = sock[d]
  BY <1>1, <1>2, ReleaseKeeps
<1>4. outstanding' \in Int /\ Counted(c)
  BY <1>1, <1>3 DEF Counted, Open, TypeOK, FailConnection
<1>. QED
  BY <1>2, <1>3, <1>4 DEF OneConnection

LEMMA CloseEffect ==
    ASSUME TypeOK, SlotTable, NEW c \in Open, CloseConnection(c)
    PROVE  OneConnection(c)
<1>1. c \in Comics
  BY DEF Open
<1>2. fd' = Freed(c) /\ sock' = [sock EXCEPT ![c] = Released]
  BY DEF CloseConnection
<1>3. /\ fd' \in [Slots -> Comics \cup {None}]
      /\ sock' \in [Comics -> Sock]
      /\ SlotTable'
      /\ sock'[c].poll = None
      /\ \A d \in Comics \ {c} : sock'[d] = sock[d]
  BY <1>1, <1>2, ReleaseKeeps
<1>4. outstanding' \in Int /\ Counted(c)
  BY <1>1, <1>3 DEF Counted, Open, TypeOK, CloseConnection
<1>. QED
  BY <1>2, <1>3, <1>4 DEF OneConnection

\* Reset, redirect and page are alike: what the caller takes from outstanding
\* is right for the outcomes it can meet.
LEMMA BuildEffect ==
    ASSUME TypeOK, SlotTable, NEW c \in Open, NEW caller, NEW rc \in Outcomes,
           NEW kinds \in SUBSET Kinds,
           BuildRequest(c, caller, Freed(c), kinds, rc),
           outstanding' \in Int,
           HandledFaults => outstanding' = outstanding - (IF rc = "ok" THEN 0 ELSE 1)
    PROVE  OneConnection(c)
<1>1. c \in Comics
  BY DEF Open
<1>2. /\ fd' \in [Slots -> Comics \cup {None}]
      /\ sock' \in [Comics -> Sock]
      /\ SlotTable'
      /\ sock'[c].poll = None <=> rc # "ok"
      /\ \A d \in Comics \ {c} : sock'[d] = sock[d]
  BY <1>1, BuildKeeps
<1>3. HandledFaults => Counted(c)
  BY <1>1, <1>2 DEF Counted, Open, TypeOK
<1>. QED
  BY <1>2, <1>3 DEF OneConnection

\* set_conn_socket finds a slot whenever one is free.
LEMMA FreeSlotFound ==
    ASSUME NEW table, NEW t \in Slots, table[t] = None
    PROVE  FirstFree(table) # {}
<1> DEFINE S == {s \in Slots : table[s] = None}
<1>1. S \in SUBSET Nat /\ S # {} /\ Slots \in SUBSET Int
  BY DEF Slots
<1>2. PICK m \in S : \A n \in S : m <= n
  BY <1>1, LeastNatural
<1>3. m \in Slots /\ table[m] = None
  BY <1>2
<1>4. \A u \in 0 .. m - 1 : u \in Slots /\ u < m
  BY <1>3, SizeAssumption DEF Slots
<1>5. \A u \in 0 .. m - 1 : table[u] # None
  BY <1>1, <1>2, <1>4
<1>. QED
  BY <1>3, <1>5 DEF FirstFree

\* A connection that gave its socket back finds a slot: its own.
LEMMA OwnSlotFree ==
    ASSUME TypeOK, SlotTable, NEW c \in Open
    PROVE  FirstFree(Freed(c)) # {}
<1>1. sock[c].poll \in Slots /\ Freed(c)[sock[c].poll] = None
  BY DEF TypeOK, SlotTable, Open, Freed, Sock
<1>. QED
  BY <1>1, FreeSlotFound

(* The updates the handlers make of a connection keep its type and socket. *)

LEMMA SockAge ==
    ASSUME NEW s \in Sock
    PROVE  [s EXCEPT !.age = 0] \in Sock /\ [s EXCEPT !.age = 0].poll = s.poll
<1>1. 0 \in 0 .. ReadTimeout + 1
  BY SizeAssumption
<1>. QED
  BY <1>1 DEF Sock

LEMMA SockEvents ==
    ASSUME NEW s \in Sock, NEW e \in {"POLLIN", "POLLOUT"}
    PROVE  [s EXCEPT !.events = e] \in Sock /\ [s EXCEPT !.events = e].poll = s.poll
BY DEF Sock

LEMMA SockConnected ==
    ASSUME NEW s \in Sock, NEW b \in BOOLEAN, NEW e \in {"POLLIN", "POLLOUT"}
    PROVE  /\ [s EXCEPT !.connected = b, !.events = e] \in Sock
           /\ [s EXCEPT !.connected = b, !.events = e].poll = s.poll
BY DEF Sock

LEMMA SockKind ==
    ASSUME NEW s \in Sock, NEW b \in BOOLEAN, NEW l \in BOOLEAN,
           NEW e \in {"POLLIN", "POLLOUT"}
    PROVE  /\ [s EXCEPT !.connected = b, !.ssl = l, !.events = e] \in Sock
           /\ [s EXCEPT !.connected = b, !.ssl = l, !.events = e].poll = s.poll
<1>1. \A t \in Sock : [t EXCEPT !.connected = b] \in Sock /\ [t EXCEPT !.connected = b].poll = t.poll
  BY DEF Sock
<1>2. \A t \in Sock : [t EXCEPT !.ssl = l] \in Sock /\ [t EXCEPT !.ssl = l].poll = t.poll
  BY DEF Sock
<1>3. \A t \in Sock : [t EXCEPT !.events = e] \in Sock /\ [t EXCEPT !.events = e].poll = t.poll
  BY DEF Sock
<1>. QED
  BY <1>1, <1>2, <1>3

LEMMA SockAsked ==
    ASSUME NEW s \in Sock, NEW a \in 0 .. ReadTimeout + 1,
           NEW e \in {"POLLIN", "POLLOUT"},
           NEW f \in {"none", "read_reply", "read_body"}
    PROVE  /\ [s EXCEPT !.age = a, !.events = e, !.func = f] \in Sock
           /\ [s EXCEPT !.age = a, !.events = e, !.func = f].poll = s.poll
<1>1. \A t \in Sock : [t EXCEPT !.age = a] \in Sock /\ [t EXCEPT !.age = a].poll = t.poll
  BY DEF Sock
<1>2. \A t \in Sock : [t EXCEPT !.events = e] \in Sock /\ [t EXCEPT !.events = e].poll = t.poll
  BY DEF Sock
<1>3. \A t \in Sock : [t EXCEPT !.func = f] \in Sock /\ [t EXCEPT !.func = f].poll = t.poll
  BY DEF Sock
<1>. QED
  BY <1>1, <1>2, <1>3

LEMMA SockSent ==
    ASSUME NEW s \in Sock
    PROVE  Sent(s) \in Sock /\ Sent(s).poll = s.poll
<1>1. 0 \in 0 .. ReadTimeout + 1
  BY SizeAssumption
<1>. QED
  BY <1>1, SockAsked DEF Sent

LEMMA SockReading ==
    ASSUME NEW s \in Sock, NEW a \in 0 .. ReadTimeout + 1, NEW o \in BOOLEAN,
           NEW f \in {"none", "read_reply", "read_body"}
    PROVE  /\ [s EXCEPT !.func = f, !.out = o, !.age = a] \in Sock
           /\ [s EXCEPT !.func = f, !.out = o, !.age = a].poll = s.poll
<1>1. \A t \in Sock : [t EXCEPT !.func = f] \in Sock /\ [t EXCEPT !.func = f].poll = t.poll
  BY DEF Sock
<1>2. \A t \in Sock : [t EXCEPT !.out = o] \in Sock /\ [t EXCEPT !.out = o].poll = t.poll
  BY DEF Sock
<1>3. \A t \in Sock : [t EXCEPT !.age = a] \in Sock /\ [t EXCEPT !.age = a].poll = t.poll
  BY DEF Sock
<1>. QED
  BY <1>1, <1>2, <1>3

LEMMA SockOut ==
    ASSUME NEW s \in Sock, NEW o \in BOOLEAN
    PROVE  [s EXCEPT !.out = o] \in Sock /\ [s EXCEPT !.out = o].poll = s.poll
BY DEF Sock

LEMMA SockKept ==
    ASSUME NEW s \in Sock, NEW o \in BOOLEAN, NEW e \in {"POLLIN", "POLLOUT"}
    PROVE  /\ [s EXCEPT !.events = e, !.out = o] \in Sock
           /\ [s EXCEPT !.events = e, !.out = o].poll = s.poll
<1>1. \A t \in Sock : [t EXCEPT !.events = e] \in Sock /\ [t EXCEPT !.events = e].poll = t.poll
  BY DEF Sock
<1>2. \A t \in Sock : [t EXCEPT !.out = o] \in Sock /\ [t EXCEPT !.out = o].poll = t.poll
  BY DEF Sock
<1>. QED
  BY <1>1, <1>2

-----------------------------------------------------------------------------
LEMMA ReadyOpen ==
    ASSUME NEW c \in Comics, Revents(c) # "none"
    PROVE  c \in Open
BY DEF Revents, Open

LEMMA CheckTcpSocket ==
    ASSUME TypeOK, SlotTable, NEW c \in Comics, CheckTcp(c)
    PROVE  UNCHANGED <<fd, sock, outstanding>> \/ (c \in Open /\ OneConnection(c))
<1>1. c \in Open
  BY ReadyOpen DEF CheckTcp, Connecting
<1>2. CASE \E k \in TcpConnected :
             sock' = [sock EXCEPT ![c].connected = k.connected,
                                  ![c].ssl = k.ssl, ![c].events = k.events]
           /\ UNCHANGED <<outstanding, gotit, got, fd, parts>>
  <2>1. PICK k \in TcpConnected :
             sock' = [sock EXCEPT ![c].connected = k.connected,
                                  ![c].ssl = k.ssl, ![c].events = k.events]
    BY <1>2
  <2> DEFINE s == [sock[c] EXCEPT !.connected = k.connected, !.ssl = k.ssl,
                                  !.events = k.events]
  <2>2. k \in Kinds
    BY <2>1, KindsType
  <2>3. s \in Sock /\ s.poll = sock[c].poll
    <3>1. k.connected \in BOOLEAN /\ k.ssl \in BOOLEAN /\ k.events \in {"POLLIN", "POLLOUT"}
      BY <2>2 DEF Kinds
    <3>2. sock[c] \in Sock
      BY DEF TypeOK
    <3>. QED
      BY ZenonT(60), <3>1, <3>2, SockKind
  <2>4. sock' = [sock EXCEPT ![c] = s]
    BY <2>1 DEF TypeOK
  <2>. QED
    BY <1>1, <1>2, <2>3, <2>4, KeepSocket
<1>3. CASE FailConnection(c)
  BY <1>1, <1>3, FailEffect
<1>. QED
  BY <1>2, <1>3 DEF CheckTcp

LEMMA CheckTlsSocket ==
    ASSUME TypeOK, SlotTable, NEW c \in Comics, CheckTls(c)
    PROVE  c \in Open /\ OneConnection(c)
<1>1. c \in Open
  BY ReadyOpen DEF CheckTls, Connecting
<1>2. CASE FailConnection(c)
  BY <1>1, <1>2, FailEffect
<1>3. CASE ~FailConnection(c)
  <2>1. PICK s \in Sock : /\ s.poll = sock[c].poll
                          /\ sock' = [sock EXCEPT ![c] = s]
                          /\ UNCHANGED <<outstanding, fd>>
    <3>1. CASE \E k \in TlsWaiting : sock' = [sock EXCEPT ![c].events = k.events]
                 /\ UNCHANGED <<outstanding, gotit, got, fd>>
      <4>1. PICK k \in TlsWaiting : sock' = [sock EXCEPT ![c].events = k.events]
        BY <3>1
      <4>2. k.events \in {"POLLIN", "POLLOUT"}
        BY DEF TlsWaiting
      <4>3. sock[c] \in Sock
        BY DEF TypeOK
      <4>. QED
        BY <3>1, <4>1, <4>2, <4>3, SockEvents DEF TypeOK
    <3>2. CASE sock' = [sock EXCEPT ![c].connected = TRUE, ![c].events = "POLLOUT"]
                 /\ UNCHANGED <<outstanding, gotit, got, fd, parts>>
      <4>1. sock[c] \in Sock
        BY DEF TypeOK
      <4>. QED
        BY <3>2, <4>1, SockConnected DEF TypeOK
    <3>. QED
      BY <1>3, <3>1, <3>2 DEF CheckTls
  <2>. QED
    BY <1>1, <2>1, KeepSocket
<1>. QED
  BY <1>2, <1>3

LEMMA WriteSocket ==
    ASSUME TypeOK, SlotTable, NEW c \in Comics, WriteRequest(c)
    PROVE  c \in Open /\ OneConnection(c)
<1>1. c \in Open
  BY ReadyOpen DEF WriteRequest, Writable
<1>2. CASE FailConnection(c)
  BY <1>1, <1>2, FailEffect
<1>3. CASE ~FailConnection(c)
  <2>1. PICK s \in {Sent(sock[c]), [sock[c] EXCEPT !.age = 0]} :
           sock' = [sock EXCEPT ![c] = s] /\ UNCHANGED <<outstanding, fd>>
    BY <1>3 DEF WriteRequest, TypeOK
  <2>2. s \in Sock /\ s.poll = sock[c].poll
    <3>1. sock[c] \in Sock
      BY DEF TypeOK
    <3>. QED
      BY <2>1, <3>1, SockSent, SockAge
  <2>. QED
    BY <1>1, <2>1, <2>2, KeepSocket
<1>. QED
  BY <1>2, <1>3

LEMMA ReadPartialSocket ==
    ASSUME TypeOK, SlotTable, NEW c \in Comics, ReadPartial(c)
    PROVE  c \in Open /\ OneConnection(c)
<1>1. c \in Open
  BY ReadyOpen DEF ReadPartial, Readable
<1> DEFINE s == [sock[c] EXCEPT !.age = 0]
<1>2. s \in Sock /\ s.poll = sock[c].poll
  BY SockAge DEF TypeOK
<1>3. sock' = [sock EXCEPT ![c] = s] /\ UNCHANGED <<fd, outstanding>>
  BY DEF ReadPartial, TypeOK, counts
<1>. QED
  BY <1>1, <1>2, <1>3, KeepSocket

\* Under handled faults a reset, or a page, always finds its next connection
\* or is failed by tcp_connected, once.
LEMMA AgainEffect ==
    ASSUME TypeOK, SlotTable, NEW c \in Open, NEW caller \in {"reset", "html"},
           NEW rc \in Outcomes, NEW kinds \in SUBSET Kinds,
           BuildRequest(c, caller, Freed(c), kinds, rc),
           outstanding' = outstanding - Dropped(rc)
    PROVE  OneConnection(c)
<1>1. HandledFaults => rc # "failed"
  <2>1. FirstFree(Freed(c)) # {}
    BY OwnSlotFree
  <2>. QED
    BY <2>1 DEF HandledFaults, BuildRequest
<1>2. outstanding' \in Int
  BY DEF Dropped, TypeOK
<1>3. HandledFaults => outstanding' = outstanding - (IF rc = "ok" THEN 0 ELSE 1)
  BY <1>1 DEF Dropped, Outcomes
<1>. QED
  BY <1>2, <1>3, BuildEffect

LEMMA ReadResetSocket ==
    ASSUME TypeOK, SlotTable, NEW c \in Comics, ReadReset(c)
    PROVE  c \in Open /\ OneConnection(c)
<1>1. c \in Open
  BY ReadyOpen DEF ReadReset, Readable
<1>2. CASE FailConnection(c)
  BY <1>1, <1>2, FailEffect
<1>3. CASE ~FailConnection(c)
  <2>1. PICK rc \in Outcomes :
          /\ BuildRequest(c, "reset", Freed(c), TcpConnected \cup {Deferred}, rc)
          /\ outstanding' = outstanding - Dropped(rc)
    BY <1>3 DEF ReadReset
  <2>. QED
    BY <1>1, <2>1, KindsType, AgainEffect
<1>. QED
  BY <1>2, <1>3

LEMMA ReplyRedirectSocket ==
    ASSUME TypeOK, SlotTable, NEW c \in Comics, ReplyRedirect(c)
    PROVE  c \in Open /\ OneConnection(c)
<1>1. c \in Open
  BY ReadyOpen DEF ReplyRedirect, Readable
<1>2. PICK rc \in Outcomes :
        /\ BuildRequest(c, "redirect", Freed(c), TcpConnected \cup {Deferred}, rc)
        /\ outstanding' = outstanding - Dropped(rc) - (IF rc = "ok" THEN 0 ELSE 1)
  BY DEF ReplyRedirect
<1>3. HandledFaults => rc # "tls"
  BY <1>2 DEF HandledFaults, BuildRequest
<1>4. outstanding' \in Int
  BY <1>2 DEF Dropped, TypeOK
<1>5. HandledFaults => outstanding' = outstanding - (IF rc = "ok" THEN 0 ELSE 1)
  BY <1>2, <1>3 DEF Dropped, TypeOK
<1>. QED
  BY <1>1, <1>2, <1>4, <1>5, KindsType, BuildEffect

LEMMA ProcessHtmlSocket ==
    ASSUME TypeOK, SlotTable, NEW c \in Open, NEW s \in Sock,
           s.poll = sock[c].poll, ProcessHtml(c, s)
    PROVE  OneConnection(c)
<1>1. CASE FailConnection(c)
  BY <1>1, FailEffect
<1>2. CASE HtmlLink(c)
  <2>1. c \in Comics
    BY DEF Open
  <2>2. fd' = Freed(c) /\ sock' = [sock EXCEPT ![c] = Released]
    BY <1>2 DEF HtmlLink
  <2>3. /\ fd' \in [Slots -> Comics \cup {None}]
        /\ sock' \in [Comics -> Sock]
        /\ SlotTable'
        /\ sock'[c].poll = None
        /\ \A d \in Comics \ {c} : sock'[d] = sock[d]
    BY <2>1, <2>2, ReleaseKeeps
  <2>4. outstanding' \in Int
    BY <1>2 DEF HtmlLink, TypeOK
  <2>5. HandledFaults => Counted(c)
    BY <1>2, <2>3 DEF HtmlLink, HandledFaults, LinksOnly, TypeOK, Counted, Open
  <2>. QED
    BY <2>3, <2>4, <2>5 DEF OneConnection
<1>3. CASE HtmlReuse(c, s)
  <2> DEFINE t == [s EXCEPT !.events = "POLLOUT", !.out = FALSE]
  <2>1. t \in Sock /\ t.poll = sock[c].poll
    BY SockKept
  <2>2. sock' = [sock EXCEPT ![c] = t] /\ UNCHANGED <<fd, outstanding>>
    BY <1>3 DEF HtmlReuse
  <2>. QED
    BY <2>1, <2>2, KeepSocket
<1>4. CASE HtmlKept(c, s)
  <2>1. [s EXCEPT !.out = FALSE] \in Sock /\ [s EXCEPT !.out = FALSE].poll = sock[c].poll
    BY SockOut
  <2>2. sock' = [sock EXCEPT ![c] = [s EXCEPT !.out = FALSE]] /\ UNCHANGED <<fd, outstanding>>
    BY <1>4 DEF HtmlKept
  <2>. QED
    BY <2>1, <2>2, KeepSocket
<1>5. CASE HtmlOpen(c)
  <2>1. PICK rc \in Outcomes :
          /\ BuildRequest(c, "html", Freed(c),
                {[k EXCEPT !.events = "POLLOUT"] : k \in TcpConnected \cup {Deferred}}, rc)
          /\ outstanding' = outstanding - Dropped(rc)
    BY <1>5 DEF HtmlOpen
  <2>. QED
    BY <2>1, KindsType, AgainEffect
<1>. QED
  BY <1>1, <1>2, <1>3, <1>4, <1>5 DEF ProcessHtml

LEMMA BodySocket ==
    ASSUME TypeOK, SlotTable, NEW c \in Open, NEW s \in Sock,
           s.poll = sock[c].poll, Body(c, s)
    PROVE  OneConnection(c)
<1>1. PICK n \in Names(c, s) :
        \/ /\ sock' = [sock EXCEPT ![c] = [s EXCEPT !.out = @ \/ n = 1]]
           /\ UNCHANGED <<outstanding, fd>>
        \/ FailConnection(c)
        \/ CloseConnection(c)
        \/ ProcessHtml(c, s)
  BY DEF Body
<1>2. CASE /\ sock' = [sock EXCEPT ![c] = [s EXCEPT !.out = @ \/ n = 1]]
           /\ UNCHANGED <<outstanding, fd>>
  <2> DEFINE o == s.out \/ n = 1
             t == [s EXCEPT !.out = o]
  <2>1. o \in BOOLEAN
    OBVIOUS
  <2>2. t \in Sock /\ t.poll = sock[c].poll
    <3> HIDE DEF o
    <3>. QED
      BY <2>1, SockOut
  <2>3. sock' = [sock EXCEPT ![c] = t]
    BY <1>2
  <2>. QED
    BY <1>2, <2>2, <2>3, KeepSocket
<1>. QED
  BY <1>1, <1>2, FailEffect, CloseEffect, ProcessHtmlSocket

LEMMA ReplyOkSocket ==
    ASSUME TypeOK, SlotTable, NEW c \in Comics, ReplyOk(c)
    PROVE  c \in Open /\ OneConnection(c)
<1>1. c \in Open
  BY SMTT(60), ReadyOpen DEF ReplyOk, Readable
<1> DEFINE s == [sock[c] EXCEPT !.func = "read_body", !.out = FirstStage(c), !.age = 0]
<1>2. s \in Sock /\ s.poll = sock[c].poll
  <2>1. sock[c] \in Sock /\ FirstStage(c) \in BOOLEAN /\ 0 \in 0 .. ReadTimeout + 1
    BY SizeAssumption DEF TypeOK, FirstStage
  <2>. QED
    BY ZenonT(60), <2>1, SockReading
<1>3. \/ sock' = [sock EXCEPT ![c] = s] /\ UNCHANGED <<outstanding, fd>>
      \/ Body(c, s)
  BY DEF ReplyOk
<1> HIDE DEF s
<1>. QED
  BY <1>1, <1>2, <1>3, KeepSocket, BodySocket

LEMMA ReadBodySocket ==
    ASSUME TypeOK, SlotTable, NEW c \in Comics, ReadBody(c)
    PROVE  c \in Open /\ OneConnection(c)
<1>1. c \in Open
  BY ReadyOpen DEF ReadBody, Readable
<1> DEFINE s == [sock[c] EXCEPT !.age = 0]
<1>2. s \in Sock /\ s.poll = sock[c].poll
  BY SockAge DEF TypeOK
<1>3. Body(c, s)
  BY DEF ReadBody
<1> HIDE DEF s
<1>. QED
  BY <1>1, <1>2, <1>3, BodySocket

\* Every turn leaves all connections as they are, or changes the one whose
\* turn it is, which was open.
LEMMA TurnSocket ==
    ASSUME TypeOK, SlotTable, NEW c \in Comics, Turn(c)
    PROVE  UNCHANGED <<fd, sock, outstanding>> \/ (c \in Open /\ OneConnection(c))
<1>1. CASE SkipConn(c)
  BY <1>1 DEF SkipConn, counts
<1>2. CASE ReplyBad(c)
  BY <1>2, ReadyOpen, FailEffect DEF ReplyBad, Readable
<1>3. CASE ReplyHead(c)
  BY <1>3, ReadyOpen, CloseEffect DEF ReplyHead, Readable
<1>. QED
  BY <1>1, <1>2, <1>3, CheckTcpSocket, CheckTlsSocket, WriteSocket, ReadPartialSocket,
     ReadResetSocket, ReplyRedirectSocket, ReplyOkSocket, ReadBodySocket DEF Turn

(* The other variables: their types, and got changes only for the comic    *)
(* whose turn it is.                                                       *)

RestTyped ==
    /\ gotit' \in Nat /\ resets' \in Nat
    /\ matched' \in [Comics -> BOOLEAN]
    /\ got' \in [Comics -> BOOLEAN]
    /\ reset' \in [Comics -> Nat]
    /\ exts' \in [Comics -> Nat]
    /\ parts' \in [Comics -> 0 .. MaxParts]

Rest(c) == RestTyped /\ \A d \in Comics \ {c} : got'[d] = got[d]

LEMMA SpendType ==
    ASSUME TypeOK, NEW c \in Comics, Spend(c) \/ UNCHANGED parts
    PROVE  parts' \in [Comics -> 0 .. MaxParts]
BY SizeAssumption DEF TypeOK, Spend

LEMMA EndType ==
    ASSUME TypeOK, NEW c \in Comics,
           FailConnection(c) \/ CloseConnection(c) \/ UNCHANGED <<gotit, got>>
    PROVE  /\ gotit' \in Nat /\ got' \in [Comics -> BOOLEAN]
           /\ \A d \in Comics \ {c} : got'[d] = got[d]
<1>1. CASE FailConnection(c) \/ UNCHANGED <<gotit, got>>
  BY <1>1 DEF TypeOK, FailConnection
<1>2. CASE CloseConnection(c)
  <2>1. gotit' = gotit + 1 /\ got' = [got EXCEPT ![c] = TRUE]
    BY <1>2 DEF CloseConnection
  <2>. QED
    BY <2>1 DEF TypeOK
<1>. QED
  BY <1>1, <1>2

LEMMA BodyRest ==
    ASSUME TypeOK, NEW c \in Comics, NEW s, Body(c, s), UNCHANGED <<resets, reset>>
    PROVE  Rest(c)
<1>1. PICK n \in {0, 1} :
        /\ exts' = [exts EXCEPT ![c] = @ + n]
        /\ \/ Spend(c) /\ UNCHANGED <<gotit, got, matched>>
           \/ FailConnection(c) /\ UNCHANGED <<matched, parts>>
           \/ CloseConnection(c) /\ UNCHANGED <<matched, parts>>
           \/ ProcessHtml(c, s) /\ UNCHANGED parts
  BY DEF Body, Names
<1>2. exts' \in [Comics -> Nat]
  BY <1>1 DEF TypeOK
<1>3. parts' \in [Comics -> 0 .. MaxParts]
  BY <1>1, SpendType
<1>4. /\ gotit' \in Nat /\ got' \in [Comics -> BOOLEAN]
      /\ \A d \in Comics \ {c} : got'[d] = got[d]
      /\ matched' \in [Comics -> BOOLEAN]
  <2>1. CASE matched' = matched /\
             (FailConnection(c) \/ CloseConnection(c) \/ UNCHANGED <<gotit, got>>)
    BY <2>1, EndType DEF TypeOK
  <2>2. CASE HtmlLink(c)
    BY <2>2 DEF HtmlLink, TypeOK
  <2>3. CASE HtmlReuse(c, s) \/ HtmlKept(c, s)
    BY <2>3 DEF HtmlReuse, HtmlKept, TypeOK
  <2>4. CASE HtmlOpen(c)
    BY <2>4 DEF HtmlOpen, TypeOK
  <2>. QED
    BY <1>1, <2>1, <2>2, <2>3, <2>4 DEF ProcessHtml
<1>. QED
  BY <1>2, <1>3, <1>4 DEF Rest, RestTyped, TypeOK

LEMMA ReadResetRest ==
    ASSUME TypeOK, NEW c \in Comics, ReadReset(c)
    PROVE  Rest(c)
<1>1. /\ reset' = [reset EXCEPT ![c] = @ + 1]
      /\ resets' = CountReset(c)
      /\ FailConnection(c) \/ UNCHANGED <<gotit, got>>
      /\ UNCHANGED <<matched, exts, parts>>
  BY DEF ReadReset
<1>2. reset' \in [Comics -> Nat] /\ resets' \in Nat
  BY <1>1 DEF TypeOK, CountReset
<1>. QED
  BY <1>1, <1>2, EndType DEF Rest, RestTyped, TypeOK

LEMMA TurnRest ==
    ASSUME TypeOK, NEW c \in Comics, Turn(c)
    PROVE  Rest(c)
<1>1. CASE SkipConn(c)
  BY <1>1 DEF SkipConn, Rest, RestTyped, TypeOK, counts
<1>2. CASE CheckTcp(c)
  BY <1>2, SpendType, EndType DEF CheckTcp, Rest, RestTyped, TypeOK
<1>3. CASE CheckTls(c)
  BY <1>3, SpendType, EndType DEF CheckTls, Rest, RestTyped, TypeOK
<1>4. CASE WriteRequest(c)
  BY <1>4, SpendType, EndType DEF WriteRequest, Rest, RestTyped, TypeOK
<1>5. CASE ReadPartial(c)
  BY <1>5, SpendType DEF ReadPartial, Rest, RestTyped, TypeOK, counts
<1>6. CASE ReplyBad(c)
  BY <1>6, EndType DEF ReplyBad, Rest, RestTyped, TypeOK
<1>7. CASE ReplyRedirect(c)
  BY <1>7, SpendType DEF ReplyRedirect, Rest, RestTyped, TypeOK
<1>8. CASE ReplyHead(c)
  BY <1>8, EndType DEF ReplyHead, Rest, RestTyped, TypeOK
<1>9. CASE ReplyOk(c)
  BY <1>9, BodyRest DEF ReplyOk, Rest, RestTyped, TypeOK
<1>10. CASE ReadBody(c)
  BY <1>10, BodyRest DEF ReadBody
<1>. QED
  BY <1>1, <1>2, <1>3, <1>4, <1>5, <1>6, <1>7, <1>8, <1>9, <1>10, ReadResetRest DEF Turn

-----------------------------------------------------------------------------
(* The invariance proof.                                                   *)

LEMMA InitTable == Init => TableInv
BY SizeAssumption, ReleasedType, SlotNotNone
   DEF Init, TableInv, TypeOK, SlotTable, Queue, Comics, Slots

LEMMA TurnTable ==
    ASSUME TableInv, NEW c \in Comics, Turn(c)
    PROVE  TableInv'
<1>1. UNCHANGED <<fd, sock, outstanding>> \/ (c \in Open /\ OneConnection(c))
  BY TurnSocket DEF TableInv
<1>2. Rest(c)
  BY TurnRest DEF TableInv
<1>3. /\ pc' \in {"top", "sweep"} /\ cur' \in 0 .. N
      /\ mode' = mode /\ head' = head /\ revents' = revents
  BY SizeAssumption DEF Turn, AfterTurn, Comics
<1>4. TypeOK'
  BY <1>1, <1>2, <1>3 DEF TableInv, TypeOK, OneConnection, Rest, RestTyped
<1>5. SlotTable'
  BY <1>1 DEF TableInv, SlotTable, OneConnection
<1>6. Queue'
  <2>1. c < head \/ UNCHANGED <<sock, got>>
    <3>1. CASE c \in Open
      BY SMTT(60), <3>1, SizeAssumption DEF TableInv, Queue, Open, TypeOK, Comics
    <3>2. CASE c \notin Open
      BY <3>2, ReadyOpen DEF Turn, SkipConn, CheckTcp, CheckTls, WriteRequest, ReadPartial,
         ReadReset, ReplyBad, ReplyRedirect, ReplyHead, ReplyOk, ReadBody,
         Connecting, Writable, Readable
    <3>. QED
      BY <3>1, <3>2
  <2>2. \A d \in Comics \ {c} : sock'[d] = sock[d] /\ got'[d] = got[d]
    BY <1>1, <1>2 DEF OneConnection, Rest
  <2>3. \A d \in Comics : d >= head => sock'[d] = sock[d] /\ got'[d] = got[d]
    <3>1. CASE UNCHANGED <<sock, got>>
      BY <3>1
    <3>2. CASE c < head
      <4>1. \A d \in Comics : d >= head => d # c
        BY <3>2 DEF TableInv, TypeOK, Comics
      <4>. QED
        BY <2>2, <4>1
    <3>. QED
      BY <2>1, <3>1, <3>2
  <2>. QED
    BY <1>3, <2>3 DEF TableInv, Queue
<1>. QED
  BY <1>4, <1>5, <1>6 DEF TableInv

LEMMA StartLinkTable ==
    ASSUME TableInv, StartLink
    PROVE  TableInv'
<1>1. head \in Comics
  BY SizeAssumption DEF TableInv, TypeOK, StartLink, CanStart, Comics
<1>2. TypeOK'
  BY <1>1, SizeAssumption DEF TableInv, TypeOK, StartLink, Comics
<1>3. SlotTable'
  BY DEF TableInv, SlotTable, StartLink
<1>4. Queue'
  BY <1>1 DEF TableInv, TypeOK, Queue, StartLink, Comics
<1>. QED
  BY <1>2, <1>3, <1>4 DEF TableInv

\* What StartComic does: the comic at the head is open when, and only when,
\* its connection was opened.
LEMMA StartComicEffect ==
    ASSUME TableInv, StartComic
    PROVE  /\ head \in Comics /\ head \notin Open
           /\ fd' \in [Slots -> Comics \cup {None}]
           /\ sock' \in [Comics -> Sock]
           /\ SlotTable'
           /\ \A d \in Comics \ {head} : sock'[d] = sock[d]
           /\ outstanding' \in Int
           /\ HandledFaults => outstanding' = outstanding + (IF head \in Open' THEN 1 ELSE 0)
<1>1. head \in Comics
  BY SizeAssumption DEF TableInv, TypeOK, StartComic, CanStart, Comics
<1>2. sock[head].poll = None
  BY <1>1, SizeAssumption DEF TableInv, TypeOK, Queue, Comics
<1>3. PICK rc \in Outcomes :
        /\ BuildRequest(head, "start", fd, TcpConnected \cup {Deferred}, rc)
        /\ outstanding' = outstanding - Dropped(rc) + (IF rc = "ok" THEN 1 ELSE 0)
  BY DEF StartComic
<1>4. Freed(head) = fd
  BY <1>2 DEF Freed
<1>5. /\ fd' \in [Slots -> Comics \cup {None}]
      /\ sock' \in [Comics -> Sock]
      /\ SlotTable'
      /\ sock'[head].poll = None <=> rc # "ok"
      /\ \A d \in Comics \ {head} : sock'[d] = sock[d]
  <2>1. BuildRequest(head, "start", Freed(head), TcpConnected \cup {Deferred}, rc)
    BY <1>3, <1>4
  <2>. QED
    BY <1>1, <2>1, KindsType, BuildKeeps DEF TableInv
<1>6. HandledFaults => rc # "tls"
  BY <1>3 DEF HandledFaults, BuildRequest
<1>7. outstanding' \in Int
  BY <1>3 DEF Dropped, TableInv, TypeOK
<1>8. HandledFaults => outstanding' = outstanding + (IF head \in Open' THEN 1 ELSE 0)
  BY <1>1, <1>3, <1>5, <1>6 DEF Dropped, TableInv, TypeOK, Open
<1>. QED
  BY <1>1, <1>2, <1>5, <1>7, <1>8 DEF Open

LEMMA StartComicTable ==
    ASSUME TableInv, StartComic
    PROVE  TableInv'
<1>1. head' = head + 1 /\ UNCHANGED <<mode, cur, gotit, resets, revents, matched, got, reset, exts, parts>>
  BY DEF StartComic
<1>2. pc' \in {"top", "start", "restart", "poll"}
  BY DEF StartComic, StartReturns, Starting
<1>3. TypeOK'
  <2>1. /\ fd' \in [Slots -> Comics \cup {None}]
        /\ sock' \in [Comics -> Sock]
        /\ outstanding' \in Int
    BY StartComicEffect
  <2>2. head' \in 1 .. N + 1
    BY <1>1, SizeAssumption DEF TableInv, TypeOK, StartComic, CanStart
  <2>. QED
    BY <1>1, <1>2, <2>1, <2>2 DEF TableInv, TypeOK
<1>4. Queue'
  BY <1>1, StartComicEffect DEF TableInv, TypeOK, Queue, Comics
<1>. QED
  BY <1>3, <1>4, StartComicEffect DEF TableInv

LEMMA SockOlder ==
    ASSUME NEW s \in Sock, NEW time \in 0 .. 1
    PROVE  Older(s, time) \in Sock /\ Older(s, time).poll = s.poll
<1> DEFINE a == IF s.age + time > ReadTimeout THEN ReadTimeout + 1 ELSE s.age + time
<1>1. a \in 0 .. ReadTimeout + 1
  BY SizeAssumption DEF Sock
<1>2. Older(s, time) = [s EXCEPT !.age = a]
  BY DEF Older
<1> HIDE DEF a
<1>. QED
  BY <1>1, <1>2 DEF Sock

LEMMA PollReadyTable ==
    ASSUME TableInv, PollReady
    PROVE  TableInv' /\ Open' = Open
<1>1. PICK ready \in (SUBSET Open) \ {{}}, time \in 0 .. 1 :
        /\ revents' = [s \in Slots |->
                         IF fd[s] \in ready THEN sock[fd[s]].events ELSE "none"]
        /\ sock' = [c \in Comics |->
                      IF c \in Open THEN Older(sock[c], time) ELSE sock[c]]
  BY DEF PollReady
<1>2. revents' \in [Slots -> {"none", "POLLIN", "POLLOUT"}]
  BY <1>1 DEF TableInv, TypeOK, Sock, Open
<1>3. \A c \in Comics : sock'[c] \in Sock /\ sock'[c].poll = sock[c].poll
  BY <1>1, SockOlder DEF TableInv, TypeOK
<1>4. sock' \in [Comics -> Sock]
  BY <1>1, <1>3
<1>5. TypeOK'
  BY <1>2, <1>4, SizeAssumption DEF TableInv, TypeOK, PollReady, counts
<1>6. SlotTable'
  BY <1>3 DEF TableInv, TypeOK, SlotTable, PollReady
<1>7. Queue'
  BY <1>3 DEF TableInv, Queue, PollReady
<1>8. Open' = Open
  BY <1>3 DEF Open
<1>. QED
  BY <1>5, <1>6, <1>7, <1>8 DEF TableInv

LEMMA PollIdleTable ==
    ASSUME TableInv, PollIdle, Cardinality(Expired) \in Int
    PROVE  TableInv' /\ Open' = Open \ Expired
<1>1. /\ fd' = [s \in Slots |-> IF fd[s] \in Expired THEN None ELSE fd[s]]
      /\ revents' = [s \in Slots |-> "none"]
      /\ sock' = [c \in Comics |-> IF c \in Expired THEN Released
                                   ELSE IF c \in Open THEN Older(sock[c], 1)
                                   ELSE sock[c]]
      /\ outstanding' = outstanding - Cardinality(Expired)
      /\ pc' = "restart"
      /\ UNCHANGED <<mode, cur, head, gotit, resets, matched, got, reset, exts, parts>>
  BY DEF PollIdle
<1>2. \A c \in Comics :
        /\ sock'[c] \in Sock
        /\ sock'[c].poll = IF c \in Expired THEN None ELSE sock[c].poll
  <2> SUFFICES ASSUME NEW c \in Comics
               PROVE  /\ sock'[c] \in Sock
                      /\ sock'[c].poll = IF c \in Expired THEN None ELSE sock[c].poll
    OBVIOUS
  <2>1. CASE c \in Expired
    BY <1>1, <2>1, ReleasedType
  <2>2. CASE c \notin Expired
    BY <1>1, <2>2, SockOlder DEF TableInv, TypeOK
  <2>. QED
    BY <2>1, <2>2
<1>3. TypeOK'
  <2>1. sock' \in [Comics -> Sock]
    BY <1>1, <1>2
  <2>2. fd' \in [Slots -> Comics \cup {None}]
    BY <1>1 DEF TableInv, TypeOK
  <2>. QED
    BY <1>1, <2>1, <2>2 DEF TableInv, TypeOK
<1>4. SlotTable'
  <2>1. \A s \in Slots : fd'[s] # None => fd'[s] \in Comics \ Expired /\ fd'[s] = fd[s]
    BY <1>1 DEF TableInv, TypeOK
  <2>2. \A c \in Comics : sock'[c].poll # None =>
           c \notin Expired /\ sock'[c].poll = sock[c].poll /\ sock[c].poll \in Slots
    BY <1>2 DEF TableInv, TypeOK, Sock
  <2>3. \A s \in Slots : fd'[s] # None => sock'[fd'[s]].poll = s
    BY <1>2, <2>1 DEF TableInv, SlotTable
  <2>4. \A c \in Comics : sock'[c].poll # None => fd'[sock'[c].poll] = c
    BY <1>1, <2>2 DEF TableInv, SlotTable
  <2>. QED
    BY <2>3, <2>4 DEF SlotTable
<1>5. Queue'
  BY <1>1, <1>2 DEF TableInv, Queue
<1>6. Open' = Open \ Expired
  BY <1>2 DEF Open
<1>. QED
  BY <1>3, <1>4, <1>5, <1>6 DEF TableInv

LEMMA OpenFinite ==
    /\ IsFiniteSet(Open) /\ Cardinality(Open) \in Nat
    /\ IsFiniteSet(Expired) /\ Cardinality(Expired) \in Nat
<1>1. IsFiniteSet(Comics)
  BY SizeAssumption, FS_Interval DEF Comics
<1>2. Open \in SUBSET Comics /\ Expired \in SUBSET Comics
  BY DEF Open, Expired
<1>3. IsFiniteSet(Open) /\ IsFiniteSet(Expired)
  BY <1>1, <1>2, FS_Subset
<1>. QED
  BY <1>3, FS_CardinalityType

LEMMA NextTable ==
    ASSUME TableInv, [Next]_vars
    PROVE  TableInv'
<1>1. CASE StartLink
  BY <1>1, StartLinkTable
<1>2. CASE StartComic
  BY <1>2, StartComicTable
<1>3. CASE LoopTest \/ StartNone \/ PollError
  <2>1. UNCHANGED <<mode, cur, head, outstanding, gotit, resets, fd, revents, sock,
                    matched, got, reset, exts, parts>>
        /\ pc' \in {"top", "start", "poll", "done"}
    BY <1>3 DEF LoopTest, StartNone, StartReturns, PollError, counts
  <2>. QED
    BY <2>1 DEF TableInv, TypeOK, SlotTable, Queue
<1>4. CASE PollIdle
  BY <1>4, OpenFinite, PollIdleTable
<1>5. CASE PollReady
  BY <1>5, PollReadyTable
<1>6. CASE \E c \in Comics : Turn(c)
  BY <1>6, TurnTable
<1>7. CASE UNCHANGED vars
  BY <1>7 DEF vars, TableInv, TypeOK, SlotTable, Queue
<1>. QED
  BY <1>1, <1>2, <1>3, <1>4, <1>5, <1>6, <1>7 DEF Next, Terminating

THEOREM TableInvariant == SafeSpec => []TableInv
<1>. QED
  BY InitTable, NextTable, PTL DEF SafeSpec

\* The variables keep their types, whatever fails.
THEOREM TypeCorrect == SafeSpec => []TypeOK
<1>1. TableInv => TypeOK
  BY DEF TableInv
<1>. QED
  BY <1>1, TableInvariant, PTL

\* The poll table and the connections agree, whatever fails: this is what
\* limits the open sockets to thread_limit and keeps connections apart.
THEOREM SlotTableCorrect == SafeSpec => []SlotTable
<1>1. TableInv => SlotTable
  BY DEF TableInv
<1>. QED
  BY <1>1, TableInvariant, PTL

-----------------------------------------------------------------------------
(* The count of open connections, under the faults the code handles.       *)

\* The loop is left only after its condition was false.
DoneInv == pc = "done" => head > N /\ outstanding <= 0

CountInv == TableInv /\ OutstandingExact /\ DoneInv

LEMMA InitCount == Init => CountInv
<1> SUFFICES ASSUME Init PROVE CountInv
  OBVIOUS
<1>1. Open = {}
  BY ReleasedType DEF Init, Open
<1>2. Cardinality(Open) = 0
  BY <1>1, FS_EmptySet
<1>. QED
  BY <1>2, InitTable DEF CountInv, OutstandingExact, DoneInv, Init

LEMMA OpenGrows ==
    ASSUME NEW c, Open' = Open \cup {c}, c \notin Open
    PROVE  Cardinality(Open') = Cardinality(Open) + 1
BY OpenFinite, FS_AddElement

LEMMA OpenShrinks ==
    ASSUME NEW c \in Open, Open' = Open \ {c}
    PROVE  Cardinality(Open') = Cardinality(Open) - 1
BY OpenFinite, FS_RemoveElement

LEMMA NextCount ==
    ASSUME CountInv, [Next]_vars, HandledFaults
    PROVE  outstanding' = Cardinality(Open)'
<1>1. TableInv /\ outstanding = Cardinality(Open)
  BY DEF CountInv, OutstandingExact
<1>2. Cardinality(Open) \in Nat /\ Cardinality(Expired) \in Nat
  BY OpenFinite
<1>3. CASE LoopTest \/ StartLink \/ StartNone \/ PollError \/ UNCHANGED vars
  <2>1. UNCHANGED <<outstanding, sock>>
    BY <1>3 DEF LoopTest, StartLink, StartNone, PollError, vars, counts
  <2>. QED
    BY <1>1, <2>1 DEF Open
<1>4. CASE StartComic
  <2>1. /\ head \in Comics /\ head \notin Open
        /\ \A d \in Comics \ {head} : sock'[d] = sock[d]
        /\ outstanding' = outstanding + (IF head \in Open' THEN 1 ELSE 0)
    BY <1>1, <1>4, StartComicEffect
  <2>2. CASE head \in Open'
    <3>1. Open' = Open \cup {head}
      BY <2>1, <2>2 DEF Open
    <3>. QED
      BY <1>1, <1>2, <2>1, <2>2, <3>1, OpenGrows
  <2>3. CASE head \notin Open'
    <3>1. Open' = Open
      BY <2>1, <2>3 DEF Open
    <3>. QED
      BY <1>1, <1>2, <2>1, <2>3, <3>1
  <2>. QED
    BY <2>2, <2>3
<1>5. CASE PollIdle
  <2>1. Open' = Open \ Expired /\ Expired \subseteq Open
    BY <1>1, <1>2, <1>5, PollIdleTable DEF Expired
  <2>2. Cardinality(Open') = Cardinality(Open) - Cardinality(Expired)
    <3>1. Open \cap Expired = Expired
      BY <2>1
    <3>2. Cardinality(Open \ Expired) = Cardinality(Open) - Cardinality(Open \cap Expired)
      BY OpenFinite, FS_Difference
    <3>. QED
      BY <2>1, <3>1, <3>2
  <2>. QED
    BY <1>1, <1>5, <2>2 DEF PollIdle
<1>6. CASE PollReady
  <2>1. Open' = Open
    BY <1>1, <1>6, PollReadyTable
  <2>. QED
    BY <1>1, <1>6, <2>1 DEF PollReady, counts
<1>7. CASE \E c \in Comics : Turn(c)
  <2>1. PICK c \in Comics : Turn(c)
    BY <1>7
  <2>2. CASE UNCHANGED <<fd, sock, outstanding>>
    BY <1>1, <2>2 DEF Open
  <2>3. CASE c \in Open /\ OneConnection(c)
    <3>1. \A d \in Comics \ {c} : sock'[d] = sock[d]
      BY <2>3 DEF OneConnection
    <3>2. Counted(c)
      BY <2>3 DEF OneConnection
    <3>3. CASE c \in Open'
      <4>1. Open' = Open
        BY <2>3, <3>1, <3>3 DEF Open
      <4>. QED
        BY <1>1, <3>2, <3>3, <4>1 DEF Counted
    <3>4. CASE c \notin Open'
      <4>1. Open' = Open \ {c}
        BY <2>3, <3>1, <3>4 DEF Open
      <4>. QED
        BY <1>1, <2>3, <3>2, <3>4, <4>1, OpenShrinks DEF Counted
    <3>. QED
      BY <3>3, <3>4
  <2>. QED
    BY <1>1, <2>1, <2>2, <2>3, TurnSocket DEF TableInv
<1>. QED
  BY <1>3, <1>4, <1>5, <1>6, <1>7 DEF Next, Terminating

LEMMA NextDone ==
    ASSUME TypeOK, DoneInv, [Next]_vars
    PROVE  DoneInv'
<1>1. CASE LoopTest
  <2>1. pc' = "done" => ~(head <= N) /\ ~(outstanding > 0)
    BY <1>1 DEF LoopTest
  <2>2. UNCHANGED <<head, outstanding>>
    BY <1>1 DEF LoopTest, counts
  <2>. QED
    BY <2>1, <2>2, SizeAssumption DEF DoneInv, TypeOK
<1>2. CASE Terminating \/ UNCHANGED vars
  <2>1. UNCHANGED <<pc, head, outstanding>>
    BY <1>2 DEF Terminating, vars
  <2>. QED
    BY <2>1 DEF DoneInv
<1>3. CASE StartLink \/ StartComic \/ StartNone
  <2>1. pc' # "done"
    BY <1>3 DEF StartLink, StartComic, StartNone, StartReturns, Starting
  <2>. QED
    BY <2>1 DEF DoneInv
<1>4. CASE PollError \/ PollIdle \/ PollReady
  BY <1>4 DEF PollError, PollIdle, PollReady, DoneInv
<1>5. CASE \E c \in Comics : Turn(c)
  BY <1>5 DEF Turn, DoneInv
<1>. QED
  BY <1>1, <1>2, <1>3, <1>4, <1>5 DEF Next

THEOREM CountInvariant == SafeSpec => []CountInv
<1>1. CountInv /\ [Next]_vars => CountInv'
  BY NextTable, NextCount, NextDone DEF CountInv, OutstandingExact, TableInv
<1>. QED
  BY <1>1, InitCount, PTL DEF SafeSpec

\* outstanding is exact as long as only faults the code handles occur.
THEOREM OutstandingCorrect == SafeSpec => []OutstandingExact
<1>1. CountInv => OutstandingExact
  BY DEF CountInv
<1>. QED
  BY <1>1, CountInvariant, PTL

\* The loop does not return while a connection is open or a comic is queued.
THEOREM NoAbandonCorrect == SafeSpec => []NoAbandon
<1>1. CountInv => NoAbandon
  <2> SUFFICES ASSUME CountInv, HandledFaults, pc = "done"
               PROVE  head = N + 1 /\ Open = {}
    BY DEF NoAbandon
  <2>1. head = N + 1 /\ Cardinality(Open) <= 0
    BY SizeAssumption DEF CountInv, TableInv, TypeOK, OutstandingExact, DoneInv
  <2>2. Open = {}
    BY <2>1, OpenFinite, FS_EmptySet
  <2>. QED
    BY <2>1, <2>2
<1>. QED
  BY <1>1, CountInvariant, PTL

\* A start always finds a slot: were none free, the table would map the slots
\* one to one into the open connections, and there are fewer of those.
THEOREM SlotForStartCorrect == SafeSpec => []SlotForStart
<1>1. CountInv => SlotForStart
  <2> SUFFICES ASSUME CountInv, HandledFaults, CanStart, FirstFree(fd) = {}
               PROVE  FALSE
    BY DEF SlotForStart
  <2>1. \A s \in Slots : fd[s] # None
    BY FreeSlotFound
  <2>2. fd \in Injection(Slots, Open)
    <3>1. fd \in [Slots -> Open]
      BY <2>1, SlotNotNone DEF CountInv, TableInv, TypeOK, SlotTable, Open
    <3>2. \A s, t \in Slots : fd[s] = fd[t] => s = t
      BY <2>1 DEF CountInv, TableInv, SlotTable
    <3>. QED
      BY <3>1, <3>2 DEF Injection, IsInjective
  <2>3. Cardinality(Slots) <= Cardinality(Open)
    BY <2>2, OpenFinite, FS_Injection
  <2>4. Cardinality(Slots) = Limit
    BY SizeAssumption, FS_Interval DEF Slots
  <2>5. Cardinality(Open) < Limit
    BY DEF CountInv, OutstandingExact, CanStart
  <2>. QED
    BY <2>3, <2>4, <2>5, OpenFinite, SizeAssumption
<1>. QED
  BY <1>1, CountInvariant, PTL

-----------------------------------------------------------------------------
(* The events that poll() reported.                                        *)

FreshInv == TableInv /\ FreshEvents

LEMMA OlderEvents ==
    ASSUME NEW s \in Sock, NEW time \in 0 .. 1
    PROVE  Older(s, time).events = s.events
BY DEF Older, Sock

LEMMA PollReadyFresh ==
    ASSUME TableInv, PollReady
    PROVE  FreshEvents'
<1>1. PICK ready \in (SUBSET Open) \ {{}}, time \in 0 .. 1 :
        /\ revents' = [s \in Slots |->
                         IF fd[s] \in ready THEN sock[fd[s]].events ELSE "none"]
        /\ sock' = [c \in Comics |->
                      IF c \in Open THEN Older(sock[c], time) ELSE sock[c]]
  BY DEF PollReady
<1>. SUFFICES ASSUME NEW c \in Comics, sock'[c].poll # None
              PROVE  revents'[sock'[c].poll] \in {"none", sock'[c].events}
  BY DEF FreshEvents, Revents, Open
<1>2. sock[c] \in Sock
  BY DEF TableInv, TypeOK
<1>3. sock'[c].poll = sock[c].poll /\ sock'[c].events = sock[c].events
  BY <1>1, <1>2, SockOlder, OlderEvents
<1>4. sock[c].poll \in Slots /\ fd[sock[c].poll] = c
  BY <1>2, <1>3 DEF TableInv, SlotTable, Sock
<1>. QED
  BY <1>1, <1>3, <1>4

LEMMA TurnFresh ==
    ASSUME FreshInv, NEW c \in Comics, Turn(c)
    PROVE  FreshEvents'
<1>. SUFFICES ASSUME pc' = "sweep", NEW d \in Comics, d >= cur', sock'[d].poll # None
              PROVE  Revents(d)' \in {"none", sock'[d].events}
  BY DEF FreshEvents, Open
<1>1. pc = "sweep" /\ cur = c /\ cur' = c + 1 /\ revents' = revents
  BY SizeAssumption DEF Turn, AfterTurn, Comics
<1>2. d # c /\ d >= cur
  BY <1>1, SizeAssumption DEF Comics
<1>3. sock'[d] = sock[d]
  BY <1>2, TurnSocket DEF FreshInv, TableInv, OneConnection
<1>. QED
  BY <1>1, <1>2, <1>3 DEF FreshInv, FreshEvents, Revents, Open

\* No turn of the sweep acts on what poll() said of another socket: within one
\* sweep a turn changes only its own connection, so the slots it frees and
\* takes are never asked for again before the next poll().
THEOREM FreshEventsCorrect == SafeSpec => []FreshEvents
<1>1. Init => FreshInv
  BY InitTable DEF Init, FreshInv, FreshEvents
<1>2. FreshInv /\ [Next]_vars => FreshInv'
  <2>. SUFFICES ASSUME FreshInv, [Next]_vars PROVE FreshEvents'
    BY NextTable DEF FreshInv
  <2>1. CASE PollReady
    BY <2>1, PollReadyFresh DEF FreshInv
  <2>2. CASE \E c \in Comics : Turn(c)
    BY <2>2, TurnFresh
  <2>3. CASE LoopTest \/ StartLink \/ StartComic \/ StartNone \/ PollError \/ PollIdle
    <3>1. pc' # "sweep"
      BY <2>3 DEF LoopTest, StartLink, StartComic, StartNone, StartReturns, Starting,
         PollError, PollIdle
    <3>. QED
      BY <3>1 DEF FreshEvents
  <2>4. CASE UNCHANGED vars
    BY <2>4 DEF vars, FreshInv, FreshEvents, Revents, Open
  <2>. QED
    BY <2>1, <2>2, <2>3, <2>4 DEF Next, Terminating
<1>3. FreshInv => FreshEvents
  BY DEF FreshInv
<1>. QED
  BY <1>1, <1>2, <1>3, PTL DEF SafeSpec

-----------------------------------------------------------------------------
(* What a turn does about the comics that are got.                         *)

\* The turn of c delivers c: its connection is closed with it.
Delivered(c) ==
    /\ c \in Open /\ c \notin Open'
    /\ got' = [got EXCEPT ![c] = TRUE]
    /\ ~LinksOnly => gotit' = gotit + 1
    /\ ~HeadOnly /\ c \in Regexp => matched'[c]

LEMMA CloseDelivers ==
    ASSUME TypeOK, SlotTable, NEW c \in Open, CloseConnection(c), UNCHANGED matched,
           HeadOnly \/ ~FirstStage(c)
    PROVE  Delivered(c)
<1>1. c \in Comics
  BY DEF Open
<1>2. /\ sock' = [sock EXCEPT ![c] = Released]
      /\ got' = [got EXCEPT ![c] = TRUE] /\ gotit' = gotit + 1
  BY DEF CloseConnection
<1>3. c \notin Open'
  BY <1>1, <1>2, ReleasedType DEF Open, TypeOK
<1>. QED
  BY <1>1, <1>2, <1>3 DEF Delivered, FirstStage

LEMMA HtmlGot ==
    ASSUME TypeOK, SlotTable, NEW c \in Open, NEW s, ProcessHtml(c, s)
    PROVE  /\ UNCHANGED <<gotit, got>> \/ Delivered(c)
           /\ matched' \in {matched, [matched EXCEPT ![c] = TRUE]}
<1>1. CASE FailConnection(c) /\ UNCHANGED matched
  BY <1>1 DEF FailConnection
<1>2. CASE HtmlLink(c)
  <2>1. /\ LinksOnly
        /\ matched' = [matched EXCEPT ![c] = TRUE]
        /\ got' = [got EXCEPT ![c] = TRUE]
        /\ sock' = [sock EXCEPT ![c] = Released]
    BY <1>2 DEF HtmlLink
  <2>2. c \notin Open'
    BY <2>1, ReleasedType DEF Open, TypeOK
  <2>3. matched'[c]
    BY <2>1 DEF Open, TypeOK
  <2>. QED
    BY <2>1, <2>2, <2>3 DEF Delivered
<1>3. CASE HtmlReuse(c, s) \/ HtmlKept(c, s)
  BY <1>3 DEF HtmlReuse, HtmlKept
<1>4. CASE HtmlOpen(c)
  BY <1>4 DEF HtmlOpen
<1>. QED
  BY <1>1, <1>2, <1>3, <1>4 DEF ProcessHtml

LEMMA BodyGot ==
    ASSUME TypeOK, SlotTable, NEW c \in Open, NEW s, Body(c, s)
    PROVE  /\ UNCHANGED <<gotit, got>> \/ Delivered(c)
           /\ matched' \in {matched, [matched EXCEPT ![c] = TRUE]}
<1>1. \/ UNCHANGED <<gotit, got, matched>>
      \/ FailConnection(c) /\ UNCHANGED matched
      \/ ~FirstStage(c) /\ CloseConnection(c) /\ UNCHANGED matched
      \/ ProcessHtml(c, s)
  BY DEF Body
<1>. QED
  BY <1>1, CloseDelivers, HtmlGot DEF FailConnection

\* A turn leaves the count and the marks alone, or delivers its own comic; and
\* a match once found stays.
LEMMA TurnGot ==
    ASSUME TypeOK, SlotTable, NEW c \in Comics, Turn(c)
    PROVE  /\ UNCHANGED <<gotit, got>> \/ Delivered(c)
           /\ matched' \in {matched, [matched EXCEPT ![c] = TRUE]}
<1>1. CASE SkipConn(c) \/ ReadPartial(c)
  BY SMTT(60), <1>1 DEF SkipConn, ReadPartial, counts
<1>2. CASE CheckTcp(c) \/ CheckTls(c) \/ WriteRequest(c)
  BY <1>2 DEF CheckTcp, CheckTls, WriteRequest, FailConnection
<1>3. CASE ReadReset(c) \/ ReplyBad(c) \/ ReplyRedirect(c)
  BY <1>3 DEF ReadReset, ReplyBad, ReplyRedirect, FailConnection
<1>4. CASE ReplyHead(c)
  BY <1>4, ReadyOpen, CloseDelivers DEF ReplyHead, Readable
<1>5. CASE ReplyOk(c)
  <2>1. c \in Open
    BY <1>5, ReadyOpen DEF ReplyOk, Readable
  <2>2. \/ UNCHANGED <<gotit, got, matched>>
        \/ Body(c, [sock[c] EXCEPT !.func = "read_body", !.out = FirstStage(c), !.age = 0])
    BY <1>5 DEF ReplyOk
  <2>. QED
    BY <2>1, <2>2, BodyGot
<1>6. CASE ReadBody(c)
  <2>1. c \in Open /\ Body(c, [sock[c] EXCEPT !.age = 0])
    BY <1>6, ReadyOpen DEF ReadBody, Readable
  <2>. QED
    BY <2>1, BodyGot
<1>. QED
  BY <1>1, <1>2, <1>3, <1>4, <1>5, <1>6 DEF Turn

-----------------------------------------------------------------------------
(* gotit.                                                                  *)

GotSet == {c \in Comics : got[c]}

\* An open connection has nothing yet, and gotit is the size of GotSet.
NotGot == \A c \in Open : ~got[c]
GotCount == ~LinksOnly => gotit = Cardinality(GotSet)
GotInv == TableInv /\ NotGot /\ GotCount /\ SecondStageGot

LEMMA ComicsCount ==
    ASSUME NEW S \in SUBSET Comics
    PROVE  /\ IsFiniteSet(S) /\ Cardinality(S) \in Nat
           /\ \A c \in Comics \ S : Cardinality(S \cup {c}) = Cardinality(S) + 1
<1>1. IsFiniteSet(Comics)
  BY SizeAssumption, FS_Interval DEF Comics
<1>2. IsFiniteSet(S)
  BY <1>1, FS_Subset
<1>. QED
  BY <1>2, FS_CardinalityType, FS_AddElement

LEMMA InitGot == Init => GotInv
<1>. SUFFICES ASSUME Init PROVE GotInv
  OBVIOUS
<1>1. Open = {} /\ GotSet = {}
  BY ReleasedType DEF Init, Open, GotSet
<1>2. gotit = Cardinality(GotSet)
  BY <1>1, FS_EmptySet DEF Init
<1>. QED
  BY <1>1, <1>2, InitTable, ModeAssumption
     DEF Init, GotInv, NotGot, GotCount, SecondStageGot

LEMMA TurnGotInv ==
    ASSUME GotInv, NEW c \in Comics, Turn(c)
    PROVE  NotGot' /\ GotCount' /\ SecondStageGot'
<1>1. TypeOK /\ SlotTable
  BY DEF GotInv, TableInv
<1>2. UNCHANGED <<fd, sock, outstanding>> \/ (c \in Open /\ OneConnection(c))
  BY <1>1, TurnSocket
<1>3. \A d \in Comics \ {c} : sock'[d] = sock[d]
  BY <1>2 DEF OneConnection
<1>4. UNCHANGED <<gotit, got>> \/ Delivered(c)
  BY <1>1, TurnGot
<1>5. \A d \in Comics : matched[d] => matched'[d]
  BY <1>1, TurnGot DEF TypeOK
<1>6. mode' = mode
  BY DEF Turn
<1>7. CASE UNCHANGED <<gotit, got>>
  <2>1. Open' \subseteq Open
    BY <1>2, <1>3 DEF Open
  <2>2. NotGot'
    BY <1>7, <2>1 DEF GotInv, NotGot
  <2>3. GotCount'
    BY <1>6, <1>7 DEF GotInv, GotCount, GotSet, LinksOnly
  <2>4. SecondStageGot'
    BY <1>1, <1>5, <1>6, <1>7, ModeAssumption DEF GotInv, SecondStageGot, HeadOnly
  <2>. QED
    BY <2>2, <2>3, <2>4
<1>8. CASE Delivered(c)
  <2>1. /\ c \in Open /\ c \notin Open'
        /\ got' = [got EXCEPT ![c] = TRUE]
        /\ ~LinksOnly => gotit' = gotit + 1
        /\ ~HeadOnly /\ c \in Regexp => matched'[c]
    BY <1>8 DEF Delivered
  <2>2. NotGot'
    BY <1>1, <1>3, <2>1 DEF GotInv, NotGot, Open, TypeOK
  <2>3. GotSet' = GotSet \cup {c} /\ c \in Comics \ GotSet /\ GotSet \in SUBSET Comics
    BY <1>1, <2>1 DEF GotInv, NotGot, GotSet, TypeOK
  <2>4. Cardinality(GotSet') = Cardinality(GotSet) + 1
    BY <2>3, ComicsCount
  <2>5. GotCount'
    BY <1>6, <2>1, <2>4 DEF GotInv, GotCount, LinksOnly
  <2>6. SecondStageGot'
    BY <1>1, <1>5, <1>6, <2>1, ModeAssumption DEF GotInv, SecondStageGot, HeadOnly, TypeOK
  <2>. QED
    BY <2>2, <2>5, <2>6
<1>. QED
  BY <1>4, <1>7, <1>8

LEMMA NextGot ==
    ASSUME GotInv, [Next]_vars
    PROVE  NotGot' /\ GotCount' /\ SecondStageGot'
<1>1. CASE \E c \in Comics : Turn(c)
  BY <1>1, TurnGotInv
<1>2. CASE StartLink
  <2>1. /\ head \in Comics /\ head \notin Regexp /\ LinksOnly
        /\ got' = [got EXCEPT ![head] = TRUE]
        /\ UNCHANGED <<mode, sock, matched>>
    BY <1>2, SizeAssumption DEF StartLink, CanStart, GotInv, TableInv, TypeOK, Comics
  <2>2. head \notin Open
    BY <2>1, SizeAssumption DEF GotInv, TableInv, Queue, TypeOK, Open
  <2>3. NotGot'
    BY <2>1, <2>2 DEF GotInv, TableInv, TypeOK, NotGot, Open
  <2>4. GotCount' /\ SecondStageGot'
    BY <2>1, ModeAssumption
       DEF GotInv, TableInv, TypeOK, GotCount, SecondStageGot, LinksOnly, HeadOnly
  <2>. QED
    BY <2>3, <2>4
<1>3. CASE ~StartLink /\ ~\E c \in Comics : Turn(c)
  <2>1. UNCHANGED <<mode, gotit, got, matched>>
    BY <1>3 DEF Next, LoopTest, StartComic, StartNone, PollError, PollIdle, PollReady,
       Terminating, vars, counts
  <2>2. GotCount' /\ SecondStageGot'
    BY <2>1 DEF GotInv, GotCount, GotSet, SecondStageGot, LinksOnly, HeadOnly
  <2>3. \A c \in Open' : c \in Open \/ c >= head
    <3>1. CASE StartComic
      <4>1. \A d \in Comics \ {head} : sock'[d] = sock[d]
        BY <3>1, StartComicEffect DEF GotInv
      <4>. QED
        BY <4>1, SizeAssumption DEF Open, GotInv, TableInv, TypeOK, Comics
    <3>2. CASE PollIdle
      BY <3>2, OpenFinite, PollIdleTable DEF GotInv
    <3>3. CASE PollReady
      BY <3>3, PollReadyTable DEF GotInv
    <3>4. CASE LoopTest \/ StartNone \/ PollError \/ UNCHANGED vars
      <4>1. sock' = sock
        BY <3>4 DEF LoopTest, StartNone, PollError, vars
      <4>. QED
        BY <4>1 DEF Open
    <3>. QED
      BY <1>3, <3>1, <3>2, <3>3, <3>4 DEF Next, Terminating
  <2>4. NotGot'
    BY <2>1, <2>3 DEF GotInv, TableInv, Queue, NotGot, Open
  <2>. QED
    BY <2>2, <2>4
<1>. QED
  BY <1>1, <1>2, <1>3

THEOREM GotInvariant == SafeSpec => []GotInv
<1>1. GotInv /\ [Next]_vars => GotInv'
  BY NextTable, NextGot DEF GotInv
<1>. QED
  BY <1>1, InitGot, PTL DEF SafeSpec

\* gotit, from which the program computes its exit status, counts every comic
\* that was got once, whatever was reset, redirected, failed or timed out.
THEOREM GotExactCorrect == SafeSpec => []GotExact
<1>1. GotInv => GotExact
  BY DEF GotInv, NotGot, GotCount, GotSet, GotExact
<1>. QED
  BY <1>1, GotInvariant, PTL

\* The page of a two stage comic is never taken for the comic.
THEOREM SecondStageGotCorrect == SafeSpec => []SecondStageGot
<1>1. GotInv => SecondStageGot
  BY DEF GotInv
<1>. QED
  BY <1>1, GotInvariant, PTL

-----------------------------------------------------------------------------
(* resets.                                                                 *)

ResetSet == {c \in Comics : reset[c] > 0}

\* A comic that has not been started has not been reset.
ResetQueue == \A c \in Comics : c >= head => reset[c] = 0
ResetInv == TableInv /\ ResetQueue /\ ResetsExact

LEMMA InitReset == Init => ResetInv
<1>. SUFFICES ASSUME Init PROVE ResetInv
  OBVIOUS
<1>1. Open = {} /\ {c \in Comics : reset[c] > 0} = {}
  BY ReleasedType DEF Init, Open
<1>2. resets = Cardinality({c \in Comics : reset[c] > 0})
  BY <1>1, FS_EmptySet DEF Init
<1>. QED
  BY <1>1, <1>2, InitTable DEF ResetInv, ResetQueue, ResetsExact, Init

LEMMA ReadResetInv ==
    ASSUME ResetInv, NEW c \in Comics, ReadReset(c), head' = head
    PROVE  ResetQueue' /\ ResetsExact'
<1>1. TypeOK /\ SlotTable
  BY DEF ResetInv, TableInv
<1>2. c \in Open /\ OneConnection(c)
  BY <1>1, ReadResetSocket
<1>3. /\ reset' = [reset EXCEPT ![c] = @ + 1]
      /\ resets' = resets + (IF reset[c] = 0 THEN 1 ELSE 0)
      /\ reset[c] >= 2 => FailConnection(c)
  BY <1>1 DEF ReadReset, CountReset, TypeOK
<1>4. c < head
  BY <1>1, <1>2, SizeAssumption DEF ResetInv, TableInv, Queue, Open, TypeOK, Comics
<1>5. ResetQueue'
  BY SMTT(60), <1>1, <1>3, <1>4, SizeAssumption DEF ResetInv, ResetQueue, TypeOK, Comics
<1>6. resets' = Cardinality(ResetSet')
  <2>1. resets = Cardinality(ResetSet) /\ ResetSet \in SUBSET Comics
    BY DEF ResetInv, ResetsExact, ResetSet
  <2>2. CASE reset[c] = 0
    <3>1. ResetSet' = ResetSet \cup {c} /\ c \notin ResetSet
      BY <1>1, <1>3, <2>2 DEF ResetSet, TypeOK
    <3>. QED
      BY <1>3, <2>1, <2>2, <3>1, ComicsCount
  <2>3. CASE reset[c] # 0
    <3>1. ResetSet' = ResetSet
      BY <1>1, <1>3, <2>3 DEF ResetSet, TypeOK
    <3>. QED
      BY <1>1, <1>3, <2>1, <2>3, <3>1 DEF TypeOK
  <2>. QED
    BY <2>2, <2>3
<1>7. \A d \in Open' : reset'[d] <= 2
  <2>. SUFFICES ASSUME NEW d \in Open' PROVE reset'[d] <= 2
    OBVIOUS
  <2>1. CASE d # c
    <3>1. d \in Comics /\ d \in Open
      BY <1>2, <2>1 DEF OneConnection, Open
    <3>. QED
      BY <1>1, <1>3, <2>1, <3>1 DEF ResetInv, ResetsExact, TypeOK
  <2>2. CASE d = c
    <3>1. ~FailConnection(c)
      BY <1>1, <2>2, ReleasedType DEF FailConnection, Open, TypeOK
    <3>. QED
      BY <1>1, <1>3, <2>2, <3>1 DEF TypeOK
  <2>. QED
    BY <2>1, <2>2
<1>. QED
  BY <1>5, <1>6, <1>7 DEF ResetsExact, ResetSet

LEMMA NextReset ==
    ASSUME ResetInv, [Next]_vars
    PROVE  ResetQueue' /\ ResetsExact'
<1>1. CASE \E c \in Comics : Turn(c) /\ ReadReset(c)
  BY <1>1, ReadResetInv DEF Turn
<1>2. CASE ~\E c \in Comics : Turn(c) /\ ReadReset(c)
  <2>1. UNCHANGED <<resets, reset>>
    BY <1>2 DEF Next, LoopTest, StartLink, StartComic, StartNone, PollError, PollIdle,
       PollReady, Turn, SkipConn, CheckTcp, CheckTls, WriteRequest, ReadPartial, ReplyBad,
       ReplyRedirect, ReplyHead, ReplyOk, ReadBody, Terminating, vars, counts
  <2>2. head' \in {head, head + 1}
    BY DEF Next, LoopTest, StartLink, StartComic, StartNone, PollError, PollIdle,
       PollReady, Turn, Terminating, vars
  <2>3. ResetQueue'
    BY <2>1, <2>2, SizeAssumption DEF ResetInv, TableInv, TypeOK, ResetQueue, Comics
  <2>4. \A c \in Open' : c \in Open \/ c >= head
    <3>1. CASE StartComic
      <4>1. \A d \in Comics \ {head} : sock'[d] = sock[d]
        BY <3>1, StartComicEffect DEF ResetInv
      <4>2. head \in Int
        BY SizeAssumption DEF ResetInv, TableInv, TypeOK
      <4>. QED
        BY <4>1, <4>2 DEF Open
    <3>2. CASE PollIdle
      BY <3>2, OpenFinite, PollIdleTable DEF ResetInv
    <3>3. CASE PollReady
      BY <3>3, PollReadyTable DEF ResetInv
    <3>4. CASE LoopTest \/ StartLink \/ StartNone \/ PollError \/ UNCHANGED vars
      <4>1. sock' = sock
        BY <3>4 DEF LoopTest, StartLink, StartNone, PollError, vars
      <4>. QED
        BY <4>1 DEF Open
    <3>5. CASE \E c \in Comics : Turn(c)
      BY <3>5, TurnSocket DEF ResetInv, TableInv, OneConnection, Open
    <3>. QED
      BY <3>1, <3>2, <3>3, <3>4, <3>5 DEF Next, Terminating
  <2>5. \A c \in Open' : reset'[c] <= 2
    BY <2>1, <2>4 DEF ResetInv, ResetQueue, ResetsExact, Open
  <2>. QED
    BY SMTT(60), <2>1, <2>3, <2>5 DEF ResetInv, ResetsExact
<1>. QED
  BY <1>1, <1>2

\* resets counts the comics that were ever reset, each once, and no comic
\* holds a connection after its third reset.
THEOREM ResetsExactCorrect == SafeSpec => []ResetsExact
<1>1. ResetInv /\ [Next]_vars => ResetInv'
  BY NextTable, NextReset DEF ResetInv
<1>2. ResetInv => ResetsExact
  BY DEF ResetInv
<1>. QED
  BY <1>1, <1>2, InitReset, PTL DEF SafeSpec

-----------------------------------------------------------------------------
(* Every step of the engine is a step of what Downloads promises, or        *)
(* changes nothing there.                                                   *)

\* What the steps of the engine are mapped with: the count of the connections
\* is right, and an open connection has nothing yet.
RefInv == CountInv /\ NotGot

\* The status of every comic, as the abstract specification sees it.
StatusMap == [c \in Comics |-> Status(c)]
Same == StatusMap' = StatusMap /\ (pc # "done")' = (pc # "done")

LEMMA SameStutters == Same => UNCHANGED Abstract!vars
BY DEF Same, StatusMap, Abstract!vars

LEMMA SameCardinality == \A S : Abstract!Cardinality(S) = Cardinality(S)
BY DEF Abstract!Cardinality, Cardinality

\* The active comics are the ones with a connection.
LEMMA ActiveOpen ==
    ASSUME TableInv
    PROVE  Abstract!With("active") = Open /\ Abstract!Comics = Comics
<1>1. Abstract!Comics = Comics
  BY DEF Abstract!Comics, Comics
<1>2. \A c \in Comics : Status(c) = "active" <=> c \in Open
  BY DEF Status, TableInv, Queue, Open
<1>3. Abstract!With("active") = {c \in Comics : StatusMap[c] = "active"}
  BY <1>1 DEF Abstract!With, StatusMap
<1>. QED
  BY <1>1, <1>2, <1>3 DEF StatusMap, Open

\* The comic at the head of the list is the first that is queued.
LEMMA HeadFirst ==
    ASSUME TableInv, head \in Comics
    PROVE  Abstract!AtHead(head)
<1>1. Status(head) = "queued"
  BY SizeAssumption DEF Status, Comics
<1>2. \A d \in 1 .. head - 1 : d \in Comics /\ Status(d) # "queued"
  BY SizeAssumption DEF Status, Comics
<1>. QED
  BY <1>1, <1>2 DEF Abstract!AtHead

\* A step that starts the comic at the head changes the status of no other.
LEMMA HeadStatus ==
    ASSUME TableInv, NEW h \in Comics, h = head, head' = head + 1,
           \A d \in Comics \ {h} :
               (d \in Open' <=> d \in Open) /\ got'[d] = got[d]
    PROVE  StatusMap' = [StatusMap EXCEPT ![h] = Status(h)']
<1>1. head \in Int /\ \A d \in Comics : d \in Int
  BY SizeAssumption DEF Comics
<1>2. \A d \in Comics \ {h} : Status(d)' = Status(d)
  BY <1>1 DEF Status
<1>. QED
  BY <1>2 DEF StatusMap

LEMMA StartLinkPasses ==
    ASSUME HandledFaults, RefInv, StartLink
    PROVE  \E h \in Comics : Abstract!Pass(h, "got")
<1>1. TableInv /\ outstanding = Cardinality(Open)
  BY DEF RefInv, CountInv, OutstandingExact
<1>2. PICK h \in Comics : h = head
  BY <1>1, SizeAssumption DEF TableInv, TypeOK, StartLink, CanStart, Comics
<1>3. /\ head' = head + 1 /\ outstanding < Limit
      /\ got' = [got EXCEPT ![h] = TRUE]
      /\ UNCHANGED sock
      /\ pc # "done" /\ pc' = pc
  BY <1>2 DEF StartLink, CanStart, Starting
<1>4. h \notin Open /\ Open' = Open
  BY <1>1, <1>2, <1>3, SizeAssumption DEF TableInv, Queue, Open, Comics
<1>5. Status(h)' = "got"
  BY <1>1, <1>2, <1>3, <1>4, SizeAssumption DEF Status, TableInv, TypeOK, Comics
<1>6. StatusMap' = [StatusMap EXCEPT ![h] = "got"]
  BY <1>1, <1>2, <1>3, <1>4, <1>5, HeadStatus DEF TableInv, TypeOK
<1>7. Abstract!AtHead(h) /\ Abstract!Cardinality(Abstract!With("active")) < Limit
  BY <1>1, <1>2, <1>3, HeadFirst, ActiveOpen, SameCardinality
<1>8. Abstract!Pass(h, "got")
  BY <1>3, <1>6, <1>7 DEF Abstract!Pass, StatusMap
<1>. QED
  BY <1>8

LEMMA StartComicStarts ==
    ASSUME HandledFaults, RefInv, StartComic
    PROVE  \E h \in Comics : Abstract!Start(h) \/ Abstract!Pass(h, "missed")
<1>1. TableInv /\ outstanding = Cardinality(Open)
  BY DEF RefInv, CountInv, OutstandingExact
<1>2. PICK h \in Comics : h = head /\ h \notin Open
                      /\ \A d \in Comics \ {h} : sock'[d] = sock[d]
  BY <1>1, StartComicEffect
<1>3. /\ head' = head + 1 /\ outstanding < Limit /\ got' = got
      /\ pc # "done" /\ pc' # "done"
  BY DEF StartComic, CanStart, Starting, StartReturns
<1>4. Status(h)' = IF h \in Open' THEN "active" ELSE "missed"
  BY <1>1, <1>2, <1>3, SizeAssumption DEF Status, TableInv, Queue, TypeOK, Comics
<1>5. StatusMap' = [StatusMap EXCEPT ![h] = Status(h)']
  <2>1. \A d \in Comics \ {h} : d \in Open' <=> d \in Open
    BY <1>2 DEF Open
  <2>. QED
    BY <1>1, <1>2, <1>3, <2>1, HeadStatus
<1>6. Abstract!AtHead(h) /\ Abstract!Cardinality(Abstract!With("active")) < Limit
  BY <1>1, <1>2, <1>3, HeadFirst, ActiveOpen, SameCardinality
<1>7. CASE h \in Open'
  <2>1. StatusMap' = [StatusMap EXCEPT ![h] = "active"]
    BY <1>4, <1>5, <1>7
  <2>2. Abstract!Start(h)
    BY <1>3, <1>6, <2>1 DEF Abstract!Start, StatusMap
  <2>. QED
    BY <2>2
<1>8. CASE h \notin Open'
  <2>1. StatusMap' = [StatusMap EXCEPT ![h] = "missed"]
    BY <1>4, <1>5, <1>8
  <2>2. Abstract!Pass(h, "missed")
    BY <1>3, <1>6, <2>1 DEF Abstract!Pass, StatusMap
  <2>. QED
    BY <2>2
<1>. QED
  BY <1>7, <1>8

\* Connections that go, with nothing got, are missed.
LEMMA GoneMissed ==
    ASSUME RefInv, NEW set \in SUBSET Open, set # {}, Open' = Open \ set,
           UNCHANGED <<head, got>>, pc # "done", pc' # "done"
    PROVE  Abstract!Miss(set) /\ set \in SUBSET Abstract!Comics
<1>1. TableInv /\ NotGot /\ set \in SUBSET Comics
  BY DEF RefInv, CountInv, Open
<1>2. \A c \in set : StatusMap[c] = "active"
  BY <1>1 DEF StatusMap, Status, TableInv, Queue, Open
<1>3. \A c \in Comics : Status(c)' = IF c \in set THEN "missed" ELSE Status(c)
  BY <1>1 DEF Status, NotGot, TableInv, Queue, Open
<1>4. StatusMap' = [c \in Comics |-> IF c \in set THEN "missed" ELSE StatusMap[c]]
  BY <1>3 DEF StatusMap
<1>. QED
  BY <1>1, <1>2, <1>4, ActiveOpen DEF Abstract!Miss, StatusMap

LEMMA TurnImplements ==
    ASSUME RefInv, NEW c \in Comics, Turn(c)
    PROVE  \/ Same
           \/ Abstract!Deliver(c)
           \/ Abstract!Miss({c}) /\ {c} \in SUBSET Abstract!Comics
<1>1. TableInv /\ TypeOK /\ SlotTable
  BY DEF RefInv, CountInv, TableInv
<1>2. UNCHANGED <<fd, sock, outstanding>> \/ (c \in Open /\ OneConnection(c))
  BY <1>1, TurnSocket
<1>3. UNCHANGED <<gotit, got>> \/ Delivered(c)
  BY <1>1, TurnGot
<1>4. pc # "done" /\ pc' # "done" /\ head' = head
  BY DEF Turn
<1>5. \A d \in Comics \ {c} : d \in Open' <=> d \in Open
  BY <1>2 DEF OneConnection, Open
<1>6. CASE Delivered(c)
  <2>1. c \in Open /\ c \notin Open' /\ got' = [got EXCEPT ![c] = TRUE]
    BY <1>6 DEF Delivered
  <2>2. Status(c) = "active" /\ Status(c)' = "got"
    BY <1>1, <1>4, <2>1 DEF Status, TableInv, Queue, TypeOK, Open
  <2>3. \A d \in Comics \ {c} : Status(d)' = Status(d)
    BY <1>1, <1>4, <1>5, <2>1 DEF Status, TypeOK
  <2>4. StatusMap[c] = "active" /\ StatusMap' = [StatusMap EXCEPT ![c] = "got"]
    BY <2>2, <2>3 DEF StatusMap
  <2>. QED
    BY <1>4, <2>4 DEF Abstract!Deliver, StatusMap
<1>7. CASE got' = got /\ (c \in Open' <=> c \in Open)
  <2>1. \A d \in Comics : Status(d)' = Status(d)
    BY <1>4, <1>5, <1>7 DEF Status
  <2>. QED
    BY <1>4, <2>1 DEF Same, StatusMap
<1>8. CASE got' = got /\ ~(c \in Open' <=> c \in Open)
  <2>1. c \in Open /\ c \notin Open'
    BY <1>2, <1>8 DEF Open
  <2>2. Open' = Open \ {c}
    BY <1>5, <2>1 DEF Open
  <2>. QED
    BY <1>4, <1>8, <2>1, <2>2, GoneMissed
<1>. QED
  BY <1>3, <1>6, <1>7, <1>8

LEMMA PollIdleImplements ==
    ASSUME RefInv, PollIdle
    PROVE  Same \/ (Abstract!Miss(Expired) /\ Expired \in SUBSET Abstract!Comics)
<1>1. Open' = Open \ Expired /\ Expired \in SUBSET Open
  BY OpenFinite, PollIdleTable DEF RefInv, CountInv, Expired
<1>2. pc # "done" /\ pc' # "done" /\ UNCHANGED <<head, got>>
  BY DEF PollIdle
<1>3. CASE Expired = {}
  <2>1. Open' = Open
    BY <1>1, <1>3
  <2>. QED
    BY <1>2, <2>1 DEF Same, StatusMap, Status
<1>4. CASE Expired # {}
  BY <1>1, <1>2, <1>4, GoneMissed
<1>. QED
  BY <1>3, <1>4

LEMMA LoopTestImplements ==
    ASSUME HandledFaults, RefInv, LoopTest
    PROVE  Same \/ Abstract!Stop
<1>1. /\ UNCHANGED <<head, outstanding, sock, got>> /\ pc # "done"
      /\ pc' = "done" => ~(head <= N) /\ ~(outstanding > 0)
  BY DEF LoopTest, counts
<1>2. StatusMap' = StatusMap
  BY <1>1 DEF StatusMap, Status, Open
<1>3. CASE pc' = "done"
  <2>1. TypeOK /\ TableInv /\ outstanding = Cardinality(Open)
    BY DEF RefInv, CountInv, TableInv, OutstandingExact
  <2>2. Open = {}
    <3>1. Cardinality(Open) \in Nat /\ ~(Cardinality(Open) > 0)
      BY <1>1, <1>3, <2>1, OpenFinite
    <3>2. Cardinality(Open) = 0
      BY <3>1
    <3>. QED
      BY <3>2, OpenFinite, FS_EmptySet
  <2>3. \A c \in Comics : Status(c) \in {"got", "missed"}
    BY <1>1, <1>3, <2>1, <2>2, SizeAssumption DEF Status, Comics, TypeOK
  <2>4. Abstract!Resolved = Comics
    BY <2>1, <2>3, ActiveOpen DEF Abstract!Resolved, Abstract!With
  <2>. QED
    BY <1>1, <1>2, <1>3, <2>1, <2>4, ActiveOpen DEF Abstract!Stop, StatusMap
<1>4. CASE pc' # "done"
  BY <1>1, <1>2, <1>4 DEF Same
<1>. QED
  BY <1>3, <1>4

LEMMA NextImplements ==
    ASSUME HandledFaults, RefInv, [Next]_vars
    PROVE  Abstract!Next \/ UNCHANGED Abstract!vars
<1>1. Abstract!Comics = Comics
  BY ActiveOpen DEF RefInv, CountInv
<1>2. CASE StartLink
  BY <1>1, <1>2, StartLinkPasses DEF Abstract!Next
<1>3. CASE StartComic
  BY <1>1, <1>3, StartComicStarts DEF Abstract!Next
<1>4. CASE LoopTest
  BY <1>4, LoopTestImplements, SameStutters DEF Abstract!Next
<1>5. CASE PollIdle
  BY <1>5, PollIdleImplements, SameStutters DEF Abstract!Next
<1>6. CASE \E c \in Comics : Turn(c)
  BY <1>1, <1>6, TurnImplements, SameStutters DEF Abstract!Next
<1>7. CASE PollReady
  <2>1. Open' = Open /\ UNCHANGED <<head, got>> /\ pc # "done" /\ pc' # "done"
    BY <1>7, PollReadyTable DEF RefInv, CountInv, PollReady
  <2>2. Same
    BY <2>1 DEF Same, StatusMap, Status
  <2>. QED
    BY <2>2, SameStutters
<1>8. CASE StartNone \/ PollError \/ UNCHANGED vars
  <2>1. UNCHANGED <<sock, head, got>> /\ (pc # "done")' = (pc # "done")
    BY <1>8 DEF StartNone, Starting, StartReturns, PollError, vars
  <2>2. Same
    BY <2>1 DEF Same, StatusMap, Status, Open
  <2>. QED
    BY <2>2, SameStutters
<1>. QED
  BY <1>2, <1>3, <1>4, <1>5, <1>6, <1>7, <1>8 DEF Next, Terminating

LEMMA InitImplements == Init => Abstract!Init
<1>. SUFFICES ASSUME Init PROVE Abstract!Init
  OBVIOUS
<1>1. \A c \in Comics : Status(c) = "queued"
  BY SizeAssumption DEF Init, Status, Comics
<1>. QED
  BY <1>1 DEF Init, Abstract!Init, Abstract!Comics, Comics

\* The engine keeps what Downloads promises about its steps: comics start in
\* the order of the list and at most Limit at once, each is resolved once and
\* for good, and the loop returns only when all of them are.  (That it does
\* return, the liveness half of ImplementsDownloads, is model-checked.)
THEOREM EngineImplements == HandledFaults => (SafeSpec => Abstract!SafeSpec)
<1>. SUFFICES ASSUME HandledFaults PROVE SafeSpec => Abstract!SafeSpec
  OBVIOUS
<1>1. CountInv /\ GotInv => RefInv
  BY DEF RefInv, GotInv
<1>2. RefInv /\ [Next]_vars => [Abstract!Next]_(Abstract!vars)
  BY NextImplements
<1>. QED
  BY <1>1, <1>2, InitImplements, CountInvariant, GotInvariant, PTL
     DEF SafeSpec, Abstract!SafeSpec
=============================================================================
