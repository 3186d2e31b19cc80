-------------------------- MODULE CurlEngineProofs --------------------------
(***************************************************************************)
(* What is proved about CurlEngine.tla, for every list, limit, mode and    *)
(* set of faults: the count of transfers, the names of the files, and that *)
(* the engine implements the safety part of Downloads.tla.                 *)
(***************************************************************************)
EXTENDS CurlEngine, FiniteSetTheorems, TLAPS

\* A comic that has not been started has nothing.
Queue == \A c \in Comics :
           c >= head => handle[c] = "none" /\ ~got[c] /\ exts[c] = 0

\* What is transferred is not got yet.
NotGot == \A c \in Open : ~got[c]

\* outstanding is never too low, so no transfer is left behind; with the
\* faults that are handled it is never too high.
Count ==
    /\ outstanding >= Cardinality(Open)
    /\ HandledFaults => outstanding = Cardinality(Open)

\* The name of a file is extended as the file is opened, but for the page of
\* a first stage, whose file has a name of its own.
Extended ==
    /\ \A c \in Comics : exts[c] <= 1
    /\ \A c \in Open : ~out[c] \/ FirstStage(c) => exts[c] = 0

\* The first loop calls start_next_comic Limit times.
Priming == pc = "prime" => primed < Limit

Inv == TypeOK /\ Priming /\ Queue /\ NotGot /\ Count /\ Extended

LEMMA OpenType ==
    /\ N \in Nat /\ Comics = 1 .. N /\ Open \in SUBSET Comics
    /\ IsFiniteSet(Open) /\ Cardinality(Open) \in Nat
<1>1. N \in Nat /\ Comics = 1 .. N /\ Open \in SUBSET Comics
  BY CurlAssumption DEF Comics, Open
<1>2. IsFiniteSet(1 .. N)
  BY <1>1, FS_Interval
<1>. QED
  BY <1>1, <1>2, FS_Subset, FS_CardinalityType

LEMMA OpenOlder ==
    ASSUME TypeOK, Queue, NEW c \in Open
    PROVE  c \in Comics /\ c < head
BY OpenType DEF TypeOK, Queue, Open

LEMMA OneCloses ==
    ASSUME NEW c \in Open, Open' = Open \ {c}
    PROVE  Cardinality(Open') = Cardinality(Open) - 1
BY OpenType, FS_RemoveElement

LEMMA OneOpens ==
    ASSUME NEW c \in Comics, c \notin Open, Open' = Open \cup {c}
    PROVE  Cardinality(Open') = Cardinality(Open) + 1
BY OpenType, FS_AddElement

LEMMA InitInv == Init => Inv
<1>. SUFFICES ASSUME Init PROVE Inv
  OBVIOUS
<1>1. Open = {}
  BY DEF Init, Open
<1>2. Cardinality(Open) = 0
  BY <1>1, FS_EmptySet
<1>3. TypeOK
  BY CurlAssumption DEF Init, TypeOK, Comics
<1>. QED
  BY <1>1, <1>2, <1>3, CurlAssumption DEF Init, Inv, Priming, Queue, NotGot, Count, Extended

-----------------------------------------------------------------------------
(* Starting comics.                                                        *)

LEMMA StartReturnsType ==
    ASSUME TypeOK, Starting, Priming, NEW rc, StartReturns(rc)
    PROVE  /\ pc' \in {"prime", "first", "top", "perform", "done"}
           /\ primed' \in 0 .. Limit
           /\ Priming'
BY CurlAssumption DEF TypeOK, StartReturns, Priming

LEMMA StartLinkInv ==
    ASSUME Inv, StartLink
    PROVE  Inv'
<1>1. /\ head \in Comics /\ head' = head + 1
      /\ got' = [got EXCEPT ![head] = TRUE] /\ gotit' = gotit + 2
      /\ UNCHANGED <<mode, pc, primed, outstanding, handle, broken, out, matched, exts>>
  BY OpenType DEF Inv, TypeOK, StartLink, CanStart, transfers
<1>2. TypeOK' /\ Priming' /\ Queue'
  BY <1>1, OpenType DEF Inv, TypeOK, Priming, Queue
<1>3. head \notin Open /\ Open' = Open
  BY <1>1, OpenType DEF Inv, TypeOK, Queue, Open
<1>4. NotGot' /\ Count' /\ Extended'
  BY <1>1, <1>3 DEF Inv, TypeOK, NotGot, Count, HandledFaults, LinksOnly, Extended, FirstStage,
     Open
<1>. QED
  BY <1>2, <1>4 DEF Inv

LEMMA StartComicInv ==
    ASSUME Inv, StartComic
    PROVE  Inv'
<1>1. PICK ok \in BOOLEAN :
        /\ BuildRequest(head, ok) /\ outstanding' = Started(ok)
        /\ IF ok THEN StartReturns(TRUE) ELSE UNCHANGED <<pc, primed>>
  BY DEF StartComic, Outcomes
<1>2. /\ head \in Comics /\ head' = head + 1
      /\ UNCHANGED <<mode, gotit, matched, got, exts>>
  BY OpenType DEF Inv, TypeOK, StartComic, CanStart
<1>3. /\ handle' = [handle EXCEPT ![head] = IF ok THEN "running" ELSE "none"]
      /\ broken' = [broken EXCEPT ![head] = FALSE]
      /\ out' = [out EXCEPT ![head] = FALSE]
      /\ outstanding' = outstanding + (IF ok THEN 1 ELSE 0)
  BY <1>1 DEF BuildRequest, Started
<1>4. TypeOK' /\ Priming'
  <2>1. /\ pc' \in {"prime", "first", "top", "perform", "done"}
        /\ primed' \in 0 .. Limit
        /\ Priming'
    BY <1>1, StartReturnsType DEF Inv, StartComic, Starting, TypeOK, Priming
  <2>2. /\ handle' \in [Comics -> {"none", "running", "ok", "error"}]
        /\ broken' \in [Comics -> BOOLEAN] /\ out' \in [Comics -> BOOLEAN]
        /\ outstanding' \in Int /\ head' \in 1 .. N + 1
    BY <1>2, <1>3, OpenType DEF Inv, TypeOK
  <2>. QED
    BY <1>2, <2>1, <2>2 DEF Inv, TypeOK
<1>5. Queue'
  BY <1>2, <1>3, OpenType DEF Inv, TypeOK, Queue
<1>6. head \notin Open /\ ~got[head] /\ exts[head] = 0
  BY <1>2, OpenType DEF Inv, Queue, Open
<1>7. Open' = IF ok THEN Open \cup {head} ELSE Open
  BY <1>2, <1>3, <1>6 DEF Open, Inv, TypeOK
<1>8. Cardinality(Open') = Cardinality(Open) + (IF ok THEN 1 ELSE 0)
  <2>1. CASE ok
    BY <1>2, <1>6, <1>7, <2>1, OneOpens
  <2>2. CASE ~ok
    BY <1>7, <2>2, OpenType
  <2>. QED
    BY <2>1, <2>2
<1>9. NotGot' /\ Extended'
  BY <1>2, <1>3, <1>6, <1>7 DEF Inv, TypeOK, NotGot, Extended, FirstStage, Open
<1>10. Count'
  BY <1>2, <1>3, <1>8, OpenType DEF Inv, TypeOK, Count, HandledFaults, LinksOnly
<1>. QED
  BY <1>4, <1>5, <1>9, <1>10 DEF Inv

-----------------------------------------------------------------------------
(* Transfers.                                                              *)

LEMMA WriteInv ==
    ASSUME Inv, NEW c \in Comics, Write(c)
    PROVE  Inv'
<1>1. /\ c \in Open /\ ~out[c]
      /\ out' = [out EXCEPT ![c] = TRUE]
      /\ exts' = [exts EXCEPT ![c] = @ + (IF FirstStage(c) THEN 0 ELSE 1)]
      /\ UNCHANGED <<mode, pc, primed, head, outstanding, gotit, handle, broken, matched, got>>
  BY DEF Write, Open
<1>2. exts[c] = 0 /\ c < head
  BY <1>1, OpenOlder DEF Inv, Extended
<1>3. TypeOK' /\ Priming' /\ Queue'
  BY <1>1, <1>2, OpenType DEF Inv, TypeOK, Priming, Queue
<1>4. Open' = Open
  BY <1>1 DEF Open
<1>5. NotGot' /\ Count'
  BY <1>1, <1>4 DEF Inv, NotGot, Count, HandledFaults, LinksOnly
<1>6. Extended'
  <2>1. /\ exts'[c] = IF FirstStage(c) THEN 0 ELSE 1
        /\ out'[c]
        /\ \A d \in Comics \ {c} : exts'[d] = exts[d] /\ out'[d] = out[d]
    BY <1>1, <1>2 DEF Inv, TypeOK
  <2>. QED
    BY <1>1, <1>4, <2>1 DEF Inv, Extended, FirstStage, Open
<1>. QED
  BY <1>3, <1>5, <1>6 DEF Inv

LEMMA FinishInv ==
    ASSUME Inv, NEW c \in Comics, Finish(c)
    PROVE  Inv' /\ Open' = Open
<1>1. PICK h \in {"error", "ok"} :
        /\ handle' = [handle EXCEPT ![c] = h]
        /\ \E b \in BOOLEAN : broken' = [broken EXCEPT ![c] = b] \/ broken' = broken
        /\ handle[c] = "running"
        /\ UNCHANGED <<mode, pc, primed, head, outstanding, gotit, out, matched, got, exts>>
  BY DEF Finish
<1>2. c \in Open /\ c < head
  BY <1>1, OpenOlder DEF Open, Inv
<1>3. TypeOK' /\ Priming' /\ Queue'
  BY <1>1, <1>2, OpenType DEF Inv, TypeOK, Priming, Queue
<1>4. Open' = Open
  BY <1>1 DEF Open, Inv, TypeOK
<1>. QED
  BY <1>1, <1>3, <1>4 DEF Inv, NotGot, Count, HandledFaults, LinksOnly, Extended, FirstStage

-----------------------------------------------------------------------------
(* msg_done.                                                               *)

\* What msg_done makes of the transfer c: it is over, or another begins.
Closes(c) ==
    /\ handle' = [handle EXCEPT ![c] = "none"]
    /\ out' = [out EXCEPT ![c] = FALSE]
    /\ broken' \in {broken, [broken EXCEPT ![c] = FALSE]}
    /\ got' \in {got, [got EXCEPT ![c] = TRUE]}
    /\ matched' \in {matched, [matched EXCEPT ![c] = TRUE]}
    /\ gotit' \in {gotit, gotit + 1}
    /\ \/ outstanding' = outstanding - 1
       \/ outstanding' = outstanding /\ ~HandledFaults

Reopens(c) ==
    /\ FirstStage(c)
    /\ handle' = [handle EXCEPT ![c] = "running"]
    /\ out' = [out EXCEPT ![c] = FALSE] /\ broken' = [broken EXCEPT ![c] = FALSE]
    /\ matched' = [matched EXCEPT ![c] = TRUE]
    /\ UNCHANGED <<outstanding, gotit, got>>

LEMMA MsgDoneEffect ==
    ASSUME TypeOK, NEW c \in Comics, MsgDone(c)
    PROVE  /\ c \in Open /\ (Closes(c) \/ Reopens(c)) /\ pc = "messages"
           /\ UNCHANGED <<mode, pc, primed, head, exts>>
<1>1. /\ c \in Open /\ pc = "messages"
      /\ UNCHANGED <<mode, pc, primed, head, exts>>
  BY DEF MsgDone, Ended, Open
<1>2. CASE (FailConnection(c) \/ CloseConnection(c)) /\ UNCHANGED matched
  <2>1. /\ handle' = [handle EXCEPT ![c] = "none"]
        /\ out' = [out EXCEPT ![c] = FALSE]
        /\ broken' = broken
    BY <1>2 DEF FailConnection, CloseConnection, ReleaseConnection
  <2>2. /\ got' \in {got, [got EXCEPT ![c] = TRUE]}
        /\ gotit' \in {gotit, gotit + 1}
        /\ outstanding' = outstanding - 1
        /\ matched' = matched
    BY <1>2 DEF FailConnection, CloseConnection
  <2>. QED
    BY <1>1, <2>1, <2>2 DEF Closes
<1>3. CASE FirstStage(c) /\ HtmlLink(c)
  <2>1. ~HandledFaults
    BY <1>3 DEF HtmlLink, FirstStage, HandledFaults
  <2>2. /\ handle' = [handle EXCEPT ![c] = "none"]
        /\ out' = [out EXCEPT ![c] = FALSE]
        /\ broken' = broken
    BY <1>3 DEF HtmlLink, ReleaseConnection
  <2>. QED
    BY <1>1, <1>3, <2>1, <2>2 DEF HtmlLink, Closes
<1>4. CASE FirstStage(c) /\ HtmlOpen(c)
  <2>1. PICK ok \in Outcomes("html") : BuildRequest(c, ok)
    BY <1>4 DEF HtmlOpen
  <2>2. matched' = [matched EXCEPT ![c] = TRUE] /\ UNCHANGED <<outstanding, gotit, got>>
    BY <1>4 DEF HtmlOpen
  <2>3. CASE ok = TRUE
    <3>1. handle' = [handle EXCEPT ![c] = "running"] /\ out' = [out EXCEPT ![c] = FALSE]
          /\ broken' = [broken EXCEPT ![c] = FALSE]
      BY <2>1, <2>3 DEF BuildRequest
    <3>. QED
      BY <1>1, <1>4, <2>2, <3>1 DEF Reopens
  <2>4. CASE ok # TRUE
    <3>1. handle' = [handle EXCEPT ![c] = "none"] /\ out' = [out EXCEPT ![c] = FALSE]
      BY <2>1, <2>4 DEF BuildRequest, Outcomes
    <3>2. ~HandledFaults
      BY <2>4 DEF HandledFaults, Outcomes
    <3>. QED
      BY <1>1, <2>1, <2>2, <2>4, <3>1, <3>2 DEF Closes, BuildRequest
  <2>. QED
    BY <2>3, <2>4
<1>. QED
  BY <1>1, <1>2, <1>3, <1>4 DEF MsgDone

LEMMA MsgDoneInv ==
    ASSUME Inv, NEW c \in Comics, MsgDone(c)
    PROVE  Inv'
<1>1. /\ c \in Open /\ (Closes(c) \/ Reopens(c)) /\ pc = "messages"
      /\ UNCHANGED <<mode, pc, primed, head, exts>>
  BY MsgDoneEffect DEF Inv
<1>2. c < head
  BY <1>1, OpenOlder DEF Inv
<1>3. Priming'
  BY <1>1 DEF Priming
<1>4. CASE Closes(c)
  <2>1. /\ handle' = [handle EXCEPT ![c] = "none"]
        /\ out' = [out EXCEPT ![c] = FALSE]
        /\ broken' \in {broken, [broken EXCEPT ![c] = FALSE]}
        /\ got' \in {got, [got EXCEPT ![c] = TRUE]}
        /\ matched' \in {matched, [matched EXCEPT ![c] = TRUE]}
        /\ gotit' \in {gotit, gotit + 1}
        /\ \/ outstanding' = outstanding - 1
           \/ outstanding' = outstanding /\ ~HandledFaults
    BY <1>4 DEF Closes
  <2>2. TypeOK'
    <3>1. /\ handle' \in [Comics -> {"none", "running", "ok", "error"}]
          /\ out' \in [Comics -> BOOLEAN] /\ broken' \in [Comics -> BOOLEAN]
      BY <2>1 DEF Inv, TypeOK
    <3>2. got' \in [Comics -> BOOLEAN] /\ matched' \in [Comics -> BOOLEAN]
      BY <2>1 DEF Inv, TypeOK
    <3>3. gotit' \in Nat /\ outstanding' \in Int
      BY <2>1 DEF Inv, TypeOK
    <3>. QED
      BY <1>1, <3>1, <3>2, <3>3 DEF Inv, TypeOK
  <2>3. Queue'
    BY <1>1, <1>2, <2>1, OpenType DEF Inv, TypeOK, Queue
  <2>4. Open' = Open \ {c}
    BY <2>1 DEF Open, Inv, TypeOK
  <2>5. NotGot'
    BY <2>1, <2>4 DEF Inv, TypeOK, NotGot, Open
  <2>6. Count'
    <3>1. Cardinality(Open') = Cardinality(Open) - 1
      BY <1>1, <2>4, OneCloses
    <3>2. HandledFaults' <=> HandledFaults
      BY <1>1 DEF HandledFaults, LinksOnly
    <3>. QED
      BY <2>1, <3>1, <3>2, OpenType DEF Inv, TypeOK, Count
  <2>7. Extended'
    <3>1. \A d \in Open' : d \in Open \ {c} /\ out'[d] = out[d] /\ matched'[d] = matched[d]
      BY <2>1, <2>4 DEF Inv, TypeOK, Open
    <3>. QED
      BY <1>1, <3>1 DEF Inv, Extended, FirstStage
  <2>. QED
    BY <1>3, <2>2, <2>3, <2>5, <2>6, <2>7 DEF Inv
<1>5. CASE Reopens(c)
  <2>1. /\ FirstStage(c)
        /\ handle' = [handle EXCEPT ![c] = "running"]
        /\ out' = [out EXCEPT ![c] = FALSE] /\ broken' = [broken EXCEPT ![c] = FALSE]
        /\ matched' = [matched EXCEPT ![c] = TRUE]
        /\ UNCHANGED <<outstanding, gotit, got>>
    BY <1>5 DEF Reopens
  <2>2. TypeOK'
    BY <1>1, <2>1 DEF Inv, TypeOK
  <2>3. Queue'
    BY <1>1, <1>2, <2>1, OpenType DEF Inv, TypeOK, Queue
  <2>4. Open' = Open
    BY <1>1, <2>1 DEF Open, Inv, TypeOK
  <2>5. NotGot' /\ Count'
    BY <1>1, <2>1, <2>4 DEF Inv, NotGot, Count, HandledFaults, LinksOnly
  <2>6. Extended'
    <3>1. exts[c] = 0
      BY <1>1, <2>1 DEF Inv, Extended
    <3>2. \A d \in Open' \ {c} : out'[d] = out[d] /\ matched'[d] = matched[d] /\ d \in Open
      BY <2>1, <2>4 DEF Inv, TypeOK, Open
    <3>. QED
      BY <1>1, <3>1, <3>2 DEF Inv, Extended, FirstStage
  <2>. QED
    BY <1>3, <2>2, <2>3, <2>5, <2>6 DEF Inv
<1>. QED
  BY <1>1, <1>4, <1>5

LEMMA NextInv ==
    ASSUME Inv, [Next]_vars
    PROVE  Inv'
<1>1. CASE StartLink \/ StartComic
  BY <1>1, StartLinkInv, StartComicInv
<1>2. CASE \E c \in Comics : Write(c) \/ Finish(c) \/ MsgDone(c)
  BY <1>2, WriteInv, FinishInv, MsgDoneInv
<1>3. CASE StartNone \/ PerformReturns \/ NoMessage \/ UNCHANGED vars
  <2>1. /\ pc' \in {"prime", "first", "top", "perform", "messages", "done"}
        /\ primed' \in 0 .. Limit /\ Priming'
    <3>1. CASE StartNone
      <4>1. StartReturns(head <= N)
        BY <3>1 DEF StartNone
      <4>. QED
        BY <3>1, <4>1, StartReturnsType DEF Inv, StartNone
    <3>2. CASE PerformReturns \/ NoMessage \/ UNCHANGED vars
      BY <3>2 DEF PerformReturns, NoMessage, vars, Inv, TypeOK, Priming
    <3>. QED
      BY <1>3, <3>1, <3>2
  <2>2. UNCHANGED <<mode, head, outstanding, gotit, handle, broken, out, matched, got, exts>>
    BY <1>3 DEF StartNone, PerformReturns, NoMessage, vars, transfers
  <2>. QED
    BY <2>1, <2>2 DEF Inv, TypeOK, Queue, NotGot, Count, HandledFaults, LinksOnly, Extended,
       FirstStage, Open
<1>. QED
  BY <1>1, <1>2, <1>3 DEF Next, Terminating

THEOREM Invariance == Spec => []Inv
<1>1. Inv /\ [Next]_vars => Inv'
  BY NextInv
<1>. QED
  BY <1>1, InitInv, PTL DEF Spec

\* outstanding is the number of transfers that libcurl holds, after the faults
\* that are handled (curl.c:116-129, common.c:231-262).
THEOREM CurlOutstanding == Spec => []OutstandingExact
<1>1. Inv => OutstandingExact
  BY DEF Inv, Count, OutstandingExact
<1>. QED
  BY <1>1, Invariance, PTL

\* No name ever gets two extensions, whatever the calls of write_callback
\* and whatever stage they belong to (curl.c:22-46).
THEOREM CurlOneExtension == Spec => []OneExtension
<1>1. Inv => OneExtension
  BY DEF Inv, Extended, OneExtension
<1>. QED
  BY <1>1, Invariance, PTL

-----------------------------------------------------------------------------
(* The refinement: whatever fails, no transfer is forgotten, so the steps  *)
(* are the ones Downloads allows.                                          *)

StatusMap == [c \in Comics |-> Status(c)]
Same == StatusMap' = StatusMap /\ (pc # "done")' = (pc # "done")

LEMMA SameStutters == Same => UNCHANGED Abstract!vars
BY DEF Same, StatusMap, Abstract!vars

LEMMA SameCardinality == \A S : Abstract!Cardinality(S) = Cardinality(S)
BY DEF Abstract!Cardinality, Cardinality

LEMMA ActiveOpen ==
    ASSUME Inv
    PROVE  Abstract!With("active") = Open /\ Abstract!Comics = Comics
<1>1. Abstract!Comics = Comics
  BY DEF Abstract!Comics, Comics
<1>2. \A c \in Comics : Status(c) = "active" <=> c \in Open
  BY DEF Status, Inv, Queue, Open
<1>3. Abstract!With("active") = {c \in Comics : StatusMap[c] = "active"}
  BY <1>1 DEF Abstract!With, StatusMap
<1>. QED
  BY <1>1, <1>2, <1>3 DEF StatusMap, Open

\* The head of the list, when there is one, may be started.
LEMMA HeadStarts ==
    ASSUME Inv, Starting, CanStart
    PROVE  \E h \in Comics : /\ h = head /\ Abstract!AtHead(h)
                             /\ Abstract!Cardinality(Abstract!With("active")) < Limit
<1>1. PICK h \in Comics : h = head
  BY OpenType DEF Inv, TypeOK, CanStart
<1>2. Status(h) = "queued" /\ \A d \in 1 .. h - 1 : d \in Comics /\ Status(d) # "queued"
  BY <1>1, OpenType DEF Status
<1>3. Abstract!AtHead(h)
  BY <1>2 DEF Abstract!AtHead
<1>4. Cardinality(Open) < Limit
  BY OpenType, CurlAssumption DEF Inv, TypeOK, Count, CanStart
<1>. QED
  BY <1>1, <1>3, <1>4, ActiveOpen, SameCardinality

\* A step that starts the comic at the head changes the status of no other.
LEMMA HeadStatus ==
    ASSUME NEW h \in Comics, h = head, head' = head + 1,
           \A d \in Comics \ {h} :
               (d \in Open' <=> d \in Open) /\ got'[d] = got[d]
    PROVE  StatusMap' = [StatusMap EXCEPT ![h] = Status(h)']
<1>1. head \in Int /\ \A d \in Comics : d \in Int
  BY OpenType
<1>2. \A d \in Comics \ {h} : Status(d)' = Status(d)
  BY <1>1 DEF Status
<1>. QED
  BY <1>2 DEF StatusMap

LEMMA StartLinkPasses ==
    ASSUME Inv, StartLink
    PROVE  \E h \in Comics : Abstract!Pass(h, "got")
<1>1. PICK h \in Comics : /\ h = head /\ Abstract!AtHead(h)
                          /\ Abstract!Cardinality(Abstract!With("active")) < Limit
  BY HeadStarts DEF StartLink
<1>2. /\ head' = head + 1 /\ got' = [got EXCEPT ![h] = TRUE] /\ UNCHANGED handle
      /\ pc # "done" /\ pc' = pc
  BY <1>1 DEF StartLink, Starting, transfers
<1>3. h \notin Open /\ Open' = Open
  BY <1>1, <1>2, OpenType DEF Inv, Queue, Open
<1>4. Status(h)' = "got"
  BY <1>1, <1>2, <1>3, OpenType DEF Status, Inv, TypeOK
<1>5. StatusMap' = [StatusMap EXCEPT ![h] = "got"]
  BY <1>1, <1>2, <1>3, <1>4, HeadStatus DEF Inv, TypeOK
<1>6. Abstract!Pass(h, "got")
  BY <1>1, <1>2, <1>5 DEF Abstract!Pass, StatusMap
<1>. QED
  BY <1>6

LEMMA StartComicStarts ==
    ASSUME Inv, StartComic
    PROVE  \E h \in Comics : Abstract!Start(h) \/ Abstract!Pass(h, "missed")
<1>1. PICK h \in Comics : /\ h = head /\ Abstract!AtHead(h)
                          /\ Abstract!Cardinality(Abstract!With("active")) < Limit
  BY HeadStarts DEF StartComic
<1>2. PICK ok \in BOOLEAN :
        /\ BuildRequest(h, ok) /\ outstanding' = Started(ok)
        /\ IF ok THEN StartReturns(TRUE) ELSE UNCHANGED <<pc, primed>>
  BY <1>1 DEF StartComic, Outcomes
<1>3. /\ handle' = [handle EXCEPT ![h] = IF ok THEN "running" ELSE "none"]
      /\ head' = head + 1 /\ got' = got
  BY <1>2 DEF BuildRequest, StartComic
<1>4. pc # "done" /\ pc' # "done"
  BY <1>2 DEF StartComic, Starting, StartReturns, GoesOn
<1>5. ~got[h] /\ handle[h] = "none"
  BY <1>1, OpenType DEF Inv, Queue
<1>6. (h \in Open' <=> ok) /\ \A d \in Comics \ {h} : d \in Open' <=> d \in Open
  BY <1>3 DEF Open, Inv, TypeOK
<1>7. Status(h)' = IF ok THEN "active" ELSE "missed"
  BY <1>1, <1>3, <1>5, <1>6, OpenType DEF Status
<1>8. StatusMap' = [StatusMap EXCEPT ![h] = Status(h)']
  BY <1>1, <1>3, <1>6, HeadStatus
<1>9. CASE ok
  <2>1. StatusMap' = [StatusMap EXCEPT ![h] = "active"]
    BY <1>7, <1>8, <1>9
  <2>2. Abstract!Start(h)
    BY <1>1, <1>4, <2>1 DEF Abstract!Start, StatusMap
  <2>. QED
    BY <2>2
<1>10. CASE ~ok
  <2>1. StatusMap' = [StatusMap EXCEPT ![h] = "missed"]
    BY <1>7, <1>8, <1>10
  <2>2. Abstract!Pass(h, "missed")
    BY <1>1, <1>4, <2>1 DEF Abstract!Pass, StatusMap
  <2>. QED
    BY <2>2
<1>. QED
  BY <1>9, <1>10

LEMMA MsgDoneEnds ==
    ASSUME Inv, NEW c \in Comics, MsgDone(c)
    PROVE  \/ Same
           \/ Abstract!Deliver(c)
           \/ Abstract!Miss({c}) /\ {c} \in SUBSET Abstract!Comics
<1>1. /\ c \in Open /\ (Closes(c) \/ Reopens(c)) /\ pc = "messages"
      /\ UNCHANGED <<mode, pc, primed, head, exts>>
  BY MsgDoneEffect DEF Inv
<1>2. c < head /\ ~got[c]
  BY <1>1, OpenOlder DEF Inv, NotGot
<1>3. CASE Reopens(c)
  <2>1. Open' = Open /\ got' = got
    BY <1>1, <1>3 DEF Reopens, Open, Inv, TypeOK
  <2>. QED
    BY <1>1, <2>1 DEF Same, StatusMap, Status
<1>4. CASE Closes(c)
  <2>1. /\ Open' = Open \ {c}
        /\ got' \in {got, [got EXCEPT ![c] = TRUE]}
    BY <1>4 DEF Closes, Open, Inv, TypeOK
  <2>2. Status(c) = "active" /\ Status(c)' = IF got'[c] THEN "got" ELSE "missed"
    <3>1. ~(c >= head) /\ ~(c >= head') /\ c \in Open /\ c \notin Open'
      BY <1>1, <1>2, <2>1, OpenOlder, OpenType DEF Inv, TypeOK
    <3>. QED
      BY <3>1 DEF Status
  <2>3. \A d \in Comics \ {c} : Status(d)' = Status(d)
    BY <1>1, <2>1 DEF Status, Inv, TypeOK
  <2>4. CASE got'[c]
    <3>1. StatusMap[c] = "active" /\ StatusMap' = [StatusMap EXCEPT ![c] = "got"]
      BY <2>2, <2>3, <2>4 DEF StatusMap
    <3>. QED
      BY <1>1, <3>1 DEF Abstract!Deliver, StatusMap
  <2>5. CASE ~got'[c]
    <3>1. /\ StatusMap[c] = "active"
          /\ StatusMap' = [d \in Comics |-> IF d \in {c} THEN "missed" ELSE StatusMap[d]]
      BY <2>2, <2>3, <2>5 DEF StatusMap
    <3>. QED
      BY <1>1, <3>1, ActiveOpen DEF Abstract!Miss, StatusMap
  <2>. QED
    BY <2>4, <2>5
<1>. QED
  BY <1>1, <1>3, <1>4

\* main_loop returns when there is nothing to start and outstanding is 0.
LEMMA StartNoneStops ==
    ASSUME Inv, StartNone
    PROVE  Same \/ Abstract!Stop
<1>1. /\ UNCHANGED <<head, outstanding, handle, got>> /\ pc # "done"
      /\ pc' = "done" => ~(head <= N) /\ ~(outstanding' # 0)
  BY DEF StartNone, Starting, StartReturns, GoesOn, transfers
<1>2. StatusMap' = StatusMap
  BY <1>1 DEF StatusMap, Status, Open
<1>3. CASE pc' = "done"
  <2>1. Cardinality(Open) = 0
    BY <1>1, <1>3, OpenType DEF Inv, TypeOK, Count
  <2>2. Open = {}
    BY <2>1, OpenType, FS_EmptySet
  <2>3. \A c \in Comics : Status(c) \in {"got", "missed"}
    BY <1>1, <1>3, <2>2, OpenType DEF Status, Inv, TypeOK
  <2>4. Abstract!Resolved = Comics
    BY <2>3, ActiveOpen DEF Abstract!Resolved, Abstract!With
  <2>. QED
    BY <1>1, <1>2, <1>3, <2>4, ActiveOpen DEF Abstract!Stop, StatusMap
<1>4. CASE pc' # "done"
  BY <1>1, <1>2, <1>4 DEF Same
<1>. QED
  BY <1>3, <1>4

LEMMA NextImplements ==
    ASSUME Inv, [Next]_vars
    PROVE  Abstract!Next \/ UNCHANGED Abstract!vars
<1>1. Abstract!Comics = Comics
  BY ActiveOpen
<1>2. CASE StartLink
  BY <1>1, <1>2, StartLinkPasses DEF Abstract!Next
<1>3. CASE StartComic
  BY <1>1, <1>3, StartComicStarts DEF Abstract!Next
<1>4. CASE StartNone
  BY <1>4, StartNoneStops, SameStutters DEF Abstract!Next
<1>5. CASE \E c \in Comics : MsgDone(c)
  BY <1>1, <1>5, MsgDoneEnds, SameStutters DEF Abstract!Next
<1>6. CASE \E c \in Comics : Write(c) \/ Finish(c)
  <2>1. Open' = Open /\ UNCHANGED <<head, got, pc>>
    BY <1>6, FinishInv DEF Write, Finish, Open
  <2>2. Same
    BY <2>1 DEF Same, StatusMap, Status
  <2>. QED
    BY <2>2, SameStutters
<1>7. CASE PerformReturns \/ NoMessage \/ UNCHANGED vars
  <2>1. UNCHANGED <<handle, head, got>> /\ (pc # "done")' = (pc # "done")
    BY <1>7 DEF PerformReturns, Performing, NoMessage, vars, transfers
  <2>2. Same
    BY <2>1 DEF Same, StatusMap, Status, Open
  <2>. QED
    BY <2>2, SameStutters
<1>. QED
  BY <1>2, <1>3, <1>4, <1>5, <1>6, <1>7 DEF Next, Terminating

LEMMA InitImplements == Init => Abstract!Init
<1>. SUFFICES ASSUME Init PROVE Abstract!Init
  OBVIOUS
<1>1. \A c \in Comics : Status(c) = "queued"
  BY OpenType DEF Init, Status
<1>. QED
  BY <1>1 DEF Init, Abstract!Init, Abstract!Comics, Comics

\* The curl engine keeps what Downloads promises about its steps, whatever
\* fails: comics are taken in order, no more than thread_limit at once, what
\* is resolved stays so, and main_loop returns only when all are.
THEOREM CurlImplements == Spec => ImplementsDownloads
<1>1. Inv /\ [Next]_vars => [Abstract!Next]_(Abstract!vars)
  BY NextImplements
<1>. QED
  BY <1>1, InitImplements, Invariance, PTL
     DEF Spec, ImplementsDownloads, Abstract!SafeSpec
=============================================================================
